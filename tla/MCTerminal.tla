----------------------------- MODULE MCTerminal -----------------------------
(***************************************************************************)
(* Two terminals of two rows of two columns, lines of two characters.      *)
(***************************************************************************)
EXTENDS Terminal

Csi(s) == <<"esc", "[">> \o s

\* Text, the controls, each sequence the parser knows, and sequences cut short.
MCOutputs ==
  {<<"a">>, <<"newline">>, <<"backspace">>, <<"a", "return">>, <<"esc">>, Csi(<<>>),
   Csi(<<"2", "J">>), Csi(<<"2", ";", "2", "H">>), Csi(<<"3", "3", "3", ";", "3", "H">>),
   Csi(<<"3", "1", "m">>), Csi(<<"m">>)}
=============================================================================
