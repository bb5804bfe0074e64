------------------------------ MODULE Terminal ------------------------------
(***************************************************************************)
(* The console: the keyboard driver (kernel/drivers/ps2.c), the line       *)
(* discipline (kernel/fs/tty.c), the virtual terminals with their parser   *)
(* of escape sequences (kernel/fs/vt.c) and the VGA text screen            *)
(* (kernel/drivers/vga.c).  Keys arrive by interrupts between the writes   *)
(* and reads of programs, and echo through the same parser.  Who sleeps    *)
(* for a line and is woken by it is modelled in Kernel.                    *)
(***************************************************************************)
EXTENDS Integers, Sequences, FiniteSets, SequencesExt

CONSTANTS
  Ttys,      \* 0 .. MAX_VTS - 1
  Width,     \* VGA_WIDTH
  Height,    \* VGA_HEIGHT
  LineMax,   \* TTY_LINE_MAX
  IntRange,  \* half the number of values of an int
  Typed,     \* the keys besides Shift and Alt: characters, "F1" to "F4", "kpenter"
  Outputs,   \* what programs write: sequences of characters
  Counts,    \* how many bytes programs ask for
  MaxKeys,   \* bound: keys pressed
  MaxOutputs \* bound: writes of programs

\* A line fits on the screen above the last row, as 255 characters do on 25 rows of 80.
ASSUME ScreenAssumption ==
  /\ Width \in Nat \ {0} /\ Height \in Nat \ {0} /\ LineMax \in Nat \ {0, 1}
  /\ LineMax - 1 <= Width * (Height - 1)

VARIABLES
  held,           \* the Shift and Alt keys the user holds down
  wire,           \* scancodes the keyboard has sent and the handler not yet read
  shift_pressed,
  alt_pressed,
  extended_mode,
  ttys,           \* terminal -> what buf[0..len) holds
  vts,            \* terminal -> struct vt
  active,         \* active_vt_idx
  vga,            \* what the screen shows, and the hardware cursor
  clean,          \* history: terminal -> only echo since the line was begun
  keys,           \* how many keys have been pressed
  outputs         \* how many writes programs have made

vars == <<held, wire, shift_pressed, alt_pressed, extended_mode, ttys, vts, active, vga,
          clean, keys, outputs>>
keyboard == <<held, wire, shift_pressed, alt_pressed, extended_mode, keys>>

-----------------------------------------------------------------------------
(***************************************************************************)
(* A virtual terminal.  The operators take and return d: the terminal, the *)
(* screen, and whether the terminal is the one shown.                      *)
(***************************************************************************)

LightGrey == 7
Cell == 0..Width * Height - 1
Blank(attr) == <<" ", attr>>
Cursor(v) == v.cursor_y * Width + v.cursor_x

Blit(d) == IF d.shown THEN [d EXCEPT !.vga.cells = d.vt.buffer] ELSE d

VtSyncCursor(d) == IF d.shown THEN [d EXCEPT !.vga.cursor = Cursor(d.vt)] ELSE d

VtClear(v) ==
  [v EXCEPT !.buffer = [i \in Cell |-> Blank(v.current_attr)], !.cursor_x = 0, !.cursor_y = 0]

VtScroll(v) ==
  [v EXCEPT !.cursor_y = Height - 1,
            !.buffer = [i \in Cell |-> IF i + Width \in Cell THEN v.buffer[i + Width]
                                       ELSE Blank(v.current_attr)]]

\* Mutant: the screen is not redrawn after scrolling.
WrappedNoBlit(d) ==
  LET v == IF d.vt.cursor_x >= Width
           THEN [d.vt EXCEPT !.cursor_x = 0, !.cursor_y = @ + 1] ELSE d.vt
  IN IF v.cursor_y >= Height THEN [d EXCEPT !.vt = VtScroll(v)] ELSE [d EXCEPT !.vt = v]

\* The tail of vt_putc(): past the last column, past the last row.
Wrapped(d) ==
  LET v == IF d.vt.cursor_x >= Width
           THEN [d.vt EXCEPT !.cursor_x = 0, !.cursor_y = @ + 1] ELSE d.vt
  IN IF v.cursor_y >= Height THEN Blit([d EXCEPT !.vt = VtScroll(v)]) ELSE [d EXCEPT !.vt = v]

\* '\b': one cell back, to the row above from column 0, and the cell is blanked.
Back(v) ==
  LET w == IF v.cursor_x > 0 THEN [v EXCEPT !.cursor_x = @ - 1]
           ELSE IF v.cursor_y > 0 THEN [v EXCEPT !.cursor_y = @ - 1, !.cursor_x = Width - 1]
           ELSE v
  IN [w EXCEPT !.buffer[Cursor(w)] = Blank(w.current_attr)]

Glyph(d, c) ==
  LET v == d.vt
      cell == <<c, v.current_attr>>
  IN [d EXCEPT !.vt.buffer[Cursor(v)] = cell, !.vt.cursor_x = @ + 1,
               !.vga.cells = IF d.shown THEN [@ EXCEPT ![Cursor(v)] = cell] ELSE @]

VtPutc(d, c) ==
  LET put == CASE c = "newline"   -> [d EXCEPT !.vt.cursor_x = 0, !.vt.cursor_y = @ + 1]
               [] c = "backspace" -> [d EXCEPT !.vt = Back(d.vt)]
               [] c = "return"    -> [d EXCEPT !.vt.cursor_x = 0]
               [] OTHER           -> Glyph(d, c)
  IN VtSyncCursor(Wrapped(put))

\* The decimal digits that programs use here.
Digit == [c \in {"1", "2", "3"} |-> CHOOSE n \in 1..3 : c = <<"1", "2", "3">>[n]]

\* v->ansi_param * 10 + digit, in an int, which wraps in this build.
Shifted(p, c) == ((p * 10 + Digit[c] + IntRange) % (2 * IntRange)) - IntRange

\* The palette of mapping[], for parameters 30 to 37.
Colour == <<0, 4, 2, 6, 1, 5, 3, 7>>

SelectColour(v) ==
  [v EXCEPT !.ansi_state = 0,
            !.current_attr = IF v.ansi_param = 0 THEN LightGrey
                             ELSE IF v.ansi_param \in 30..37 THEN Colour[v.ansi_param - 29]
                             ELSE @]

EraseDisplay(d) ==
  LET v == [d.vt EXCEPT !.ansi_state = 0]
  IN IF v.ansi_param = 2 THEN Blit([d EXCEPT !.vt = VtClear(v)]) ELSE [d EXCEPT !.vt = v]

\* Parameters count from 1; 0 and less mean the first column or row.
Clamped(p, n) == IF p <= 0 THEN 0 ELSE IF p - 1 >= n THEN n - 1 ELSE p - 1

MoveCursor(d) ==
  VtSyncCursor([d EXCEPT !.vt.cursor_x = Clamped(d.vt.ansi_param2, Width),
                         !.vt.cursor_y = Clamped(d.vt.ansi_param, Height),
                         !.vt.ansi_state = 0])

\* In a sequence: a digit, ';', a final letter, or something else that ends it.
InSequence(d, c) ==
  LET v == d.vt IN
  CASE c \in DOMAIN Digit /\ v.ansi_state # 4 ->
         [d EXCEPT !.vt.ansi_state = 3, !.vt.ansi_param = Shifted(@, c)]
    [] c \in DOMAIN Digit /\ v.ansi_state = 4 ->
         [d EXCEPT !.vt.ansi_param2 = Shifted(@, c)]
    [] c = ";" -> [d EXCEPT !.vt.ansi_state = 4]
    [] c = "m" -> [d EXCEPT !.vt = SelectColour(v)]
    [] c = "J" -> EraseDisplay(d)
    [] c = "H" -> MoveCursor(d)
    [] OTHER   -> [d EXCEPT !.vt.ansi_state = 0]

VtParseAnsi(d, c) ==
  CASE d.vt.ansi_state = 0 /\ c = "esc" ->
         [d EXCEPT !.vt.ansi_state = 1, !.vt.ansi_param = 0, !.vt.ansi_param2 = 0]
    [] d.vt.ansi_state = 0 /\ c # "esc" -> VtPutc(d, c)
    [] d.vt.ansi_state = 1 /\ c = "[" -> [d EXCEPT !.vt.ansi_state = 2]
    [] d.vt.ansi_state = 1 /\ c # "[" -> VtPutc([d EXCEPT !.vt.ansi_state = 0], c)
    [] OTHER -> InSequence(d, c)

\* vt_write() of data to terminal t; the serial port gets a copy.
VtWrite(t, data) ==
  LET d == FoldLeft(VtParseAnsi, [vt |-> vts[t], vga |-> vga, shown |-> t = active], data)
  IN /\ vts' = [vts EXCEPT ![t] = d.vt]
     /\ vga' = d.vga

-----------------------------------------------------------------------------
(***************************************************************************)
(* The line discipline.                                                    *)
(***************************************************************************)

\* The line being typed: what follows the last newline.
Unfinished(buf) ==
  LET ends == {0} \cup {i \in DOMAIN buf : buf[i] = "newline"}
      last == CHOOSE i \in ends : \A j \in ends : j <= i
  IN SubSeq(buf, last + 1, Len(buf))

\* History: a line is clean while its echo alone has reached the terminal, outside any
\* escape sequence.
Keep(t, was) ==
  clean' = [clean EXCEPT ![t] = /\ was \/ Unfinished(ttys'[t]) = <<>>
                                /\ vts'[t].ansi_state = 0]

Accept(t, buf, echo) ==
  /\ ttys' = [ttys EXCEPT ![t] = buf]
  /\ VtWrite(t, echo)
  /\ Keep(t, clean[t])

Ignore == UNCHANGED <<ttys, vts, vga, clean>>

\* Mutants: '\b' reaches into the line before; the buffer fills to the last byte.
TtyBackspaceAnywhere(t) ==
  LET buf == ttys[t] IN
  IF buf # <<>> THEN Accept(t, Front(buf), <<"backspace", " ", "backspace">>) ELSE Ignore
TtyCharToTheEnd(t, c) ==
  IF Len(ttys[t]) < LineMax THEN Accept(t, Append(ttys[t], c), <<c>>) ELSE Ignore

TtyBackspace(t) ==
  LET buf == ttys[t] IN
  IF buf # <<>> /\ Last(buf) # "newline"
  THEN Accept(t, Front(buf), <<"backspace", " ", "backspace">>) ELSE Ignore

TtyNewline(t) ==
  LET buf == IF Len(ttys[t]) >= LineMax THEN SubSeq(ttys[t], 1, LineMax - 1) ELSE ttys[t]
  IN Accept(t, Append(buf, "newline"), <<"newline">>)

TtyChar(t, c) ==
  IF Len(ttys[t]) < LineMax - 1 THEN Accept(t, Append(ttys[t], c), <<c>>) ELSE Ignore

TtyReceiveChar(c) ==
  CASE c = "backspace" -> TtyBackspace(active)
    [] c = "newline"   -> TtyNewline(active)
    [] OTHER           -> TtyChar(active, c)

\* read(): the first complete line, or as much of it as was asked for.
TtyReadVfs(t, count) ==
  LET buf == ttys[t]
      ends == {i \in DOMAIN buf : buf[i] = "newline"}
      line == CHOOSE i \in ends : \A j \in ends : i <= j
      to_copy == IF count > line THEN line ELSE count
  IN /\ ends # {}
     /\ ttys' = [ttys EXCEPT ![t] = SubSeq(@, to_copy + 1, Len(@))]
     /\ UNCHANGED <<keyboard, vts, active, vga, clean, outputs>>

TtyWriteVfs(t, data) ==
  /\ outputs < MaxOutputs
  /\ outputs' = outputs + 1
  /\ VtWrite(t, data)
  /\ UNCHANGED <<keyboard, ttys, active>>
  /\ Keep(t, FALSE)

-----------------------------------------------------------------------------
(***************************************************************************)
(* The keyboard.  Right Alt sends 0xE0 and then the code of Alt, the Enter *)
(* key of the keypad 0xE0 and the code of Enter.  Shift and Alt are held   *)
(* while other keys are struck; those send a make and a break code.        *)
(***************************************************************************)

Shifts == {"lshift", "rshift"}
Alts == {"lalt", "ralt"}
Make(k) == [key |-> k, up |-> FALSE]
Break(k) == [key |-> k, up |-> TRUE]
Prefix == [key |-> "E0", up |-> FALSE]

Code(k, up) ==
  CASE k = "ralt"    -> <<Prefix, [key |-> "lalt", up |-> up]>>
    [] k = "kpenter" -> <<Prefix, [key |-> "newline", up |-> up]>>
    [] OTHER         -> <<[key |-> k, up |-> up]>>

\* The next key is pressed once the handler has read the codes of the last: the keyboard
\* never drops one, as it would while interrupts stay disabled for long.
Press(k) ==
  /\ keys < MaxKeys /\ wire = <<>> /\ k \notin held
  /\ keys' = keys + 1
  /\ \/ /\ k \in Typed
        /\ wire' = Code(k, FALSE) \o Code(k, TRUE)
        /\ UNCHANGED held
     \/ /\ k \notin Typed
        /\ wire' = Code(k, FALSE)
        /\ held' = held \cup {k}
  /\ UNCHANGED <<shift_pressed, alt_pressed, extended_mode, ttys, vts, active, vga, clean, outputs>>

Release(k) ==
  /\ k \in held /\ Len(wire) < 2
  /\ held' = held \ {k}
  /\ wire' = wire \o Code(k, TRUE)
  /\ UNCHANGED <<keys, shift_pressed, alt_pressed, extended_mode, ttys, vts, active, vga, clean,
                 outputs>>

VtSwitch(t) ==
  /\ active' = t
  /\ vga' = IF t = active THEN vga
            ELSE [cells |-> vts[t].buffer, cursor |-> Cursor(vts[t])]
  /\ UNCHANGED <<ttys, vts, clean>>

\* Mutant: the release of the right Alt key is not recognised.
ExtendedMakeOnly(code) ==
  /\ extended_mode' = FALSE
  /\ alt_pressed' = (alt_pressed \/ code = Make("lalt"))
  /\ UNCHANGED <<shift_pressed, ttys, vts, active, vga, clean>>

\* The code after 0xE0: only Alt means anything.
Extended(code) ==
  /\ extended_mode' = FALSE
  /\ alt_pressed' = IF code.key = "lalt" THEN ~code.up ELSE alt_pressed
  /\ UNCHANGED <<shift_pressed, ttys, vts, active, vga, clean>>

\* Shift and Alt, pressed or released, with their own flags.
Modifier(code) ==
  /\ shift_pressed' = IF code.key \in Shifts THEN ~code.up ELSE shift_pressed
  /\ alt_pressed' = IF code.key = "lalt" THEN ~code.up ELSE alt_pressed
  /\ UNCHANGED <<extended_mode, ttys, vts, active, vga, clean>>

\* The tables scancode_ascii[] and scancode_ascii_shift[].
Upper(c) == IF c = "a" THEN "A" ELSE c

FunctionKey == [k \in {"F1", "F2", "F3", "F4"} |->
                  CHOOSE n \in 0..3 : k = <<"F1", "F2", "F3", "F4">>[n + 1]]

\* F1 to F4 switch terminals while Alt is down, and are no characters.
Function(k) ==
  /\ IF alt_pressed THEN VtSwitch(FunctionKey[k]) ELSE Ignore /\ UNCHANGED active
  /\ UNCHANGED <<shift_pressed, alt_pressed, extended_mode>>

Character(c) ==
  /\ TtyReceiveChar(IF shift_pressed THEN Upper(c) ELSE c)
  /\ UNCHANGED <<active, shift_pressed, alt_pressed, extended_mode>>

Ps2HandleScancode(code) ==
  \/ /\ code = Prefix
     /\ extended_mode' = TRUE
     /\ UNCHANGED <<shift_pressed, alt_pressed, ttys, vts, active, vga, clean>>
  \/ /\ code # Prefix /\ extended_mode
     /\ Extended(code)
  \/ /\ code # Prefix /\ ~extended_mode
     /\ \/ code.key \in Shifts \cup {"lalt"} /\ Modifier(code)
        \/ /\ code.key \notin Shifts \cup {"lalt"} /\ code.up
           /\ UNCHANGED <<shift_pressed, alt_pressed, extended_mode, ttys, vts, active, vga, clean>>
        \/ ~code.up /\ code.key \in DOMAIN FunctionKey /\ Function(code.key)
        \/ /\ ~code.up /\ code.key \notin Shifts \cup {"lalt"} \cup DOMAIN FunctionKey
           /\ Character(code.key)

KeyboardIrqHandler ==
  /\ wire # <<>>
  /\ Ps2HandleScancode(Head(wire))
  /\ wire' = Tail(wire)
  /\ UNCHANGED <<held, keys, outputs>>

-----------------------------------------------------------------------------
FreshVt ==
  [buffer |-> [i \in Cell |-> Blank(LightGrey)], cursor_x |-> 0, cursor_y |-> 0,
   current_attr |-> LightGrey, ansi_state |-> 0, ansi_param |-> 0, ansi_param2 |-> 0]

\* tty_init() and vt_init().
Init ==
  /\ held = {} /\ wire = <<>>
  /\ shift_pressed = FALSE /\ alt_pressed = FALSE /\ extended_mode = FALSE
  /\ ttys = [t \in Ttys |-> <<>>]
  /\ vts = [t \in Ttys |-> FreshVt]
  /\ active = 0
  /\ vga = [cells |-> FreshVt.buffer, cursor |-> 0]
  /\ clean = [t \in Ttys |-> TRUE]
  /\ keys = 0 /\ outputs = 0

Next ==
  \/ \E k \in Shifts \cup Alts \cup Typed : Press(k)
  \/ \E k \in held : Release(k)
  \/ KeyboardIrqHandler
  \/ \E t \in Ttys, data \in Outputs : TtyWriteVfs(t, data)
  \/ \E t \in Ttys, count \in Counts : TtyReadVfs(t, count)

Spec == Init /\ [][Next]_vars

-----------------------------------------------------------------------------
\* Whatever programs write and wherever a sequence is cut short, the cursor of every
\* terminal stays on the screen; the screen shows the buffer of the active terminal, and
\* the hardware cursor is its cursor.  Cells that are blank in the buffer and a cursor in
\* the first cell are left out: '\b' blanks a cell in the buffer alone, and clearing the
\* screen does not move the hardware cursor.
ScreenIsCurrent ==
  LET v == vts[active] IN
  /\ \A t \in Ttys : vts[t].cursor_x \in 0..Width - 1 /\ vts[t].cursor_y \in 0..Height - 1
  /\ \A i \in Cell : vga.cells[i] = v.buffer[i] \/ v.buffer[i][1] = " "
  /\ vga.cursor = Cursor(v) \/ Cursor(v) = 0

\* What the user sees is what the program will read: while nothing but echo has reached
\* the terminal since the line was begun, the characters before the cursor are the line being edited, through
\* wrapping, scrolling, erasing back over the edge of a row, and switching terminals.
EchoShowsLine ==
  \A t \in Ttys :
    LET line == Unfinished(ttys[t])
        Shows(cells) ==
          \A k \in DOMAIN line : cells[Cursor(vts[t]) - Len(line) + k - 1][1] = line[k]
    IN clean[t] => /\ Cursor(vts[t]) >= Len(line)
                   /\ Shows(vts[t].buffer)
                   /\ t = active => Shows(vga.cells)

\* Once the handler has read every scancode, no modifier is taken to be down that the
\* user has released, with two keys for each of Shift and Alt and prefixed codes, none
\* of which was lost.  A modifier may be taken to be up while one of its keys is down.
NoStuckModifier ==
  wire = <<>> => /\ ~extended_mode
                 /\ shift_pressed => held \cap Shifts # {}
                 /\ alt_pressed => held \cap Alts # {}

\* The line buffer is full only with a newline at its end: Enter finds room behind the
\* characters of a line, and on a full buffer, where no line is begun, it overwrites a
\* newline and no character.
EnterHasRoom ==
  \A t \in Ttys : /\ Len(ttys[t]) <= LineMax
                  /\ Len(ttys[t]) = LineMax => Last(ttys[t]) = "newline"
=============================================================================
