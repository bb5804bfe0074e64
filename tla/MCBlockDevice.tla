--------------------------- MODULE MCBlockDevice ---------------------------
(***************************************************************************)
(* Three sectors of two bytes: a write of four bytes from offset 1 ends in *)
(* the last sector and covers the second; a read of seven passes the end.   *)
(***************************************************************************)
EXTENDS BlockDevice

MCWrites == {<<1>>, <<1, 2, 1, 2>>}
MCReads == {1, 4, 7}
MCRuns == {1, 3}
=============================================================================
