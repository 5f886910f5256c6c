------------------------------ MODULE MCFileWriter ------------------------------
(***************************************************************************)
(* LogDirectory with lines of one and two bytes and a roll size of two: a  *)
(* file is filled exactly or exceeded by one byte by two lines or three,   *)
(* and never by one.                                                       *)
(***************************************************************************)
EXTENDS LogDirectory

LineWidths == {1, 2}
RunLines == LineWidths \X (1..MaxWrites)
LineWidth == [l \in RunLines |-> l[1]]
===============================================================================
