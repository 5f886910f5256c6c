------------------------------- MODULE MCLogLine -------------------------------
(***************************************************************************)
(* LogLine with the sizes of a 64-bit build.  The strings are chosen to    *)
(* meet the ends of the buffers: 37 + 9 + 178 = 224 just fits the stack    *)
(* buffer, 179 does not; after 179, 278 fills the heap buffer of 512 and   *)
(* 279 makes it grow to 1024; 1200 outgrows every doubling.                *)
(***************************************************************************)
EXTENDS LogLine

Arg(k, t, n) == [kind |-> k, text |-> t, len |-> n]

LineArgs ==
  {Arg("value", "int32", 4), Arg("array", "literal", 0), Arg("array", "buf", 0),
   Arg("string", "buf", 178), Arg("string", "buf", 179), Arg("string", "str", 278),
   Arg("string", "str", 279), Arg("string", "str", 1200), Arg("string", "str", 0)}
================================================================================
