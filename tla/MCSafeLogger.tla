----------------------------- MODULE MCSafeLogger -----------------------------
(* SafeLogger on small instances. *)
EXTENDS SafeLogger
===============================================================================
