----------------------------- MODULE MCQuickLogger -----------------------------
(* QuickLogger on small instances. *)
EXTENDS QuickLogger
===============================================================================
