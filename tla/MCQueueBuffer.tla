----------------------------- MODULE MCQueueBuffer -----------------------------
(* QueueBuffer on small instances. *)
EXTENDS QueueBuffer
===============================================================================
