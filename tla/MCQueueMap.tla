----------------------------- MODULE MCQueueMap -----------------------------
(* Model checking QueueMap: all of its constants are given in the cfg.     *)
EXTENDS QueueMap
=============================================================================
