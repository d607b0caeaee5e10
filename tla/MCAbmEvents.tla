---------------------------- MODULE MCAbmEvents ----------------------------
(* Three events and a buffer of two: flushes by threshold and by timer,     *)
(* batches in backoff behind others, and events left for close().           *)
EXTENDS AbmEvents
=============================================================================
