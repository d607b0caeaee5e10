----------------------------- MODULE MCFlagSync -----------------------------
(* One client, which polls or follows the stream and has a listener for     *)
(* errors or none, and a buffer of one event: full buffers, chunks of two   *)
(* lines and overlapping refreshes all happen.                              *)
EXTENDS FlagSync
=============================================================================
