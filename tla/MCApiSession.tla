---------------------------- MODULE MCApiSession ----------------------------
(* Two GETs of one path and one write, two attempts: a call that joins, a   *)
(* call that repeats itself, and a write that shares a refresh with them.   *)
EXTENDS ApiSession
=============================================================================
