----------------------------- MODULE EventPipe -----------------------------
(***************************************************************************)
(* What the program that calls track() may rely on: an event it hands over *)
(* is pending until the server has it or it is given up, it is never both, *)
(* and nothing else becomes of it.  How often the server receives it, in   *)
(* which batch and in which order is left open.  AbmEvents implements it.  *)
(***************************************************************************)
CONSTANT Events

VARIABLES
    pending,     \* handed over, not settled
    delivered,   \* received by the server
    discarded    \* given up

pipeVars == <<pending, delivered, discarded>>

PipeInit == pending = {} /\ delivered = {} /\ discarded = {}

\* A new event is handed over, and some events S may be given up at once.
Accept(e, S) ==
    /\ e \notin pending \cup delivered \cup discarded
    /\ S \subseteq pending \cup {e}
    /\ pending' = (pending \cup {e}) \ S
    /\ discarded' = discarded \cup S
    /\ UNCHANGED delivered

\* The server receives some of the pending events.
Deliver(S) ==
    /\ S \subseteq pending
    /\ pending' = pending \ S
    /\ delivered' = delivered \cup S
    /\ UNCHANGED discarded

\* Some of the pending events are given up.
Discard(S) ==
    /\ S \subseteq pending
    /\ pending' = pending \ S
    /\ discarded' = discarded \cup S
    /\ UNCHANGED delivered

PipeNext ==
    \/ \E e \in Events, S \in SUBSET Events : Accept(e, S)
    \/ \E S \in SUBSET pending : Deliver(S) \/ Discard(S)

PipeSpec == PipeInit /\ [][PipeNext]_pipeVars
=============================================================================
