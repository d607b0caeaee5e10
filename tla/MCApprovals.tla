----------------------------- MODULE MCApprovals -----------------------------
(* Small instances of Approvals.                                           *)
EXTENDS Approvals

CONSTANTS c0, c1, prod

MCPatches == {[enableAt |-> 1]}

\* The documented payload of a request, and one that also names the org.
MCRow == [BlankRow EXCEPT !.enabled = TRUE, !.config = c1]
WithOrg == {[env |-> prod, row |-> MCRow, org |-> TRUE]}
Documented == {[env |-> prod, row |-> MCRow, org |-> FALSE]}
BothPayloads == WithOrg \cup Documented

=============================================================================
