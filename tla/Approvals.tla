------------------------------ MODULE Approvals ------------------------------
(***************************************************************************)
(* Approval requests (api/handlers/approval.go, domain/approval.go) and    *)
(* the flag states they change.  A review reads the request, decides in    *)
(* memory, saves the request whole, upserts the flag state and saves the   *)
(* request again: five database calls and no transaction.                  *)
(***************************************************************************)
EXTENDS FlagStates

CONSTANTS
    Requests,     \* approval requests
    People,       \* organisation members; any may request, admins review
    Calls,        \* review calls in flight at once; one reviewer may submit twice
    Payloads,     \* the flag states that requests carry
    MaxFailures   \* bound: reviews cut short by a failed call or a crash

\* A payload is a JSON flag state; the documented ones have no org_id.
Payload == [env : Envs, row : Row, org : BOOLEAN]

ASSUME PayloadAssumption == Payloads \subseteq Payload
ASSUME FailureAssumption == MaxFailures \in Nat

\* A review past ProcessDecision.
Review == [call : Calls, by : People, of : Requests, as : {"approved", "rejected"},
           pc : {"save", "apply", "mark"}]

Status == {"none", "pending", "approved", "rejected", "applied"}

VARIABLES
    status,      \* approval_requests.status; "none" before the insert
    requestor,   \* who made the request
    payload,     \* what it asks for
    reviews,     \* reviews in flight
    failures,    \* how many reviews were cut short
    approvers,   \* history: whose approval was saved
    approvals,   \* history: how often an approval was saved
    writes       \* history: how often the payload was written

historyVars == <<approvers, approvals, writes>>
requestVars == <<status, requestor, payload, reviews, failures, historyVars>>

ApprovalTypeOK ==
    /\ TypeOK
    /\ status \in [Requests -> Status]
    /\ requestor \in [Requests -> People]
    /\ payload \in [Requests -> Payloads]
    /\ reviews \in SUBSET Review
    /\ failures \in Nat
    /\ approvers \in [Requests -> SUBSET People]
    /\ approvals \in [Requests -> Nat]
    /\ writes \in [Requests -> Nat]

ApprovalInit ==
    /\ Init
    /\ status = [a \in Requests |-> "none"]
    /\ requestor \in [Requests -> People]
    /\ payload \in [Requests -> Payloads]
    /\ reviews = {}
    /\ failures = 0
    /\ approvers = [a \in Requests |-> {}]
    /\ approvals = [a \in Requests |-> 0]
    /\ writes = [a \in Requests |-> 0]

-----------------------------------------------------------------------------
(* Faulty variants of the operations below, as in FlagStates.              *)

\* ProcessDecision does not ask who requested the change.
DecideOwn(c, r, a, decision) ==
    /\ status[a] = "pending"
    /\ \A v \in reviews : v.call # c
    /\ reviews' = reviews \cup {[call |-> c, by |-> r, of |-> a, as |-> decision,
                                pc |-> "save"]}
    /\ UNCHANGED <<vars, status, requestor, payload, failures, historyVars>>

\* The error of applyChange is logged and the review goes on.
ApplyRefusedGoesOn(v) ==
    /\ v.pc = "apply"
    /\ ~payload[v.of].org
    /\ reviews' = (reviews \ {v}) \cup {[v EXCEPT !.pc = "mark"]}
    /\ UNCHANGED <<vars, status, requestor, payload, failures, historyVars>>

\* The error of applyChange becomes a status of its own.
ApplyRefusedFails(v) ==
    /\ v.pc = "apply"
    /\ ~payload[v.of].org
    /\ status' = [status EXCEPT ![v.of] = "failed"]
    /\ reviews' = reviews \ {v}
    /\ UNCHANGED <<vars, requestor, payload, failures, historyVars>>

-----------------------------------------------------------------------------
(* The handlers.                                                           *)

\* Create: who asks, and for what, was chosen in the initial state.
Create(a) ==
    /\ status[a] = "none"
    /\ status' = [status EXCEPT ![a] = "pending"]
    /\ UNCHANGED <<vars, requestor, payload, reviews, failures, historyVars>>

\* The request is read and ProcessDecision accepts: pending, and not one's own.
Decide(c, r, a, decision) ==
    /\ status[a] = "pending"
    /\ requestor[a] # r
    /\ \A v \in reviews : v.call # c
    /\ reviews' = reviews \cup {[call |-> c, by |-> r, of |-> a, as |-> decision,
                                pc |-> "save"]}
    /\ UNCHANGED <<vars, status, requestor, payload, failures, historyVars>>

Becomes(v, w) == reviews' = (reviews \ {v}) \cup {w}

\* UpdateApprovalRequest: by id only, whatever the status is by now.
SaveDecision(v) ==
    /\ v.pc = "save"
    /\ status' = [status EXCEPT ![v.of] = v.as]
    /\ IF v.as = "approved"
       THEN /\ Becomes(v, [v EXCEPT !.pc = "apply"])
            /\ approvers' = [approvers EXCEPT ![v.of] = @ \cup {v.by}]
            /\ approvals' = [approvals EXCEPT ![v.of] = @ + 1]
       ELSE /\ reviews' = reviews \ {v}
            /\ UNCHANGED <<approvers, approvals>>
    /\ UNCHANGED <<vars, requestor, payload, failures, writes>>

\* applyChange: the payload replaces the whole row.
ApplyChange(v) ==
    /\ v.pc = "apply"
    /\ payload[v.of].org
    /\ LET d == [env |-> payload[v.of].env, row |-> payload[v.of].row,
                 asked |-> Fields, stale |-> {}]
       IN  /\ Upsert(d)
           /\ OvertakeOthers(edits, todo, d.env, Fields)
    /\ Becomes(v, [v EXCEPT !.pc = "mark"])
    /\ writes' = [writes EXCEPT ![v.of] = @ + 1]
    /\ UNCHANGED <<now, begun, sched, lock, lockLost, status, requestor,
                   payload, failures, approvers, approvals>>

\* The upsert refuses a payload without org_id (flag_states.org_id is a UUID);
\* the request stays approved.
ApplyRefused(v) ==
    /\ v.pc = "apply"
    /\ ~payload[v.of].org
    /\ reviews' = reviews \ {v}
    /\ UNCHANGED <<vars, status, requestor, payload, failures, historyVars>>

\* The second UpdateApprovalRequest.
MarkApplied(v) ==
    /\ v.pc = "mark"
    /\ status' = [status EXCEPT ![v.of] = "applied"]
    /\ reviews' = reviews \ {v}
    /\ UNCHANGED <<vars, requestor, payload, failures, historyVars>>

\* A call fails or the process dies: the review ends where it is.
ReviewFails(v) ==
    /\ failures < MaxFailures
    /\ failures' = failures + 1
    /\ reviews' = reviews \ {v}
    /\ UNCHANGED <<vars, status, requestor, payload, historyVars>>

ReviewNext ==
    \/ \E a \in Requests : Create(a)
    \/ \E c \in Calls, r \in People, a \in Requests, d \in {"approved", "rejected"} :
          Decide(c, r, a, d)
    \/ \E v \in reviews : \/ SaveDecision(v) \/ ApplyChange(v) \/ ApplyRefused(v)
                          \/ MarkApplied(v) \/ ReviewFails(v)

ApprovalNext ==
    \/ ReviewNext
    \/ Next /\ UNCHANGED requestVars

allVars == <<vars, requestVars>>
ApprovalSpec == ApprovalInit /\ [][ApprovalNext]_allVars

-----------------------------------------------------------------------------
\* A payload reaches the flag state only after somebody other than the requestor
\* approved it, and at most once per saved approval, also of a reviewer who submits
\* twice (Review, ProcessDecision).
FourEyes ==
    \A a \in Requests : /\ requestor[a] \notin approvers[a]
                        /\ writes[a] <= approvals[a]

\* "applied" is only ever the status of a change that was written, however the
\* reviews of one request interleave or fail.
AppliedWasWritten == \A a \in Requests : status[a] = "applied" => writes[a] > 0

\* docs/docs/advanced/approval-workflows.md:56-64: "Only pending requests can be
\* reviewed"; pending -> approved -> applied, pending -> rejected.
StatusFlow ==
    [][\A a \in Requests : status'[a] # status[a] =>
          <<status[a], status'[a]>> \in {<<"none", "pending">>, <<"pending", "approved">>,
                                         <<"pending", "rejected">>, <<"approved", "applied">>}
      ]_allVars

=============================================================================
