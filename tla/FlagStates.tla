----------------------------- MODULE FlagStates -----------------------------
(***************************************************************************)
(* The flag_states row of one flag in each environment, and those who      *)
(* write it: UpdateState, Kill, Promote and SyncEnvironments               *)
(* (api/handlers/flags.go) read a row, change it in memory and upsert it   *)
(* whole; the scheduler of each server (scheduler/scheduler.go) does the   *)
(* same for the rows whose schedule is due, under a PostgreSQL advisory    *)
(* lock (store/postgres/store.go); the console's Ship (store/postgres/     *)
(* console.go) updates two columns in place.                               *)
(***************************************************************************)
EXTENDS Naturals, FiniteSets

CONSTANTS
    Envs,       \* environments of the flag
    Configs,    \* default value and rules, as one opaque value
    Blank,      \* the Config of a new row
    Patches,    \* what an UpdateState request may ask for
    Shipped,    \* the rollout percentages Ship is asked for
    Editors,    \* edit requests in flight at once
    Servers,    \* server processes, each with its scheduler
    NoServer,   \* the advisory lock is free
    MaxEdits,   \* bound: edit requests
    MaxTime     \* bound: the clock, and the times schedules name

Fields == {"enabled", "config", "rollout", "variants", "enableAt", "disableAt"}

\* Schedule times are clock values, 0 is nil; variants 0 is none.
Times == 0..MaxTime
Row == [enabled : BOOLEAN, config : Configs, rollout : 0..100, variants : 0..1,
        enableAt : Times, disableAt : Times]

\* What UpdateState and Kill start from when there is no row.
BlankRow == [enabled |-> FALSE, config |-> Blank, rollout |-> 0, variants |-> 0,
             enableAt |-> 0, disableAt |-> 0]

\* The row an existing one becomes when the fields of p replace its own.
Merge(p, row) == [f \in Fields |-> IF f \in DOMAIN p THEN p[f] ELSE row[f]]

ASSUME BoundAssumption == MaxEdits \in Nat /\ MaxTime \in Nat
ASSUME BlankAssumption == Blank \in Configs
ASSUME ServerAssumption == NoServer \notin Servers
ASSUME ShipAssumption == Shipped \subseteq 0..100
ASSUME PatchAssumption ==
    \A p \in Patches, row \in Row : DOMAIN p \subseteq Fields /\ Merge(p, row) \in Row

\* A write in preparation: the row it will upsert and the fields it was asked
\* to change.  stale is ghost: the fields of which it does not hold the row's value,
\* because the read of the row failed or the row was written since.
Edit == [env : Envs, row : Row, asked : SUBSET Fields, stale : SUBSET Fields]

VARIABLES
    now,        \* the clock
    present,    \* the environments that have a row
    state,      \* the rows, blank where there is none
    edits,      \* edit requests between their read and their upsert, by editor
    begun,      \* how many edit requests began
    sched,      \* where the scheduler of a server is
    todo,       \* the scheduler's list of rows still to be written
    lock,       \* holder of advisory lock schedulerLockID
    wanted,     \* ghost: per field, what was last asked for
    mixed,      \* ghost: the fields a stale write has undone
    lockLost    \* ghost: the lock's connection failed during this tick

ghostVars == <<wanted, mixed, lockLost>>
schedVars == <<sched, todo, lock>>
editVars == <<edits, begun>>
rowVars == <<present, state>>
vars == <<now, rowVars, editVars, schedVars, ghostVars>>

SchedState == {"idle", "list", "apply", "audit", "unlock"}

TypeOK ==
    /\ now \in Times
    /\ present \subseteq Envs
    /\ state \in [Envs -> Row]
    /\ edits \in SUBSET (Editors \X Edit)
    /\ begun \in Nat
    /\ sched \in [Servers -> SchedState]
    /\ todo \in [Servers -> SUBSET Edit]
    /\ lock \in Servers \cup {NoServer}
    /\ wanted \in [Envs -> Row]
    /\ mixed \in [Envs -> SUBSET Fields]
    /\ lockLost \in [Servers -> BOOLEAN]

Init ==
    /\ now = 0
    /\ present = {}
    /\ state = [e \in Envs |-> BlankRow]
    /\ edits = {} /\ begun = 0
    /\ sched = [s \in Servers |-> "idle"]
    /\ todo = [s \in Servers |-> {}]
    /\ lock = NoServer
    /\ wanted = [e \in Envs |-> BlankRow]
    /\ mixed = [e \in Envs |-> {}]
    /\ lockLost = [s \in Servers |-> FALSE]

\* The clock moves.
Clock ==
    /\ now < MaxTime
    /\ now' = now + 1
    /\ UNCHANGED <<rowVars, editVars, schedVars, ghostVars>>

-----------------------------------------------------------------------------
(* Faulty variants: each is what a plausible bug would make of one of the  *)
(* operations below, and breaks a property (PROJECT.json).                 *)

\* The row that was read is forgotten: the request's fields replace a blank row's.
UpdateStateOfBlank(w, e, p) ==
    /\ begun < MaxEdits
    /\ \A x \in edits : x[1] # w
    /\ edits' = edits \cup {<<w, [env |-> e, row |-> Merge(p, BlankRow),
                                 asked |-> DOMAIN p, stale |-> {}]>>}
    /\ begun' = begun + 1
    /\ UNCHANGED <<now, rowVars, schedVars, ghostVars>>

\* The tick goes on when the lock is taken.
TryLockAnyway(s) ==
    /\ sched[s] = "idle"
    /\ lock' = s
    /\ sched' = [sched EXCEPT ![s] = "list"]
    /\ lockLost' = [lockLost EXCEPT ![s] = FALSE]
    /\ UNCHANGED <<now, rowVars, editVars, todo, wanted, mixed>>

\* The scheduler upserts only the columns it changes.
FireColumns(row) == [enabled |-> row.disableAt = 0, enableAt |-> 0, disableAt |-> 0]

\* The lock is a row, not a session lock: it survives its owner.
CrashKeepsLock(s) ==
    /\ sched[s] # "idle"
    /\ sched' = [sched EXCEPT ![s] = "idle"]
    /\ todo' = [todo EXCEPT ![s] = {}]
    /\ UNCHANGED <<now, rowVars, editVars, lock, ghostVars>>

-----------------------------------------------------------------------------
(* UpsertFlagState: the whole row is written, whatever it holds by now.    *)

\* Edit d once fields F of the row of e have been written.
Overtake(d, e, F) == IF d.env = e THEN [d EXCEPT !.stale = @ \cup F] ELSE d

\* A write of F to e overtakes the edits and list entries that remain, X and T.
OvertakeOthers(X, T, e, F) ==
    /\ edits' = {<<x[1], Overtake(x[2], e, F)>> : x \in X}
    /\ todo' = [s \in Servers |-> {Overtake(d, e, F) : d \in T[s]}]

\* The fields the upsert of d may change: those asked for, and the stale ones.
MayChange(d) == d.asked \cup d.stale

\* Edit d reaches the database.
Upsert(d) ==
    /\ present' = present \cup {d.env}
    /\ state' = [state EXCEPT ![d.env] = d.row]
    /\ wanted' = [wanted EXCEPT ![d.env] =
          [f \in Fields |-> IF f \in d.asked THEN d.row[f] ELSE @[f]]]
    /\ mixed' = [mixed EXCEPT ![d.env] = (@ \cup d.stale) \ d.asked]

-----------------------------------------------------------------------------
(* The edit requests.                                                      *)

\* Editor w has read what it needs and holds edit d.
Begin(w, d) ==
    /\ begun < MaxEdits
    /\ \A x \in edits : x[1] # w
    /\ edits' = edits \cup {<<w, d>>}
    /\ begun' = begun + 1
    /\ UNCHANGED <<now, rowVars, schedVars, ghostVars>>

\* What GetFlagState leaves a handler with: any error of it, that of a broken
\* connection too, is taken for "there is no row".
ReadRow(e) == {state[e], BlankRow}

\* The fields in which what was read is not what the row holds.
Unread(row, e) == {f \in Fields : row[f] # state[e][f]}

\* UpdateState: GetFlagState, then the request's fields replace the row's.
UpdateState(w, e, p) ==
    \E row \in ReadRow(e) :
        Begin(w, [env |-> e, row |-> Merge(p, row), asked |-> DOMAIN p,
                  stale |-> Unread(row, e)])

\* Kill: GetFlagState, then only Enabled changes; the schedules stay.
Kill(w, e) ==
    \E row \in ReadRow(e) :
        Begin(w, [env |-> e, row |-> [row EXCEPT !.enabled = FALSE],
                  asked |-> {"enabled"}, stale |-> Unread(row, e)])

\* What a promotion writes: a new row from the source's, with its variants or
\* without; it has no schedules.
Promoted(row, variants) ==
    [BlankRow EXCEPT !.enabled = row.enabled, !.config = row.config,
                     !.rollout = row.rollout, !.variants = variants]

\* Promote forgets the variants, SyncEnvironments copies them.  The flags of a
\* sync are independent of each other: this is one of them.
Promote(w, src, e) ==
    /\ src # e /\ src \in present
    /\ \E variants \in {0, state[src].variants} :
          Begin(w, [env |-> e, row |-> Promoted(state[src], variants),
                    asked |-> Fields, stale |-> {}])

\* Ship: one UPDATE of the rollout and the toggle, if there is a row.
Ship(e, p) ==
    /\ begun < MaxEdits
    /\ e \in present
    /\ state' = [state EXCEPT ![e].rollout = p, ![e].enabled = p > 0]
    /\ wanted' = [wanted EXCEPT ![e].rollout = p, ![e].enabled = p > 0]
    /\ mixed' = [mixed EXCEPT ![e] = @ \ {"rollout", "enabled"}]
    /\ OvertakeOthers(edits, todo, e, {"rollout", "enabled"})
    /\ begun' = begun + 1
    /\ UNCHANGED <<now, present, sched, lock, lockLost>>

\* The handler upserts and answers.
Commit(x) ==
    /\ Upsert(x[2])
    /\ OvertakeOthers(edits \ {x}, todo, x[2].env, MayChange(x[2]))
    /\ UNCHANGED <<now, begun, sched, lock, lockLost>>

\* The upsert fails, or the process dies first.
GiveUp(x) ==
    /\ edits' = edits \ {x}
    /\ UNCHANGED <<now, rowVars, begun, schedVars, ghostVars>>

-----------------------------------------------------------------------------
(* The scheduler's tick.                                                   *)

\* TryAdvisoryLock; when it is taken the tick is over.
TryLock(s) ==
    /\ sched[s] = "idle"
    /\ lock = NoServer
    /\ lock' = s
    /\ sched' = [sched EXCEPT ![s] = "list"]
    /\ lockLost' = [lockLost EXCEPT ![s] = FALSE]
    /\ UNCHANGED <<now, rowVars, editVars, todo, wanted, mixed>>

\* The schedule fields of a row that are due.
Due(row) == {f \in {"enableAt", "disableAt"} : row[f] # 0 /\ row[f] <= now}

\* Enable first, then disable: when both are due the flag ends disabled.
Fire(row) ==
    [row EXCEPT !.enabled = IF "disableAt" \in Due(row) THEN FALSE ELSE TRUE,
                !.enableAt = IF "enableAt" \in Due(row) THEN 0 ELSE @,
                !.disableAt = IF "disableAt" \in Due(row) THEN 0 ELSE @]

\* ListPendingSchedules; the new rows are computed from this list.
List(s) ==
    /\ sched[s] = "list"
    /\ sched' = [sched EXCEPT ![s] = "apply"]
    /\ todo' = [todo EXCEPT ![s] =
          {[env |-> e, row |-> Fire(state[e]),
            asked |-> Due(state[e]) \cup {"enabled"}, stale |-> {}]
             : e \in {e \in Envs : Due(state[e]) # {}}}]
    /\ UNCHANGED <<now, rowVars, editVars, lock, ghostVars>>

\* The query fails: the deferred release runs.
ListFails(s) ==
    /\ sched[s] = "list"
    /\ sched' = [sched EXCEPT ![s] = "unlock"]
    /\ UNCHANGED <<now, rowVars, editVars, todo, lock, ghostVars>>

\* One row of the list is upserted.
Apply(s, d) ==
    /\ sched[s] = "apply"
    /\ Upsert(d)
    /\ OvertakeOthers(edits, [todo EXCEPT ![s] = @ \ {d}], d.env, MayChange(d))
    /\ sched' = [sched EXCEPT ![s] = "audit"]
    /\ UNCHANGED <<now, begun, lock, lockLost>>

\* The upsert fails: the row is left for the next tick.
ApplyFails(s, d) ==
    /\ sched[s] = "apply"
    /\ todo' = [todo EXCEPT ![s] = @ \ {d}]
    /\ UNCHANGED <<now, rowVars, editVars, sched, lock, ghostVars>>

\* The audit entry is refused by the table, and the error is dropped.
Audit(s) ==
    /\ sched[s] = "audit"
    /\ sched' = [sched EXCEPT ![s] = "apply"]
    /\ UNCHANGED <<now, rowVars, editVars, todo, lock, ghostVars>>

\* ReleaseAdvisoryLock on the connection that took the lock.
Unlock(s) ==
    /\ \/ sched[s] = "unlock"
       \/ sched[s] = "apply" /\ todo[s] = {}
    /\ sched' = [sched EXCEPT ![s] = "idle"]
    /\ lock' = IF lock = s THEN NoServer ELSE lock
    /\ UNCHANGED <<now, rowVars, editVars, todo, ghostVars>>

\* The session that holds the lock fails; the tick goes on, over the pool.
LockConnLost(s) ==
    /\ lock = s
    /\ lock' = NoServer
    /\ lockLost' = [lockLost EXCEPT ![s] = TRUE]
    /\ UNCHANGED <<now, rowVars, editVars, sched, todo, wanted, mixed>>

\* The process dies within a tick; its sessions, and the lock, go with it.
Crash(s) ==
    /\ sched[s] # "idle"
    /\ sched' = [sched EXCEPT ![s] = "idle"]
    /\ todo' = [todo EXCEPT ![s] = {}]
    /\ lock' = IF lock = s THEN NoServer ELSE lock
    /\ UNCHANGED <<now, rowVars, editVars, ghostVars>>

Next ==
    \/ Clock
    \/ \E w \in Editors, e \in Envs :
          \/ \E p \in Patches : UpdateState(w, e, p)
          \/ Kill(w, e)
          \/ \E src \in Envs : Promote(w, src, e)
    \/ \E e \in Envs, p \in Shipped : Ship(e, p)
    \/ \E x \in edits : Commit(x) \/ GiveUp(x)
    \/ \E s \in Servers :
          \/ TryLock(s) \/ List(s) \/ ListFails(s) \/ Audit(s) \/ Unlock(s)
          \/ \E d \in todo[s] : Apply(s, d) \/ ApplyFails(s, d)
          \/ LockConnLost(s) \/ Crash(s)

Spec == Init /\ [][Next]_vars

\* Tickers fire; a store that is asked again and again does not always fail.
Fairness ==
    \A s \in Servers :
        /\ WF_vars(TryLock(s)) /\ WF_vars(Audit(s)) /\ WF_vars(Unlock(s))
        /\ SF_vars(List(s))
        /\ SF_vars(\E d \in todo[s] : Apply(s, d))

FairSpec == Spec /\ Fairness
-----------------------------------------------------------------------------
(* What the writers promise.                                               *)

\* A write from a row that was not read, or that had changed since, undoes exactly
\* what it was not asked for and did not know; every other field holds what was
\* last asked for it, and a request for a field that was undone puts it right.
LastRequestHolds ==
    \A e \in Envs : \A f \in Fields \ mixed[e] : state[e][f] = wanted[e][f]

\* Two servers are in a scheduler tick at once only if a lock connection failed
\* (the lock belongs to the session, the writes go over other connections).
OneTickAtATime ==
    \A s, t \in Servers :
        s # t /\ sched[s] # "idle" /\ sched[t] # "idle" => lockLost[s] \/ lockLost[t]

\* A schedule that is due is applied or replaced, whatever dies on the way.
DueIsApplied ==
    \A e \in Envs, f \in {"enableAt", "disableAt"} :
        f \in Due(state[e]) ~> f \notin Due(state[e])

=============================================================================
