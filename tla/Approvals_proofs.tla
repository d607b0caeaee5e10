--------------------------- MODULE Approvals_proofs ---------------------------
(***************************************************************************)
(* Proofs about FlagStates, the part of Approvals that every writer of     *)
(* flag states shares, and then about Approvals.                           *)
(*                                                                         *)
(* LastRequestHolds is not inductive: what it needs is that a write in     *)
(* preparation still agrees with the row on every field it was not asked   *)
(* to change and of which it is not stale.  That the payload of a request  *)
(* is written at most once per saved approval needs a count: an approval   *)
(* that was saved is waiting to be applied, was written, or was given up.  *)
(***************************************************************************)
EXTENDS Approvals, FiniteSetTheorems, TLAPS

-----------------------------------------------------------------------------
(* The flag states and their writers.                                      *)

\* Edit d leaves the fields alone it was not asked for and of which it is not stale.
Prepared(d) == \A f \in Fields \ MayChange(d) : d.row[f] = state[d.env][f]

AllPrepared == /\ \A x \in edits : Prepared(x[2])
               /\ \A s \in Servers : \A d \in todo[s] : Prepared(d)

\* A scheduler within a tick holds the lock, or lost its session.
HoldsLock == \A s \in Servers : sched[s] # "idle" => lock = s \/ lockLost[s]

IInv == TypeOK /\ AllPrepared /\ LastRequestHolds /\ HoldsLock

-----------------------------------------------------------------------------
(* The helpers.                                                            *)

LEMMA BlankIsRow == BlankRow \in Row
  BY BlankAssumption, BoundAssumption DEF BlankRow, Row, Times

\* Overtake keeps an edit an edit, of the same environment, row and request.
LEMMA OvertakeType ==
  ASSUME NEW d \in Edit, NEW e \in Envs, NEW F \in SUBSET Fields
  PROVE  /\ Overtake(d, e, F) \in Edit
         /\ Overtake(d, e, F).env = d.env
         /\ Overtake(d, e, F).row = d.row
         /\ d.env # e => Overtake(d, e, F) = d
         /\ d.env = e => MayChange(Overtake(d, e, F)) = MayChange(d) \cup F
  BY DEF Overtake, Edit, MayChange

\* An edit that was prepared stays prepared when a write changes fields F of row e.
LEMMA OvertakePrepared ==
  ASSUME TypeOK, NEW d \in Edit, Prepared(d), NEW e \in Envs, NEW F \in SUBSET Fields,
         NEW row, state' = [state EXCEPT ![e] = row],
         \A f \in Fields \ F : row[f] = state[e][f]
  PROVE  Prepared(Overtake(d, e, F))'
  <1> DEFINE o == Overtake(d, e, F)
  <1>1. o.env = d.env /\ o.row = d.row /\ d.env \in Envs
    BY OvertakeType DEF Edit
  <1>2. \A f \in Fields \ MayChange(o) : o.row[f] = state'[o.env][f]
    <2>1. CASE d.env = e
      <3>1. MayChange(o) = MayChange(d) \cup F /\ state'[e] = row
        BY <2>1, OvertakeType DEF TypeOK
      <3> HIDE DEF o
      <3> QED
        BY <1>1, <2>1, <3>1 DEF Prepared
    <2>2. CASE d.env # e
      <3>1. o = d /\ state'[d.env] = state[d.env]
        BY <1>1, <2>2, OvertakeType DEF TypeOK
      <3> QED
        BY <3>1 DEF Prepared
    <2> QED
      BY <2>1, <2>2
  <1> HIDE DEF o
  <1>3. PICK q : q = o
    OBVIOUS
  <1>4. Prepared(q)'
    BY <1>2, <1>3 DEF Prepared, MayChange
  <1> QED
    BY <1>3, <1>4 DEF o

\* Fire yields a row and touches only the toggle and the schedules that are due.
LEMMA FireKeepsTheRest ==
  ASSUME NEW r \in Row
  PROVE  /\ Fire(r) \in Row
         /\ \A f \in Fields \ (Due(r) \cup {"enabled"}) : Fire(r)[f] = r[f]
  <1>1. 0 \in Times
    BY BoundAssumption DEF Times
  <1>2. Fire(r) \in Row
    BY <1>1 DEF Fire, Row
  <1>3. ASSUME NEW f \in Fields, f \notin Due(r), f # "enabled"
        PROVE  Fire(r)[f] = r[f]
    BY <1>3 DEF Fire, Row, Fields
  <1> QED
    BY <1>2, <1>3

\* What a promotion writes is a row.
LEMMA PromotedIsRow ==
  ASSUME NEW r \in Row, NEW v \in {0, r.variants}
  PROVE  Promoted(r, v) \in Row
  <1>1. v \in 0..1
    BY DEF Row
  <1> QED
    BY <1>1, BlankIsRow DEF Promoted, Row

-----------------------------------------------------------------------------
(* The one step that writes a row, as the handlers and the scheduler use it. *)

LEMMA UpsertPreserves ==
  ASSUME TypeOK, AllPrepared, LastRequestHolds,
         NEW d \in Edit, Prepared(d),
         NEW X \in SUBSET edits,
         NEW T \in [Servers -> SUBSET Edit],
         \A s \in Servers : T[s] \subseteq todo[s],
         Upsert(d), NEW F, F = MayChange(d), OvertakeOthers(X, T, d.env, F)
  PROVE  /\ present' \subseteq Envs
         /\ state' \in [Envs -> Row]
         /\ wanted' \in [Envs -> Row]
         /\ mixed' \in [Envs -> SUBSET Fields]
         /\ edits' \in SUBSET (Editors \X Edit)
         /\ todo' \in [Servers -> SUBSET Edit]
         /\ AllPrepared' /\ LastRequestHolds'
  <1> DEFINE e == d.env
             w == [f \in Fields |-> IF f \in d.asked THEN d.row[f] ELSE wanted[e][f]]
             m == (mixed[e] \cup d.stale) \ d.asked
  <1>1. /\ e \in Envs /\ d.row \in Row /\ d.asked \subseteq Fields
        /\ d.stale \subseteq Fields /\ F = d.asked \cup d.stale
    BY DEF Edit, MayChange
  <1>2. wanted[e] \in Row /\ state[e] \in Row /\ mixed[e] \subseteq Fields
    BY <1>1 DEF TypeOK
  <1>3. w \in Row
    BY <1>1, <1>2 DEF Row, Fields
  <1>4. state' = [state EXCEPT ![e] = d.row]
    BY DEF Upsert
  <1>5. wanted' = [wanted EXCEPT ![e] = w]
    BY DEF Upsert
  <1>6. mixed' = [mixed EXCEPT ![e] = m]
    BY DEF Upsert
  <1>7. present' \subseteq Envs /\ state' \in [Envs -> Row] /\ wanted' \in [Envs -> Row]
    BY <1>1, <1>3, <1>4, <1>5 DEF TypeOK, Upsert
  <1>8. mixed' \in [Envs -> SUBSET Fields]
    BY <1>1, <1>2, <1>6 DEF TypeOK
  <1>9. edits' = {<<x[1], Overtake(x[2], e, F)>> : x \in X}
    BY DEF OvertakeOthers
  <1>10. todo' = [s \in Servers |-> {Overtake(c, e, F) : c \in T[s]}]
    BY DEF OvertakeOthers
  <1>11. ASSUME NEW x \in X PROVE x[1] \in Editors /\ x[2] \in Edit /\ Prepared(x[2])
    BY DEF TypeOK, AllPrepared
  <1>12. edits' \in SUBSET (Editors \X Edit)
    BY <1>1, <1>9, <1>11, OvertakeType
  <1>13. todo' \in [Servers -> SUBSET Edit]
    BY <1>1, <1>10, OvertakeType
  <1>14. ASSUME NEW c \in Edit, Prepared(c)
         PROVE  Prepared(Overtake(c, e, F))'
    <2>1. \A f \in Fields \ F : d.row[f] = state[e][f]
      BY DEF Prepared
    <2> HIDE DEF e
    <2> QED
      BY <1>1, <1>4, <1>14, <2>1, OvertakePrepared
  <1>15. AllPrepared'
    <2>1. ASSUME NEW y \in edits' PROVE Prepared(y[2])'
      <3>1. PICK x \in X : y = <<x[1], Overtake(x[2], e, F)>>
        BY <1>9
      <3>2. Prepared(Overtake(x[2], e, F))'
        BY <1>11, <1>14
      <3> QED
        BY <3>1, <3>2 DEF Prepared
    <2>2. ASSUME NEW s \in Servers, NEW b \in todo'[s] PROVE Prepared(b)'
      <3>1. PICK c \in T[s] : b = Overtake(c, e, F)
        BY <1>10
      <3>2. c \in Edit /\ Prepared(c)
        BY DEF AllPrepared
      <3>3. Prepared(Overtake(c, e, F))'
        BY <1>14, <3>2
      <3> QED
        BY <3>1, <3>3 DEF Prepared
    <2> QED
      BY <2>1, <2>2 DEF AllPrepared
  <1>16. LastRequestHolds'
    <2>1. ASSUME NEW f \in Fields \ mixed'[e] PROVE state'[e][f] = wanted'[e][f]
      <3>1. f \notin m /\ state'[e] = d.row /\ wanted'[e] = w
        BY <1>1, <1>4, <1>5, <1>6 DEF TypeOK
      <3>2. f \notin d.asked => f \notin mixed[e] /\ f \notin d.stale
        BY <3>1
      <3>3. f \notin d.asked => d.row[f] = state[e][f] /\ state[e][f] = wanted[e][f]
        BY <1>1, <3>2 DEF Prepared, MayChange, LastRequestHolds
      <3> QED
        BY <3>1, <3>3
    <2>2. ASSUME NEW g \in Envs, g # e, NEW f \in Fields \ mixed'[g]
          PROVE  state'[g][f] = wanted'[g][f]
      BY <1>4, <1>5, <1>6, <2>2 DEF TypeOK, LastRequestHolds
    <2> QED
      BY <2>1, <2>2 DEF LastRequestHolds
  <1> QED
    BY <1>7, <1>8, <1>12, <1>13, <1>15, <1>16

-----------------------------------------------------------------------------
(* The invariant.                                                          *)

LEMMA InitIInv == Init => IInv
  <1> SUFFICES ASSUME Init PROVE IInv
    OBVIOUS
  <1> USE DEF Init
  <1>1. BlankRow \in Row /\ 0 \in Times
    BY BlankIsRow, BoundAssumption DEF Times
  <1>2. TypeOK
    BY <1>1 DEF TypeOK, SchedState
  <1>3. AllPrepared /\ LastRequestHolds /\ HoldsLock
    BY DEF AllPrepared, LastRequestHolds, HoldsLock
  <1> QED
    BY <1>2, <1>3 DEF IInv

\* A request that begins is prepared from the row as it is.
LEMMA BeginPreserves ==
  ASSUME IInv, NEW w \in Editors, NEW d \in Edit, Prepared(d), Begin(w, d)
  PROVE  IInv'
  <1> USE DEF IInv
  <1>1. edits' = edits \cup {<<w, d>>} /\ begun' = begun + 1
    BY DEF Begin
  <1>2. UNCHANGED <<now, present, state, sched, todo, lock, wanted, mixed, lockLost>>
    BY DEF Begin, rowVars, schedVars, ghostVars
  <1>3. TypeOK'
    BY <1>1, <1>2 DEF TypeOK
  <1>4. ASSUME NEW x \in edits' PROVE Prepared(x[2])'
    BY <1>1, <1>2 DEF AllPrepared, Prepared
  <1>5. AllPrepared'
    BY <1>2, <1>4 DEF AllPrepared, Prepared
  <1>6. LastRequestHolds' /\ HoldsLock'
    BY <1>2 DEF LastRequestHolds, HoldsLock
  <1> QED
    BY <1>3, <1>5, <1>6

LEMMA EditorsPreserve ==
  ASSUME IInv, NEW w \in Editors, NEW e \in Envs
  PROVE  /\ \A p \in Patches : UpdateState(w, e, p) => IInv'
         /\ Kill(w, e) => IInv'
         /\ \A src \in Envs : Promote(w, src, e) => IInv'
  <1>1. ReadRow(e) \subseteq Row
    BY BlankIsRow DEF IInv, TypeOK, ReadRow
  <1>2. ASSUME NEW p \in Patches, UpdateState(w, e, p) PROVE IInv'
    <2>1. PICK row \in ReadRow(e) :
            Begin(w, [env |-> e, row |-> Merge(p, row), asked |-> DOMAIN p,
                      stale |-> Unread(row, e)])
      BY <1>2 DEF UpdateState
    <2> DEFINE d == [env |-> e, row |-> Merge(p, row), asked |-> DOMAIN p,
                     stale |-> Unread(row, e)]
    <2>2. d \in Edit
      BY <1>1, PatchAssumption DEF Edit, Unread
    <2>3. Prepared(d)
      BY DEF Prepared, MayChange, Merge, Unread
    <2> QED
      BY <2>1, <2>2, <2>3, BeginPreserves
  <1>3. ASSUME Kill(w, e) PROVE IInv'
    <2>1. PICK row \in ReadRow(e) :
            Begin(w, [env |-> e, row |-> [row EXCEPT !.enabled = FALSE],
                      asked |-> {"enabled"}, stale |-> Unread(row, e)])
      BY <1>3 DEF Kill
    <2> DEFINE d == [env |-> e, row |-> [row EXCEPT !.enabled = FALSE],
                     asked |-> {"enabled"}, stale |-> Unread(row, e)]
    <2>2. d \in Edit
      BY <1>1 DEF Edit, Row, Fields, Unread
    <2>3. Prepared(d)
      BY <1>1 DEF Prepared, MayChange, Row, Fields, Unread
    <2> QED
      BY <2>1, <2>2, <2>3, BeginPreserves
  <1>4. ASSUME NEW src \in Envs, Promote(w, src, e) PROVE IInv'
    <2>1. PICK v \in {0, state[src].variants} :
            Begin(w, [env |-> e, row |-> Promoted(state[src], v), asked |-> Fields,
                      stale |-> {}])
      BY <1>4 DEF Promote
    <2> DEFINE d == [env |-> e, row |-> Promoted(state[src], v), asked |-> Fields,
                     stale |-> {}]
    <2>2. Promoted(state[src], v) \in Row
      BY PromotedIsRow DEF IInv, TypeOK
    <2>3. d \in Edit
      BY <2>2 DEF Edit
    <2>4. Prepared(d)
      BY DEF Prepared, MayChange
    <2> QED
      BY <2>1, <2>3, <2>4, BeginPreserves
  <1> QED
    BY <1>2, <1>3, <1>4

LEMMA WritesPreserve ==
  ASSUME IInv
  PROVE  /\ \A x \in edits : Commit(x) \/ GiveUp(x) => IInv'
         /\ \A s \in Servers : \A d \in todo[s] : Apply(s, d) \/ ApplyFails(s, d) => IInv'
  <1> USE DEF IInv
  <1>1. ASSUME NEW x \in edits, Commit(x) PROVE IInv'
    <2>1. x[2] \in Edit /\ Prepared(x[2])
      BY DEF TypeOK, AllPrepared
    <2>2. edits \ {x} \in SUBSET edits /\ todo \in [Servers -> SUBSET Edit]
      BY DEF TypeOK
    <2>3. Upsert(x[2]) /\ OvertakeOthers(edits \ {x}, todo, x[2].env, MayChange(x[2]))
      BY <1>1 DEF Commit
    <2>4. UNCHANGED <<now, begun, sched, lock, lockLost>>
      BY <1>1 DEF Commit
    <2>5. /\ present' \subseteq Envs
          /\ state' \in [Envs -> Row] /\ wanted' \in [Envs -> Row]
          /\ mixed' \in [Envs -> SUBSET Fields] /\ edits' \in SUBSET (Editors \X Edit)
          /\ todo' \in [Servers -> SUBSET Edit]
          /\ AllPrepared' /\ LastRequestHolds'
      BY <2>1, <2>2, <2>3, UpsertPreserves
    <2>6. TypeOK' /\ HoldsLock'
      BY <2>4, <2>5 DEF TypeOK, HoldsLock
    <2> QED
      BY <2>5, <2>6
  <1>2. ASSUME NEW x \in edits, GiveUp(x) PROVE IInv'
    <2>1. edits' \subseteq edits
      BY <1>2 DEF GiveUp
    <2>2. UNCHANGED <<now, rowVars, begun, schedVars, ghostVars>>
      BY <1>2 DEF GiveUp
    <2> QED
      BY <2>1, <2>2 DEF TypeOK, AllPrepared, Prepared, MayChange, LastRequestHolds, HoldsLock,
                        rowVars, schedVars, ghostVars
  <1>3. ASSUME NEW s \in Servers, NEW d \in todo[s], Apply(s, d) PROVE IInv'
    <2> DEFINE T == [todo EXCEPT ![s] = @ \ {d}]
    <2>1. d \in Edit /\ Prepared(d)
      BY DEF TypeOK, AllPrepared
    <2>2. T \in [Servers -> SUBSET Edit] /\ \A t \in Servers : T[t] \subseteq todo[t]
      BY DEF TypeOK
    <2>3. Upsert(d) /\ OvertakeOthers(edits, T, d.env, MayChange(d))
      BY <1>3 DEF Apply
    <2>4. /\ sched[s] = "apply" /\ sched' = [sched EXCEPT ![s] = "audit"]
          /\ UNCHANGED <<now, begun, lock, lockLost>>
      BY <1>3 DEF Apply
    <2>5. /\ present' \subseteq Envs
          /\ state' \in [Envs -> Row] /\ wanted' \in [Envs -> Row]
          /\ mixed' \in [Envs -> SUBSET Fields] /\ edits' \in SUBSET (Editors \X Edit)
          /\ todo' \in [Servers -> SUBSET Edit]
          /\ AllPrepared' /\ LastRequestHolds'
      <3> HIDE DEF T
      <3> QED
        BY <2>1, <2>2, <2>3, UpsertPreserves
    <2>6. TypeOK' /\ HoldsLock'
      BY <2>4, <2>5 DEF TypeOK, HoldsLock, SchedState
    <2> QED
      BY <2>5, <2>6
  <1>4. ASSUME NEW s \in Servers, NEW d \in todo[s], ApplyFails(s, d) PROVE IInv'
    <2>1. todo' = [todo EXCEPT ![s] = @ \ {d}]
      BY <1>4 DEF ApplyFails
    <2>2. UNCHANGED <<now, rowVars, editVars, sched, lock, ghostVars>>
      BY <1>4 DEF ApplyFails
    <2>3. todo' \in [Servers -> SUBSET Edit] /\ \A t \in Servers : todo'[t] \subseteq todo[t]
      BY <2>1 DEF TypeOK
    <2> QED
      BY <2>2, <2>3 DEF TypeOK, AllPrepared, Prepared, MayChange, LastRequestHolds, HoldsLock,
                        rowVars, editVars, ghostVars
  <1> QED
    BY <1>1, <1>2, <1>3, <1>4

\* Ship asks for what it writes, and every write in preparation is overtaken by it.
LEMMA ShipPreserves ==
  ASSUME IInv, NEW e \in Envs, NEW p \in Shipped, Ship(e, p)
  PROVE  IInv'
  <1> USE DEF IInv
  <1> DEFINE S(row) == [row EXCEPT !.rollout = p, !.enabled = p > 0]
             F == {"rollout", "enabled"}
  <1>1. /\ state' = [state EXCEPT ![e] = S(state[e])]
        /\ wanted' = [wanted EXCEPT ![e] = S(wanted[e])]
        /\ mixed' = [mixed EXCEPT ![e] = mixed[e] \ F]
        /\ begun' = begun + 1
        /\ UNCHANGED <<now, present, sched, lock, lockLost>>
    BY DEF Ship, TypeOK
  <1>2. ASSUME NEW row \in Row PROVE S(row) \in Row
    <2>1. p \in 0..100 /\ (p > 0) \in BOOLEAN
      BY ShipAssumption
    <2> QED
      BY <2>1 DEF Row
  <1>3. S(state[e]) \in Row /\ S(wanted[e]) \in Row
    BY <1>2 DEF TypeOK
  <1>4. state' \in [Envs -> Row] /\ wanted' \in [Envs -> Row]
    <2> HIDE DEF S
    <2> QED
      BY <1>1, <1>3 DEF TypeOK
  <1>5. /\ edits' = {<<x[1], Overtake(x[2], e, F)>> : x \in edits}
        /\ todo' = [s \in Servers |-> {Overtake(d, e, F) : d \in todo[s]}]
        /\ F \subseteq Fields
    BY DEF Ship, OvertakeOthers, Fields
  <1>6. \A x \in edits : x[1] \in Editors /\ x[2] \in Edit /\ Prepared(x[2])
    BY DEF TypeOK, AllPrepared
  <1>7. \A s \in Servers : \A d \in todo[s] : d \in Edit /\ Prepared(d)
    BY DEF TypeOK, AllPrepared
  <1>8. edits' \in SUBSET (Editors \X Edit)
    BY <1>5, <1>6, OvertakeType
  <1>9. todo' \in [Servers -> SUBSET Edit]
    BY <1>5, <1>7, OvertakeType
  <1>10. ASSUME NEW d \in Edit, Prepared(d)
         PROVE  Prepared(Overtake(d, e, F))'
    <2>1. \A f \in Fields \ F : S(state[e])[f] = state[e][f]
      BY DEF TypeOK, Row, Fields
    <2> HIDE DEF S, F
    <2> QED
      BY <1>1, <1>5, <1>10, <2>1, OvertakePrepared
  <1>11. AllPrepared'
    <2>1. ASSUME NEW y \in edits' PROVE Prepared(y[2])'
      <3>1. PICK x \in edits : y = <<x[1], Overtake(x[2], e, F)>>
        BY <1>5
      <3>2. Prepared(Overtake(x[2], e, F))'
        BY <1>6, <1>10
      <3> QED
        BY <3>1, <3>2 DEF Prepared
    <2>2. ASSUME NEW s \in Servers, NEW b \in todo'[s] PROVE Prepared(b)'
      <3>1. PICK d \in todo[s] : b = Overtake(d, e, F)
        BY <1>5
      <3>2. Prepared(Overtake(d, e, F))'
        BY <1>7, <1>10
      <3> QED
        BY <3>1, <3>2 DEF Prepared
    <2> QED
      BY <2>1, <2>2 DEF AllPrepared
  <1>12. LastRequestHolds'
    <2>1. ASSUME NEW f \in Fields \ mixed'[e] PROVE state'[e][f] = wanted'[e][f]
      <3>1. f \notin F => f \notin mixed[e]
        BY <1>1 DEF TypeOK
      <3>2. /\ f \in F => S(state[e])[f] = S(wanted[e])[f]
            /\ f \notin F => /\ S(state[e])[f] = state[e][f]
                            /\ S(wanted[e])[f] = wanted[e][f]
        BY DEF TypeOK, Row, Fields
      <3>3. state'[e] = S(state[e]) /\ wanted'[e] = S(wanted[e])
        <4> HIDE DEF S
        <4> QED
          BY <1>1 DEF TypeOK
      <3> HIDE DEF S, F
      <3> QED
        BY <3>1, <3>2, <3>3 DEF LastRequestHolds
    <2>2. ASSUME NEW g \in Envs, g # e, NEW f \in Fields \ mixed'[g]
          PROVE  state'[g][f] = wanted'[g][f]
      <3> HIDE DEF S
      <3> QED
        BY <1>1, <2>2 DEF TypeOK, LastRequestHolds
    <2> QED
      BY <2>1, <2>2 DEF LastRequestHolds
  <1>13. TypeOK' /\ HoldsLock'
    <2>1. mixed' \in [Envs -> SUBSET Fields]
      BY <1>1 DEF TypeOK
    <2> QED
      BY <1>1, <1>4, <1>8, <1>9, <2>1 DEF TypeOK, HoldsLock
  <1> QED
    BY <1>11, <1>12, <1>13

LEMMA ListPreserves ==
  ASSUME IInv, NEW s \in Servers, List(s)
  PROVE  IInv'
  <1> USE DEF IInv
  <1> DEFINE D(e) == [env |-> e, row |-> Fire(state[e]),
                      asked |-> Due(state[e]) \cup {"enabled"}, stale |-> {}]
             E == {e \in Envs : Due(state[e]) # {}}
  <1>1. todo' = [todo EXCEPT ![s] = {D(e) : e \in E}]
    BY DEF List
  <1>2. /\ sched[s] = "list" /\ sched' = [sched EXCEPT ![s] = "apply"]
        /\ UNCHANGED <<now, present, state, edits, begun, lock, wanted, mixed,
                       lockLost>>
    BY DEF List, rowVars, editVars, ghostVars
  <1>3. ASSUME NEW e \in Envs PROVE D(e) \in Edit /\ Prepared(D(e))
    <2>1. state[e] \in Row
      BY DEF TypeOK
    <2>2. Fire(state[e]) \in Row
      BY <2>1, FireKeepsTheRest
    <2>3. Due(state[e]) \subseteq Fields
      BY DEF Due, Fields
    <2>4. D(e) \in Edit
      BY <2>2, <2>3 DEF Edit, Fields
    <2>5. Prepared(D(e))
      BY <2>1, FireKeepsTheRest DEF Prepared, MayChange
    <2> QED
      BY <2>4, <2>5
  <1> HIDE DEF D
  <1>4. {D(e) : e \in E} \subseteq Edit
    BY <1>3
  <1>5. todo' \in [Servers -> SUBSET Edit]
    BY <1>1, <1>4 DEF TypeOK
  <1>6. TypeOK' /\ HoldsLock' /\ LastRequestHolds'
    BY <1>2, <1>5 DEF TypeOK, HoldsLock, LastRequestHolds, SchedState
  <1>7. ASSUME NEW t \in Servers, NEW d \in todo'[t] PROVE Prepared(d)
    <2>1. CASE t = s
      BY <1>1, <1>3, <1>7, <2>1 DEF TypeOK
    <2>2. CASE t # s
      BY <1>1, <1>7, <2>2 DEF TypeOK, AllPrepared
    <2> QED
      BY <2>1, <2>2
  <1>8. AllPrepared'
    BY <1>2, <1>7 DEF AllPrepared, Prepared
  <1> QED
    BY <1>6, <1>8

\* The steps of a tick that write no row; the lists only lose entries.
LEMMA TickPreserves ==
  ASSUME IInv, NEW s \in Servers,
         TryLock(s) \/ ListFails(s) \/ Audit(s) \/ Unlock(s) \/ LockConnLost(s) \/ Crash(s)
  PROVE  IInv'
  <1> USE DEF IInv
  <1>1. UNCHANGED <<now, present, state, edits, begun, wanted, mixed>>
    BY DEF TryLock, ListFails, Audit, Unlock, LockConnLost, Crash, rowVars, editVars, ghostVars
  <1>2. /\ todo' \in [Servers -> SUBSET Edit]
        /\ \A t \in Servers : todo'[t] \subseteq todo[t]
    BY DEF TypeOK, TryLock, ListFails, Audit, Unlock, LockConnLost, Crash
  <1>3. AllPrepared' /\ LastRequestHolds'
    BY <1>1, <1>2 DEF AllPrepared, Prepared, LastRequestHolds
  <1>4. /\ sched' \in [Servers -> SchedState] /\ lock' \in Servers \cup {NoServer}
        /\ lockLost' \in [Servers -> BOOLEAN]
        /\ HoldsLock'
    <2>1. CASE TryLock(s)
      BY <2>1, ServerAssumption DEF TryLock, TypeOK, HoldsLock, SchedState
    <2>2. CASE ListFails(s)
      BY <2>2 DEF ListFails, TypeOK, HoldsLock, SchedState, ghostVars
    <2>3. CASE Audit(s)
      BY <2>3 DEF Audit, TypeOK, HoldsLock, SchedState, ghostVars
    <2>4. CASE Unlock(s)
      BY <2>4 DEF Unlock, TypeOK, HoldsLock, SchedState, ghostVars
    <2>5. CASE LockConnLost(s)
      BY <2>5 DEF LockConnLost, TypeOK, HoldsLock, SchedState
    <2>6. CASE Crash(s)
      BY <2>6 DEF Crash, TypeOK, HoldsLock, SchedState, ghostVars
    <2> QED
      BY <2>1, <2>2, <2>3, <2>4, <2>5, <2>6
  <1>5. TypeOK'
    BY <1>1, <1>2, <1>4 DEF TypeOK
  <1> QED
    BY <1>3, <1>4, <1>5

LEMMA NextIInv == IInv /\ [Next]_vars => IInv'
  <1> SUFFICES ASSUME IInv, [Next]_vars PROVE IInv'
    OBVIOUS
  <1>1. CASE Clock
    <2>1. now' \in Times
      BY <1>1, BoundAssumption DEF Clock, IInv, TypeOK, Times
    <2>2. UNCHANGED <<rowVars, editVars, schedVars, ghostVars>>
      BY <1>1 DEF Clock
    <2> QED
      BY <2>1, <2>2 DEF IInv, TypeOK, AllPrepared, Prepared, LastRequestHolds, HoldsLock,
                        rowVars, editVars, schedVars, ghostVars
  <1>2. ASSUME NEW w \in Editors, NEW e \in Envs,
               \/ \E p \in Patches : UpdateState(w, e, p)
               \/ Kill(w, e)
               \/ \E src \in Envs : Promote(w, src, e)
        PROVE  IInv'
    BY <1>2, EditorsPreserve
  <1>3. ASSUME NEW x \in edits, Commit(x) \/ GiveUp(x)
        PROVE  IInv'
    BY <1>3, WritesPreserve
  <1>4. ASSUME NEW s \in Servers, NEW d \in todo[s], Apply(s, d) \/ ApplyFails(s, d)
        PROVE  IInv'
    BY <1>4, WritesPreserve
  <1>5. ASSUME NEW s \in Servers,
               \/ TryLock(s) \/ List(s) \/ ListFails(s) \/ Audit(s) \/ Unlock(s)
               \/ LockConnLost(s) \/ Crash(s)
        PROVE  IInv'
    BY <1>5, ListPreserves, TickPreserves
  <1>6. ASSUME NEW e \in Envs, NEW p \in Shipped, Ship(e, p)
        PROVE  IInv'
    BY <1>6, ShipPreserves
  <1>7. CASE UNCHANGED vars
    BY <1>7 DEF IInv, TypeOK, AllPrepared, Prepared, LastRequestHolds, HoldsLock,
                vars, rowVars, editVars, schedVars, ghostVars
  <1> QED
    BY <1>1, <1>2, <1>3, <1>4, <1>5, <1>6, <1>7 DEF Next

LEMMA Invariance == Spec => []IInv
  BY InitIInv, NextIInv, PTL DEF Spec

-----------------------------------------------------------------------------
(* The theorems.                                                           *)

\* Every variable of the flag-state writers keeps its type.
THEOREM TypeCorrect == Spec => []TypeOK
  <1>1. IInv => TypeOK
    BY DEF IInv
  <1> QED
    BY <1>1, Invariance, PTL

\* UpdateState, Kill, Promote, SyncEnvironments, Ship and the scheduler, interleaved in
\* any way, with reads that fail: each field holds what was last asked for it, unless a
\* write that did not know the row's value of that very field undid it.
THEOREM LastRequestWins == Spec => []LastRequestHolds
  <1>1. IInv => LastRequestHolds
    BY DEF IInv
  <1> QED
    BY <1>1, Invariance, PTL

\* TryAdvisoryLock keeps two servers from ticking at once, until a lock session fails.
THEOREM TicksExclude == Spec => []OneTickAtATime
  <1>1. IInv => OneTickAtATime
    BY ServerAssumption DEF IInv, TypeOK, HoldsLock, OneTickAtATime
  <1> QED
    BY <1>1, Invariance, PTL

-----------------------------------------------------------------------------
(* Approvals.                                                              *)

\* A review is never the requestor's own.
NotOwn == \A v \in reviews : v.by # requestor[v.of]

\* Nobody's saved approval is the requestor's own.
Saved == \A a \in Requests : requestor[a] \notin approvers[a]

\* The reviews of a that have saved an approval and are still to write the payload.
Applying(a) == {v \in reviews : v.of = a /\ v.pc = "apply"}

\* An approval is written, or about to be, at most once.
Counted ==
    \A a \in Requests :
        /\ IsFiniteSet(Applying(a))
        /\ writes[a] + Cardinality(Applying(a)) <= approvals[a]

\* A review about to mark its request has written the payload.
Written ==
    /\ \A v \in reviews : v.pc = "mark" => writes[v.of] > 0
    /\ AppliedWasWritten

ReviewInv == NotOwn /\ Saved /\ Counted /\ Written

ApprovalIInv == IInv /\ ApprovalTypeOK /\ ReviewInv

-----------------------------------------------------------------------------
LEMMA InitApproval == ApprovalInit => ApprovalIInv
  <1> SUFFICES ASSUME ApprovalInit PROVE ApprovalIInv
    OBVIOUS
  <1>1. IInv
    BY InitIInv DEF ApprovalInit
  <1>2. ApprovalTypeOK
    BY <1>1 DEF ApprovalInit, ApprovalTypeOK, IInv, Status
  <1>3. NotOwn /\ Saved /\ Written
    BY DEF ApprovalInit, NotOwn, Saved, Written, AppliedWasWritten
  <1>4. ASSUME NEW a \in Requests
        PROVE  /\ IsFiniteSet(Applying(a))
               /\ writes[a] + Cardinality(Applying(a)) <= approvals[a]
    <2>1. Applying(a) = {} /\ writes[a] = 0 /\ approvals[a] = 0
      BY DEF ApprovalInit, Applying
    <2> QED
      BY <2>1, FS_EmptySet
  <1> QED
    BY <1>1, <1>2, <1>3, <1>4 DEF ApprovalIInv, ReviewInv, Counted

\* Who reviews what does not depend on the flag states.
LEMMA ReviewFrame ==
  ASSUME ReviewInv, UNCHANGED requestVars
  PROVE  ReviewInv'
  BY DEF ReviewInv, requestVars, historyVars, NotOwn, Saved, Counted, Applying, Written,
         AppliedWasWritten

\* Nor do the flag states on the reviews.
LEMMA WritersFrame ==
  ASSUME IInv, UNCHANGED vars
  PROVE  IInv'
  BY NextIInv

\* The count holds as long as no review begins to apply and nothing is written.
LEMMA CountKept ==
  ASSUME ApprovalIInv, UNCHANGED <<approvals, writes>>,
         \A v \in reviews' : v.pc = "apply" => v \in reviews
  PROVE  Counted'
  <1> SUFFICES ASSUME NEW a \in Requests
               PROVE  /\ IsFiniteSet(Applying(a)')
                      /\ writes'[a] + Cardinality(Applying(a)') <= approvals'[a]
    BY DEF Counted
  <1>1. /\ IsFiniteSet(Applying(a)) /\ writes[a] \in Nat /\ approvals[a] \in Nat
        /\ writes[a] + Cardinality(Applying(a)) <= approvals[a]
    BY DEF ApprovalIInv, ReviewInv, Counted, ApprovalTypeOK
  <1>2. Applying(a)' \subseteq Applying(a)
    BY DEF Applying
  <1>3. /\ IsFiniteSet(Applying(a)') /\ Cardinality(Applying(a)') \in Nat
        /\ Cardinality(Applying(a)) \in Nat
        /\ Cardinality(Applying(a)') <= Cardinality(Applying(a))
    BY <1>1, <1>2, FS_Subset, FS_CardinalityType
  <1> QED
    BY <1>1, <1>3

LEMMA CreatePreserves ==
  ASSUME ApprovalIInv, NEW a \in Requests, Create(a)
  PROVE  ApprovalIInv'
  <1> USE DEF ApprovalIInv
  <1>1. IInv'
    BY WritersFrame DEF Create
  <1>2. /\ status[a] = "none" /\ status' = [status EXCEPT ![a] = "pending"]
        /\ UNCHANGED <<requestor, payload, reviews, failures, approvers, approvals, writes>>
    BY DEF Create, historyVars
  <1>3. ApprovalTypeOK'
    BY <1>1, <1>2 DEF ApprovalTypeOK, Status, IInv
  <1>4. ReviewInv'
    BY <1>2 DEF ReviewInv, ApprovalTypeOK, NotOwn, Saved, Counted, Applying, Written,
                AppliedWasWritten
  <1> QED
    BY <1>1, <1>3, <1>4

LEMMA DecidePreserves ==
  ASSUME ApprovalIInv, NEW c \in Calls, NEW r \in People, NEW a \in Requests,
         NEW decision \in {"approved", "rejected"}, Decide(c, r, a, decision)
  PROVE  ApprovalIInv'
  <1> USE DEF ApprovalIInv
  <1> DEFINE n == [call |-> c, by |-> r, of |-> a, as |-> decision, pc |-> "save"]
  <1>1. IInv'
    BY WritersFrame DEF Decide
  <1>2. /\ requestor[a] # r /\ reviews' = reviews \cup {n}
        /\ UNCHANGED <<status, requestor, payload, failures, approvers, approvals, writes>>
    BY DEF Decide, historyVars
  <1>3. n \in Review
    BY DEF Review
  <1>4. ApprovalTypeOK'
    BY <1>1, <1>2, <1>3 DEF ApprovalTypeOK, IInv
  <1>5. NotOwn' /\ Saved' /\ Written'
    BY <1>2 DEF ReviewInv, NotOwn, Saved, Written, AppliedWasWritten
  <1>6. Counted'
    BY <1>2, CountKept
  <1> QED
    BY <1>1, <1>4, <1>5, <1>6 DEF ReviewInv

\* An approval that is saved is one more to write.
LEMMA SavePreserves ==
  ASSUME ApprovalIInv, NEW v \in reviews, SaveDecision(v)
  PROVE  ApprovalIInv'
  <1> USE DEF ApprovalIInv
  <1> DEFINE n == [v EXCEPT !.pc = "apply"]
             a == v.of
  <1>1. IInv'
    BY WritersFrame DEF SaveDecision
  <1>2. v \in Review /\ a \in Requests
    BY DEF ApprovalTypeOK, Review
  <1>3. /\ v.pc = "save" /\ status' = [status EXCEPT ![a] = v.as]
        /\ UNCHANGED <<requestor, payload, failures, writes>>
    BY DEF SaveDecision
  <1>4. status' \in [Requests -> Status] /\ v.as \in {"approved", "rejected"}
    BY <1>2, <1>3 DEF ApprovalTypeOK, Review, Status
  <1>5. CASE v.as = "approved"
    <2>1. /\ reviews' = (reviews \ {v}) \cup {n}
          /\ approvers' = [approvers EXCEPT ![a] = @ \cup {v.by}]
          /\ approvals' = [approvals EXCEPT ![a] = @ + 1]
      BY <1>5 DEF SaveDecision, Becomes
    <2>2. /\ n \in Review /\ n.by = v.by /\ n.of = a /\ n.pc = "apply"
          /\ v.by \in People
      BY <1>2 DEF Review
    <2> HIDE DEF n
    <2>3. ApprovalTypeOK'
      BY <1>1, <1>2, <1>3, <1>4, <2>1, <2>2 DEF ApprovalTypeOK, IInv
    <2>4. NotOwn' /\ Saved'
      BY <1>2, <1>3, <2>1, <2>2 DEF ReviewInv, NotOwn, Saved, ApprovalTypeOK
    <2>5. Written'
      BY <1>2, <1>3, <1>4, <2>1, <2>2 DEF ReviewInv, Written, AppliedWasWritten, ApprovalTypeOK
    <2>6. ASSUME NEW b \in Requests
          PROVE  /\ IsFiniteSet(Applying(b)')
                 /\ writes'[b] + Cardinality(Applying(b)') <= approvals'[b]
      <3>1. /\ IsFiniteSet(Applying(b)) /\ writes[b] \in Nat /\ approvals[b] \in Nat
            /\ writes[b] + Cardinality(Applying(b)) <= approvals[b]
            /\ Cardinality(Applying(b)) \in Nat
        BY FS_CardinalityType DEF ReviewInv, Counted, ApprovalTypeOK
      <3>2. CASE b = a
        <4>1. Applying(b)' = Applying(b) \cup {n} /\ approvals'[b] = approvals[b] + 1
          BY <1>2, <1>3, <2>1, <2>2, <3>2 DEF Applying, ApprovalTypeOK
        <4>2. /\ IsFiniteSet(Applying(b) \cup {n})
              /\ \/ Cardinality(Applying(b) \cup {n}) = Cardinality(Applying(b))
                 \/ Cardinality(Applying(b) \cup {n}) = Cardinality(Applying(b)) + 1
          BY <3>1, FS_AddElement
        <4> QED
          BY <1>3, <3>1, <4>1, <4>2
      <3>3. CASE b # a
        <4>1. Applying(b)' = Applying(b) /\ approvals'[b] = approvals[b]
          BY <1>2, <1>3, <2>1, <2>2, <3>3 DEF Applying, ApprovalTypeOK
        <4> QED
          BY <1>3, <3>1, <4>1
      <3> QED
        BY <3>2, <3>3
    <2> QED
      BY <1>1, <2>3, <2>4, <2>5, <2>6 DEF ReviewInv, Counted
  <1>6. CASE v.as # "approved"
    <2>1. reviews' = reviews \ {v} /\ approvers' = approvers /\ approvals' = approvals
      BY <1>6 DEF SaveDecision
    <2>2. ApprovalTypeOK'
      BY <1>1, <1>3, <1>4, <2>1 DEF ApprovalTypeOK, IInv
    <2>3. NotOwn' /\ Saved'
      BY <1>3, <2>1 DEF ReviewInv, NotOwn, Saved
    <2>4. Written'
      BY <1>2, <1>3, <1>4, <1>6, <2>1 DEF ReviewInv, Written, AppliedWasWritten, ApprovalTypeOK
    <2>5. Counted'
      BY <1>3, <2>1, CountKept
    <2> QED
      BY <1>1, <2>2, <2>3, <2>4, <2>5 DEF ReviewInv
  <1> QED
    BY <1>5, <1>6

\* A review that ends takes no approval back and writes nothing.
LEMMA EndsPreserve ==
  ASSUME ApprovalIInv, NEW v \in reviews,
         ApplyRefused(v) \/ MarkApplied(v) \/ ReviewFails(v)
  PROVE  ApprovalIInv'
  <1> USE DEF ApprovalIInv
  <1>1. /\ UNCHANGED <<requestor, payload, approvers, approvals, writes>>
        /\ UNCHANGED vars /\ reviews' = reviews \ {v}
    BY DEF ApplyRefused, MarkApplied, ReviewFails, historyVars
  <1>2. IInv'
    BY <1>1, WritersFrame
  <1>3. NotOwn' /\ Saved'
    BY <1>1 DEF ReviewInv, NotOwn, Saved
  <1>4. Counted'
    BY <1>1, CountKept
  <1>5. v.of \in Requests
    BY DEF ApprovalTypeOK, Review
  <1>6. CASE ApplyRefused(v) \/ ReviewFails(v)
    <2>1. status' = status /\ failures' \in Nat
      BY <1>6 DEF ApplyRefused, ReviewFails, ApprovalTypeOK
    <2> QED
      BY <1>1, <1>2, <1>3, <1>4, <2>1 DEF ApprovalTypeOK, IInv, ReviewInv, Written,
                                          AppliedWasWritten
  <1>7. CASE MarkApplied(v)
    <2>1. /\ v.pc = "mark" /\ status' = [status EXCEPT ![v.of] = "applied"]
          /\ failures' = failures
      BY <1>7 DEF MarkApplied
    <2>2. ApprovalTypeOK'
      BY <1>1, <1>2, <2>1 DEF ApprovalTypeOK, IInv, Status
    <2>3. Written'
      BY <1>1, <1>5, <2>1 DEF ReviewInv, Written, AppliedWasWritten, ApprovalTypeOK
    <2> QED
      BY <1>2, <1>3, <1>4, <2>2, <2>3 DEF ReviewInv
  <1> QED
    BY <1>6, <1>7

\* What is written was about to be: the sum stays.
LEMMA ApplyPreserves ==
  ASSUME ApprovalIInv, NEW v \in reviews, ApplyChange(v)
  PROVE  ApprovalIInv'
  <1> USE DEF ApprovalIInv
  <1> DEFINE n == [v EXCEPT !.pc = "mark"]
             a == v.of
             d == [env |-> payload[a].env, row |-> payload[a].row,
                   asked |-> Fields, stale |-> {}]
  <1>1. v \in Review /\ a \in Requests /\ payload[a] \in Payload
    BY PayloadAssumption DEF ApprovalTypeOK, Review
  <1>2. /\ v.pc = "apply"
        /\ reviews' = (reviews \ {v}) \cup {n}
        /\ writes' = [writes EXCEPT ![a] = @ + 1]
        /\ UNCHANGED <<now, begun, sched, lock, lockLost, status, requestor,
                       payload, failures, approvers, approvals>>
    BY DEF ApplyChange, Becomes
  <1>3. n \in Review /\ n.by = v.by /\ n.of = a /\ n.pc = "mark"
    BY <1>1 DEF Review
  <1>4. IInv'
    <2>1. Upsert(d) /\ OvertakeOthers(edits, todo, d.env, Fields)
      BY DEF ApplyChange
    <2>2. d \in Edit /\ Prepared(d) /\ MayChange(d) = Fields
      BY <1>1 DEF Edit, Payload, Prepared, MayChange
    <2>3. todo \in [Servers -> SUBSET Edit] /\ TypeOK /\ AllPrepared /\ LastRequestHolds
      BY DEF IInv, TypeOK
    <2>4. /\ present' \subseteq Envs
          /\ state' \in [Envs -> Row] /\ wanted' \in [Envs -> Row]
          /\ mixed' \in [Envs -> SUBSET Fields] /\ edits' \in SUBSET (Editors \X Edit)
          /\ todo' \in [Servers -> SUBSET Edit]
          /\ AllPrepared' /\ LastRequestHolds'
      <3> HIDE DEF d
      <3> QED
        BY <2>1, <2>2, <2>3, UpsertPreserves
    <2> QED
      BY <1>2, <2>4 DEF IInv, TypeOK, HoldsLock
  <1> HIDE DEF n
  <1>5. ApprovalTypeOK'
    BY <1>1, <1>2, <1>3, <1>4 DEF ApprovalTypeOK, IInv
  <1>6. NotOwn' /\ Saved'
    BY <1>2, <1>3 DEF ReviewInv, NotOwn, Saved
  <1>7. Written'
    BY <1>1, <1>2, <1>3 DEF ReviewInv, Written, AppliedWasWritten, ApprovalTypeOK, Review
  <1>8. ASSUME NEW b \in Requests
        PROVE  /\ IsFiniteSet(Applying(b)')
               /\ writes'[b] + Cardinality(Applying(b)') <= approvals'[b]
    <2>1. /\ IsFiniteSet(Applying(b)) /\ writes[b] \in Nat /\ approvals[b] \in Nat
          /\ writes[b] + Cardinality(Applying(b)) <= approvals[b]
          /\ Cardinality(Applying(b)) \in Nat
      BY FS_CardinalityType DEF ReviewInv, Counted, ApprovalTypeOK
    <2>2. CASE b = a
      <3>1. /\ v \in Applying(b) /\ Applying(b)' = Applying(b) \ {v}
            /\ writes'[b] = writes[b] + 1
        BY <1>1, <1>2, <1>3, <2>2 DEF Applying, ApprovalTypeOK
      <3>2. /\ IsFiniteSet(Applying(b) \ {v})
            /\ Cardinality(Applying(b) \ {v}) = Cardinality(Applying(b)) - 1
        BY <2>1, <3>1, FS_RemoveElement
      <3> QED
        BY <1>2, <2>1, <3>1, <3>2
    <2>3. CASE b # a
      <3>1. Applying(b)' = Applying(b) /\ writes'[b] = writes[b]
        BY <1>1, <1>2, <1>3, <2>3 DEF Applying, ApprovalTypeOK
      <3> QED
        BY <1>2, <2>1, <3>1
    <2> QED
      BY <2>2, <2>3
  <1> QED
    BY <1>4, <1>5, <1>6, <1>7, <1>8 DEF ReviewInv, Counted

LEMMA NextApproval == ApprovalIInv /\ [ApprovalNext]_allVars => ApprovalIInv'
  <1> SUFFICES ASSUME ApprovalIInv, [ApprovalNext]_allVars PROVE ApprovalIInv'
    OBVIOUS
  <1>1. ASSUME NEW a \in Requests, Create(a) PROVE ApprovalIInv'
    BY <1>1, CreatePreserves
  <1>2. ASSUME NEW c \in Calls, NEW r \in People, NEW a \in Requests,
               NEW d \in {"approved", "rejected"}, Decide(c, r, a, d)
        PROVE  ApprovalIInv'
    BY <1>2, DecidePreserves
  <1>3. ASSUME NEW v \in reviews,
               \/ SaveDecision(v) \/ ApplyChange(v) \/ ApplyRefused(v)
               \/ MarkApplied(v) \/ ReviewFails(v)
        PROVE  ApprovalIInv'
    BY <1>3, SavePreserves, ApplyPreserves, EndsPreserve
  <1>4. CASE [Next]_vars /\ UNCHANGED requestVars
    <2>1. IInv' /\ ReviewInv'
      BY <1>4, NextIInv, ReviewFrame DEF ApprovalIInv
    <2>2. ApprovalTypeOK'
      BY <1>4, <2>1 DEF ApprovalIInv, ApprovalTypeOK, requestVars, historyVars, IInv
    <2> QED
      BY <2>1, <2>2 DEF ApprovalIInv
  <1>5. CASE UNCHANGED allVars
    BY <1>4, <1>5 DEF allVars
  <1> QED
    BY <1>1, <1>2, <1>3, <1>4, <1>5 DEF ApprovalNext, ReviewNext

LEMMA ApprovalInvariance == ApprovalSpec => []ApprovalIInv
  BY InitApproval, NextApproval, PTL DEF ApprovalSpec

-----------------------------------------------------------------------------
(* The theorems.                                                           *)

\* Every variable of the approval workflow and of the flag states keeps its type.
THEOREM ApprovalTypeCorrect == ApprovalSpec => []ApprovalTypeOK
  <1>1. ApprovalIInv => ApprovalTypeOK
    BY DEF ApprovalIInv
  <1> QED
    BY <1>1, ApprovalInvariance, PTL

\* However reviews of one request interleave and fail, and however often one reviewer
\* submits, nobody approves their own change and the payload is written at most once
\* per saved approval.
THEOREM FourEyesHold == ApprovalSpec => []FourEyes
  <1>1. ASSUME ApprovalIInv, NEW a \in Requests
        PROVE  requestor[a] \notin approvers[a] /\ writes[a] <= approvals[a]
    <2>1. /\ requestor[a] \notin approvers[a] /\ IsFiniteSet(Applying(a))
          /\ writes[a] + Cardinality(Applying(a)) <= approvals[a]
          /\ writes[a] \in Nat /\ approvals[a] \in Nat
      BY <1>1 DEF ApprovalIInv, ReviewInv, Saved, Counted, ApprovalTypeOK
    <2>2. Cardinality(Applying(a)) \in Nat
      BY <2>1, FS_CardinalityType
    <2> QED
      BY <2>1, <2>2
  <1>2. ApprovalIInv => FourEyes
    BY <1>1 DEF FourEyes
  <1> QED
    BY <1>2, ApprovalInvariance, PTL

\* A request reads "applied" only if its payload was written.
THEOREM AppliedIsWritten == ApprovalSpec => []AppliedWasWritten
  <1>1. ApprovalIInv => AppliedWasWritten
    BY DEF ApprovalIInv, ReviewInv, Written
  <1> QED
    BY <1>1, ApprovalInvariance, PTL

\* Approved changes keep the promise of the other writers: a field is undone only by a
\* write that did not know the row's value of it, and an approved change never is one.
THEOREM ApprovalsKeepRequests == ApprovalSpec => []LastRequestHolds
  <1>1. ApprovalIInv => LastRequestHolds
    BY DEF ApprovalIInv, IInv
  <1> QED
    BY <1>1, ApprovalInvariance, PTL

=============================================================================
