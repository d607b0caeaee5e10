------------------------- MODULE RulesetCache_proofs -------------------------
(***************************************************************************)
(* Safety of the ruleset cache for any number of servers, environments and *)
(* requests.  The argument: the notification of a commit is, for each      *)
(* server, in at most one place (on the wire, being handled, announced,    *)
(* lost), and a ruleset that was read from flag_states, whether cached or  *)
(* still held by a load, lacks only commits whose invalidation is under    *)
(* way, lost, or overtook the load, and those of states the load left out. *)
(***************************************************************************)
EXTENDS RulesetCache, TLAPS

\* No notification is in two places.
Apart ==
    \A s \in Servers :
        /\ wire[s] \cap invalidating[s] = {}
        /\ wire[s] \cap announcing[s] = {}
        /\ wire[s] \cap announced[s] = {}
        /\ wire[s] \cap lost[s] = {}
        /\ invalidating[s] \cap announcing[s] = {}
        /\ invalidating[s] \cap announced[s] = {}
        /\ invalidating[s] \cap lost[s] = {}
        /\ announcing[s] \cap announced[s] = {}
        /\ announcing[s] \cap lost[s] = {}
        /\ announced[s] \cap lost[s] = {}

\* No notification precedes its commit.
Committed ==
    \A s \in Servers :
        \A n \in wire[s] \cup invalidating[s] \cup announcing[s]
                   \cup announced[s] \cup lost[s] : n.ver <= states[n.env][n.flag]

\* StaleIsExplained for a ruleset still in the hands of its load.
LoadIsExplained ==
    \A l \in loads : l.pc \in {"segments", "store"} =>
        \A f \in Flags : \A n \in Lacks(Joined(l.rs), l.env, f) :
            \/ OnItsWay(l.server, n)
            \/ n \in lost[l.server]
            \/ Flawed(l.rs, n)

IInv == TypeOK /\ Apart /\ Committed /\ LoadIsExplained /\ StaleIsExplained

-----------------------------------------------------------------------------
(* Type correctness.                                                       *)

LEMMA TypeInit == Init => TypeOK
  BY BoundAssumption DEF Init, TypeOK, ConnState

\* Each operation keeps every variable in its type.
LEMMA TypeStep == TypeOK /\ [Next]_vars => TypeOK'
<1> SUFFICES ASSUME TypeOK, [Next]_vars PROVE TypeOK'
  OBVIOUS
<1> USE DEF TypeOK, dbVars, hubVars, connVars, ConnState
<1>1. ASSUME NEW f \in Flags, NEW E \in SUBSET Envs, Commit(f, E),
             UNCHANGED flags, deleted' \subseteq Flags
      PROVE  TypeOK'
  BY <1>1 DEF Commit, Notification
<1>a. ASSUME NEW f \in Flags, NEW e \in Envs, EditState(f, e) PROVE TypeOK'
  BY <1>1, <1>a DEF EditState
<1>b. ASSUME NEW f \in Flags, DeleteFlag(f) PROVE TypeOK'
  <2>1. {e \in Envs : states[e][f] > 0} \in SUBSET Envs
    OBVIOUS
  <2> QED
    BY <1>1, <1>b, <2>1 DEF DeleteFlag
<1>c. ASSUME NEW f \in Flags, EditFlag(f) PROVE TypeOK'
  BY <1>c DEF EditFlag
<1>3. ASSUME NEW s \in Servers,
             \/ Subscribe(s) \/ ListenStarts(s) \/ ListenFails(s)
             \/ BackoffEnds(s) \/ CancelListen(s) \/ Close(s)
      PROVE  TypeOK'
  <2>1. CASE Subscribe(s) \/ ListenStarts(s) \/ Close(s)
    BY <2>1 DEF Subscribe, ListenStarts, Close
  <2>2. CASE ListenFails(s)
    <3>1. conn' \in [Servers -> ConnState] /\ listening' \in [Servers -> BOOLEAN]
      BY <2>2 DEF ListenFails, ReturnNil
    <3> QED
      BY <2>2, <3>1 DEF ListenFails, DropWire
  <2>3. CASE BackoffEnds(s)
    BY <2>3 DEF BackoffEnds, ReturnNil
  <2>4. CASE CancelListen(s)
    BY <2>4 DEF CancelListen, DropWire
  <2> QED
    BY <1>3, <2>1, <2>2, <2>3, <2>4
<1>4. ASSUME NEW s \in Servers, Restart(s) PROVE TypeOK'
  BY <1>4 DEF Restart
<1>5. ASSUME NEW s \in Servers, NEW n \in wire[s], Receive(s, n) PROVE TypeOK'
  BY <1>5 DEF Receive
<1>6. ASSUME NEW s \in Servers, NEW n \in invalidating[s], Invalidate(s, n)
      PROVE  TypeOK'
  <2>1. n \in Notification
    OBVIOUS
  <2>2. ASSUME NEW l \in loads PROVE Overtake(l, s, n) \in Load
    <3>1. l \in Load /\ l.rs \in Ruleset
      BY DEF Load
    <3>2. [l.rs EXCEPT !.raced = @ \cup {n}] \in Ruleset
      BY <2>1, <3>1 DEF Ruleset
    <3>3. [l EXCEPT !.rs.raced = @ \cup {n}] \in Load
      BY <3>1, <3>2 DEF Load
    <3> QED
      BY <3>1, <3>3 DEF Overtake
  <2>3. loads' \in SUBSET Load
    BY <1>6, <2>2 DEF Invalidate
  <2> QED
    BY <1>6, <2>1, <2>3 DEF Invalidate
<1>7. ASSUME NEW s \in Servers, NEW n \in announcing[s], Announce(s, n)
      PROVE  TypeOK'
  BY <1>7 DEF Announce
<1>8. ASSUME NEW r \in Requests, NEW s \in Servers, NEW e \in Envs,
             BeginLoad(r, s, e)
      PROVE  TypeOK'
  BY <1>8 DEF BeginLoad, Load, Ruleset, None
<1>9. ASSUME NEW l \in loads, NEW F \in SUBSET Flags,
             \/ ReadFlags(l, F) \/ ReadStates(l, F) \/ ReadSegments(l)
             \/ LoadFails(l) \/ StoreRuleset(l)
      PROVE  TypeOK'
  <2>1. l \in Load /\ l.rs \in Ruleset
    BY DEF Load
  <2>a. \A m \in Load : Becomes(l, m) => loads' \in SUBSET Load
    BY DEF Becomes
  <2>2. CASE ReadFlags(l, F)
    <3> DEFINE fs == [f \in Flags |-> IF f \in F \ deleted THEN flags[f] ELSE 0]
    <3>0. fs \in [Flags -> Nat]
      OBVIOUS
    <3>a. Becomes(l, [l EXCEPT !.pc = "states", !.rs.flags = fs])
      BY <2>2 DEF ReadFlags
    <3>b. UNCHANGED <<dbVars, cache, connVars, hubVars>>
      BY <2>2 DEF ReadFlags
    <3> HIDE DEF fs
    <3>1. [l.rs EXCEPT !.flags = fs] \in Ruleset
      BY <2>1, <3>0 DEF Ruleset
    <3>2. [l EXCEPT !.pc = "states", !.rs.flags = fs] \in Load
      BY <2>1, <3>1 DEF Load
    <3> QED
      BY <2>a, <3>a, <3>b, <3>2
  <2>3. CASE ReadStates(l, F)
    <3> DEFINE ss == [f \in Flags |-> IF f \in F \ deleted THEN states[l.env][f] ELSE 0]
               lo == LeftOut(l.rs, l.env, F)
    <3>1. l.env \in Envs /\ states[l.env] \in [Flags -> Nat]
      BY <2>1 DEF Load
    <3>2. ss \in [Flags -> Nat] /\ lo \in [Flags -> Nat]
      BY <3>1 DEF LeftOut
    <3>a. Becomes(l, [l EXCEPT !.pc = "segments", !.rs.states = ss, !.rs.left = lo])
      BY <2>3 DEF ReadStates
    <3>b. UNCHANGED <<dbVars, cache, connVars, hubVars>>
      BY <2>3 DEF ReadStates
    <3> HIDE DEF ss, lo
    <3>3. [l.rs EXCEPT !.states = ss, !.left = lo] \in Ruleset
      BY <2>1, <3>2 DEF Ruleset
    <3>4. [l EXCEPT !.pc = "segments", !.rs.states = ss, !.rs.left = lo] \in Load
      BY <2>1, <3>3 DEF Load
    <3> QED
      BY <2>a, <3>a, <3>b, <3>4
  <2>4. CASE ReadSegments(l)
    <3>1. [l EXCEPT !.pc = "store"] \in Load
      BY <2>1 DEF Load
    <3> QED
      BY <2>a, <2>4, <3>1 DEF ReadSegments
  <2>5. CASE LoadFails(l)
    BY <2>5 DEF LoadFails
  <2>6. CASE StoreRuleset(l)
    <3>1. Joined(l.rs) \in Ruleset
      BY <2>1 DEF Joined, Ruleset
    <3> QED
      BY <2>1, <2>6, <3>1 DEF StoreRuleset, Load
  <2> QED
    BY <1>9, <2>2, <2>3, <2>4, <2>5, <2>6
<1>10. CASE UNCHANGED vars
  BY <1>10 DEF vars
<1> QED
  BY <1>a, <1>b, <1>c, <1>3, <1>4, <1>5, <1>6, <1>7, <1>8, <1>9, <1>10 DEF Next

\* The variables keep their types in every reachable state.
THEOREM TypeCorrect == Spec => []TypeOK
<1>1. QED
  BY TypeInit, TypeStep, PTL DEF Spec

-----------------------------------------------------------------------------
(* The inductive invariant.                                                *)

\* Steps that leave the flag states, the notifications, the loads and the cache alone.
Quiet == UNCHANGED <<deleted, states, cache, hubVars, loads>>

\* Steps that commit to the states of a flag.
StateCommits ==
    \E f \in Flags : \E E \in SUBSET Envs : Commit(f, E) /\ deleted \subseteq deleted'

\* Steps that only drop what is on the wire of s.
Drops(s) == DropWire(s) /\ UNCHANGED <<deleted, states, cache, invalidating,
                                       announcing, announced, loads>>

\* One of the reads of a load.
Reads(l) ==
    \/ \E F \in SUBSET Flags : ReadFlags(l, F) \/ ReadStates(l, F)
    \/ ReadSegments(l)

\* The cases of a step that the notifications tell apart.
LEMMA StepCases ==
  ASSUME [Next]_vars
  PROVE  \/ Quiet
         \/ StateCommits
         \/ \E s \in Servers : Drops(s)
         \/ \E s \in Servers : Restart(s)
         \/ \E s \in Servers : \E n \in wire[s] : Receive(s, n)
         \/ \E s \in Servers : \E n \in invalidating[s] : Invalidate(s, n)
         \/ \E s \in Servers : \E n \in announcing[s] : Announce(s, n)
         \/ \E r \in Requests, s \in Servers, e \in Envs : BeginLoad(r, s, e)
         \/ \E l \in loads : Reads(l) \/ LoadFails(l) \/ StoreRuleset(l)
<1> USE DEF dbVars, hubVars, connVars
<1>1. CASE UNCHANGED vars
  BY <1>1 DEF vars, Quiet
<1>a. ASSUME NEW f \in Flags, EditFlag(f) PROVE Quiet
  BY <1>a DEF EditFlag, Quiet
<1>2. ASSUME NEW s \in Servers,
             Subscribe(s) \/ ListenStarts(s) \/ BackoffEnds(s) \/ Close(s)
      PROVE  Quiet
  BY <1>2 DEF Subscribe, ListenStarts, BackoffEnds, Close, Quiet
<1>3. ASSUME NEW s \in Servers, ListenFails(s) \/ CancelListen(s)
      PROVE  Drops(s)
  BY <1>3 DEF ListenFails, CancelListen, Drops
<1>4. ASSUME NEW f \in Flags, NEW e \in Envs, EditState(f, e) PROVE StateCommits
  <2>1. {e} \in SUBSET Envs /\ Commit(f, {e}) /\ deleted \subseteq deleted'
    BY <1>4 DEF EditState
  <2> QED
    BY <2>1 DEF StateCommits
<1>5. ASSUME NEW f \in Flags, DeleteFlag(f) PROVE StateCommits
  <2> DEFINE E == {e \in Envs : states[e][f] > 0}
  <2>1. E \in SUBSET Envs
    OBVIOUS
  <2>2. Commit(f, E) /\ deleted \subseteq deleted'
    BY <1>5 DEF DeleteFlag
  <2> QED
    BY <2>1, <2>2 DEF StateCommits
<1>6. (\E l \in loads : \/ \E F \in SUBSET Flags : ReadFlags(l, F) \/ ReadStates(l, F)
                       \/ ReadSegments(l) \/ LoadFails(l) \/ StoreRuleset(l))
      => \E l \in loads : Reads(l) \/ LoadFails(l) \/ StoreRuleset(l)
  BY DEF Reads
<1> QED
  BY <1>1, <1>2, <1>3, <1>4, <1>5, <1>6, <1>a DEF Next

LEMMA SafeInit == Init => Apart /\ Committed /\ LoadIsExplained /\ StaleIsExplained
  BY DEF Init, Apart, Committed, LoadIsExplained, StaleIsExplained, Missing

\* A notification is in one place before a step and after it.
LEMMA ApartStep == TypeOK /\ Apart /\ Committed /\ [Next]_vars => Apart'
<1> SUFFICES ASSUME TypeOK, Apart, Committed, [Next]_vars PROVE Apart'
  OBVIOUS
<1> USE DEF dbVars, hubVars, connVars
<1>1. CASE Quiet
  BY <1>1 DEF Quiet, Apart
<1>2. ASSUME NEW f \in Flags, NEW E \in SUBSET Envs, Commit(f, E) PROVE Apart'
  <2> DEFINE N == {[env |-> e, flag |-> f, ver |-> states[e][f] + 1] : e \in E}
  <2>1. ASSUME NEW s \in Servers, NEW n \in N
        PROVE  n \notin wire[s] \cup invalidating[s] \cup announcing[s]
                            \cup announced[s] \cup lost[s]
    BY <2>1 DEF Committed, TypeOK
  <2>2. ASSUME NEW s \in Servers
        PROVE  \/ wire'[s] = wire[s] \cup N /\ lost'[s] = lost[s]
               \/ wire'[s] = wire[s] /\ lost'[s] = lost[s] \cup N
    BY <1>2, <2>2 DEF Commit, TypeOK
  <2>3. UNCHANGED <<invalidating, announcing, announced>>
    BY <1>2 DEF Commit
  <2> HIDE DEF N
  <2> QED
    BY <2>1, <2>2, <2>3 DEF Apart
<1>3. ASSUME NEW s \in Servers, Drops(s) PROVE Apart'
  BY <1>3 DEF Drops, DropWire, Apart, TypeOK
<1>4. ASSUME NEW s \in Servers, Restart(s) PROVE Apart'
  BY <1>4 DEF Restart, Apart, TypeOK
<1>5. ASSUME NEW s \in Servers, NEW n \in wire[s], Receive(s, n) PROVE Apart'
  BY <1>5 DEF Receive, Apart, TypeOK
<1>6. ASSUME NEW s \in Servers, NEW n \in invalidating[s], Invalidate(s, n)
      PROVE  Apart'
  BY <1>6 DEF Invalidate, Apart, TypeOK
<1>7. ASSUME NEW s \in Servers, NEW n \in announcing[s], Announce(s, n)
      PROVE  Apart'
  BY <1>7 DEF Announce, Apart, TypeOK
<1>8. ASSUME UNCHANGED hubVars PROVE Apart'
  BY <1>8 DEF Apart
<1> QED
  BY <1>1, <1>2, <1>3, <1>4, <1>5, <1>6, <1>7, <1>8, StepCases
     DEF StateCommits, BeginLoad, Reads, ReadFlags, ReadStates, ReadSegments, LoadFails,
         StoreRuleset

\* Every notification names a version its environment has reached.
LEMMA CommittedStep == TypeOK /\ Committed /\ [Next]_vars => Committed'
<1> SUFFICES ASSUME TypeOK, Committed, [Next]_vars PROVE Committed'
  OBVIOUS
<1> USE DEF dbVars, hubVars, connVars
<1>1. CASE Quiet
  BY <1>1 DEF Quiet, Committed
<1>2. ASSUME NEW f \in Flags, NEW E \in SUBSET Envs, Commit(f, E) PROVE Committed'
  <2> DEFINE N == {[env |-> e, flag |-> f, ver |-> states[e][f] + 1] : e \in E}
  <2>1. ASSUME NEW s \in Servers
        PROVE  wire'[s] \subseteq wire[s] \cup N /\ lost'[s] \subseteq lost[s] \cup N
    BY <1>2, <2>1 DEF Commit, TypeOK
  <2>2. \A m \in Notification : m.ver <= states[m.env][m.flag]
                             => m.ver <= states'[m.env][m.flag]
    BY <1>2 DEF Commit, TypeOK, Notification
  <2>3. \A n \in N : n.ver <= states'[n.env][n.flag]
    BY <1>2 DEF Commit, TypeOK
  <2>4. UNCHANGED <<invalidating, announcing, announced>>
    BY <1>2 DEF Commit
  <2> HIDE DEF N
  <2>5. ASSUME NEW s \in Servers,
               NEW m \in (wire[s] \cup invalidating[s] \cup announcing[s]
                           \cup announced[s] \cup lost[s])'
        PROVE  m.ver <= states'[m.env][m.flag]
    <3>1. CASE m \in N
      BY <2>3, <3>1
    <3>2. CASE m \notin N
      <4>1. m \in wire[s] \cup invalidating[s] \cup announcing[s]
                  \cup announced[s] \cup lost[s]
        BY <2>1, <2>4, <3>2, <2>5
      <4>2. m \in Notification /\ m.ver <= states[m.env][m.flag]
        BY <4>1 DEF Committed, TypeOK
      <4> QED
        BY <4>2, <2>2
    <3> QED
      BY <3>1, <3>2
  <2> QED
    BY <2>5 DEF Committed
<1>3. ASSUME NEW s \in Servers, Drops(s) PROVE Committed'
  BY <1>3 DEF Drops, DropWire, Committed, TypeOK
<1>4. ASSUME NEW s \in Servers, Restart(s) PROVE Committed'
  BY <1>4 DEF Restart, Committed, TypeOK
<1>5. ASSUME NEW s \in Servers, NEW n \in wire[s], Receive(s, n) PROVE Committed'
  BY <1>5 DEF Receive, Committed, TypeOK
<1>6. ASSUME NEW s \in Servers, NEW n \in invalidating[s], Invalidate(s, n)
      PROVE  Committed'
  BY <1>6 DEF Invalidate, Committed, TypeOK
<1>7. ASSUME NEW s \in Servers, NEW n \in announcing[s], Announce(s, n)
      PROVE  Committed'
  BY <1>7 DEF Announce, Committed, TypeOK
<1>8. ASSUME UNCHANGED <<states, hubVars>> PROVE Committed'
  BY <1>8 DEF Committed
<1> QED
  BY <1>1, <1>2, <1>3, <1>4, <1>5, <1>6, <1>7, <1>8, StepCases
     DEF StateCommits, BeginLoad, Reads, ReadFlags, ReadStates, ReadSegments, LoadFails,
         StoreRuleset

\* What s has yet to handle, or never will.
Pending(s) == wire[s] \cup invalidating[s] \cup lost[s]

\* Ruleset rs of (s, e) lacks only commits that are pending, overtook its load or
\* are of states the load left out.
Explains(rs, s, e) ==
    \A f \in Flags : \A n \in Lacks(rs, e, f) : n \in Pending(s) \/ Flawed(rs, n)

LEMMA JoinedIsFlawed ==
  ASSUME NEW rs \in Ruleset, NEW n
  PROVE  Joined(rs) \in Ruleset /\ (Flawed(Joined(rs), n) <=> Flawed(rs, n))
BY DEF Ruleset, Joined, Flawed

LEMMA LoadIsExplainedDef ==
  ASSUME TypeOK
  PROVE  LoadIsExplained <=>
           \A l \in loads : l.pc \in {"segments", "store"}
                              => Explains(Joined(l.rs), l.server, l.env)
<1>1. \A l \in loads : l.rs \in Ruleset
  BY DEF TypeOK, Load
<1> QED
  BY <1>1, JoinedIsFlawed DEF LoadIsExplained, Explains, Pending, OnItsWay

\* The commits that are lacking are those to a flag of the environment.
LEMMA LacksHas ==
  ASSUME NEW rs, NEW e, NEW f, NEW n \in Lacks(rs, e, f)
  PROVE  n.env = e /\ n.flag = f /\ n = [env |-> e, flag |-> f, ver |-> n.ver]
BY DEF Lacks

LEMMA StaleIsExplainedDef ==
  ASSUME TypeOK
  PROVE  StaleIsExplained <=>
           \A s \in Servers, e \in Envs :
              cache[s][e] # NoRuleset => Explains(cache[s][e], s, e)
<1>1. ASSUME NEW s \in Servers, NEW e \in Envs, cache[s][e] # NoRuleset
      PROVE  (\A n \in Missing(s, e) : OnItsWay(s, n) \/ Missed(s, n))
               <=> Explains(cache[s][e], s, e)
  <2>1. \A n : n \in Missing(s, e) <=> \E f \in Flags : n \in Lacks(cache[s][e], e, f)
    BY <1>1 DEF Missing
  <2>2. \A f \in Flags : \A n \in Lacks(cache[s][e], e, f) :
           Missed(s, n) <=> n \in lost[s] \/ Flawed(cache[s][e], n)
    BY <1>1, LacksHas DEF Missed
  <2> QED
    BY <2>1, <2>2 DEF Explains, Pending, OnItsWay
<1>2. \A s \in Servers, e \in Envs : cache[s][e] = NoRuleset => Missing(s, e) = {}
  BY DEF Missing
<1> QED
  BY <1>1, <1>2 DEF StaleIsExplained

\* Steps that leave nothing out of Pending and commit nothing keep a ruleset
\* explained.
LEMMA ExplainsKept ==
  ASSUME NEW s, NEW e, NEW rs, Explains(rs, s, e),
         states' = states, deleted' = deleted, Pending(s) \subseteq Pending(s)'
  PROVE  Explains(rs, s, e)'
<1>1. \A f : Lacks(rs, e, f)' = Lacks(rs, e, f)
  BY DEF Lacks
<1>2. \A n : Flawed(rs, n)' = Flawed(rs, n)
  BY DEF Flawed
<1> QED
  BY <1>1, <1>2 DEF Explains

\* A commit adds its own notifications to Pending.
LEMMA ExplainsAfterCommit ==
  ASSUME TypeOK, NEW g \in Flags, NEW E \in SUBSET Envs, Commit(g, E),
         deleted \subseteq deleted',
         NEW s \in Servers, NEW e \in Envs, NEW rs \in Ruleset, Explains(rs, s, e)
  PROVE  Explains(rs, s, e)'
<1> DEFINE c == [env |-> e, flag |-> g, ver |-> states[e][g] + 1]
<1>1. Pending(s) \subseteq Pending(s)' /\ (e \in E => c \in Pending(s)')
  BY DEF Commit, Pending, TypeOK
<1>2. \A f \in Flags : states'[e][f] = IF e \in E /\ f = g THEN states[e][f] + 1
                                                     ELSE states[e][f]
  BY DEF Commit, TypeOK
<1>3. ASSUME NEW f \in Flags, NEW n \in Lacks(rs, e, f)'
      PROVE  n \in Pending(s)' \/ Flawed(rs, n)'
  <2>1. PICK v \in (rs.states[f] + 1)..states'[e][f] :
           n = [env |-> e, flag |-> f, ver |-> v]
    BY <1>3 DEF Lacks
  <2>2. rs.states[f] \in Nat /\ states[e][f] \in Nat /\ v \in Nat
    BY <1>2, <2>1 DEF Ruleset, TypeOK
  <2>3. ~(rs.states[f] = 0 /\ f \in deleted)
    BY <1>3 DEF Lacks
  <2>4. CASE v \in (rs.states[f] + 1)..states[e][f]
    <3>1. n \in Lacks(rs, e, f)
      BY <2>1, <2>3, <2>4 DEF Lacks
    <3> QED
      BY <1>1, <3>1 DEF Explains, Flawed
  <2>5. CASE v \notin (rs.states[f] + 1)..states[e][f]
    <3>1. e \in E /\ f = g /\ v = states[e][f] + 1
      BY <1>2, <2>1, <2>2, <2>5
    <3> QED
      BY <1>1, <2>1, <3>1
  <2> QED
    BY <2>4, <2>5
<1> QED
  BY <1>3 DEF Explains

\* Commit n overtakes the load of rs.
Overtaken(rs, n) == [rs EXCEPT !.raced = @ \cup {n}]

LEMMA OvertakenHas ==
  ASSUME NEW rs \in Ruleset, NEW n
  PROVE  /\ Joined(Overtaken(rs, n)).states = Joined(rs).states
         /\ \A m : Flawed(Joined(Overtaken(rs, n)), m) <=> Flawed(Joined(rs), m) \/ m = n
BY DEF Ruleset, Joined, Overtaken, Flawed

\* An invalidation takes n out of Pending: only (s, n.env) is concerned.
LEMMA ExplainsAfterInvalidate ==
  ASSUME TypeOK, NEW d \in Servers, NEW n \in invalidating[d], Invalidate(d, n),
         NEW s \in Servers, NEW e \in Envs, NEW rs, Explains(rs, s, e)
  PROVE  /\ (s # d \/ e # n.env) => Explains(rs, s, e)'
         /\ \A qs : qs.states = rs.states /\ (\A m : Flawed(qs, m) <=> Flawed(rs, m) \/ m = n)
                      => Explains(qs, s, e)'
<1>1. states' = states /\ deleted' = deleted
  BY DEF Invalidate, dbVars
<1>2. Pending(s) \subseteq Pending(s)' \cup {n}
  BY DEF Invalidate, Pending, TypeOK
<1>3. s # d => Pending(s) \subseteq Pending(s)'
  BY DEF Invalidate, Pending, TypeOK
<1>4. \A f : Lacks(rs, e, f)' = Lacks(rs, e, f)
  BY <1>1 DEF Lacks
<1>5. \A m : Flawed(rs, m)' <=> Flawed(rs, m)
  BY DEF Flawed
<1>6. ASSUME s # d \/ e # n.env PROVE Explains(rs, s, e)'
  <2>1. \A f \in Flags : n \notin Lacks(rs, e, f) \/ Pending(s) \subseteq Pending(s)'
    BY <1>3, <1>6, LacksHas
  <2> QED
    BY <1>2, <1>4, <1>5, <2>1 DEF Explains
<1>7. ASSUME NEW qs, qs.states = rs.states,
             \A m : Flawed(qs, m) <=> Flawed(rs, m) \/ m = n
      PROVE  Explains(qs, s, e)'
  <2>1. \A f : Lacks(qs, e, f)' = Lacks(rs, e, f)
    BY <1>1, <1>7 DEF Lacks
  <2>2. \A m : Flawed(qs, m)' <=> Flawed(qs, m)
    BY DEF Flawed
  <2> QED
    BY <1>2, <1>7, <2>1, <2>2 DEF Explains
<1> QED
  BY <1>6, <1>7

\* What a read of the states lacks at once is what it left out.
LEMMA ReadIsExplained ==
  ASSUME TypeOK, NEW m \in loads, NEW F \in SUBSET Flags, ReadStates(m, F),
         NEW rs,
         rs = [m.rs EXCEPT !.states = [f \in Flags |->
                              IF f \in F \ deleted THEN states[m.env][f] ELSE 0],
                           !.left = LeftOut(m.rs, m.env, F)]
  PROVE  \A f \in Flags : \A n \in Lacks(Joined(rs), m.env, f) : Flawed(Joined(rs), n)
<1>1. m.rs \in Ruleset /\ m.env \in Envs /\ states[m.env] \in [Flags -> Nat]
  BY DEF TypeOK, Load
<1>2. /\ Joined(rs).left = LeftOut(m.rs, m.env, F)
      /\ \A f \in Flags : Joined(rs).states[f] =
            IF m.rs.flags[f] = 0 \/ f \notin F \ deleted THEN 0 ELSE states[m.env][f]
  BY <1>1 DEF Ruleset, Joined
<1>3. \A f \in Flags : LeftOut(m.rs, m.env, F)[f] =
            IF m.rs.flags[f] = 0 \/ f \notin F THEN states[m.env][f] ELSE 0
  BY DEF LeftOut
<1> SUFFICES ASSUME NEW f \in Flags, NEW n \in Lacks(Joined(rs), m.env, f)
             PROVE  n.ver <= Joined(rs).left[n.flag]
  BY DEF Flawed
<1>4. n.flag = f
  BY LacksHas
<1> DEFINE q == Joined(rs).states[f]
<1>5. ~(q = 0 /\ f \in deleted) /\ n.ver \in (q + 1)..states[m.env][f]
  <2> HIDE DEF q
  <2>1. Lacks(Joined(rs), m.env, f) =
          IF q = 0 /\ f \in deleted
          THEN {}
          ELSE {[env |-> m.env, flag |-> f, ver |-> v] : v \in (q + 1)..states[m.env][f]}
    BY DEF Lacks, q
  <2> QED
    BY <2>1
<1>6. q = IF m.rs.flags[f] = 0 \/ f \notin F \ deleted THEN 0 ELSE states[m.env][f]
  BY <1>2
<1>7. Joined(rs).left[n.flag] =
        IF m.rs.flags[f] = 0 \/ f \notin F THEN states[m.env][f] ELSE 0
  BY <1>2, <1>3, <1>4
<1>8. states[m.env][f] \in Nat
  BY <1>1
<1> HIDE DEF q
<1> QED
  BY <1>5, <1>6, <1>7, <1>8

\* The steps that are neither a commit nor a handler's delete.
LEMMA PendingGrows ==
  ASSUME TypeOK, [Next]_vars,
         ~StateCommits,
         ~ \E s \in Servers : \E n \in invalidating[s] : Invalidate(s, n)
  PROVE  UNCHANGED <<states, deleted>> /\ \A s \in Servers : Pending(s) \subseteq Pending(s)'
<1> USE DEF dbVars, hubVars, connVars
<1>1. CASE Quiet
  BY <1>1 DEF Quiet, Pending
<1>2. ASSUME NEW s \in Servers, Drops(s)
      PROVE  UNCHANGED <<states, deleted>> /\ \A t \in Servers :
                                                  Pending(t) \subseteq Pending(t)'
  BY <1>2 DEF Drops, DropWire, Pending, TypeOK
<1>3. ASSUME NEW s \in Servers, Restart(s)
      PROVE  UNCHANGED <<states, deleted>> /\ \A t \in Servers :
                                                  Pending(t) \subseteq Pending(t)'
  BY <1>3 DEF Restart, Pending, TypeOK
<1>4. ASSUME NEW s \in Servers, NEW n \in wire[s], Receive(s, n)
      PROVE  UNCHANGED <<states, deleted>> /\ \A t \in Servers :
                                                  Pending(t) \subseteq Pending(t)'
  BY <1>4 DEF Receive, Pending, TypeOK
<1>5. ASSUME NEW s \in Servers, NEW n \in announcing[s], Announce(s, n)
      PROVE  UNCHANGED <<states, deleted>> /\ \A t \in Servers :
                                                  Pending(t) \subseteq Pending(t)'
  BY <1>5 DEF Announce, Pending
<1>6. ASSUME UNCHANGED <<states, deleted, hubVars>>
      PROVE  UNCHANGED <<states, deleted>> /\ \A t \in Servers :
                                                  Pending(t) \subseteq Pending(t)'
  BY <1>6 DEF Pending
<1> QED
  BY <1>1, <1>2, <1>3, <1>4, <1>5, <1>6, StepCases
     DEF StateCommits, BeginLoad, Reads, ReadFlags, ReadStates, ReadSegments, LoadFails,
         StoreRuleset

\* Whatever a load has read stays explained until it is stored.
LEMMA LoadStep ==
  TypeOK /\ TypeOK' /\ LoadIsExplained /\ [Next]_vars => LoadIsExplained'
<1> DEFINE Past(m) == m.pc \in {"segments", "store"}
<1> SUFFICES ASSUME TypeOK, TypeOK', LoadIsExplained, [Next]_vars
             PROVE  \A l \in loads' : Past(l) => Explains(Joined(l.rs), l.server, l.env)'
  <2>1. (TypeOK => (LoadIsExplained <=>
           \A l \in loads : Past(l) => Explains(Joined(l.rs), l.server, l.env)))'
    BY LoadIsExplainedDef, PTL
  <2> QED
    BY <2>1
<1> SUFFICES ASSUME NEW l \in loads', Past(l)
             PROVE  Explains(Joined(l.rs), l.server, l.env)'
  OBVIOUS
<1>a. \A m \in loads : Past(m) => Explains(Joined(m.rs), m.server, m.env)
  BY LoadIsExplainedDef
<1>b. \A m \in loads : /\ m \in Load /\ m.rs \in Ruleset /\ Joined(m.rs) \in Ruleset
                       /\ m.server \in Servers /\ m.env \in Envs
  BY JoinedIsFlawed DEF TypeOK, Load
<1> USE DEF dbVars, hubVars, connVars
<1>1. CASE StateCommits
  <2>1. PICK f \in Flags, E \in SUBSET Envs : Commit(f, E) /\ deleted \subseteq deleted'
    BY <1>1 DEF StateCommits
  <2>2. l \in loads
    BY <2>1 DEF Commit
  <2> QED
    BY <1>a, <1>b, <2>1, <2>2, ExplainsAfterCommit
<1>2. ASSUME NEW s \in Servers, NEW n \in invalidating[s], Invalidate(s, n)
      PROVE  Explains(Joined(l.rs), l.server, l.env)'
  <2>1. PICK m \in loads : l = Overtake(m, s, n)
    BY <1>2 DEF Invalidate
  <2>2. /\ m \in Load /\ m.rs \in Ruleset /\ Joined(m.rs) \in Ruleset
        /\ m.server \in Servers /\ m.env \in Envs
    BY <2>1, <1>b
  <2>3. CASE m.server = s /\ m.env = n.env /\ Past(m)
    <3>1. l = [m EXCEPT !.rs.raced = @ \cup {n}]
      BY <2>1, <2>3 DEF Overtake
    <3>2. l.rs = Overtaken(m.rs, n) /\ l.server = m.server /\ l.env = m.env
      BY <3>1, <2>2 DEF Load, Overtaken
    <3>3. Explains(Joined(m.rs), m.server, m.env)
      BY <1>a, <2>1, <2>3
    <3>4. /\ Joined(l.rs).states = Joined(m.rs).states
          /\ \A q : Flawed(Joined(l.rs), q) <=> Flawed(Joined(m.rs), q) \/ q = n
      BY <2>2, <3>2, OvertakenHas
    <3> QED
      BY <1>2, <2>2, <3>2, <3>3, <3>4, ExplainsAfterInvalidate
  <2>4. CASE ~(m.server = s /\ m.env = n.env /\ Past(m))
    <3>1. l = m
      BY <2>1, <2>4 DEF Overtake
    <3>2. Explains(Joined(m.rs), m.server, m.env) /\ (m.server # s \/ m.env # n.env)
      BY <1>a, <2>1, <2>4, <3>1
    <3> QED
      BY <1>2, <2>2, <3>1, <3>2, ExplainsAfterInvalidate
  <2> QED
    BY <2>3, <2>4
<1>3. ASSUME ~StateCommits,
             ~ \E s \in Servers : \E n \in invalidating[s] : Invalidate(s, n)
      PROVE  Explains(Joined(l.rs), l.server, l.env)'
  <2>1. UNCHANGED <<states, deleted>> /\ \A s \in Servers : Pending(s) \subseteq Pending(s)'
    BY <1>3, PendingGrows
  <2>2. CASE l \in loads
    <3>1. l.server \in Servers /\ Explains(Joined(l.rs), l.server, l.env)
      BY <1>a, <1>b, <2>2
    <3> QED
      BY <2>1, <3>1, ExplainsKept
  <2>3. ASSUME NEW m \in loads, NEW F \in SUBSET Flags, ReadStates(m, F), l \notin loads
        PROVE  Explains(Joined(l.rs), l.server, l.env)'
    <3> DEFINE ss == [f \in Flags |-> IF f \in F \ deleted THEN states[m.env][f] ELSE 0]
               lo == LeftOut(m.rs, m.env, F)
    <3>1. l = [m EXCEPT !.pc = "segments", !.rs.states = ss, !.rs.left = lo]
      BY <2>3 DEF ReadStates, Becomes
    <3>2. l.rs = [m.rs EXCEPT !.states = ss, !.left = lo] /\ l.env = m.env
      <4> HIDE DEF ss, lo
      <4> QED
        BY <3>1, <1>b DEF Load, Ruleset
    <3>3. \A f \in Flags : \A n \in Lacks(Joined(l.rs), l.env, f) : Flawed(Joined(l.rs), n)
      <4>1. \A f \in Flags : \A n \in Lacks(Joined(l.rs), m.env, f) : Flawed(Joined(l.rs), n)
        BY <2>3, <3>2, ReadIsExplained
      <4> QED
        BY <3>2, <4>1
    <3>4. l.server \in Servers
      BY DEF TypeOK, Load
    <3>5. Explains(Joined(l.rs), l.server, l.env)
      BY <3>3 DEF Explains
    <3> QED
      BY <2>1, <3>4, <3>5, ExplainsKept
  <2>4. ASSUME NEW m \in loads, ReadSegments(m), l \notin loads
        PROVE  Explains(Joined(l.rs), l.server, l.env)'
    <3>1. l = [m EXCEPT !.pc = "store"] /\ Past(m)
      BY <2>4 DEF ReadSegments, Becomes
    <3>2. l.rs = m.rs /\ l.server = m.server /\ l.env = m.env
      BY <3>1, <1>b DEF Load
    <3>3. m.server \in Servers /\ Explains(Joined(m.rs), m.server, m.env)
      BY <1>a, <1>b, <3>1
    <3> QED
      BY <2>1, <3>2, <3>3, ExplainsKept
  <2>5. ASSUME NEW m \in loads, NEW F \in SUBSET Flags, ReadFlags(m, F) PROVE l \in loads
    <3> DEFINE fs == [f \in Flags |-> IF f \in F \ deleted THEN flags[f] ELSE 0]
    <3>1. Becomes(m, [m EXCEPT !.pc = "states", !.rs.flags = fs])
      BY <2>5 DEF ReadFlags
    <3> HIDE DEF fs
    <3>2. [m EXCEPT !.pc = "states", !.rs.flags = fs].pc = "states"
      BY <1>b DEF Load
    <3> QED
      BY <3>1, <3>2 DEF Becomes
  <2>6. ASSUME \/ loads' \subseteq loads
               \/ \E r \in Requests, s \in Servers, e \in Envs : BeginLoad(r, s, e)
        PROVE  l \in loads
    BY <2>6 DEF BeginLoad
  <2>7. \/ loads' \subseteq loads
        \/ \E r \in Requests, s \in Servers, e \in Envs : BeginLoad(r, s, e)
        \/ \E m \in loads : Reads(m)
    BY <1>3, StepCases DEF Quiet, Drops, Restart, Receive, Announce, LoadFails,
                           StoreRuleset
  <2>8. ASSUME NEW m \in loads, Reads(m), l \notin loads
        PROVE  Explains(Joined(l.rs), l.server, l.env)'
    BY <2>3, <2>4, <2>5, <2>8 DEF Reads
  <2> QED
    BY <2>2, <2>6, <2>7, <2>8
<1> QED
  BY <1>1, <1>2, <1>3

\* Whatever is cached stays explained until it is replaced or dropped.
LEMMA StaleStep ==
  TypeOK /\ TypeOK' /\ LoadIsExplained /\ StaleIsExplained /\ [Next]_vars
    => StaleIsExplained'
<1> SUFFICES ASSUME TypeOK, TypeOK', LoadIsExplained, StaleIsExplained, [Next]_vars,
                    NEW s \in Servers, NEW e \in Envs,
                    NEW rs, rs = cache'[s][e], rs # NoRuleset
             PROVE  Explains(rs, s, e)'
  <2>1. (TypeOK => (StaleIsExplained <=>
           \A s \in Servers, e \in Envs :
              cache[s][e] # NoRuleset => Explains(cache[s][e], s, e)))'
    BY StaleIsExplainedDef, PTL
  <2>2. ASSUME TypeOK', \A s \in Servers, e \in Envs :
                           (cache[s][e] # NoRuleset => Explains(cache[s][e], s, e))'
        PROVE  StaleIsExplained'
    BY <2>1, <2>2
  <2> QED
    BY <2>2
<1>a. cache[s][e] # NoRuleset => cache[s][e] \in Ruleset /\ Explains(cache[s][e], s, e)
  BY StaleIsExplainedDef DEF TypeOK
<1> USE DEF dbVars, hubVars, connVars
<1>1. CASE StateCommits
  <2>1. PICK f \in Flags, E \in SUBSET Envs : Commit(f, E) /\ deleted \subseteq deleted'
    BY <1>1 DEF StateCommits
  <2>2. cache' = cache
    BY <2>1 DEF Commit
  <2> QED
    BY <1>a, <2>1, <2>2, ExplainsAfterCommit
<1>2. ASSUME NEW t \in Servers, NEW n \in invalidating[t], Invalidate(t, n)
      PROVE  Explains(rs, s, e)'
  <2>1. n.env \in Envs /\ cache' = [cache EXCEPT ![t][n.env] = NoRuleset]
    BY <1>2 DEF Invalidate, TypeOK, Notification
  <2>2. (s # t \/ e # n.env) /\ rs = cache[s][e]
    BY <2>1 DEF TypeOK
  <2> QED
    BY <1>2, <1>a, <2>2, ExplainsAfterInvalidate
<1>3. ASSUME ~StateCommits,
             ~ \E t \in Servers : \E n \in invalidating[t] : Invalidate(t, n)
      PROVE  Explains(rs, s, e)'
  <2>1. UNCHANGED <<states, deleted>> /\ \A t \in Servers : Pending(t) \subseteq Pending(t)'
    BY <1>3, PendingGrows
  <2>2. CASE rs = cache[s][e]
    BY <1>a, <2>1, <2>2, ExplainsKept
  <2>3. ASSUME NEW l \in loads, StoreRuleset(l) PROVE Explains(rs, s, e)'
    <3>1. l.server \in Servers /\ l.env \in Envs
      BY DEF TypeOK, Load
    <3>2. CASE s = l.server /\ e = l.env
      <4>1. rs = Joined(l.rs) /\ Explains(Joined(l.rs), s, e)
        BY <2>3, <3>1, <3>2, LoadIsExplainedDef DEF StoreRuleset, TypeOK
      <4> QED
        BY <2>1, <4>1, ExplainsKept
    <3>3. CASE ~(s = l.server /\ e = l.env)
      BY <2>2, <2>3, <3>1, <3>3 DEF StoreRuleset, TypeOK
    <3> QED
      BY <3>2, <3>3
  <2>4. ASSUME NEW t \in Servers, Restart(t) PROVE rs = cache[s][e]
    BY <2>4 DEF Restart, TypeOK
  <2> QED
    BY <1>3, <2>2, <2>3, <2>4, StepCases
       DEF Quiet, Drops, Receive, Announce, BeginLoad, Reads, ReadFlags, ReadStates,
           ReadSegments, LoadFails
<1> QED
  BY <1>1, <1>2, <1>3

LEMMA IInvInductive == (Init => IInv) /\ (IInv /\ [Next]_vars => IInv')
BY TypeInit, SafeInit, TypeStep, ApartStep, CommittedStep, LoadStep, StaleStep
   DEF IInv

\* A cached ruleset lacks a committed flag state only while its invalidation is
\* under way, because it was lost or overtook the load, or because the load left the
\* state out.
THEOREM StalenessExplained == Spec => []StaleIsExplained
<1>1. Spec => []IInv
  BY IInvInductive, PTL DEF Spec
<1>2. IInv => StaleIsExplained
  BY DEF IInv
<1> QED
  BY <1>1, <1>2, PTL

\* What has been announced is visible to the next request, unless the load of
\* the cached ruleset was overtaken or left the state out.
THEOREM AnnouncedVisible == Spec => []AnnouncedIsVisible
<1>1. Spec => []IInv
  BY IInvInductive, PTL DEF Spec
<1>2. IInv => AnnouncedIsVisible
  <2> SUFFICES ASSUME IInv, NEW s \in Servers, NEW n \in announced[s],
                      n \in Missing(s, n.env)
               PROVE  Flawed(cache[s][n.env], n)
    BY DEF AnnouncedIsVisible
  <2>1. n.env \in Envs
    BY DEF IInv, TypeOK, Notification
  <2>2. n \notin wire[s] \cup invalidating[s] \cup lost[s]
    BY DEF IInv, Apart
  <2>3. OnItsWay(s, n) \/ Missed(s, n)
    BY <2>1 DEF IInv, StaleIsExplained
  <2> QED
    BY <2>2, <2>3 DEF OnItsWay, Missed
<1> QED
  BY <1>1, <1>2, PTL

=============================================================================
