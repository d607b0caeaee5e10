-------------------------- MODULE EvalEngine_proofs --------------------------
(***************************************************************************)
(* Proofs about EvalEngine, for any number of flags, any rulesets and any  *)
(* users.  What a group excludes follows from the gates alone.  The other  *)
(* results are about the walk over the prerequisites, which is recursive:  *)
(* each flag it asks is one it had not visited, so it goes on for at most  *)
(* as long as there are flags, and an induction over the flags left        *)
(* (WalkInduction) shows that the walk exists (WalkExists) and what is     *)
(* true of it: that a walk with less visited before is no worse (NoWorse), *)
(* that it never leads back to where it came from (LeadsAway), and that it *)
(* is the same after an edit that leaves alone what it asks (SameWalks).   *)
(* The weights of variants are summed by a recursion as well, of a fixed   *)
(* number of steps (FiniteRecursion).                                      *)
(* The provers know no induction over an operator; over a set of numbers   *)
(* it follows from the well-founded order of the naturals (SetInduction).  *)
(***************************************************************************)
EXTENDS EvalEngine, FiniteSetTheorems, WellFoundedInduction, TLAPS

\* A request for a flag merged into a flag is a flag, and so is an update.
LEMMA RequestedFlag ==
  ASSUME NEW req \in FlagRequests, NEW f \in Flag
  PROVE  FlagUpdate(req, f) \in Flag /\ Merge(req, f) \in Flag
  <1>1. /\ f.default \in Values /\ f.prerequisites \in Seq(Keys)
        /\ f.group \in Groups \cup {NoGroup} /\ f.ab \in BOOLEAN
        /\ f.status \in Statuses
    BY DEF Flag
  <1>2. FlagUpdate(req, f) \in Flag
    BY <1>1, RequestAssumption DEF FlagUpdate, Flag
  <1>3. DOMAIN f = {"default", "prerequisites", "group", "ab", "status"}
    BY DEF Flag
  <1>4. Merge(req, f) \in Flag
    BY <1>1, <1>3, RequestAssumption DEF Merge, Flag
  <1> QED
    BY <1>2, <1>4

\* A patch merged into a state is a state.
LEMMA PatchedState ==
  ASSUME NEW p \in StatePatches, NEW s \in State
  PROVE  Merge(p, s) \in State
  <1>1. /\ s.enabled \in BOOLEAN /\ s.default \in Values \cup {NoValue}
        /\ s.rules \in Seq(Rule) /\ s.percentage \in 0..Full
        /\ s.variants \in Seq(Variant)
    BY DEF State
  <1>2. /\ DOMAIN s = {"enabled", "default", "rules", "percentage", "variants"}
    BY DEF State
  <1> QED
    BY <1>1, <1>2, PatchAssumption DEF Merge, State

LEMMA BlankIsState == BlankState \in State
  BY FullAssumption DEF BlankState, State

\* A function with one more argument, or another value at it.
LEMMA Extended ==
  ASSUME NEW S, NEW T, NEW f \in [S -> T], NEW k, NEW v \in T
  PROVE  [j \in S \cup {k} |-> IF j = k THEN v ELSE f[j]] \in [S \cup {k} -> T]
  OBVIOUS

LEMMA InitType == Init => TypeOK
  <1> SUFFICES ASSUME Init PROVE TypeOK
    OBVIOUS
  <1>1. DOMAIN flags = {} /\ DOMAIN segments = {}
    BY DEF Init
  <1>2. flags \in [DOMAIN flags -> Flag] /\ segments \in [DOMAIN segments -> Segment]
    BY <1>1 DEF Init
  <1>3. states \in [Keys -> State]
    BY BlankIsState DEF Init
  <1> QED
    BY <1>1, <1>2, <1>3, UserAssumption DEF Init, TypeOK

\* The flag edits.
LEMMA FlagEditsType ==
  ASSUME TypeOK, NEW k \in Keys
  PROVE  /\ \A req \in FlagRequests : CreateFlag(k, req) \/ UpdateFlag(k, req) => TypeOK'
         /\ \A p \in StatePatches : UpdateState(k, p) => TypeOK'
         /\ Archive(k) \/ Restore(k) \/ ToggleFlag(k) => TypeOK'
         /\ DeleteFlag(k) => TypeOK'
  <1> USE DEF TypeOK
  <1>1. ASSUME NEW req \in FlagRequests, CreateFlag(k, req) PROVE TypeOK'
    <2> DEFINE blank == [default |-> "false", prerequisites |-> <<>>,
                         group |-> NoGroup, ab |-> FALSE, status |-> "active"]
               f == Merge(req, blank)
    <2>1. blank \in Flag
      BY DEF Flag, Values, Statuses
    <2>2. f \in Flag
      <3> HIDE DEF blank
      <3> QED
        BY <2>1, RequestedFlag
    <2>3. flags' = WithFlag(k, f)
      BY <1>1 DEF CreateFlag
    <2> HIDE DEF f
    <2>4. flags' \in [DOMAIN flags \cup {k} -> Flag]
      BY <2>2, <2>3, Extended DEF WithFlag
    <2>5. DOMAIN flags' = DOMAIN flags \cup {k}
      BY <2>4
    <2>6. UNCHANGED <<states, segments, bucket, holds>> /\ edited' = edited + 1
      BY <1>1 DEF CreateFlag, Edit, user
    <2> QED
      BY <2>4, <2>5, <2>6
  <1>2. ASSUME NEW req \in FlagRequests, UpdateFlag(k, req) PROVE TypeOK'
    <2>1. k \in DOMAIN flags /\ flags' = [flags EXCEPT ![k] = FlagUpdate(req, flags[k])]
      BY <1>2 DEF UpdateFlag
    <2>2. FlagUpdate(req, flags[k]) \in Flag
      BY <2>1, RequestedFlag
    <2>3. flags' \in [DOMAIN flags -> Flag] /\ DOMAIN flags' = DOMAIN flags
      BY <2>1, <2>2
    <2>4. UNCHANGED <<states, segments, bucket, holds>> /\ edited' = edited + 1
      BY <1>2 DEF UpdateFlag, Edit, user
    <2> QED
      BY <2>3, <2>4
  <1>3. ASSUME NEW p \in StatePatches, UpdateState(k, p) PROVE TypeOK'
    <2>1. states' = [states EXCEPT ![k] = Merge(p, states[k])]
      BY <1>3 DEF UpdateState
    <2>2. Merge(p, states[k]) \in State
      BY PatchedState
    <2>3. UNCHANGED <<flags, segments, bucket, holds>> /\ edited' = edited + 1
      BY <1>3 DEF UpdateState, Edit, user
    <2> QED
      BY <2>1, <2>2, <2>3
  <1>4. ASSUME DeleteFlag(k) PROVE TypeOK'
    <2>1. flags' = [j \in DOMAIN flags \ {k} |-> flags[j]]
      BY <1>4 DEF DeleteFlag
    <2>2. flags' \in [DOMAIN flags \ {k} -> Flag] /\ DOMAIN flags' = DOMAIN flags \ {k}
      BY <2>1
    <2>3. states' \in [Keys -> State]
      BY <1>4, BlankIsState DEF DeleteFlag
    <2>4. UNCHANGED <<segments, bucket, holds>> /\ edited' = edited + 1
      BY <1>4 DEF DeleteFlag, Edit, user
    <2> QED
      BY <2>2, <2>3, <2>4
  <1>5. ASSUME NEW st \in Statuses, SetStatus(k, st) PROVE TypeOK'
    <2>1. k \in DOMAIN flags /\ flags' = [flags EXCEPT ![k].status = st]
      BY <1>5 DEF SetStatus
    <2>2. [flags[k] EXCEPT !.status = st] \in Flag
      BY <2>1 DEF Flag
    <2>3. flags' \in [DOMAIN flags -> Flag] /\ DOMAIN flags' = DOMAIN flags
      BY <2>1, <2>2
    <2>4. UNCHANGED <<states, segments, bucket, holds>> /\ edited' = edited + 1
      BY <1>5 DEF SetStatus, Edit, user
    <2> QED
      BY <2>3, <2>4
  <1>6. Archive(k) \/ Restore(k) \/ ToggleFlag(k) => TypeOK'
    BY <1>5 DEF Archive, Restore, ToggleFlag, Statuses
  <1> QED
    BY <1>1, <1>2, <1>3, <1>4, <1>6

LEMMA SegmentEditsType ==
  ASSUME TypeOK, NEW g \in Segments
  PROVE  /\ \A s \in SegmentRequests : CreateSegment(g, s) \/ UpdateSegment(g, s) => TypeOK'
         /\ DeleteSegment(g) => TypeOK'
  <1> USE DEF TypeOK
  <1>1. ASSUME NEW s \in SegmentRequests, CreateSegment(g, s) PROVE TypeOK'
    <2>1. s \in Segment
      BY SegmentAssumption
    <2>2. segments' \in [DOMAIN segments \cup {g} -> Segment]
      BY <1>1, <2>1, Extended DEF CreateSegment
    <2>3. UNCHANGED <<flags, states, bucket, holds>> /\ edited' = edited + 1
      BY <1>1 DEF CreateSegment, Edit, user
    <2> QED
      BY <2>2, <2>3
  <1>2. ASSUME NEW s \in SegmentRequests, UpdateSegment(g, s) PROVE TypeOK'
    BY <1>2, SegmentAssumption DEF UpdateSegment, Edit, user
  <1>3. ASSUME DeleteSegment(g) PROVE TypeOK'
    <2>1. /\ segments' \in [DOMAIN segments \ {g} -> Segment]
          /\ DOMAIN segments' = DOMAIN segments \ {g}
      BY <1>3 DEF DeleteSegment
    <2>2. UNCHANGED <<flags, states, bucket, holds>> /\ edited' = edited + 1
      BY <1>3 DEF DeleteSegment, Edit, user
    <2> QED
      BY <2>1, <2>2
  <1> QED
    BY <1>1, <1>2, <1>3

\* Every edit leaves flags, states and segments of their type.
THEOREM TypeCorrect == Spec => []TypeOK
  <1>1. TypeOK /\ [Next]_vars => TypeOK'
    <2>1. CASE UNCHANGED vars
      BY <2>1 DEF TypeOK, vars, user
    <2> QED
      BY <2>1, FlagEditsType, SegmentEditsType DEF Next
  <1> QED
    BY <1>1, InitType, PTL DEF Spec

-----------------------------------------------------------------------------
\* A flag that is served passed every gate.
LEMMA ServedIsNotRefused ==
  ASSUME NEW k \in DOMAIN flags, Served(k)
  PROVE  Refusal(k) = ""
  BY DEF Served, Evaluate, Outcome, Refusal, Answer

\* Two flags with buckets: one of them comes first.
LEMMA OneBeatsTheOther ==
  ASSUME TypeOK, NEW j \in Keys, NEW k \in Keys, j # k
  PROVE  Beats(j, k) \/ Beats(k, j)
  <1>1. bucket[j] \in Nat /\ bucket[k] \in Nat /\ j \in Nat /\ k \in Nat
    BY NumFlagsAssumption, FullAssumption DEF TypeOK, Keys
  <1> QED
    BY <1>1 DEF Beats

\* Of a mutual exclusion group at most one flag is served to a user: for any
\* number of flags, any buckets, any rules and prerequisites, after any edits.
THEOREM GroupsExclude == Spec => []OneFlagPerGroup
  <1>1. TypeOK => OneFlagPerGroup
    <2> SUFFICES ASSUME TypeOK, NEW j \in DOMAIN flags, NEW k \in DOMAIN flags,
                        flags[j].group = flags[k].group, flags[k].group # NoGroup,
                        Served(j), Served(k), j # k
                 PROVE  FALSE
      BY DEF OneFlagPerGroup
    <2>1. Refusal(j) = "" /\ Refusal(k) = ""
      BY ServedIsNotRefused
    <2>2. /\ states[j].enabled /\ states[k].enabled
          /\ WinsMutexGroup(j) /\ WinsMutexGroup(k)
      BY <2>1 DEF Refusal
    <2>3. j \in Rivals(k) /\ k \in Rivals(j)
      BY <2>2 DEF Rivals
    <2>4. ~Beats(j, k) /\ ~Beats(k, j)
      BY <2>2, <2>3 DEF WinsMutexGroup
    <2> QED
      BY <2>4, OneBeatsTheOther DEF TypeOK
  <1> QED
    BY <1>1, TypeCorrect, PTL

-----------------------------------------------------------------------------
(* Induction.                                                              *)

\* Every set of naturals that has a member has a least one.
LEMMA LeastNatural ==
  ASSUME NEW S \in SUBSET Nat, S # {}
  PROVE  \E m \in S : \A k \in S : m <= k
  <1> DEFINE R == {ss \in Nat \X Nat : ss[1] < ss[2]}
  <1>1. IsWellFoundedOn(R, Nat)
    BY NatLessThanWellFounded DEF OpToRel
  <1> HIDE DEF R
  <1>2. PICK m \in S : \A k \in S : ~ (<<k, m>> \in R)
    BY <1>1, WFMin
  <1>3. ASSUME NEW k \in S PROVE m <= k
    <2>1. k \in Nat /\ m \in Nat
      OBVIOUS
    <2>2. k < m => <<k, m>> \in R
      BY <2>1 DEF R
    <2> QED
      BY <1>2, <2>1, <2>2
  <1> QED
    BY <1>3

\* A set with 0, and with i + 1 for each i it has below n, has all of 0..n.
LEMMA SetInduction ==
  ASSUME NEW S, 0 \in S, NEW n \in Nat, \A i \in 0..(n - 1) : i \in S => i + 1 \in S
  PROVE  \A i \in 0..n : i \in S
  <1> DEFINE B == (0..n) \ S
  <1> SUFFICES ASSUME B # {} PROVE FALSE
    OBVIOUS
  <1>1. PICK m \in B : \A k \in B : m <= k
    <2>1. B \in SUBSET Nat
      OBVIOUS
    <2> HIDE DEF B
    <2> QED
      BY <2>1, LeastNatural
  <1>2. m # 0 /\ m - 1 \in 0..(n - 1) /\ m - 1 \notin B
    BY <1>1
  <1>3. m - 1 + 1 = m
    BY <1>1
  <1> QED
    BY <1>2, <1>3, <1>1

\* How many flags are left to visit behind k.
Rest(v, k) == Cardinality(Keys \ (v \cup {k}))

LEMMA RestIsBounded ==
  \A v, k : Rest(v, k) \in Nat /\ Rest(v, k) <= NumFlags
  <1>1. IsFiniteSet(Keys) /\ Cardinality(Keys) = NumFlags
    BY NumFlagsAssumption, FS_Interval DEF Keys
  <1> TAKE v, k
  <1>2. /\ IsFiniteSet(Keys \ (v \cup {k}))
        /\ Cardinality(Keys \ (v \cup {k})) <= Cardinality(Keys)
    BY <1>1, FS_Subset
  <1> QED
    BY <1>1, <1>2, FS_CardinalityType, NumFlagsAssumption DEF Rest

\* A flag that is new to w, which contains all that was visited before it.
LEMMA RestShrinks ==
  ASSUME NEW v, NEW k, NEW w, NEW p \in Keys, v \cup {k} \subseteq w, p \notin w
  PROVE  Rest(w, p) < Rest(v, k)
  <1> DEFINE S == Keys \ (v \cup {k})   T == Keys \ (w \cup {p})
  <1>1. T \subseteq S /\ p \in S /\ p \notin T
    OBVIOUS
  <1>2. Rest(w, p) \in Nat /\ Rest(v, k) \in Nat
    BY RestIsBounded
  <1>3. IsFiniteSet(S)
    <2>1. IsFiniteSet(Keys) /\ S \in SUBSET Keys
      BY NumFlagsAssumption, FS_Interval DEF Keys
    <2> QED
      BY <2>1, FS_Subset
  <1>4. Rest(w, p) <= Rest(v, k)
    BY <1>1, <1>2, <1>3, FS_Subset DEF Rest
  <1>5. Rest(w, p) # Rest(v, k)
    BY <1>1, <1>2, <1>3, FS_Subset DEF Rest
  <1> QED
    BY <1>2, <1>4, <1>5

\* What holds of a walk if it holds of every walk that it goes on to, holds of all.
LEMMA WalkInduction ==
  ASSUME NEW G,
         \A v \in SUBSET Keys, k \in Keys :
            (\A w \in SUBSET Keys, p \in Keys :
                v \cup {k} \subseteq w /\ p \notin w => <<w, p>> \in G)
            => <<v, k>> \in G
  PROVE  \A v \in SUBSET Keys, k \in Keys : <<v, k>> \in G
  <1> DEFINE S == {n \in Nat : \A v \in SUBSET Keys, k \in Keys :
                                  Rest(v, k) < n => <<v, k>> \in G}
  <1>1. 0 \in S
    <2>1. \A v \in SUBSET Keys, k \in Keys : ~(Rest(v, k) < 0)
      BY RestIsBounded
    <2> QED
      BY <2>1
  <1>2. ASSUME NEW n \in 0..NumFlags, n \in S PROVE n + 1 \in S
    <2> SUFFICES ASSUME NEW v \in SUBSET Keys, NEW k \in Keys, Rest(v, k) < n + 1
                 PROVE  <<v, k>> \in G
      BY NumFlagsAssumption
    <2>1. ASSUME NEW w \in SUBSET Keys, NEW p \in Keys, v \cup {k} \subseteq w, p \notin w
          PROVE  <<w, p>> \in G
      <3>1. Rest(w, p) < n
        BY <2>1, RestShrinks, RestIsBounded, NumFlagsAssumption
      <3> QED
        BY <3>1, <1>2
    <2> QED
      BY <2>1
  <1>3. NumFlags + 1 \in S
    <2> HIDE DEF S
    <2>1. NumFlags + 1 \in Nat /\ \A i \in 0..((NumFlags + 1) - 1) : i \in S => i + 1 \in S
      BY <1>2, NumFlagsAssumption
    <2>2. \A i \in 0..(NumFlags + 1) : i \in S
      BY <1>1, <2>1, SetInduction
    <2> QED
      BY <2>2, NumFlagsAssumption
  <1>4. \A v \in SUBSET Keys, k \in Keys : Rest(v, k) < NumFlags + 1
    BY RestIsBounded, NumFlagsAssumption
  <1> QED
    BY <1>3, <1>4

-----------------------------------------------------------------------------
(* The walk: what Ask, AskInOrder and Prerequisites compute.               *)

\* What the definition of Prerequisites gives at v and k when it calls W.
Body(W, v, k) ==
    IF flags[k].prerequisites = <<>> THEN [met |-> TRUE, visited |-> v]
    ELSE AskInOrder(W, v, k)[Len(flags[k].prerequisites)]

\* Where it is defined, and what it should return.
At == (SUBSET Keys) \X DOMAIN flags
Result == [met : BOOLEAN, visited : SUBSET Keys]

\* Where the walk of k goes on to.
Beyond(v, k) == {x \in At : v \cup {k} \subseteq x[1] /\ x[2] \notin x[1]}

\* W returns a result at x, and forgets nothing that was visited.
Grows(W, x) == W[x] \in Result /\ x[1] \subseteq W[x].visited

\* What may be known while the prerequisites of k are asked.
Known(v, k) == {c \in Result : v \cup {k} \subseteq c.visited}

\* f follows E from a for its first m steps.
Follows(f, a, E, m) == f[0] = a /\ \A i \in 1..m : f[i] = E[<<i, f[i - 1]>>]

\* n steps of E from a can be taken.
LEMMA FiniteRecursion ==
  ASSUME NEW n \in Nat, NEW T, NEW a \in T, NEW E \in [(1..n) \X T -> T]
  PROVE  \E f \in [0..n -> T] : Follows(f, a, E, n)
  <1> DEFINE S == {m \in 0..n : \E f \in [0..n -> T] : Follows(f, a, E, m)}
  <1>1. 0 \in S
    <2> DEFINE g == [i \in 0..n |-> a]
    <2>1. g \in [0..n -> T] /\ Follows(g, a, E, 0)
      BY DEF Follows
    <2>2. 0 \in 0..n
      OBVIOUS
    <2> HIDE DEF g
    <2> QED
      BY <2>1, <2>2
  <1>2. ASSUME NEW m \in 0..(n - 1), m \in S PROVE m + 1 \in S
    <2>1. PICK f \in [0..n -> T] : Follows(f, a, E, m)
      BY <1>2
    <2> DEFINE e == E[<<m + 1, f[m]>>]
               g == [f EXCEPT ![m + 1] = e]
    <2>2. m + 1 \in 1..n /\ f[m] \in T
      OBVIOUS
    <2>3. e \in T
      BY <2>2
    <2>4. g \in [0..n -> T]
      BY <2>2, <2>3
    <2>5. \A i \in 0..m : g[i] = f[i]
      BY <2>2
    <2>6. ASSUME NEW i \in 1..(m + 1) PROVE g[i] = E[<<i, g[i - 1]>>]
      <3>1. CASE i = m + 1
        BY <2>2, <2>5, <3>1
      <3>2. CASE i # m + 1
        <4>1. i \in 1..m /\ i \in 0..m /\ i - 1 \in 0..m
          BY <3>2
        <4>2. f[i] = E[<<i, f[i - 1]>>]
          BY <2>1, <4>1 DEF Follows
        <4> QED
          BY <2>5, <4>1, <4>2
      <3> QED
        BY <3>1, <3>2
    <2>7. g[0] = a
      BY <2>1, <2>5 DEF Follows
    <2> HIDE DEF g
    <2>8. Follows(g, a, E, m + 1)
      BY <2>6, <2>7 DEF Follows
    <2>9. m + 1 \in 0..n
      BY <2>2
    <2> QED
      BY <2>4, <2>8, <2>9
  <1>3. n \in S
    <2> HIDE DEF S
    <2> QED
      BY <1>1, <1>2, SetInduction
  <1> QED
    BY <1>3

\* Asking a prerequisite forgets nothing that was visited.
LEMMA AskIsKnown ==
  ASSUME NEW v \in SUBSET Keys, NEW k \in DOMAIN flags, NEW W,
         \A x \in Beyond(v, k) : Grows(W, x),
         NEW c \in Known(v, k), NEW p \in Keys
  PROVE  Ask(W, c, p) \in Known(v, k)
  <1> DEFINE sub == IF Refusal(p) # "" THEN c ELSE W[<<c.visited, p>>]
             r == [met |-> Passes(Outcome(p, sub.met)), visited |-> sub.visited]
  <1>1. c \in Result /\ v \cup {k} \subseteq c.visited
    BY DEF Known
  <1>2. CASE ~c.met
    BY <1>2 DEF Ask
  <1>3. CASE c.met /\ p \in c.visited
    BY <1>1, <1>3 DEF Ask, Repeat, Known, Result
  <1>4. CASE c.met /\ p \notin c.visited
    <2>1. sub.visited \in SUBSET Keys /\ v \cup {k} \subseteq sub.visited
      <3>1. CASE Refusal(p) # ""
        BY <1>1, <3>1 DEF Result
      <3>2. CASE Refusal(p) = ""
        <4>1. p \in DOMAIN flags
          BY <3>2 DEF Refusal
        <4>2. <<c.visited, p>> \in Beyond(v, k)
          BY <1>1, <1>4, <4>1 DEF Beyond, At, Result
        <4>3. Grows(W, <<c.visited, p>>)
          BY <4>2
        <4> QED
          BY <1>1, <3>2, <4>3 DEF Grows, Result
      <3> QED
        BY <3>1, <3>2
    <2>2. Passes(Outcome(p, sub.met)) \in BOOLEAN
      BY DEF Passes
    <2>3. Ask(W, c, p) = r
      BY <1>4 DEF Ask
    <2> HIDE DEF sub
    <2> QED
      BY <2>1, <2>2, <2>3 DEF Known, Result
  <1> QED
    BY <1>2, <1>3, <1>4

\* A asks the prerequisites of k in order, W giving what lies behind each.
InOrder(A, W, v, k) ==
    LET ps == flags[k].prerequisites
    IN  /\ A \in [0..Len(ps) -> Known(v, k)]
        /\ A[0] = [met |-> TRUE, visited |-> v \cup {k}]
        /\ \A i \in 1..Len(ps) : A[i] = Ask(W, A[i - 1], ps[i])

\* The function that AskInOrder defines exists, and takes the steps it should.
LEMMA AskInOrderIs ==
  ASSUME TypeOK, NEW v \in SUBSET Keys, NEW k \in DOMAIN flags, NEW W,
         \A x \in Beyond(v, k) : Grows(W, x)
  PROVE  InOrder(AskInOrder(W, v, k), W, v, k)
  <1> DEFINE A == AskInOrder(W, v, k)
             ps == flags[k].prerequisites
             a == [met |-> TRUE, visited |-> v \cup {k}]
             E == [x \in (1..Len(ps)) \X Known(v, k) |-> Ask(W, x[2], ps[x[1]])]
  <1>1. ps \in Seq(Keys) /\ Len(ps) \in Nat /\ k \in Keys
    BY DEF TypeOK, Flag
  <1>2. a \in Known(v, k)
    BY <1>1 DEF Known, Result
  <1>3. E \in [(1..Len(ps)) \X Known(v, k) -> Known(v, k)]
    BY <1>1, AskIsKnown
  <1>4. PICK f \in [0..Len(ps) -> Known(v, k)] : Follows(f, a, E, Len(ps))
    <2> HIDE DEF E, a, ps
    <2>1. Len(ps) \in Nat
      BY <1>1
    <2> QED
      BY <1>2, <1>3, <2>1, FiniteRecursion
  <1>5. f = [i \in 0..Len(ps) |-> IF i = 0 THEN a ELSE Ask(W, f[i - 1], ps[i])]
    <2>1. ASSUME NEW i \in 1..Len(ps) PROVE f[i] = Ask(W, f[i - 1], ps[i])
      <3>1. f[i] = E[<<i, f[i - 1]>>]
        BY <1>4 DEF Follows
      <3>2. i - 1 \in 0..Len(ps)
        BY <1>1
      <3> QED
        BY <3>1, <3>2
    <2>2. f[0] = a
      BY <1>4 DEF Follows
    <2> QED
      BY <1>1, <2>1, <2>2
  <1>6. A = [i \in 0..Len(ps) |-> IF i = 0 THEN a ELSE Ask(W, A[i - 1], ps[i])]
    BY <1>5, Zenon DEF AskInOrder
  <1> HIDE DEF A
  <1>7. A[0] = a /\ \A i \in 1..Len(ps) : A[i] = Ask(W, A[i - 1], ps[i])
    <2> HIDE DEF a, ps
    <2>1. Len(ps) \in Nat
      BY <1>1
    <2>2. A[0] = a
      BY <1>6, <2>1
    <2>3. ASSUME NEW i \in 1..Len(ps) PROVE A[i] = Ask(W, A[i - 1], ps[i])
      <3>1. i \in 0..Len(ps) /\ i # 0
        BY <2>1
      <3> QED
        BY <1>6, <3>1
    <2> QED
      BY <2>2, <2>3
  <1>8. \A i \in 0..Len(ps) : A[i] \in Known(v, k)
    <2> DEFINE S == {i \in 0..Len(ps) : A[i] \in Known(v, k)}
    <2>1. 0 \in S
      BY <1>1, <1>2, <1>7
    <2>2. ASSUME NEW i \in 0..(Len(ps) - 1), i \in S PROVE i + 1 \in S
      <3>1. i + 1 \in 1..Len(ps) /\ ps[i + 1] \in Keys /\ A[i + 1] = Ask(W, A[i], ps[i + 1])
        BY <1>1, <1>7
      <3> QED
        BY <2>2, <3>1, AskIsKnown
    <2>3. \A i \in 0..Len(ps) : i \in S
      <3> HIDE DEF S
      <3> QED
        BY <1>1, <2>1, <2>2, SetInduction
    <2> QED
      BY <2>3
  <1>9. A \in [0..Len(ps) -> Known(v, k)]
    BY <1>6, <1>8
  <1> QED
    BY <1>7, <1>9 DEF A, InOrder

\* Asking p looks at no more of W than the walks that k's goes on to.
LEMMA AskAgrees ==
  ASSUME NEW v \in SUBSET Keys, NEW k \in DOMAIN flags, NEW W1, NEW W2,
         \A x \in Beyond(v, k) : W1[x] = W2[x],
         NEW c \in Known(v, k), NEW p \in Keys
  PROVE  Ask(W1, c, p) = Ask(W2, c, p)
  <1>1. CASE ~c.met \/ p \in c.visited \/ Refusal(p) # ""
    BY <1>1 DEF Ask
  <1>2. CASE p \notin c.visited /\ Refusal(p) = ""
    <2>1. p \in DOMAIN flags
      BY <1>2 DEF Refusal
    <2>2. <<c.visited, p>> \in Beyond(v, k)
      BY <1>2, <2>1 DEF Beyond, At, Known, Result
    <2>3. W1[<<c.visited, p>>] = W2[<<c.visited, p>>]
      BY <2>2
    <2> QED
      BY <1>2, <2>3 DEF Ask
  <1> QED
    BY <1>1, <1>2

\* And so does asking all of them in order.
LEMMA BodyAgrees ==
  ASSUME TypeOK, NEW v \in SUBSET Keys, NEW k \in DOMAIN flags, NEW W1, NEW W2,
         \A x \in Beyond(v, k) : Grows(W1, x) /\ W1[x] = W2[x]
  PROVE  Body(W1, v, k) = Body(W2, v, k)
  <1> DEFINE ps == flags[k].prerequisites
             n == Len(ps)
             A1 == AskInOrder(W1, v, k)
             A2 == AskInOrder(W2, v, k)
             S == {i \in 0..n : A1[i] = A2[i]}
  <1>1. ps \in Seq(Keys) /\ n \in Nat
    BY DEF TypeOK, Flag
  <1>2. \A x \in Beyond(v, k) : Grows(W1, x)
    OBVIOUS
  <1>3. \A x \in Beyond(v, k) : Grows(W2, x)
    BY DEF Grows
  <1>4. /\ A1 \in [0..n -> Known(v, k)]
        /\ A1[0] = [met |-> TRUE, visited |-> v \cup {k}]
        /\ \A i \in 1..n : A1[i] = Ask(W1, A1[i - 1], ps[i])
    BY <1>2, AskInOrderIs DEF InOrder
  <1>5. /\ A2[0] = [met |-> TRUE, visited |-> v \cup {k}]
        /\ \A i \in 1..n : A2[i] = Ask(W2, A2[i - 1], ps[i])
    BY <1>3, AskInOrderIs DEF InOrder
  <1> HIDE DEF A1, A2
  <1>6. 0 \in S
    BY <1>1, <1>4, <1>5
  <1>7. ASSUME NEW i \in 0..(n - 1), i \in S PROVE i + 1 \in S
    <2>1. /\ i + 1 \in 1..n /\ i + 1 \in 0..n /\ (i + 1) - 1 = i
          /\ ps[i + 1] \in Keys /\ A1[i] \in Known(v, k)
      BY <1>1, <1>4
    <2>2. A1[i + 1] = Ask(W1, A1[i], ps[i + 1]) /\ A2[i + 1] = Ask(W2, A2[i], ps[i + 1])
      BY <1>4, <1>5, <2>1
    <2>3. A1[i] = A2[i]
      BY <1>7
    <2>4. Ask(W1, A1[i], ps[i + 1]) = Ask(W2, A1[i], ps[i + 1])
      BY <2>1, AskAgrees
    <2> QED
      BY <2>1, <2>2, <2>3, <2>4
  <1>8. n \in S
    <2> HIDE DEF S, n
    <2>1. n \in Nat /\ \A i \in 0..(n - 1) : i \in S => i + 1 \in S
      BY <1>1, <1>7
    <2>2. \A i \in 0..n : i \in S
      BY <1>6, <2>1, SetInduction
    <2> QED
      BY <2>1, <2>2
  <1> QED
    BY <1>8 DEF Body, A1, A2

\* What the body returns is a result, which forgets nothing that was visited.
LEMMA BodyGrows ==
  ASSUME TypeOK, NEW v \in SUBSET Keys, NEW k \in DOMAIN flags, NEW W,
         \A x \in Beyond(v, k) : Grows(W, x)
  PROVE  Body(W, v, k) \in Result /\ v \subseteq Body(W, v, k).visited
  <1> DEFINE ps == flags[k].prerequisites
             A == AskInOrder(W, v, k)
  <1>1. CASE ps = <<>>
    BY <1>1 DEF Body, Result
  <1>2. CASE ps # <<>>
    <2>1. Len(ps) \in Nat
      BY DEF TypeOK, Flag
    <2>2. A \in [0..Len(ps) -> Known(v, k)]
      BY AskInOrderIs DEF InOrder
    <2>3. Body(W, v, k) = A[Len(ps)]
      BY <1>2 DEF Body
    <2> HIDE DEF A, ps
    <2>4. A[Len(ps)] \in Known(v, k)
      BY <2>1, <2>2
    <2> QED
      BY <2>3, <2>4 DEF Known
  <1> QED
    BY <1>1, <1>2

\* f is what the walk computes wherever it has less than n keys left to visit.
WalksUpto(f, n) ==
    /\ \A x \in At : Grows(f, x)
    /\ \A x \in At : Rest(x[1], x[2]) < n => f[x] = Body(f, x[1], x[2])

\* There is a function that satisfies the equation that defines Prerequisites.
LEMMA WalkExists ==
  ASSUME TypeOK
  PROVE  \E f : f = [x \in At |-> Body(f, x[1], x[2])]
  <1> DEFINE S == {n \in 0..(NumFlags + 1) : \E f : f = [x \in At |-> f[x]] /\ WalksUpto(f, n)}
  <1>1. 0 \in S
    <2> DEFINE g == [x \in At |-> [met |-> FALSE, visited |-> x[1]]]
    <2>1. \A x \in At : Grows(g, x)
      BY DEF Grows, At, Result
    <2>2. g = [x \in At |-> g[x]]
      OBVIOUS
    <2> HIDE DEF g
    <2>3. WalksUpto(g, 0)
      BY <2>1, RestIsBounded DEF WalksUpto
    <2>4. 0 \in 0..(NumFlags + 1)
      BY NumFlagsAssumption
    <2> QED
      BY <2>2, <2>3, <2>4
  <1>2. ASSUME NEW n \in 0..NumFlags, n \in S PROVE n + 1 \in S
    <2>1. PICK f : WalksUpto(f, n)
      BY <1>2
    <2> DEFINE g == [x \in At |-> Body(f, x[1], x[2])]
    <2>2. ASSUME NEW x \in At PROVE Grows(g, x)
      <3>1. x[1] \in SUBSET Keys /\ x[2] \in DOMAIN flags /\ g[x] = Body(f, x[1], x[2])
        BY DEF At
      <3>2. \A y \in Beyond(x[1], x[2]) : Grows(f, y)
        BY <2>1 DEF WalksUpto, Beyond
      <3> QED
        BY <3>1, <3>2, BodyGrows DEF Grows
    <2>3. ASSUME NEW x \in At, Rest(x[1], x[2]) < n + 1
          PROVE  g[x] = Body(g, x[1], x[2])
      <3>1. x[1] \in SUBSET Keys /\ x[2] \in DOMAIN flags /\ g[x] = Body(f, x[1], x[2])
        BY DEF At
      <3>2. ASSUME NEW y \in Beyond(x[1], x[2]) PROVE Grows(f, y) /\ f[y] = g[y]
        <4>1. y \in At /\ y[2] \in Keys /\ x[1] \cup {x[2]} \subseteq y[1] /\ y[2] \notin y[1]
          BY DEF Beyond, At, TypeOK
        <4>2. Rest(y[1], y[2]) < Rest(x[1], x[2])
          BY <4>1, RestShrinks
        <4>3. Rest(y[1], y[2]) < n
          BY <2>3, <4>2, RestIsBounded, NumFlagsAssumption
        <4> QED
          BY <2>1, <4>1, <4>3 DEF WalksUpto
      <3> HIDE DEF g
      <3>3. Body(f, x[1], x[2]) = Body(g, x[1], x[2])
        BY <3>1, <3>2, BodyAgrees
      <3> QED
        BY <3>1, <3>3
    <2>4. g = [x \in At |-> g[x]]
      OBVIOUS
    <2> HIDE DEF g
    <2>5. WalksUpto(g, n + 1)
      BY <2>2, <2>3 DEF WalksUpto
    <2>6. n + 1 \in 0..(NumFlags + 1)
      BY NumFlagsAssumption
    <2> QED
      BY <2>4, <2>5, <2>6
  <1>3. NumFlags + 1 \in S
    <2> HIDE DEF S
    <2>1. NumFlags + 1 \in Nat /\ \A i \in 0..((NumFlags + 1) - 1) : i \in S => i + 1 \in S
      BY <1>2, NumFlagsAssumption
    <2>2. \A i \in 0..(NumFlags + 1) : i \in S
      BY <1>1, <2>1, SetInduction
    <2> QED
      BY <2>2, NumFlagsAssumption
  <1>4. PICK f : f = [x \in At |-> f[x]] /\ WalksUpto(f, NumFlags + 1)
    BY <1>3
  <1>5. \A x \in At : f[x] = Body(f, x[1], x[2])
    BY <1>4, RestIsBounded, NumFlagsAssumption DEF WalksUpto
  <1>6. f = [x \in At |-> Body(f, x[1], x[2])]
    BY <1>4, <1>5
  <1> QED
    BY <1>6

\* What the definition of Prerequisites says of it, and what every walk returns.
Walk(v, k) == Prerequisites[<<v, k>>]

\* Hence Prerequisites does.
LEMMA PrerequisitesAre ==
  ASSUME TypeOK, NEW v \in SUBSET Keys, NEW k \in DOMAIN flags
  PROVE  Walk(v, k) = Body(Prerequisites, v, k)
  <1>1. Prerequisites = [x \in At |-> Body(Prerequisites, x[1], x[2])]
    BY WalkExists, Zenon DEF Prerequisites, Body, At
  <1> HIDE DEF Prerequisites
  <1> QED
    BY <1>1 DEF At, Walk

\* No walk forgets what was visited.
LEMMA WalksGrow ==
  ASSUME TypeOK
  PROVE  \A x \in At : Grows(Prerequisites, x)
  <1> DEFINE G == {x \in (SUBSET Keys) \X Keys :
                      x[2] \in DOMAIN flags => Grows(Prerequisites, x)}
  <1>1. ASSUME NEW v \in SUBSET Keys, NEW k \in Keys,
               \A w \in SUBSET Keys, p \in Keys :
                   v \cup {k} \subseteq w /\ p \notin w => <<w, p>> \in G
        PROVE  <<v, k>> \in G
    <2> SUFFICES ASSUME k \in DOMAIN flags PROVE Grows(Prerequisites, <<v, k>>)
      OBVIOUS
    <2>1. ASSUME NEW y \in Beyond(v, k) PROVE Grows(Prerequisites, y)
      <3>1. /\ y = <<y[1], y[2]>> /\ y[1] \in SUBSET Keys /\ y[2] \in DOMAIN flags
            /\ y[2] \in Keys /\ v \cup {k} \subseteq y[1] /\ y[2] \notin y[1]
        BY DEF Beyond, At, TypeOK
      <3>2. <<y[1], y[2]>> \in G
        BY <1>1, <3>1
      <3> QED
        BY <3>1, <3>2
    <2> QED
      BY <2>1, BodyGrows, PrerequisitesAre DEF Grows, Walk
  <1>2. \A v \in SUBSET Keys, k \in Keys : <<v, k>> \in G
    <2> HIDE DEF G
    <2> QED
      BY <1>1, WalkInduction
  <1>3. ASSUME NEW x \in At PROVE Grows(Prerequisites, x)
    <2>1. /\ x = <<x[1], x[2]>> /\ x[1] \in SUBSET Keys /\ x[2] \in DOMAIN flags
          /\ x[2] \in Keys
      BY DEF At, TypeOK
    <2>2. <<x[1], x[2]>> \in G
      BY <1>2, <2>1
    <2> QED
      BY <2>1, <2>2
  <1> QED
    BY <1>3

\* A walk asks the prerequisites of its flag in order, one after the other.
LEMMA WalkInOrder ==
  ASSUME TypeOK, NEW v \in SUBSET Keys, NEW k \in DOMAIN flags
  PROVE  InOrder(AskInOrder(Prerequisites, v, k), Prerequisites, v, k)
  <1>1. \A x \in Beyond(v, k) : Grows(Prerequisites, x)
    BY WalksGrow DEF Beyond
  <1> QED
    BY <1>1, AskInOrderIs

\* What a walk returns is what is known after the last one.
LEMMA WalkEnds ==
  ASSUME TypeOK, NEW v \in SUBSET Keys, NEW k \in DOMAIN flags
  PROVE  /\ flags[k].prerequisites \in Seq(Keys) /\ Len(flags[k].prerequisites) \in Nat
         /\ flags[k].prerequisites = <<>> => Walk(v, k) = [met |-> TRUE, visited |-> v]
         /\ flags[k].prerequisites # <<>> =>
              Walk(v, k) = AskInOrder(Prerequisites, v, k)[Len(flags[k].prerequisites)]
  <1>1. flags[k].prerequisites \in Seq(Keys) /\ Len(flags[k].prerequisites) \in Nat
    BY DEF TypeOK, Flag
  <1>2. Walk(v, k) = Body(Prerequisites, v, k)
    BY PrerequisitesAre
  <1> QED
    BY <1>1, <1>2 DEF Body

-----------------------------------------------------------------------------
(* Walks that are met, while every default value is off.                   *)

\* What PrerequisitesHold and CyclesStayOff assume.
DefaultsOff == \A k \in DOMAIN flags : flags[k].default = "false"

\* A flag that is refused, or whose prerequisites fail, serves its default: off.
LEMMA RefusedIsOff ==
  ASSUME DefaultsOff, NEW p, NEW met, Refusal(p) # "" \/ ~met
  PROVE  ~Passes(Outcome(p, met))
  <1>1. CASE p \notin DOMAIN flags
    BY <1>1 DEF Refusal, Outcome, Answer, Passes
  <1>2. CASE p \in DOMAIN flags
    <2>1. DefaultValue(p) = "false"
      BY <1>2 DEF DefaultsOff, DefaultValue
    <2>2. Outcome(p, met).value = DefaultValue(p)
      BY DEF Outcome, Answer
    <2> QED
      BY <2>1, <2>2 DEF Passes
  <1> QED
    BY <1>1, <1>2

\* What it takes for a prerequisite to be found on.
LEMMA AskIsMet ==
  ASSUME DefaultsOff, NEW c \in Result, NEW p, Ask(Prerequisites, c, p).met
  PROVE  /\ c.met /\ p \notin c.visited /\ Refusal(p) = ""
         /\ Walk(c.visited, p).met /\ Passes(Outcome(p, TRUE))
         /\ Ask(Prerequisites, c, p).visited = Walk(c.visited, p).visited
  <1> DEFINE sub == IF Refusal(p) # "" THEN c ELSE Walk(c.visited, p)
  <1>1. c.met
    BY DEF Ask
  <1>2. p \notin c.visited
    BY <1>1 DEF Ask, Repeat, Result
  <1>3. Ask(Prerequisites, c, p) =
            [met |-> Passes(Outcome(p, sub.met)), visited |-> sub.visited]
    BY <1>1, <1>2 DEF Ask, Walk
  <1> HIDE DEF sub
  <1>4. Passes(Outcome(p, sub.met)) /\ Ask(Prerequisites, c, p).visited = sub.visited
    BY <1>3
  <1>5. Refusal(p) = "" /\ sub.met
    BY <1>4, RefusedIsOff
  <1>6. sub = Walk(c.visited, p)
    BY <1>5 DEF sub
  <1>7. Passes(Outcome(p, TRUE))
    BY <1>4, <1>5, Zenon DEF Outcome
  <1> QED
    BY <1>1, <1>2, <1>4, <1>5, <1>6, <1>7

\* Of a walk that is met every step is met.
LEMMA MetInOrder ==
  ASSUME TypeOK, DefaultsOff, NEW v \in SUBSET Keys, NEW k \in DOMAIN flags, Walk(v, k).met
  PROVE  \A i \in 0..Len(flags[k].prerequisites) : AskInOrder(Prerequisites, v, k)[i].met
  <1> DEFINE ps == flags[k].prerequisites
             n == Len(ps)
             A == AskInOrder(Prerequisites, v, k)
             S == {j \in 0..n : A[n - j].met}
  <1>1. /\ ps \in Seq(Keys) /\ n \in Nat /\ A \in [0..n -> Known(v, k)]
        /\ A[0] = [met |-> TRUE, visited |-> v \cup {k}]
        /\ \A i \in 1..n : A[i] = Ask(Prerequisites, A[i - 1], ps[i])
        /\ ps # <<>> => Walk(v, k) = A[n]
    BY WalkInOrder, WalkEnds DEF InOrder
  <1> HIDE DEF A
  <1>2. A[n].met
    <2>1. CASE ps = <<>>
      BY <1>1, <2>1
    <2>2. CASE ps # <<>>
      BY <1>1, <2>2
    <2> QED
      BY <2>1, <2>2
  <1> HIDE DEF n, ps
  <1>3. 0 \in S
    BY <1>1, <1>2
  <1>4. ASSUME NEW j \in 0..(n - 1), j \in S PROVE j + 1 \in S
    <2>1. n - j \in 1..n /\ (n - j) - 1 = n - (j + 1) /\ (n - j) - 1 \in 0..n /\ j + 1 \in 0..n
      BY <1>1
    <2> DEFINE c == A[(n - j) - 1]
               p == ps[n - j]
    <2>2. A[n - j] = Ask(Prerequisites, c, p)
      BY <1>1, <2>1
    <2>3. c \in Result
      BY <1>1, <2>1 DEF Known
    <2>4. A[n - j].met
      BY <1>4
    <2>5. c.met
      <3> HIDE DEF c, p
      <3>1. Ask(Prerequisites, c, p).met
        BY <2>2, <2>4
      <3> QED
        BY <2>3, <3>1, AskIsMet
    <2> QED
      BY <2>1, <2>5
  <1>5. \A j \in 0..n : j \in S
    <2> HIDE DEF S
    <2>1. \A j \in 0..(n - 1) : j \in S => j + 1 \in S
      BY <1>4
    <2> QED
      BY <1>1, <1>3, <2>1, SetInduction
  <1>6. ASSUME NEW i \in 0..n PROVE A[i].met
    <2>1. n - i \in 0..n /\ n - (n - i) = i
      BY <1>1
    <2> QED
      BY <1>5, <2>1
  <1> QED
    BY <1>6 DEF A, n, ps

\* What a walk that is met says of each prerequisite.
LEMMA MetPrerequisites ==
  ASSUME TypeOK, DefaultsOff, NEW v \in SUBSET Keys, NEW k \in DOMAIN flags, Walk(v, k).met,
         NEW i \in 1..Len(flags[k].prerequisites)
  PROVE  LET A == AskInOrder(Prerequisites, v, k)
             c == A[i - 1]
             p == flags[k].prerequisites[i]
         IN  /\ c \in Known(v, k) /\ p \in DOMAIN flags /\ p \in Keys
             /\ p \notin c.visited /\ Refusal(p) = ""
             /\ Walk(c.visited, p).met /\ Passes(Outcome(p, TRUE))
             /\ A[i] = Ask(Prerequisites, c, p)
             /\ A[i].visited = Walk(c.visited, p).visited
  <1> DEFINE A == AskInOrder(Prerequisites, v, k)
             ps == flags[k].prerequisites
             c == A[i - 1]
             p == ps[i]
  <1>1. /\ ps \in Seq(Keys) /\ Len(ps) \in Nat /\ A \in [0..Len(ps) -> Known(v, k)]
        /\ A[i] = Ask(Prerequisites, A[i - 1], ps[i])
    <2>1. InOrder(A, Prerequisites, v, k)
      BY WalkInOrder
    <2>2. ps \in Seq(Keys) /\ Len(ps) \in Nat
      BY WalkEnds
    <2> HIDE DEF A
    <2> QED
      BY <2>1, <2>2 DEF InOrder
  <1>2. A[i].met
    <2>1. \A j \in 0..Len(ps) : A[j].met
      BY MetInOrder
    <2> QED
      BY <1>1, <2>1
  <1> HIDE DEF A
  <1>3. c \in Known(v, k) /\ c \in Result
    BY <1>1 DEF Known
  <1>4. p \in Keys
    BY <1>1
  <1>5. A[i] = Ask(Prerequisites, c, p)
    BY <1>1
  <1> HIDE DEF c, p
  <1>6. /\ p \notin c.visited /\ Refusal(p) = ""
        /\ Walk(c.visited, p).met /\ Passes(Outcome(p, TRUE))
        /\ A[i].visited = Walk(c.visited, p).visited
    <2>1. Ask(Prerequisites, c, p).met
      BY <1>2, <1>5
    <2>2. /\ p \notin c.visited /\ Refusal(p) = ""
          /\ Walk(c.visited, p).met /\ Passes(Outcome(p, TRUE))
          /\ Ask(Prerequisites, c, p).visited = Walk(c.visited, p).visited
      BY <1>3, <2>1, AskIsMet
    <2> QED
      BY <1>5, <2>2
  <1>7. p \in DOMAIN flags
    BY <1>6 DEF Refusal
  <1> QED
    BY <1>3, <1>4, <1>5, <1>6, <1>7 DEF A, c, p

\* And that it is enough.
LEMMA AskGoesOn ==
  ASSUME NEW c, NEW p, c.met, p \notin c.visited, Refusal(p) = "",
         Walk(c.visited, p).met, Passes(Outcome(p, TRUE))
  PROVE  /\ Ask(Prerequisites, c, p).met
         /\ Ask(Prerequisites, c, p).visited = Walk(c.visited, p).visited
  <1> DEFINE w == Walk(c.visited, p)
             on == Passes(Outcome(p, w.met))
             a == Ask(Prerequisites, c, p)
  <1>1. a = [met |-> on, visited |-> w.visited]
    BY DEF Ask, Walk
  <1>2. on
    BY Zenon DEF Outcome
  <1> HIDE DEF w, on, a
  <1>3. a.met = on
    BY <1>1
  <1>4. a.visited = w.visited
    BY <1>1
  <1>5. a.met
    BY <1>2, <1>3
  <1> QED
    BY <1>4, <1>5 DEF a, w

\* A walk that visited less before finds no less met, and visits no more.
NoWorse(v, k) ==
    \A u \in SUBSET v : Walk(u, k).met /\ Walk(u, k).visited \subseteq Walk(v, k).visited

\* The step of the induction: the two walks ask the same flags, side by side.
LEMMA NoWorseStep ==
  ASSUME TypeOK, DefaultsOff, NEW v \in SUBSET Keys, NEW k \in DOMAIN flags, Walk(v, k).met,
         \A w \in SUBSET Keys, p \in Keys :
            v \cup {k} \subseteq w /\ p \notin w /\ p \in DOMAIN flags /\ Walk(w, p).met
                => NoWorse(w, p)
  PROVE  NoWorse(v, k)
  <1> SUFFICES ASSUME NEW u \in SUBSET v
               PROVE  Walk(u, k).met /\ Walk(u, k).visited \subseteq Walk(v, k).visited
    BY DEF NoWorse
  <1> DEFINE ps == flags[k].prerequisites
             n == Len(ps)
             A == AskInOrder(Prerequisites, v, k)
             B == AskInOrder(Prerequisites, u, k)
             S == {i \in 0..n : B[i].met /\ B[i].visited \subseteq A[i].visited}
  <1>1. u \in SUBSET Keys
    OBVIOUS
  <1>2. InOrder(A, Prerequisites, v, k) /\ InOrder(B, Prerequisites, u, k)
    BY <1>1, WalkInOrder
  <1>3. /\ ps \in Seq(Keys) /\ n \in Nat
        /\ ps = <<>> => Walk(v, k).visited = v
        /\ ps # <<>> => Walk(v, k) = A[n]
    BY WalkEnds
  <1>4. /\ ps = <<>> => Walk(u, k) = [met |-> TRUE, visited |-> u]
        /\ ps # <<>> => Walk(u, k) = B[n]
    BY <1>1, WalkEnds
  <1>5. ASSUME NEW i \in 1..n
        PROVE  /\ A[i - 1] \in Known(v, k) /\ ps[i] \in DOMAIN flags /\ ps[i] \in Keys
               /\ ps[i] \notin A[i - 1].visited /\ Refusal(ps[i]) = ""
               /\ Walk(A[i - 1].visited, ps[i]).met /\ Passes(Outcome(ps[i], TRUE))
               /\ A[i].visited = Walk(A[i - 1].visited, ps[i]).visited
    BY MetPrerequisites
  <1> HIDE DEF A, B
  <1>6. 0 \in S
    <2>1. A[0].visited = v \cup {k} /\ B[0].visited = u \cup {k} /\ B[0].met
      BY <1>2 DEF InOrder
    <2> QED
      BY <1>3, <2>1
  <1>7. ASSUME NEW i \in 0..(n - 1), i \in S PROVE i + 1 \in S
    <2> DEFINE c == A[i]
               d == B[i]
               p == ps[i + 1]
    <2>1. i + 1 \in 1..n /\ (i + 1) - 1 = i /\ i + 1 \in 0..n
      BY <1>3
    <2>2. /\ c \in Known(v, k) /\ p \in DOMAIN flags /\ p \in Keys
          /\ p \notin c.visited /\ Refusal(p) = ""
          /\ Walk(c.visited, p).met /\ Passes(Outcome(p, TRUE))
          /\ A[i + 1].visited = Walk(c.visited, p).visited
      BY <1>5, <2>1
    <2>3. B[i + 1] = Ask(Prerequisites, d, p)
      BY <1>2, <2>1 DEF InOrder
    <2>4. d.met /\ d.visited \subseteq c.visited
      BY <1>7
    <2> HIDE DEF c, d, p
    <2>5. c.visited \in SUBSET Keys /\ v \cup {k} \subseteq c.visited
      BY <2>2 DEF Known, Result
    <2>6. NoWorse(c.visited, p)
      BY <2>2, <2>5
    <2>7. /\ Walk(d.visited, p).met
          /\ Walk(d.visited, p).visited \subseteq Walk(c.visited, p).visited
      BY <2>4, <2>6 DEF NoWorse
    <2>8. p \notin d.visited
      BY <2>2, <2>4
    <2>9. B[i + 1].met /\ B[i + 1].visited = Walk(d.visited, p).visited
      BY <2>2, <2>3, <2>4, <2>7, <2>8, AskGoesOn
    <2> QED
      BY <2>1, <2>2, <2>7, <2>9
  <1>8. n \in S
    <2> HIDE DEF S, n
    <2>1. n \in Nat /\ \A i \in 0..(n - 1) : i \in S => i + 1 \in S
      BY <1>3, <1>7
    <2>2. \A i \in 0..n : i \in S
      BY <1>6, <2>1, SetInduction
    <2> QED
      BY <2>1, <2>2
  <1>9. CASE ps = <<>>
    BY <1>3, <1>4, <1>9
  <1>10. CASE ps # <<>>
    BY <1>3, <1>4, <1>8, <1>10
  <1> QED
    BY <1>9, <1>10

\* Every walk that is met is met as well with less visited before.
LEMMA MetWalksAreNoWorse ==
  ASSUME TypeOK, DefaultsOff
  PROVE  \A v \in SUBSET Keys, k \in Keys :
            k \in DOMAIN flags /\ Walk(v, k).met => NoWorse(v, k)
  <1> DEFINE G == {x \in (SUBSET Keys) \X Keys :
                      x[2] \in DOMAIN flags /\ Walk(x[1], x[2]).met => NoWorse(x[1], x[2])}
  <1>1. ASSUME NEW v \in SUBSET Keys, NEW k \in Keys,
               \A w \in SUBSET Keys, p \in Keys :
                   v \cup {k} \subseteq w /\ p \notin w => <<w, p>> \in G
        PROVE  <<v, k>> \in G
    <2> SUFFICES ASSUME k \in DOMAIN flags, Walk(v, k).met PROVE NoWorse(v, k)
      OBVIOUS
    <2>1. ASSUME NEW w \in SUBSET Keys, NEW p \in Keys,
                 v \cup {k} \subseteq w, p \notin w, p \in DOMAIN flags, Walk(w, p).met
          PROVE  NoWorse(w, p)
      <3>1. <<w, p>> \in G
        BY <1>1, <2>1
      <3> QED
        BY <2>1, <3>1
    <2> QED
      BY <2>1, NoWorseStep
  <1>2. \A v \in SUBSET Keys, k \in Keys : <<v, k>> \in G
    <2> HIDE DEF G
    <2> QED
      BY <1>1, WalkInduction
  <1>3. ASSUME NEW v \in SUBSET Keys, NEW k \in Keys, k \in DOMAIN flags, Walk(v, k).met
        PROVE  NoWorse(v, k)
    <2>1. <<v, k>> \in G
      BY <1>2
    <2> QED
      BY <1>3, <2>1
  <1> QED
    BY <1>3

\* A flag that is served has a walk that is met.
LEMMA ServedIsMet ==
  ASSUME NEW k \in DOMAIN flags, Served(k)
  PROVE  Refusal(k) = "" /\ Walk({}, k).met
  BY DEF Served, Evaluate, Outcome, Refusal, Answer, Walk

\* As long as every default value is off, a served flag's prerequisites are on when
\* they are evaluated by themselves: the map of visited flags that evaluate shares
\* between the branches of its walk only ever makes a prerequisite look worse.
THEOREM PrerequisitesHold == Spec => []ServedNeedsPrerequisites
  <1>1. TypeOK => ServedNeedsPrerequisites
    <2> SUFFICES ASSUME TypeOK, DefaultsOff, NEW k \in DOMAIN flags, Served(k),
                        NEW p \in PrerequisitesOf(k)
                 PROVE  On(Evaluate(p))
      BY DEF ServedNeedsPrerequisites, DefaultsOff
    <2>1. Walk({}, k).met
      BY ServedIsMet
    <2>2. PICK i \in 1..Len(flags[k].prerequisites) : p = flags[k].prerequisites[i]
      BY WalkEnds DEF PrerequisitesOf
    <2> DEFINE c == AskInOrder(Prerequisites, {}, k)[i - 1]
    <2>3. /\ c \in Known({}, k) /\ p \in DOMAIN flags /\ p \in Keys /\ Refusal(p) = ""
          /\ Walk(c.visited, p).met /\ Passes(Outcome(p, TRUE))
      BY <2>1, <2>2, MetPrerequisites
    <2> HIDE DEF c
    <2>4. NoWorse(c.visited, p)
      BY <2>3, MetWalksAreNoWorse DEF Known, Result
    <2>5. Walk({}, p).met
      BY <2>4 DEF NoWorse
    <2>6. Evaluate(p) = Outcome(p, TRUE)
      BY <2>3, <2>5, Zenon DEF Evaluate, Walk, Outcome
    <2> QED
      BY <2>3, <2>6 DEF On, Passes
  <1> QED
    BY <1>1, TypeCorrect, PTL

-----------------------------------------------------------------------------
(* Cycles.                                                                 *)

\* Closure(F) is a closed set around F, and within every other one.
LEMMA ClosureAround ==
  ASSUME NEW F \in SUBSET Keys
  PROVE  F \subseteq Closure(F) /\ Closure(F) \subseteq Keys
  BY DEF Closure

\* It is within every closed set around F.
LEMMA ClosureIsLeast ==
  ASSUME NEW F, NEW X \in SUBSET Keys, F \subseteq X, Closed(X)
  PROVE  Closure(F) \subseteq X
  BY DEF Closure

\* Prerequisites are keys.
LEMMA NamesAreKeys ==
  ASSUME TypeOK, NEW k \in DOMAIN flags
  PROVE  PrerequisitesOf(k) \subseteq Keys
  BY DEF TypeOK, Flag, PrerequisitesOf

\* It is closed itself.
LEMMA ClosureIsClosed ==
  ASSUME TypeOK, NEW F \in SUBSET Keys
  PROVE  Closed(Closure(F))
  <1> SUFFICES ASSUME NEW k \in Closure(F) \cap DOMAIN flags, NEW p \in PrerequisitesOf(k)
               PROVE  p \in Closure(F)
    BY DEF Closed
  <1>1. p \in Keys
    BY NamesAreKeys
  <1>2. ASSUME NEW X \in SUBSET Keys, F \subseteq X, Closed(X) PROVE p \in X
    <2>1. k \in X
      BY <1>2, ClosureIsLeast
    <2> QED
      BY <1>2, <2>1 DEF Closed
  <1> QED
    BY <1>1, <1>2 DEF Closure

\* What lies behind a walk that is met is new to it.
LeadsAway(v, k) == Closure(PrerequisitesOf(k)) \cap (v \cup {k}) = {}

\* The step of the induction: behind each prerequisite nothing leads back.
LEMMA LeadsAwayStep ==
  ASSUME TypeOK, DefaultsOff, NEW v \in SUBSET Keys, NEW k \in DOMAIN flags, Walk(v, k).met,
         \A w \in SUBSET Keys, p \in Keys :
            v \cup {k} \subseteq w /\ p \notin w /\ p \in DOMAIN flags /\ Walk(w, p).met
                => LeadsAway(w, p)
  PROVE  LeadsAway(v, k)
  <1> DEFINE F == PrerequisitesOf(k)
             X == F \cup UNION {Closure(PrerequisitesOf(p)) : p \in F}
  <1>1. ASSUME NEW p \in F
        PROVE  /\ p \in DOMAIN flags /\ p \notin v \cup {k}
               /\ PrerequisitesOf(p) \subseteq Keys
               /\ Closure(PrerequisitesOf(p)) \cap (v \cup {k}) = {}
    <2>1. PICK i \in 1..Len(flags[k].prerequisites) : p = flags[k].prerequisites[i]
      BY WalkEnds DEF PrerequisitesOf
    <2> DEFINE c == AskInOrder(Prerequisites, v, k)[i - 1]
    <2>2. /\ c \in Known(v, k) /\ p \in DOMAIN flags /\ p \in Keys
          /\ p \notin c.visited /\ Walk(c.visited, p).met
      BY <2>1, MetPrerequisites
    <2> HIDE DEF c
    <2>3. c.visited \in SUBSET Keys /\ v \cup {k} \subseteq c.visited
      BY <2>2 DEF Known, Result
    <2>4. LeadsAway(c.visited, p)
      BY <2>2, <2>3
    <2> QED
      BY <2>2, <2>3, <2>4, NamesAreKeys DEF LeadsAway
  <1>2. X \in SUBSET Keys /\ F \subseteq X
    <2>1. F \subseteq Keys
      BY NamesAreKeys
    <2>2. \A p \in F : Closure(PrerequisitesOf(p)) \subseteq Keys
      BY DEF Closure
    <2> QED
      BY <2>1, <2>2
  <1>3. Closed(X)
    <2> SUFFICES ASSUME NEW j \in X \cap DOMAIN flags PROVE PrerequisitesOf(j) \subseteq X
      BY DEF Closed
    <2>1. CASE j \in F
      <3>1. PrerequisitesOf(j) \subseteq Closure(PrerequisitesOf(j))
        BY <1>1, <2>1, ClosureAround
      <3> QED
        BY <2>1, <3>1
    <2>2. CASE j \notin F
      <3>1. PICK p \in F : j \in Closure(PrerequisitesOf(p))
        BY <2>2
      <3>2. Closed(Closure(PrerequisitesOf(p)))
        BY <1>1, ClosureIsClosed
      <3>3. PrerequisitesOf(j) \subseteq Closure(PrerequisitesOf(p))
        BY <3>1, <3>2 DEF Closed
      <3> QED
        BY <3>3
    <2> QED
      BY <2>1, <2>2
  <1>4. X \cap (v \cup {k}) = {}
    BY <1>1
  <1>5. Closure(F) \subseteq X
    <2> HIDE DEF X
    <2> QED
      BY <1>2, <1>3, ClosureIsLeast
  <1> QED
    BY <1>4, <1>5 DEF LeadsAway

\* No walk that is met leads back to where it came from.
LEMMA MetWalksLeadAway ==
  ASSUME TypeOK, DefaultsOff
  PROVE  \A v \in SUBSET Keys, k \in Keys :
            k \in DOMAIN flags /\ Walk(v, k).met => LeadsAway(v, k)
  <1> DEFINE G == {x \in (SUBSET Keys) \X Keys :
                      x[2] \in DOMAIN flags /\ Walk(x[1], x[2]).met => LeadsAway(x[1], x[2])}
  <1>1. ASSUME NEW v \in SUBSET Keys, NEW k \in Keys,
               \A w \in SUBSET Keys, p \in Keys :
                   v \cup {k} \subseteq w /\ p \notin w => <<w, p>> \in G
        PROVE  <<v, k>> \in G
    <2> SUFFICES ASSUME k \in DOMAIN flags, Walk(v, k).met PROVE LeadsAway(v, k)
      OBVIOUS
    <2>1. ASSUME NEW w \in SUBSET Keys, NEW p \in Keys,
                 v \cup {k} \subseteq w, p \notin w, p \in DOMAIN flags, Walk(w, p).met
          PROVE  LeadsAway(w, p)
      <3>1. <<w, p>> \in G
        BY <1>1, <2>1
      <3> QED
        BY <2>1, <3>1
    <2> QED
      BY <2>1, LeadsAwayStep
  <1>2. \A v \in SUBSET Keys, k \in Keys : <<v, k>> \in G
    <2> HIDE DEF G
    <2> QED
      BY <1>1, WalkInduction
  <1>3. ASSUME NEW v \in SUBSET Keys, NEW k \in Keys, k \in DOMAIN flags, Walk(v, k).met
        PROVE  LeadsAway(v, k)
    <2>1. <<v, k>> \in G
      BY <1>2
    <2> QED
      BY <1>3, <2>1
  <1> QED
    BY <1>3

\* With defaults off, no flag that is its own prerequisite at any distance is served:
\* evaluate breaks every cycle, and what it breaks off is off.
THEOREM CyclesStayOff == Spec => []CyclesAreOff
  <1>1. TypeOK => CyclesAreOff
    <2> SUFFICES ASSUME TypeOK, DefaultsOff, NEW k \in DOMAIN flags, Served(k)
                 PROVE  k \notin Closure(PrerequisitesOf(k))
      BY DEF CyclesAreOff, DefaultsOff
    <2>1. Walk({}, k).met
      BY ServedIsMet
    <2>2. k \in Keys /\ {} \in SUBSET Keys
      BY DEF TypeOK
    <2>3. LeadsAway({}, k)
      BY <2>1, <2>2, MetWalksLeadAway
    <2> QED
      BY <2>3 DEF LeadsAway
  <1> QED
    BY <1>1, TypeCorrect, PTL

-----------------------------------------------------------------------------
(* What an edit leaves the same.                                           *)

\* f is what the walk of k knows after each prerequisite.
WalksBy(f, v, k) ==
    LET ps == flags[k].prerequisites
    IN  /\ InOrder(f, Prerequisites, v, k)
        /\ ps \in Seq(Keys) /\ Len(ps) \in Nat
        /\ ps = <<>> => Walk(v, k) = [met |-> TRUE, visited |-> v]
        /\ ps # <<>> => Walk(v, k) = f[Len(ps)]

\* Stated of a state and of the next one.
EveryWalk == \A v \in SUBSET Keys, k \in DOMAIN flags : \E f : WalksBy(f, v, k)

\* Every walk takes its steps, and so it does after an edit.
LEMMA WalksAreSteps == TypeOK => EveryWalk
  <1> SUFFICES ASSUME TypeOK, NEW v \in SUBSET Keys, NEW k \in DOMAIN flags
               PROVE  \E f : WalksBy(f, v, k)
    BY DEF EveryWalk
  <1> DEFINE A == AskInOrder(Prerequisites, v, k)
  <1>1. InOrder(A, Prerequisites, v, k)
    BY WalkInOrder
  <1>2. WalksBy(A, v, k)
    BY <1>1, WalkEnds DEF WalksBy
  <1> QED
    BY <1>2

LEMMA WalksAreStepsNext == TypeOK' => EveryWalk'
  BY WalksAreSteps, PTL

\* On X, closed under prerequisites, an edit changes neither which flags there are,
\* nor their prerequisites, nor their gates, nor, outside of B, what they give.
Same(X, B) ==
    /\ X \subseteq Keys
    /\ \A j \in X :
          /\ j \in DOMAIN flags <=> j \in DOMAIN flags'
          /\ Refusal(j)' = Refusal(j)
          /\ j \in DOMAIN flags => /\ PrerequisitesOf(j) \subseteq X
                                   /\ flags'[j].prerequisites = flags[j].prerequisites
    /\ \A j \in X \ B, met \in BOOLEAN : Outcome(j, met)' = Outcome(j, met)

\* What lies behind p.
Behind(c, p) == IF Refusal(p) # "" THEN c ELSE Walk(c.visited, p)

\* Asking a prerequisite whose walk, and whose result outside of B, stay the same.
LEMMA SameAsk ==
  ASSUME TypeOK, NEW X, NEW B, Same(X, B),
         NEW v \in SUBSET Keys, NEW k, NEW c \in Known(v, k), NEW p \in X,
         B \subseteq v \cup {k},
         p \notin c.visited /\ p \in DOMAIN flags => Walk(c.visited, p)' = Walk(c.visited, p)
  PROVE  Ask(Prerequisites, c, p)' = Ask(Prerequisites, c, p)
  <1>1. Ask(Prerequisites, c, p) =
          IF ~c.met THEN c ELSE IF p \in c.visited THEN Repeat(c)
          ELSE [met |-> Passes(Outcome(p, Behind(c, p).met)), visited |-> Behind(c, p).visited]
    BY DEF Ask, Walk, Behind
  <1>2. Ask(Prerequisites, c, p)' =
          IF ~c.met THEN c ELSE IF p \in c.visited THEN Repeat(c)
          ELSE [met |-> Passes(Outcome(p, Behind(c, p).met)'),
                visited |-> Behind(c, p)'.visited]
    BY DEF Ask, Walk, Behind, Passes, Repeat
  <1>3. CASE ~c.met \/ p \in c.visited
    BY <1>1, <1>2, <1>3
  <1>4. CASE c.met /\ p \notin c.visited
    <2>1. Refusal(p)' = Refusal(p)
      BY DEF Same
    <2>2. Behind(c, p)' = Behind(c, p)
      <3>1. Refusal(p) = "" => p \in DOMAIN flags
        BY DEF Refusal
      <3> QED
        BY <1>4, <2>1, <3>1 DEF Behind
    <2>3. Behind(c, p).met \in BOOLEAN
      <3>1. CASE Refusal(p) # ""
        BY <3>1 DEF Known, Result, Behind
      <3>2. CASE Refusal(p) = ""
        <4>1. p \in DOMAIN flags
          BY <3>2 DEF Refusal
        <4>2. <<c.visited, p>> \in At
          BY <4>1 DEF At, Known, Result
        <4>3. Grows(Prerequisites, <<c.visited, p>>)
          BY <4>2, WalksGrow
        <4> QED
          BY <3>2, <4>3 DEF Grows, Walk, Result, Behind
      <3> QED
        BY <3>1, <3>2
    <2>4. p \in X \ B
      BY <1>4 DEF Known
    <2>5. Outcome(p, Behind(c, p).met)' = Outcome(p, Behind(c, p).met)
      BY <2>2, <2>3, <2>4 DEF Same
    <2>6. Ask(Prerequisites, c, p) =
            [met |-> Passes(Outcome(p, Behind(c, p).met)), visited |-> Behind(c, p).visited]
      BY <1>1, <1>4
    <2>7. Ask(Prerequisites, c, p)' =
            [met |-> Passes(Outcome(p, Behind(c, p).met)'), visited |-> Behind(c, p)'.visited]
      BY <1>2, <1>4
    <2> QED
      BY <2>2, <2>5, <2>6, <2>7
  <1> QED
    BY <1>3, <1>4

\* The step of the induction: before and after the edit the walk asks the same flags.
LEMMA SameWalkStep ==
  ASSUME TypeOK, TypeOK', NEW X, NEW B, Same(X, B),
         NEW v \in SUBSET Keys, NEW k \in X, k \in DOMAIN flags, B \subseteq v \cup {k},
         \A w \in SUBSET Keys, p \in X :
            v \cup {k} \subseteq w /\ p \notin w /\ p \in DOMAIN flags
                => Walk(w, p)' = Walk(w, p)
  PROVE  Walk(v, k)' = Walk(v, k)
  <1>1. PICK ps : ps = flags[k].prerequisites
    OBVIOUS
  <1> DEFINE n == Len(ps)
  <1>2. PICK f : WalksBy(f, v, k)
    BY WalksAreSteps DEF EveryWalk
  <1>3. PICK g : WalksBy(g, v, k)'
    BY WalksAreStepsNext DEF EveryWalk, Same
  <1>4. flags'[k].prerequisites = ps
    BY <1>1 DEF Same
  <1>5. /\ f \in [0..n -> Known(v, k)]
        /\ f[0] = [met |-> TRUE, visited |-> v \cup {k}]
        /\ \A i \in 1..n : f[i] = Ask(Prerequisites, f[i - 1], ps[i])
        /\ ps \in Seq(Keys) /\ n \in Nat
        /\ ps = <<>> => Walk(v, k) = [met |-> TRUE, visited |-> v]
        /\ ps # <<>> => Walk(v, k) = f[n]
    BY <1>1, <1>2 DEF WalksBy, InOrder
  <1>6. /\ g[0] = [met |-> TRUE, visited |-> v \cup {k}]
        /\ \A i \in 1..n : g[i] = Ask(Prerequisites, g[i - 1], ps[i])'
        /\ ps = <<>> => Walk(v, k)' = [met |-> TRUE, visited |-> v]
        /\ ps # <<>> => Walk(v, k)' = g[n]
    BY <1>3, <1>4 DEF WalksBy, InOrder
  <1> HIDE DEF n
  <1> DEFINE S == {i \in 0..n : g[i] = f[i]}
  <1>7. 0 \in S
    <2>1. f[0] = g[0]
      BY <1>5, <1>6
    <2>2. 0 \in 0..n
      BY <1>5
    <2> QED
      BY <2>1, <2>2
  <1>8. ASSUME NEW i \in 0..(n - 1), i \in S PROVE i + 1 \in S
    <2>1. i + 1 \in 1..n /\ (i + 1) - 1 = i /\ i + 1 \in 0..n /\ i \in 0..n
      BY <1>5
    <2>2. PICK c, p : c = f[i] /\ p = ps[i + 1]
      OBVIOUS
    <2>3. c \in Known(v, k) /\ c.visited \in SUBSET Keys /\ v \cup {k} \subseteq c.visited
      BY <1>5, <2>2, <2>1 DEF Known, Result
    <2>4. p \in X
      <3>1. p \in PrerequisitesOf(k)
        BY <1>1, <1>5, <2>2, <2>1 DEF PrerequisitesOf, n
      <3> QED
        BY <3>1 DEF Same
    <2>5. p \notin c.visited /\ p \in DOMAIN flags => Walk(c.visited, p)' = Walk(c.visited, p)
      BY <2>3, <2>4
    <2>6. Ask(Prerequisites, c, p)' = Ask(Prerequisites, c, p)
      BY <2>3, <2>4, <2>5, SameAsk
    <2> QED
      BY <1>5, <1>6, <1>8, <2>2, <2>1, <2>6
  <1>9. n \in S
    <2> HIDE DEF S
    <2>1. \A i \in 0..n : i \in S
      BY <1>5, <1>7, <1>8, SetInduction
    <2> QED
      BY <1>5, <2>1
  <1> QED
    BY <1>5, <1>6, <1>9

\* A walk that has visited all of B is the same before and after the edit.
LEMMA SameWalks ==
  ASSUME TypeOK, TypeOK', NEW X, NEW B, Same(X, B)
  PROVE  \A v \in SUBSET Keys, k \in X \cap DOMAIN flags :
            B \subseteq v \cup {k} => Walk(v, k)' = Walk(v, k)
  <1> DEFINE G == {x \in (SUBSET Keys) \X Keys :
                      /\ x[2] \in X \cap DOMAIN flags
                      /\ B \subseteq x[1] \cup {x[2]}
                      => Walk(x[1], x[2])' = Walk(x[1], x[2])}
  <1>1. ASSUME NEW v \in SUBSET Keys, NEW k \in Keys,
               \A w \in SUBSET Keys, p \in Keys :
                   v \cup {k} \subseteq w /\ p \notin w => <<w, p>> \in G
        PROVE  <<v, k>> \in G
    <2> SUFFICES ASSUME k \in X, k \in DOMAIN flags, B \subseteq v \cup {k}
                 PROVE  Walk(v, k)' = Walk(v, k)
      OBVIOUS
    <2>1. ASSUME NEW w \in SUBSET Keys, NEW p \in X,
                 v \cup {k} \subseteq w, p \notin w, p \in DOMAIN flags
          PROVE  Walk(w, p)' = Walk(w, p)
      <3>1. p \in Keys
        BY DEF Same
      <3>2. <<w, p>> \in G
        BY <1>1, <2>1, <3>1
      <3>3. B \subseteq w \cup {p}
        BY <2>1
      <3> QED
        BY <2>1, <3>2, <3>3
    <2> QED
      BY <2>1, SameWalkStep
  <1>2. \A v \in SUBSET Keys, k \in Keys : <<v, k>> \in G
    <2> HIDE DEF G
    <2> QED
      BY <1>1, WalkInduction
  <1>3. ASSUME NEW v \in SUBSET Keys, NEW k \in X \cap DOMAIN flags, B \subseteq v \cup {k}
        PROVE  Walk(v, k)' = Walk(v, k)
    <2>1. <<v, k>> \in G
      BY <1>2 DEF Same
    <2> QED
      BY <1>3, <2>1
  <1> QED
    BY <1>3

\* The variant that the weights of vs give bucket b.
VariantAt(vs, b) ==
    LET cumulative[i \in 0..Len(vs)] ==
            IF i = 0 THEN 0 ELSE cumulative[i - 1] + vs[i].weight
        within == {i \in 1..Len(vs) : b < cumulative[i]}
    IN  IF within = {} THEN vs[Len(vs)]
        ELSE vs[CHOOSE i \in within : \A j \in within : i <= j]

\* A flag with the same state and bucket picks the same variant.
LEMMA SamePick ==
  ASSUME NEW k, UNCHANGED bucket, states'[k] = states[k]
  PROVE  PickVariant(k)' = PickVariant(k)
  <1>1. PickVariant(k) = VariantAt(states[k].variants, bucket[k])
    BY DEF PickVariant, VariantAt
  <1>2. PickVariant(k)' = VariantAt(states'[k].variants, bucket'[k])
    BY DEF PickVariant, VariantAt
  <1> QED
    BY <1>1, <1>2

\* The rule of rs that is walked first among those of I.
FirstOf(rs, I) ==
    CHOOSE i \in I : \A j \in I :
        rs[i].priority < rs[j].priority \/ (rs[i].priority = rs[j].priority /\ i <= j)

\* With the same rules and segments the same rules serve it.
LEMMA SameServing ==
  ASSUME NEW k, UNCHANGED user, segments' = segments, states'[k].rules = states[k].rules
  PROVE  Serving(k)' = Serving(k) /\ FirstServing(k)' = FirstServing(k)
  <1>1. ASSUME NEW r PROVE MatchRule(r)' = MatchRule(r)
    BY DEF MatchRule, MatchConditions, user
  <1>2. ASSUME NEW p PROVE Admits(k, p)' = Admits(k, p)
    BY DEF Admits, user
  <1>3. Serving(k)' = Serving(k)
    BY <1>1, <1>2 DEF Serving
  <1>4. FirstServing(k) = FirstOf(states[k].rules, Serving(k))
    BY DEF FirstServing, FirstOf
  <1>5. FirstServing(k)' = FirstOf(states'[k].rules, Serving(k)')
    BY DEF FirstServing, FirstOf
  <1> QED
    BY <1>3, <1>4, <1>5

\* A flag whose record and state are the same serves the same.
LEMMA SameServe ==
  ASSUME NEW k, UNCHANGED user, segments' = segments, states'[k] = states[k],
         k \in DOMAIN flags, k \in DOMAIN flags', flags'[k] = flags[k]
  PROVE  Serve(k)' = Serve(k)
  <1>1. Serving(k)' = Serving(k) /\ FirstServing(k)' = FirstServing(k)
    BY SameServing
  <1>2. PickVariant(k)' = PickVariant(k)
    BY SamePick DEF user
  <1>3. DefaultValue(k)' = DefaultValue(k)
    BY DEF DefaultValue
  <1>4. OnValue(k)' = OnValue(k)
    BY <1>3 DEF OnValue
  <1>5. Admits(k, states[k].percentage)' = Admits(k, states[k].percentage)
    BY DEF Admits, user
  <1> QED
    BY <1>1, <1>2, <1>3, <1>4, <1>5, Zenon DEF Serve, Answer

\* And with the same gates it has the same outcome.
LEMMA SameOutcome ==
  ASSUME NEW k, k \in DOMAIN flags <=> k \in DOMAIN flags', Refusal(k)' = Refusal(k),
         k \in DOMAIN flags => Serve(k)' = Serve(k) /\ flags'[k].default = flags[k].default
  PROVE  \A met \in BOOLEAN : Outcome(k, met)' = Outcome(k, met)
  <1>1. DefaultValue(k)' = DefaultValue(k)
    BY DEF DefaultValue
  <1>2. Refusal(k) = "" => k \in DOMAIN flags
    BY DEF Refusal
  <1> QED
    BY <1>1, <1>2, Zenon DEF Outcome, Answer

\* Closures are closed, in a state and in the next one.
ClosureKept == \A k \in Keys : Closed(Closure({k}))

\* The closure after an edit is closed after the edit.
LEMMA ClosureIsClosedNext == TypeOK' => ClosureKept'
  <1>1. TypeOK => ClosureKept
    BY ClosureIsClosed DEF ClosureKept
  <1> QED
    BY <1>1, PTL

\* No edit makes another user of him.
LEMMA UserStays == [Next]_vars => UNCHANGED user
  BY DEF Next, vars, user, Edit, CreateFlag, UpdateFlag, UpdateState, Archive, Restore,
         ToggleFlag, SetStatus, DeleteFlag, CreateSegment, UpdateSegment, DeleteSegment

\* The result of k, given what its walk finds, before an edit and after it.
LEMMA EvaluateIs ==
  ASSUME NEW k, NEW met, Refusal(k) = "" => met = Walk({}, k).met
  PROVE  Evaluate(k) = Outcome(k, met)
  <1>1. CASE Refusal(k) # ""
    BY <1>1 DEF Evaluate, Outcome
  <1>2. CASE Refusal(k) = ""
    BY <1>2, Zenon DEF Evaluate, Outcome, Walk
  <1> QED
    BY <1>1, <1>2

LEMMA EvaluateIsNext ==
  ASSUME NEW k, NEW met, Refusal(k)' = "" => met = Walk({}, k)'.met
  PROVE  Evaluate(k)' = Outcome(k, met)'
  <1>1. CASE Refusal(k)' # ""
    BY <1>1 DEF Evaluate, Outcome
  <1>2. CASE Refusal(k)' = ""
    BY <1>2, Zenon DEF Evaluate, Outcome, Walk
  <1> QED
    BY <1>1, <1>2

\* A walk is met or not.
LEMMA MetIsBoolean ==
  ASSUME TypeOK, NEW v \in SUBSET Keys, NEW k \in DOMAIN flags
  PROVE  Walk(v, k).met \in BOOLEAN
  <1>1. Grows(Prerequisites, <<v, k>>)
    BY WalksGrow DEF At
  <1> QED
    BY <1>1 DEF Grows, Result, Walk

\* k's result stays the same if its walk does and its outcome for each.
LEMMA SameEvaluate ==
  ASSUME TypeOK, TypeOK', NEW X, Same(X, {}), NEW k \in X
  PROVE  Evaluate(k)' = Evaluate(k)
  <1>1. Refusal(k)' = Refusal(k) /\ \A met \in BOOLEAN : Outcome(k, met)' = Outcome(k, met)
    BY DEF Same
  <1>2. CASE k \in DOMAIN flags
    <2>1. Walk({}, k)' = Walk({}, k)
      BY <1>2, SameWalks
    <2>2. PICK met \in BOOLEAN : met = Walk({}, k).met
      BY <1>2, MetIsBoolean
    <2>3. Evaluate(k) = Outcome(k, met)
      BY <2>2, EvaluateIs
    <2>4. Evaluate(k)' = Outcome(k, met)'
      BY <2>1, <2>2, EvaluateIsNext
    <2> QED
      BY <1>1, <2>3, <2>4
  <1>3. CASE k \notin DOMAIN flags
    <2>1. Refusal(k) = "NOT_FOUND"
      BY <1>3 DEF Refusal
    <2>2. Evaluate(k) = Outcome(k, TRUE)
      BY <2>1, EvaluateIs
    <2>3. Evaluate(k)' = Outcome(k, TRUE)'
      BY <1>1, <2>1, EvaluateIsNext
    <2> QED
      BY <1>1, <2>2, <2>3
  <1> QED
    BY <1>2, <1>3

\* A flag that no edit touches, and whose rivals none touches.
LEMMA SameRefusal ==
  ASSUME NEW j, UNCHANGED user, j \in DOMAIN flags <=> j \in DOMAIN flags',
         j \in DOMAIN flags =>
            /\ flags'[j].group = flags[j].group /\ states'[j].enabled = states[j].enabled
            /\ flags[j].group # NoGroup => Rivals(j)' = Rivals(j)
  PROVE  Refusal(j)' = Refusal(j)
  <1>1. CASE j \notin DOMAIN flags
    BY <1>1 DEF Refusal
  <1>2. CASE j \in DOMAIN flags
    <2>1. ASSUME NEW i PROVE Beats(i, j)' = Beats(i, j)
      BY DEF Beats, user
    <2>2. flags[j].group # NoGroup => WinsMutexGroup(j)' = WinsMutexGroup(j)
      BY <1>2, <2>1 DEF WinsMutexGroup
    <2> QED
      BY <1>2, <2>2 DEF Refusal
  <1> QED
    BY <1>1, <1>2

-----------------------------------------------------------------------------
(* A rollout that rises.                                                   *)

\* A percentage above 0 that rises to at least what it was, and nothing else.
Ramped(k) ==
    /\ flags' = flags /\ segments' = segments
    /\ states' = [states EXCEPT ![k].percentage = states'[k].percentage]
    /\ states[k].percentage > 0 /\ states'[k].percentage >= states[k].percentage

\* What a ramp leaves of the states.
LEMMA RampedStates ==
  ASSUME TypeOK, TypeOK', NEW k \in Keys, Ramped(k)
  PROVE  /\ \A j \in Keys \ {k} : states'[j] = states[j]
         /\ \A j \in Keys : states'[j].enabled = states[j].enabled
         /\ states'[k].rules = states[k].rules /\ states'[k].default = states[k].default
         /\ states[k].percentage \in Nat /\ states'[k].percentage \in Nat
         /\ states[k].percentage > 0 /\ states'[k].percentage >= states[k].percentage
  <1>1. states \in [Keys -> State] /\ states' \in [Keys -> State]
    BY DEF TypeOK
  <1>2. PICK p : p = states'[k].percentage
    OBVIOUS
  <1>3. states' = [states EXCEPT ![k].percentage = p]
    BY <1>2 DEF Ramped
  <1>4. \A j \in Keys \ {k} : states'[j] = states[j]
    BY <1>1, <1>3
  <1>5. states'[k] = [states[k] EXCEPT !.percentage = p]
    BY <1>1, <1>3
  <1>6. /\ states'[k].enabled = states[k].enabled
        /\ states'[k].rules = states[k].rules /\ states'[k].default = states[k].default
    BY <1>1, <1>5 DEF State
  <1>7. states[k].percentage \in Nat /\ states'[k].percentage \in Nat
    BY <1>1, FullAssumption DEF State
  <1> QED
    BY <1>4, <1>6, <1>7 DEF Ramped

\* A ramp of k leaves all the same but what k gives.
LEMMA RampIsSame ==
  ASSUME TypeOK, TypeOK', UNCHANGED user, NEW k \in Keys, Ramped(k)
  PROVE  Same(Keys, {k})
  <1>1. /\ \A j \in Keys \ {k} : states'[j] = states[j]
        /\ \A j \in Keys : states'[j].enabled = states[j].enabled
        /\ flags' = flags /\ segments' = segments /\ DOMAIN flags \subseteq Keys
    BY RampedStates DEF Ramped, TypeOK
  <1>2. ASSUME NEW j \in Keys PROVE Rivals(j)' = Rivals(j)
    BY <1>1 DEF Rivals
  <1>3. ASSUME NEW j \in Keys PROVE Refusal(j)' = Refusal(j)
    BY <1>1, <1>2, SameRefusal
  <1>4. ASSUME NEW j \in Keys \ {k}, j \in DOMAIN flags PROVE Serve(j)' = Serve(j)
    BY <1>1, <1>4, SameServe
  <1>5. \A j \in Keys \ {k}, met \in BOOLEAN : Outcome(j, met)' = Outcome(j, met)
    BY <1>1, <1>3, <1>4, SameOutcome
  <1> QED
    BY <1>1, <1>3, <1>5, NamesAreKeys DEF Same

\* A ramp of k changes what k serves at most by admitting the user to the rollout.
Admitted(k, before, after) ==
    /\ before = Answer(DefaultValue(k), "FALLTHROUGH")
    /\ after = Answer(OnValue(k), "ROLLOUT")

LEMMA RampServes ==
  ASSUME TypeOK, TypeOK', UNCHANGED user, NEW k \in Keys, Ramped(k)
  PROVE  Serve(k)' = Serve(k) \/ Admitted(k, Serve(k), Serve(k)')
  <1>1. /\ states'[k].rules = states[k].rules /\ states'[k].default = states[k].default
        /\ states[k].percentage \in Nat /\ states'[k].percentage \in Nat
        /\ states[k].percentage > 0 /\ states'[k].percentage >= states[k].percentage
        /\ flags' = flags /\ segments' = segments
    BY RampedStates DEF Ramped
  <1>2. Serving(k)' = Serving(k) /\ FirstServing(k)' = FirstServing(k)
    BY <1>1, SameServing
  <1>3. CASE Serving(k) # {}
    BY <1>1, <1>2, <1>3, Zenon DEF Serve, Answer
  <1>4. CASE Serving(k) = {}
    <2>1. OnValue(k)' = OnValue(k) /\ DefaultValue(k)' = DefaultValue(k)
      BY <1>1 DEF OnValue, DefaultValue
    <2>2. Serve(k) = IF Admits(k, states[k].percentage)
                     THEN Answer(OnValue(k), "ROLLOUT")
                     ELSE Answer(DefaultValue(k), "FALLTHROUGH")
      BY <1>1, <1>4 DEF Serve
    <2>3. Serve(k)' = IF Admits(k, states[k].percentage)'
                      THEN Answer(OnValue(k), "ROLLOUT")
                      ELSE Answer(DefaultValue(k), "FALLTHROUGH")
      <3>1. states'[k].percentage > 0
        BY <1>1
      <3> QED
        BY <1>2, <1>4, <2>1, <3>1 DEF Serve, Answer
    <2>4. bucket[k] \in Nat /\ bucket' = bucket
      BY FullAssumption DEF TypeOK, user
    <2>5. Admits(k, states[k].percentage) => Admits(k, states[k].percentage)'
      BY <1>1, <2>4 DEF Admits
    <2> QED
      BY <2>2, <2>3, <2>5 DEF Admitted
  <1> QED
    BY <1>3, <1>4

\* And no gate opens or closes.
LEMMA RampKeeps ==
  ASSUME TypeOK, TypeOK', UNCHANGED user, NEW k \in Keys, Ramped(k), k \in DOMAIN flags
  PROVE  Evaluate(k)' = Evaluate(k) \/ Admitted(k, Evaluate(k), Evaluate(k)')
  <1>1. PICK met \in BOOLEAN : met = Walk({}, k).met
    BY MetIsBoolean
  <1>2. Walk({}, k)' = Walk({}, k) /\ Refusal(k)' = Refusal(k)
    <2>1. Same(Keys, {k})
      BY RampIsSame
    <2>2. Refusal(k)' = Refusal(k)
      BY <2>1 DEF Same
    <2>3. {} \in SUBSET Keys /\ k \in Keys \cap DOMAIN flags /\ {k} \subseteq {} \cup {k}
      OBVIOUS
    <2>4. Walk({}, k)' = Walk({}, k)
      BY <2>1, <2>3, SameWalks
    <2> QED
      BY <2>2, <2>4
  <1>3. Evaluate(k) = Outcome(k, met) /\ Evaluate(k)' = Outcome(k, met)'
    BY <1>1, <1>2, EvaluateIs, EvaluateIsNext
  <1>4. DefaultValue(k)' = DefaultValue(k)
    BY DEF Ramped, DefaultValue
  <1>5. CASE Refusal(k) # "" \/ ~met
    <2>1. CASE Refusal(k) # ""
      <3>1. Refusal(k)' # ""
        BY <1>2, <2>1
      <3>2. Evaluate(k) = Answer(DefaultValue(k), Refusal(k))
        BY <1>3, <2>1 DEF Outcome
      <3>3. Evaluate(k)' = Answer(DefaultValue(k)', Refusal(k)')
        BY <1>3, <3>1 DEF Outcome, Answer
      <3> QED
        BY <1>2, <1>4, <3>2, <3>3
    <2>2. CASE Refusal(k) = "" /\ ~met
      <3>1. Refusal(k)' = ""
        BY <1>2, <2>2
      <3>2. Evaluate(k) = Answer(DefaultValue(k), "PREREQUISITE_FAILED")
        BY <1>3, <2>2 DEF Outcome
      <3>3. Evaluate(k)' = Answer(DefaultValue(k)', "PREREQUISITE_FAILED")
        BY <1>3, <2>2, <3>1 DEF Outcome, Answer
      <3> QED
        BY <1>4, <3>2, <3>3
    <2> QED
      BY <1>5, <2>1, <2>2
  <1>6. CASE Refusal(k) = "" /\ met
    <2>1. Evaluate(k) = Serve(k) /\ Evaluate(k)' = Serve(k)'
      BY <1>2, <1>3, <1>6 DEF Outcome
    <2> QED
      BY <2>1, RampServes
  <1> QED
    BY <1>5, <1>6

\* Raising a rollout that is not 0 changes a user's result at most by admitting the
\* user: whatever the flag's rules, prerequisites and rivals, and whoever else names
\* it as a prerequisite.
THEOREM RampsKeepUsers == Spec => RampKeepsUsers
  <1>1. TypeOK /\ TypeOK' /\ [Next]_vars =>
          [\A k \in DOMAIN flags \cap DOMAIN flags' :
              /\ flags' = flags /\ segments' = segments
              /\ states' = [states EXCEPT ![k].percentage = states'[k].percentage]
              /\ states[k].percentage > 0 /\ states'[k].percentage >= states[k].percentage
              => \/ Evaluate(k)' = Evaluate(k)
                 \/ /\ Evaluate(k) = Answer(DefaultValue(k), "FALLTHROUGH")
                    /\ Evaluate(k)' = Answer(OnValue(k), "ROLLOUT")]_vars
    <2> SUFFICES ASSUME TypeOK, TypeOK', [Next]_vars, NEW k \in DOMAIN flags, Ramped(k)
                 PROVE  Evaluate(k)' = Evaluate(k) \/ Admitted(k, Evaluate(k), Evaluate(k)')
      BY DEF Ramped, Admitted
    <2>1. k \in Keys
      BY DEF TypeOK
    <2> QED
      BY <2>1, UserStays, RampKeeps
  <1> QED
    BY <1>1, TypeCorrect, PTL DEF Spec, RampKeepsUsers

-----------------------------------------------------------------------------
(* An edit far away.                                                       *)

\* What an edit away from k leaves the same.
LEMMA SameNear ==
  ASSUME TypeOK, TypeOK', NEW k \in Keys, UNCHANGED user, segments' = segments,
         \A j \in Near(k) \cup Near(k)' : ~Edited(j)
  PROVE  Same(Closure({k}), {})
  <1>1. PICK X : X = Closure({k})
    OBVIOUS
  <1>2. X \subseteq Keys /\ k \in X /\ Closed(X)
    BY <1>1, ClosureAround, ClosureIsClosed
  <1>3. \A j \in X : ~Edited(j)
    BY <1>1 DEF Near
  <1>4. \A j \in X : /\ j \in DOMAIN flags <=> j \in DOMAIN flags'
                     /\ j \in DOMAIN flags => flags'[j] = flags[j] /\ states'[j] = states[j]
    BY <1>3 DEF Edited
  <1>5. Closure({k})' = X
    <2>1. PICK Y : Y = Closure({k})'
      OBVIOUS
    <2>2. /\ Y \subseteq Keys /\ k \in Y
          /\ \A Z \in SUBSET Keys : k \in Z /\ Closed(Z)' => Y \subseteq Z
      BY <2>1 DEF Closure
    <2>3. Closed(X)'
      BY <1>2, <1>4 DEF Closed, PrerequisitesOf
    <2>4. Y \subseteq X
      BY <1>2, <2>2, <2>3
    <2>5. Closed(Y)'
      BY <2>1, ClosureIsClosedNext DEF ClosureKept
    <2>6. Closed(Y)
      BY <1>4, <2>4, <2>5 DEF Closed, PrerequisitesOf
    <2>7. X \subseteq Y
      BY <1>1, <2>2, <2>6, ClosureIsLeast
    <2> QED
      BY <2>1, <2>4, <2>7
  <1>6. ASSUME NEW j \in X, j \in DOMAIN flags, flags[j].group # NoGroup
        PROVE  Rivals(j)' = Rivals(j)
    <2>1. \A i \in Rivals(j) : ~Edited(i)
      BY <1>1, <1>6 DEF Rivals, Near
    <2>2. \A i \in Rivals(j)' : ~Edited(i)
      BY <1>4, <1>5, <1>6 DEF Rivals, Near
    <2> QED
      BY <1>4, <1>6, <2>1, <2>2 DEF Rivals, Edited
  <1>7. \A j \in X : Refusal(j)' = Refusal(j)
    BY <1>4, <1>6, SameRefusal
  <1>8. \A j \in X, met \in BOOLEAN : Outcome(j, met)' = Outcome(j, met)
    BY <1>4, <1>7, SameServe, SameOutcome
  <1>9. Same(X, {})
    BY <1>2, <1>4, <1>7, <1>8 DEF Same, Closed
  <1> QED
    BY <1>1, <1>9

\* An edit changes the result only of flags that depend on the edited flag, at any
\* distance, or that compete with one they depend on.
THEOREM EditsStayLocal == Spec => EditsAreLocal
  <1>1. TypeOK /\ TypeOK' /\ [Next]_vars =>
          [segments' = segments =>
              \A k \in Keys : Evaluate(k)' # Evaluate(k) =>
                  \E j \in Near(k) \cup Near(k)' : Edited(j)]_vars
    <2> SUFFICES ASSUME TypeOK, TypeOK', [Next]_vars, segments' = segments, NEW k \in Keys,
                        \A j \in Near(k) \cup Near(k)' : ~Edited(j)
                 PROVE  Evaluate(k)' = Evaluate(k)
      OBVIOUS
    <2>1. Same(Closure({k}), {})
      BY UserStays, SameNear
    <2>2. PICK X : X = Closure({k})
      OBVIOUS
    <2>3. k \in X
      BY <2>2, ClosureAround
    <2> QED
      BY <2>1, <2>2, <2>3, SameEvaluate
  <1> QED
    BY <1>1, TypeCorrect, PTL DEF Spec, EditsAreLocal

-----------------------------------------------------------------------------
(* Variants.                                                               *)

\* The weights of the first i variants together, and the variant that bucket b picks.
Cut(vs) ==
    LET cumulative[i \in 0..Len(vs)] ==
            IF i = 0 THEN 0 ELSE cumulative[i - 1] + vs[i].weight
    IN  cumulative

Picked(vs, b) ==
    LET within == {i \in 1..Len(vs) : b < Cut(vs)[i]}
    IN  IF within = {} THEN Len(vs) ELSE CHOOSE i \in within : \A j \in within : i <= j

\* VariantAt is what PickVariant computes, and it finds the variant by its index.
LEMMA VariantIsPicked ==
  ASSUME NEW vs, NEW b
  PROVE  VariantAt(vs, b) = vs[Picked(vs, b)]
  <1> DEFINE within == {i \in 1..Len(vs) : b < Cut(vs)[i]}
             first == CHOOSE i \in within : \A j \in within : i <= j
  <1>1. VariantAt(vs, b) = IF within = {} THEN vs[Len(vs)] ELSE vs[first]
    BY DEF VariantAt, Cut
  <1>2. Picked(vs, b) = IF within = {} THEN Len(vs) ELSE first
    BY DEF Picked
  <1> HIDE DEF within, first
  <1> QED
    BY <1>1, <1>2

\* The cuts are sums of weights: the recursion that defines them has a solution.
LEMMA CutAdds ==
  ASSUME NEW vs \in Seq(Variant)
  PROVE  /\ Cut(vs) \in [0..Len(vs) -> Nat] /\ Cut(vs)[0] = 0
         /\ \A i \in 1..Len(vs) :
               vs[i].weight \in Nat /\ Cut(vs)[i] = Cut(vs)[i - 1] + vs[i].weight
  <1> DEFINE n == Len(vs)
             E == [x \in (1..n) \X Nat |-> x[2] + vs[x[1]].weight]
  <1>1. n \in Nat /\ \A i \in 1..n : vs[i].weight \in Nat
    <2>1. \A r \in Variant : r.weight \in Nat
      BY FullAssumption DEF Variant
    <2> QED
      BY <2>1
  <1>2. E \in [(1..n) \X Nat -> Nat]
    BY <1>1
  <1>3. PICK f \in [0..n -> Nat] : Follows(f, 0, E, n)
    <2> HIDE DEF E, n
    <2> QED
      BY <1>1, <1>2, FiniteRecursion
  <1>4. f[0] = 0 /\ \A i \in 1..n : f[i] = f[i - 1] + vs[i].weight
    <2>1. ASSUME NEW i \in 1..n PROVE f[i] = f[i - 1] + vs[i].weight
      <3>1. f[i] = E[<<i, f[i - 1]>>]
        BY <1>3 DEF Follows
      <3>2. f[i - 1] \in Nat
        BY <1>1
      <3> QED
        BY <3>1, <3>2
    <2> QED
      BY <1>3, <2>1 DEF Follows
  <1>5. f = [i \in 0..n |-> IF i = 0 THEN 0 ELSE f[i - 1] + vs[i].weight]
    BY <1>1, <1>4
  <1>6. Cut(vs) = [i \in 0..n |-> IF i = 0 THEN 0 ELSE Cut(vs)[i - 1] + vs[i].weight]
    BY <1>5, Zenon DEF Cut
  <1> DEFINE c == Cut(vs)
  <1> HIDE DEF c, n
  <1>7. c[0] = 0 /\ \A i \in 1..n : c[i] = c[i - 1] + vs[i].weight
    BY <1>1, <1>6 DEF c, n
  <1>8. \A i \in 0..n : c[i] \in Nat
    <2> DEFINE S == {i \in 0..n : c[i] \in Nat}
    <2>1. 0 \in S
      BY <1>1, <1>7
    <2>2. ASSUME NEW i \in 0..(n - 1), i \in S PROVE i + 1 \in S
      <3>1. i + 1 \in 1..n /\ (i + 1) - 1 = i /\ i + 1 \in 0..n
        BY <1>1
      <3>2. c[i + 1] = c[i] + vs[i + 1].weight /\ vs[i + 1].weight \in Nat
        BY <1>1, <1>7, <3>1
      <3> QED
        BY <2>2, <3>1, <3>2
    <2>3. \A i \in 0..n : i \in S
      <3> HIDE DEF S
      <3> QED
        BY <1>1, <2>1, <2>2, SetInduction
    <2> QED
      BY <2>3
  <1>9. c \in [0..n -> Nat]
    BY <1>6, <1>8 DEF c, n
  <1> QED
    BY <1>1, <1>7, <1>9 DEF c, n

\* They grow.
LEMMA CutGrows ==
  ASSUME NEW vs \in Seq(Variant)
  PROVE  \A i \in 0..Len(vs) : \A j \in 0..i : Cut(vs)[j] <= Cut(vs)[i]
  <1>1. PICK n, c : n = Len(vs) /\ c = Cut(vs)
    OBVIOUS
  <1>2. /\ n \in Nat /\ c \in [0..n -> Nat]
        /\ \A i \in 1..n : vs[i].weight \in Nat /\ c[i] = c[i - 1] + vs[i].weight
    BY <1>1, CutAdds
  <1> DEFINE S == {i \in 0..n : \A j \in 0..i : c[j] <= c[i]}
  <1>3. 0 \in S
    BY <1>2
  <1>4. ASSUME NEW i \in 0..(n - 1), i \in S PROVE i + 1 \in S
    <2>1. i + 1 \in 1..n /\ i + 1 \in 0..n /\ c[i] <= c[i + 1]
      <3>1. i + 1 \in 1..n /\ (i + 1) - 1 = i /\ i \in 0..n /\ i + 1 \in 0..n
        BY <1>2
      <3>2. c[i + 1] = c[i] + vs[i + 1].weight /\ vs[i + 1].weight \in Nat /\ c[i] \in Nat
        BY <1>2, <3>1
      <3> QED
        BY <3>1, <3>2
    <2>2. ASSUME NEW j \in 0..(i + 1) PROVE c[j] <= c[i + 1]
      <3>1. CASE j = i + 1
        BY <1>2, <2>1, <3>1
      <3>2. CASE j # i + 1
        <4>1. j \in 0..i /\ j \in 0..n /\ i \in 0..n
          BY <1>2, <3>2
        <4>2. c[j] <= c[i] /\ c[j] \in Nat /\ c[i] \in Nat /\ c[i + 1] \in Nat
          BY <1>2, <1>4, <2>1, <4>1
        <4> QED
          BY <2>1, <4>2
      <3> QED
        BY <3>1, <3>2
    <2> QED
      BY <2>1, <2>2
  <1>5. \A i \in 0..n : i \in S
    <2> HIDE DEF S
    <2> QED
      BY <1>2, <1>3, <1>4, SetInduction
  <1> QED
    BY <1>1, <1>5

\* A variant is picked by the buckets between its cut and the one before.
LEMMA PickedBetween ==
  ASSUME NEW vs \in Seq(Variant), NEW b \in Nat, b < Cut(vs)[Len(vs)], NEW i \in 1..Len(vs)
  PROVE  Picked(vs, b) = i <=> Cut(vs)[i - 1] <= b /\ b < Cut(vs)[i]
  <1>1. PICK n, c : n = Len(vs) /\ c = Cut(vs)
    OBVIOUS
  <1>2. /\ n \in Nat /\ c \in [0..n -> Nat] /\ c[0] = 0
        /\ \A h \in 0..n : \A j \in 0..h : c[j] <= c[h]
    BY <1>1, CutAdds, CutGrows
  <1> DEFINE within == {j \in 1..n : b < c[j]}
  <1>3. n \in within
    <2>1. n # 0
      BY <1>1, <1>2
    <2> QED
      BY <1>1, <1>2, <2>1
  <1>4. PICK m \in within : \A j \in within : m <= j
    <2>1. within \in SUBSET Nat
      BY <1>2
    <2> HIDE DEF within
    <2> QED
      BY <1>3, <2>1, LeastNatural
  <1>5. Picked(vs, b) = m
    <2>1. Picked(vs, b) = CHOOSE h \in within : \A j \in within : h <= j
      BY <1>1, <1>3 DEF Picked
    <2>2. \A h \in within : (\A j \in within : h <= j) => h = m
      BY <1>2, <1>4
    <2> HIDE DEF within
    <2> QED
      BY <1>4, <2>1, <2>2
  <1>6. m \in 1..n /\ b < c[m] /\ m - 1 \in 0..n
    BY <1>2, <1>4
  <1>7. c[m - 1] <= b
    <2>1. CASE m = 1
      BY <1>2, <2>1
    <2>2. CASE m # 1
      <3>1. m - 1 \in 1..n /\ m - 1 \notin within
        BY <1>2, <1>4, <1>6, <2>2
      <3> QED
        BY <1>2, <3>1
    <2> QED
      BY <2>1, <2>2
  <1>8. ASSUME c[i - 1] <= b, b < c[i] PROVE i = m
    <2>1. i \in 1..n /\ i - 1 \in 0..n
      BY <1>1, <1>2
    <2>2. m <= i
      BY <1>4, <1>8, <2>1
    <2>3. ~(m <= i - 1)
      <3>1. m <= i - 1 => c[m] <= c[i - 1]
        BY <1>2, <1>6, <2>1
      <3>2. c[m] \in Nat /\ c[i - 1] \in Nat
        BY <1>2, <1>6, <2>1
      <3> QED
        BY <1>6, <1>8, <3>1, <3>2
    <2> QED
      BY <1>6, <2>1, <2>2, <2>3
  <1> QED
    BY <1>1, <1>5, <1>6, <1>7, <1>8

\* Weights that add up to 100% are the variants' shares of the buckets, exactly: of the
\* buckets of BucketUser as many pick a variant as its weight says (evaluateVariant).
THEOREM WeightsAreShares ==
  ASSUME NEW vs \in Seq(Variant), Cut(vs)[Len(vs)] = Full, NEW i \in 1..Len(vs)
  PROVE  /\ \A k : states[k].variants = vs => PickVariant(k) = vs[Picked(vs, bucket[k])]
         /\ Cardinality({b \in 0..(Full - 1) : Picked(vs, b) = i}) = vs[i].weight
  <1>1. PICK n, c, w : n = Len(vs) /\ c = Cut(vs) /\ w = vs[i].weight
    OBVIOUS
  <1>2. /\ n \in Nat /\ c \in [0..n -> Nat] /\ i \in 1..n /\ i - 1 \in 0..n
        /\ w \in Nat /\ c[i] = c[i - 1] + w /\ c[i] <= c[n]
    BY <1>1, CutAdds, CutGrows
  <1>3. c[i - 1] \in Nat /\ c[i] \in Nat /\ c[i] <= Full
    BY <1>1, <1>2
  <1>4. {b \in 0..(Full - 1) : Picked(vs, b) = i} = c[i - 1]..(c[i] - 1)
    <2>1. ASSUME NEW b \in 0..(Full - 1) PROVE Picked(vs, b) = i <=> c[i - 1] <= b /\ b < c[i]
      BY <1>1, PickedBetween, FullAssumption
    <2> QED
      BY <1>3, <2>1, FullAssumption
  <1>5. Cardinality(c[i - 1]..(c[i] - 1)) = w
    <2>1. PICK d, e : d = c[i - 1] /\ e = c[i] - 1
      OBVIOUS
    <2>2. d \in Int /\ e \in Int /\ (d > e => w = 0) /\ (~(d > e) => e - d + 1 = w)
      BY <1>2, <1>3, <2>1
    <2>3. Cardinality(d..e) = IF d > e THEN 0 ELSE e - d + 1
      BY <2>2, FS_Interval
    <2> QED
      BY <2>1, <2>2, <2>3
  <1>6. ASSUME NEW k, states[k].variants = vs
        PROVE  PickVariant(k) = vs[Picked(vs, bucket[k])]
    <2>1. PickVariant(k) = VariantAt(states[k].variants, bucket[k])
      BY DEF PickVariant, VariantAt
    <2> QED
      BY <1>6, <2>1, VariantIsPicked
  <1> QED
    BY <1>1, <1>4, <1>5, <1>6

-----------------------------------------------------------------------------
(* Every evaluation ends and gives a value.                                *)

\* Of the rules that serve the user, one is walked first.
LEMMA FirstServes ==
  ASSUME TypeOK, NEW k \in Keys, Serving(k) # {}
  PROVE  FirstServing(k) \in Serving(k)
  <1>1. PICK rs, I : rs = states[k].rules /\ I = Serving(k)
    OBVIOUS
  <1> DEFINE P == {rs[i].priority : i \in I}
             First(i) == \A j \in I : rs[i].priority < rs[j].priority
                                      \/ (rs[i].priority = rs[j].priority /\ i <= j)
  <1>2. /\ I \subseteq 1..Len(rs) /\ I # {} /\ Len(rs) \in Nat
        /\ \A i \in I : rs[i].priority \in Nat
    <2>1. rs \in Seq(Rule) /\ I \subseteq 1..Len(rs) /\ I # {}
      BY <1>1 DEF TypeOK, State, Serving
    <2>2. \A r \in Rule : r.priority \in Nat
      BY DEF Rule
    <2> QED
      BY <2>1, <2>2
  <1>3. PICK p \in P : \A q \in P : p <= q
    <2>1. P \in SUBSET Nat /\ P # {}
      BY <1>2
    <2> HIDE DEF P
    <2> QED
      BY <2>1, LeastNatural
  <1> DEFINE J == {i \in I : rs[i].priority = p}
  <1>4. PICK i \in J : \A j \in J : i <= j
    <2>1. J \in SUBSET Nat
      <3>1. I \subseteq Nat
        BY <1>2
      <3> QED
        BY <3>1
    <2>2. J # {}
      <3>1. PICK j \in I : rs[j].priority = p
        BY <1>3
      <3> QED
        BY <3>1
    <2> HIDE DEF J
    <2> QED
      BY <2>1, <2>2, LeastNatural
  <1>5. i \in I /\ First(i)
    <2>1. ASSUME NEW j \in I
          PROVE  rs[i].priority < rs[j].priority
                 \/ (rs[i].priority = rs[j].priority /\ i <= j)
      <3>1. p <= rs[j].priority /\ p \in Nat /\ rs[j].priority \in Nat /\ rs[i].priority = p
        BY <1>2, <1>3, <1>4
      <3>2. CASE rs[j].priority = p
        BY <1>4, <3>1, <3>2
      <3>3. CASE rs[j].priority # p
        BY <3>1, <3>3
      <3> QED
        BY <3>2, <3>3
    <2> QED
      BY <1>4, <2>1
  <1>6. FirstServing(k) = CHOOSE h \in I : First(h)
    BY <1>1 DEF FirstServing
  <1> HIDE DEF First
  <1> QED
    BY <1>1, <1>5, <1>6

\* Of a flag with variants, one is picked.
LEMMA VariantIsOne ==
  ASSUME TypeOK, NEW k \in Keys, states[k].variants # <<>>
  PROVE  PickVariant(k) \in Variant
  <1>1. PICK vs, b : vs = states[k].variants /\ b = bucket[k]
    OBVIOUS
  <1>2. vs \in Seq(Variant) /\ vs # <<>>
    BY <1>1 DEF TypeOK, State
  <1>3. PickVariant(k) = VariantAt(vs, b)
    BY <1>1 DEF PickVariant, VariantAt
  <1>4. Picked(vs, b) \in 1..Len(vs)
    <2> DEFINE within == {i \in 1..Len(vs) : b < Cut(vs)[i]}
    <2>1. Len(vs) \in 1..Len(vs) /\ within \in SUBSET Nat /\ within \subseteq 1..Len(vs)
      BY <1>2
    <2>2. Picked(vs, b) = IF within = {} THEN Len(vs)
                          ELSE CHOOSE i \in within : \A j \in within : i <= j
      BY DEF Picked
    <2> HIDE DEF within
    <2>3. within # {} => \E i \in within : \A j \in within : i <= j
      BY <2>1, LeastNatural
    <2> QED
      BY <2>1, <2>2, <2>3
  <1>5. PickVariant(k) = vs[Picked(vs, b)]
    BY <1>3, VariantIsPicked
  <1> QED
    BY <1>2, <1>4, <1>5

\* What k gives is a value, unless there is no such flag.
Answered(k) == IF k \in DOMAIN flags THEN Evaluate(k).value \in Values
               ELSE Evaluate(k) = Answer(NoValue, "NOT_FOUND")

\* A flag that is served gives a value.
LEMMA ServeGives ==
  ASSUME TypeOK, NEW k \in DOMAIN flags
  PROVE  Serve(k).value \in Values
  <1>1. k \in Keys /\ flags[k] \in Flag /\ states[k] \in State
    BY DEF TypeOK
  <1>2. DefaultValue(k) \in Values
    BY <1>1 DEF DefaultValue, Flag
  <1>3. OnValue(k) \in Values
    BY <1>1, <1>2 DEF OnValue, State
  <1>4. Serving(k) # {} => states[k].rules[FirstServing(k)].value \in Values
    <2> SUFFICES ASSUME Serving(k) # {} PROVE states[k].rules[FirstServing(k)].value \in Values
      OBVIOUS
    <2>1. FirstServing(k) \in 1..Len(states[k].rules)
      BY <1>1, FirstServes DEF Serving
    <2>2. states[k].rules \in Seq(Rule)
      BY <1>1 DEF State
    <2>3. states[k].rules[FirstServing(k)] \in Rule
      BY <2>1, <2>2
    <2> QED
      BY <2>3 DEF Rule
  <1>5. states[k].variants # <<>> => PickVariant(k).value \in Values
    BY <1>1, VariantIsOne DEF Variant
  <1> QED
    BY <1>2, <1>3, <1>4, <1>5 DEF Serve, Answer

\* Every flag of the project gives a value, whatever its rules, prerequisites, cycles
\* and variants, and no other key does: the walk ends, a rule or variant is found.
THEOREM EveryFlagAnswers == Spec => [](\A k \in Keys : Answered(k))
  <1>1. TypeOK => \A k \in Keys : Answered(k)
    <2> SUFFICES ASSUME TypeOK, NEW k \in Keys PROVE Answered(k)
      OBVIOUS
    <2>1. CASE k \in DOMAIN flags
      <3>1. DefaultValue(k) \in Values
        BY <2>1 DEF DefaultValue, TypeOK, Flag
      <3>2. Serve(k).value \in Values
        BY <2>1, ServeGives
      <3>3. PICK met \in BOOLEAN : met = Walk({}, k).met
        BY <2>1, MetIsBoolean
      <3>4. Evaluate(k) = Outcome(k, met)
        BY <3>3, EvaluateIs
      <3>5. Outcome(k, met).value \in Values
        <4>1. CASE Refusal(k) # "" \/ ~met
          BY <3>1, <4>1 DEF Outcome, Answer
        <4>2. CASE Refusal(k) = "" /\ met
          BY <3>2, <4>2 DEF Outcome
        <4> QED
          BY <4>1, <4>2
      <3> QED
        BY <2>1, <3>4, <3>5 DEF Answered
    <2>2. CASE k \notin DOMAIN flags
      BY <2>2 DEF Answered, Evaluate, Outcome, Refusal, DefaultValue
    <2> QED
      BY <2>1, <2>2
  <1> QED
    BY <1>1, TypeCorrect, PTL

-----------------------------------------------------------------------------
(* Trees of prerequisites.                                                 *)

\* The flags that k leads to, and a flag that leads to each of them in one way only.
Reach(k) == Closure({k})

Tree(k) ==
    \A j \in Reach(k) \cap DOMAIN flags :
        LET ps == flags[j].prerequisites
        IN  /\ j \notin Closure(PrerequisitesOf(j))
            /\ \A h, i \in DOMAIN ps : h # i => Reach(ps[h]) \cap Reach(ps[i]) = {}

\* What k's prerequisites lead to, k leads to; in a tree they do not lead back.
LEMMA ReachBranches ==
  ASSUME TypeOK, NEW k \in DOMAIN flags, NEW p \in PrerequisitesOf(k)
  PROVE  /\ p \in Keys /\ p \in Reach(p) /\ k \in Reach(k) /\ Reach(p) \subseteq Reach(k)
         /\ Tree(k) => k \notin Reach(p) /\ Tree(p)
  <1>1. k \in Keys /\ PrerequisitesOf(k) \subseteq Keys /\ p \in Keys
    BY NamesAreKeys DEF TypeOK
  <1>2. k \in Reach(k) /\ p \in Reach(p) /\ Reach(k) \subseteq Keys
    BY <1>1, ClosureAround DEF Reach
  <1>3. Closed(Reach(k)) /\ Closed(Closure(PrerequisitesOf(k)))
    BY <1>1, ClosureIsClosed DEF Reach
  <1>4. p \in Reach(k)
    BY <1>2, <1>3 DEF Closed
  <1>5. Reach(p) \subseteq Reach(k)
    BY <1>2, <1>3, <1>4, ClosureIsLeast DEF Reach
  <1>6. Reach(p) \subseteq Closure(PrerequisitesOf(k))
    BY <1>1, <1>3, ClosureAround, ClosureIsLeast DEF Reach
  <1>7. Tree(k) => k \notin Reach(p) /\ Tree(p)
    BY <1>2, <1>5, <1>6 DEF Tree
  <1> QED
    BY <1>1, <1>2, <1>5, <1>7

\* Two walks of the tree of k that had visited nothing of it find the same, and visit
\* nothing but the tree.
Alike(v, k) ==
    Reach(k) \cap v = {} =>
        /\ Walk(v, k).visited \subseteq v \cup Reach(k)
        /\ \A u \in SUBSET v : /\ Walk(u, k).met = Walk(v, k).met
                               /\ Walk(u, k).visited \subseteq Walk(v, k).visited

\* Asking p in the tree, with c known or with d.
LEMMA AlikeAsk ==
  ASSUME TypeOK, NEW v \in SUBSET Keys, NEW u \in SUBSET v, NEW k \in Keys,
         NEW c \in Known(v, k), NEW d \in Known(u, k), NEW p \in Keys,
         Reach(p) \cap c.visited = {}, p \in Reach(p), Refusal(p) = "" => Alike(c.visited, p),
         d.met = c.met, d.visited \subseteq c.visited
  PROVE  /\ Ask(Prerequisites, d, p).met = Ask(Prerequisites, c, p).met
         /\ Ask(Prerequisites, d, p).visited \subseteq Ask(Prerequisites, c, p).visited
         /\ Ask(Prerequisites, c, p).visited \subseteq c.visited \cup Reach(p)
  <1>1. CASE ~c.met
    BY <1>1 DEF Ask
  <1>2. CASE c.met
    <2>1. p \notin c.visited /\ p \notin d.visited
      OBVIOUS
    <2>2. /\ Ask(Prerequisites, c, p) =
               [met |-> Passes(Outcome(p, Behind(c, p).met)), visited |-> Behind(c, p).visited]
          /\ Ask(Prerequisites, d, p) =
               [met |-> Passes(Outcome(p, Behind(d, p).met)), visited |-> Behind(d, p).visited]
      BY <1>2, <2>1 DEF Ask, Behind, Walk
    <2>3. /\ Behind(d, p).met = Behind(c, p).met
          /\ Behind(d, p).visited \subseteq Behind(c, p).visited
          /\ Behind(c, p).visited \subseteq c.visited \cup Reach(p)
      BY DEF Behind, Alike
    <2>4. PICK x, y : x = Behind(c, p).visited /\ y = Behind(d, p).visited
      OBVIOUS
    <2> DEFINE on == Passes(Outcome(p, Behind(c, p).met))
    <2>5. /\ Ask(Prerequisites, c, p) = [met |-> on, visited |-> x]
          /\ Ask(Prerequisites, d, p) = [met |-> on, visited |-> y]
      BY <2>2, <2>3, <2>4
    <2>6. y \subseteq x /\ x \subseteq c.visited \cup Reach(p)
      BY <2>3, <2>4
    <2> DEFINE A == Ask(Prerequisites, c, p)
               B == Ask(Prerequisites, d, p)
    <2> HIDE DEF on, A, B
    <2>7. A = [met |-> on, visited |-> x] /\ B = [met |-> on, visited |-> y]
      BY <2>5 DEF A, B
    <2>8. A.met = on /\ B.met = on
      BY <2>7
    <2>9. A.visited = x /\ B.visited = y
      BY <2>7
    <2> QED
      BY <2>6, <2>8, <2>9 DEF A, B
  <1> QED
    BY <1>1, <1>2

\* What a walk of k from v may have visited after asking i prerequisites in a tree.
Upto(v, k, i) == v \cup {k} \cup UNION {Reach(flags[k].prerequisites[h]) : h \in 1..i}

\* The next prerequisite is a tree too, and leads to none of it.
Apart(v, k, i) ==
    LET p == flags[k].prerequisites[i]
    IN  /\ p \in Keys /\ p \in Reach(p) /\ Tree(p)
        /\ Reach(p) \cap Upto(v, k, i - 1) = {}
        /\ Upto(v, k, i - 1) \cup Reach(p) \subseteq Upto(v, k, i)
        /\ Upto(v, k, i) \subseteq v \cup Reach(k)

LEMMA BranchesApart ==
  ASSUME TypeOK, NEW v \in SUBSET Keys, NEW k \in DOMAIN flags, Tree(k), Reach(k) \cap v = {},
         NEW i \in 1..Len(flags[k].prerequisites)
  PROVE  Apart(v, k, i)
  <1>0. PICK p : p = flags[k].prerequisites[i]
    OBVIOUS
  <1>1. PICK ps, n : ps = flags[k].prerequisites /\ n = Len(ps)
    OBVIOUS
  <1>2. ps \in Seq(Keys) /\ n \in Nat /\ k \in Keys
    BY <1>1 DEF TypeOK, Flag
  <1>3. /\ k \in Reach(k)
        /\ \A h \in 1..n : /\ ps[h] \in PrerequisitesOf(k) /\ ps[h] \in Keys
                          /\ ps[h] \in Reach(ps[h]) /\ Tree(ps[h])
                          /\ Reach(ps[h]) \subseteq Reach(k) /\ k \notin Reach(ps[h])
    <2>1. k \in Reach(k)
      BY <1>2, ClosureAround DEF Reach
    <2>2. ASSUME NEW h \in 1..n PROVE ps[h] \in PrerequisitesOf(k)
      BY <1>1, <1>2 DEF PrerequisitesOf
    <2> QED
      BY <2>1, <2>2, ReachBranches
  <1>4. ASSUME NEW h \in 1..(i - 1) PROVE Reach(ps[h]) \cap Reach(p) = {}
    <2>1. k \in Reach(k) \cap DOMAIN flags /\ DOMAIN ps = 1..n
      BY <1>1, <1>2, <1>3
    <2>2. h \in 1..n /\ i \in 1..n /\ h # i
      BY <1>1, <1>2
    <2> QED
      BY <1>0, <1>1, <2>1, <2>2 DEF Tree
  <1>5. p = ps[i] /\ i \in 1..n /\ i - 1 \in Nat
    BY <1>0, <1>1, <1>2
  <1>6. Reach(p) \cap Upto(v, k, i - 1) = {}
    BY <1>1, <1>3, <1>4, <1>5 DEF Upto
  <1>7. Upto(v, k, i - 1) \cup Reach(p) \subseteq Upto(v, k, i)
    <2>1. 1..(i - 1) \subseteq 1..i /\ i \in 1..i
      BY <1>5
    <2> QED
      BY <1>1, <1>5, <2>1 DEF Upto
  <1>8. Upto(v, k, i) \subseteq v \cup Reach(k)
    <2>1. 1..i \subseteq 1..n
      BY <1>2, <1>5
    <2> QED
      BY <1>1, <1>3, <2>1 DEF Upto
  <1> QED
    BY <1>0, <1>3, <1>5, <1>6, <1>7, <1>8 DEF Apart

\* Two walks of k's prerequisites, side by side after i of them.
Abreast(f, g, v, k, i) ==
    /\ g[i].met = f[i].met /\ g[i].visited \subseteq f[i].visited
    /\ f[i].visited \subseteq Upto(v, k, i)

\* They find the same at every step, and visit nothing but what they asked leads to.
LEMMA AlikeSteps ==
  ASSUME TypeOK, NEW v \in SUBSET Keys, NEW k \in DOMAIN flags, Tree(k),
         Reach(k) \cap v = {}, NEW u \in SUBSET v,
         NEW f, WalksBy(f, v, k), NEW g, WalksBy(g, u, k),
         \A w \in SUBSET Keys, p \in Keys :
            v \cup {k} \subseteq w /\ p \notin w /\ Tree(p) /\ p \in DOMAIN flags => Alike(w, p)
  PROVE  \A i \in 0..Len(flags[k].prerequisites) : Abreast(f, g, v, k, i)
  <1>1. PICK ps, n : ps = flags[k].prerequisites /\ n = Len(ps)
    OBVIOUS
  <1>2. /\ f \in [0..n -> Known(v, k)] /\ f[0] = [met |-> TRUE, visited |-> v \cup {k}]
        /\ \A i \in 1..n : f[i] = Ask(Prerequisites, f[i - 1], ps[i])
        /\ ps \in Seq(Keys) /\ n \in Nat
    BY <1>1 DEF WalksBy, InOrder
  <1>3. /\ g \in [0..n -> Known(u, k)] /\ g[0] = [met |-> TRUE, visited |-> u \cup {k}]
        /\ \A i \in 1..n : g[i] = Ask(Prerequisites, g[i - 1], ps[i])
    BY <1>1 DEF WalksBy, InOrder
  <1> DEFINE S == {i \in 0..n : Abreast(f, g, v, k, i)}
  <1>4. 0 \in S
    <2>1. 0 \in 0..n /\ g[0].visited = u \cup {k} /\ f[0].visited = v \cup {k}
      BY <1>2, <1>3
    <2>2. g[0].met = f[0].met
      BY <1>2, <1>3
    <2>3. f[0].visited \subseteq Upto(v, k, 0)
      BY <2>1 DEF Upto
    <2> QED
      BY <2>1, <2>2, <2>3 DEF Abreast
  <1>5. ASSUME NEW i \in 0..(n - 1), i \in S PROVE i + 1 \in S
    <2>1. i + 1 \in 1..n /\ (i + 1) - 1 = i /\ i + 1 \in 0..n /\ i \in 0..n
      BY <1>2
    <2>2. PICK c, d, p : c = f[i] /\ d = g[i] /\ p = ps[i + 1]
      OBVIOUS
    <2>3. /\ c \in Known(v, k) /\ d \in Known(u, k)
          /\ d.met = c.met /\ d.visited \subseteq c.visited /\ c.visited \subseteq Upto(v, k, i)
      BY <1>2, <1>3, <1>5, <2>1, <2>2 DEF Abreast
    <2>4. /\ p \in Keys /\ p \in Reach(p) /\ Tree(p)
          /\ Reach(p) \cap Upto(v, k, i) = {}
          /\ Upto(v, k, i) \cup Reach(p) \subseteq Upto(v, k, i + 1)
      <3>1. i + 1 \in 1..Len(flags[k].prerequisites) /\ p = flags[k].prerequisites[i + 1]
        BY <1>1, <2>1, <2>2
      <3>2. Apart(v, k, i + 1)
        BY <3>1, BranchesApart
      <3> QED
        BY <2>1, <3>1, <3>2 DEF Apart
    <2>5. Reach(p) \cap c.visited = {}
      BY <2>3, <2>4
    <2>6. Refusal(p) = "" => Alike(c.visited, p)
      <3>1. Refusal(p) = "" => p \in DOMAIN flags
        BY DEF Refusal
      <3>2. c.visited \in SUBSET Keys /\ v \cup {k} \subseteq c.visited
        BY <2>3 DEF Known, Result
      <3> QED
        BY <2>4, <2>5, <3>1, <3>2
    <2>7. /\ Ask(Prerequisites, d, p).met = Ask(Prerequisites, c, p).met
          /\ Ask(Prerequisites, d, p).visited \subseteq Ask(Prerequisites, c, p).visited
          /\ Ask(Prerequisites, c, p).visited \subseteq c.visited \cup Reach(p)
      <3>1. k \in Keys
        BY DEF TypeOK
      <3> QED
        BY <2>3, <2>4, <2>5, <2>6, <3>1, AlikeAsk
    <2>8. f[i + 1] = Ask(Prerequisites, c, p) /\ g[i + 1] = Ask(Prerequisites, d, p)
      BY <1>2, <1>3, <2>1, <2>2
    <2> QED
      BY <2>1, <2>3, <2>4, <2>7, <2>8 DEF Abreast
  <1> HIDE DEF S
  <1>6. \A i \in 0..n : i \in S
    BY <1>2, <1>4, <1>5, SetInduction
  <1> QED
    BY <1>1, <1>6 DEF S

\* The step of the induction.
LEMMA AlikeStep ==
  ASSUME TypeOK, NEW v \in SUBSET Keys, NEW k \in DOMAIN flags, Tree(k),
         \A w \in SUBSET Keys, p \in Keys :
            v \cup {k} \subseteq w /\ p \notin w /\ Tree(p) /\ p \in DOMAIN flags => Alike(w, p)
  PROVE  Alike(v, k)
  <1> SUFFICES ASSUME Reach(k) \cap v = {}, NEW u \in SUBSET v
               PROVE  /\ Walk(v, k).visited \subseteq v \cup Reach(k)
                      /\ Walk(u, k).met = Walk(v, k).met
                      /\ Walk(u, k).visited \subseteq Walk(v, k).visited
    BY DEF Alike
  <1>1. PICK f : WalksBy(f, v, k)
    BY WalksAreSteps DEF EveryWalk
  <1>2. PICK g : WalksBy(g, u, k)
    BY WalksAreSteps DEF EveryWalk
  <1>3. PICK ps, n : ps = flags[k].prerequisites /\ n = Len(ps)
    OBVIOUS
  <1>4. /\ ps \in Seq(Keys) /\ n \in Nat
        /\ ps = <<>> => /\ Walk(v, k) = [met |-> TRUE, visited |-> v]
                        /\ Walk(u, k) = [met |-> TRUE, visited |-> u]
        /\ ps # <<>> => Walk(v, k) = f[n] /\ Walk(u, k) = g[n]
    BY <1>1, <1>2, <1>3 DEF WalksBy
  <1>5. CASE ps = <<>>
    <2>1. /\ Walk(v, k) = [met |-> TRUE, visited |-> v]
          /\ Walk(u, k) = [met |-> TRUE, visited |-> u]
      BY <1>4, <1>5
    <2>2. Walk(u, k).met = Walk(v, k).met
      BY <2>1
    <2>3. Walk(v, k).visited = v /\ Walk(u, k).visited = u
      BY <2>1
    <2> QED
      BY <2>2, <2>3
  <1>6. CASE ps # <<>>
    <2>1. n \in 0..n /\ n \in 1..n
      BY <1>3, <1>4, <1>6
    <2>2. /\ g[n].met = f[n].met /\ g[n].visited \subseteq f[n].visited
          /\ f[n].visited \subseteq Upto(v, k, n)
      <3>1. Abreast(f, g, v, k, n)
        BY <1>1, <1>2, <1>3, <2>1, AlikeSteps
      <3> QED
        BY <3>1 DEF Abreast
    <2>3. Upto(v, k, n) \subseteq v \cup Reach(k)
      <3>1. Apart(v, k, n)
        BY <1>3, <2>1, BranchesApart
      <3> QED
        BY <3>1 DEF Apart
    <2> QED
      BY <1>4, <1>6, <2>2, <2>3
  <1> QED
    BY <1>5, <1>6

\* By induction they always do.
LEMMA TreeWalks ==
  ASSUME TypeOK
  PROVE  \A v \in SUBSET Keys, k \in Keys : k \in DOMAIN flags /\ Tree(k) => Alike(v, k)
  <1> DEFINE G == {x \in (SUBSET Keys) \X Keys :
                      x[2] \in DOMAIN flags /\ Tree(x[2]) => Alike(x[1], x[2])}
  <1>1. ASSUME NEW v \in SUBSET Keys, NEW k \in Keys,
               \A w \in SUBSET Keys, p \in Keys :
                   v \cup {k} \subseteq w /\ p \notin w => <<w, p>> \in G
        PROVE  <<v, k>> \in G
    <2> SUFFICES ASSUME k \in DOMAIN flags, Tree(k) PROVE Alike(v, k)
      OBVIOUS
    <2>1. ASSUME NEW w \in SUBSET Keys, NEW p \in Keys,
                 v \cup {k} \subseteq w, p \notin w, p \in DOMAIN flags, Tree(p)
          PROVE  Alike(w, p)
      <3>1. <<w, p>> \in G
        BY <1>1, <2>1
      <3> QED
        BY <2>1, <3>1
    <2> QED
      BY <2>1, AlikeStep
  <1>2. \A v \in SUBSET Keys, k \in Keys : <<v, k>> \in G
    <2> HIDE DEF G
    <2> QED
      BY <1>1, WalkInduction
  <1>3. ASSUME NEW v \in SUBSET Keys, NEW k \in Keys, k \in DOMAIN flags, Tree(k)
        PROVE  Alike(v, k)
    <2>1. <<v, k>> \in G
      BY <1>2
    <2> QED
      BY <1>3, <2>1
  <1> QED
    BY <1>3

\* A prerequisite of the tree of k is found as it is when it is evaluated by itself.
LEMMA TreeAsks ==
  ASSUME TypeOK, NEW k \in DOMAIN flags, Tree(k), NEW f, WalksBy(f, {}, k),
         NEW i \in 1..Len(flags[k].prerequisites)
  PROVE  f[i].met <=> f[i - 1].met /\ On(Evaluate(flags[k].prerequisites[i]))
  <1>1. PICK c, p, n : c = f[i - 1] /\ p = flags[k].prerequisites[i]
                                    /\ n = Len(flags[k].prerequisites)
    OBVIOUS
  <1>2. n \in Nat /\ i - 1 \in 0..n /\ c \in Known({}, k) /\ f[i] = Ask(Prerequisites, c, p)
    BY <1>1 DEF WalksBy, InOrder
  <1>3. /\ p \in Keys /\ p \in Reach(p) /\ Tree(p)
        /\ Reach(p) \cap Upto({}, k, i - 1) = {}
    <2>1. Apart({}, k, i)
      BY BranchesApart
    <2> QED
      BY <1>1, <2>1 DEF Apart
  <1>4. c.visited \subseteq Upto({}, k, i - 1)
    <2>1. \A w \in SUBSET Keys, q \in Keys : Tree(q) /\ q \in DOMAIN flags => Alike(w, q)
      BY TreeWalks
    <2>2. Abreast(f, f, {}, k, i - 1)
      BY <1>1, <1>2, <2>1, AlikeSteps
    <2> QED
      BY <1>1, <2>2 DEF Abreast
  <1>5. c.met \in BOOLEAN /\ c.visited \in SUBSET Keys
    BY <1>2 DEF Known, Result
  <1>6. Reach(p) \cap c.visited = {} /\ p \notin c.visited
    BY <1>3, <1>4
  <1>7. CASE ~c.met
    BY <1>1, <1>2, <1>7 DEF Ask
  <1>8. CASE c.met
    <2>1. Refusal(p) = "" => Walk({}, p).met = Walk(c.visited, p).met
      <3>1. Refusal(p) = "" => p \in DOMAIN flags
        BY DEF Refusal
      <3>2. p \in DOMAIN flags => Alike(c.visited, p)
        BY <1>3, <1>5, TreeWalks
      <3>3. {} \in SUBSET c.visited
        OBVIOUS
      <3> QED
        BY <1>6, <3>1, <3>2, <3>3 DEF Alike
    <2>2. PICK met : met = Behind(c, p).met
      OBVIOUS
    <2>3. Evaluate(p) = Outcome(p, met)
      BY <2>1, <2>2, EvaluateIs DEF Behind
    <2> DEFINE on == Passes(Outcome(p, met))
    <2>4. f[i] = [met |-> on, visited |-> Behind(c, p).visited]
      BY <1>2, <1>6, <1>8, <2>2 DEF Ask, Behind, Walk
    <2>5. on <=> On(Evaluate(p))
      BY <2>3 DEF Passes, On
    <2> HIDE DEF on
    <2>6. f[i].met = on
      BY <2>4
    <2> QED
      BY <1>1, <1>8, <2>5, <2>6
  <1> QED
    BY <1>5, <1>7, <1>8

\* What the documentation says of prerequisites (docs/docs/core-concepts/prerequisites.md
\* lines 47-51) and evaluate does to trees of them: a flag past its other gates fails its
\* prerequisites if and only if one of them, evaluated by itself, is not on.
TreesAsDocumented ==
    \A k \in DOMAIN flags :
        Tree(k) /\ Refusal(k) = "" =>
            (Evaluate(k).reason = "PREREQUISITE_FAILED"
                <=> \E p \in PrerequisitesOf(k) : ~On(Evaluate(p)))

\* On trees of prerequisites evaluation does what the documentation says
\* (docs/docs/core-concepts/prerequisites.md:47-51), for any number of flags and any
\* defaults: only shared prerequisites and cycles fail PrerequisitesAsDocumented.
THEOREM TreesAreAsDocumented == Spec => []TreesAsDocumented
  <1>1. ASSUME TypeOK, NEW k \in DOMAIN flags, Tree(k), Refusal(k) = ""
        PROVE  Evaluate(k).reason = "PREREQUISITE_FAILED"
                  <=> \E p \in PrerequisitesOf(k) : ~On(Evaluate(p))
    <2>1. PICK f : WalksBy(f, {}, k)
      BY <1>1, WalksAreSteps DEF EveryWalk
    <2>2. PICK ps, n : ps = flags[k].prerequisites /\ n = Len(ps)
      OBVIOUS
    <2>3. /\ ps \in Seq(Keys) /\ n \in Nat /\ f[0].met
          /\ ps = <<>> => Walk({}, k).met
          /\ ps # <<>> => Walk({}, k) = f[n]
      BY <2>1, <2>2 DEF WalksBy, InOrder
    <2>4. \A i \in 1..n : f[i].met <=> f[i - 1].met /\ On(Evaluate(ps[i]))
      BY <1>1, <2>1, <2>2, TreeAsks
    <2> DEFINE S == {i \in 0..n : f[i].met <=> \A h \in 1..i : On(Evaluate(ps[h]))}
    <2>5. 0 \in S
      BY <2>3
    <2>6. ASSUME NEW i \in 0..(n - 1), i \in S PROVE i + 1 \in S
      <3>1. i + 1 \in 1..n /\ (i + 1) - 1 = i /\ i + 1 \in 0..n
        BY <2>3
      <3>2. \A h \in 1..(i + 1) : h \in 1..i \/ h = i + 1
        BY <2>3
      <3>3. 1..i \subseteq 1..(i + 1) /\ i + 1 \in 1..(i + 1)
        BY <2>3
      <3>4. f[i + 1].met <=> f[i].met /\ On(Evaluate(ps[i + 1]))
        BY <2>4, <3>1
      <3>5. f[i].met <=> \A h \in 1..i : On(Evaluate(ps[h]))
        BY <2>6
      <3>6. f[i + 1].met <=> \A h \in 1..(i + 1) : On(Evaluate(ps[h]))
        BY <3>2, <3>3, <3>4, <3>5
      <3> QED
        BY <3>1, <3>6
    <2>7. n \in S
      <3> HIDE DEF S
      <3>1. \A i \in 0..n : i \in S
        BY <2>3, <2>5, <2>6, SetInduction
      <3> QED
        BY <2>3, <3>1
    <2>8. PrerequisitesOf(k) = {ps[h] : h \in 1..n}
      BY <2>2, <2>3 DEF PrerequisitesOf
    <2>9. Walk({}, k).met <=> \A p \in PrerequisitesOf(k) : On(Evaluate(p))
      <3>1. CASE ps = <<>>
        <4>1. n = 0
          BY <2>2, <3>1
        <4> QED
          BY <2>3, <2>8, <3>1, <4>1
      <3>2. CASE ps # <<>>
        BY <2>3, <2>7, <2>8, <3>2
      <3> QED
        BY <3>1, <3>2
    <2>10. PICK met \in BOOLEAN : met = Walk({}, k).met
      BY <1>1, MetIsBoolean
    <2>11. Evaluate(k) = Outcome(k, met)
      BY <2>10, EvaluateIs
    <2>12. Outcome(k, met).reason = "PREREQUISITE_FAILED" <=> ~met
      <3>1. Serve(k).reason \in {"TARGETED", "ROLLOUT", "FALLTHROUGH", "VARIANT"}
        BY DEF Serve, Answer
      <3>2. CASE met
        BY <1>1, <3>1, <3>2 DEF Outcome
      <3>3. CASE ~met
        BY <1>1, <3>3 DEF Outcome, Answer
      <3> QED
        BY <3>2, <3>3
    <2> QED
      BY <2>9, <2>10, <2>11, <2>12
  <1>2. TypeOK => TreesAsDocumented
    BY <1>1 DEF TreesAsDocumented
  <1> QED
    BY <1>2, TypeCorrect, PTL

=============================================================================
