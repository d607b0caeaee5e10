--------------------------- MODULE FlagSync_proofs ---------------------------
(***************************************************************************)
(* Proofs about FlagSync: types, and that a client that follows the stream *)
(* accounts for every version.  StreamAccounts is inductive with the       *)
(* types; each step either leaves the version where it is, or hands it on  *)
(* to the next place, or writes it down as missed.                         *)
(***************************************************************************)
EXTENDS FlagSync, TLAPS

\* What StreamAccounts says of one client and one version.
Accounted(c, n) == n <= flags[c] \/ OnItsWay(c, n) \/ n \in missed[c]

IInv == TypeOK /\ StreamAccounts

-----------------------------------------------------------------------------
(* The helpers.                                                            *)

LEMMA Numbers ==
  /\ MaxVersion \in Nat \ {0}
  /\ \A v \in Versions : v \in Nat /\ v > 0
  /\ \A v \in Versions \cup {Idle, Asked} : v \in Int /\ (v \in Versions <=> v > 0)
  /\ Idle # Asked /\ NoFlags = 0
  BY BoundAssumption DEF Versions, Idle, Asked, NoFlags

LEMMA SlotTypes ==
  /\ "first" \in Slots /\ "stream" \in Slots /\ Polls \subseteq Slots
  /\ \A p \in Polls : p # "stream" /\ p # "first"
  BY SlotAssumption DEF Slots

\* The values of one client.
LEMMA ClientTypes ==
  ASSUME TypeOK, NEW c \in Clients
  PROVE  /\ events[c] \in SUBSET Versions /\ wire[c] \in SUBSET Versions
         /\ lines[c] \in SUBSET Versions /\ missed[c] \in SUBSET Versions
         /\ \A s \in Slots : fetch[c][s] \in {Idle, Asked} \cup Versions
         /\ flags[c] \in {NoFlags} \cup Versions /\ version \in Versions
  BY BoundAssumption DEF TypeOK, Versions

\* The options and the versions, which most steps leave alone.
LEMMA RulesetTypes ==
  ASSUME TypeOK
  PROVE  /\ version \in Versions /\ version \in Nat /\ 1..version \subseteq Versions
         /\ committed \in Nat /\ committed <= MaxVersion /\ version <= committed
         /\ oldest \in Nat /\ oldest >= 1 /\ oldest <= version
         /\ oldest..committed \subseteq Versions
  BY BoundAssumption DEF TypeOK, Versions

\* What a client that is told of versions misses, or has.
LEMMA MissingTyped ==
  ASSUME TypeOK, NEW c \in Clients, NEW V \in SUBSET Versions
  PROVE  /\ Missing(c, V) \in SUBSET Versions
         /\ c \in streaming => /\ missed[c] \subseteq Missing(c, V)
                              /\ \A n \in V : n <= flags[c] \/ n \in Missing(c, V)
  <1>1. /\ missed[c] \subseteq Versions /\ flags[c] \in Nat
        /\ \A n \in V : n \in Nat /\ n > 0
    BY ClientTypes, Numbers
  <1> QED
    BY <1>1 DEF Missing

LEMMA MissTyped ==
  ASSUME TypeOK, NEW c \in Clients, NEW V \in SUBSET Versions, Miss(c, V)
  PROVE  /\ missed' \in [Clients -> SUBSET Versions]
         /\ \A d \in streaming : missed[d] \subseteq missed'[d]
         /\ c \in streaming => \A n \in V : n <= flags[c] \/ n \in missed'[c]
  <1>1. missed' = [missed EXCEPT ![c] = Missing(c, V)] /\ missed \in [Clients -> SUBSET Versions]
    BY DEF Miss, TypeOK
  <1>2. missed'[c] = Missing(c, V) /\ \A d \in Clients \ {c} : missed'[d] = missed[d]
    BY <1>1
  <1>3. streaming \subseteq Clients
    BY DEF TypeOK
  <1> QED
    BY <1>1, <1>2, <1>3, MissingTyped

\* What remains to show of a step that announces nothing new.
Keeps(c) == \A n \in 1..version : Accounted(c, n) => Accounted(c, n)'

LEMMA KeepsAccounts ==
  ASSUME IInv, UNCHANGED <<streaming, version>>,
         \A c \in Clients : closed[c] => closed'[c],
         \A c \in streaming : ~closed'[c] => Keeps(c)
  PROVE  StreamAccounts'
  <1> SUFFICES ASSUME NEW c \in streaming, ~closed'[c], NEW n \in 1..version
               PROVE  Accounted(c, n)'
    BY DEF StreamAccounts, Accounted
  <1>1. ~closed[c]
    BY DEF IInv, TypeOK
  <1>2. Accounted(c, n)
    BY <1>1 DEF IInv, StreamAccounts, Accounted
  <1> QED
    BY <1>2 DEF Keeps

\* The places where a version may be are left as they are.
LEMMA SamePlaces ==
  ASSUME NEW c \in Clients, broadcasts' = broadcasts, UNCHANGED version,
         events'[c] = events[c], wire'[c] = wire[c], lines'[c] = lines[c],
         fetch'[c] = fetch[c], flags'[c] = flags[c], missed[c] \subseteq missed'[c]
  PROVE  Keeps(c)
  BY DEF Keeps, Accounted, OnItsWay

-----------------------------------------------------------------------------
(* Each action keeps the invariant.                                        *)

\* A version that is announced is on its way, and one that is not is missed.
LEMMA VersionPreserves ==
  ASSUME IInv, NEW v, v = version + 1, version' = v, version < committed,
         broadcasts' \in SUBSET Broadcast, broadcasts \subseteq broadcasts',
         missed' \in [Clients -> SUBSET Versions],
         UNCHANGED <<options, committed, oldest, streamVars, clientVars>>,
         \A c \in streaming : missed[c] \subseteq missed'[c],
         \A c \in streaming : Accounted(c, v)'
  PROVE  IInv'
  <1> USE DEF IInv, options, streamVars, clientVars
  <1>1. TypeOK'
    <2>1. version' \in 1..committed' /\ oldest' \in 1..version'
      BY RulesetTypes
    <2> QED
      BY <2>1 DEF TypeOK
  <1>2. StreamAccounts'
    <2> SUFFICES ASSUME NEW c \in streaming, ~closed[c], NEW n \in 1..v, n # v
                 PROVE  Accounted(c, n)'
      BY DEF StreamAccounts, Accounted
    <2>1. n \in 1..version
      BY RulesetTypes
    <2>2. Accounted(c, n)
      BY <2>1 DEF StreamAccounts, Accounted
    <2> QED
      BY <2>2 DEF Accounted, OnItsWay
  <1> QED
    BY <1>1, <1>2

LEMMA PublishPreserves == IInv /\ Publish => IInv'
  <1> SUFFICES ASSUME IInv, Publish PROVE IInv'
    OBVIOUS
  <1> USE DEF IInv
  <1>1. PICK v, b : v = version + 1 /\ b = [ver |-> v, todo |-> streaming]
    OBVIOUS
  <1>2. /\ version < committed /\ version' = v
        /\ broadcasts' = broadcasts \cup {x \in {b} : x.todo # {}}
        /\ UNCHANGED <<options, committed, oldest, streamVars, clientVars, missed>>
    BY <1>1 DEF Publish
  <1>3. b \in Broadcast /\ b.ver = v /\ b.todo = streaming
    <2>1. v \in Versions /\ streaming \in SUBSET Clients
      BY <1>1, <1>2, RulesetTypes DEF Versions, TypeOK
    <2> QED
      BY <1>1, <2>1 DEF Broadcast
  <1>4. broadcasts' \in SUBSET Broadcast /\ missed' \in [Clients -> SUBSET Versions]
    BY <1>2, <1>3 DEF TypeOK
  <1>5. ASSUME NEW c \in streaming PROVE Accounted(c, v)'
    BY <1>2, <1>3 DEF Accounted, OnItsWay
  <1> QED
    BY <1>1, <1>2, <1>4, <1>5, VersionPreserves

LEMMA PublishUnheardPreserves == IInv /\ PublishUnheard => IInv'
  <1> SUFFICES ASSUME IInv, PublishUnheard PROVE IInv'
    OBVIOUS
  <1> USE DEF IInv
  <1>1. PICK v : v = version + 1
    OBVIOUS
  <1>2. /\ version < committed /\ version' = v
        /\ missed' = [c \in Clients |-> Missing(c, {v})]
        /\ UNCHANGED <<options, committed, oldest, broadcasts, streamVars, clientVars>>
    BY <1>1 DEF PublishUnheard
  <1>3. {v} \in SUBSET Versions
    BY <1>1, <1>2, RulesetTypes DEF Versions
  <1>4. missed' \in [Clients -> SUBSET Versions]
    BY <1>2, <1>3, MissingTyped
  <1>5. ASSUME NEW c \in streaming
        PROVE  missed[c] \subseteq missed'[c] /\ Accounted(c, v)'
    <2>1. c \in Clients
      BY DEF TypeOK
    <2>2. missed'[c] = Missing(c, {v}) /\ flags'[c] = flags[c]
      BY <1>2, <2>1 DEF clientVars
    <2> QED
      BY <1>3, <2>1, <2>2, MissingTyped DEF Accounted
  <1>6. broadcasts' \in SUBSET Broadcast /\ broadcasts \subseteq broadcasts'
    BY <1>2 DEF TypeOK
  <1> QED
    BY <1>1, <1>2, <1>4, <1>5, <1>6, VersionPreserves

\* The versions the servers have, which no client is told of.
LEMMA RulesetPreserves == IInv /\ (Commit \/ CatchUp) => IInv'
  <1> SUFFICES ASSUME IInv, Commit \/ CatchUp PROVE IInv'
    OBVIOUS
  <1> USE DEF IInv
  <1>1. UNCHANGED <<options, version, broadcasts, streamVars, clientVars, missed>>
    BY DEF Commit, CatchUp
  <1>2. /\ committed' \in Versions /\ version \in 1..committed' /\ oldest' \in 1..version
    <2>1. CASE Commit
      BY <2>1, RulesetTypes, BoundAssumption DEF Commit, Versions
    <2>2. CASE CatchUp
      BY <2>2, RulesetTypes, BoundAssumption DEF CatchUp, Versions
    <2> QED
      BY <2>1, <2>2
  <1>3. TypeOK'
    BY <1>1, <1>2 DEF TypeOK, options, streamVars, clientVars
  <1>4. StreamAccounts'
    BY <1>1 DEF StreamAccounts, OnItsWay, options, streamVars, clientVars
  <1> QED
    BY <1>3, <1>4

LEMMA VisitPreserves ==
  ASSUME IInv, NEW b, NEW c \in Clients, Visit(b, c)
  PROVE  IInv'
  <1> USE DEF IInv, options, rulesets
  <1> DEFINE rest == [b EXCEPT !.todo = @ \ {c}]
  <1>1. /\ b \in broadcasts /\ c \in b.todo
        /\ broadcasts' = (broadcasts \ {b}) \cup {x \in {rest} : x.todo # {}}
        /\ UNCHANGED <<options, rulesets, wire, conn, lines, fetch, flags, ready, closed>>
    BY DEF Visit, clientVars
  <1>2. b \in Broadcast /\ b.ver \in Versions
    BY <1>1 DEF TypeOK, Broadcast
  <1>3. rest \in Broadcast /\ rest.ver = b.ver /\ rest.todo = b.todo \ {c}
    BY <1>2 DEF Broadcast
  <1> HIDE DEF rest
  <1>4. /\ events' \in [Clients -> SUBSET Versions] /\ missed' \in [Clients -> SUBSET Versions]
        /\ \A d \in streaming : events[d] \subseteq events'[d] /\ missed[d] \subseteq missed'[d]
        /\ c \in streaming => b.ver <= flags[c] \/ b.ver \in events'[c] \cup missed'[c]
    <2>1. CASE events' = [events EXCEPT ![c] = @ \cup {b.ver}] /\ UNCHANGED missed
      BY <1>2, <2>1 DEF TypeOK
    <2>2. CASE Miss(c, {b.ver}) /\ UNCHANGED events
      BY <1>2, <2>2, MissTyped DEF TypeOK
    <2> QED
      BY <2>1, <2>2 DEF Visit
  <1>5. TypeOK'
    BY <1>1, <1>3, <1>4 DEF TypeOK
  <1>6. ASSUME NEW d \in streaming PROVE Keeps(d)
    <2>1. d \in Clients
      BY DEF TypeOK
    <2>2. ASSUME NEW x \in broadcasts, d \in x.todo
          PROVE  \/ \E y \in broadcasts' : y.ver = x.ver /\ d \in y.todo
                 \/ x.ver <= flags[d] \/ x.ver \in events'[d] \cup missed'[d]
      BY <1>1, <1>3, <1>4, <2>2
    <2> QED
      BY <1>1, <1>4, <2>1, <2>2 DEF Keeps, Accounted, OnItsWay
  <1>7. StreamAccounts'
    BY <1>1, <1>6, KeepsAccounts
  <1> QED
    BY <1>5, <1>7

LEMMA ForwardPreserves ==
  ASSUME IInv, NEW c \in Clients, Forward(c)
  PROVE  IInv'
  <1> USE DEF IInv, options, rulesets
  <1>1. PICK v \in events[c] :
           /\ events' = [events EXCEPT ![c] = @ \ {v}]
           /\ wire' = [wire EXCEPT ![c] = @ \cup {v}]
    BY DEF Forward
  <1>2. UNCHANGED <<options, rulesets, broadcasts, conn, lines, fetch, flags, ready,
                    closed, missed>>
    BY DEF Forward, serverVars, clientVars
  <1>3. TypeOK'
    BY <1>1, <1>2 DEF TypeOK
  <1>4. ASSUME NEW d \in streaming PROVE Keeps(d)
    <2>1. d \in Clients
      BY DEF TypeOK
    <2>2. events[d] \cup wire[d] \subseteq events'[d] \cup wire'[d]
      BY <1>1, <2>1 DEF TypeOK
    <2> QED
      BY <1>2, <2>2 DEF Keeps, Accounted, OnItsWay
  <1>5. StreamAccounts'
    BY <1>2, <1>4, KeepsAccounts
  <1> QED
    BY <1>3, <1>5

LEMMA RestartPreserves == IInv /\ Restart => IInv'
  <1> SUFFICES ASSUME IInv, Restart PROVE IInv'
    OBVIOUS
  <1> USE DEF IInv, options
  <1>1. PICK v \in version..committed :
           /\ version' = v
           /\ missed' = [c \in Clients |->
                           Missing(c, events[c] \cup (version + 1)..v
                             \cup {b.ver : b \in {x \in broadcasts : c \in x.todo}})]
    BY DEF Restart
  <1>2. /\ broadcasts' = {} /\ events' = [c \in Clients |-> {}]
        /\ conn' = [c \in Clients |-> IF conn[c] = "up" THEN "broken" ELSE conn[c]]
        /\ UNCHANGED <<options, committed, oldest, wire, lines, fetch, flags, ready, closed>>
    BY DEF Restart, clientVars
  <1> DEFINE V(c) == events[c] \cup (version + 1)..v
                       \cup {b.ver : b \in {x \in broadcasts : c \in x.todo}}
  <1>3. /\ v \in 1..committed /\ oldest \in 1..v /\ v \in Nat /\ version \in Nat
        /\ version <= v /\ (version + 1)..v \subseteq Versions
    BY <1>1, RulesetTypes DEF Versions
  <1>4. ASSUME NEW c \in Clients PROVE V(c) \in SUBSET Versions
    <2>1. {b.ver : b \in {x \in broadcasts : c \in x.todo}} \subseteq Versions
      BY DEF TypeOK, Broadcast
    <2> QED
      BY <1>3, <2>1, ClientTypes
  <1>5. /\ missed' = [c \in Clients |-> missed'[c]]
        /\ \A c \in Clients : missed'[c] = Missing(c, V(c))
    BY <1>1
  <1> HIDE DEF V
  <1>6. missed' \in [Clients -> SUBSET Versions]
    BY <1>4, <1>5, MissingTyped
  <1>7. TypeOK'
    BY <1>1, <1>2, <1>3, <1>6 DEF TypeOK
  <1>8. StreamAccounts'
    <2> SUFFICES ASSUME NEW c \in streaming, ~closed[c], NEW n \in 1..v
                 PROVE  Accounted(c, n)'
      BY <1>1, <1>2 DEF StreamAccounts, Accounted
    <2>1. c \in Clients
      BY DEF TypeOK
    <2>2. missed[c] \subseteq missed'[c] /\ \A m \in V(c) : m <= flags[c] \/ m \in missed'[c]
      BY <1>4, <1>5, <2>1, MissingTyped
    <2>3. CASE n > version
      <3>1. n \in V(c)
        BY <1>3, <2>3 DEF V
      <3> QED
        BY <1>2, <2>2, <3>1 DEF Accounted
    <2>4. CASE n <= version
      <3>1. Accounted(c, n)
        BY <1>3, <2>4 DEF StreamAccounts, Accounted
      <3>2. CASE n \in V(c)
        BY <1>2, <2>2, <3>2 DEF Accounted
      <3>3. CASE n \notin V(c)
        <4>1. n \notin events[c] /\ ~\E b \in broadcasts : b.ver = n /\ c \in b.todo
          BY <3>3 DEF V
        <4> QED
          BY <1>2, <2>2, <3>1, <4>1 DEF Accounted, OnItsWay
      <3> QED
        BY <3>2, <3>3
    <2> QED
      BY <1>3, <2>3, <2>4
  <1> QED
    BY <1>7, <1>8

\* What is newer than the answer is written down.
LEMMA AnswerPreserves ==
  ASSUME IInv, NEW c \in Clients, NEW s \in Slots, Answer(c, s)
  PROVE  IInv'
  <1> USE DEF IInv, options, rulesets
  <1>1. PICK v \in oldest..committed :
           fetch' = [fetch EXCEPT ![c][s] = v] /\ Miss(c, (v + 1)..version)
    BY DEF Answer
  <1>2. /\ fetch[c][s] = Asked
        /\ UNCHANGED <<options, rulesets, broadcasts, events, wire, conn, lines, flags,
                       ready, closed>>
    BY DEF Answer, serverVars, streamVars
  <1>3. v \in Versions /\ v \in Nat /\ (v + 1)..version \in SUBSET Versions
    BY <1>1, RulesetTypes DEF Versions
  <1>4. /\ missed' \in [Clients -> SUBSET Versions]
        /\ \A d \in streaming : missed[d] \subseteq missed'[d]
        /\ c \in streaming => \A n \in (v + 1)..version : n <= flags[c] \/ n \in missed'[c]
    BY <1>1, <1>3, MissTyped
  <1>5. TypeOK'
    BY <1>1, <1>2, <1>3, <1>4 DEF TypeOK
  <1>6. ASSUME NEW d \in streaming PROVE Keeps(d)
    <2>1. d \in Clients
      BY DEF TypeOK
    <2>2. CASE d # c
      <3>1. fetch'[d] = fetch[d]
        BY <1>1, <2>1, <2>2 DEF TypeOK
      <3> QED
        BY <1>2, <1>4, <2>1, <3>1, SamePlaces
    <2>3. CASE d = c
      <3> SUFFICES ASSUME NEW n \in 1..version, Accounted(c, n) PROVE Accounted(c, n)'
        BY <1>2, <2>3 DEF Keeps
      <3>1. n \in Nat /\ version \in Nat
        BY RulesetTypes
      <3>2. fetch'[c][s] = v /\ \A t \in Slots \ {s} : fetch'[c][t] = fetch[c][t]
        BY <1>1 DEF TypeOK
      <3>3. CASE n <= v
        BY <1>3, <3>1, <3>2, <3>3 DEF Accounted, OnItsWay
      <3>4. CASE n > v
        <4>1. n \in (v + 1)..version
          BY <1>3, <3>1, <3>4
        <4> QED
          BY <1>2, <1>4, <2>3, <4>1 DEF Accounted
      <3> QED
        BY <1>3, <3>1, <3>3, <3>4
    <2> QED
      BY <2>2, <2>3
  <1>7. StreamAccounts'
    BY <1>2, <1>6, KeepsAccounts
  <1> QED
    BY <1>5, <1>7

\* The state of the connection alone.
LEMMA ConnPreserves ==
  ASSUME IInv, conn' \in [Clients -> {"down", "up", "broken", "ended"}],
         UNCHANGED <<options, rulesets, broadcasts, events, wire, lines, fetch, flags,
                     ready, closed, missed>>
  PROVE  IInv'
  <1> USE DEF IInv, options, rulesets
  <1>1. TypeOK'
    BY DEF TypeOK
  <1>2. \A c \in streaming : Keeps(c)
    BY SamePlaces DEF TypeOK
  <1>3. StreamAccounts'
    BY <1>2, KeepsAccounts
  <1> QED
    BY <1>1, <1>3

LEMMA BreakPreserves ==
  ASSUME IInv, NEW c \in Clients, Break(c)
  PROVE  IInv'
  <1> USE DEF IInv, options, rulesets
  <1>1. PICK kept \in SUBSET wire[c] :
           /\ wire' = [wire EXCEPT ![c] = kept]
           /\ Miss(c, events[c] \cup (wire[c] \ kept))
    BY DEF Break
  <1>2. /\ conn' = [conn EXCEPT ![c] = "broken"] /\ events' = [events EXCEPT ![c] = {}]
        /\ UNCHANGED <<options, rulesets, broadcasts, lines, fetch, flags, ready, closed>>
    BY DEF Break, serverVars, clientVars
  <1>3. /\ missed' \in [Clients -> SUBSET Versions]
        /\ \A d \in streaming : missed[d] \subseteq missed'[d]
        /\ c \in streaming =>
              \A n \in events[c] \cup (wire[c] \ kept) : n <= flags[c] \/ n \in missed'[c]
    <2>1. events[c] \cup (wire[c] \ kept) \in SUBSET Versions
      BY ClientTypes
    <2> QED
      BY <1>1, <2>1, MissTyped
  <1>4. TypeOK'
    BY <1>1, <1>2, <1>3 DEF TypeOK
  <1>5. ASSUME NEW d \in streaming PROVE Keeps(d)
    <2>1. d \in Clients
      BY DEF TypeOK
    <2>2. \A n \in events[d] \cup wire[d] :
             n <= flags[d] \/ n \in events'[d] \cup wire'[d] \cup missed'[d]
      <3>1. CASE d = c
        <4>1. wire'[c] = kept
          BY <1>1 DEF TypeOK
        <4> QED
          BY <1>3, <3>1, <4>1
      <3>2. CASE d # c
        <4>1. wire'[d] = wire[d] /\ events'[d] = events[d]
          BY <1>1, <1>2, <2>1, <3>2 DEF TypeOK
        <4> QED
          BY <4>1
      <3> QED
        BY <3>1, <3>2
    <2> QED
      BY <1>2, <1>3, <2>1, <2>2 DEF Keeps, Accounted, OnItsWay
  <1>6. StreamAccounts'
    BY <1>2, <1>5, KeepsAccounts
  <1> QED
    BY <1>4, <1>6

LEMMA ReadChunkPreserves ==
  ASSUME IInv, NEW c \in Clients, ReadChunk(c)
  PROVE  IInv'
  <1> USE DEF IInv, options, rulesets
  <1>1. /\ lines[c] = {} /\ lines' = [lines EXCEPT ![c] = wire[c]]
        /\ wire' = [wire EXCEPT ![c] = {}]
        /\ UNCHANGED <<options, rulesets, broadcasts, events, conn, fetch, flags, ready,
                       closed, missed>>
    BY DEF ReadChunk, Reading, serverVars, clientVars
  <1>2. TypeOK'
    BY <1>1 DEF TypeOK
  <1>3. ASSUME NEW d \in streaming PROVE Keeps(d)
    <2>1. d \in Clients
      BY DEF TypeOK
    <2>2. wire[d] \cup lines[d] \subseteq wire'[d] \cup lines'[d]
      BY <1>1, <2>1 DEF TypeOK
    <2> QED
      BY <1>1, <2>2 DEF Keeps, Accounted, OnItsWay
  <1>4. StreamAccounts'
    BY <1>1, <1>3, KeepsAccounts
  <1> QED
    BY <1>2, <1>4

\* The version of the line is now what the refresh will bring.
LEMMA HandleLinePreserves ==
  ASSUME IInv, NEW c \in Clients, HandleLine(c)
  PROVE  IInv'
  <1> USE DEF IInv, options, rulesets
  <1>1. PICK v \in lines[c] : lines' = [lines EXCEPT ![c] = @ \ {v}]
    BY DEF HandleLine
  <1>2. /\ fetch[c]["stream"] = Idle /\ fetch' = [fetch EXCEPT ![c]["stream"] = Asked]
        /\ UNCHANGED <<options, rulesets, broadcasts, events, wire, conn, flags, ready,
                       closed, missed>>
    BY DEF HandleLine, serverVars
  <1>3. TypeOK'
    BY <1>1, <1>2 DEF TypeOK
  <1>4. ASSUME NEW d \in streaming PROVE Keeps(d)
    <2>1. d \in Clients
      BY DEF TypeOK
    <2>2. CASE d = c
      <3>1. fetch'[c]["stream"] = Asked
        BY <1>2, SlotTypes DEF TypeOK
      <3> QED
        BY <2>2, <3>1, SlotTypes DEF Keeps, Accounted, OnItsWay
    <2>3. CASE d # c
      <3>1. lines'[d] = lines[d] /\ fetch'[d] = fetch[d]
        BY <1>1, <1>2, <2>1, <2>3 DEF TypeOK
      <3> QED
        BY <1>2, <2>1, <3>1, SamePlaces
    <2> QED
      BY <2>2, <2>3
  <1>5. StreamAccounts'
    BY <1>2, <1>4, KeepsAccounts
  <1> QED
    BY <1>3, <1>5

LEMMA PollPreserves ==
  ASSUME IInv, NEW c \in Clients, NEW p \in Polls, Poll(c, p)
  PROVE  IInv'
  <1> USE DEF IInv, options, rulesets
  <1>1. /\ c \notin streaming /\ fetch' = [fetch EXCEPT ![c][p] = Asked]
        /\ UNCHANGED <<options, rulesets, broadcasts, events, wire, conn, lines, flags,
                       ready, closed, missed>>
    BY DEF Poll, serverVars, streamVars
  <1>2. TypeOK'
    BY <1>1, SlotTypes DEF TypeOK
  <1>3. ASSUME NEW d \in streaming PROVE Keeps(d)
    <2>1. d \in Clients /\ fetch'[d] = fetch[d]
      BY <1>1 DEF TypeOK
    <2> QED
      BY <1>1, <2>1, SamePlaces
  <1>4. StreamAccounts'
    BY <1>1, <1>3, KeepsAccounts
  <1> QED
    BY <1>2, <1>4

\* What the answer brings is had, and what it takes away is written down.
LEMMA ApplyPreserves ==
  ASSUME IInv, NEW c \in Clients, NEW s \in Slots, Apply(c, s)
  PROVE  IInv'
  <1> USE DEF IInv, options, rulesets
  <1> DEFINE v == fetch[c][s]
  <1>1. /\ v \in Versions
        /\ flags' = [flags EXCEPT ![c] = v]
        /\ ready' = [ready EXCEPT ![c] = @ \/ s # "stream"]
        /\ fetch' = [fetch EXCEPT ![c][s] = Idle]
        /\ missed' = [missed EXCEPT ![c] = IF c \notin streaming THEN {} ELSE
                        (@ \ 1..v) \cup (v + 1)..flags[c]]
        /\ UNCHANGED <<options, rulesets, broadcasts, events, wire, conn, lines, closed>>
    BY DEF Apply, serverVars, streamVars
  <1>2. /\ v \in Nat /\ flags[c] \in Nat /\ (v + 1)..flags[c] \subseteq Versions
        /\ missed[c] \subseteq Versions
    BY <1>1, ClientTypes, Numbers DEF Versions
  <1>3. TypeOK'
    <2>1. ready' \in [Clients -> BOOLEAN]
      BY <1>1 DEF TypeOK
    <2>2. missed' \in [Clients -> SUBSET Versions]
      BY <1>1, <1>2 DEF TypeOK
    <2> QED
      BY <1>1, <2>1, <2>2 DEF TypeOK
  <1>4. ASSUME NEW d \in streaming PROVE Keeps(d)
    <2>1. d \in Clients
      BY DEF TypeOK
    <2>2. CASE d # c
      <3>1. flags'[d] = flags[d] /\ fetch'[d] = fetch[d] /\ missed'[d] = missed[d]
        BY <1>1, <2>1, <2>2 DEF TypeOK
      <3> QED
        BY <1>1, <2>1, <3>1, SamePlaces
    <2>3. CASE d = c
      <3>1. flags'[c] = v /\ missed'[c] = (missed[c] \ 1..v) \cup (v + 1)..flags[c]
        BY <1>1, <2>3 DEF TypeOK
      <3> SUFFICES ASSUME NEW n \in 1..version, Accounted(c, n), n > v
                   PROVE  Accounted(c, n)'
        <4>1. \A n \in 1..version : n <= v => Accounted(c, n)'
          BY <3>1 DEF Accounted
        <4> QED
          BY <1>2, <2>3, <4>1, Numbers DEF Keeps, TypeOK
      <3>2. n \in Nat
        BY Numbers DEF TypeOK
      <3>3. CASE n <= flags[c]
        BY <1>2, <3>1, <3>2, <3>3 DEF Accounted
      <3>4. CASE n \in missed[c]
        BY <1>2, <3>1, <3>2, <3>4 DEF Accounted
      <3>5. CASE OnItsWay(c, n)
        <4>1. ASSUME NEW t \in Slots, fetch[c][t] = Asked \/ fetch[c][t] >= n
              PROVE  fetch'[c][t] = fetch[c][t]
          <5>1. t # s
            BY <1>1, <1>2, <3>2, <4>1, Numbers DEF Asked
          <5> QED
            BY <1>1, <5>1 DEF TypeOK
        <4> QED
          BY <1>1, <3>5, <4>1 DEF Accounted, OnItsWay
      <3> QED
        BY <3>3, <3>4, <3>5 DEF Accounted
    <2> QED
      BY <2>2, <2>3
  <1>5. StreamAccounts'
    BY <1>1, <1>4, KeepsAccounts
  <1> QED
    BY <1>3, <1>5

\* All that the client has not is missed, wherever it is.
LEMMA GivenUp ==
  ASSUME IInv, NEW c \in Clients, NEW s \in Slots, fetch[c][s] # Idle,
         fetch' = [fetch EXCEPT ![c][s] = Idle],
         Miss(c, (flags[c] + 1)..version),
         UNCHANGED <<options, rulesets, broadcasts, flags, ready, closed>>,
         events' \in [Clients -> SUBSET Versions], wire' \in [Clients -> SUBSET Versions],
         lines' \in [Clients -> SUBSET Versions],
         conn' \in [Clients -> {"down", "up", "broken", "ended"}],
         \A d \in Clients \ {c} :
            events'[d] = events[d] /\ wire'[d] = wire[d] /\ lines'[d] = lines[d]
  PROVE  IInv'
  <1> USE DEF IInv, options, rulesets
  <1>1. /\ flags[c] \in Nat /\ version \in Nat
        /\ (flags[c] + 1)..version \in SUBSET Versions
    BY ClientTypes, Numbers DEF Versions
  <1>2. /\ missed' \in [Clients -> SUBSET Versions]
        /\ \A d \in streaming : missed[d] \subseteq missed'[d]
        /\ c \in streaming =>
              \A n \in (flags[c] + 1)..version : n <= flags[c] \/ n \in missed'[c]
    BY <1>1, MissTyped
  <1>3. TypeOK'
    BY <1>2 DEF TypeOK
  <1>4. ASSUME NEW d \in streaming PROVE Keeps(d)
    <2>1. d \in Clients
      BY DEF TypeOK
    <2>2. CASE d # c
      <3>1. fetch'[d] = fetch[d]
        BY <2>1, <2>2 DEF TypeOK
      <3> QED
        BY <1>2, <2>1, <2>2, <3>1, SamePlaces
    <2>3. CASE d = c
      <3> SUFFICES ASSUME NEW n \in 1..version PROVE n <= flags[c] \/ n \in missed'[c]
        BY <2>3 DEF Keeps, Accounted
      <3>1. n \in Nat /\ (n > flags[c] => n \in (flags[c] + 1)..version)
        BY <1>1
      <3> QED
        BY <1>1, <1>2, <2>3, <3>1
    <2> QED
      BY <2>2, <2>3
  <1>5. StreamAccounts'
    BY <1>4, KeepsAccounts
  <1> QED
    BY <1>3, <1>5

LEMMA FailPreserves ==
  ASSUME IInv, NEW c \in Clients, NEW s \in Slots, Fail(c, s)
  PROVE  IInv'
  <1>1. /\ fetch[c][s] # Idle /\ fetch' = [fetch EXCEPT ![c][s] = Idle]
        /\ Miss(c, (flags[c] + 1)..version)
        /\ UNCHANGED <<options, rulesets, broadcasts, events, wire, conn, lines, flags,
                       ready, closed>>
    BY DEF Fail, serverVars, streamVars
  <1>2. /\ events \in [Clients -> SUBSET Versions] /\ wire \in [Clients -> SUBSET Versions]
        /\ lines \in [Clients -> SUBSET Versions]
        /\ conn \in [Clients -> {"down", "up", "broken", "ended"}]
    BY DEF IInv, TypeOK
  <1> QED
    BY <1>1, <1>2, GivenUp

LEMMA FailUnheardPreserves ==
  ASSUME IInv, NEW c \in Clients, FailUnheard(c)
  PROVE  IInv'
  <1>1. /\ fetch[c]["stream"] # Idle /\ fetch' = [fetch EXCEPT ![c]["stream"] = Idle]
        /\ Miss(c, (flags[c] + 1)..version)
        /\ conn' = [conn EXCEPT ![c] = "ended"] /\ events' = [events EXCEPT ![c] = {}]
        /\ wire' = [wire EXCEPT ![c] = {}] /\ lines' = [lines EXCEPT ![c] = {}]
        /\ UNCHANGED <<options, rulesets, broadcasts, flags, ready, closed>>
    BY DEF FailUnheard, serverVars
  <1>2. /\ events' \in [Clients -> SUBSET Versions] /\ wire' \in [Clients -> SUBSET Versions]
        /\ lines' \in [Clients -> SUBSET Versions]
        /\ conn' \in [Clients -> {"down", "up", "broken", "ended"}]
        /\ \A d \in Clients \ {c} :
              events'[d] = events[d] /\ wire'[d] = wire[d] /\ lines'[d] = lines[d]
    BY <1>1 DEF IInv, TypeOK
  <1> QED
    BY <1>1, <1>2, GivenUp, SlotTypes

LEMMA ClosePreserves ==
  ASSUME IInv, NEW c \in Clients, Close(c)
  PROVE  IInv'
  <1> USE DEF IInv, options, rulesets
  <1>1. /\ closed' = [closed EXCEPT ![c] = TRUE]
        /\ conn' = [conn EXCEPT ![c] = IF @ = "up" THEN "broken" ELSE @]
        /\ events' = [events EXCEPT ![c] = {}] /\ wire' = [wire EXCEPT ![c] = {}]
        /\ UNCHANGED <<options, rulesets, broadcasts, lines, fetch, flags, ready, missed>>
    BY DEF Close, serverVars
  <1>2. TypeOK'
    BY <1>1 DEF TypeOK
  <1>3. \A d \in Clients : closed[d] => closed'[d]
    BY <1>1 DEF TypeOK
  <1>4. ASSUME NEW d \in streaming, ~closed'[d] PROVE Keeps(d)
    <2>1. d \in Clients /\ d # c
      BY <1>1, <1>4 DEF TypeOK
    <2>2. events'[d] = events[d] /\ wire'[d] = wire[d]
      BY <1>1, <2>1 DEF TypeOK
    <2> QED
      BY <1>1, <2>1, <2>2, SamePlaces
  <1>5. StreamAccounts'
    BY <1>1, <1>3, <1>4, KeepsAccounts
  <1> QED
    BY <1>2, <1>5

-----------------------------------------------------------------------------
(* The invariant, and what follows from it.                                *)

LEMMA InitInv == Init => IInv
  <1> SUFFICES ASSUME Init PROVE IInv
    OBVIOUS
  <1>1. TypeOK
    BY Numbers, SlotTypes DEF Init, TypeOK, Versions
  <1>2. StreamAccounts
    <2> SUFFICES ASSUME NEW c \in streaming PROVE fetch[c]["first"] = Asked
      BY SlotTypes DEF StreamAccounts, OnItsWay
    <2> QED
      BY SlotTypes DEF Init
  <1> QED
    BY <1>1, <1>2 DEF IInv

LEMMA NextInv == IInv /\ [Next]_vars => IInv'
  <1> SUFFICES ASSUME IInv, [Next]_vars PROVE IInv'
    OBVIOUS
  <1>1. CASE Commit \/ Publish \/ PublishUnheard \/ CatchUp \/ Restart
    BY <1>1, RulesetPreserves, PublishPreserves, PublishUnheardPreserves, RestartPreserves
  <1>2. ASSUME NEW c \in Clients, NEW b \in broadcasts, Visit(b, c) PROVE IInv'
    BY <1>2, VisitPreserves
  <1>3. ASSUME NEW c \in Clients, Forward(c) PROVE IInv'
    BY <1>3, ForwardPreserves
  <1>4. ASSUME NEW c \in Clients, Connect(c) \/ ConnectFails(c) \/ Notice(c)
        PROVE  IInv'
    <2>1. /\ conn' \in [Clients -> {"down", "up", "broken", "ended"}]
          /\ UNCHANGED <<options, rulesets, broadcasts, events, wire, lines, fetch, flags,
                         ready, closed, missed>>
      BY <1>4 DEF Connect, ConnectFails, Notice, serverVars, clientVars, IInv, TypeOK
    <2> QED
      BY <2>1, ConnPreserves
  <1>5. ASSUME NEW c \in Clients, Break(c) PROVE IInv'
    BY <1>5, BreakPreserves
  <1>6. ASSUME NEW c \in Clients, ReadChunk(c) PROVE IInv'
    BY <1>6, ReadChunkPreserves
  <1>7. ASSUME NEW c \in Clients, HandleLine(c) PROVE IInv'
    BY <1>7, HandleLinePreserves
  <1>8. ASSUME NEW c \in Clients, Close(c) PROVE IInv'
    BY <1>8, ClosePreserves
  <1>9. ASSUME NEW c \in Clients, NEW p \in Polls, Poll(c, p) PROVE IInv'
    BY <1>9, PollPreserves
  <1>10. ASSUME NEW c \in Clients, NEW s \in Slots, Answer(c, s) \/ Apply(c, s) \/ Fail(c, s)
         PROVE  IInv'
    BY <1>10, AnswerPreserves, ApplyPreserves, FailPreserves
  <1>11. ASSUME NEW c \in Clients, FailUnheard(c) PROVE IInv'
    BY <1>11, FailUnheardPreserves
  <1>12. CASE UNCHANGED vars
    <2>1. /\ conn' \in [Clients -> {"down", "up", "broken", "ended"}]
          /\ UNCHANGED <<options, rulesets, broadcasts, events, wire, lines, fetch, flags,
                         ready, closed, missed>>
      BY <1>12 DEF vars, serverVars, streamVars, clientVars, IInv, TypeOK
    <2> QED
      BY <2>1, ConnPreserves
  <1> QED
    BY <1>1, <1>2, <1>3, <1>4, <1>5, <1>6, <1>7, <1>8, <1>9, <1>10, <1>11,
       <1>12 DEF Next

LEMMA Invariant == Spec => []IInv
  BY InitInv, NextInv, PTL DEF Spec

\* The server's and the clients' state keeps its type, for any number of
\* clients, overlapping polls, buffer and versions.
THEOREM TypeCorrect == Spec => []TypeOK
  <1>1. IInv => TypeOK
    BY DEF IInv
  <1> QED
    BY Invariant, <1>1, PTL

\* A client that follows the stream has every version, or it is on its way, or
\* the client missed it at a point where it may (server.go, client.ts).
THEOREM StreamAccountsHold == Spec => []StreamAccounts
  <1>1. IInv => StreamAccounts
    BY DEF IInv
  <1> QED
    BY Invariant, <1>1, PTL
=============================================================================
