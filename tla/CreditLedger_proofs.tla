------------------------- MODULE CreditLedger_proofs -------------------------
(***************************************************************************)
(* Proofs about CreditLedger.  Conserved is not inductive: it needs that   *)
(* the grant a call is about to credit was not credited before, which the  *)
(* row it inserted ensures (GrantsInOrder).                                *)
(***************************************************************************)
EXTENDS CreditLedger, FiniteSetTheorems, TLAPS

Finite == IsFiniteSet(consumed) /\ IsFiniteSet(credited)

\* A grant is recorded before it is credited, and by one call only.
GrantsInOrder ==
    /\ credited \subseteq granted
    /\ \A g \in Granters : granting[g].pc = "credit" => RowOf(g) \in granted \ credited
    /\ \A g, h \in Granters :
         granting[g].pc = "credit" /\ granting[h].pc = "credit" /\ g # h => RowOf(g) # RowOf(h)

IInv == TypeOK /\ Finite /\ Conserved /\ ChargedOnce /\ AnsweredIsCharged /\ GrantsInOrder

-----------------------------------------------------------------------------
(* The helpers.                                                            *)

LEMMA OneMore == ASSUME NEW u \in Nat, NEW n \in Nat
                 PROVE  u * (n + 1) = u * n + u
  BY SMT

\* TurnTo leaves the other calls alone and no call about to credit.
LEMMA TurnToEffect ==
  ASSUME TypeOK, NEW g \in Granters, NEW b \in Nat, NEW period \in Periods, TurnTo(g, b, period)
  PROVE  /\ granting' \in [Granters -> Granting]
         /\ granting'[g].pc # "credit"
         /\ \A h \in Granters \ {g} : granting'[h] = granting[h]
  <1>1. CASE b \in Bearers
    <2>1. [pc |-> "record", bearer |-> b, period |-> period] \in Granting
      BY <1>1 DEF Granting
    <2> QED
      BY <1>1, <2>1 DEF TurnTo, TypeOK
  <1>2. CASE b \notin Bearers
    <2>1. Idle \in Granting /\ Idle.pc = "idle"
      BY DEF Granting, Idle
    <2> QED
      BY <1>2, <2>1 DEF TurnTo, TypeOK
  <1> QED
    BY <1>1, <1>2

\* What a call is at when it is not idle.
LEMMA AtRow ==
  ASSUME TypeOK, NEW g \in Granters, granting[g].pc # "idle"
  PROVE  /\ granting[g].bearer \in Bearers
         /\ granting[g].period \in Periods
         /\ RowOf(g) \in Grant
         /\ RowOf(g).bearer = granting[g].bearer
  <1>1. granting[g] \in [pc : {"record", "credit"}, bearer : Bearers, period : Periods]
    BY DEF TypeOK, Granting, Idle
  <1> QED
    BY <1>1 DEF RowOf, Grant

\* Conserved and ChargedOnce are about the balances and the rows alone.
LEMMA BooksUnchanged ==
  ASSUME UNCHANGED <<balanceVars, consumed, credited>>
  PROVE  /\ Conserved => Conserved'
         /\ ChargedOnce => ChargedOnce'
         /\ Finite => Finite'
  BY DEF balanceVars, Conserved, ChargedOnce, CreditedTo, ConsumedOf, Finite

\* AnsweredIsCharged is about the answers and the rows of consumptions.
LEMMA AnswersUnchanged ==
  ASSUME AnsweredIsCharged, UNCHANGED <<consumed, answered>>
  PROVE  AnsweredIsCharged'
  BY DEF AnsweredIsCharged, Recorded

LEMMA OrderUnchanged ==
  ASSUME GrantsInOrder, UNCHANGED grantVars
  PROVE  GrantsInOrder'
  BY DEF GrantsInOrder, grantVars, RowOf

\* When call g is no longer about to credit, and the others stay, the order holds
\* as long as what the others are about to credit does.
LEMMA OrderAfterTurn ==
  ASSUME GrantsInOrder, NEW g \in Granters, UNCHANGED granted,
         granting'[g].pc # "credit",
         \A h \in Granters \ {g} : granting'[h] = granting[h],
         credited' = credited \/ (granting[g].pc = "credit" /\ credited' = credited \cup {RowOf(g)})
  PROVE  GrantsInOrder'
  BY DEF GrantsInOrder, RowOf

-----------------------------------------------------------------------------
(* Each action keeps the invariant.                                        *)

LEMMA ChargePreserves ==
  ASSUME IInv, NEW c \in calls, NEW told \in BOOLEAN, Charge(c, told)
  PROVE  IInv'
  <1> DEFINE r == c[2]
             b == r.bearer
  <1> USE DEF IInv
  <1>1. /\ r \in Request /\ b \in Bearers /\ r \notin consumed
        /\ Price[b] \in Nat \ {0} /\ balance[b] \in Nat /\ used[b] \in Nat
        /\ balance[b] >= Price[b]
    BY PriceAssumption DEF TypeOK, Request, Charge, Recorded
  <1>2. TypeOK'
    BY <1>1 DEF TypeOK, Charge, grantVars
  <1>3. Finite'
    BY FS_AddElement DEF Finite, Charge, grantVars
  <1>4. Conserved'
    <2> SUFFICES ASSUME NEW x \in Bearers
                 PROVE  balance'[x] + used'[x] = balance[x] + used[x]
      BY DEF Conserved, CreditedTo, Charge, grantVars
    <2>1. CASE x = b
      BY <1>1, <2>1 DEF TypeOK, Charge
    <2>2. CASE x # b
      BY <1>1, <2>2 DEF TypeOK, Charge
    <2> QED
      BY <2>1, <2>2
  <1>5. ChargedOnce'
    <2>1. ASSUME NEW x \in Bearers
          PROVE  used'[x] = Price[x] * Cardinality(ConsumedOf(x)')
      <3>1. CASE x = b
        <4>1. ConsumedOf(x)' = ConsumedOf(x) \cup {r} /\ r \notin ConsumedOf(x)
          BY <1>1, <3>1 DEF ConsumedOf, Charge
        <4>2. IsFiniteSet(ConsumedOf(x))
          BY FS_Subset DEF ConsumedOf, Finite
        <4>3. /\ Cardinality(ConsumedOf(x)) \in Nat
              /\ Cardinality(ConsumedOf(x)') = Cardinality(ConsumedOf(x)) + 1
          BY <4>1, <4>2, FS_AddElement, FS_CardinalityType
        <4>4. /\ used'[x] = used[x] + Price[x]
              /\ used[x] = Price[x] * Cardinality(ConsumedOf(x))
              /\ Price[x] \in Nat
          BY <1>1, <3>1 DEF TypeOK, Charge, ChargedOnce
        <4> QED
          BY <4>3, <4>4, OneMore
      <3>2. CASE x # b
        <4>1. ConsumedOf(x)' = ConsumedOf(x) /\ used'[x] = used[x]
          BY <1>1, <3>2 DEF ConsumedOf, Charge, TypeOK
        <4> QED
          BY <4>1 DEF ChargedOnce
      <3> QED
        BY <3>1, <3>2
    <2>2. \A s, t \in consumed' : s.key = t.key => s = t
      BY DEF ChargedOnce, Charge, Recorded
    <2> QED
      BY <2>1, <2>2 DEF ChargedOnce
  <1>6. AnsweredIsCharged'
    BY DEF AnsweredIsCharged, Recorded, Charge
  <1>7. GrantsInOrder'
    BY OrderUnchanged DEF Charge
  <1> QED
    BY <1>2, <1>3, <1>4, <1>5, <1>6, <1>7

LEMMA PurchasePreserves ==
  ASSUME IInv, NEW p \in Packs, Purchase(p)
  PROVE  IInv'
  <1> USE DEF IInv
  <1>1. p.bearer \in Bearers /\ p.credits \in Nat
    BY PackAssumption DEF Pack
  <1>2. TypeOK'
    BY <1>1 DEF TypeOK, Purchase, callVars, grantVars
  <1>3. Conserved'
    <2> SUFFICES ASSUME NEW x \in Bearers
                 PROVE  balance'[x] + used'[x]
                          = bought'[x] + Units[x] * Cardinality(CreditedTo(x))
      BY DEF Conserved, CreditedTo, Purchase, grantVars
    <2>1. balance[x] + used[x] = bought[x] + Units[x] * Cardinality(CreditedTo(x))
      BY DEF Conserved
    <2>2. Units[x] * Cardinality(CreditedTo(x)) \in Nat
      <3>1. Cardinality(CreditedTo(x)) \in Nat
        BY FS_Subset, FS_CardinalityType DEF CreditedTo, Finite
      <3> QED
        BY <3>1, UnitsAssumption
    <2>3. CASE x = p.bearer
      <3>1. balance'[x] = balance[x] + p.credits /\ bought'[x] = bought[x] + p.credits /\ used'[x] = used[x]
        BY <1>1, <2>3 DEF Purchase, TypeOK
      <3>2. balance[x] \in Nat /\ bought[x] \in Nat /\ used[x] \in Nat
        BY DEF TypeOK
      <3> QED
        BY <1>1, <2>1, <2>2, <3>1, <3>2
    <2>4. CASE x # p.bearer
      BY <1>1, <2>1, <2>4 DEF Purchase, TypeOK
    <2> QED
      BY <2>3, <2>4
  <1>4. ChargedOnce' /\ Finite' /\ AnsweredIsCharged'
    BY DEF ChargedOnce, ConsumedOf, Finite, AnsweredIsCharged, Recorded, Purchase, callVars, grantVars
  <1>5. GrantsInOrder'
    BY OrderUnchanged DEF Purchase
  <1> QED
    BY <1>2, <1>3, <1>4, <1>5

\* A call of GrantMonthlyCredits that turns to another bearer, or ends.
LEMMA TurnPreserves ==
  ASSUME IInv, NEW g \in Granters,
         UNCHANGED <<balanceVars, callVars, granted, credited>>,
         granting' \in [Granters -> Granting],
         granting'[g].pc # "credit",
         \A h \in Granters \ {g} : granting'[h] = granting[h]
  PROVE  IInv'
  <1>1. TypeOK'
    BY DEF IInv, TypeOK, balanceVars, callVars
  <1>2. Conserved' /\ ChargedOnce' /\ Finite'
    BY BooksUnchanged DEF IInv, callVars
  <1>3. AnsweredIsCharged'
    BY AnswersUnchanged DEF IInv, callVars
  <1>4. GrantsInOrder'
    BY OrderAfterTurn DEF IInv
  <1> QED
    BY <1>1, <1>2, <1>3, <1>4 DEF IInv

LEMMA RecordGrantPreserves ==
  ASSUME IInv, NEW g \in Granters, RecordGrant(g)
  PROVE  IInv'
  <1> USE DEF IInv
  <1>1. granting[g].pc # "idle" /\ granting[g] \in Granting
    BY DEF RecordGrant, TypeOK
  <1>2. /\ granting[g] \in [pc : {"record", "credit"}, bearer : Bearers, period : Periods]
        /\ RowOf(g) \in Grant
    BY <1>1, AtRow DEF Granting, Idle
  <1>3. /\ granting'[g] = [granting[g] EXCEPT !.pc = "credit"]
        /\ granting'[g] \in Granting
        /\ \A h \in Granters \ {g} : granting'[h] = granting[h]
    BY <1>2 DEF RecordGrant, Granting, TypeOK
  <1>4. RowOf(g)' = RowOf(g)
    BY <1>2, <1>3 DEF RowOf
  <1>5. TypeOK'
    <2>1. granting' \in [Granters -> Granting]
      BY <1>3 DEF RecordGrant, TypeOK
    <2> QED
      BY <1>2, <2>1 DEF TypeOK, RecordGrant, balanceVars, callVars
  <1>6. Conserved' /\ ChargedOnce' /\ Finite'
    BY BooksUnchanged DEF RecordGrant, callVars
  <1>7. AnsweredIsCharged'
    BY AnswersUnchanged DEF RecordGrant, callVars
  <1>8. GrantsInOrder'
    <2>1. credited' \subseteq granted'
      BY DEF GrantsInOrder, RecordGrant
    <2>2. \A h \in Granters \ {g} : RowOf(h)' = RowOf(h) /\ granting'[h].pc = granting[h].pc
      BY <1>3 DEF RowOf
    <2>3. RowOf(g) \notin granted /\ granted' = granted \cup {RowOf(g)} /\ credited' = credited
      BY DEF RecordGrant
    <2>4. \A h \in Granters : granting'[h].pc = "credit" => RowOf(h)' \in granted' \ credited'
      BY <1>4, <2>2, <2>3 DEF GrantsInOrder
    <2>5. \A h \in Granters \ {g} : granting'[h].pc = "credit" => RowOf(h)' # RowOf(g)'
      BY <1>4, <2>2, <2>3 DEF GrantsInOrder
    <2>6. \A h, i \in Granters : granting'[h].pc = "credit" /\ granting'[i].pc = "credit" /\ h # i
                                   => RowOf(h)' # RowOf(i)'
      BY <2>2, <2>5 DEF GrantsInOrder
    <2> QED
      BY <2>1, <2>4, <2>6 DEF GrantsInOrder
  <1> QED
    BY <1>5, <1>6, <1>7, <1>8

LEMMA CreditGrantPreserves ==
  ASSUME IInv, NEW g \in Granters, CreditGrant(g)
  PROVE  IInv'
  <1> DEFINE b == granting[g].bearer
             n == RowOf(g)
  <1> USE DEF IInv
  <1>1. /\ granting[g].pc = "credit"
        /\ b \in Bearers /\ granting[g].period \in Periods
        /\ n \in Grant /\ n.bearer = b /\ n \notin credited
    BY AtRow DEF CreditGrant, GrantsInOrder
  <1>2. /\ granting' \in [Granters -> Granting]
        /\ granting'[g].pc # "credit"
        /\ \A h \in Granters \ {g} : granting'[h] = granting[h]
    BY <1>1, BearerAssumption, TurnToEffect, b + 1 \in Nat DEF CreditGrant, Bearers
  <1>3. Units[b] \in Nat /\ balance[b] \in Nat
    BY <1>1, UnitsAssumption DEF TypeOK
  <1>4. TypeOK'
    BY <1>1, <1>2, <1>3 DEF TypeOK, CreditGrant, callVars
  <1>5. Finite'
    BY FS_AddElement DEF Finite, CreditGrant, callVars
  <1>6. Conserved'
    <2> SUFFICES ASSUME NEW x \in Bearers
                 PROVE  balance'[x] + used'[x]
                          = bought'[x] + Units[x] * Cardinality(CreditedTo(x)')
      BY DEF Conserved
    <2>1. balance[x] + used[x] = bought[x] + Units[x] * Cardinality(CreditedTo(x))
      BY DEF Conserved
    <2>2. used' = used /\ bought' = bought
      BY DEF CreditGrant
    <2>3. IsFiniteSet(CreditedTo(x)) /\ Cardinality(CreditedTo(x)) \in Nat
      BY FS_Subset, FS_CardinalityType DEF CreditedTo, Finite
    <2>4. CASE x = b
      <3>1. CreditedTo(x)' = CreditedTo(x) \cup {n} /\ n \notin CreditedTo(x)
        BY <1>1, <2>4 DEF CreditedTo, CreditGrant
      <3>2. Cardinality(CreditedTo(x)') = Cardinality(CreditedTo(x)) + 1
        BY <2>3, <3>1, FS_AddElement
      <3>3. balance'[x] = balance[x] + Units[x]
        BY <1>1, <2>4 DEF CreditGrant, TypeOK
      <3>4. balance[x] \in Nat /\ bought[x] \in Nat /\ used[x] \in Nat /\ Units[x] \in Nat
        BY UnitsAssumption DEF TypeOK
      <3>5. Units[x] * Cardinality(CreditedTo(x)')
              = Units[x] * Cardinality(CreditedTo(x)) + Units[x]
        BY <2>3, <3>2, <3>4, OneMore
      <3>6. Units[x] * Cardinality(CreditedTo(x)) \in Nat
        BY <2>3, <3>4
      <3> QED
        BY <2>1, <2>2, <3>3, <3>4, <3>5, <3>6
    <2>5. CASE x # b
      <3>1. CreditedTo(x)' = CreditedTo(x)
        BY <1>1, <2>5 DEF CreditedTo, CreditGrant
      <3>2. balance'[x] = balance[x]
        BY <2>5 DEF CreditGrant, TypeOK
      <3> QED
        BY <2>1, <2>2, <3>1, <3>2
    <2> QED
      BY <2>4, <2>5
  <1>7. ChargedOnce'
    BY DEF ChargedOnce, ConsumedOf, CreditGrant, callVars
  <1>8. AnsweredIsCharged'
    BY AnswersUnchanged DEF CreditGrant, callVars
  <1>9. GrantsInOrder'
    BY <1>1, <1>2, OrderAfterTurn DEF CreditGrant
  <1> QED
    BY <1>4, <1>5, <1>6, <1>7, <1>8, <1>9

-----------------------------------------------------------------------------
(* The invariant.                                                          *)

LEMMA InitIInv == Init => IInv
  <1> SUFFICES ASSUME Init PROVE IInv
    OBVIOUS
  <1>1. TypeOK
    BY DEF Init, TypeOK, Granting, Idle
  <1>2. Finite
    BY FS_EmptySet DEF Init, Finite
  <1>3. Conserved
    <2> SUFFICES ASSUME NEW b \in Bearers
                 PROVE  balance[b] + used[b] = bought[b] + Units[b] * Cardinality(CreditedTo(b))
      BY DEF Conserved
    <2>1. CreditedTo(b) = {}
      BY DEF Init, CreditedTo
    <2>2. Units[b] * 0 = 0
      BY UnitsAssumption
    <2> QED
      BY <2>1, <2>2, FS_EmptySet DEF Init
  <1>4. ChargedOnce
    <2>1. ASSUME NEW b \in Bearers
          PROVE  used[b] = Price[b] * Cardinality(ConsumedOf(b))
      <3>1. ConsumedOf(b) = {}
        BY DEF Init, ConsumedOf
      <3>2. Price[b] * 0 = 0
        BY PriceAssumption
      <3> QED
        BY <3>1, <3>2, FS_EmptySet DEF Init
    <2> QED
      BY <2>1 DEF ChargedOnce, Init
  <1>5. AnsweredIsCharged /\ GrantsInOrder
    BY DEF Init, AnsweredIsCharged, GrantsInOrder, Idle
  <1> QED
    BY <1>1, <1>2, <1>3, <1>4, <1>5 DEF IInv

LEMMA NextIInv == IInv /\ [Next]_vars => IInv'
  <1> SUFFICES ASSUME IInv, [Next]_vars PROVE IInv'
    OBVIOUS
  <1>1. ASSUME NEW w \in Callers, NEW r \in Request, AnswerAgain(w, r)
        PROVE  IInv'
    <2>1. TypeOK'
      BY <1>1 DEF IInv, TypeOK, AnswerAgain, balanceVars, grantVars
    <2>2. Conserved' /\ ChargedOnce' /\ Finite'
      BY <1>1, BooksUnchanged DEF IInv, AnswerAgain, grantVars
    <2>3. AnsweredIsCharged'
      BY <1>1 DEF IInv, AnswerAgain, AnsweredIsCharged, Recorded
    <2>4. GrantsInOrder'
      BY <1>1, OrderUnchanged DEF IInv, AnswerAgain
    <2> QED
      BY <2>1, <2>2, <2>3, <2>4 DEF IInv
  <1>2. ASSUME NEW w \in Callers, NEW r \in Request, BeginCharge(w, r)
        PROVE  IInv'
    <2>1. TypeOK'
      BY <1>2 DEF IInv, TypeOK, BeginCharge, balanceVars, grantVars
    <2>2. Conserved' /\ ChargedOnce' /\ Finite'
      BY <1>2, BooksUnchanged DEF IInv, BeginCharge, grantVars
    <2>3. AnsweredIsCharged' /\ GrantsInOrder'
      BY <1>2, AnswersUnchanged, OrderUnchanged DEF IInv, BeginCharge
    <2> QED
      BY <2>1, <2>2, <2>3 DEF IInv
  <1>3. ASSUME NEW c \in calls, EndCall(c)
        PROVE  IInv'
    <2>1. TypeOK'
      BY <1>3 DEF IInv, TypeOK, EndCall, balanceVars, grantVars
    <2>2. Conserved' /\ ChargedOnce' /\ Finite'
      BY <1>3, BooksUnchanged DEF IInv, EndCall, grantVars
    <2>3. AnsweredIsCharged' /\ GrantsInOrder'
      BY <1>3, AnswersUnchanged, OrderUnchanged DEF IInv, EndCall
    <2> QED
      BY <2>1, <2>2, <2>3 DEF IInv
  <1>4. ASSUME NEW g \in Granters, NEW period \in Periods, StartGrant(g, period)
        PROVE  IInv'
    <2>1. UNCHANGED <<balanceVars, callVars, granted, credited>> /\ TurnTo(g, 1, period)
      BY <1>4 DEF StartGrant
    <2> QED
      BY <2>1, TurnToEffect, TurnPreserves DEF IInv
  <1>5. ASSUME NEW g \in Granters, SkipGrant(g)
        PROVE  IInv'
    <2>1. /\ UNCHANGED <<balanceVars, callVars, granted, credited>>
          /\ TurnTo(g, granting[g].bearer + 1, granting[g].period)
          /\ granting[g].bearer + 1 \in Nat /\ granting[g].period \in Periods
      BY <1>5, AtRow, BearerAssumption DEF SkipGrant, IInv, Bearers
    <2> QED
      BY <2>1, TurnToEffect, TurnPreserves DEF IInv
  <1>6. ASSUME NEW g \in Granters, EndGrant(g)
        PROVE  IInv'
    <2>1. Idle \in Granting /\ Idle.pc = "idle"
      BY DEF Granting, Idle
    <2>2. /\ granting' \in [Granters -> Granting]
          /\ granting'[g].pc # "credit"
          /\ \A h \in Granters \ {g} : granting'[h] = granting[h]
      BY <1>6, <2>1 DEF EndGrant, IInv, TypeOK
    <2> QED
      BY <1>6, <2>2, TurnPreserves DEF EndGrant
  <1>7. CASE UNCHANGED vars
    <2>1. TypeOK'
      BY <1>7 DEF vars, IInv, TypeOK, balanceVars, callVars, grantVars
    <2>2. Conserved' /\ ChargedOnce' /\ Finite'
      BY <1>7, BooksUnchanged DEF IInv, vars, callVars, grantVars
    <2>3. AnsweredIsCharged' /\ GrantsInOrder'
      BY <1>7, AnswersUnchanged, OrderUnchanged DEF IInv, vars, callVars
    <2> QED
      BY <2>1, <2>2, <2>3 DEF IInv
  <1> QED
    BY <1>1, <1>2, <1>3, <1>4, <1>5, <1>6, <1>7, ChargePreserves, PurchasePreserves,
       RecordGrantPreserves, CreditGrantPreserves DEF Next

LEMMA AlwaysIInv == Spec => []IInv
  BY InitIInv, NextIInv, PTL DEF Spec

\* No column leaves its type; in particular no balance of a bearer is below zero.
THEOREM TypeCorrect == Spec => []TypeOK
  <1>1. IInv => TypeOK
    BY DEF IInv
  <1> QED
    BY <1>1, AlwaysIInv, PTL

\* Credits are conserved by any overlap of consumptions, purchases and monthly
\* grants, with calls that break off anywhere.
THEOREM CreditsConserved == Spec => []Conserved
  <1>1. IInv => Conserved
    BY DEF IInv
  <1> QED
    BY <1>1, AlwaysIInv, PTL

\* ConsumeCredits charges a key once, however its calls race and are retried.
THEOREM KeysChargedOnce == Spec => []ChargedOnce
  <1>1. IInv => ChargedOnce
    BY DEF IInv
  <1> QED
    BY <1>1, AlwaysIInv, PTL

\* ConsumeCredits answers without an error only when its key is on record.
THEOREM AnswersAreCharged == Spec => []AnsweredIsCharged
  <1>1. IInv => AnsweredIsCharged
    BY DEF IInv
  <1> QED
    BY <1>1, AlwaysIInv, PTL

=============================================================================
