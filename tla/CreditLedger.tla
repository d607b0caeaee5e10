----------------------------- MODULE CreditLedger -----------------------------
(***************************************************************************)
(* The prepaid credits of one organisation (store/postgres/                *)
(* credit_store.go): consumption under an idempotency key, purchases of    *)
(* packs, and the monthly grant.  A database transaction is one step, at   *)
(* its commit: its UPDATE holds the row of the balance until then.         *)
(***************************************************************************)
EXTENDS Naturals, FiniteSets

CONSTANTS
    NumBearers,   \* cost bearers are 1..NumBearers, as ListCostBearers lists them
    Price,        \* Price[b]: what one use of b consumes
    Units,        \* Units[b]: what the plan grants each period
    Packs,        \* credit packs
    Keys,         \* idempotency keys
    NoKey,        \* the empty key
    Periods,      \* billing periods
    Callers,      \* ConsumeCredits calls in flight at once
    Granters,     \* GrantMonthlyCredits calls in flight at once
    MaxBought     \* bound: credits bought of one bearer

Bearers == 1..NumBearers
Pack == [bearer : Bearers, credits : Nat \ {0}]
Request == [bearer : Bearers, key : Keys \cup {NoKey}]
Grant == [bearer : Bearers, period : Periods]

ASSUME BearerAssumption == NumBearers \in Nat
ASSUME PriceAssumption == Price \in [Bearers -> Nat \ {0}]
ASSUME UnitsAssumption == Units \in [Bearers -> Nat]
ASSUME PackAssumption == Packs \subseteq Pack
ASSUME KeyAssumption == NoKey \notin Keys

VARIABLES
    balance,    \* credit_balances.balance, per bearer; 0 without a row
    used,       \* credit_balances.lifetime_used, per bearer
    bought,     \* credits of the rows of credit_purchases, per bearer
    consumed,   \* the rows of credit_consumptions
    granted,    \* the rows of monthly_credit_grants
    calls,      \* ConsumeCredits calls past the look-up of their key
    granting,   \* where each GrantMonthlyCredits call is
    answered,   \* history: requests that were answered without an error
    credited    \* history: grants whose credits were added to the balance

balanceVars == <<balance, used, bought>>
callVars == <<consumed, calls, answered>>
grantVars == <<granted, granting, credited>>
vars == <<balanceVars, callVars, grantVars>>

Idle == [pc |-> "idle"]
Granting == {Idle} \cup [pc : {"record", "credit"}, bearer : Bearers, period : Periods]

Init ==
    /\ balance = [b \in Bearers |-> 0]
    /\ used = [b \in Bearers |-> 0]
    /\ bought = [b \in Bearers |-> 0]
    /\ consumed = {} /\ calls = {} /\ answered = {}
    /\ granted = {} /\ credited = {}
    /\ granting = [g \in Granters |-> Idle]

\* credit_consumptions has a row with this key (unique per organisation; the
\* empty key is stored as '', which the index does not exempt).
Recorded(key) == \E r \in consumed : r.key = key

-----------------------------------------------------------------------------
(* ConsumeCredits.                                                         *)

\* A key that is not empty is looked up before the transaction, and the call is
\* answered at once when it is found.
AnswerAgain(w, r) ==
    /\ r.key # NoKey
    /\ Recorded(r.key)
    /\ answered' = answered \cup {r}
    /\ UNCHANGED <<balanceVars, consumed, calls, grantVars>>

\* Otherwise, and also when the look-up fails, the transaction comes next.
BeginCharge(w, r) ==
    /\ \A c \in calls : c[1] # w
    /\ calls' = calls \cup {<<w, r>>}
    /\ UNCHANGED <<balanceVars, consumed, answered, grantVars>>

\* Faulty variants: the balance is not compared; the UPDATE of a call whose key
\* was recorded meanwhile is committed; a call that ends is answered.
ChargeUncovered(c, told) ==
    LET r == c[2]
    IN  /\ ~Recorded(r.key)
        /\ balance' = [balance EXCEPT ![r.bearer] = @ - Price[r.bearer]]
        /\ used' = [used EXCEPT ![r.bearer] = @ + Price[r.bearer]]
        /\ consumed' = consumed \cup {r}
        /\ answered' = IF told THEN answered \cup {r} ELSE answered
        /\ calls' = calls \ {c}
        /\ UNCHANGED <<bought, grantVars>>

ChargeKeepsUpdate(c, told) ==
    LET r == c[2]
    IN  /\ balance[r.bearer] >= Price[r.bearer]
        /\ balance' = [balance EXCEPT ![r.bearer] = @ - Price[r.bearer]]
        /\ used' = [used EXCEPT ![r.bearer] = @ + Price[r.bearer]]
        /\ consumed' = IF Recorded(r.key) THEN consumed ELSE consumed \cup {r}
        /\ answered' = IF told THEN answered \cup {r} ELSE answered
        /\ calls' = calls \ {c}
        /\ UNCHANGED <<bought, grantVars>>

EndCallAnswers(c) ==
    /\ calls' = calls \ {c}
    /\ answered' = answered \cup {c[2]}
    /\ UNCHANGED <<balanceVars, consumed, grantVars>>

\* The transaction commits: the balance sufficed and the key was new.  Its
\* answer may get lost.
Charge(c, told) ==
    LET r == c[2]
    IN  /\ balance[r.bearer] >= Price[r.bearer]
        /\ ~Recorded(r.key)
        /\ balance' = [balance EXCEPT ![r.bearer] = @ - Price[r.bearer]]
        /\ used' = [used EXCEPT ![r.bearer] = @ + Price[r.bearer]]
        /\ consumed' = consumed \cup {r}
        /\ answered' = IF told THEN answered \cup {r} ELSE answered
        /\ calls' = calls \ {c}
        /\ UNCHANGED <<bought, grantVars>>

\* The transaction ends without effect: the balance is too low; or the key is
\* there by now, and what violates the unique index aborts the UPDATE with it
\* (Commit then fails); or a query fails, or the process dies.
EndCall(c) ==
    /\ calls' = calls \ {c}
    /\ UNCHANGED <<balanceVars, consumed, answered, grantVars>>

-----------------------------------------------------------------------------
(* PurchaseCredits and GrantMonthlyCredits.                                *)

\* One transaction records the purchase and adds its credits.
Purchase(p) ==
    /\ bought[p.bearer] + p.credits <= MaxBought
    /\ bought' = [bought EXCEPT ![p.bearer] = @ + p.credits]
    /\ balance' = [balance EXCEPT ![p.bearer] = @ + p.credits]
    /\ UNCHANGED <<used, callVars, grantVars>>

\* The call turns to bearer b, or returns when there is none left.
TurnTo(g, b, period) ==
    granting' = [granting EXCEPT ![g] =
        IF b \in Bearers THEN [pc |-> "record", bearer |-> b, period |-> period] ELSE Idle]

StartGrant(g, period) ==
    /\ granting[g] = Idle
    /\ TurnTo(g, 1, period)
    /\ UNCHANGED <<balanceVars, callVars, granted, credited>>

\* What the call is at: the row of monthly_credit_grants it writes.
RowOf(g) == [bearer |-> granting[g].bearer, period |-> granting[g].period]

\* The bearer has no units, or its row is there: it is passed over.
SkipGrant(g) ==
    /\ granting[g].pc = "record"
    /\ Units[granting[g].bearer] = 0 \/ RowOf(g) \in granted
    /\ TurnTo(g, granting[g].bearer + 1, granting[g].period)
    /\ UNCHANGED <<balanceVars, callVars, granted, credited>>

\* Faulty variant: the row that is there does not stop the call.
RecordGrantAgain(g) ==
    /\ granting[g].pc = "record"
    /\ Units[granting[g].bearer] > 0
    /\ granted' = granted \cup {RowOf(g)}
    /\ granting' = [granting EXCEPT ![g].pc = "credit"]
    /\ UNCHANGED <<balanceVars, callVars, credited>>

\* The row is inserted, by a statement of its own.
RecordGrant(g) ==
    /\ granting[g].pc = "record"
    /\ Units[granting[g].bearer] > 0
    /\ RowOf(g) \notin granted
    /\ granted' = granted \cup {RowOf(g)}
    /\ granting' = [granting EXCEPT ![g].pc = "credit"]
    /\ UNCHANGED <<balanceVars, callVars, credited>>

\* The credits are added, by another statement.
CreditGrant(g) ==
    /\ granting[g].pc = "credit"
    /\ balance' = [balance EXCEPT ![granting[g].bearer] = @ + Units[granting[g].bearer]]
    /\ credited' = credited \cup {RowOf(g)}
    /\ TurnTo(g, granting[g].bearer + 1, granting[g].period)
    /\ UNCHANGED <<used, bought, callVars, granted>>

\* A statement fails or the process dies: the call ends, and what it recorded stays.
EndGrant(g) ==
    /\ granting[g] # Idle
    /\ granting' = [granting EXCEPT ![g] = Idle]
    /\ UNCHANGED <<balanceVars, callVars, granted, credited>>

Next ==
    \/ \E w \in Callers, r \in Request : AnswerAgain(w, r) \/ BeginCharge(w, r)
    \/ \E c \in calls : EndCall(c) \/ \E told \in BOOLEAN : Charge(c, told)
    \/ \E p \in Packs : Purchase(p)
    \/ \E g \in Granters : \/ \E period \in Periods : StartGrant(g, period)
                           \/ SkipGrant(g) \/ RecordGrant(g)
                           \/ CreditGrant(g) \/ EndGrant(g)

Spec == Init /\ [][Next]_vars

-----------------------------------------------------------------------------
(* Properties.                                                             *)

\* The tables hold what their columns hold; no balance is below zero.
TypeOK ==
    /\ balance \in [Bearers -> Nat]
    /\ used \in [Bearers -> Nat]
    /\ bought \in [Bearers -> Nat]
    /\ consumed \in SUBSET Request
    /\ granted \in SUBSET Grant
    /\ calls \in SUBSET (Callers \X Request)
    /\ granting \in [Granters -> Granting]
    /\ answered \in SUBSET Request
    /\ credited \in SUBSET Grant

CreditedTo(b) == {n \in credited : n.bearer = b}
ConsumedOf(b) == {r \in consumed : r.bearer = b}

\* No credit appears or gets lost: what a bearer has and has used is what was
\* bought for it and one grant per period that was credited, however the calls
\* of GrantMonthlyCredits overlap, repeat and break off.
Conserved ==
    \A b \in Bearers :
        balance[b] + used[b] = bought[b] + Units[b] * Cardinality(CreditedTo(b))

\* No key is charged twice, by calls in any order: the credits used are the
\* price of each recorded consumption (ConsumeCredits), and no two have one key.
ChargedOnce ==
    /\ \A b \in Bearers : used[b] = Price[b] * Cardinality(ConsumedOf(b))
    /\ \A r, s \in consumed : r.key = s.key => r = s

\* A caller that ConsumeCredits answers without an error has its key on record:
\* an answer is never given for a charge that was rolled back.
AnsweredIsCharged == \A r \in answered : Recorded(r.key)

=============================================================================
