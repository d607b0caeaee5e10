-------------------------- MODULE ApiSession_proofs --------------------------
(***************************************************************************)
(* Proofs about ApiSession.  CallsAreBounded is not inductive: the number  *)
(* of requests is bounded by the place of the call in its loops (Counted), *)
(* and a write that is still to be answered was not carried out, or is     *)
(* waiting for that answer only (WritesOnce).                              *)
(***************************************************************************)
EXTENDS ApiSession, TLAPS

Live == {"sent", "taken", "refused", "answered", "backoff", "waiting"}

\* A call has sent one request per attempt, and before its repetition at most
\* as many as one loop does.
Counted ==
    \A c \in Calls :
        /\ sends[c] <= 2 * MaxAttempts
        /\ calls[c].at = "unmade" => sends[c] = 0
        /\ calls[c].at \in Live =>
               sends[c] <= (IF calls[c].again THEN MaxAttempts ELSE 0) + calls[c].attempt
        /\ calls[c].at = "waiting" => ~calls[c].again
        /\ calls[c].at = "backoff" => calls[c].attempt < MaxAttempts

\* A write that may be sent, or is on its way, was not carried out before.
WritesOnce ==
    \A c \in Calls \ Gets :
        /\ done[c] <= 1
        /\ calls[c].at \in {"unmade", "sent", "refused", "waiting"} => done[c] = 0
        /\ calls[c].at # "backoff"

IInv == TypeOK /\ Counted /\ WritesOnce /\ WaitersAreServed

-----------------------------------------------------------------------------
(* The helpers.                                                            *)

LEMMA FreshTyped == Fresh("over") \in Call /\ Fresh("unmade") \in Call
  BY AttemptAssumption DEF Fresh, Call

\* The invariant without the variables that only QuietSignOut is about.
LEMMA SessionTyped ==
  ASSUME TypeOK, SessionExpired
  PROVE  session' \in BOOLEAN /\ expired' \in BOOLEAN /\ leaving' \in BOOLEAN
  BY DEF TypeOK, SessionExpired

\* What settling some calls does to the books and to those who wait.
LEMMA SettleKeeps ==
  ASSUME IInv, NEW S \in SUBSET Calls, Settle(S), UNCHANGED <<sends, done>>
  PROVE  /\ calls' \in [Calls -> Call]
         /\ owner' \in Gets \cup {NoCall}
         /\ Counted' /\ WritesOnce'
         /\ Waiting' \subseteq Waiting \ S
         /\ \A c \in Calls : calls'[c].at = "joined" => owner' # NoCall
         /\ owner' # NoCall => calls'[owner'].at \in Live
  <1> USE DEF IInv
  <1>1. /\ \A c \in Calls : calls'[c] = calls[c] \/ calls'[c] = Fresh("over")
        /\ \A c \in S : calls'[c] = Fresh("over")
        /\ calls' \in [Calls -> Call]
    BY FreshTyped DEF Settle, Settled, TypeOK
  <1>2. Fresh("over").at = "over"
    BY DEF Fresh
  <1>3. owner' \in Gets \cup {NoCall}
    BY DEF Settle, OwnerAfter, TypeOK
  <1>4. Counted'
    BY <1>1, <1>2 DEF Counted, Live
  <1>5. WritesOnce'
    BY <1>1, <1>2 DEF WritesOnce
  <1>6. Waiting' \subseteq Waiting \ S
    BY <1>1, <1>2 DEF Waiting
  <1>7. ASSUME NEW c \in Calls, calls'[c].at = "joined"
        PROVE  owner' # NoCall
    BY <1>2, <1>7 DEF Settle, Settled, OwnerAfter, WaitersAreServed
  <1>8. ASSUME owner' # NoCall
        PROVE  calls'[owner'].at \in Live
    <2>1. owner' = owner /\ owner \notin S /\ owner \in Calls
      BY <1>8, CallAssumption DEF Settle, OwnerAfter, TypeOK
    <2>2. calls[owner].at \in Live
      BY <1>8, <2>1 DEF WaitersAreServed, Live
    <2>3. calls'[owner] = calls[owner]
      BY <2>1, <2>2 DEF Settle, Settled, Live
    <2> QED
      BY <2>1, <2>2, <2>3
  <1> QED
    BY <1>1, <1>3, <1>4, <1>5, <1>6, <1>7, <1>8

\* One call goes on, and stays alive.
LEMMA GoesOn ==
  ASSUME IInv, NEW c \in Calls, calls[c].at \in Live, NEW r \in Call, r.at \in Live,
         calls' = [calls EXCEPT ![c] = r], UNCHANGED owner,
         r.at = "waiting" => "api" \in refreshing', refreshing \subseteq refreshing'
  PROVE  calls' \in [Calls -> Call] /\ WaitersAreServed'
  <1> USE DEF IInv
  <1>1. calls' \in [Calls -> Call]
    BY DEF TypeOK
  <1>2. \A d \in Calls : calls'[d].at = "joined" => owner' # NoCall
    BY DEF TypeOK, WaitersAreServed, Live
  <1>3. owner' # NoCall => calls'[owner'].at \in Live
    BY CallAssumption DEF TypeOK, WaitersAreServed, Live
  <1>4. Waiting' # {} => "api" \in refreshing'
    BY DEF Waiting, TypeOK, WaitersAreServed
  <1> QED
    BY <1>1, <1>2, <1>3, <1>4 DEF WaitersAreServed, Live

-----------------------------------------------------------------------------
(* Each action keeps the invariant.                                        *)

LEMMA MakePreserves ==
  ASSUME IInv, NEW c \in Calls, Make(c)
  PROVE  IInv'
  <1> USE DEF IInv
  <1>1. CASE c \in Gets /\ owner # NoCall
    <2>1. /\ calls' = [calls EXCEPT ![c].at = "joined"]
          /\ UNCHANGED <<session, refreshing, expired, leaving, owner, sends, done>>
      BY <1>1 DEF Make
    <2>2. TypeOK'
      BY <2>1 DEF TypeOK, Call
    <2>3. Counted' /\ WritesOnce'
      BY <1>1, <2>1 DEF TypeOK, Counted, WritesOnce, Live
    <2>4. owner # c /\ calls[c].at = "unmade"
      BY <1>1 DEF Make, WaitersAreServed
    <2>5. WaitersAreServed'
      BY <1>1, <2>1, <2>4, CallAssumption DEF TypeOK, WaitersAreServed, Waiting
    <2> QED
      BY <2>2, <2>3, <2>5
  <1>2. CASE ~(c \in Gets /\ owner # NoCall)
    <2> DEFINE r == [[calls[c] EXCEPT !.token = session] EXCEPT !.at = "sent"]
    <2>1. /\ calls[c].at = "unmade"
          /\ calls' = [calls EXCEPT ![c] = r]
          /\ sends' = [sends EXCEPT ![c] = @ + 1]
          /\ owner' = IF c \in Gets THEN c ELSE owner
          /\ UNCHANGED <<session, refreshing, expired, leaving, done>>
      BY <1>2 DEF Make, Send
    <2>2. r \in Call /\ r.at = "sent" /\ r.attempt = calls[c].attempt /\ r.again = calls[c].again
      BY DEF TypeOK, Call
    <2> HIDE DEF r
    <2>3. TypeOK'
      BY <2>1, <2>2 DEF TypeOK
    <2>4. Counted'
      <3>1. r.attempt \in 1..MaxAttempts /\ sends[c] = 0
        BY <2>1, <2>2 DEF TypeOK, Counted, Call
      <3> QED
        BY <2>1, <2>2, <3>1, AttemptAssumption DEF TypeOK, Counted, Live
    <2>5. WritesOnce'
      BY <2>1, <2>2 DEF TypeOK, WritesOnce
    <2>6. WaitersAreServed'
      BY <1>2, <2>1, <2>2, CallAssumption DEF TypeOK, WaitersAreServed, Waiting
    <2> QED
      BY <2>3, <2>4, <2>5, <2>6
  <1> QED
    BY <1>1, <1>2

LEMMA PerformPreserves ==
  ASSUME IInv, NEW c \in Calls, Perform(c)
  PROVE  IInv'
  <1> USE DEF IInv
  <1> DEFINE r == [calls[c] EXCEPT !.at = "taken"]
  <1>1. /\ calls[c].at = "sent" /\ calls' = [calls EXCEPT ![c] = r]
        /\ done' = [d \in Calls \ Gets |-> done[d] + (IF d = c THEN 1 ELSE 0)]
        /\ UNCHANGED <<session, refreshing, expired, leaving, owner, sends>>
    BY DEF Perform
  <1>2. r \in Call /\ r.at = "taken" /\ r.attempt = calls[c].attempt /\ r.again = calls[c].again
    BY DEF TypeOK, Call
  <1> HIDE DEF r
  <1>3. calls' \in [Calls -> Call] /\ WaitersAreServed'
    BY <1>1, <1>2, GoesOn DEF Live
  <1>4. TypeOK'
    BY <1>1, <1>3 DEF TypeOK
  <1>5. Counted'
    BY <1>1, <1>2 DEF TypeOK, Counted, Live
  <1>6. WritesOnce'
    BY <1>1, <1>2 DEF TypeOK, WritesOnce
  <1> QED
    BY <1>3, <1>4, <1>5, <1>6

LEMMA RespondPreserves ==
  ASSUME IInv, NEW c \in Calls, Respond(c)
  PROVE  IInv'
  <1> USE DEF IInv
  <1> DEFINE r == [calls[c] EXCEPT !.at = IF @ = "sent" THEN "refused" ELSE "answered"]
  <1>1. /\ calls[c].at \in {"sent", "taken"} /\ calls' = [calls EXCEPT ![c] = r]
        /\ UNCHANGED <<session, refreshing, expired, leaving, owner, sends, done>>
    BY DEF Respond
  <1>2. /\ r \in Call /\ r.attempt = calls[c].attempt /\ r.again = calls[c].again
        /\ (r.at = "refused" /\ calls[c].at = "sent") \/ r.at = "answered"
    BY <1>1 DEF TypeOK, Call
  <1> HIDE DEF r
  <1>3. calls' \in [Calls -> Call] /\ WaitersAreServed'
    BY <1>1, <1>2, GoesOn DEF Live
  <1>4. Counted'
    BY <1>1, <1>2 DEF TypeOK, Counted, Live
  <1>5. WritesOnce'
    BY <1>1, <1>2 DEF TypeOK, WritesOnce
  <1> QED
    BY <1>1, <1>3, <1>4, <1>5 DEF TypeOK

\* The actions that settle one call.
LEMMA SettlePreserves ==
  ASSUME IInv, NEW S \in SUBSET Calls, Settle(S), UNCHANGED <<sends, done>>,
         session' \in BOOLEAN, expired' \in BOOLEAN, leaving' \in BOOLEAN,
         refreshing' \in SUBSET Refreshers,
         "api" \in refreshing => "api" \in refreshing' \/ Waiting \subseteq S
  PROVE  IInv'
  <1>1. TypeOK'
    BY SettleKeeps DEF IInv, TypeOK
  <1>2. WaitersAreServed'
    BY SettleKeeps DEF IInv, WaitersAreServed, Live
  <1> QED
    BY <1>1, <1>2, SettleKeeps DEF IInv

LEMMA FailPreserves ==
  ASSUME IInv, NEW c \in Calls, calls[c].at \in {"sent", "taken", "answered"}, Fail(c)
  PROVE  IInv'
  <1> USE DEF IInv
  <1>1. CASE c \in Gets /\ calls[c].attempt < MaxAttempts
    <2> DEFINE r == [calls[c] EXCEPT !.at = "backoff"]
    <2>1. /\ calls' = [calls EXCEPT ![c] = r]
          /\ UNCHANGED <<session, refreshing, expired, leaving, owner, sends, done>>
      BY <1>1 DEF Fail
    <2>2. r \in Call /\ r.at = "backoff" /\ r.attempt = calls[c].attempt
          /\ r.again = calls[c].again
      BY DEF TypeOK, Call
    <2> HIDE DEF r
    <2>3. calls' \in [Calls -> Call] /\ WaitersAreServed'
      BY <2>1, <2>2, GoesOn DEF Live
    <2>4. Counted'
      BY <1>1, <2>1, <2>2 DEF TypeOK, Counted, Live
    <2>5. WritesOnce'
      BY <1>1, <2>1, <2>2 DEF TypeOK, WritesOnce
    <2> QED
      BY <2>1, <2>3, <2>4, <2>5 DEF TypeOK
  <1>2. CASE ~(c \in Gets /\ calls[c].attempt < MaxAttempts)
    <2>1. Settle({c}) /\ UNCHANGED <<session, refreshing, expired, leaving, sends, done>>
      BY <1>2 DEF Fail
    <2> QED
      BY <2>1, SettlePreserves DEF TypeOK
  <1> QED
    BY <1>1, <1>2

LEMMA ExpirePreserves ==
  ASSUME IInv, NEW c \in Calls, Expire(c)
  PROVE  IInv'
  <1> USE DEF IInv
  <1>1. CASE session \/ "api" \in refreshing
    <2> DEFINE r == [calls[c] EXCEPT !.at = "waiting"]
    <2>1. /\ calls[c].at = "refused" /\ ~calls[c].again /\ calls' = [calls EXCEPT ![c] = r]
          /\ refreshing' = refreshing \cup {"api"}
          /\ UNCHANGED <<session, expired, leaving, owner, sends, done>>
      BY <1>1 DEF Expire
    <2>2. r \in Call /\ r.at = "waiting" /\ r.attempt = calls[c].attempt
          /\ r.again = calls[c].again
      BY DEF TypeOK, Call
    <2> HIDE DEF r
    <2>3. calls' \in [Calls -> Call] /\ WaitersAreServed'
      BY <2>1, <2>2, GoesOn DEF Live
    <2>4. TypeOK'
      BY <2>1, <2>3 DEF TypeOK, Refreshers
    <2>5. Counted'
      BY <2>1, <2>2 DEF TypeOK, Counted, Live
    <2>6. WritesOnce'
      BY <2>1, <2>2 DEF TypeOK, WritesOnce
    <2> QED
      BY <2>3, <2>4, <2>5, <2>6
  <1>2. CASE ~(session \/ "api" \in refreshing)
    <2>1. Settle({c}) /\ SessionExpired /\ UNCHANGED <<refreshing, sends, done>>
      BY <1>2 DEF Expire
    <2> QED
      BY <2>1, SettlePreserves, SessionTyped DEF TypeOK
  <1> QED
    BY <1>1, <1>2

LEMMA ResendPreserves ==
  ASSUME IInv, NEW c \in Calls, Resend(c)
  PROVE  IInv'
  <1> USE DEF IInv
  <1> DEFINE q == [calls[c] EXCEPT !.attempt = @ + 1]
             r == [q EXCEPT !.at = "sent"]
  <1>1. /\ calls[c].at = "backoff" /\ calls' = [calls EXCEPT ![c] = r]
        /\ sends' = [sends EXCEPT ![c] = @ + 1]
        /\ UNCHANGED <<session, refreshing, expired, leaving, owner, done>>
    BY DEF Resend, Send
  <1>2. r \in Call /\ r.at = "sent" /\ r.attempt = calls[c].attempt + 1
        /\ r.again = calls[c].again
    <2>1. calls[c] \in Call /\ calls[c].attempt \in 1..(MaxAttempts - 1)
      BY <1>1, AttemptAssumption DEF TypeOK, Call, Counted
    <2>2. calls[c].attempt + 1 \in 1..MaxAttempts
      BY <2>1, AttemptAssumption
    <2>3. q \in Call /\ q.attempt = calls[c].attempt + 1 /\ q.again = calls[c].again
      BY <2>1, <2>2 DEF Call
    <2> HIDE DEF q
    <2> QED
      BY <2>3 DEF Call
  <1> HIDE DEF r
  <1>3. calls' \in [Calls -> Call] /\ WaitersAreServed'
    BY <1>1, <1>2, GoesOn DEF Live
  <1>4. TypeOK'
    BY <1>1, <1>3 DEF TypeOK
  <1>5. Counted'
    <2>1. r.attempt \in 1..MaxAttempts /\ calls[c].attempt \in 1..MaxAttempts
      BY <1>2 DEF TypeOK, Call
    <2> QED
      BY <1>1, <1>2, <2>1, AttemptAssumption DEF TypeOK, Counted, Live
  <1>6. WritesOnce'
    BY <1>1, <1>2 DEF TypeOK, WritesOnce
  <1> QED
    BY <1>3, <1>4, <1>5, <1>6

\* The calls that waited are sent once more, each within the bound.
LEMMA RepeatPreserves ==
  ASSUME IInv, Repeat, session' = TRUE, refreshing' = refreshing \ {"api"},
         UNCHANGED <<expired, leaving, owner, done>>
  PROVE  IInv'
  <1> USE DEF IInv
  <1> DEFINE r == [at |-> "sent", token |-> TRUE, again |-> TRUE, attempt |-> 1]
  <1>1. r \in Call /\ r.at = "sent" /\ r.again /\ r.attempt = 1
    BY AttemptAssumption DEF Call
  <1>2. /\ calls' = [c \in Calls |-> IF c \in Waiting THEN r ELSE calls[c]]
        /\ sends' = [c \in Calls |-> sends[c] + (IF c \in Waiting THEN 1 ELSE 0)]
    BY DEF Repeat
  <1> HIDE DEF r
  <1>3. TypeOK'
    BY <1>1, <1>2 DEF TypeOK
  <1>4. Counted'
    <2> SUFFICES ASSUME NEW c \in Calls
                 PROVE  /\ sends'[c] <= 2 * MaxAttempts
                        /\ calls'[c].at = "unmade" => sends'[c] = 0
                        /\ calls'[c].at \in Live =>
                               sends'[c] <= (IF calls'[c].again THEN MaxAttempts ELSE 0)
                                                + calls'[c].attempt
                        /\ calls'[c].at = "waiting" => ~calls'[c].again
                        /\ calls'[c].at = "backoff" => calls'[c].attempt < MaxAttempts
      BY DEF Counted
    <2>1. CASE c \in Waiting
      <3>1. /\ calls'[c] = r /\ sends'[c] = sends[c] + 1
            /\ sends[c] <= calls[c].attempt /\ calls[c].attempt \in 1..MaxAttempts
            /\ sends[c] \in Nat
        BY <1>2, <2>1, AttemptAssumption DEF Waiting, Counted, TypeOK, Call, Live
      <3> QED
        BY <1>1, <3>1, AttemptAssumption
    <2>2. CASE c \notin Waiting
      BY <1>2, <2>2 DEF Counted, TypeOK
    <2> QED
      BY <2>1, <2>2
  <1>5. WritesOnce'
    BY <1>1, <1>2 DEF WritesOnce, TypeOK, Waiting
  <1>6. \A c \in Calls : calls'[c].at # "waiting"
    BY <1>1, <1>2 DEF Waiting
  <1>7. \A c \in Calls : calls'[c].at = "joined" => owner' # NoCall
    BY <1>1, <1>2 DEF WaitersAreServed
  <1>8. owner' # NoCall => calls'[owner'].at \in Live
    BY <1>1, <1>2, CallAssumption DEF WaitersAreServed, TypeOK, Live
  <1>9. WaitersAreServed'
    BY <1>6, <1>7, <1>8 DEF WaitersAreServed, Waiting, Live
  <1> QED
    BY <1>3, <1>4, <1>5, <1>9

LEMMA ApiRefreshedPreserves ==
  ASSUME IInv, ApiRefreshed
  PROVE  IInv'
  <1>1. CASE session' = TRUE /\ Repeat /\ UNCHANGED <<expired, leaving, owner>>
    BY <1>1, RepeatPreserves DEF ApiRefreshed
  <1>2. CASE Settle(Waiting) /\ SessionExpired /\ UNCHANGED sends
    <2>1. Waiting \in SUBSET Calls
      BY DEF Waiting
    <2>2. refreshing' \in SUBSET Refreshers
      BY DEF ApiRefreshed, IInv, TypeOK
    <2>3. session' \in BOOLEAN /\ expired' \in BOOLEAN /\ leaving' \in BOOLEAN
      BY <1>2, SessionTyped DEF IInv
    <2> QED
      BY <1>2, <2>1, <2>2, <2>3, SettlePreserves DEF ApiRefreshed
  <1> QED
    BY <1>1, <1>2 DEF ApiRefreshed

\* What does not touch the calls and keeps api.ts's refresh keeps the invariant.
LEMMA CallsUnchanged ==
  ASSUME IInv, UNCHANGED <<owner, calls, sends, done>>,
         session' \in BOOLEAN, expired' \in BOOLEAN, leaving' \in BOOLEAN,
         refreshing' \in SUBSET Refreshers, "api" \in refreshing => "api" \in refreshing'
  PROVE  IInv'
  BY DEF IInv, TypeOK, Counted, WritesOnce, WaitersAreServed, Waiting

LEMMA ReloadPreserves ==
  ASSUME IInv, Reload
  PROVE  IInv'
  <1> USE DEF IInv
  <1>1. \A c \in Calls : /\ calls'[c] = calls[c] \/ calls'[c] = Fresh("over")
                         /\ calls'[c].at \in {"unmade", "over"}
    BY DEF Reload, Fresh
  <1>2. Fresh("over").at = "over"
    BY DEF Fresh
  <1>3. TypeOK'
    BY FreshTyped DEF Reload, TypeOK
  <1>4. Counted'
    BY <1>1, <1>2 DEF Reload, Counted, Live
  <1>5. WritesOnce'
    BY <1>1, <1>2 DEF Reload, WritesOnce
  <1>6. WaitersAreServed'
    BY <1>1 DEF Reload, WaitersAreServed, Waiting
  <1> QED
    BY <1>3, <1>4, <1>5, <1>6

-----------------------------------------------------------------------------
(* The invariant, and what follows from it.                                *)

LEMMA InitInv == Init => IInv
  <1> SUFFICES ASSUME Init PROVE IInv
    OBVIOUS
  <1>1. \A c \in Calls : calls[c] = Fresh("unmade") /\ calls[c].at = "unmade" /\ sends[c] = 0
    BY DEF Init, Fresh
  <1>2. TypeOK
    <2>1. calls \in [Calls -> Call]
      BY FreshTyped DEF Init
    <2>2. sends \in [Calls -> Nat] /\ done \in [Calls \ Gets -> Nat]
      BY DEF Init
    <2> QED
      BY <2>1, <2>2 DEF Init, TypeOK
  <1>3. Counted
    <2>1. 0 <= 2 * MaxAttempts
      BY AttemptAssumption
    <2> QED
      BY <1>1, <2>1 DEF Counted, Live
  <1>4. WritesOnce
    <2> SUFFICES ASSUME NEW c \in Calls \ Gets
                 PROVE  done[c] = 0 /\ done[c] <= 1 /\ calls[c].at # "backoff"
      BY DEF WritesOnce
    <2>1. done[c] = 0 /\ calls[c].at = "unmade"
      BY <1>1 DEF Init
    <2> QED
      BY <2>1
  <1>5. WaitersAreServed
    BY <1>1 DEF Init, WaitersAreServed, Waiting
  <1> QED
    BY <1>2, <1>3, <1>4, <1>5 DEF IInv

LEMMA NextInv == IInv /\ [Next]_vars => IInv'
  <1> SUFFICES ASSUME IInv, [Next]_vars PROVE IInv'
    OBVIOUS
  <1>1. ASSUME NEW c \in Calls, Make(c) PROVE IInv'
    BY <1>1, MakePreserves
  <1>2. ASSUME NEW c \in Calls, Perform(c) PROVE IInv'
    BY <1>2, PerformPreserves
  <1>3. ASSUME NEW c \in Calls, Answer(c) PROVE IInv'
    <2>1. /\ Settle({c}) /\ leaving' \in BOOLEAN
          /\ UNCHANGED <<session, refreshing, expired, sends, done>>
      BY <1>3 DEF Answer, IInv, TypeOK
    <2> QED
      BY <2>1, SettlePreserves DEF IInv, TypeOK
  <1>4. ASSUME NEW c \in Calls, Deny(c) PROVE IInv'
    <2>1. /\ Settle({c}) /\ UNCHANGED <<refreshing, sends, done>>
          /\ session' \in BOOLEAN /\ expired' \in BOOLEAN /\ leaving' \in BOOLEAN
      BY <1>4, SessionTyped DEF Deny, IInv, TypeOK
    <2> QED
      BY <2>1, SettlePreserves DEF IInv, TypeOK
  <1>5. ASSUME NEW c \in Calls, Expire(c) PROVE IInv'
    BY <1>5, ExpirePreserves
  <1>6. ASSUME NEW c \in Calls, Respond(c) \/ Lose(c) \/ BreakOff(c) PROVE IInv'
    BY <1>6, RespondPreserves, FailPreserves DEF Lose, BreakOff
  <1>7. ASSUME NEW c \in Calls, Resend(c) PROVE IInv'
    BY <1>7, ResendPreserves
  <1>8. CASE ApiRefreshed
    BY <1>8, ApiRefreshedPreserves
  <1>9. ASSUME NEW r \in Refreshers, Refresh(r) \/ Refreshed(r) PROVE IInv'
    <2>1. /\ UNCHANGED <<expired, leaving, owner, calls, sends, done>>
          /\ session' \in BOOLEAN /\ refreshing' \in SUBSET Refreshers
          /\ "api" \in refreshing => "api" \in refreshing'
      BY <1>9 DEF Refresh, Refreshed, IInv, TypeOK, Refreshers
    <2> QED
      BY <2>1, CallsUnchanged DEF IInv, TypeOK
  <1>10. CASE Login \/ Logout
    BY <1>10, CallsUnchanged DEF Login, Logout, IInv, TypeOK
  <1>11. CASE Reload
    BY <1>11, ReloadPreserves
  <1>12. CASE UNCHANGED vars
    BY <1>12, CallsUnchanged DEF vars, IInv, TypeOK
  <1> QED
    BY <1>1, <1>2, <1>3, <1>4, <1>5, <1>6, <1>7, <1>8, <1>9, <1>10, <1>11, <1>12
       DEF Next, Ends, Reads

LEMMA Invariant == Spec => []IInv
  BY InitInv, NextInv, PTL DEF Spec

\* The state of the calls, the map and the session keeps its type.
THEOREM TypeCorrect == Spec => []TypeOK
  <1>1. IInv => TypeOK
    BY DEF IInv
  <1> QED
    BY Invariant, <1>1, PTL

\* A write is carried out at most once and the requests of a call are bounded
\* (the retries of requestWithRetry and its repetition after a refresh).
THEOREM CallsBounded == Spec => []CallsAreBounded
  <1>1. IInv => CallsAreBounded
    BY DEF IInv, Counted, WritesOnce, CallsAreBounded
  <1> QED
    BY Invariant, <1>1, PTL

\* No call joins one that is over or waits for a refresh that is not under way
\* (inFlightRequests and refreshPromise).
THEOREM WaitersServed == Spec => []WaitersAreServed
  <1>1. IInv => WaitersAreServed
    BY DEF IInv
  <1> QED
    BY Invariant, <1>1, PTL

\* Without a session and a refresh under way only a login makes a session.
THEOREM QuietSignOutHolds == Spec => QuietSignOut
  <1>1. ASSUME IInv, [Next]_vars, ~session, refreshing = {}
        PROVE  (~session' /\ refreshing' = {}) \/ Login \/ UNCHANGED vars
    <2> USE <1>1
    <2>1. \A c \in Calls : calls[c].at # "waiting"
      BY DEF IInv, WaitersAreServed, Waiting
    <2>2. ASSUME NEW c \in Calls, Make(c) \/ Perform(c) \/ Ends(c) \/ Reads(c) \/ Resend(c)
          PROVE  ~session' /\ refreshing' = {}
      <3>1. CASE \/ Make(c) \/ Perform(c) \/ Respond(c) \/ Answer(c)
                 \/ Lose(c) \/ BreakOff(c) \/ Resend(c)
        <4>1. UNCHANGED <<session, refreshing>>
          BY <3>1 DEF Make, Perform, Respond, Answer, Lose, BreakOff, Fail, Resend
        <4> QED
          BY <4>1
      <3>2. CASE Deny(c) \/ Expire(c)
        <4>1. UNCHANGED refreshing
          BY <3>2 DEF Deny, Expire
        <4>2. session' = session \/ session' = FALSE
          BY <3>2 DEF Deny, Expire, SessionExpired
        <4> QED
          BY <4>1, <4>2
      <3> QED
        BY <2>2, <3>1, <3>2 DEF Ends, Reads
    <2>3. CASE Logout \/ Reload \/ ApiRefreshed
      BY <2>3 DEF Logout, Reload, ApiRefreshed
    <2>4. ASSUME NEW r \in Refreshers, Refresh(r) \/ Refreshed(r)
          PROVE  FALSE
      BY <2>4 DEF Refresh, Refreshed
    <2> QED
      BY <2>2, <2>3, <2>4 DEF Next
  <1> QED
    BY Invariant, <1>1, PTL DEF Spec, QuietSignOut
=============================================================================
