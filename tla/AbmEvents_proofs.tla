-------------------------- MODULE AbmEvents_proofs --------------------------
(***************************************************************************)
(* Proofs about AbmEvents: the bound on copies, and that every step is one *)
(* of the pipe or changes nothing the pipe shows.  Both need that an event *)
(* is in one place at a time, the buffer or one batch, until it is given   *)
(* up or acknowledged (Owned), and how far its batch has got (Held).       *)
(***************************************************************************)
EXTENDS AbmEvents, TLAPS

\* Every event is in at most one place, and came through track().
Owned ==
    /\ buffer \subseteq tracked /\ GivenUp \subseteq tracked
    /\ \A b \in batches : b.events \subseteq tracked
    /\ \A e \in Events : copies[e] > 0 => e \in tracked
    /\ buffer \cap GivenUp = {}
    /\ \A e \in buffer : copies[e] = 0
    /\ \A b \in batches : b.events \cap buffer = {} /\ b.events \cap GivenUp = {}
    /\ \A b, c \in batches : b # c => b.events \cap c.events = {}

\* The server took the events of b once per attempt at most, and at least
\* once if the last attempt was accepted.
Held(b) ==
    /\ \A e \in b.events :
          /\ copies[e] <= b.attempt + (IF b.at = "sent" THEN 0 ELSE 1)
          /\ b.at = "accepted" => copies[e] > 0
    /\ b.at = "backoff" => b.attempt < MaxRetries

AllHeld == \A b \in batches : Held(b)

IInv == TypeOK /\ Owned /\ AllHeld /\ BoundedCopies

-----------------------------------------------------------------------------
(* The helpers.                                                            *)

LEMMA BatchTyped ==
  ASSUME TypeOK, NEW b \in batches
  PROVE  /\ b \in Batch /\ b.events \in SUBSET Events
         /\ b.attempt \in 0..MaxRetries /\ b.attempt \in Nat /\ MaxRetries \in Nat
  BY BoundAssumption DEF TypeOK, Batch

\* The batch b goes on as the batch c with the same events.
LEMMA GoesOn ==
  ASSUME IInv, NEW b \in batches, NEW c \in Batch, c.events = b.events, Goes(b, {c}), Held(c),
         UNCHANGED <<buffer, tracked, copies, GivenUp>>
  PROVE  batches' \in SUBSET Batch /\ Owned' /\ AllHeld' /\ InBatches' = InBatches
  <1> USE DEF IInv
  <1>1. batches' = (batches \ {b}) \cup {c}
    BY DEF Goes
  <1>2. batches' \in SUBSET Batch
    BY <1>1 DEF TypeOK
  <1>3. Owned'
    BY <1>1 DEF Owned
  <1>4. AllHeld'
    BY <1>1 DEF AllHeld, Held
  <1>5. InBatches' = InBatches
    BY <1>1 DEF InBatches
  <1> QED
    BY <1>2, <1>3, <1>4, <1>5

\* The batch b is over, and its events are given up or delivered.
LEMMA IsOver ==
  ASSUME IInv, NEW b \in batches, Goes(b, {}), UNCHANGED <<buffer, tracked, copies>>,
         GivenUp' \in {GivenUp, GivenUp \cup b.events}
  PROVE  /\ batches' \in SUBSET Batch
         /\ dropped' \in SUBSET Events /\ unsent' \in SUBSET Events
         /\ Owned' /\ AllHeld' /\ InBatches' = InBatches \ b.events
  <1> USE DEF IInv
  <1>1. batches' = batches \ {b}
    BY DEF Goes
  <1>2. /\ batches' \in SUBSET Batch
        /\ dropped' \in SUBSET Events /\ unsent' \in SUBSET Events
    BY <1>1, BatchTyped DEF TypeOK, GivenUp
  <1>3. Owned'
    BY <1>1 DEF Owned
  <1>4. AllHeld'
    BY <1>1 DEF AllHeld, Held
  <1>5. InBatches' = InBatches \ b.events
    BY <1>1 DEF InBatches, Owned
  <1> QED
    BY <1>2, <1>3, <1>4, <1>5

\* A flush moves events from the buffer to a batch, or gives them up.
LEMMA FlushKeeps ==
  ASSUME IInv, NEW full \in SUBSET tracked', Flush(full), UNCHANGED <<copies, dropped>>,
         tracked \subseteq tracked', tracked' \in SUBSET Events,
         full \cap GivenUp = {}, \A e \in full : copies[e] = 0,
         \A b \in batches : b.events \cap full = {}
  PROVE  /\ batches' \in SUBSET Batch /\ flushing' \in BOOLEAN /\ buffer' \in SUBSET Events
         /\ unsent' \in SUBSET Events /\ Owned' /\ AllHeld'
         /\ \/ buffer' \cup InBatches' = full \cup InBatches /\ unsent' = unsent
            \/ buffer' \cup InBatches' = InBatches /\ unsent' = unsent \cup full
  <1> USE DEF IInv
  <1>1. CASE full = {} \/ flushing \/ Stopped
    <2>1. buffer' = full /\ UNCHANGED <<batches, flushing, unsent>>
      BY <1>1 DEF Flush
    <2>2. Owned'
      BY <2>1 DEF Owned, GivenUp
    <2> QED
      BY <2>1, <2>2 DEF TypeOK, AllHeld, Held, InBatches
  <1>2. CASE ~(full = {} \/ flushing \/ Stopped)
    <2> DEFINE n == [events |-> full, attempt |-> 0, at |-> "sent"]
    <2>1. buffer' = {} /\ Send(batches, n)
      BY <1>2 DEF Flush
    <2>2. n \in Batch /\ n.events = full /\ n.attempt = 0 /\ n.at = "sent"
      BY BoundAssumption DEF Batch
    <2> HIDE DEF n
    <2>3. CASE flushing' = TRUE /\ batches' = batches \cup {n} /\ unsent' = unsent
      <3>1. Owned'
        BY <2>1, <2>2, <2>3 DEF Owned, GivenUp
      <3>2. AllHeld'
        BY <2>2, <2>3 DEF AllHeld, Held
      <3>3. InBatches' = full \cup InBatches
        BY <2>2, <2>3 DEF InBatches
      <3> QED
        BY <2>1, <2>2, <2>3, <3>1, <3>2, <3>3 DEF TypeOK
    <2>4. CASE flushing' = TRUE /\ batches' = batches /\ unsent' = unsent \cup n.events
      <3>1. Owned'
        BY <2>1, <2>2, <2>4 DEF Owned, GivenUp
      <3> QED
        BY <2>1, <2>2, <2>4, <3>1 DEF TypeOK, AllHeld, Held, InBatches
    <2> QED
      BY <2>1, <2>3, <2>4 DEF Send
  <1> QED
    BY <1>1, <1>2

\* retryOrDrop() of a batch whose attempt has failed.
LEMMA RetryOrDropKeeps ==
  ASSUME IInv, NEW b \in batches, RetryOrDrop(b), UNCHANGED <<buffer, tracked, copies, unsent>>
  PROVE  /\ batches' \in SUBSET Batch /\ dropped' \in SUBSET Events /\ Owned' /\ AllHeld'
         /\ \/ InBatches' = InBatches /\ dropped' = dropped
            \/ InBatches' = InBatches \ b.events /\ dropped' = dropped \cup b.events
  <1>1. CASE b.attempt >= MaxRetries
    <2>1. Goes(b, {}) /\ dropped' = dropped \cup b.events
      BY <1>1 DEF RetryOrDrop
    <2> QED
      BY <2>1, IsOver DEF GivenUp
  <1>2. CASE ~(b.attempt >= MaxRetries)
    <2> DEFINE c == [b EXCEPT !.at = "backoff"]
    <2>1. Goes(b, {c}) /\ UNCHANGED dropped
      BY <1>2 DEF RetryOrDrop
    <2>2. /\ c \in Batch /\ c.events = b.events /\ c.attempt = b.attempt /\ c.at = "backoff"
          /\ b.attempt \in Nat /\ MaxRetries \in Nat
      <3>1. b \in Batch /\ b.attempt \in Nat /\ MaxRetries \in Nat
        BY BatchTyped DEF IInv
      <3> QED
        BY <3>1 DEF Batch
    <2> HIDE DEF c
    <2>3. Held(c)
      <3>1. ASSUME NEW e \in b.events
            PROVE  copies[e] <= b.attempt + 1
        <4>1. copies[e] <= b.attempt + (IF b.at = "sent" THEN 0 ELSE 1) /\ copies[e] \in Nat
          BY BatchTyped DEF IInv, AllHeld, Held, TypeOK
        <4> QED
          BY <2>2, <4>1
      <3> QED
        BY <1>2, <2>2, <3>1 DEF Held
    <2> QED
      BY <2>1, <2>2, <2>3, GoesOn DEF IInv, TypeOK, GivenUp
  <1> QED
    BY <1>1, <1>2

-----------------------------------------------------------------------------
(* Each action keeps the invariant, and is a step of the pipe or none.     *)

PipeStep == Pipe!PipeNext \/ UNCHANGED Pipe!pipeVars

\* What stays in the buffer or the batches is pending as before.
LEMMA PipeStutters ==
  ASSUME buffer' \cup InBatches' = buffer \cup InBatches, UNCHANGED <<copies, GivenUp>>
  PROVE  PipeStep
  <1>1. UNCHANGED <<Delivered, GivenUp>>
    BY DEF Delivered
  <1> QED
    BY <1>1 DEF PipeStep, Pipe!pipeVars

\* Events that leave the buffer and the batches and are given up.
LEMMA PipeDiscards ==
  ASSUME IInv, NEW G, G \subseteq buffer \cup InBatches, UNCHANGED copies,
         buffer' \cup InBatches' = (buffer \cup InBatches) \ G,
         GivenUp' = GivenUp \cup G
  PROVE  PipeStep
  <1> DEFINE S == G \ Delivered
  <1>1. Delivered' = Delivered
    BY DEF Delivered
  <1>2. Pipe!Discard(S)
    BY <1>1 DEF Pipe!Discard
  <1>3. S \in SUBSET ((buffer \cup InBatches) \ Delivered)
    OBVIOUS
  <1> QED
    BY <1>2, <1>3 DEF PipeStep, Pipe!PipeNext

\* The books of an unchanged buffer.
LEMMA FlushOfBuffer ==
  ASSUME IInv, Flush(buffer), UNCHANGED <<tracked, copies, dropped>>,
         sdk' \in {"node", "react"}, phase' \in {"open", "closing", "closed"}
  PROVE  IInv' /\ PipeStep
  <1> USE DEF IInv
  <1>1. /\ batches' \in SUBSET Batch /\ flushing' \in BOOLEAN /\ buffer' \in SUBSET Events
        /\ unsent' \in SUBSET Events /\ Owned' /\ AllHeld'
        /\ \/ buffer' \cup InBatches' = buffer \cup InBatches /\ unsent' = unsent
           \/ buffer' \cup InBatches' = InBatches /\ unsent' = unsent \cup buffer
    BY FlushKeeps DEF TypeOK, Owned
  <1>2. TypeOK' /\ BoundedCopies'
    BY <1>1 DEF TypeOK, BoundedCopies
  <1>3. CASE buffer' \cup InBatches' = buffer \cup InBatches /\ unsent' = unsent
    BY <1>1, <1>2, <1>3, PipeStutters DEF GivenUp
  <1>4. CASE buffer' \cup InBatches' = InBatches /\ unsent' = unsent \cup buffer
    <2>1. InBatches = (buffer \cup InBatches) \ buffer
      BY DEF InBatches, Owned
    <2> QED
      BY <1>1, <1>2, <1>4, <2>1, PipeDiscards DEF GivenUp
  <1> QED
    BY <1>1, <1>2, <1>3, <1>4

\* An event that was not tracked is nowhere.
LEMMA TrackIsNew ==
  ASSUME IInv, NEW e \in Events, e \notin tracked
  PROVE  e \notin buffer \cup GivenUp /\ e \notin InBatches /\ copies[e] = 0
  <1> USE DEF IInv
  <1>1. ~(copies[e] > 0) /\ copies[e] \in Nat
    BY DEF Owned, TypeOK
  <1>2. copies[e] = 0
    BY <1>1
  <1> QED
    BY <1>2 DEF Owned, InBatches

LEMMA TrackStep ==
  ASSUME IInv, NEW e \in Events, Track(e)
  PROVE  IInv' /\ PipeStep
  <1> USE DEF IInv
  <1>1. /\ e \notin tracked /\ tracked' = tracked \cup {e}
        /\ UNCHANGED <<sdk, phase, copies, dropped>>
    BY DEF Track
  <1>2. /\ e \notin buffer \cup GivenUp /\ e \notin InBatches
        /\ copies[e] = 0 /\ tracked' \in SUBSET Events
    BY <1>1, TrackIsNew DEF TypeOK
  <1> DEFINE full == buffer \cup {e}
  <1>3. /\ full \in SUBSET tracked' /\ full \cap GivenUp = {}
        /\ \A d \in full : copies[d] = 0
        /\ \A b \in batches : b.events \cap full = {}
    BY <1>1, <1>2 DEF Owned, InBatches
  <1>4. /\ batches' \in SUBSET Batch /\ flushing' \in BOOLEAN /\ buffer' \in SUBSET Events
        /\ unsent' \in SUBSET Events /\ Owned' /\ AllHeld'
        /\ \/ buffer' \cup InBatches' = full \cup InBatches /\ unsent' = unsent
           \/ buffer' \cup InBatches' = InBatches /\ unsent' = unsent \cup full
    <2>1. CASE Cardinality(full) >= BufferMax
      <3>1. Flush(full)
        BY <2>1 DEF Track
      <3> QED
        BY <1>1, <1>2, <1>3, <3>1, FlushKeeps
    <2>2. CASE ~(Cardinality(full) >= BufferMax)
      <3>1. buffer' = full /\ UNCHANGED <<batches, flushing, unsent>>
        BY <2>2 DEF Track
      <3>2. Owned'
        BY <1>1, <1>3, <3>1 DEF Owned, GivenUp
      <3> QED
        BY <1>1, <1>2, <1>3, <3>1, <3>2 DEF TypeOK, AllHeld, Held, InBatches
    <2> QED
      BY <2>1, <2>2
  <1>5. TypeOK' /\ BoundedCopies'
    BY <1>1, <1>2, <1>4 DEF TypeOK, BoundedCopies
  <1>6. Delivered' = Delivered /\ e \notin Delivered
    BY <1>1, <1>2 DEF Delivered
  <1>7. CASE buffer' \cup InBatches' = full \cup InBatches /\ unsent' = unsent
    <2>1. Pipe!Accept(e, {})
      BY <1>1, <1>2, <1>6, <1>7 DEF Pipe!Accept, GivenUp
    <2> QED
      BY <1>4, <1>5, <2>1 DEF PipeStep, Pipe!PipeNext
  <1>8. CASE buffer' \cup InBatches' = InBatches /\ unsent' = unsent \cup full
    <2>1. full \cap Delivered = {} /\ full \cap InBatches = {} /\ full \in SUBSET Events
      BY <1>3 DEF Delivered, InBatches, TypeOK
    <2>2. Pipe!Accept(e, full)
      BY <1>1, <1>2, <1>6, <1>8, <2>1 DEF Pipe!Accept, GivenUp
    <2> QED
      BY <1>4, <1>5, <2>1, <2>2 DEF PipeStep, Pipe!PipeNext
  <1> QED
    BY <1>4, <1>7, <1>8

LEMMA TakeStep ==
  ASSUME IInv, NEW b \in batches, Take(b)
  PROVE  IInv' /\ PipeStep
  <1> USE DEF IInv
  <1> DEFINE c == [b EXCEPT !.at = "accepted"]
  <1>1. /\ b.at = "sent" /\ Goes(b, {c})
        /\ copies' = [e \in Events |-> copies[e] + (IF e \in b.events THEN 1 ELSE 0)]
        /\ UNCHANGED <<sdk, buffer, flushing, phase, tracked, dropped, unsent>>
    BY DEF Take
  <1>2. /\ b \in Batch /\ b.events \in SUBSET Events
        /\ b.attempt \in 0..MaxRetries /\ b.attempt \in Nat /\ MaxRetries \in Nat
    BY BatchTyped
  <1>3. c \in Batch /\ c.events = b.events /\ c.attempt = b.attempt /\ c.at = "accepted"
    BY <1>2 DEF Batch
  <1> HIDE DEF c
  <1>4. batches' = (batches \ {b}) \cup {c}
    BY <1>1 DEF Goes
  <1>5. \A e \in b.events : copies'[e] = copies[e] + 1 /\ copies[e] <= b.attempt
                            /\ copies[e] \in Nat
    BY <1>1, <1>2 DEF AllHeld, Held, TypeOK
  <1>6. \A e \in Events \ b.events : copies'[e] = copies[e]
    BY <1>1 DEF TypeOK
  <1>7. TypeOK'
    BY <1>1, <1>3, <1>4 DEF TypeOK
  <1>8. Owned'
    <2>1. \A e \in Events : copies'[e] > 0 => e \in tracked'
      BY <1>1, <1>6 DEF Owned
    <2>2. \A e \in buffer' : copies'[e] = 0
      BY <1>1, <1>6 DEF Owned, TypeOK
    <2> QED
      BY <1>1, <1>3, <1>4, <2>1, <2>2 DEF Owned, GivenUp
  <1>9. AllHeld'
    <2>1. Held(c)'
      BY <1>2, <1>3, <1>5 DEF Held
    <2>2. ASSUME NEW d \in batches, d # b
          PROVE  Held(d)'
      <3>1. d.events \in SUBSET (Events \ b.events)
        BY <2>2, BatchTyped DEF Owned
      <3> QED
        BY <1>6, <3>1 DEF AllHeld, Held
    <2> QED
      BY <1>4, <2>1, <2>2 DEF AllHeld
  <1>10. BoundedCopies'
    <2> SUFFICES ASSUME NEW e \in Events PROVE copies'[e] <= MaxRetries + 1
      BY DEF BoundedCopies
    <2>1. CASE e \in b.events
      BY <1>2, <1>5, <2>1
    <2>2. CASE e \notin b.events
      BY <1>6, <2>2 DEF BoundedCopies
    <2> QED
      BY <2>1, <2>2
  <1>11. PipeStep
    <2> DEFINE S == b.events \ Delivered
    <2>1. InBatches' = InBatches
      BY <1>3, <1>4 DEF InBatches
    <2>2. Delivered' = Delivered \cup b.events
      BY <1>2, <1>5, <1>6 DEF Delivered
    <2>3. b.events \subseteq InBatches /\ b.events \cap GivenUp = {}
      BY DEF InBatches, Owned
    <2>4. Pipe!Deliver(S)
      BY <1>1, <2>1, <2>2, <2>3 DEF Pipe!Deliver, GivenUp
    <2>5. S \in SUBSET ((buffer \cup InBatches) \ Delivered)
      BY <2>3
    <2> QED
      BY <2>4, <2>5 DEF PipeStep, Pipe!PipeNext
  <1> QED
    BY <1>7, <1>8, <1>9, <1>10, <1>11

\* What a failed attempt does, whatever it does to flushing.
LEMMA RetryOrDropStep ==
  ASSUME IInv, NEW b \in batches, RetryOrDrop(b), flushing' \in BOOLEAN,
         UNCHANGED <<sdk, buffer, phase, tracked, copies, unsent>>
  PROVE  IInv' /\ PipeStep
  <1> USE DEF IInv
  <1>1. /\ batches' \in SUBSET Batch /\ dropped' \in SUBSET Events /\ Owned' /\ AllHeld'
        /\ \/ InBatches' = InBatches /\ dropped' = dropped
           \/ InBatches' = InBatches \ b.events /\ dropped' = dropped \cup b.events
    BY RetryOrDropKeeps
  <1>2. TypeOK' /\ BoundedCopies'
    BY <1>1 DEF TypeOK, BoundedCopies
  <1>3. CASE InBatches' = InBatches /\ dropped' = dropped
    BY <1>1, <1>2, <1>3, PipeStutters DEF GivenUp
  <1>4. CASE InBatches' = InBatches \ b.events /\ dropped' = dropped \cup b.events
    <2>1. b.events \subseteq InBatches /\ b.events \cap buffer = {}
      BY DEF InBatches, Owned
    <2>2. buffer' \cup InBatches' = (buffer \cup InBatches) \ b.events
      BY <1>4, <2>1
    <2>3. PipeStep
      BY <1>4, <2>1, <2>2, PipeDiscards DEF GivenUp
    <2> QED
      BY <1>1, <1>2, <2>3
  <1> QED
    BY <1>1, <1>3, <1>4

LEMMA AcknowledgeStep ==
  ASSUME IInv, NEW b \in batches, Acknowledge(b)
  PROVE  IInv' /\ PipeStep
  <1> USE DEF IInv
  <1>1. /\ b.at = "accepted" /\ Goes(b, {}) /\ flushing' = FALSE
        /\ UNCHANGED <<sdk, buffer, phase, tracked, copies, dropped, unsent>>
    BY DEF Acknowledge
  <1>2. batches' \in SUBSET Batch /\ Owned' /\ AllHeld' /\ InBatches' = InBatches \ b.events
    BY <1>1, IsOver DEF GivenUp
  <1>3. TypeOK' /\ BoundedCopies'
    BY <1>1, <1>2 DEF TypeOK, BoundedCopies
  <1>4. Delivered' = Delivered /\ b.events \subseteq Delivered
    BY <1>1, BatchTyped DEF Delivered, AllHeld, Held
  <1>5. UNCHANGED Pipe!pipeVars
    BY <1>1, <1>2, <1>4 DEF Pipe!pipeVars, GivenUp
  <1> QED
    BY <1>2, <1>3, <1>5 DEF PipeStep

\* A batch of node's client that waits for the body of the refusal.
LEMMA RefuseStep ==
  ASSUME IInv, NEW b \in batches, Refuse(b)
  PROVE  IInv' /\ PipeStep
  <1> USE DEF IInv
  <1>1. CASE sdk = "node"
    <2> DEFINE c == [b EXCEPT !.at = "refused"]
    <2>1. /\ b.at \in {"sent", "accepted"} /\ Goes(b, {c}) /\ flushing' = FALSE
          /\ UNCHANGED <<sdk, buffer, phase, tracked, copies, dropped, unsent>>
      BY <1>1 DEF Refuse
    <2>2. b \in Batch /\ b.attempt \in Nat /\ b.events \in SUBSET Events
      BY BatchTyped
    <2>3. c \in Batch /\ c.events = b.events /\ c.attempt = b.attempt /\ c.at = "refused"
      BY <2>2 DEF Batch
    <2> HIDE DEF c
    <2>4. \A e \in b.events : copies[e] <= b.attempt + 1 /\ copies[e] \in Nat
      BY <2>1, <2>2 DEF AllHeld, Held, TypeOK
    <2>5. Held(c)
      BY <2>2, <2>3, <2>4 DEF Held
    <2>6. batches' \in SUBSET Batch /\ Owned' /\ AllHeld' /\ InBatches' = InBatches
      BY <2>1, <2>3, <2>5, GoesOn DEF GivenUp
    <2>7. TypeOK' /\ BoundedCopies'
      BY <2>1, <2>6 DEF TypeOK, BoundedCopies
    <2> QED
      BY <2>1, <2>6, <2>7, PipeStutters DEF GivenUp
  <1>2. CASE sdk # "node"
    BY <1>2, RetryOrDropStep DEF Refuse
  <1> QED
    BY <1>1, <1>2

LEMMA ResendStep ==
  ASSUME IInv, NEW b \in batches, Resend(b)
  PROVE  IInv' /\ PipeStep
  <1> USE DEF IInv
  <1> DEFINE c == [b EXCEPT !.attempt = @ + 1, !.at = "sent"]
  <1>1. /\ b.at = "backoff" /\ Send(batches \ {b}, c)
        /\ UNCHANGED <<sdk, buffer, phase, tracked, copies, dropped>>
    BY DEF Resend
  <1>2. /\ b \in Batch /\ b.attempt \in Nat /\ MaxRetries \in Nat
        /\ b.attempt < MaxRetries /\ b.events \in SUBSET Events
    BY <1>1, BatchTyped DEF AllHeld, Held
  <1>3. b.attempt + 1 \in 0..MaxRetries
    BY <1>2
  <1>4. c \in Batch /\ c.events = b.events /\ c.attempt = b.attempt + 1 /\ c.at = "sent"
    BY <1>2, <1>3 DEF Batch
  <1> HIDE DEF c
  <1>5. CASE flushing' = TRUE /\ Goes(b, {c}) /\ unsent' = unsent
    <2>1. \A e \in b.events : copies[e] <= b.attempt + 1 /\ copies[e] \in Nat
      BY <1>1, <1>2 DEF AllHeld, Held, TypeOK
    <2>2. Held(c)
      BY <1>2, <1>4, <2>1 DEF Held
    <2>3. batches' \in SUBSET Batch /\ Owned' /\ AllHeld' /\ InBatches' = InBatches
      BY <1>1, <1>4, <1>5, <2>2, GoesOn DEF GivenUp
    <2>4. TypeOK' /\ BoundedCopies'
      BY <1>1, <1>5, <2>3 DEF TypeOK, BoundedCopies
    <2> QED
      BY <1>1, <1>5, <2>3, <2>4, PipeStutters DEF GivenUp
  <1>6. CASE flushing' = TRUE /\ Goes(b, {}) /\ unsent' = unsent \cup b.events
    <2>1. GivenUp' = GivenUp \cup b.events
      BY <1>1, <1>6 DEF GivenUp
    <2>2. /\ batches' \in SUBSET Batch /\ unsent' \in SUBSET Events
          /\ Owned' /\ AllHeld' /\ InBatches' = InBatches \ b.events
      BY <1>1, <1>6, <2>1, IsOver
    <2>3. TypeOK' /\ BoundedCopies'
      BY <1>1, <1>6, <2>2 DEF TypeOK, BoundedCopies
    <2>4. b.events \subseteq InBatches /\ b.events \cap buffer = {}
      BY DEF InBatches, Owned
    <2>5. buffer' \cup InBatches' = (buffer \cup InBatches) \ b.events
      BY <1>1, <2>2, <2>4
    <2>6. PipeStep
      BY <1>1, <2>1, <2>4, <2>5, PipeDiscards
    <2> QED
      BY <2>2, <2>3, <2>6
  <1>7. \/ flushing' = TRUE /\ Goes(b, {c}) /\ unsent' = unsent
        \/ flushing' = TRUE /\ Goes(b, {}) /\ unsent' = unsent \cup b.events
    BY <1>1, <1>4 DEF Send, Goes
  <1> QED
    BY <1>5, <1>6, <1>7

-----------------------------------------------------------------------------
(* The invariant, and what follows from it.                                *)

LEMMA InitInv == Init => IInv /\ Pipe!PipeInit
  <1> SUFFICES ASSUME Init PROVE IInv /\ Pipe!PipeInit
    OBVIOUS
  <1>1. TypeOK
    BY DEF Init, TypeOK
  <1>2. Owned /\ AllHeld
    BY DEF Init, Owned, AllHeld, GivenUp
  <1>3. BoundedCopies
    BY BoundAssumption DEF Init, BoundedCopies
  <1>4. InBatches = {} /\ Delivered = {} /\ GivenUp = {}
    BY DEF Init, InBatches, Delivered, GivenUp
  <1> QED
    BY <1>1, <1>2, <1>3, <1>4 DEF IInv, Pipe!PipeInit, Init

LEMMA NextStep == IInv /\ [Next]_vars => IInv' /\ PipeStep
  <1> SUFFICES ASSUME IInv, [Next]_vars PROVE IInv' /\ PipeStep
    OBVIOUS
  <1>1. ASSUME NEW e \in Events, Track(e) PROVE IInv' /\ PipeStep
    BY <1>1, TrackStep
  <1>2. CASE Tick \/ Close \/ CloseAgain
    <2>1. /\ Flush(buffer) /\ UNCHANGED <<sdk, tracked, copies, dropped>>
          /\ phase' \in {phase, "closing", "closed"}
      BY <1>2 DEF Tick, Close, CloseAgain
    <2> QED
      BY <2>1, FlushOfBuffer DEF IInv, TypeOK
  <1>3. CASE CloseEnds \/ UNCHANGED vars
    <2>1. /\ UNCHANGED <<sdk, buffer, batches, flushing, tracked, copies, dropped, unsent>>
          /\ phase' \in {phase, "closed"}
      BY <1>3 DEF CloseEnds, vars
    <2>2. IInv'
      BY <2>1 DEF IInv, TypeOK, Owned, AllHeld, Held, BoundedCopies, GivenUp
    <2> QED
      BY <2>1, <2>2, PipeStutters DEF InBatches, GivenUp
  <1>4. ASSUME NEW b \in batches, Take(b) PROVE IInv' /\ PipeStep
    BY <1>4, TakeStep
  <1>5. ASSUME NEW b \in batches, Acknowledge(b) PROVE IInv' /\ PipeStep
    BY <1>5, AcknowledgeStep
  <1>6. ASSUME NEW b \in batches, Refuse(b) PROVE IInv' /\ PipeStep
    BY <1>6, RefuseStep
  <1>7. ASSUME NEW b \in batches, ReadRefusal(b) \/ Lose(b) PROVE IInv' /\ PipeStep
    <2>1. /\ RetryOrDrop(b) /\ flushing' \in BOOLEAN
          /\ UNCHANGED <<sdk, buffer, phase, tracked, copies, unsent>>
      BY <1>7 DEF ReadRefusal, Lose, IInv, TypeOK
    <2> QED
      BY <2>1, RetryOrDropStep
  <1>8. ASSUME NEW b \in batches, Resend(b) PROVE IInv' /\ PipeStep
    BY <1>8, ResendStep
  <1> QED
    BY <1>1, <1>2, <1>3, <1>4, <1>5, <1>6, <1>7, <1>8 DEF Next, Progress

LEMMA Invariant == Spec => []IInv
  BY InitInv, NextStep, PTL DEF Spec

\* The buffer, the batches in flight and the history keep their types.
THEOREM TypeCorrect == Spec => []TypeOK
  <1>1. IInv => TypeOK
    BY DEF IInv
  <1> QED
    BY Invariant, <1>1, PTL

\* The server takes an event at most once per attempt of one batch
\* (sendBatchWithRetry), whatever overtakes what.
THEOREM CopiesBounded == Spec => []BoundedCopies
  <1>1. IInv => BoundedCopies
    BY DEF IInv
  <1> QED
    BY Invariant, <1>1, PTL

\* The buffer with its batches implements the pipe: no event leaves them that
\* the server has not and that was not given up, and none is pending again.
THEOREM PipeImplemented == Spec => ImplementsPipe
  <1>1. IInv /\ [Next]_vars => [Pipe!PipeNext]_(Pipe!pipeVars)
    BY NextStep DEF PipeStep
  <1> QED
    BY InitInv, Invariant, <1>1, PTL DEF Spec, ImplementsPipe, Pipe!PipeSpec
=============================================================================
