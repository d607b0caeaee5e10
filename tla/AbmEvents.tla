----------------------------- MODULE AbmEvents -----------------------------
(***************************************************************************)
(* The event half of the Agent Behavior Mesh clients of the Node SDK       *)
(* (sdks/node/src/abm/client.ts) and of the React SDK                      *)
(* (sdks/react/src/abm/context.tsx): a buffer that a timer, a threshold or *)
(* close() flushes in batches, and batches that are retried with backoff   *)
(* and dropped after the last retry.  The cache of resolutions is separate.*)
(*                                                                         *)
(* An event is opaque; a batch is the set of events it was spliced from    *)
(* the buffer with.  A request that fails after the server took its events *)
(* is accepted first and then refused, on the way back, or lost.           *)
(***************************************************************************)
EXTENDS Naturals, FiniteSets

CONSTANTS
    Events,       \* events the program may track
    BufferMax,    \* BUFFER_MAX_SIZE (256 in the code)
    MaxRetries    \* length of RETRY_BACKOFF_MS (3 in the code)

ASSUME BoundAssumption == BufferMax \in Nat \ {0} /\ MaxRetries \in Nat

VARIABLES
    sdk,          \* which of the two clients this is
    buffer,       \* eventBuffer
    batches,      \* calls of sendBatchWithRetry that are not over
    flushing,     \* flushing
    phase,        \* open; closing: React's close() waits; closed
    tracked,      \* history: events the client took
    copies,       \* history: how often the server took each event
    dropped,      \* history: events of batches given up after the last attempt
    unsent        \* history: events of batches no request could be made of

vars == <<sdk, buffer, batches, flushing, phase, tracked, copies, dropped, unsent>>

Batch == [events : SUBSET Events, attempt : 0..MaxRetries,
          at : {"sent", "accepted", "refused", "backoff"}]

TypeOK ==
    /\ sdk \in {"node", "react"}
    /\ buffer \in SUBSET Events
    /\ batches \in SUBSET Batch
    /\ flushing \in BOOLEAN
    /\ phase \in {"open", "closing", "closed"}
    /\ tracked \in SUBSET Events
    /\ copies \in [Events -> Nat]
    /\ dropped \in SUBSET Events /\ unsent \in SUBSET Events

Init ==
    /\ sdk \in {"node", "react"}
    /\ buffer = {} /\ batches = {} /\ flushing = FALSE /\ phase = "open"
    /\ tracked = {} /\ copies = [e \in Events |-> 0]
    /\ dropped = {} /\ unsent = {}

\* React's client does nothing more once it is closed.
Stopped == sdk = "react" /\ phase = "closed"

\* sendBatchWithRetry() of the batch b beside the batches others.  Node's
\* events carry metadata of the program, of which JSON.stringify may throw:
\* then no request starts, and nothing clears the flag or sends b again.
Send(others, b) ==
    /\ flushing' = TRUE
    /\ \/ batches' = others \cup {b} /\ UNCHANGED unsent
       \/ sdk = "node" /\ batches' = others /\ unsent' = unsent \cup b.events

\* Variant: a flush that finds another one in flight loses its events.
FlushLosing(full) ==
    /\ buffer' = {}
    /\ IF full = {} \/ flushing \/ Stopped
       THEN UNCHANGED <<batches, flushing, unsent>>
       ELSE Send(batches, [events |-> full, attempt |-> 0, at |-> "sent"])

\* flushBuffer() with the buffer held by full.
Flush(full) ==
    IF full = {} \/ flushing \/ Stopped
    THEN buffer' = full /\ UNCHANGED <<batches, flushing, unsent>>
    ELSE buffer' = {} /\ Send(batches, [events |-> full, attempt |-> 0, at |-> "sent"])

\* The batch b goes on as one of the batches next, or is over.
Goes(b, next) == batches' = (batches \ {b}) \cup next

\* Variant: one attempt too many.
RetryOrDropLate(b) ==
    IF b.attempt > MaxRetries
    THEN Goes(b, {}) /\ dropped' = dropped \cup b.events
    ELSE Goes(b, {[b EXCEPT !.at = "backoff"]}) /\ UNCHANGED dropped

\* retryOrDrop(): the timer of the next attempt, or the batch is dropped.
RetryOrDrop(b) ==
    IF b.attempt >= MaxRetries
    THEN Goes(b, {}) /\ dropped' = dropped \cup b.events
    ELSE Goes(b, {[b EXCEPT !.at = "backoff"]}) /\ UNCHANGED dropped

-----------------------------------------------------------------------------
\* track() and trackBatch() push every event and flush a full buffer.
Track(e) ==
    /\ e \notin tracked /\ ~Stopped
    /\ tracked' = tracked \cup {e}
    /\ IF Cardinality(buffer \cup {e}) >= BufferMax
       THEN Flush(buffer \cup {e})
       ELSE buffer' = buffer \cup {e} /\ UNCHANGED <<batches, flushing, unsent>>
    /\ UNCHANGED <<sdk, phase, copies, dropped>>

\* The interval timer fires.
Tick ==
    /\ phase = "open"
    /\ Flush(buffer)
    /\ UNCHANGED <<sdk, phase, tracked, copies, dropped>>

\* close() stops the timer and flushes once.  React's goes on to wait.
Close ==
    /\ phase = "open"
    /\ phase' = IF sdk = "react" THEN "closing" ELSE "closed"
    /\ Flush(buffer)
    /\ UNCHANGED <<sdk, tracked, copies, dropped>>

\* Node's close() may be called again.
CloseAgain ==
    /\ sdk = "node" /\ phase = "closed" /\ buffer # {}
    /\ Flush(buffer)
    /\ UNCHANGED <<sdk, phase, tracked, copies, dropped>>

\* React's close() sees flushing cleared, or has waited 50 times.
CloseEnds ==
    /\ phase = "closing"
    /\ phase' = "closed"
    /\ UNCHANGED <<sdk, buffer, batches, flushing, tracked, copies, dropped, unsent>>

-----------------------------------------------------------------------------
\* The server takes the events of a request.
Take(b) ==
    /\ b \in batches /\ b.at = "sent"
    /\ copies' = [e \in Events |-> copies[e] + (IF e \in b.events THEN 1 ELSE 0)]
    /\ Goes(b, {[b EXCEPT !.at = "accepted"]})
    /\ UNCHANGED <<sdk, buffer, flushing, phase, tracked, dropped, unsent>>

\* Variant: a success does not clear flushing.
AcknowledgeHolds(b) ==
    /\ b \in batches /\ b.at = "accepted"
    /\ Goes(b, {})
    /\ UNCHANGED <<sdk, buffer, flushing, phase, tracked, copies, dropped, unsent>>

\* The 202 arrives.
Acknowledge(b) ==
    /\ b \in batches /\ b.at = "accepted"
    /\ flushing' = FALSE
    /\ Goes(b, {})
    /\ UNCHANGED <<sdk, buffer, phase, tracked, copies, dropped, unsent>>

\* Another status arrives, of the server or of a proxy before it, which clears
\* the timeout.  Node's client reads the body before it goes on.
Refuse(b) ==
    /\ b \in batches /\ b.at \in {"sent", "accepted"}
    /\ flushing' = FALSE
    /\ IF sdk = "node"
       THEN Goes(b, {[b EXCEPT !.at = "refused"]}) /\ UNCHANGED dropped
       ELSE RetryOrDrop(b)
    /\ UNCHANGED <<sdk, buffer, phase, tracked, copies, unsent>>

ReadRefusal(b) ==
    /\ b \in batches /\ b.at = "refused"
    /\ RetryOrDrop(b)
    /\ UNCHANGED <<sdk, buffer, flushing, phase, tracked, copies, unsent>>

\* The request fails or times out, before the server took it or after.
Lose(b) ==
    /\ b \in batches /\ b.at \in {"sent", "accepted"}
    /\ flushing' = FALSE
    /\ RetryOrDrop(b)
    /\ UNCHANGED <<sdk, buffer, phase, tracked, copies, unsent>>

\* Variant: the attempt is not counted.
ResendUncounted(b) ==
    /\ b \in batches /\ b.at = "backoff"
    /\ Send(batches \ {b}, [b EXCEPT !.at = "sent"])
    /\ UNCHANGED <<sdk, buffer, phase, tracked, copies, dropped>>

\* The timer of the next attempt fires; close() does not clear it.
Resend(b) ==
    /\ b \in batches /\ b.at = "backoff"
    /\ Send(batches \ {b}, [b EXCEPT !.attempt = @ + 1, !.at = "sent"])
    /\ UNCHANGED <<sdk, buffer, phase, tracked, copies, dropped>>

-----------------------------------------------------------------------------
\* What the end of a request or of a backoff does.
Progress(b) == Acknowledge(b) \/ Refuse(b) \/ Lose(b) \/ Resend(b)

Next ==
    \/ \E e \in Events : Track(e)
    \/ Tick \/ Close \/ CloseAgain \/ CloseEnds
    \/ \E b \in batches : Take(b) \/ Progress(b) \/ ReadRefusal(b)

\* The timers fire, and every request has an answer's status or ends, because
\* a timeout aborts it; no answer of the server is assumed.  Nothing aborts the
\* body of a refusal, so that ReadRefusal is not among what must happen.
Fairness ==
    /\ WF_vars(Tick)
    /\ WF_vars(CloseEnds)
    /\ WF_vars(\E b \in batches : Progress(b))

Spec == Init /\ [][Next]_vars /\ Fairness

-----------------------------------------------------------------------------
\* Properties.

InBatches == UNION {b.events : b \in batches}
Delivered == {e \in Events : copies[e] > 0}
GivenUp   == dropped \cup unsent

\* The clients implement the pipe: an event that is neither in the buffer nor
\* in a batch is with the server or was given up, and it left the pipe once.
Pipe == INSTANCE EventPipe WITH
    pending   <- (buffer \cup InBatches) \ Delivered,
    delivered <- Delivered,
    discarded <- GivenUp \ Delivered

ImplementsPipe == Pipe!PipeSpec

\* Batches that overtake each other, answers that are lost after the server
\* took the events, retries: an event never reaches the server more often than
\* one batch has attempts.
BoundedCopies == \A e \in Events : copies[e] <= MaxRetries + 1

\* Where an event may stay for ever: in the buffer of a closed client, in the
\* buffer behind the flag that a batch of unsent events has left set, or in a
\* batch that waits for the body of a refusal.
Stays(e) ==
    \/ e \in buffer /\ (phase = "closed" \/ (flushing /\ unsent # {}))
    \/ \E b \in batches : e \in b.events /\ b.at = "refused"

\* Every tracked event is delivered or given up in the end, also when batches
\* fail in any order and share the flag, unless it stays for ever at one of
\* those three places.
EventsSettle ==
    \A e \in Events :
        (e \in tracked ~> e \in Delivered \cup GivenUp) \/ <>[]Stays(e)

=============================================================================
