------------------------------ MODULE FlagSync ------------------------------
(***************************************************************************)
(* How a flag change reaches a program that uses the Node SDK: the stream  *)
(* server of the API (server/internal/sse/server.go) and the client that   *)
(* polls or follows the stream (sdks/node/src/client.ts).                  *)
(*                                                                         *)
(* The rulesets are abstracted to their versions.  A version is committed, *)
(* and then the stream's server handles its notification: it evicts its    *)
(* cached ruleset and tells the clients; or it never hears of it.  Until   *)
(* then, and longer where a load was overtaken (RulesetCache) or another   *)
(* server behind the load balancer has not evicted yet, a refresh may be   *)
(* answered with an older version.  A refresh replaces the whole flag map, *)
(* so the map is the version it was answered with.                         *)
(***************************************************************************)
EXTENDS Integers, FiniteSets

CONSTANTS
    Clients,      \* SDK clients of one environment
    Polls,        \* refreshes the poll timer may have in flight at once
    BufferSize,   \* capacity of Client.events (64 in the code)
    WireSize,     \* bound: events written to a connection and not yet read
    MaxVersion    \* bound: versions of the environment's ruleset

\* Who called refresh(): the constructor, the stream, or the poll timer.
Slots == {"first", "stream"} \cup Polls

Idle     == -1    \* a slot without a refresh
Asked    == 0     \* the request is sent and not answered yet
NoFlags  == 0     \* the flag map before the first fetch
Versions == 1..MaxVersion

ASSUME SlotAssumption == Polls \cap {"first", "stream"} = {}
ASSUME BoundAssumption ==
    /\ MaxVersion \in Nat \ {0}
    /\ BufferSize \in Nat /\ WireSize \in Nat

VARIABLES
    streaming,   \* the clients made with the option streaming: true
    listens,     \* the clients whose program listens to their 'error' event
    committed,   \* the version in the database
    version,     \* the last version whose notification was handled or lost
    oldest,      \* the oldest version a refresh may be answered with
    broadcasts,  \* BroadcastFlagUpdate calls in their loop over the clients
    events,      \* events[c]: Client.events of c's registration
    wire,        \* wire[c]: written to c's connection, not read by c
    conn,        \* conn[c]: the stream as connectSSE of c sees it
    lines,       \* lines[c]: flag-update lines left in the chunk c reads
    fetch,       \* fetch[c][s]: refreshes of c, Idle, Asked or the answer
    flags,       \* FeatureSignalsClient.flags
    ready,       \* FeatureSignalsClient._ready
    closed,      \* FeatureSignalsClient.closed
    missed       \* history: versions c was not told of, or lost afterwards

options == <<streaming, listens>>
rulesets == <<committed, version, oldest>>
serverVars == <<rulesets, broadcasts>>
streamVars == <<events, wire, conn, lines>>
clientVars == <<fetch, flags, ready, closed>>
vars == <<options, serverVars, streamVars, clientVars, missed>>

\* A broadcast of a version and the clients its loop has not come to.
Broadcast == [ver : Versions, todo : SUBSET Clients]

TypeOK ==
    /\ streaming \in SUBSET Clients
    /\ listens \in SUBSET Clients
    /\ committed \in Versions /\ version \in 1..committed /\ oldest \in 1..version
    /\ broadcasts \in SUBSET Broadcast
    /\ events \in [Clients -> SUBSET Versions]
    /\ wire \in [Clients -> SUBSET Versions]
    /\ conn \in [Clients -> {"down", "up", "broken", "ended"}]
    /\ lines \in [Clients -> SUBSET Versions]
    /\ fetch \in [Clients -> [Slots -> {Idle, Asked} \cup Versions]]
    /\ flags \in [Clients -> {NoFlags} \cup Versions]
    /\ ready \in [Clients -> BOOLEAN]
    /\ closed \in [Clients -> BOOLEAN]
    /\ missed \in [Clients -> SUBSET Versions]

\* The constructor has called refresh() and started the timer or the loop.
Init ==
    /\ streaming \in SUBSET Clients
    /\ listens \in SUBSET Clients
    /\ committed = 1 /\ version = 1 /\ oldest = 1
    /\ broadcasts = {}
    /\ events = [c \in Clients |-> {}]
    /\ wire = [c \in Clients |-> {}]
    /\ conn = [c \in Clients |-> "down"]
    /\ lines = [c \in Clients |-> {}]
    /\ fetch = [c \in Clients |-> [s \in Slots |-> IF s = "first" THEN Asked ELSE Idle]]
    /\ flags = [c \in Clients |-> NoFlags]
    /\ ready = [c \in Clients |-> FALSE]
    /\ closed = [c \in Clients |-> FALSE]
    /\ missed = [c \in Clients |-> {}]

\* What c has missed when it is not told of some versions, or loses them.
\* Only the clients that follow the stream are told of any.
Missing(c, versions) ==
    IF c \in streaming THEN missed[c] \cup (versions \ 1..flags[c]) ELSE {}

Miss(c, versions) == missed' = [missed EXCEPT ![c] = Missing(c, versions)]

-----------------------------------------------------------------------------
\* Variants of actions with a plausible mistake; a property notices each.

PublishTooMany ==
    /\ version <= committed
    /\ version' = version + 1
    /\ UNCHANGED <<options, committed, oldest, broadcasts, streamVars, clientVars, missed>>

\* A line is taken as handled while some refresh is in flight.
HandleLineSkips(c) ==
    /\ \E v \in lines[c] : lines' = [lines EXCEPT ![c] = @ \ {v}]
    /\ fetch' = IF \A s \in Slots : fetch[c][s] = Idle
                THEN [fetch EXCEPT ![c]["stream"] = Asked] ELSE fetch
    /\ UNCHANGED <<options, serverVars, events, wire, conn, flags, ready, closed, missed>>

\* The timer is cleared when the client becomes ready.
PollUntilReady(c, p) ==
    /\ c \notin streaming /\ ~closed[c] /\ ~ready[c] /\ fetch[c][p] = Idle
    /\ fetch' = [fetch EXCEPT ![c][p] = Asked]
    /\ UNCHANGED <<options, serverVars, streamVars, flags, ready, closed, missed>>

\* Events are written in pairs.
ForwardPairs(c) ==
    /\ conn[c] = "up" /\ Cardinality(wire[c]) < WireSize /\ Cardinality(events[c]) > 1
    /\ \E v \in events[c] :
          /\ events' = [events EXCEPT ![c] = @ \ {v}]
          /\ wire' = [wire EXCEPT ![c] = @ \cup {v}]
    /\ UNCHANGED <<options, serverVars, conn, lines, clientVars, missed>>

\* The loop does not look at closed.
ConnectAgain(c) ==
    /\ c \in streaming /\ conn[c] = "down"
    /\ conn' = [conn EXCEPT ![c] = "up"]
    /\ UNCHANGED <<options, serverVars, events, wire, lines, clientVars, missed>>

-----------------------------------------------------------------------------
\* The server.

\* A row of flag_states is written.
Commit ==
    /\ committed < MaxVersion
    /\ committed' = committed + 1
    /\ UNCHANGED <<options, version, oldest, broadcasts, streamVars, clientVars, missed>>

\* The handler of a notification evicts the ruleset and calls
\* BroadcastFlagUpdate, which takes the map of clients under the read lock.
Publish ==
    /\ version < committed
    /\ version' = version + 1
    /\ broadcasts' = broadcasts \cup
                        {b \in {[ver |-> version + 1, todo |-> streaming]} : b.todo # {}}
    /\ UNCHANGED <<options, committed, oldest, streamVars, clientVars, missed>>

\* The stream's server was not listening when the notification was sent.
PublishUnheard ==
    /\ version < committed
    /\ version' = version + 1
    /\ missed' = [c \in Clients |-> Missing(c, {version + 1})]
    /\ UNCHANGED <<options, committed, oldest, broadcasts, streamVars, clientVars>>

\* The last server with a ruleset this old evicts it, or is replaced.
CatchUp ==
    /\ oldest' \in (oldest + 1)..version
    /\ UNCHANGED <<options, committed, version, broadcasts, streamVars, clientVars, missed>>

\* The loop comes to the entry of c, or ends without one: the map is the
\* live one, read without the lock, so what counts is whether c is in it now.
Visit(b, c) ==
    /\ b \in broadcasts /\ c \in b.todo
    /\ broadcasts' = (broadcasts \ {b}) \cup
                        {rest \in {[b EXCEPT !.todo = @ \ {c}]} : rest.todo # {}}
    /\ \/ /\ conn[c] = "up" /\ Cardinality(events[c]) < BufferSize
          /\ events' = [events EXCEPT ![c] = @ \cup {b.ver}]
          /\ UNCHANGED missed
       \/ /\ conn[c] # "up" \/ Cardinality(events[c]) >= BufferSize
          /\ Miss(c, {b.ver})
          /\ UNCHANGED events
    /\ UNCHANGED <<options, rulesets, wire, conn, lines, clientVars>>

\* HandleStream writes the next event to the connection; Flush waits while
\* the connection takes nothing more.
Forward(c) ==
    /\ conn[c] = "up" /\ Cardinality(wire[c]) < WireSize
    /\ \E v \in events[c] :
          /\ events' = [events EXCEPT ![c] = @ \ {v}]
          /\ wire' = [wire EXCEPT ![c] = @ \cup {v}]
    /\ UNCHANGED <<options, serverVars, conn, lines, clientVars, missed>>

\* The process ends and another takes its place with an empty cache, which
\* loads what was committed in the meantime.  A deployment does this, and so
\* does the runtime when addClient or removeClient changes the map under the
\* loop of a broadcast, or closes the channel the loop is about to send on.
Restart ==
    /\ \E v \in version..committed :
          /\ version' = v
          /\ missed' = [c \in Clients |->
                           Missing(c, events[c] \cup (version + 1)..v
                             \cup {b.ver : b \in {x \in broadcasts : c \in x.todo}})]
    /\ broadcasts' = {}
    /\ events' = [c \in Clients |-> {}]
    /\ conn' = [c \in Clients |-> IF conn[c] = "up" THEN "broken" ELSE conn[c]]
    /\ UNCHANGED <<options, committed, oldest, wire, lines, clientVars>>

\* GET /v1/client/{env}/flags is evaluated with the ruleset a server has in
\* its cache, or with one it loads, which may be ahead of its notification.
\* Nothing tells the client that the answer is older than what it was told.
Answer(c, s) ==
    /\ fetch[c][s] = Asked
    /\ \E v \in oldest..committed :
          /\ fetch' = [fetch EXCEPT ![c][s] = v]
          /\ Miss(c, (v + 1)..version)
    /\ UNCHANGED <<options, serverVars, streamVars, flags, ready, closed>>

-----------------------------------------------------------------------------
\* The stream.

\* connectSSE: the server registers the client, answers and sends the
\* "connected" event, which the client takes no notice of.
Connect(c) ==
    /\ c \in streaming /\ ~closed[c] /\ conn[c] = "down"
    /\ conn' = [conn EXCEPT ![c] = "up"]
    /\ UNCHANGED <<options, serverVars, events, wire, lines, clientVars, missed>>

\* fetch() fails or is refused.  The loop emits the error, which throws when
\* nobody listens: it leaves the loop, and sseLoop() is not called again.
ConnectFails(c) ==
    /\ c \in streaming \ listens /\ ~closed[c] /\ conn[c] = "down"
    /\ conn' = [conn EXCEPT ![c] = "ended"]
    /\ UNCHANGED <<options, serverVars, events, wire, lines, clientVars, missed>>

\* The connection is lost and removeClient throws the channel away.  What was
\* on the wire may have reached the client, or not.
Break(c) ==
    /\ conn[c] = "up"
    /\ conn' = [conn EXCEPT ![c] = "broken"]
    /\ events' = [events EXCEPT ![c] = {}]
    /\ \E kept \in SUBSET wire[c] :
          /\ wire' = [wire EXCEPT ![c] = kept]
          /\ Miss(c, events[c] \cup (wire[c] \ kept))
    /\ UNCHANGED <<options, serverVars, lines, clientVars>>

\* reader.read() is called again when every line of the last chunk is done.
Reading(c) == lines[c] = {} /\ fetch[c]["stream"] = Idle

ReadChunk(c) ==
    /\ conn[c] \in {"up", "broken"} /\ Reading(c) /\ wire[c] # {}
    /\ lines' = [lines EXCEPT ![c] = wire[c]]
    /\ wire' = [wire EXCEPT ![c] = {}]
    /\ UNCHANGED <<options, serverVars, events, conn, clientVars, missed>>

\* read() ends and connectSSE returns, or it fails and connectSSE throws: the
\* loop backs off, unless the client is closed or nobody listens to the error.
Notice(c) ==
    /\ conn[c] = "broken" /\ Reading(c) /\ wire[c] = {}
    /\ \/ ~closed[c] /\ conn' = [conn EXCEPT ![c] = "down"]
       \/ (closed[c] \/ c \notin listens) /\ conn' = [conn EXCEPT ![c] = "ended"]
    /\ UNCHANGED <<options, serverVars, events, wire, lines, clientVars, missed>>

\* A data: line after event: flag-update.  The refresh is awaited.
HandleLine(c) ==
    /\ fetch[c]["stream"] = Idle
    /\ \E v \in lines[c] : lines' = [lines EXCEPT ![c] = @ \ {v}]
    /\ fetch' = [fetch EXCEPT ![c]["stream"] = Asked]
    /\ UNCHANGED <<options, serverVars, events, wire, conn, flags, ready, closed, missed>>

-----------------------------------------------------------------------------
\* refresh(), the poll timer and close().

\* The timer of startPolling fires; an earlier poll may still be in flight.
Poll(c, p) ==
    /\ c \notin streaming /\ ~closed[c] /\ fetch[c][p] = Idle
    /\ fetch' = [fetch EXCEPT ![c][p] = Asked]
    /\ UNCHANGED <<options, serverVars, streamVars, flags, ready, closed, missed>>

\* The answer arrives in time: whatever it says replaces the flags, and the
\* constructor's and the timer's refreshes mark the client ready.
Apply(c, s) ==
    /\ fetch[c][s] \in Versions
    /\ flags' = [flags EXCEPT ![c] = fetch[c][s]]
    /\ ready' = [ready EXCEPT ![c] = @ \/ s # "stream"]
    /\ fetch' = [fetch EXCEPT ![c][s] = Idle]
    /\ missed' = [missed EXCEPT ![c] = IF c \notin streaming THEN {} ELSE
                    (@ \ 1..fetch[c][s]) \cup (fetch[c][s] + 1)..flags[c]]
    /\ UNCHANGED <<options, serverVars, streamVars, closed>>

\* The request fails, times out or is refused; the error is emitted and
\* nothing is tried again.  What the emission throws when nobody listens ends
\* as an unhandled rejection, if it was not a line that asked.
Fail(c, s) ==
    /\ fetch[c][s] # Idle /\ (s # "stream" \/ c \in listens)
    /\ fetch' = [fetch EXCEPT ![c][s] = Idle]
    /\ Miss(c, (flags[c] + 1)..version)
    /\ UNCHANGED <<options, serverVars, streamVars, flags, ready, closed>>

\* The refresh of a line fails and nobody listens: what the emission throws
\* leaves connectSSE, and then the loop, with all that was not read yet.
FailUnheard(c) ==
    /\ fetch[c]["stream"] # Idle /\ c \notin listens
    /\ fetch' = [fetch EXCEPT ![c]["stream"] = Idle]
    /\ Miss(c, (flags[c] + 1)..version)
    /\ conn' = [conn EXCEPT ![c] = "ended"]
    /\ events' = [events EXCEPT ![c] = {}]
    /\ wire' = [wire EXCEPT ![c] = {}]
    /\ lines' = [lines EXCEPT ![c] = {}]
    /\ UNCHANGED <<options, serverVars, flags, ready, closed>>

\* close() stops the timer and aborts the stream's request.  A refresh under
\* way is not aborted, nor is the chunk that is being worked off.
Close(c) ==
    /\ ~closed[c]
    /\ closed' = [closed EXCEPT ![c] = TRUE]
    /\ conn' = [conn EXCEPT ![c] = IF @ = "up" THEN "broken" ELSE @]
    /\ events' = [events EXCEPT ![c] = {}]
    /\ wire' = [wire EXCEPT ![c] = {}]
    /\ UNCHANGED <<options, serverVars, lines, fetch, flags, ready, missed>>

-----------------------------------------------------------------------------

Settle(c, s) == Apply(c, s) \/ Fail(c, s) \/ (s = "stream" /\ FailUnheard(c))

Next ==
    \/ Commit \/ Publish \/ PublishUnheard \/ CatchUp \/ Restart
    \/ \E c \in Clients :
          \/ \E b \in broadcasts : Visit(b, c)
          \/ Forward(c) \/ Connect(c) \/ ConnectFails(c) \/ Break(c) \/ ReadChunk(c)
          \/ Notice(c) \/ HandleLine(c) \/ FailUnheard(c) \/ Close(c)
          \/ \E p \in Polls : Poll(c, p)
          \/ \E s \in Slots : Answer(c, s) \/ Apply(c, s) \/ Fail(c, s)

\* Goroutines and the event loop run, the timer fires, every request ends
\* because refresh() keeps its timeout until the body is read, and the network
\* does not lose every poll.
Fairness ==
    /\ \A c \in Clients :
          /\ WF_vars(\E b \in broadcasts : Visit(b, c))
          /\ WF_vars(Forward(c)) /\ WF_vars(ReadChunk(c))
          /\ WF_vars(Notice(c)) /\ WF_vars(HandleLine(c))
          /\ \A s \in Slots : WF_vars(Settle(c, s))
          /\ WF_vars(\E p \in Polls : Poll(c, p))
          /\ SF_vars(\E p \in Polls : Answer(c, p))
          /\ SF_vars(\E p \in Polls : Apply(c, p))

Spec == Init /\ [][Next]_vars /\ Fairness

-----------------------------------------------------------------------------
\* Properties.

\* Version n is still on its way to c: a broadcast has not come to c, an
\* event or a line will trigger a refresh, or a refresh will bring it.
OnItsWay(c, n) ==
    \/ \E b \in broadcasts : b.ver = n /\ c \in b.todo
    \/ n \in events[c] \cup wire[c] \cup lines[c]
    \/ \E s \in Slots : fetch[c][s] = Asked \/ fetch[c][s] >= n

\* A client that follows the stream has every version, or the version is on
\* its way, or it was lost at one of the points where the code gives it up: no
\* connection, a full buffer, a failed refresh, an answer from an older
\* ruleset, an older answer that arrives last, a notification the server did
\* not hear, a restart, the end of the loop.  No other interleaving of the
\* broadcast's loop, buffer, wire, chunk and refreshes loses one.
StreamAccounts ==
    \A c \in streaming : ~closed[c] =>
        \A n \in 1..version : n <= flags[c] \/ OnItsWay(c, n) \/ n \in missed[c]

\* A polling client ends up with a version no older than the oldest ruleset a
\* server still answers with, which is the last one when all have caught up:
\* no refresh that overlapped, failed or was answered late leaves it behind.
PollingCatchesUp ==
    \A c \in Clients :
        <>[](c \in streaming \/ closed[c] \/ flags[c] \in oldest..committed)

\* A streaming client that missed nothing ends up with all that was announced:
\* no event waits for ever in a buffer, on a wire, in a chunk or behind a
\* refresh.
StreamingCatchesUp ==
    \A c \in Clients : <>[](\/ c \notin streaming \/ closed[c] \/ missed[c] # {}
                             \/ flags[c] \in version..committed)

\* After close() the client stops asking: what was in flight and the lines of
\* the chunk being read end, and no timer or loop starts anything again.
ClosedGoesQuiet ==
    \A c \in Clients : <>[](closed[c] =>
        /\ conn[c] \in {"down", "ended"} /\ lines[c] = {}
        /\ \A s \in Slots : fetch[c][s] = Idle)

=============================================================================
