# FeatureSignals in TLA+

This directory models the core of FeatureSignals (`src/server`, a Go API server on
PostgreSQL that evaluates feature flags) and of the TypeScript clients that depend on it (the
Node and React SDKs and the dashboard), checks the models with TLC and proves the most
important properties with TLAPS. Paths below are relative to `src/server/internal` unless
they start with `docs/`, `product/`, `cmd/`, `sdks/` or `dashboard/`; the last two are below `src/`.
`PROJECT.json` lists the runs, the definitions with the lines they model, the hazards, the findings
and the theorems.

    tlc -config RulesetCache.cfg RulesetCache    # a run (see the table of runs)
    tlapm RulesetCache_proofs.tla                # a proof module

## 1. The system

| Component | State | Operations | Talks to | What is hard | What makes it correct |
|---|---|---|---|---|---|
| Ruleset cache and invalidator (`store/cache/inmemory.go`, `store/postgres/invalidator.go`) | a map of rulesets per process; the LISTEN connection and its loop; handler goroutines | load, store, invalidate, subscribe, reconnect, close | PostgreSQL (queries, NOTIFY), SSE server, webhooks | loads of several queries race with handlers, handlers with each other; a load leaves rows out; notifications are lost while disconnected | a stale entry always has an explanation; who is told of a change can see it; what is not lost is dropped |
| Flag states (`api/handlers/flags.go`, `store/postgres/console.go`) | one row of `flag_states` per flag and environment | update, kill, promote, sync, ship | PostgreSQL, audit log | all but Ship read a row and write it back whole; a read that fails is taken for no row | a write undoes no more than what it did not know |
| Scheduler (`scheduler/scheduler.go`) | an advisory lock; the list of a tick | tick; hourly clean-ups | PostgreSQL | servers compete, die within a tick, or lose the lock's connection | ticks exclude each other; a due schedule is applied in the end |
| Approvals (`api/handlers/approval.go`, `domain/approval.go`) | `approval_requests` | create, review | flag states | a review is five calls and no transaction | four eyes; `applied` means written |
| Evaluation (`eval/`) | none: a ruleset and a user give a result | evaluate one flag, all flags | the cache | prerequisites over a graph that may be cyclic, groups, rollouts | exclusion, prerequisites, monotone rollouts, locality |
| Flag and segment API (`api/handlers/flags.go`, `segments.go`) | `flags`, `segments` | create, update, archive, restore, pause, delete | the trigger on `flag_states` | any sequence of legal edits | as for evaluation |
| Credits (`store/postgres/credit_store.go`) | balances, purchases, consumptions, monthly grants | consume, purchase, grant | janitor, billing | retries, overlapping calls, calls that break off | conservation; one charge per key |
| SSE server (`sse/server.go`), console hub (`sse/hub.go`, `sse/client.go`) | client sets, a bounded buffer per client | connect, disconnect, broadcast | cache, SDKs, browsers | the set changes while a broadcast walks it; full buffers | a client that misses a version does so at a known point |
| Node SDK (`sdks/node/src/client.ts`) | the flag map, readiness, a poll timer or a stream | refresh, poll, follow the stream, close | evaluation API, SSE server | overlapping refreshes, reconnects, lines that wait for refreshes | polling catches up in the end; a stream's version is missed at known points only; a closed client is quiet |
| ABM clients (`sdks/node/src/abm/client.ts`, `sdks/react/src/abm/context.tsx`) | a buffer of events, batches in retry; a cache of resolutions | track, flush, retry, drop, close; resolve | ABM API | batches overlap and share a flag; a timeout after the server took a batch | no event is lost or counted without bound; where one may stay is known |
| Dashboard's API client (`dashboard/src/lib/api.ts`, `components/auth-guard.tsx`, `stores/app-store.ts`) | the session, one refresh for all, requests in flight | call, retry, join, refresh, sign in and out | API | three refreshers of one session; 401s in any order | calls settle unless a body or the refresh never ends, writes happen once, a signed-out page stays so |
| Dashboard's live console (`dashboard/src/hooks/use-console-websocket.ts`, `stores/console-store.ts`) | refs to one socket and one timer, the status | connect, reconnect, retry, unmount | console hub, session | chains of reconnects beside each other | what the status claims is backed by a socket or a chain; the hook connects or gives up |
| Webhooks (`webhook/`) | a bounded queue, workers, attempts | notify, deliver, retry, stop | flag changes, the network | full queue, retries, shutdown | bounded retries; nothing delivered after stop |
| Event emitters (`eval/event_emitter.go`, `events/`) | bounded buffers, batches | emit, flush, close | ClickHouse, Redis | close against late senders; retries | no event is counted twice; close flushes |
| Audit log (`store/postgres/store.go`, `domain/audit.go`) | a hash chain per organisation | append, verify | every handler | the last hash is read and extended without a lock | the chain does not fork |
| Workflow engine (`workflow/dag_engine.go`) | runs of node states | activate, execute, complete, fail | steps | several callers advance one run | a node runs after its predecessors |
| Relay (`cmd/relay/main.go`) | a copy of an environment's flags | poll, stream, serve | the API | overlapping syncs | the copy does not go back |
| Keys and tokens (`store/postgres/store.go`) | API keys with grace periods, one-time tokens | rotate, revoke, consume, clean up | authentication | rotation against use; two uses of one token | one use; a revoked key stays out |
| Organisation lifecycle (`lifecycle/`, `scheduler/scheduler.go`) | trial, plan, deletion marks | downgrade, soft and hard delete, restore | every table | clean-up against restore | what was restored is not deleted |
| The rest: janitor, agents and governance, authentication, billing, SSO, mailers, metrics, other SDKs, pages of the user interfaces, website, deployment | | | | mostly I/O around external services, or presentation | |

How they interact. An evaluation (`api/handlers/eval.go`) asks the cache for a ruleset, which
loads it from PostgreSQL with three queries when it has none. Handlers, the scheduler and
approvals write `flag_states`; its trigger notifies every server that LISTENs; each server
deletes its entry, then tells SSE clients and webhooks, which come back for new values. An SDK
client refreshes on each event, or polls. The dashboard calls the API with a session that three
parts of it refresh, and shows what the console's hub sends. Every
handler also appends to the audit log. Credits are consumed by the janitor and refilled by
purchases and monthly grants.

## 2. Modules

**`RulesetCache.tla`** models `Cache` and `PGInvalidator` of each server and the loads in
flight. Row contents are abstracted to a version per row, which is all that staleness is about;
of segments, which notify nobody, there is only the query that a load makes of them. `cache`, `listening`, `conn`, `closed` are the fields of the two types;
`wire` is what is on the LISTEN connection, `invalidating` and `announcing` are the handler
goroutines before and after their `delete`; `loads` are the calls of `LoadRuleset` by the query
they are at. Handlers run in goroutines of their own, so they overtake each other; a load that
was overtaken stores its old ruleset all the same. The reads do not ask `rows.Err()`, so each
delivers any part of its rows (`ReadFlags`, `ReadStates`), and `Joined` drops the
states of flags that were not read, a flag created between the queries among them. `lost`,
`announced`, and in a ruleset `raced` and `left` (the states that the load left out, with their
versions), are history. There is one action per kind of database commit (`EditState`, `EditFlag`
and `DeleteFlag`, which deletes states by cascade), per step of
`listenLoop`/`listenOnce`, per half of the handler, per query of the load, and one for a
restart. `PGInvalidator.Invalidate` has no caller, and the path of the cache without an
invalidator is not wired in `cmd/server/main.go`: both are left out.

**`FlagStates.tla`** models the rows of one flag in each environment and those who write them.
`UpdateState`, `Kill` and `Promote` (also one flag of `SyncEnvironments`) read what they need
and hold an edit; `Commit` is the upsert of the whole row; `Ship` is one UPDATE in place. The
scheduler's tick is `TryLock`, `List`, then `Apply` and `Audit` per row, then `Unlock`;
`Crash` and `LockConnLost` are the two ways it loses the lock. `UpdateState` and `Kill` take any
error of their read for "there is no row" and go on from a blank one: `ReadRow` is the row or a
blank one. `wanted` (what was last asked for each field), `stale` (the fields in which a write in
preparation does not hold the row's value, because the read failed or the row was written since),
`mixed` (the fields of a row that such a write has undone) and `lockLost` are ghosts. The lock is the session's: it goes with the process or with its
connection, while the writes go over other connections.

**`Approvals.tla`** EXTENDS `FlagStates` and adds approval requests and the reviews in flight:
`Decide` (read, `ProcessDecision`; one person may have several calls in flight), `SaveDecision`, `ApplyChange` or `ApplyRefused`,
`MarkApplied`, and `ReviewFails` anywhere between. Applying a change is the same `Upsert` as
the other writers', so requests, edits and the scheduler interleave.

**`EvalEngine.tla`** models `eval/engine.go` as operators: `Refusal` is the gates before the
prerequisites, `Prerequisites` the walk with its shared map of visited flags (a recursive
function, which asks a flag's prerequisites with `AskInOrder` and each of them with `Ask`), `WinsMutexGroup` the group, `Serve` rules, rollout, variants and default. Keys are
numbers in lexicographic order; a bucket per flag stands for murmur3, the set of conditions the
user meets for the operators of conditions; values are on, off, other text or JSON null. The
state machine around them is the API's edits of flags, states and segments. `Closure`, of the
properties, is what a set of flags leads to by prerequisites: the least closed set around it.

**`CreditLedger.tla`** models the tables of one organisation. A transaction is one step at its
commit, since its UPDATE holds the row of the balance; the look-up of the idempotency key and
the two statements of a grant are steps of their own. `answered` and `credited` are history.

**`FlagSync.tla`** models the stream server and the Node client together. A ruleset is a version;
`committed` is the one in the database. `Publish` is the stream's server handling the notification
of the next one, which evicts its cached ruleset and then broadcasts; `PublishUnheard` is a notification it
never gets. A refresh is answered (`Answer`) with any version from `oldest` on: the ruleset may come from a cache
that an overtaken load filled, or that lacks what its load left out (`RulesetCache`, where
`AnnouncedIsVisible` names both), or from another server behind the balancer that has not evicted
yet; `CatchUp` is the last of those evicting. `Visit` is one
turn of the broadcast's loop over the live map, `events` the channel of a client, `wire` the
connection, `lines` what is left of a chunk, `fetch` the refreshes of a client by who asked. A
client's `conn` is broken by either side, and what was on the wire may arrive or not. `listens`
are the clients whose program has a listener for `error`: without one `emitError` throws, which
ends the loop of the stream when it happens within it (`ConnectFails`, `Notice`, `FailUnheard`).
`Restart` is a new server process, which may be ahead of what was announced. `missed` is history: the
versions a client lost at one of the points where the code loses them (full buffer, no
connection, failed refresh, answer from an older ruleset, older answer last, notification not heard,
restart, end of the loop). How long a client backs off, and the
order of events within one buffer, are abstracted; every event leads to the same refresh. Two things are
left out: that a rejection nobody handles ends a Node process by default, and listeners of `update`
and `ready` that throw.

**`EventPipe.tla`** is the abstract specification of what `track()` promises: an event is
pending until the server has it or it is given up, never both. **`AbmEvents.tla`** is the event
half of both ABM clients (`sdk` says which) and implements it, with the mapping `pending` = in the
buffer or a batch and not yet with the server. A request the client gives up on after the server took it
is `Take` and then `Lose`; React's `close()` waits for the flag `flushing` and then refuses
everything, Node's returns. `Send` is a request or, in Node's client, a `JSON.stringify` that throws
after the buffer was emptied: those events are `unsent`, a way of being given up. `ReadRefusal` is the
body of a refusal, which no timeout bounds.

**`ApiSession.tla`** models one page of the dashboard: calls with the loop of
`requestWithRetry`, the map of GETs in flight, the refresh that api.ts shares between its calls,
those of the guard and of the socket, and the stored session that all of them write. A token is present or
absent, and whether the server takes it, calls it expired or refuses it is its choice at every
request; all GETs are for one path. A request has its headers (`Respond`, after which its timer is
cleared) before its body (`Answer`, `Deny`, `Expire`, `BreakOff`). `Reload` is a new page with the same store.

**`ConsoleLive.tla`** models the console's hook. A chain is a call of `connect()` and what follows
from it; chains that a retry overtakes go on beside the new one, while the refs `ws` and `timer` point at
the last socket and the last timer only. Delays are abstracted, and a refresh leaves a token in the
store (without one, line 210 would end the chain with no timer).

The **`MC*.tla`** modules give the constants that a .cfg cannot write. Definitions marked as
faulty variants in the modules are used by no behaviour: each is a plausible bug, and
`PROJECT.json` names the property it breaks when it replaces the definition it varies.

## 3. Runs

| Run | Instance | Distinct states | What it shows |
|---|---|---|---|
| `ruleset_cache` | 1 server, 1 environment, 1 flag, 2 requests, 2 commits to its state, 1 to it | 690 000 | `StaleIsExplained`, `AnnouncedIsVisible`; live: `StaleIsDropped`, `InvalidationIsAnnounced` |
| `flag_states` | 2 environments, 2 editors, 2 servers, 2 edits, schedules at time 1 | 96 000 | `LastRequestHolds`, `OneTickAtATime`; live: `DueIsApplied` |
| `approvals` | 1 request, 3 people, 2 calls, 1 edit, 1 server, 1 failure | 297 000 | `FourEyes`, `AppliedWasWritten`, and `LastRequestHolds` again |
| `approvals_flow` | a payload with its organisation | | finding 1 |
| `eval_engine` | 3 flags, 1 group, 1 segment, 5 edits | 296 000 | `OneFlagPerGroup`, `ServedNeedsPrerequisites`, `CyclesAreOff`, `RampKeepsUsers`, `EditsAreLocal` |
| `eval_prerequisites` | 4 flags, a diamond | | finding 2 |
| `credit_ledger` | 2 bearers, 2 callers, 2 grant calls, 1 key and the empty key, 2 periods | 283 000 | `Conserved`, `ChargedOnce`, `AnsweredIsCharged` |
| `flag_sync` | 1 client that polls or streams, with a listener or none, 2 polls in flight, a buffer of 1, a wire of 2, 4 versions | 360 000 | `StreamAccounts`; live: `PollingCatchesUp`, `StreamingCatchesUp`, `ClosedGoesQuiet` |
| `abm_events` | either client, 3 events, a threshold of 2, 2 retries | 286 000 | `BoundedCopies`, the refinement `ImplementsPipe`; live: `EventsSettle` |
| `api_session` | 2 GETs and 1 write, 2 attempts, 3 refreshers | 172 000 | `CallsAreBounded`, `WaitersAreServed`, `QuietSignOut`; live: `EveryCallSettles` |
| `console_live` | 4 chains, 5 failures, 2 clicks on Retry | 191 000 | `ClaimsAreBacked`; live: `KeepsTrying` |
| `console_unmount` | the same | | finding 3 |

Why the bounds are enough. *RulesetCache*: servers share only the database, and environments
only the project's tables, so one of each shows everything a server does; two requests give a
load that is overtaken beside one that is not, and two commits give handlers out of order and a
ruleset that contains the first commit and lacks the second; the flag may be there from the start
or be created between two queries, and rows do not meet each other in the code, so one flag shows what
happens to each. The theorems cover any number.
*FlagStates*: two editors are the smallest lost update, two servers the smallest contest for the
lock, two environments a promotion; one unit of time separates a schedule from its hour.
*Approvals*: three people are a requestor and two reviewers who disagree; one failure cuts one
review anywhere; two calls are two reviewers, or one who submits twice. *EvalEngine*: three flags hold every chain, fork and cycle up to three and a
tie in a group beside a winner; five edits reach them from an empty project; the buckets make
two flags tie and a rollout admit one flag first and all later. *CreditLedger*: two callers with
one key are the race on the key, two grant calls the race on a grant; two bearers make a grant
stop between bearers, the second having no units; every bearer's row is independent of the
others'. Bounds on counters (`MaxStates`, `MaxFlags`, `MaxEdits`, `MaxTime`, `MaxFailures`,
`MaxBought`) are in the guards of what they bound. *FlagSync*: clients share nothing but the
broadcast's loop, so one client that may be of either kind shows what happens to each; a buffer of one
is full at the second event, a wire of two gives a chunk of two lines, two polls overtake each
other, and four versions fill buffer, wire and chunk at once. *AbmEvents*: three events and a
threshold of two give two batches in flight or backoff beside a buffer that is not empty; two
retries give a first, a middle and a last attempt. *ApiSession*: two GETs are an owner and one
that joins, or two in turn, and the write is refused or expires beside them. *ConsoleLive*: the
failures are the code's five; two clicks with the mount and its effect give four chains, beyond
which chains only repeat the roles of a current one and of an overtaken one. Deadlock is
checked for CreditLedger, FlagSync and ApiSession; the other instances stop when their bounded
edits are used up, the client is closed and its events are settled, or the hook is unmounted.

Fairness. `RulesetCache`: a live LISTEN connection delivers and a started goroutine runs to its
end (WF of `Receive`, `Invalidate`, `Announce`); nothing is assumed of reconnects, loads or
edits. `FlagStates`: tickers fire and a tick goes on (WF of `TryLock`, `Audit`, `Unlock`), and a
store asked at every tick does not fail every time (SF of `List` and `Apply`); servers may die
in every tick that does not get that far, and edits need not end. `FlagSync`: goroutines and the event loop run, the poll
timer fires, every refresh ends because `refresh()` keeps its timeout until the body is read (WF of `Settle`), and the network
does not lose every poll (SF of the poll timer's `Answer` and `Apply`); nothing is assumed of the
stream's connection, which may break for ever, nor of the servers that answer with old rulesets.
`AbmEvents`: timers fire, and a request gets a status or is aborted; the server may refuse everything, and
the body of a refusal, read after its timeout was cleared, need not end, so nothing is assumed of
`ReadRefusal`: `EventsSettle` names the places where an event may stay (`Stays`). `ApiSession`:
`executeFetch` aborts what has no headers after 30 seconds, and timers fire; the timer is cleared when the headers are
there, and the shared refresh has none, so nothing is assumed of bodies and of the refresh, and
`EveryCallSettles` excludes the calls that one of them holds for ever (`Held`). `ConsoleLive`: timers fire, handshakes and refreshes end, React runs the
effect of a click; an open socket need never close.

## 4. Findings

Each is a run whose property quotes the repository and fails.

1. *Reviews overtake each other.* Two reviews past the pending check take a request from
   rejected to approved, or from applied to rejected
   (`docs/docs/advanced/approval-workflows.md:56`: "Only pending requests can be reviewed").
2. *A shared prerequisite counts as a cycle.* In a diamond of prerequisites that are all on, the
   second branch finds the flag visited (`eval/engine.go:85`);
   `docs/docs/core-concepts/prerequisites.md:47-51` has no such case. Of trees of prerequisites it
   is true (`TreesAreAsDocumented`).
3. *Unmounting the console can leave a socket open.* A retry closes the old socket and starts a
   chain of its own; the old socket's `onclose` finds the hook mounted and reconnects as well.
   Each chain overwrites `wsRef`, and the cleanup closes the one it finds there
   (`dashboard/src/hooks/use-console-websocket.ts:13-14`: "connects on mount, disconnects on
   unmount").

Observations the models show or rest on, without a run of their own.

The server:

- *Changes to flags and segments notify nobody.* Only `flag_states` has the trigger
  (`000001_init_schema.up.sql:158`), so a cached ruleset keeps an old flag or segment until a state
  of its environment changes (`docs/docs/architecture/evaluation-engine.md:103`: "when any flag,
  state, or segment changes"). The states that a deleted flag takes along do notify.
- *An update writes fields it was not asked for.* It upserts the whole row it read, so the second
  of two updates puts the first one's field back
  (`docs/docs/api-reference/flag-state.md:68`: "only provided fields are updated"). What can be
  undone is bounded: `LastRequestHolds`.
- *A cycle of prerequisites is no error.* The map of visited flags breaks it, and the flags of the
  cycle evaluate to their defaults; `docs/docs/core-concepts/prerequisites.md:58` says "no explicit
  cycle detection and will hit the Go stack limit, returning an error". `CyclesAreOff` is about
  what the code does: such flags are never served.
- *A rollout of 0 serves everybody.* At 0 no bucket is asked and evaluation falls through to the
  state's on-value (`eval/engine.go:143`, `169`), so raising 0 to p takes the flag from users
  (`docs/docs/core-concepts/percentage-rollouts.mdx:17,22`, and `targeting-and-segments.mdx:103`:
  "If nothing matches: return flag's default value"; `feature-flags.md:66,68` agrees with the code).
  `RampKeepsUsers` is about rollouts that are more than 0 before.
- A read of a flag state that fails for any reason is taken for "there is no row", and the fields that
  were not asked for are reset (`flags.go:439`, `632`); a query of a load that breaks off is cached as a
  complete ruleset (`store.go:1490`).
- The audit entry of a scheduled toggle (`docs/docs/advanced/scheduling.md:24`) is refused by the
  table, since it has no organisation and an actor type outside the CHECK, and the error is dropped
  (`scheduler.go:153`).
- With the payload of `docs/docs/advanced/approval-workflows.md:29-32` an approved change has no
  organisation, is refused and stays approved (line 16: "automatically applied").
- An archived flag is served as before; `docs/docs/GLOSSARY.md:61` says it returns its default.
- A monthly grant that broke off between its row and its credits stays half done, and the repeat
  skips it (`credit_store.go:420`, against "Idempotent", `domain/credits.go:127`); nothing in the
  repository calls the grant yet.
- `IsListening` becomes true only after `Subscribe` has returned nil, so never while it listens; a
  partial update of a flag clears its group (`flags.go:294`, against
  `docs/docs/api-reference/flags.md:129`); a default
  value of true, or one that is not a boolean, makes a failed prerequisite pass, which is why
  `ServedNeedsPrerequisites` assumes defaults that are off; an organisation can consume without a key
  only once, because '' is a key for the unique index; the comment at `credit_store.go:232` says an
  UPDATE is committed that is rolled back.
- The console's hub walks its pools without the lock and changes them in place, though the
  comment at `sse/hub.go:143` says they are copied on write; its `readPump` closes the channel of
  a client that is still in the pool (`sse/client.go:325`).

The clients:

- *The stream is given up without a listener.* `emit('error')` throws when the program has none,
  which ends `sseLoop` from within its own `catch` (`sdks/node/src/client.ts:439`, `462`, `510`);
  nothing starts it again (`sdks/node/README.md:37`: "automatic reconnection"). In the model this is
  `FailUnheard`, and what is announced after it is `missed`.
- *close() leaves events behind.* A flush does nothing while a batch is in flight, and the timer is
  gone (`sdks/node/src/abm/client.ts:351`: "Flushes any pending events"; React's client is the
  same). `Stays` names them.
- *An open socket is shown as not connected.* `onclose` of any socket writes the hook's status
  (`use-console-websocket.ts:241`), also when another socket is open and delivers
  (`product/wiki/public/CONSOLE_ARCHITECTURE.md:83`: "WebSocket connection state"). The other
  direction, that what the bar claims is so, holds: `ClaimsAreBacked`.
- The stream's reconnect fetches nothing, and a refresh that failed is not repeated, so a streaming
  client may stay behind until the next change; the versions concerned are those in `missed`.
- `ready` is emitted by the refreshes of the constructor and of the poll timer only: a streaming client
  whose first refresh fails has flags after the first event and is never ready
  (`sdks/node/src/client.ts:57`: "emitted once after the first successful flag fetch").
- For as long as a batch is in flight the buffer of the ABM clients grows past its 256 events. Metadata
  that JSON cannot hold throws after the buffer was emptied and leaves the flag set
  (`abm/client.ts:281-284`): no flush does anything until another batch's end clears it.
- A full cache of resolutions evicts its oldest entry also to overwrite one it has
  (`abm/client.ts:47`), and a resolution asked for before `invalidateCache()` is stored after it.
- A refresh that ends after a sign-out or another login puts its own session back (`api.ts:119`);
  the guard signs out on a failed refresh though another refresher succeeded (`auth-guard.tsx:42`);
  a GET joins one that another user's token made, since the key is method and path (`api.ts:244`).
- A WebSocket error counts twice, in `onerror` and in `onclose`, so three failed connections in a
  row reach the five of `MAX_FAILED_ATTEMPTS`; a refresh that succeeds sets the count to zero, so a
  clock that takes every token for expired keeps the hook refreshing for ever (`KeepsTrying` leaves
  those chains out).

## 5. Proofs

Eight modules, checked for every value of the constants, under the ASSUMEs of the modules they
extend (ranges of the constants, and that the modelled requests are well formed; TLC evaluates
them in the runs). Every invariant and every action property of the runs that pass has its
theorem. Most proofs are an inductive invariant `IInv`: `Init => IInv`,
`IInv /\ [Next]_vars => IInv'`, and the property follows.

- `RulesetCache_proofs`: `TypeCorrect`, `StalenessExplained`, `AnnouncedVisible`.
  `StaleIsExplained` alone is not inductive: the ruleset that will be cached is in the hands of a
  load first (`LoadIsExplained`), which has read some of its tables and not yet joined them. That a broadcast change is visible needs that a notification
  is in one place at a time (`Apart`) and never precedes its commit (`Committed`).
- `Approvals_proofs`, about the rows and the scheduler (`FlagStates`) first: `TypeCorrect`,
  `LastRequestWins`, `TicksExclude`. An edit in flight agrees with the row on every field it was
  not asked for and that is not stale (`AllPrepared`); a server within a tick holds the lock or
  lost its session (`HoldsLock`). Then, on top of those, about the approvals:
  `ApprovalTypeCorrect`, `FourEyesHold`, `AppliedIsWritten`, `ApprovalsKeepRequests`. At most one
  write per saved approval is a count: the writes of a request and the reviews that have saved an
  approval and not written yet are no more than the approvals saved (`Counted`), and none of these
  is the requestor's (`NotOwn`, `Saved`).
- `EvalEngine_proofs`: see below.
- `CreditLedger_proofs`: `TypeCorrect`, `CreditsConserved`, `KeysChargedOnce`,
  `AnswersAreCharged`. What a call is about to credit was recorded and not credited, by any call
  (`GrantsInOrder`); the sums are over finite sets (`Finite`).
- `FlagSync_proofs`: `TypeCorrect`, `StreamAccountsHold`. `StreamAccounts` is inductive with the
  types; the proof follows one version through the places it can be in, and `Keeps` says of a step that
  no version leaves them all.
- `AbmEvents_proofs`: `TypeCorrect`, `CopiesBounded`, `PipeImplemented`. Batches are disjoint from
  each other, from the buffer and from what was dropped, so an event has one batch, and it was taken at most
  once per attempt made so far. Each step maps to a step of the pipe or leaves it alone.
- `ApiSession_proofs`: `TypeCorrect`, `CallsBounded`, `WaitersServed`, `QuietSignOutHolds`. A call was
  sent at most as often as its own loop says, plus one loop if it was repeated; a call that joined
  names an owner that is still at work, and a waiting one the refresh.
- `ConsoleLive_proofs`: `TypeCorrect`, `ClaimsHold`. A socket that closes after the unmount leaves
  the status alone, so the status must say nothing by then (`SilentUnmounted`); of each helper it
  is shown that the chain that calls it goes on, or the hook gives up (`Moved`).

**Evaluation.** What `EvalEngine` promises is a property of each ruleset (its invariants) or of
two that are one edit apart (its action properties), so the types are all that is needed of the
history, and all the work is in the algorithm.

- `GroupsExclude`: of two served flags of a group neither beats the other, and the order on
  buckets and keys is total.
- *The walk.* `Prerequisites` is a recursive function over a graph that may be cyclic. Each flag
  asked is new to the map of visited flags, so fewer are left at each call (`RestShrinks`), and
  what holds of a walk if it holds of all it goes on to holds of every walk (`WalkInduction`,
  from the well-founded order of the naturals). The equation that defines `Prerequisites` has a
  solution, built for walks with less than n flags left, n by n (`WalkExists`); so does that of
  `AskInOrder` (`FiniteRecursion`).
- `PrerequisitesHold`: a walk that is met with `visited` is met with any less of it, and visits
  no more (`NoWorse`). The walk of a served flag asked each prerequisite with some flags visited;
  evaluated by itself, with none visited, the prerequisite is no worse.
- `CyclesStayOff`: the flags behind a walk that is met are none that it had visited
  (`LeadsAway`); a flag on a cycle is behind itself. Both assume defaults that are off, as their
  properties do: another default makes a failed prerequisite pass.
- `TreesAreAsDocumented`: of a tree of prerequisites a walk visits nothing but the tree, and it
  finds the same whatever was visited outside of it (`Alike`, with two walks `Abreast`). So the
  documentation holds for every ruleset without cycles and shared prerequisites, whatever the
  defaults; `eval_prerequisites` shows the smallest shared one it does not hold for.
- `EditsStayLocal`, `RampsKeepUsers`: before and after an edit that leaves alone the gates, the
  prerequisites and the outcomes of a closed set of flags, their walks are the same
  (`SameWalks`). Of an edit far from a flag this set is the closure of the flag, which is the
  same after the edit as before. Of a ramp it is all flags, except that the outcome of the ramped
  flag may change, which its own walk never asks for, having visited it first.
- `WeightsAreShares`: weights that add up to 100% (`domain/validate.go:189`) are exact shares of
  the buckets. `EveryFlagAnswers`: every flag gives a value, so no walk, rule or variant is missing.

Only model-checked: the liveness properties (`StaleIsDropped`, `InvalidationIsAnnounced`,
`DueIsApplied`, `PollingCatchesUp`, `StreamingCatchesUp`, `ClosedGoesQuiet`, `EventsSettle`,
`EveryCallSettles`, `KeepsTrying`), whose fairness needs ENABLED, which the provers do not
handle; and the three runs that end in a violation. `WeightsAreShares`, `EveryFlagAnswers` and
`TreesAreAsDocumented` are only proved: the first quantifies over what a small instance cannot
hold, the others need no run beside the ones above.

## 6. Not modelled

Of the modelled components: the hourly clean-ups of the scheduler; cloning, importing and seeding
of environments, which write rows of new flags; rolling a flag back to a version; validation of
requests and permissions; a flag's `expires_at`, which no writer sets; the operators of conditions
and the hash function; more than 12 rules of one priority, whose order `sort.Slice` does not keep;
the second UPDATE of Ship, of `flags.stage`; the connection pool, from which a refused consumption
takes a second connection while it holds one (`credit_store.go:196`); the typed getters, the anomaly
detector and the lengths of backoffs of the Node client; the caches of resolutions of the ABM
clients; whose session a token belongs to; the events the console receives.

Components without a model: the console's hub, webhooks, the server's event emitters, the audit
log, the workflow engine, the relay, API keys and tokens, the lifecycle of organisations (whose
final deletion does not look again at what the list said, `scheduler.go:262`), the janitor, agents
and governance, sign-up and billing. Their hazards are in the table of section 1, and those that bite at
a line of their own in `PROJECT.json`. The other SDKs repeat the protocol of the Node client. Most of
the repository's TypeScript is pages of the dashboard, the operations portal and the website: they
render what the modelled clients fetch and send what the user enters, and were not modelled for that
reason. Mailers, metrics
and deployment have no protocol of their own.
