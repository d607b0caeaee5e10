---------------------------- MODULE RulesetCache ----------------------------
(***************************************************************************)
(* The evaluation cache of the Go server (store/cache/inmemory.go), the    *)
(* LISTEN/NOTIFY invalidator it subscribes to                              *)
(* (store/postgres/invalidator.go) and the multi-query ruleset loader      *)
(* (store/postgres/store.go, LoadRuleset).                                 *)
(*                                                                         *)
(* Flags belong to the project, a flag state to a flag and an environment. *)
(* Row contents are abstracted to a version per row, which counts the      *)
(* commits; 0 is a row not yet there.  A commit to segments notifies       *)
(* nobody, and no other row depends on one: of segments there is only the  *)
(* query that a load makes of them.                                        *)
(***************************************************************************)
EXTENDS Naturals, FiniteSets

CONSTANTS
    Servers,     \* server processes, each with its own cache and LISTEN loop
    Envs,        \* environments
    Flags,       \* ids of flags, which are never used again
    Requests,    \* evaluation requests that may be in flight at once
    NoRuleset,   \* the nil a map lookup returns on a miss
    MaxStates,   \* bound: commits to one row of flag_states, its deletion included
    MaxFlags     \* bound: commits to one row of flags before it is deleted

\* A notification of the flag_state_change trigger.  The version is ghost: it
\* tells apart the commits, the payload only names flag, env and TG_OP.
Notification == [env : Envs, flag : Flags, ver : Nat]

\* What LoadRuleset assembles: the versions of the rows it has.  Two fields are
\* ghost: raced, the commits whose invalidation ran between the read of
\* flag_states and the store, and left[f], the version of f's state when it was
\* left out of the read, 0 otherwise.
Ruleset == [flags : [Flags -> Nat], states : [Flags -> Nat],
            left : [Flags -> Nat], raced : SUBSET Notification]

Load == [req : Requests, server : Servers, env : Envs,
         pc : {"flags", "states", "segments", "store"}, rs : Ruleset]

ConnState == {"idle", "connecting", "listening", "backoff", "returned"}

ASSUME NoRulesetAssumption == NoRuleset \notin Ruleset
ASSUME BoundAssumption == MaxStates \in Nat /\ MaxFlags \in Nat

VARIABLES
    flags,         \* flags[f]: version of the row of f in flags
    deleted,       \* the flags that were deleted
    states,        \* states[e][f]: version of f's row of flag_states in e
    cache,         \* Cache.rulesets, per server
    listening,     \* Cache.listening, per server
    conn,          \* where listenLoop of the server is
    closed,        \* PGInvalidator.closed / closeCh, per server
    wire,          \* notifications sent on the LISTEN connection, not yet read
    invalidating,  \* handler goroutines that have not deleted the entry yet
    announcing,    \* handler goroutines past the delete, before the broadcast
    announced,     \* history: notifications broadcast to SSE and webhooks
    lost,          \* history: notifications this server will never handle
    loads          \* LoadRuleset calls in flight

dbVars   == <<flags, deleted, states>>
hubVars  == <<wire, invalidating, announcing, announced, lost>>
connVars == <<conn, closed, listening>>
vars == <<dbVars, cache, connVars, hubVars, loads>>

TypeOK ==
    /\ flags \in [Flags -> Nat] /\ deleted \subseteq Flags
    /\ states \in [Envs -> [Flags -> Nat]]
    /\ cache \in [Servers -> [Envs -> Ruleset \cup {NoRuleset}]]
    /\ listening \in [Servers -> BOOLEAN]
    /\ conn \in [Servers -> ConnState]
    /\ closed \in [Servers -> BOOLEAN]
    /\ wire \in [Servers -> SUBSET Notification]
    /\ invalidating \in [Servers -> SUBSET Notification]
    /\ announcing \in [Servers -> SUBSET Notification]
    /\ announced \in [Servers -> SUBSET Notification]
    /\ lost \in [Servers -> SUBSET Notification]
    /\ loads \in SUBSET Load

Init ==
    /\ flags \in [Flags -> 0..1] /\ deleted = {}
    /\ states = [e \in Envs |-> [f \in Flags |-> 0]]
    /\ cache = [s \in Servers |-> [e \in Envs |-> NoRuleset]]
    /\ listening = [s \in Servers |-> FALSE]
    /\ conn = [s \in Servers |-> "idle"]
    /\ closed = [s \in Servers |-> FALSE]
    /\ wire = [s \in Servers |-> {}]
    /\ invalidating = [s \in Servers |-> {}]
    /\ announcing = [s \in Servers |-> {}]
    /\ announced = [s \in Servers |-> {}]
    /\ lost = [s \in Servers |-> {}]
    /\ loads = {}

-----------------------------------------------------------------------------
(* Faulty variants of the operations below: each is what a plausible bug   *)
(* would make of one of them, and breaks a property (PROJECT.json).        *)

\* The ruleset is cached still wrapped in its load.
StoreWrapped(l) ==
    /\ l.pc = "store"
    /\ cache' = [cache EXCEPT ![l.server][l.env] = l]
    /\ loads' = loads \ {l}
    /\ UNCHANGED <<dbVars, connVars, hubVars>>

\* The handler tells the clients and leaves the entry to be refreshed later.
InvalidateKeepsEntry(s, n) ==
    /\ n \in invalidating[s]
    /\ invalidating' = [invalidating EXCEPT ![s] = @ \ {n}]
    /\ announcing' = [announcing EXCEPT ![s] = @ \cup {n}]
    /\ UNCHANGED <<dbVars, cache, loads, connVars, wire, announced, lost>>

\* The handler has nothing to tell when nothing was cached.
InvalidateQuietly(s, n) ==
    /\ n \in invalidating[s]
    /\ cache' = [cache EXCEPT ![s][n.env] = NoRuleset]
    /\ invalidating' = [invalidating EXCEPT ![s] = @ \ {n}]
    /\ announcing' = [announcing EXCEPT ![s] =
          IF cache[s][n.env] = NoRuleset THEN @ ELSE @ \cup {n}]
    /\ UNCHANGED <<dbVars, loads, connVars, wire, announced, lost>>

\* The broadcast does not wait for the delete.
ReceiveAnnounces(s, n) ==
    /\ conn[s] = "listening"
    /\ n \in wire[s]
    /\ wire' = [wire EXCEPT ![s] = @ \ {n}]
    /\ invalidating' = [invalidating EXCEPT ![s] = @ \cup {n}]
    /\ announcing' = [announcing EXCEPT ![s] = @ \cup {n}]
    /\ UNCHANGED <<dbVars, cache, connVars, announced, lost, loads>>

\* A notification for an environment that is being invalidated is skipped.
ReceiveCoalesces(s, n) ==
    /\ conn[s] = "listening"
    /\ n \in wire[s]
    /\ wire' = [wire EXCEPT ![s] = @ \ {n}]
    /\ invalidating' = [invalidating EXCEPT ![s] =
          IF \E m \in announcing[s] : m.env = n.env THEN @ ELSE @ \cup {n}]
    /\ UNCHANGED <<dbVars, cache, connVars, announcing, announced, lost, loads>>

-----------------------------------------------------------------------------
(* The database.  Only flag_states carries the NOTIFY trigger.             *)

Exists(f) == flags[f] > 0 /\ f \notin deleted

\* A transaction commits to f's state in each environment of E: the trigger
\* notifies every LISTENing session.
Commit(f, E) ==
    LET news == {[env |-> e, flag |-> f, ver |-> states[e][f] + 1] : e \in E}
    IN  /\ states' = [e \in Envs |->
                        IF e \in E THEN [states[e] EXCEPT ![f] = @ + 1] ELSE states[e]]
        /\ wire' = [s \in Servers |->
                      wire[s] \cup IF conn[s] = "listening" THEN news ELSE {}]
        /\ lost' = [s \in Servers |->
                      lost[s] \cup IF conn[s] = "listening" THEN {} ELSE news]
        /\ UNCHANGED <<cache, connVars, invalidating, announcing, announced, loads>>

\* The state of f in e is inserted or updated.
EditState(f, e) ==
    /\ Exists(f) /\ states[e][f] < MaxStates
    /\ Commit(f, {e})
    /\ UNCHANGED <<flags, deleted>>

\* A flag is deleted, and by cascade its states.
DeleteFlag(f) ==
    /\ Exists(f) /\ \A e \in Envs : states[e][f] < MaxStates
    /\ deleted' = deleted \cup {f}
    /\ Commit(f, {e \in Envs : states[e][f] > 0})
    /\ UNCHANGED flags

\* A flag is created or updated: no trigger.
EditFlag(f) ==
    /\ f \notin deleted /\ flags[f] < MaxFlags
    /\ flags' = [flags EXCEPT ![f] = @ + 1]
    /\ UNCHANGED <<deleted, states, cache, connVars, hubVars, loads>>

-----------------------------------------------------------------------------
(* The invalidator: Subscribe, listenLoop, listenOnce, Close.              *)

\* StartListening calls Subscribe; a closed invalidator refuses it.
Subscribe(s) ==
    /\ conn[s] = "idle"
    /\ conn' = [conn EXCEPT ![s] = IF closed[s] THEN "returned" ELSE "connecting"]
    /\ UNCHANGED <<dbVars, cache, closed, listening, hubVars, loads>>

\* Acquire and LISTEN succeed.  The cache is kept as it is, also on a reconnect.
ListenStarts(s) ==
    /\ conn[s] = "connecting"
    /\ conn' = [conn EXCEPT ![s] = "listening"]
    /\ UNCHANGED <<dbVars, cache, closed, listening, hubVars, loads>>

\* listenLoop returns nil, and StartListening then records `listening`.
ReturnNil(s) ==
    /\ conn' = [conn EXCEPT ![s] = "returned"]
    /\ listening' = [listening EXCEPT ![s] = TRUE]

\* What was on the connection goes with it.
DropWire(s) ==
    /\ lost' = [lost EXCEPT ![s] = @ \cup wire[s]]
    /\ wire' = [wire EXCEPT ![s] = {}]

\* listenOnce fails (acquire, LISTEN, or WaitForNotification).
ListenFails(s) ==
    /\ conn[s] \in {"connecting", "listening"}
    /\ \/ closed[s] /\ ReturnNil(s)
       \/ /\ ~closed[s]
          /\ conn' = [conn EXCEPT ![s] = "backoff"]
          /\ UNCHANGED listening
    /\ DropWire(s)
    /\ UNCHANGED <<dbVars, cache, closed, invalidating, announcing, announced, loads>>

\* The backoff timer fires, or closeCh does.
BackoffEnds(s) ==
    /\ conn[s] = "backoff"
    /\ \/ closed[s] /\ ReturnNil(s)
       \/ /\ ~closed[s]
          /\ conn' = [conn EXCEPT ![s] = "connecting"]
          /\ UNCHANGED listening
    /\ UNCHANGED <<dbVars, cache, closed, hubVars, loads>>

\* The context is cancelled: the loop returns ctx.Err() from wherever it is.
CancelListen(s) ==
    /\ conn[s] \in {"connecting", "listening", "backoff"}
    /\ conn' = [conn EXCEPT ![s] = "returned"]
    /\ DropWire(s)
    /\ UNCHANGED <<dbVars, cache, closed, listening, invalidating, announcing,
                   announced, loads>>

\* Close sets the flag and closes closeCh; a LISTEN in progress is not woken.
\* (It then waits for the handlers, which changes no state.)
Close(s) ==
    /\ ~closed[s]
    /\ closed' = [closed EXCEPT ![s] = TRUE]
    /\ UNCHANGED <<dbVars, cache, conn, listening, hubVars, loads>>

\* WaitForNotification returns n: it is handled in a goroutine of its own, so
\* handlers run in any order.
Receive(s, n) ==
    /\ conn[s] = "listening"
    /\ n \in wire[s]
    /\ wire' = [wire EXCEPT ![s] = @ \ {n}]
    /\ invalidating' = [invalidating EXCEPT ![s] = @ \cup {n}]
    /\ UNCHANGED <<dbVars, cache, connVars, announcing, announced, lost, loads>>

-----------------------------------------------------------------------------
(* The handler of StartListening.                                          *)

\* Ghost: the loads of (s, n.env) that have read flag_states and not stored.
Overtake(l, s, n) ==
    IF l.server = s /\ l.env = n.env /\ l.pc \in {"segments", "store"}
    THEN [l EXCEPT !.rs.raced = @ \cup {n}]
    ELSE l

\* delete(c.rulesets, change.EnvID) under the lock.
Invalidate(s, n) ==
    /\ n \in invalidating[s]
    /\ cache' = [cache EXCEPT ![s][n.env] = NoRuleset]
    /\ invalidating' = [invalidating EXCEPT ![s] = @ \ {n}]
    /\ announcing' = [announcing EXCEPT ![s] = @ \cup {n}]
    /\ loads' = {Overtake(l, s, n) : l \in loads}
    /\ UNCHANGED <<dbVars, connVars, wire, announced, lost>>

\* BroadcastFlagUpdate, then NotifyFlagChange.
Announce(s, n) ==
    /\ n \in announcing[s]
    /\ announcing' = [announcing EXCEPT ![s] = @ \ {n}]
    /\ announced' = [announced EXCEPT ![s] = @ \cup {n}]
    /\ UNCHANGED <<dbVars, cache, connVars, wire, invalidating, lost, loads>>

-----------------------------------------------------------------------------
(* An evaluation request: GetRuleset, and LoadRuleset on a miss.           *)

Idle(r) == \A l \in loads : l.req # r

None == [f \in Flags |-> 0]

BeginLoad(r, s, e) ==
    /\ Idle(r)
    /\ cache[s][e] = NoRuleset
    /\ loads' = loads \cup
         {[req |-> r, server |-> s, env |-> e, pc |-> "flags",
           rs |-> [flags |-> None, states |-> None, left |-> None, raced |-> {}]]}
    /\ UNCHANGED <<dbVars, cache, connVars, hubVars>>

\* Load l moves on as m.
Becomes(l, m) == loads' = (loads \ {l}) \cup {m}

\* The three reads end with rows.Next and never ask rows.Err: a query that breaks
\* off is taken for one that ended.  F is the rows it delivered.
ReadFlags(l, F) ==
    /\ l.pc = "flags"
    /\ Becomes(l, [l EXCEPT !.pc = "states",
                     !.rs.flags = [f \in Flags |->
                        IF f \in F \ deleted THEN flags[f] ELSE 0]])
    /\ UNCHANGED <<dbVars, cache, connVars, hubVars>>

\* What a read of the states of e leaves out when it delivers the rows F and knows
\* the flags of rs: LoadRuleset drops the states of flags it did not read.
LeftOut(rs, e, F) ==
    [f \in Flags |-> IF rs.flags[f] = 0 \/ f \notin F THEN states[e][f] ELSE 0]

ReadStates(l, F) ==
    /\ l.pc = "states"
    /\ Becomes(l, [l EXCEPT !.pc = "segments",
                     !.rs.states = [f \in Flags |->
                        IF f \in F \ deleted THEN states[l.env][f] ELSE 0],
                     !.rs.left = LeftOut(l.rs, l.env, F)])
    /\ UNCHANGED <<dbVars, cache, connVars, hubVars>>

ReadSegments(l) ==
    /\ l.pc = "segments"
    /\ Becomes(l, [l EXCEPT !.pc = "store"])
    /\ UNCHANGED <<dbVars, cache, connVars, hubVars>>

\* A query fails: the error goes to the caller, the cache is untouched.
LoadFails(l) ==
    /\ l.pc # "store"
    /\ loads' = loads \ {l}
    /\ UNCHANGED <<dbVars, cache, connVars, hubVars>>

\* The states are keyed by the flags that were read; the others are dropped.
Joined(rs) ==
    [rs EXCEPT !.states = [f \in Flags |-> IF rs.flags[f] = 0 THEN 0 ELSE @[f]]]

\* c.rulesets[envID] = ruleset: unconditional.
StoreRuleset(l) ==
    /\ l.pc = "store"
    /\ cache' = [cache EXCEPT ![l.server][l.env] = Joined(l.rs)]
    /\ loads' = loads \ {l}
    /\ UNCHANGED <<dbVars, connVars, hubVars>>

-----------------------------------------------------------------------------
\* The process dies and is started again with an empty cache.
Restart(s) ==
    /\ cache' = [cache EXCEPT ![s] = [e \in Envs |-> NoRuleset]]
    /\ listening' = [listening EXCEPT ![s] = FALSE]
    /\ conn' = [conn EXCEPT ![s] = "idle"]
    /\ closed' = [closed EXCEPT ![s] = FALSE]
    /\ wire' = [wire EXCEPT ![s] = {}]
    /\ invalidating' = [invalidating EXCEPT ![s] = {}]
    /\ announcing' = [announcing EXCEPT ![s] = {}]
    /\ lost' = [lost EXCEPT ![s] =
                  @ \cup wire[s] \cup invalidating[s] \cup announcing[s]]
    /\ loads' = {l \in loads : l.server # s}
    /\ UNCHANGED <<dbVars, announced>>

Next ==
    \/ \E f \in Flags :
          \/ \E e \in Envs : EditState(f, e)
          \/ DeleteFlag(f) \/ EditFlag(f)
    \/ \E s \in Servers :
          \/ Subscribe(s) \/ ListenStarts(s) \/ ListenFails(s) \/ BackoffEnds(s)
          \/ CancelListen(s) \/ Close(s) \/ Restart(s)
          \/ \E n \in wire[s] : Receive(s, n)
          \/ \E n \in invalidating[s] : Invalidate(s, n)
          \/ \E n \in announcing[s] : Announce(s, n)
          \/ \E r \in Requests, e \in Envs : BeginLoad(r, s, e)
    \/ \E l \in loads :
          \/ \E F \in SUBSET Flags : ReadFlags(l, F) \/ ReadStates(l, F)
          \/ ReadSegments(l) \/ LoadFails(l) \/ StoreRuleset(l)

Spec == Init /\ [][Next]_vars

\* The commits to flag_states that the bounds allow.
Commits == [env : Envs, flag : Flags, ver : 1..MaxStates]

\* A live connection delivers, and started goroutines run to their end.
Fairness ==
    \A s \in Servers :
        /\ WF_vars(\E n \in wire[s] : Receive(s, n))
        /\ \A n \in Commits :
              WF_vars(Invalidate(s, n)) /\ WF_vars(Announce(s, n))

FairSpec == Spec /\ Fairness

-----------------------------------------------------------------------------
(* What the cache promises.                                                *)

\* Commits to f's state in e that ruleset rs does not contain.  One without a
\* state lacks nothing when there is none any more.
Lacks(rs, e, f) ==
    IF rs.states[f] = 0 /\ f \in deleted
    THEN {}
    ELSE {[env |-> e, flag |-> f, ver |-> v] : v \in (rs.states[f] + 1)..states[e][f]}

Missing(s, e) ==
    IF cache[s][e] = NoRuleset THEN {} ELSE UNION {Lacks(cache[s][e], e, f) : f \in Flags}

\* The invalidation of commit n is still on its way to s.
OnItsWay(s, n) == n \in wire[s] \cup invalidating[s]

\* The load of rs was overtaken by the invalidation of n, or read flag_states when
\* n was there and left it out.
Flawed(rs, n) == n \in rs.raced \/ n.ver <= rs.left[n.flag]

\* The ways an invalidation is missed for good: s never got it, or it came before
\* the cached ruleset, whose load is at fault.
Missed(s, n) ==
    \/ n \in lost[s]
    \/ cache[s][n.env] # NoRuleset /\ Flawed(cache[s][n.env], n)

\* A cached ruleset that lacks a committed flag state has an explanation: the
\* invalidation is under way, was lost with the connection, ran between the read
\* and the store of the load (inmemory.go, LoadRuleset), or the load left the
\* state out, its flag unread or its query broken off (store.go, LoadRuleset).
StaleIsExplained ==
    \A s \in Servers, e \in Envs : \A n \in Missing(s, e) :
        OnItsWay(s, n) \/ Missed(s, n)

\* When SSE clients and webhooks are told of a commit, a request answered from
\* the cache sees that commit, unless the load that cached the ruleset was
\* overtaken or left the state out (the handler deletes the entry before it
\* broadcasts; inmemory.go, StartListening).
AnnouncedIsVisible ==
    \A s \in Servers : \A n \in announced[s] :
        n \in Missing(s, n.env) => Flawed(cache[s][n.env], n)

Stale(s, e) == Missing(s, e) # {}
NoneMissed(s, e) == \A n \in Missing(s, e) : ~Missed(s, n)

\* A stale entry none of whose invalidations was lost, overtook its load or was of
\* a state the load left out, is dropped, whatever the other loads and handlers do
\* meanwhile (invalidator.go, listenOnce; inmemory.go, StartListening).
StaleIsDropped ==
    \A s \in Servers, e \in Envs :
        Stale(s, e) /\ NoneMissed(s, e) ~> ~Stale(s, e) \/ ~NoneMissed(s, e)

\* A handler that runs is not lost between its delete and its broadcast: every
\* invalidation is announced, or the process died.
InvalidationIsAnnounced ==
    \A s \in Servers, n \in Commits :
        n \in invalidating[s] ~> n \in announced[s] \cup lost[s]

=============================================================================
