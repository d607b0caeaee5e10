---------------------------- MODULE ConsoleLive ----------------------------
(***************************************************************************)
(* The console's live connection: the hook useConsoleWebSocket of          *)
(* dashboard/src/hooks/use-console-websocket.ts with the status it keeps   *)
(* in stores/console-store.ts for the bottom bar.                          *)
(*                                                                         *)
(* A chain is what one call of connect() and its successors do: a socket,  *)
(* whose onclose sets a timer, which calls connect() again.  The refs of   *)
(* the hook point at the last socket and the last timer, and the chains    *)
(* that others overtook go on without them.  Delays are abstracted.        *)
(***************************************************************************)
EXTENDS Naturals

CONSTANTS
    Chains,       \* enough for the mount, its effect and every click
    First,        \* the chain that the mount begins
    NoChain,      \* a ref that is null
    MaxFailed,    \* MAX_FAILED_ATTEMPTS (5 in the code)
    MaxClicks     \* bound: clicks on Retry

ASSUME ChainAssumption == First \in Chains /\ NoChain \notin Chains
ASSUME BoundAssumption == MaxFailed \in Nat \ {0} /\ MaxClicks \in Nat

VARIABLES
    mounted,      \* "before", "yes", "no"; "effect": see RetryEffect
    chain,        \* what each chain is at
    ws,           \* wsRef: the chain that made the last socket
    timer,        \* reconnectTimerRef: the chain that set the last timer
    failed,       \* failedAttemptsRef
    connected,    \* wsConnected
    offline,      \* wsOffline
    clicks        \* clicks so far

vars == <<mounted, chain, ws, timer, failed, connected, offline, clicks>>

Sockets == {"connecting", "open"}

\* Timers: of onclose, which looks at mounted; of a failure before there was
\* a socket, which does not; and of a connect() that found no token.
Timers == {"timer", "bare", "poll"}

TypeOK ==
    /\ mounted \in {"before", "effect", "yes", "no"}
    /\ chain \in [Chains -> {"none", "refreshing", "closing"} \cup Sockets \cup Timers]
    /\ ws \in Chains \cup {NoChain}
    /\ timer \in Chains \cup {NoChain}
    /\ failed \in Nat
    /\ connected \in BOOLEAN
    /\ offline \in BOOLEAN
    /\ clicks \in 0..MaxClicks

\* The store outlives the hook: one that was mounted before left it offline.
Init ==
    /\ mounted = "before"
    /\ chain = [k \in Chains |-> "none"]
    /\ ws = NoChain /\ timer = NoChain /\ failed = 0
    /\ connected = FALSE /\ offline \in BOOLEAN /\ clicks = 0

-----------------------------------------------------------------------------
\* Variant: the counter of failures starts anew with every try.
TryLaterForgetting(ch, k, f, kind) ==
    /\ failed' = 0
    /\ offline' = (offline \/ f >= MaxFailed)
    /\ IF f < MaxFailed /\ mounted # "no"
       THEN chain' = [ch EXCEPT ![k] = kind] /\ timer' = k
       ELSE chain' = [ch EXCEPT ![k] = "none"] /\ UNCHANGED timer

\* After f failures in a row chain k of ch gives up, or sets a timer.
TryLater(ch, k, f, kind) ==
    /\ failed' = f
    /\ offline' = (offline \/ f >= MaxFailed)
    /\ IF f < MaxFailed /\ mounted # "no"
       THEN chain' = [ch EXCEPT ![k] = kind] /\ timer' = k
       ELSE chain' = [ch EXCEPT ![k] = "none"] /\ UNCHANGED timer

\* Chain k of ch makes a socket, or the constructor throws.
Socket(ch, k, f) ==
    \/ /\ chain' = [ch EXCEPT ![k] = "connecting"] /\ ws' = k
       /\ failed' = f /\ UNCHANGED <<timer, offline>>
    \/ TryLater(ch, k, f + 1, "bare") /\ UNCHANGED ws

\* connect(), called by chain k of ch after f failures: there is no token, or
\* an expired one, or a valid one.
Connect(ch, k, f) ==
    \/ /\ failed' = f /\ UNCHANGED <<ws, offline>>
       /\ IF mounted # "no" THEN chain' = [ch EXCEPT ![k] = "poll"] /\ timer' = k
                         ELSE chain' = [ch EXCEPT ![k] = "none"] /\ UNCHANGED timer
    \/ /\ chain' = [ch EXCEPT ![k] = "refreshing"]
       /\ failed' = f /\ UNCHANGED <<ws, timer, offline>>
    \/ Socket(ch, k, f)

\* clearTimeout(reconnectTimerRef.current) and wsRef.current.close().
Cleared ==
    [k \in Chains |->
        IF k = timer /\ chain[k] \in Timers THEN "none" ELSE
        IF k = ws /\ chain[k] \in Sockets THEN "closing" ELSE chain[k]]

-----------------------------------------------------------------------------
\* The effects of the mount: connect(), and the effect of wsRetryTrigger as
\* well if Retry was ever clicked since the page was loaded.
Mount ==
    /\ mounted = "before" /\ mounted' \in {"effect", "yes"}
    /\ Connect(chain, First, failed)
    /\ UNCHANGED <<connected, clicks>>

\* Variant: one click more than the bound.
ClickMore ==
    /\ mounted = "yes" /\ offline /\ clicks <= MaxClicks
    /\ mounted' = "effect" /\ offline' = FALSE /\ clicks' = clicks + 1
    /\ UNCHANGED <<chain, ws, timer, failed, connected>>

\* The bottom bar shows the button while offline.  React renders and runs the
\* effect of the click before anything else happens.
Click ==
    /\ mounted = "yes" /\ offline /\ clicks < MaxClicks
    /\ mounted' = "effect" /\ offline' = FALSE /\ clicks' = clicks + 1
    /\ UNCHANGED <<chain, ws, timer, failed, connected>>

\* The effect of wsRetryTrigger: a new chain beside those it cannot clear.
\* The refs it sets to null are set again if the new chain gets so far.
RetryEffect ==
    /\ mounted = "effect" /\ mounted' = "yes"
    /\ \E k \in Chains : Cleared[k] = "none" /\ Connect(Cleared, k, 0)
    /\ UNCHANGED <<connected, clicks>>

\* tryRefreshToken() returns.
RefreshEnds(k) ==
    /\ chain[k] = "refreshing"
    /\ \/ Socket(chain, k, 0)
       \/ TryLater(chain, k, failed + 1, "bare") /\ UNCHANGED ws
    /\ UNCHANGED <<mounted, connected, clicks>>

\* onopen: a hook that was unmounted in the meantime closes the socket.
Open(k) ==
    /\ chain[k] = "connecting"
    /\ IF mounted = "yes"
       THEN /\ chain' = [chain EXCEPT ![k] = "open"]
            /\ failed' = 0 /\ connected' = TRUE /\ offline' = FALSE
       ELSE /\ chain' = [chain EXCEPT ![k] = "closing"]
            /\ UNCHANGED <<failed, connected, offline>>
    /\ UNCHANGED <<mounted, ws, timer, clicks>>

\* Variant: the status is left to the socket that comes next.
CloseKeeping(k) ==
    /\ chain[k] \in Sockets \cup {"closing"}
    /\ IF mounted = "yes"
       THEN \E errors \in {0, 1} : TryLater(chain, k, failed + errors + 1, "timer")
       ELSE /\ \E errors \in {0, 1} : failed' = failed + errors
            /\ chain' = [chain EXCEPT ![k] = "none"]
            /\ UNCHANGED <<timer, offline>>
    /\ UNCHANGED <<mounted, ws, connected, clicks>>

\* onclose, after an onerror or not: each counts a failure.  A hook that is
\* mounted tries again, whoever closed the socket.
Close(k) ==
    /\ chain[k] \in Sockets \cup {"closing"}
    /\ IF mounted = "yes"
       THEN /\ connected' = FALSE
            /\ \E errors \in {0, 1} : TryLater(chain, k, failed + errors + 1, "timer")
       ELSE /\ \E errors \in {0, 1} : failed' = failed + errors
            /\ chain' = [chain EXCEPT ![k] = "none"]
            /\ UNCHANGED <<timer, connected, offline>>
    /\ UNCHANGED <<mounted, ws, clicks>>

\* A timer fires; the one of onclose does nothing after an unmount.
Fire(k) ==
    /\ chain[k] \in Timers
    /\ IF chain[k] = "timer" /\ mounted = "no"
       THEN /\ chain' = [chain EXCEPT ![k] = "none"]
            /\ UNCHANGED <<ws, timer, failed, offline>>
       ELSE Connect(chain, k, failed)
    /\ UNCHANGED <<mounted, connected, clicks>>

Unmount ==
    /\ mounted = "yes" /\ mounted' = "no"
    /\ chain' = Cleared /\ ws' = NoChain /\ timer' = NoChain
    /\ connected' = FALSE /\ offline' = TRUE
    /\ UNCHANGED <<failed, clicks>>

-----------------------------------------------------------------------------
\* Effects that are due run before the next event.
Step(k) == mounted # "effect" /\ (RefreshEnds(k) \/ Open(k) \/ Close(k) \/ Fire(k))

Next ==
    \/ Mount \/ Click \/ RetryEffect \/ Unmount
    \/ \E k \in Chains : Step(k)

\* Timers fire, requests and handshakes end, React runs its effects.
Fairness ==
    /\ WF_vars(RetryEffect)
    /\ \A k \in Chains : WF_vars(chain[k] # "open" /\ Step(k))

Spec == Init /\ [][Next]_vars /\ Fairness

-----------------------------------------------------------------------------
\* Properties.

Alive == {k \in Chains : chain[k] # "none"}

\* What the bottom bar claims is so, whatever the chains do to each other: it
\* says "Live" only while a socket is open or shaking hands to close, and
\* "Connecting..." only while a chain works on it; with none left it offers
\* Retry.  (Not the other way round: onclose of an overtaken socket writes the
\* status though another socket is open and delivers.)
ClaimsAreBacked ==
    /\ connected => \E k \in Chains : chain[k] \in {"open", "closing"}
    /\ mounted = "yes" /\ ~connected /\ ~offline => Alive # {}

\* The hook gets somewhere: it connects or gives up, unless it has no token,
\* refreshes the one it has, or is unmounted.
KeepsTrying ==
    mounted = "yes" ~>
        connected \/ offline \/ mounted = "no"
        \/ \E k \in Chains : chain[k] \in {"poll", "refreshing"}

\* "connects on mount, disconnects on unmount".
DisconnectsOnUnmount == mounted = "no" ~> Alive = {}
=============================================================================
