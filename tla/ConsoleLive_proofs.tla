-------------------------- MODULE ConsoleLive_proofs --------------------------
(***************************************************************************)
(* Proofs about ConsoleLive.  ClaimsAreBacked is not inductive: a socket   *)
(* that closes after the unmount leaves the status alone, so it must be    *)
(* known that the status says nothing by then (SilentUnmounted).           *)
(***************************************************************************)
EXTENDS ConsoleLive, TLAPS

\* A hook that is not mounted shows no connection.
SilentUnmounted == mounted \in {"before", "no"} => ~connected

\* The chain that a step moves goes on, or the hook gives up.
GoesOn(k) == offline' \/ chain'[k] # "none"

IInv == TypeOK /\ SilentUnmounted /\ ClaimsAreBacked

States == {"none", "refreshing", "closing"} \cup Sockets \cup Timers
HasSocket == {"open", "closing"}

\* What connect() and onclose leave, called by chain k of ch: k is at something
\* that no socket is open at, and it goes on unless the hook is unmounted.
Moved(ch, k) ==
    /\ \E s \in States \ HasSocket : chain' = [ch EXCEPT ![k] = s]
    /\ timer' \in Chains \cup {NoChain} /\ ws' \in Chains \cup {NoChain}
    /\ failed' \in Nat /\ offline' \in BOOLEAN
    /\ mounted # "no" => GoesOn(k)

-----------------------------------------------------------------------------
(* The helpers of the hook.                                                *)

LEMMA TryLaterMoves ==
  ASSUME TypeOK, NEW ch \in [Chains -> States], NEW k \in Chains, NEW f \in Nat,
         NEW kind \in Timers, TryLater(ch, k, f, kind), ws' \in Chains \cup {NoChain}
  PROVE  Moved(ch, k)
  <1>1. failed' \in Nat /\ timer' \in Chains \cup {NoChain}
    BY DEF TryLater, TypeOK
  <1>2. offline' \in BOOLEAN
    BY Zenon DEF TryLater, TypeOK
  <1>3. kind # "none" /\ kind \in States \ HasSocket /\ "none" \in States \ HasSocket
    BY DEF Timers, States, HasSocket
  <1>4. CASE f < MaxFailed /\ mounted # "no"
    <2>1. chain' = [ch EXCEPT ![k] = kind]
      BY <1>4 DEF TryLater
    <2>2. GoesOn(k)
      BY <1>3, <2>1 DEF GoesOn
    <2> QED
      BY <1>1, <1>2, <1>3, <2>1, <2>2 DEF Moved
  <1>5. CASE ~(f < MaxFailed /\ mounted # "no")
    <2>1. chain' = [ch EXCEPT ![k] = "none"]
      BY <1>5 DEF TryLater
    <2>2. f >= MaxFailed => offline'
      BY DEF TryLater
    <2>3. mounted # "no" => offline'
      BY <1>5, <2>2, BoundAssumption
    <2> QED
      BY <1>1, <1>2, <1>3, <2>1, <2>3 DEF Moved, GoesOn
  <1> QED
    BY <1>4, <1>5

LEMMA SocketMoves ==
  ASSUME TypeOK, NEW ch \in [Chains -> States], NEW k \in Chains, NEW f \in Nat,
         Socket(ch, k, f)
  PROVE  Moved(ch, k)
  <1>1. CASE TryLater(ch, k, f + 1, "bare") /\ UNCHANGED ws
    <2>1. "bare" \in Timers /\ f + 1 \in Nat /\ ws' \in Chains \cup {NoChain}
      BY <1>1 DEF Timers, TypeOK
    <2> QED
      BY <1>1, <2>1, TryLaterMoves
  <1>2. CASE /\ chain' = [ch EXCEPT ![k] = "connecting"] /\ ws' = k
             /\ failed' = f /\ UNCHANGED <<timer, offline>>
    <2>1. "connecting" \in States \ HasSocket
      BY DEF States, Sockets, HasSocket
    <2> QED
      BY <1>2, <2>1 DEF TypeOK, GoesOn, Moved
  <1> QED
    BY <1>1, <1>2 DEF Socket

LEMMA ConnectMoves ==
  ASSUME TypeOK, NEW ch \in [Chains -> States], NEW k \in Chains, NEW f \in Nat,
         Connect(ch, k, f)
  PROVE  Moved(ch, k)
  <1>1. {"poll", "none", "refreshing"} \subseteq States \ HasSocket
    BY DEF States, Timers, HasSocket
  <1>2. CASE /\ failed' = f /\ UNCHANGED <<ws, offline>>
             /\ IF mounted # "no" THEN chain' = [ch EXCEPT ![k] = "poll"] /\ timer' = k
                         ELSE chain' = [ch EXCEPT ![k] = "none"] /\ UNCHANGED timer
    BY <1>1, <1>2 DEF TypeOK, GoesOn, Moved
  <1>3. CASE /\ chain' = [ch EXCEPT ![k] = "refreshing"]
             /\ failed' = f /\ UNCHANGED <<ws, timer, offline>>
    BY <1>1, <1>3 DEF TypeOK, GoesOn, Moved
  <1>4. CASE Socket(ch, k, f)
    BY <1>4, SocketMoves
  <1> QED
    BY <1>2, <1>3, <1>4 DEF Connect

\* Clearing the refs leaves no open socket without its closing handshake.
LEMMA ClearedKeeps ==
  ASSUME TypeOK
  PROVE  /\ Cleared \in [Chains -> States]
         /\ \A k \in Chains : chain[k] \in HasSocket => Cleared[k] \in HasSocket
  BY DEF TypeOK, Cleared, States, Sockets, Timers, HasSocket

-----------------------------------------------------------------------------
\* A step that moves chain k of ch, where ch has the sockets that are open.
LEMMA MoveKeeps ==
  ASSUME IInv, NEW ch \in [Chains -> States], NEW k \in Chains, Moved(ch, k),
         \A j \in Chains : chain[j] \in HasSocket => ch[j] \in HasSocket,
         connected' \in BOOLEAN, clicks' \in 0..MaxClicks,
         mounted' \in {"before", "effect", "yes", "no"},
         mounted' \in {"before", "no"} => mounted' = mounted,
         mounted = "no" => mounted' = "no",
         connected' => connected /\ ch[k] \notin HasSocket
  PROVE  IInv'
  <1> USE DEF IInv
  <1>1. PICK s \in States \ HasSocket : chain' = [ch EXCEPT ![k] = s]
    BY DEF Moved
  <1>2. TypeOK'
    BY <1>1 DEF TypeOK, States, Moved
  <1>3. SilentUnmounted'
    BY DEF SilentUnmounted
  <1>4. connected' => \E j \in Chains : chain'[j] \in HasSocket
    BY <1>1 DEF ClaimsAreBacked, HasSocket
  <1>5. mounted' = "yes" /\ ~offline' => chain'[k] # "none"
    BY DEF Moved, GoesOn
  <1>6. mounted' = "yes" /\ ~offline' => Alive' # {}
    BY <1>5 DEF Alive
  <1> QED
    BY <1>2, <1>3, <1>4, <1>6 DEF ClaimsAreBacked, HasSocket

LEMMA InitIInv == Init => IInv
  <1> SUFFICES ASSUME Init PROVE IInv
    OBVIOUS
  <1>1. failed \in Nat /\ clicks \in 0..MaxClicks
    BY BoundAssumption DEF Init
  <1>2. connected \in BOOLEAN /\ offline \in BOOLEAN
    BY Zenon DEF Init
  <1>3. TypeOK
    BY <1>1, <1>2 DEF Init, TypeOK
  <1> QED
    BY <1>3 DEF Init, IInv, SilentUnmounted, ClaimsAreBacked

LEMMA MountKeeps == IInv /\ Mount => IInv'
  <1> SUFFICES ASSUME IInv, Mount PROVE IInv'
    OBVIOUS
  <1>1. First \in Chains /\ chain \in [Chains -> States] /\ failed \in Nat
    BY ChainAssumption DEF IInv, TypeOK, States
  <1>2. Moved(chain, First)
    BY <1>1, ConnectMoves DEF Mount, IInv
  <1>3. ~connected /\ UNCHANGED <<connected, clicks>> /\ mounted = "before"
        /\ mounted' \in {"effect", "yes"}
    BY DEF Mount, IInv, SilentUnmounted
  <1> QED
    BY <1>1, <1>2, <1>3, MoveKeeps DEF IInv, TypeOK

LEMMA ClickKeeps == IInv /\ Click => IInv'
  <1> SUFFICES ASSUME IInv, Click PROVE IInv'
    OBVIOUS
  <1>1. clicks' \in 0..MaxClicks
    BY BoundAssumption DEF IInv, TypeOK, Click
  <1>2. offline' \in BOOLEAN /\ connected' \in BOOLEAN
    BY Zenon DEF IInv, TypeOK, Click
  <1>3. TypeOK'
    BY <1>1, <1>2 DEF IInv, TypeOK, Click
  <1> QED
    BY <1>3 DEF IInv, Click, SilentUnmounted, ClaimsAreBacked

LEMMA RetryEffectKeeps == IInv /\ RetryEffect => IInv'
  <1> SUFFICES ASSUME IInv, RetryEffect PROVE IInv'
    OBVIOUS
  <1>1. PICK k \in Chains : Cleared[k] = "none" /\ Connect(Cleared, k, 0)
    BY DEF RetryEffect
  <1>2. Moved(Cleared, k)
    BY <1>1, ConnectMoves, ClearedKeeps DEF IInv
  <1>3. Cleared[k] \notin HasSocket
    BY <1>1 DEF HasSocket
  <1>4. mounted = "effect" /\ mounted' = "yes" /\ UNCHANGED <<connected, clicks>>
    BY DEF RetryEffect
  <1> QED
    BY <1>2, <1>3, <1>4, ClearedKeeps, MoveKeeps DEF IInv, TypeOK

LEMMA UnmountKeeps == IInv /\ Unmount => IInv'
  <1> SUFFICES ASSUME IInv, Unmount PROVE IInv'
    OBVIOUS
  <1>1. TypeOK'
    BY ClearedKeeps DEF IInv, TypeOK, Unmount, States
  <1> QED
    BY <1>1 DEF IInv, Unmount, SilentUnmounted, ClaimsAreBacked

LEMMA StepKeeps == ASSUME IInv, NEW k \in Chains, Step(k) PROVE IInv'
  <1>1. chain \in [Chains -> States] /\ failed \in Nat /\ mounted # "effect"
    BY DEF IInv, TypeOK, States, Step
  <1>2. CASE RefreshEnds(k)
    <2>1. UNCHANGED <<mounted, connected, clicks>> /\ chain[k] \notin HasSocket
      BY <1>2 DEF RefreshEnds, HasSocket
    <2>2. Moved(chain, k)
      <3>1. CASE Socket(chain, k, 0)
        BY <1>1, <3>1, SocketMoves DEF IInv
      <3>2. CASE TryLater(chain, k, failed + 1, "bare") /\ UNCHANGED ws
        <4>1. "bare" \in Timers /\ failed + 1 \in Nat /\ ws' \in Chains \cup {NoChain}
          BY <1>1, <3>2 DEF Timers, IInv, TypeOK
        <4> QED
          BY <1>1, <3>2, <4>1, TryLaterMoves DEF IInv
      <3> QED
        BY <1>2, <3>1, <3>2 DEF RefreshEnds
    <2> QED
      BY <1>1, <2>1, <2>2, MoveKeeps DEF IInv, TypeOK
  <1>3. CASE Open(k)
    <2>1. CASE mounted = "yes"
      <3>1. connected' \in BOOLEAN /\ offline' \in BOOLEAN
        BY <1>3, <2>1, Zenon DEF Open
      <3>2. chain' = [chain EXCEPT ![k] = "open"] /\ "open" \in Sockets
        BY <1>3, <2>1 DEF Open, Sockets
      <3>3. TypeOK'
        BY <1>1, <1>3, <2>1, <3>1, <3>2 DEF Open, IInv, TypeOK
      <3>4. chain'[k] = "open" /\ mounted' = "yes" /\ connected'
        BY <1>1, <1>3, <2>1 DEF Open
      <3> QED
        BY <3>3, <3>4 DEF IInv, SilentUnmounted, ClaimsAreBacked
    <2>2. CASE mounted # "yes"
      <3>1. TypeOK'
        BY <1>1, <1>3, <2>2 DEF Open, IInv, TypeOK
      <3>2. mounted' = mounted /\ ~connected'
        BY <1>1, <1>3, <2>2 DEF Open, IInv, TypeOK, SilentUnmounted
      <3> QED
        BY <3>1, <3>2, <2>2 DEF IInv, SilentUnmounted, ClaimsAreBacked
    <2> QED
      BY <2>1, <2>2
  <1>4. CASE Close(k)
    <2>1. CASE mounted = "yes"
      <3>1. PICK errors \in {0, 1} : TryLater(chain, k, failed + errors + 1, "timer")
        BY <1>4, <2>1 DEF Close
      <3>2. "timer" \in Timers /\ failed + errors + 1 \in Nat /\ ws' \in Chains \cup {NoChain}
        BY <1>1, <1>4 DEF Timers, Close, IInv, TypeOK
      <3>3. Moved(chain, k)
        BY <1>1, <3>1, <3>2, TryLaterMoves DEF IInv
      <3>4. ~connected' /\ connected' \in BOOLEAN /\ UNCHANGED <<mounted, clicks>>
        BY <1>4, <2>1 DEF Close
      <3> QED
        BY <1>1, <3>3, <3>4, MoveKeeps DEF IInv, TypeOK
    <2>2. CASE mounted # "yes"
      <3>1. failed' \in Nat
        BY <1>1, <1>4, <2>2 DEF Close
      <3>2. TypeOK'
        BY <1>1, <1>4, <2>2, <3>1 DEF Close, IInv, TypeOK
      <3>3. mounted' = mounted /\ ~connected'
        BY <1>1, <1>4, <2>2 DEF Close, IInv, TypeOK, SilentUnmounted
      <3> QED
        BY <3>2, <3>3, <2>2 DEF IInv, SilentUnmounted, ClaimsAreBacked
    <2> QED
      BY <2>1, <2>2
  <1>5. CASE Fire(k)
    <2>1. UNCHANGED <<mounted, connected, clicks>> /\ chain[k] \notin HasSocket
      BY <1>5 DEF Fire, HasSocket, Timers
    <2>2. Moved(chain, k)
      <3>1. CASE Connect(chain, k, failed)
        BY <1>1, <3>1, ConnectMoves DEF IInv
      <3>2. CASE /\ mounted = "no" /\ chain' = [chain EXCEPT ![k] = "none"]
                 /\ UNCHANGED <<ws, timer, failed, offline>>
        <4>1. "none" \in States \ HasSocket
          BY DEF States, HasSocket
        <4> QED
          BY <3>2, <4>1 DEF Moved, IInv, TypeOK
      <3> QED
        BY <1>5, <3>1, <3>2 DEF Fire
    <2> QED
      BY <1>1, <2>1, <2>2, MoveKeeps DEF IInv, TypeOK
  <1> QED
    BY <1>2, <1>3, <1>4, <1>5 DEF Step

LEMMA Invariance == Spec => []IInv
  <1>1. IInv /\ [Next]_vars => IInv'
    <2> SUFFICES ASSUME IInv, [Next]_vars PROVE IInv'
      OBVIOUS
    <2>1. CASE UNCHANGED vars
      BY <2>1 DEF vars, IInv, TypeOK, SilentUnmounted, ClaimsAreBacked, Alive
    <2> QED
      BY <2>1, MountKeeps, ClickKeeps, RetryEffectKeeps, UnmountKeeps, StepKeeps DEF Next
  <1> QED
    BY <1>1, InitIInv, PTL DEF Spec

\* The chains, the refs and the status keep their types, for any number of chains,
\* clicks and failures that are allowed in a row.
THEOREM TypeCorrect == Spec => []TypeOK
  <1>1. IInv => TypeOK
    BY DEF IInv
  <1> QED
    BY <1>1, Invariance, PTL

\* What the bottom bar claims is so: "Live" needs a socket that is open or closing,
\* "Connecting..." a chain at work, however many chains clicks have started (the
\* setters of onopen, onclose and Retry).  That an open socket is shown is not said.
THEOREM ClaimsHold == Spec => []ClaimsAreBacked
  <1>1. IInv => ClaimsAreBacked
    BY DEF IInv
  <1> QED
    BY <1>1, Invariance, PTL

=============================================================================
