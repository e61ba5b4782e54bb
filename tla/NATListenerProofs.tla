-------------------------- MODULE NATListenerProofs --------------------------
(***************************************************************************)
(* The safety of the TCP listener and its renewal manager, for any number  *)
(* of goroutines in Close and Accept, any ports and any number of faults,  *)
(* and that each of its steps is one of PortPublication.                   *)
(***************************************************************************)
EXTENDS NATListener, TLAPS

Holding(c) == cpc[c] \in {"stop", "stopping", "socket"}

(* l.mu: held by the closer that is between its two ends of Close.         *)
Locking ==
    /\ \A c \in Closers : Holding(c) <=> lmu = c
    /\ ~lclosed => LMuFree /\ \A c \in Closers : cpc[c] = "idle"

(* Where the manager stands at each step of Close; l.closed is set once,   *)
(* so a Close that has returned finds l.mu free from then on.              *)
Closing ==
    /\ ~lclosed => started = ~fallback /\ stop = "none"
    /\ \A c \in Closers :
          /\ cpc[c] = "stop" => started /\ stop = "none"
          /\ cpc[c] = "stopping" => ~started /\ stop # "none"
          /\ cpc[c] = "socket" => ~started /\ stop = "none"
          /\ cpc[c] = "returned" => lclosed /\ LMuFree
    /\ lclosed /\ LMuFree => ~socket /\ ~started /\ stop = "none"

(* The one renewal cycle; a fallback listener has none.                    *)
Cycle ==
    /\ starts = IF fallback THEN 0 ELSE 1
    /\ onPortChange = ~fallback
    /\ fallback => pc[1] = "none" /\ mapping = NoPort /\ ~started /\ stop = "none"
    /\ 1 \in ticking => started \/ stop = "closing"

(* A port that was assigned and not published yet is in the callback.      *)
Publishing ==
    /\ addrPort = lport
    /\ pc[1] \in {"mapped", "callback"} => newPort[1] \in Ports
    /\ externalPort = IF pc[1] = "callback" THEN newPort[1] ELSE lport

(* What the gateway holds, as in RenewalManagerProofs.                     *)
Binding ==
    /\ stop = "unmapping" => unmapping = externalPort
    /\ ~raced /\ RM!Renewing(1) => started \/ stop # "none"
    /\ ~raced /\ ~lost =>
          /\ mapping \in {NoPort, IF pc[1] = "mapped" THEN newPort[1]
                                                      ELSE externalPort}
          /\ ~started /\ stop = "none" => mapping = NoPort

Inv == TypeOK /\ Locking /\ Closing /\ Cycle /\ Publishing /\ Binding

(* The inductive invariant holds of what ListenContext returns, and of a   *)
(* fallback listener.                                                      *)
LEMMA InvInit == Init => Inv
<1> SUFFICES ASSUME Init PROVE Inv
  OBVIOUS
<1> USE NoOneAssumption, PortsAssumption, BoundsAssumption
<1>1. /\ pc \in [RM!Loops -> {"none", "select", "mapping", "mapped",
                                "callback", "exited"}]
      /\ newPort \in [RM!Loops -> Ports \cup {NoPort}]
      /\ pc[1] = IF fallback THEN "none" ELSE "select"
  BY DEF Init, RM!Loops
<1>2. /\ starts \in 0..1 /\ ticking \subseteq RM!Loops
      /\ 1 \in ticking => ~fallback
  BY DEF Init, RM!Loops
<1>3. /\ started \in BOOLEAN /\ onPortChange \in BOOLEAN
      /\ mapping \in Ports \cup {NoPort}
  BY DEF Init
<1>4. RM!TypeOK
  <2>1. closed \subseteq RM!Loops /\ stop = "none" /\ unmapping = NoPort
    BY DEF Init
  <2>2. raced \in BOOLEAN /\ lost \in BOOLEAN
    BY Zenon DEF Init
  <2>3. faults \in 0..MaxFaults
    BY DEF Init
  <2>4. externalPort \in Ports /\ lport \in Ports
    BY DEF Init
  <2> QED
    BY <1>1, <1>2, <1>3, <2>1, <2>2, <2>3, <2>4 DEF RM!TypeOK
<1>5. TypeOK
  BY <1>4 DEF Init, TypeOK
<1>6. Locking /\ Closing
  BY DEF Init, Locking, Closing, Holding, LMuFree
<1>7. Cycle
  BY <1>1, <1>2 DEF Init, Cycle
<1>8. Publishing
  BY <1>1 DEF Init, Publishing
<1>9. Binding
  <2>1. mapping = IF fallback THEN NoPort ELSE externalPort
    BY DEF Init
  <2>2. pc[1] # "mapped" /\ ~RM!Renewing(1)
    BY <1>1 DEF RM!Renewing
  <2>3. started \/ mapping = NoPort
    BY <2>1 DEF Init
  <2>4. stop # "unmapping"
    BY DEF Init
  <2> QED
    BY <2>1, <2>2, <2>3, <2>4 DEF Binding
<1> QED
  BY <1>5, <1>6, <1>7, <1>8, <1>9 DEF Inv

(* Every step of a closer, an acceptor and the renewal preserves it.       *)
LEMMA InvNext == Inv /\ [Next]_vars => Inv'
<1> SUFFICES ASSUME Inv, [Next]_vars PROVE Inv'
  OBVIOUS
<1> USE NoOneAssumption, PortsAssumption, BoundsAssumption
    DEF Inv, LMuFree, Holding, RM!Loops, RM!Renewing, RM!MuFree, renewalVars,
        listener, RM!manager, RM!stopper, RM!loops, RM!renewal, RM!history
<1>1. ASSUME NEW c \in Closers, CloseAgain(c) PROVE Inv'
  <2> USE <1>1 DEF CloseAgain
  <2>1. TypeOK'
    BY DEF TypeOK, RM!TypeOK
  <2>2. Locking' /\ Closing'
    BY DEF TypeOK, RM!TypeOK, Locking, Closing, Cycle
  <2>3. Cycle'
    BY DEF TypeOK, RM!TypeOK, Cycle
  <2>4. Publishing' /\ Binding'
    BY DEF TypeOK, RM!TypeOK, Closing, Cycle, Publishing, Binding
  <2> QED
    BY <2>1, <2>2, <2>3, <2>4
<1>2. ASSUME NEW c \in Closers, CloseEnter(c) PROVE Inv'
  <2> USE <1>2 DEF CloseEnter
  <2>1. TypeOK'
    BY DEF TypeOK, RM!TypeOK
  <2>2. Locking' /\ Closing'
    BY DEF TypeOK, RM!TypeOK, Locking, Closing, Cycle
  <2>3. Cycle'
    BY DEF TypeOK, RM!TypeOK, Cycle
  <2>4. Publishing' /\ Binding'
    BY DEF TypeOK, RM!TypeOK, Closing, Cycle, Publishing, Binding
  <2> QED
    BY <2>1, <2>2, <2>3, <2>4
<1>3. ASSUME NEW c \in Closers, CloseStop(c) PROVE Inv'
  <2> USE <1>3 DEF CloseStop, RM!StopBegin
  <2>1. TypeOK'
    <3> USE DEF TypeOK, RM!TypeOK, Cycle
    <3>1. closed' \subseteq RM!Loops
      OBVIOUS
    <3> QED
      BY <3>1
  <2>2. Locking' /\ Closing'
    BY DEF TypeOK, RM!TypeOK, Locking, Closing, Cycle
  <2>3. Cycle'
    BY DEF TypeOK, RM!TypeOK, Cycle
  <2>4. Publishing' /\ Binding'
    BY DEF TypeOK, RM!TypeOK, Closing, Cycle, Publishing, Binding
  <2> QED
    BY <2>1, <2>2, <2>3, <2>4
<1>4. ASSUME NEW c \in Closers, CloseStopping(c) PROVE Inv'
  <2> USE <1>4 DEF CloseStopping, RM!StopStep, RM!StopTicker, RM!StopUnmapOk,
             RM!StopUnmapFail, RM!StopReturn
  <2>1. TypeOK'
    <3> USE DEF TypeOK, RM!TypeOK, Cycle
    <3>1. CASE RM!StopTicker
      BY <3>1
    <3>2. CASE RM!StopUnmapOk
      BY <3>2
    <3>3. CASE RM!StopUnmapFail
      BY <3>3
    <3> QED
      BY <3>1, <3>2, <3>3
  <2>2. Locking' /\ Closing'
    BY DEF TypeOK, RM!TypeOK, Locking, Closing, Cycle
  <2>3. Cycle'
    BY DEF TypeOK, RM!TypeOK, Cycle
  <2>4. Publishing' /\ Binding'
    BY DEF TypeOK, RM!TypeOK, Closing, Cycle, Publishing, Binding
  <2> QED
    BY <2>1, <2>2, <2>3, <2>4
<1>5. ASSUME NEW c \in Closers, CloseSocket(c) PROVE Inv'
  <2> USE <1>5 DEF CloseSocket
  <2>1. TypeOK'
    BY DEF TypeOK, RM!TypeOK
  <2>2. Locking' /\ Closing'
    BY DEF TypeOK, RM!TypeOK, Locking, Closing, Cycle
  <2>3. Cycle'
    BY DEF TypeOK, RM!TypeOK, Cycle
  <2>4. Publishing' /\ Binding'
    BY DEF TypeOK, RM!TypeOK, Closing, Cycle, Publishing, Binding
  <2> QED
    BY <2>1, <2>2, <2>3, <2>4
<1>6. ASSUME NEW a \in Acceptors,
             \/ AcceptRefused(a) \/ AcceptWait(a) \/ AcceptConn(a) \/ AcceptReturn(a)
             \/ AcceptFails(a)
      PROVE  Inv'
  <2> USE <1>6 DEF AcceptRefused, AcceptWait, AcceptConn, AcceptReturn, AcceptFails
  <2>1. TypeOK'
    <3>1. RM!TypeOK'
      BY DEF TypeOK, RM!TypeOK
    <3>2. apc' \in [Acceptors -> {"idle", "waiting", "accepted", "failed"}]
      BY DEF TypeOK
    <3> QED
      BY <3>1, <3>2 DEF TypeOK
  <2>2. Locking' /\ Closing'
    BY DEF TypeOK, RM!TypeOK, Locking, Closing, Cycle
  <2>3. Cycle'
    BY DEF TypeOK, RM!TypeOK, Cycle
  <2>4. Publishing' /\ Binding'
    BY DEF TypeOK, RM!TypeOK, Closing, Cycle, Publishing, Binding
  <2> QED
    BY <2>1, <2>2, <2>3, <2>4
<1>7. ASSUME NEW l \in RM!Loops, UpdateExternalPort(l) PROVE Inv'
  <2> USE <1>7 DEF UpdateExternalPort, RM!LoopCallback
  <2>1. TypeOK'
    BY DEF TypeOK, RM!TypeOK, Publishing
  <2>2. Locking' /\ Closing'
    BY DEF TypeOK, RM!TypeOK, Locking, Closing, Cycle
  <2>3. Cycle'
    BY DEF TypeOK, RM!TypeOK, Cycle
  <2>4. Publishing' /\ Binding'
    BY DEF TypeOK, RM!TypeOK, Closing, Cycle, Publishing, Binding
  <2> QED
    BY <2>1, <2>2, <2>3, <2>4
<1>8. CASE RenewalStep
  <2> USE <1>8 DEF RenewalStep, RM!LoopTick, RM!LoopDone, RM!LoopApply,
                RM!LoopMapOk, RM!LoopMapFail, RM!GatewayDrops
  <2>1. TypeOK'
    <3> USE DEF TypeOK, RM!TypeOK, Publishing
    <3>1. ASSUME NEW l \in RM!Loops, RM!LoopTick(l) PROVE TypeOK'
      BY <3>1
    <3>2. ASSUME NEW l \in RM!Loops, RM!LoopDone(l) PROVE TypeOK'
      BY <3>2
    <3>3. ASSUME NEW l \in RM!Loops, RM!LoopApply(l) PROVE TypeOK'
      BY <3>3
    <3>4. ASSUME NEW l \in RM!Loops, NEW p \in Ports, RM!LoopMapOk(l, p)
          PROVE  TypeOK'
      BY <3>4
    <3>5. ASSUME NEW l \in RM!Loops, NEW m \in Ports \cup {mapping},
                 RM!LoopMapFail(l, m)
          PROVE  TypeOK'
      BY <3>5
    <3>6. CASE RM!GatewayDrops
      BY <3>6
    <3> QED
      BY <3>1, <3>2, <3>3, <3>4, <3>5, <3>6
  <2>2. Locking' /\ Closing'
    BY DEF TypeOK, RM!TypeOK, Locking, Closing, Cycle
  <2>3. Cycle'
    BY DEF TypeOK, RM!TypeOK, Cycle
  <2>4. Publishing' /\ Binding'
    BY DEF TypeOK, RM!TypeOK, Closing, Cycle, Publishing, Binding
  <2> QED
    BY <2>1, <2>2, <2>3, <2>4
<1>9. CASE UNCHANGED vars
  BY <1>9 DEF vars, TypeOK, RM!TypeOK, Locking, Closing, Cycle, Publishing, Binding
<1> QED
  BY <1>1, <1>2, <1>3, <1>4, <1>5, <1>6, <1>7, <1>8, <1>9 DEF Next, Close

(* The inductive invariant holds in every reachable state.                 *)
THEOREM Invariance == Spec => []Inv
<1>1. Init => Inv
  BY InvInit
<1>2. Inv /\ [Next]_vars => Inv'
  BY InvNext
<1> QED
  BY <1>1, <1>2, PTL DEF Spec

(* Every variable keeps its type.                                          *)
THEOREM Typing == Spec => []TypeOK
<1>1. Inv => TypeOK
  BY DEF Inv
<1> QED
  BY <1>1, Invariance, PTL

(* The listener's port, its address and the manager agree, but for the     *)
(* port of the callback that waits for l.mu.                               *)
THEOREM Agreement == Spec => []PortsAgree
<1>1. Inv => PortsAgree
  BY DEF Inv, TypeOK, RM!TypeOK, Publishing, PortsAgree, RM!Loops
<1> QED
  BY <1>1, Invariance, PTL

(* A returned Close means that the socket is closed, the renewal stopped   *)
(* and the binding gone, unless a renewal raced it or an answer was lost.  *)
THEOREM Released == Spec => []ClosedMeansReleased
<1>1. Inv => ClosedMeansReleased
  BY DEF Inv, Closing, Binding, ClosedMeansReleased
<1> QED
  BY <1>1, Invariance, PTL

(* Each step of the listener is one of PortPublication: the gateway        *)
(* assigns a port only when the last one has been published, and what is   *)
(* published is what was assigned.                                         *)
THEOREM Refinement ==
    Spec => Publication!Init
            /\ [][Publication!Next]_<<externalPort, lport>>
<1>1. Init => Publication!Init
  BY DEF Init, Publication!Init
<1>2. Inv /\ [Next]_vars => [Publication!Next]_<<externalPort, lport>>
  <2> SUFFICES ASSUME Inv, [Next]_vars,
                      ~ UNCHANGED <<externalPort, lport>>
               PROVE  Publication!Next
    OBVIOUS
  <2> USE DEF Inv, TypeOK, RM!TypeOK, RM!Loops, Publishing, Cycle, Publication!Next,
              Publication!Assign, Publication!Publish
  <2>1. CASE \E l \in RM!Loops : RM!LoopApply(l) /\ UNCHANGED lport
    BY <2>1 DEF RM!LoopApply
  <2>2. CASE \E l \in RM!Loops : RM!LoopCallback(l)
    BY <2>2 DEF RM!LoopCallback, RM!manager
  <2> QED
    BY <2>1, <2>2
    DEF Next, vars, renewalVars, listener, Close, CloseAgain, CloseEnter,
        CloseStop, CloseStopping,
        CloseSocket, UpdateExternalPort, RenewalStep, AcceptRefused, AcceptWait,
        AcceptConn, AcceptReturn, AcceptFails, RM!StopBegin, RM!StopStep, RM!StopTicker,
        RM!StopUnmapOk, RM!StopUnmapFail, RM!StopReturn, RM!LoopTick, RM!LoopDone,
        RM!LoopMapOk, RM!LoopMapFail, RM!LoopApply, RM!GatewayDrops, RM!manager
<1> QED
  BY <1>1, <1>2, Invariance, PTL DEF Spec
=============================================================================
