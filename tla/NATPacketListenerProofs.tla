----------------------- MODULE NATPacketListenerProofs -----------------------
(***************************************************************************)
(* The safety of the UDP listener, its wrapper and its renewal manager,    *)
(* for any number of goroutines that close either, any ports and any       *)
(* number of faults.  What concerns the listener without its wrapper is    *)
(* the TCP listener's inductive invariant.                                 *)
(***************************************************************************)
EXTENDS NATPacketListener, TLAPS

NLP == INSTANCE NATListenerProofs WITH Acceptors <- {}, apc <- <<>>

ListenerInv ==
    NL!TypeOK /\ NLP!Locking /\ NLP!Closing /\ NLP!Cycle /\ NLP!Publishing
        /\ NLP!Binding

(* The socket's closes: one through the wrapper, or one past it by a       *)
(* listener that had none, in which case the listener is closed for good.  *)
Socket ==
    /\ socket <=> closes = 0
    /\ once => cached /\ closes # 0 /\ (closes = 1 \/ late)
    /\ ~once /\ closes # 0 => /\ closes = 1 /\ lclosed /\ NL!LMuFree
                              /\ cached => late
    /\ \A u \in Users : upc[u] \in {"holding", "closed"} => cached
    /\ \A u \in Users : upc[u] = "closed" <=> result[u] # "none"

(* What the closers were told: all those who closed the socket were told   *)
(* what the wrapper keeps, unless there was none when it was closed.       *)
Errors ==
    /\ \A u \in Users : result[u] # "none" => once /\ result[u] # "already"
    /\ closes = 0 => \A c \in Callers : result[c] \notin {"nil", "error"}
    /\ once /\ ~late =>
          \A c \in Callers : result[c] \in {"nil", "error"} => result[c] = closeErr

Inv == TypeOK /\ ListenerInv /\ Socket /\ Errors /\ WrapperAgrees

(* A new listener's part of the inductive invariant.                       *)
LEMMA ListenerInit == NL!Init => ListenerInv
<1> SUFFICES ASSUME NL!Init PROVE ListenerInv
  OBVIOUS
<1> USE NoOneAssumption, PortsAssumption, BoundsAssumption
<1>1. /\ pc \in [NL!RM!Loops -> {"none", "select", "mapping", "mapped",
                                "callback", "exited"}]
      /\ newPort \in [NL!RM!Loops -> Ports \cup {NoPort}]
      /\ pc[1] = IF fallback THEN "none" ELSE "select"
  BY DEF NL!Init, NL!RM!Loops
<1>2. /\ starts \in 0..1 /\ ticking \subseteq NL!RM!Loops
      /\ 1 \in ticking => ~fallback
  BY DEF NL!Init, NL!RM!Loops
<1>3. /\ started \in BOOLEAN /\ onPortChange \in BOOLEAN
      /\ mapping \in Ports \cup {NoPort}
  BY DEF NL!Init
<1>4. NL!RM!TypeOK
  <2>1. closed \subseteq NL!RM!Loops /\ stop = "none" /\ unmapping = NoPort
    BY DEF NL!Init
  <2>2. raced \in BOOLEAN /\ lost \in BOOLEAN
    BY Zenon DEF NL!Init
  <2>3. faults \in 0..MaxFaults
    BY DEF NL!Init
  <2>4. externalPort \in Ports /\ lport \in Ports
    BY DEF NL!Init
  <2> QED
    BY <1>1, <1>2, <1>3, <2>1, <2>2, <2>3, <2>4 DEF NL!RM!TypeOK
<1>5. NL!TypeOK
  BY <1>4 DEF NL!Init, NL!TypeOK
<1>6. NLP!Locking /\ NLP!Closing
  BY DEF NL!Init, NLP!Locking, NLP!Closing, NLP!Holding, NLP!LMuFree
<1>7. NLP!Cycle
  BY <1>1, <1>2 DEF NL!Init, NLP!Cycle
<1>8. NLP!Publishing
  BY <1>1 DEF NL!Init, NLP!Publishing
<1>9. NLP!Binding
  <2>1. mapping = IF fallback THEN NoPort ELSE externalPort
    BY DEF NL!Init
  <2>2. pc[1] # "mapped" /\ ~NL!RM!Renewing(1)
    BY <1>1 DEF NL!RM!Renewing
  <2>3. started \/ mapping = NoPort
    BY <2>1 DEF NL!Init
  <2>4. stop # "unmapping"
    BY DEF NL!Init
  <2> QED
    BY <2>1, <2>2, <2>3, <2>4
      DEF NLP!Binding, NLP!RM!Renewing, NL!RM!Renewing
<1> QED
  BY <1>5, <1>6, <1>7, <1>8, <1>9 DEF ListenerInv

(* The steps this listener has in common with the TCP one.                 *)
SharedStep ==
    \/ \E c \in Closers :
          \/ NL!CloseAgain(c) \/ NL!CloseEnter(c)
          \/ NL!CloseStop(c) \/ NL!CloseStopping(c)
    \/ \E l \in NL!RM!Loops : NL!UpdateExternalPort(l)
    \/ NL!RenewalStep

(* Each of them preserves the listener's part.                             *)
LEMMA ListenerNext == ListenerInv /\ SharedStep => ListenerInv'
<1> SUFFICES ASSUME ListenerInv, SharedStep PROVE ListenerInv'
  OBVIOUS
<1> USE NoOneAssumption, PortsAssumption, BoundsAssumption
    DEF ListenerInv, NL!LMuFree, NLP!LMuFree, NLP!Holding, NL!RM!Loops,
        NLP!RM!Loops, NL!RM!Renewing, NLP!RM!Renewing, NL!RM!MuFree,
        NL!renewalVars, NL!listener, NL!RM!manager, NL!RM!stopper,
        NL!RM!loops, NL!RM!renewal, NL!RM!history
<1>1. ASSUME NEW c \in Closers, NL!CloseAgain(c) PROVE ListenerInv'
  <2> USE <1>1 DEF NL!CloseAgain
  <2>1. NL!TypeOK'
    BY DEF NL!TypeOK, NL!RM!TypeOK
  <2>2. NLP!Locking' /\ NLP!Closing'
    BY DEF NL!TypeOK, NL!RM!TypeOK, NLP!Locking, NLP!Closing, NLP!Cycle
  <2>3. NLP!Cycle'
    BY DEF NL!TypeOK, NL!RM!TypeOK, NLP!Cycle
  <2>4. NLP!Publishing' /\ NLP!Binding'
    BY DEF NL!TypeOK, NL!RM!TypeOK, NLP!Closing, NLP!Cycle, NLP!Publishing,
           NLP!Binding
  <2> QED
    BY <2>1, <2>2, <2>3, <2>4
<1>2. ASSUME NEW c \in Closers, NL!CloseEnter(c) PROVE ListenerInv'
  <2> USE <1>2 DEF NL!CloseEnter
  <2>1. NL!TypeOK'
    BY DEF NL!TypeOK, NL!RM!TypeOK
  <2>2. NLP!Locking' /\ NLP!Closing'
    BY DEF NL!TypeOK, NL!RM!TypeOK, NLP!Locking, NLP!Closing, NLP!Cycle
  <2>3. NLP!Cycle'
    BY DEF NL!TypeOK, NL!RM!TypeOK, NLP!Cycle
  <2>4. NLP!Publishing' /\ NLP!Binding'
    BY DEF NL!TypeOK, NL!RM!TypeOK, NLP!Closing, NLP!Cycle, NLP!Publishing,
           NLP!Binding
  <2> QED
    BY <2>1, <2>2, <2>3, <2>4
<1>3. ASSUME NEW c \in Closers, NL!CloseStop(c) PROVE ListenerInv'
  <2> USE <1>3 DEF NL!CloseStop, NL!RM!StopBegin
  <2>1. NL!TypeOK'
    <3> USE DEF NL!TypeOK, NL!RM!TypeOK, NLP!Cycle
    <3>1. closed' \subseteq NL!RM!Loops
      OBVIOUS
    <3> QED
      BY <3>1
  <2>2. NLP!Locking' /\ NLP!Closing'
    BY DEF NL!TypeOK, NL!RM!TypeOK, NLP!Locking, NLP!Closing, NLP!Cycle
  <2>3. NLP!Cycle'
    BY DEF NL!TypeOK, NL!RM!TypeOK, NLP!Cycle
  <2>4. NLP!Publishing' /\ NLP!Binding'
    BY DEF NL!TypeOK, NL!RM!TypeOK, NLP!Closing, NLP!Cycle, NLP!Publishing,
           NLP!Binding
  <2> QED
    BY <2>1, <2>2, <2>3, <2>4
<1>4. ASSUME NEW c \in Closers, NL!CloseStopping(c) PROVE ListenerInv'
  <2> USE <1>4 DEF NL!CloseStopping, NL!RM!StopStep, NL!RM!StopTicker,
             NL!RM!StopUnmapOk, NL!RM!StopUnmapFail, NL!RM!StopReturn
  <2>1. NL!TypeOK'
    <3> USE DEF NL!TypeOK, NL!RM!TypeOK, NLP!Cycle
    <3>1. CASE NL!RM!StopTicker
      BY <3>1
    <3>2. CASE NL!RM!StopUnmapOk
      BY <3>2
    <3>3. CASE NL!RM!StopUnmapFail
      BY <3>3
    <3> QED
      BY <3>1, <3>2, <3>3
  <2>2. NLP!Locking' /\ NLP!Closing'
    BY DEF NL!TypeOK, NL!RM!TypeOK, NLP!Locking, NLP!Closing, NLP!Cycle
  <2>3. NLP!Cycle'
    BY DEF NL!TypeOK, NL!RM!TypeOK, NLP!Cycle
  <2>4. NLP!Publishing' /\ NLP!Binding'
    BY DEF NL!TypeOK, NL!RM!TypeOK, NLP!Closing, NLP!Cycle, NLP!Publishing,
           NLP!Binding
  <2> QED
    BY <2>1, <2>2, <2>3, <2>4
<1>5. ASSUME NEW l \in NL!RM!Loops, NL!UpdateExternalPort(l) PROVE ListenerInv'
  <2> USE <1>5 DEF NL!UpdateExternalPort, NL!RM!LoopCallback
  <2>1. NL!TypeOK'
    BY DEF NL!TypeOK, NL!RM!TypeOK, NLP!Publishing
  <2>2. NLP!Locking' /\ NLP!Closing'
    BY DEF NL!TypeOK, NL!RM!TypeOK, NLP!Locking, NLP!Closing, NLP!Cycle
  <2>3. NLP!Cycle'
    BY DEF NL!TypeOK, NL!RM!TypeOK, NLP!Cycle
  <2>4. NLP!Publishing' /\ NLP!Binding'
    BY DEF NL!TypeOK, NL!RM!TypeOK, NLP!Closing, NLP!Cycle, NLP!Publishing,
           NLP!Binding
  <2> QED
    BY <2>1, <2>2, <2>3, <2>4
<1>6. CASE NL!RenewalStep
  <2> USE <1>6 DEF NL!RenewalStep, NL!RM!LoopTick, NL!RM!LoopDone,
             NL!RM!LoopApply, NL!RM!LoopMapOk, NL!RM!LoopMapFail,
             NL!RM!GatewayDrops
  <2>1. NL!TypeOK'
    <3> USE DEF NL!TypeOK, NL!RM!TypeOK, NLP!Publishing
    <3>1. ASSUME NEW l \in NL!RM!Loops, NL!RM!LoopTick(l) PROVE NL!TypeOK'
      BY <3>1
    <3>2. ASSUME NEW l \in NL!RM!Loops, NL!RM!LoopDone(l) PROVE NL!TypeOK'
      BY <3>2
    <3>3. ASSUME NEW l \in NL!RM!Loops, NL!RM!LoopApply(l) PROVE NL!TypeOK'
      BY <3>3
    <3>4. ASSUME NEW l \in NL!RM!Loops, NEW p \in Ports, NL!RM!LoopMapOk(l, p)
          PROVE  NL!TypeOK'
      BY <3>4
    <3>5. ASSUME NEW l \in NL!RM!Loops, NEW m \in Ports \cup {mapping},
                 NL!RM!LoopMapFail(l, m)
          PROVE  NL!TypeOK'
      BY <3>5
    <3>6. CASE NL!RM!GatewayDrops
      BY <3>6
    <3> QED
      BY <3>1, <3>2, <3>3, <3>4, <3>5, <3>6
  <2>2. NLP!Locking' /\ NLP!Closing'
    BY DEF NL!TypeOK, NL!RM!TypeOK, NLP!Locking, NLP!Closing, NLP!Cycle
  <2>3. NLP!Cycle'
    BY DEF NL!TypeOK, NL!RM!TypeOK, NLP!Cycle
  <2>4. NLP!Publishing' /\ NLP!Binding'
    BY DEF NL!TypeOK, NL!RM!TypeOK, NLP!Closing, NLP!Cycle, NLP!Publishing,
           NLP!Binding
  <2> QED
    BY <2>1, <2>2, <2>3, <2>4
<1> QED
  BY <1>1, <1>2, <1>3, <1>4, <1>5, <1>6 DEF SharedStep

(* The inductive invariant holds of a new listener.                        *)
LEMMA InvInit == Init => Inv
<1> SUFFICES ASSUME Init PROVE Inv
  OBVIOUS
<1> USE DEF Init
<1>1. ListenerInv
  BY ListenerInit
<1>2. TypeOK
  <2>1. cached \in BOOLEAN /\ once \in BOOLEAN /\ late \in BOOLEAN
    BY Zenon
  <2>2. /\ upc \in [Users -> {"idle", "holding", "refused", "closed"}]
        /\ result \in [Callers -> {"none", "already", "nil", "error"}]
    OBVIOUS
  <2> QED
    BY <1>1, <2>1, <2>2 DEF ListenerInv, TypeOK
<1>3. socket /\ ~lclosed /\ \A c \in Callers : result[c] = "none"
  BY DEF NL!Init
<1>4. Socket /\ Errors /\ WrapperAgrees
  BY <1>3 DEF Socket, Errors, WrapperAgrees, Callers
<1> QED
  BY <1>1, <1>2, <1>4 DEF Inv

(* The listener's part survives a step that leaves it alone but for the    *)
(* socket, which such a step may close, and a closer's return.             *)
LEMMA ListenerKept ==
    ASSUME ListenerInv,
           UNCHANGED <<renewalVars, lclosed, lport, addrPort, fallback>>,
           socket' \in BOOLEAN, socket' => socket,
           \/ UNCHANGED <<lmu, cpc>>
           \/ \E c \in Closers :
                 /\ cpc[c] = "socket" /\ ~socket' /\ lmu' = NoOne
                 /\ cpc' = [cpc EXCEPT ![c] = "returned"]
    PROVE  ListenerInv'
<1> USE NoOneAssumption DEF ListenerInv, renewalVars
<1>1. NL!TypeOK'
  BY DEF NL!TypeOK, NL!RM!TypeOK
<1>2. NLP!Locking' /\ NLP!Closing'
  BY DEF NL!TypeOK, NLP!Locking, NLP!Closing, NLP!Holding, NLP!LMuFree
<1>3. NLP!Cycle' /\ NLP!Publishing' /\ NLP!Binding'
  BY DEF NLP!Cycle, NLP!Publishing, NLP!Binding, NLP!RM!Renewing
<1> QED
  BY <1>1, <1>2, <1>3

(* A step that takes the wrapper, or is refused it.                        *)
LEMMA TakeKeepsInv ==
    ASSUME Inv, NEW u \in Users,
           Accept(u) \/ AcceptRefused(u) \/ PacketConn(u)
    PROVE  Inv'
<1> USE DEF Accept, AcceptRefused, PacketConn, GetOrCreate, renewalVars,
            listener, wrapper, Inv, TypeOK, NL!LMuFree
<1>1. ListenerInv'
  BY ListenerKept DEF ListenerInv, NL!TypeOK
<1>2. TypeOK'
  BY <1>1, PortsAssumption DEF ListenerInv, NL!TypeOK
<1>3. Socket'
  <2>1. /\ UNCHANGED <<socket, closes, once, lclosed, lmu, result>>
        /\ cached => cached'
        /\ late => late'
        /\ cached' /\ ~cached /\ lclosed => late'
    <3>1. CASE AcceptRefused(u)
      BY <3>1
    <3>2. CASE GetOrCreate(u)
      BY <3>2, Zenon
    <3> QED
      BY <3>1, <3>2
  <2>2. \A v \in Users :
           /\ upc'[v] \in {"holding", "closed"} => cached'
           /\ upc'[v] = "closed" <=> upc[v] = "closed"
    BY DEF Socket
  <2> QED
    BY <2>1, <2>2 DEF Socket
<1>4. Errors' /\ WrapperAgrees'
  BY DEF Errors, WrapperAgrees, Socket, Callers
<1> QED
  BY <1>1, <1>2, <1>3, <1>4

(* A user closes the wrapper: the first to do so closes the socket, unless *)
(* the listener did before there was a wrapper.                            *)
LEMMA UserCloseKeepsInv ==
    ASSUME Inv, NEW u \in Users, UserClose(u)
    PROVE  Inv'
<1> USE CallersAssumption
    DEF UserClose, WrapperClose, SocketClose, renewalVars, Inv, TypeOK,
        NL!LMuFree, Callers
<1>1. ListenerInv'
  BY ListenerKept DEF ListenerInv, NL!TypeOK
<1>2. closes' \in 0..2
  BY DEF Socket
<1>3. TypeOK'
  BY <1>1, <1>2 DEF ListenerInv
<1>4. Socket'
  BY DEF Socket
<1>5. Errors' /\ WrapperAgrees'
  BY DEF Errors, WrapperAgrees, Socket
<1> QED
  BY <1>1, <1>3, <1>4, <1>5

(* The listener's Close closes the socket, through the wrapper if there is *)
(* one, and releases l.mu.                                                 *)
LEMMA CloseConnKeepsInv ==
    ASSUME Inv, NEW c \in Closers, CloseConn(c)
    PROVE  Inv'
<1> USE CallersAssumption, NoOneAssumption
    DEF CloseConn, WrapperClose, SocketClose, renewalVars, Inv, TypeOK,
        NL!LMuFree, Callers
<1>1. ListenerInv'
  BY ListenerKept DEF ListenerInv, NL!TypeOK, Socket
<1>2. lclosed /\ lmu = c /\ lmu # NoOne
  BY DEF ListenerInv, NLP!Locking, NLP!Holding, NLP!LMuFree
<1>3. closes' \in 0..2
  BY DEF Socket
<1>4. TypeOK'
  BY <1>1, <1>3 DEF ListenerInv
<1>5. Socket'
  BY <1>2 DEF Socket
<1>6. Errors' /\ WrapperAgrees'
  BY <1>2 DEF Errors, WrapperAgrees, Socket
<1> QED
  BY <1>1, <1>4, <1>5, <1>6

(* A step that the two listeners have in common touches nothing of the     *)
(* wrapper, but for the port the callback brings it and the result of a    *)
(* second Close.                                                           *)
LEMMA SharedKeepsInv ==
    ASSUME Inv,
           \/ \E c \in Closers : CloseAgain(c) \/ CloseStart(c)
           \/ \E l \in NL!RM!Loops : UpdateExternalPort(l)
           \/ RenewalStep
    PROVE  Inv'
<1> USE DEF Inv, TypeOK
<1>1. SharedStep
  BY DEF SharedStep, CloseAgain, CloseStart, UpdateExternalPort, RenewalStep
<1>2. ListenerInv'
  BY <1>1, ListenerNext
<1>3. /\ socket' = socket /\ (lclosed => lclosed')
      /\ lclosed /\ NL!LMuFree => NL!LMuFree'
      /\ ~lclosed => NL!LMuFree
  BY <1>1 DEF SharedStep, NL!CloseAgain, NL!CloseEnter, NL!CloseStop,
              NL!CloseStopping, NL!UpdateExternalPort, NL!RenewalStep,
              NL!LMuFree, NL!listener, ListenerInv, NLP!Locking, NLP!LMuFree
<1>4. ASSUME NEW c \in Closers, CloseAgain(c) PROVE Inv'
  <2> USE <1>4 DEF CloseAgain, NL!CloseAgain, NL!renewalVars, NL!listener,
                   wrapper, Callers
  <2>1. TypeOK'
    BY <1>2 DEF ListenerInv
  <2>2. Socket'
    BY <1>3, CallersAssumption DEF Socket
  <2>3. Errors' /\ WrapperAgrees'
    BY CallersAssumption DEF Errors, WrapperAgrees
  <2> QED
    BY <1>2, <2>1, <2>2, <2>3
<1>5. ASSUME UNCHANGED <<cached, once, closeErr, closes, upc, result, late>>,
             connPort' = IF cached THEN addrPort' ELSE connPort
      PROVE  Inv'
  <2>1. TypeOK'
    BY <1>2, <1>5 DEF ListenerInv, NL!TypeOK
  <2>2. Socket' /\ Errors' /\ WrapperAgrees'
    BY <1>3, <1>5 DEF Socket, Errors, WrapperAgrees
  <2> QED
    BY <1>2, <2>1, <2>2
<1>6. ASSUME NEW l \in NL!RM!Loops, UpdateExternalPort(l) PROVE Inv'
  BY <1>5, <1>6 DEF UpdateExternalPort, NL!UpdateExternalPort
<1>7. CASE (\E c \in Closers : CloseStart(c)) \/ RenewalStep
  <2>1. UNCHANGED <<packetVars, addrPort>>
    BY <1>7 DEF CloseStart, RenewalStep, NL!CloseEnter, NL!CloseStop,
                NL!CloseStopping, NL!RenewalStep
  <2> QED
    BY <1>5, <2>1 DEF packetVars, wrapper, WrapperAgrees
<1> QED
  BY <1>4, <1>6, <1>7

(* Every step preserves the inductive invariant.                           *)
LEMMA InvNext == Inv /\ [Next]_vars => Inv'
<1> SUFFICES ASSUME Inv, [Next]_vars PROVE Inv'
  OBVIOUS
<1>1. CASE UNCHANGED vars
  BY <1>1, ListenerKept
  DEF vars, renewalVars, listener, packetVars, wrapper, Inv, TypeOK, ListenerInv,
      NL!TypeOK, NL!LMuFree, Socket, Errors, WrapperAgrees
<1> QED
  BY <1>1, TakeKeepsInv, UserCloseKeepsInv, CloseConnKeepsInv, SharedKeepsInv
  DEF Next, Close

(* The inductive invariant holds in every reachable state.                 *)
THEOREM Invariance == Spec => []Inv
<1> QED
  BY InvInit, InvNext, PTL DEF Spec

(* Every variable keeps its type; the socket never sees a third Close.     *)
THEOREM Typing == Spec => []TypeOK
<1>1. Inv => TypeOK
  BY DEF Inv
<1> QED
  BY <1>1, Invariance, PTL

(* However many goroutines close the listener and the wrapper, the socket  *)
(* sees one Close, if the wrapper was taken before the listener closed.    *)
THEOREM OneClose == Spec => []ClosedOnceIfTaken
<1>1. Inv => ClosedOnceIfTaken
  BY DEF Inv, TypeOK, Socket, ClosedOnceIfTaken
<1> QED
  BY <1>1, Invariance, PTL

(* All of them are told the same error.                                    *)
THEOREM OneError == Spec => []SameError
<1>1. Inv => SameError
  BY DEF Inv, TypeOK, Socket, Errors, SameError, Callers
<1> QED
  BY <1>1, Invariance, PTL

(* The wrapper carries the listener's current address.                     *)
THEOREM Agreement == Spec => []WrapperAgrees
<1>1. Inv => WrapperAgrees
  BY DEF Inv
<1> QED
  BY <1>1, Invariance, PTL

(* A returned Close means that the socket is closed, the renewal stopped   *)
(* and the binding gone, unless a renewal raced it or an answer was lost.  *)
THEOREM Released == Spec => []ClosedMeansReleased
<1>1. Inv => ClosedMeansReleased
  BY DEF Inv, ListenerInv, NLP!Closing, NLP!Binding, ClosedMeansReleased,
         NL!ClosedMeansReleased
<1> QED
  BY <1>1, Invariance, PTL

(* What the users see, through the wrapper or until there is one through   *)
(* the listener, changes only as PortPublication allows.                   *)
THEOREM Refinement ==
    Spec => Publication!Init
            /\ [][Publication!Next]_<<externalPort,
                                      IF cached THEN connPort ELSE lport>>
<1> DEFINE Published == IF cached THEN connPort ELSE lport
<1>1. Init => Publication!Init
  BY DEF Init, NL!Init, Publication!Init
<1>2. Inv /\ [Next]_vars => [Publication!Next]_<<externalPort, Published>>
  <2> SUFFICES ASSUME Inv, [Next]_vars,
                      ~ UNCHANGED <<externalPort, Published>>
               PROVE  Publication!Next
    OBVIOUS
  <2>1. Published = lport /\ Published' = lport'
    BY InvNext DEF Inv, ListenerInv, NLP!Publishing, WrapperAgrees
  <2> HIDE DEF Published
  <2> SUFFICES \/ /\ lport = externalPort /\ externalPort' \in Ports
                  /\ lport' = lport
               \/ /\ lport # externalPort /\ lport' = externalPort
                  /\ externalPort' = externalPort
    BY <2>1 DEF Publication!Next, Publication!Assign, Publication!Publish,
                Published
  <2> USE DEF Inv, ListenerInv, TypeOK, NL!TypeOK, NL!RM!TypeOK, NL!RM!Loops,
              NLP!Publishing, NLP!Cycle
  <2>2. CASE \E l \in NL!RM!Loops : NL!RM!LoopApply(l) /\ UNCHANGED lport
    BY <2>2 DEF NL!RM!LoopApply
  <2>3. CASE \E l \in NL!RM!Loops : NL!RM!LoopCallback(l)
    BY <2>3 DEF NL!RM!LoopCallback, NL!RM!manager
  <2> QED
    BY <2>1, <2>2, <2>3
    DEF Next, vars, renewalVars, listener, Accept, AcceptRefused, PacketConn,
        GetOrCreate, UserClose, Close, CloseAgain, CloseStart, CloseConn,
        UpdateExternalPort, RenewalStep, NL!CloseAgain, NL!CloseEnter,
        NL!CloseStop, NL!CloseStopping, NL!UpdateExternalPort, NL!RenewalStep,
        NL!renewalVars, NL!listener,
        NL!RM!StopBegin, NL!RM!StopStep, NL!RM!StopTicker, NL!RM!StopUnmapOk,
        NL!RM!StopUnmapFail, NL!RM!StopReturn, NL!RM!LoopTick, NL!RM!LoopDone,
        NL!RM!LoopMapOk, NL!RM!LoopMapFail, NL!RM!LoopApply,
        NL!RM!GatewayDrops, NL!RM!manager
<1> QED
  BY <1>1, <1>2, Invariance, PTL DEF Spec
=============================================================================
