------------------------ MODULE RenewalManagerProofs ------------------------
(***************************************************************************)
(* The safety of the renewal manager, for any set of ports and any number  *)
(* of Start/Stop cycles and mapper faults.                                 *)
(***************************************************************************)
EXTENDS RenewalManager, TLAPS

Mapped(l) == pc[l] = "mapped"

(* Cycle bookkeeping: a loop exists from its Start on, only the current    *)
(* one ticks, and no older one begins a renewal.                           *)
Cycles ==
    /\ \A l \in Loops : pc[l] = "none" <=> l > starts
    /\ \A l \in ticking : l = starts /\ (started \/ stop = "closing")
    /\ started => MuFree /\ starts \in Loops

(* Unless a renewal raced a Stop, only the current loop is renewing, and   *)
(* only while its cycle runs or is being stopped.                          *)
CurrentRenews ==
    ~raced => \A l \in Loops :
                 Renewing(l) => l = starts /\ (started \/ ~MuFree)

(* The port Stop unmaps stays the manager's port while it holds r.mu.      *)
UnmapsCurrent == stop = "unmapping" => unmapping = externalPort

(* What the gateway holds, by what the renewing loop knows.                *)
Binding ==
    ~raced /\ ~lost =>
        /\ \A l \in Loops : Mapped(l) => mapping \in {NoPort, newPort[l]}
        /\ (\A l \in Loops : ~Mapped(l)) => mapping \in {NoPort, externalPort}

(* A goroutine past MapPort holds the port it was answered.                *)
Answers == \A l \in Loops : pc[l] \in {"mapped", "callback"} => newPort[l] \in Ports

Inv == TypeOK /\ Answers /\ OneOpenLoop /\ Cycles /\ CurrentRenews
         /\ UnmapsCurrent /\ Binding /\ LeakOnlyByRace

(* The inductive invariant holds of a manager NewRenewalManager returns.   *)
LEMMA InvInit == Init => Inv
<1> SUFFICES ASSUME Init PROVE Inv
  OBVIOUS
<1> USE PortsAssumption, BoundsAssumption DEF Init, Loops, MuFree, Renewing, Mapped
<1>1. TypeOK
  <2>1. /\ starts \in 0..MaxStarts /\ faults \in 0..MaxFaults
        /\ closed \subseteq Loops /\ ticking \subseteq Loops
    OBVIOUS
  <2>2. /\ pc \in [Loops -> {"none", "select", "mapping", "mapped",
                            "callback", "exited"}]
        /\ newPort \in [Loops -> Ports \cup {NoPort}]
    OBVIOUS
  <2> QED
    BY <2>1, <2>2 DEF TypeOK
<1>2. Answers /\ Cycles /\ CurrentRenews /\ UnmapsCurrent /\ Binding
  BY DEF Answers, Cycles, CurrentRenews, UnmapsCurrent, Binding
<1>3. OneOpenLoop /\ LeakOnlyByRace
  BY DEF OneOpenLoop, LeakOnlyByRace
<1> QED
  BY <1>1, <1>2, <1>3 DEF Inv

(* Every action of the manager, its goroutines and the gateway preserves   *)
(* the inductive invariant.                                                *)
LEMMA InvNext == Inv /\ [Next]_vars => Inv'
<1> SUFFICES ASSUME Inv, [Next]_vars PROVE Inv'
  OBVIOUS
<1> USE PortsAssumption, BoundsAssumption
    DEF Inv, TypeOK, Answers, OneOpenLoop, Cycles, CurrentRenews, UnmapsCurrent,
        Binding, LeakOnlyByRace, Loops, MuFree, Renewing, Mapped,
        manager, stopper, loops, renewal, history
<1>1. ASSUME NEW set \in BOOLEAN, SetPortChangeCallback(set) PROVE Inv'
  BY <1>1 DEF SetPortChangeCallback
<1>2. CASE Start
  BY <1>2 DEF Start
<1>3. CASE StopBegin
  <2> USE <1>3 DEF StopBegin
  <2>1. TypeOK' /\ Answers'
    OBVIOUS
  <2>2. OneOpenLoop'
    OBVIOUS
  <2>3. Cycles' /\ CurrentRenews'
    OBVIOUS
  <2>4. UnmapsCurrent' /\ Binding' /\ LeakOnlyByRace'
    OBVIOUS
  <2> QED
    BY <2>1, <2>2, <2>3, <2>4
<1>4. CASE StopTicker
  BY <1>4 DEF StopTicker
<1>5. CASE StopUnmapOk
  BY <1>5 DEF StopUnmapOk, StopReturn
<1>6. CASE StopUnmapFail
  <2> USE <1>6 DEF StopUnmapFail, StopReturn
  <2>1. TypeOK' /\ Answers'
    OBVIOUS
  <2>2. OneOpenLoop' /\ Cycles' /\ CurrentRenews'
    OBVIOUS
  <2>3. UnmapsCurrent' /\ Binding' /\ LeakOnlyByRace'
    OBVIOUS
  <2> QED
    BY <2>1, <2>2, <2>3
<1>7. ASSUME NEW l \in Loops, LoopTick(l) PROVE Inv'
  BY <1>7 DEF LoopTick
<1>8. ASSUME NEW l \in Loops, LoopDone(l) PROVE Inv'
  BY <1>8 DEF LoopDone
<1>9. ASSUME NEW l \in Loops, NEW p \in Ports, LoopMapOk(l, p) PROVE Inv'
  BY <1>9 DEF LoopMapOk
<1>10. ASSUME NEW l \in Loops, NEW m \in Ports \cup {mapping},
              LoopMapFail(l, m)
       PROVE  Inv'
  <2> USE <1>10 DEF LoopMapFail
  <2>1. TypeOK' /\ Answers'
    OBVIOUS
  <2>2. OneOpenLoop' /\ Cycles' /\ CurrentRenews'
    OBVIOUS
  <2>3. UnmapsCurrent' /\ Binding' /\ LeakOnlyByRace'
    OBVIOUS
  <2> QED
    BY <2>1, <2>2, <2>3
<1>11. ASSUME NEW l \in Loops, LoopApply(l) PROVE Inv'
  BY <1>11 DEF LoopApply
<1>12. ASSUME NEW l \in Loops, LoopCallback(l) PROVE Inv'
  BY <1>12 DEF LoopCallback
<1>13. CASE GatewayDrops
  BY <1>13 DEF GatewayDrops
<1>14. CASE UNCHANGED vars
  BY <1>14 DEF vars
<1> QED
  BY <1>1, <1>2, <1>3, <1>4, <1>5, <1>6, <1>7, <1>8, <1>9, <1>10, <1>11,
     <1>12, <1>13, <1>14
  DEF Next, StopStep, Loop

(* The inductive invariant holds throughout.                               *)
THEOREM Invariance == Spec => []Inv
<1>1. Init => Inv
  BY InvInit
<1>2. Inv /\ [Next]_vars => Inv'
  BY InvNext
<1> QED
  BY <1>1, <1>2, PTL DEF Spec

(* Every variable keeps its type.                                          *)
THEOREM Typing == Spec => []TypeOK
<1>1. Inv => TypeOK
  BY DEF Inv
<1> QED
  BY <1>1, Invariance, PTL

(* Start and Stop in any number of cycles never close a done channel twice *)
(* and never leave a goroutine running whose channel nobody will close.    *)
THEOREM OneLoop == Spec => []OneOpenLoop
<1>1. Inv => OneOpenLoop
  BY DEF Inv
<1> QED
  BY <1>1, Invariance, PTL

(* ExternalPort() names the gateway's binding, up to the answer in flight. *)
THEOREM Tracking == Spec => []TrackedPort
<1>1. Inv => TrackedPort
  <2> SUFFICES ASSUME Inv, ~raced, ~lost
               PROVE  mapping \in {NoPort, externalPort}
                        \cup {newPort[l] : l \in {k \in Loops : Mapped(k)}}
    BY DEF TrackedPort, Mapped
  <2>1. CASE \E l \in Loops : Mapped(l)
    BY <2>1 DEF Inv, Binding
  <2>2. CASE \A l \in Loops : ~Mapped(l)
    BY <2>2 DEF Inv, Binding
  <2> QED
    BY <2>1, <2>2
<1> QED
  BY <1>1, Invariance, PTL

(* A returned Stop leaves a binding behind only by a race or a lost answer. *)
THEOREM NoLeak == Spec => []LeakOnlyByRace
<1>1. Inv => LeakOnlyByRace
  BY DEF Inv
<1> QED
  BY <1>1, Invariance, PTL

(* The port is written by the running cycle's renewals only.               *)
THEOREM PortChange == Spec => PortChangeIsCurrent
<1>1. ASSUME Inv, [Next]_vars, externalPort' # externalPort
      PROVE  raced \/ (started /\ externalPort' = newPort[starts])
  <2>1. PICK l \in Loops : LoopApply(l)
    BY <1>1 DEF Next, StopStep, Loop, SetPortChangeCallback, Start, StopBegin,
                StopTicker, StopUnmapOk, StopUnmapFail, StopReturn, LoopTick,
                LoopDone, LoopMapOk, LoopMapFail, LoopCallback, GatewayDrops,
                vars, manager
  <2>2. Renewing(l) /\ MuFree /\ externalPort' = newPort[l]
    BY <2>1 DEF LoopApply, Renewing
  <2> QED
    BY <1>1, <2>2 DEF Inv, CurrentRenews
<1>2. Inv /\ [Next]_vars
        => [externalPort' # externalPort
              => raced \/ (started /\ externalPort' = newPort[starts])]_vars
  BY <1>1
<1> QED
  BY <1>2, Invariance, PTL DEF Spec, PortChangeIsCurrent
=============================================================================
