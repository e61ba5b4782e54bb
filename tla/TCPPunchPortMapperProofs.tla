---------------------- MODULE TCPPunchPortMapperProofs ----------------------
(***************************************************************************)
(* The safety of the composite TCP punch mapper under renewals and Stop,   *)
(* for any ports and any number of faults.                                 *)
(***************************************************************************)
EXTENDS TCPPunchPortMapper, TLAPS

(* Where the two goroutines stand with the mapping: Stop takes it for good *)
(* once a first MapPort has made it, and no MapPort that entered before    *)
(* is under way by then; it is named by the port renew knows or is about   *)
(* to record.                                                              *)
Control ==
    /\ rpc \in {"inner", "punch", "cleanup", "old"} /\ later = "never" =>
          spc \in {"running", "unmap"}
    /\ rpc \in {"punch", "cleanup", "old"} => got \in Ports
    /\ rpc \in {"old", "answered"} => answer \in Ports
    /\ rpc = "old" => mapping = [inner |-> got, punch |-> answer]
    /\ mapping # None =>
          mapping.punch = IF rpc \in {"old", "answered"} THEN answer ELSE rport
    /\ spc \in {"running", "unmap"} =>
          (mapping # None <=> rport # None \/ rpc \in {"old", "answered"})
    /\ rport = None => spc = "running" /\ later = "never"
    /\ stale => spc = "returned" /\ mapping # None
    /\ spc \in {"punch", "inner"} => taken \in Mappings
    /\ spc \in {"punch", "inner"} /\ later = "never" => mapping = None
    /\ spc = "returned" /\ ~stale /\ later = "never" => mapping = None
    /\ later = "after" => spc = "returned"

(* What the layers hold while there is a mapping: between MapInner and     *)
(* UnmapOld the old inner port may be bound too.                           *)
Mapped ==
    /\ punch = mapping.punch
    /\ rpc # "punch" => mapping.inner = got
    /\ inner \subseteq {mapping.inner} \cup
          CASE rpc = "punch" -> {got}
            [] rpc = "old" -> {old}
            [] OTHER -> {}
    /\ rpc \in {"punch", "old"} =>
          /\ got \in inner \/ gone
          /\ mapper = "natpmp" => inner \subseteq {got}
    /\ rpc \notin {"punch", "old"} =>
          mapping.inner \in inner \/ gone \/ NewDeleted

(* What they hold before a mapping is made and after it is taken. *)
Unmapped ==
    /\ punch = None
    /\ inner \subseteq IF rpc \in {"punch", "cleanup"} THEN {got} ELSE Kept(got)
    /\ rpc = "punch" => got \in inner \/ gone

Layers ==
    ~lost /\ later # "during" =>
        /\ mapping # None => Mapped
        /\ mapping = None /\ spc \notin {"punch", "inner"} => Unmapped
        /\ spc \in {"punch", "inner"} =>
              got = taken.inner /\ inner \subseteq {taken.inner}
        /\ spc = "inner" => punch = None
        /\ spc = "returned" /\ ~stale /\ later = "never" => got = taken.inner

Inv == TypeOK /\ Control /\ Layers

(* The inductive invariant holds before the first MapPort.                 *)
LEMMA InvInit == Init => Inv
<1> SUFFICES ASSUME Init PROVE Inv
  OBVIOUS
<1> USE NoneAssumption, InternalAssumption, BoundsAssumption DEF Init
<1>1. TypeOK
  <2>1. {lost, gone, stale} \subseteq BOOLEAN
    BY Zenon
  <2> QED
    BY <2>1 DEF TypeOK
<1>2. Control /\ Layers
  BY DEF Control, Layers, Mapped, Unmapped, NewDeleted, Kept
<1> QED
  BY <1>1, <1>2 DEF Inv

(* Every step preserves the inductive invariant.                           *)
LEMMA InvNext == Inv /\ [Next]_vars => Inv'
<1> SUFFICES ASSUME Inv, [Next]_vars PROVE Inv'
  OBVIOUS
<1> USE NoneAssumption, InternalAssumption, BoundsAssumption
    DEF Inv, Mappings, Mappers, gateways, mapPort, history
<1>1. CASE Tick
  <2> USE <1>1 DEF Tick
  <2>1. TypeOK'
    BY DEF TypeOK
  <2>2. Control'
    BY DEF Control
  <2>3. Layers'
    BY DEF TypeOK, Control, Layers, Mapped, Unmapped, NewDeleted, Kept
  <2> QED
    BY <2>1, <2>2, <2>3
<1>2. CASE MapEnter
  <2> USE <1>2 DEF MapEnter
  <2>1. TypeOK'
    BY DEF TypeOK
  <2>2. Control'
    BY DEF TypeOK, Control
  <2>3. Layers'
    <3> SUFFICES ASSUME ~lost', later' # "during"
                 PROVE  /\ mapping' # None => Mapped'
                        /\ mapping' = None /\ spc' \notin {"punch", "inner"}
                              => Unmapped'
                        /\ spc' \in {"punch", "inner"} =>
                              /\ got' = taken'.inner
                              /\ inner' \subseteq {taken'.inner}
                        /\ spc' = "inner" => punch' = None
                        /\ spc' = "returned" /\ ~stale' /\ later' = "never" =>
                              got' = taken'.inner
      BY DEF Layers
    <3>1. ~lost /\ later # "during"
      BY DEF TypeOK, Control
    <3>2. mapping' # None => Mapped'
      BY <3>1 DEF TypeOK, Control, Layers, Mapped, Unmapped, NewDeleted, Kept
    <3>3. mapping' = None /\ spc' \notin {"punch", "inner"} => Unmapped'
      BY <3>1 DEF TypeOK, Control, Layers, Unmapped, Kept
    <3>4. /\ spc' \in {"punch", "inner"} =>
                got' = taken'.inner /\ inner' \subseteq {taken'.inner}
          /\ spc' = "inner" => punch' = None
          /\ spc' = "returned" /\ ~stale' /\ later' = "never" =>
                got' = taken'.inner
      BY <3>1 DEF TypeOK, Control, Layers
    <3> QED
      BY <3>2, <3>3, <3>4
  <2> QED
    BY <2>1, <2>2, <2>3
<1>3. ASSUME NEW p \in Answers, MapInner(p) PROVE Inv'
  <2> USE <1>3 DEF MapInner, Answers, Bound
  <2>1. TypeOK'
    BY DEF TypeOK
  <2>2. Control'
    BY DEF Control
  <2>3. Layers'
    <3> SUFFICES ASSUME ~lost', later' # "during"
                 PROVE  /\ mapping' # None => Mapped'
                        /\ mapping' = None /\ spc' \notin {"punch", "inner"}
                              => Unmapped'
                        /\ spc' \in {"punch", "inner"} =>
                              /\ got' = taken'.inner
                              /\ inner' \subseteq {taken'.inner}
                        /\ spc' = "inner" => punch' = None
                        /\ spc' = "returned" /\ ~stale' /\ later' = "never" =>
                              got' = taken'.inner
      BY DEF Layers
    <3>1. ~lost /\ later # "during"
      BY DEF TypeOK, Control
    <3>2. mapping' # None => Mapped'
      BY <3>1 DEF TypeOK, Control, Layers, Mapped, Unmapped, NewDeleted, Kept
    <3>3. mapping' = None /\ spc' \notin {"punch", "inner"} => Unmapped'
      BY <3>1 DEF TypeOK, Control, Layers, Unmapped, Kept
    <3>4. /\ spc' \in {"punch", "inner"} =>
                got' = taken'.inner /\ inner' \subseteq {taken'.inner}
          /\ spc' = "inner" => punch' = None
          /\ spc' = "returned" /\ ~stale' /\ later' = "never" =>
                got' = taken'.inner
      BY <3>1 DEF TypeOK, Control, Layers
    <3> QED
      BY <3>2, <3>3, <3>4
  <2> QED
    BY <2>1, <2>2, <2>3
<1>4. CASE MapInnerFails
  <2> USE <1>4 DEF MapInnerFails, Answers, Bound, Fault
  <2>1. TypeOK'
    BY DEF TypeOK
  <2>2. Control'
    BY DEF Control
  <2>3. Layers'
    BY DEF TypeOK, Control, Layers, Mapped, Unmapped, NewDeleted, Kept
  <2> QED
    BY <2>1, <2>2, <2>3
<1>5. ASSUME NEW q \in Ports, MapPunch(q) PROVE Inv'
  <2> USE <1>5 DEF MapPunch
  <2>1. TypeOK'
    BY DEF TypeOK, Control
  <2>2. Control'
    BY DEF Control
  <2>3. Layers'
    <3> SUFFICES ASSUME ~lost', later' # "during"
                 PROVE  /\ mapping' # None => Mapped'
                        /\ mapping' = None /\ spc' \notin {"punch", "inner"}
                              => Unmapped'
                        /\ spc' \in {"punch", "inner"} =>
                              /\ got' = taken'.inner
                              /\ inner' \subseteq {taken'.inner}
                        /\ spc' = "inner" => punch' = None
                        /\ spc' = "returned" /\ ~stale' /\ later' = "never" =>
                              got' = taken'.inner
      BY DEF Layers
    <3>1. ~lost /\ later # "during"
      BY DEF TypeOK, Control
    <3>2. mapping' # None => Mapped'
      BY <3>1 DEF TypeOK, Control, Layers, Mapped, Unmapped, NewDeleted, Kept
    <3>3. mapping' = None /\ spc' \notin {"punch", "inner"} => Unmapped'
      BY <3>1 DEF TypeOK, Control, Layers, Unmapped, Kept
    <3>4. /\ spc' \in {"punch", "inner"} =>
                got' = taken'.inner /\ inner' \subseteq {taken'.inner}
          /\ spc' = "inner" => punch' = None
          /\ spc' = "returned" /\ ~stale' /\ later' = "never" =>
                got' = taken'.inner
      BY <3>1 DEF TypeOK, Control, Layers
    <3> QED
      BY <3>2, <3>3, <3>4
  <2> QED
    BY <2>1, <2>2, <2>3
<1>6. CASE MapPunchFails
  <2> USE <1>6 DEF MapPunchFails
  <2>1. TypeOK'
    BY DEF TypeOK
  <2>2. Control'
    BY DEF Control
  <2>3. Layers'
    BY DEF TypeOK, Control, Layers, Mapped, Unmapped, NewDeleted, Kept
  <2> QED
    BY <2>1, <2>2, <2>3
<1>7. CASE Cleanup
  <2> USE <1>7 DEF Cleanup, UnmapInner, Deletes, Fault
  <2>1. TypeOK'
    <3>1. inner' \subseteq Ports
      BY DEF TypeOK
    <3>2. faults' \in 0..MaxFaults
      BY DEF TypeOK
    <3>3. {lost, gone, stale}' \subseteq BOOLEAN
      BY Zenon DEF TypeOK
    <3> QED
      BY <3>1, <3>2, <3>3 DEF TypeOK
  <2>2. Control'
    BY DEF Control
  <2>3. Layers'
    BY DEF TypeOK, Control, Layers, Mapped, Unmapped, NewDeleted, Kept
  <2> QED
    BY <2>1, <2>2, <2>3
<1>8. CASE UnmapOld
  <2> USE <1>8 DEF UnmapOld, UnmapInner, Deletes, Fault
  <2>1. TypeOK'
    <3>1. inner' \subseteq Ports
      BY DEF TypeOK
    <3>2. faults' \in 0..MaxFaults
      BY DEF TypeOK
    <3>3. {lost, gone, stale}' \subseteq BOOLEAN
      BY Zenon DEF TypeOK
    <3> QED
      BY <3>1, <3>2, <3>3 DEF TypeOK
  <2>2. Control'
    BY DEF Control
  <2>3. Layers'
    BY DEF TypeOK, Control, Layers, Mapped, Unmapped, NewDeleted, Kept
  <2> QED
    BY <2>1, <2>2, <2>3
<1>9. CASE Apply
  <2> USE <1>9 DEF Apply, RMuFree
  <2>1. TypeOK'
    BY DEF TypeOK
  <2>2. Control'
    BY DEF Control
  <2>3. Layers'
    BY DEF TypeOK, Control, Layers, Mapped, Unmapped, NewDeleted, Kept
  <2> QED
    BY <2>1, <2>2, <2>3
<1>10. CASE StopBegin
  <2> USE <1>10 DEF StopBegin
  <2>1. TypeOK'
    BY DEF TypeOK
  <2>2. Control'
    BY DEF Control
  <2>3. Layers'
    BY DEF TypeOK, Control, Layers, Mapped, Unmapped, NewDeleted, Kept
  <2> QED
    BY <2>1, <2>2, <2>3
<1>11. CASE UnmapTake
  <2> USE <1>11 DEF UnmapTake, MMuFree
  <2>1. TypeOK'
    BY DEF TypeOK
  <2>2. Control'
    BY DEF TypeOK, Control
  <2>3. Layers'
    BY DEF TypeOK, Control, Layers, Mapped, Unmapped, NewDeleted, Kept
  <2> QED
    BY <2>1, <2>2, <2>3
<1>12. CASE UnmapIgnored
  <2> USE <1>12 DEF UnmapIgnored, MMuFree
  <2>1. TypeOK'
    BY DEF TypeOK
  <2>2. Control'
    BY DEF Control
  <2>3. Layers'
    BY DEF TypeOK, Control, Layers, Mapped, Unmapped, NewDeleted, Kept
  <2> QED
    BY <2>1, <2>2, <2>3
<1>13. CASE UnmapPunch
  <2> USE <1>13 DEF UnmapPunch
  <2>1. TypeOK'
    BY DEF TypeOK
  <2>2. Control'
    BY DEF Control
  <2>3. Layers'
    <3> SUFFICES ASSUME ~lost', later' # "during"
                 PROVE  /\ mapping' # None => Mapped'
                        /\ mapping' = None /\ spc' \notin {"punch", "inner"}
                              => Unmapped'
                        /\ spc' \in {"punch", "inner"} =>
                              /\ got' = taken'.inner
                              /\ inner' \subseteq {taken'.inner}
                        /\ spc' = "inner" => punch' = None
                        /\ spc' = "returned" /\ ~stale' /\ later' = "never" =>
                              got' = taken'.inner
      BY DEF Layers
    <3>1. ~lost /\ later # "during"
      BY DEF TypeOK, Control
    <3>2. mapping' # None => Mapped'
      BY <3>1 DEF TypeOK, Control, Layers, Mapped, Unmapped, NewDeleted, Kept
    <3>3. mapping' = None /\ spc' \notin {"punch", "inner"} => Unmapped'
      BY <3>1 DEF TypeOK, Control, Layers, Unmapped, Kept
    <3>4. /\ spc' \in {"punch", "inner"} =>
                got' = taken'.inner /\ inner' \subseteq {taken'.inner}
          /\ spc' = "inner" => punch' = None
          /\ spc' = "returned" /\ ~stale' /\ later' = "never" =>
                got' = taken'.inner
      BY <3>1 DEF TypeOK, Control, Layers
    <3> QED
      BY <3>2, <3>3, <3>4
  <2> QED
    BY <2>1, <2>2, <2>3
<1>14. CASE UnmapTakenInner
  <2> USE <1>14 DEF UnmapTakenInner, UnmapInner, Deletes, Fault
  <2>1. TypeOK'
    <3>1. inner' \subseteq Ports
      BY DEF TypeOK
    <3>2. faults' \in 0..MaxFaults
      BY DEF TypeOK
    <3>3. {lost, gone, stale}' \subseteq BOOLEAN
      BY Zenon DEF TypeOK
    <3> QED
      BY <3>1, <3>2, <3>3 DEF TypeOK
  <2>2. Control'
    BY DEF Control
  <2>3. Layers'
    BY DEF TypeOK, Control, Layers, Mapped, Unmapped, NewDeleted, Kept
  <2> QED
    BY <2>1, <2>2, <2>3
<1>15. CASE RouterDrops
  <2> USE <1>15 DEF RouterDrops
  <2>1. TypeOK'
    BY DEF TypeOK
  <2>2. Control'
    BY DEF Control
  <2>3. Layers'
    BY DEF TypeOK, Control, Layers, Mapped, Unmapped, NewDeleted, Kept
  <2> QED
    BY <2>1, <2>2, <2>3
<1>16. CASE UNCHANGED vars
  BY <1>16 DEF vars, TypeOK, Control, Layers, Mapped, Unmapped, NewDeleted, Kept
<1> QED
  BY <1>1, <1>2, <1>3, <1>4, <1>5, <1>6, <1>7, <1>8, <1>9, <1>10, <1>11,
     <1>12, <1>13, <1>14, <1>15, <1>16
  DEF Next, MapStep, StopStep

(* The inductive invariant holds in every reachable state.                 *)
THEOREM Invariance == Spec => []Inv
<1> QED
  BY InvInit, InvNext, PTL DEF Spec

(* Every variable keeps its type.                                          *)
THEOREM Typing == Spec => []TypeOK
<1>1. Inv => TypeOK
  BY DEF Inv
<1> QED
  BY <1>1, Invariance, PTL

(* Outside MapPort the mapping records exactly what both layers hold,      *)
(* however often renewals changed either port or failed, for each kind of  *)
(* inner mapper.                                                           *)
THEOREM Tracking == Spec => []MappingTracks
<1>1. Inv => MappingTracks
  BY DEF Inv, TypeOK, Control, Layers, Mapped, NewDeleted, MMuFree,
         MappingTracks
<1> QED
  BY <1>1, Invariance, PTL

(* A Stop that no MapPort overtook has released both layers, but for what  *)
(* NAT-PMP cannot name, or has touched neither of them.                    *)
THEOREM Released == Spec => []BothLayersReleased
<1>1. Inv => BothLayersReleased
  BY DEF Inv, TypeOK, Control, Layers, Mapped, Unmapped, Kept,
         BothLayersReleased
<1> QED
  BY <1>1, Invariance, PTL

(* A first MapPort that fails leaves no session, and no inner mapping      *)
(* but one that NAT-PMP cannot name.                                       *)
THEOREM FirstFailure == Spec => []FirstFailureLeavesNothing
<1>1. Inv => FirstFailureLeavesNothing
  BY DEF Inv, Control, Layers, Unmapped, FirstFailureLeavesNothing, Kept
<1> QED
  BY <1>1, Invariance, PTL
=============================================================================
