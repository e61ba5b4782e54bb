------------------------ MODULE TCPPunchMapperProofs ------------------------
(***************************************************************************)
(* The safety of the TCP punch mapper, for any number of concurrent calls  *)
(* of MapPort and UnmapPort and any ports.                                 *)
(***************************************************************************)
EXTENDS TCPPunchMapper, TLAPS

(* The call has made its object m.mapping, at some time. *)
Installed(s) == pc[s] = "spawn" \/ loop[s] # "none"

(* The stages of an object: it is dialled, queried, installed and spawned  *)
(* by its own MapPort, and from then on belongs to its goroutine.          *)
Stages ==
    \A s \in Calls :
        /\ loop[s] # "none" => pc[s] = "returned"
        /\ s \in done <=> loop[s] = "exited"
        /\ loop[s] = "exited" => s \in cancelled
        /\ live[s] => \/ loop[s] \in {"set", "run", "clear"}
                      \/ pc[s] \in {"query", "install", "spawn"}
        /\ pc[s] \in {"install", "spawn"} \/ loop[s] # "none" =>
              extPort[s] \in Ports
        /\ pc[s] \in {"install", "spawn"} => answer[s] \in Ports
        /\ pc[s] \in {"refresh", "read"} =>
              current[s] \in Calls /\ Installed(current[s])

(* An installed object is the mapper's, or an UnmapPort has taken it for   *)
(* good; only one that was taken, or was never installed, is cancelled.    *)
Ownership ==
    /\ mapping # None => Installed(mapping) /\ mapping \notin cancelled
    /\ \A s \in cancelled : Installed(s) \/ pc[s] = "failed"
    /\ \A s \in Calls : Installed(s) /\ loop[s] # "exited" =>
          s = mapping \/ \E u \in Unmaps : state[u] = s /\ upc[u] # "returned"

(* Where an UnmapPort stands with the object it has taken. *)
Taking ==
    \A u \in Unmaps :
        /\ upc[u] = "idle" => state[u] = None
        /\ upc[u] \in {"cancel", "close", "wait"} => state[u] # None
        /\ state[u] # None => Installed(state[u]) /\ mapping # state[u]
        /\ upc[u] = "returned" /\ state[u] # None => state[u] \in done

Inv == TypeOK /\ Stages /\ Ownership /\ Taking

(* The inductive invariant holds of a new mapper.                          *)
LEMMA InvInit == Init => Inv
<1> SUFFICES ASSUME Init PROVE Inv
  OBVIOUS
<1> USE NoneAssumption DEF Init
<1>1. TypeOK
  BY DEF TypeOK
<1>2. Stages /\ Ownership /\ Taking
  BY DEF Stages, Ownership, Taking, Installed
<1> QED
  BY <1>1, <1>2 DEF Inv

(* Every step preserves the inductive invariant.                           *)
LEMMA InvNext == Inv /\ [Next]_vars => Inv'
<1> SUFFICES ASSUME Inv, [Next]_vars PROVE Inv'
  OBVIOUS
<1> USE NoneAssumption DEF Inv, Installed, conns, mapCall, unmapCall
<1>1. ASSUME NEW c \in Calls, MapLook(c) PROVE Inv'
  <2> USE <1>1 DEF MapLook
  <2>1. TypeOK'
    BY DEF TypeOK
  <2>2. Stages'
    BY DEF TypeOK, Stages, Ownership
  <2>3. Ownership'
    BY DEF Ownership
  <2>4. Taking'
    BY DEF Taking
  <2> QED
    BY <2>1, <2>2, <2>3, <2>4
<1>2. ASSUME NEW c \in Calls, MapRead(c) PROVE Inv'
  <2> USE <1>2 DEF MapRead
  <2>1. TypeOK'
    BY DEF TypeOK, Stages
  <2>2. Stages'
    BY DEF Stages
  <2>3. Ownership'
    BY DEF Ownership
  <2>4. Taking'
    BY DEF Taking
  <2> QED
    BY <2>1, <2>2, <2>3, <2>4
<1>3. ASSUME NEW c \in Calls, NEW p \in Ports \cup {extPort[current[c]]},
             MapRefresh(c, p)
      PROVE  Inv'
  <2> USE <1>3 DEF MapRefresh
  <2>1. TypeOK'
    BY DEF TypeOK, Stages
  <2>2. Stages'
    BY DEF Stages
  <2>3. Ownership'
    BY DEF Ownership
  <2>4. Taking'
    BY DEF Taking
  <2> QED
    BY <2>1, <2>2, <2>3, <2>4
<1>4. ASSUME NEW c \in Calls, NEW ok \in BOOLEAN, MapDial(c, ok) PROVE Inv'
  <2> USE <1>4 DEF MapDial
  <2>1. TypeOK'
    BY DEF TypeOK
  <2>2. Stages'
    BY DEF TypeOK, Stages
  <2>3. Ownership'
    BY DEF Ownership
  <2>4. Taking'
    BY DEF Taking
  <2> QED
    BY <2>1, <2>2, <2>3, <2>4
<1>5. ASSUME NEW c \in Calls, NEW p \in Ports, MapQueryOk(c, p) PROVE Inv'
  <2> USE <1>5 DEF MapQueryOk
  <2>1. TypeOK'
    BY DEF TypeOK
  <2>2. Stages'
    BY DEF TypeOK, Stages
  <2>3. Ownership'
    BY DEF Ownership
  <2>4. Taking'
    BY DEF Taking
  <2> QED
    BY <2>1, <2>2, <2>3, <2>4
<1>6. ASSUME NEW c \in Calls, MapQueryFails(c) PROVE Inv'
  <2> USE <1>6 DEF MapQueryFails
  <2>1. TypeOK'
    BY DEF TypeOK
  <2>2. Stages'
    BY DEF TypeOK, Stages
  <2>3. Ownership'
    BY DEF Ownership
  <2>4. Taking'
    BY DEF Taking
  <2> QED
    BY <2>1, <2>2, <2>3, <2>4
<1>7. ASSUME NEW c \in Calls, MapInstall(c) PROVE Inv'
  <2> USE <1>7 DEF MapInstall
  <2>1. TypeOK'
    BY DEF TypeOK
  <2>2. Stages'
    BY DEF Stages
  <2>3. Ownership'
    BY DEF TypeOK, Stages, Ownership
  <2>4. Taking'
    BY DEF Stages, Taking
  <2> QED
    BY <2>1, <2>2, <2>3, <2>4
<1>8. ASSUME NEW c \in Calls, MapLoses(c) PROVE Inv'
  <2> USE <1>8 DEF MapLoses
  <2>1. TypeOK'
    BY DEF TypeOK
  <2>2. Stages'
    BY DEF TypeOK, Stages
  <2>3. Ownership'
    BY DEF TypeOK, Stages, Ownership
  <2>4. Taking'
    BY DEF Taking
  <2> QED
    BY <2>1, <2>2, <2>3, <2>4
<1>9. ASSUME NEW c \in Calls, MapSpawn(c) PROVE Inv'
  <2> USE <1>9 DEF MapSpawn
  <2>1. TypeOK'
    BY DEF TypeOK, Stages
  <2>2. Stages'
    BY DEF TypeOK, Stages
  <2>3. Ownership'
    BY DEF TypeOK, Stages, Ownership
  <2>4. Taking'
    BY DEF TypeOK, Taking
  <2> QED
    BY <2>1, <2>2, <2>3, <2>4
<1>10. ASSUME NEW u \in Unmaps, UnmapTake(u) PROVE Inv'
  <2> USE <1>10 DEF UnmapTake
  <2>1. TypeOK'
    BY DEF TypeOK
  <2>2. Stages'
    BY DEF Stages
  <2>3. Ownership'
    BY DEF TypeOK, Ownership, Taking
  <2>4. Taking'
    BY DEF TypeOK, Ownership, Taking
  <2> QED
    BY <2>1, <2>2, <2>3, <2>4
<1>11. ASSUME NEW u \in Unmaps, UnmapCancel(u) PROVE Inv'
  <2> USE <1>11 DEF UnmapCancel
  <2>1. TypeOK'
    BY DEF TypeOK, Taking
  <2>2. Stages'
    BY DEF Stages
  <2>3. Ownership'
    BY DEF Ownership, Taking
  <2>4. Taking'
    BY DEF Taking
  <2> QED
    BY <2>1, <2>2, <2>3, <2>4
<1>12. ASSUME NEW u \in Unmaps, UnmapClose(u) PROVE Inv'
  <2> USE <1>12 DEF UnmapClose
  <2>1. TypeOK'
    BY DEF TypeOK
  <2>2. Stages'
    BY DEF TypeOK, Stages
  <2>3. Ownership'
    BY DEF Ownership
  <2>4. Taking'
    BY DEF Taking
  <2> QED
    BY <2>1, <2>2, <2>3, <2>4
<1>13. ASSUME NEW u \in Unmaps, UnmapWait(u) PROVE Inv'
  <2> USE <1>13 DEF UnmapWait
  <2>1. TypeOK'
    BY DEF TypeOK
  <2>2. Stages'
    BY DEF Stages
  <2>3. Ownership'
    BY DEF Stages, Ownership
  <2>4. Taking'
    BY DEF Taking
  <2> QED
    BY <2>1, <2>2, <2>3, <2>4
<1>14. ASSUME NEW s \in Calls, LoopSet(s) PROVE Inv'
  <2> USE <1>14 DEF LoopSet
  <2>1. TypeOK'
    BY DEF TypeOK
  <2>2. Stages'
    BY DEF Stages
  <2>3. Ownership'
    BY DEF Ownership
  <2>4. Taking'
    BY DEF Taking
  <2> QED
    BY <2>1, <2>2, <2>3, <2>4
<1>15. ASSUME NEW s \in Calls, LoopConnFails(s) PROVE Inv'
  <2> USE <1>15 DEF LoopConnFails
  <2>1. TypeOK'
    BY DEF TypeOK
  <2>2. Stages'
    BY DEF Stages
  <2>3. Ownership'
    BY DEF Ownership
  <2>4. Taking'
    BY DEF Taking
  <2> QED
    BY <2>1, <2>2, <2>3, <2>4
<1>16. ASSUME NEW s \in Calls, LoopRunEnds(s) PROVE Inv'
  <2> USE <1>16 DEF LoopRunEnds
  <2>1. TypeOK'
    BY DEF TypeOK
  <2>2. Stages'
    BY DEF Stages
  <2>3. Ownership'
    BY DEF Ownership
  <2>4. Taking'
    BY DEF Taking
  <2> QED
    BY <2>1, <2>2, <2>3, <2>4
<1>17. ASSUME NEW s \in Calls, LoopClear(s) PROVE Inv'
  <2> USE <1>17 DEF LoopClear, LoopExit
  <2>1. TypeOK'
    BY DEF TypeOK
  <2>2. Stages'
    BY DEF TypeOK, Stages
  <2>3. Ownership'
    BY DEF TypeOK, Ownership
  <2>4. Taking'
    BY DEF TypeOK, Taking
  <2> QED
    BY <2>1, <2>2, <2>3, <2>4
<1>18. ASSUME NEW s \in Calls, LoopCancelled(s) PROVE Inv'
  <2> USE <1>18 DEF LoopCancelled, LoopExit
  <2>1. TypeOK'
    BY DEF TypeOK
  <2>2. Stages'
    BY DEF TypeOK, Stages
  <2>3. Ownership'
    BY DEF Ownership
  <2>4. Taking'
    BY DEF Taking
  <2> QED
    BY <2>1, <2>2, <2>3, <2>4
<1>19. ASSUME NEW s \in Calls, LoopRetry(s) PROVE Inv'
  <2> USE <1>19 DEF LoopRetry
  <2>1. TypeOK'
    BY DEF TypeOK
  <2>2. Stages'
    BY DEF Stages
  <2>3. Ownership'
    BY DEF Ownership
  <2>4. Taking'
    BY DEF Taking
  <2> QED
    BY <2>1, <2>2, <2>3, <2>4
<1>20. ASSUME NEW s \in Calls, LoopDialOk(s) PROVE Inv'
  <2> USE <1>20 DEF LoopDialOk
  <2>1. TypeOK'
    BY DEF TypeOK
  <2>2. Stages'
    BY DEF TypeOK, Stages
  <2>3. Ownership'
    BY DEF Ownership
  <2>4. Taking'
    BY DEF Taking
  <2> QED
    BY <2>1, <2>2, <2>3, <2>4
<1>21. ASSUME NEW s \in Calls, LoopDialFails(s) PROVE Inv'
  <2> USE <1>21 DEF LoopDialFails
  <2>1. TypeOK'
    BY DEF TypeOK
  <2>2. Stages'
    BY DEF Stages
  <2>3. Ownership'
    BY DEF Ownership
  <2>4. Taking'
    BY DEF Taking
  <2> QED
    BY <2>1, <2>2, <2>3, <2>4
<1>22. CASE UNCHANGED vars
  BY <1>22 DEF vars, TypeOK, Stages, Ownership, Taking
<1> QED
  BY <1>1, <1>2, <1>3, <1>4, <1>5, <1>6, <1>7, <1>8, <1>9, <1>10, <1>11,
     <1>12, <1>13, <1>14, <1>15, <1>16, <1>17, <1>18, <1>19, <1>20, <1>21, <1>22
  DEF Next, MapPort, UnmapPort, KeepAlive

(* The inductive invariant holds in every reachable state.                 *)
THEOREM Invariance == Spec => []Inv
<1> QED
  BY InvInit, InvNext, PTL DEF Spec

(* Every variable keeps its type, and MapPort never returns without a port *)
(* that the STUN server has reported.                                      *)
THEOREM Typing == Spec => []TypeOK
<1>1. Inv => TypeOK
  BY DEF Inv
<1> QED
  BY <1>1, Invariance, PTL

(* A goroutine that runs is the current mapping's, or an UnmapPort that    *)
(* has taken it has yet to return.                                         *)
THEOREM Orphans == Spec => []NoOrphan
<1>1. Inv => NoOrphan
  BY DEF Inv, Ownership, Installed, NoOrphan, Running
<1> QED
  BY <1>1, Invariance, PTL

(* What a returned UnmapPort took is closed, and its goroutine has exited. *)
THEOREM Stopping == Spec => []UnmapStops
<1>1. Inv => UnmapStops
  BY NoneAssumption DEF Inv, TypeOK, Stages, Taking, UnmapStops
<1> QED
  BY <1>1, Invariance, PTL

(* An open keepalive connection has somebody who will close it.            *)
THEOREM Ownerships == Spec => []ConnsAreOwned
<1>1. Inv => ConnsAreOwned
  BY DEF Inv, Stages, ConnsAreOwned, Running
<1> QED
  BY <1>1, Invariance, PTL
=============================================================================
