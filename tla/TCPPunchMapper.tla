--------------------------- MODULE TCPPunchMapper ---------------------------
(***************************************************************************)
(* The TCP punch mapper of tcppunchmapper.go: MapPort dials a keepalive    *)
(* connection from the local port and leaves a goroutine that keeps it     *)
(* open and redials it; UnmapPort cancels that goroutine, closes its       *)
(* connection and waits for it.  Any of them may be called concurrently.   *)
(*                                                                         *)
(* A MapPort call that gets as far as dialling makes one tcpPunchMapping;  *)
(* the model names that object by the call.  state.conn is either nil or   *)
(* the connection the goroutine holds, since setConn is only ever given    *)
(* that one, so two Booleans stand for both.                               *)
(***************************************************************************)
EXTENDS Naturals

CONSTANTS
    Calls,      \* calls of MapPort, and the tcpPunchMapping each may make
    Unmaps,     \* calls of UnmapPort
    Locals,     \* internal ports
    Ports,      \* public ports the STUN server may report
    None        \* no object, or no port

ASSUME NoneAssumption == None \notin Calls \cup Ports

VARIABLES
    mapping,    \* m.mapping
    extPort,    \* externalPort of each tcpPunchMapping
    cancelled,  \* tcpPunchMappings whose context is cancelled
    done,       \* tcpPunchMappings whose done channel is closed
    live,       \* whether its keepalive connection is not closed yet
    reg,        \* whether state.conn holds it
    loop,       \* where each keepAliveLoop stands
    pc,         \* where each MapPort stands
    local,      \* its argument internalPort
    current,    \* its local variable current
    answer,     \* the port it has been told, and returns
    upc,        \* where each UnmapPort stands
    state       \* its local variable state

conns == <<live, reg>>
mapCall == <<pc, local, current, answer>>
unmapCall == <<upc, state>>
vars == <<mapping, extPort, cancelled, done, conns, loop, mapCall, unmapCall>>

TypeOK ==
    /\ mapping \in Calls \cup {None}
    /\ extPort \in [Calls -> Ports \cup {None}]
    /\ cancelled \subseteq Calls /\ done \subseteq Calls
    /\ live \in [Calls -> BOOLEAN] /\ reg \in [Calls -> BOOLEAN]
    /\ loop \in [Calls -> {"none", "set", "run", "clear", "retry", "dial",
                           "exited"}]
    /\ pc \in [Calls -> {"idle", "refresh", "read", "dial", "query", "install",
                         "spawn", "failed", "returned"}]
    /\ local \in [Calls -> Locals]
    /\ current \in [Calls -> Calls \cup {None}]
    /\ answer \in [Calls -> Ports \cup {None}]
    /\ \A c \in Calls : pc[c] = "returned" => answer[c] \in Ports
    /\ upc \in [Unmaps -> {"idle", "cancel", "close", "wait", "returned"}]
    /\ state \in [Unmaps -> Calls \cup {None}]

Init ==
    /\ mapping = None
    /\ extPort = [c \in Calls |-> None]
    /\ cancelled = {} /\ done = {}
    /\ live = [c \in Calls |-> FALSE] /\ reg = [c \in Calls |-> FALSE]
    /\ loop = [c \in Calls |-> "none"]
    /\ pc = [c \in Calls |-> "idle"]
    /\ local \in [Calls -> Locals]
    /\ current = [c \in Calls |-> None]
    /\ answer = [c \in Calls |-> None]
    /\ upc = [u \in Unmaps |-> "idle"]
    /\ state = [u \in Unmaps |-> None]

-----------------------------------------------------------------------------
(* MapPort. *)

MapLook(c) ==
    /\ pc[c] = "idle"
    /\ current' = [current EXCEPT ![c] = mapping]
    /\ pc' = [pc EXCEPT ![c] =
                IF mapping = None THEN "dial"
                ELSE IF local[mapping] = local[c] THEN "refresh" ELSE "failed"]
    /\ UNCHANGED <<mapping, extPort, cancelled, done, conns, loop, local, answer,
                   unmapCall>>

(* The STUN server reports p; when it does not answer, p is the old port.  *)
MapRefresh(c, p) ==
    /\ pc[c] = "refresh"
    /\ extPort' = [extPort EXCEPT ![current[c]] = p]
    /\ pc' = [pc EXCEPT ![c] = "read"]
    /\ UNCHANGED <<mapping, cancelled, done, conns, loop, local, current, answer,
                   unmapCall>>

MapRead(c) ==
    /\ pc[c] = "read"
    /\ answer' = [answer EXCEPT ![c] = extPort[current[c]]]
    /\ pc' = [pc EXCEPT ![c] = "returned"]
    /\ UNCHANGED <<mapping, extPort, cancelled, done, conns, loop, local, current,
                   unmapCall>>

MapDial(c, ok) ==
    /\ pc[c] = "dial"
    /\ live' = [live EXCEPT ![c] = ok]
    /\ pc' = [pc EXCEPT ![c] = IF ok THEN "query" ELSE "failed"]
    /\ UNCHANGED <<mapping, extPort, cancelled, done, reg, loop, local, current,
                   answer, unmapCall>>

MapQueryOk(c, p) ==
    /\ pc[c] = "query"
    /\ extPort' = [extPort EXCEPT ![c] = p]
    /\ answer' = [answer EXCEPT ![c] = p]
    /\ reg' = [reg EXCEPT ![c] = TRUE]
    /\ pc' = [pc EXCEPT ![c] = "install"]
    /\ UNCHANGED <<mapping, cancelled, done, live, loop, local, current, unmapCall>>

(* Mistake: the connection stays open. *)
MapQueryFailsKeepsConn(c) ==
    /\ pc[c] = "query"
    /\ pc' = [pc EXCEPT ![c] = "failed"]
    /\ UNCHANGED <<mapping, extPort, cancelled, done, conns, loop, local, current,
                   answer, unmapCall>>

MapQueryFails(c) ==
    /\ pc[c] = "query"
    /\ live' = [live EXCEPT ![c] = FALSE]
    /\ pc' = [pc EXCEPT ![c] = "failed"]
    /\ UNCHANGED <<mapping, extPort, cancelled, done, reg, loop, local, current,
                   answer, unmapCall>>

(* Mistake: m.mapping is not looked at again. *)
MapInstallAlways(c) ==
    /\ pc[c] = "install"
    /\ mapping' = c
    /\ pc' = [pc EXCEPT ![c] = "spawn"]
    /\ UNCHANGED <<extPort, cancelled, done, conns, loop, local, current, answer,
                   unmapCall>>

MapInstall(c) ==
    /\ pc[c] = "install" /\ mapping = None
    /\ mapping' = c
    /\ pc' = [pc EXCEPT ![c] = "spawn"]
    /\ UNCHANGED <<extPort, cancelled, done, conns, loop, local, current, answer,
                   unmapCall>>

(* Another call was faster. *)
MapLoses(c) ==
    /\ pc[c] = "install" /\ mapping # None
    /\ cancelled' = cancelled \cup {c}
    /\ live' = [live EXCEPT ![c] = FALSE] /\ reg' = [reg EXCEPT ![c] = FALSE]
    /\ pc' = [pc EXCEPT ![c] = "failed"]
    /\ UNCHANGED <<mapping, extPort, done, loop, local, current, answer, unmapCall>>

(* The call returns the port it was told, which a refresh by another call  *)
(* may have replaced by now.                                               *)
MapSpawn(c) ==
    /\ pc[c] = "spawn"
    /\ loop' = [loop EXCEPT ![c] = "set"]
    /\ pc' = [pc EXCEPT ![c] = "returned"]
    /\ UNCHANGED <<mapping, extPort, cancelled, done, conns, local, current,
                   answer, unmapCall>>

-----------------------------------------------------------------------------
(* UnmapPort. *)

UnmapTake(u) ==
    /\ upc[u] = "idle"
    /\ state' = [state EXCEPT ![u] = mapping]
    /\ mapping' = None
    /\ upc' = [upc EXCEPT ![u] = IF mapping = None THEN "returned" ELSE "cancel"]
    /\ UNCHANGED <<extPort, cancelled, done, conns, loop, mapCall>>

(* Mistake: the connection is closed, its context is not cancelled. *)
UnmapCancelForgotten(u) ==
    /\ upc[u] = "cancel"
    /\ upc' = [upc EXCEPT ![u] = "close"]
    /\ UNCHANGED <<mapping, extPort, cancelled, done, conns, loop, mapCall, state>>

UnmapCancel(u) ==
    /\ upc[u] = "cancel"
    /\ cancelled' = cancelled \cup {state[u]}
    /\ upc' = [upc EXCEPT ![u] = "close"]
    /\ UNCHANGED <<mapping, extPort, done, conns, loop, mapCall, state>>

UnmapClose(u) ==
    /\ upc[u] = "close"
    /\ live' = [live EXCEPT ![state[u]] = @ /\ ~reg[state[u]]]
    /\ reg' = [reg EXCEPT ![state[u]] = FALSE]
    /\ upc' = [upc EXCEPT ![u] = "wait"]
    /\ UNCHANGED <<mapping, extPort, cancelled, done, loop, mapCall, state>>

(* Mistake: UnmapPort does not wait for the goroutine. *)
UnmapNoWait(u) ==
    /\ upc[u] = "wait"
    /\ upc' = [upc EXCEPT ![u] = "returned"]
    /\ UNCHANGED <<mapping, extPort, cancelled, done, conns, loop, mapCall, state>>

UnmapWait(u) ==
    /\ upc[u] = "wait" /\ state[u] \in done
    /\ upc' = [upc EXCEPT ![u] = "returned"]
    /\ UNCHANGED <<mapping, extPort, cancelled, done, conns, loop, mapCall, state>>

-----------------------------------------------------------------------------
(* keepAliveLoop. *)

LoopExit(s) ==
    /\ loop' = [loop EXCEPT ![s] = "exited"]
    /\ done' = done \cup {s}

LoopSet(s) ==
    /\ loop[s] = "set"
    /\ reg' = [reg EXCEPT ![s] = TRUE]
    /\ loop' = [loop EXCEPT ![s] = "run"]
    /\ UNCHANGED <<mapping, extPort, cancelled, done, live, mapCall, unmapCall>>

(* runKeepAliveConn: the peer closes the connection, or a deadline passes. *)
LoopConnFails(s) ==
    /\ loop[s] = "run"
    /\ loop' = [loop EXCEPT ![s] = "clear"]
    /\ UNCHANGED <<mapping, extPort, cancelled, done, conns, mapCall, unmapCall>>

(* It notices that the context is done, or its connection closed locally.  *)
LoopRunEnds(s) ==
    /\ loop[s] = "run" /\ (~live[s] \/ s \in cancelled)
    /\ loop' = [loop EXCEPT ![s] = "clear"]
    /\ UNCHANGED <<mapping, extPort, cancelled, done, conns, mapCall, unmapCall>>

LoopClear(s) ==
    /\ loop[s] = "clear"
    /\ reg' = [reg EXCEPT ![s] = FALSE]
    /\ live' = [live EXCEPT ![s] = FALSE]
    /\ IF s \in cancelled
          THEN LoopExit(s)
          ELSE loop' = [loop EXCEPT ![s] = "retry"] /\ UNCHANGED done
    /\ UNCHANGED <<mapping, extPort, cancelled, mapCall, unmapCall>>

LoopCancelled(s) ==
    /\ loop[s] = "retry" /\ s \in cancelled
    /\ LoopExit(s)
    /\ UNCHANGED <<mapping, extPort, cancelled, conns, mapCall, unmapCall>>

LoopRetry(s) ==
    /\ loop[s] = "retry"
    /\ loop' = [loop EXCEPT ![s] = "dial"]
    /\ UNCHANGED <<mapping, extPort, cancelled, done, conns, mapCall, unmapCall>>

LoopDialOk(s) ==
    /\ loop[s] = "dial"
    /\ live' = [live EXCEPT ![s] = TRUE]
    /\ loop' = [loop EXCEPT ![s] = "set"]
    /\ UNCHANGED <<mapping, extPort, cancelled, done, reg, mapCall, unmapCall>>

(* Mistake: the goroutine gives up when it cannot redial. *)
LoopDialFailsExits(s) ==
    /\ loop[s] = "dial"
    /\ LoopExit(s)
    /\ UNCHANGED <<mapping, extPort, cancelled, conns, mapCall, unmapCall>>

(* The loop goes round with the closed connection it still holds. *)
LoopDialFails(s) ==
    /\ loop[s] = "dial"
    /\ loop' = [loop EXCEPT ![s] = "set"]
    /\ UNCHANGED <<mapping, extPort, cancelled, done, conns, mapCall, unmapCall>>

-----------------------------------------------------------------------------
MapPort(c) ==
    \/ MapLook(c) \/ MapRead(c)
    \/ pc[c] = "refresh" /\
         \E p \in Ports \cup {extPort[current[c]]} : MapRefresh(c, p)
    \/ \E ok \in BOOLEAN : MapDial(c, ok)
    \/ \E p \in Ports : MapQueryOk(c, p)
    \/ MapQueryFails(c) \/ MapInstall(c) \/ MapLoses(c) \/ MapSpawn(c)

UnmapPort(u) == UnmapTake(u) \/ UnmapCancel(u) \/ UnmapClose(u) \/ UnmapWait(u)

KeepAlive(s) ==
    \/ LoopSet(s) \/ LoopRunEnds(s) \/ LoopClear(s) \/ LoopCancelled(s)
    \/ LoopRetry(s) \/ LoopDialOk(s) \/ LoopDialFails(s)

Next ==
    \/ \E c \in Calls : MapPort(c) \/ KeepAlive(c) \/ LoopConnFails(c)
    \/ \E u \in Unmaps : UnmapPort(u)

(* Dials and reads have deadlines, so every step of a call that has begun  *)
(* and of the goroutine is taken; a redial that is tried again and again   *)
(* succeeds at last; nobody is obliged to begin a call.                    *)
Fairness ==
    /\ \A c \in Calls :
        /\ WF_vars(pc[c] # "idle" /\ MapPort(c))
        /\ WF_vars(KeepAlive(c)) /\ SF_vars(LoopDialOk(c))
    /\ \A u \in Unmaps : WF_vars(upc[u] # "idle" /\ UnmapPort(u))

Spec == Init /\ [][Next]_vars /\ Fairness

-----------------------------------------------------------------------------
Running(s) == loop[s] \notin {"none", "exited"}

(* No keepalive goroutine is orphaned: each one is the mapper's current    *)
(* mapping's, or some UnmapPort is about to stop it and waits for it, so   *)
(* two MapPort calls that both found no mapping never leave two.           *)
NoOrphan ==
    \A s \in Calls : Running(s) =>
        s = mapping \/ \E u \in Unmaps : state[u] = s /\ upc[u] # "returned"

(* When UnmapPort returns, the keepalive connection it was to stop is      *)
(* closed for good: no redial that was under way brings it back.           *)
UnmapStops ==
    \A u \in Unmaps :
        upc[u] = "returned" /\ state[u] # None =>
            ~live[state[u]] /\ loop[state[u]] = "exited"

(* An open connection belongs to a goroutine that will close it, or to a   *)
(* MapPort still under way: no error path of MapPort leaves one behind.    *)
ConnsAreOwned ==
    \A s \in Calls : live[s] =>
        Running(s) \/ pc[s] \in {"query", "install", "spawn"}

(* UnmapPort returns, whatever the goroutine it waits for is doing, the    *)
(* goroutine that has yet to be started included.                          *)
UnmapReturns == \A u \in Unmaps : upc[u] = "cancel" ~> upc[u] = "returned"

(* A mapping in use gets its connection back after each failure.           *)
Reconnects ==
    \A s \in Calls : mapping = s /\ ~live[s] ~> live[s] \/ mapping # s
=============================================================================
