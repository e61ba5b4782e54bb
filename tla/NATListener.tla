---------------------------- MODULE NATListener ----------------------------
(***************************************************************************)
(* The TCP listener of natlistener.go together with its renewal manager:   *)
(* goroutines that call Accept and Close, and the renewal goroutine that   *)
(* calls updateExternalPort.  Two mutexes are held across blocking calls:  *)
(* Close keeps l.mu while it takes r.mu inside Stop and while Stop waits   *)
(* for the gateway; the callback takes l.mu after renew released r.mu.     *)
(***************************************************************************)
EXTENDS Naturals

CONSTANTS
    Ports, NoPort,
    Closers,    \* goroutines that call Close, once each
    Acceptors,  \* goroutines that call Accept until it fails
    NoOne,      \* nobody holds l.mu
    MaxFaults   \* bound: failed mapper calls

ASSUME NoOneAssumption == NoOne \notin Closers
ASSUME PortsAssumption == NoPort \notin Ports
ASSUME BoundsAssumption == MaxFaults \in Nat

VARIABLES started, externalPort, onPortChange, stop, unmapping, starts, closed,
          ticking, pc, newPort, mapping, faults, raced, lost

VARIABLES
    lmu,        \* who holds l.mu across steps: NoOne or a closer
    lclosed,    \* l.closed
    lport,      \* l.externalPort
    addrPort,   \* the external port in l.addr
    fallback,   \* l.fallback; then l.renewal is nil
    socket,     \* the listening socket is open
    cpc,        \* where each closer stands
    apc         \* where each acceptor stands

RM == INSTANCE RenewalManager WITH MaxStarts <- 1, notified <- lport

renewalVars == <<started, externalPort, onPortChange, stop, unmapping, starts,
                 closed, ticking, pc, newPort, mapping, faults, raced, lost>>
listener == <<lmu, lclosed, lport, addrPort, fallback, socket>>
vars == <<renewalVars, listener, cpc, apc>>

TypeOK ==
    /\ RM!TypeOK
    /\ lmu \in Closers \cup {NoOne}
    /\ lport \in Ports /\ addrPort \in Ports
    /\ lclosed \in BOOLEAN /\ fallback \in BOOLEAN /\ socket \in BOOLEAN
    /\ cpc \in [Closers -> {"idle", "stop", "stopping", "socket", "returned"}]
    /\ apc \in [Acceptors -> {"idle", "waiting", "accepted", "failed"}]

(* ListenContext has registered the callback and started the renewal; or   *)
(* ListenWithFallbackContext has made a listener without a manager.        *)
Init ==
    /\ fallback \in BOOLEAN
    /\ externalPort \in Ports
    /\ lport = externalPort /\ addrPort = externalPort
    /\ started = ~fallback /\ onPortChange = ~fallback
    /\ mapping = IF fallback THEN NoPort ELSE externalPort
    /\ starts = IF fallback THEN 0 ELSE 1
    /\ ticking = 1..starts
    /\ pc = [l \in RM!Loops |-> IF fallback THEN "none" ELSE "select"]
    /\ newPort = [l \in RM!Loops |-> NoPort]
    /\ closed = {} /\ stop = "none" /\ unmapping = NoPort
    /\ faults = 0 /\ raced = FALSE /\ lost = FALSE
    /\ lmu = NoOne /\ lclosed = FALSE /\ socket = TRUE
    /\ cpc = [c \in Closers |-> "idle"]
    /\ apc = [a \in Acceptors |-> "idle"]

LMuFree == lmu = NoOne

-----------------------------------------------------------------------------
(* Close, which holds l.mu from CloseEnter to CloseSocket. *)

(* Mistake: l.closed is looked at without l.mu. *)
CloseAgainUnlocked(c) ==
    /\ cpc[c] = "idle" /\ lclosed
    /\ cpc' = [cpc EXCEPT ![c] = "returned"]
    /\ UNCHANGED <<renewalVars, listener, apc>>

CloseAgain(c) ==
    /\ cpc[c] = "idle" /\ LMuFree /\ lclosed
    /\ cpc' = [cpc EXCEPT ![c] = "returned"]
    /\ UNCHANGED <<renewalVars, listener, apc>>

CloseEnter(c) ==
    /\ cpc[c] = "idle" /\ LMuFree /\ ~lclosed
    /\ lmu' = c /\ lclosed' = TRUE
    /\ cpc' = [cpc EXCEPT ![c] = IF fallback THEN "socket" ELSE "stop"]
    /\ UNCHANGED <<renewalVars, lport, addrPort, fallback, socket, apc>>

(* Mistake: the callback is invoked under r.mu, which Stop then waits for. *)
CloseStopAfterCallback(c) ==
    /\ cpc[c] = "stop" /\ pc[1] # "callback"
    /\ RM!StopBegin
    /\ cpc' = [cpc EXCEPT ![c] = "stopping"]
    /\ UNCHANGED <<lmu, lclosed, addrPort, fallback, socket, apc>>

(* renewal.Stop() takes r.mu. *)
CloseStop(c) ==
    /\ cpc[c] = "stop"
    /\ RM!StopBegin
    /\ cpc' = [cpc EXCEPT ![c] = "stopping"]
    /\ UNCHANGED <<lmu, lclosed, addrPort, fallback, socket, apc>>

CloseStopping(c) ==
    /\ cpc[c] = "stopping"
    /\ RM!StopStep
    /\ cpc' = IF stop = "unmapping" THEN [cpc EXCEPT ![c] = "socket"] ELSE cpc
    /\ UNCHANGED <<lmu, lclosed, addrPort, fallback, socket, apc>>

(* Mistake: without a renewal manager the socket is forgotten. *)
CloseSocketMapped(c) ==
    /\ cpc[c] = "socket"
    /\ socket' = fallback /\ lmu' = NoOne
    /\ cpc' = [cpc EXCEPT ![c] = "returned"]
    /\ UNCHANGED <<renewalVars, lclosed, lport, addrPort, fallback, apc>>

CloseSocket(c) ==
    /\ cpc[c] = "socket"
    /\ socket' = FALSE /\ lmu' = NoOne
    /\ cpc' = [cpc EXCEPT ![c] = "returned"]
    /\ UNCHANGED <<renewalVars, lclosed, lport, addrPort, fallback, apc>>

Close(c) ==
    CloseAgain(c) \/ CloseEnter(c) \/ CloseStop(c) \/ CloseStopping(c)
        \/ CloseSocket(c)

-----------------------------------------------------------------------------
(* Accept looks at l.closed under l.mu and then waits without it.  What it *)
(* has taken from the socket it returns whatever happens meanwhile: Close  *)
(* may have returned by then.                                              *)

AcceptRefused(a) ==
    /\ apc[a] = "idle" /\ LMuFree /\ lclosed
    /\ apc' = [apc EXCEPT ![a] = "failed"]
    /\ UNCHANGED <<renewalVars, listener, cpc>>

AcceptWait(a) ==
    /\ apc[a] = "idle" /\ LMuFree /\ ~lclosed
    /\ apc' = [apc EXCEPT ![a] = "waiting"]
    /\ UNCHANGED <<renewalVars, listener, cpc>>

AcceptConn(a) ==
    /\ apc[a] = "waiting" /\ socket
    /\ apc' = [apc EXCEPT ![a] = "accepted"]
    /\ UNCHANGED <<renewalVars, listener, cpc>>

AcceptReturn(a) ==
    /\ apc[a] = "accepted"
    /\ apc' = [apc EXCEPT ![a] = "idle"]
    /\ UNCHANGED <<renewalVars, listener, cpc>>

AcceptFails(a) ==
    /\ apc[a] = "waiting" /\ ~socket
    /\ apc' = [apc EXCEPT ![a] = "failed"]
    /\ UNCHANGED <<renewalVars, listener, cpc>>

-----------------------------------------------------------------------------
(* The renewal goroutine. *)

(* Mistake: the address is not rebuilt. *)
UpdateExternalPortOnly(l) ==
    /\ LMuFree
    /\ RM!LoopCallback(l)
    /\ UNCHANGED <<lmu, lclosed, addrPort, fallback, socket, cpc, apc>>

(* Mistake: the port goes to the address, the listener's own is forgotten. *)
UpdateAddressOnly(l) ==
    /\ LMuFree
    /\ pc[l] = "callback"
    /\ addrPort' = newPort[l]
    /\ pc' = [pc EXCEPT ![l] = "select"]
    /\ newPort' = [newPort EXCEPT ![l] = NoPort]
    /\ UNCHANGED <<started, externalPort, onPortChange, stop, unmapping, starts,
                   closed, ticking, mapping, faults, raced, lost, lport, lmu,
                   lclosed, fallback, socket, cpc, apc>>

UpdateExternalPort(l) ==
    /\ LMuFree
    /\ RM!LoopCallback(l)
    /\ addrPort' = newPort[l]
    /\ UNCHANGED <<lmu, lclosed, fallback, socket, cpc, apc>>

RenewalStep ==
    /\ \/ \E l \in RM!Loops :
            \/ RM!LoopTick(l) \/ RM!LoopDone(l) \/ RM!LoopApply(l)
            \/ \E p \in Ports : RM!LoopMapOk(l, p)
            \/ \E m \in Ports \cup {mapping} : RM!LoopMapFail(l, m)
       \/ RM!GatewayDrops
    /\ UNCHANGED <<lmu, lclosed, addrPort, fallback, socket, cpc, apc>>

Next ==
    \/ \E c \in Closers : Close(c)
    \/ \E a \in Acceptors :
        \/ AcceptRefused(a) \/ AcceptWait(a) \/ AcceptConn(a) \/ AcceptReturn(a)
        \/ AcceptFails(a)
    \/ \E l \in RM!Loops : UpdateExternalPort(l)
    \/ RenewalStep

(* A goroutine that has called Close or Accept is scheduled, mutexes are   *)
(* starvation-free, tickers fire and mapper calls return.                  *)
RenewalFairness ==
    \A l \in RM!Loops :
        /\ WF_vars(RM!LoopTick(l) /\ RenewalStep)
        /\ WF_vars(RM!LoopDone(l) /\ RenewalStep)
        /\ WF_vars((\E p \in Ports : RM!LoopMapOk(l, p)) /\ RenewalStep)
        /\ SF_vars(RM!LoopApply(l) /\ RenewalStep)

Fairness ==
    /\ RenewalFairness
    /\ \A l \in RM!Loops : SF_vars(UpdateExternalPort(l))
    /\ \A c \in Closers :
        WF_vars(CloseStop(c)) /\ WF_vars(CloseStopping(c)) /\ WF_vars(CloseSocket(c))
    /\ \A a \in Acceptors :
        WF_vars(AcceptRefused(a)) /\ WF_vars(AcceptFails(a)) /\ WF_vars(AcceptReturn(a))

Spec == Init /\ [][Next]_vars /\ Fairness

-----------------------------------------------------------------------------
(* The listener's port, the port in its address and the manager's port     *)
(* agree whenever no callback is waiting for l.mu; and only the running    *)
(* callback's port may be missing.                                         *)
PortsAgree ==
    /\ addrPort = lport
    /\ lport # externalPort =>
         \E l \in RM!Loops : pc[l] = "callback" /\ newPort[l] = externalPort

(* When any Close has returned, a second one that found the listener       *)
(* closed included, the socket is closed, the renewal is stopped and the   *)
(* gateway's binding is gone, but for a renewal that raced the close or a  *)
(* lost answer.                                                            *)
ClosedMeansReleased ==
    (\E c \in Closers : cpc[c] = "returned") =>
        /\ ~socket /\ ~started
        /\ mapping # NoPort => raced \/ lost

(* Close returns: the goroutine that holds l.mu and wants r.mu never meets *)
(* one that holds r.mu and wants l.mu (renewalmanager.go 187).             *)
CloseReturns ==
    \A c \in Closers : cpc[c] # "idle" ~> cpc[c] = "returned"

(* A goroutine that serves connections learns of Close: the Accept it is   *)
(* in, or the next one after it has returned a last connection, fails.     *)
AcceptEnds ==
    \A a \in Acceptors :
        lclosed /\ apc[a] \in {"waiting", "accepted"} ~> apc[a] = "failed"

(* The listener publishes every port the gateway assigns, in order.        *)
Publication ==
    INSTANCE PortPublication WITH assigned <- externalPort, published <- lport
PublishesPorts == Publication!Spec
=============================================================================
