------------------------- MODULE NATPacketListener -------------------------
(***************************************************************************)
(* The UDP listener of natpacketlistener.go, the NATPacketConn wrapper of  *)
(* natpacketconn.go it caches, and the renewal manager they share.  Closing *)
(* differs from the TCP listener's: the socket may be closed through the   *)
(* listener and through the wrapper, and sync.Once is to make that one     *)
(* close.  The rest of Close, and the renewal, are the TCP listener's.     *)
(***************************************************************************)
EXTENDS Naturals

CONSTANTS
    Ports, NoPort, NoOne, MaxFaults,
    Closers,    \* goroutines that call the listener's Close, once each
    Users       \* goroutines that take the wrapper and close it, once each

ASSUME NoOneAssumption == NoOne \notin Closers
ASSUME CallersAssumption == Closers \cap Users = {}
ASSUME PortsAssumption == NoPort \notin Ports
ASSUME BoundsAssumption == MaxFaults \in Nat

VARIABLES started, externalPort, onPortChange, stop, unmapping, starts, closed,
          ticking, pc, newPort, mapping, faults, raced, lost

VARIABLES lmu, lclosed, lport, addrPort, fallback, socket, cpc

VARIABLES
    cached,     \* l.cachedPacketConn # nil
    connPort,   \* the external port in the wrapper's localAddr
    once,       \* the wrapper's closeOnce has run
    closeErr,   \* the wrapper's closeErr: "nil" or "error"
    closes,     \* Close calls the socket has seen
    upc,        \* where each user stands
    result,     \* what each Close returned; "already": nil, closed before
    late        \* history: the wrapper was made after the listener closed

NL == INSTANCE NATListener WITH Acceptors <- {}, apc <- <<>>

Callers == Closers \cup Users
renewalVars == <<started, externalPort, onPortChange, stop, unmapping, starts,
                 closed, ticking, pc, newPort, mapping, faults, raced, lost>>
listener == <<lmu, lclosed, lport, addrPort, fallback, socket>>
wrapper == <<cached, connPort, once, closeErr>>
packetVars == <<wrapper, closes, upc, result, late>>
vars == <<renewalVars, listener, cpc, packetVars>>

TypeOK ==
    /\ NL!TypeOK
    /\ cached \in BOOLEAN /\ once \in BOOLEAN /\ late \in BOOLEAN
    /\ connPort \in Ports \cup {NoPort}
    /\ closeErr \in {"nil", "error"} /\ closes \in 0..2
    /\ upc \in [Users -> {"idle", "holding", "refused", "closed"}]
    /\ result \in [Callers -> {"none", "already", "nil", "error"}]

Init ==
    /\ NL!Init
    /\ cached = FALSE /\ connPort = NoPort
    /\ once = FALSE /\ closeErr = "nil" /\ closes = 0
    /\ upc = [u \in Users |-> "idle"]
    /\ result = [c \in Callers |-> "none"]
    /\ late = FALSE

-----------------------------------------------------------------------------
(* The socket's Close: the first may fail, every further one does. *)
SocketClose(err) ==
    /\ closes' = closes + 1
    /\ socket' = FALSE
    /\ socket \/ err = "error"

(* Mistake: the error is returned, but not kept for the next caller. *)
WrapperCloseForgets(c) ==
    IF once
       THEN /\ result' = [result EXCEPT ![c] = closeErr]
            /\ UNCHANGED <<once, closeErr, closes, socket>>
       ELSE \E err \in {"nil", "error"} :
               /\ SocketClose(err)
               /\ once' = TRUE /\ UNCHANGED closeErr
               /\ result' = [result EXCEPT ![c] = err]

(* NATPacketConn.Close by caller c: closeOnce.Do, then closeErr. *)
WrapperClose(c) ==
    IF once
       THEN /\ result' = [result EXCEPT ![c] = closeErr]
            /\ UNCHANGED <<once, closeErr, closes, socket>>
       ELSE \E err \in {"nil", "error"} :
               /\ SocketClose(err)
               /\ once' = TRUE /\ closeErr' = err
               /\ result' = [result EXCEPT ![c] = err]

-----------------------------------------------------------------------------
(* The users: Accept or PacketConn, then Close on what they were given. *)

GetOrCreate(u) ==
    /\ cached' = TRUE
    /\ connPort' = IF cached THEN connPort ELSE addrPort
    /\ late' = (late \/ (~cached /\ lclosed))
    /\ upc' = [upc EXCEPT ![u] = "holding"]
    /\ UNCHANGED <<renewalVars, listener, cpc, once, closeErr, closes,
                   result>>

Accept(u) ==
    /\ upc[u] = "idle" /\ NL!LMuFree /\ ~lclosed
    /\ GetOrCreate(u)

AcceptRefused(u) ==
    /\ upc[u] = "idle" /\ NL!LMuFree /\ lclosed
    /\ upc' = [upc EXCEPT ![u] = "refused"]
    /\ UNCHANGED <<renewalVars, listener, cpc, wrapper, closes, result, late>>

PacketConn(u) ==
    /\ upc[u] = "idle" /\ NL!LMuFree
    /\ GetOrCreate(u)

UserClose(u) ==
    /\ upc[u] = "holding"
    /\ WrapperClose(u)
    /\ upc' = [upc EXCEPT ![u] = "closed"]
    /\ UNCHANGED <<renewalVars, lmu, lclosed, lport, addrPort, fallback, cpc,
                   cached, connPort, late>>

-----------------------------------------------------------------------------
(* The listener's Close, which holds l.mu throughout. *)

(* Mistake: l.closed is looked at without l.mu. *)
CloseAgainUnlocked(c) ==
    /\ cpc[c] = "idle" /\ lclosed
    /\ cpc' = [cpc EXCEPT ![c] = "returned"]
    /\ result' = [result EXCEPT ![c] = "already"]
    /\ UNCHANGED <<renewalVars, listener, wrapper, closes, upc, late>>

CloseAgain(c) ==
    /\ NL!CloseAgain(c)
    /\ result' = [result EXCEPT ![c] = "already"]
    /\ UNCHANGED <<wrapper, closes, upc, late>>

(* Mistake: the callback is invoked under r.mu, which Stop then waits for. *)
CloseStartAfterCallback(c) ==
    /\ \/ NL!CloseEnter(c)
       \/ NL!CloseStop(c) /\ pc[1] # "callback"
       \/ NL!CloseStopping(c)
    /\ UNCHANGED packetVars

CloseStart(c) ==
    /\ NL!CloseEnter(c) \/ NL!CloseStop(c) \/ NL!CloseStopping(c)
    /\ UNCHANGED packetVars

(* Mistake: the listener closes the socket past its wrapper. *)
CloseConnDirect(c) ==
    /\ cpc[c] = "socket"
    /\ \E err \in {"nil", "error"} :
           SocketClose(err) /\ result' = [result EXCEPT ![c] = err]
    /\ lmu' = NoOne
    /\ cpc' = [cpc EXCEPT ![c] = "returned"]
    /\ UNCHANGED <<renewalVars, lclosed, lport, addrPort, fallback, wrapper,
                   upc, late>>

CloseConn(c) ==
    /\ cpc[c] = "socket"
    /\ IF cached
          THEN WrapperClose(c)
          ELSE \E err \in {"nil", "error"} :
                  /\ SocketClose(err)
                  /\ result' = [result EXCEPT ![c] = err]
                  /\ UNCHANGED <<once, closeErr>>
    /\ lmu' = NoOne
    /\ cpc' = [cpc EXCEPT ![c] = "returned"]
    /\ UNCHANGED <<renewalVars, lclosed, lport, addrPort, fallback, cached,
                   connPort, upc, late>>

Close(c) == CloseAgain(c) \/ CloseStart(c) \/ CloseConn(c)

-----------------------------------------------------------------------------
(* The renewal goroutine. *)

(* Mistake: the wrapper keeps the address it was made with. *)
UpdateListenerOnly(l) ==
    /\ NL!UpdateExternalPort(l)
    /\ UNCHANGED packetVars

UpdateExternalPort(l) ==
    /\ NL!UpdateExternalPort(l)
    /\ connPort' = IF cached THEN newPort[l] ELSE connPort
    /\ UNCHANGED <<cached, once, closeErr, closes, upc, result, late>>

RenewalStep == NL!RenewalStep /\ UNCHANGED packetVars

Next ==
    \/ \E u \in Users :
        Accept(u) \/ AcceptRefused(u) \/ PacketConn(u) \/ UserClose(u)
    \/ \E c \in Closers : Close(c)
    \/ \E l \in NL!RM!Loops : UpdateExternalPort(l)
    \/ RenewalStep

(* As for the TCP listener. *)
Fairness ==
    /\ NL!RenewalFairness
    /\ \A l \in NL!RM!Loops : SF_vars(UpdateExternalPort(l))
    /\ \A c \in Closers :
        /\ WF_vars(NL!CloseStop(c) /\ CloseStart(c))
        /\ WF_vars(NL!CloseStopping(c) /\ CloseStart(c))
        /\ WF_vars(CloseConn(c))

Spec == Init /\ [][Next]_vars /\ Fairness

-----------------------------------------------------------------------------
(* The socket is closed once however many goroutines close the listener    *)
(* and the wrapper, in whatever order, as long as the wrapper was taken    *)
(* before the listener was closed.                                         *)
ClosedOnceIfTaken == closes <= 1 \/ late

(* "Ensure the underlying connection is only closed once, even if both are *)
(* called" (natpacketlistener.go:65): without the proviso.                 *)
ClosedOnce == closes <= 1

(* Every Close of the wrapper returns "the same error"                     *)
(* (natpacketconn.go:48), and the listener's Close through it returns that *)
(* error too, whichever of them closes the socket.                         *)
SameError ==
    ~late => \A u \in Users, c \in Callers :
                 result[u] # "none" /\ result[c] \in {"nil", "error"}
                     => result[u] = result[c]

(* The wrapper handed out earlier carries the listener's current address.  *)
WrapperAgrees == cached => connPort = addrPort

(* A returned Close has closed the socket, stopped the renewal and removed *)
(* the binding, but for a renewal that raced it or a lost answer.          *)
ClosedMeansReleased == NL!ClosedMeansReleased

(* The listener's Close returns.                                           *)
CloseReturns == NL!CloseReturns

(* Users of the wrapper, and of the listener until there is one, see every *)
(* assigned port, in order.                                                *)
Publication == INSTANCE PortPublication WITH
    assigned <- externalPort, published <- IF cached THEN connPort ELSE lport
PublishesPorts == Publication!Spec
=============================================================================
