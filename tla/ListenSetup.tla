---------------------------- MODULE ListenSetup ----------------------------
(***************************************************************************)
(* Listeners behind one gateway, from the call that sets one up to its     *)
(* Close: ListenContext and ListenWithFallbackContext of listener.go       *)
(* (packetlistener.go does the same for UDP) and the mapping call of       *)
(* utils.go.  Each of several callers selects a mapper, maps a port, binds *)
(* a socket and asks for the external IP; its context may be cancelled at  *)
(* any moment, each step may fail, and what was acquired must then be      *)
(* given back.  A listener's renewal calls MapPort without a lock and      *)
(* records the answer later, in the middle of whatever else goes on, and   *)
(* may do both after the listener was closed.                              *)
(*                                                                         *)
(* Callers may ask for the same port or for different ones, and share the  *)
(* gateway.  UPnP asks for the external port that equals the internal one  *)
(* and deletes by it; NAT-PMP takes what the gateway assigns and deletes   *)
(* by internal port; the TCP punch mapper, alone or in the composite,      *)
(* keeps a session that is its caller's own (what the composite binds on   *)
(* the inner router is in TCPPunchPortMapper).  How the mapper is chosen   *)
(* is in PublicAddress; the renewal's ticks, and its callback that waits   *)
(* for the listener's lock, are in RenewalManager and NATListener.         *)
(***************************************************************************)
EXTENDS Naturals, FiniteSets

CONSTANTS
    Callers,    \* goroutines that set up a listener
    Fixed,      \* the fixed ports some ask for; others ask for port 0
    Ephemeral,  \* what the system binds for port 0
    Ports,      \* external ports NAT-PMP or a carrier's NAT may assign
    None,       \* no port, socket or mapper
    MaxFaults   \* bound: failed mapper calls and forgotten bindings

ASSUME PortAssumption ==
    /\ Fixed \subseteq Ports
    /\ 0 \notin Ports /\ Ephemeral \notin Ports \cup {0}
    /\ None \notin Ports \cup {0, Ephemeral}

ASSUME BoundsAssumption == MaxFaults \in Nat

VARIABLES
    pc,         \* the next step of each caller
    request,    \* the port asked for
    fallback,   \* called through ListenWithFallbackContext
    cancelled,  \* the caller's context is done
    kind,       \* the mapper the chain selected
    ext,        \* the external port reported so far
    sock,       \* the port the caller's socket is bound to
    renewing,   \* where the renewal goroutine of the caller's listener stands
    answer,     \* the port its MapPort returned and it has not recorded yet
    binding,    \* what leads to each slot: an external port, or None
    faults, lost,   \* as in RenewalManager
    refused,    \* history: the last bind failed, not for a socket of its own
    raced,      \* history: Stop unmapped while a renewal was in flight
    named       \* history: the port the caller has named in an UnmapPort

call == <<request, fallback>>
renewal == <<renewing, answer>>
gateway == <<binding, faults, lost>>
history == <<refused, raced, named>>
vars == <<pc, call, cancelled, kind, ext, sock, renewal, gateway, history>>

Steps == {"start", "map", "bind", "check", "getip", "close", "unmap", "natfailed"}
Lives == {"listening", "fallback", "stop", "shut"}
Ends == {"failed", "closed"}
Protocols == {"upnp", "natpmp"}
Punches == {"punch", "composite"}
Kinds == Protocols \cup Punches \cup {"direct"}

ASSUME KindAssumption == None \notin Kinds

(* A protocol's table has an entry for each internal port, and is shared;  *)
(* each caller's punch session is its own.                                 *)
Tables == Protocols \X Fixed
Slots == Tables \cup ({"session"} \X Callers)

TypeOK ==
    /\ pc \in [Callers -> Steps \cup Lives \cup Ends]
    /\ request \in [Callers -> {0} \cup Fixed]
    /\ fallback \in [Callers -> BOOLEAN] /\ cancelled \in [Callers -> BOOLEAN]
    /\ kind \in [Callers -> Kinds \cup {None}]
    /\ ext \in [Callers -> Ports \cup {0, None}]
    /\ sock \in [Callers -> Fixed \cup {Ephemeral, None}]
    /\ renewing \in [Callers -> {"idle", "mapping", "mapped"}]
    /\ answer \in [Callers -> Ports \cup {None}]
    /\ binding \in [Slots -> Ports \cup {None}]
    /\ faults \in 0..MaxFaults /\ lost \in BOOLEAN
    /\ refused \in [Callers -> BOOLEAN] /\ raced \in [Callers -> BOOLEAN]
    /\ named \in [Callers -> Ports \cup {0, None}]

Init ==
    /\ pc = [c \in Callers |-> "start"]
    /\ request \in [Callers -> {0} \cup Fixed]
    /\ fallback \in [Callers -> BOOLEAN]
    /\ cancelled = [c \in Callers |-> FALSE]
    /\ kind = [c \in Callers |-> None]
    /\ ext = [c \in Callers |-> None]
    /\ sock = [c \in Callers |-> None]
    /\ renewing = [c \in Callers |-> "idle"]
    /\ answer = [c \in Callers |-> None]
    /\ binding = [s \in Slots |-> None]
    /\ faults = 0 /\ lost = FALSE
    /\ refused = [c \in Callers |-> FALSE]
    /\ raced = [c \in Callers |-> FALSE]
    /\ named = [c \in Callers |-> None]

Goto(c, step) == pc' = [pc EXCEPT ![c] = step]

Cancel(c) ==
    /\ pc[c] \in Steps /\ ~cancelled[c]
    /\ cancelled' = [cancelled EXCEPT ![c] = TRUE]
    /\ UNCHANGED <<pc, call, kind, ext, sock, renewal, gateway, history>>

StartCancelled(c) ==
    /\ pc[c] = "start" /\ cancelled[c]
    /\ Goto(c, "failed")
    /\ UNCHANGED <<call, cancelled, kind, ext, sock, renewal, gateway, history>>

(* The mapper chain ends with a mapper or without one. *)
SelectOk(c, k) ==
    /\ pc[c] = "start" /\ ~cancelled[c]
    /\ kind' = [kind EXCEPT ![c] = k]
    /\ Goto(c, "map")
    /\ UNCHANGED <<call, cancelled, ext, sock, renewal, gateway, history>>

SelectFails(c) ==
    /\ pc[c] = "start" /\ ~cancelled[c]
    /\ Goto(c, "natfailed")
    /\ UNCHANGED <<call, cancelled, kind, ext, sock, renewal, gateway, history>>

-----------------------------------------------------------------------------
(* MapPort of the selected mapper. *)

(* The context is looked at once more after the discovery. *)
MapCancelled(c) ==
    /\ pc[c] = "map" /\ cancelled[c]
    /\ Goto(c, "natfailed")
    /\ UNCHANGED <<call, cancelled, kind, ext, sock, renewal, gateway, history>>

(* DirectPortMapper returns the port it was given. *)
MapDirect(c) ==
    /\ pc[c] = "map" /\ ~cancelled[c] /\ kind[c] = "direct"
    /\ ext' = [ext EXCEPT ![c] = request[c]]
    /\ Goto(c, "bind")
    /\ UNCHANGED <<call, cancelled, kind, sock, renewal, gateway, history>>

Slot(c) == IF kind[c] \in Punches THEN <<"session", c>> ELSE <<kind[c], request[c]>>

(* An external port of the gateway leads to one internal port only, over   *)
(* whichever protocol it was bound.                                        *)
Assigned(c) ==
    IF kind[c] \in Punches THEN Ports
    ELSE (IF kind[c] = "upnp" THEN {request[c]} ELSE Ports)
            \ {binding[<<k, p>>] : k \in Protocols, p \in Fixed \ {request[c]}}

(* All but the direct mapper refuse port 0; the gateway refuses when the   *)
(* port is taken, which over UPnP is a conflict error.                     *)
MapRefused(c) ==
    /\ pc[c] = "map" /\ ~cancelled[c] /\ kind[c] # "direct"
    /\ request[c] = 0 \/ Assigned(c) = {}
    /\ Goto(c, "natfailed")
    /\ UNCHANGED <<call, cancelled, kind, ext, sock, renewal, gateway, history>>

Mapping(c) ==
    pc[c] = "map" /\ ~cancelled[c] /\ kind[c] # "direct" /\ request[c] # 0

MapOk(c, p) ==
    /\ Mapping(c) /\ p \in Assigned(c)
    /\ binding' = [binding EXCEPT ![Slot(c)] = p]
    /\ ext' = [ext EXCEPT ![c] = p]
    /\ Goto(c, "bind")
    /\ UNCHANGED <<call, cancelled, kind, sock, renewal, faults, lost, history>>

Fault(mayHaveActed) ==
    /\ faults < MaxFaults
    /\ faults' = faults + 1 /\ lost' = (lost \/ mayHaveActed)

MapRequestLost(c) ==
    /\ Mapping(c) /\ Fault(FALSE)
    /\ Goto(c, "natfailed")
    /\ UNCHANGED <<call, cancelled, kind, ext, sock, renewal, binding, history>>

(* A failed punch closes its connection, so only a protocol can have acted. *)
AnswerLost(c, p) ==
    /\ kind[c] \in Protocols /\ p \in Assigned(c)
    /\ Fault(binding[Slot(c)] # p)
    /\ binding' = [binding EXCEPT ![Slot(c)] = p]

MapAnswerLost(c, p) ==
    /\ Mapping(c) /\ AnswerLost(c, p)
    /\ Goto(c, "natfailed")
    /\ UNCHANGED <<call, cancelled, kind, ext, sock, renewal, history>>

-----------------------------------------------------------------------------
(* The socket, the external IP, and giving both back. *)

Taken(port) == \E d \in Callers : sock[d] = port /\ port # 0

BindOk(c, step) ==
    /\ ~Taken(request[c])
    /\ sock' = [sock EXCEPT ![c] = IF request[c] = 0 THEN Ephemeral ELSE request[c]]
    /\ Goto(c, step)
    /\ UNCHANGED refused

(* The port is taken, by a caller or by another program, or the system     *)
(* refuses it for another reason.                                          *)
BindFails(c, step) ==
    /\ refused' = [refused EXCEPT ![c] = (sock[c] = None)]
    /\ Goto(c, step)
    /\ UNCHANGED sock

(* Mistake: the mapping is kept when the context is found done. *)
BindKeepsMapping(c) ==
    /\ pc[c] = "bind"
    /\ IF cancelled[c]
          THEN Goto(c, "natfailed") /\ UNCHANGED <<sock, refused>>
          ELSE BindOk(c, "check") \/ BindFails(c, "unmap")
    /\ UNCHANGED <<call, cancelled, kind, ext, renewal, gateway, raced, named>>

Bind(c) ==
    /\ pc[c] = "bind"
    /\ IF cancelled[c]
          THEN Goto(c, "unmap") /\ UNCHANGED <<sock, refused>>
          ELSE BindOk(c, "check") \/ BindFails(c, "unmap")
    /\ UNCHANGED <<call, cancelled, kind, ext, renewal, gateway, raced, named>>

Check(c) ==
    /\ pc[c] = "check"
    /\ Goto(c, IF cancelled[c] THEN "close" ELSE "getip")
    /\ UNCHANGED <<call, cancelled, kind, ext, sock, renewal, gateway, history>>

GetIP(c) ==
    /\ pc[c] = "getip"
    /\ Goto(c, "listening")
    /\ UNCHANGED <<call, cancelled, kind, ext, sock, renewal, gateway, history>>

(* Mistake: the socket stays open when there is no external IP. *)
GetIPFailsKeepsSocket(c) ==
    /\ pc[c] = "getip"
    /\ Goto(c, "unmap")
    /\ UNCHANGED <<call, cancelled, kind, ext, sock, renewal, gateway, history>>

GetIPFails(c) ==
    /\ pc[c] = "getip"
    /\ Goto(c, "close")
    /\ UNCHANGED <<call, cancelled, kind, ext, sock, renewal, gateway, history>>

CloseSocket(c) ==
    /\ pc[c] = "close"
    /\ sock' = [sock EXCEPT ![c] = None]
    /\ Goto(c, "unmap")
    /\ UNCHANGED <<call, cancelled, kind, ext, renewal, gateway, history>>

(* What UnmapPort(ext) of c's mapper deletes.  UPnP names the external     *)
(* port, whoever mapped it.  NAT-PMP names an internal port, and is given  *)
(* the external one.  The punch mapper ends whatever session it has, the   *)
(* composite only one that has the port it is given.                       *)
Deletes(c, s) ==
    \/ kind[c] = "upnp" /\ s \in {"upnp"} \X Fixed /\ binding[s] = ext[c]
    \/ kind[c] = "natpmp" /\ s = <<"natpmp", ext[c]>>
    \/ /\ kind[c] \in Punches /\ s = <<"session", c>>
       /\ kind[c] = "composite" => binding[s] = ext[c]

(* On the way out of a failed call, and in the Stop of a listener's Close. *)
Unmapping(c) == pc[c] \in {"unmap", "stop"}

AfterUnmap(c) ==
    /\ Goto(c, IF pc[c] = "unmap" THEN "natfailed" ELSE "shut")
    /\ named' = [named EXCEPT ![c] = ext[c]]
    /\ raced' = [raced EXCEPT ![c] =
                    renewing[c] = "mapping" \/ answer[c] \notin {None, ext[c]}]

UnmapOk(c) ==
    /\ Unmapping(c)
    /\ binding' = [s \in Slots |-> IF Deletes(c, s) THEN None ELSE binding[s]]
    /\ AfterUnmap(c)
    /\ UNCHANGED <<call, cancelled, kind, ext, sock, renewal, faults, lost, refused>>

(* The error of UnmapPort is dropped, or only logged. *)
UnmapFails(c) ==
    /\ Unmapping(c) /\ kind[c] \notin {"direct", "punch"} /\ Fault(TRUE)
    /\ AfterUnmap(c)
    /\ UNCHANGED <<call, cancelled, kind, ext, sock, renewal, binding, refused>>

-----------------------------------------------------------------------------
(* ListenContext has failed: report it, or listen without a mapping. *)

GiveUp(c) ==
    /\ pc[c] = "natfailed"
    /\ ~fallback[c] \/ cancelled[c]
    /\ Goto(c, "failed")
    /\ UNCHANGED <<call, cancelled, kind, ext, sock, renewal, gateway, history>>

(* Mistake: the context is not checked before falling back. *)
FallBackAlways(c) ==
    /\ pc[c] = "natfailed" /\ fallback[c]
    /\ BindOk(c, "fallback") \/ BindFails(c, "failed")
    /\ UNCHANGED <<call, cancelled, kind, ext, renewal, gateway, raced, named>>

(* The fallback listener has no mapper: its external port is the port that *)
(* was asked for, and ext no longer matters.                               *)
FallBack(c) ==
    /\ pc[c] = "natfailed" /\ fallback[c] /\ ~cancelled[c]
    /\ BindOk(c, "fallback") \/ BindFails(c, "failed")
    /\ UNCHANGED <<call, cancelled, kind, ext, renewal, gateway, raced, named>>

-----------------------------------------------------------------------------
(* The life of a listener, as far as the gateway notices it. *)

Serving(c) == pc[c] = "listening" /\ kind[c] # "direct"

(* Whether the port of c's renewal manager leads to c. *)
Bound(c) == binding[Slot(c)] = ext[c]

(* The loop takes a tick.  One it takes after Close has begun, which the   *)
(* select allows, is to the gateway no different from one taken just       *)
(* before.                                                                 *)
RenewBegin(c) ==
    /\ Serving(c) /\ renewing[c] = "idle"
    /\ renewing' = [renewing EXCEPT ![c] = "mapping"]
    /\ UNCHANGED <<pc, call, cancelled, kind, ext, sock, answer, gateway, history>>

(* The gateway's side of renew's MapPort, called without r.mu: whatever    *)
(* has become of the listener meanwhile.                                   *)
RenewMapOk(c, p) ==
    /\ renewing[c] = "mapping" /\ p \in Assigned(c)
    /\ binding' = [binding EXCEPT ![Slot(c)] = p]
    /\ renewing' = [renewing EXCEPT ![c] = "mapped"]
    /\ answer' = [answer EXCEPT ![c] = p]
    /\ UNCHANGED <<pc, call, cancelled, kind, ext, sock, faults, lost, history>>

(* renew drops the error of MapPort: the next tick tries again. *)
RenewRefused(c) ==
    /\ renewing[c] = "mapping" /\ Assigned(c) = {}
    /\ renewing' = [renewing EXCEPT ![c] = "idle"]
    /\ UNCHANGED <<pc, call, cancelled, kind, ext, sock, answer, gateway, history>>

RenewRequestLost(c) ==
    /\ renewing[c] = "mapping" /\ Fault(FALSE)
    /\ renewing' = [renewing EXCEPT ![c] = "idle"]
    /\ UNCHANGED <<pc, call, cancelled, kind, ext, sock, answer, binding, history>>

RenewAnswerLost(c, p) ==
    /\ renewing[c] = "mapping" /\ AnswerLost(c, p)
    /\ renewing' = [renewing EXCEPT ![c] = "idle"]
    /\ UNCHANGED <<pc, call, cancelled, kind, ext, sock, answer, history>>

(* Mistake: the port the gateway assigned is not recorded. *)
RenewApplyForgets(c) ==
    /\ renewing[c] = "mapped" /\ pc[c] # "stop"
    /\ renewing' = [renewing EXCEPT ![c] = "idle"]
    /\ answer' = [answer EXCEPT ![c] = None]
    /\ UNCHANGED <<pc, call, cancelled, kind, ext, sock, gateway, history>>

(* Under r.mu, which Stop holds while it unmaps. *)
RenewApply(c) ==
    /\ renewing[c] = "mapped" /\ pc[c] # "stop"
    /\ ext' = [ext EXCEPT ![c] = answer[c]]
    /\ renewing' = [renewing EXCEPT ![c] = "idle"]
    /\ answer' = [answer EXCEPT ![c] = None]
    /\ UNCHANGED <<pc, call, cancelled, kind, sock, gateway, history>>

(* A lease that ran out, a gateway that was restarted. *)
GatewayForgets(s) ==
    /\ binding[s] # None /\ Fault(FALSE)
    /\ binding' = [binding EXCEPT ![s] = None]
    /\ UNCHANGED <<pc, call, cancelled, kind, ext, sock, renewal, history>>

(* Close stops the renewal first, which unmaps, and then closes the socket; *)
(* a fallback listener has no renewal.  Neither waits for the goroutine.    *)
Close(c) ==
    /\ \/ pc[c] = "listening" /\ Goto(c, "stop")
       \/ pc[c] = "fallback" /\ Goto(c, "shut")
    /\ UNCHANGED <<call, cancelled, kind, ext, sock, renewal, gateway, history>>

Shut(c) ==
    /\ pc[c] = "shut"
    /\ sock' = [sock EXCEPT ![c] = None]
    /\ Goto(c, "closed")
    /\ UNCHANGED <<call, cancelled, kind, ext, renewal, gateway, history>>

Step(c) ==
    \/ StartCancelled(c) \/ \E k \in Kinds : SelectOk(c, k)
    \/ SelectFails(c) \/ MapCancelled(c) \/ MapDirect(c) \/ MapRefused(c)
    \/ \E p \in Ports : MapOk(c, p)
    \/ MapRequestLost(c) \/ \E p \in Ports : MapAnswerLost(c, p)
    \/ Bind(c) \/ Check(c) \/ GetIP(c) \/ GetIPFails(c) \/ CloseSocket(c)
    \/ UnmapOk(c) \/ UnmapFails(c) \/ GiveUp(c) \/ FallBack(c) \/ Shut(c)

Renew(c) ==
    \/ RenewBegin(c) \/ \E p \in Ports : RenewMapOk(c, p)
    \/ RenewRefused(c) \/ RenewApply(c)

RenewFails(c) == RenewRequestLost(c) \/ \E p \in Ports : RenewAnswerLost(c, p)

Next ==
    \/ \E c \in Callers : Step(c) \/ Cancel(c) \/ Renew(c) \/ RenewFails(c) \/ Close(c)
    \/ \E s \in Tables : GatewayForgets(s)

(* Every call of the standard library and of a mapper returns; the ticker  *)
(* of an open listener fires, and its goroutine goes on with a renewal.    *)
Fairness == \A c \in Callers : WF_vars(Step(c)) /\ WF_vars(Renew(c))

Spec == Init /\ [][Next]_vars /\ Fairness

-----------------------------------------------------------------------------
AllWithoutMapping == \A c \in Callers : pc[c] \in {"fallback"} \cup Ends

(* NAT-PMP assigned an external port that is not the internal one.         *)
Renumbered(s) == s \in {"natpmp"} \X Fixed /\ binding[s] # s[2]

(* When no caller has a mapped listener any more, be it closed or failed,  *)
(* nothing is left on the gateway, and none of them has kept its socket:   *)
(* each error path gives back what the steps before it acquired, rivals    *)
(* and cancellation notwithstanding.  Three things can leave a binding: a  *)
(* mapper's answer that was lost, a NAT-PMP port that was renumbered, and  *)
(* a renewal that was in flight when its listener's Stop unmapped, which   *)
(* leaves none but its own.                                                *)
FailureLeavesNothing ==
    /\ \A c \in Callers : pc[c] \in Ends => sock[c] = None
    /\ AllWithoutMapping /\ ~lost =>
          \A s \in Slots : binding[s] # None /\ ~Renumbered(s) =>
              \E c \in Callers : raced[c] /\ Slot(c) = s

(* "UnmapPort removes a port mapping via NAT-PMP" (natpmpmapper.go:84):    *)
(* what FailureLeavesNothing says, without the proviso for NAT-PMP.        *)
NATPMPUnmaps ==
    AllWithoutMapping /\ ~lost =>
        \A s \in {"natpmp"} \X Fixed : binding[s] # None =>
            \E c \in Callers : raced[c] /\ Slot(c) = s

(* The port the gateway last gave c: that of a renewal that has not        *)
(* recorded it yet, or the one recorded.                                   *)
Answered(c) == IF renewing[c] = "mapped" THEN answer[c] ELSE ext[c]

(* d has named c's port in an UnmapPort, or has asked NAT-PMP for c's port *)
(* and so may have moved its binding.                                      *)
Disturbs(d, c) ==
    /\ kind[d] = kind[c] /\ kind[c] \in Protocols
    /\ \/ named[d] = request[c]
       \/ kind[c] = "natpmp" /\ request[d] = request[c] /\ ext[d] # None

(* Listeners do not get in each other's way, but for two cases: another    *)
(* caller asked for the same port (it maps before it binds, and unmaps     *)
(* when it cannot bind, listener.go:44), or NAT-PMP gave another one an    *)
(* external port that is this one's internal port (natpmpmapper.go:101).   *)
(* Otherwise an open listener is reachable, from the moment it is returned *)
(* and for as long as the gateway keeps its word, at the port it has       *)
(* recorded, or, between a renewal's call and its recording the answer     *)
(* (renewalmanager.go:165-188), at the port it is about to record.         *)
Undisturbed ==
    faults = 0 => \A c \in Callers :
        Serving(c) /\ binding[Slot(c)] # Answered(c) =>
            \E d \in Callers \ {c} : Disturbs(d, c)

(* Whatever took an open listener's binding away, be it a rival, a mistaken *)
(* deletion, the gateway itself or a renewal that moved it, some renewal    *)
(* makes the recorded port lead to the listener again, unless it is closed  *)
(* first or the gateway has given away every port it could have.            *)
Heals ==
    \A c \in Callers :
        Serving(c) /\ ~Bound(c) ~> ~Serving(c) \/ Bound(c) \/ Assigned(c) = {}

(* A call with fallback fails only if its context was done, or if a bind   *)
(* was refused because somebody else had the port or the system did not    *)
(* give it.  It never stands in its own way with a socket that the attempt *)
(* at NAT traversal has left open.                                         *)
FallbackServes ==
    \A c \in Callers :
        pc[c] = "failed" /\ fallback[c] => cancelled[c] \/ refused[c]

(* A context that is done before the last check makes the call fail: it    *)
(* does not end as a mapped listener nor slip through as a fallback.       *)
CancelEndsCall ==
    \A c \in Callers :
        cancelled[c] /\ pc[c] \in Steps \ {"getip"}
            ~> pc[c] = "failed"
=============================================================================
