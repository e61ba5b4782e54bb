--------------------------- MODULE RenewalManager ---------------------------
(***************************************************************************)
(* The port-mapping renewal manager of renewalmanager.go: Start and Stop   *)
(* called in any number of cycles, one renewal goroutine per Start, and    *)
(* the calls both make to a PortMapper that fails, answers late or loses   *)
(* the binding.                                                            *)
(*                                                                         *)
(* The mutex r.mu is held across steps only by Stop, which keeps it during *)
(* its call of UnmapPort; every other critical section is one action.  So  *)
(* the mutex is free exactly when no Stop is under way (stop = "none").    *)
(***************************************************************************)
EXTENDS Naturals

CONSTANTS
    Ports,      \* external ports a gateway may assign
    NoPort,     \* no binding, or no value
    MaxStarts,  \* bound: how often Start succeeds
    MaxFaults   \* bound: how often a mapper call fails

ASSUME PortsAssumption == NoPort \notin Ports
ASSUME BoundsAssumption == MaxStarts \in Nat /\ MaxFaults \in Nat

Loops == 1..MaxStarts   \* the renewLoop goroutine of the l-th Start

VARIABLES
    started,        \* r.started
    externalPort,   \* r.externalPort
    onPortChange,   \* r.onPortChange # nil
    stop,           \* where the Stop that holds r.mu stands
    unmapping,      \* the argument of the UnmapPort call Stop waits for
    starts,         \* Starts so far; the current done and ticker are starts'
    closed,         \* loops whose done channel is closed
    ticking,        \* loops whose ticker runs
    pc,             \* where each renewal goroutine stands
    newPort,        \* renew's local newPort
    notified,       \* the port the callback last wrote (in its owner)
    mapping,        \* the gateway's binding for the internal port
    faults,         \* failed mapper calls so far
    raced,          \* history: a renewal was in flight when Stop unmapped
    lost            \* history: the gateway's state differs from an answer

manager == <<started, externalPort, onPortChange>>
stopper == <<stop, unmapping>>
loops   == <<starts, closed, ticking>>
renewal == <<pc, newPort>>
history == <<faults, raced, lost>>
vars == <<manager, stopper, loops, renewal, notified, mapping, history>>

MuFree == stop = "none"

Renewing(l) == pc[l] \in {"mapping", "mapped"}

TypeOK ==
    /\ started \in BOOLEAN /\ onPortChange \in BOOLEAN
    /\ externalPort \in Ports /\ notified \in Ports
    /\ stop \in {"none", "closing", "unmapping"}
    /\ unmapping \in Ports \cup {NoPort}
    /\ starts \in 0..MaxStarts
    /\ closed \subseteq Loops /\ ticking \subseteq Loops
    /\ pc \in [Loops -> {"none", "select", "mapping", "mapped",
                         "callback", "exited"}]
    /\ newPort \in [Loops -> Ports \cup {NoPort}]
    /\ mapping \in Ports \cup {NoPort}
    /\ faults \in 0..MaxFaults /\ raced \in BOOLEAN /\ lost \in BOOLEAN

(* NewRenewalManager: the mapping exists, nothing runs yet. *)
Init ==
    /\ started = FALSE /\ onPortChange = FALSE
    /\ externalPort \in Ports /\ mapping = externalPort
    /\ notified = externalPort
    /\ stop = "none" /\ unmapping = NoPort
    /\ starts = 0 /\ closed = {} /\ ticking = {}
    /\ pc = [l \in Loops |-> "none"]
    /\ newPort = [l \in Loops |-> NoPort]
    /\ faults = 0 /\ raced = FALSE /\ lost = FALSE

-----------------------------------------------------------------------------
(* The owner's calls. *)

SetPortChangeCallback(set) ==
    /\ MuFree
    /\ onPortChange' = set
    /\ UNCHANGED <<started, externalPort, stopper, loops, renewal, notified,
                   mapping, history>>

(* Mistake: Start does not look at r.started. *)
StartAlways ==
    /\ MuFree /\ starts < MaxStarts
    /\ started' = TRUE
    /\ starts' = starts + 1
    /\ ticking' = ticking \cup {starts + 1}
    /\ pc' = [pc EXCEPT ![starts + 1] = "select"]
    /\ UNCHANGED <<externalPort, onPortChange, stopper, closed, newPort,
                   notified, mapping, history>>

(* A fresh done channel, a fresh ticker and a goroutine of its own. *)
Start ==
    /\ MuFree /\ ~started /\ starts < MaxStarts
    /\ started' = TRUE
    /\ starts' = starts + 1
    /\ ticking' = ticking \cup {starts + 1}
    /\ pc' = [pc EXCEPT ![starts + 1] = "select"]
    /\ UNCHANGED <<externalPort, onPortChange, stopper, closed, newPort,
                   notified, mapping, history>>

(* Mistake: the done channel is not closed. *)
StopBeginKeepsDone ==
    /\ MuFree /\ started
    /\ started' = FALSE
    /\ stop' = "closing"
    /\ UNCHANGED <<externalPort, onPortChange, unmapping, loops, renewal,
                   notified, mapping, history>>

StopBegin ==
    /\ MuFree /\ started
    /\ started' = FALSE
    /\ closed' = closed \cup {starts}
    /\ stop' = "closing"
    /\ UNCHANGED <<externalPort, onPortChange, unmapping, starts, ticking,
                   renewal, notified, mapping, history>>

(* Mistake: the ticker is not stopped. *)
StopTickerKeepsTicking ==
    /\ stop = "closing"
    /\ stop' = "unmapping"
    /\ unmapping' = externalPort
    /\ UNCHANGED <<manager, loops, renewal, notified, mapping, history>>

(* The ticker stops after the channel is closed; a tick may fit between. *)
StopTicker ==
    /\ stop = "closing"
    /\ ticking' = ticking \ {starts}
    /\ stop' = "unmapping"
    /\ unmapping' = externalPort
    /\ UNCHANGED <<manager, starts, closed, renewal, notified, mapping, history>>

(* Mistake: Stop waits for the goroutine while it holds r.mu. *)
StopReturnAfterLoop ==
    /\ stop = "unmapping" /\ pc[starts] = "exited"
    /\ stop' = "none" /\ unmapping' = NoPort
    /\ raced' = (raced \/ \E l \in Loops : Renewing(l))
    /\ UNCHANGED <<manager, loops, renewal, notified>>

StopReturn ==
    /\ stop = "unmapping"
    /\ stop' = "none" /\ unmapping' = NoPort
    /\ raced' = (raced \/ \E l \in Loops : Renewing(l))
    /\ UNCHANGED <<manager, loops, renewal, notified>>

StopUnmapOk ==
    /\ StopReturn
    /\ mapping' = IF mapping = unmapping THEN NoPort ELSE mapping
    /\ UNCHANGED <<faults, lost>>

(* UnmapPort fails: Stop logs the error and returns all the same.  Or it   *)
(* succeeds without effect, as NAT-PMP's does when the external port is    *)
(* not the internal one (ListenSetup).                                     *)
StopUnmapFail ==
    /\ faults < MaxFaults
    /\ StopReturn
    /\ faults' = faults + 1 /\ lost' = TRUE
    /\ UNCHANGED mapping

-----------------------------------------------------------------------------
(* The renewal goroutine of the l-th Start. *)

LoopTick(l) ==
    /\ pc[l] = "select" /\ l \in ticking
    /\ pc' = [pc EXCEPT ![l] = "mapping"]
    /\ UNCHANGED <<manager, stopper, loops, newPort, notified, mapping, history>>

LoopDone(l) ==
    /\ pc[l] = "select" /\ l \in closed
    /\ pc' = [pc EXCEPT ![l] = "exited"]
    /\ UNCHANGED <<manager, stopper, loops, newPort, notified, mapping, history>>

(* MapPort, called without r.mu: the gateway binds port p and answers p. *)
LoopMapOk(l, p) ==
    /\ pc[l] = "mapping"
    /\ pc' = [pc EXCEPT ![l] = "mapped"]
    /\ newPort' = [newPort EXCEPT ![l] = p]
    /\ mapping' = p
    /\ UNCHANGED <<manager, stopper, loops, notified, history>>

(* Mistake: renew goes on after an error, with the port 0 it was given. *)
LoopMapFailGoesOn(l, m) ==
    /\ pc[l] = "mapping" /\ faults < MaxFaults
    /\ pc' = [pc EXCEPT ![l] = "mapped"]
    /\ faults' = faults + 1
    /\ mapping' = m
    /\ lost' = (lost \/ m # mapping)
    /\ UNCHANGED <<manager, stopper, loops, newPort, notified, raced>>

(* Mistake: the goroutine ends with the first renewal that fails. *)
LoopMapFailExits(l, m) ==
    /\ pc[l] = "mapping" /\ faults < MaxFaults
    /\ pc' = [pc EXCEPT ![l] = "exited"]
    /\ faults' = faults + 1
    /\ mapping' = m
    /\ lost' = (lost \/ m # mapping)
    /\ UNCHANGED <<manager, stopper, loops, newPort, notified, raced>>

(* MapPort fails: the request (m = mapping) or the answer was lost. *)
LoopMapFail(l, m) ==
    /\ pc[l] = "mapping" /\ faults < MaxFaults
    /\ pc' = [pc EXCEPT ![l] = "select"]
    /\ faults' = faults + 1
    /\ mapping' = m
    /\ lost' = (lost \/ m # mapping)
    /\ UNCHANGED <<manager, stopper, loops, newPort, notified, raced>>

(* Mistake: the result is applied without r.mu. *)
LoopApplyUnlocked(l) ==
    /\ pc[l] = "mapped"
    /\ externalPort' = newPort[l]
    /\ pc' = [pc EXCEPT ![l] = "select"]
    /\ newPort' = [newPort EXCEPT ![l] = NoPort]
    /\ UNCHANGED <<started, onPortChange, stopper, loops, notified, mapping,
                   history>>

(* Mistake: the callback is told of the new port, the manager keeps the old. *)
LoopApplyKeepsPort(l) ==
    /\ pc[l] = "mapped" /\ MuFree
    /\ IF newPort[l] # externalPort /\ onPortChange
          THEN pc' = [pc EXCEPT ![l] = "callback"] /\ UNCHANGED newPort
          ELSE /\ pc' = [pc EXCEPT ![l] = "select"]
               /\ newPort' = [newPort EXCEPT ![l] = NoPort]
    /\ UNCHANGED <<manager, stopper, loops, notified, mapping, history>>

(* renew's critical section: record the port, capture the callback. *)
LoopApply(l) ==
    /\ pc[l] = "mapped" /\ MuFree
    /\ externalPort' = newPort[l]
    /\ IF newPort[l] # externalPort /\ onPortChange
          THEN pc' = [pc EXCEPT ![l] = "callback"] /\ UNCHANGED newPort
          ELSE /\ pc' = [pc EXCEPT ![l] = "select"]
               /\ newPort' = [newPort EXCEPT ![l] = NoPort]
    /\ UNCHANGED <<started, onPortChange, stopper, loops, notified, mapping,
                   history>>

(* The captured callback runs outside r.mu, even if cleared meanwhile. *)
LoopCallback(l) ==
    /\ pc[l] = "callback"
    /\ notified' = newPort[l]
    /\ pc' = [pc EXCEPT ![l] = "select"]
    /\ newPort' = [newPort EXCEPT ![l] = NoPort]
    /\ UNCHANGED <<manager, stopper, loops, mapping, history>>

(* The lease expires, or the gateway restarts without its table. *)
GatewayDrops ==
    /\ mapping # NoPort
    /\ mapping' = NoPort
    /\ UNCHANGED <<manager, stopper, loops, renewal, notified, history>>

-----------------------------------------------------------------------------
Loop(l) ==
    \/ LoopTick(l) \/ LoopDone(l)
    \/ \E p \in Ports : LoopMapOk(l, p)
    \/ \E m \in Ports \cup {mapping} : LoopMapFail(l, m)
    \/ LoopApply(l) \/ LoopCallback(l)

StopStep == StopTicker \/ StopUnmapOk \/ StopUnmapFail

Next ==
    \/ \E set \in BOOLEAN : SetPortChangeCallback(set)
    \/ Start \/ StopBegin \/ StopStep
    \/ \E l \in Loops : Loop(l)
    \/ GatewayDrops

(* Go runs every goroutine that can run, tickers fire, mapper calls return *)
(* (their clients have timeouts).  Nobody is obliged to call Stop.         *)
Fairness ==
    /\ WF_vars(StopStep)
    /\ \A l \in Loops :
        /\ WF_vars(LoopTick(l)) /\ WF_vars(LoopDone(l))
        /\ WF_vars(\E p \in Ports : LoopMapOk(l, p))
        /\ WF_vars(LoopApply(l)) /\ WF_vars(LoopCallback(l))

Spec == Init /\ [][Next]_vars /\ Fairness

-----------------------------------------------------------------------------
(* One goroutine per running cycle: the done channels still open are those *)
(* of the running cycle (so close(done) never panics), and no loop whose   *)
(* channel is open has been orphaned by a later Start.                     *)
OneOpenLoop ==
    /\ closed = 1..(IF started THEN starts - 1 ELSE starts)
    /\ \A l \in Loops : pc[l] = "exited" => l \in closed

(* While no renewal raced a Stop and no answer was lost, the port that     *)
(* ExternalPort() reports is the gateway's binding, or the answer naming   *)
(* that binding is waiting for r.mu (renewalmanager.go 165-185).           *)
TrackedPort ==
    ~raced /\ ~lost =>
        mapping \in {NoPort, externalPort}
                      \cup {newPort[l] : l \in {k \in Loops : pc[k] = "mapped"}}

(* After Stop has returned, a binding stays on the gateway only if a       *)
(* renewal was in flight while Stop unmapped, or a mapper call reported    *)
(* something else than it did: without these, Stop always cleans up, port  *)
(* changes, failed renewals and further Start/Stop cycles included.        *)
LeakOnlyByRace ==
    MuFree /\ ~started /\ starts > 0 /\ mapping # NoPort => raced \/ lost

(* The port changes only by an answer to the running cycle's own renewal;  *)
(* a goroutine of a stopped cycle never overwrites it, unless its renewal  *)
(* was already in flight when Stop unmapped.                               *)
PortChangeIsCurrent ==
    [][externalPort' # externalPort
         => raced \/ (started /\ externalPort' = newPort[starts])]_vars

(* Stop "unmaps the port" (renewalmanager.go:105): once it has returned    *)
(* and every renewal goroutine has exited, the gateway holds no binding.   *)
StopUnmaps ==
    MuFree /\ starts > 0 /\ (\A l \in Loops : pc[l] \in {"none", "exited"})
        => mapping = NoPort

(* Stop never blocks forever, although it holds r.mu across a network      *)
(* call and the renewal goroutine needs r.mu too.                          *)
StopReturns == stop # "none" ~> stop = "none"

(* A goroutine whose cycle was stopped ends, wherever Stop found it, even  *)
(* if a new cycle has begun since (the leak renewLoop's parameters avoid). *)
LoopExits ==
    \A l \in Loops :
        (l < starts \/ (l = starts /\ ~started /\ starts > 0))
            ~> pc[l] = "exited"

(* A binding that is lost while the manager runs is renewed, whatever      *)
(* finite number of renewals fails in between.                             *)
Recovers == started /\ mapping = NoPort ~> ~started \/ mapping # NoPort
=============================================================================
