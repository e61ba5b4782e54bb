------------------------- MODULE TCPPunchPortMapper -------------------------
(***************************************************************************)
(* The composite mapper of tcppunch_composite.go, which maps the inner     *)
(* router and keeps a TCP punch session towards the upstream one, under    *)
(* the two goroutines that use it: the renewal manager's renew, which      *)
(* calls MapPort, and its Stop, which calls UnmapPort with the port it     *)
(* knows.  MapPort holds m.mu across its calls of both mappers, UnmapPort  *)
(* only to take the mapping; Stop holds r.mu throughout.                   *)
(***************************************************************************)
EXTENDS Naturals

CONSTANTS
    Ports,      \* external ports of the inner router and of the upstream one
    InternalPort,   \* the listener's own port
    None,       \* no port, or no mapping
    MaxFaults   \* bound: calls of the inner mapper that fail

Mappings == [inner : Ports, punch : Ports]

ASSUME InternalAssumption == InternalPort \in Ports
ASSUME NoneAssumption == None \notin Ports \cup Mappings
ASSUME BoundsAssumption == MaxFaults \in Nat

VARIABLES
    mapper,     \* the kind of m.inner
    mapping,    \* m.mapping: None or the inner and the punched port
    inner,      \* external ports the inner router has bound to the internal one
    punch,      \* the punch session's public port, None without a session
    rport,      \* r.externalPort, None until the first MapPort has succeeded
    rpc,        \* where renew stands
    got,        \* MapPort's innerExternalPort
    old,        \* MapPort's oldInnerExternalPort
    answer,     \* MapPort's punchExternalPort
    spc,        \* where Stop stands
    taken,      \* the mapping UnmapPort took
    faults, lost,   \* as in RenewalManager
    gone,       \* history: the router has dropped what was last mapped
    stale,      \* history: UnmapPort was given another port than the mapping's
    later       \* history: whether MapPort entered once UnmapPort had looked

mapPort == <<rpc, got, old, answer>>
gateways == <<inner, punch>>
history == <<faults, lost, gone, stale, later>>
vars == <<mapper, mapping, gateways, rport, mapPort, spc, taken, history>>

(* Mistake: MapPort releases m.mu when renew is through with the answer. *)
MMuFreeLate == rpc \in {"idle", "tick"}

MMuFree == rpc \in {"idle", "tick", "answered"}
RMuFree == spc \in {"running", "returned"}

(* newInnerPortMapperContext chooses the first two; the constructor takes  *)
(* any PortMapper, which is to unmap by the external port.                 *)
Mappers == {"upnp", "natpmp", "other"}

TypeOK ==
    /\ mapper \in Mappers
    /\ mapping \in Mappings \cup {None} /\ taken \in Mappings \cup {None}
    /\ inner \subseteq Ports /\ punch \in Ports \cup {None}
    /\ rport \in Ports \cup {None}
    /\ {got, old, answer} \subseteq Ports \cup {None}
    /\ rpc \in {"idle", "tick", "inner", "punch", "cleanup", "old", "answered"}
    /\ spc \in {"running", "unmap", "punch", "inner", "returned"}
    /\ faults \in 0..MaxFaults
    /\ {lost, gone, stale} \subseteq BOOLEAN
    /\ later \in {"never", "during", "after"}

(* The first MapPort is called while the listener is set up. *)
Init ==
    /\ mapper \in Mappers
    /\ mapping = None /\ inner = {} /\ punch = None
    /\ rport = None
    /\ rpc = "tick" /\ got = None /\ old = None /\ answer = None
    /\ spc = "running" /\ taken = None
    /\ faults = 0 /\ lost = FALSE /\ gone = FALSE
    /\ stale = FALSE /\ later = "never"

-----------------------------------------------------------------------------
(* renew, and the composite's MapPort. *)

Tick ==
    /\ rpc = "idle" /\ spc = "running" /\ rport # None
    /\ rpc' = "tick"
    /\ UNCHANGED <<mapper, mapping, gateways, rport, got, old, answer, spc,
                   taken, history>>

MapEnter ==
    /\ rpc = "tick"
    /\ rpc' = "inner"
    /\ later' = IF spc \in {"running", "unmap"} \/ later = "during" THEN later
                ELSE IF spc = "returned" THEN "after" ELSE "during"
    /\ UNCHANGED <<mapper, mapping, gateways, rport, got, old, answer, spc,
                   taken, faults, lost, gone, stale>>

(* UPnP asks for the internal port and no other; the rest may get any.     *)
Answers == IF mapper = "upnp" THEN {InternalPort} ELSE Ports

(* What the inner router has bound when it maps port p: NAT-PMP binds one  *)
(* external port per internal one, others may keep an older one bound.     *)
Bound(p) == IF mapper = "natpmp" THEN {{p}} ELSE {{p}, inner \cup {p}}

MapInner(p) ==
    /\ rpc = "inner"
    /\ inner' \in Bound(p) /\ got' = p /\ gone' = FALSE
    /\ rpc' = "punch"
    /\ UNCHANGED <<mapper, mapping, punch, rport, old, answer, spc, taken,
                   faults, lost, stale, later>>

Fault == faults < MaxFaults /\ faults' = faults + 1

(* The request was lost, or only its answer. *)
MapInnerFails ==
    /\ rpc = "inner" /\ Fault
    /\ \/ UNCHANGED inner
       \/ \E p \in Answers : inner' \in Bound(p)
    /\ lost' = (lost \/ inner' # inner)
    /\ rpc' = "idle"
    /\ UNCHANGED <<mapper, mapping, punch, rport, got, old, answer, spc, taken,
                   gone, stale, later>>

(* The punch session is refreshed, or made, and reports port q. *)
MapPunch(q) ==
    /\ rpc = "punch"
    /\ punch' = q /\ answer' = q
    /\ old' = IF mapping = None THEN None ELSE mapping.inner
    /\ mapping' = [inner |-> got, punch |-> q]
    /\ rpc' = "old"
    /\ UNCHANGED <<mapper, inner, rport, got, spc, taken, history>>

(* A refresh never fails; making a session, when there is none, may. *)
MapPunchFails ==
    /\ rpc = "punch" /\ punch = None
    /\ rpc' = "cleanup"
    /\ UNCHANGED <<mapper, mapping, gateways, rport, got, old, answer, spc,
                   taken, history>>

(* What a request to unmap port p deletes: NAT-PMP takes the number for    *)
(* the internal port, and deletes whatever that port is bound to.          *)
Deletes(p) ==
    IF mapper # "natpmp" THEN {p} ELSE IF p = InternalPort THEN Ports ELSE {}

(* The inner mapper's UnmapPort.  Its errors are logged or returned, and   *)
(* change nothing else.                                                    *)
UnmapInner(p) ==
    \/ inner' = inner \ Deletes(p) /\ UNCHANGED <<faults, lost>>
    \/ Fault /\ lost' = TRUE /\ UNCHANGED inner

(* Mistake: a failed punch leaves the inner mapping. *)
NoCleanup ==
    /\ rpc = "cleanup"
    /\ rpc' = "idle"
    /\ UNCHANGED <<mapper, mapping, gateways, rport, got, old, answer, spc,
                   taken, history>>

(* cleanupFailedInnerMapping: unmap what was mapped for nothing. *)
Cleanup ==
    /\ rpc = "cleanup"
    /\ IF mapping # None /\ mapping.inner = got
          THEN UNCHANGED <<inner, faults, lost>> ELSE UnmapInner(got)
    /\ rpc' = "idle"
    /\ UNCHANGED <<mapper, mapping, punch, rport, got, old, answer, spc, taken,
                   gone, stale, later>>

(* Mistake: an inner port that has been replaced is forgotten. *)
UnmapOldForgotten ==
    /\ rpc = "old"
    /\ rpc' = "answered"
    /\ UNCHANGED <<mapper, mapping, gateways, rport, got, old, answer, spc,
                   taken, history>>

(* An inner port that has been replaced is unmapped before MapPort returns. *)
UnmapOld ==
    /\ rpc = "old"
    /\ IF old \in {None, got}
          THEN UNCHANGED <<inner, faults, lost>> ELSE UnmapInner(old)
    /\ rpc' = "answered"
    /\ UNCHANGED <<mapper, mapping, punch, rport, got, old, answer, spc, taken,
                   gone, stale, later>>

(* renew takes r.mu and records the port; NewRenewalManager gets the first. *)
Apply ==
    /\ rpc = "answered" /\ RMuFree
    /\ rport' = answer
    /\ rpc' = "idle"
    /\ UNCHANGED <<mapper, mapping, gateways, got, old, answer, spc, taken,
                   history>>

-----------------------------------------------------------------------------
(* Stop, and the composite's UnmapPort. *)

StopBegin ==
    /\ spc = "running" /\ rport # None
    /\ spc' = "unmap"
    /\ UNCHANGED <<mapper, mapping, gateways, rport, mapPort, taken, history>>

UnmapTake ==
    /\ spc = "unmap" /\ MMuFree
    /\ mapping # None /\ mapping.punch = rport
    /\ taken' = mapping /\ mapping' = None
    /\ spc' = "punch"
    /\ UNCHANGED <<mapper, gateways, rport, mapPort, history>>

(* There is no mapping for that port: UnmapPort has nothing to do. *)
UnmapIgnored ==
    /\ spc = "unmap" /\ MMuFree
    /\ mapping = None \/ mapping.punch # rport
    /\ stale' = TRUE
    /\ spc' = "returned"
    /\ UNCHANGED <<mapper, mapping, gateways, rport, mapPort, taken, faults,
                   lost, gone, later>>

UnmapPunch ==
    /\ spc = "punch"
    /\ punch' = None
    /\ spc' = "inner"
    /\ UNCHANGED <<mapper, mapping, inner, rport, mapPort, taken, history>>

(* Mistake: the inner router is asked to unmap the punched port. *)
UnmapPunchedAsInner ==
    /\ spc = "inner"
    /\ UnmapInner(taken.punch)
    /\ spc' = "returned"
    /\ UNCHANGED <<mapper, mapping, punch, rport, mapPort, taken, gone, stale,
                   later>>

UnmapTakenInner ==
    /\ spc = "inner"
    /\ UnmapInner(taken.inner)
    /\ spc' = "returned"
    /\ UNCHANGED <<mapper, mapping, punch, rport, mapPort, taken, gone, stale,
                   later>>

RouterDrops ==
    /\ inner # {}
    /\ inner' = {} /\ gone' = TRUE
    /\ UNCHANGED <<mapper, mapping, punch, rport, mapPort, spc, taken, faults,
                   lost, stale, later>>

-----------------------------------------------------------------------------
MapStep ==
    \/ MapEnter
    \/ \E p \in Answers : MapInner(p)
    \/ MapInnerFails
    \/ \E q \in Ports : MapPunch(q)
    \/ MapPunchFails \/ Cleanup \/ UnmapOld

StopStep == UnmapTake \/ UnmapIgnored \/ UnmapPunch \/ UnmapTakenInner

Next == Tick \/ MapStep \/ Apply \/ StopBegin \/ StopStep \/ RouterDrops

(* Calls return, and a goroutine waiting for a mutex gets it in the end.   *)
Spec == Init /\ [][Next]_vars
             /\ WF_vars(MapStep) /\ WF_vars(Apply) /\ SF_vars(StopStep)

-----------------------------------------------------------------------------
(* The last renewal moved the inner port away from the internal one, so    *)
(* that unmapping the old one deleted what it had just made.               *)
NewDeleted == mapper = "natpmp" /\ old = InternalPort /\ got # InternalPort

(* Whenever m.mu is free, the mapping records the punch session and what   *)
(* the inner router has bound, no more and no less, after any sequence of  *)
(* renewals that change either port or fail, and after an UnmapPort that   *)
(* did nothing; unless a MapPort overlapped UnmapPort's teardown.  The     *)
(* binding may be missing only when the router dropped it, or NewDeleted.  *)
MappingTracks ==
    MMuFree /\ mapping # None /\ ~lost /\ later # "during" =>
        /\ mapping.punch = punch
        /\ \/ inner = {mapping.inner}
           \/ inner = {} /\ (gone \/ NewDeleted)

(* What UnmapPort leaves of a mapping that bound p. *)
Kept(p) == IF mapper = "natpmp" THEN {p} \ {InternalPort} ELSE {}

(* When Stop has returned and no MapPort is under way, both layers are     *)
(* released, whatever they were renewed to, but for an inner port NAT-PMP  *)
(* cannot name; or UnmapPort was given an outdated port, and has touched   *)
(* neither: the mapping still names the session.  Lost calls aside, only a *)
(* MapPort that came after UnmapPort had looked is excepted.               *)
BothLayersReleased ==
    spc = "returned" /\ rpc = "idle" /\ ~lost /\ later = "never" =>
        IF stale
           THEN mapping # None /\ mapping.punch = punch /\ rport = punch
           ELSE /\ mapping = None /\ punch = None
                /\ inner \subseteq Kept(taken.inner)

(* When the first MapPort fails, whichever layer it is that fails, nothing *)
(* is left on the inner router but a port NAT-PMP cannot name, and no      *)
(* session is kept.                                                        *)
FirstFailureLeavesNothing ==
    rport = None /\ rpc = "idle" /\ ~lost =>
        inner \subseteq Kept(got) /\ punch = None

(* Stop returns: no goroutine holds m.mu while it waits for r.mu.          *)
StopReturns == spc = "unmap" ~> spc = "returned"

(* "UnmapPort stops the upstream TCP punch and then removes the inner      *)
(* router map" (tcppunch_composite.go:100), if no MapPort enters later.    *)
UnmapStopsPunch == spc = "returned" /\ later = "never" => punch = None
=============================================================================
