# TLA+ models of go-nat-listener

`go-nat-listener` (package `nattraversal`) gives a program listeners that are
reachable through a NAT: it maps a port on the gateway, binds a socket, renews
the mapping every 45 minutes in a goroutine, publishes a changed external port
to the listener and its users, and takes everything down on `Close`. A second
family of mappers punches through TCP NATs with a keepalive connection. This
directory holds TLA+ models of that behaviour, their TLC configurations and
machine-checked proofs. Paths below are relative to `src/`.

Contents: 1 the system, 2 the modules, 3 what each run checks, 4 fairness,
5 what is proved, 6 disagreements between code and documentation, 7 what is not
modelled, 8 the plan, 9 how to run it.

## 1. The system

| Component | State | Operations | Talks to |
|---|---|---|---|
| Renewal manager (`renewalmanager.go`) | `started`, `externalPort`, `ticker`, `done`, `onPortChange`, under `mu` | `Start`, `Stop`, `SetPortChangeCallback`, `ExternalPort`; one `renewLoop` goroutine per `Start` | a `PortMapper` (calls), the listener (callback) |
| TCP listener (`natlistener.go`, `natconn.go`) | `closed`, `externalPort`, `addr`, `fallback`, under `mu`; the socket | `Accept`, `Close`, `updateExternalPort` | the renewal manager, both ways |
| UDP listener (`natpacketlistener.go`, `natpacketconn.go`) | the same and `cachedPacketConn`; the wrapper's `closeOnce`, `closeErr`, `localAddr` | `Accept`, `PacketConn`, `Close`, `updateExternalPort`; the wrapper's `Close` | the same; users hold the wrapper |
| Listener setup (`listener.go`, `packetlistener.go`, `utils.go`) | none of its own; acquires mapping, socket, IP | `ListenContext`, `ListenWithFallbackContext` and the packet versions | mapper selection, mappers, sockets |
| Mapper selection (`portmapper.go`) | none; reads the environment variables | `NewPortMapperContext`, `NewTCPPortMapperContext` | direct, UPnP, NAT-PMP, punch mappers |
| TCP punch mapper (`tcppunchmapper.go`) | `mapping`, under `m.mu`; each mapping's `conn`, `cancel`, `done` | `MapPort`, `UnmapPort`, `GetExternalIP`; one `keepAliveLoop` goroutine per mapping | STUN server, keepalive peer |
| Composite mapper (`tcppunch_composite.go`) | `mapping` (inner and punched port), under `m.mu` | `MapPort`, `UnmapPort` | an inner mapper, a TCP punch mapper |
| Direct, UPnP, NAT-PMP mappers | a client handle | `MapPort`, `UnmapPort`, `GetExternalIP` | gateway |
| Gateway discovery (`gateway*.go`) | none | search the system's routing table, or guess | operating system |
| Lease timing (`constants.go`) | the ticker's and the gateway's clocks | a tick every 45 minutes, leases of 90 | renewal manager, gateway |
| Addresses, socket options, test doubles | none or immutable | | |

**Where it is hard.** Two mutexes are held across blocking calls. `Stop` keeps
`r.mu` while it calls the gateway; a listener's `Close` keeps `l.mu` while it
calls `Stop`; the renewal goroutine needs `r.mu` to record an answer and `l.mu`
in its callback; the composite mapper keeps `m.mu` across the calls of both its
mappers. The renewal goroutine calls `MapPort` with no lock at all, so its
answer may be applied, or its effect on the gateway may occur, at a moment when
the manager has been stopped or started again. A gateway call may take effect
and yet report an error; the gateway may forget a mapping or assign another
port. A listener's set-up acquires three things in turn and may be cancelled
between any two. A socket is closed through two objects. A `MapPort` of the
punch mapper dials outside the lock and may find another mapping installed; its
goroutine redials while `UnmapPort` tears it down. Several listeners share one
gateway, which knows nothing of who mapped what. A discovery that was cancelled
looks like a device that is not there. Routing tables and STUN messages come
from outside and may hold anything.

**What makes each part correct**

* Manager: exactly one open `done` channel while started, so `close` never
  panics and no goroutine is orphaned; the port it reports is the gateway's; a
  stopped manager leaves no mapping; an older cycle's answer never overwrites a
  newer cycle's port; `Stop` returns; goroutines end; a lost mapping returns.
* Listeners: the port, the address and the manager's port agree; a returned
  `Close`, the second one included, means socket closed and mapping removed;
  `Close` and `Accept` do not hang; the UDP socket is closed
  once and every closer sees one error; ports are published in order.
* Set-up: every failure gives back what was acquired; a cancelled call never
  ends as a listener or a fallback; the fallback does not collide with its own
  failed attempt. Listeners do not take each other's bindings away, a renewal in
  flight leads from one port to the next without a gap, and a binding that was
  taken away comes back.
* Lease timing: the lease does not run out while renewals succeed, and the time
  it can be gone when they fail is bounded.
* Selection: the port is asked of the most preferred mapper that answered, the
  gateway is that of the routing table, the reported address is the outermost
  one, and cancelling is never taken for an answer.
* Punch mapper: no goroutine or connection without an owner; `UnmapPort` ends
  the session for good and returns; a broken connection comes back.
* STUN: the endpoint is the one the server wrote, or none.
* Composite: its record agrees with both layers; a failed first `MapPort`
  leaves nothing; `UnmapPort` releases both layers; no deadlock with `Stop`.

## 2. The modules

| Module | Models | Uses |
|---|---|---|
| `RenewalManager` | the renewal manager and the gateway as it sees it | |
| `PortPublication` | what a listener promises about its port (abstract) | |
| `NATListener` | TCP listener and its manager | `RenewalManager`, refines `PortPublication` |
| `NATPacketListener` | UDP listener, wrapper, manager | `NATListener`, refines `PortPublication` |
| `ListenSetup` | listeners behind one gateway: set-up, fallback, renewal, `Close` | |
| `TCPPunchMapper` | TCP punch mapper and its goroutines | |
| `TCPPunchPortMapper` | composite mapper between `renew` and `Stop` | |
| `LeaseTiming` | ticker, renewals and leases in discrete time | |
| `RoutingTable` | search for the default gateway, by platform | |
| `STUNQuery` | receiving and parsing a STUN answer | |
| `PublicAddress` | mapper selection up to the reported address | `RoutingTable`, `STUNQuery` |

The theorems about a module `M` are in `MProofs`, which extends it:
`RenewalManagerProofs`, `NATListenerProofs`, `NATPacketListenerProofs` (which
also instantiates `NATListenerProofs` for the parts of its invariant),
`ListenSetupProofs`, `TCPPunchMapperProofs`, `TCPPunchPortMapperProofs`,
`LeaseTimingProofs` and `PublicAddressProofs` (`RoutingTable` and `STUNQuery`
included).

Each model that runs has an `MC...` module for TLC. Operators introduced by a comment
"Mistake: ..." are altered forms of the definition that follows them; they take
no part in any specification and serve to show that a property notices the
mistake.

**`RenewalManager`.** One action per step of `Start`, `Stop` and `renew` that
others can observe. A critical section is one action, except that of `Stop`,
which calls the gateway inside it: `stop` tells where the `Stop` that holds
`r.mu` stands (`"closing"`: the channel is closed and the ticker still runs;
`"unmapping"`: it waits for `UnmapPort`), and `r.mu` is free exactly when
`stop = "none"`. Goroutines are numbered by their `Start`; `closed` and
`ticking` record each one's own `done` channel and ticker, as the goroutine gets
them as parameters. `pc[l]` is `"select"`, `"mapping"` (in `MapPort`),
`"mapped"` (wants `r.mu`), `"callback"` (runs the captured callback) or
`"exited"`. `mapping` is the gateway's binding. `LoopMapFail` covers the lost
request and the lost answer; `GatewayDrops` the expired lease and the rebooted
gateway. `StopUnmapFail` covers the reported failure and NAT-PMP's success
without effect. The module uses Go's ticker semantics since 1.23 (`go.mod` asks for
1.26.3): a stopped ticker leaves no stale tick in its channel. `raced` and
`lost` are history variables: some renewal was between call and answer when
`Stop` unmapped, and some failed call had or may have had an effect.

**`NATListener`.** An instance of `RenewalManager` (one cycle, as
`ListenContext` starts it once) whose `notified` is the listener's
`externalPort`, with `l.mu` (`lmu` names the `Close` that holds it across steps),
`closed`, the port in `addr`, the socket, and a program counter per caller of
`Close` and `Accept`. The socket's accept (`AcceptConn`) and the return of the
connection (`AcceptReturn`) are two steps, so a connection may be returned after a
`Close` has returned. In fallback mode there is no manager. `RM!StopBegin` is
guarded by `r.mu`, and the callback by `l.mu`, so the order in which the code
takes the two is in the model.

**`NATPacketListener`.** The TCP listener's closing and renewal (the two source
files agree there), and the wrapper: `cached`, `connPort`, `once`, `closeErr`.
`closes` counts the socket's `Close` calls; the first may fail, every later one
does. `late` is history: the wrapper was made after the listener was closed.

**`ListenSetup`.** A caller's `pc` is its next step. Failures of a step lead
through `"close"` and `"unmap"` as the code's error paths do. The context is
looked at where the code does (`Cancel` may happen anywhere). All mappers but the
direct one refuse port 0. All callers are on one host behind one gateway, which has a
table for UPnP and one for NAT-PMP (`Tables`): `binding[<<k, p>>]` is the external port that
protocol `k` has bound to internal port `p`, whoever asked for it, and an external
port leads to one internal port over both (`Assigned`). UPnP asks for the external
port that equals the internal one, which the gateway may refuse (`MapRefused`), and
deletes by it; NAT-PMP takes the port the gateway assigns and deletes by internal
port, but `UnmapPort` gives it the external one (`Deletes`). A punch mapper's
binding is its caller's own session (`<<"session", c>>`): `"punch"` ends whatever
session there is, `"composite"` only one with the port it is given. Callers with the
same port compete for the socket as well, and a bind may fail for any other reason
(`BindFails`).

The renewal goroutine of an open listener is in three parts: `RenewBegin` (a tick),
`RenewMapOk` and its failures (the gateway's side of `MapPort`, without a lock, at
any time, also after `Close`), and `RenewApply` (under `r.mu`, so not while the
listener's Stop unmaps). `renewing` says which is next, and `answer` holds the port
between the last two. A tick that the goroutine takes after `Close` has begun (its
`select` may prefer it to `done`) has the same effect at the gateway as one it took
just before, and is not an action of its own. The histories are `refused` (the last
bind failed, not for a socket of the caller's own), `raced` (Stop unmapped while a
renewal was in flight, or with a port that an answer had made outdated) and `named`
(the port a caller has named in an `UnmapPort`).

**`TCPPunchMapper`.** A `MapPort` call that dials makes one `tcpPunchMapping`;
the model names the object by the call. `live` says that its connection is open,
`reg` that `state.conn` holds it (it never holds another one than the goroutine's).
Dialling and the STUN query happen outside `m.mu`, so `MapLook`, `MapDial`,
`MapQueryOk` and `MapInstall` are separate. The goroutine is started after
`m.mu` was released: `MapSpawn` is separate too.

**`TCPPunchPortMapper`.** `renew` (which calls `MapPort` under `m.mu`) and `Stop`
(which calls `UnmapPort` under `r.mu`); each call of the inner or the punch
mapper is an action. The punch mapper is taken at its interface: a session with
one public port, whose refresh never fails and whose creation may. `mapper` is the
kind of inner mapper: UPnP, which always maps the internal port's number; NAT-PMP,
which gets any number, binds one per internal port, and whose `UnmapPort` deletes
by internal port (`Deletes`); or any other `PortMapper`, which the constructor
takes, whose router may replace the binding or keep both (`Bound`) and deletes by
external port. Each of the three places that unmap an inner port may fail. `gone`
is history: the router has dropped what was mapped last.

**`LeaseTiming`.** Timers are written as the time left, so nothing grows without
bound. The ticker's channel holds one tick (`pending`). A call of `MapPort` takes up to
`Latency`; the gateway grants the lease at any moment of it, and the answer may be
lost afterwards. A lease is between `Shortest` and `Duration`, since NAT-PMP gateways may grant
less than they are asked for and `natpmpmapper.go:75` does not look. `Setup` is the time
from the first grant to `Start`.

**`RoutingTable`.** One action per line read, in the code of each platform. A line is
its kind (default route, half of the address space, heading, rule, other) and
what stands in its gateway column; an address is a subnet and a host number. How
a line is split into fields is not modelled. `Gateways` and `Unreadable` say of
the table as a whole what the search, line by line, should come to.

**`STUNQuery`.** The body is a sequence of bytes, read at offsets as the code does, with
the padding, the XOR with the cookie and the length checks; the header is reduced to
the outcome of its checks. The server's side is an assumption about the environment:
a successful message is the `Encode` of attributes, each with a type, a value of up
to 65535 bytes and the endpoint it says, if any (`IsAttribute`).

**`PublicAddress`.** From `NewPortMapperContext` or `NewTCPPortMapperContext` to
`GetExternalIP`, in an environment that stays as it is. `trying` is the discovery
under way; an interface's address has a scope, among them `"reserved"` for the ranges
nobody can be reached under and `isGloballyRoutableIP` does not know. The standard
chain begins with the direct mapper, the one of the punch
(`"inner"`) with UPnP. A discovery may miss what is there (`missed`), by timeout
or cancellation. The NAT-PMP step runs the actions of `RoutingTable`, the punch those
of `STUNQuery`.

## 3. The runs

Every run explores its instance completely.

| Run | Instance | Shows |
|---|---|---|
| `RenewalManager_all` | 2 Start/Stop cycles, 2 ports, 2 faults | `OneOpenLoop`, `TrackedPort`, `LeakOnlyByRace`, `PortChangeIsCurrent`, `StopReturns`, `LoopExits`, `Recovers` |
| `RenewalManager_race` | 1 cycle, no fault | `StopUnmaps` is violated (section 6) |
| `NATListener_all` | 2 closers, 2 acceptors, 3 ports, 1 fault | `PortsAgree`, `ClosedMeansReleased`, `CloseReturns`, `AcceptEnds`, refinement of `PortPublication` |
| `NATPacketListener_all` | 2 closers, 2 wrapper users, 2 ports, 1 fault | `ClosedOnceIfTaken`, `SameError`, `WrapperAgrees`, `ClosedMeansReleased`, `CloseReturns`, refinement of `PortPublication` |
| `NATPacketListener_late` | 1 closer, 1 user | `ClosedOnce` is violated |
| `ListenSetup_safety` | 2 callers, 2 fixed ports or 0, with and without fallback, 5 kinds of mapper, 1 fault | `FailureLeavesNothing`, `FallbackServes`, `Undisturbed`, `CancelEndsCall`, `Heals` |
| `ListenSetup_natpmp` | 1 caller, no fault | `NATPMPUnmaps` is violated |
| `TCPPunchMapper_all` | 2 `MapPort`, 2 `UnmapPort`, 2 internal ports | `NoOrphan`, `UnmapStops`, `ConnsAreOwned`, `UnmapReturns`, `Reconnects` |
| `TCPPunchPortMapper_safety` | 3 kinds of inner mapper, 2 ports per layer, 2 faults | `MappingTracks`, `BothLayersReleased`, `FirstFailureLeavesNothing`, `StopReturns` |
| `TCPPunchPortMapper_stale` | no fault | `UnmapStopsPunch` is violated |
| `LeaseTiming_all` | interval 9, leases 16 to 18, calls up to 3, 2 failures | `LeaseHeld`, `OutageBounded` |
| `PublicAddress_all` | 8368 environments | `GatewayFound`, `EndpointIsMapped`, `MostPreferred`, `ReportedIsOutermost` |

Each module of a component with state has a type invariant `TypeOK`.
`RenewalManager_all` checks its module's; all are proved (`Typing`, section 5).

**Bounds, and why they are enough.** The bounds are the constants `MaxStarts`
and `MaxFaults` and the sizes of the sets; nothing else is capped.

* Two cycles: the goroutine of a stopped cycle meets the next cycle; a third
  adds no new kind of neighbour, since `Stop` must have ended before each
  `Start`. The proofs cover every number of cycles.
* Two faults let a call fail whose predecessor failed as well; two ports let a
  port change and change back. Three in `NATListener_all`: the assignment that
  follows one whose publication is still waiting.
* Two closers: one at work and one that finds the listener closed. A further
  closer behaves as the second. Likewise for users of the wrapper.
* Two `MapPort` calls against two `UnmapPort`: two calls race for the mapping, or
  one replaces the other's between two unmappings. Calls of one kind are alike
  and are named in the order in which they begin (`OrderedSpec`), which, unlike a
  symmetry set, is sound for the liveness properties as well.
* Two callers in `ListenSetup`: a disturbance has one culprit and one victim.
  The two are alike and so are the two ports. `OrderedInit` takes three cases: rivals
  for one port, one of which may fall back; two ports of one gateway; port 0 and a
  fixed port with no fallback. A port serves as an internal and an external one, so
  that an assigned port may be another caller's internal one. `Meeting` leaves out
  what shows nothing that another case does not: kinds of mapper that have neither
  table nor session in common meet over a socket only, where one such pair for each
  kind is enough; with port 0 all mapping kinds fail alike; one caller is
  cancelled, and only in the case of rivals. The safety properties are proved without
  these restrictions; `CancelEndsCall` and `Heals` are checked under them.
* `LeaseTiming`: a lease of nearly two intervals, times small enough for every
  order of tick, call, grant and expiry; two failures let the lease run out and
  stay out. The proofs cover every other choice of times.
* `PublicAddress`: environments vary one part at a time, as the parts do not
  meet except in the selection. Tables have up to four lines (heading,
  default route, rule, another default route), messages up to three attributes,
  and every message of up to two is also cut or mislabelled at every length.
* `CHECK_DEADLOCK FALSE` everywhere: each system may come to rest (nobody calls
  `Stop`, all calls have returned). Hanging is instead excluded by the `...Returns`
  and `...Ends` properties.

**The provisos.** `LeakOnlyByRace` and its relatives exempt executions with
`raced` or `lost`. Both exemptions are narrow: `raced` becomes true only when `Stop`
unmaps while a renewal is between its call and its answer; `lost` only when a failed call had an
effect or an unmapping failed (or, for NAT-PMP, did nothing).
`FailureLeavesNothing` leaves out NAT-PMP bindings whose external port is not
the internal one (`ListenSetup_natpmp` shows why) and, for a listener whose Stop was
`raced`, the binding of its own renewal (`RenewalManager_race` shows why).
`Undisturbed` names the two ways in which one listener does take away another's
binding (`Disturbs`): the same port, which is mapped before it is bound, and a
NAT-PMP port that is the other's internal one; everything else is excluded, as long as
the gateway keeps its word (`faults = 0`). Between the answer to a renewal's `MapPort`
and its being recorded, a listener is reachable at the port it is about to record and still
reports the old one; `Undisturbed` says no more than that. `Heals` is what holds
after faults and disturbances: each time the recorded port does not lead to the
listener, a renewal makes it do so, or the listener is closed, or the gateway has
given away every port the listener could have. It does not say "for good": a gateway that
moves the port at each renewal opens that window at each renewal.
`FallbackServes` says that the fallback does not stand in its own way; that a bind
can be refused for other reasons is in the model. `BothLayersReleased` excepts a
`MapPort` that came after `UnmapPort` had looked; of an `UnmapPort` that was given an
outdated port it says that it left both layers as they were and recorded.
`MappingTracks` excepts only a `MapPort` that overlaps the teardown, which does leave
the record naming a session that is gone. `MarginAssumption` leaves out leases so
short that they run out between two renewals: a gateway may grant them, the code does not
look (`natpmpmapper.go:75`), and nothing here would notice.
`EndpointIsMapped` promises an answer for messages that arrive
whole and have at most 2048 bytes of attributes, which is all the code accepts
(`MaxLength`; longer ones are refused); that an answer is never a wrong one it
promises for all.

## 4. Fairness

* A goroutine that can run does run (weak fairness per step of a call that has
  begun, and of each goroutine). Go's scheduler is preemptive.
* Mapper calls, dials and reads return: their clients have time-outs
  (`tcppunchmapper.go` sets deadlines; the UPnP and NAT-PMP libraries have
  their own). Which answer they give is left open, failures are bounded.
* Mutex waiters get the mutex (strong fairness of `LoopApply`,
  `UpdateExternalPort`, and of the composite's `StopStep`): `sync.Mutex` hands
  over to a waiter after 1 ms in starvation mode.
* Tickers fire. Strong fairness of `LoopDialOk` says that redials do not fail
  forever; `Reconnects` is a claim about the loop, not about the network.
* The renewals of an open listener in `ListenSetup` go on (weak fairness of
  `Renew`): the ticker fires, the gateway answers or refuses, and the answer is
  recorded; calls that fail otherwise are the bounded faults.
* `LeaseTiming` and `PublicAddress` state safety only and assume no fairness.
* Nobody has to call `Start`, `Stop`, `Close`, `Accept`, `MapPort` or
  `UnmapPort`.

## 5. What is proved

Every safety property that a passing run checks is proved for all values of the
constants, and TLAPS checks the proofs to the last step. In each proof module `Inv` is an
inductive invariant that the properties follow from: `Invariance` states
`Spec => []Inv`, `Typing` states `Spec => []TypeOK`, and the other theorems state the
properties by name.

| Module | Theorem: property | For every | Assumptions |
|---|---|---|---|
| `RenewalManagerProofs` | `OneLoop`: `OneOpenLoop`; `Tracking`: `TrackedPort`; `NoLeak`: `LeakOnlyByRace`; `PortChange`: `PortChangeIsCurrent` | set of ports, number of cycles and faults | `NoPort` is no port; the bounds are naturals |
| `NATListenerProofs` | `Agreement`: `PortsAgree`; `Released`: `ClosedMeansReleased`; `Refinement` | set of closers, acceptors and ports, number of faults | as above; `NoOne` is no closer |
| `NATPacketListenerProofs` | `OneClose`: `ClosedOnceIfTaken`; `OneError`: `SameError`; `Agreement`: `WrapperAgrees`; `Released`: `ClosedMeansReleased`; `Refinement` | set of closers, users and ports, number of faults | as above; a caller is a closer or a user, not both |
| `ListenSetupProofs` | `NothingLeft`: `FailureLeavesNothing`; `Falling`: `FallbackServes`; `Reaching`: `Undisturbed` | set of callers and ports, number of faults | `PortAssumption`, `KindAssumption`: the special values are neither ports nor kinds of mapper |
| `TCPPunchMapperProofs` | `Orphans`: `NoOrphan`; `Stopping`: `UnmapStops`; `Ownerships`: `ConnsAreOwned` | set of `MapPort` calls, `UnmapPort` calls and ports | `None` is no call and no port |
| `TCPPunchPortMapperProofs` | `Tracking`: `MappingTracks`; `Released`: `BothLayersReleased`; `FirstFailure`: `FirstFailureLeavesNothing` | set of ports, number of faults | `None` is no port and no mapping; `InternalPort` is a port |
| `LeaseTimingProofs` | `Held`: `LeaseHeld`; `Outage`: `OutageBounded` | interval, lease, latency, set-up, failures in a row | `TimesAssumption`, `MarginAssumption` (below) |
| `PublicAddressProofs` | `Searched`: `GatewayFound`; `Selection`: `MostPreferred`; `Parsed`: `EndpointIsMapped`; `Reported`: `ReportedIsOutermost` | set of environments: tables, lists and messages of any length | `EnvironmentsAssumption`, `XorAssumption` (below) |

The assumptions stand beside the constants in the modules and TLC evaluates
them on every run.

**`RenewalManager`.** None of the properties is inductive. That `Stop` finds the binding
where it unmaps (`LeakOnlyByRace`) needs that while it waits, the binding is nothing or
the port it unmaps (`UnmapsCurrent`), which needs that before, the binding was
the manager's port or an answer on its way (`Binding`), which needs that only
the current cycle's goroutine can have a renewal under way when no `Stop` has been
raced (`CurrentRenews`). That in turn rests on the life of
a goroutine's channel and ticker (`Cycles`, `OneOpenLoop`), and on a goroutine
holding an answer exactly between `MapPort` and the end of `renew` (`Answers`).

**`NATListener`.** `Locking` says who holds `l.mu`; `Closing` where the manager
stands at each step of `Close`, and that `l.mu` is free for good once a `Close` has
returned, which is why a second `Close` cannot return too early. `Cycle` is the
life of the one renewal goroutine, and `Publishing` says that an assigned
port which the listener does not have yet is in the goroutine's callback. `Binding` is the
manager's part for one cycle. `Refinement` states that initial states are those of
`PortPublication` and that every step is one of its steps or leaves both ports
alone: the gateway's answer is applied only if the port before was published. Of
`PublishesPorts` that is all but the fairness.

**`NATPacketListener`.** The listener's invariant is that of `NATListener`, by
instance. `Socket` counts the socket's closes against `sync.Once`, the cached
pointer and the moment the wrapper was made; `Errors` says that whoever closed
it was told what the wrapper keeps. For `Refinement` the published port is the
listener's until there is a wrapper and the wrapper's from then on;
`WrapperAgrees` makes the change-over invisible.

**`ListenSetup`.** `Sockets` says at which steps a caller has a socket and why a
fallback can have failed. `Progress` says what a caller and its renewal have learnt at
each step, and that a renewal which was in flight past `Stop` was `raced`. `Leases`:
a binding that has not been renumbered has an owner (`Owns`) who is going to remove it
or whose renewal was raced, unless the gateway lost a call; a UPnP binding keeps
the number of its port. `Reachable`: from the moment a caller's binding is made it is
in place, at the port recorded or about to be (`Answered`), or another caller has
disturbed it.

**`TCPPunchMapper`.** `Stages` is the life of a `tcpPunchMapping`, from the
dial by its own `MapPort` to its goroutine. `Ownership`: once installed, it is the mapper's
or an `UnmapPort` has taken it for good. `Taking` is where that `UnmapPort` stands.

**`TCPPunchPortMapper`.** `Control` relates `renew` and `Stop`: `Stop` begins after
the first `MapPort` has succeeded, takes the mapping once, and which `MapPort` can be
under way by then, and by which port the mapping goes. `Layers` says, at each step of
either, what the inner router has bound and which punch session there is, with a mapping
(`Mapped`) and without (`Unmapped`).

**`LeaseTiming`.** What is left of a lease depends on when it was granted, which the
state does not record. `Clock` relates the ticker to the call under way (a call
begins when the ticker fires and ends before the next tick), and `Age` bounds from
below what is left of the lease by the ticker, the call and the failures.
`TimesAssumption`: times are naturals, a call is shorter than the interval, no lease
is longer than asked for. `MarginAssumption` is
`Interval + Setup + Latency < Shortest`, which is what "double the interval for
safety" (`constants.go:8`) has to mean: with 45 and 90 minutes the lease survives
as long as the gateway grants more than 45 minutes plus the time of a call and of
the set-up. It does not survive a failed renewal for certain: the
second attempt comes when the lease is just running out.

**`PublicAddress`.** `Given` says that the environment is one of `Environments`, so that
what the module assumes of those can be used. The rest has four parts.
`SearchInv`: the lines read so far hold no gateway, and on Windows the section
is the one they say it is. `Selecting`: a mapper is tried only when none preferred to it
has answered, and a mapping has a mapper that is best (`Best`), unless
cancelled before the mapping. `Reporting`: what `GetExternalIP` reports comes from the
mapper selected. `STUNInv`: the offset at which the parse stands is
where some attribute begins, and no attribute before it says an endpoint.

Two of its lemmas are about data. `Detection`: the address found by the two folds of
`PublicIP` is a candidate of an interface that is up, IPv4 if there is any, and
none only if there is none. `Layout`: in an encoded message each attribute stands
where the one before it ends; `Attribute` concludes that what the parse reads at
such an offset, the type, length and value, is that attribute. Both go by
induction over the length of a list. The
library's induction theorems take an operator as a parameter, which
the provers cannot instantiate; `Induction` restates the principle for a set of
naturals, from the well-foundedness of `<`, and the functions that `FlattenSeq` and
the fold choose are shown to exist by that induction before their equations are
used.

`EnvironmentsAssumption`: tables, lists and attributes are finite sequences, an
address has one scope, and a successful STUN message encodes its
attributes. `XorAssumption`: XORing a byte twice with a byte of the mask gives it
back. It is about constants only, 256 numbers and six bytes, and TLC evaluates
it completely; the provers cannot sum over bits.

**What stays with TLC.** The liveness properties (`StopReturns`, `LoopExits`,
`Recovers`, `CloseReturns`, `AcceptEnds`, `CancelEndsCall`, `Heals`, `UnmapReturns`,
`Reconnects`) and the fairness of `PortPublication` in `PublishesPorts`: fairness
and `ENABLED` are beyond the prover. TLC has checked every `Inv` but its `Given` as
an invariant of the module's passing run as well.

## 6. Where code and documentation disagree

* **`Stop` and a renewal in flight** (`RenewalManager_race`).
  `renewalmanager.go:105` says `Stop` terminates the renewal and unmaps the port.
  `renew` calls `MapPort` without `r.mu` and `Stop` does not wait for it, so
  the call may bind the port again after `Stop` has unmapped it.
* **A wrapper taken from a closed UDP listener** (`NATPacketListener_late`).
  `natpacketlistener.go:65` says that the connection is closed once even if both
  objects are closed. `PacketConn` does not look at `closed`; a wrapper it makes after `Close`
  has an unused `closeOnce`.
* **NAT-PMP unmapping** (`ListenSetup_natpmp`). `natpmpmapper.go:84` says that
  `UnmapPort` removes a mapping. Line 101 names the external port where the gateway
  looks up an internal one, so a binding whose external port the gateway chose
  stays until its lease ends.
* **Unmapping by an outdated punched port** (`TCPPunchPortMapper_stale`).
  `tcppunch_composite.go:100` says `UnmapPort` stops the punch and removes the inner
  mapping. If a `MapPort` has changed the port and `renew` has not recorded it
  yet, `Stop` names the old port, `UnmapPort` finds another one and
  does nothing; the session and both mappings stay.

Read in the code, without a run:

* `listener.go:107` and `README.md:181` say that `ExternalPort()` is the internal
  port in fallback mode. For port 0 it is 0 (`listener.go:151`), whatever the system
  bound.
* `gateway_test.go:28` says that the gateway should not be 0.0.0.0. Linux passes over
  such a route; the BSD and Windows parsers would return it.
* `natpmpmapper.go:32` calls a failed connectivity test non-fatal; the mapper is
  not made in that case, and the chain goes on without it.

Not in contradiction to any text, but worth knowing:

* On Linux the mask of a route is not looked at, so 0.0.0.0/1 passes for a default
  route (`gateway_linux.go:50`).
* `isGloballyRoutableIP` (`direct_port_mapper.go:111`) excludes the ranges it knows and
  takes every other for public: 192.0.0.0/24 (a 464XLAT client's own address),
  192.0.2.0/24, 198.18.0.0/15 (which tunnels use) and 240.0.0.0/4 too. A host with such an
  address gets the direct mapper and reports it, though nobody can reach it.
  `ReportedIsOutermost` counts these ranges (scope `"reserved"`) as the code does.
* The address a UPnP or NAT-PMP router reports is taken as it is, also behind a
  second NAT (`upnpmapper.go:210`), which is why `ReportedIsOutermost` is about the
  direct mapper and the punch.
* `Accept` may return a connection after `Close` has returned: the kernel's accept
  (`natlistener.go:51`) and the return (line 62) take no lock.
* When a renewal moves the inner port of a composite away from the internal one,
  and the inner mapper is NAT-PMP, unmapping the old one
  (`tcppunch_composite.go:84`) names the internal port and so deletes the binding
  that was just made (`NewDeleted`); it comes back with the next renewal.
* A `MapPort` of the composite that enters between UnmapPort's taking the mapping and
  its ending the session (`tcppunch_composite.go:113-116`) refreshes the old
  session and records it, and then it is ended.

## 7. What is not modelled

* Addresses (`addr.go`, `nataddr.go`: immutable records with getters), socket
  options (one system call each), logging. Covered by unit tests.
* Test doubles (`mocks.go`, `test_helpers.go`): used by the tests only.
* What the UPnP, NAT-PMP and SSDP libraries send; how a routing table's line is
  split into fields and an address read from text; how the punch settings are
  parsed, beyond whether they do.
* The payload of the keepalive connection and the timers inside
  `runKeepAliveConn`: the connection breaks at any moment instead.
* Data races whose outcome nothing depends on: `renew` reads `r.externalPort`
  for a log line, `Accept` reads `l.addr`, `LocalAddr` reads the wrapper's
  address, each without the lock.
* What the composite's inner mapper does to a gateway it shares with other
  listeners: `ListenSetup` has its session only, `TCPPunchPortMapper` one composite.
* On Windows `SO_REUSEADDR` lets a second listener bind a port in use
  (`socket_reuse_windows.go`); `Taken` is the rule of the other systems.
* Reads, writes and deadlines on connections: they pass through to the socket.
* Time, outside `LeaseTiming`: leases expire at any moment (`GatewayDrops`),
  tickers fire at any moment.

## 8. The plan

All models of the plan are done: `RenewalManager`, `PortPublication`,
`NATListener`, `NATPacketListener`, `ListenSetup`, `TCPPunchMapper`,
`TCPPunchPortMapper`, `LeaseTiming`, `RoutingTable`, `STUNQuery`,
`PublicAddress`. So are the proofs of their invariants and action properties.

What is left, in order of value:

1. A weaker proviso of `LeakOnlyByRace`: which ports can be left after a
   race, for any number of them.
2. That the manager in `NATListener` implements `RenewalManager` with one cycle, so
   that its `Binding` follows from the theorems about that module.
3. An abstract specification of the punch mapper (a session that is opened,
   refreshed and closed), which `TCPPunchPortMapper` takes for granted.

## 9. Running it

    tlc -config NATListener_all.cfg MCNATListener.tla
    tlapm NATListenerProofs.tla

and likewise for the other runs and proof modules. `ListenSetup_safety` takes two or
three minutes, `PublicAddress_all` and each of the larger proofs about one.

`PROJECT.json` lists components, runs, altered definitions, the source lines of
every definition, hazards and theorems.
