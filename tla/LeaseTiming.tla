---------------------------- MODULE LeaseTiming ----------------------------
(***************************************************************************)
(* When renewals come and when the lease they renew runs out: the ticker   *)
(* of renewalmanager.go, whose period is renewalInterval, against leases   *)
(* of mappingDuration (constants.go).  Time is discrete; timers are        *)
(* written as the time that is left, so that nothing grows without bound.  *)
(* A NAT-PMP gateway may grant less than it was asked for, and             *)
(* natpmpmapper.go does not look at what it granted.  What the manager     *)
(* does with the answers, and Stop, are in RenewalManager.                 *)
(***************************************************************************)
EXTENDS Integers

CONSTANTS
    Interval,   \* renewalInterval
    Duration,   \* mappingDuration
    Shortest,   \* the shortest lease a gateway grants
    Latency,    \* the longest a mapper call takes
    Setup,      \* the longest from the first grant to the start of the ticker
    MaxFailures \* bound: renewals that fail in a row

ASSUME TimesAssumption ==
    /\ Interval \in Nat /\ Duration \in Nat /\ Shortest \in Nat
    /\ Latency \in Nat /\ Setup \in Nat /\ MaxFailures \in Nat
    /\ Latency < Interval
    /\ Shortest <= Duration

(* What "double the interval for safety" (constants.go:8) buys.  With 45   *)
(* and 90 minutes it holds if the lease is granted as asked for and the    *)
(* calls and the set-up take less than 45 minutes together.                *)
ASSUME MarginAssumption == Interval + Setup + Latency < Shortest

VARIABLES
    tick,       \* the time until the ticker fires
    pending,    \* a tick is in the ticker's channel, which holds one
    call,       \* renew: "none", "asked" or "granted"
    elapsed,    \* how long it has been running
    lease,      \* what is left of the lease; it has run out unless positive
    failures    \* renewals that have failed since the last success

vars == <<tick, pending, call, elapsed, lease, failures>>

TypeOK ==
    /\ tick \in 0..Interval /\ pending \in BOOLEAN
    /\ call \in {"none", "asked", "granted"} /\ elapsed \in 0..Latency
    /\ lease \in Int /\ lease <= Duration
    /\ failures \in 0..MaxFailures

Init ==
    /\ tick = Interval /\ pending = FALSE
    /\ call = "none" /\ elapsed = 0
    /\ \E granted \in Shortest..Duration, ago \in 0..Setup :
          lease = granted - ago
    /\ failures = 0

(* The goroutine takes a tick at once when it waits for one, and a call    *)
(* does not take longer than Latency.                                      *)
TimePasses ==
    /\ tick > 0
    /\ call = "none" => ~pending
    /\ call # "none" => elapsed < Latency
    /\ tick' = tick - 1 /\ lease' = lease - 1
    /\ elapsed' = IF call = "none" THEN elapsed ELSE elapsed + 1
    /\ UNCHANGED <<pending, call, failures>>

(* Mistake: the ticker's period is that of the lease. *)
TickByLease ==
    /\ tick = 0
    /\ tick' = Duration /\ pending' = TRUE
    /\ UNCHANGED <<call, elapsed, lease, failures>>

(* A tick that finds the channel full is dropped. *)
Tick ==
    /\ tick = 0
    /\ tick' = Interval /\ pending' = TRUE
    /\ UNCHANGED <<call, elapsed, lease, failures>>

RenewBegins ==
    /\ call = "none" /\ pending
    /\ pending' = FALSE /\ call' = "asked" /\ elapsed' = 0
    /\ UNCHANGED <<tick, lease, failures>>

(* At some moment of the call the gateway grants a new lease. *)
GatewayGrants(granted) ==
    /\ call = "asked"
    /\ call' = "granted" /\ lease' = granted
    /\ UNCHANGED <<tick, pending, elapsed, failures>>

RenewOk ==
    /\ call = "granted"
    /\ call' = "none" /\ elapsed' = 0 /\ failures' = 0
    /\ UNCHANGED <<tick, pending, lease>>

(* Mistake: the interval counts from the end of the renewal. *)
RenewFailsRestarts ==
    /\ call # "none" /\ failures < MaxFailures
    /\ call' = "none" /\ elapsed' = 0 /\ failures' = failures + 1
    /\ tick' = Interval
    /\ UNCHANGED <<pending, lease>>

(* renew logs the error and returns; the next tick is the next attempt.    *)
(* The answer may have been lost after the lease was granted.              *)
RenewFails ==
    /\ call # "none" /\ failures < MaxFailures
    /\ call' = "none" /\ elapsed' = 0 /\ failures' = failures + 1
    /\ UNCHANGED <<tick, pending, lease>>

Next ==
    \/ TimePasses \/ Tick \/ RenewBegins
    \/ \E granted \in Shortest..Duration : GatewayGrants(granted)
    \/ RenewOk \/ RenewFails

Spec == Init /\ [][Next]_vars

-----------------------------------------------------------------------------
(* While no renewal has failed since the last success, the lease does not  *)
(* run out, however late within a call the gateway grants the next one.    *)
LeaseHeld == failures = 0 => lease > 0

(* Every renewal that fails costs one more interval.  With a lease of two  *)
(* intervals the mapping may therefore be gone after a single failure, for *)
(* as long as the set-up and a call take, and after two failures for an    *)
(* interval more; but it is never gone for longer than this.               *)
OutageBounded ==
    lease >= Shortest - (failures + 1) * Interval - Setup - Latency
=============================================================================
