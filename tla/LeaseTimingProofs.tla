------------------------- MODULE LeaseTimingProofs -------------------------
(* Proofs about LeaseTiming, for every interval, lease, latency and number *)
(* of failures that satisfy its assumptions.                               *)
EXTENDS LeaseTiming, TLAPS

(* A call begins when the ticker fires and ends before it fires again.     *)
Clock ==
    /\ pending => call = "none" /\ tick = Interval
    /\ call # "none" => tick = Interval - elapsed

(* How old a lease can be: each failure adds an interval to the time since *)
(* the tick after which it was granted, or since the set-up.               *)
Age ==
    IF call = "granted" THEN lease >= Shortest - elapsed
    ELSE lease >= Shortest - Setup - failures * Interval
                     - (IF pending THEN Interval
                        ELSE IF call = "asked" THEN Interval + elapsed
                        ELSE Interval - tick)

IInv == TypeOK /\ Clock /\ Age

LEMMA OneMore ==
    ASSUME NEW n \in Nat
    PROVE  /\ n * Interval \in Nat
           /\ (n + 1) * Interval = n * Interval + Interval
<1>1. Interval \in Nat
    BY TimesAssumption
<1>2. QED
    BY <1>1

LEMMA InitInv == Init => IInv
<1> SUFFICES ASSUME Init PROVE IInv
    OBVIOUS
<1> USE TimesAssumption, MarginAssumption DEF Init
<1>1. PICK granted \in Shortest..Duration, ago \in 0..Setup :
          lease = granted - ago
    OBVIOUS
<1>2. failures * Interval = 0
    OBVIOUS
<1>3. lease \in Int /\ lease <= Duration
    BY <1>1
<1>4. Clock /\ Age
    BY <1>1, <1>2 DEF Clock, Age
<1>5. pending \in BOOLEAN
    BY Zenon
<1>6. TypeOK
    BY <1>3, <1>5 DEF TypeOK
<1>7. QED
    BY <1>4, <1>6 DEF IInv

LEMMA StepInv == IInv /\ [Next]_vars => IInv'
<1> SUFFICES ASSUME IInv, [Next]_vars PROVE IInv'
    OBVIOUS
<1> USE TimesAssumption, MarginAssumption DEF IInv, TypeOK
<1>0. failures * Interval \in Nat
    BY OneMore
<1>1. CASE TimePasses
    BY <1>0, <1>1 DEF TimePasses, Clock, Age
<1>2. CASE Tick
    BY <1>0, <1>2 DEF Tick, Clock, Age
<1>3. CASE RenewBegins
    <2>1. TypeOK'
        <3>1. pending' \in BOOLEAN
            BY <1>3, Zenon DEF RenewBegins
        <3>2. QED
            BY <1>3, <3>1 DEF RenewBegins
    <2>2. Clock'
        BY <1>3 DEF RenewBegins, Clock
    <2>3. Age'
        BY <1>0, <1>3 DEF RenewBegins, Clock, Age
    <2>4. QED
        BY <2>1, <2>2, <2>3
<1>4. ASSUME NEW granted \in Shortest..Duration, GatewayGrants(granted)
      PROVE IInv'
    BY <1>4 DEF GatewayGrants, Clock, Age
<1>5. CASE RenewOk
    BY <1>5 DEF RenewOk, Clock, Age
<1>6. CASE RenewFails
    <2>1. failures' * Interval = failures * Interval + Interval
        BY <1>6, OneMore DEF RenewFails
    <2>2. QED
        BY <1>0, <1>6, <2>1 DEF RenewFails, Clock, Age
<1>7. CASE UNCHANGED vars
    BY <1>7 DEF vars, Clock, Age
<1>8. QED
    BY <1>1, <1>2, <1>3, <1>4, <1>5, <1>6, <1>7 DEF Next

LEMMA Invariance == Spec => []IInv
    BY InitInv, StepInv, PTL DEF Spec

(* Type correctness: in particular, a tick is never missed. *)
THEOREM Typing == Spec => []TypeOK
<1>1. IInv => TypeOK
    BY DEF IInv
<1>2. QED
    BY <1>1, Invariance, PTL

(* With the margin the assumption names, the lease of a mapping whose      *)
(* renewals succeed never runs out (constants.go:8).                       *)
THEOREM Held == Spec => []LeaseHeld
<1>1. IInv => LeaseHeld
    <2> SUFFICES ASSUME IInv, failures = 0 PROVE lease > 0
        BY DEF LeaseHeld
    <2>1. failures * Interval = 0
        BY TimesAssumption
    <2>2. QED
        BY <2>1, TimesAssumption, MarginAssumption DEF IInv, TypeOK, Clock, Age
<1>2. QED
    BY <1>1, Invariance, PTL

(* After n failures in a row, a mapping has been gone for no longer than   *)
(* the intervals, the set-up and the call that it has missed.              *)
THEOREM Outage == Spec => []OutageBounded
<1>1. IInv => OutageBounded
    <2> SUFFICES ASSUME IInv PROVE OutageBounded
        OBVIOUS
    <2>1. /\ failures * Interval \in Nat
          /\ (failures + 1) * Interval = failures * Interval + Interval
        BY OneMore DEF IInv, TypeOK
    <2>2. QED
        BY <2>1, TimesAssumption DEF IInv, TypeOK, Clock, Age, OutageBounded
<1>2. QED
    BY <1>1, Invariance, PTL
=============================================================================
