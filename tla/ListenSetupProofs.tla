-------------------------- MODULE ListenSetupProofs --------------------------
(***************************************************************************)
(* The safety of listener setup, for any number of callers, any ports and  *)
(* any number of faults.                                                   *)
(***************************************************************************)
EXTENDS ListenSetup, TLAPS

Mapped == {"bind", "check", "getip", "listening"}
Giving == {"close", "unmap", "stop"}
Sharing == Protocols \cup Punches

(* Which callers have a socket; a fallback that fails with none had either *)
(* no right to one or no say in it.                                        *)
Sockets ==
    \A c \in Callers :
        /\ sock[c] # None <=>
              pc[c] \in {"check", "getip", "close", "listening", "fallback", "stop",
                         "shut"}
        /\ pc[c] = "failed" /\ fallback[c] => cancelled[c] \/ refused[c]

(* What a caller has learnt at each step, and its renewal too.             *)
Progress ==
    \A c \in Callers :
        /\ pc[c] = "start" => kind[c] = None
        /\ pc[c] \in {"start", "map"} => ext[c] = None
        /\ pc[c] \in {"map"} \cup Mapped \cup Giving => kind[c] \in Kinds
        /\ kind[c] \in Sharing =>
              /\ pc[c] \in Mapped \cup Giving => request[c] # 0 /\ ext[c] # None
              /\ ext[c] # None => ext[c] \in Ports
        /\ kind[c] = "upnp" =>
              ext[c] \in {request[c], None} /\ answer[c] \in {request[c], None}
        /\ answer[c] # None <=> renewing[c] = "mapped"
        /\ renewing[c] # "idle" =>
              /\ kind[c] \in Sharing /\ request[c] # 0 /\ ext[c] # None
              /\ pc[c] \in {"listening", "stop", "shut", "closed"}
        /\ pc[c] \in {"start", "map"} \cup Mapped \cup Giving =>
              named[c] = None /\ ~raced[c]
        /\ renewing[c] = "mapping" /\ pc[c] \in {"shut", "closed"} => raced[c]

(* A binding, unless NAT-PMP has renumbered it, has an owner who will      *)
(* remove it or whose renewal raced with its Stop, if the gateway lost no  *)
(* call.                                                                   *)
Owns(c, s) ==
    /\ kind[c] \in Sharing /\ Slot(c) = s
    /\ raced[c] \/ (pc[c] \in Mapped \cup Giving /\ Answered(c) = binding[s])

Leases ==
    /\ \A s \in {"upnp"} \X Fixed : binding[s] \in {s[2], None}
    /\ ~lost => \A s \in Slots :
          binding[s] # None /\ ~Renumbered(s) => \E c \in Callers : Owns(c, s)

(* A caller's binding is in place from the moment it is made, unless some  *)
(* other caller has disturbed it.                                          *)
Reachable ==
    faults = 0 => \A c \in Callers :
        pc[c] \in Mapped /\ kind[c] \in Sharing =>
            binding[Slot(c)] = Answered(c) \/ \E d \in Callers \ {c} : Disturbs(d, c)

Inv == TypeOK /\ Sockets /\ Progress /\ Leases /\ Reachable

(* The inductive invariant holds before any call.                          *)
LEMMA InvInit == Init => Inv
<1> SUFFICES ASSUME Init PROVE Inv
  OBVIOUS
<1> USE PortAssumption, BoundsAssumption, KindAssumption
    DEF Init, Kinds, Protocols, Punches, Sharing, Steps, Lives, Ends, Mapped, Giving
<1>1. TypeOK
  <2>1. pc \in [Callers -> Steps] /\ lost \in BOOLEAN
    BY Zenon
  <2>2. fallback \in [Callers -> BOOLEAN]
    OBVIOUS
  <2> QED
    BY <2>1, <2>2 DEF TypeOK
<1>2. Sockets /\ Progress
  BY DEF Sockets, Progress
<1>3. Leases /\ Reachable
  BY DEF Leases, Reachable, Slots, Tables
<1> QED
  BY <1>1, <1>2, <1>3 DEF Inv

(* A mapper other than the direct one has a slot of its own, and two       *)
(* callers share one only if it is in a protocol's table.                  *)
LEMMA SlotOfCaller ==
    ASSUME Progress, TypeOK, NEW c \in Callers, kind[c] \in Sharing, request[c] # 0
    PROVE  /\ Slot(c) \in Slots
           /\ kind[c] \in Protocols => Slot(c) = <<kind[c], request[c]>>
           /\ kind[c] \in Punches => Slot(c) = <<"session", c>>
           /\ \A d \in Callers : kind[d] \in Sharing /\ Slot(d) = Slot(c) /\ d # c =>
                 kind[c] \in Protocols /\ kind[d] = kind[c] /\ request[d] = request[c]
  BY DEF TypeOK, Slot, Slots, Tables, Sharing, Protocols, Punches

(* The steps of a caller that change nothing but where it stands.          *)
Moves(c) ==
    \/ StartCancelled(c) \/ SelectFails(c) \/ MapCancelled(c) \/ MapRefused(c)
    \/ Check(c) \/ GetIP(c) \/ GetIPFails(c) \/ GiveUp(c) \/ Close(c)

(* Every step preserves the inductive invariant.                           *)
LEMMA InvNext == Inv /\ [Next]_vars => Inv'
<1> SUFFICES ASSUME Inv, [Next]_vars PROVE Inv'
  OBVIOUS
<1> USE PortAssumption, BoundsAssumption, KindAssumption
    DEF Inv, Goto, call, renewal, gateway, history, Kinds, Protocols, Punches, Sharing,
        Steps, Lives, Ends, Mapped, Giving
<1>1. ASSUME NEW c \in Callers, Moves(c) PROVE Inv'
  <2> USE <1>1 DEF Moves, StartCancelled, SelectFails, MapCancelled,
          MapRefused, Check, GetIP, GetIPFails, GiveUp, Close
  <2>1. TypeOK'
    BY DEF TypeOK
  <2>2. Sockets'
    BY DEF TypeOK, Sockets
  <2>3. Progress'
    BY DEF TypeOK, Progress
  <2>4. Leases'
    BY DEF TypeOK, Leases, Owns, Renumbered, Slot, Answered, Progress
  <2>5. Reachable'
    BY DEF TypeOK, Progress, Reachable, Slot, Answered, Disturbs
  <2> QED
    BY <2>1, <2>2, <2>3, <2>4, <2>5
<1>2. ASSUME NEW c \in Callers, Cancel(c) PROVE Inv'
  <2> USE <1>2 DEF Cancel
  <2>1. TypeOK'
    BY DEF TypeOK
  <2>2. Sockets'
    BY DEF TypeOK, Sockets
  <2>3. Progress'
    BY DEF TypeOK, Progress
  <2>4. Leases'
    BY DEF TypeOK, Leases, Owns, Renumbered, Slot, Answered, Progress
  <2>5. Reachable'
    BY DEF TypeOK, Progress, Reachable, Slot, Answered, Disturbs
  <2> QED
    BY <2>1, <2>2, <2>3, <2>4, <2>5
<1>3. ASSUME NEW c \in Callers, NEW k \in Kinds, SelectOk(c, k) PROVE Inv'
  <2> USE <1>3 DEF SelectOk
  <2>1. TypeOK'
    BY DEF TypeOK
  <2>2. Sockets'
    BY DEF TypeOK, Sockets
  <2>3. Progress'
    BY DEF TypeOK, Progress
  <2>4. Leases'
    BY DEF TypeOK, Leases, Owns, Renumbered, Slot, Answered, Progress
  <2>5. Reachable'
    BY DEF TypeOK, Progress, Reachable, Slot, Answered, Disturbs
  <2> QED
    BY <2>1, <2>2, <2>3, <2>4, <2>5
<1>4. ASSUME NEW c \in Callers, MapDirect(c) PROVE Inv'
  <2> USE <1>4 DEF MapDirect
  <2>1. TypeOK'
    BY DEF TypeOK
  <2>2. Sockets'
    BY DEF TypeOK, Sockets
  <2>3. Progress'
    BY DEF TypeOK, Progress
  <2>4. Leases'
    BY DEF TypeOK, Leases, Owns, Renumbered, Slot, Answered, Progress
  <2>5. Reachable'
    BY DEF TypeOK, Progress, Reachable, Slot, Answered, Disturbs
  <2> QED
    BY <2>1, <2>2, <2>3, <2>4, <2>5
<1>5. ASSUME NEW c \in Callers, NEW p \in Ports, MapOk(c, p) PROVE Inv'
  <2> USE <1>5 DEF MapOk, Mapping
  <2>0. /\ kind[c] \in Sharing /\ request[c] # 0 /\ Slot(c) \in Slots
        /\ binding' \in [Slots -> Ports \cup {None}]
        /\ \A s \in Slots : binding'[s] = IF s = Slot(c) THEN p ELSE binding[s]
        /\ \A d : Slot(d)' = Slot(d)
    <3>1. kind[c] \in Sharing /\ request[c] # 0
      BY DEF Progress, TypeOK
    <3>2. Slot(c) \in Slots
      BY <3>1, SlotOfCaller
    <3> QED
      BY <3>1, <3>2 DEF TypeOK, Slot
  <2>1. TypeOK'
    BY <2>0 DEF TypeOK, Assigned
  <2>2. Sockets'
    BY DEF TypeOK, Sockets
  <2>3. Progress'
    BY DEF TypeOK, Progress, Assigned
  <2>4. Leases'
    <3>1. ASSUME NEW s \in {"upnp"} \X Fixed PROVE binding'[s] \in {s[2], None}
      <4>1. s \in Slots /\ s = <<"upnp", s[2]>>
        BY DEF Slots, Tables
      <4>2. CASE s = Slot(c)
        BY <2>0, <4>1, <4>2 DEF Slot, Assigned
      <4>3. CASE s # Slot(c)
        BY <2>0, <4>1, <4>3 DEF Leases
      <4> QED
        BY <4>2, <4>3
    <3>2. ASSUME ~lost, NEW s \in Slots, binding'[s] # None, ~Renumbered(s)'
          PROVE  \E d \in Callers : Owns(d, s)'
      <4>1. CASE s = Slot(c)
        BY <2>0, <4>1 DEF Owns, Answered, TypeOK, Progress
      <4>2. CASE s # Slot(c)
        <5>1. binding'[s] = binding[s] /\ ~Renumbered(s)
          BY <2>0, <3>2, <4>2 DEF Renumbered
        <5>2. PICK d \in Callers : Owns(d, s)
          BY <3>2, <5>1 DEF Leases
        <5>3. d # c
          BY <4>2, <5>2 DEF Owns
        <5> QED
          BY <2>0, <5>1, <5>2, <5>3 DEF Owns, Answered
      <4> QED
        BY <4>1, <4>2
    <3> QED
      BY <3>1, <3>2 DEF Leases
  <2>5. Reachable'
    <3> SUFFICES ASSUME faults = 0, NEW d \in Callers, pc'[d] \in Mapped, kind[d] \in Sharing
                 PROVE  \/ binding'[Slot(d)] = Answered(d)'
                        \/ \E e \in Callers \ {d} : Disturbs(e, d)'
      BY <2>0 DEF Reachable
    <3>1. CASE d = c
      BY <2>0, <3>1 DEF Answered, TypeOK, Progress
    <3>2. ASSUME d # c PROVE Answered(d)' = Answered(d) /\ pc[d] \in Mapped /\ request[d] # 0
      BY <3>2 DEF Answered, Progress, TypeOK
    <3>3. ASSUME NEW e \in Callers, Disturbs(e, d) PROVE Disturbs(e, d)'
      BY <3>3 DEF Disturbs, TypeOK
    <3>4. CASE d # c /\ Slot(d) # Slot(c)
      BY <2>0, <3>2, <3>3, <3>4, SlotOfCaller DEF Reachable
    <3>5. CASE d # c /\ Slot(d) = Slot(c)
      <4>1. kind[c] \in Protocols /\ kind[d] = kind[c] /\ request[d] = request[c]
        BY <2>0, <3>2, <3>5, SlotOfCaller
      <4>2. CASE kind[c] = "natpmp"
        BY <3>5, <4>1, <4>2 DEF Disturbs, TypeOK
      <4>3. CASE kind[c] = "upnp"
        <5>1. p = request[c]
          BY <4>3 DEF Assigned
        <5>2. Answered(d) = request[d]
          <6>1. ext[d] = request[d]
            BY <3>2, <3>5, <4>1, <4>3 DEF Progress
          <6>2. renewing[d] = "mapped" => answer[d] = request[d]
            BY <4>1, <4>3 DEF Progress
          <6> QED
            BY <6>1, <6>2 DEF Answered
        <5> QED
          BY <2>0, <3>2, <3>5, <4>1, <5>1, <5>2
      <4> QED
        BY <4>1, <4>2, <4>3
    <3> QED
      BY <3>1, <3>4, <3>5
  <2> QED
    BY <2>1, <2>2, <2>3, <2>4, <2>5
<1>6. ASSUME NEW c \in Callers, MapRequestLost(c) PROVE Inv'
  <2> USE <1>6 DEF MapRequestLost, Mapping, Fault
  <2>1. TypeOK'
    BY DEF TypeOK
  <2>2. Sockets'
    BY DEF TypeOK, Sockets
  <2>3. Progress'
    BY DEF TypeOK, Progress
  <2>4. Leases'
    BY DEF TypeOK, Leases, Owns, Renumbered, Slot, Answered, Progress
  <2>5. Reachable'
    BY DEF TypeOK, Progress, Reachable, Slot, Answered, Disturbs
  <2> QED
    BY <2>1, <2>2, <2>3, <2>4, <2>5
<1>7. ASSUME NEW c \in Callers, NEW p \in Ports, MapAnswerLost(c, p) PROVE Inv'
  <2> USE <1>7 DEF MapAnswerLost, Mapping, AnswerLost, Fault
  <2>0. /\ kind[c] \in Sharing /\ request[c] # 0 /\ Slot(c) \in Slots
        /\ binding' \in [Slots -> Ports \cup {None}]
        /\ \A s \in Slots : binding'[s] = IF s = Slot(c) THEN p ELSE binding[s]
        /\ \A d : Slot(d)' = Slot(d)
    <3>1. kind[c] \in Sharing /\ request[c] # 0
      BY DEF Progress, TypeOK
    <3>2. Slot(c) \in Slots
      BY <3>1, SlotOfCaller
    <3> QED
      BY <3>1, <3>2 DEF TypeOK, Slot
  <2>1. TypeOK'
    <3>1. lost' \in BOOLEAN
      BY DEF TypeOK
    <3> QED
      BY <2>0, <3>1 DEF TypeOK
  <2>2. Sockets'
    BY DEF TypeOK, Sockets
  <2>3. Progress'
    BY DEF TypeOK, Progress
  <2>4. Leases'
    <3>1. ASSUME NEW s \in {"upnp"} \X Fixed PROVE binding'[s] \in {s[2], None}
      <4>1. s \in Slots /\ s = <<"upnp", s[2]>>
        BY DEF Slots, Tables
      <4>2. CASE s = Slot(c)
        BY <2>0, <4>1, <4>2 DEF Slot, Assigned
      <4>3. CASE s # Slot(c)
        BY <2>0, <4>1, <4>3 DEF Leases
      <4> QED
        BY <4>2, <4>3
    <3>2. ASSUME ~lost', NEW s \in Slots, binding'[s] # None, ~Renumbered(s)'
          PROVE  \E d \in Callers : Owns(d, s)'
      <4>1. ~lost /\ binding'[s] = binding[s]
        BY <2>0, <3>2
      <4>2. PICK d \in Callers : Owns(d, s)
        BY <3>2, <4>1 DEF Leases, Renumbered
      <4> QED
        BY <2>0, <4>1, <4>2 DEF Owns, Answered, TypeOK, Progress
    <3> QED
      BY <3>1, <3>2 DEF Leases
  <2>5. Reachable'
    BY DEF TypeOK, Reachable
  <2> QED
    BY <2>1, <2>2, <2>3, <2>4, <2>5
<1>8. ASSUME NEW c \in Callers, Bind(c) PROVE Inv'
  <2> USE <1>8 DEF Bind, BindOk, BindFails
  <2>1. TypeOK'
    <3>1. refused' \in [Callers -> BOOLEAN]
      BY DEF TypeOK
    <3>2. sock' \in [Callers -> Fixed \cup {Ephemeral, None}]
      BY DEF TypeOK
    <3> QED
      BY <3>1, <3>2 DEF TypeOK
  <2>2. Sockets'
    BY DEF TypeOK, Sockets
  <2>3. Progress'
    BY DEF TypeOK, Progress
  <2>4. Leases'
    BY DEF TypeOK, Leases, Owns, Renumbered, Slot, Answered, Progress
  <2>5. Reachable'
    BY DEF TypeOK, Progress, Reachable, Slot, Answered, Disturbs
  <2> QED
    BY <2>1, <2>2, <2>3, <2>4, <2>5
<1>9. ASSUME NEW c \in Callers, CloseSocket(c) \/ Shut(c) PROVE Inv'
  <2> USE <1>9 DEF CloseSocket, Shut
  <2>1. TypeOK'
    BY DEF TypeOK
  <2>2. Sockets'
    BY DEF TypeOK, Sockets
  <2>3. Progress'
    BY DEF TypeOK, Progress
  <2>4. Leases'
    BY DEF TypeOK, Leases, Owns, Renumbered, Slot, Answered, Progress
  <2>5. Reachable'
    BY DEF TypeOK, Progress, Reachable, Slot, Answered, Disturbs
  <2> QED
    BY <2>1, <2>2, <2>3, <2>4, <2>5
<1>10. ASSUME NEW c \in Callers, UnmapOk(c) PROVE Inv'
  <2> USE <1>10 DEF UnmapOk, Unmapping, AfterUnmap
  <2>0. /\ raced' \in [Callers -> BOOLEAN]
        /\ \A d \in Callers \ {c} : raced'[d] = raced[d]
        /\ renewing[c] = "mapping" => raced'[c]
        /\ answer[c] \notin {None, ext[c]} => raced'[c]
    BY DEF TypeOK
  <2>1. TypeOK'
    <3>1. named' \in [Callers -> Ports \cup {0, None}]
      BY DEF TypeOK
    <3>2. binding' \in [Slots -> Ports \cup {None}]
      BY DEF TypeOK
    <3> QED
      BY <2>0, <3>1, <3>2 DEF TypeOK
  <2>2. Sockets'
    BY DEF TypeOK, Sockets
  <2>3. Progress'
    <3>1. ASSUME NEW d \in Callers
          PROVE  /\ pc'[d] \in {"start", "map"} \cup Mapped \cup Giving =>
                       named'[d] = None /\ ~raced'[d]
                 /\ renewing[d] = "mapping" /\ pc'[d] \in {"shut", "closed"} => raced'[d]
      BY <2>0 DEF TypeOK, Progress
    <3> QED
      BY <3>1 DEF TypeOK, Progress
  <2>4. Leases'
    <3>0. \A s \in Slots : binding'[s] = IF Deletes(c, s) THEN None ELSE binding[s]
      OBVIOUS
    <3>1. \A s \in {"upnp"} \X Fixed : binding'[s] \in {s[2], None}
      BY <3>0 DEF Leases, Slots, Tables
    <3>2. ASSUME ~lost, NEW s \in Slots, binding'[s] # None, ~Renumbered(s)'
          PROVE  \E d \in Callers : Owns(d, s)'
      <4>1. binding'[s] = binding[s] /\ ~Deletes(c, s) /\ ~Renumbered(s)
        BY <3>0, <3>2 DEF Renumbered
      <4>2. PICK d \in Callers : Owns(d, s)
        BY <3>2, <4>1 DEF Leases
      <4>3. CASE d # c
        BY <2>0, <4>1, <4>2, <4>3 DEF Owns, Answered, Slot, TypeOK
      <4>4. CASE d = c
        <5>1. Slot(c) = s /\ kind[c] \in Sharing /\ Answered(c) = binding[s]
          BY <4>2, <4>4 DEF Owns, Progress
        <5>2. request[c] # 0
          BY <5>1 DEF Progress
        <5>3. binding[s] # ext[c]
          <6>1. CASE kind[c] = "upnp"
            BY <4>1, <5>1, <5>2, <6>1 DEF Deletes, Slot, TypeOK
          <6>2. CASE kind[c] = "natpmp"
            BY <4>1, <5>1, <5>2, <6>2 DEF Deletes, Slot, Renumbered, TypeOK
          <6>3. CASE kind[c] \in Punches
            BY <4>1, <5>1, <6>3 DEF Deletes, Slot
          <6> QED
            BY <5>1, <6>1, <6>2, <6>3
        <5>4. answer[c] \notin {None, ext[c]}
          BY <5>1, <5>3 DEF Answered, Progress
        <5> QED
          BY <2>0, <4>4, <5>1, <5>4 DEF Owns, Slot
      <4> QED
        BY <4>3, <4>4
    <3> QED
      BY <3>1, <3>2 DEF Leases
  <2>5. Reachable'
    <3> SUFFICES ASSUME faults = 0, NEW d \in Callers, pc'[d] \in Mapped, kind[d] \in Sharing
                 PROVE  \/ binding'[Slot(d)] = Answered(d)'
                        \/ \E e \in Callers \ {d} : Disturbs(e, d)'
      BY DEF Reachable, Slot
    <3>1. d # c /\ pc[d] \in Mapped /\ Answered(d)' = Answered(d) /\ request[d] # 0
      BY DEF TypeOK, Answered, Progress
    <3>2. ASSUME NEW e \in Callers, Disturbs(e, d) PROVE Disturbs(e, d)'
      BY <3>2 DEF Disturbs, TypeOK, Progress
    <3>3. Slot(d) \in Slots
      BY <3>1, SlotOfCaller
    <3>4. CASE ~Deletes(c, Slot(d))
      BY <3>1, <3>2, <3>3, <3>4 DEF Reachable
    <3>5. CASE Deletes(c, Slot(d))
      <4>1. CASE kind[c] = "upnp"
        <5>1. Slot(d) \in {"upnp"} \X Fixed /\ binding[Slot(d)] = ext[c]
          BY <3>5, <4>1 DEF Deletes
        <5>2. kind[d] = "upnp" /\ Slot(d) = <<"upnp", request[d]>>
          BY <3>1, <5>1, SlotOfCaller
        <5>3. ext[c] = request[d]
          BY <4>1, <5>1, <5>2 DEF Leases, Progress
        <5> QED
          BY <3>1, <4>1, <5>2, <5>3 DEF Disturbs, TypeOK
      <4>2. CASE kind[c] = "natpmp"
        <5>1. Slot(d) = <<"natpmp", ext[c]>>
          BY <3>5, <4>2 DEF Deletes
        <5>2. kind[d] = "natpmp" /\ request[d] = ext[c]
          BY <3>1, <5>1, SlotOfCaller
        <5> QED
          BY <3>1, <4>2, <5>2 DEF Disturbs, TypeOK
      <4>3. CASE kind[c] \in Punches
        BY <3>1, <3>5, <4>3, SlotOfCaller DEF Deletes
      <4> QED
        BY <3>5, <4>1, <4>2, <4>3 DEF Deletes
    <3> QED
      BY <3>4, <3>5
  <2> QED
    BY <2>1, <2>2, <2>3, <2>4, <2>5
<1>11. ASSUME NEW c \in Callers, UnmapFails(c) PROVE Inv'
  <2> USE <1>11 DEF UnmapFails, Unmapping, AfterUnmap, Fault
  <2>0. /\ raced' \in [Callers -> BOOLEAN]
        /\ \A d \in Callers \ {c} : raced'[d] = raced[d]
        /\ renewing[c] = "mapping" => raced'[c]
        /\ answer[c] \notin {None, ext[c]} => raced'[c]
    BY DEF TypeOK
  <2>1. TypeOK'
    <3>1. named' \in [Callers -> Ports \cup {0, None}]
      BY DEF TypeOK
    <3>2. faults' \in 0..MaxFaults
      BY DEF TypeOK
    <3>3. lost' \in BOOLEAN
      BY DEF TypeOK
    <3> QED
      BY <2>0, <3>1, <3>2, <3>3 DEF TypeOK
  <2>2. Sockets'
    BY DEF TypeOK, Sockets
  <2>3. Progress'
    <3>1. ASSUME NEW d \in Callers
          PROVE  /\ pc'[d] \in {"start", "map"} \cup Mapped \cup Giving =>
                       named'[d] = None /\ ~raced'[d]
                 /\ renewing[d] = "mapping" /\ pc'[d] \in {"shut", "closed"} => raced'[d]
      BY <2>0 DEF TypeOK, Progress
    <3> QED
      BY <3>1 DEF TypeOK, Progress
  <2>4. Leases'
    BY DEF Leases
  <2>5. Reachable'
    BY DEF TypeOK, Reachable
  <2> QED
    BY <2>1, <2>2, <2>3, <2>4, <2>5
<1>12. ASSUME NEW c \in Callers, FallBack(c) PROVE Inv'
  <2> USE <1>12 DEF FallBack, BindOk, BindFails
  <2>1. TypeOK'
    BY DEF TypeOK
  <2>2. Sockets'
    BY DEF TypeOK, Sockets
  <2>3. Progress'
    BY DEF TypeOK, Progress
  <2>4. Leases'
    BY DEF TypeOK, Leases, Owns, Renumbered, Slot, Answered, Progress
  <2>5. Reachable'
    BY DEF TypeOK, Progress, Reachable, Slot, Answered, Disturbs
  <2> QED
    BY <2>1, <2>2, <2>3, <2>4, <2>5
<1>13. ASSUME NEW c \in Callers, RenewBegin(c) PROVE Inv'
  <2> USE <1>13 DEF RenewBegin, Serving
  <2>1. TypeOK'
    BY DEF TypeOK
  <2>2. Sockets'
    BY DEF TypeOK, Sockets
  <2>3. Progress'
    BY DEF TypeOK, Progress
  <2>4. Leases'
    BY DEF TypeOK, Leases, Owns, Renumbered, Slot, Answered, Progress
  <2>5. Reachable'
    BY DEF TypeOK, Progress, Reachable, Slot, Answered, Disturbs
  <2> QED
    BY <2>1, <2>2, <2>3, <2>4, <2>5
<1>14. ASSUME NEW c \in Callers, NEW p \in Ports, RenewMapOk(c, p) PROVE Inv'
  <2> USE <1>14 DEF RenewMapOk
  <2>0. /\ kind[c] \in Sharing /\ request[c] # 0 /\ Slot(c) \in Slots
        /\ binding' \in [Slots -> Ports \cup {None}]
        /\ \A s \in Slots : binding'[s] = IF s = Slot(c) THEN p ELSE binding[s]
        /\ \A d : Slot(d)' = Slot(d)
    <3>1. kind[c] \in Sharing /\ request[c] # 0
      BY DEF Progress, TypeOK
    <3>2. Slot(c) \in Slots
      BY <3>1, SlotOfCaller
    <3> QED
      BY <3>1, <3>2 DEF TypeOK, Slot
  <2>1. TypeOK'
    BY <2>0 DEF TypeOK, Assigned
  <2>2. Sockets'
    BY DEF TypeOK, Sockets
  <2>3. Progress'
    BY DEF TypeOK, Progress, Assigned
  <2>4. Leases'
    <3>1. ASSUME NEW s \in {"upnp"} \X Fixed PROVE binding'[s] \in {s[2], None}
      <4>1. s \in Slots /\ s = <<"upnp", s[2]>>
        BY DEF Slots, Tables
      <4>2. CASE s = Slot(c)
        BY <2>0, <4>1, <4>2 DEF Slot, Assigned
      <4>3. CASE s # Slot(c)
        BY <2>0, <4>1, <4>3 DEF Leases
      <4> QED
        BY <4>2, <4>3
    <3>2. ASSUME ~lost, NEW s \in Slots, binding'[s] # None, ~Renumbered(s)'
          PROVE  \E d \in Callers : Owns(d, s)'
      <4>1. CASE s = Slot(c)
        BY <2>0, <4>1 DEF Owns, Answered, TypeOK, Progress
      <4>2. CASE s # Slot(c)
        <5>1. binding'[s] = binding[s] /\ ~Renumbered(s)
          BY <2>0, <3>2, <4>2 DEF Renumbered
        <5>2. PICK d \in Callers : Owns(d, s)
          BY <3>2, <5>1 DEF Leases
        <5>3. d # c
          BY <4>2, <5>2 DEF Owns
        <5> QED
          BY <2>0, <5>1, <5>2, <5>3 DEF Owns, Answered
      <4> QED
        BY <4>1, <4>2
    <3> QED
      BY <3>1, <3>2 DEF Leases
  <2>5. Reachable'
    <3> SUFFICES ASSUME faults = 0, NEW d \in Callers, pc'[d] \in Mapped, kind[d] \in Sharing
                 PROVE  \/ binding'[Slot(d)] = Answered(d)'
                        \/ \E e \in Callers \ {d} : Disturbs(e, d)'
      BY <2>0 DEF Reachable
    <3>1. CASE d = c
      BY <2>0, <3>1 DEF Answered, TypeOK, Progress
    <3>2. ASSUME d # c PROVE Answered(d)' = Answered(d) /\ pc[d] \in Mapped /\ request[d] # 0
      BY <3>2 DEF Answered, Progress, TypeOK
    <3>3. ASSUME NEW e \in Callers, Disturbs(e, d) PROVE Disturbs(e, d)'
      BY <3>3 DEF Disturbs, TypeOK
    <3>4. CASE d # c /\ Slot(d) # Slot(c)
      BY <2>0, <3>2, <3>3, <3>4, SlotOfCaller DEF Reachable
    <3>5. CASE d # c /\ Slot(d) = Slot(c)
      <4>1. kind[c] \in Protocols /\ kind[d] = kind[c] /\ request[d] = request[c]
        BY <2>0, <3>2, <3>5, SlotOfCaller
      <4>2. CASE kind[c] = "natpmp"
        BY <3>5, <4>1, <4>2 DEF Disturbs, TypeOK, Progress
      <4>3. CASE kind[c] = "upnp"
        <5>1. p = request[c]
          BY <4>3 DEF Assigned
        <5>2. Answered(d) = request[d]
          BY <3>2, <4>1, <4>3 DEF Answered, Progress
        <5> QED
          BY <2>0, <3>2, <3>5, <4>1, <5>1, <5>2
      <4> QED
        BY <4>1, <4>2, <4>3
    <3> QED
      BY <3>1, <3>4, <3>5
  <2> QED
    BY <2>1, <2>2, <2>3, <2>4, <2>5
<1>15. ASSUME NEW c \in Callers, RenewRefused(c) \/ RenewRequestLost(c) PROVE Inv'
  <2> USE <1>15 DEF RenewRefused, RenewRequestLost, Fault
  <2>1. TypeOK'
    BY DEF TypeOK
  <2>2. Sockets'
    BY DEF TypeOK, Sockets
  <2>3. Progress'
    BY DEF TypeOK, Progress
  <2>4. Leases'
    BY DEF TypeOK, Leases, Owns, Renumbered, Slot, Answered, Progress
  <2>5. Reachable'
    BY DEF TypeOK, Progress, Reachable, Slot, Answered, Disturbs
  <2> QED
    BY <2>1, <2>2, <2>3, <2>4, <2>5
<1>16. ASSUME NEW c \in Callers, NEW p \in Ports, RenewAnswerLost(c, p) PROVE Inv'
  <2> USE <1>16 DEF RenewAnswerLost, AnswerLost, Fault
  <2>0. /\ kind[c] \in Sharing /\ request[c] # 0 /\ Slot(c) \in Slots
        /\ binding' \in [Slots -> Ports \cup {None}]
        /\ \A s \in Slots : binding'[s] = IF s = Slot(c) THEN p ELSE binding[s]
        /\ \A d : Slot(d)' = Slot(d)
    <3>1. kind[c] \in Sharing /\ request[c] # 0
      BY DEF Progress, TypeOK
    <3>2. Slot(c) \in Slots
      BY <3>1, SlotOfCaller
    <3> QED
      BY <3>1, <3>2 DEF TypeOK, Slot
  <2>1. TypeOK'
    <3>1. lost' \in BOOLEAN
      BY DEF TypeOK
    <3> QED
      BY <2>0, <3>1 DEF TypeOK
  <2>2. Sockets'
    BY DEF TypeOK, Sockets
  <2>3. Progress'
    BY DEF TypeOK, Progress
  <2>4. Leases'
    <3>1. ASSUME NEW s \in {"upnp"} \X Fixed PROVE binding'[s] \in {s[2], None}
      <4>1. s \in Slots /\ s = <<"upnp", s[2]>>
        BY DEF Slots, Tables
      <4>2. CASE s = Slot(c)
        BY <2>0, <4>1, <4>2 DEF Slot, Assigned
      <4>3. CASE s # Slot(c)
        BY <2>0, <4>1, <4>3 DEF Leases
      <4> QED
        BY <4>2, <4>3
    <3>2. ASSUME ~lost', NEW s \in Slots, binding'[s] # None, ~Renumbered(s)'
          PROVE  \E d \in Callers : Owns(d, s)'
      <4>1. ~lost /\ binding'[s] = binding[s]
        BY <2>0, <3>2
      <4>2. PICK d \in Callers : Owns(d, s)
        BY <3>2, <4>1 DEF Leases, Renumbered
      <4> QED
        BY <2>0, <4>1, <4>2 DEF Owns, Answered, TypeOK, Progress
    <3> QED
      BY <3>1, <3>2 DEF Leases
  <2>5. Reachable'
    BY DEF TypeOK, Reachable
  <2> QED
    BY <2>1, <2>2, <2>3, <2>4, <2>5
<1>17. ASSUME NEW c \in Callers, RenewApply(c) PROVE Inv'
  <2> USE <1>17 DEF RenewApply
  <2>1. TypeOK'
    BY DEF TypeOK
  <2>2. Sockets'
    BY DEF TypeOK, Sockets
  <2>3. Progress'
    BY DEF TypeOK, Progress
  <2>4. Leases'
    BY DEF TypeOK, Leases, Owns, Renumbered, Slot, Answered, Progress
  <2>5. Reachable'
    BY DEF TypeOK, Progress, Reachable, Slot, Answered, Disturbs
  <2> QED
    BY <2>1, <2>2, <2>3, <2>4, <2>5
<1>18. ASSUME NEW s \in Tables, GatewayForgets(s) PROVE Inv'
  <2> USE <1>18 DEF GatewayForgets, Fault
  <2>1. TypeOK'
    <3>1. binding' \in [Slots -> Ports \cup {None}]
      BY DEF TypeOK
    <3>2. faults' \in 0..MaxFaults /\ lost' = lost
      BY DEF TypeOK
    <3> QED
      BY <3>1, <3>2 DEF TypeOK
  <2>2. Sockets'
    BY DEF TypeOK, Sockets
  <2>3. Progress'
    BY DEF TypeOK, Progress
  <2>4. Leases'
    BY DEF TypeOK, Leases, Owns, Renumbered, Slot, Answered, Progress
  <2>5. Reachable'
    BY DEF TypeOK, Progress, Reachable, Slot, Answered, Disturbs
  <2> QED
    BY <2>1, <2>2, <2>3, <2>4, <2>5
<1>19. CASE UNCHANGED vars
  BY <1>19 DEF vars, TypeOK, Sockets, Progress, Leases, Reachable, Owns, Renumbered,
              Slot, Answered, Disturbs
<1> QED
  BY <1>1, <1>2, <1>3, <1>4, <1>5, <1>6, <1>7, <1>8, <1>9, <1>10, <1>11, <1>12, <1>13, <1>14, <1>15, <1>16, <1>17, <1>18, <1>19
  DEF Next, Step, Renew, RenewFails, Moves

(* The inductive invariant holds in every reachable state.                 *)
THEOREM Invariance == Spec => []Inv
<1> QED
  BY InvInit, InvNext, PTL DEF Spec

(* Every variable keeps its type.                                          *)
THEOREM Typing == Spec => []TypeOK
<1>1. Inv => TypeOK
  BY DEF Inv
<1> QED
  BY <1>1, Invariance, PTL

(* Callers that have failed or closed have no socket, and when no one has  *)
(* a mapped listener nothing is bound but what NAT-PMP renumbered and what *)
(* a renewal in flight at its own listener's Stop put back, unless the     *)
(* gateway lost a call (renewalmanager.go:128 and 165).                    *)
THEOREM NothingLeft == Spec => []FailureLeavesNothing
<1>1. Inv => FailureLeavesNothing
  <2> SUFFICES ASSUME Inv PROVE FailureLeavesNothing
    OBVIOUS
  <2> USE PortAssumption DEF Inv, Ends
  <2>1. \A c \in Callers : pc[c] \in Ends => sock[c] = None
    BY DEF Sockets
  <2>2. ASSUME AllWithoutMapping, ~lost, NEW s \in Slots, binding[s] # None, ~Renumbered(s)
        PROVE  \E c \in Callers : raced[c] /\ Slot(c) = s
    BY <2>2 DEF AllWithoutMapping, Leases, Owns, Mapped, Giving
  <2> QED
    BY <2>1, <2>2 DEF FailureLeavesNothing
<1> QED
  BY <1>1, Invariance, PTL

(* A call with fallback fails only if its context was done or the system   *)
(* refused the port for no socket of its own (listener.go:133).            *)
THEOREM Falling == Spec => []FallbackServes
<1>1. Inv => FallbackServes
  BY DEF Inv, Sockets, FallbackServes
<1> QED
  BY <1>1, Invariance, PTL

(* An open listener is reachable at the port it has recorded or is about   *)
(* to record from its renewal, unless one of the two ways of disturbing it *)
(* has happened.                                                           *)
THEOREM Reaching == Spec => []Undisturbed
<1>1. Inv => Undisturbed
  BY DEF Inv, Progress, Reachable, Undisturbed, Serving, Mapped, Sharing, Kinds,
         Protocols, Punches
<1> QED
  BY <1>1, Invariance, PTL
=============================================================================
