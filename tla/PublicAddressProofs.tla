------------------------- MODULE PublicAddressProofs -------------------------
(***************************************************************************)
(* How the gateway is found, the mapper selected and the address reported, *)
(* for routing tables, lists of interfaces, of addresses and of STUN       *)
(* attributes of any length, whatever is cancelled or missed.              *)
(***************************************************************************)
EXTENDS PublicAddress, TLAPS, WellFoundedInduction

IsTable == Len(Lines) \in Nat /\ DOMAIN Lines = 1..Len(Lines)

(* The lines that have been read hold no gateway; on Windows the section   *)
(* is the one that the lines read so far say it is.                        *)
Searching ==
    search = "table" =>
        /\ line \in Nat /\ line > 0
        /\ routes.readable /\ routes.platform # "other"
        /\ routes.platform = "linux" => line > 1
        /\ routes.platform = "windows" =>
              /\ section <=> \E h \in 1..(line - 1) :
                                h \in DOMAIN Lines /\ Lines[h].kind = "heading"
              /\ \A r \in DOMAIN Lines : r < line /\ Lines[r].kind = "rule" =>
                    \A h \in 1..(r - 1) : Lines[h].kind # "heading"
        /\ \A i \in Gateways \cup Unreadable : i >= line

(* The local address is resorted to for lack of a gateway only. *)
NoGateway == Gateways = {} \/ \E u \in Unreadable : \A i \in Gateways : u < i

SearchInv ==
    /\ search \in {"idle", "table", "fallback", "done"}
    /\ IsTable /\ Searching
    /\ search = "idle" => ~section
    /\ search = "fallback" => NoGateway
    /\ GatewayFound

Mappers == {"direct", "NAT-PMP"} \cup Services

(* The mappers that are preferred to m. *)
Better(m) ==
    CASE m = "direct" -> {}
      [] m = "WANIPConnection2" -> {"direct"}
      [] m = "WANIPConnection1" -> {"direct", "WANIPConnection2"}
      [] m = "WANPPPConnection1" ->
            {"direct", "WANIPConnection2", "WANIPConnection1"}
      [] m = "NAT-PMP" -> {"direct"} \cup Services

(* What is selected is better than all that answer; nothing is selected    *)
(* only by a punch, and only when the last discovery is over.              *)
Best ==
    IF mapper = "none"
    THEN chain = "inner" /\ search = "done" /\ \A m \in Mappers : ~Answers(m)
    ELSE /\ mapper \in Mappers /\ Answers(mapper)
         /\ \A m \in Better(mapper) : ~Answers(m)

(* A mapper is tried when no better one has answered.                      *)
Selecting ==
    /\ trying \in Mappers \cup {"start", "chosen", "query", "mapped"} \cup Ends
    /\ trying = "direct" => chain = "standard"
    /\ trying \in Mappers \cup {"start"} => mapper = "none"
    /\ trying = "start" => missed = {}
    /\ trying \in Mappers => missed \subseteq Better(trying)
    /\ trying \in Mappers => \A m \in Better(trying) : ~Answers(m)
    /\ trying = "chosen" /\ ~cancelled => Best
    /\ Mapping => Best

(* What GetExternalIP reports is what the selection saw or the punch was   *)
(* told.                                                                   *)
Reporting ==
    /\ trying \in {"mapped", "served"} /\ chain = "inner" =>
          query = "done" /\ answer # NoAnswer
    /\ trying = "served" =>
          address = CASE chain = "inner" -> SubSeq(answer, 3, 6)
                      [] chain # "inner" /\ mapper = "direct" ->
                            PublicIP(host.interfaces)
                      [] OTHER -> host.wan

(* The function in FlattenSeq: the flattening of the first of the lists,   *)
(* of the first two, and so on.                                            *)
Flattening(s) ==
    LET flatten[i \in 1..Len(s)] == IF i = 1 THEN s[i] ELSE flatten[i - 1] \o s[i]
    IN  flatten

(* The message as the server wrote it: its attributes, and where the k-th  *)
(* of them ends.                                                           *)
Encodings == [i \in DOMAIN reply.attributes |-> Encoded(reply.attributes[i])]

End(k) == IF k = 0 THEN 0 ELSE Len(Flattening(Encodings)[k])

(* The attributes that have been passed over say no endpoint.              *)
STUNInv ==
    /\ query \in {"idle", "parse", "done"}
    /\ query = "idle" => offset = 0
    /\ query = "parse" =>
          /\ reply.header = "success" /\ reply.length <= MaxLength
          /\ reply.length <= Len(reply.body) /\ offset % 4 = 0
          /\ \E k \in 0..Len(reply.attributes) :
                /\ offset = End(k)
                /\ \A i \in 1..k : reply.attributes[i].endpoint = NoAnswer
    /\ EndpointIsMapped

Given == \E e \in Environments :
            host = e.host /\ routes = e.routes /\ reply = e.reply

Inv == Given /\ SearchInv /\ Selecting /\ Reporting /\ STUNInv

-----------------------------------------------------------------------------
(* A table that has not been searched yet.                                 *)
LEMMA SearchStart ==
    ASSUME NEW e \in Environments, routes = e.routes, SearchInit
    PROVE  SearchInv
<1>1. ASSUME NEW S, NEW s \in Seq(S)
      PROVE  Len(s) \in Nat /\ DOMAIN s = 1..Len(s)
  OBVIOUS
<1>2. IsTable
  BY <1>1, EnvironmentsAssumption DEF IsTable, Lines
<1> QED
  BY <1>2 DEF SearchInit, SearchInv, Searching, GatewayFound

(* Every step of the search keeps to what the table says as a whole.       *)
LEMMA SearchNext == SearchInv /\ Search => SearchInv'
<1> SUFFICES ASSUME SearchInv, Search PROVE SearchInv'
  OBVIOUS
<1> USE DEF SearchInv, Lines
<1>1. routes' = routes
  BY DEF Search, StartSearch, LinuxLine, BSDLine, WindowsLine, TableEnds, Fallback,
         NextLine, Found, EndTable
<1>2. IsTable' /\ Gateways' = Gateways /\ Unreadable' = Unreadable
      /\ (NoGateway => NoGateway') /\ InUse' = InUse
  BY <1>1 DEF IsTable, Gateways, Unreadable, InUse, NoGateway, IsDefault
<1>3. CASE StartSearch
  <2>1. CASE search' = "fallback"
    <3>1. InUse = {}
      BY <1>3, <2>1 DEF StartSearch, InUse, IsTable
    <3> QED
      BY <1>2, <1>3, <2>1, <3>1
      DEF StartSearch, Gateways, NoGateway, Searching, GatewayFound
  <2>2. CASE search' = "table"
    <3>1. Searching'
      BY <1>1, <1>2, <1>3, <2>2
      DEF StartSearch, Searching, IsTable, Gateways, Unreadable, InUse
    <3> QED
      BY <1>2, <1>3, <2>2, <3>1 DEF GatewayFound
  <2> QED
    BY <1>3, <2>1, <2>2 DEF StartSearch
<1>4. ASSUME search = "table", search' = "table", line' = line + 1,
             line \in DOMAIN Lines, line \notin Gateways \cup Unreadable,
             \/ routes.platform # "windows"
             \/ /\ (section' <=> section \/ Row.kind = "heading")
                /\ Row.kind = "rule" => ~section
      PROVE  SearchInv'
  <2>1. Searching'
    <3>1. \A i \in Gateways' \cup Unreadable' : i >= line'
      <4>1. \A i \in Gateways \cup Unreadable : i \in Nat
        BY DEF Gateways, Unreadable, InUse, IsTable
      <4>2. \A i \in Gateways \cup Unreadable : i >= line /\ i # line
        BY <1>4 DEF Searching
      <4> QED
        BY <1>2, <1>4, <4>1, <4>2 DEF Searching
    <3>2. routes.platform = "windows" =>
             (section' <=> \E h \in 1..(line' - 1) :
                              h \in DOMAIN Lines /\ Lines[h].kind = "heading")
      <4>1. 1..(line' - 1) = 1..(line - 1) \cup {line}
        BY <1>4 DEF Searching
      <4> QED
        BY <1>4, <4>1 DEF Searching, Row
    <3>3. routes.platform = "windows" =>
             \A r \in DOMAIN Lines : r < line' /\ Lines[r].kind = "rule" =>
                    \A h \in 1..(r - 1) : Lines[h].kind # "heading"
      <4>1. SUFFICES ASSUME routes.platform = "windows",
                            NEW r \in DOMAIN Lines, r < line',
                            Lines[r].kind = "rule", NEW h \in 1..(r - 1)
                     PROVE  Lines[h].kind # "heading"
        OBVIOUS
      <4>2. r < line \/ r = line
        BY <1>4, <4>1 DEF Searching, IsTable
      <4>3. CASE r < line
        BY <1>4, <4>1, <4>3 DEF Searching
      <4>4. CASE r = line
        <5>1. ~section /\ h \in DOMAIN Lines
          BY <1>4, <4>1, <4>4 DEF Row, IsTable
        <5> QED
          BY <1>4, <4>1, <4>4, <5>1 DEF Searching
      <4> QED
        BY <4>2, <4>3, <4>4
    <3> QED
      BY <1>1, <1>4, <3>1, <3>2, <3>3 DEF Searching
  <2> QED
    BY <1>2, <1>4, <2>1 DEF GatewayFound
<1>5. ASSUME search = "table", line \in Gateways, Found(Row.gateway)
      PROVE  SearchInv'
  <2>1. GatewayFound'
    BY <1>1, <1>2, <1>5 DEF Searching, GatewayFound, Found, Row
  <2> QED
    BY <1>2, <1>5, <2>1 DEF Found, Searching
<1>6. ASSUME search = "table", EndTable, NoGateway
      PROVE  SearchInv'
  BY <1>2, <1>6 DEF EndTable, Searching, GatewayFound
<1>7. CASE LinuxLine
  <2> USE <1>7 DEF LinuxLine, AtLine
  <2>1. line \in DOMAIN Lines /\ line \in InUse
    BY DEF Searching, IsTable, InUse
  <2>2. CASE (IsDefault(Row) => Row.gateway = Unspecified) /\ NextLine
    <3>1. Len(Unspecified) = 2 /\ Len(Garbled) = 1 /\ Len(OnLink) = 1
      BY DEF Unspecified, Garbled, OnLink
    <3>2. IsAddress(Unspecified)
      BY <3>1 DEF IsAddress
    <3>3. line \notin Gateways \cup Unreadable
      BY <2>2, <3>2 DEF Gateways, Unreadable, Row
    <3> QED
      BY <1>4, <2>1, <2>2, <3>3 DEF NextLine
  <2>3. CASE IsDefault(Row) /\ ~IsAddress(Row.gateway) /\ EndTable
    <3>1. line \in Unreadable
      BY <2>1, <2>3 DEF Unreadable, Row
    <3>2. line \notin Gateways
      BY <2>3 DEF Gateways, Row
    <3>3. \A i \in Gateways : line < i
      BY <3>2 DEF Searching, Gateways, InUse, IsTable
    <3> QED
      BY <1>6, <2>3, <3>1, <3>3 DEF NoGateway
  <2>4. CASE /\ IsDefault(Row) /\ IsAddress(Row.gateway)
             /\ Row.gateway # Unspecified
             /\ Found(Row.gateway)
    BY <1>5, <2>1, <2>4 DEF Gateways, Row
  <2> QED
    BY <2>2, <2>3, <2>4
<1>8. CASE BSDLine
  <2> USE <1>8 DEF BSDLine, AtLine
  <2>1. line \in DOMAIN Lines /\ line \in InUse
    BY DEF Searching, IsTable, InUse
  <2>2. CASE IsDefault(Row) /\ IsAddress(Row.gateway)
    BY <1>5, <2>1, <2>2 DEF Gateways, Row
  <2>3. CASE ~(IsDefault(Row) /\ IsAddress(Row.gateway))
    BY <1>4, <2>1, <2>3 DEF NextLine, Gateways, Unreadable, Row
  <2> QED
    BY <2>2, <2>3
<1>9. CASE WindowsLine
  <2> USE <1>9 DEF WindowsLine, AtLine
  <2>1. line \in DOMAIN Lines /\ Unreadable = {}
    BY DEF Searching, IsTable, Unreadable
  <2>2. section <=> line \in {i \in DOMAIN Lines :
                       \E h \in DOMAIN Lines : Lines[h].kind = "heading" /\ h < i}
    BY <2>1 DEF Searching, IsTable
  <2>3. CASE Row.kind = "heading"
    BY <1>4, <2>1, <2>3 DEF NextLine, Gateways, Row, IsDefault, EndTable, Found
  <2>4. CASE Row.kind = "rule" /\ ~section
    BY <1>4, <2>1, <2>4 DEF NextLine, Gateways, Row, IsDefault, EndTable, Found
  <2>5. CASE Row.kind = "rule" /\ section
    <3>1. \A i \in Gateways : i >= line /\ i < line
      BY <2>1, <2>2, <2>5 DEF Searching, Gateways, InUse, Row
    <3>2. NoGateway
      BY <3>1 DEF NoGateway, Gateways, InUse, IsTable, Searching
    <3> QED
      BY <1>6, <2>5, <3>2
  <2>6. CASE Row.kind \notin {"heading", "rule"}
    <3>1. section <=> line \in InUse
      BY <2>1, <2>2, <2>6 DEF Searching, InUse, Row, IsTable
    <3>2. CASE section /\ IsDefault(Row) /\ IsAddress(Row.gateway)
      BY <1>5, <2>6, <3>1, <3>2 DEF Gateways, Row
    <3>3. CASE ~(section /\ IsDefault(Row) /\ IsAddress(Row.gateway))
      <4>1. line \notin Gateways
        BY <3>1, <3>3 DEF Gateways, Row
      <4> QED
        BY <1>4, <2>1, <2>6, <3>3, <4>1 DEF NextLine
    <3> QED
      BY <3>2, <3>3
  <2> QED
    BY <2>3, <2>4, <2>5, <2>6
<1>10. CASE TableEnds
  <2>1. Gateways = {}
    BY <1>10 DEF TableEnds, Searching, IsTable, Gateways, InUse
  <2> QED
    BY <1>6, <1>10, <2>1 DEF TableEnds, NoGateway
<1>11. CASE Fallback
  BY <1>1, <1>2, <1>11 DEF Fallback, NoGateway, GatewayFound, Searching, Failed
<1> QED
  BY <1>3, <1>7, <1>8, <1>9, <1>10, <1>11 DEF Search

-----------------------------------------------------------------------------
(* What PublicIP computes, by induction along its two folds.  The          *)
(* library's induction theorems take an operator as their parameter, so    *)
(* that the induction is restated here about a set.                        *)
LEMMA Induction ==
    ASSUME NEW S, 0 \in S, \A n \in Nat : n \in S => n + 1 \in S
    PROVE  Nat \subseteq S
<1> DEFINE T == Nat \ S
<1> SUFFICES ASSUME T # {} PROVE FALSE
  OBVIOUS
<1>1. PICK x \in T : \A y \in T : ~(<<y, x>> \in OpToRel(<, Nat))
  <2>1. T \subseteq Nat
    OBVIOUS
  <2> HIDE DEF T
  <2> QED
    BY <2>1, NatLessThanWellFounded, WFMin
<1>2. x # 0 /\ x - 1 \in Nat
  OBVIOUS
<1>3. x - 1 \notin T
  <2>1. <<x - 1, x>> \in OpToRel(<, Nat)
    BY <1>2 DEF OpToRel
  <2> QED
    BY <1>1, <2>1
<1> QED
  BY <1>2, <1>3

(* The equation that defines the function in FlattenSeq.                   *)
Flattens(f, s, n) ==
    f = [i \in 1..n |-> IF i = 1 THEN s[i] ELSE f[i - 1] \o s[i]]

LEMMA FlattensOne == ASSUME NEW s, NEW n \in Nat PROVE \E f : Flattens(f, s, n)
<1> DEFINE S == {k \in Nat : \E f : Flattens(f, s, k)}
<1>1. 0 \in S
  <2>1. Flattens([i \in 1..0 |-> 0], s, 0)
    BY DEF Flattens
  <2> QED
    BY <2>1
<1>2. ASSUME NEW k \in Nat, k \in S PROVE k + 1 \in S
  <2>1. PICK f : Flattens(f, s, k)
    BY <1>2
  <2>2. \A i \in 1..k : f[i] = IF i = 1 THEN s[i] ELSE f[i - 1] \o s[i]
    BY <2>1, Zenon DEF Flattens
  <2> DEFINE g == [i \in 1..(k + 1) |-> IF i <= k THEN f[i]
                     ELSE IF i = 1 THEN s[i] ELSE f[k] \o s[i]]
  <2>3. \A i \in 1..(k + 1) :
           g[i] = IF i <= k THEN f[i] ELSE IF i = 1 THEN s[i] ELSE f[k] \o s[i]
    BY Zenon
  <2>4. g = [i \in 1..(k + 1) |-> g[i]]
    OBVIOUS
  <2> HIDE DEF g
  <2>5. ASSUME NEW i \in 1..(k + 1)
        PROVE  g[i] = IF i = 1 THEN s[i] ELSE g[i - 1] \o s[i]
    <3>1. CASE i <= k
      BY <2>2, <2>3, <3>1
    <3>2. CASE i = k + 1
      BY <2>2, <2>3, <3>2
    <3> QED
      BY <3>1, <3>2
  <2>6. Flattens(g, s, k + 1)
    BY <2>4, <2>5, Zenon DEF Flattens
  <2> QED
    BY <2>6
<1> HIDE DEF S
<1>3. Nat \subseteq S
  BY <1>1, <1>2, Induction
<1> QED
  BY <1>3 DEF S

(* FlattenSeq is the last of the flattenings.                              *)
LEMMA FlatteningIs ==
    ASSUME NEW s, Len(s) \in Nat
    PROVE  /\ Len(s) = 0 => FlattenSeq(s) = s
           /\ Len(s) # 0 => FlattenSeq(s) = Flattening(s)[Len(s)]
           /\ \A i \in 1..Len(s) :
                 Flattening(s)[i] =
                    IF i = 1 THEN s[i] ELSE Flattening(s)[i - 1] \o s[i]
<1> DEFINE F == CHOOSE f : Flattens(f, s, Len(s))
<1>1. Flattens(F, s, Len(s))
  BY FlattensOne
<1>2. Flattening(s) = F
  BY Zenon DEF Flattening, Flattens
<1>3. Len(s) # 0 => FlattenSeq(s) = F[Len(s)]
  BY Zenon DEF FlattenSeq, Flattens
<1>4. Len(s) = 0 => FlattenSeq(s) = s
  BY DEF FlattenSeq
<1>5. \A i \in 1..Len(s) : F[i] = IF i = 1 THEN s[i] ELSE F[i - 1] \o s[i]
  BY <1>1, Zenon DEF Flattens
<1> HIDE DEF F
<1> QED
  BY <1>2, <1>3, <1>4, <1>5, Zenon

(* Where the elements of two sequences are when they are joined.           *)
LEMMA Joined ==
    ASSUME NEW S, NEW p \in Seq(S), NEW q \in Seq(S)
    PROVE  /\ p \o q \in Seq(S) /\ DOMAIN (p \o q) = 1..Len(p \o q)
           /\ DOMAIN p = 1..Len(p) /\ DOMAIN q = 1..Len(q)
           /\ Len(p) \in Nat /\ Len(q) \in Nat /\ Len(p \o q) = Len(p) + Len(q)
           /\ \A i \in 1..Len(p \o q) :
                 (p \o q)[i] = IF i <= Len(p) THEN p[i] ELSE q[i - Len(p)]
OBVIOUS

LEMMA Appended ==
    ASSUME NEW p \in Seq(Addresses), NEW q \in Seq(Addresses)
    PROVE  p \o q \in Seq(Addresses) /\ Range(p \o q) = Range(p) \cup Range(q)
<1>1. /\ p \o q \in Seq(Addresses) /\ DOMAIN (p \o q) = 1..(Len(p) + Len(q))
      /\ DOMAIN p = 1..Len(p) /\ DOMAIN q = 1..Len(q)
      /\ Len(p) \in Nat /\ Len(q) \in Nat
      /\ \A i \in DOMAIN (p \o q) :
            (p \o q)[i] = IF i <= Len(p) THEN p[i] ELSE q[i - Len(p)]
  OBVIOUS
<1>2. \A i \in DOMAIN q :
         i + Len(p) \in DOMAIN (p \o q) /\ (p \o q)[i + Len(p)] = q[i]
  BY <1>1
<1>3. \A i \in DOMAIN p : i \in DOMAIN (p \o q) /\ (p \o q)[i] = p[i]
  BY <1>1
<1>4. \A i \in DOMAIN (p \o q) :
         i \in DOMAIN p \/ (i - Len(p) \in DOMAIN q /\ (p \o q)[i] = q[i - Len(p)])
  BY <1>1
<1>5. Range(p) \cup Range(q) \subseteq Range(p \o q)
  BY <1>2, <1>3, Zenon DEF Range
<1>6. Range(p \o q) \subseteq Range(p) \cup Range(q)
  BY <1>3, <1>4, Zenon DEF Range
<1> QED
  BY <1>1, <1>5, <1>6

(* A list of lists of addresses holds, when flattened, the same addresses. *)
LEMMA Flattened ==
    ASSUME NEW s, Len(s) \in Nat, s \in Seq(Seq(Addresses)), DOMAIN s = 1..Len(s)
    PROVE  /\ FlattenSeq(s) \in Seq(Addresses)
           /\ \A a : a \in Range(FlattenSeq(s)) <=>
                       \E i \in DOMAIN s : a \in Range(s[i])
<1>1. CASE Len(s) = 0
  <2>1. FlattenSeq(s) = s /\ s = << >>
    BY <1>1 DEF FlattenSeq
  <2> QED
    BY <1>1, <2>1 DEF Range
<1>2. CASE Len(s) # 0
  <2> DEFINE F == CHOOSE f : Flattens(f, s, Len(s))
             P(k) == /\ F[k] \in Seq(Addresses)
                     /\ \A a : a \in Range(F[k]) <=>
                                 \E i \in 1..k : a \in Range(s[i])
             S == {k \in Nat : k \in 1..Len(s) => P(k)}
  <2>1. Flattens(F, s, Len(s))
    BY FlattensOne
  <2>2. FlattenSeq(s) = F[Len(s)]
    BY <1>2, Zenon DEF FlattenSeq, Flattens
  <2>3. \A i \in 1..Len(s) : F[i] = IF i = 1 THEN s[i] ELSE F[i - 1] \o s[i]
    BY <2>1, Zenon DEF Flattens
  <2> HIDE DEF F
  <2>4. ASSUME NEW k \in Nat, k \in S PROVE k + 1 \in S
    <3> SUFFICES ASSUME k + 1 \in 1..Len(s) PROVE P(k + 1)
      OBVIOUS
    <3> HIDE DEF S, P
    <3>1. s[k + 1] \in Seq(Addresses)
      OBVIOUS
    <3>2. \A i : i \in 1..(k + 1) <=> i \in 1..k \/ i = k + 1
      OBVIOUS
    <3>3. CASE k = 0
      <4>1. F[k + 1] = s[k + 1]
        BY <2>3, <3>3
      <4>2. \A i : i \in 1..(k + 1) <=> i = k + 1
        BY <3>3
      <4>3. F[k + 1] \in Seq(Addresses)
        BY <3>1, <4>1, Zenon
      <4>4. ASSUME NEW a
            PROVE  a \in Range(F[k + 1]) <=> \E i \in 1..(k + 1) : a \in Range(s[i])
        <5>1. a \in Range(F[k + 1]) <=> a \in Range(s[k + 1])
          BY <4>1, Zenon
        <5> QED
          BY <4>2, <5>1, Zenon
      <4> QED
        BY <4>3, <4>4, Zenon DEF P
    <3>4. CASE k # 0
      <4>1. F[k + 1] = F[k] \o s[k + 1]
        <5>1. k + 1 # 1 /\ (k + 1) - 1 = k
          BY <3>4
        <5>2. F[k + 1] =
                 IF k + 1 = 1 THEN s[k + 1] ELSE F[(k + 1) - 1] \o s[k + 1]
          BY <2>3, Zenon
        <5> QED
          BY <5>1, <5>2, Zenon
      <4>2. P(k)
        <5>1. k \in 1..Len(s)
          BY <3>4
        <5> QED
          BY <2>4, <5>1 DEF S
      <4>3. /\ F[k] \o s[k + 1] \in Seq(Addresses)
            /\ Range(F[k] \o s[k + 1]) = Range(F[k]) \cup Range(s[k + 1])
        BY <3>1, <4>2, Appended DEF P
      <4> QED
        BY <3>2, <4>1, <4>2, <4>3, Zenon DEF P
    <3> QED
      BY <3>3, <3>4
  <2>5. 0 \in S
    OBVIOUS
  <2>6. Len(s) \in S
    <3> HIDE DEF S
    <3> QED
      BY <2>4, <2>5, Induction
  <2>7. P(Len(s))
    <3>1. Len(s) \in 1..Len(s)
      BY <1>2
    <3> HIDE DEF P
    <3> QED
      BY <2>6, <3>1
  <2> QED
    BY <2>2, <2>7, Zenon
<1> QED
  BY <1>1, <1>2

(* The equation that defines the function in PublicIP's fold, over sets of *)
(* indices from which the largest is taken.                                *)
Keeps(f, s, base, n) ==
    f = [t \in SUBSET (1..n) |->
           IF t = {} THEN base ELSE KeepFirst(f[t \ {Max(t)}], s[Max(t)])]

LEMMA Largest ==
    ASSUME NEW k \in Nat, NEW t \in SUBSET (1..(k + 1)), k + 1 \in t
    PROVE  Max(t) = k + 1
<1>1. \A x \in t : (\A y \in t : x >= y) <=> x = k + 1
  OBVIOUS
<1> QED
  BY <1>1 DEF Max

LEMMA KeepsOne ==
    ASSUME NEW s, NEW base, NEW n \in Nat PROVE \E f : Keeps(f, s, base, n)
<1> DEFINE S == {k \in Nat : \E f : Keeps(f, s, base, k)}
<1>1. 0 \in S
  <2> DEFINE g == [t \in SUBSET (1..0) |-> base]
  <2>1. ASSUME NEW t \in SUBSET (1..0) PROVE t = {}
    <3>1. 1..0 = {}
      OBVIOUS
    <3> QED
      BY <3>1
  <2>2. Keeps(g, s, base, 0)
    BY <2>1 DEF Keeps
  <2> QED
    BY <2>2
<1>2. ASSUME NEW k \in Nat, k \in S PROVE k + 1 \in S
  <2>1. PICK f : Keeps(f, s, base, k)
    BY <1>2
  <2>2. \A t \in SUBSET (1..k) :
           f[t] = IF t = {} THEN base ELSE KeepFirst(f[t \ {Max(t)}], s[Max(t)])
    BY <2>1, Zenon DEF Keeps
  <2> DEFINE g ==
               [t \in SUBSET (1..(k + 1)) |->
                  IF k + 1 \in t THEN KeepFirst(f[t \ {k + 1}], s[k + 1]) ELSE f[t]]
  <2>3. \A t \in SUBSET (1..(k + 1)) :
           g[t] = IF k + 1 \in t THEN KeepFirst(f[t \ {k + 1}], s[k + 1]) ELSE f[t]
    BY Zenon
  <2>4. g = [t \in SUBSET (1..(k + 1)) |-> g[t]]
    OBVIOUS
  <2> HIDE DEF g
  <2>5. ASSUME NEW t \in SUBSET (1..(k + 1))
        PROVE  g[t] = IF t = {} THEN base ELSE KeepFirst(g[t \ {Max(t)}], s[Max(t)])
    <3>1. CASE k + 1 \in t
      <4>1. Max(t) = k + 1
        BY <3>1, Largest
      <4>2. t \ {k + 1} \in SUBSET (1..(k + 1)) /\ k + 1 \notin t \ {k + 1}
        OBVIOUS
      <4>3. g[t \ {k + 1}] = f[t \ {k + 1}]
        BY <2>3, <4>2, Zenon
      <4> QED
        BY <2>3, <3>1, <4>1, <4>3, Zenon
    <3>2. CASE k + 1 \notin t
      <4>1. t \in SUBSET (1..k)
        BY <3>2
      <4>2. t \ {Max(t)} \in SUBSET (1..(k + 1)) /\ k + 1 \notin t \ {Max(t)}
        BY <3>2
      <4>3. g[t] = f[t] /\ g[t \ {Max(t)}] = f[t \ {Max(t)}]
        BY <2>3, <3>2, <4>2, Zenon
      <4> QED
        BY <2>2, <4>1, <4>3, Zenon
    <3> QED
      BY <3>1, <3>2
  <2>6. Keeps(g, s, base, k + 1)
    BY <2>4, <2>5, Zenon DEF Keeps
  <2> QED
    BY <2>6
<1> HIDE DEF S
<1>3. Nat \subseteq S
  BY <1>1, <1>2, Induction
<1> QED
  BY <1>3 DEF S

(* An address of a family that the code takes for a public one.            *)
Usable(a, family) == a \in Addresses /\ a.family = family /\ a.scope \in {"global", "reserved"}

LEMMA Routable ==
    ASSUME NEW a \in Addresses
    PROVE  /\ IsGloballyRoutable(a) <=> a.scope \in {"global", "reserved"}
           /\ a.scope \in {"global", "reserved"} => a.family \in {4, 6}
           /\ a # NoIP
BY DEF Addresses, IsGloballyRoutable, NoIP

(* Along the addresses, the fold keeps one of each family as soon as it    *)
(* has seen one that can be used.                                          *)
LEMMA Kept ==
    ASSUME NEW s \in Seq(Addresses), NEW family \in {4, 6}
    PROVE  LET best == FoldLeft(KeepFirst, [f \in {4, 6} |-> NoIP], s)
           IN  IF \E a \in Range(s) : Usable(a, family)
               THEN best[family] \in Range(s) /\ Usable(best[family], family)
               ELSE best[family] = NoIP
<1> DEFINE base == [f \in {4, 6} |-> NoIP]
           n == Len(s)
           F == CHOOSE f : Keeps(f, s, base, n)
           Good(k) == {i \in 1..k : Usable(s[i], family)}
           P(k) == /\ F[1..k] \in [{4, 6} -> Addresses \cup {NoIP}]
                   /\ Good(k) = {} => F[1..k][family] = NoIP
                   /\ Good(k) # {} => \E i \in Good(k) : F[1..k][family] = s[i]
           S == {k \in Nat : k <= n => P(k)}
<1>1. n \in Nat /\ DOMAIN s = 1..n /\ \A i \in 1..n : s[i] \in Addresses
  OBVIOUS
<1>2. Keeps(F, s, base, n)
  BY <1>1, KeepsOne
<1>3. FoldLeft(KeepFirst, base, s) = F[1..n]
  BY <1>1, Zenon DEF FoldLeft, MapThenFoldSet, Keeps
<1>4. \A t \in SUBSET (1..n) :
         F[t] = IF t = {} THEN base ELSE KeepFirst(F[t \ {Max(t)}], s[Max(t)])
  BY <1>2, Zenon DEF Keeps
<1> HIDE DEF F, n
<1>5. 0 \in S
  <2>1. 1..0 = {} /\ 1..0 \in SUBSET (1..n)
    OBVIOUS
  <2>2. F[1..0] = base
    BY <1>4, <2>1
  <2> QED
    BY <2>1, <2>2
<1>6. ASSUME NEW k \in Nat, k \in S PROVE k + 1 \in S
  <2> SUFFICES ASSUME k + 1 <= n PROVE P(k + 1)
    OBVIOUS
  <2>1. P(k)
    BY <1>1, <1>6
  <2> DEFINE a == s[k + 1]
             b == F[1..k]
  <2>2. a \in Addresses
    BY <1>1
  <2>3. F[1..(k + 1)] = KeepFirst(b, a)
    <3>1. /\ 1..(k + 1) \in SUBSET (1..n) /\ 1..(k + 1) # {}
          /\ k + 1 \in 1..(k + 1) /\ 1..(k + 1) \ {k + 1} = 1..k
      BY <1>1
    <3>2. Max(1..(k + 1)) = k + 1
      BY <3>1, Largest
    <3> QED
      BY <1>4, <3>1, <3>2, Zenon
  <2>4. Good(k + 1) = Good(k) \cup (IF Usable(a, family) THEN {k + 1} ELSE {})
    <3>1. 1..(k + 1) = 1..k \cup {k + 1}
      OBVIOUS
    <3> QED
      BY <3>1
  <2>5. KeepFirst(b, a) \in [{4, 6} -> Addresses \cup {NoIP}]
        /\ KeepFirst(b, a)[family] =
              IF Usable(a, family) /\ b[family] = NoIP THEN a ELSE b[family]
    BY <2>1, <2>2, Routable DEF KeepFirst, Usable
  <2>6. \A i \in Good(k) : s[i] # NoIP
    BY <1>1, Routable DEF Usable
  <2> HIDE DEF Good
  <2> QED
    BY <2>1, <2>3, <2>4, <2>5, <2>6
<1>7. P(n)
  <2>1. n \in S
    <3> HIDE DEF S
    <3> QED
      BY <1>1, <1>5, <1>6, Induction
  <2> QED
    BY <1>1, <2>1
<1>8. \A a : (a \in Range(s) /\ Usable(a, family)) <=> \E i \in Good(n) : a = s[i]
  BY <1>1 DEF Range
<1> QED
  BY <1>3, <1>7, <1>8

(* A candidate is found if and only if there is one.                       *)
DirectDetected ==
    LET ip == PublicIP(host.interfaces)
    IN  IF Candidates(4) \cup Candidates(6) = {} THEN ip = NoIP
        ELSE /\ ip # NoIP
             /\ ip \in IF Candidates(4) # {} THEN Candidates(4) ELSE Candidates(6)

LEMMA Detection ==
    ASSUME NEW e \in Environments, host = e.host PROVE DirectDetected
<1> DEFINE interfaces == host.interfaces
           lists == [i \in DOMAIN interfaces |->
                       IF interfaces[i].up THEN interfaces[i].addresses ELSE << >>]
           up == AddressesUp(interfaces)
           best == FoldLeft(KeepFirst, [f \in {4, 6} |-> NoIP], up)
<1>1. /\ Len(interfaces) \in Nat /\ DOMAIN interfaces = 1..Len(interfaces)
      /\ \A i \in DOMAIN interfaces : interfaces[i].addresses \in Seq(Addresses)
  <2>1. ASSUME NEW S, NEW s \in Seq(S)
        PROVE  Len(s) \in Nat /\ DOMAIN s = 1..Len(s)
    OBVIOUS
  <2> QED
    BY <2>1, EnvironmentsAssumption
<1> HIDE DEF interfaces
<1>2. /\ lists \in Seq(Seq(Addresses)) /\ Len(lists) = Len(interfaces)
      /\ DOMAIN lists = 1..Len(lists)
  BY <1>1
<1>3. /\ up \in Seq(Addresses)
      /\ \A a : a \in Range(up) <=> \E i \in DOMAIN lists : a \in Range(lists[i])
  <2>1. up = FlattenSeq(lists)
    BY Zenon DEF AddressesUp
  <2> HIDE DEF lists, up
  <2> QED
    BY <1>1, <1>2, <2>1, Flattened
<1>4. ASSUME NEW family \in {4, 6}, NEW a
      PROVE  a \in Range(up) /\ Usable(a, family) <=> a \in Candidates(family)
  <2>1. a \in Range(up) <=>
           \E i \in DOMAIN interfaces :
              interfaces[i].up /\ a \in Range(interfaces[i].addresses)
    <3>1. Range(<< >>) = {}
      BY DEF Range
    <3> HIDE DEF up
    <3> QED
      BY <1>3, <3>1
  <2>2. ASSUME NEW s \in Seq(Addresses), a \in Range(s)
        PROVE  a \in Addresses
    BY <2>2 DEF Range
  <2>3. a \in Range(up) => a \in Addresses
    BY <1>1, <2>1, <2>2
  <2> HIDE DEF up
  <2> QED
    BY <2>1, <2>3 DEF Candidates, Usable, interfaces
<1>5. ASSUME NEW family \in {4, 6}
      PROVE  IF Candidates(family) # {}
             THEN best[family] \in Candidates(family) /\ best[family] # NoIP
             ELSE best[family] = NoIP
  <2> HIDE DEF up
  <2>1. IF \E a \in Range(up) : Usable(a, family)
        THEN best[family] \in Range(up) /\ Usable(best[family], family)
        ELSE best[family] = NoIP
    BY <1>3, Kept
  <2>2. \A a : Usable(a, family) => a # NoIP
    BY Routable DEF Usable
  <2> HIDE DEF best
  <2> QED
    BY <1>4, <2>1, <2>2
<1>6. PublicIP(host.interfaces) = IF best[4] # NoIP THEN best[4] ELSE best[6]
  BY Zenon DEF PublicIP, interfaces
<1> HIDE DEF best
<1> QED
  BY <1>5, <1>6 DEF DirectDetected

-----------------------------------------------------------------------------
(* The order of preference, one by one.                                    *)
LEMMA Order ==
    /\ DOMAIN Preference = 1..5
    /\ Preference[1] = "direct" /\ Preference[2] = "WANIPConnection2"
    /\ Preference[3] = "WANIPConnection1" /\ Preference[4] = "WANPPPConnection1"
    /\ Preference[5] = "NAT-PMP"
BY DEF Preference

(* Which of them answers, one by one.                                      *)
LEMMA Answering ==
    /\ Answers("direct") <=>
          chain = "standard" /\ Candidates(4) \cup Candidates(6) # {}
    /\ \A s \in Services : Answers(s) <=> s \in host.services \ missed
    /\ Answers("NAT-PMP") <=>
          /\ search = "done" /\ gateway = host.natpmp
          /\ gateway # Failed /\ "NAT-PMP" \notin missed
BY DEF Answers, Services

(* The same after a step.                                                  *)
LEMMA AnsweringNext ==
    /\ Answers("direct")' <=>
          chain' = "standard" /\ (Candidates(4) \cup Candidates(6))' # {}
    /\ \A s \in Services : Answers(s)' <=> s \in host'.services \ missed'
    /\ Answers("NAT-PMP")' <=>
          /\ search' = "done" /\ gateway' = host'.natpmp
          /\ gateway' # Failed /\ "NAT-PMP" \notin missed'
BY DEF Answers, Services

(* What is tried next is one step further down that order.                 *)
LEMMA Next5 ==
    ASSUME NEW m \in {"direct"} \cup Services
    PROVE  /\ Following(m) \in Mappers \ {"direct"}
           /\ Better(Following(m)) = Better(m) \cup {m}
<1>1. ASSUME NEW i \in 1..4, Preference[i] = m
      PROVE  Following(m) = Preference[i + 1]
  <2>1. \A j \in DOMAIN Preference : Preference[j] = m => j = i
    BY <1>1, Order
  <2>2. (CHOOSE j \in DOMAIN Preference : Preference[j] = m) = i
    BY <1>1, <2>1, Order
  <2>3. Following(m) = Preference[1 + i]
    BY <2>2, Zenon DEF Following
  <2> QED
    BY <2>3
<1>2. \E i \in 1..4 : Preference[i] = m
  BY Order DEF Services
<1>3. PICK i \in 1..4 : Preference[i] = m
  BY <1>2
<1>4. Following(m) = Preference[i + 1]
  BY <1>1, <1>3
<1> QED
  BY <1>3, <1>4, Order DEF Mappers, Services, Better

(* MostPreferred, with the order spelt out.                                *)
LEMMA BestIsPreferred == Selecting => MostPreferred
<1> SUFFICES ASSUME Selecting, Mapping PROVE MostPreferred
  BY DEF MostPreferred
<1>1. Best
  BY DEF Selecting
<1>2. CASE mapper = "none"
  <2>1. \A i \in DOMAIN Preference : Preference[i] \in Mappers
    BY Order DEF Mappers, Services
  <2> QED
    BY <1>1, <1>2, <2>1 DEF Best, MostPreferred
<1>3. CASE mapper # "none"
  <2>1. mapper \in Mappers /\ Answers(mapper)
        /\ \A m \in Better(mapper) : ~Answers(m)
    BY <1>1, <1>3 DEF Best
  <2>2. PICK i \in DOMAIN Preference : Preference[i] = mapper
    BY <2>1, Order DEF Mappers, Services
  <2>3. \A j \in 1..(i - 1) : Preference[j] \in Better(mapper)
    BY <2>2, Order DEF Better, Services
  <2> QED
    BY <1>3, <2>1, <2>2, <2>3 DEF MostPreferred
<1> QED
  BY <1>2, <1>3

(* Every step of the selection keeps to the order.                         *)
LEMMA SelectNext == DirectDetected /\ Selecting /\ [Next]_vars => Selecting'
<1> SUFFICES ASSUME DirectDetected, Selecting, [Next]_vars PROVE Selecting'
  OBVIOUS
<1> USE DEF Selecting, choice, routeVars, queryVars, Goto, Mapping
<1>1. ASSUME UNCHANGED <<host, chain, missed, search, gateway>>
      PROVE  \A m : Answers(m)' <=> Answers(m)
  BY <1>1 DEF Answers, Candidates
<1>2. ASSUME UNCHANGED <<choice, search, gateway>>
      PROVE  Best' <=> Best
  <2>1. \A m : Answers(m)' <=> Answers(m)
    BY <1>1, <1>2
  <2> QED
    BY <1>2, <2>1 DEF Best
<1>3. CASE Cancel
  BY <1>1, <1>2, <1>3 DEF Cancel
<1>4. CASE Start
  BY <1>4 DEF Start, Answers, Better, Mappers, Ends, Services
<1>5. ASSUME NEW m \in Mappers, trying = m, Choose(m), Answers(m)
      PROVE  Selecting'
  BY <1>1, <1>5 DEF Choose, Best, Mappers, Services, Ends
<1>6. ASSUME NEW m \in {"direct"} \cup Services, trying = m, TryNext(m),
             \/ UNCHANGED missed /\ ~Answers(m)
             \/ m \in Services /\ missed' = missed \cup ({m} \cap host.services)
      PROVE  Selecting'
  <2>1. CASE cancelled
    BY <1>6, <2>1 DEF TryNext, ChainFails, Mappers, Services, Ends
  <2>2. CASE ~cancelled
    <3>1. /\ trying' = Following(m) /\ trying' \in Mappers \ {"direct"}
          /\ Better(trying') = Better(m) \cup {m}
      BY <1>6, <2>2, Next5 DEF TryNext
    <3>2. UNCHANGED <<host, chain, mapper, search, gateway>>
      BY <1>6, <2>2 DEF TryNext
    <3>3. ~Answers(m)'
      BY <1>1, <1>6, <3>2 DEF Answers, Services
    <3>4. \A n \in Mappers : ~Answers(n) => ~Answers(n)'
      BY <1>6, <3>2, Answering, AnsweringNext DEF Mappers, Candidates
    <3>5. Better(m) \subseteq Mappers
      BY <1>6 DEF Better, Mappers, Services
    <3>6. \A n \in Better(trying') : ~Answers(n)'
      BY <1>6, <3>1, <3>3, <3>4, <3>5 DEF Mappers
    <3> QED
      BY <1>6, <3>1, <3>2, <3>6 DEF Mappers, Services, Ends
  <2> QED
    BY <2>1, <2>2
<1>7. CASE TryDirect
  <2>1. CASE PublicIP(host.interfaces) # NoIP
    <3>1. Answers("direct")
      BY <1>7, <2>1, Answering DEF TryDirect, DirectDetected
    <3> QED
      BY <1>5, <1>7, <2>1, <3>1 DEF TryDirect, Mappers
  <2>2. CASE PublicIP(host.interfaces) = NoIP
    <3>1. ~Answers("direct")
      BY <2>2, Answering DEF DirectDetected
    <3> QED
      BY <1>6, <1>7, <2>2, <3>1 DEF TryDirect
  <2> QED
    BY <2>1, <2>2
<1>8. ASSUME NEW s \in Services, Discovers(s) PROVE Selecting'
  <2>1. s \in Mappers /\ s \notin missed
    BY <1>8 DEF Discovers, Mappers, Better, Services
  <2> QED
    BY <1>5, <1>8, <2>1, Answering DEF Discovers
<1>9. ASSUME NEW s \in Services, DiscoversNothing(s) PROVE Selecting'
  BY <1>6, <1>9 DEF DiscoversNothing
<1>10. CASE GatewaySearch
  <2>1. \A m \in Better("NAT-PMP") : Answers(m)' <=> Answers(m)
    BY <1>10 DEF GatewaySearch, Answers, Better, Services, Candidates
  <2> QED
    BY <1>10, <2>1 DEF GatewaySearch, Mappers, Services, Ends
<1>11. CASE GatewayAnswers
  <2>1. "NAT-PMP" \notin missed
    BY <1>11 DEF GatewayAnswers, Mappers, Better, Services
  <2> QED
    BY <1>5, <1>11, <2>1, Answering DEF GatewayAnswers, Mappers
<1>12. CASE GatewaySilent
  <2>1. /\ UNCHANGED <<host, chain, mapper, cancelled, search, gateway>>
        /\ missed \subseteq missed' /\ mapper = "none"
        /\ trying' = IF chain = "inner" THEN "chosen" ELSE "failed"
    BY <1>12 DEF GatewaySilent, ChainFails, Mappers
  <2>2. \A m \in {"direct"} \cup Services : ~Answers(m)
    BY <1>12 DEF GatewaySilent, Mappers, Better
  <2>3. \A m \in {"direct"} \cup Services : ~Answers(m)'
    BY <2>1, <2>2, Answering, AnsweringNext DEF Candidates
  <2>4. ~Answers("NAT-PMP")'
    BY <1>12, <2>1, AnsweringNext DEF GatewaySilent
  <2>5. \A m \in Mappers : ~Answers(m)'
    BY <2>3, <2>4 DEF Mappers
  <2> QED
    BY <1>12, <2>1, <2>5 DEF GatewaySilent, Best, Mappers, Services, Ends
<1>13. CASE MapPort \/ MapPortFails \/ Punched
  <2>1. UNCHANGED <<choice, cancelled, search, gateway>>
    BY <1>13 DEF MapPort, MapPortFails, Punched
  <2>2. Best' <=> Best
    BY <1>2, <2>1
  <2> QED
    BY <1>13, <2>1, <2>2 DEF MapPort, MapPortFails, Punched, Mappers, Services, Ends
<1>14. CASE PunchQuery \/ UNCHANGED vars
  BY <1>1, <1>2, <1>14 DEF PunchQuery, vars
<1>15. CASE GetExternalIP
  <2>1. Best' <=> Best
    BY <1>1, <1>15 DEF GetExternalIP, Best
  <2> QED
    BY <1>15, <2>1 DEF GetExternalIP, Mappers, Services, Ends
<1> QED
  BY <1>3, <1>4, <1>7, <1>8, <1>9, <1>10, <1>11, <1>12, <1>13, <1>14, <1>15 DEF Next

(* And every other step leaves the search alone.                           *)
LEMMA SearchKept == SearchInv /\ [Next]_vars => SearchInv'
<1> SUFFICES ASSUME SearchInv, [Next]_vars PROVE SearchInv'
  OBVIOUS
<1>1. CASE GatewaySearch
  BY <1>1, SearchNext DEF GatewaySearch
<1>2. CASE UNCHANGED routeVars
  <2>1. /\ InUse' = InUse /\ Gateways' = Gateways /\ Unreadable' = Unreadable
        /\ NoGateway' <=> NoGateway
    BY <1>2 DEF routeVars, NoGateway, Lines, Gateways, Unreadable, InUse, IsDefault
  <2>2. IsTable' /\ Searching' /\ GatewayFound'
    BY <1>2, <2>1 DEF routeVars, SearchInv, IsTable, Searching, GatewayFound, Lines
  <2> QED
    BY <1>2, <2>1, <2>2 DEF routeVars, SearchInv
<1>3. GatewaySearch \/ UNCHANGED routeVars
  BY DEF Next, Cancel, Start, TryDirect, Discovers, DiscoversNothing,
         GatewayAnswers, GatewaySilent, MapPort, MapPortFails, PunchQuery,
         Punched, GetExternalIP, Choose, TryNext, ChainFails, Goto, vars
<1> QED
  BY <1>1, <1>2, <1>3

(* The punch's answer is final before the mapping is made.                 *)
LEMMA ReportNext == Selecting /\ Reporting /\ [Next]_vars => Reporting'
<1> SUFFICES ASSUME Selecting, Reporting, [Next]_vars PROVE Reporting'
  OBVIOUS
<1> USE DEF Reporting, choice, queryVars, Goto
<1>1. CASE UNCHANGED <<choice, queryVars, trying>>
  BY <1>1
<1>2. CASE trying' \notin {"mapped", "served"}
  BY <1>2
<1>3. CASE MapPort
  BY <1>3 DEF MapPort
<1>4. CASE Punched
  BY <1>4 DEF Punched
<1>5. CASE GetExternalIP
  <2>1. Best
    BY <1>5 DEF GetExternalIP, Selecting, Mapping
  <2>2. mapper = "direct" => chain # "inner"
    BY <2>1, Answering DEF Best
  <2> QED
    BY <1>5, <2>2 DEF GetExternalIP
<1>6. \/ UNCHANGED <<choice, queryVars, trying>>
      \/ trying' \notin {"mapped", "served"}
      \/ MapPort \/ Punched \/ GetExternalIP
  <2>1. \A m \in {"direct"} \cup Services : Following(m) \notin {"mapped", "served"}
    BY Next5 DEF Mappers, Services
  <2>2. ASSUME NEW m \in {"direct"} \cup Services, TryNext(m)
        PROVE  trying' \notin {"mapped", "served"}
    BY <2>1, <2>2 DEF TryNext, ChainFails
  <2>3. CASE Cancel \/ Start \/ GatewayAnswers \/ GatewaySilent \/ MapPortFails
    BY <2>3 DEF Cancel, Start, GatewayAnswers, GatewaySilent, MapPortFails, Choose,
                ChainFails, Ends, Selecting, Mappers, Services
  <2>4. CASE TryDirect
    BY <2>2, <2>4 DEF TryDirect, Choose
  <2>5. ASSUME NEW s \in Services, Discovers(s) \/ DiscoversNothing(s)
        PROVE  trying' \notin {"mapped", "served"}
    BY <2>2, <2>5 DEF Discovers, DiscoversNothing, Choose
  <2>6. CASE GatewaySearch \/ PunchQuery
    BY <2>6 DEF GatewaySearch, PunchQuery
  <2> QED
    BY <2>3, <2>4, <2>5, <2>6 DEF Next, vars
<1> QED
  BY <1>1, <1>2, <1>3, <1>4, <1>5, <1>6

(* The environment does not change.                                        *)
LEMMA GivenNext == Given /\ [Next]_vars => Given'
<1> SUFFICES ASSUME [Next]_vars PROVE UNCHANGED <<host, routes, reply>>
  BY DEF Given
<1> USE DEF choice, routeVars, queryVars, Goto
<1>1. CASE GatewaySearch
  BY <1>1 DEF GatewaySearch, Search, StartSearch, LinuxLine, BSDLine, WindowsLine,
              TableEnds, Fallback, NextLine, Found, EndTable
<1>2. CASE PunchQuery
  BY <1>2 DEF PunchQuery, Query, Receive, ParseAttribute, Exhausted, Answer
<1>3. CASE UNCHANGED <<routeVars, queryVars>> /\ UNCHANGED host
  BY <1>3
<1> QED
  BY <1>1, <1>2, <1>3
  DEF Next, Cancel, Start, TryDirect, Discovers, DiscoversNothing, GatewayAnswers,
      GatewaySilent, MapPort, MapPortFails, Punched, GetExternalIP, Choose, TryNext,
      ChainFails, vars

-----------------------------------------------------------------------------
(* A 16-bit number and its two bytes.                                      *)
LEMMA Halves ==
    ASSUME NEW k \in 0..MaxUint16
    PROVE  /\ k \div 256 \in Bytes /\ k % 256 \in Bytes
           /\ k = 256 * (k \div 256) + (k % 256)
BY DEF Bytes, MaxUint16

(* What the server writes for one attribute: the header, the value, and    *)
(* up to three bytes more.                                                 *)
LEMMA Encoding ==
    ASSUME NEW a, IsAttribute(a)
    PROVE  /\ Encoded(a) \in Seq(Bytes)
           /\ Len(Encoded(a)) = 4 + Padded(Len(a.value))
           /\ Len(a.value) \in Nat /\ Padded(Len(a.value)) >= Len(a.value)
           /\ a.type = 256 * Encoded(a)[1] + Encoded(a)[2]
           /\ Len(a.value) = 256 * Encoded(a)[3] + Encoded(a)[4]
           /\ \A j \in 1..Len(a.value) : Encoded(a)[4 + j] = a.value[j]
<1> DEFINE n == Len(a.value)
           head == Header(a)
           tail == Padding(n)
<1>1. /\ n \in 0..MaxUint16 /\ a.type \in 0..MaxUint16 /\ a.value \in Seq(Bytes)
  <2>1. a.value \in Seq(Bytes) /\ Len(a.value) <= MaxUint16 /\ a.type \in 0..MaxUint16
    BY Zenon DEF IsAttribute
  <2> QED
    BY <2>1
<1> HIDE DEF n
<1>2. n \in Nat
  BY <1>1
<1>3. ASSUME NEW k \in 0..MaxUint16
      PROVE  k \div 256 \in Bytes /\ k % 256 \in Bytes
  BY Halves
<1>4. /\ head \in Seq(Bytes) /\ Len(head) = 4
      /\ head[1] = a.type \div 256 /\ head[2] = a.type % 256
      /\ head[3] = n \div 256 /\ head[4] = n % 256
  <2>1. head = <<a.type \div 256, a.type % 256, n \div 256, n % 256>>
    BY DEF Header, n
  <2> HIDE DEF head
  <2> QED
    BY <1>1, <1>3, <2>1
<1>5. (4 - (n % 4)) % 4 \in Nat
  BY <1>2
<1>6. 4 * ((n + 3) \div 4) = n + ((4 - (n % 4)) % 4)
  <2> DEFINE q == n \div 4
             r == n % 4
  <2>1. q \in Nat /\ r \in 0..3 /\ n = 4 * q + r
    BY <1>2
  <2>2. (n + 3) \div 4 = IF r = 0 THEN q ELSE q + 1
    <3> HIDE DEF q, r
    <3> QED
      BY <2>1
  <2>3. (4 - r) % 4 = IF r = 0 THEN 0 ELSE 4 - r
    <3> HIDE DEF q, r
    <3> QED
      BY <2>1
  <2> HIDE DEF q
  <2> QED
    BY <2>1, <2>2, <2>3
<1>7. tail \in Seq(Bytes) /\ Len(tail) = (4 - (n % 4)) % 4
  BY <1>5 DEF Padding, Bytes
<1>8. Padded(n) = n + Len(tail)
  BY <1>6, <1>7 DEF Padded
<1>9. Encoded(a) = head \o a.value \o tail
  BY Zenon DEF Encoded, n
<1> HIDE DEF head, tail
<1>10. /\ Encoded(a) \in Seq(Bytes) /\ Len(Encoded(a)) = 4 + n + Len(tail)
       /\ \A j \in 1..4 : Encoded(a)[j] = head[j]
       /\ \A j \in 1..n : Encoded(a)[4 + j] = a.value[j]
  <2>1. ASSUME NEW p \in Seq(Bytes), NEW q \in Seq(Bytes), NEW r \in Seq(Bytes)
        PROVE  /\ p \o q \o r \in Seq(Bytes)
               /\ Len(p \o q \o r) = Len(p) + Len(q) + Len(r)
               /\ \A j \in 1..Len(p) : (p \o q \o r)[j] = p[j]
               /\ \A j \in 1..Len(q) : (p \o q \o r)[Len(p) + j] = q[j]
    BY Joined
  <2> DEFINE v == a.value
  <2>2. n = Len(v) /\ v \in Seq(Bytes) /\ Encoded(a) = head \o v \o tail
    BY <1>1, <1>9 DEF n
  <2> HIDE DEF v
  <2>3. /\ Encoded(a) \in Seq(Bytes) /\ Len(Encoded(a)) = 4 + n + Len(tail)
        /\ \A j \in 1..4 : Encoded(a)[j] = head[j]
        /\ \A j \in 1..n : Encoded(a)[4 + j] = v[j]
    <3> DEFINE w == head \o v \o tail
    <3>1. /\ w \in Seq(Bytes) /\ Len(w) = Len(head) + Len(v) + Len(tail)
          /\ \A j \in 1..Len(head) : w[j] = head[j]
          /\ \A j \in 1..Len(v) : w[Len(head) + j] = v[j]
      <4>1. head \in Seq(Bytes) /\ v \in Seq(Bytes) /\ tail \in Seq(Bytes)
        BY <1>4, <1>7, <2>2
      <4> QED
        BY <2>1, <4>1
    <3> HIDE DEF w
    <3>2. Encoded(a) = w
      BY <2>2 DEF w
    <3> QED
      BY <1>4, <2>2, <3>1, <3>2
  <2> QED
    BY <2>3 DEF v
<1>11. /\ a.type = 256 * Encoded(a)[1] + Encoded(a)[2]
       /\ n = 256 * Encoded(a)[3] + Encoded(a)[4]
  <2>1. /\ Encoded(a)[1] = a.type \div 256 /\ Encoded(a)[2] = a.type % 256
        /\ Encoded(a)[3] = n \div 256 /\ Encoded(a)[4] = n % 256
    BY <1>4, <1>10
  <2> QED
    BY <1>1, <2>1, Halves
<1> QED
  <2>1. n = Len(a.value)
    BY DEF n
  <2>2. Len(tail) \in Nat
    BY <1>5, <1>7
  <2>3. Len(Encoded(a)) = 4 + Padded(n) /\ Padded(n) >= n
    BY <1>2, <1>8, <1>10, <2>2
  <2> QED
    BY <1>2, <1>10, <1>11, <2>1, <2>3, Zenon

(* And for all of them: each stands where the one before it ends.          *)
LEMMA Layout ==
    ASSUME Given, reply.header = "success"
    PROVE  LET n == Len(reply.attributes)
           IN  /\ n \in Nat /\ DOMAIN reply.attributes = 1..n
               /\ Len(reply.body) = End(n)
               /\ \A k \in 0..n : End(k) \in Nat /\ End(k) <= End(n)
               /\ \A k \in 1..n :
                     /\ End(k) = End(k - 1) + Len(Encodings[k])
                     /\ \A j \in 1..Len(Encodings[k]) :
                           reply.body[End(k - 1) + j] = Encodings[k][j]
<1> DEFINE n == Len(reply.attributes)
           F == Flattening(Encodings)
           P(m) == /\ m > 0 => F[m] \in Seq(Bytes)
                   /\ End(m) \in Nat
                   /\ \A k \in 0..m : End(k) \in Nat /\ End(k) <= End(m)
                   /\ \A k \in 1..m :
                         /\ End(k) = End(k - 1) + Len(Encodings[k])
                         /\ \A j \in 1..Len(Encodings[k]) :
                               F[m][End(k - 1) + j] = Encodings[k][j]
           S == {m \in Nat : m <= n => P(m)}
<1>1. /\ n \in Nat /\ DOMAIN reply.attributes = 1..n
      /\ \A i \in 1..n : IsAttribute(reply.attributes[i])
      /\ reply.body = FlattenSeq(Encodings)
  <2>1. ASSUME NEW T, NEW s \in Seq(T)
        PROVE  Len(s) \in Nat /\ DOMAIN s = 1..Len(s)
    OBVIOUS
  <2>2. PICK e \in Environments : reply = e.reply
    BY DEF Given
  <2>3. /\ reply.attributes \in Seq(Range(reply.attributes))
        /\ \A i \in DOMAIN reply.attributes : IsAttribute(reply.attributes[i])
        /\ reply.body = Encode(reply.attributes)
    BY <2>2, EnvironmentsAssumption
  <2>4. n \in Nat /\ DOMAIN reply.attributes = 1..n
    BY <2>1, <2>3
  <2>5. Encode(reply.attributes) = FlattenSeq(Encodings)
    BY DEF Encode, Encodings
  <2> QED
    <3>1. reply.body = FlattenSeq(Encodings)
      BY <2>3, <2>5, Zenon
    <3>2. \A i \in 1..n : IsAttribute(reply.attributes[i])
      BY <2>3, <2>4, Zenon
    <3> QED
      BY <2>4, <3>1, <3>2, Zenon
<1>2. \A i \in 1..n : Encodings[i] \in Seq(Bytes) /\ Len(Encodings[i]) \in Nat
  BY <1>1, Encoding DEF Encodings
<1>3. Encodings \in Seq(Seq(Bytes)) /\ Len(Encodings) = n
  <2>1. Encodings = [i \in 1..n |-> Encodings[i]]
    BY <1>1 DEF Encodings
  <2> HIDE DEF n
  <2> QED
    BY <1>1, <1>2, <2>1
<1>4. /\ n # 0 => reply.body = F[n]
      /\ n = 0 => reply.body = << >>
      /\ \A i \in 1..n : F[i] = IF i = 1 THEN Encodings[i] ELSE F[i - 1] \o Encodings[i]
  BY <1>1, <1>3, FlatteningIs
<1> HIDE DEF n, F
<1>5. 0 \in S
  <2>1. End(0) = 0 /\ 0..0 = {0} /\ 1..0 = {}
    BY DEF End
  <2> QED
    BY <2>1
<1>6. ASSUME NEW m \in Nat, m \in S PROVE m + 1 \in S
  <2> SUFFICES ASSUME m + 1 <= n PROVE P(m + 1)
    OBVIOUS
  <2>1. P(m)
    BY <1>1, <1>6
  <2> HIDE DEF P, S
  <2> DEFINE e == Encodings[m + 1]
  <2>2. e \in Seq(Bytes) /\ Len(e) \in Nat
    BY <1>1, <1>2
  <2>3. /\ F[m + 1] \in Seq(Bytes) /\ Len(F[m + 1]) = End(m) + Len(e)
        /\ m > 0 => \A j \in 1..End(m) : F[m + 1][j] = F[m][j]
        /\ \A j \in 1..Len(e) : F[m + 1][End(m) + j] = e[j]
    <3>1. CASE m = 0
      <4>1. F[m + 1] = e /\ End(m) = 0
        BY <1>1, <1>4, <3>1 DEF End
      <4> QED
        BY <2>2, <3>1, <4>1
    <3>2. CASE m # 0
      <4>1. F[m + 1] = F[m] \o e
        <5>1. m + 1 # 1 /\ (m + 1) - 1 = m /\ m + 1 \in 1..n
          BY <1>1, <3>2
        <5>2. F[m + 1] = IF m + 1 = 1 THEN e ELSE F[(m + 1) - 1] \o e
          BY <1>4, <5>1, Zenon
        <5> QED
          BY <5>1, <5>2, Zenon
      <4>2. F[m] \in Seq(Bytes) /\ End(m) = Len(F[m])
        BY <2>1, <3>2 DEF P, End, F
      <4> HIDE DEF e
      <4> QED
        BY <2>2, <4>1, <4>2
    <3> QED
      BY <3>1, <3>2
  <2>4. End(m + 1) = End(m) + Len(e)
    <3>1. m + 1 # 0
      OBVIOUS
    <3>2. End(m + 1) = Len(F[m + 1])
      BY <3>1, Zenon DEF End, F
    <3> QED
      BY <2>3, <3>2
  <2>5. \A k \in 0..(m + 1) : End(k) \in Nat /\ End(k) <= End(m + 1)
    <3>1. \A k \in 0..(m + 1) : k \in 0..m \/ k = m + 1
      OBVIOUS
    <3> HIDE DEF e
    <3> QED
      BY <2>1, <2>2, <2>4, <3>1 DEF P
  <2>6. ASSUME NEW k \in 1..(m + 1)
        PROVE  /\ End(k) = End(k - 1) + Len(Encodings[k])
               /\ \A j \in 1..Len(Encodings[k]) :
                     F[m + 1][End(k - 1) + j] = Encodings[k][j]
    <3>1. CASE k = m + 1
      BY <2>3, <2>4, <3>1
    <3>2. CASE k \in 1..m
      <4>1. /\ End(k) = End(k - 1) + Len(Encodings[k])
            /\ End(k - 1) \in Nat /\ End(k) <= End(m) /\ End(m) \in Nat
            /\ Len(Encodings[k]) \in Nat
            /\ \A j \in 1..Len(Encodings[k]) :
                  F[m][End(k - 1) + j] = Encodings[k][j]
        BY <1>1, <1>2, <2>1, <3>2 DEF P
      <4>2. \A j \in 1..Len(Encodings[k]) : End(k - 1) + j \in 1..End(m)
        BY <4>1
      <4>3. m > 0
        BY <3>2
      <4>4. \A j \in 1..Len(Encodings[k]) :
               F[m + 1][End(k - 1) + j] = F[m][End(k - 1) + j]
        BY <2>3, <4>2, <4>3, Zenon
      <4> QED
        BY <4>1, <4>4, Zenon
    <3> QED
      BY <3>1, <3>2
  <2> QED
    BY <2>3, <2>4, <2>5, <2>6 DEF P
<1>7. P(n)
  <2>1. n \in S
    <3> HIDE DEF S
    <3> QED
      BY <1>1, <1>5, <1>6, Induction
  <2> HIDE DEF P
  <2> QED
    BY <1>1, <2>1
<1>8. Len(reply.body) = End(n)
  BY <1>1, <1>4 DEF End, F
<1>9. n # 0 => reply.body = F[n]
  BY <1>4
<1> QED
  BY <1>1, <1>7, <1>8, <1>9 DEF n

(* What the server XORed is XORed back.                                    *)
LEMMA XorTwice ==
    ASSUME NEW e \in [1..6 -> Bytes] PROVE XorAll(XorAll(e)) = e
<1>1. e = [i \in 1..6 |-> e[i]] /\ \A i \in 1..6 : e[i] \in Bytes
  OBVIOUS
<1>2. DOMAIN e = 1..6
  OBVIOUS
<1>3. XorAll(XorAll(e)) = [i \in 1..6 |-> Xor(Xor(e[i], Mask[i]), Mask[i])]
  BY <1>2 DEF XorAll
<1>4. \A i \in 1..6 : Xor(Xor(e[i], Mask[i]), Mask[i]) = e[i]
  BY <1>1, XorAssumption
<1> QED
  BY <1>1, <1>3, <1>4

(* An attribute that begins at a multiple of four is padded to the next.   *)
LEMMA Padding4 ==
    ASSUME NEW o \in Nat, o % 4 = 0, NEW m \in Nat
    PROVE  Padded(o + 4 + m) = o + 4 + Padded(m) /\ Padded(o + 4 + m) % 4 = 0
<1> DEFINE q == o \div 4
           p == (m + 3) \div 4
<1>1. q \in Nat /\ p \in Nat /\ o = 4 * q
  OBVIOUS
<1>2. (o + 4 + m + 3) \div 4 = q + 1 + p
  <2>1. \E r \in 0..3 : m + 3 = 4 * p + r
    <3>1. (m + 3) % 4 \in 0..3 /\ m + 3 = 4 * p + ((m + 3) % 4)
      OBVIOUS
    <3> QED
      BY <3>1
  <2>2. PICK r \in 0..3 : m + 3 = 4 * p + r
    BY <2>1
  <2> HIDE DEF p, q
  <2>3. o + 4 + m + 3 = 4 * (q + 1 + p) + r
    BY <1>1, <2>2
  <2> QED
    BY <1>1, <2>3
<1> HIDE DEF q
<1>3. Padded(o + 4 + m) = 4 * (q + 1 + p) /\ Padded(m) = 4 * p
  BY <1>2 DEF Padded
<1> HIDE DEF p
<1> QED
  BY <1>1, <1>3

(* The part of the message that an attribute's value is taken from.        *)
LEMMA Taken ==
    ASSUME NEW s, NEW o \in Nat, NEW m \in Nat
    PROVE  SubSeq(s, o + 5, o + 4 + m) = [j \in 1..m |-> s[o + 4 + j]]
OBVIOUS

(* What the parse finds where an attribute begins is that attribute.       *)
LEMMA Attribute ==
    ASSUME Given, reply.header = "success", reply.length <= Len(reply.body),
           NEW k \in 0..Len(reply.attributes), End(k) + 4 <= reply.length
    PROVE  LET a == reply.attributes[k + 1]
               end == End(k) + 4 + Uint16(End(k) + 2)
           IN  /\ k + 1 \in 1..Len(reply.attributes) /\ IsAttribute(a)
               /\ Uint16(End(k)) = a.type /\ Uint16(End(k) + 2) = Len(a.value)
               /\ SubSeq(reply.body, End(k) + 5, end) = a.value
               /\ Len(a.value) \in Nat /\ End(k) \in Nat /\ End(k + 1) \in Nat
               /\ End(k + 1) = End(k) + 4 + Padded(Len(a.value))
               /\ end <= End(k + 1) /\ End(k + 1) <= Len(reply.body)
<1> DEFINE n == Len(reply.attributes)
           a == reply.attributes[k + 1]
           e == Encodings[k + 1]
           m == Len(a.value)
<1>1. /\ n \in Nat /\ DOMAIN reply.attributes = 1..n
      /\ Len(reply.body) = End(n)
      /\ \A j \in 0..n : End(j) \in Nat /\ End(j) <= End(n)
      /\ \A j \in 1..n :
            /\ End(j) = End(j - 1) + Len(Encodings[j])
            /\ \A i \in 1..Len(Encodings[j]) :
                  reply.body[End(j - 1) + i] = Encodings[j][i]
  BY Layout
<1>2. reply.length \in Nat /\ \A i \in 1..n : IsAttribute(reply.attributes[i])
  BY <1>1, EnvironmentsAssumption DEF Given
<1> HIDE DEF n
<1>3. k \in Nat /\ k \in 0..n /\ k # n
  BY <1>1, <1>2 DEF n
<1>4. k + 1 \in 1..n /\ (k + 1) - 1 = k
  BY <1>1, <1>3
<1>5. IsAttribute(a) /\ e = Encoded(a)
  BY <1>1, <1>2, <1>4 DEF Encodings
<1>6. /\ End(k) \in Nat /\ End(k + 1) = End(k) + Len(e) /\ End(k + 1) <= End(n)
      /\ \A i \in 1..Len(e) : reply.body[End(k) + i] = e[i]
  BY <1>1, <1>3, <1>4
<1>7. /\ Len(e) = 4 + Padded(m) /\ m \in Nat /\ Padded(m) >= m
      /\ a.type = 256 * e[1] + e[2] /\ m = 256 * e[3] + e[4]
      /\ \A j \in 1..m : e[4 + j] = a.value[j]
      /\ Padded(m) \in Nat
  <2>1. /\ Len(Encoded(a)) = 4 + Padded(m) /\ m \in Nat /\ Padded(m) >= m
        /\ a.type = 256 * Encoded(a)[1] + Encoded(a)[2]
        /\ m = 256 * Encoded(a)[3] + Encoded(a)[4]
        /\ \A j \in 1..m : Encoded(a)[4 + j] = a.value[j]
    <3> HIDE DEF a, e
    <3> QED
      BY <1>5, Encoding
  <2>2. Padded(m) \in Nat
    <3>1. m \in Nat
      BY <2>1
    <3> HIDE DEF m
    <3> QED
      BY <3>1 DEF Padded
  <2> HIDE DEF a, e, m
  <2> QED
    BY <1>5, <2>1, <2>2, Zenon
<1>8. a.value = [j \in 1..m |-> a.value[j]]
  <2>1. a.value \in Seq(Bytes)
    BY <1>5, Zenon DEF IsAttribute
  <2> HIDE DEF a
  <2> QED
    BY <2>1
<1> HIDE DEF a, e, m
<1>9. /\ reply.body[End(k) + 1] = e[1] /\ reply.body[End(k) + 2] = e[2]
      /\ reply.body[End(k) + 3] = e[3] /\ reply.body[End(k) + 4] = e[4]
  <2>1. 1 \in 1..Len(e) /\ 2 \in 1..Len(e) /\ 3 \in 1..Len(e) /\ 4 \in 1..Len(e)
    BY <1>7
  <2> QED
    BY <1>6, <2>1
<1>10. Uint16(End(k)) = a.type
  BY <1>7, <1>9, Zenon DEF Uint16
<1>11. Uint16(End(k) + 2) = m
  <2>1. (End(k) + 2) + 1 = End(k) + 3 /\ (End(k) + 2) + 2 = End(k) + 4
    BY <1>6
  <2> QED
    BY <1>7, <1>9, <2>1, Zenon DEF Uint16
<1> DEFINE end == End(k) + 4 + m
<1>12. end <= End(k + 1) /\ End(k + 1) \in Nat
  <2>1. /\ m \in Nat /\ Padded(m) \in Nat /\ Padded(m) >= m
        /\ End(k) \in Nat /\ End(k + 1) = End(k) + (4 + Padded(m))
    BY <1>6, <1>7, Zenon
  <2> QED
    BY <2>1
<1>13. SubSeq(reply.body, End(k) + 5, end) = a.value
  <2>1. SubSeq(reply.body, End(k) + 5, end) =
           [j \in 1..m |-> reply.body[End(k) + 4 + j]]
    <3>1. m \in Nat /\ End(k) \in Nat
      BY <1>6, <1>7
    <3>2. SubSeq(reply.body, End(k) + 5, End(k) + 4 + m) =
             [j \in 1..m |-> reply.body[End(k) + 4 + j]]
      <4> DEFINE o == End(k)
      <4>1. o \in Nat /\ m \in Nat
        BY <3>1
      <4> HIDE DEF o
      <4>2. SubSeq(reply.body, o + 5, o + 4 + m) =
               [j \in 1..m |-> reply.body[o + 4 + j]]
        BY <4>1, Taken
      <4> QED
        BY <4>2 DEF o
    <3> QED
      BY <3>2 DEF end
  <2>2. \A j \in 1..m : reply.body[End(k) + 4 + j] = a.value[j]
    <3>1. ASSUME NEW j \in 1..m PROVE reply.body[End(k) + 4 + j] = a.value[j]
      <4>1. Len(e) = 4 + Padded(m) /\ Padded(m) >= m /\ Padded(m) \in Nat
            /\ m \in Nat /\ End(k) \in Nat
        BY <1>6, <1>7, Zenon
      <4>2. 4 + j \in 1..Len(e) /\ End(k) + (4 + j) = End(k) + 4 + j
        BY <4>1
      <4> QED
        BY <1>6, <1>7, <4>2
    <3> QED
      BY <3>1
  <2> QED
    BY <1>8, <2>1, <2>2
<1> QED
  <2>1. End(k + 1) = End(k) + 4 + Padded(m)
    BY <1>6, <1>7
  <2> QED
    BY <1>1, <1>4, <1>5, <1>6, <1>7, <1>10, <1>11, <1>12, <1>13, <2>1
    DEF a, m, n, end

(* The parse passes over what says no endpoint and stops at the first      *)
(* attribute that says one, or where the message ends.                     *)
LEMMA QueryNext == Given /\ STUNInv /\ Query => STUNInv'
<1> SUFFICES ASSUME Given, STUNInv, Query PROVE STUNInv'
  OBVIOUS
<1> DEFINE n == Len(reply.attributes)
           with == {i \in DOMAIN reply.attributes :
                      reply.attributes[i].endpoint # NoAnswer}
           first == CHOOSE i \in with : \A j \in with : i <= j
           whole == /\ reply.header = "success" /\ reply.length <= MaxLength
                    /\ reply.length = Len(reply.body)
<1>1. reply' = reply
  BY DEF Query, Receive, ParseAttribute, Exhausted, Answer
<1>2. \A k : End(k)' = End(k)
  BY <1>1 DEF End, Encodings
<1>3. ASSUME query' = "done", answer' # NoAnswer =>
                with # {} /\ answer' = reply.attributes[first].endpoint,
             whole /\ with # {} => answer' # NoAnswer
      PROVE  STUNInv'
  <2>1. EndpointIsMapped'
    BY <1>1, <1>3, Zenon DEF EndpointIsMapped
  <2> QED
    BY <1>3, <2>1 DEF STUNInv
<1>4. CASE Receive
  <2>1. CASE Answer(NoAnswer)
    <3>1. query' = "done" /\ answer' = NoAnswer
      BY <2>1 DEF Answer
    <3>2. CASE query' # "parse"
      <4>1. reply.length \in Nat
        BY EnvironmentsAssumption DEF Given
      <4>2. ~whole
        BY <1>4, <3>2, <4>1 DEF Receive
      <4> HIDE DEF whole, with, first
      <4> QED
        BY <1>3, <3>1, <4>2
    <3> QED
      BY <3>1, <3>2
  <2>2. CASE query' = "parse"
    <3>1. /\ reply.header = "success" /\ reply.length <= MaxLength
          /\ reply.length <= Len(reply.body) /\ offset' = 0
      BY <1>4, <2>2 DEF Receive, Answer, STUNInv
    <3>2. n \in Nat /\ End(0) = 0
      BY <3>1, Layout DEF End
    <3>3. EndpointIsMapped'
      BY <2>2 DEF EndpointIsMapped
    <3>4. \E k \in 0..n :
             /\ offset' = End(k)
             /\ \A i \in 1..k : reply.attributes[i].endpoint = NoAnswer
      BY <3>1, <3>2
    <3> QED
      BY <1>1, <1>2, <2>2, <3>1, <3>3, <3>4 DEF STUNInv
  <2> QED
    BY <1>4, <2>1, <2>2 DEF Receive
<1>5. ASSUME query = "parse",
             NEW k \in 0..n, offset = End(k),
             \A i \in 1..k : reply.attributes[i].endpoint = NoAnswer
      PROVE  STUNInv'
  <2>1. /\ reply.header = "success" /\ reply.length <= Len(reply.body)
        /\ offset % 4 = 0 /\ reply.length <= MaxLength
    BY <1>5 DEF STUNInv
  <2>2. /\ n \in Nat /\ DOMAIN reply.attributes = 1..n
        /\ Len(reply.body) = End(n) /\ End(k) \in Nat
    BY <2>1, Layout
  <2>3. reply.length \in Nat
    BY EnvironmentsAssumption DEF Given
  <2> DEFINE a == reply.attributes[k + 1]
             end == offset + 4 + Uint16(offset + 2)
             value == SubSeq(reply.body, offset + 5, end)
             found == Uint16(offset) \in {Mapped, XorMapped} /\ IsIPv4(value)
  <2>4. CASE ParseAttribute
    <3>1. /\ k + 1 \in 1..n /\ IsAttribute(a)
          /\ Uint16(offset) = a.type /\ Uint16(offset + 2) = Len(a.value)
          /\ value = a.value /\ Len(a.value) \in Nat /\ End(k + 1) \in Nat
          /\ End(k + 1) = offset + 4 + Padded(Len(a.value))
          /\ end <= End(k + 1) /\ End(k + 1) <= Len(reply.body)
      BY <1>5, <2>1, <2>4, Attribute DEF ParseAttribute
    <3>2. found <=> a.endpoint # NoAnswer
      <4>1. \A e \in [1..6 -> Bytes] : e # NoAnswer
        <5>1. DOMAIN NoAnswer = {} /\ 1 \in 1..6
          BY DEF NoAnswer
        <5> QED
          BY <5>1
      <4> QED
        BY <3>1, <4>1 DEF IsAttribute
    <3>3. found => Endpoint(a.type, value) = a.endpoint
      <4>1. Mapped # XorMapped
        BY DEF Mapped, XorMapped
      <4> QED
        BY <3>1, <4>1, XorTwice DEF IsAttribute, Endpoint
    <3>4. CASE end > reply.length /\ Answer(NoAnswer)
      <4>1. end \in Nat
        <5>1. offset \in Nat /\ Uint16(offset + 2) \in Nat
          BY <1>5, <2>2, <3>1
        <5> QED
          BY <5>1
      <4>2. reply.length # Len(reply.body)
        <5>1. /\ end <= End(k + 1) /\ End(k + 1) <= Len(reply.body)
              /\ end > reply.length /\ End(k + 1) \in Nat
          BY <3>1, <3>4
        <5> HIDE DEF end
        <5> QED
          BY <2>3, <4>1, <5>1
      <4>3. query' = "done" /\ answer' = NoAnswer
        BY <3>4 DEF Answer
      <4>4. ~whole
        BY <4>2
      <4> HIDE DEF whole, with, first
      <4> QED
        BY <1>3, <4>3, <4>4
    <3>5. CASE found /\ Answer(Endpoint(Uint16(offset), value))
      <4>1. query' = "done" /\ answer' = a.endpoint /\ a.endpoint # NoAnswer
        BY <3>1, <3>2, <3>3, <3>5 DEF Answer
      <4>2. k + 1 \in with /\ \A i \in with : k + 1 <= i
        <5>1. \A i \in with : i \in 1..n /\ i \notin 1..k
          BY <1>5, <2>2
        <5>2. \A i \in 1..n : i \notin 1..k => k + 1 <= i
          BY <1>5, <2>2
        <5> QED
          BY <2>2, <3>1, <4>1, <5>1, <5>2
      <4>3. with \subseteq Nat
        BY <2>2
      <4>4. first = k + 1
        <5> HIDE DEF with
        <5>1. \A i \in with : (\A j \in with : i <= j) <=> i = k + 1
          BY <4>2, <4>3
        <5> QED
          BY <4>2, <5>1
      <4> HIDE DEF with, first
      <4> QED
        BY <1>3, <4>1, <4>2, <4>4
    <3>6. CASE /\ ~found /\ offset' = Padded(end)
               /\ UNCHANGED <<reply, query, answer>>
      <4>1. Padded(end) = End(k + 1) /\ Padded(end) % 4 = 0
        BY <1>5, <2>1, <2>2, <3>1, Padding4
      <4>2. \A i \in 1..(k + 1) : reply.attributes[i].endpoint = NoAnswer
        BY <1>5, <3>2, <3>6
      <4>3. EndpointIsMapped'
        BY <1>5, <3>6 DEF EndpointIsMapped
      <4>4. k + 1 \in 0..n
        BY <3>1
      <4> HIDE DEF found, end, value
      <4> QED
        BY <1>1, <1>2, <1>5, <2>1, <3>6, <4>1, <4>2, <4>3, <4>4 DEF STUNInv
    <3> QED
      BY <2>4, <3>4, <3>5, <3>6 DEF ParseAttribute
  <2>5. CASE Exhausted
    <3>1. query' = "done" /\ answer' = NoAnswer /\ offset + 4 > reply.length
      BY <2>5 DEF Exhausted, Answer
    <3>2. ASSUME whole, with # {} PROVE FALSE
      <4>1. k # n
        BY <1>5, <2>2, <3>2
      <4>2. k + 1 \in 1..n /\ (k + 1) - 1 = k
        BY <2>2, <4>1
      <4>3. End(k + 1) = End(k) + Len(Encodings[k + 1]) /\ End(k + 1) <= End(n)
            /\ End(k + 1) \in Nat
        BY <2>1, <4>2, Layout
      <4>4. /\ Len(Encodings[k + 1]) = 4 + Padded(Len(a.value))
            /\ Padded(Len(a.value)) >= Len(a.value) /\ Len(a.value) \in Nat
        <5>1. IsAttribute(a) /\ Encodings[k + 1] = Encoded(a)
          BY <2>2, <4>2, EnvironmentsAssumption DEF Given, Encodings
        <5> HIDE DEF a
        <5> QED
          BY <5>1, Encoding
      <4>5. Padded(Len(a.value)) \in Nat
        <5> DEFINE m == Len(a.value)
        <5>1. m \in Nat
          BY <4>4
        <5> HIDE DEF m
        <5>2. Padded(m) \in Nat
          BY <5>1 DEF Padded
        <5> QED
          BY <5>2 DEF m
      <4> QED
        BY <1>5, <2>2, <2>3, <3>1, <3>2, <4>3, <4>4, <4>5
    <3> HIDE DEF whole, with, first
    <3> QED
      BY <1>3, <3>1, <3>2
  <2> QED
    BY <1>5, <2>4, <2>5 DEF Query, Receive
<1>6. query = "parse" =>
         \E k \in 0..n : /\ offset = End(k)
                         /\ \A i \in 1..k : reply.attributes[i].endpoint = NoAnswer
  BY DEF STUNInv
<1>7. Receive \/ query = "parse"
  BY DEF Query, ParseAttribute, Exhausted
<1> QED
  BY <1>4, <1>5, <1>6, <1>7

(* Every other step leaves the parse alone.                                *)
LEMMA STUNNext == Given /\ STUNInv /\ [Next]_vars => STUNInv'
<1> SUFFICES ASSUME Given, STUNInv, [Next]_vars PROVE STUNInv'
  OBVIOUS
<1>1. CASE PunchQuery
  BY <1>1, QueryNext DEF PunchQuery
<1>2. CASE UNCHANGED queryVars
  <2>1. /\ query' = query /\ offset' = offset /\ answer' = answer
        /\ reply' = reply
    BY <1>2 DEF queryVars
  <2>2. \A k : End(k)' = End(k)
    BY <2>1 DEF End, Encodings
  <2>3. EndpointIsMapped'
    BY <2>1, Zenon DEF STUNInv, EndpointIsMapped
  <2> QED
    BY <2>1, <2>2, <2>3 DEF STUNInv
<1>3. PunchQuery \/ UNCHANGED queryVars
  BY DEF Next, Cancel, Start, TryDirect, Discovers, DiscoversNothing,
         GatewaySearch, GatewayAnswers, GatewaySilent, MapPort, MapPortFails,
         Punched, GetExternalIP, Choose, TryNext, ChainFails, Goto, vars
<1> QED
  BY <1>1, <1>2, <1>3

-----------------------------------------------------------------------------
(* Inv holds in every state, whatever the environment is.                  *)
THEOREM Invariance == Spec => []Inv
<1>1. Init => Inv
  <2> SUFFICES ASSUME Init PROVE Inv
    OBVIOUS
  <2>1. PICK e \in Environments :
           host = e.host /\ routes = e.routes /\ reply = e.reply
    BY DEF Init
  <2>2. Given
    BY <2>1 DEF Given
  <2>3. SearchInv
    BY <2>1, SearchStart DEF Init
  <2>4. Selecting /\ Reporting
    BY DEF Init, Selecting, Reporting, Mappers, Services, Ends, Mapping
  <2>5. STUNInv
    BY Zenon DEF Init, QueryInit, STUNInv, EndpointIsMapped
  <2> QED
    BY <2>2, <2>3, <2>4, <2>5 DEF Inv
<1>2. Inv /\ [Next]_vars => Inv'
  <2>1. Given => DirectDetected
    BY Detection DEF Given
  <2> QED
    BY <2>1, GivenNext, SearchKept, SelectNext, ReportNext, STUNNext DEF Inv
<1> QED
  BY <1>1, <1>2, PTL DEF Spec

(* NAT-PMP asks the gateway of the first default route in use, on each of  *)
(* the platforms, and guesses it only when there is none to be read        *)
(* (discoverGatewayOSSpecific and discoverGatewayFallback).                *)
THEOREM Searched == Spec => []GatewayFound
<1>1. Inv => GatewayFound
  BY DEF Inv, SearchInv
<1> QED
  BY <1>1, Invariance, PTL

(* A port is asked only of a mapper to which none that answered was        *)
(* preferred (newPortMapper, newTCPPunchPortMapper and                     *)
(* createTCPMappingContext, whenever the context is cancelled).            *)
THEOREM Selection == Spec => []MostPreferred
<1>1. Inv => MostPreferred
  BY BestIsPreferred DEF Inv
<1> QED
  BY <1>1, Invariance, PTL

(* Whatever attributes the STUN server's message holds, the parse answers  *)
(* with the endpoint the first of those that say one was made of, and no   *)
(* prefix of a message makes it answer with another                        *)
(* (parseSTUNMappedAddress, parseSTUNAddressAttribute).                    *)
THEOREM Parsed == Spec => []EndpointIsMapped
<1>1. Inv => EndpointIsMapped
  BY DEF Inv, STUNInv
<1> QED
  BY <1>1, Invariance, PTL

(* The address a listener reports (GetExternalIP of the mappers) is the    *)
(* outermost one: for a direct listener the preferred candidate of an      *)
(* interface that is up, behind a punch the endpoint the STUN server saw.  *)
THEOREM Reported == Spec => []ReportedIsOutermost
<1> DEFINE with == {i \in DOMAIN reply.attributes :
                      reply.attributes[i].endpoint # NoAnswer}
           first == CHOOSE i \in with : \A j \in with : i <= j
<1>1. ASSUME Given, with # {} PROVE first \in with
  <2>1. DOMAIN reply.attributes \subseteq Nat
    BY <1>1, EnvironmentsAssumption DEF Given
  <2>2. PICK i \in with : \A j \in with : ~(<<j, i>> \in OpToRel(<, Nat))
    <3>1. with \subseteq Nat
      BY <2>1
    <3> HIDE DEF with
    <3> QED
      BY <1>1, <3>1, NatLessThanWellFounded, WFMin
  <2>3. ASSUME NEW j \in with PROVE i <= j
    <3>1. i \in Nat /\ j \in Nat /\ ~(<<j, i>> \in OpToRel(<, Nat))
      BY <2>1, <2>2
    <3> QED
      BY <3>1 DEF OpToRel
  <2> QED
    BY <2>2, <2>3
<1>2. ASSUME Inv, trying = "served" PROVE ReportedIsOutermost
  <2>1. DirectDetected /\ Best /\ Reporting
    BY <1>2, Detection DEF Inv, Given, Selecting, Mapping
  <2>2. CASE mapper = "direct"
    <3>1. chain = "standard" /\ Candidates(4) \cup Candidates(6) # {}
      BY <2>1, <2>2, Answering DEF Best
    <3>2. address = PublicIP(host.interfaces)
      BY <1>2, <2>1, <2>2, <3>1 DEF Reporting
    <3> QED
      BY <2>1, <2>2, <3>1, <3>2 DEF DirectDetected, ReportedIsOutermost
  <2>3. CASE chain = "inner"
    <3>1. /\ query = "done" /\ answer # NoAnswer
          /\ address = SubSeq(answer, 3, 6) /\ mapper # "direct"
      BY <1>2, <2>1, <2>3, Answering DEF Reporting, Best
    <3>2. with # {} /\ answer = reply.attributes[first].endpoint
      BY <1>2, <3>1, Zenon DEF Inv, STUNInv, EndpointIsMapped
    <3>3. first \in with
      BY <1>1, <1>2, <3>2 DEF Inv
    <3> HIDE DEF first
    <3> QED
      BY <3>1, <3>2, <3>3 DEF ReportedIsOutermost
  <2> QED
    BY <2>2, <2>3 DEF ReportedIsOutermost
<1>3. Inv => ReportedIsOutermost
  BY <1>2 DEF ReportedIsOutermost
<1> QED
  BY <1>3, Invariance, PTL
=============================================================================
