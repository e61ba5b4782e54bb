-------------------------- MODULE MCPublicAddress --------------------------
(* Environments for PublicAddress that vary one part at a time: the        *)
(* routing table, the interfaces, the STUN server's message, or what the   *)
(* selection depends on.                                                   *)
EXTENDS PublicAddress

UpTo(n, S) == UNION {[1..k -> S] : k \in 0..n}

NoInterfaces == << >>
Off == [enable |-> FALSE, stun |-> "", keepAlive |-> "", durations |-> ""]
On == [enable |-> TRUE, stun |-> "host:port", keepAlive |-> "host:port",
       durations |-> ""]
Router == <<7, 1>>
Other == <<8, 9>>

Host(protocol, punch, interfaces, services, natpmp) ==
    [protocol |-> protocol, punch |-> punch, interfaces |-> interfaces,
     services |-> services, natpmp |-> natpmp, wan |-> <<10, 0, 0, 1>>]
Routes(platform, readable, table, local) ==
    [platform |-> platform, readable |-> readable, table |-> table, local |-> local]

(* Routing tables. *)
Line(kind, g) == [kind |-> kind, gateway |-> g]
Default(gateways) == {Line("default", g) : g \in gateways}
Plain == Line("other", OnLink)
Tables ==
    {Routes("linux", TRUE, t, <<7, 5>>) :
        t \in UpTo(4, {Plain, Line("half", Other)}
                      \cup Default({Router, Other, Unspecified, Garbled}))}
    \cup {Routes("bsd", TRUE, t, <<7, 5>>) :
        t \in UpTo(3, {Plain, Line("half", Other)}
                      \cup Default({Router, Other, Unspecified, Garbled, OnLink}))}
    \cup {Routes("windows", TRUE, t, <<7, 5>>) :
        t \in UpTo(4, {Plain, Line("heading", OnLink), Line("rule", OnLink)}
                      \cup Default({Router, Other, Garbled, OnLink}))}
    \cup {Routes(p, FALSE, << >>, l) :
        p \in {"linux", "bsd", "windows", "other"}, l \in {<<7, 5>>, <<8, 5>>, NoIPv4}}
ARoute == Routes("linux", TRUE, <<Plain, Line("default", Router)>>, <<7, 5>>)

(* Messages. *)
One == <<33, 19, 8, 8, 4, 4>>
Two == <<200, 1, 1, 0, 255, 164>>
Attribute(type, endpoint, value) ==
    [type |-> type, endpoint |-> endpoint, value |-> value]
Attributes ==
    {Attribute(Mapped, e, <<0, 1>> \o e) : e \in {One}}
    \cup {Attribute(XorMapped, e, <<0, 1>> \o XorAll(e)) : e \in {One, Two}}
    \cup {Attribute(t, NoAnswer, <<0, 2>> \o [i \in 1..18 |-> i]) : t \in {Mapped}}
    \cup {Attribute(XorMapped, NoAnswer, <<0, 1, 2, 3>>)}
    \cup {Attribute(32802, NoAnswer, [i \in 1..n |-> 1]) : n \in {0, 1, 3}}
Reply(header, attributes, length, body) ==
    [header |-> header, attributes |-> attributes, length |-> length, body |-> body]
Whole(attributes) ==
    LET bytes == Encode(attributes)
    IN  Reply("success", attributes, Len(bytes), bytes)
Messages ==
    {Whole(as) : as \in UpTo(3, Attributes)}
    \cup UNION {LET bytes == Encode(as) IN
                {Reply("success", as, n, bytes) : n \in 0..(Len(bytes) + 1)} :
                as \in UpTo(2, Attributes)}
    \cup {Reply(h, <<>>, 0, <<>>) :
          h \in {"short", "other type", "no cookie", "other transaction"}}
AMessage == Whole(<<Attribute(XorMapped, One, <<0, 1>> \o XorAll(One))>>)

(* Interfaces. *)
IP(family, scope, id) == [family |-> family, scope |-> scope, id |-> id]
IPs == {IP(4, "global", 1), IP(4, "CGNAT", 2), IP(4, "private", 3),
        IP(6, "global", 4), IP(6, "link-local", 5), IP(4, "reserved", 7)}
Interfaces ==
    {<<[up |-> u1, addresses |-> as], [up |-> u2, addresses |-> bs]>> :
        u1 \in BOOLEAN, u2 \in BOOLEAN, as \in UpTo(2, IPs),
        bs \in UpTo(1, IPs \cup {IP(4, "global", 6)})}

Settings ==
    {Off, On, [On EXCEPT !.enable = FALSE]}
    \cup {[On EXCEPT !.stun = s] : s \in {"", "host"}}
    \cup {[On EXCEPT !.keepAlive = s] : s \in {"", "host"}}
    \cup {[On EXCEPT !.durations = s] : s \in {"garbled", "negative"}}

Environment(h, r, m) == [host |-> h, routes |-> r, reply |-> m]
MCEnvironments ==
    {Environment(Host("UDP", Off, NoInterfaces, {}, Router), r, AMessage) : r \in Tables}
    \cup {Environment(Host("TCP", On, NoInterfaces, {"WANIPConnection2"}, Router),
                      ARoute, m) : m \in Messages}
    \cup {Environment(Host("UDP", Off, i, {}, Failed), ARoute, AMessage) : i \in Interfaces}
    \cup {Environment(Host(p, s, i, v, g), ARoute, AMessage) :
            p \in {"TCP", "UDP"}, s \in Settings,
            i \in {NoInterfaces, <<[up |-> TRUE, addresses |-> <<IP(4, "global", 1)>>]>>},
            v \in SUBSET Services, g \in {Router, Other}}
=============================================================================
