--------------------------- MODULE PublicAddress ---------------------------
(***************************************************************************)
(* How a listener gets its mapper and its public address: the chains of    *)
(* portmapper.go (direct, UPnP, NAT-PMP; with TCP punch enabled, UPnP and  *)
(* NAT-PMP for the inner router and the punch for what is behind it), run  *)
(* by the mapping calls of utils.go in an environment that does not        *)
(* change, while the context may be cancelled and discoveries may miss     *)
(* what is there.  The gateway NAT-PMP asks comes from RoutingTable, the   *)
(* endpoint of a punch from STUNQuery.  MapPort's effect on the routers is *)
(* in ListenSetup and the TCPPunch modules.                                *)
(***************************************************************************)
EXTENDS RoutingTable, STUNQuery

CONSTANT Environments   \* what the host, its routers and its servers may be

(* "reserved" stands for the ranges that are neither routed on the Internet *)
(* nor known to the code: 192.0.0.0/24, which a 464XLAT client gives its    *)
(* own interface, 192.0.2.0/24 and the other documentation prefixes,        *)
(* 198.18.0.0/15, which tunnels like to use, 240.0.0.0/4, and their kin in  *)
(* IPv6.                                                                    *)
Addresses ==
    [family : {4, 6},
     scope : {"global", "reserved", "private", "loopback", "link-local",
              "multicast", "unspecified"}, id : Nat]
    \cup [family : {4}, scope : {"CGNAT", "broadcast"}, id : Nat]

(* Tables and lists are finite sequences, addresses have one scope each,   *)
(* and a STUN server encodes what it saw.                                  *)
ASSUME EnvironmentsAssumption ==
    \A e \in Environments :
        /\ e.routes.table \in Seq(Range(e.routes.table))
        /\ e.host.interfaces \in Seq(Range(e.host.interfaces))
        /\ \A i \in DOMAIN e.host.interfaces :
               e.host.interfaces[i].addresses \in Seq(Addresses)
        /\ e.reply.length \in Nat
        /\ e.reply.attributes \in Seq(Range(e.reply.attributes))
        /\ \A i \in DOMAIN e.reply.attributes : IsAttribute(e.reply.attributes[i])
        /\ e.reply.header = "success" => e.reply.body = Encode(e.reply.attributes)

VARIABLES
    host,       \* protocol, punch settings, interfaces, services, NAT-PMP
    cancelled,  \* the context is done
    trying,     \* the discovery or the step under way
    chain,      \* "standard", or "inner" when the punch is enabled
    mapper,     \* what the chain selected; "none" for a punch on its own
    missed,     \* history: discoveries that did not see what was there
    address     \* what GetExternalIP reported

choice == <<host, chain, mapper, missed, address>>
vars == <<host, cancelled, trying, chain, mapper, missed, address,
          routeVars, queryVars>>

-----------------------------------------------------------------------------
(* newTCPPunchMapperFromEnv: enabled, and everything it needs parses.      *)
Punch(settings) ==
    IF ~settings.enable THEN "disabled"
    ELSE IF settings.stun = "host:port" /\ settings.keepAlive = "host:port"
            /\ settings.durations # "garbled"
         THEN "enabled" ELSE "invalid"

(* isGloballyRoutableIP; 100.64.0.0/10 is the carriers' own. *)
IsGloballyRoutable(a) ==
    /\ a.scope \notin {"none", "private", "loopback", "link-local", "multicast",
                       "unspecified", "broadcast"}
    /\ ~(a.family = 4 /\ a.scope = "CGNAT")

NoIP == [family |-> 0, scope |-> "none", id |-> 0]

(* The addresses of the interfaces that are up. *)
AddressesUp(interfaces) ==
    FlattenSeq([i \in DOMAIN interfaces |->
                  IF interfaces[i].up THEN interfaces[i].addresses ELSE << >>])

(* The first address of each family is kept. *)
KeepFirst(best, a) ==
    IF ~IsGloballyRoutable(a) THEN best
    ELSE [best EXCEPT ![a.family] = IF @ = NoIP THEN a ELSE @]

(* detectDirectPublicIP: the first IPv4 address of an interface that is up *)
(* or else the first IPv6 address.                                         *)
PublicIP(interfaces) ==
    LET best == FoldLeft(KeepFirst, [family \in {4, 6} |-> NoIP],
                         AddressesUp(interfaces))
    IN  IF best[4] # NoIP THEN best[4] ELSE best[6]

-----------------------------------------------------------------------------
Services == {"WANIPConnection2", "WANIPConnection1", "WANPPPConnection1"}
Preference ==
    <<"direct", "WANIPConnection2", "WANIPConnection1", "WANPPPConnection1",
      "NAT-PMP">>
Following(m) == Preference[1 + CHOOSE i \in DOMAIN Preference : Preference[i] = m]
Ends == {"served", "failed"}

Init ==
    /\ \E e \in Environments :
          /\ host = e.host /\ routes = e.routes /\ reply = e.reply
    /\ SearchInit /\ QueryInit
    /\ cancelled = FALSE /\ trying = "start" /\ chain = "standard"
    /\ mapper = "none" /\ missed = {} /\ address = NoIP

Cancel ==
    /\ ~cancelled /\ trying \notin Ends
    /\ cancelled' = TRUE
    /\ UNCHANGED <<trying, choice, routeVars, queryVars>>

Goto(step) == trying' = step /\ UNCHANGED <<cancelled, routeVars, queryVars>>

(* UDP does not look at the settings; with ones that do not parse, TCP     *)
(* takes the standard chain, as if the punch were disabled.                *)
Start ==
    /\ trying = "start"
    /\ IF cancelled THEN Goto("failed") /\ UNCHANGED choice
       ELSE /\ IF host.protocol = "TCP" /\ Punch(host.punch) = "enabled"
               THEN chain' = "inner" /\ Goto("WANIPConnection2")
               ELSE chain' = "standard" /\ Goto("direct")
            /\ UNCHANGED <<host, mapper, missed, address>>

Choose(m) ==
    /\ mapper' = m /\ Goto("chosen")
    /\ UNCHANGED <<host, chain, missed, address>>

(* Without an inner mapper the punch is used on its own, whatever the      *)
(* reason.                                                                 *)
ChainFails ==
    /\ Goto(IF chain = "inner" THEN "chosen" ELSE "failed")
    /\ UNCHANGED <<host, chain, mapper, address>>

TryNext(m) ==
    IF cancelled THEN ChainFails
    ELSE Goto(Following(m)) /\ UNCHANGED <<host, chain, mapper, address>>

TryDirect ==
    /\ trying = "direct"
    /\ IF PublicIP(host.interfaces) # NoIP THEN Choose("direct")
       ELSE TryNext("direct") /\ UNCHANGED missed

Discovers(s) == trying = s /\ s \in host.services /\ Choose(s)

(* A search by multicast may miss what is there, and a cancelled one does. *)
DiscoversNothing(s) ==
    /\ trying = s
    /\ missed' = missed \cup ({s} \cap host.services)
    /\ TryNext(s)

GatewaySearch ==
    /\ trying = "NAT-PMP" /\ Search
    /\ UNCHANGED <<choice, cancelled, trying, queryVars>>

(* NewNATPMPMapper asks the gateway for its address, as a test.            *)
GatewayAnswers ==
    /\ trying = "NAT-PMP" /\ search = "done"
    /\ gateway = host.natpmp /\ gateway # Failed
    /\ Choose("NAT-PMP")

GatewaySilent ==
    /\ trying = "NAT-PMP" /\ search = "done"
    /\ missed' = IF gateway = host.natpmp /\ gateway # Failed
                 THEN missed \cup {"NAT-PMP"} ELSE missed
    /\ ChainFails

-----------------------------------------------------------------------------
(* createTCPMappingContext, createUDPMappingContext, and then the address. *)

(* Mistake: the context is not looked at after the selection. *)
MapPortAlways ==
    /\ trying = "chosen"
    /\ Goto(IF chain = "inner" THEN "query" ELSE "mapped")
    /\ UNCHANGED choice

MapPort ==
    /\ trying = "chosen"
    /\ Goto(IF cancelled THEN "failed"
            ELSE IF chain = "inner" THEN "query" ELSE "mapped")
    /\ UNCHANGED choice

MapPortFails ==
    /\ trying \in {"chosen", "query"}
    /\ Goto("failed") /\ UNCHANGED choice

PunchQuery ==
    /\ trying = "query" /\ Query
    /\ UNCHANGED <<choice, cancelled, trying, routeVars>>

Punched ==
    /\ trying = "query" /\ query = "done"
    /\ Goto(IF answer = NoAnswer THEN "failed" ELSE "mapped")
    /\ UNCHANGED choice

(* Mistake: the composite reports its inner router's address. *)
GetExternalIPInner ==
    /\ trying = "mapped"
    /\ address' = IF mapper = "direct" THEN PublicIP(host.interfaces) ELSE host.wan
    /\ Goto("served")
    /\ UNCHANGED <<host, chain, mapper, missed>>

(* The composite asks the punch.  A router's answer is taken as it is,     *)
(* even when it is an address of another network behind a NAT.             *)
GetExternalIP ==
    /\ trying = "mapped"
    /\ address' = CASE chain = "inner" -> SubSeq(answer, 3, 6)
                    [] mapper = "direct" -> PublicIP(host.interfaces)
                    [] OTHER -> host.wan
    /\ Goto("served")
    /\ UNCHANGED <<host, chain, mapper, missed>>

Next ==
    \/ Cancel \/ Start \/ TryDirect
    \/ \E s \in Services : Discovers(s) \/ DiscoversNothing(s)
    \/ GatewaySearch \/ GatewayAnswers \/ GatewaySilent
    \/ MapPort \/ MapPortFails \/ PunchQuery \/ Punched \/ GetExternalIP

Spec == Init /\ [][Next]_vars

-----------------------------------------------------------------------------
(* The addresses under which the host can be reached from the Internet, or *)
(* could be if its reserved range were one of the Internet's.              *)
Candidates(family) ==
    {a \in UNION {Range(host.interfaces[i].addresses) :
                    i \in {k \in DOMAIN host.interfaces : host.interfaces[k].up}} :
       a.family = family /\ a.scope \in {"global", "reserved"}}

(* What could have been used: it is there, and its discovery saw it.       *)
Answers(m) ==
    CASE m = "direct" -> chain = "standard" /\ Candidates(4) \cup Candidates(6) # {}
      [] m \in Services -> m \in host.services \ missed
      [] m = "NAT-PMP" -> /\ search = "done" /\ gateway = host.natpmp
                          /\ gateway # Failed /\ m \notin missed

Mapping == trying \in {"query", "mapped", "served"}

(* A port is asked of the most preferred mapper that answered, and of a    *)
(* punch without an inner router only if none did: a search that ended     *)
(* early, because the context was cancelled, never leads to a mapping.     *)
MostPreferred ==
    Mapping =>
        IF mapper = "none"
        THEN /\ chain = "inner" /\ search = "done"
             /\ \A i \in DOMAIN Preference : ~Answers(Preference[i])
        ELSE \E i \in DOMAIN Preference :
               /\ Preference[i] = mapper /\ Answers(mapper)
               /\ \A j \in 1..(i - 1) : ~Answers(Preference[j])

(* A direct listener reports an address of an interface that is up, an     *)
(* IPv4 one if there is any, and never one that only a network behind it   *)
(* can reach; one in front of a carrier's NAT is not mistaken for it.  It  *)
(* is reachable unless the host has an address of a reserved range: that   *)
(* one counts as public (direct_port_mapper.go:111).  A listener behind a  *)
(* punch reports the endpoint the STUN server saw from outside of all the  *)
(* NATs, not its own router's.                                             *)
ReportedIsOutermost ==
    trying = "served" =>
        /\ mapper = "direct" =>
              address \in IF Candidates(4) # {} THEN Candidates(4) ELSE Candidates(6)
        /\ chain = "inner" =>
              \E i \in DOMAIN reply.attributes :
                 /\ reply.attributes[i].endpoint # NoAnswer
                 /\ address = SubSeq(reply.attributes[i].endpoint, 3, 6)
=============================================================================
