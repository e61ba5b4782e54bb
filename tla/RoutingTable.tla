---------------------------- MODULE RoutingTable ----------------------------
(***************************************************************************)
(* discoverGateway (gateway.go): the default gateway as the platform's     *)
(* routing table has it, read line by line, or else the .1 of the local    *)
(* subnet.  gateway_linux.go reads /proc/net/route, gateway_bsd.go what    *)
(* netstat prints, gateway_windows.go what route print does; every other   *)
(* platform has no table.  An address is a pair <<subnet, host>>; a line   *)
(* is what kind of line it is and what stands in its gateway column.       *)
(***************************************************************************)
EXTENDS Naturals, Sequences

VARIABLES
    routes,     \* the platform, its table, if readable, and the host's address
    line,       \* the next line to read
    section,    \* Windows: the heading "Active Routes:" has been read
    search,     \* "idle", "table", "fallback" or "done"
    gateway     \* what the search found; Failed if it found nothing

routeVars == <<routes, line, section, search, gateway>>

Unspecified == <<0, 0>>         \* 0.0.0.0
Garbled == <<"garbled">>        \* does not parse as an address
OnLink == <<"on-link">>         \* an interface instead of an address
Failed == <<"failed">>
NoIPv4 == <<"no IPv4">>         \* the host has no IPv4 address to go out from

SearchInit ==
    /\ line = 1 /\ section = FALSE /\ search = "idle" /\ gateway = Failed

Lines == routes.table
Row == Lines[line]

(* Linux goes by the destination alone, so that 0.0.0.0/1 (a VPN's half of *)
(* the address space) is a default route; Windows compares the mask too,   *)
(* netstat prints it.                                                      *)
IsDefault(l) ==
    l.kind \in {"default"} \cup (IF routes.platform = "linux" THEN {"half"} ELSE {})

IsAddress(g) == g \notin {Garbled, OnLink}

StartSearch ==
    /\ search = "idle"
    /\ search' =
         IF \/ routes.platform = "other" \/ ~routes.readable
            \/ (routes.platform = "linux" /\ Lines = << >>)
         THEN "fallback" ELSE "table"
    /\ line' = IF routes.platform = "linux" THEN 2 ELSE 1   \* its header
    /\ UNCHANGED <<routes, section, gateway>>

AtLine(platform) ==
    search = "table" /\ routes.platform = platform /\ line <= Len(Lines)

NextLine == line' = line + 1 /\ UNCHANGED <<routes, search, gateway>>
Found(g) ==
    /\ search' = "done" /\ gateway' = g
    /\ UNCHANGED <<routes, line, section>>
EndTable == search' = "fallback" /\ UNCHANGED <<routes, line, section, gateway>>

(* A default route that does not parse ends the search; 0.0.0.0 does not.  *)
LinuxLine ==
    /\ AtLine("linux")
    /\ \/ /\ IsDefault(Row) => Row.gateway = Unspecified
          /\ NextLine /\ UNCHANGED section
       \/ IsDefault(Row) /\ ~IsAddress(Row.gateway) /\ EndTable
       \/ /\ IsDefault(Row) /\ IsAddress(Row.gateway)
          /\ Row.gateway # Unspecified
          /\ Found(Row.gateway)

(* Interfaces and what does not parse are passed over. *)
BSDLine ==
    /\ AtLine("bsd")
    /\ IF IsDefault(Row) /\ IsAddress(Row.gateway)
       THEN Found(Row.gateway)
       ELSE NextLine /\ UNCHANGED section

(* Mistake: a rule below the active routes does not end the search. *)
WindowsLineOn ==
    /\ AtLine("windows")
    /\ \/ Row.kind = "heading" /\ section' = TRUE /\ NextLine
       \/ /\ Row.kind # "heading"
          /\ IF section /\ IsDefault(Row) /\ IsAddress(Row.gateway)
             THEN Found(Row.gateway)
             ELSE NextLine /\ UNCHANGED section

(* Only the lines from the heading to the next rule count: the persistent  *)
(* routes below it may be ones that are not in use.                        *)
WindowsLine ==
    /\ AtLine("windows")
    /\ \/ Row.kind = "heading" /\ section' = TRUE /\ NextLine
       \/ Row.kind = "rule" /\ section /\ EndTable
       \/ Row.kind = "rule" /\ ~section /\ NextLine /\ UNCHANGED section
       \/ /\ Row.kind \notin {"heading", "rule"}
          /\ IF section /\ IsDefault(Row) /\ IsAddress(Row.gateway)
             THEN Found(Row.gateway)
             ELSE NextLine /\ UNCHANGED section

TableEnds == search = "table" /\ line > Len(Lines) /\ EndTable

(* discoverGatewayFallback: the host's own address, as a UDP socket to an  *)
(* outside address has it, with 1 for its last number.                     *)
Fallback ==
    /\ search = "fallback"
    /\ search' = "done"
    /\ gateway' = IF routes.local = NoIPv4
                  THEN Failed ELSE <<routes.local[1], 1>>
    /\ UNCHANGED <<routes, line, section>>

Search ==
    StartSearch \/ LinuxLine \/ BSDLine \/ WindowsLine \/ TableEnds \/ Fallback

-----------------------------------------------------------------------------
(* What the search is for, said of the table as a whole. *)

(* The lines that list routes in use. *)
InUse ==
    LET headings == {i \in DOMAIN Lines : Lines[i].kind = "heading"}
        rules == {i \in DOMAIN Lines : /\ Lines[i].kind = "rule"
                                       /\ \E h \in headings : h < i}
    IN  {i \in DOMAIN Lines :
           /\ routes.readable /\ routes.platform # "other"
           /\ routes.platform = "linux" => i > 1
           /\ routes.platform = "windows" => /\ \E h \in headings : h < i
                                             /\ \A r \in rules : i < r}

Gateways ==
    {i \in InUse : /\ IsDefault(Lines[i]) /\ IsAddress(Lines[i].gateway)
                   /\ routes.platform = "linux" => Lines[i].gateway # Unspecified}

Unreadable ==
    {i \in InUse : /\ routes.platform = "linux" /\ IsDefault(Lines[i])
                   /\ ~IsAddress(Lines[i].gateway)}

(* The gateway is that of the first default route in use that names one,   *)
(* however many others, headings and sections stand around it.  It is      *)
(* guessed from the local address only when there is none, or when a line  *)
(* before it cannot be read.                                               *)
GatewayFound ==
    search = "done" =>
        \/ \E i \in Gateways : /\ gateway = Lines[i].gateway
                               /\ \A j \in Gateways \cup Unreadable : i <= j
        \/ /\ \/ Gateways = {}
              \/ \E u \in Unreadable : \A i \in Gateways : u < i
           /\ gateway = IF routes.local = NoIPv4 THEN Failed
                        ELSE <<routes.local[1], 1>>
=============================================================================
