--------------------------- MODULE MCListenSetup ---------------------------
(* Instances of ListenSetup for TLC: two fixed ports, one gateway.  The    *)
(* two callers are interchangeable and so are the two ports.               *)
EXTENDS ListenSetup

CONSTANTS c1, c2

(* The cases in which two callers meet: rivals for a port, one of which    *)
(* may fall back; two ports of one gateway; port 0 and a fixed one.        *)
OrderedInit ==
    /\ Init
    /\ <<request[c1], request[c2], fallback[c1], fallback[c2]>> \in
          {<<8080, 8080, FALSE, TRUE>>, <<8080, 9090, FALSE, TRUE>>,
           <<0, 8080, TRUE, FALSE>>}

(* Mappers that meet: at the gateway's tables, or else over the port only, *)
(* where one kind of rival is enough.  With port 0 all kinds but the direct *)
(* one fail alike.  One caller is cancelled, and only one that has a rival. *)
Meeting ==
    /\ \E group \in {Protocols, {"punch", "direct"}, {"composite", "direct"}} :
          \A c \in Callers : kind[c] \in group \cup {None}
    /\ \A c \in Callers : request[c] = 0 => kind[c] \in {"direct", "upnp", None}
    /\ request[c2] = 9090 => \A c \in Callers : kind[c] \in Protocols \cup {None}
    /\ \E c \in Callers : ~cancelled[c]
    /\ \A c \in Callers : ~cancelled[c] \/ request[c2] = 8080

OrderedSpec == OrderedInit /\ [][Next /\ Meeting']_vars /\ Fairness
=============================================================================
