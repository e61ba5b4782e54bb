----------------------------- MODULE STUNQuery -----------------------------
(***************************************************************************)
(* The answer of a STUN server, as queryMappedAddressWithLocalIP and       *)
(* parseSTUNMappedAddress (tcppunchmapper.go) read it: attributes of any   *)
(* length one after the other, each padded to a multiple of four bytes,    *)
(* one of which holds the endpoint the server saw, plain or XORed with the *)
(* protocol's cookie.  The header is what the checks make of it; the       *)
(* attributes are bytes.                                                   *)
(***************************************************************************)
EXTENDS Naturals, SequencesExt

VARIABLES
    reply,      \* what the server sends: header, length field, bytes
    query,      \* "idle", "parse" or "done"
    offset,     \* where in the bytes the next attribute starts
    answer      \* the endpoint found, or NoAnswer

queryVars == <<reply, query, offset, answer>>

NoAnswer == << >>
MaxLength == 2048       \* of a message queryMappedAddress accepts
Mapped == 1
XorMapped == 32
Cookie == <<33, 18, 164, 66>>
Mask == SubSeq(Cookie, 1, 2) \o Cookie     \* of a port and an address

QueryInit == query = "idle" /\ offset = 0 /\ answer = NoAnswer

Bit(n, k) == (n \div 2^k) % 2
Xor(a, b) == MapThenSumSet(LAMBDA k : 2^k * ((Bit(a, k) + Bit(b, k)) % 2), 0..7)
XorAll(bytes) == [i \in DOMAIN bytes |-> Xor(bytes[i], Mask[i])]

Uint16(at) == 256 * reply.body[at + 1] + reply.body[at + 2]

IsIPv4(value) == Len(value) >= 8 /\ value[2] = 1

(* parseSTUNAddressAttribute: two bytes of port and four of address. *)
Endpoint(type, value) ==
    LET bytes == SubSeq(value, 3, 8)
    IN  IF type = XorMapped THEN XorAll(bytes) ELSE bytes

Answer(a) == query' = "done" /\ answer' = a /\ UNCHANGED <<reply, offset>>

(* The length field is believed; fewer bytes before the connection ends or *)
(* the deadline passes are an error, and more are not read.                *)
Receive ==
    /\ query = "idle"
    /\ IF /\ reply.header = "success" /\ reply.length <= MaxLength
          /\ Len(reply.body) >= reply.length
       THEN query' = "parse" /\ UNCHANGED <<reply, offset, answer>>
       ELSE Answer(NoAnswer)

(* Mistake: attributes follow one another without padding. *)
Unpadded(n) == n

Padded(n) == 4 * ((n + 3) \div 4)

(* An attribute that runs over the end ends the parse; one without an IPv4 *)
(* endpoint is passed over.                                                *)
ParseAttribute ==
    /\ query = "parse" /\ offset + 4 <= reply.length
    /\ LET type == Uint16(offset)
           end == offset + 4 + Uint16(offset + 2)
           value == SubSeq(reply.body, offset + 5, end)
           found == type \in {Mapped, XorMapped} /\ IsIPv4(value)
       IN  \/ end > reply.length /\ Answer(NoAnswer)
           \/ end <= reply.length /\ found /\ Answer(Endpoint(type, value))
           \/ /\ end <= reply.length /\ ~found
              /\ offset' = Padded(end)
              /\ UNCHANGED <<reply, query, answer>>

Exhausted == query = "parse" /\ offset + 4 > reply.length /\ Answer(NoAnswer)

Query == Receive \/ ParseAttribute \/ Exhausted

-----------------------------------------------------------------------------
(* Seen from the server, which made the message out of attributes: a type, *)
(* a value of any length and the endpoint it says, if any.                 *)
Bytes == 0..255
MaxUint16 == 256 * 256 - 1

(* The server XORs the same way, and doing it twice changes nothing. *)
ASSUME XorAssumption ==
    \A n \in Bytes, i \in 1..6 : Xor(Xor(n, Mask[i]), Mask[i]) = n

IsAttribute(a) ==
    /\ a.type \in 0..MaxUint16
    /\ a.value \in Seq(Bytes) /\ Len(a.value) <= MaxUint16
    /\ IF a.type \in {Mapped, XorMapped} /\ IsIPv4(a.value)
       THEN /\ a.endpoint \in [1..6 -> Bytes]
            /\ SubSeq(a.value, 3, 8) =
                  IF a.type = Mapped THEN a.endpoint ELSE XorAll(a.endpoint)
       ELSE a.endpoint = NoAnswer

Header(a) ==
    LET length == Len(a.value)
    IN  <<a.type \div 256, a.type % 256, length \div 256, length % 256>>
Padding(n) == [i \in 1..((4 - (n % 4)) % 4) |-> 0]
Encoded(a) == Header(a) \o a.value \o Padding(Len(a.value))
Encode(attributes) == FlattenSeq([i \in DOMAIN attributes |-> Encoded(attributes[i])])

(* The parse answers with the endpoint of the first attribute that has     *)
(* one, whatever stands before it and however it is padded and coded.  It  *)
(* fails to only if the message was cut short or is longer than the code   *)
(* accepts, and then yields no other endpoint.                             *)
EndpointIsMapped ==
    LET with == {i \in DOMAIN reply.attributes :
                   reply.attributes[i].endpoint # NoAnswer}
        first == CHOOSE i \in with : \A j \in with : i <= j
        whole == reply.header = "success" /\ reply.length <= MaxLength
                 /\ reply.length = Len(reply.body)
    IN  query = "done" =>
            /\ answer # NoAnswer =>
                  with # {} /\ answer = reply.attributes[first].endpoint
            /\ whole /\ with # {} => answer # NoAnswer
=============================================================================
