---------------------------- MODULE MCSocks5Codec ----------------------------
(***************************************************************************)
(* The codec against the datagram layout of spec 4.3.  A client sends a    *)
(* datagram, which the relay loop parses (Receive); the relay answers a    *)
(* client with sendUDPResponseFast, which the client decodes with the      *)
(* same layout (Reply).  The inputs are every datagram of up to MaxLen     *)
(* bytes built from the bytes the parser branches on.                      *)
(***************************************************************************)
EXTENDS Socks5Codec

CONSTANTS MaxLen,     \* longest datagram enumerated
          MaxName     \* longest domain name enumerated

VARIABLES dgram,      \* the datagram on the wire
          parsed,     \* what parseSocks5HeaderFast made of it
          sent        \* for a reply: the ip, port and data the relay sent

vars == <<dgram, parsed, sent>>

(* The layout of spec 4.3: RSV 00 00, FRAG 00, ATYP, DST.ADDR, DST.PORT,   *)
(* payload; IPv4 4 bytes, domain a length byte and that many bytes, IPv6   *)
(* 16 bytes.                                                               *)
AddrLen(d) == CASE d[4] = 1 -> 4 [] d[4] = 4 -> 16 [] d[4] = 3 -> 1 + d[5]
LayoutOk(d) ==
  /\ Len(d) >= 4 /\ d[1] = 0 /\ d[2] = 0 /\ d[3] = 0
  /\ d[4] \in {1, 3, 4}
  /\ d[4] = 3 => Len(d) >= 5
  /\ 4 + AddrLen(d) + 2 =< Len(d)
LayoutHeaderLen(d) == 4 + AddrLen(d) + 2
LayoutAddr(d) == SubSeq(d, IF d[4] = 3 THEN 6 ELSE 5, 4 + AddrLen(d))
LayoutPort(d) == 256 * d[4 + AddrLen(d) + 1] + d[4 + AddrLen(d) + 2]
\* The datagram of spec 4.3 for an address family, address, port, payload.
Encode(atyp, addr, port, data) ==
  <<0, 0, 0, atyp>> \o (IF atyp = 3 THEN <<Len(addr)>> ELSE <<>>) \o addr
    \o <<port \div 256, port % 256>> \o data

(* Inputs.  After the header bytes, byte i of a body is 100 + i, so a      *)
(* wrong offset reads a different byte; a mapped body starts with the      *)
(* IPv4-in-IPv6 prefix.                                                    *)
Prefixes == {<<0, 0, 0>>, <<1, 0, 0>>, <<0, 1, 0>>, <<0, 0, 1>>}
Bodies(n) ==
  {[i \in 1..n |-> IF i = 1 THEN b ELSE 100 + i] : b \in {0, 1, 2, 3, MaxName + 9}}
  \cup {SubSeq(V4InV6Prefix \o [i \in 1..n |-> 150 + i], 1, n)}
Datagrams ==
  UNION {{p \o <<a>> \o body : body \in Bodies(n)} :
         p \in Prefixes, a \in {1, 2, 3, 4}, n \in 0..(MaxLen - 4)}
Names == UNION {[1..n -> {97, 46}] : n \in 1..MaxName}
Ports == {0, 1, 443, 65535}
Payloads == {<<>>, <<7>>, <<7, 8>>}
IPs == {<<1, 2, 3, 4>>, IPv4(1, 2, 3, 4), [i \in 1..16 |-> i], <<>> \o V4InV6Prefix \o <<0, 0, 0, 0>>}
Requests ==
  {Encode(1, a, p, x) : a \in {<<1, 2, 3, 4>>}, p \in Ports, x \in Payloads}
  \cup {Encode(4, a, p, x) : a \in {[i \in 1..16 |-> i], IPv4(9, 8, 7, 6)}, p \in Ports, x \in Payloads}
  \cup {Encode(3, a, p, x) : a \in Names, p \in Ports, x \in Payloads}

NoSend == [ip |-> <<>>, port |-> 0, data |-> <<>>]

Init == dgram = <<>> /\ parsed = Rejected /\ sent = NoSend

\* A client's datagram reaches handleSocks5UDPPacketSync.
Receive(d) ==
  /\ dgram' = d
  /\ parsed' = ParseHeader(d)
  /\ sent' = NoSend

\* A reader relays data from ip:port; the client decodes the reply.
Reply(ip, port, data) ==
  /\ dgram' = Response(ip, port, data)
  /\ parsed' = ParseHeader(Response(ip, port, data))
  /\ sent' = [ip |-> ip, port |-> port, data |-> data]

Next ==
  \/ \E d \in Datagrams : Receive(d)
  \/ \E ip \in IPs, p \in Ports, x \in Payloads : Reply(ip, p, x)

Spec == Init /\ [][Next]_vars

-----------------------------------------------------------------------------
IsReply == sent # NoSend

(* parseSocks5HeaderFast never indexes past the datagram, and whatever it *)
(* accepts is a well-formed datagram of spec 4.3 whose host, port and      *)
(* header length are the ones the layout puts there: the domain length    *)
(* byte is bounded by the buffer before the name is sliced.               *)
ParseWithinLayout ==
  /\ parsed # Panic
  /\ parsed.ok =>
       /\ LayoutOk(dgram)
       /\ parsed.headerLen = LayoutHeaderLen(dgram)
       /\ parsed.port = LayoutPort(dgram)
       /\ parsed.host = IF dgram[4] = 3 THEN NameString(LayoutAddr(dgram))
                        ELSE IPString(LayoutAddr(dgram))

(* Spec 4.3, response format: the reply a reader sends decodes to the      *)
(* resolved IP, the target port and the data; its ATYP is 01 exactly when  *)
(* the resolved IP is IPv4 (also in 16-byte form), else 04.               *)
ReplyRoundTrip ==
  IsReply =>
    /\ parsed # Panic /\ parsed.ok
    /\ parsed.host = IPString(sent.ip)
    /\ parsed.port = sent.port
    /\ Payload(dgram, parsed) = sent.data
    /\ dgram[4] = IF To4(sent.ip) # <<>> THEN 1 ELSE 4

(* Spec 8, codec round trip: for each ATYP, decoding an encoded request    *)
(* restores host, port and payload.                                       *)
RequestRoundTrip ==
  (~IsReply /\ dgram \in Requests) =>
    /\ parsed # Panic /\ parsed.ok
    /\ parsed.port = LayoutPort(dgram)
    /\ Payload(dgram, parsed) = SubSeq(dgram, LayoutHeaderLen(dgram) + 1, Len(dgram))

\* The request-encoding run sends encoded requests only.
RequestNext == \E d \in Requests : Receive(d)
RequestSpec == Init /\ [][RequestNext]_vars
==============================================================================
