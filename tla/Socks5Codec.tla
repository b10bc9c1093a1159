----------------------------- MODULE Socks5Codec -----------------------------
(***************************************************************************)
(* The SOCKS5 UDP codec of src/socks5_udp.go: parseSocks5HeaderFast, which *)
(* the relay loop applies to every datagram a client sends, and the bytes  *)
(* sendUDPResponseFast puts on the wire for every reply.                   *)
(*                                                                         *)
(* A datagram is a sequence of bytes (0..255); Go's 0-based data[i] is     *)
(* d[i+1].  An index or slice past the end is Panic, as in Go.  A net.IP   *)
(* is its 4- or 16-byte sequence.  IP.String() is modelled by what the    *)
(* text denotes, the family it is printed in and the bytes it prints;      *)
(* string(data[a:b]) of a domain name by the bytes it holds.               *)
(***************************************************************************)
EXTENDS Naturals, Sequences

CONSTANT Panic     \* the outcome of an out-of-range index: the goroutine panics

\* data[lo:hi].
Slice(d, lo, hi) == IF lo =< hi /\ hi =< Len(d) THEN SubSeq(d, lo + 1, hi) ELSE Panic

\* binary.BigEndian.Uint16 and PutUint16(uint16(p)).
BigEndianUint16(b) == IF b = Panic THEN Panic ELSE 256 * b[1] + b[2]
PutUint16(p) == << (p % 65536) \div 256, p % 256 >>

\* The 12-byte prefix of an IPv4 address in 16-byte form.
V4InV6Prefix == <<0, 0, 0, 0, 0, 0, 0, 0, 0, 0, 255, 255>>
\* net.IPv4(a, b, c, d): the 16-byte form.
IPv4(a, b, c, d) == V4InV6Prefix \o <<a, b, c, d>>
\* ip.To4(): the 4-byte form, or nil (<<>>) when ip is not IPv4.
To4(ip) ==
  CASE Len(ip) = 4 -> ip
    [] Len(ip) = 16 /\ SubSeq(ip, 1, 12) = V4InV6Prefix -> SubSeq(ip, 13, 16)
    [] OTHER -> <<>>
\* ip.String(): dotted quad whenever To4 is not nil, else IPv6 text.
IPString(ip) ==
  IF ip = Panic THEN Panic
  ELSE IF To4(ip) # <<>> THEN [fam |-> "ip4", addr |-> To4(ip)]
                         ELSE [fam |-> "ip6", addr |-> ip]
NameString(b) == IF b = Panic THEN Panic ELSE [fam |-> "name", addr |-> b]
NoHost == [fam |-> "none", addr |-> <<>>]     \* Go's zero string ""

Rejected == [ok |-> FALSE, host |-> NoHost, port |-> 0, headerLen |-> 0]
Parsed(host, port, len) ==
  IF host = Panic \/ port = Panic THEN Panic
  ELSE [ok |-> TRUE, host |-> host, port |-> port, headerLen |-> len]

\* Mutant: the domain branch without its length check.
ParseHeaderNoDomainCheck(d) ==
  IF Len(d) < 10 \/ d[1] # 0 \/ d[2] # 0 \/ d[3] # 0 THEN Rejected
  ELSE CASE d[4] = 1 ->
              Parsed(IPString(IPv4(d[5], d[6], d[7], d[8])),
                     BigEndianUint16(Slice(d, 8, 10)), 10)
         [] d[4] = 3 ->
              LET n == d[5]
              IN  Parsed(NameString(Slice(d, 5, 5 + n)),
                         BigEndianUint16(Slice(d, 5 + n, 5 + n + 2)), 7 + n)
         [] d[4] = 4 /\ Len(d) >= 22 ->
              Parsed(IPString(Slice(d, 4, 20)), BigEndianUint16(Slice(d, 20, 22)), 22)
         [] OTHER -> Rejected

\* parseSocks5HeaderFast: (host, port, headerLen, ok).
ParseHeader(d) ==
  IF Len(d) < 10 \/ d[1] # 0 \/ d[2] # 0 \/ d[3] # 0 THEN Rejected
  ELSE CASE d[4] = 1 ->
              Parsed(IPString(IPv4(d[5], d[6], d[7], d[8])),
                     BigEndianUint16(Slice(d, 8, 10)), 10)
         [] d[4] = 3 ->
              LET n == d[5]
              IN  IF Len(d) < 7 + n THEN Rejected
                  ELSE Parsed(NameString(Slice(d, 5, 5 + n)),
                              BigEndianUint16(Slice(d, 5 + n, 5 + n + 2)), 7 + n)
         [] d[4] = 4 /\ Len(d) >= 22 ->
              Parsed(IPString(Slice(d, 4, 20)), BigEndianUint16(Slice(d, 20, 22)), 22)
         [] OTHER -> Rejected

\* payload := data[headerLen:] (handleSocks5UDPPacketSync).
Payload(d, r) == Slice(d, r.headerLen, Len(d))

\* Mutant: the address family decided by the length of the IP.
ResponseByLength(ip, port, data) ==
  IF Len(ip) = 4 THEN <<0, 0, 0, 1>> \o ip \o PutUint16(port) \o data
                 ELSE <<0, 0, 0, 4>> \o ip \o PutUint16(port) \o data

\* The datagram sendUDPResponseFast writes: ATYP 1 and the 4-byte address
\* when the target IP has a 4-byte form, else ATYP 4 and its 16 bytes.
\* Whether the bytes go to a pooled or a fresh buffer does not change them.
Response(ip, port, data) ==
  IF To4(ip) # <<>> THEN <<0, 0, 0, 1>> \o To4(ip) \o PutUint16(port) \o data
                    ELSE <<0, 0, 0, 4>> \o ip \o PutUint16(port) \o data
==============================================================================
