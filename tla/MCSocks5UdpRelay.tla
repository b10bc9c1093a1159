-------------------------- MODULE MCSocks5UdpRelay --------------------------
(* Model values and bounds for checking Socks5UdpRelay with TLC.           *)
EXTENDS Socks5UdpRelay, TLC

KeySymmetry == Permutations(Keys)

(* One answer net.LookupIP may give: an IPv6 address before two IPv4      *)
(* addresses, so that the selection loop's first IPv4 address differs    *)
(* from both the first and the last address; and the two failures.       *)
DnsAnswers ==
  {LookupErr, <<>>,
   <<[fam |-> "ip6", id |-> 1], [fam |-> "ip4", id |-> 2],
     [fam |-> "ip4", id |-> 3]>>}
=============================================================================
