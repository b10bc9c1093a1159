------------------------------ MODULE DnsCache ------------------------------
(***************************************************************************)
(* DNSCache of src/socks5_udp.go.  Resolve(host) is three steps of its     *)
(* calling goroutine, which the caller sequences (module Socks5UdpRelay):  *)
(*  1. under RLock, return the entry if it exists and is younger than ttl; *)
(*  2. without any lock, net.LookupIP(host) and pick an address;           *)
(*  3. under Lock, store the address with timestamp time.Now().            *)
(* Another goroutine may run between the steps.  `cache` maps a host to    *)
(* NoEntry or [ip, at]; `now` is the clock the pool shares.                *)
(*                                                                         *)
(* An IP is a record [fam |-> "ip4" or "ip6", id]: To4() != nil is fam =   *)
(* "ip4".  A lookup answer is the list net.LookupIP returns, or LookupErr. *)
(***************************************************************************)
EXTENDS Naturals, Sequences

CONSTANTS Hosts,       \* host names clients may send to
          Answers,     \* the address lists a lookup may return
          LookupErr,   \* net.LookupIP returned an error
          NoEntry,     \* no cache entry for the host
          TTL          \* d.ttl (5 s) in clock ticks

VARIABLES cache, now

\* Mutant: the TTL boundary included.
FreshAtTTL(h) == cache[h] # NoEntry /\ now - cache[h].at =< TTL

\* The entry is present and time.Since(entry.timestamp) < d.ttl.
Fresh(h) == cache[h] # NoEntry /\ now - cache[h].at < TTL

\* The lookup outcomes Resolve returns an error for: the error itself and
\* an empty list.
LookupFails(ans) == ans = LookupErr \/ ans = <<>>

\* The first address whose To4() is not nil, else ips[0].
SelectIP(ips) ==
  LET v4 == {i \in 1..Len(ips) : ips[i].fam = "ip4"}
  IN  IF v4 = {} THEN ips[1]
      ELSE ips[CHOOSE i \in v4 : \A j \in v4 : i =< j]

\* d.cache[host] = &cacheEntry{ip, time.Now()}.
Store(h, ip) == cache' = [cache EXCEPT ![h] = [ip |-> ip, at |-> now]]
==============================================================================
