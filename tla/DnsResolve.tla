----------------------------- MODULE DnsResolve -----------------------------
(***************************************************************************)
(* What the DNS cache promises (spec 4.1), each call of Resolve one atomic *)
(* step of its caller: it returns a cached address younger than the TTL,  *)
(* or the address a lookup selects (the first IPv4 address of the answer, *)
(* else its first address), which it then caches stamped with the current *)
(* time, or it fails and leaves the cache as it was.  `result[c]` is what  *)
(* caller c's call returned, NoResult before it returns.                  *)
(***************************************************************************)
EXTENDS Naturals, Sequences

CONSTANTS Callers, Hosts, Answers, LookupErr, NoEntry, TTL,
          NoResult,    \* the call has not returned
          Failed       \* the call returned an error

VARIABLES cache, now, result

vars == <<cache, now, result>>

\* The address spec 4.1 selects from a non-empty lookup answer.
FirstIPv4OrFirst(ips) ==
  IF \E i \in 1..Len(ips) : ips[i].fam = "ip4"
  THEN ips[CHOOSE i \in 1..Len(ips) :
              ips[i].fam = "ip4" /\ \A j \in 1..(i - 1) : ips[j].fam # "ip4"]
  ELSE ips[1]

Selectable == {FirstIPv4OrFirst(ips) : ips \in Answers \ {LookupErr, <<>>}}

Init ==
  /\ cache = [h \in Hosts |-> NoEntry]
  /\ now = 0
  /\ result = [c \in Callers |-> NoResult]

\* A hit: only an entry inserted less than TTL ago is returned.
Hit(c, h) ==
  /\ result[c] = NoResult
  /\ cache[h] # NoEntry /\ now - cache[h].at < TTL
  /\ result' = [result EXCEPT ![c] = cache[h].ip]
  /\ UNCHANGED <<cache, now>>

\* A lookup that succeeds: its selection is returned and cached, stamped now.
Miss(c, h) ==
  /\ result[c] = NoResult
  /\ \E ip \in Selectable :
       /\ result' = [result EXCEPT ![c] = ip]
       /\ cache' = [cache EXCEPT ![h] = [ip |-> ip, at |-> now]]
  /\ UNCHANGED now

\* A lookup that fails leaves the cache alone.
Fail(c, h) ==
  /\ result[c] = NoResult
  /\ result' = [result EXCEPT ![c] = Failed]
  /\ UNCHANGED <<cache, now>>

Tick == now' = now + 1 /\ UNCHANGED <<cache, result>>

Next ==
  \/ \E c \in Callers, h \in Hosts : Hit(c, h) \/ Miss(c, h) \/ Fail(c, h)
  \/ Tick

Spec == Init /\ [][Next]_vars
==============================================================================
