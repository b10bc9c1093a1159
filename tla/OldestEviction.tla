--------------------------- MODULE OldestEviction ---------------------------
(***************************************************************************)
(* The victim selection of UDPConnectionPool.cleanupOldestLocked           *)
(* (src/socks5_udp.go).  The code ranges over the Go map `connections`,    *)
(* whose iteration order is unspecified, keeping a buffer `oldest` of at   *)
(* most `count` keys: while the buffer is short the key is appended,       *)
(* otherwise the key replaces the FIRST buffered key whose connection was  *)
(* used strictly later than its own, and the inner loop breaks.            *)
(*                                                                         *)
(* lu is the lastUsed time of each key's connection.                       *)
(***************************************************************************)
EXTENDS Naturals, Sequences, FiniteSets

LOCAL SeqX == INSTANCE SequencesExt

\* Fault variant of FirstNewer: After instead of Before.
FirstOlder(oldest, key, lu) ==
  LET older == {i \in 1..Len(oldest) : lu[oldest[i]] < lu[key]}
  IN  IF older = {} THEN 0
      ELSE CHOOSE i \in older : \A j \in older : i =< j

\* Index of the first buffered key used strictly later than `key`
\* (conn.lastUsed.Before(p.connections[oldKey].lastUsed)), 0 if none.
FirstNewer(oldest, key, lu) ==
  LET newer == {i \in 1..Len(oldest) : lu[key] < lu[oldest[i]]}
  IN  IF newer = {} THEN 0
      ELSE CHOOSE i \in newer : \A j \in newer : i =< j

\* Fault variant of ScanStep: the inner loop without its break.
ScanStepNoBreak(oldest, key, count, lu) ==
  IF Len(oldest) < count THEN Append(oldest, key)
  ELSE [i \in 1..Len(oldest) |->
          IF lu[key] < lu[oldest[i]] THEN key ELSE oldest[i]]

\* One iteration of the selection loop for `key`.
ScanStep(oldest, key, count, lu) ==
  IF Len(oldest) < count THEN Append(oldest, key)
  ELSE LET i == FirstNewer(oldest, key, lu)
       IN  IF i = 0 THEN oldest ELSE [oldest EXCEPT ![i] = key]

\* The whole loop over the map in iteration order `order`.
RECURSIVE SelectOldest(_, _, _, _)
SelectOldest(order, oldest, count, lu) ==
  IF order = <<>> THEN oldest
  ELSE SelectOldest(Tail(order), ScanStep(oldest, Head(order), count, lu),
                    count, lu)

\* Every set of keys the code may evict from `keys`, over all iteration
\* orders Go may choose for the map.
Victims(keys, count, lu) ==
  { SeqX!ToSet(SelectOldest(order, <<>>, count, lu)) :
      order \in SeqX!SetToSeqs(keys) }

\* Reference definition: the exact k-oldest sets, i.e. sets of
\* min(count, |keys|) keys none of which was used later than a kept key.
KOldest(keys, count, lu) ==
  { S \in SUBSET keys :
      /\ Cardinality(S) = IF count < Cardinality(keys) THEN count
                          ELSE Cardinality(keys)
      /\ \A v \in S, w \in keys \ S : lu[v] =< lu[w] }
=============================================================================
