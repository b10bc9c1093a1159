-------------------------- MODULE UdpConnectionPool --------------------------
(***************************************************************************)
(* UDPConnectionPool of src/socks5_udp.go.  Every operation runs under     *)
(* p.mu, so each one is a single atomic step of the calling goroutine; the *)
(* callers (the receive loop, creation goroutines, readers, the janitor)   *)
(* are the processes of module Socks5UdpRelay, which composes this one.    *)
(*                                                                         *)
(* A connection (UDPConnection and its tunnel-side net.Conn) is an element *)
(* of Conns.  The pool map `connections` is a function from client keys    *)
(* to a connection or NoConn; `creationLock` is the sync.Map of keys being *)
(* created; `readerDone` is the one-slot channel of each connection        *)
(* (TRUE = a value is buffered); `connState` is the state of the tunnel    *)
(* connection: "none" before Dial, "open", "closed" after Close.  Time is  *)
(* the integer `now`; only comparisons of ages matter.                     *)
(***************************************************************************)
EXTENDS Naturals, FiniteSets

CONSTANTS Keys,        \* client endpoints, connKey = clientAddr.String()
          Conns,       \* connections the model may create
          NoConn,      \* absent map entry
          MaxSize,     \* maxSize (1000 in StartSocks5UDPServer, scaled down)
          EvictCount   \* the count passed to cleanupOldestLocked (5, scaled)

ASSUME NoConn \notin Conns
ASSUME MaxSize > EvictCount /\ EvictCount >= 1

VARIABLES connections, currentSize, creationLock, lastUsed, connState,
          readerDone, now

poolVars == <<connections, currentSize, creationLock, lastUsed, connState,
              readerDone>>

Ev == INSTANCE OldestEviction

PooledKeys == {k \in Keys : connections[k] # NoConn}

\* The connections held by the pool under the keys S.
ConnsOf(S) == {connections[k] : k \in S \cap PooledKeys}

(***************************************************************************)
(* The shutdown that Delete, cleanupOldLocked and cleanupOldestLocked all  *)
(* apply to a pooled key: non-blocking send on readerDone (dropped when    *)
(* the slot is full), conn.Close(), delete from the map, currentSize--,    *)
(* and creationLock.Delete(key).  These are the next values for a set S.   *)
(***************************************************************************)
Signalled(S) == [c \in Conns |-> readerDone[c] \/ c \in ConnsOf(S)]
ClosedAfter(S) == [c \in Conns |-> IF c \in ConnsOf(S) THEN "closed"
                                                       ELSE connState[c]]
MapWithout(S) == [k \in Keys |-> IF k \in S THEN NoConn ELSE connections[k]]

RemoveKeys(S) ==
  /\ readerDone'   = Signalled(S)
  /\ connState'    = ClosedAfter(S)
  /\ connections'  = MapWithout(S)
  /\ currentSize'  = currentSize - Cardinality(S \cap PooledKeys)
  /\ creationLock' = creationLock \ S

\* Get: on a hit, refresh lastUsed (the caller checks the hit).
Get(k) ==
  /\ connections[k] # NoConn
  /\ lastUsed' = [lastUsed EXCEPT ![connections[k]] = now]

\* Fault variant of Delete: decrements currentSize even when the key is
\* no longer in the map (the `exists` check dropped).
DeleteUnguarded(k) ==
  /\ readerDone'   = Signalled({k})
  /\ connState'    = ClosedAfter({k})
  /\ connections'  = MapWithout({k})
  /\ currentSize'  = currentSize - 1
  /\ creationLock' = creationLock \ {k}
  /\ UNCHANGED lastUsed

\* Delete(key): shut the pooled connection down if there is one; the
\* creation flag is removed either way.
Delete(k) ==
  /\ RemoveKeys({k})
  /\ UNCHANGED lastUsed

\* cleanupOldLocked(maxAge): every entry idle for longer than maxAge.
Expired(maxAge) == {k \in PooledKeys : now - lastUsed[connections[k]] > maxAge}

Cleanup(maxAge) ==
  /\ RemoveKeys(Expired(maxAge))
  /\ UNCHANGED lastUsed

(***************************************************************************)
(* The key sets cleanupOldestLocked(count) may evict: none when            *)
(* currentSize <= count, else a victim set of the selection loop for some  *)
(* iteration order of the map.                                             *)
(***************************************************************************)
OldestVictims(count) ==
  IF currentSize =< count THEN {{}}
  ELSE Ev!Victims(PooledKeys, count,
                  [k \in PooledKeys |-> lastUsed[connections[k]]])

\* Fault variant of Set: evicts only when currentSize > maxSize.
SetEvictAbove(k, c) ==
  \E victims \in IF currentSize > MaxSize THEN OldestVictims(EvictCount)
                                          ELSE {{}} :
    /\ readerDone'   = Signalled(victims)
    /\ connState'    = ClosedAfter(victims)
    /\ connections'  = [MapWithout(victims) EXCEPT ![k] = c]
    /\ currentSize'  = currentSize - Cardinality(victims) + 1
    /\ creationLock' = creationLock \ victims
    /\ lastUsed'     = [lastUsed EXCEPT ![c] = now]

(***************************************************************************)
(* Set(key, conn): when currentSize >= maxSize evict with                  *)
(* cleanupOldestLocked(5) first; then lastUsed = now, store (overwriting   *)
(* any entry for key) and currentSize++.                                   *)
(***************************************************************************)
Set(k, c) ==
  \E victims \in IF currentSize >= MaxSize THEN OldestVictims(EvictCount)
                                           ELSE {{}} :
    /\ readerDone'   = Signalled(victims)
    /\ connState'    = ClosedAfter(victims)
    /\ connections'  = [MapWithout(victims) EXCEPT ![k] = c]
    /\ currentSize'  = currentSize - Cardinality(victims) + 1
    /\ creationLock' = creationLock \ victims
    /\ lastUsed'     = [lastUsed EXCEPT ![c] = now]
=============================================================================
