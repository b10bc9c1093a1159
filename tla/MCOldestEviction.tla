-------------------------- MODULE MCOldestEviction --------------------------
(***************************************************************************)
(* Checks the victim selection of cleanupOldestLocked over every lastUsed  *)
(* assignment of a small pool and every map iteration order.  The only     *)
(* variable is the lastUsed time of each pooled key; a step is a           *)
(* UDPConnectionPool.Get or a reader refreshing one key to some time.      *)
(***************************************************************************)
EXTENDS Naturals, FiniteSets, OldestEviction

CONSTANTS Keys,      \* keys present in the pool when it is full
          Count,     \* the `count` argument (5 in Set, scaled down)
          MaxTime    \* lastUsed times range over 0..MaxTime

ASSUME Count \in 1..Cardinality(Keys)

VARIABLE lu

Times == 0..MaxTime

Init == lu \in [Keys -> Times]

Refresh(k, t) == lu' = [lu EXCEPT ![k] = t]

Next == \E k \in Keys, t \in Times : lu[k] # t /\ Refresh(k, t)

Spec == Init /\ [][Next]_lu

TypeOK == lu \in [Keys -> Times]

(* The pool makes room: whatever order Go iterates the map in, the code    *)
(* evicts exactly Count distinct keys when more than Count are pooled, so  *)
(* Set under capacity pressure always frees slots.                         *)
EvictsCount ==
  \A V \in Victims(Keys, Count, lu) : Cardinality(V) = Count

(* The least recently used connection is always among the victims: for    *)
(* every iteration order some key with the minimal lastUsed is evicted.    *)
LeastRecentEvicted ==
  \A V \in Victims(Keys, Count, lu) :
    \E v \in V : \A w \in Keys : lu[v] =< lu[w]

(* Spec 4.2: fresh entries are never evicted preferentially over old ones, *)
(* i.e. every victim set is one of the exact k-oldest sets.                *)
FreshNeverPreferred ==
  Victims(Keys, Count, lu) \subseteq KOldest(Keys, Count, lu)
=============================================================================
