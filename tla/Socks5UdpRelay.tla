--------------------------- MODULE Socks5UdpRelay ---------------------------
(***************************************************************************)
(* The SOCKS5 UDP relay of src/socks5_udp.go, composed with the            *)
(* connection pool.  Processes:                                            *)
(*  - the receive loop (StartSocks5UDPServer + handleSocks5UDPPacketSync), *)
(*    one goroutine, two steps: receive and dispatch, then the             *)
(*    synchronous write of a pool hit (the pool lock is released between   *)
(*    Get and the write);                                                  *)
(*  - one creation goroutine per connection attempt                        *)
(*    (createUDPConnectionAsync and its deferred creationLock.Delete),     *)
(*    indexed by the connection it would create;                           *)
(*  - one reader goroutine per created connection (startUDPReader), which  *)
(*    polls readerDone and then blocks in Read;                            *)
(*  - the janitor (Cleanup every 30 s) and the clock.                      *)
(* Datagrams are numbered 1, 2, ... in receive order; `senders[n]` is the  *)
(* client of datagram n and `delivered[c]` the datagrams written to the    *)
(* tunnel connection c.  Buffers of bufferPool are the set Bufs;           *)
(* `bufData[b]` is the datagram whose bytes buffer b holds.                *)
(* A creation goroutine first resolves its target (resolveTarget): an IP  *)
(* literal needs nothing, a host name goes through the pool's DNSCache    *)
(* (module DnsCache), whose steps other goroutines may interleave with.   *)
(* `ctarget[c]` is the target host, `cip[c]` the address DNSCache         *)
(* returned to c (NoResult before, Failed on an error).                   *)
(***************************************************************************)
EXTENDS UdpConnectionPool, Sequences

CONSTANTS Bufs,          \* buffers bufferPool hands out
          NoBuf,         \* the receive loop holds no buffer
          MaxAge,        \* Cleanup's maxAge (60 s) in clock ticks
          MaxTime,       \* bound on the clock
          MaxDatagrams,  \* bound on datagrams received
          Hosts, Answers, LookupErr, NoEntry, TTL,   \* of DnsCache
          Literal,       \* a target given as an IP literal
          Targets,       \* the targets clients send to: Literal or hosts
          NoResult, Failed

ASSUME NoBuf \notin Bufs /\ Targets \subseteq Hosts \cup {Literal}

VARIABLES mainPc, mainConn, mainBuf, freeBufs, bufData, senders,
          cpc, ckey, cbuf, rpc, delivered, cache, ctarget, cip

relayVars == <<mainPc, mainConn, mainBuf, freeBufs, bufData, senders,
               cpc, ckey, cbuf, rpc, delivered, cache, ctarget, cip>>
vars == <<poolVars, now, relayVars>>

Dns == INSTANCE DnsCache

\* The addresses a lookup answer may hold.
IPs == UNION {{ans[i] : i \in 1..Len(ans)} : ans \in Answers \ {LookupErr}}

TypeOK ==
  /\ connections \in [Keys -> Conns \cup {NoConn}]
  /\ currentSize \in Nat
  /\ creationLock \subseteq Keys
  /\ lastUsed \in [Conns -> 0..MaxTime]
  /\ connState \in [Conns -> {"none", "open", "closed"}]
  /\ readerDone \in [Conns -> BOOLEAN]
  /\ now \in 0..MaxTime
  /\ mainPc \in {"recv", "claim", "write"}
  /\ mainConn \in Conns \cup {NoConn}
  /\ mainBuf \in Bufs \cup {NoBuf}
  /\ freeBufs \subseteq Bufs
  /\ bufData \in [Bufs -> 0..MaxDatagrams]
  /\ senders \in Seq(Keys) /\ Len(senders) =< MaxDatagrams
  /\ cpc \in [Conns -> {"idle", "resolve", "lookup", "store", "dial", "set",
                        "write", "release", "done"}]
  /\ cache \in [Hosts -> {NoEntry} \cup [ip : IPs, at : 0..MaxTime]]
  /\ ctarget \in [Conns -> Targets]
  /\ cip \in [Conns -> IPs \cup {NoResult, Failed}]
  /\ ckey \in [Conns -> Keys]
  /\ cbuf \in [Conns -> Bufs]
  /\ rpc \in [Conns -> {"none", "poll", "read", "exited"}]
  /\ \A c \in Conns : \A i \in 1..Len(delivered[c]) :
        delivered[c][i] \in 0..MaxDatagrams

Init ==
  /\ connections  = [k \in Keys |-> NoConn]
  /\ currentSize  = 0
  /\ creationLock = {}
  /\ lastUsed     = [c \in Conns |-> 0]
  /\ connState    = [c \in Conns |-> "none"]
  /\ readerDone   = [c \in Conns |-> FALSE]
  /\ now          = 0
  /\ mainPc       = "recv"
  /\ mainConn     = NoConn
  /\ mainBuf      = NoBuf
  /\ freeBufs     = Bufs
  /\ bufData      = [b \in Bufs |-> 0]
  /\ senders      = <<>>
  /\ cpc          = [c \in Conns |-> "idle"]
  /\ ckey         = [c \in Conns |-> CHOOSE k \in Keys : TRUE]
  /\ cbuf         = [c \in Conns |-> CHOOSE b \in Bufs : TRUE]
  /\ rpc          = [c \in Conns |-> "none"]
  /\ delivered    = [c \in Conns |-> <<>>]
  /\ cache        = [h \in Hosts |-> NoEntry]
  /\ ctarget      = [c \in Conns |-> CHOOSE t \in Targets : TRUE]
  /\ cip          = [c \in Conns |-> NoResult]

\* processUDPRequestSync: conn.Write under writeMutex; the error of a
\* write to a closed connection is ignored.
WriteTo(c, n) ==
  delivered' = IF connState[c] = "open"
               THEN [delivered EXCEPT ![c] = Append(@, n)]
               ELSE delivered

\* The creation goroutine a new key is handed to: the next unused one.
NextCreator == CHOOSE c \in Conns : cpc[c] = "idle" /\
                 \A d \in Conns : cpc[d] = "idle" => c =< d

\* The buffers holding a creation goroutine's payload that it has not yet
\* written to its connection.
PendingPayloads ==
  {cbuf[c] : c \in {d \in Conns :
     cpc[d] \in {"resolve", "lookup", "store", "dial", "set", "write"}}}

(***************************************************************************)
(* Receive loop: bufferPool.Get, ReadFromUDP from client k into buffer b,  *)
(* then handleSocks5UDPPacketSync.  A datagram parseSocks5HeaderFast       *)
(* rejects (module Socks5Codec says which) is dropped and b Put back; it   *)
(* has still overwritten b.  A bad header is taken only into a buffer a    *)
(* pending payload aliases: in any other buffer it changes nothing but the *)
(* numbering, which no property reads.  Then pool.Get(connKey): on a hit   *)
(* the write is the next step, on a miss the LoadOrStore (Claim) is.       *)
(***************************************************************************)
Receive ==
  /\ mainPc = "recv"
  /\ Len(senders) < MaxDatagrams
  /\ \E k \in Keys, b \in freeBufs :
       LET n == Len(senders) + 1 IN
       /\ senders' = Append(senders, k)
       /\ bufData' = [bufData EXCEPT ![b] = n]
       /\ \/ /\ Get(k)
             /\ mainPc' = "write"
             /\ mainConn' = connections[k]
             /\ mainBuf' = b
             /\ freeBufs' = freeBufs \ {b}
             /\ UNCHANGED <<cpc, ckey, cbuf, ctarget>>
             /\ UNCHANGED <<connections, currentSize, creationLock,
                            connState, readerDone>>
          \/ /\ b \in PendingPayloads   \* !ok: a bad header
             /\ UNCHANGED <<mainPc, mainConn, mainBuf, freeBufs, cpc, ckey,
                            cbuf, ctarget, poolVars>>
          \/ /\ connections[k] = NoConn                 \* Get misses
             /\ mainPc' = "claim"
             /\ mainBuf' = b
             /\ freeBufs' = freeBufs \ {b}
             /\ UNCHANGED <<mainConn, cpc, ckey, cbuf, ctarget, poolVars>>
  /\ UNCHANGED <<now, rpc, delivered, cache, cip>>

\* The client whose datagram the loop is handling: the last one received.
HandledKey == senders[Len(senders)]

(***************************************************************************)
(* After the miss, a separate step: creationLock.LoadOrStore(connKey).  A  *)
(* creator's Set or deferred release may fall between the two.  If the     *)
(* marker is loaded the datagram is dropped; otherwise a creation          *)
(* goroutine is started with `payload`, a slice of the buffer.  Either way *)
(* the handler returns and the loop Puts the buffer back.                  *)
(***************************************************************************)
Claim ==
  /\ mainPc = "claim"
  /\ LET k == HandledKey IN
     \/ /\ k \in creationLock
        /\ UNCHANGED <<cpc, ckey, cbuf, ctarget, creationLock>>
     \/ /\ k \notin creationLock
        /\ \E c \in Conns : cpc[c] = "idle"
        /\ creationLock' = creationLock \cup {k}
        /\ cpc'  = [cpc  EXCEPT ![NextCreator] = "resolve"]
        /\ ckey' = [ckey EXCEPT ![NextCreator] = k]
        /\ cbuf' = [cbuf EXCEPT ![NextCreator] = mainBuf]
        /\ \E t \in Targets : ctarget' = [ctarget EXCEPT ![NextCreator] = t]
  /\ freeBufs' = freeBufs \cup {mainBuf}
  /\ mainPc' = "recv"
  /\ mainBuf' = NoBuf
  /\ UNCHANGED <<connections, currentSize, lastUsed, connState, readerDone,
                 now, mainConn, bufData, senders, rpc, delivered, cache, cip>>

\* The synchronous write of a hit, then bufferPool.Put(buf).
MainWrite ==
  /\ mainPc = "write"
  /\ WriteTo(mainConn, bufData[mainBuf])
  /\ freeBufs' = freeBufs \cup {mainBuf}
  /\ mainPc' = "recv"
  /\ mainConn' = NoConn
  /\ mainBuf' = NoBuf
  /\ UNCHANGED <<poolVars, now, bufData, senders, cpc, ckey, cbuf, rpc,
                 cache, ctarget, cip>>

\* Fault variant of CreatorDial: an error path that returns without
\* releasing the creation marker.
CreatorDialNoRelease(c) ==
  /\ cpc[c] = "dial"
  /\ \/ /\ connState' = [connState EXCEPT ![c] = "open"]
        /\ lastUsed' = [lastUsed EXCEPT ![c] = now]
        /\ cpc' = [cpc EXCEPT ![c] = "set"]
     \/ /\ cpc' = [cpc EXCEPT ![c] = "done"]
        /\ UNCHANGED <<connState, lastUsed>>
  /\ UNCHANGED <<connections, currentSize, creationLock, readerDone, now>>
  /\ UNCHANGED <<mainPc, mainConn, mainBuf, freeBufs, bufData, senders,
                 ckey, cbuf, cache, ctarget, cip, rpc, delivered>>

(***************************************************************************)
(* createUDPConnectionAsync begins with resolveTarget.  net.ParseIP of an  *)
(* IP literal succeeds and the goroutine dials it; a host name goes to     *)
(* DNSCache.Resolve, whose first step, under RLock, returns a fresh entry. *)
(* Otherwise the lookup runs with no lock held; an error or an empty       *)
(* answer returns into the deferred creationLock.Delete, an address is     *)
(* selected and then stored under Lock with the time of the store.        *)
(***************************************************************************)
CreatorResolve(c) ==
  /\ cpc[c] = "resolve"
  /\ LET h == ctarget[c] IN
     \/ /\ h = Literal
        /\ cpc' = [cpc EXCEPT ![c] = "dial"]
        /\ UNCHANGED cip
     \/ /\ h # Literal /\ Dns!Fresh(h)
        /\ cip' = [cip EXCEPT ![c] = cache[h].ip]
        /\ cpc' = [cpc EXCEPT ![c] = "dial"]
     \/ /\ h # Literal /\ ~Dns!Fresh(h)
        /\ cpc' = [cpc EXCEPT ![c] = "lookup"]
        /\ UNCHANGED cip
  /\ UNCHANGED <<poolVars, now, mainPc, mainConn, mainBuf, freeBufs, bufData,
                 senders, ckey, cbuf, rpc, delivered, cache, ctarget>>

\* net.LookupIP(host), then the first-IPv4 selection.
CreatorLookup(c) ==
  /\ cpc[c] = "lookup"
  /\ \E ans \in Answers :
       IF Dns!LookupFails(ans)
       THEN /\ cip' = [cip EXCEPT ![c] = Failed]
            /\ cpc' = [cpc EXCEPT ![c] = "release"]
       ELSE /\ cip' = [cip EXCEPT ![c] = Dns!SelectIP(ans)]
            /\ cpc' = [cpc EXCEPT ![c] = "store"]
  /\ UNCHANGED <<poolVars, now, mainPc, mainConn, mainBuf, freeBufs, bufData,
                 senders, ckey, cbuf, rpc, delivered, cache, ctarget>>

\* d.cache[host] = &cacheEntry{ip, time.Now()} under d.mu.Lock.
CreatorStore(c) ==
  /\ cpc[c] = "store"
  /\ Dns!Store(ctarget[c], cip[c])
  /\ cpc' = [cpc EXCEPT ![c] = "dial"]
  /\ UNCHANGED <<poolVars, now, mainPc, mainConn, mainBuf, freeBufs, bufData,
                 senders, ckey, cbuf, rpc, delivered, ctarget, cip>>

(***************************************************************************)
(* vt.Tnet.Dial either succeeds (the tunnel connection is open) or fails,  *)
(* and the goroutine returns into its deferred creationLock.Delete.        *)
(***************************************************************************)
CreatorDial(c) ==
  /\ cpc[c] = "dial"
  /\ \/ /\ connState' = [connState EXCEPT ![c] = "open"]
        /\ lastUsed' = [lastUsed EXCEPT ![c] = now]
        /\ cpc' = [cpc EXCEPT ![c] = "set"]
     \/ /\ cpc' = [cpc EXCEPT ![c] = "release"]
        /\ UNCHANGED <<connState, lastUsed>>
  /\ UNCHANGED <<connections, currentSize, creationLock, readerDone, now>>
  /\ UNCHANGED <<mainPc, mainConn, mainBuf, freeBufs, bufData, senders,
                 ckey, cbuf, cache, ctarget, cip, rpc, delivered>>

\* pool.Set(connKey, conn); go startUDPReader(...)
CreatorSet(c) ==
  /\ cpc[c] = "set"
  /\ Set(ckey[c], c)
  /\ rpc' = [rpc EXCEPT ![c] = "poll"]
  /\ cpc' = [cpc EXCEPT ![c] = "write"]
  /\ UNCHANGED <<now, mainPc, mainConn, mainBuf, freeBufs, bufData, senders,
                 ckey, cbuf, cache, ctarget, cip, delivered>>

\* processUDPRequestSync(conn, payload): payload aliases buffer cbuf[c].
CreatorWrite(c) ==
  /\ cpc[c] = "write"
  /\ WriteTo(c, bufData[cbuf[c]])
  /\ cpc' = [cpc EXCEPT ![c] = "release"]
  /\ UNCHANGED <<poolVars, now, mainPc, mainConn, mainBuf, freeBufs, bufData,
                 senders, ckey, cbuf, cache, ctarget, cip, rpc>>

\* defer pool.creationLock.Delete(connKey)
CreatorRelease(c) ==
  /\ cpc[c] = "release"
  /\ creationLock' = creationLock \ {ckey[c]}
  /\ cpc' = [cpc EXCEPT ![c] = "done"]
  /\ UNCHANGED <<connections, currentSize, lastUsed, connState, readerDone,
                 now>>
  /\ UNCHANGED <<mainPc, mainConn, mainBuf, freeBufs, bufData, senders,
                 ckey, cbuf, cache, ctarget, cip, rpc, delivered>>

(***************************************************************************)
(* startUDPReader.  The select takes the readerDone value if one is        *)
(* buffered and returns; otherwise the reader blocks in Read (50 ms        *)
(* deadline).  Read on a closed connection fails with an error that is not *)
(* a timeout; an open one times out, delivers a reply (lastUsed = now,     *)
(* sendUDPResponseFast) or fails.  Any error calls pool.Delete(connKey).   *)
(***************************************************************************)
ReaderPoll(c) ==
  /\ rpc[c] = "poll"
  /\ IF readerDone[c]
     THEN /\ readerDone' = [readerDone EXCEPT ![c] = FALSE]
          /\ rpc' = [rpc EXCEPT ![c] = "exited"]
     ELSE /\ rpc' = [rpc EXCEPT ![c] = "read"]
          /\ UNCHANGED readerDone
  /\ UNCHANGED <<connections, currentSize, creationLock, lastUsed, connState,
                 now>>
  /\ UNCHANGED <<mainPc, mainConn, mainBuf, freeBufs, bufData, senders,
                 cpc, ckey, cbuf, cache, ctarget, cip, delivered>>

\* Fault variant of ReadFails: the reader closes its connection and exits
\* without pool.Delete.
ReadFailsCloseOnly(c) ==
  /\ connState' = [connState EXCEPT ![c] = "closed"]
  /\ rpc' = [rpc EXCEPT ![c] = "exited"]
  /\ UNCHANGED <<connections, currentSize, creationLock, lastUsed,
                 readerDone>>

ReadFails(c) ==
  /\ Delete(ckey[c])
  /\ rpc' = [rpc EXCEPT ![c] = "exited"]

\* sendUDPResponseFast takes its buffer from bufferPool, the pool the main
\* loop reads into, writes the reply header and data into it and Puts it
\* back: a pooled buffer now holds reply bytes (0).  When the pool is empty
\* sync.Pool allocates a new buffer, and a reply too long for the buffer
\* goes to a temporary one; neither touches a pooled buffer.  Only a pooled
\* buffer a creation goroutine's payload still aliases is recorded: any
\* other is overwritten by the main loop's next ReadFromUDP before it is read.
ReplyBuffer ==
  \/ \E b \in freeBufs \cap PendingPayloads :
       bufData' = [bufData EXCEPT ![b] = 0]
  \/ UNCHANGED bufData

\* One pass of startUDPReader's loop after its readerDone check: Read with
\* a 50 ms deadline; a timeout loops, another error deletes connKey and
\* exits; data updates lastUsed and is sent back to the client.
ReaderRead(c) ==
  /\ rpc[c] = "read"
  /\ \/ /\ connState[c] = "closed"
        /\ ReadFails(c)
        /\ UNCHANGED bufData
     \/ /\ connState[c] = "open"
        /\ \/ /\ rpc' = [rpc EXCEPT ![c] = "poll"]
              /\ UNCHANGED <<poolVars, bufData>>
           \/ /\ lastUsed' = [lastUsed EXCEPT ![c] = now]
              /\ rpc' = [rpc EXCEPT ![c] = "poll"]
              /\ ReplyBuffer
              /\ UNCHANGED <<connections, currentSize, creationLock,
                             connState, readerDone>>
           \/ /\ ReadFails(c)
              /\ UNCHANGED bufData
  /\ UNCHANGED <<now, mainPc, mainConn, mainBuf, freeBufs, senders,
                 cpc, ckey, cbuf, cache, ctarget, cip, delivered>>

\* The janitor: pool.Cleanup(60 s); a pass that finds nothing changes nothing.
Janitor ==
  /\ Expired(MaxAge) # {}
  /\ Cleanup(MaxAge)
  /\ UNCHANGED <<now, relayVars>>

Tick ==
  /\ now < MaxTime
  /\ now' = now + 1
  /\ UNCHANGED <<poolVars, relayVars>>

Next ==
  \/ Receive
  \/ MainWrite
  \/ Claim
  \/ \E c \in Conns :
       \/ CreatorResolve(c) \/ CreatorLookup(c) \/ CreatorStore(c)
       \/ CreatorDial(c) \/ CreatorSet(c) \/ CreatorWrite(c)
       \/ CreatorRelease(c)
       \/ ReaderPoll(c) \/ ReaderRead(c)
  \/ Janitor
  \/ Tick

(***************************************************************************)
(* Goroutines are scheduled by the Go runtime and every step of a creation *)
(* goroutine returns (Dial and DNS lookups end in success or an error), so *)
(* each goroutine step is weakly fair.  Clients, the janitor's timing and  *)
(* the clock are the environment and are not.                              *)
(***************************************************************************)
Fairness ==
  /\ WF_vars(MainWrite) /\ WF_vars(Claim)
  /\ \A c \in Conns : /\ WF_vars(CreatorResolve(c)) /\ WF_vars(CreatorLookup(c))
                      /\ WF_vars(CreatorStore(c))
                      /\ WF_vars(CreatorDial(c)) /\ WF_vars(CreatorSet(c))
                      /\ WF_vars(CreatorWrite(c)) /\ WF_vars(CreatorRelease(c))
                      /\ WF_vars(ReaderPoll(c))

Spec == Init /\ [][Next]_vars /\ Fairness

-----------------------------------------------------------------------------
(* Properties *)

(* Capacity: the pool never holds more than maxSize associations.  Set    *)
(* evicts with cleanupOldestLocked once currentSize reaches maxSize, even  *)
(* when entries were overwritten or torn down by readers in between.       *)
PoolBounded == Cardinality(PooledKeys) =< MaxSize

(* currentSize never undercounts the map: Delete, cleanupOldLocked and     *)
(* cleanupOldestLocked only decrement for a key still present, although a  *)
(* reader calls Delete for a key the janitor or an eviction already        *)
(* removed.                                                                *)
SizeNeverUndercounts == currentSize >= Cardinality(PooledKeys)

(* Spec 3: every key present has a live handle: no association stays in   *)
(* the pool after its tunnel connection was closed.                        *)
PooledConnsOpen == \A k \in PooledKeys : connState[connections[k]] = "open"

(* Spec 7/9: a creation marker is always released again (on success after *)
(* the first write, on a resolve or dial error, or by Delete), so a client *)
(* is never locked out of getting an association.                         *)
MarkerReleased == \A k \in Keys : k \in creationLock ~> k \notin creationLock

(* Spec 3: the pool accounts for exactly the tunnel connections that are  *)
(* open: currentSize equals the map's cardinality, and every open          *)
(* connection is in the map unless its creator has not reached Set yet,   *)
(* so Delete or Cleanup can still close it and stop its reader.  Set      *)
(* assigns connections[key] and increments currentSize whether or not     *)
(* the key already held a connection.                                      *)
PoolAccountsForConns ==
  /\ currentSize = Cardinality(PooledKeys)
  /\ \A c \in Conns : connState[c] = "open" =>
        c \in {connections[k] : k \in PooledKeys} \/ cpc[c] = "set"

(* Spec 5: datagrams from one client reach the tunnel in receive order: no *)
(* datagram is written after one the loop received later.  Bytes of a      *)
(* reply (0) and a payload overwritten by a later datagram, which only     *)
(* repeats a later number, are OwnClientPayload's concern, not order's.    *)
InOrderDelivery ==
  \A c \in Conns : \A i, j \in 1..Len(delivered[c]) :
     (i < j /\ delivered[c][i] # 0 /\ delivered[c][j] # 0)
        => delivered[c][i] =< delivered[c][j]

(* Every datagram written on an association's tunnel connection was sent   *)
(* by that association's client (the creation goroutine's payload is the   *)
(* datagram that triggered it), never reply bytes (0).                     *)
OwnClientPayload ==
  \A c \in Conns : \A i \in 1..Len(delivered[c]) :
     delivered[c][i] \in DOMAIN senders /\ senders[delivered[c][i]] = ckey[c]

(* Spec 7: a tunnel read error tears down the offending association: the  *)
(* step in which a reader exits after a failed Read removes no association *)
(* other than its own.                                                     *)
ReaderOwnTeardown ==
  [][\A c \in Conns :
       (rpc[c] = "read" /\ rpc'[c] = "exited") =>
         \A k \in Keys : connections'[k] # connections[k] =>
                          connections[k] = c]_vars

(* The DNS cache as its callers see it.  A caller's Resolve has returned   *)
(* once it is past the lookup and the store; the address it returned is   *)
(* cip.                                                                   *)
DnsResult == [c \in Conns |-> IF cpc[c] = "store" THEN NoResult ELSE cip[c]]

DnsAbs == INSTANCE DnsResolve WITH Callers <- Conns, result <- DnsResult

(* Spec 4.1: although creation goroutines interleave their cache checks,   *)
(* lookups and stores, every Resolve behaves as one atomic call: a hit    *)
(* returns only an entry younger than the TTL, a successful lookup returns *)
(* and caches, stamped with the time of the store, the first IPv4 address *)
(* of the answer (else its first address), and a failure changes nothing. *)
DnsRefinement == DnsAbs!Spec
=============================================================================
