# TLA+ models of wireproxy-awg

This directory models the stateful parts of wireproxy-awg:

- the SOCKS5 UDP relay in `src/socks5_udp.go`: its connection pool, DNS cache, creation goroutines, reader goroutines and janitor;
- the SOCKS5 UDP datagram codec in the same file;
- the AmneziaWG configuration compiler in `src/awg_config.go` with its IPC serialisation in `src/unnamed/part_000`.

Every action is translated from the Go source. `PROJECT.json` maps each definition to the lines it models.

## 1. Inventory

### Parts of the system and how they interact

| Part | Source | State | Operations |
|---|---|---|---|
| DNS cache | socks5_udp.go 12-73 | `cache map[string]*dnsCacheEntry`, `ttl`, RWMutex | `Resolve`: cached hit, or a lookup plus an insert (never evicted) |
| UDP connection pool | socks5_udp.go 86-222 | `connections`, `currentSize`, `maxSize`, `creationLock` (sync.Map), per-connection `lastUsed`, `readerDone` (chan of capacity 1) | `Get`, `Set` (evicts with `cleanupOldestLocked(5)` at `maxSize`), `Delete`, `Cleanup` / `cleanupOldLocked` |
| Buffer pools | socks5_udp.go 97-109 | `bufferPool`, `readerBufferPool` (sync.Pool) | `Get` / `Put` of 1500-byte buffers |
| Relay loop | socks5_udp.go 237-271, 310-339 | the receive buffer in use | read a datagram, `handleSocks5UDPPacketSync`, put the buffer back |
| Creation goroutine | socks5_udp.go 224-234, 335-338, 374-403 | key, payload slice, target | `resolveTarget` (IP literal, or `DNSCache.Resolve`), dial, `pool.Set`, start the reader, write the first payload, deferred release of the creation marker |
| Reader goroutine | socks5_udp.go 341-364 | its connection | poll `readerDone`; 50 ms `Read`; timeout → retry; other error → `pool.Delete(connKey)`; data → `lastUsed`, reply |
| Janitor | socks5_udp.go 251-258 | ticker | `pool.Cleanup(60s)` every 30 s |
| SOCKS5 codec | socks5_udp.go 273-308, 405-447 | none | `parseSocks5HeaderFast`, `sendUDPResponseFast` |
| Config compiler | awg_config.go 45-229 | `ASecConfigType` (values + `has*` flags) | `ParseASecConfig`: key lookups in a fixed order, each with its own parse error |
| Config validation | awg_config.go 231-392 | none | `ValidateASecConfig`, `parseMagicHeaderInterval`, `collectEffectiveHeaderIntervals`, `hasOverlappingHeaderIntervals`, `formatMagicHeaderInterval` |
| IPC request | part_000 26-131 | none | `CreateIPCRequest`: interface lines, AWG lines gated by `has*`, one block per peer with allowed-IP defaults |
| Config tests | socks5_udp.go 457-1129 | none | INI text through `ParseInterface`, then `ParseASecConfig`, `ValidateASecConfig` and `CreateIPCRequest`, with asserted results |
| Tunnel start-up | part_000 133-163 | the engine's tun and device | `StartWireguard`: `CreateIPCRequest`, `CreateNetTUN`, `NewDevice`, `IpcSet`, `Up`, each error an early return |

These parts interact as follows:

- The relay loop, every creation goroutine, every reader and the janitor share the pool.
- Each creation is keyed by the client address. Its `creationLock` marker is set with LoadOrStore by the loop and removed in three places:
  - the creation goroutine's `defer`;
  - `Delete`;
  - `cleanupOldLocked`.
- The payload the loop hands to a creation goroutine is a slice of the pooled receive buffer. The loop puts that buffer back as soon as the handler returns.
- Every creation goroutine whose target is a host name goes through the one `DNSCache`. Its check, lookup and store are three separate critical sections, so creations for different clients interleave inside `Resolve`.
- The codec sits at both ends of the relay: the loop parses every client datagram with `parseSocks5HeaderFast`, and every reader reply is framed by `sendUDPResponseFast`.
- The config compiler's output feeds `CreateIPCRequest`. Its headers must read back to the same intervals.
- `StartWireguard` builds the IPC request and hands it to the engine. `IpcSet` can fail part-way, and `StartWireguard` returns on each error without closing what it created.

### Hard behaviours (hazards)

Each hazard is listed in `PROJECT.json` at the line where it bites. The main ones:

- **Stale marker release.** A creation goroutine's deferred marker release races with `Delete` and `Cleanup`, and with a second creation for the same key (line 336).
- **Lookup, then claim.** `pool.Get` (line 322) and `creationLock.LoadOrStore` (line 329) are separate steps. A creator for the same client can `Set` and release its marker between them, and the datagram that missed then starts a second creation.
- **Teardown by key.** A reader's teardown deletes by key, so it can remove a newer association for the same client (line 357).
- **Overwrite in `Set`.** `Set` replaces an existing association without closing it (line 140). The replaced connection and its reader leak.
- **DNS check then act.** `Resolve` checks the TTL under `RLock`, looks up with no lock, and stores under `Lock` (lines 37-71).
- **Short datagrams.** The codec requires 10 bytes before it looks at ATYP (line 275), and trusts the domain length byte only after a buffer check (line 291).
- **Set before first write.** `Set` publishes the connection before the first payload is written (line 398).
- **Buffer aliasing.** The payload slice outlives its pooled buffer (line 316). The next datagram the loop reads, even one it then drops as unparseable, and a reader's reply (`sendUDPResponseFast` takes its buffer from the same `bufferPool`, line 415) can overwrite the bytes before the creator writes them.
- **Keying by client only.** An association is keyed by `clientAddr.String()` (line 319), so a client's datagram to a second target is written to the connection dialled for its first target.
- **Approximate eviction.** Eviction depends on map iteration order (line 204).
- **Data race on `lastUsed`.** Readers write `lastUsed` with no lock (line 360).
- **Validation order.** Validation rules run in order and the first failure wins. Defaults take part in header overlap but not in packet sizes. `N-N` is emitted as `N`.

## 2. Modules

| Module | Models | State / actions |
|---|---|---|
| `OldestEviction` | `cleanupOldestLocked`'s selection loop | Pure operators. `ScanStep` is one loop iteration. `SelectOldest` (RECURSIVE) runs the loop over one iteration order. `Victims` collects the result over every order Go's randomised map iteration can produce. `KOldest` is the reference definition. |
| `UdpConnectionPool` | the pool | Variables `connections` (key → conn id or `NoConn`), `currentSize`, `creationLock` (set of keys), `lastUsed`, `connState` (open/closed), `readerDone` (the one-slot channel as a boolean), `now`. `Get`, `Set`, `Delete` and `Cleanup` are each one atomic step, because each holds `p.mu`. `RemoveKeys` is the shared body of `Delete` and the removal loops: try-send on `readerDone`, `Close`, `delete`, decrement, marker release. |
| `Socks5UdpRelay` | relay loop, creation goroutines, readers, janitor | Extends the pool. `mainPc`/`mainBuf`: the loop after a pool hit, before its write (`MainWrite`), or after a miss, before `LoadOrStore` (`Claim`); the key it handles is the sender of the last datagram (`HandledKey`). `cpc`/`ckey`/`cbuf`/`ctarget`/`cip`: each creation goroutine, `resolve → (lookup → store →) dial → set → write → release`, with its target and the address `Resolve` returned. `cache`: the `DNSCache` map (module `DnsCache`, through `INSTANCE`). `rpc`: each reader, `poll → read`; a reply may take a pooled buffer (`ReplyBuffer`). `freeBufs`/`bufData`: `bufferPool` and the bytes in each buffer. `senders`/`delivered`: which datagram (numbered per client) each connection received. Connection ids stand for `*UDPConnection` objects; a creator is identified by the connection it will own. |
| `DnsCache` | `DNSCache.Resolve` | The operators of `Resolve`'s steps over the variables `cache` (host → `NoEntry` or `[ip, at]`) and `now`: `Fresh` (the TTL check), `LookupFails` (the two error returns), `SelectIP` (the first-IPv4 loop) and `Store`. The relay's creation goroutine runs them as three actions, `CreatorResolve`, `CreatorLookup` and `CreatorStore`. |
| `DnsResolve` | spec 4.1 (abstract) | `Resolve` as one atomic step per caller: `Hit` (only an entry younger than the TTL), `Miss` (the spec's selection, cached with the current time), `Fail`; `Tick`. |
| `Socks5Codec` | `parseSocks5HeaderFast`, `sendUDPResponseFast` | Operators over byte sequences. A Go index or slice past the end is the model value `Panic`. `IP.String()` is modelled by what the text denotes: the family it is printed in and the bytes. `MCSocks5Codec` has the variables `dgram`, `parsed` and `sent`, with two actions: `Receive` (parse a client datagram) and `Reply` (a reply the client decodes). |
| `AwgConfig` | compiler, validation, IPC | `section` is the `[Interface]` key/value input; `Compile` is `ParseASecConfig`, then `ValidateASecConfig`; `Emit` is `CreateIPCRequest`. Header text is abstracted to the shapes the parser distinguishes: empty, one number, `N-M`, a non-number, a number beyond u32, a missing side, three parts. |
| `TunnelStartup` | `StartWireguard` | Extends `AwgConfig`. `spc`: where `StartWireguard` is (`ipc → tun → ipcset → up → returned`, or `failed`). `dev`: the engine's tun, device, whether it is up, and the IPC lines it holds. `StartCompile` is the caller's `ParseConfig`, `StartIpc` is `Emit`, and `StartTun`, `StartIpcSet` and `StartUp` have a success and an error branch; a failed `IpcSet` leaves a prefix of the request applied. |
| `MC*` | instantiation | Constants, symmetry and input domains for TLC. `MCAwgConfig` also holds the fourteen AWG config tests as records (`AwgTest`): the `[Interface]` keys each test writes, whether it has a peer, the outcome it expects, and the fields and IPC lines it asserts. |

Abstractions:

- **Data.** Time is a small counter `now`, advanced by `Tick`, and `MaxAge` is measured in ticks. Byte strings are model values. Keys and private keys are indices.
- **DNS.** An IP is a record of its family and an identity. A lookup answer is one of the lists in `DnsAnswers`: an IPv6 address before two IPv4 addresses, so that first, first-IPv4 and last-IPv4 differ; or an error; or an empty list. The TTL is one tick, which makes the boundary `now - at = TTL` reachable.
- **Dial.** The dial either succeeds or fails; both failures take the same early return.
- **Parsing in the relay.** A datagram that fails `parseSocks5HeaderFast` is dropped after it has been read into a pooled buffer; the model keeps that overwrite where a pending payload aliases the buffer, since elsewhere the next read overwrites it unread. Which datagrams fail is checked in `Socks5Codec`.
- **Replies in the relay.** A reply's only effect on relay state is `lastUsed` and the pooled buffer it borrows; a buffer is recorded as holding reply bytes (0) only while a pending payload aliases it, for the same reason. The reply bytes are checked in `Socks5Codec`.
- **Codec inputs.** The inputs are every datagram of up to 26 bytes with the header bytes the parser branches on (RSV/FRAG zero or not, ATYP 1-4), and bodies whose bytes are distinct, so a wrong offset reads a wrong byte. The domain length byte is 0-3 or beyond the buffer.
- **Eviction count and capacity.** `cleanupOldestLocked(5)` with `maxSize` 1000 is scaled to `EvictCount` 1 with `MaxSize` 2. The loop behaves the same for any count below the pool size; `OldestEviction` checks count 2 over four keys.

## 3. Runs

| Run | Cfg | Expect | What it shows |
|---|---|---|---|
| relay_pool_safety | MCSocks5UdpRelay.cfg | pass | `PoolBounded`, `SizeNeverUndercounts` and `PooledConnsOpen` hold in every interleaving of 3 clients, 3 connections and one receive buffer, all sending to one host name. `DnsRefinement`: the interleaved DNS steps of the creators implement `DnsResolve!Spec` under the mapping `result[c]` = the address `c`'s `Resolve` returned. |
| relay_marker_liveness | MCSocks5UdpRelay_live.cfg | pass | `MarkerReleased`: every creation marker is eventually released: on the success path, after a lookup error or an empty answer, and after a dial error. |
| relay_set_overwrite | MCSocks5UdpRelay_PoolAccounts.cfg | violation | `PoolAccountsForConns`: a creator sets and releases its key between the loop's pool miss and its `LoadOrStore`, so a second creator for the same client starts, and both reach `Set`. The second overwrites the first, so `currentSize` exceeds the map and an open connection with a live reader is out of the pool's reach (finding 1). |
| relay_reorder | MCSocks5UdpRelay_InOrderDelivery.cfg | violation | With two receive buffers, a later datagram hits the pool after `Set` and reaches the tunnel before the creator writes the first one: datagram 2, then 1 (finding 2). |
| relay_payload_alias | MCSocks5UdpRelay_OwnClientPayload.cfg | violation | A creator writes bytes the loop received for a later datagram, or bytes of a reader's reply, instead of its own payload (finding 3). |
| relay_stale_teardown | MCSocks5UdpRelay_ReaderOwnTeardown.cfg | violation | A reader of a closed connection deletes a newer association (finding 4). |
| eviction_selection | MCOldestEviction.cfg | pass | For every `lastUsed` map over four keys and every iteration order, the loop selects exactly `count` keys, including a least recently used one. |
| eviction_fresh | MCOldestEviction_fresh.cfg | violation | Some order evicts a key fresher than one kept (finding 5). |
| awg_validate | MCAwgConfig_validate.cfg | pass | Over J and S values at every bound and over every header shape: the accept/reject decision and the first error message match spec 4.5, header overlap includes the defaults, and emitted headers parse back to the same interval. The IPC request has the AWG lines exactly for the present fields, in order, and peers get their allowed IPs or the two defaults. `TestsAgree`: the fourteen AWG tests of `src/socks5_udp.go` are replayed as inputs, and each gets the outcome, the parsed fields, the unset fields and the IPC lines it asserts. `EngineRunsAcceptedConfig`: `StartWireguard` returns a `VirtualTun` only for a device that is up and holds the whole request built from an accepted section, and no device is up after it failed. |
| awg_header_literal | MCAwgConfig_literal.cfg | violation | `5-5` is emitted as `5` (finding 6). |
| codec_layout | MCSocks5Codec.cfg | pass | `ParseWithinLayout`: the parser never slices past a datagram; what it accepts is well formed per spec 4.3, with the host, port and header length at their layout positions. `ReplyRoundTrip`: every reply decodes back to the IP, port and data, with ATYP 1 exactly when `To4()` is not nil. |
| codec_request_roundtrip | MCSocks5Codec_request.cfg | violation | An encoded 8-byte domain request (1-byte name, no payload) is rejected by the 10-byte minimum (finding 7). |

Every property of a passing run has a mutant in `PROJECT.json`: a plausible bug in the mapped code that makes TLC report the property violated.

### Bounds

The relay run uses 3 clients and a pool of 2. That is the smallest configuration in which both of these happen:

- an eviction happens while a creator and a reader of another key are active;
- a key is reused after cleanup.

All three clients name the same host, so their creators race inside `Resolve`. With `TTL` 1 and `MaxTime` 1, an entry expires and a hit at the TTL boundary is reachable. The violation runs send to an IP literal, so `resolveTarget`'s bypass is exercised; DNS does not take part in their questions. The liveness run sends to both a host name and a literal, so the lookup's error returns are among the paths it checks. The reorder run has two receive buffers, so the later datagram does not overwrite the first one's payload before the creator writes it.

It also uses 3 connection objects, so a key can be recreated twice (the stale-release race needs three creators for one key; the lookup-then-claim race needs two), and 3 datagrams. With `Tick` bounded by `MaxTime` 1, every entry can expire. It reaches about 3.7 million states in under three minutes; with 4 datagrams it does not finish in five.

The liveness run uses 2 clients and 2 datagrams: enough for a creation to be in flight while a second datagram of the same client finds the marker held, and for every error path of a creator.

`MaxU32` is scaled to 4095, because TLC's integers are 32-bit signed and cannot hold 2^32 - 1. Headers cover the defaults 1-4, the values the tests use, `MaxU32`, and `MaxU32 + 1`, the first value `ParseUint(_, 10, 32)` rejects.

Start-up runs after every accepted section of the awg_validate inputs, with each engine call free to fail, and a failed `IpcSet` free to stop after any line of the request.

The J and S domains in `MCAwgConfig` include each bound (0/1, 128/129, 1280/1281) and sums that collide.

### Fairness

The liveness run assumes weak fairness of the following, because each of them is a goroutine that, once runnable, is scheduled by the Go runtime:

- the loop's write and its `LoadOrStore` step;
- each creation goroutine step;
- the reader's poll.

The DNS steps (`CreatorResolve`, `CreatorLookup`, `CreatorStore`) are weakly fair too: `net.LookupIP` returns an answer or an error.

The reader's `Read` and the janitor are not fair: a read may block forever, and the janitor only runs when something has expired. `Tick` is bounded.

## 4. Refinement

`Socks5UdpRelay` instantiates `DnsResolve` with `Callers <- Conns` and `result <- DnsResult`. A creator's `Resolve` counts as returned once it is past the lookup and the store. The steps map as follows:

- a hit in `CreatorResolve` maps to `Hit`;
- `CreatorStore` maps to `Miss`;
- a failed `CreatorLookup` maps to `Fail`;
- the check that misses and a successful lookup are stuttering steps.

The abstract `Miss` is enabled whatever the cache holds, because the check and the store are separate critical sections. Spec 4.1 only promises that a returned entry is younger than the TTL and that a lookup's selection is what gets stored.

## 5. Not modelled

1. **Pool against a map-of-associations specification.** A refinement with `currentSize` mapped to the cardinality would fail exactly where finding 1 does. `PoolAccountsForConns` states the same disagreement directly.
2. **Reader replies as a data flow.** Which client a reply reaches is not modelled; the reply is abstracted to its `lastUsed` update and the pooled buffer it borrows. The bytes of a reply are checked in `Socks5Codec`.
3. **Reader shutdown as a liveness property.** A reader of a closed connection exits by two independent paths: the `readerDone` signal, and the `Read` that fails at once after `Close`. No single change of the code breaks such a property, so it would say nothing about the code.
4. **The data race on `lastUsed` (line 360).** Each write is atomic in the model; a torn time value is outside what TLC can enumerate usefully.
5. **INI parsing and the engine's internals.** `ParseInterface`/`ParseConfig` are not in this repository; the model starts from the parsed section. The engine (netstack, amneziawg-go) is modelled only by what `StartWireguard` observes of it. The device left open after a start-up error (part_000 line 147) is listed as a hazard without a property: spec 7 makes start-up errors fatal.
6. **Three test functions in `src/socks5_udp.go`.** `TestWireguardConfWithoutSubnet`, `...WithSubnet` and `...WithManyAddress` (lines 467-513, 873-894) check `Address` parsing, which is done by `ParseInterface` outside `src/`. The other fourteen are replayed by `TestsAgree`.
7. **Per-client keying (line 319).** The model gives each datagram one target per creation, so the second-target misrouting is visible only as a design choice: spec 4.4 keys associations by client address.
