------------------------------ MODULE AwgConfig ------------------------------
(***************************************************************************)
(* The AmneziaWG configuration compiler: ParseASecConfig,                  *)
(* ValidateASecConfig and the header-interval helpers of                   *)
(* src/awg_config.go, and CreateIPCRequest of src/unnamed/part_000.        *)
(*                                                                         *)
(* A run starts from one [Interface] section (the raw value of every key,  *)
(* Absent when the key is missing) and a peer list; `Compile` is           *)
(* ParseASecConfig, `Emit` is CreateIPCRequest, which StartWireguard only  *)
(* reaches when parsing succeeded.                                         *)
(*                                                                         *)
(* Data abstraction: an integer key's raw text is the integer it denotes   *)
(* or NotANumber; a magic header's raw text is the list of its "-"         *)
(* separated parts after TrimSpace (<<>> for the empty string), each part  *)
(* a natural number or EmptyPart or NotANumber; an I key's text is opaque. *)
(* An IPC line is <<key, value>>; a formatted interval is <<N>> or         *)
(* <<N, M>>, the parts a reader splitting "N-M" at "-" gets back.          *)
(***************************************************************************)
EXTENDS Integers, Sequences, FiniteSets, TLC

CONSTANTS Inputs,      \* records [keys |-> D, peers |-> P]: D[key] the raw
                       \* values a key may have, P the peer lists
          MaxU32,      \* the largest uint32, 2^32-1 (scaled down)
          Absent, NotANumber, EmptyPart

IntKeys == <<"Jc", "Jmin", "Jmax", "S1", "S2", "S3", "S4">>
HKeys   == <<"H1", "H2", "H3", "H4">>
IKeys   == <<"I1", "I2", "I3", "I4", "I5">>
\* The order in which ParseASecConfig looks the keys up.
ParseOrder == IntKeys \o HKeys \o IKeys
AllKeys == {ParseOrder[i] : i \in 1..Len(ParseOrder)}

\* The IPC key of each field (CreateIPCRequest).
IpcName == [k \in AllKeys |->
  CASE k = "Jc" -> "jc" [] k = "Jmin" -> "jmin" [] k = "Jmax" -> "jmax"
    [] k = "S1" -> "s1" [] k = "S2" -> "s2" [] k = "S3" -> "s3"
    [] k = "S4" -> "s4" [] k = "H1" -> "h1" [] k = "H2" -> "h2"
    [] k = "H3" -> "h3" [] k = "H4" -> "h4" [] k = "I1" -> "i1"
    [] k = "I2" -> "i2" [] k = "I3" -> "i3" [] k = "I4" -> "i4"
    [] k = "I5" -> "i5"]

ErrParse     == "strconv parse error"
ErrJc        == "value of the Jc field must be within the range of 1 to 128"
ErrJminJmax  == "value of the Jmin field must be less than or equal to Jmax field value"
ErrJmax      == "value of the Jmax field must be less than or equal 1280"
ErrSizeShort == "S1 + 148 must not equal S2 + 92"
ErrSizeLong  == "S1 + 148 must not equal S2 + 92 + S3 + 64 + S4 + 32"
ErrHEmpty    == "empty magic header value"
ErrHFormat   == "invalid magic header range format"
ErrHRange    == "invalid magic header range: lower bound cannot exceed upper bound"
ErrHUnique   == "values of the H1-H4 fields must be unique"
OK == "ok"

VARIABLES section,   \* the [Interface] section: key -> raw value
          listenPort,\* whether ListenPort is set
          peers,     \* the [Peer] sections
          pc,        \* "parse", "emit", "done"
          outcome,   \* OK or the error ParseASecConfig returned
          aSec,      \* the ASecConfigType: present field -> value
          ipc        \* the IPC request, a sequence of <<key, value>>

vars == <<section, listenPort, peers, pc, outcome, aSec, ipc>>

IsNumber(p) == p \notin {EmptyPart, NotANumber}
\* Fault variant of IsU32: ParseUint with bit size 64 instead of 32.
IsU64(p) == IsNumber(p)

IsU32(p) == IsNumber(p) /\ p =< MaxU32

(***************************************************************************)
(* parseMagicHeaderInterval: <<min, max>> or an error.                    *)
(***************************************************************************)
ParseHeader(raw) ==
  LET Fail(e) == [ok |-> FALSE, err |-> e, iv |-> <<0, 0>>]
      Ok(lo, hi) == [ok |-> TRUE, err |-> OK, iv |-> <<lo, hi>>]
  IN  IF raw = <<>> THEN Fail(ErrHEmpty)
      ELSE IF Len(raw) > 2 \/ raw[1] = EmptyPart THEN Fail(ErrHFormat)
      ELSE IF ~IsU32(raw[1]) THEN Fail(ErrParse)
      ELSE IF Len(raw) = 1 THEN Ok(raw[1], raw[1])
      ELSE IF raw[2] = EmptyPart THEN Fail(ErrHFormat)
      ELSE IF ~IsU32(raw[2]) THEN Fail(ErrParse)
      ELSE IF raw[1] > raw[2] THEN Fail(ErrHRange)
      ELSE Ok(raw[1], raw[2])

\* Fault variant of FormatHeader: the upper bound is dropped.
FormatHeaderMinOnly(iv) == <<iv[1]>>

\* formatMagicHeaderInterval
FormatHeader(iv) == IF iv[1] = iv[2] THEN <<iv[1]>> ELSE iv

IsHKey(k) == k \in {HKeys[i] : i \in 1..4}
IsIntKey(k) == k \in {IntKeys[i] : i \in 1..7}

\* The error, if any, of reading key k (sectionKey.Int() or the header parse;
\* I keys are taken verbatim).
KeyError(k) ==
  IF IsIntKey(k) /\ section[k] = NotANumber THEN ErrParse
  ELSE IF IsHKey(k) THEN ParseHeader(section[k]).err
  ELSE OK

Present == {k \in AllKeys : section[k] # Absent}

\* The fields ParseASecConfig stores; an empty domain is the nil config.
Parsed == [k \in Present |-> IF IsHKey(k) THEN ParseHeader(section[k]).iv
                                          ELSE section[k]]

\* The first key, in lookup order, whose value fails to parse.
ParseError ==
  LET bad == {i \in 1..Len(ParseOrder) :
                ParseOrder[i] \in Present /\ KeyError(ParseOrder[i]) # OK}
  IN  IF bad = {} THEN OK
      ELSE KeyError(ParseOrder[CHOOSE i \in bad : \A j \in bad : i =< j])

(***************************************************************************)
(* ValidateASecConfig(a).  Packet sizes: message sizes 148, 92, 64, 32     *)
(* plus S1..S4; the pair loop only compares set fields.  Effective header  *)
(* intervals: the configured interval, else the default 1, 2, 3, 4.        *)
(***************************************************************************)
SKeys == <<"S1", "S2", "S3", "S4">>
MessageSize == <<148, 92, 64, 32>>

PacketSizeCollision(a) ==
  \E i, j \in 1..4 :
    /\ i < j
    /\ SKeys[i] \in DOMAIN a /\ SKeys[j] \in DOMAIN a
    /\ MessageSize[i] + a[SKeys[i]] = MessageSize[j] + a[SKeys[j]]

\* collectEffectiveHeaderIntervals
EffectiveHeaders(a) ==
  [h \in 1..4 |-> IF HKeys[h] \in DOMAIN a THEN a[HKeys[h]] ELSE <<h, h>>]

\* Fault variant of Overlapping: touching intervals are not an overlap.
OverlappingStrict(ivs) ==
  \E i, j \in 1..4 : i < j /\ ivs[i][1] < ivs[j][2] /\ ivs[j][1] < ivs[i][2]

\* hasOverlappingHeaderIntervals
Overlapping(ivs) ==
  \E i, j \in 1..4 : i < j /\ ivs[i][1] =< ivs[j][2] /\ ivs[j][1] =< ivs[i][2]

\* Fault variant of SizeError: the long form only when S3 is set.
SizeErrorS3Only(a) == IF "S3" \in DOMAIN a THEN ErrSizeLong ELSE ErrSizeShort

\* The message of a packet-size collision: the long form once S3 or S4 is set.
SizeError(a) ==
  IF "S3" \in DOMAIN a \/ "S4" \in DOMAIN a THEN ErrSizeLong ELSE ErrSizeShort

Validate(a) ==
  LET has(k) == k \in DOMAIN a IN
  IF DOMAIN a = {} THEN OK
  ELSE IF has("Jc") /\ (a["Jc"] < 1 \/ a["Jc"] > 128) THEN ErrJc
  ELSE IF has("Jmin") /\ has("Jmax") /\ a["Jmin"] > a["Jmax"] THEN ErrJminJmax
  ELSE IF has("Jmax") /\ a["Jmax"] > 1280 THEN ErrJmax
  ELSE IF PacketSizeCollision(a) THEN SizeError(a)
  ELSE IF \E h \in 1..4 : EffectiveHeaders(a)[h][1] > EffectiveHeaders(a)[h][2]
       THEN ErrHRange
  ELSE IF Overlapping(EffectiveHeaders(a)) THEN ErrHUnique
  ELSE OK

(***************************************************************************)
(* CreateIPCRequest.  The AWG block emits the set fields in fixed order;   *)
(* each peer emits its keys, its endpoint if any, and its allowed IPs or   *)
(* the two defaults.  Peer p is a record [endpoint: BOOLEAN, allowed: n];  *)
(* its values are abstracted to the peer's index.                          *)
(***************************************************************************)
AwgLine(k) ==
  <<IpcName[k], IF IsHKey(k) THEN FormatHeader(aSec[k]) ELSE aSec[k]>>

\* Fault variant of AwgBlock: fields gated on a non-zero value instead of
\* their has-flag.
AwgBlockNonZero ==
  LET order == SelectSeq(ParseOrder, LAMBDA k :
                 k \in DOMAIN aSec /\ (IsIntKey(k) => aSec[k] # 0))
  IN  [i \in 1..Len(order) |-> AwgLine(order[i])]

AwgBlock ==
  LET order == SelectSeq(ParseOrder, LAMBDA k : k \in DOMAIN aSec)
  IN  [i \in 1..Len(order) |-> AwgLine(order[i])]

\* Fault variant of PeerLines: no default allowed IPs.
PeerLinesNoDefault(p, i) ==
  << <<"public_key", i>>, <<"persistent_keepalive_interval", i>>,
     <<"preshared_key", i>> >>
  \o (IF p.endpoint THEN << <<"endpoint", i>> >> ELSE <<>>)
  \o [j \in 1..p.allowed |-> <<"allowed_ip", <<i, j>> >>]

PeerLines(p, i) ==
  << <<"public_key", i>>, <<"persistent_keepalive_interval", i>>,
     <<"preshared_key", i>> >>
  \o (IF p.endpoint THEN << <<"endpoint", i>> >> ELSE <<>>)
  \o (IF p.allowed > 0
      THEN [j \in 1..p.allowed |-> <<"allowed_ip", <<i, j>> >>]
      ELSE << <<"allowed_ip", "0.0.0.0/0">>, <<"allowed_ip", "::0/0">> >>)

RECURSIVE PeersLines(_, _)
PeersLines(ps, i) ==
  IF i > Len(ps) THEN <<>> ELSE PeerLines(ps[i], i) \o PeersLines(ps, i + 1)

\* Every section whose key k has a value in D[k].
RECURSIVE Sections(_, _)
Sections(D, ks) ==
  IF ks = {} THEN {[k \in {} |-> Absent]}
  ELSE LET k == CHOOSE x \in ks : TRUE
       IN  {(k :> v) @@ f : v \in D[k], f \in Sections(D, ks \ {k})}

Init ==
  /\ \E in \in Inputs : /\ section \in Sections(in.keys, AllKeys)
                        /\ peers \in in.peers
  /\ listenPort \in BOOLEAN
  /\ pc = "parse"
  /\ outcome = OK
  /\ aSec = <<>>
  /\ ipc = <<>>

\* ParseASecConfig: look every key up, then ValidateASecConfig.
Compile ==
  /\ pc = "parse"
  /\ outcome' = IF ParseError # OK THEN ParseError ELSE Validate(Parsed)
  /\ aSec' = IF outcome' = OK THEN Parsed ELSE <<>>
  /\ pc' = IF outcome' = OK THEN "emit" ELSE "done"
  /\ UNCHANGED <<section, listenPort, peers, ipc>>

\* CreateIPCRequest
Emit ==
  /\ pc = "emit"
  /\ ipc' = << <<"private_key", 0>> >>
            \o (IF listenPort THEN << <<"listen_port", 0>> >> ELSE <<>>)
            \o AwgBlock \o PeersLines(peers, 1)
  /\ pc' = "done"
  /\ UNCHANGED <<section, listenPort, peers, outcome, aSec>>

Next == Compile \/ Emit

\* The compiler runs once at startup and stops.
Spec == Init /\ [][Next]_vars

TypeOK ==
  /\ pc \in {"parse", "emit", "done"}
  /\ \A k \in DOMAIN aSec :
       /\ k \in Present
       /\ IsHKey(k) => aSec[k] \in (0..MaxU32) \X (0..MaxU32)
       /\ IsIntKey(k) => aSec[k] \in Int
  /\ \A i \in 1..Len(ipc) : ipc[i][1] \in STRING

-----------------------------------------------------------------------------
(* Properties *)

Done == pc = "done"
Accepted == Done /\ outcome = OK
SizeOf(a, i) == MessageSize[i] + a[SKeys[i]]

(* Spec 4.5, soundness of ValidateASecConfig: a configuration reaches the *)
(* engine only if every present key parsed, Jc is in 1..128, Jmin <= Jmax, *)
(* Jmax <= 1280, the set packet sizes are pairwise distinct and the four   *)
(* effective header intervals (defaults included) are disjoint.           *)
AcceptedMeetsInvariants ==
  Accepted =>
    LET a == aSec IN
    /\ DOMAIN a = Present
    /\ "Jc" \in DOMAIN a => a["Jc"] \in 1..128
    /\ {"Jmin", "Jmax"} \subseteq DOMAIN a => a["Jmin"] =< a["Jmax"]
    /\ "Jmax" \in DOMAIN a => a["Jmax"] =< 1280
    /\ \A i, j \in 1..4 :
         (i # j /\ SKeys[i] \in DOMAIN a /\ SKeys[j] \in DOMAIN a)
           => SizeOf(a, i) # SizeOf(a, j)
    /\ \A i, j \in 1..4 : i # j =>
         LET e == EffectiveHeaders(a) IN
         \A v \in e[i][1]..e[i][2] : v \notin e[j][1]..e[j][2]

(* Spec 4.5: validation reports the first rule violated, in the order Jc,  *)
(* Jmin/Jmax, Jmax, packet sizes (long message once S3 or S4 is set),      *)
(* header uniqueness; a key that does not parse is reported before any     *)
(* rule.  Stated as a list of rules, independently of the code's chain.    *)
Rules(a) ==
  LET has(k) == k \in DOMAIN a
      e == EffectiveHeaders(a)
  IN << [bad |-> has("Jc") /\ a["Jc"] \notin 1..128, msg |-> ErrJc],
        [bad |-> {"Jmin", "Jmax"} \subseteq DOMAIN a /\ a["Jmin"] > a["Jmax"],
         msg |-> ErrJminJmax],
        [bad |-> has("Jmax") /\ a["Jmax"] > 1280, msg |-> ErrJmax],
        [bad |-> \E i, j \in 1..4 : i # j /\ has(SKeys[i]) /\ has(SKeys[j])
                                  /\ SizeOf(a, i) = SizeOf(a, j),
         msg |-> IF has("S3") \/ has("S4") THEN ErrSizeLong ELSE ErrSizeShort],
        [bad |-> \E i, j \in 1..4 : i # j /\ e[i][2] >= e[j][1]
                                  /\ e[j][2] >= e[i][1],
         msg |-> ErrHUnique] >>

OutcomeIsFirstViolation ==
  Done =>
    IF ParseError # OK THEN outcome = ParseError
    ELSE LET r == Rules(Parsed)
             bad == {i \in 1..Len(r) : r[i].bad}
         IN  IF bad = {} THEN outcome = OK
             ELSE outcome = r[CHOOSE i \in bad : \A j \in bad : i =< j].msg

(* Spec 8, IPC gating: the AWG lines of the request are exactly the       *)
(* present fields, in the order jc .. i5, and I values pass verbatim.     *)
AwgKeysInIpc ==
  SelectSeq([i \in 1..Len(ipc) |-> ipc[i][1]],
            LAMBDA n : n \in {IpcName[k] : k \in AllKeys})

IpcGating ==
  (Accepted /\ ipc # <<>>) =>
    /\ AwgKeysInIpc = [i \in 1..Len(SelectSeq(ParseOrder, LAMBDA k : k \in Present))
                        |-> IpcName[SelectSeq(ParseOrder, LAMBDA k : k \in Present)[i]]]
    /\ \A i \in 1..Len(ipc), k \in Present :
         (ipc[i][1] = IpcName[k] /\ ~IsHKey(k)) => ipc[i][2] = section[k]

(* Spec 8, round trip: every emitted h value, read back by                *)
(* parseMagicHeaderInterval, gives the interval that was configured.      *)
HeaderRoundTrip ==
  \A i \in 1..Len(ipc), k \in Present :
    (IsHKey(k) /\ ipc[i][1] = IpcName[k]) =>
      /\ ParseHeader(ipc[i][2]).ok
      /\ ParseHeader(ipc[i][2]).iv = aSec[k]

(* Each peer's block lists its allowed IPs, or the two catch-all defaults *)
(* when it has none, and nothing from another peer.                       *)
PeerStart(i) == CHOOSE n \in 1..Len(ipc) :
  ipc[n] = <<"public_key", i>>
PeerAllowed(i) ==
  LET last == IF i = Len(peers) THEN Len(ipc) ELSE PeerStart(i + 1) - 1
  IN  SelectSeq(SubSeq(ipc, PeerStart(i), last),
                LAMBDA l : l[1] = "allowed_ip")
AllowedIpDefaults ==
  (Accepted /\ ipc # <<>>) =>
    \A i \in 1..Len(peers) :
      PeerAllowed(i) =
        IF peers[i].allowed > 0
        THEN [j \in 1..peers[i].allowed |-> <<"allowed_ip", <<i, j>> >>]
        ELSE << <<"allowed_ip", "0.0.0.0/0">>, <<"allowed_ip", "::0/0">> >>

(* Spec 8, literal round trip: parse-then-emit returns the literal that  *)
(* was configured, "N" or "N-M" with N <= M.                             *)
HeaderLiteralRoundTrip ==
  \A i \in 1..Len(ipc), k \in Present :
    (IsHKey(k) /\ ipc[i][1] = IpcName[k]) => ipc[i][2] = section[k]

=============================================================================
