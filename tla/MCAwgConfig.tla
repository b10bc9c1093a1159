---------------------------- MODULE MCAwgConfig ----------------------------
(* Input domains for checking AwgConfig with TLC.  Each run varies the     *)
(* keys its question is about; the other keys are missing.                *)
EXTENDS TunnelStartup

\* Values chosen around every bound: Jc 0/1/128/129, Jmax 1280/1281, and
\* S values whose sums collide: 148+0 = 92+56 = 32+116, 148+8 = 64+92.
ValidateDomain == [k \in AllKeys |->
  CASE k = "Jc"   -> {Absent, 0, 1, 128, 129, NotANumber}
    [] k = "Jmin" -> {Absent, 10, 55}
    [] k = "Jmax" -> {Absent, 50, 1280, 1281}
    [] k = "S1"   -> {Absent, 0, 8}
    [] k = "S2"   -> {Absent, 0, 56}
    [] k = "S3"   -> {Absent, 20, 92}
    [] k = "S4"   -> {Absent, 0, 116}
    [] k = "H1"   -> {Absent, <<2>>, <<10>>}
    [] k = "H2"   -> {Absent, <<10, 11>>}
    [] k = "H4"   -> {Absent, <<NotANumber>>}
    [] OTHER      -> {Absent}]

\* Every shape parseMagicHeaderInterval distinguishes; MaxU32 + 1 is the
\* first value ParseUint(_, 10, 32) rejects.
HeaderShapes == {Absent, <<>>, <<1>>, <<2>>, <<3, 4>>, <<5, 5>>, <<4, 6>>,
                 <<EmptyPart, 3>>, <<3, EmptyPart>>, <<1, 2, 3>>, <<4, 3>>,
                 <<MaxU32 + 1>>, <<NotANumber>>}
HeadersDomain == [k \in AllKeys |->
  CASE k \in {"H1", "H2", "H3", "H4"} -> HeaderShapes
    [] k = "S1" -> {Absent, 0}
    [] OTHER    -> {Absent}]

IpcDomain == [k \in AllKeys |->
  CASE k \in {"I1", "I2", "I3", "I4", "I5"} -> {Absent, "<b 0xA1B2C3D4E5F6><c>"}
    [] k = "Jc" -> {Absent, 5}
    [] k = "S1" -> {Absent, 0}
    [] k = "H1" -> {Absent, <<5, 6>>}
    [] OTHER    -> {Absent}]

NoPeers == {<<>>}
SomePeers == {<<>>,
              << [endpoint |-> TRUE, allowed |-> 0] >>,
              << [endpoint |-> FALSE, allowed |-> 2],
                 [endpoint |-> TRUE, allowed |-> 0] >>}

\* The compiler run: boundary values, header shapes, and IPC sections with
\* peers; each domain varies the keys its question is about.
CompilerInputs == {[keys |-> ValidateDomain, peers |-> NoPeers],
                   [keys |-> HeadersDomain,  peers |-> NoPeers],
                   [keys |-> IpcDomain,      peers |-> SomePeers]}
HeaderInputs == {[keys |-> HeadersDomain, peers |-> NoPeers]}

-----------------------------------------------------------------------------
(***************************************************************************)
(* The configuration tests at the end of src/socks5_udp.go, each a record: *)
(* the AWG keys of its [Interface] section, whether it has a [Peer]        *)
(* section, the error ParseInterface must return (OK for none), the        *)
(* ASecConfig fields it inspects, the fields it requires to be nil, and    *)
(* the IPC lines it requires present or absent (by key).  PrivateKey,      *)
(* Address and DNS are parsed outside ParseASecConfig and are left out.    *)
(***************************************************************************)
\* loadIniConfig + ParseInterface's section: the keys not written are missing.
TestSection(kv) == [k \in AllKeys |-> IF k \in DOMAIN kv THEN kv[k] ELSE Absent]

AwgTest(kv, peer, expect, fields, unset, has, lacks) ==
  [keys |-> kv, peer |-> peer, expect |-> expect, fields |-> fields,
   unset |-> unset, ipcHas |-> has, ipcLacks |-> lacks]

NoIKeys == {"I1", "I2", "I3", "I4", "I5"}
NoFields == <<>>

\* The [Interface] keys shared by the AWGParams tests and the Invalid ones.
AWGParamsKeys ==
  ("Jc" :> 5) @@ ("Jmin" :> 10) @@ ("Jmax" :> 50) @@ ("S1" :> 0) @@ ("S2" :> 0)
  @@ ("H1" :> <<1>>) @@ ("H2" :> <<2>>) @@ ("H3" :> <<3>>) @@ ("H4" :> <<4>>)
AWGParamsFields ==
  ("Jc" :> 5) @@ ("Jmin" :> 10) @@ ("Jmax" :> 50) @@ ("S1" :> 0) @@ ("S2" :> 0)
  @@ ("H1" :> <<1, 1>>) @@ ("H2" :> <<2, 2>>) @@ ("H3" :> <<3, 3>>)
  @@ ("H4" :> <<4, 4>>)

TestWireguardConfWithAWGParams ==
  AwgTest(AWGParamsKeys, TRUE, OK, AWGParamsFields, NoIKeys, {}, {})

TestWireguardConfWithAWGParamsWithI1 ==
  AwgTest(("I1" :> "<b 0xA1B2C3D4E5F6>") @@ AWGParamsKeys, TRUE, OK,
          ("I1" :> "<b 0xA1B2C3D4E5F6>") @@ AWGParamsFields,
          NoIKeys \ {"I1"}, {}, {})

\* TestWireguardConfWithInvalid1..5AWGParams: one key of AWGParams changed.
TestWireguardConfWithInvalid1AWGParams ==
  AwgTest(("Jc" :> 200) @@ AWGParamsKeys, TRUE, ErrJc, NoFields, {}, {}, {})
TestWireguardConfWithInvalid2AWGParams ==
  AwgTest(("Jmin" :> 55) @@ AWGParamsKeys, TRUE, ErrJminJmax, NoFields, {}, {}, {})
TestWireguardConfWithInvalid3AWGParams ==
  AwgTest(("Jmax" :> 1300) @@ AWGParamsKeys, TRUE, ErrJmax, NoFields, {}, {}, {})
TestWireguardConfWithInvalid4AWGParams ==
  AwgTest(("S2" :> 56) @@ AWGParamsKeys, TRUE, ErrSizeShort, NoFields, {}, {}, {})
TestWireguardConfWithInvalid5AWGParams ==
  AwgTest(("H3" :> <<2>>) @@ AWGParamsKeys, TRUE, ErrHUnique, NoFields, {}, {}, {})

TestWireguardConfWithAWG2HandshakeOnly ==
  AwgTest("I1" :> "<b 0xA1B2C3D4E5F6><c>", FALSE, OK,
          "I1" :> "<b 0xA1B2C3D4E5F6><c>", {},
          {<<"i1", "<b 0xA1B2C3D4E5F6><c>">>}, {"jc", "h1"})

TestWireguardConfWithPartialDuplicateHeaders ==
  AwgTest(("H1" :> <<10>>) @@ ("H2" :> <<10>>), FALSE, ErrHUnique,
          NoFields, {}, {}, {})

TestWireguardConfWithAWG2S3S4AndHeaderRanges ==
  AwgTest(("Jc" :> 5) @@ ("Jmin" :> 10) @@ ("Jmax" :> 50) @@ ("S1" :> 15)
          @@ ("S2" :> 18) @@ ("S3" :> 20) @@ ("S4" :> 23)
          @@ ("H1" :> <<100, 101>>) @@ ("H2" :> <<102, 103>>)
          @@ ("H3" :> <<104>>) @@ ("H4" :> <<105, 106>>),
          FALSE, OK,
          ("S3" :> 20) @@ ("S4" :> 23) @@ ("H1" :> <<100, 101>>)
          @@ ("H4" :> <<105, 106>>), {},
          {<<"s3", 20>>, <<"s4", 23>>, <<"h1", <<100, 101>> >>,
           <<"h4", <<105, 106>> >>}, {})

TestWireguardConfWithAWG2PacketSizeCollision ==
  AwgTest(("S1" :> 8) @@ ("S2" :> 0) @@ ("S3" :> 92) @@ ("S4" :> 0), FALSE,
          ErrSizeLong, NoFields, {}, {}, {})

TestWireguardConfWithOverconstrainedHeaderRanges ==
  AwgTest(("H1" :> <<1, 2>>) @@ ("H2" :> <<1, 2>>) @@ ("H3" :> <<1, 2>>), FALSE,
          ErrHUnique, NoFields, {}, {}, {})

TestWireguardConfWithOverlappingHeaderRanges ==
  AwgTest(("H1" :> <<100, 200>>) @@ ("H2" :> <<200, 300>>), FALSE, ErrHUnique,
          NoFields, {}, {}, {})

TestWireguardConfWithHeaderConflictAgainstDefaults ==
  AwgTest("H1" :> <<2>>, FALSE, ErrHUnique, NoFields, {}, {}, {})

ConfigTests ==
  {TestWireguardConfWithAWGParams, TestWireguardConfWithAWGParamsWithI1,
   TestWireguardConfWithInvalid1AWGParams, TestWireguardConfWithInvalid2AWGParams,
   TestWireguardConfWithInvalid3AWGParams, TestWireguardConfWithInvalid4AWGParams,
   TestWireguardConfWithInvalid5AWGParams, TestWireguardConfWithAWG2HandshakeOnly,
   TestWireguardConfWithPartialDuplicateHeaders,
   TestWireguardConfWithAWG2S3S4AndHeaderRanges,
   TestWireguardConfWithAWG2PacketSizeCollision,
   TestWireguardConfWithOverconstrainedHeaderRanges,
   TestWireguardConfWithOverlappingHeaderRanges,
   TestWireguardConfWithHeaderConflictAgainstDefaults}

\* Each test's section as a run input; a [Peer] section with an endpoint
\* and AllowedIPs = 0.0.0.0/0, ::/0.
TestInputs ==
  {[keys |-> [k \in AllKeys |-> {TestSection(t.keys)[k]}],
    peers |-> IF t.peer THEN {<< [endpoint |-> TRUE, allowed |-> 2] >>}
                        ELSE {<<>>}] : t \in ConfigTests}

CompilerAndTestInputs == CompilerInputs \cup TestInputs

\* The request has the line <<key, value>> (values of one key compare).
HasLine(l) == \E i \in 1..Len(ipc) : ipc[i][1] = l[1] /\ ipc[i][2] = l[2]

(* The repository's configuration tests pass against the model: for the   *)
(* section of every test, ParseASecConfig returns the error the test       *)
(* expects, and an accepted section yields the ASecConfig fields the test  *)
(* inspects, leaves nil the fields it requires nil, and CreateIPCRequest   *)
(* emits (or omits) the lines the test looks for.                          *)
TestsAgree ==
  \A t \in ConfigTests : section = TestSection(t.keys) =>
    /\ pc # "parse" => outcome = t.expect
    /\ (Done /\ outcome = OK) =>
         /\ \A k \in DOMAIN t.fields : k \in DOMAIN aSec /\ aSec[k] = t.fields[k]
         /\ \A k \in t.unset : k \notin DOMAIN aSec
         /\ \A l \in t.ipcHas : HasLine(l)
         /\ \A i \in 1..Len(ipc) : ipc[i][1] \notin t.ipcLacks
=============================================================================
