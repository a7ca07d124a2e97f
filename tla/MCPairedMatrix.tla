--------------------------- MODULE MCPairedMatrix ---------------------------
(***************************************************************************)
(* Each tool with two boards that do as they should, then with one line    *)
(* too few or too many on one of them; the bond matrix with boards that    *)
(* pair, restore, remove and reject over two resets.                       *)
(***************************************************************************)
EXTENDS PairedMatrix

Lines(S) == FoldSet(LAMBDA m, acc : Append(acc, Plain(m)), <<>>, S)

O(tool, contract, runs, first, second) ==
  [tool |-> tool, contract |-> contract, removal |-> FALSE, runs |-> runs,
   paths |-> TRUE,
   boots |-> [first |-> first, second |-> second],
   old |-> [first |-> {<<>>}, second |-> {<<>>}]]

(* A board's script: all but its last marker, then that one.               *)
Script(required, last) == << Lines(required \ {last}), <<Plain(last)>> >>

(* The scripts with one of the required lines lost, or with a failure      *)
(* before or after the end.                                                *)
Lost(script) ==
  {<<script[1]>>} \cup
  {SelectSeq(<<SelectSeq(script[1], LAMBDA l : l # x), script[2]>>,
             LAMBDA segment : segment # <<>>) :
     x \in {script[1][i] : i \in DOMAIN script[1]}}
Failing(script, failures) ==
  {<<script[1], <<Plain(f)>> \o script[2]>> : f \in failures}
  \cup {<<script[1], script[2], <<Plain(f)>>>> : f \in failures}

Defective(tool, contract, first, second, failures) ==
  {O(tool, contract, 1, {first}, {second}), O(tool, contract, 0, {first}, {second})}
  \cup {O(tool, contract, 1, {f}, {second}) : f \in Lost(first) \cup Failing(first, failures)}
  \cup {O(tool, contract, 1, {first}, {s}) : s \in Lost(second) \cup Failing(second, failures)}

U2Options == UNION {
  LET c == U2Protocols[p]
      Common == "RFDBG_RADIO_U2_INIT_OK"
  IN  Defective("radio-u2", p, Script({Common, c.source}, c.source),
                Script({Common, c.observer}, c.observer), U2FailureMarkers(p)) :
  p \in DOMAIN U2Protocols}

Marked(tool, markers, first, second) ==
  Defective(tool, "none", Script(markers.first, first),
            Script(markers.second, second), markers.failures)

MarkerOptions ==
  Marked("ble-gatt", GattMarkers, "RFDBG_BLE_B3_SERVER_DISCONNECTED", "RFDBG_BLE_B3_GATT_OK")
  \cup Marked("sle-discovery", SleDiscoveryMarkers, "RFDBG_SLE_S1_ANNOUNCE_OK",
              "RFDBG_SLE_S1_SEEK_MATCH")
  \cup Marked("sle-connect", SleConnectMarkers, "RFDBG_SLE_S2_SERVER_DISCONNECTED",
              "RFDBG_SLE_S2_CONNECT_DISCONNECT_OK")
  \cup Marked("sle-ssap", SsapMarkers, SsapDone.first, SsapDone.second)
  \cup Marked("ble-discovery",
              [BleDiscoveryMarkers EXCEPT !.second = @ \cup {BleDiscoveryMatch}],
              "RFDBG_BLE_B2_ADV_OK", BleDiscoveryMatch)

-----------------------------------------------------------------------------
(* complete_log of test-ws63-coexistence-reset-matrix.py.                  *)
EventValues ==
  [wifi_accepted |-> 4, wifi_consumed |-> 4, wifi_pending |-> 0,
   wifi_dropped |-> 0, wifi_high_water |-> 1, protocol_accepted |-> 8,
   protocol_consumed |-> 8, protocol_pending |-> 0, protocol_dropped |-> 0,
   protocol_high_water |-> 2]
ServerValues ==
  [accepted |-> 8, consumed |-> 8, pending |-> 0, dropped |-> 0, high_water |-> 2]
ResourceValues ==
  [arena |-> 5, free |-> 3, peak |-> 2, failures |-> 0, min_free |-> 2,
   max_ready_ms |-> 1, ready_limit_ms |-> 7, max_irq_ms |-> 1, irq_limit_ms |-> 4,
   ready_owner_err |-> 0, ready_dup |-> 0, ready_wrong_bucket |-> 0, ready_bad_link |-> 0]

CompleteLog(contract, role) ==
  LET active == role = TrafficActivityRole(contract)
      traffic == contract \in TrafficContracts
      accepted == contract \in AcceptanceContracts
  IN  Lines(RequiredMarkers(contract, role))
      \o (IF Active(contract, role) THEN [i \in 1 .. 3 |-> Plain(ScanOk)] ELSE <<>>)
      \o (IF traffic /\ active
          THEN <<Line(LocalEcho, [sent |-> 10, received |-> 10, attempts |-> 10])>>
          ELSE <<>>)
      \o (IF traffic /\ role = "softap"
          THEN <<Line(SoftapNet, [echo_rx |-> 10, echo_tx |-> 10])>> ELSE <<>>)
      \o (IF accepted /\ active
          THEN <<Line(ActivityEvents, EventValues),
                 Line(ActivityResources, ResourceValues)>> ELSE <<>>)
      \o (IF accepted /\ role = "softap"
          THEN <<Line(ServerEvents, ServerValues),
                 Line(ServerResources, ResourceValues)>> ELSE <<>>)

(* A line lost, or followed by one like it that counts differently or is   *)
(* cut short, or a failure.                                                *)
WithoutField(f, k) == [x \in DOMAIN f \ {k} |-> f[x]]
CoexDefects(lines) ==
  {<<SelectSeq(lines, LAMBDA l : l # x)>> : x \in {lines[i] : i \in DOMAIN lines}}
  \cup UNION {UNION {{ <<Append(lines, [lines[i] EXCEPT !.v[k] = @ + 1])>>,
                       <<lines, <<[lines[i] EXCEPT !.v[k] = 40]>>>>,
                       <<Append(lines, [lines[i] EXCEPT !.v = WithoutField(lines[i].v, k)])>>,
                       <<[lines EXCEPT ![i].v[k] = 0]>> } :
                     k \in DOMAIN lines[i].v} : i \in DOMAIN lines}
  \cup {<<lines, <<Plain(f)>>>> : f \in CoexFailures}
  \cup {<<Append(lines, Plain(ScanOk))>>}

CoexOptions == UNION {
  LET roles == EndpointRoles(c)
      first == CompleteLog(c, roles.first)
      second == CompleteLog(c, roles.second)
  IN  {O("coexistence", c, 1, {f}, {<<second>>}) : f \in CoexDefects(first) \cup {<<first>>}}
      \cup {O("coexistence", c, 1, {<<first>>}, {s}) : s \in CoexDefects(second)} :
  c \in Contracts}

-----------------------------------------------------------------------------
(* The firmware of the bond fixtures.  A segment ends where it waits.      *)
(* Over three resets of boards that keep no bond the third run may pass    *)
(* with the lines of the second one's.                                     *)
Starting(side, m) == <<Plain(Boot), Plain(m[side])>>
FreshPeripheral ==
  << Starting("first", Empty) \o Lines(FreshMarkers.first \ {PasskeyRedacted, BondOk.first})
       \o <<Plain(PasskeyDisplay)>>,
     <<Plain(BondOk.first)>> >>
FreshCentral ==
  << Starting("second", Empty) \o
       Lines(FreshMarkers.second \ {PasskeyAccepted, BondOk.second}),
     <<Plain(PasskeyAccepted), Plain(BondOk.second)>> >>
Kept(side, markers) == << Starting(side, Restored) \o Lines(markers[side]) >>
Rejected(side, mode) == << Starting(side, Empty) \o Lines(NegativeMarkers[mode][side]) >>
TwoBoots == << FreshPeripheral[1], FreshPeripheral[1] \o FreshPeripheral[2] >>

B(mode, removal, runs, first, second) ==
  [O("ble-bond", mode, runs, first, second) EXCEPT
    !.removal = removal,
    !.old = [first |-> {<<>>, <<Tail(FreshPeripheral[1])>>},
             second |-> {<<>>, <<FreshCentral[2]>>}]]

BondOptions ==
  { B("passkey", FALSE, 2, {FreshPeripheral, Kept("first", RestoredMarkers)},
      {FreshCentral, Kept("second", RestoredMarkers)}),
    B("passkey", TRUE, 2, {FreshPeripheral, Kept("first", RemovalMarkers)},
      {FreshCentral, Kept("second", RemovalMarkers)}),
    B("reject", FALSE, 2, {Rejected("first", "reject"), Kept("first", RestoredMarkers)},
      {Rejected("second", "reject"), Kept("second", RestoredMarkers)}),
    B("stale", FALSE, 2, {Rejected("first", "stale")}, {Rejected("second", "stale"), <<>>}),
    B("passkey", FALSE, 1, {FreshPeripheral, TwoBoots}, {FreshCentral}),
    O("ble-bond", "passkey", 3, {FreshPeripheral}, {FreshCentral}),
    B("reject", TRUE, 1, {<<>>}, {<<>>}),
    [B("stale", FALSE, 1, {<<>>}, {<<>>}) EXCEPT !.paths = FALSE] }
  \cup {[o EXCEPT !.tool = "ble-bond", !.contract = "passkey"] :
          o \in UNION {{O("ble-bond", "passkey", 1, {b}, {Kept("second", RestoredMarkers)}) :
                         b \in {<<Append(Kept("first", RestoredMarkers)[1], Plain(f))>> :
                                  f \in BondFailures \cup {Restored.second}}}}}

MCOptions == U2Options \cup MarkerOptions \cup CoexOptions \cup BondOptions
=============================================================================
