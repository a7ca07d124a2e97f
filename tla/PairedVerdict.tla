--------------------------- MODULE PairedVerdict ---------------------------
(***************************************************************************)
(* The paired-board reset matrices that judge a run by markers alone:      *)
(* hil/ws63-radio-u2, ws63-ble-gatt, ws63-ble-discovery, ws63-sle-connect, *)
(* ws63-sle-discovery and ws63-sle-ssap -reset-matrix.py.  Each says what  *)
(* both boards must print, what neither may print, and what ends a capture *)
(* before its deadline.  The board that is reset first is "first".         *)
(* A line has its marker m, the key=0x... fields v that are not cut off,   *)
(* and stale, whether it was printed before the board's last reset; no     *)
(* verdict sees stale.                                                     *)
(***************************************************************************)
EXTENDS Naturals, Sequences, FiniteSets

NoFields == [x \in {} |-> 0]
Line(m, v) == [m |-> m, v |-> v, stale |-> FALSE]
Plain(m) == Line(m, NoFields)

Has(log, m) == \E i \in DOMAIN log : log[i].m = m
Count(log, m) == Cardinality({i \in DOMAIN log : log[i].m = m})
Missing(log, required) == {m \in required : ~Has(log, m)}
Named(prefix, names) == {prefix \o n : n \in names}

(* Mutant: only the board that is reset last can fail a run.               *)
ReportedBySecond(logs, failures) == {m \in failures : Has(logs.second, m)}

Reported(logs, failures) ==
  {m \in failures : Has(logs.first, m) \/ Has(logs.second, m)}

(* The shape of every classify below.                                      *)
MarkerVerdict(logs, c) ==
  LET missing == [s \in {"first", "second"} |-> Missing(logs[s], c[s])]
      failures == Reported(logs, c.failures)
  IN  [pass |-> missing.first = {} /\ missing.second = {} /\ failures = {},
       missing |-> missing, failures |-> failures]

(* The shape of every capture_run below: hold and settle are its stages,   *)
(* done the markers that end it.                                           *)
SettledCapture(first, second) ==
  [hold |-> FALSE, settle |-> TRUE, done |-> [first |-> first, second |-> second]]

MissingRom == "RFDBG_MISSING_ROM_CALLBACK"

-----------------------------------------------------------------------------
(* ws63-radio-u2: the U2, U3 and U4 protocols.                             *)
U2Protocols ==
  LET P(source, observer, prefixes) ==
        [source |-> source, observer |-> observer, prefixes |-> prefixes]
  IN  [p \in {"ble", "sle", "u3-ble", "u3-sle", "u4-ble", "u4-sle"} |->
        CASE p = "ble" -> P("RFDBG_RADIO_U2_BLE_ADV_OK",
                            "RFDBG_RADIO_U2_BLE_SCAN_OK", {"RFDBG_RADIO_U2_BLE_"})
          [] p = "sle" -> P("RFDBG_RADIO_U2_SLE_ANNOUNCE_OK",
                            "RFDBG_RADIO_U2_SLE_SEEK_OK", {"RFDBG_RADIO_U2_SLE_"})
          [] p = "u3-ble" -> P("RFDBG_RADIO_U3_BLE_GATT_OK",
                               "RFDBG_RADIO_U2_BLE_SCAN_OK",
                               {"RFDBG_RADIO_U3_BLE_", "RFDBG_RADIO_U2_BLE_"})
          [] p = "u3-sle" -> P("RFDBG_RADIO_U3_SLE_SSAP_OK",
                               "RFDBG_RADIO_U2_SLE_SEEK_OK",
                               {"RFDBG_RADIO_U3_SLE_", "RFDBG_RADIO_U2_SLE_"})
          [] p = "u4-ble" -> P("RFDBG_RADIO_U4_BLE_ADV_LIFECYCLE_OK",
                               "RFDBG_RADIO_U4_BLE_SCAN_LIFECYCLE_OK",
                               {"RFDBG_RADIO_U4_BLE_"})
          [] p = "u4-sle" -> P("RFDBG_RADIO_U4_SLE_ANNOUNCE_LIFECYCLE_OK",
                               "RFDBG_RADIO_U4_SLE_SEEK_LIFECYCLE_OK",
                               {"RFDBG_RADIO_U4_SLE_"})]

U2FailureSuffixes ==
  {"INIT_ERR", "QUEUE_ERR", "CORRELATION_ERR", "COMMAND_ERR", "RUNNER_ERR",
   "LIFECYCLE_ERR", "EVENT_DROP", "STOP_ERR"}

U2FailureMarkers(protocol) ==
  {MissingRom, "panicked at"}
  \cup UNION {Named(p, U2FailureSuffixes) : p \in U2Protocols[protocol].prefixes}

U2Classify(protocol, logs) ==
  LET common == "RFDBG_RADIO_U2_INIT_OK"
  IN  MarkerVerdict(logs, [first |-> {common, U2Protocols[protocol].source},
                           second |-> {common, U2Protocols[protocol].observer},
                           failures |-> U2FailureMarkers(protocol)])

U2Capture(protocol) == SettledCapture({}, {U2Protocols[protocol].observer})

-----------------------------------------------------------------------------
(* ws63-ble-gatt: a server and then a client.                              *)
GattMarkers ==
  LET p == "RFDBG_BLE_B3_"
  IN  [first |-> Named(p, {"INIT_OK", "SERVICE_READY", "SERVER_ADV_OK",
         "SERVER_CONNECTED", "NOTIFY_SENT", "INDICATE_SENT",
         "INDICATE_CONFIRMED", "SERVER_DISCONNECTED"}),
       second |-> Named(p, {"INIT_OK", "CLIENT_SCAN_READY", "SCAN_MATCH",
         "CLIENT_CONNECTED", "SERVICE_FOUND", "CHARACTERISTIC_FOUND",
         "DESCRIPTOR_FOUND", "NOTIFICATION_OK", "INDICATION_OK",
         "CLIENT_DISCONNECTED", "GATT_OK"}),
       failures |-> {MissingRom} \cup Named(p, {"INIT_ERR", "EVENT_DROP",
         "SERVER_REGISTER_ERR", "SERVER_ADV_ERR", "SERVER_STATE_ERR",
         "NOTIFY_ERR", "INDICATE_ERR", "CLIENT_REGISTER_ERR",
         "CLIENT_SCAN_ERR", "CONNECT_ERR", "SERVICE_DISCOVERY_ERR",
         "CHAR_DISCOVERY_ERR", "DESC_DISCOVERY_ERR", "CCC_NOTIFY_ERR",
         "WRITE_NOTIFY_ERR", "CCC_INDICATE_ERR", "WRITE_INDICATE_ERR",
         "DISCONNECT_ERR"})]

GattClassify(logs) == MarkerVerdict(logs, GattMarkers)

GattCapture ==
  SettledCapture({"RFDBG_BLE_B3_SERVER_DISCONNECTED"}, {"RFDBG_BLE_B3_GATT_OK"})

-----------------------------------------------------------------------------
(* ws63-ble-discovery: a peer and then the target, which has to match it;  *)
(* a match at the peer is reported and not required.                       *)
BleDiscoveryMarkers ==
  LET boot == {"RFDBG_BLE_B1_INIT_OK", "RFDBG_BLE_B2_COMMANDS_OK",
               "RFDBG_BLE_B2_SCAN_READY", "RFDBG_BLE_B2_ADV_OK"}
  IN  [first |-> boot, second |-> boot,
       failures |-> {MissingRom} \cup
         Named("RFDBG_BLE_B2_", {"COMMAND_ERR", "EVENT_DROP", "EVENT_ERR"})]

BleDiscoveryMatch == "RFDBG_BLE_B2_SCAN_MATCH"

BleDiscoveryClassify(logs) ==
  LET v == MarkerVerdict(logs, BleDiscoveryMarkers)
  IN  [v EXCEPT !.pass = v.pass /\ Has(logs.second, BleDiscoveryMatch)]

BleDiscoveryCapture == SettledCapture({}, {BleDiscoveryMatch})

-----------------------------------------------------------------------------
(* ws63-sle-discovery: an announcer and then a seeker.                     *)
SleDiscoveryMarkers ==
  LET p == "RFDBG_SLE_S1_"
  IN  [first |-> Named(p, {"INIT_OK", "ANNOUNCE_OK"}),
       second |-> Named(p, {"INIT_OK", "SEEK_READY", "SEEK_MATCH"}),
       failures |-> {MissingRom} \cup
         Named(p, {"INIT_ERR", "ANNOUNCE_ERR", "SEEK_ERR", "EVENT_DROP"})]

SleDiscoveryClassify(logs) == MarkerVerdict(logs, SleDiscoveryMarkers)

SleDiscoveryCapture ==
  SettledCapture({"RFDBG_SLE_S1_ANNOUNCE_OK"}, {"RFDBG_SLE_S1_SEEK_MATCH"})

-----------------------------------------------------------------------------
(* ws63-sle-connect: a server and then a client.                           *)
SleConnectMarkers ==
  LET s == "RFDBG_SLE_S2_SERVER_"
      c == "RFDBG_SLE_S2_CLIENT_"
  IN  [first |-> {"RFDBG_SLE_S1_INIT_OK"}
         \cup Named(s, {"READY", "CONNECTED", "DISCONNECTED"}),
       second |-> {"RFDBG_SLE_S1_INIT_OK", "RFDBG_SLE_S2_CONNECT_DISCONNECT_OK"}
         \cup Named(c, {"SEEK_READY", "CONNECTED"}),
       failures |-> {MissingRom, "RFDBG_SLE_S1_INIT_ERR"}
         \cup Named(s, {"ADDR_ERR", "ANNOUNCE_ERR", "EVENT_DROP"})
         \cup Named(c, {"START_ERR", "STOP_SEEK_ERR", "CONNECT_ERR",
                        "DISCONNECT_ERR", "EVENT_DROP"})]

SleConnectClassify(logs) == MarkerVerdict(logs, SleConnectMarkers)

SleConnectCapture ==
  SettledCapture({"RFDBG_SLE_S2_SERVER_DISCONNECTED"},
                 {"RFDBG_SLE_S2_CONNECT_DISCONNECT_OK"})

-----------------------------------------------------------------------------
(* ws63-sle-ssap: the module of ws63-sle-connect with other markers, which *)
(* its classify and its capture_run then both use.                         *)
SsapMarkers ==
  LET s == "RFDBG_SLE_S3_SERVER_"
      c == "RFDBG_SLE_S3_CLIENT_"
  IN  [first |-> {"RFDBG_SLE_S1_INIT_OK"}
         \cup Named(s, {"SERVICE_OK", "READY", "CONNECTED", "NOTIFY_OK",
                        "DISCONNECTED"}),
       second |-> {"RFDBG_SLE_S1_INIT_OK", "RFDBG_SLE_S3_DATA_DISCONNECT_OK"}
         \cup Named(c, {"CONNECTED", "LINK_READY", "EXCHANGE_OK", "SERVICE_OK",
                        "READ_OK", "DATA_OK"}),
       failures |-> {MissingRom, "RFDBG_SLE_S1_INIT_ERR"}
         \cup Named(s, {"ADDR_ERR", "SERVICE_ERR", "ANNOUNCE_ERR", "NOTIFY_ERR",
                        "AUTH_ERR", "PAIR_ERR", "UNEXPECTED_DISCONNECT",
                        "EVENT_DROP"})
         \cup Named(c, {"START_ERR", "STOP_SEEK_ERR", "CONNECT_ERR", "PAIR_ERR",
                        "AUTH_ERR", "PAIR_CFM_ERR", "PAIR_STATE_ERR",
                        "UNEXPECTED_DISCONNECT", "EXCHANGE_ERR",
                        "DISCOVERY_ERR", "SERVICE_MISSING", "WRITE_ERR",
                        "READ_ERR", "DATA_ERR", "DISCONNECT_ERR",
                        "EVENT_DROP"})]

SsapDone == [first |-> "RFDBG_SLE_S3_SERVER_DISCONNECTED",
             second |-> "RFDBG_SLE_S3_DATA_DISCONNECT_OK"]
=============================================================================
