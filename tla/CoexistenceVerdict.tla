------------------------ MODULE CoexistenceVerdict ------------------------
(***************************************************************************)
(* hil/ws63-coexistence-reset-matrix.py: the verdict of one contract over  *)
(* the log of one board, by markers, by counters and by the newest line of *)
(* each kind that the UART did not cut short.                              *)
(***************************************************************************)
EXTENDS PairedVerdict, FiniteSetsExt

CommonMarkers == Named("RFDBG_COEX_", {"INIT_BEGIN", "RF_POWER_OK", "RTOS_OK", "INIT_OK"})
ScanOk == "RFDBG_COEX_WIFI_SCAN_OK"
LocalEcho == "RFDBG_COEX_LOCAL_ECHO"
SoftapNet == "RFDBG_SOFTAP_NET"
ActivityEvents == "RFDBG_COEX_EVENT_CONSERVATION"
ServerEvents == "RFDBG_COEX_SERVER_EVENT_CONSERVATION"
ActivityResources == "RFDBG_COEX_RESOURCE_ACCEPTANCE"
ServerResources == "RFDBG_COEX_SERVER_RESOURCE_ACCEPTANCE"

RoleMarkers ==
  [ble |-> {"RFDBG_BLE_B1_SHARED_PLATFORM_OK"},
   sle |-> {"RFDBG_SLE_S1_SHARED_PLATFORM_OK"},
   softap |-> {"RFDBG_SOFTAP_READY", "RFDBG_SOFTAP_NET_READY"}]

TrafficContracts ==
  {"wifi-ble-traffic", "wifi-ble-connected-traffic", "wifi-sle-traffic",
   "wifi-sle-connected-traffic"}
AcceptanceContracts == {"wifi-ble-connected-traffic", "wifi-sle-connected-traffic"}
Contracts == {"shared-init", "ble-activity"} \cup TrafficContracts

(* The marker that a contract's active board prints last.                  *)
ActivityDone ==
  [c \in TrafficContracts \cup {"ble-activity"} |->
    CASE c = "ble-activity" -> "RFDBG_COEX_WIFI_BLE_ACTIVITY_OK"
      [] c = "wifi-ble-traffic" -> "RFDBG_COEX_WIFI_BLE_TRAFFIC_OK"
      [] c = "wifi-ble-connected-traffic" -> "RFDBG_COEX_WIFI_BLE_CONNECTED_TRAFFIC_OK"
      [] c = "wifi-sle-traffic" -> "RFDBG_COEX_WIFI_SLE_TRAFFIC_OK"
      [] c = "wifi-sle-connected-traffic" -> "RFDBG_COEX_WIFI_SLE_CONNECTED_TRAFFIC_OK"]

ActivityMarkers(c) ==
  {ActivityDone[c]}
  \cup (IF c \in TrafficContracts THEN {"RFDBG_COEX_WIFI_CONNECT_OK", LocalEcho} ELSE {})
  \cup CASE c \in {"ble-activity", "wifi-ble-traffic"} -> {"RFDBG_COEX_BLE_ADV_ACTIVE"}
         [] c = "wifi-ble-connected-traffic" -> {"RFDBG_COEX_BLE_CONNECTED"}
         [] c = "wifi-sle-traffic" -> {"RFDBG_COEX_SLE_ANNOUNCE_ACTIVE"}
         [] c = "wifi-sle-connected-traffic" -> {"RFDBG_COEX_SLE_CONNECTED"}

CoexFailures ==
  {"panicked at", MissingRom, "RFDBG_SOFTAP_NET_ERR", "scheduler contract violation"}
  \cup Named("RFDBG_COEX_",
    {"INIT_ERR", "WIFI_RUNNER_ERR", "BLE_ADV_ERR", "BLE_CONNECT_ERR",
     "BLE_EVENT_DROP", "BLE_SERVER_ERR", "BLE_SERVER_EVENT_DROP",
     "SLE_ANNOUNCE_ERR", "SLE_EVENT_DROP", "SLE_SERVER_ERR",
     "SLE_SERVER_EVENT_DROP", "WIFI_INITIALIZE_ERR", "WIFI_SCAN_ERR",
     "WIFI_CONNECT_ERR", "LOCAL_ECHO_ERR", "EVENT_ERR", "ACCEPTANCE_ERR"})

-----------------------------------------------------------------------------
(* A marker is in a log when a longer one that begins with it is.          *)
Occurs(log, m) ==
  \/ Has(log, m)
  \/ m = SoftapNet /\ (Has(log, "RFDBG_SOFTAP_NET_READY") \/ Has(log, "RFDBG_SOFTAP_NET_ERR"))
  \/ m = LocalEcho /\ Has(log, "RFDBG_COEX_LOCAL_ECHO_ERR")

(* The fields of each line, in the order of its pattern, which a line that *)
(* was cut short does not match.                                           *)
Fields(m) ==
  CASE m = LocalEcho -> {"sent", "received", "attempts"}
    [] m = SoftapNet -> {"echo_rx", "echo_tx"}
    [] m = ServerEvents -> {"accepted", "consumed", "pending", "dropped", "high_water"}
    [] m = ActivityEvents ->
         {"wifi_accepted", "wifi_consumed", "wifi_pending", "wifi_dropped",
          "wifi_high_water", "protocol_accepted", "protocol_consumed",
          "protocol_pending", "protocol_dropped", "protocol_high_water"}
    [] m \in {ActivityResources, ServerResources} ->
         {"arena", "free", "peak", "failures", "min_free", "max_ready_ms",
          "ready_limit_ms", "max_irq_ms", "irq_limit_ms", "ready_owner_err",
          "ready_dup", "ready_wrong_bucket", "ready_bad_link"}

Matches(log, m) ==
  {i \in DOMAIN log : log[i].m = m /\ Fields(m) \subseteq DOMAIN log[i].v}

(* Mutant: the first line of a kind is judged, not the last.               *)
OldestMatch(log, m) == {log[i].v : i \in {j \in Matches(log, m) :
                                           \A k \in Matches(log, m) : j <= k}}

(* The values of the last line that matches: a set of at most one.         *)
Newest(log, m) == {log[i].v : i \in {j \in Matches(log, m) :
                                       \A k \in Matches(log, m) : j >= k}}

EndpointRoles(contract) ==
  CASE contract = "wifi-ble-traffic" -> [first |-> "ble", second |-> "softap"]
    [] contract = "wifi-ble-connected-traffic" -> [first |-> "softap", second |-> "ble"]
    [] contract \in {"wifi-sle-traffic", "wifi-sle-connected-traffic"} ->
         [first |-> "softap", second |-> "sle"]
    [] OTHER -> [first |-> "ble", second |-> "sle"]

TrafficActivityRole(contract) ==
  CASE contract \in {"wifi-ble-traffic", "wifi-ble-connected-traffic"} -> "ble"
    [] contract \in {"wifi-sle-traffic", "wifi-sle-connected-traffic"} -> "sle"
    [] OTHER -> "none"

Active(contract, role) ==
  \/ contract = "ble-activity" /\ role = "ble"
  \/ contract \in TrafficContracts /\ role = TrafficActivityRole(contract)

RequiredMarkers(contract, role) ==
  IF contract \in TrafficContracts /\ role = "softap"
  THEN RoleMarkers[role] \cup {SoftapNet} \cup
       CASE contract = "wifi-ble-connected-traffic" ->
              Named("RFDBG_COEX_BLE_SERVER_", {"READY", "CONNECTED"})
         [] contract = "wifi-sle-connected-traffic" ->
              Named("RFDBG_COEX_SLE_SERVER_", {"READY", "CONNECTED"})
         [] OTHER -> {}
  ELSE CommonMarkers \cup RoleMarkers[role]
       \cup IF Active(contract, role) THEN ActivityMarkers(contract) ELSE {}

CompletionMarker(contract, role) ==
  CASE Active(contract, role) -> ActivityDone[contract]
    [] ~Active(contract, role) /\ contract \in TrafficContracts -> SoftapNet
    [] OTHER -> "RFDBG_COEX_INIT_OK"

-----------------------------------------------------------------------------
(* classify's tests beyond the markers; each is TRUE when it adds nothing  *)
(* to the list of what is missing.                                         *)
ScansThrice(log) == Count(log, ScanOk) = 3

LocalEchoOk(log) ==
  \E v \in Newest(log, LocalEcho) :
    v.sent = 10 /\ v.received = 10 /\ v.attempts \in 10 .. 30

(* The maxima of the two counters, of whichever lines.                     *)
SoftapEchoOk(log) ==
  /\ \E i \in Matches(log, SoftapNet) : log[i].v.echo_rx >= 10
  /\ \E i \in Matches(log, SoftapNet) : log[i].v.echo_tx >= 10

ActivityEventsOk(log) ==
  \E v \in Newest(log, ActivityEvents) :
    /\ v.wifi_accepted = v.wifi_consumed + v.wifi_pending
    /\ v.protocol_accepted = v.protocol_consumed + v.protocol_pending
    /\ v.wifi_dropped = 0 /\ v.protocol_dropped = 0
    /\ v.wifi_pending <= 8 /\ v.wifi_high_water <= 8
    /\ v.protocol_pending <= 32 /\ v.protocol_high_water <= 32

ServerEventsOk(log) ==
  \E v \in Newest(log, ServerEvents) :
    /\ v.accepted = v.consumed + v.pending
    /\ v.dropped = 0
    /\ v.pending <= 32 /\ v.high_water <= 32

ResourcesOk(log, m) ==
  \E v \in Newest(log, m) :
    /\ v.arena # 0 /\ v.peak <= v.arena /\ v.free >= v.min_free
    /\ v.failures = 0
    /\ v.max_ready_ms <= v.ready_limit_ms /\ v.max_irq_ms <= v.irq_limit_ms
    /\ \A f \in {"ready_owner_err", "ready_dup", "ready_wrong_bucket",
                 "ready_bad_link"} : v[f] = 0

CoexClassify(contract, role, log) ==
  LET traffic == contract \in TrafficContracts
      active == traffic /\ role = TrafficActivityRole(contract)
      softap == traffic /\ role = "softap"
      accepted == contract \in AcceptanceContracts
      events == IF active THEN ActivityEvents ELSE ServerEvents
      resources == IF active THEN ActivityResources ELSE ServerResources
      judged == accepted /\ (active \/ softap)
  IN  [pass |-> /\ \A m \in RequiredMarkers(contract, role) : Occurs(log, m)
                /\ \A m \in CoexFailures : ~Has(log, m)
                /\ Active(contract, role) => ScansThrice(log)
                /\ active => LocalEchoOk(log)
                /\ softap => SoftapEchoOk(log)
                /\ judged => /\ IF active THEN ActivityEventsOk(log)
                                ELSE ServerEventsOk(log)
                             /\ ResourcesOk(log, resources),
       events |-> IF judged THEN Newest(log, events) ELSE {},
       resources |-> IF judged THEN Newest(log, resources) ELSE {}]

CoexPairPasses(contract, logs) ==
  \A s \in {"first", "second"} :
    CoexClassify(contract, EndpointRoles(contract)[s], logs[s]).pass

CoexComplete(contract, logs) ==
  IF contract \in TrafficContracts THEN CoexPairPasses(contract, logs)
  ELSE \A s \in {"first", "second"} :
         Occurs(logs[s], CompletionMarker(contract, EndpointRoles(contract)[s]))

-----------------------------------------------------------------------------
At(f, k) == IF k \in DOMAIN f THEN f[k] ELSE 0

(* The events, or the resources, of both boards of every run, passed or    *)
(* not, each with its place.                                               *)
Snapshots(records, field) ==
  UNION {{<<i, s, v>> : v \in records[i].sides[s][field]} :
           i \in DOMAIN records, s \in {"first", "second"}}

Total(S, k) == MapThenSumSet(LAMBDA e : At(e[3], k), S)
Highest(S, k) == Max({At(e[3], k) : e \in S})

(* summarize_acceptance: a set of at most one.                             *)
SummarizeAcceptance(records) ==
  LET events == Snapshots(records, "events")
      resources == Snapshots(records, "resources")
  IN  IF events = {} \/ resources = {} THEN {}
      ELSE {[event_snapshots |-> Cardinality(events),
             event_dropped_total |-> Total(events, "dropped") + Total(events, "wifi_dropped")
                                     + Total(events, "protocol_dropped"),
             max_event_high_water |-> Max({Highest(events, k) :
                k \in {"high_water", "wifi_high_water", "protocol_high_water"}}),
             min_heap_free |-> Min({e[3].free : e \in resources}),
             max_heap_peak |-> Highest(resources, "peak"),
             allocation_failures_total |-> Total(resources, "failures"),
             max_ready_ms |-> Highest(resources, "max_ready_ms"),
             max_irq_ms |-> Highest(resources, "max_irq_ms")]}
=============================================================================
