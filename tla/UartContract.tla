---------------------------- MODULE UartContract ----------------------------
(***************************************************************************)
(* How hil/ws63-connectivity-reset-matrix.py reads one boot's UART log:    *)
(* the parsers, the fail-closed contract and the verdict.  A log is a      *)
(* sequence of lines; a line has the marker m that its text contains, the  *)
(* key=0x... fields v and the key=text fields t that follow it, and stale,  *)
(* whether an earlier boot printed it, which no parser sees.  A line       *)
(* that the UART cut short has lost fields from its end.                   *)
(***************************************************************************)
EXTENDS Integers, FiniteSets, SequencesExt

CONSTANT Word        \* the counters are unsigned and wrap at this modulus

ASSUME WordAssumption == Word \in Nat \ {0}

None == [x \in {} |-> 0]
Line(m, v, t) == [m |-> m, v |-> v, t |-> t, stale |-> FALSE]
Plain(m) == Line(m, None, None)
Has(log, m) == \E i \in DOMAIN log : log[i].m = m
HasAny(log, S) == \E i \in DOMAIN log : log[i].m \in S
Fielded(line, S) == line.m \in S /\ (DOMAIN line.v # {} \/ DOMAIN line.t # {})
TextIs(line, k, x) == k \in DOMAIN line.t /\ line.t[k] = x
Field(f, k) == IF k \in DOMAIN f THEN f[k] ELSE 0
If(cond, violation) == IF cond THEN {violation} ELSE {}

LastPrefixed(log, S) == SelectLastInSeq(log, LAMBDA l : Fielded(l, S))

(* parse_hex_fields and parse_text_fields of the last such line.           *)
Values(log, m) == LET i == LastPrefixed(log, {m})
                  IN  IF i = 0 THEN None ELSE log[i].v
Texts(log, m) == LET i == LastPrefixed(log, {m})
                 IN  IF i = 0 THEN None ELSE log[i].t

-----------------------------------------------------------------------------
(* The markers.                                                            *)
StationConnected ==
  {"RF5B_WPA_CONNECT_OK", "W2D_WPA2_CONNECT_OK", "W2E_WPA3_CONNECT_OK"}

ConnectErrors ==
  {"RF5B_WPA_CONNECT_ERR:", "RF5B_CONNECT_ERR:", "W2D_WPA2_CONNECT_ERR",
   "W2E_WPA3_CONNECT_ERR", "RFDBG_A5B_CONNECT_ERR", "A4_NET_ERR"}

RustFailures ==
  ConnectErrors \cup {"RFDBG_A5B_SCAN_ERR", "RF5B_AP_NOT_FOUND",
                      "RF3_SCAN_ERR", "RF2_INIT_ERR:", "RFDBG_EXCEPTION"}

RustTimed ==
  StationConnected \cup
  {"RFDBG_A5B_SCAN_OK", "RFDBG_A5B_CONNECT_OK", "RFDBG_A5B_CONNECT_PROFILE_OK",
   "RF1_IMAGE_OK", "RF2_INIT_OK", "RF3_SCAN_OK", "RF5B_CONNECT_BEGIN",
   "RF5A_DHCP_OK", "RF5A_ARP_OK", "RF5C_PUBLIC_DNS_BEGIN",
   "RF5C_PUBLIC_DNS_OK", "RF5C_PUBLIC_DNS_SKIP", "RF5C_CONNECTIVITY_SUMMARY"}

OfficialDhcp == "APP|[WIFI_STA_SAMPLE]::STA DHCP success."
OfficialConnected == "+NOTICE:CONNECTED"

OfficialTimed ==
  {"APP|[WIFI_STA_SAMPLE]::wifi init succ.",
   "APP|[WIFI_STA_SAMPLE]::Scan start!", "APP|[WIFI_STA_SAMPLE]::Scan done!.",
   "APP|[WIFI_STA_SAMPLE]::Connect start.", "wifi:rx auth seq 2 alg 0 code 0",
   OfficialConnected, OfficialDhcp}

A5bSections ==
  [event_queue |-> [m |-> "RFDBG_A5B_EVENT",
     fields |-> {"pending", "high_water", "dropped"}],
   control_queue |-> [m |-> "RFDBG_A5B_CONTROL",
     fields |-> {"pending", "high_water"}],
   runner |-> [m |-> "RFDBG_A5B_RUNNER",
     fields |-> {"run", "waits", "wake", "immediate", "operations",
                 "completed", "pending", "exhausted", "errors"}],
   wait |-> [m |-> "RFDBG_A5B_WAIT",
     fields |-> {"backend", "l2", "waker", "polls", "pending", "ready",
                 "timer"}],
   blocking |-> [m |-> "RFDBG_A5B_BLOCKING",
     fields |-> {"init_calls", "init_max_ms", "scan_calls", "poll_calls",
                 "internal_sleep", "supplicant_poll"}]]

RustFatal ==
  RustFailures \cup {"RFDBG_A5B_RUNNER_ERR", "RFDBG_A5B_WAIT_ERR",
                     "RF5C_PUBLIC_DNS_ERR", "panicked at",
                     "scheduler contract violation", "BUDGET_VIOLATION"}

Fixture == "RFDBG_CONNECTIVITY_CONTRACT_FIXTURE"
PublicDnsTargets == {"223.5.5.5", "180.76.76.76"}
L2Fields == {"rx_arp_req", "rx_arp_reply", "rx_ipv4", "rx_other",
             "tx_arp_req", "tx_arp_reply", "tx_ipv4", "tx_other"}
Irq45Fields == {"irq45_en_calls", "irq45_dis_calls", "irq45_clr_calls",
                "irq45", "irq45_enabled", "irq45_pending"}
OwnershipFields == {"ready_owner_err", "ready_dup", "ready_wrong_bucket",
                    "ready_bad_link"}

InitScanStages ==
  << [name |-> "image", any |-> {"RF1_IMAGE_OK"}],
     [name |-> "initialize", any |-> {"RF2_INIT_OK"}],
     [name |-> "initialized_event", any |-> {"A4_RADIO_EVENT kind=initialized"}],
     [name |-> "scan", any |-> {"RF3_SCAN_OK"}],
     [name |-> "scan_event", any |-> {"A4_RADIO_EVENT kind=scan-completed"}] >>

ConnectivityStages ==
  InitScanStages \o
  << [name |-> "connect", any |-> StationConnected],
     [name |-> "connected_event", any |-> {"A4_RADIO_EVENT kind=connected"}],
     [name |-> "dhcp", any |-> {"RF5A_DHCP_OK"}],
     [name |-> "neighbor", any |-> {"RF5A_ARP_OK"}],
     [name |-> "local_data_path", any |-> {"RF5C_LOCAL_DATA_PATH_OK"}],
     [name |-> "summary", any |-> {"RF5C_CONNECTIVITY_SUMMARY"}],
     [name |-> "steady", any |-> {"A4_NET_RUNNER_STEADY"}],
     [name |-> "dhcp_renew", any |-> {"A4_DHCP_RENEW_OK"}] >>

RustStages(stage) == CASE stage = "init-scan" -> InitScanStages
                       [] stage = "connectivity" -> ConnectivityStages
                       [] stage = "connect" -> <<>>

-----------------------------------------------------------------------------
(* The parsers.                                                            *)

(* parse_dns_summary: the last of the three outcomes.                      *)
DnsLines == {"RF5C_PUBLIC_DNS_OK", "RF5C_PUBLIC_DNS_ERR", "RF5C_PUBLIC_DNS_SKIP"}
DnsSummary(log) ==
  LET i == LastPrefixed(log, DnsLines)
  IN  IF i = 0 THEN {}
      ELSE {[status |-> CASE log[i].m = "RF5C_PUBLIC_DNS_OK" -> "ok"
                          [] log[i].m = "RF5C_PUBLIC_DNS_ERR" -> "error"
                          [] log[i].m = "RF5C_PUBLIC_DNS_SKIP" -> "skipped",
             v |-> log[i].v, t |-> log[i].t]}

DetectedApMode(log) ==
  LET seen == {mode \in {"pure-wpa3", "transition"} :
                 \E i \in DOMAIN log : /\ log[i].m = "W2E_AP_SECURITY"
                                       /\ TextIs(log[i], "mode", mode)}
  IN  IF seen = {} THEN "none"
      ELSE IF "pure-wpa3" \in seen THEN "pure-wpa3" ELSE "transition"

(* Heap counters are named by the arena and the quantity: rtos_used.       *)
HeapKey(arena, quantity) == arena \o "_" \o quantity

HeapViolations(heap, arena) ==
  LET size == Field(heap, HeapKey(arena, "arena"))
      used == Field(heap, HeapKey(arena, "used"))
      peak == Field(heap, HeapKey(arena, "peak"))
  IN  If(size <= 0, <<"invalid", arena, "arena">>)
      \cup If(used + Field(heap, HeapKey(arena, "free")) # size,
              <<"invalid", arena, "used_free">>)
      \cup If(peak < used \/ peak > size, <<"invalid", arena, "peak">>)
      \cup If(Field(heap, HeapKey(arena, "failures")) # 0,
              <<"nonzero", arena, "failures">>)

ResourceCalibration(log) ==
  LET r == LastPrefixed(log, {"RFDBG_RESOURCE"})
      h == LastPrefixed(log, {"RFDBG_HEAP"})
      text == Texts(log, "RFDBG_RESOURCE")
      resource == Values(log, "RFDBG_RESOURCE")
      heap == Values(log, "RFDBG_HEAP")
      Declared(arena) == Field(resource, IF arena = "rtos" THEN "runtime_arena"
                                         ELSE "rf_arena")
      violations ==
        If(r = 0, <<"missing", "resource_contract">>)
        \cup If(h = 0, <<"missing", "heap_metrics">>)
        \cup {<<"missing", "resource", k>> :
                k \in IF r = 0 THEN {} ELSE {"schema", "revision"} \ DOMAIN text}
        \cup {<<"invalid", "resource", a>> :
                a \in {b \in {"rtos", "rf"} : r # 0 /\ Declared(b) <= 0}}
        \cup (UNION {HeapViolations(heap, a) :
                       a \in IF h = 0 THEN {} ELSE {"rtos", "rf"}})
        \cup {<<"mismatch", a, "arena">> :
                a \in {b \in {"rtos", "rf"} :
                         /\ r # 0 /\ h # 0
                         /\ \/ HeapKey(b, "arena") \notin DOMAIN heap
                            \/ heap[HeapKey(b, "arena")] # Declared(b)}}
  IN  IF r = 0 /\ h = 0 THEN {}
      ELSE {[heap |-> heap, violations |-> violations]}

(* parse_ready_ownership: each counter from the newest snapshot that still *)
(* has it; a SoftAP's snapshots only when there is none of the station.    *)
OwnershipLines(log) ==
  IF \E i \in DOMAIN log : Fielded(log[i], {"RFDBG_A5B_SCHED"})
  THEN {"RFDBG_A5B_SCHED"} ELSE {"RFDBG_SOFTAP_SCHED"}

(* Mutant: the oldest snapshot wins.                                       *)
ReadyOwnershipOldestFirst(log) ==
  LET S == OwnershipLines(log)
      With(f) == {i \in DOMAIN log : Fielded(log[i], S) /\ f \in DOMAIN log[i].v}
  IN  IF LastPrefixed(log, S) = 0 THEN {}
      ELSE {[f \in {g \in OwnershipFields : With(g) # {}} |->
               log[Min(With(f))].v[f]]}

ReadyOwnership(log) ==
  LET S == OwnershipLines(log)
      With(f) == {i \in DOMAIN log : Fielded(log[i], S) /\ f \in DOMAIN log[i].v}
  IN  IF LastPrefixed(log, S) = 0 THEN {}
      ELSE {[f \in {g \in OwnershipFields : With(g) # {}} |->
               log[Max(With(f))].v[f]]}

ReadyOwnershipViolations(log, role) ==
  IF ReadyOwnership(log) = {} THEN {<<"missing", role, "ready_ownership">>}
  ELSE LET snapshot == CHOOSE s \in ReadyOwnership(log) : TRUE
       IN  {<<"missing", role, f>> : f \in OwnershipFields \ DOMAIN snapshot}
           \cup {<<"nonzero", role, f>> :
                   f \in {g \in DOMAIN snapshot : snapshot[g] # 0}}

(* parse_a5b_metrics: the trailer of an A5B boot.                          *)
TimingLines(disconnect) ==
  {"RFDBG_A5B_INITIALIZE_OK", "RFDBG_A5B_SCAN_OK", "RFDBG_A5B_CONNECT_OK"}
  \cup IF disconnect THEN {"RFDBG_A5B_DISCONNECT_OK"} ELSE {}

SectionSeen(log) ==
  \E s \in DOMAIN A5bSections : LastPrefixed(log, {A5bSections[s].m}) # 0

RunnerSteps(log) ==
  {log[i].v["value"] : i \in {j \in DOMAIN log :
     log[j].m = "RFDBG_A5B_RUNNER_ELAPSED_MS" /\ "value" \in DOMAIN log[j].v}}

A5bMetrics(log, disconnect) ==
  LET missing ==
        (UNION {IF LastPrefixed(log, {A5bSections[s].m}) = 0 THEN {<<s>>}
                ELSE {<<s, f>> : f \in A5bSections[s].fields
                                       \ DOMAIN Values(log, A5bSections[s].m)} :
                s \in DOMAIN A5bSections})
        \cup {<<m>> : m \in {l \in TimingLines(disconnect) :
                               "elapsed_ms" \notin DOMAIN Values(log, l)}}
        \cup If(Field(Values(log, "RFDBG_A5B_CONNECT_ASSOC_IOCTL"), "values") # 12,
                <<"association_ioctl">>)
        \cup If(RunnerSteps(log) = {}, <<"runner_step_elapsed">>)
  IN  IF ~SectionSeen(log) THEN {}
      ELSE {[missing |-> missing,
             values |-> [s \in {t \in DOMAIN A5bSections : \A f \in
                                  A5bSections[t].fields :
                                    f \in DOMAIN Values(log, A5bSections[t].m)} |->
                           Values(log, A5bSections[s].m)],
             step |-> IF RunnerSteps(log) = {} THEN 0
                      ELSE Max(RunnerSteps(log))]}

MetricsComplete(metrics) == \E x \in metrics : x.missing = {}

A5bViolations(log, limit, disconnect) ==
  LET metrics == A5bMetrics(log, disconnect)
      x == CHOOSE y \in metrics : TRUE
      blocking == x.values.blocking
  IN  IF ~Has(log, "RFDBG_A5B_CONNECT_PROFILE_OK")
      THEN If(limit # 0, <<"missing", "a5b_connect_profile">>)
      ELSE IF ~MetricsComplete(metrics) THEN {<<"a5b_metrics_incomplete">>}
      ELSE If(x.values.event_queue.dropped # 0, <<"nonzero", "dropped">>)
           \cup If(x.values.runner.errors # 0, <<"nonzero", "errors">>)
           \cup {<<"nonzero", f>> : f \in
                   {g \in {"scan_calls", "poll_calls", "internal_sleep",
                           "supplicant_poll"} : blocking[g] # 0}}
           \cup If(limit # 0 /\ x.step > limit, <<"budget", "runner_step">>)

L2Protocol(log) ==
  LET v == Values(log, "RFDBG_A5B_L2")
  IN  IF LastPrefixed(log, {"RFDBG_A5B_L2"}) = 0 THEN {}
      ELSE {[f \in L2Fields \cap DOMAIN v |-> v[f]]}

(* The snapshots of a log, in the order in which they were printed.        *)
Snapshots(log, m) ==
  LET samples[i \in 0 .. Len(log)] ==
        IF i = 0 THEN <<>>
        ELSE IF Fielded(log[i], {m}) THEN Append(samples[i - 1], log[i])
        ELSE samples[i - 1]
  IN  samples[Len(log)]

LocalEchoMarker == "RFDBG_LOCAL_ECHO_PATH"
LocalEchoPath(log) == Snapshots(log, LocalEchoMarker)
SoftapEchoPath(log) == Snapshots(log, "RFDBG_SOFTAP_ECHO_PATH")

Irq45Lifecycle(log, m) ==
  LET v == Values(log, m)
  IN  IF Irq45Fields \subseteq DOMAIN v THEN {[f \in Irq45Fields |-> v[f]]} ELSE {}

(* correlate_echo_paths: the sequence numbers on both sides of the air.    *)
SequencesOf(samples, phases) ==
  {samples[i].v["sequence"] : i \in {j \in DOMAIN samples :
     /\ "sequence" \in DOMAIN samples[j].v
     /\ phases # {} => \E p \in phases : TextIs(samples[j], "phase", p)}}

EchoCorrelation(sta, ap) ==
  LET sent == SequencesOf(sta, {"send"})
      received == SequencesOf(sta, {"receive"})
      observed == SequencesOf(ap, {})
      submitted == SequencesOf(SelectSeq(ap, LAMBDA s :
                                 Field(s.v, "vendor_tx_delta") > 0), {})
  IN  IF sta = <<>> \/ ap = <<>> THEN {}
      ELSE {[sta_sent |-> sent, sta_received |-> received,
             ap_observed |-> observed, ap_submitted |-> submitted,
             sent_missing_at_ap |-> sent \ observed,
             ap_without_sta_send |-> observed \ sent,
             submitted_without_sta_receive |-> submitted \ received]}
=============================================================================
