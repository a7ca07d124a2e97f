---------------------------- MODULE UartVerdict -----------------------------
(***************************************************************************)
(* The contract, the verdict, the record of one run and the summary of a   *)
(* matrix (hil/ws63-connectivity-reset-matrix.py).  The command line o is  *)
(* a record: profile, stage, apMode ("none" when not given), contract      *)
(* (--require-contract), limit (--max-runner-step-ms, 0 when not given),   *)
(* fixture and calibration.                                                *)
(***************************************************************************)
EXTENDS UartContract

(* marker_group_position: the first of the group's markers after a line.   *)
GroupPosition(log, group, after) ==
  LET found == {i \in DOMAIN log : i > after /\ log[i].m \in group}
  IN  IF found = {} THEN 0 ELSE Min(found)

(* Each stage is looked for from the previous one's position on; one that  *)
(* is not found is reported and leaves the cursor where it is.  The        *)
(* code's out_of_order branch cannot be reached: the search starts there.  *)
NextCursor(log, group, cursor) ==
  LET position == GroupPosition(log, group, cursor)
  IN  IF position = 0 THEN cursor ELSE position

StageViolations(log, stages) ==
  LET cursor[k \in 0 .. Len(stages)] ==
        IF k = 0 THEN 0 ELSE NextCursor(log, stages[k].any, cursor[k - 1])
      lost == {k \in 1 .. Len(stages) : GroupPosition(log, stages[k].any, cursor[k - 1]) = 0}
  IN  {<<"missing", stages[k].name>> : k \in lost}

SummaryFields ==
  {"arp_request", "arp_reply", "dns_attempts", "dns_responses", "dns_invalid",
   "dns_tx_error", "rx_queue_drop"}

SummaryViolations(log) ==
  LET s == Values(log, "RF5C_CONNECTIVITY_SUMMARY")
      skipped == \E i \in DOMAIN log :
                   /\ log[i].m = "RF5C_PUBLIC_DNS_SKIP"
                   /\ TextIs(log[i], "reason", "no-default-route")
      dns == {"dns_attempts", "dns_responses"}
      positive == {"arp_request", "arp_reply"} \cup IF skipped THEN {} ELSE dns
      zero == {"dns_tx_error", "rx_queue_drop"} \cup IF skipped THEN dns ELSE {}
  IN  IF LastPrefixed(log, {"RF5C_CONNECTIVITY_SUMMARY"}) = 0 THEN {}
      ELSE {<<"missing", "summary", f>> : f \in SummaryFields \ DOMAIN s}
           \cup {<<"invalid", "summary", f>> : f \in {g \in positive : Field(s, g) <= 0}}
           \cup {<<"nonzero", "summary", f>> : f \in {g \in zero : Field(s, g) # 0}}

DnsViolations(dns) ==
  IF dns.status = "skipped"
  THEN If(~TextIs(dns, "reason", "no-default-route"), <<"invalid", "skip_reason">>)
  ELSE If(~\E t \in PublicDnsTargets : TextIs(dns, "target", t), <<"invalid", "target">>)
       \cup If(dns.status # "ok", <<"invalid", "status">>)
       \cup {<<"invalid", f>> : f \in {g \in {"attempts", "responses"} :
                                         Field(dns.v, g) <= 0}}
       \cup If(Field(dns.v, "tx_error") # 0, <<"nonzero", "tx_error">>)

ConnectivityViolations(log) ==
  LET renew == Values(log, "A4_DHCP_RENEW_OK")
  IN  If(~HasAny(log, {"RF5C_PUBLIC_DNS_OK", "RF5C_PUBLIC_DNS_SKIP"}),
         <<"missing", "public_dns">>)
      \cup If(/\ Has(log, "W2E_WPA3_CONNECT_OK")
              /\ \A i \in DOMAIN log : log[i].m = "W2E_WPA3_CONNECT_OK" =>
                                         ~TextIs(log[i], "pmf", "required"),
              <<"invalid", "pmf">>)
      \cup SummaryViolations(log)
      \cup (UNION {DnsViolations(dns) : dns \in DnsSummary(log)})
      \cup IF LastPrefixed(log, {"A4_DHCP_RENEW_OK"}) = 0 THEN {}
           ELSE {<<"invalid", "renew", f>> :
                   f \in {g \in {"client", "server"} : Field(renew, g) <= 0}}

(* validate_rust_contract.                                                 *)
RustContract(log, o) ==
  If(o.fixture /\ ~Has(log, Fixture), <<"missing", "fixture">>)
  \cup If(~o.fixture /\ Has(log, Fixture), <<"forbidden", "fixture">>)
  \cup {<<"fatal", m>> : m \in {f \in RustFatal : Has(log, f)}}
  \cup StageViolations(log, RustStages(o.stage))
  \cup If(/\ RustStages(o.stage) # <<>>
          /\ LastPrefixed(log, {"RF3_SCAN_OK"}) # 0
          /\ Field(Values(log, "RF3_SCAN_OK"), "count") <= 0, <<"invalid", "count">>)
  \cup (IF o.stage = "init-scan" THEN {}
        ELSE ReadyOwnershipViolations(log, "sta")
             \cup A5bViolations(log, o.limit, o.stage = "connect"))
  \cup If(/\ o.stage = "connect"
          /\ ~HasAny(log, StationConnected \cup {"RFDBG_A5B_CONNECT_PROFILE_OK"}),
          <<"missing", "connect">>)
  \cup (IF o.stage = "connectivity" THEN ConnectivityViolations(log) ELSE {})
  \cup (IF ~o.calibration THEN {}
        ELSE LET c == ResourceCalibration(log)
             IN  If(c = {}, <<"missing", "calibration">>)
                 \cup UNION {x.violations : x \in c})

-----------------------------------------------------------------------------
(* classify: the first rule that applies.                                  *)
FirstOf(rules) ==
  rules[CHOOSE i \in DOMAIN rules :
          rules[i][1] /\ \A j \in 1 .. i - 1 : ~rules[j][1]][2]

OfficialVerdict(log, o) ==
  FirstOf(<< <<o.stage = "connect" /\ Has(log, OfficialConnected), "pass">>,
             <<Has(log, OfficialDhcp), "pass">>,
             <<Has(log, "wifi:auth fail[5201]"), "auth_rsp2_timeout">>,
             <<Has(log, "APP|[WIFI_STA_SAMPLE]::Connect fail!."), "connect_error">>,
             <<TRUE, "capture_timeout">> >>)

Succeeded(log, stage) ==
  \/ /\ stage = "init-scan"
     /\ HasAny(log, {"RF3_SCAN_OK", "RFDBG_A5B_SCAN_PROFILE_OK"})
  \/ /\ stage = "connect"
     /\ HasAny(log, StationConnected \cup {"RFDBG_A5B_CONNECT_PROFILE_OK"})
  \/ Has(log, "RF5C_LOCAL_DATA_PATH_OK")

RustVerdict(log, o) ==
  LET ap == DetectedApMode(log)
  IN  FirstOf(
    << <<o.apMode # "none" /\ ap # "none" /\ ap # o.apMode, "wrong_ap_mode">>,
       <<o.apMode # "none" /\ ap = "none" /\
         (\/ HasAny(log, {"W2E_WPA3_CONNECT_OK", "RFDBG_A5B_CONNECT_PROFILE_OK"})
          \/ DnsSummary(log) # {}), "missing_ap_mode">>,
       <<Has(log, "RF5C_LOCAL_DATA_PATH_ERR"), "local_data_path_failure">>,
       <<Has(log, "RF5C_PUBLIC_DNS_ERR"), "public_dns_failure">>,
       <<\E i \in DOMAIN log : /\ log[i].m = "RF5B_WPA_CONNECT_ERR:"
                               /\ TextIs(log[i], "code", "0x00001451"),
         "auth_rsp2_timeout">>,
       <<HasAny(log, ConnectErrors), "connect_error">>,
       <<Has(log, "RF5B_AP_NOT_FOUND"), "ap_not_found">>,
       <<HasAny(log, {"RF3_SCAN_ERR", "RFDBG_A5B_SCAN_ERR"}), "scan_error">>,
       <<Has(log, "RF2_INIT_ERR:"), "init_error">>,
       <<Has(log, "RFDBG_EXCEPTION"), "exception">>,
       <<Has(log, "RFDBG_A5B_CONNECT_PROFILE_OK") /\
         ~MetricsComplete(A5bMetrics(log, o.stage = "connect")),
         "missing_a5b_metrics">>,
       <<~Succeeded(log, o.stage), "capture_timeout">>,
       <<(o.contract \/ o.calibration) /\ RustContract(log, o) # {},
         "contract_violation">>,
       <<TRUE, "pass">> >>)

Verdict(log, o) ==
  IF o.profile = "official-liteos" THEN OfficialVerdict(log, o)
                                   ELSE RustVerdict(log, o)

-----------------------------------------------------------------------------
(* record_from_log.  peer is the other board's log, {} without one.        *)
PeerViolations(peer, o) ==
  IF ~o.contract THEN {}
  ELSE UNION {If(~Has(p, "RFDBG_SOFTAP_READY"), <<"missing", "peer_ready">>)
              \cup ReadyOwnershipViolations(p, "peer") : p \in peer}

RecordFromLog(log, peer, o) ==
  LET own == IF (o.contract \/ o.calibration) /\ o.profile = "rust"
             THEN RustContract(log, o) ELSE {}
      violations == own \cup PeerViolations(peer, o)
      verdict == Verdict(log, o)
      peerLog == IF peer = {} THEN <<>> ELSE CHOOSE p \in peer : TRUE
      echo == LocalEchoPath(log)
      peerEcho == SoftapEchoPath(peerLog)
  IN  [result |-> IF verdict = "pass" /\ violations # {}
                  THEN "contract_violation" ELSE verdict,
       required |-> o.contract \/ o.calibration,
       violations |-> violations,
       ap_mode |-> DetectedApMode(log),
       dns |-> DnsSummary(log),
       l2_protocol |-> L2Protocol(log),
       local_echo_path |-> echo,
       irq45_lifecycle |-> Irq45Lifecycle(log, "RFDBG_A5B_DATA_PATH"),
       peer_irq45_lifecycle |-> Irq45Lifecycle(peerLog, "RFDBG_SOFTAP_STATE"),
       ready_ownership |-> ReadyOwnership(log),
       peer_ready_ownership |-> ReadyOwnership(peerLog),
       echo_correlation |-> EchoCorrelation(echo, peerEcho),
       a5b_metrics |-> A5bMetrics(log, o.stage = "connect"),
       resource_calibration |-> ResourceCalibration(log)]

-----------------------------------------------------------------------------
(* The aggregates of a matrix's records.                                   *)
MinMax(S) == [min |-> Min(S), max |-> Max(S)]
Ranges(samples, fields) ==
  [f \in {g \in fields : \E x \in samples : g \in DOMAIN x} |->
     MinMax({x[f] : x \in {y \in samples : f \in DOMAIN y}})]

(* aggregate_l2_protocol_diagnostics, aggregate_irq45_lifecycle            *)
L2Ranges(records) ==
  Ranges(UNION {records[i].l2_protocol : i \in DOMAIN records}, L2Fields)

AggregateIrq45(records, key) ==
  LET seen == {i \in DOMAIN records : records[i][key] # {}}
      Of(i) == CHOOSE x \in records[i][key] : TRUE
  IN  [disabled |-> Cardinality({i \in seen : Of(i)["irq45_enabled"] = 0}),
       pending |-> Cardinality({i \in seen : Of(i)["irq45_pending"] # 0}),
       ranges |-> Ranges({Of(i) : i \in seen}, Irq45Fields)]

(* Mutant: the difference of the samples as it is.                         *)
EchoStepsSigned(samples, f) ==
  {samples[i + 1].v[f] - samples[i].v[f] :
     i \in {j \in 1 .. Len(samples) - 1 :
              f \in DOMAIN samples[j].v /\ f \in DOMAIN samples[j + 1].v}}

(* aggregate_local_echo_path: the advance of each counter between the      *)
(* samples of a run, modulo the counters' width.                           *)
EchoSteps(samples, f) ==
  {(samples[i + 1].v[f] - samples[i].v[f]) % Word :
     i \in {j \in 1 .. Len(samples) - 1 :
              f \in DOMAIN samples[j].v /\ f \in DOMAIN samples[j + 1].v}}

AggregateLocalEcho(records) ==
  LET runs == {i \in DOMAIN records : records[i].local_echo_path # <<>>}
      Samples(i) == records[i].local_echo_path
      counters == (UNION {UNION {DOMAIN Samples(i)[j].v : j \in DOMAIN Samples(i)} :
                            i \in runs})
                  \ {"sequence"}
      Steps(f) == UNION {EchoSteps(Samples(i), f) : i \in runs}
  IN  [f \in {c \in counters : Steps(c) # {}} |-> MinMax(Steps(f))]

(* aggregate_echo_correlation                                              *)
EchoTotals(records) ==
  LET runs == {i \in DOMAIN records : records[i].echo_correlation # {}}
      Of(i) == CHOOSE x \in records[i].echo_correlation : TRUE
      fields == {"sta_sent", "sta_received", "ap_observed", "ap_submitted",
                 "sent_missing_at_ap", "submitted_without_sta_receive"}
  IN  [f \in fields |-> MapThenSumSet(LAMBDA i : Cardinality(Of(i)[f]), runs)]

(* aggregate_a5b_metrics: over the complete trailers only.                 *)
A5bRanges(records) ==
  LET complete == {x \in UNION {records[i].a5b_metrics : i \in DOMAIN records} :
                     x.missing = {}}
  IN  [s \in DOMAIN A5bSections |->
         Ranges({x.values[s] : x \in complete}, A5bSections[s].fields)]

(* ready_ownership_hil_passed                                              *)
ZeroDrift(snapshots) ==
  \E s \in snapshots : \A f \in OwnershipFields : f \in DOMAIN s /\ s[f] = 0

ReadyOwnershipHilPassed(records) ==
  /\ records # <<>>
  /\ \A i \in DOMAIN records :
       /\ records[i].result = "pass"
       /\ records[i].required
       /\ records[i].violations = {}
       /\ ZeroDrift(records[i].ready_ownership)
       /\ ZeroDrift(records[i].peer_ready_ownership)

(* summarize_records                                                       *)
Tally(records, Of(_)) ==
  [k \in {Of(records[i]) : i \in DOMAIN records} |->
     Cardinality({i \in DOMAIN records : Of(records[i]) = k})]

DnsObservation(record) ==
  IF record.dns = {} THEN "missing" ELSE (CHOOSE d \in record.dns : TRUE).status

DnsTotal(records, f) ==
  MapThenSumSet(LAMBDA i : IF records[i].dns = {} THEN 0
                           ELSE Field((CHOOSE d \in records[i].dns : TRUE).v, f),
                DOMAIN records)

(* The least headroom over the runs that reported their heap.              *)
Headroom(records, arena) ==
  LET heaps == {x.heap : x \in UNION {records[i].resource_calibration :
                                        i \in DOMAIN records}}
  IN  IF heaps = {} THEN {}
      ELSE {Min({Field(h, HeapKey(arena, "arena")) - Field(h, HeapKey(arena, "peak")) :
                   h \in heaps})}

SummarizeRecords(records) ==
  [runs |-> Len(records),
   counts |-> Tally(records, LAMBDA r : r.result),
   dns_observations |-> Tally(records, DnsObservation),
   dns_totals |-> [f \in {"attempts", "responses", "invalid", "tx_error"} |->
                     DnsTotal(records, f)],
   a5b_metrics |-> A5bRanges(records),
   l2_protocol |-> L2Ranges(records),
   local_echo_path |-> AggregateLocalEcho(records),
   echo_correlation |-> EchoTotals(records),
   irq45_lifecycle |-> AggregateIrq45(records, "irq45_lifecycle"),
   peer_irq45_lifecycle |-> AggregateIrq45(records, "peer_irq45_lifecycle"),
   headroom |-> [a \in {"rtos", "rf"} |-> Headroom(records, a)],
   ready_ownership_ok |-> ReadyOwnershipHilPassed(records)]

(* Exit status 0: as many passes as there are runs.                        *)
Passes(summary) ==
  IF "pass" \in DOMAIN summary.counts THEN summary.counts["pass"] ELSE 0
=============================================================================
