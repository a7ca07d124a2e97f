------------------------ MODULE MCConnectivityMatrix ------------------------
(***************************************************************************)
(* A matrix of two hardware runs, with and without a peer, and analyses of *)
(* directories whose first log is a good one with one defect.              *)
(***************************************************************************)
EXTENDS ConnectivityMatrix, UartFixtures

NoIdentity == [manifest |-> {}, elf |-> {}, profile |-> {}]
GoodIdentity == [manifest |-> {ArtifactIdentity("elf1", "sta")},
                 elf |-> {"elf1"}, profile |-> {"sta"}]
Identities ==
  {NoIdentity, GoodIdentity,
   [GoodIdentity EXCEPT !.elf = {"elf2"}],
   [GoodIdentity EXCEPT !.profile = {}],
   [GoodIdentity EXCEPT !.manifest = {[schema |-> "hisi-connectivity-artifact/v1"]}]}

O(analyze, profile, stage) ==
  [analyze |-> analyze, files |-> <<>>, profile |-> profile, stage |-> stage, runs |-> 2,
   apMode |-> "none", contract |-> TRUE, limit |-> 0, fixture |-> FALSE,
   calibration |-> FALSE, paired |-> FALSE,
   identity |-> NoIdentity, peerIdentity |-> NoIdentity]

HardwareOptions ==
  LET o == O(FALSE, "rust", "connectivity")
  IN  {[o EXCEPT !.paired = TRUE, !.runs = 1], [o EXCEPT !.contract = FALSE]}
      \cup {[o EXCEPT !.runs = 1, !.identity = i, !.contract = FALSE] :
              i \in Identities \ {NoIdentity}}
      \cup {[o EXCEPT !.apMode = "transition", !.profile = "official-liteos"]}

-----------------------------------------------------------------------------
(* What a target prints.  A boot marker may be lost to line noise.         *)
Connected == <<ScanSuccessLog, LocalSuccessLog, PublicSuccessLog>>
MCScripts ==
  { << <<Plain(Boot)>> >> \o Connected, Connected,
    << <<Plain(Boot)>>, ScanSuccessLog, <<Plain(Boot)>> \o ScanSuccessLog,
       LocalSuccessLog >>,
    << <<Plain(Boot)>>, <<Plain("RF2_INIT_ERR:")>> >> }

PeerGood == << Plain(Boot), Plain("RFDBG_SOFTAP_READY"),
               ReadyOwnershipLine("RFDBG_SOFTAP_SCHED", 0) >>
MCPeerScripts == { << PeerGood >>, << <<Plain(Boot)>> >> }

-----------------------------------------------------------------------------
(* A log with one defect: a line lost, two swapped, a field cut off or     *)
(* counting differently, or a line that should not be there.               *)
Drops(s) == {RemoveAt(s, i) : i \in DOMAIN s}
Swaps(s) == {[s EXCEPT ![i] = s[i + 1], ![i + 1] = s[i]] : i \in 1 .. Len(s) - 1}
Without(f, k) == [x \in DOMAIN f \ {k} |-> f[x]]
Cuts(s) == UNION {{[s EXCEPT ![i].v = Without(s[i].v, k)] : k \in DOMAIN s[i].v}
                  \cup {[s EXCEPT ![i].t = Without(s[i].t, k)] : k \in DOMAIN s[i].t} :
                    i \in DOMAIN s}
Flips(s) == UNION {{[s EXCEPT ![i].v[k] = IF @ = 0 THEN 1 ELSE 0] :
                      k \in DOMAIN s[i].v} : i \in DOMAIN s}
Extra == {Plain(m) : m \in RustFatal}
         \cup {ReadyOwnershipLine("RFDBG_A5B_SCHED", 1),
               Line("RFDBG_A5B_SCHED", [ready_dup |-> 1], None),
               Line("RFDBG_A5B_RUNNER_ELAPSED_MS", [value |-> 50], None),
               Plain(Fixture), Plain("RF5C_LOCAL_DATA_PATH_ERR"),
               Line("RF5B_WPA_CONNECT_ERR:", None, [code |-> "0x00001451"]),
               Line("RF5C_PUBLIC_DNS_SKIP", None, [reason |-> "no-default-route"]),
               Line("W2E_WPA3_CONNECT_OK", None, [pmf |-> "optional"]),
               Plain(OfficialDhcp), Plain("wifi:auth fail[5201]"),
               Plain("APP|[WIFI_STA_SAMPLE]::Connect fail!.")}
Defects(s) == {s} \cup Drops(s) \cup Swaps(s) \cup Cuts(s) \cup Flips(s)
              \cup {Append(s, x) : x \in Extra}

(* Two samples of the counters of a local echo, which may have wrapped.    *)
EchoSample(phase, seq, n) ==
  Line("RFDBG_LOCAL_ECHO_PATH", [sequence |-> seq, mac_rx |-> n], [phase |-> phase])
EchoLog(a, b) == ConnectivitySuccessLog
                 \o <<EchoSample("send", 1, a), EchoSample("receive", 1, b)>>
PeerEcho(n) == PeerGood \o
  << Line("RFDBG_SOFTAP_ECHO_PATH", [sequence |-> n, vendor_tx_delta |-> 1], None),
     Line("RFDBG_SOFTAP_STATE", Const(Irq45Fields, n), None) >>

File(s, peer) == [log |-> s, peer |-> peer, booted |-> FALSE, mixed |-> FALSE]


Analyze(o, S) == {[o EXCEPT !.files = <<f, File(ConnectivitySuccessLog, {})>>] :
                    f \in {File(s, {}) : s \in S}}

AnalyzeOptions ==
  LET o == O(TRUE, "rust", "connectivity")
      connect == O(TRUE, "rust", "connect")
      official == O(TRUE, "official-liteos", "connectivity")
  IN  {o}
      \cup Analyze(o, Defects(ConnectivitySuccessLog))
      \cup Analyze([o EXCEPT !.calibration = TRUE],
                   Defects(ResourceCalibrationLog \o ConnectivitySuccessLog))
      \cup Analyze([connect EXCEPT !.limit = 40], Defects(A5bSuccessLog))
      \cup Analyze([connect EXCEPT !.contract = FALSE, !.apMode = "pure-wpa3"],
                   Drops(A5bSuccessLog))
      \cup Analyze(O(TRUE, "rust", "init-scan"), Defects(ScanSuccessLog))
      \cup Analyze([o EXCEPT !.contract = FALSE],
                   {Append(ScanSuccessLog, x) : x \in Extra})
      \cup Analyze(official, {<<x>> : x \in Extra \cup {Plain(OfficialConnected)}})
      \cup {[o EXCEPT !.files = <<File(EchoLog(a, b), {PeerEcho(n)}),
                                 File(EchoLog(0, 1), {PeerEcho(1)})>>] :
              a \in {0, 1, Word - 1}, b \in {0, 1, Word - 1}, n \in {0, 1}}
      \cup {[o EXCEPT !.files = <<File(ConnectivitySuccessLog, {p})>>] :
              p \in Defects(PeerGood)}

MCOptions == HardwareOptions \cup AnalyzeOptions
=============================================================================
