------------------------- MODULE ConnectivityMatrix -------------------------
(***************************************************************************)
(* hil/ws63-connectivity-reset-matrix.py: the capture of one boot between  *)
(* two reset pulses, and the matrix around it, on the hardware path and on *)
(* the --analyze-dir path.  The boards and the serial ports run on their   *)
(* own: a board prints the segments of a script while the tool is at any   *)
(* step.  A line is stale when it was printed before the last pulse.       *)
(***************************************************************************)
EXTENDS UartVerdict

CONSTANTS
  Options,      \* the command lines; files is what --analyze-dir holds
  Scripts,      \* what a target may print after a reset: segments of lines
  PeerScripts,  \* what a peer may print after a reset
  MaxUnread     \* bound: lines that wait in a serial port's input buffer

(* What a board prints is whole lines, none of them stale yet; the         *)
(* counters that a line reports are unsigned, those of the echo path wrap  *)
(* at Word.                                                                *)
LinesOf(scripts) == UNION {UNION {ToSet(s[i]) : i \in DOMAIN s} : s \in scripts}
Printed == LinesOf(Scripts)
PeerPrinted == LinesOf(PeerScripts)
Counters(l) ==
  /\ l.v \in [DOMAIN l.v -> Nat]
  /\ l.m = LocalEchoMarker => \A k \in DOMAIN l.v : l.v[k] < Word

ASSUME ScriptsAssumption ==
  /\ Scripts \subseteq Seq(Seq(Printed)) /\ PeerScripts \subseteq Seq(Seq(PeerPrinted))
  /\ \A l \in Printed : {"m", "v", "stale"} \subseteq DOMAIN l /\ ~l.stale
  /\ \A l \in Printed \cup PeerPrinted : Counters(l)

(* Files come with --analyze-dir alone, and are logs that boards printed,  *)
(* one of each board and run; a manifest is one JSON object.               *)
WholeLog(lines) == lines \in Seq(ToSet(lines)) /\ \A l \in ToSet(lines) : Counters(l)
WholeFile(f) == WholeLog(f.log) /\ \A p, q \in f.peer : WholeLog(p) /\ p = q

ASSUME OptionsAssumption ==
  \A o \in Options :
    /\ o.runs \in Int /\ o.limit \in Int
    /\ o.stage \in {"init-scan", "connect", "connectivity"}
    /\ o.files \in Seq(ToSet(o.files)) /\ (~o.analyze => o.files = <<>>)
    /\ \A f \in ToSet(o.files) : WholeFile(f)
    /\ \A id \in {o.identity, o.peerIdentity} : \A m, n \in id.manifest :
         m = n /\ m = [k \in DOMAIN m |-> m[k]]

VARIABLES
  opt, pc, run,
  left, rx,            \* the target: segments to print, unread input
  peerLeft, peerRx,    \* the peer's
  log, peerLog, bootSeen, terminal, marker_times, reconnects,
  disk,                \* run-NN.uart.log and run-NN.peer.uart.log
  records, summary,    \* in memory; summary.json, once it is written
  status,
  staleBoot            \* history: an earlier boot restarted by itself while
                       \* its bytes could still enter this capture

port == <<left, rx, staleBoot>>
peerPort == <<peerLeft, peerRx>>
attempt == <<log, bootSeen, terminal, marker_times>>
results == <<disk, records, summary, status>>
vars == <<opt, pc, run, port, peerPort, attempt, peerLog, reconnects, results>>

MaxReconnects == 3
Boot == "boot."

-----------------------------------------------------------------------------
(* The artifact identity: a manifest names the ELF and the profile.        *)
ArtifactIdentity(elf, profile) ==
  [schema |-> "hisi-connectivity-artifact/v1",
   marker_contract |-> "ws63-connectivity-markers/v3",
   profile_id |-> profile, elf_sha256 |-> elf]

(* Mutant: only the keys that the manifest has are compared.               *)
MismatchesOfGivenKeys(manifest, actual) ==
  {k \in DOMAIN actual \cap DOMAIN manifest : manifest[k] # actual[k]}

Mismatches(manifest, actual) ==
  {k \in DOMAIN actual : k \notin DOMAIN manifest \/ manifest[k] # actual[k]}
  \cup (DOMAIN manifest \ DOMAIN actual)

(* verify_optional_identity: all three of manifest, ELF and profile or     *)
(* none; each is a set of at most one.                                     *)
IdentityAccepted(given) ==
  \/ given.manifest = {} /\ given.elf = {} /\ given.profile = {}
  \/ \E m \in given.manifest, e \in given.elf, p \in given.profile :
       Mismatches(m, ArtifactIdentity(e, p)) = {}

(* parse_args and the checks of main before anything is opened.            *)
ArgumentsAccepted(o) ==
  /\ o.runs > 0
  /\ o.apMode # "none" => o.profile = "rust"
  /\ o.limit >= 0
  /\ IdentityAccepted(o.identity)
  /\ IdentityAccepted(o.peerIdentity)

(* The markers that end a capture.                                         *)
TerminalMarkers(o) ==
  IF o.profile = "rust"
  THEN RustFailures \cup
       CASE o.stage = "init-scan" -> {"RF3_SCAN_OK", "RFDBG_A5B_SCAN_PROFILE_OK"}
         [] o.stage = "connect" ->
              StationConnected \cup {"RFDBG_A5B_CONNECT_PROFILE_OK"}
         [] o.stage = "connectivity" -> {"A4_DHCP_RENEW_OK"}
  ELSE {OfficialDhcp} \cup IF o.stage = "connect" THEN {OfficialConnected} ELSE {}

TimedMarkers(o) == IF o.profile = "rust" THEN RustTimed ELSE OfficialTimed

(* From the first boot marker on; the whole log when there is none.        *)
CurrentBootLog(lines) ==
  LET boots == {i \in DOMAIN lines : lines[i].m = Boot}
  IN  IF boots = {} THEN lines ELSE SubSeq(lines, Min(boots), Len(lines))

-----------------------------------------------------------------------------
Init ==
  /\ opt \in Options
  /\ pc = "args"
  /\ run = 1
  /\ disk = opt.files
  /\ left \in IF opt.analyze THEN {<<>>} ELSE Scripts \cup {<<>>}
  /\ rx = <<>> /\ staleBoot = FALSE
  /\ peerLeft = <<>> /\ peerRx = <<>>
  /\ log = <<>> /\ peerLog = <<>>
  /\ bootSeen = FALSE /\ terminal = FALSE /\ marker_times = {}
  /\ reconnects = 0
  /\ records = <<>> /\ summary = {}
  /\ status = "none"

Raise(why) == pc' = "exit" /\ status' = why

(* main up to the first run.                                               *)
Start ==
  /\ pc = "args"
  /\ IF ArgumentsAccepted(opt)
     THEN /\ pc' = IF opt.analyze THEN "analyze" ELSE "ready"
          /\ status' = status
     ELSE Raise("usage")
  /\ UNCHANGED <<opt, run, port, peerPort, attempt, peerLog, reconnects, disk,
                 records, summary>>

(* The boards print whatever the tool does.                                *)
TargetPrints ==
  /\ pc # "exit" /\ left # <<>> /\ Len(rx) <= MaxUnread
  /\ rx' = rx \o Head(left)
  /\ left' = Tail(left)
  /\ staleBoot' = (staleBoot \/ /\ pc \in {"peerPulse", "settle", "pulse"}
                                /\ Has(Head(left), Boot))
  /\ UNCHANGED <<opt, pc, run, peerPort, attempt, peerLog, reconnects, results>>

PeerPrints ==
  /\ pc # "exit" /\ peerLeft # <<>> /\ Len(peerRx) <= MaxUnread
  /\ peerRx' = peerRx \o Head(peerLeft)
  /\ peerLeft' = Tail(peerLeft)
  /\ UNCHANGED <<opt, pc, run, port, attempt, peerLog, reconnects, results>>

(* capture_run: drop what an earlier boot left in the input buffers.       *)
ResetInput ==
  /\ pc = "ready"
  /\ rx' = <<>> /\ staleBoot' = FALSE
  /\ peerRx' = <<>>
  /\ peerLog' = <<>>
  /\ reconnects' = 0
  /\ pc' = IF opt.paired THEN "peerPulse" ELSE "pulse"
  /\ UNCHANGED <<opt, run, left, peerLeft, attempt, results>>

PulsePeer ==
  /\ pc = "peerPulse"
  /\ peerLeft' \in PeerScripts
  /\ pc' = "settle"
  /\ UNCHANGED <<opt, run, port, peerRx, attempt, peerLog, reconnects, results>>

DrainPeer ==
  /\ pc = "settle" /\ peerRx # <<>>
  /\ peerLog' = peerLog \o peerRx
  /\ peerRx' = <<>>
  /\ UNCHANGED <<opt, pc, run, port, peerLeft, attempt, reconnects, results>>

SettleElapsed ==
  /\ pc = "settle"
  /\ pc' = "pulse"
  /\ UNCHANGED <<opt, run, port, peerPort, attempt, peerLog, reconnects, results>>

(* pulse_nrst returns: what was unread before is now an earlier boot's.    *)
PulseTarget ==
  /\ pc = "pulse"
  /\ left' \in Scripts
  /\ rx' = [i \in DOMAIN rx |-> [rx[i] EXCEPT !.stale = TRUE]]
  /\ log' = <<>> /\ bootSeen' = FALSE /\ terminal' = FALSE /\ marker_times' = {}
  /\ pc' = "loop"
  /\ UNCHANGED <<opt, run, staleBoot, peerPort, peerLog, reconnects, results>>

(* J-Link exits with an error or does not answer within 10 s.              *)
PulseFails ==
  /\ pc \in {"peerPulse", "pulse"}
  /\ Raise("raised")
  /\ UNCHANGED <<opt, run, port, peerPort, attempt, peerLog, reconnects, disk,
                 records, summary>>

(* A port is gone when its input is dropped, or the peer's when it is      *)
(* drained: nobody catches the exception, as ReadFails does for the        *)
(* target's port.                                                          *)
DrainFails ==
  /\ pc \in {"ready"} \cup IF opt.paired THEN {"settle", "loop"} ELSE {}
  /\ Raise("raised")
  /\ UNCHANGED <<opt, run, port, peerPort, attempt, peerLog, reconnects, disk,
                 records, summary>>

(* Mutant: stale bytes before the boot marker stay.                        *)
KeptLogUncut(lines, seen) == lines

(* What is kept of the log after a chunk: everything until the boot marker *)
(* is seen, then nothing from before it.                                   *)
KeptLog(lines, seen) == IF seen THEN lines ELSE CurrentBootLog(lines)

(* One iteration of the loop that reads a chunk, drains the peer and looks *)
(* for markers, which it does only once the boot marker has been seen.     *)
Read ==
  /\ pc = "loop"
  /\ rx # <<>> \/ peerRx # <<>>
  /\ peerLog' = peerLog \o peerRx
  /\ log' = IF rx = <<>> THEN log ELSE KeptLog(log \o rx, bootSeen)
  /\ bootSeen' = (bootSeen \/ Has(log', Boot))
  /\ IF rx # <<>> /\ bootSeen'
     THEN /\ terminal' = (terminal \/ HasAny(log', TerminalMarkers(opt)))
          /\ marker_times' =
               marker_times \cup {m \in TimedMarkers(opt) : Has(log', m)}
     ELSE UNCHANGED <<terminal, marker_times>>
  /\ rx' = <<>> /\ peerRx' = <<>>
  /\ UNCHANGED <<opt, pc, run, left, peerLeft, staleBoot, reconnects, results>>

(* Mutant: the reconnects of a capture are not counted.                    *)
ReadFailsUncounted ==
  /\ pc = "loop"
  /\ pc' = "reopen"
  /\ UNCHANGED <<opt, run, port, peerPort, attempt, peerLog, reconnects, results>>

(* The USB serial adapter disappears during a read.                        *)
ReadFails ==
  /\ pc = "loop"
  /\ reconnects' = reconnects + 1
  /\ IF reconnects' > MaxReconnects THEN Raise("raised")
     ELSE pc' = "reopen" /\ status' = status
  /\ UNCHANGED <<opt, run, port, peerPort, attempt, peerLog, disk, records,
                 summary>>

(* The port is open again within 2 s: the uncounted attempt starts over.   *)
Reopen ==
  /\ pc = "reopen"
  /\ rx' = <<>> /\ staleBoot' = FALSE
  /\ log' = <<>> /\ bootSeen' = FALSE /\ terminal' = FALSE /\ marker_times' = {}
  /\ peerLog' = <<>>
  /\ peerRx' = IF opt.paired THEN <<>> ELSE peerRx
  /\ pc' = IF opt.paired THEN "peerPulse" ELSE "pulse"
  /\ UNCHANGED <<opt, run, left, peerLeft, reconnects, results>>

ReopenFails ==
  /\ pc = "reopen"
  /\ Raise("raised")
  /\ UNCHANGED <<opt, run, port, peerPort, attempt, peerLog, reconnects, disk,
                 records, summary>>

(* The end of the loop, by the deadline or --post-terminal-seconds after a *)
(* terminal marker, with the last drain of the peer.                       *)
LoopEnds ==
  /\ pc' = "write"
  /\ peerLog' = CurrentBootLog(peerLog \o peerRx)
  /\ peerRx' = <<>>
  /\ UNCHANGED <<opt, run, port, peerLeft, attempt, reconnects, results>>

DeadlinePassed == pc = "loop" /\ LoopEnds
PostTerminalElapsed == pc = "loop" /\ terminal /\ LoopEnds

PeerOfRun == IF opt.paired THEN {peerLog} ELSE {}

(* The logs are on disk before they are judged, and stay there when a      *)
(* later run raises; the records are in memory until Summarize.            *)
WriteRun ==
  /\ pc = "write"
  /\ disk' = Append(disk, [log |-> log, peer |-> PeerOfRun,
                           booted |-> bootSeen, mixed |-> staleBoot])
  /\ pc' = "record"
  /\ UNCHANGED <<opt, run, port, peerPort, attempt, peerLog, reconnects, records,
                 summary, status>>

RecordRun ==
  /\ pc = "record"
  /\ records' = Append(records, RecordFromLog(log, PeerOfRun, opt))
  /\ run' = run + 1
  /\ pc' = IF run < opt.runs THEN "ready" ELSE "summarize"
  /\ log' = <<>> /\ bootSeen' = FALSE /\ terminal' = FALSE /\ marker_times' = {}
  /\ peerLog' = <<>>
  /\ UNCHANGED <<opt, port, peerPort, reconnects, disk, summary, status>>

(* --analyze-dir: the same record from the files of an earlier matrix.     *)
AnalyzeRun ==
  /\ pc = "analyze"
  /\ IF disk = <<>> THEN Raise("usage") /\ UNCHANGED <<run, records>>
     ELSE /\ records' = Append(records,
                               RecordFromLog(disk[run].log, disk[run].peer, opt))
          /\ run' = run + 1
          /\ pc' = IF run < Len(disk) THEN "analyze" ELSE "summarize"
          /\ status' = status
  /\ UNCHANGED <<opt, port, peerPort, attempt, peerLog, reconnects, disk,
                 summary>>

RunsExpected(o) == IF o.analyze THEN Len(records) ELSE o.runs

Summarize ==
  /\ pc = "summarize"
  /\ pc' = "exit"
  /\ summary' = {SummarizeRecords(records)}
  /\ status' = IF Passes(SummarizeRecords(records)) = RunsExpected(opt)
               THEN "ok" ELSE "failed"
  /\ UNCHANGED <<opt, run, port, peerPort, attempt, peerLog, reconnects, disk,
                 records>>

CaptureStep ==
  \/ ResetInput \/ PulsePeer \/ SettleElapsed \/ PulseTarget \/ Reopen
  \/ DeadlinePassed

Next ==
  \/ Start \/ CaptureStep \/ DrainPeer \/ Read \/ PostTerminalElapsed
  \/ PulseFails \/ DrainFails \/ ReadFails \/ ReopenFails
  \/ WriteRun \/ RecordRun \/ AnalyzeRun \/ Summarize
  \/ TargetPrints \/ PeerPrints

Spec == Init /\ [][Next]_vars

(* time.monotonic() reaches every deadline, and J-Link and the operating   *)
(* system answer or time out.                                              *)
FairSpec == Spec /\ WF_vars(CaptureStep)

-----------------------------------------------------------------------------
TypeOK ==
  /\ pc \in {"args", "analyze", "ready", "peerPulse", "settle", "pulse", "loop",
             "reopen", "write", "record", "summarize", "exit"}
  /\ run \in Nat \ {0} /\ reconnects \in 0 .. MaxReconnects + 1
  /\ bootSeen \in BOOLEAN /\ terminal \in BOOLEAN /\ staleBoot \in BOOLEAN
  /\ status \in {"none", "usage", "raised", "ok", "failed"}

StartsCurrent(lines, mixed) ==
  /\ lines[1].m = Boot
  /\ ~mixed => \A i \in DOMAIN lines : ~lines[i].stale

(* Line 1392: "Bytes can still arrive from the previous firmware after the *)
(* UART input buffer is reset but before nRST reaches the target. Keep     *)
(* only this boot".  Once the boot marker was seen, through every          *)
(* reconnect, the log begins at a boot marker, and it has no byte of the   *)
(* previous firmware unless that one restarted by itself between the two.  *)
FreshLog ==
  /\ TypeOK
  /\ pc \in {"loop", "write"} /\ bootSeen => StartsCurrent(log, staleBoot)
  /\ ~opt.analyze => \A i \in DOMAIN disk :
       disk[i].booted => StartsCurrent(disk[i].log, disk[i].mixed)

(* The same comment goes on: "so stale success markers cannot terminate or *)
(* pass the next run".                                                     *)
StaleNeverPasses ==
  ~opt.analyze => \A i \in DOMAIN records :
    records[i].result = "pass" =>
      \A j \in DOMAIN disk[i].log : ~disk[i].log[j].stale

-----------------------------------------------------------------------------
(* What a passing contract has to have proved, said without the code's     *)
(* cursor: the stages can be found one after the other.  The k-th set      *)
(* holds the lines at which a chain of the first k stages may end.         *)
StagesInOrder(lines, stages) ==
  LET ends[k \in 0 .. Len(stages)] ==
        IF k = 0 THEN {0}
        ELSE {i \in DOMAIN lines : /\ lines[i].m \in stages[k].any
                                   /\ \E j \in ends[k - 1] : j < i}
  IN  ends[Len(stages)] # {}

(* No counter of the newest line that still has it is above zero.          *)
NoDrift(lines) ==
  \A f \in OwnershipFields : \E i \in DOMAIN lines :
    /\ lines[i].m \in {"RFDBG_A5B_SCHED", "RFDBG_SOFTAP_SCHED"}
    /\ f \in DOMAIN lines[i].v /\ lines[i].v[f] = 0
    /\ \A j \in DOMAIN lines :
         j > i /\ lines[j].m = lines[i].m /\ f \in DOMAIN lines[j].v =>
           lines[j].v[f] = 0

(* validate_rust_contract is "fail-closed": a run that passes under        *)
(* --require-contract printed every stage in order and no failure, and its *)
(* newest diagnostics, those of the peer included, count no error, also    *)
(* when the UART cut the last of them short.                               *)
ContractProven ==
  pc = "summarize" /\ opt.contract /\ opt.profile = "rust" =>
    \A i \in {j \in DOMAIN records : records[j].result = "pass"} :
       LET lines == disk[i].log
       IN  /\ StagesInOrder(lines, RustStages(opt.stage))
           /\ \A j \in DOMAIN lines : lines[j].m \notin RustFatal
           /\ opt.stage # "init-scan" => NoDrift(lines)
           /\ \A p \in disk[i].peer : Has(p, "RFDBG_SOFTAP_READY") /\ NoDrift(p)
           /\ opt.limit > 0 /\ opt.stage # "init-scan" =>
                /\ Has(lines, "RFDBG_A5B_CONNECT_PROFILE_OK")
                /\ \A j \in DOMAIN lines :
                     lines[j].m = "RFDBG_A5B_RUNNER_ELAPSED_MS" =>
                       Field(lines[j].v, "value") <= opt.limit

(* The summary speaks of the logs on disk: its ranges hold the last        *)
(* snapshot of every run, its steps every advance of a counter that may    *)
(* have wrapped, its totals every frame sent and not lost; the evidence    *)
(* marker A5R_READY_OWNERSHIP_OK needs both boards of every run.           *)
SummaryFaithful ==
  pc = "summarize" =>
    LET s == SummarizeRecords(records)
        Within(x, r) == r.min <= x /\ x <= r.max
    IN  /\ MapThenSumSet(LAMBDA r : s.counts[r], DOMAIN s.counts) = Len(disk)
        /\ \A i \in DOMAIN disk :
             LET lines == disk[i].log
                 echo == LocalEchoPath(lines)
             IN  /\ \A f \in L2Fields \cap DOMAIN Values(lines, "RFDBG_A5B_L2") :
                      Within(Values(lines, "RFDBG_A5B_L2")[f], s.l2_protocol[f])
                 /\ \A k \in 1 .. Len(echo) - 1 :
                      \A f \in (DOMAIN echo[k].v \cap DOMAIN echo[k + 1].v) \ {"sequence"} :
                        \E d \in 0 .. Word - 1 :
                          /\ (echo[k].v[f] + d) % Word = echo[k + 1].v[f]
                          /\ Within(d, s.local_echo_path[f])
        /\ s.echo_correlation["sta_sent"] <=
             s.echo_correlation["ap_observed"] + s.echo_correlation["sent_missing_at_ap"]
        /\ s.ready_ownership_ok =>
             \A i \in DOMAIN disk : /\ NoDrift(disk[i].log)
                                    /\ disk[i].peer # {}
                                    /\ \A p \in disk[i].peer : NoDrift(p)

(* A record in memory says what an analysis of the files of its run says.  *)
(* A summary is written by the two exits that judge, and counts every log  *)
(* that is on disk by then; an exit by an exception has none, though the   *)
(* logs of the runs before it are there.  Exit status 0 is a statement     *)
(* about every run that was asked for: its logs give the verdict pass when *)
(* they are analysed again, and a manifest that was given names the ELF    *)
(* and the profile given with it.                                          *)
Analysed == [i \in DOMAIN disk |-> RecordFromLog(disk[i].log, disk[i].peer, opt)]

ExitHonest ==
  /\ Len(records) <= Len(disk)
  /\ \A i \in DOMAIN records : records[i] = Analysed[i]
  /\ summary = IF status \in {"ok", "failed"} THEN {SummarizeRecords(Analysed)} ELSE {}
  /\ status = "ok" =>
       /\ Len(disk) = RunsExpected(opt)
       /\ \A i \in DOMAIN disk : Analysed[i].result = "pass"
       /\ \A id \in {opt.identity, opt.peerIdentity} : \A m \in id.manifest :
            \E e \in id.elf, p \in id.profile : m = ArtifactIdentity(e, p)

(* A capture returns or raises, however often the adapter disappears and   *)
(* whatever the boards print or do not print.                              *)
CaptureReturns == (pc = "ready") ~> (pc \in {"write", "exit"})
=============================================================================
