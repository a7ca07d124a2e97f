--------------------------- MODULE EvidenceChain ---------------------------
(***************************************************************************)
(* The NET0 evidence: a capture tool drives one board through its runs and *)
(* rewrites summary.json after each; a collector, started at any time,     *)
(* turns the capture's directory into published evidence; a verifier turns *)
(* a CI run's report archives into a receipt.  Each is a process of its    *)
(* own; they meet only in files.  The tools' verdicts are in NetCapture,   *)
(* NetCollect and NetDownloads; here is what they do in which order.       *)
(* A behaviour's arguments and environment, opt, come from Options:        *)
(*   job       "capture" (with its collector) or "downloads";              *)
(*   tool, ask, role, runs: the capture tool and its arguments;            *)
(*   exists    whether the output directory is there from an earlier use;  *)
(*   fault     what fails: "none", "flash", "peer" (the access point never *)
(*             reports ready), "flood" (more bytes than the bound),        *)
(*             "raise" (a call of a library) or "kill";                    *)
(*   logs, peer what the boards print in each run; wrongFrom: the first     *)
(*             line of each run that is not as it should be;               *)
(*   case, bad the collector's case, and the input that may be wrong when  *)
(*             a collection begins;                                        *)
(*   verifier  its name, "" for none, of the same experiment as the        *)
(*             collector's when they have one directory;                   *)
(*   archives, ci, listed, copied: what it finds.                          *)
(***************************************************************************)
EXTENDS NetCollect, NetDownloads

CONSTANTS Options,      \* the arguments and environments
          Attempts      \* how often a collection is begun

(* A collector and a verifier are each one of the eleven, and what `gh run *)
(* view` says is JSON.                                                     *)
Cases == [of : CollectorNames \union {"none"}, class : STRING, requested : Int,
          negative : BOOLEAN, wrong : BOOLEAN, digest : STRING, flag : Int]

ASSUME OptionsAssumption ==
  \A o \in Options :
    /\ o.case \in Cases
    /\ o.verifier \in Verifiers \union {""}
    /\ o.ci \in [source : BOOLEAN, status : STRING, conclusion : STRING, jobs : BOOLEAN]

VARIABLES opt,
          tool,         \* the capture process: pc, and where it goes after a save
          index,        \* the run
          uart,         \* <<target, peer>>: the run's two buffers
          rows,         \* the summary in memory
          disk,         \* the capture's directory: summary, the runs' logs, and
                        \* the target's log that its peer's is not yet beside
          exit,         \* the capture's exit status
          col,          \* the collector: pc, attempt, input, what it has read
          out,          \* the evidence directory, file by file
          ver,          \* the verifier: pc, host, reference
          ci,           \* the CI run
          gone,         \* hosts whose archive has expired
          receipt       \* what the verifier has written

capture == <<tool, index, uart, rows, disk, exit>>
collector == <<col, out>>
verifier == <<ver, ci, gone, receipt>>
vars == <<opt, capture, collector, verifier>>

Nothing == [state |-> "none", rows |-> <<>>]
Torn == [state |-> "torn", rows |-> <<>>]
Written(r) == [state |-> "whole", rows |-> r]

NoEvidence == [files |-> [x \in {} |-> 0], made |-> FALSE, published |-> <<>>, sums |-> <<>>]

(* A row names the bytes and the digests of the logs it was judged on.     *)
Receipted(logs, row) ==
  [field \in DOMAIN row \union {"receipt"} |-> IF field = "receipt" THEN logs ELSE row[field]]

(* A directory that was used before holds a whole summary of one run.      *)
OldLogs == << <<>>, <<>> >>
Earlier == [summary |-> Written(<<Receipted(OldLogs, [Row(opt, <<>>, {}, {}, TRUE, <<>>) EXCEPT !.pass = TRUE])>>),
            logs |-> <<OldLogs>>, single |-> <<>>]

Init ==
  /\ opt \in Options
  /\ tool = [pc |-> IF opt.job = "capture" THEN "start" ELSE "ended", next |-> "ended"]
  /\ index = 0 /\ uart = OldLogs /\ rows = <<>> /\ exit = "none"
  /\ disk = IF opt.exists THEN Earlier ELSE [summary |-> Nothing, logs |-> <<>>, single |-> <<>>]
  /\ col = [pc |-> "idle", attempt |-> 0, bad |-> "none", first |-> <<>>, second |-> <<>>]
  /\ out = NoEvidence
  /\ ver = [pc |-> IF opt.verifier # "" THEN "start" ELSE "ended", host |-> 1, reference |-> <<>>]
  /\ ci = [opt.ci EXCEPT !.status = "in_progress"] /\ gone = {} /\ receipt = <<>>

-----------------------------------------------------------------------------
(* The capture tool.                                                       *)
usage == UsageOf(opt)
plan == PlanOf(opt)

Goto(pc) == tool' = [tool EXCEPT !.pc = pc]
SaveThen(next) == tool' = [pc |-> "truncate", next |-> next]
SaveAt(point, next) == IF point \in plan.saves THEN SaveThen(next) ELSE Goto(next)
Ends(status) == exit' = status

(* Arguments the parser refuses, a directory that exists, a setup that     *)
(* does not fit: nothing is saved.                                         *)
RefuseStart ==
  /\ tool.pc = "start"
  /\ ~usage.usage \/ (opt.exists /\ ~usage.reuse) \/ ~usage.setup
  /\ Goto("ended") /\ Ends("refused")
  /\ UNCHANGED <<index, uart, rows, disk>>

Start ==
  /\ tool.pc = "start"
  /\ usage.usage /\ (opt.exists => usage.reuse) /\ usage.setup
  /\ SaveAt("start", "flash")
  /\ UNCHANGED <<index, uart, rows, disk, exit>>

(* write_text opens the file for writing, which empties it, and writes.    *)
Truncate ==
  /\ tool.pc = "truncate"
  /\ disk' = [disk EXCEPT !.summary = Torn]
  /\ Goto("write")
  /\ UNCHANGED <<index, uart, rows, exit>>

Write ==
  /\ tool.pc = "write"
  /\ disk' = [disk EXCEPT !.summary = Written(rows)]
  /\ Goto(tool.next)
  /\ UNCHANGED <<index, uart, rows, exit>>

FlashDone ==
  /\ tool.pc = "flash"
  /\ "flash" \in opt.ask => opt.fault # "flash"
  /\ IF "flash" \in opt.ask THEN SaveAt("flash", "contract") ELSE Goto("contract")
  /\ UNCHANGED <<index, uart, rows, disk, exit>>

(* Every tool saves the failed flash and exits with its status.            *)
FlashFailed ==
  /\ tool.pc = "flash" /\ "flash" \in opt.ask /\ opt.fault = "flash"
  /\ SaveThen("ended") /\ Ends("flash failed")
  /\ UNCHANGED <<index, uart, rows, disk>>

CheckContract ==
  /\ tool.pc = "contract"
  /\ IF plan.fits THEN SaveAt("contract", "open") /\ UNCHANGED exit
                  ELSE Goto("ended") /\ Ends("refused")
  /\ UNCHANGED <<index, uart, rows, disk>>

(* Both ports opened and flushed, the peer reset when that is asked for.   *)
OpenPorts ==
  /\ tool.pc = "open"
  /\ index' = index + 1 /\ uart' = OldLogs
  /\ Goto(IF usage.peer THEN "peer" ELSE "target")
  /\ UNCHANGED <<rows, disk, exit>>

PeerReady ==
  /\ tool.pc = "peer" /\ opt.fault # "peer"
  /\ uart' = [uart EXCEPT ![2] = opt.peer]
  /\ Goto("target")
  /\ UNCHANGED <<index, rows, disk, exit>>

(* Mutant: the access point is waited for without a deadline.              *)
PeerAwaited == FALSE

(* After 45 s: its log and the reason are written, and the tool gives up.  *)
PeerTimeout ==
  /\ tool.pc = "peer" /\ opt.fault = "peer"
  /\ SaveThen("ended") /\ Ends("peer")
  /\ UNCHANGED <<index, uart, rows, disk>>

(* The target is flushed, reset and read: to the end of what it prints, or *)
(* to one second after the last marker the run requires.                   *)
Heard(log) ==
  LET enough == {n \in 1 .. Len(log) : HasAll(SubSeq(log, 1, n), plan.required)}
  IN  {Len(log)} \union {n \in enough : plan.required # {} /\ \A k \in enough : n <= k}

CaptureTarget ==
  /\ tool.pc = "target" /\ opt.fault # "flood"
  /\ \E n \in Heard(opt.logs[index]) : uart' = <<SubSeq(opt.logs[index], 1, n), opt.peer>>
  /\ Goto("logs")
  /\ UNCHANGED <<index, rows, disk, exit>>

(* RuntimeError: the run's bytes are dropped.                              *)
CaptureOverflows ==
  /\ tool.pc = "target" /\ opt.fault = "flood"
  /\ Goto("ended") /\ Ends("error")
  /\ UNCHANGED <<index, uart, rows, disk>>

(* flash.sh past its 360 s, a port that does not open or breaks, a pulse   *)
(* that fails: no one catches it, and nothing more is saved.               *)
Raises ==
  /\ opt.fault = "raise"
  /\ tool.pc \in {"open", "peer", "target"} \/ (tool.pc = "flash" /\ "flash" \in opt.ask)
  /\ Goto("ended") /\ Ends("error")
  /\ UNCHANGED <<index, uart, rows, disk>>

(* The two logs, one after the other.                                      *)
WriteTargetLog ==
  /\ tool.pc = "logs"
  /\ disk' = [disk EXCEPT !.single = <<uart[1]>>]
  /\ Goto("peer log")
  /\ UNCHANGED <<index, uart, rows, exit>>

WritePeerLog ==
  /\ tool.pc = "peer log"
  /\ disk' = [disk EXCEPT !.logs = IF index <= Len(@) THEN [@ EXCEPT ![index] = uart]
                                                      ELSE Append(@, uart),
                          !.single = <<>>]
  /\ Goto("judge")
  /\ UNCHANGED <<index, uart, rows, exit>>

(* Mutant: a failed run does not end the matrix.                           *)
JudgeAndGoOn ==
  /\ tool.pc = "judge"
  /\ \E verdict \in {RowOf(opt, uart[1], uart[2])} : rows' = Append(rows, Receipted(uart, verdict))
  /\ SaveThen(IF index < opt.runs THEN "open" ELSE "exit")
  /\ UNCHANGED <<index, uart, disk, exit>>

(* The row is appended and saved; the first that fails is the last.        *)
Judge ==
  /\ tool.pc = "judge"
  /\ \E verdict \in {RowOf(opt, uart[1], uart[2])} :
       LET row == Receipted(uart, verdict)
       IN  /\ rows' = Append(rows, row)
           /\ SaveThen(IF row.pass /\ index < opt.runs THEN "open" ELSE "exit")
  /\ UNCHANGED <<index, uart, disk, exit>>

Exit ==
  /\ tool.pc = "exit"
  /\ Goto("ended")
  /\ Ends(IF Len(rows) = opt.runs /\ \A i \in DOMAIN rows : rows[i].pass THEN "0" ELSE "1")
  /\ UNCHANGED <<index, uart, rows, disk>>

Killed ==
  /\ opt.fault = "kill" /\ tool.pc \notin {"start", "ended"}
  /\ Goto("ended") /\ Ends("killed")
  /\ UNCHANGED <<index, uart, rows, disk>>

Capture ==
  \/ RefuseStart \/ Start \/ Truncate \/ Write \/ FlashDone \/ FlashFailed \/ CheckContract
  \/ OpenPorts \/ PeerReady \/ PeerTimeout \/ CaptureTarget \/ CaptureOverflows
  \/ Raises \/ WriteTargetLog \/ WritePeerLog \/ Judge \/ Exit \/ Killed
-----------------------------------------------------------------------------
(* The collector.                                                          *)
main == MainOf(opt.case)

(* Mutant: SHA256SUMS is written before the summary.                       *)
StagesSumsFirst(m) ==
  CASE m.into = "new" -> <<"before", "copy", "first", "second", "cases", "sums", "summary">>
    [] m.into = "place" ->
         <<"before", "first", "second", "cases", "between", "copy", "after", "sums", "summary">>
    [] m.into = "file" -> <<"before", "first", "second", "cases", "between", "summary">>

(* What main does, in order; "second" is skipped by those that read once.  *)
Stages(m) ==
  CASE m.into = "new" -> <<"before", "copy", "first", "second", "cases", "summary", "sums">>
    [] m.into = "place" ->
         <<"before", "first", "second", "cases", "between", "copy", "after", "summary", "sums">>
    [] m.into = "file" -> <<"before", "first", "second", "cases", "between", "summary">>

StageAfter(stage) ==
  LET stages == Stages(main)
      n == CHOOSE n \in DOMAIN stages : stages[n] = stage
  IN  IF n = Len(stages) THEN "done"
      ELSE IF stage = "first" /\ main.reads = "once" THEN "cases" ELSE stages[n + 1]

At(stage) == col.pc = stage
Proceeds(stage, demands) == col' = [col EXCEPT !.pc = IF demands THEN StageAfter(stage) ELSE "failed"]
Having(file) ==
  [f \in DOMAIN out.files \union {file} |-> IF f = file THEN col.attempt ELSE out.files[f]]
Wrote(file) == out' = [out EXCEPT !.files = Having(file)]

(* A collection is begun when there is a capture to collect, and again     *)
(* when it failed or new evidence is there.                                *)
CollectBegins ==
  /\ At("idle") \/ At("failed") \/ At("done")
  /\ opt.case.of # "none" /\ col.attempt < Attempts /\ disk.summary.state # "none"
  /\ \E bad \in {"none", opt.bad} :
       col' = [pc |-> "before", attempt |-> col.attempt + 1, bad |-> bad, first |-> <<>>, second |-> <<>>]
  /\ UNCHANGED out

CheckInputs ==
  /\ At("before")
  /\ Proceeds("before", (main.into = "new" => ~out.made) /\ col.bad \notin main.before)
  /\ out' = [out EXCEPT !.made = main.into = "new"]

(* A summary being written is no JSON.                                     *)
ReadFirst ==
  /\ At("first")
  /\ LET read == disk.summary.rows
         good == /\ disk.summary.state = "whole" /\ col.bad \notin main.each
                 /\ Ended(opt.case, read)
     IN  col' = [col EXCEPT !.pc = IF good THEN StageAfter("first") ELSE "failed", !.first = read,
                            !.second = IF main.reads = "once" THEN read ELSE @]
  /\ UNCHANGED out

ReadSecond ==
  /\ At("second")
  /\ col' = [col EXCEPT !.pc = IF disk.summary.state # "whole" /\ main.reads # "digest"
                               THEN "failed" ELSE StageAfter("second"),
                        !.second = disk.summary.rows]
  /\ UNCHANGED out

(* The rows judged, and the reading their digest was taken of.             *)
Collected == IF main.reads = "digest" THEN col.first ELSE col.second
Digested == IF main.reads = "vouch" THEN col.first ELSE col.second
Labelled == [opt.case EXCEPT !.class = ClassOf(opt.case, col.first)]

RowCollected(i) ==
  LET row == Collected[i]
  IN  /\ i <= Len(disk.logs) /\ disk.logs[i] = row.receipt
      /\ RowAgrees(Labelled, disk.logs[i][1], row)

JudgeCases ==
  /\ At("cases")
  /\ LET good == /\ \A i \in DOMAIN Collected : RowCollected(i)
                 /\ CaseAgrees(Labelled, Collected) /\ FirstAgrees(Labelled, col.first)
     IN  Proceeds("cases", good)
  /\ IF main.perCase THEN Wrote("cases") ELSE UNCHANGED out

CheckBetween == At("between") /\ Proceeds("between", col.bad \notin main.between) /\ UNCHANGED out

Copy == At("copy") /\ Proceeds("copy", TRUE) /\ Wrote("copies")

CheckCopies == At("after") /\ Proceeds("after", col.bad \notin main.after) /\ UNCHANGED out

PublishSummary ==
  /\ At("summary") /\ Proceeds("summary", TRUE)
  /\ out' = [out EXCEPT !.files = Having("summary"),
                        !.published = <<[rows |-> Collected, digest |-> Digested,
                                         class |-> Labelled.class,
                                         labels |-> [i \in DOMAIN Collected |->
                                                       Label(Labelled, disk.logs[i][1])]]>>]

PublishSums ==
  /\ At("sums") /\ Proceeds("sums", TRUE)
  /\ out' = [out EXCEPT !.sums = <<out.files>>]

Collect ==
  \/ CollectBegins \/ CheckInputs \/ ReadFirst \/ ReadSecond \/ JudgeCases
  \/ CheckBetween \/ Copy \/ CheckCopies \/ PublishSummary \/ PublishSums
-----------------------------------------------------------------------------
(* The download verifier.                                                  *)
checks == VerifierOf(opt.verifier)
Refused == ver' = [ver EXCEPT !.pc = "failed"]
Reaches(pc, demands) == IF demands THEN ver' = [ver EXCEPT !.pc = pc] ELSE Refused

(* Run by hand, and again after a refusal: "retry after completion".       *)
VerifyStart ==
  /\ ver.pc \in {"start", "failed"}
  /\ ver' = [pc |-> "copy", host |-> 1, reference |-> <<>>]
  /\ UNCHANGED <<ci, gone, receipt>>

VerifyCopy ==
  /\ ver.pc = "copy" /\ Reaches("ci", checks.copy => opt.copied)
  /\ UNCHANGED <<ci, gone, receipt>>

VerifyCi ==
  /\ ver.pc = "ci" /\ Reaches("list", CiPassed(ci))
  /\ UNCHANGED <<ci, gone, receipt>>

ListArtifacts ==
  /\ ver.pc = "list" /\ Reaches("host", checks.listed => opt.listed)
  /\ UNCHANGED <<ci, gone, receipt>>

VerifyHost ==
  /\ ver.pc = "host"
  /\ LET archive == opt.archives[ver.host]
     IN  IF /\ ver.host \notin gone
            /\ ArchiveAccepted(checks, archive) /\ Parity(checks, archive, ver.reference)
         THEN ver' = [pc |-> IF ver.host = Len(Hosts) THEN "receipt" ELSE "host",
                      host |-> ver.host + 1, reference |-> <<Shape(checks, archive)>>]
         ELSE Refused
  /\ UNCHANGED <<ci, gone, receipt>>

WriteReceipt ==
  /\ ver.pc = "receipt"
  /\ receipt' = <<[ci |-> ci, parity |-> ver.reference]>>
  /\ ver' = [ver EXCEPT !.pc = IF checks.sums THEN "sums" ELSE "ended"]
  /\ UNCHANGED <<ci, gone>>

Verify ==
  VerifyStart \/ VerifyCopy \/ VerifyCi \/ ListArtifacts \/ VerifyHost \/ WriteReceipt

(* The receipt stands among the evidence when the experiment is one, and   *)
(* SHA256SUMS is then of what the collector has written there so far.      *)
VerifierSums ==
  /\ ver.pc = "sums" /\ ver' = [ver EXCEPT !.pc = "ended"]
  /\ out' = IF opt.case.of = opt.verifier THEN [out EXCEPT !.sums = <<out.files>>] ELSE out
  /\ UNCHANGED <<ci, gone, receipt>>

(* GitHub: the run ends, and an artifact's retention does.                 *)
CiFinishes == /\ ver.pc # "ended" /\ ci # opt.ci /\ ci' = opt.ci
              /\ UNCHANGED <<ver, gone, receipt>>

Expires(h) == /\ ver.pc # "ended" /\ gone' = gone \union {h}
              /\ UNCHANGED <<ver, ci, receipt>>

-----------------------------------------------------------------------------
CaptureStep == Capture /\ UNCHANGED <<opt, collector, verifier>>

Next ==
  \/ CaptureStep
  \/ Collect /\ UNCHANGED <<opt, capture, verifier>>
  \/ (Verify \/ CiFinishes \/ \E h \in DOMAIN Hosts : Expires(h))
       /\ UNCHANGED <<opt, capture, collector>>
  \/ VerifierSums /\ UNCHANGED <<opt, capture, col>>

Spec == Init /\ [][Next]_vars

(* The capture is one process and none of its waits is unbounded, so it    *)
(* always takes its next step; collections and verifications are begun by  *)
(* hand, and owe nothing.                                                  *)
FairSpec == Spec /\ WF_vars(CaptureStep)
-----------------------------------------------------------------------------
(* A whole summary stands on the logs beside it: every row's logs are on   *)
(* the disk and are the ones the row was judged on, no row follows one     *)
(* that failed, and the tool ends with status 0 only when the summary has  *)
(* every run, passing.  A crash, a kill or a flood between two writes must *)
(* not break it.  (net0-storage writes into a directory that may hold an   *)
(* earlier capture: nothing is claimed of it there.)                       *)
SummaryBacked ==
  LET saved == disk.summary
  IN  ~opt.exists =>
        /\ saved.state = "whole" =>
             \A i \in DOMAIN saved.rows :
               /\ i <= Len(disk.logs) /\ disk.logs[i] = saved.rows[i].receipt
               /\ i < Len(saved.rows) => saved.rows[i].pass
        /\ exit = "0" => /\ saved.state = "whole" /\ Len(saved.rows) = opt.runs
                         /\ \A i \in DOMAIN saved.rows : saved.rows[i].pass

(* Whatever the capture does while a collector reads it, and after: every  *)
(* row published is the one judged on the run's logs as they are stored,   *)
(* and says of them what the collector's own reading of the whole log      *)
(* says.  The collectors that end on "a partial live capture is never      *)
(* evidence" publish only a capture that is over (of at least one run, and *)
(* of no more than their case demands): its rows, one reading, and never   *)
(* more to come; what they accept ended with status 0 unless it was killed *)
(* after its last save.                                                    *)
Final(c) == c.of \in {"stop-scope", "handshake-admission"}

PublishedBacked ==
  ~opt.exists =>
    \A p \in ToSet(out.published) :
      /\ \A i \in DOMAIN p.rows :
           /\ i <= Len(disk.logs) /\ disk.logs[i] = p.rows[i].receipt
           /\ RowAgrees(opt.case, disk.logs[i][1], p.rows[i])
      /\ Final(opt.case) /\ opt.runs \in 1 .. opt.case.requested =>
           /\ p.rows = rows /\ p.digest = rows /\ tool.pc \in {"exit", "ended"}
           /\ p.class = "accepted" => exit \in {"none", "0", "killed"}

(* A row published as passing is one whose board did everything right in   *)
(* all that was recorded of the run (opt.wrongFrom[i] is the first line of *)
(* run i that is wrong), whatever state the capture was in when it was     *)
(* collected.                                                              *)
PublishedProven ==
  \A p \in ToSet(out.published) : \A i \in DOMAIN p.rows :
    p.rows[i].pass => Len(disk.logs[i][1]) < opt.wrongFrom[i]

(* Checksums that match the files they stand beside are of one collection: *)
(* a collection that failed, or runs again in the place of an earlier one, *)
(* must not leave a mixture that SHA256SUMS vouches for.                   *)
SumsOfOneCollection ==
  /\ out.sums = <<out.files>> =>
       \A f, g \in DOMAIN out.files : out.files[f] = out.files[g]
  /\ col.pc = "done" /\ main.into # "file" => out.sums = <<out.files>>

(* A receipt is of a run that has ended well, job by job, on the verified  *)
(* commit, and of three archives that agree pairwise on everything that    *)
(* must not depend on the host, each a passing one of that commit.         *)
ReceiptProven ==
  receipt # <<>> =>
    /\ ci = opt.ci /\ ci.source /\ ci.status = "completed" /\ ci.conclusion = "success" /\ ci.jobs
    /\ \A h \in DOMAIN Hosts :
         LET a == opt.archives[h]
         IN  /\ a.source /\ \A r \in checks.parity : r \notin a.failing
             /\ checks.download => a.digest
             /\ \A k \in DOMAIN Hosts : \A r \in checks.parity :
                  a.shape[r] = opt.archives[k].shape[r]

(* Every capture ends: a silent access point, a failed flash and a flood   *)
(* of bytes included.                                                      *)
CaptureEnds == opt.job = "capture" ~> tool.pc = "ended"
=============================================================================
