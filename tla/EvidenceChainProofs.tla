------------------------- MODULE EvidenceChainProofs -------------------------
(***************************************************************************)
(* For every set of command lines, logs, archives and faults, and whatever *)
(* the tools' verdicts on a log are: a whole summary is backed by the logs *)
(* beside it, a receipt by its CI run and its three archives, and the      *)
(* checksums that match the published files by one collection.             *)
(***************************************************************************)
EXTENDS EvidenceChain, FiniteSetTheorems, SequenceTheorems, TLAPS

-----------------------------------------------------------------------------
(* A sequence of whatever its elements are.                                *)
IsSequence(s) == s \in Seq({s[i] : i \in DOMAIN s})

LEMMA SequenceLength ==
  ASSUME NEW s, IsSequence(s)
  PROVE  Len(s) \in Nat /\ DOMAIN s = 1 .. Len(s)
BY LenProperties DEF IsSequence

LEMMA AppendSequence ==
  ASSUME NEW s, IsSequence(s), NEW e
  PROVE  /\ IsSequence(Append(s, e)) /\ Len(Append(s, e)) = Len(s) + 1
         /\ Append(s, e)[Len(s) + 1] = e
         /\ \A i \in 1 .. Len(s) : Append(s, e)[i] = s[i]
<1> DEFINE S == {s[i] : i \in DOMAIN s} \union {e}
           t == Append(s, e)
<1>1. s \in Seq(S)
  BY SeqMonotonic DEF IsSequence
<1>2. /\ t \in Seq(S) /\ Len(t) = Len(s) + 1 /\ t[Len(s) + 1] = e
      /\ \A i \in 1 .. Len(s) : t[i] = s[i]
  BY <1>1, AppendProperties
<1>3. t \in [1 .. Len(t) -> S] /\ Len(t) \in Nat /\ DOMAIN t = 1 .. Len(t)
  BY <1>2, LenProperties
<1>4. t \in [1 .. Len(t) -> {t[i] : i \in DOMAIN t}]
  BY <1>3
<1>5. t \in Seq({t[i] : i \in DOMAIN t})
  BY <1>3, <1>4, SeqDef
<1> QED
  BY <1>2, <1>5 DEF IsSequence

LEMMA NoRows == IsSequence(<<>>) /\ Len(<<>>) = 0
BY EmptySeq DEF IsSequence

-----------------------------------------------------------------------------
(* The summary.                                                            *)
AllPass(rs) == \A i \in 1 .. Len(rs) : rs[i].pass

(* Where the tool goes on after the save it is in.                         *)
Saving == tool.pc \in {"truncate", "write"}
Phase == IF Saving THEN tool.next ELSE tool.pc

Backed(rs, logs) ==
  \A i \in 1 .. Len(rs) : /\ i <= Len(logs) /\ logs[i] = rs[i].receipt
                          /\ i < Len(rs) => rs[i].pass

(* The rows in memory and a whole summary are each backed; logs are only   *)
(* added, one a run and before its row, while every row so far passes; and *)
(* what the last save wrote is what the exit status is decided on.         *)
BackedInv ==
  /\ tool = [pc |-> tool.pc, next |-> tool.next]
  /\ disk = [summary |-> disk.summary, logs |-> disk.logs, single |-> disk.single]
  /\ Saving => tool.next \in {"flash", "contract", "open", "exit", "ended"}
  /\ index \in Nat
  /\ IsSequence(rows) /\ IsSequence(disk.logs)
  /\ Backed(rows, disk.logs)
  /\ disk.summary.state = "whole" =>
       IsSequence(disk.summary.rows) /\ Backed(disk.summary.rows, disk.logs)
  /\ Phase \in {"start", "flash", "contract"} => index = 0 /\ rows = <<>> /\ disk.logs = <<>>
  /\ Phase = "open" => index = Len(rows) /\ Len(disk.logs) = Len(rows) /\ AllPass(rows)
  /\ tool.pc \in {"peer", "target", "logs", "peer log"} =>
       index = Len(rows) + 1 /\ Len(disk.logs) = Len(rows) /\ AllPass(rows)
  /\ tool.pc = "judge" =>
       /\ index = Len(rows) + 1 /\ Len(disk.logs) = index /\ AllPass(rows)
       /\ disk.logs[index] = uart
  /\ tool.pc = "exit" => disk.summary = Written(rows)
  /\ exit = "0" => /\ tool.pc = "ended" /\ disk.summary = Written(rows)
                   /\ Len(rows) = opt.runs /\ AllPass(rows)

ChainInv == ~opt.exists => BackedInv

LEMMA ChainInit == Init => ChainInv
<1> SUFFICES ASSUME Init, ~opt.exists PROVE BackedInv
  BY DEF ChainInv
<1>1. /\ tool.pc \in {"start", "ended"}
      /\ tool = [pc |-> tool.pc, next |-> tool.next]
      /\ disk = [summary |-> Nothing, logs |-> <<>>, single |-> <<>>]
      /\ index = 0 /\ rows = <<>> /\ exit = "none"
  BY DEF Init
<1>2. /\ disk.summary.state = "none" /\ disk.logs = <<>> /\ disk.single = <<>>
      /\ disk = [summary |-> disk.summary, logs |-> disk.logs, single |-> disk.single]
  BY <1>1 DEF Nothing
<1>3. ~Saving /\ Phase = tool.pc
  BY <1>1 DEF Saving, Phase
<1>4. Backed(rows, disk.logs)
  BY <1>1, NoRows DEF Backed
<1> QED
  BY <1>1, <1>2, <1>3, <1>4, NoRows DEF BackedInv

(* Steps between the saves: no row, no log, no summary is touched.         *)
LEMMA QuietStep ==
  ASSUME BackedInv, UNCHANGED <<opt, rows, disk>>, index' \in Nat,
         NEW pc, NEW next, tool' = [pc |-> pc, next |-> next],
         pc \in {"truncate", "write"} =>
           next \in {"flash", "contract", "open", "exit", "ended"},
         exit' # "0", pc # "judge", pc # "exit",
         LET phase == IF pc \in {"truncate", "write"} THEN next ELSE pc
         IN  /\ phase \in {"start", "flash", "contract"} =>
                  index' = 0 /\ rows = <<>> /\ disk.logs = <<>>
             /\ phase = "open" =>
                  index' = Len(rows) /\ Len(disk.logs) = Len(rows) /\ AllPass(rows)
             /\ pc \in {"peer", "target", "logs", "peer log"} =>
                  index' = Len(rows) + 1 /\ Len(disk.logs) = Len(rows) /\ AllPass(rows)
  PROVE  BackedInv'
<1>1. tool'.pc = pc /\ tool'.next = next
  OBVIOUS
<1> QED
  BY <1>1 DEF BackedInv, Saving, Phase, Backed, AllPass

(* What a step of the control does to the record of it.                    *)
LEMMA ControlStep ==
  ASSUME BackedInv, NEW point, NEW next
  PROVE  /\ Goto(next) => tool' = [pc |-> next, next |-> tool.next]
         /\ SaveThen(next) => tool' = [pc |-> "truncate", next |-> next]
         /\ SaveAt(point, next) => \/ tool' = [pc |-> next, next |-> tool.next]
                                   \/ tool' = [pc |-> "truncate", next |-> next]
BY DEF BackedInv, Goto, SaveThen, SaveAt

LEMMA BeginStep ==
  ASSUME BackedInv, UNCHANGED opt,
         RefuseStart \/ Start \/ FlashDone \/ FlashFailed \/ CheckContract \/ OpenPorts
  PROVE  BackedInv'
<1>1. exit # "0" \/ tool.pc = "ended"
  BY DEF BackedInv
<1>2. rows = <<>> => Len(rows) = 0 /\ AllPass(rows)
  BY NoRows DEF AllPass
<1>3. tool.pc \in {"start", "flash", "contract"} => index = 0 /\ rows = <<>> /\ disk.logs = <<>>
  BY DEF BackedInv, Phase, Saving
<1>4. Len(rows) \in Nat /\ index \in Nat
  BY SequenceLength DEF BackedInv
<1>5. CASE RefuseStart
  <2>1. tool' = [pc |-> "ended", next |-> tool.next] /\ exit' = "refused"
        /\ UNCHANGED <<index, rows, disk>>
    BY <1>5, ControlStep DEF RefuseStart, Ends
  <2> QED
    BY <2>1, <1>4, QuietStep
<1>6. CASE Start
  <2>1. /\ \/ tool' = [pc |-> "flash", next |-> tool.next]
           \/ tool' = [pc |-> "truncate", next |-> "flash"]
        /\ tool.pc = "start" /\ UNCHANGED <<index, rows, disk, exit>>
    BY <1>6, ControlStep DEF Start
  <2>2. CASE tool' = [pc |-> "flash", next |-> tool.next]
    BY <2>1, <2>2, <1>1, <1>3, <1>4, QuietStep
  <2>3. CASE tool' = [pc |-> "truncate", next |-> "flash"]
    BY <2>1, <2>3, <1>1, <1>3, <1>4, QuietStep
  <2> QED
    BY <2>1, <2>2, <2>3
<1>7. CASE FlashDone
  <2>1. /\ \/ tool' = [pc |-> "contract", next |-> tool.next]
           \/ tool' = [pc |-> "truncate", next |-> "contract"]
        /\ tool.pc = "flash" /\ UNCHANGED <<index, rows, disk, exit>>
    BY <1>7, ControlStep DEF FlashDone
  <2>2. CASE tool' = [pc |-> "contract", next |-> tool.next]
    BY <2>1, <2>2, <1>1, <1>3, <1>4, QuietStep
  <2>3. CASE tool' = [pc |-> "truncate", next |-> "contract"]
    BY <2>1, <2>3, <1>1, <1>3, <1>4, QuietStep
  <2> QED
    BY <2>1, <2>2, <2>3
<1>8. CASE FlashFailed
  <2>1. tool' = [pc |-> "truncate", next |-> "ended"] /\ exit' = "flash failed"
        /\ UNCHANGED <<index, rows, disk>>
    BY <1>8, ControlStep DEF FlashFailed, Ends
  <2> QED
    BY <2>1, <1>4, QuietStep
<1>9. CASE CheckContract
  <2>1. /\ \/ tool' = [pc |-> "open", next |-> tool.next] /\ exit' = exit
           \/ tool' = [pc |-> "truncate", next |-> "open"] /\ exit' = exit
           \/ tool' = [pc |-> "ended", next |-> tool.next] /\ exit' = "refused"
        /\ tool.pc = "contract" /\ UNCHANGED <<index, rows, disk>>
    BY <1>9, ControlStep DEF CheckContract, Ends
  <2>2. index = Len(rows) /\ Len(disk.logs) = Len(rows) /\ AllPass(rows)
    BY <2>1, <1>2, <1>3
  <2>3. CASE tool' = [pc |-> "open", next |-> tool.next] /\ exit' = exit
    BY <2>1, <2>2, <2>3, <1>1, <1>4, QuietStep
  <2>4. CASE tool' = [pc |-> "truncate", next |-> "open"] /\ exit' = exit
    BY <2>1, <2>2, <2>4, <1>1, <1>4, QuietStep
  <2>5. CASE tool' = [pc |-> "ended", next |-> tool.next] /\ exit' = "refused"
    BY <2>1, <2>5, <1>4, QuietStep
  <2> QED
    BY <2>1, <2>3, <2>4, <2>5
<1>10. CASE OpenPorts
  <2>1. PICK pc \in {"peer", "target"} : tool' = [pc |-> pc, next |-> tool.next]
    BY <1>10, ControlStep DEF OpenPorts
  <2>2. /\ tool.pc = "open" /\ index' = index + 1 /\ UNCHANGED <<rows, disk, exit>>
        /\ index = Len(rows) /\ Len(disk.logs) = Len(rows) /\ AllPass(rows)
    BY <1>10 DEF OpenPorts, BackedInv, Phase, Saving
  <2>3. index' = Len(rows) + 1 /\ index' \in Nat
    BY <2>2, <1>4
  <2> QED
    BY <2>1, <2>2, <2>3, <1>1, QuietStep
<1> QED
  BY <1>5, <1>6, <1>7, <1>8, <1>9, <1>10

LEMMA RunStep ==
  ASSUME BackedInv, UNCHANGED opt,
         PeerReady \/ PeerTimeout \/ CaptureTarget \/ CaptureOverflows \/ Raises \/ Killed
  PROVE  BackedInv'
<1>1. exit # "0" \/ tool.pc = "ended"
  BY DEF BackedInv
<1>2. index \in Nat
  BY DEF BackedInv
<1>3. tool.pc \in {"peer", "target", "logs", "peer log"} =>
        index = Len(rows) + 1 /\ Len(disk.logs) = Len(rows) /\ AllPass(rows)
  BY DEF BackedInv
<1>4. CASE PeerReady \/ CaptureTarget
  <2>1. PICK pc \in {"target", "logs"} :
          /\ tool' = [pc |-> pc, next |-> tool.next] /\ tool.pc \in {"peer", "target"}
          /\ UNCHANGED <<index, rows, disk, exit>>
    BY <1>4, ControlStep DEF PeerReady, CaptureTarget
  <2> QED
    BY <2>1, <1>1, <1>2, <1>3, QuietStep
<1>5. CASE PeerTimeout
  <2>1. /\ tool' = [pc |-> "truncate", next |-> "ended"] /\ exit' = "peer"
        /\ UNCHANGED <<index, rows, disk>>
    BY <1>5, ControlStep DEF PeerTimeout, Ends
  <2> QED
    BY <2>1, <1>2, QuietStep
<1>6. CASE CaptureOverflows \/ Raises \/ Killed
  <2>1. /\ tool' = [pc |-> "ended", next |-> tool.next] /\ exit' \in {"error", "killed"}
        /\ UNCHANGED <<index, rows, disk>>
    BY <1>6, ControlStep DEF CaptureOverflows, Raises, Killed, Ends
  <2> QED
    BY <2>1, <1>2, QuietStep
<1> QED
  BY <1>4, <1>5, <1>6

(* write_text, between whose two halves the summary is torn.               *)
LEMMA SaveStep ==
  ASSUME BackedInv, UNCHANGED opt, Truncate \/ Write
  PROVE  BackedInv'
<1>1. /\ disk' = [summary |-> disk'.summary, logs |-> disk.logs, single |-> disk.single]
      /\ disk'.summary = Torn \/ disk'.summary = Written(rows)
      /\ disk'.logs = disk.logs
  BY DEF BackedInv, Truncate, Write
<1>2. UNCHANGED <<index, rows, exit>> /\ exit # "0" /\ Saving
  BY DEF BackedInv, Truncate, Write, Saving
<1>3. Torn.state # "whole" /\ Written(rows).rows = rows
  BY DEF Torn, Written
<1>4. CASE Truncate
  <2>1. tool' = [pc |-> "write", next |-> tool.next]
    BY <1>4, ControlStep DEF Truncate
  <2>2. tool'.pc = "write" /\ tool'.next = tool.next /\ Phase' = Phase
    BY <2>1, <1>2 DEF Phase, Saving
  <2> QED
    BY <1>1, <1>2, <1>3, <2>1, <2>2 DEF BackedInv, Saving
<1>5. CASE Write
  <2>1. tool' = [pc |-> tool.next, next |-> tool.next] /\ disk'.summary = Written(rows)
    BY <1>5, ControlStep DEF Write, BackedInv
  <2>2. /\ tool'.pc = tool.next /\ tool'.next = tool.next
        /\ tool.next \in {"flash", "contract", "open", "exit", "ended"}
        /\ Phase' = tool.next /\ Phase = tool.next
    BY <2>1, <1>2 DEF Phase, Saving, BackedInv
  <2> QED
    BY <1>1, <1>2, <1>3, <2>1, <2>2 DEF BackedInv, Saving
<1> QED
  BY <1>4, <1>5

(* The target's log alone is not yet the run's.                            *)
LEMMA TargetLogStep ==
  ASSUME BackedInv, UNCHANGED opt, WriteTargetLog
  PROVE  BackedInv'
<1>1. /\ tool.pc = "logs" /\ exit # "0" /\ UNCHANGED <<index, rows, exit>>
      /\ tool' = [pc |-> "peer log", next |-> tool.next]
      /\ disk' = [disk EXCEPT !.single = <<uart[1]>>]
  BY ControlStep DEF BackedInv, WriteTargetLog
<1>2. disk' = [summary |-> disk.summary, logs |-> disk.logs, single |-> <<uart[1]>>]
  BY <1>1 DEF BackedInv
<1>3. disk'.summary = disk.summary /\ disk'.logs = disk.logs /\ disk'.single = <<uart[1]>>
  BY <1>2
<1>4. tool'.pc = "peer log" /\ Phase' = "peer log" /\ ~Saving'
  BY <1>1 DEF Phase, Saving
<1>5. /\ Backed(rows, disk.logs)' = Backed(rows, disk.logs) /\ AllPass(rows)' = AllPass(rows)
      /\ Backed(disk.summary.rows, disk.logs)' = Backed(disk.summary.rows, disk.logs)
  BY <1>1, <1>3 DEF Backed, AllPass
<1> QED
  BY <1>1, <1>2, <1>3, <1>4, <1>5 DEF BackedInv

(* The run's logs come to stand behind those of the runs before.           *)
LEMMA LogStep ==
  ASSUME BackedInv, UNCHANGED opt, WritePeerLog
  PROVE  BackedInv'
<1>1. /\ tool.pc = "peer log" /\ index = Len(rows) + 1 /\ Len(disk.logs) = Len(rows)
      /\ AllPass(rows) /\ exit # "0" /\ UNCHANGED <<index, uart, rows, exit>>
      /\ tool' = [pc |-> "judge", next |-> tool.next]
  BY ControlStep DEF BackedInv, WritePeerLog
<1>2. Len(rows) \in Nat /\ Len(disk.logs) \in Nat /\ index \in Nat
  BY SequenceLength DEF BackedInv
<1>3. disk' = [summary |-> disk.summary, logs |-> Append(disk.logs, uart), single |-> <<>>]
  <2>1. ~(index <= Len(disk.logs))
    <3>1. index = Len(disk.logs) + 1
      BY <1>1
    <3> QED
      BY <1>2, <3>1
  <2>2. disk' = [disk EXCEPT !.logs = Append(disk.logs, uart), !.single = <<>>]
    BY <2>1 DEF WritePeerLog
  <2>3. disk = [summary |-> disk.summary, logs |-> disk.logs, single |-> disk.single]
    BY DEF BackedInv
  <2> QED
    BY <2>2, <2>3
<1>4. disk'.summary = disk.summary /\ disk'.logs = Append(disk.logs, uart)
  BY <1>3
<1>5. /\ IsSequence(disk'.logs) /\ Len(disk'.logs) = index /\ disk'.logs[index] = uart
      /\ \A i \in 1 .. Len(disk.logs) : disk'.logs[i] = disk.logs[i]
  <2>1. IsSequence(disk.logs)
    BY DEF BackedInv
  <2>2. /\ IsSequence(Append(disk.logs, uart)) /\ Len(Append(disk.logs, uart)) = Len(disk.logs) + 1
        /\ Append(disk.logs, uart)[Len(disk.logs) + 1] = uart
        /\ \A i \in 1 .. Len(disk.logs) : Append(disk.logs, uart)[i] = disk.logs[i]
    BY <2>1, AppendSequence
  <2> QED
    BY <1>1, <1>4, <2>2
<1>6. ASSUME NEW rs, IsSequence(rs), Backed(rs, disk.logs)
      PROVE  Backed(rs, disk'.logs)
  <2>1. Len(disk'.logs) = Len(disk.logs) + 1 /\ Len(disk.logs) \in Nat /\ Len(rs) \in Nat
    BY <1>1, <1>2, <1>5, <1>6, SequenceLength
  <2> QED
    BY <1>5, <1>6, <2>1 DEF Backed
<1>7. tool'.pc = "judge" /\ Phase' = "judge"
  BY <1>1 DEF Phase, Saving
<1> QED
  BY <1>1, <1>3, <1>4, <1>5, <1>6, <1>7 DEF BackedInv, Saving, AllPass

(* A row is appended behind rows that all passed, on the logs just written.*)
LEMMA JudgeStep ==
  ASSUME BackedInv, UNCHANGED opt, Judge
  PROVE  BackedInv'
<1> DEFINE row == Receipted(uart, RowOf(opt, uart[1], uart[2]))
<1>1. /\ tool.pc = "judge" /\ index = Len(rows) + 1 /\ Len(disk.logs) = index /\ AllPass(rows)
      /\ disk.logs[index] = uart /\ exit # "0" /\ UNCHANGED <<index, uart, disk, exit>>
  BY DEF BackedInv, Judge
<1>2. rows' = Append(rows, row)
  BY DEF Judge
<1>3. PICK next \in {"open", "exit"} :
        tool' = [pc |-> "truncate", next |-> next] /\ (next = "open" => row.pass)
  BY ControlStep DEF Judge
<1>4. row.receipt = uart
  BY DEF Receipted
<1>5. /\ IsSequence(rows') /\ Len(rows') = index /\ rows'[index] = row /\ Len(rows) \in Nat
      /\ \A i \in 1 .. Len(rows) : rows'[i] = rows[i]
  <2> HIDE DEF row
  <2> QED
    BY <1>1, <1>2, AppendSequence, SequenceLength DEF BackedInv
<1>6. Backed(rows', disk.logs)
  <2> HIDE DEF row
  <2> SUFFICES ASSUME NEW i \in 1 .. index
               PROVE  /\ i <= Len(disk.logs) /\ disk.logs[i] = rows'[i].receipt
                      /\ i < index => rows'[i].pass
    BY <1>5 DEF Backed
  <2>1. CASE i = index
    BY <2>1, <1>1, <1>4, <1>5
  <2>2. CASE i # index
    <3>1. i \in 1 .. Len(rows)
      BY <2>2, <1>1, <1>5
    <3> QED
      BY <3>1, <1>1, <1>5 DEF BackedInv, Backed, AllPass
  <2> QED
    BY <2>1, <2>2
<1>7. row.pass => AllPass(rows')
  <2> HIDE DEF row
  <2> QED
    BY <1>1, <1>5 DEF AllPass
<1>8. tool'.pc = "truncate" /\ tool'.next \in {"open", "exit"} /\ Phase' = tool'.next /\ Saving'
  BY <1>3 DEF Phase, Saving
<1>9. tool'.next = "open" => AllPass(rows')
  BY <1>3, <1>7
<1> HIDE DEF row
<1> QED
  BY <1>1, <1>3, <1>5, <1>6, <1>8, <1>9 DEF BackedInv

LEMMA ExitStep ==
  ASSUME BackedInv, UNCHANGED opt, Exit
  PROVE  BackedInv'
<1>1. /\ tool.pc = "exit" /\ disk.summary = Written(rows)
      /\ UNCHANGED <<index, uart, rows, disk>>
      /\ tool' = [pc |-> "ended", next |-> tool.next]
  BY ControlStep DEF BackedInv, Exit
<1>2. exit' = "0" => Len(rows) = opt.runs /\ AllPass(rows)
  BY SequenceLength DEF Exit, Ends, AllPass, BackedInv
<1>3. tool'.pc = "ended" /\ Phase' = "ended" /\ ~Saving'
  BY <1>1 DEF Phase, Saving
<1>4. AllPass(rows)' = AllPass(rows)
  BY <1>1 DEF AllPass
<1> QED
  BY <1>1, <1>2, <1>3, <1>4 DEF BackedInv, Backed

LEMMA ChainStep == ChainInv /\ [Next]_vars => ChainInv'
<1> SUFFICES ASSUME BackedInv, [Next]_vars, ~opt.exists PROVE BackedInv'
  BY DEF ChainInv, Next, CaptureStep, vars
<1>1. CASE Capture /\ UNCHANGED opt
  BY <1>1, BeginStep, RunStep, SaveStep, TargetLogStep, LogStep, JudgeStep, ExitStep DEF Capture
<1>2. CASE UNCHANGED <<opt, capture>>
  BY <1>2 DEF capture, BackedInv, Backed, AllPass, Saving, Phase
<1> QED
  BY <1>1, <1>2 DEF Next, CaptureStep, vars

(* SummaryBacked, of the capture-tool.py tools: the summary is rewritten   *)
(* after every run and the tool may be killed between any two steps, also  *)
(* between the two halves of a write; every whole summary's rows still     *)
(* stand on the logs beside it, only its last row failed, and status 0     *)
(* means that all its runs passed.                                         *)
THEOREM SummariesBacked == Spec => []SummaryBacked
<1>1. ChainInv => SummaryBacked
  <2> SUFFICES ASSUME BackedInv PROVE SummaryBacked
    BY DEF ChainInv, SummaryBacked
  <2>1. disk.summary.state = "whole" => DOMAIN disk.summary.rows = 1 .. Len(disk.summary.rows)
    BY SequenceLength DEF BackedInv
  <2>2. /\ Written(rows).state = "whole" /\ Written(rows).rows = rows
        /\ DOMAIN rows = 1 .. Len(rows)
    BY SequenceLength DEF Written, BackedInv
  <2> QED
    BY <2>1, <2>2 DEF BackedInv, Backed, AllPass, SummaryBacked
<1> QED
  BY ChainInit, ChainStep, <1>1, PTL DEF Spec

-----------------------------------------------------------------------------
(* The receipt.                                                            *)
Judged == ver.pc \in {"list", "host", "receipt"} \/ receipt # <<>>
Reading == ver.pc \in {"host", "receipt"} \/ receipt # <<>>

(* The verifier has seen a finished run, and so the only one there will    *)
(* be; the archives before the one it is at were accepted, and each agrees *)
(* with the reference, not only the last one.                              *)
ReceiptInv ==
  /\ opt \in Options
  /\ ver = [pc |-> ver.pc, host |-> ver.host, reference |-> ver.reference]
  /\ ver.host \in 1 .. 4
  /\ ci = opt.ci \/ ci = [opt.ci EXCEPT !.status = "in_progress"]
  /\ ver.pc # "ended" => opt.verifier \in Verifiers
  /\ receipt # <<>> => ver.pc \in {"sums", "ended"} /\ opt.verifier \in Verifiers
  /\ ver.pc = "sums" => checks.sums /\ receipt # <<>>
  /\ Judged => CiPassed(ci)
  /\ ver.pc = "host" => ver.host \in 1 .. 3
  /\ ver.pc = "receipt" \/ receipt # <<>> => ver.host = 4
  /\ ver.pc \in {"copy", "ci", "list"} => ver.host = 1
  /\ Reading => \A k \in 1 .. 3 : k < ver.host =>
       /\ ArchiveAccepted(checks, opt.archives[k])
       /\ ver.reference = <<Shape(checks, opt.archives[k])>>

LEMMA HostCount == Len(Hosts) = 3 /\ DOMAIN Hosts = 1 .. 3
BY DEF Hosts

(* A passed run is the finished one.                                       *)
LEMMA PassedIsFinal ==
  ASSUME opt \in Options, CiPassed(ci),
         ci = opt.ci \/ ci = [opt.ci EXCEPT !.status = "in_progress"]
  PROVE  ci = opt.ci
<1>1. opt.ci \in [source : BOOLEAN, status : STRING, conclusion : STRING, jobs : BOOLEAN]
  BY OptionsAssumption
<1>2. ci = [opt.ci EXCEPT !.status = "in_progress"] => ci.status = "in_progress"
  BY <1>1
<1> QED
  BY <1>2 DEF CiPassed

(* What is compared across hosts had to pass on each.                      *)
LEMMA ParityPasses ==
  ASSUME NEW name \in Verifiers
  PROVE  VerifierOf(name).parity \subseteq VerifierOf(name).passing
<1>1. CASE name = "transitive-link"
  BY <1>1 DEF VerifierOf, TransitiveVerifier, Verifier
<1>2. CASE name = "host-tx"
  BY <1>2 DEF VerifierOf, HostTxVerifier, Verifier
<1>3. CASE name = "rx-stop"
  BY <1>3 DEF VerifierOf, RxStopVerifier, Verifier
<1>4. CASE name \in {"direct-rx", "rx-rebuild", "rx-deadline"}
  BY <1>4 DEF VerifierOf, DirectRxVerifier, RebuildVerifier, DeadlineVerifier, Verifier, RxModeFiles
<1>5. CASE name \in {"rx-origin", "rx-origin-free"}
  BY <1>5 DEF VerifierOf, OriginVerifier, OriginFreeVerifier, Verifier
<1>6. CASE name = "user-cleanup"
  BY <1>6 DEF VerifierOf, CleanupVerifier, Verifier
<1>7. CASE name \in {"pbuf-epoch", "traffic-storage"}
  BY <1>7 DEF VerifierOf, PbufVerifier, TrafficVerifier, Verifier
<1> QED
  BY <1>1, <1>2, <1>3, <1>4, <1>5, <1>6, <1>7 DEF Verifiers

LEMMA ReceiptInit == Init => ReceiptInv
<1> SUFFICES ASSUME Init PROVE ReceiptInv
  OBVIOUS
<1>1. /\ ver.pc \in {"start", "ended"} /\ ver.host = 1 /\ receipt = <<>>
      /\ ver.pc # "ended" => opt.verifier \in Verifiers
  BY OptionsAssumption DEF Init
<1>2. /\ opt \in Options /\ ci = [opt.ci EXCEPT !.status = "in_progress"]
      /\ ver = [pc |-> ver.pc, host |-> ver.host, reference |-> ver.reference]
  BY DEF Init
<1>3. ~Judged /\ ~Reading
  BY <1>1 DEF Judged, Reading
<1> QED
  BY <1>1, <1>2, <1>3 DEF ReceiptInv

LEMMA HostStep ==
  ASSUME ReceiptInv, VerifyHost, UNCHANGED opt
  PROVE  ReceiptInv'
<1> DEFINE archive == opt.archives[ver.host]
           accepted == /\ ver.host \notin gone /\ ArchiveAccepted(checks, archive)
                       /\ Parity(checks, archive, ver.reference)
<1>1. /\ ver.pc = "host" /\ ver.host \in 1 .. 3 /\ CiPassed(ci) /\ receipt = <<>>
      /\ opt.verifier \in Verifiers
  BY DEF ReceiptInv, VerifyHost, Judged
<1>2. checks' = checks
  BY DEF checks
<1>3. CASE ~accepted
  <2>1. ver' = [ver EXCEPT !.pc = "failed"] /\ UNCHANGED <<ci, receipt>>
    BY <1>3 DEF VerifyHost, Refused
  <2>2. ver'.pc = "failed" /\ ver'.host = ver.host
        /\ ver' = [pc |-> "failed", host |-> ver.host, reference |-> ver.reference]
    BY <2>1 DEF ReceiptInv
  <2> QED
    BY <1>1, <2>1, <2>2 DEF ReceiptInv, Judged, Reading
<1>4. CASE accepted
  <2>1. /\ ver' = [pc |-> IF ver.host = 3 THEN "receipt" ELSE "host",
                   host |-> ver.host + 1, reference |-> <<Shape(checks, archive)>>]
        /\ UNCHANGED <<ci, receipt>>
    BY <1>4, HostCount DEF VerifyHost
  <2>2. /\ ver'.host = ver.host + 1 /\ ver'.reference = <<Shape(checks, archive)>>
        /\ ver'.pc = IF ver.host = 3 THEN "receipt" ELSE "host"
    BY <2>1
  <2>3. ASSUME NEW k \in 1 .. 3, k < ver.host + 1
        PROVE  /\ ArchiveAccepted(checks, opt.archives[k])
               /\ ver'.reference = <<Shape(checks, opt.archives[k])>>
    <3>1. CASE k = ver.host
      BY <1>4, <2>2, <3>1
    <3>2. CASE k # ver.host
      <4>1. k < ver.host
        BY <1>1, <2>3, <3>2
      <4>2. /\ ArchiveAccepted(checks, opt.archives[k])
            /\ ver.reference = <<Shape(checks, opt.archives[k])>>
        BY <1>1, <4>1 DEF ReceiptInv, Reading
      <4> QED
        BY <1>4, <2>2, <4>2 DEF Parity
    <3> QED
      BY <3>1, <3>2
  <2> QED
    BY <1>1, <1>2, <2>1, <2>2, <2>3 DEF ReceiptInv, Judged, Reading
<1> QED
  BY <1>3, <1>4

LEMMA VerifyStep ==
  ASSUME ReceiptInv, Verify, UNCHANGED opt
  PROVE  ReceiptInv'
<1>1. CASE VerifyStart
  <2>1. /\ ver.pc \in {"start", "failed"} /\ UNCHANGED <<ci, receipt>>
        /\ ver' = [pc |-> "copy", host |-> 1, reference |-> <<>>]
    BY <1>1 DEF VerifyStart
  <2> QED
    BY <2>1 DEF ReceiptInv, Judged, Reading
<1>2. CASE VerifyCopy \/ VerifyCi \/ ListArtifacts
  <2>1. PICK pc \in {"ci", "list", "host", "failed"} :
          /\ ver' = [ver EXCEPT !.pc = pc]
          /\ ver.pc \in {"copy", "ci", "list"}
          /\ pc \in {"list", "host"} => CiPassed(ci)
          /\ UNCHANGED <<ci, receipt>>
    BY <1>2 DEF VerifyCopy, VerifyCi, ListArtifacts, Reaches, Refused, ReceiptInv, Judged
  <2>2. ver' = [pc |-> pc, host |-> ver.host, reference |-> ver.reference]
    BY <2>1 DEF ReceiptInv
  <2>3. ver'.pc = pc /\ ver'.host = 1 /\ ver.host = 1
    BY <2>1, <2>2 DEF ReceiptInv
  <2> QED
    BY <2>1, <2>2, <2>3 DEF ReceiptInv, Judged, Reading
<1>3. CASE VerifyHost
  BY <1>3, HostStep
<1>4. CASE WriteReceipt
  <2>1. PICK pc \in {"sums", "ended"} :
          /\ ver.pc = "receipt" /\ ver' = [ver EXCEPT !.pc = pc] /\ UNCHANGED ci
          /\ pc = "sums" => checks.sums
    BY <1>4 DEF WriteReceipt
  <2>2. ver' = [pc |-> pc, host |-> ver.host, reference |-> ver.reference]
    BY <2>1 DEF ReceiptInv
  <2>3. ver'.pc = pc /\ ver'.host = ver.host /\ ver'.reference = ver.reference /\ receipt' # <<>>
    BY <1>4, <2>2 DEF WriteReceipt
  <2>4. checks' = checks /\ opt.verifier \in Verifiers /\ Judged /\ Reading
    BY <2>1 DEF checks, ReceiptInv, Judged, Reading
  <2> QED
    BY <2>1, <2>2, <2>3, <2>4 DEF ReceiptInv, Judged, Reading
<1> QED
  BY <1>1, <1>2, <1>3, <1>4 DEF Verify

LEMMA ReceiptStep == ReceiptInv /\ [Next]_vars => ReceiptInv'
<1> SUFFICES ASSUME ReceiptInv, [Next]_vars PROVE ReceiptInv'
  OBVIOUS
<1>1. CASE Verify /\ UNCHANGED opt
  BY <1>1, VerifyStep
<1>2. CASE CiFinishes /\ UNCHANGED opt
  <2>1. CiPassed(ci) => ci = opt.ci
    BY PassedIsFinal DEF ReceiptInv
  <2> QED
    BY <1>2, <2>1 DEF CiFinishes, ReceiptInv, Judged, Reading, checks
<1>3. CASE (\E h \in DOMAIN Hosts : Expires(h)) /\ UNCHANGED opt
  BY <1>3 DEF Expires, ReceiptInv, Judged, Reading, checks
<1>4. CASE UNCHANGED <<opt, verifier>>
  BY <1>4 DEF verifier, ReceiptInv, Judged, Reading, checks
<1>5. CASE VerifierSums /\ UNCHANGED opt
  <2>1. /\ ver' = [pc |-> "ended", host |-> ver.host, reference |-> ver.reference]
        /\ ver.pc = "sums" /\ UNCHANGED <<ci, receipt>>
    BY <1>5 DEF VerifierSums, ReceiptInv
  <2>2. ver'.pc = "ended" /\ ver'.host = ver.host /\ ver'.reference = ver.reference
    BY <2>1
  <2> QED
    BY <1>5, <2>1, <2>2 DEF ReceiptInv, Judged, Reading, checks
<1> QED
  BY <1>1, <1>2, <1>3, <1>4, <1>5 DEF Next, CaptureStep, vars

(* ReceiptProven, of the verify-downloads.py tools: although each archive  *)
(* is compared with its neighbour only, and the run may end and archives   *)
(* expire between any two steps, a receipt is of one finished, passing run *)
(* and three archives that agree pairwise.                                 *)
THEOREM ReceiptsProven == Spec => []ReceiptProven
<1>1. ReceiptInv => ReceiptProven
  <2> SUFFICES ASSUME ReceiptInv, receipt # <<>>
               PROVE  /\ ci = opt.ci /\ CiPassed(ci)
                      /\ \A h, k \in 1 .. 3 :
                           /\ ArchiveAccepted(checks, opt.archives[h])
                           /\ \A r \in checks.parity :
                                /\ r \in checks.passing
                                /\ opt.archives[h].shape[r] = opt.archives[k].shape[r]
    BY HostCount DEF ReceiptProven, CiPassed, ArchiveAccepted
  <2>1. ci = opt.ci /\ CiPassed(ci)
    BY PassedIsFinal DEF ReceiptInv, Judged
  <2>2. \A k \in 1 .. 3 : /\ ArchiveAccepted(checks, opt.archives[k])
                          /\ ver.reference = <<Shape(checks, opt.archives[k])>>
    BY DEF ReceiptInv, Reading
  <2>3. checks.parity \subseteq checks.passing
    BY ParityPasses, OptionsAssumption DEF checks, ReceiptInv
  <2>4. ASSUME NEW h \in 1 .. 3, NEW k \in 1 .. 3, NEW r \in checks.parity
        PROVE  opt.archives[h].shape[r] = opt.archives[k].shape[r]
    <3>1. Shape(checks, opt.archives[h]) = Shape(checks, opt.archives[k])
      BY <2>2
    <3>2. \A a : Shape(checks, a)[r] = a.shape[r]
      BY <2>4 DEF Shape
    <3> QED
      BY <3>1, <3>2
  <2> QED
    BY <2>1, <2>2, <2>3, <2>4
<1> QED
  BY ReceiptInit, ReceiptStep, <1>1, PTL DEF Spec
-----------------------------------------------------------------------------
(* The checksums.                                                          *)
MainAccepted == main.into \in {"new", "place", "file"}

OneValue(files) == \A f, g \in DOMAIN files : files[f] = files[g]
Current(file) == file \in DOMAIN out.files /\ out.files[file] = col.attempt

(* A new directory is written by one collection only, and by that one      *)
(* after `made`; a collection in place has rewritten each file of the      *)
(* directory by the time it writes the sums.                               *)
PlacesInv ==
  /\ MainAccepted
  /\ ~main.perCase => "cases" \notin DOMAIN out.files
  /\ main.into = "new" =>
       /\ col.pc \notin {"between", "after"}
       /\ ~out.made => DOMAIN out.files = {} /\ col.pc \in {"idle", "before"}
       /\ col.pc \notin {"idle", "before", "failed", "done"} =>
            \A f \in DOMAIN out.files : out.files[f] = col.attempt
  /\ main.into = "place" =>
       /\ main.perCase /\ col.pc \in {"between", "copy", "after", "summary", "sums"} =>
            Current("cases")
       /\ col.pc \in {"after", "summary", "sums"} => Current("copies")
       /\ col.pc = "sums" => Current("summary")
  /\ main.into = "file" => col.pc \notin {"copy", "after", "sums"} /\ "copies" \notin DOMAIN out.files
  /\ main.into # "file" /\ col.pc = "done" => out.sums = <<out.files>>

SumsInv ==
  /\ opt \in Options
  /\ col = [pc |-> col.pc, attempt |-> col.attempt, bad |-> col.bad,
            first |-> col.first, second |-> col.second]
  /\ out = [files |-> out.files, made |-> out.made, published |-> out.published,
            sums |-> out.sums]
  /\ DOMAIN out.files \subseteq {"cases", "copies", "summary"}
  /\ out.sums = <<>> \/ \E files : out.sums = <<files>> /\ OneValue(files)
  /\ opt.case.of = "none" => col.pc = "idle"
  /\ opt.case.of # "none" => PlacesInv

LEMMA CollectorKnown ==
  ASSUME opt \in Options, opt.case.of # "none"
  PROVE  MainAccepted
<1>1. opt.case.of \in CollectorNames
  BY OptionsAssumption DEF Cases
<1>2. \A m \in {InitialMain, UserCleanupMain, HostTxMain, RxStopMain, StopScopeMain,
             HandshakeMain, DeadlineMain, OriginMain, FreeMain} :
        m.into \in {"new", "place", "file"}
  BY DEF InitialMain, UserCleanupMain, HostTxMain, RxStopMain, StopScopeMain, HandshakeMain,
    DeadlineMain, OriginMain, FreeMain, Main
<1>3. \A m \in {DirectRxMain, RebuildMain} : m.into = "place"
  BY DEF DirectRxMain, RebuildMain, Main
<1>4. main \in {InitialMain, UserCleanupMain, HostTxMain, RxStopMain, StopScopeMain, HandshakeMain,
                DeadlineMain, OriginMain, FreeMain, DirectRxMain, RebuildMain}
  BY <1>1, Zenon DEF main, MainOf, CollectorNames
<1> QED
  BY <1>2, <1>3, <1>4 DEF MainAccepted

(* What follows a step of main.                                            *)
LEMMA StageOrder ==
  ASSUME MainAccepted
  PROVE  /\ main.into = "new" =>
              /\ StageAfter("before") = "copy" /\ StageAfter("copy") = "first"
              /\ StageAfter("first") = IF main.reads = "once" THEN "cases" ELSE "second"
              /\ StageAfter("second") = "cases"
              /\ StageAfter("cases") = "summary" /\ StageAfter("summary") = "sums"
              /\ StageAfter("sums") = "done"
         /\ main.into = "place" =>
              /\ StageAfter("before") = "first"
              /\ StageAfter("first") = IF main.reads = "once" THEN "cases" ELSE "second"
              /\ StageAfter("second") = "cases"
              /\ StageAfter("cases") = "between" /\ StageAfter("between") = "copy"
              /\ StageAfter("copy") = "after" /\ StageAfter("after") = "summary"
              /\ StageAfter("summary") = "sums" /\ StageAfter("sums") = "done"
         /\ main.into = "file" =>
              /\ StageAfter("before") = "first"
              /\ StageAfter("first") = IF main.reads = "once" THEN "cases" ELSE "second"
              /\ StageAfter("second") = "cases"
              /\ StageAfter("cases") = "between" /\ StageAfter("between") = "summary"
              /\ StageAfter("summary") = "done"
<1>1. CASE main.into = "new"
  <2>1. Stages(main) = <<"before", "copy", "first", "second", "cases", "summary", "sums">>
    BY <1>1 DEF Stages
  <2> QED
    BY <1>1, <2>1 DEF StageAfter
<1>2. CASE main.into = "place"
  <2>1. Stages(main) = <<"before", "first", "second", "cases", "between", "copy", "after",
                         "summary", "sums">>
    BY <1>2 DEF Stages
  <2> QED
    BY <1>2, <2>1 DEF StageAfter
<1>3. CASE main.into = "file"
  <2>1. Stages(main) = <<"before", "first", "second", "cases", "between", "summary">>
    BY <1>3 DEF Stages
  <2> QED
    BY <1>3, <2>1 DEF StageAfter
<1> QED
  BY <1>1, <1>2, <1>3

LEMMA SumsInit == Init => SumsInv
<1> SUFFICES ASSUME Init PROVE SumsInv
  OBVIOUS
<1>1. /\ opt \in Options /\ col.pc = "idle" /\ out.made = FALSE /\ out.sums = <<>>
      /\ DOMAIN out.files = {}
      /\ col = [pc |-> col.pc, attempt |-> col.attempt, bad |-> col.bad,
                first |-> col.first, second |-> col.second]
      /\ out = [files |-> out.files, made |-> out.made, published |-> out.published,
                sums |-> out.sums]
  BY DEF Init, NoEvidence
<1>2. opt.case.of # "none" => PlacesInv
  BY <1>1, CollectorKnown DEF PlacesInv
<1> QED
  BY <1>1, <1>2 DEF SumsInv

(* A step that writes no file.                                             *)
LEMMA ReadingStep ==
  ASSUME SumsInv, UNCHANGED opt, opt.case.of # "none", UNCHANGED out,
         NEW pc, NEW bad, NEW first, NEW second,
         col' = [pc |-> pc, attempt |-> col.attempt, bad |-> bad, first |-> first,
                 second |-> second],
         col.pc \notin {"idle", "before", "failed", "done"},
         \/ pc = "failed"
         \/ /\ col.pc = "first" /\ pc \in {"second", "cases"}
         \/ /\ col.pc = "second" /\ pc = "cases"
         \/ /\ col.pc = "cases" /\ ~main.perCase /\ main.into = "new" /\ pc = "summary"
         \/ /\ col.pc = "cases" /\ ~main.perCase /\ main.into = "place" /\ pc = "between"
         \/ /\ col.pc = "between" /\ main.into = "place" /\ pc = "copy"
         \/ /\ col.pc = "after" /\ main.into = "place" /\ pc = "summary"
         \/ /\ main.into = "file" /\ pc \notin {"copy", "after", "sums"}
  PROVE  SumsInv'
<1>1. col'.pc = pc /\ col'.attempt = col.attempt
  OBVIOUS
<1>2. PlacesInv'
  BY <1>1 DEF SumsInv, PlacesInv, MainAccepted, Current, main
<1> QED
  BY <1>1, <1>2 DEF SumsInv

(* A step that writes one.                                                 *)
LEMMA WritingStep ==
  ASSUME SumsInv, UNCHANGED opt, opt.case.of # "none",
         NEW file \in {"cases", "copies", "summary"}, file = "cases" => main.perCase,
         main.into = "file" => file # "copies",
         NEW published,
         out' = [files |-> Having(file), made |-> out.made, published |-> published,
                 sums |-> out.sums],
         NEW pc,
         col' = [pc |-> pc, attempt |-> col.attempt, bad |-> col.bad, first |-> col.first,
                 second |-> col.second],
         col.pc \notin {"idle", "before", "failed", "done"},
         \/ pc = "failed"
         \/ /\ col.pc = "cases" /\ file = "cases" /\ main.into = "new" /\ pc = "summary"
         \/ /\ col.pc = "cases" /\ file = "cases" /\ main.into = "place" /\ pc = "between"
         \/ /\ col.pc = "copy" /\ file = "copies" /\ main.into = "new" /\ pc = "first"
         \/ /\ col.pc = "copy" /\ file = "copies" /\ main.into = "place" /\ pc = "after"
         \/ /\ col.pc = "summary" /\ file = "summary" /\ main.into # "file" /\ pc = "sums"
         \/ /\ main.into = "file" /\ pc \notin {"copy", "after", "sums"}
  PROVE  SumsInv'
<1>1. col'.pc = pc /\ col'.attempt = col.attempt
  OBVIOUS
<1>2. /\ DOMAIN out'.files = DOMAIN out.files \union {file}
      /\ \A f \in DOMAIN out'.files :
           out'.files[f] = IF f = file THEN col.attempt ELSE out.files[f]
      /\ out'.made = out.made /\ out'.sums = out.sums
  BY DEF Having
<1>3. PlacesInv'
  <2>1. PlacesInv /\ main' = main
    BY DEF SumsInv, main
  <2>2. CASE main.into = "new"
    BY <1>1, <1>2, <2>1, <2>2 DEF PlacesInv, MainAccepted, Current
  <2>3. CASE main.into = "place"
    BY <1>1, <1>2, <2>1, <2>3 DEF PlacesInv, MainAccepted, Current
  <2>4. CASE main.into = "file"
    BY <1>1, <1>2, <2>1, <2>4 DEF PlacesInv, MainAccepted, Current
  <2> QED
    BY <2>1, <2>2, <2>3, <2>4 DEF PlacesInv, MainAccepted
<1> QED
  BY <1>1, <1>2, <1>3 DEF SumsInv

LEMMA BeginCollection ==
  ASSUME SumsInv, UNCHANGED opt, CollectBegins \/ CheckInputs \/ PublishSums
  PROVE  SumsInv'
<1>1. CASE CollectBegins
  <2>1. /\ col'.pc = "before" /\ UNCHANGED out /\ opt.case.of # "none"
        /\ col' = [pc |-> col'.pc, attempt |-> col'.attempt, bad |-> col'.bad,
                   first |-> col'.first, second |-> col'.second]
        /\ col.pc \in {"idle", "failed", "done"}
    BY <1>1 DEF CollectBegins, At
  <2>2. PlacesInv'
    BY <2>1 DEF SumsInv, PlacesInv, MainAccepted, Current, main
  <2> QED
    BY <2>1, <2>2 DEF SumsInv
<1>2. CASE CheckInputs
  <2>1. /\ col.pc = "before" /\ opt.case.of # "none" /\ PlacesInv /\ MainAccepted
    BY <1>2 DEF CheckInputs, At, SumsInv, PlacesInv
  <2>2. /\ col' = [pc |-> col'.pc, attempt |-> col'.attempt, bad |-> col'.bad,
                   first |-> col'.first, second |-> col'.second]
        /\ col'.pc \in {"copy", "first", "failed"}
        /\ main.into # "new" => col'.pc # "copy"
        /\ main.into = "new" /\ out.made => col'.pc = "failed"
    BY <1>2, <2>1, StageOrder DEF CheckInputs, Proceeds, SumsInv, MainAccepted
  <2>3. /\ out'.files = out.files /\ out'.sums = out.sums
        /\ out' = [files |-> out'.files, made |-> out'.made, published |-> out'.published,
                   sums |-> out'.sums]
        /\ main.into = "new" => out'.made
    BY <1>2 DEF CheckInputs, SumsInv
  <2>4. PlacesInv'
    BY <2>1, <2>2, <2>3 DEF PlacesInv, MainAccepted, Current, main
  <2> QED
    BY <2>1, <2>2, <2>3, <2>4 DEF SumsInv
<1>3. CASE PublishSums
  <2>1. /\ col.pc = "sums" /\ opt.case.of # "none" /\ PlacesInv /\ MainAccepted
        /\ main.into # "file"
    BY <1>3 DEF PublishSums, At, SumsInv, PlacesInv
  <2>2. /\ col' = [pc |-> col'.pc, attempt |-> col'.attempt, bad |-> col'.bad,
                   first |-> col'.first, second |-> col'.second]
        /\ col'.pc = "done"
    BY <1>3, <2>1, StageOrder DEF PublishSums, Proceeds, SumsInv, MainAccepted
  <2>3. /\ out'.files = out.files /\ out'.sums = <<out.files>> /\ out'.made = out.made
        /\ out' = [files |-> out'.files, made |-> out'.made, published |-> out'.published,
                   sums |-> out'.sums]
    BY <1>3 DEF PublishSums, SumsInv
  <2>4. OneValue(out.files)
    BY <2>1 DEF OneValue, PlacesInv, MainAccepted, Current, SumsInv
  <2>5. PlacesInv'
    BY <2>1, <2>2, <2>3 DEF PlacesInv, MainAccepted, Current, main
  <2> QED
    BY <2>1, <2>2, <2>3, <2>4, <2>5 DEF SumsInv
<1> QED
  BY <1>1, <1>2, <1>3

(* The one verifier that writes sums writes them over a directory in which *)
(* its collector has one file.                                             *)
LEMMA OnlyOriginFreeSums ==
  ASSUME NEW name \in Verifiers, VerifierOf(name).sums
  PROVE  name = "rx-origin-free"
<1>1. /\ ~TransitiveVerifier.sums /\ ~HostTxVerifier.sums /\ ~RxStopVerifier.sums
      /\ ~CleanupVerifier.sums /\ ~PbufVerifier.sums /\ ~TrafficVerifier.sums
  BY DEF TransitiveVerifier, HostTxVerifier, RxStopVerifier, CleanupVerifier, PbufVerifier,
    TrafficVerifier, Verifier
<1>2. /\ ~DirectRxVerifier.sums /\ ~RebuildVerifier.sums /\ ~DeadlineVerifier.sums
      /\ ~OriginVerifier.sums
  BY DEF DirectRxVerifier, RebuildVerifier, DeadlineVerifier, OriginVerifier, Verifier
<1> QED
  BY <1>1, <1>2, Zenon DEF VerifierOf, Verifiers

LEMMA VerifierSumsStep ==
  ASSUME ReceiptInv, SumsInv, VerifierSums, UNCHANGED <<opt, col>>
  PROVE  SumsInv' /\ out'.published = out.published
<1>1. CASE opt.case.of # opt.verifier
  <2>1. UNCHANGED <<opt, col, out>>
    BY <1>1 DEF VerifierSums
  <2> QED
    BY <2>1 DEF SumsInv, PlacesInv, MainAccepted, Current, main
<1>2. CASE opt.case.of = opt.verifier
  <2>1. opt.verifier = "rx-origin-free"
    BY OnlyOriginFreeSums DEF VerifierSums, ReceiptInv, checks
  <2>2. main.into = "file" /\ ~main.perCase
    BY <1>2, <2>1 DEF main, MainOf, FreeMain, Main
  <2>3. PlacesInv /\ opt.case.of # "none"
    BY <1>2, <2>1 DEF SumsInv
  <2>4. OneValue(out.files)
    BY <2>2, <2>3 DEF PlacesInv, SumsInv, OneValue
  <2>5. /\ out'.files = out.files /\ out'.made = out.made /\ out'.published = out.published
        /\ out'.sums = <<out.files>>
        /\ out' = [files |-> out'.files, made |-> out'.made, published |-> out'.published,
                   sums |-> out'.sums]
    BY <1>2 DEF VerifierSums, SumsInv
  <2>6. PlacesInv'
    BY <2>2, <2>3, <2>5 DEF PlacesInv, MainAccepted, Current, main
  <2> QED
    BY <2>3, <2>4, <2>5, <2>6 DEF SumsInv
<1> QED
  BY <1>1, <1>2

LEMMA SumsStep == ReceiptInv /\ SumsInv /\ [Next]_vars => SumsInv'
<1> SUFFICES ASSUME ReceiptInv, SumsInv, [Next]_vars PROVE SumsInv'
  OBVIOUS
<1>1. CASE UNCHANGED <<opt, collector>>
  BY <1>1 DEF collector, SumsInv, PlacesInv, MainAccepted, Current, main
<1>2. CASE Collect /\ UNCHANGED opt
  <2>1. CASE CollectBegins \/ CheckInputs \/ PublishSums
    BY <1>2, <2>1, BeginCollection
  <2> SUFFICES ASSUME col.pc \notin {"idle", "before", "failed", "done"},
                      opt.case.of # "none", PlacesInv, MainAccepted
               PROVE  SumsInv'
    BY <1>2, <2>1 DEF Collect, ReadFirst, ReadSecond, JudgeCases, CheckBetween, Copy, CheckCopies,
      PublishSummary, At, SumsInv, PlacesInv
  <2>2. CASE ReadFirst
    <3>1. PICK pc \in {"failed", StageAfter("first")} :
            \E second : /\ col' = [pc |-> pc, attempt |-> col.attempt,
                                   bad |-> col.bad, first |-> disk.summary.rows,
                                   second |-> second]
                        /\ col.pc = "first" /\ UNCHANGED out
      BY <2>2 DEF ReadFirst, At, SumsInv
    <3>2. PICK second : /\ col' = [pc |-> pc, attempt |-> col.attempt,
                                   bad |-> col.bad, first |-> disk.summary.rows,
                                   second |-> second]
                        /\ col.pc = "first" /\ UNCHANGED out
      BY <3>1
    <3> QED
      BY <1>2, <3>2, StageOrder, ReadingStep DEF MainAccepted
  <2>3. CASE ReadSecond
    <3>1. PICK pc \in {"failed", StageAfter("second")} :
            /\ col' = [pc |-> pc, attempt |-> col.attempt, bad |-> col.bad,
                       first |-> col.first, second |-> disk.summary.rows]
            /\ col.pc = "second" /\ UNCHANGED out
      BY <2>3 DEF ReadSecond, At, SumsInv
    <3> QED
      BY <1>2, <3>1, StageOrder, ReadingStep DEF MainAccepted
  <2>4. CASE JudgeCases
    <3>1. PICK pc \in {"failed", StageAfter("cases")} :
            /\ col' = [pc |-> pc, attempt |-> col.attempt, bad |-> col.bad,
                       first |-> col.first, second |-> col.second]
            /\ col.pc = "cases" /\ IF main.perCase THEN Wrote("cases") ELSE UNCHANGED out
      BY <2>4 DEF JudgeCases, Proceeds, At, SumsInv
    <3>2. CASE main.perCase
      BY <1>2, <3>1, <3>2, StageOrder, WritingStep DEF MainAccepted, Wrote, SumsInv
    <3>3. CASE ~main.perCase
      BY <1>2, <3>1, <3>3, StageOrder, ReadingStep DEF MainAccepted
    <3> QED
      BY <3>2, <3>3
  <2>5. CASE CheckBetween \/ CheckCopies
    <3>1. PICK pc \in {"failed", StageAfter(col.pc)} :
            /\ col' = [pc |-> pc, attempt |-> col.attempt, bad |-> col.bad,
                       first |-> col.first, second |-> col.second]
            /\ col.pc \in {"between", "after"} /\ UNCHANGED out
      BY <2>5 DEF CheckBetween, CheckCopies, Proceeds, At, SumsInv
    <3>2. main.into # "new" /\ (main.into = "file" => col.pc = "between")
      BY <3>1 DEF PlacesInv
    <3> QED
      BY <1>2, <3>1, <3>2, StageOrder, ReadingStep DEF MainAccepted
  <2>6. CASE Copy
    <3>1. /\ col' = [pc |-> StageAfter("copy"), attempt |-> col.attempt, bad |-> col.bad,
                     first |-> col.first, second |-> col.second]
          /\ col.pc = "copy"
          /\ out' = [files |-> Having("copies"), made |-> out.made, published |-> out.published,
                     sums |-> out.sums]
      BY <2>6 DEF Copy, Proceeds, Wrote, At, SumsInv
    <3>2. main.into # "file"
      BY <3>1 DEF PlacesInv
    <3> QED
      BY <1>2, <3>1, <3>2, StageOrder, WritingStep DEF MainAccepted
  <2>7. CASE PublishSummary
    <3>1. PICK published :
          /\ col' = [pc |-> StageAfter("summary"), attempt |-> col.attempt, bad |-> col.bad,
                     first |-> col.first, second |-> col.second]
          /\ col.pc = "summary"
          /\ out' = [files |-> Having("summary"), made |-> out.made, published |-> published,
                     sums |-> out.sums]
      BY <2>7 DEF PublishSummary, Proceeds, At, SumsInv
    <3> QED
      BY <1>2, <3>1, StageOrder, WritingStep DEF MainAccepted
  <2> QED
    BY <1>2, <2>1, <2>2, <2>3, <2>4, <2>5, <2>6, <2>7 DEF Collect
<1>3. CASE VerifierSums /\ UNCHANGED <<opt, col>>
  BY <1>3, VerifierSumsStep
<1> QED
  BY <1>1, <1>2, <1>3 DEF Next, CaptureStep, vars

(* SumsOfOneCollection, of the collect-evidence.py tools and of the        *)
(* verifier that writes checksums too: whatever fails in a collection,     *)
(* however often it is begun again in the place of an earlier one, and     *)
(* whenever the verifier ends, the files that SHA256SUMS matches are of    *)
(* one collection.                                                         *)
THEOREM SumsVouchForOne == Spec => []SumsOfOneCollection
<1>1. SumsInv => SumsOfOneCollection
  <2> SUFFICES ASSUME SumsInv PROVE SumsOfOneCollection
    OBVIOUS
  <2>1. out.sums = <<out.files>> => OneValue(out.files)
    <3> SUFFICES ASSUME out.sums = <<out.files>> PROVE OneValue(out.files)
      OBVIOUS
    <3>1. out.sums # <<>> /\ out.sums[1] = out.files
      OBVIOUS
    <3>2. PICK files : out.sums = <<files>> /\ OneValue(files)
      BY <3>1 DEF SumsInv
    <3> QED
      BY <3>1, <3>2
  <2>2. col.pc = "done" /\ main.into # "file" => out.sums = <<out.files>>
    BY DEF SumsInv, PlacesInv
  <2> QED
    BY <2>1, <2>2 DEF SumsOfOneCollection, OneValue
<1> QED
  BY ReceiptInit, ReceiptStep, SumsInit, SumsStep, <1>1, PTL DEF Spec
-----------------------------------------------------------------------------
(* The publication.                                                        *)

(* Rows with none to come: all that were asked for, or a failed last one.  *)
EndedRows(rs) == rs # <<>> /\ (Len(rs) >= opt.runs \/ ~rs[Len(rs)].pass)
Over == disk.summary.state = "whole" /\ EndedRows(disk.summary.rows)

(* Ended rows are on their way to the exit, and once a whole summary holds *)
(* ended rows they are the tool's rows and it touches no file again.  The  *)
(* exit status is the tool's last decision, and 0 when all rows pass.      *)
OverInv ==
  /\ Phase # "ended" => exit = "none"
  /\ Len(rows) <= opt.runs
  /\ EndedRows(rows) => (Saving /\ tool.next = "exit") \/ tool.pc \in {"exit", "ended"}
  /\ Over => disk.summary.rows = rows /\ tool.pc \in {"exit", "ended"}
  /\ EndedRows(rows) /\ AllPass(rows) => exit \in {"none", "0", "killed"}

LEMMA OverInit ==
  ASSUME Init, ~opt.exists, opt.runs \in Nat \ {0}
  PROVE  OverInv
<1>1. /\ tool.pc \in {"start", "ended"} /\ exit = "none" /\ rows = <<>>
      /\ disk.summary.state = "none"
  BY DEF Init, Nothing
<1> QED
  BY <1>1, NoRows DEF OverInv, Phase, Saving, EndedRows, Over

(* A step from where rows may still be added, that adds none.              *)
LEMMA OverLater ==
  ASSUME OverInv, UNCHANGED <<opt, rows>>, disk'.summary = disk.summary,
         tool.pc \notin {"truncate", "write", "exit", "ended"},
         NEW pc, NEW next, tool' = [pc |-> pc, next |-> next],
         exit' = exit \/ (IF pc \in {"truncate", "write"} THEN next ELSE pc) = "ended"
  PROVE  OverInv'
<1>1. tool'.pc = pc /\ tool'.next = next
  OBVIOUS
<1>2. ~EndedRows(rows) /\ ~Over /\ exit = "none"
  BY DEF OverInv, Saving, Phase
<1> QED
  BY <1>1, <1>2 DEF OverInv, Saving, Phase, EndedRows, Over

LEMMA OverBegin ==
  ASSUME BackedInv, OverInv, UNCHANGED opt,
         RefuseStart \/ Start \/ FlashDone \/ FlashFailed \/ CheckContract \/ OpenPorts
  PROVE  OverInv'
<1>1. UNCHANGED rows /\ disk' = disk
      /\ tool.pc \notin {"truncate", "write", "exit", "ended"}
  BY DEF RefuseStart, Start, FlashDone, FlashFailed, CheckContract, OpenPorts
<1>2. CASE RefuseStart
  <2>1. tool' = [pc |-> "ended", next |-> tool.next]
    BY <1>2, ControlStep DEF RefuseStart
  <2> QED
    BY <1>1, <2>1, OverLater
<1>3. CASE Start \/ FlashDone \/ OpenPorts
  <2>1. PICK pc, next : tool' = [pc |-> pc, next |-> next]
    BY <1>3, ControlStep DEF Start, FlashDone, OpenPorts
  <2>2. exit' = exit
    BY <1>3 DEF Start, FlashDone, OpenPorts
  <2> QED
    BY <1>1, <2>1, <2>2, OverLater
<1>4. CASE FlashFailed
  <2>1. tool' = [pc |-> "truncate", next |-> "ended"]
    BY <1>4, ControlStep DEF FlashFailed
  <2> QED
    BY <1>1, <2>1, OverLater
<1>5. CASE CheckContract
  <2>1. \/ exit' = exit /\ \E pc, next : tool' = [pc |-> pc, next |-> next]
        \/ tool' = [pc |-> "ended", next |-> tool.next]
    BY <1>5, ControlStep DEF CheckContract
  <2>2. CASE tool' = [pc |-> "ended", next |-> tool.next]
    BY <1>1, <2>2, OverLater
  <2>3. CASE exit' = exit /\ \E pc, next : tool' = [pc |-> pc, next |-> next]
    <3>1. PICK pc, next : tool' = [pc |-> pc, next |-> next]
      BY <2>3
    <3> QED
      BY <1>1, <2>3, <3>1, OverLater
  <2> QED
    BY <2>1, <2>2, <2>3
<1> QED
  BY <1>2, <1>3, <1>4, <1>5

LEMMA OverRun ==
  ASSUME BackedInv, OverInv, UNCHANGED opt,
         PeerReady \/ PeerTimeout \/ CaptureTarget \/ CaptureOverflows \/ Raises
           \/ WriteTargetLog \/ WritePeerLog
  PROVE  OverInv'
<1>1. UNCHANGED rows /\ disk'.summary = disk.summary
      /\ tool.pc \notin {"truncate", "write", "exit", "ended"}
  BY DEF BackedInv, PeerReady, PeerTimeout, CaptureTarget, CaptureOverflows, Raises,
    WriteTargetLog, WritePeerLog
<1>2. CASE PeerReady \/ CaptureTarget \/ WriteTargetLog \/ WritePeerLog
  <2>1. PICK pc : tool' = [pc |-> pc, next |-> tool.next]
    BY <1>2, ControlStep DEF PeerReady, CaptureTarget, WriteTargetLog, WritePeerLog
  <2>2. exit' = exit
    BY <1>2 DEF PeerReady, CaptureTarget, WriteTargetLog, WritePeerLog
  <2> QED
    BY <1>1, <2>1, <2>2, OverLater
<1>3. CASE PeerTimeout
  <2>1. tool' = [pc |-> "truncate", next |-> "ended"]
    BY <1>3, ControlStep DEF PeerTimeout
  <2> QED
    BY <1>1, <2>1, OverLater
<1>4. CASE CaptureOverflows \/ Raises
  <2>1. tool' = [pc |-> "ended", next |-> tool.next]
    BY <1>4, ControlStep DEF CaptureOverflows, Raises
  <2> QED
    BY <1>1, <2>1, OverLater
<1> QED
  BY <1>2, <1>3, <1>4

LEMMA OverSave ==
  ASSUME BackedInv, OverInv, UNCHANGED opt, Truncate \/ Write
  PROVE  OverInv'
<1>1. UNCHANGED <<rows, exit>> /\ Saving /\ ~Over
  BY DEF Truncate, Write, Saving, OverInv
<1>2. CASE Truncate
  <2>1. tool' = [pc |-> "write", next |-> tool.next] /\ disk'.summary = Torn
    BY <1>2, ControlStep DEF Truncate, BackedInv
  <2>2. tool'.pc = "write" /\ tool'.next = tool.next /\ Torn.state # "whole"
    BY <2>1 DEF Torn
  <2> QED
    BY <1>1, <2>1, <2>2 DEF OverInv, Saving, Phase, EndedRows, Over, AllPass
<1>3. CASE Write
  <2>1. tool' = [pc |-> tool.next, next |-> tool.next] /\ disk'.summary = Written(rows)
    BY <1>3, ControlStep DEF Write, BackedInv
  <2>2. /\ tool'.pc = tool.next /\ Written(rows).rows = rows
        /\ tool.next \in {"flash", "contract", "open", "exit", "ended"}
    BY <1>1, <2>1 DEF Written, BackedInv
  <2>3. tool.pc = "write"
    BY <1>3 DEF Write
  <2> QED
    BY <1>1, <2>1, <2>2, <2>3 DEF OverInv, Saving, Phase, EndedRows, Over, AllPass
<1> QED
  BY <1>2, <1>3

LEMMA OverJudge ==
  ASSUME BackedInv, OverInv, opt.runs \in Nat \ {0}, UNCHANGED opt, Judge
  PROVE  OverInv'
<1> DEFINE row == Receipted(uart, RowOf(opt, uart[1], uart[2]))
<1>1. /\ tool.pc = "judge" /\ index = Len(rows) + 1 /\ UNCHANGED <<disk, exit>>
      /\ exit = "none" /\ ~EndedRows(rows) /\ ~Over /\ rows' = Append(rows, row)
  BY DEF BackedInv, OverInv, Judge, Saving, Phase
<1>2. PICK next \in {"open", "exit"} :
        /\ tool' = [pc |-> "truncate", next |-> next]
        /\ next = "open" => row.pass /\ index < opt.runs
  BY ControlStep DEF Judge
<1> HIDE DEF row
<1>3. Len(rows') = index /\ rows'[index] = row /\ Len(rows) \in Nat
  BY <1>1, AppendSequence, SequenceLength DEF BackedInv
<1>4. Len(rows) < opt.runs
  BY <1>1, <1>3, NoRows DEF EndedRows
<1>5. EndedRows(rows)' => next = "exit"
  BY <1>1, <1>2, <1>3 DEF EndedRows
<1>6. tool'.pc = "truncate" /\ tool'.next = next
  BY <1>2
<1> QED
  BY <1>1, <1>3, <1>4, <1>5, <1>6 DEF OverInv, Saving, Phase, Over, EndedRows

LEMMA OverExit ==
  ASSUME BackedInv, OverInv, opt.runs \in Nat \ {0}, UNCHANGED opt, Exit \/ Killed
  PROVE  OverInv'
<1>1. /\ tool' = [pc |-> "ended", next |-> tool.next] /\ UNCHANGED <<rows, disk>>
      /\ Exit \/ exit' = "killed"
  BY ControlStep DEF Exit, Killed, Ends
<1>2. tool'.pc = "ended" /\ Phase' = "ended"
  BY <1>1 DEF Phase, Saving
<1>3. Exit /\ EndedRows(rows) /\ AllPass(rows) => exit' = "0"
  <2>1. DOMAIN rows = 1 .. Len(rows) /\ Len(rows) \in Nat /\ Len(rows) <= opt.runs
    BY SequenceLength DEF BackedInv, OverInv
  <2>2. rows # <<>> => Len(rows) \in 1 .. Len(rows)
    <3>1. rows \in Seq({rows[i] : i \in DOMAIN rows})
      BY DEF BackedInv, IsSequence
    <3> HIDE DEF BackedInv
    <3>2. rows # <<>> => Len(rows) # 0
      BY <3>1, EmptySeq
    <3> QED
      BY <2>1, <3>2
  <2> QED
    BY <2>1, <2>2 DEF Exit, Ends, EndedRows, AllPass
<1> QED
  BY <1>1, <1>2, <1>3 DEF OverInv, EndedRows, Over, AllPass

LEMMA OverStep ==
  ASSUME BackedInv, OverInv, opt.runs \in Nat \ {0}, [Next]_vars
  PROVE  OverInv'
<1>1. CASE Capture /\ UNCHANGED opt
  BY <1>1, OverBegin, OverRun, OverSave, OverJudge, OverExit DEF Capture
<1>2. CASE UNCHANGED <<opt, capture>>
  BY <1>2 DEF capture, OverInv, AllPass, Saving, Phase, EndedRows, Over
<1> QED
  BY <1>1, <1>2 DEF Next, CaptureStep, vars

(* After that nothing a collector reads changes.                           *)
LEMMA OverStays ==
  ASSUME BackedInv, OverInv, Over, [Next]_vars
  PROVE  UNCHANGED <<opt, rows, disk>>
<1>1. tool.pc \in {"exit", "ended"}
  BY DEF OverInv
<1>2. CASE Capture /\ UNCHANGED opt
  BY <1>1, <1>2 DEF Capture, RefuseStart, Start, Truncate, Write, FlashDone, FlashFailed,
    CheckContract, OpenPorts, PeerReady, PeerTimeout, CaptureTarget, CaptureOverflows,
    Raises, WriteTargetLog, WritePeerLog, Judge, Exit, Killed
<1>3. CASE UNCHANGED <<opt, capture>>
  BY <1>3 DEF capture
<1> QED
  BY <1>2, <1>3 DEF Next, CaptureStep, vars

(* As many passing rows as rows: all of them pass.                         *)
LEMMA PassesAll ==
  ASSUME NEW rs, IsSequence(rs), Passes(rs) = Len(rs)
  PROVE  AllPass(rs)
<1> DEFINE passing == {i \in DOMAIN rs : rs[i].pass}
<1>1. DOMAIN rs = 1 .. Len(rs) /\ Len(rs) \in Nat
  BY SequenceLength
<1>2. IsFiniteSet(1 .. Len(rs)) /\ Cardinality(1 .. Len(rs)) = Len(rs)
  <2>1. \A n \in Nat : IsFiniteSet(1 .. n) /\ Cardinality(1 .. n) = n
    <3> SUFFICES ASSUME NEW n \in Nat PROVE IsFiniteSet(1 .. n) /\ Cardinality(1 .. n) = n
      OBVIOUS
    <3>1. 1 \in Int /\ n \in Int /\ n - 1 + 1 = n /\ (1 > n => n = 0)
      OBVIOUS
    <3> QED
      BY <3>1, FS_Interval
  <2> QED
    BY <1>1, <2>1
<1>3. passing \in SUBSET (1 .. Len(rs)) /\ Cardinality(passing) = Len(rs)
  BY <1>1 DEF Passes
<1>4. 1 .. Len(rs) = passing
  BY <1>2, <1>3, FS_Subset
<1> QED
  BY <1>4 DEF AllPass

(* What the two collectors ask of the rows is that they have ended.        *)
LEMMA EndedIsEnded ==
  ASSUME opt \in Options, Final(opt.case), opt.runs \in 1 .. opt.case.requested,
         NEW rs, IsSequence(rs)
  PROVE  /\ Ended(opt.case, rs) => EndedRows(rs)
         /\ ClassOf(opt.case, rs) = "accepted" => AllPass(rs)
<1>1. opt.case.requested \in Int /\ opt.case.of \in {"stop-scope", "handshake-admission"}
  BY OptionsAssumption DEF Cases, Final
<1>2. Len(rs) \in Nat
  BY SequenceLength
<1>3. Complete(opt.case, rs) => rs # <<>> /\ Len(rs) >= opt.runs /\ AllPass(rs)
  BY <1>1, <1>2, NoRows, PassesAll DEF Complete
<1>4. Ended(opt.case, rs) => StopScopeEnded(opt.case, rs)
  BY <1>1 DEF Ended, HandshakeEnded
<1>5. StopScopeEnded(opt.case, rs) => EndedRows(rs)
  BY <1>3 DEF StopScopeEnded, EndedRows, Last
<1>6. ClassOf(opt.case, rs) = "accepted" => Complete(opt.case, rs)
  BY <1>1 DEF ClassOf, StopScopeClass, HandshakeClass
<1> QED
  BY <1>3, <1>4, <1>5, <1>6

(* The class a collector derives is none of what it demands of a row.      *)
LEMMA LabelIrrelevant ==
  ASSUME opt \in Options, NEW log, NEW row, RowAgrees(Labelled, log, row)
  PROVE  RowAgrees(opt.case, log, row)
<1>1. opt.case \in Cases
  BY OptionsAssumption
<1>2. /\ Labelled.of = opt.case.of /\ Labelled.negative = opt.case.negative
      /\ Labelled.wrong = opt.case.wrong /\ Labelled.digest = opt.case.digest
  BY <1>1 DEF Labelled, Cases
<1> QED
  BY <1>2 DEF RowAgrees, InitialRow, CleanupRow, CleanupRowGood, HostTxRow, RxStopRow, RebuildRow,
    DeadlineRow, OriginRow, FreeRow

(* Rows are read in "first", and in "second" again; judged in "cases".     *)
HasJudged == \/ col.pc \in {"between", "after", "summary", "sums"}
             \/ main.into = "place" /\ col.pc = "copy"
HasRead == HasJudged \/ col.pc \in {"second", "cases"}

Agreed(row, i) ==
  /\ i \in 1 .. Len(disk.logs) /\ disk.logs[i] = row.receipt
  /\ RowAgrees(opt.case, disk.logs[i][1], row)

ReadInv ==
  /\ HasRead => IsSequence(col.first)
  /\ HasRead /\ col.pc # "second" => IsSequence(Collected)
  /\ HasJudged => \A i \in DOMAIN Collected : Agreed(Collected[i], i)
  /\ \A p \in ToSet(out.published) : \A i \in DOMAIN p.rows : Agreed(p.rows[i], i)

(* Of a capture that is over, both readings are the rows there will be.    *)
Matrix == Final(opt.case) /\ opt.runs \in 1 .. opt.case.requested
FinalInv ==
  /\ HasRead => Over /\ col.first = rows
  /\ HasRead /\ col.pc # "second" => col.second = rows
  /\ \A p \in ToSet(out.published) :
       /\ Over /\ p.rows = rows /\ p.digest = rows
       /\ p.class = "accepted" => AllPass(rows)

LEMMA ReadInit == Init => ReadInv /\ FinalInv
<1> SUFFICES ASSUME Init PROVE ReadInv /\ FinalInv
  OBVIOUS
<1>1. col.pc = "idle" /\ out.published = <<>>
  BY DEF Init, NoEvidence
<1>2. ToSet(out.published) = {}
  BY <1>1, EmptySeq DEF ToSet
<1> QED
  BY <1>1, <1>2 DEF ReadInv, FinalInv, HasRead, HasJudged

(* A step of the capture adds logs behind those that rows name.            *)
LEMMA LogsKept ==
  ASSUME BackedInv, [Next]_vars
  PROVE  /\ UNCHANGED opt
         /\ \A i \in 1 .. Len(disk.logs) : i \in 1 .. Len(disk'.logs) /\ disk'.logs[i] = disk.logs[i]
<1>1. CASE WritePeerLog
  <2>1. index = Len(rows) + 1 /\ Len(disk.logs) = Len(rows) /\ Len(rows) \in Nat
    BY <1>1, SequenceLength DEF WritePeerLog, BackedInv
  <2>2. disk'.logs = Append(disk.logs, uart)
    <3>1. disk = [summary |-> disk.summary, logs |-> disk.logs, single |-> disk.single]
      BY DEF BackedInv
    <3>2. disk' = [disk EXCEPT !.logs = Append(disk.logs, uart), !.single = <<>>]
      <4>1. ~(index <= Len(disk.logs))
        BY <2>1
      <4> QED
        BY <1>1, <4>1 DEF WritePeerLog
    <3> QED
      BY <3>1, <3>2
  <2>3. /\ Len(disk'.logs) = Len(disk.logs) + 1 /\ Len(disk.logs) \in Nat
        /\ \A i \in 1 .. Len(disk.logs) : disk'.logs[i] = disk.logs[i]
    <3>1. IsSequence(disk.logs)
      BY DEF BackedInv
    <3> QED
      BY <2>1, <2>2, <3>1, AppendSequence
  <2> QED
    BY <1>1, <2>3 DEF Next, CaptureStep, vars
<1>2. CASE disk'.logs = disk.logs
  BY <1>2 DEF Next, CaptureStep, vars
<1>3. Capture => WritePeerLog \/ disk'.logs = disk.logs
  BY DEF Capture, RefuseStart, Start, Truncate, Write, FlashDone, FlashFailed,
    CheckContract, OpenPorts, PeerReady, PeerTimeout, CaptureTarget, CaptureOverflows,
    Raises, WriteTargetLog, WritePeerLog, Judge, Exit, Killed, BackedInv
<1> QED
  BY <1>1, <1>2, <1>3 DEF Next, CaptureStep, vars, capture

LEMMA AgreedStays ==
  BackedInv /\ [Next]_vars => \A row, i : Agreed(row, i) => Agreed(row, i)'
BY LogsKept DEF Agreed

LEMMA ReadCapture ==
  ASSUME BackedInv, ReadInv, [Next]_vars, UNCHANGED col, out'.published = out.published
  PROVE  ReadInv'
<1>1. UNCHANGED opt
  BY LogsKept
<1>2. /\ (HasJudged' <=> HasJudged) /\ (HasRead' <=> HasRead) /\ Collected' = Collected
  BY <1>1 DEF HasRead, HasJudged, Collected, main
<1>3. \A row, i : Agreed(row, i) => Agreed(row, i)'
  BY AgreedStays
<1> QED
  BY <1>2, <1>3 DEF ReadInv

LEMMA FinalCapture ==
  ASSUME BackedInv, OverInv, FinalInv, [Next]_vars,
         UNCHANGED col, out'.published = out.published
  PROVE  FinalInv'
<1>1. UNCHANGED opt
  BY LogsKept
<1>2. /\ (HasJudged' <=> HasJudged) /\ (HasRead' <=> HasRead)
  BY <1>1 DEF HasRead, HasJudged, main
<1>3. Over => UNCHANGED <<opt, rows, disk>>
  BY OverStays
<1>4. Over => Over' /\ rows' = rows /\ AllPass(rows)' = AllPass(rows)
  BY <1>3 DEF Over, EndedRows, AllPass
<1> QED
  BY <1>2, <1>4 DEF FinalInv

(* A step of a collector that reads no summary and publishes none.         *)
LEMMA CollectQuiet ==
  ASSUME ReadInv, UNCHANGED <<opt, capture>>, out'.published = out.published,
         \/ ~HasRead'
         \/ HasJudged /\ col'.first = col.first /\ col'.second = col.second
  PROVE  ReadInv' /\ (FinalInv => FinalInv')
<1>1. /\ rows' = rows /\ disk' = disk /\ (Over' <=> Over) /\ AllPass(rows)' = AllPass(rows)
  BY DEF capture, Over, EndedRows, AllPass
<1>2. \A row, i : Agreed(row, i)' <=> Agreed(row, i)
  BY <1>1 DEF Agreed
<1>3. HasJudged => HasRead /\ col.pc # "second"
  BY DEF HasRead, HasJudged
<1>4. HasJudged' => HasRead'
  BY DEF HasRead
<1>5. HasRead' => HasJudged /\ Collected' = Collected /\ col'.first = col.first
                  /\ col'.second = col.second
  BY DEF Collected, main
<1> QED
  BY <1>1, <1>2, <1>3, <1>4, <1>5 DEF ReadInv, FinalInv

LEMMA CollectRest ==
  ASSUME SumsInv, ReadInv, UNCHANGED <<opt, capture>>, opt.case.of # "none",
         CollectBegins \/ CheckInputs \/ CheckBetween \/ Copy \/ CheckCopies \/ PublishSums
  PROVE  ReadInv' /\ (FinalInv => FinalInv')
<1>1. MainAccepted /\ PlacesInv
  BY DEF SumsInv, PlacesInv
<1>2. main' = main /\ out'.published = out.published
  BY DEF main, SumsInv, CollectBegins, CheckInputs, CheckBetween, Copy, CheckCopies, PublishSums,
    Wrote
<1>3. CASE CollectBegins
  <2>1. col'.pc = "before"
    BY <1>3 DEF CollectBegins
  <2> QED
    BY <1>2, <2>1, CollectQuiet DEF HasRead, HasJudged
<1>4. CASE CheckInputs
  <2>1. \/ col'.pc \in {"first", "failed"}
        \/ col'.pc = "copy" /\ main.into = "new"
    BY <1>1, <1>4, StageOrder DEF CheckInputs, Proceeds, MainAccepted, SumsInv
  <2> QED
    BY <1>2, <2>1, CollectQuiet DEF HasRead, HasJudged
<1>5. CASE CheckBetween \/ CheckCopies \/ PublishSums
  <2>1. HasJudged /\ col'.first = col.first /\ col'.second = col.second
    BY <1>5 DEF CheckBetween, CheckCopies, PublishSums, Proceeds, At, HasJudged, SumsInv
  <2> QED
    BY <1>2, <2>1, CollectQuiet
<1>6. CASE Copy
  <2>1. /\ col.pc = "copy" /\ col'.first = col.first /\ col'.second = col.second
        /\ main.into = "new" => col'.pc = "first"
        /\ main.into # "file"
    BY <1>1, <1>6, StageOrder DEF Copy, Proceeds, At, SumsInv, PlacesInv
  <2> QED
    BY <1>1, <1>2, <2>1, CollectQuiet DEF HasRead, HasJudged, MainAccepted
<1> QED
  BY <1>3, <1>4, <1>5, <1>6

(* The steps of a collection that the capture and its rows sit still in.   *)
LEMMA Resting ==
  UNCHANGED <<opt, capture>> =>
    /\ rows' = rows /\ disk' = disk /\ main' = main /\ (Over' <=> Over)
    /\ AllPass(rows)' = AllPass(rows) /\ \A row, i : Agreed(row, i)' <=> Agreed(row, i)
BY DEF capture, main, Over, EndedRows, AllPass, Agreed

(* The two collectors read to classify and read again.                     *)
LEMMA FinalMain ==
  ASSUME opt \in Options, Final(opt.case)
  PROVE  main.reads = "classify" /\ main.into = "place"
<1>1. main \in {StopScopeMain, HandshakeMain}
  BY Zenon DEF main, MainOf, Final
<1> QED
  BY <1>1 DEF StopScopeMain, HandshakeMain, Main

LEMMA FirstReading ==
  ASSUME SumsInv, BackedInv, ReadInv, UNCHANGED <<opt, capture>>, opt.case.of # "none", ReadFirst
  PROVE  /\ ReadInv'
         /\ Matrix /\ OverInv /\ FinalInv => FinalInv'
<1>1. /\ col.pc = "first" /\ out' = out /\ MainAccepted /\ col'.first = disk.summary.rows
      /\ col'.second = IF main.reads = "once" THEN disk.summary.rows ELSE col.second
      /\ \/ col'.pc = "failed"
         \/ /\ disk.summary.state = "whole" /\ Ended(opt.case, disk.summary.rows)
            /\ col'.pc = IF main.reads = "once" THEN "cases" ELSE "second"
  BY StageOrder DEF ReadFirst, At, SumsInv, PlacesInv, MainAccepted
<1>2. ~HasJudged' /\ (HasRead' => col'.pc # "failed")
  BY <1>1 DEF HasJudged, HasRead
<1>3. disk.summary.state = "whole" => IsSequence(disk.summary.rows)
  BY DEF BackedInv
<1>4. HasRead' /\ col'.pc # "second" => Collected' = disk.summary.rows
  BY <1>1, <1>2, Resting DEF Collected
<1>5. ReadInv'
  BY <1>1, <1>2, <1>3, <1>4, Resting DEF ReadInv
<1>6. ASSUME Matrix, OverInv, FinalInv PROVE FinalInv'
  <2>1. main.reads = "classify" /\ opt \in Options
    BY <1>6, FinalMain DEF Matrix, SumsInv
  <2>2. HasRead' => Over /\ col'.first = rows
    BY <1>1, <1>2, <1>3, <1>6, <2>1, EndedIsEnded DEF Over, OverInv, Matrix
  <2>3. HasRead' => col'.pc = "second"
    BY <1>1, <1>2, <2>1
  <2> QED
    BY <1>1, <1>6, <2>2, <2>3, Resting DEF FinalInv
<1> QED
  BY <1>5, <1>6

LEMMA SecondReading ==
  ASSUME SumsInv, BackedInv, ReadInv, UNCHANGED <<opt, capture>>, opt.case.of # "none", ReadSecond
  PROVE  /\ ReadInv'
         /\ OverInv /\ FinalInv => FinalInv'
<1>1. /\ col.pc = "second" /\ out' = out /\ col'.first = col.first
      /\ col'.second = disk.summary.rows
      /\ \/ col'.pc = "failed"
         \/ /\ disk.summary.state = "whole" \/ main.reads = "digest"
            /\ col'.pc = "cases"
  BY StageOrder DEF ReadSecond, At, SumsInv, PlacesInv, MainAccepted
<1>2. HasRead /\ ~HasJudged' /\ (HasRead' => col'.pc # "failed")
  BY <1>1 DEF HasJudged, HasRead
<1>3. disk.summary.state = "whole" => IsSequence(disk.summary.rows)
  BY DEF BackedInv
<1>4. Collected' = IF main.reads = "digest" THEN col.first ELSE disk.summary.rows
  BY <1>1, Resting DEF Collected
<1>5. ReadInv'
  BY <1>1, <1>2, <1>3, <1>4, Resting DEF ReadInv
<1>6. ASSUME OverInv, FinalInv PROVE FinalInv'
  <2>1. Over /\ col.first = rows /\ disk.summary.rows = rows
    BY <1>2, <1>6 DEF FinalInv, OverInv
  <2> QED
    BY <1>1, <1>6, <2>1, Resting DEF FinalInv
<1> QED
  BY <1>5, <1>6

LEMMA Judgement ==
  ASSUME SumsInv, ReadInv, UNCHANGED <<opt, capture>>, JudgeCases
  PROVE  ReadInv' /\ (FinalInv => FinalInv')
<1>1. /\ col.pc = "cases" /\ out'.published = out.published /\ col'.first = col.first
      /\ col'.second = col.second
      /\ \/ col'.pc = "failed"
         \/ \A i \in DOMAIN Collected : RowCollected(i)
  BY DEF JudgeCases, Proceeds, At, Wrote, SumsInv
<1>2. HasRead /\ col.pc # "second" /\ (HasRead' => col'.pc # "failed") /\ (HasJudged' => HasRead')
  BY <1>1 DEF HasJudged, HasRead
<1>3. Collected' = Collected
  BY <1>1, Resting DEF Collected
<1>4. IsSequence(Collected) /\ IsSequence(col.first)
  BY <1>2 DEF ReadInv
<1>5. ASSUME NEW i \in DOMAIN Collected, RowCollected(i) PROVE Agreed(Collected[i], i)
  <2>1. i \in 1 .. Len(Collected) /\ Len(Collected) \in Nat
    BY <1>4, <1>5, SequenceLength
  <2>2. i <= Len(disk.logs) /\ disk.logs[i] = Collected[i].receipt
        /\ RowAgrees(Labelled, disk.logs[i][1], Collected[i])
    BY <1>5 DEF RowCollected
  <2>3. RowAgrees(opt.case, disk.logs[i][1], Collected[i])
    BY <2>2, LabelIrrelevant DEF SumsInv
  <2> QED
    BY <2>1, <2>2, <2>3 DEF Agreed
<1>6. ReadInv'
  BY <1>1, <1>2, <1>3, <1>4, <1>5, Resting DEF ReadInv
<1>7. FinalInv => FinalInv'
  BY <1>1, <1>2, Resting DEF FinalInv
<1> QED
  BY <1>6, <1>7

LEMMA Publication ==
  ASSUME SumsInv, BackedInv, ReadInv, UNCHANGED <<opt, capture>>, PublishSummary
  PROVE  /\ ReadInv'
         /\ Matrix /\ FinalInv => FinalInv'
<1> DEFINE labels == [i \in DOMAIN Collected |-> Label(Labelled, disk.logs[i][1])]
           p == [rows |-> Collected, digest |-> Digested, class |-> Labelled.class,
                 labels |-> labels]
<1>1. /\ col.pc = "summary" /\ out'.published = <<p>> /\ col'.first = col.first
      /\ col'.second = col.second
  BY DEF PublishSummary, Proceeds, At, SumsInv
<1>2. HasJudged /\ HasRead /\ col.pc # "second"
  BY <1>1 DEF HasJudged, HasRead
<1>3. Collected' = Collected
  BY <1>1, Resting DEF Collected
<1>4. ToSet(out'.published) = {p}
  BY <1>1 DEF ToSet
<1>5. p.rows = Collected /\ p.digest = Digested /\ p.class = Labelled.class
  OBVIOUS
<1> HIDE DEF p
<1>6. ReadInv'
  <2>1. \A i \in DOMAIN Collected : Agreed(Collected[i], i)
    BY <1>2 DEF ReadInv
  <2>2. IsSequence(Collected) /\ IsSequence(col.first)
    BY <1>2 DEF ReadInv
  <2> QED
    BY <1>1, <1>3, <1>4, <1>5, <2>1, <2>2, Resting DEF ReadInv
<1>7. ASSUME Matrix, FinalInv PROVE FinalInv'
  <2>1. Over /\ col.first = rows /\ col.second = rows
    BY <1>2, <1>7 DEF FinalInv
  <2>2. Collected = rows /\ Digested = rows
    BY <2>1 DEF Collected, Digested
  <2>3. p.class = "accepted" => AllPass(rows)
    <3>1. opt \in Options /\ IsSequence(rows)
      BY DEF SumsInv, BackedInv
    <3>2. Labelled.class = ClassOf(opt.case, rows)
      BY <2>1, <3>1, OptionsAssumption DEF Labelled, Cases
    <3> QED
      BY <1>5, <1>7, <3>1, <3>2, EndedIsEnded DEF Matrix
  <2> QED
    BY <1>1, <1>4, <1>5, <2>1, <2>2, <2>3, Resting DEF FinalInv
<1> QED
  BY <1>6, <1>7

(* Together: what a collection has read and what is published is backed,   *)
(* and of a matrix it is all there will be.                                *)
PublishInv ==
  ~opt.exists =>
    /\ ReadInv
    /\ Matrix => OverInv /\ FinalInv

LEMMA PublishInit == Init => PublishInv
<1> SUFFICES ASSUME Init, ~opt.exists PROVE ReadInv /\ (Matrix => OverInv /\ FinalInv)
  BY DEF PublishInv
<1>1. Matrix => opt.runs \in Nat \ {0}
  BY DEF Matrix
<1> QED
  BY <1>1, OverInit, ReadInit

LEMMA PublishStep == ReceiptInv /\ SumsInv /\ ChainInv /\ PublishInv /\ [Next]_vars => PublishInv'
<1> SUFFICES ASSUME ReceiptInv, SumsInv, BackedInv, ReadInv, Matrix => OverInv /\ FinalInv, [Next]_vars
             PROVE  ReadInv' /\ (Matrix => OverInv' /\ FinalInv')
  <2>1. UNCHANGED opt => (Matrix' <=> Matrix) /\ (opt.exists)' = opt.exists
    BY DEF Matrix
  <2>2. [Next]_vars => UNCHANGED opt
    BY DEF Next, CaptureStep, vars
  <2> QED
    BY <2>1, <2>2 DEF ChainInv, PublishInv
<1>1. Matrix => opt.runs \in Nat \ {0}
  BY DEF Matrix
<1>2. Matrix => OverInv'
  BY <1>1, OverStep
<1>3. CASE UNCHANGED col /\ out'.published = out.published
  BY <1>2, <1>3, ReadCapture, FinalCapture
<1>4. CASE Collect /\ UNCHANGED <<opt, capture>>
  <2>1. opt.case.of # "none"
    BY <1>4 DEF Collect, CollectBegins, CheckInputs, ReadFirst, ReadSecond, JudgeCases,
      CheckBetween, Copy, CheckCopies, PublishSummary, PublishSums, At, SumsInv
  <2>2. CASE ReadFirst
    BY <1>2, <1>4, <2>1, <2>2, FirstReading
  <2>3. CASE ReadSecond
    BY <1>2, <1>4, <2>1, <2>3, SecondReading
  <2>4. CASE PublishSummary
    BY <1>2, <1>4, <2>4, Publication
  <2>5. CASE JudgeCases
    BY <1>2, <1>4, <2>5, Judgement
  <2>6. CASE CollectBegins \/ CheckInputs \/ CheckBetween \/ Copy \/ CheckCopies \/ PublishSums
    BY <1>2, <1>4, <2>1, <2>6, CollectRest
  <2> QED
    BY <1>4, <2>2, <2>3, <2>4, <2>5, <2>6 DEF Collect
<1>5. VerifierSums /\ UNCHANGED <<opt, col>> => out'.published = out.published
  BY VerifierSumsStep
<1>6. UNCHANGED collector => UNCHANGED col /\ out'.published = out.published
  BY DEF collector
<1> QED
  BY <1>3, <1>4, <1>5, <1>6 DEF Next, CaptureStep, vars

(* PublishedBacked, of the collect-evidence.py tools: whatever else the    *)
(* capture does meanwhile and after, a published row is the one judged on  *)
(* the logs beside it and agrees with them; and stop-scope and             *)
(* handshake-admission publish the rows of a capture that is over.         *)
THEOREM PublicationsBacked == Spec => []PublishedBacked
<1>1. PublishInv => PublishedBacked
  <2> SUFFICES ASSUME ReadInv, Matrix => OverInv /\ FinalInv
               PROVE  PublishedBacked
    BY DEF PublishInv, PublishedBacked
  <2>1. ASSUME NEW p \in ToSet(out.published), NEW i \in DOMAIN p.rows
        PROVE  /\ i <= Len(disk.logs) /\ disk.logs[i] = p.rows[i].receipt
               /\ RowAgrees(opt.case, disk.logs[i][1], p.rows[i])
    BY <2>1 DEF ReadInv, Agreed
  <2>2. ASSUME NEW p \in ToSet(out.published), Matrix
        PROVE  /\ p.rows = rows /\ p.digest = rows /\ tool.pc \in {"exit", "ended"}
               /\ p.class = "accepted" => exit \in {"none", "0", "killed"}
    <3>1. OverInv /\ FinalInv
      BY <2>2
    <3>2. Over /\ p.rows = rows /\ p.digest = rows /\ (p.class = "accepted" => AllPass(rows))
      BY <3>1 DEF FinalInv
    <3> QED
      BY <3>1, <3>2 DEF OverInv, Over
  <2> QED
    BY <2>1, <2>2 DEF PublishedBacked, Matrix
<1> QED
  BY ReceiptInit, ReceiptStep, SumsInit, SumsStep, ChainInit, ChainStep, PublishInit, PublishStep, <1>1, PTL DEF Spec
=============================================================================
