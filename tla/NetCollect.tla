----------------------------- MODULE NetCollect -----------------------------
(***************************************************************************)
(* The NET0 evidence collectors, net0-*/collect-evidence.py: what each     *)
(* demands of the rows a capture stored (<Collector>Row: no mismatch is    *)
(* raised), of a whole case, and of its other inputs, and in which order.  *)
(* A collector matches complete lines of the stored UART logs; it reads    *)
(* the whole log, the part after the capture's early end included.         *)
(* A case c is [of, class, requested, negative, wrong, digest, flag]: the  *)
(* collector and how it labels the case; whether the injected fault is     *)
(* expected; whether the capture used a wrong threshold; which of the two  *)
(* ELFs was run, and the fault byte read back after it.                    *)
(***************************************************************************)
EXTENDS NetCapture

FullLine == {"whole", "last"}

(* match_one: the words of marker m if exactly one line matches.           *)
OneLine(log, m) == Len(Samples(log, m, FullLine)) = 1
OneSample(log, m) == IF OneLine(log, m) THEN Samples(log, m, FullLine)[1] ELSE <<>>
WholeLines(log, ms) == \A m \in ms : Samples(log, m, FullLine) # <<>>

ControlLines(log) == OneLine(log, "RFDBG_A5B_CONNECT_OK") /\ OneLine(log, "RFDBG_A5B_DISCONNECT_OK")
StoredPayload(log) == OneSample(log, "RFDBG_NET0_PAYLOAD")
EndMarkers == {"RFDBG_NET0_PAYLOAD_OK", "RFDBG_NET0_INITIAL_SESSION_CLOSED",
               "RFDBG_A5B_CONNECT_PROFILE_OK"}
OpenMarkers == {"RFDBG_NET0_BOUND_CLOSED", "RFDBG_NET0_INITIAL_SESSION_OPEN",
                "RFDBG_NET0_PAYLOAD_OK"}
ExactPayload == <<10, 10, 1023, 0, 0>>

(* entered, queued, dropped, in_flight, ...                                *)
RouteConserved(log) ==
  LET v == OneSample(log, "RFDBG_NET0_ROUTE")
  IN  v # <<>> => v[1] = v[2] + v[3] + v[4]

(* What a main demands: of its inputs before it reads a case, of each      *)
(* case, of the inputs it reads after the cases, and of the files it has   *)
(* copied.  It writes into a directory that must be new, in the place of   *)
(* the evidence it stands in, or into one file.  A capture's summary is    *)
(* read to classify it and again for its rows (reads = "classify"), or for *)
(* its digest and again for its rows ("vouch"), or for its rows and again  *)
(* for its digest ("digest"), or once; perCase says whether files are      *)
(* written while the cases are judged.                                     *)
Main(before, each, between, after, into, reads) ==
  [before |-> before, each |-> each, between |-> between, after |-> after, into |-> into,
   reads |-> reads, perCase |-> into = "new"]

-----------------------------------------------------------------------------
(* net0-initial-session.  The result "open" is 0.                           *)
InitialGood(log) ==
  /\ ControlLines(log) /\ PayloadGood(StoredPayload(log))
  /\ WholeLines(log, OpenMarkers \union EndMarkers)

InitialRow(c, log, row) ==
  /\ StoredPayload(log) = row.payload
  /\ InitialGood(log) = row.pass
  /\ RouteConserved(log)

UnfinishedClass(log) ==
  IF OneSample(log, "RFDBG_NET0_INITIAL_RESULT") \notin {<<>>, <<0>>}
  THEN "initial-session-rejected"
  ELSE IF StoredPayload(log) # <<>> /\ StoredPayload(log)[2] = 0 THEN "no-udp-reply"
  ELSE "control-or-payload-incomplete"

InitialClass(log) ==
  IF InitialGood(log) THEN "initial-session-payload-pass" ELSE UnfinishedClass(log)

InitialMain == Main({"ci"}, {"source", "elf"}, {}, {}, "new", "digest")

-----------------------------------------------------------------------------
(* net0-user-cleanup.                                                      *)
CleanupObserved(log, negative) ==
  LET code == IF negative THEN 100 ELSE 0
      mapped == OneSample(log, "RFDBG_A5B_DISCONNECT_ERR")
      raw == OneSample(log, "RFDBG_A5B_DISCONNECT_ERR_TRACE")
  IN  /\ Samples(log, "RFDBG_NET0_USER_CLEANUP", FullLine) =
           << <<0, 0, 0, 0, 0, 0, 0, 0, 0, 0>>, <<1, 1, 0, 1, 0, code, 0, 1, code, code>> >>
      /\ ~HasAny(log, {"[PANIC]", "panicked at"})
      /\ negative => /\ mapped = <<InjectedFault>> /\ raw = <<100>>
                     /\ WholeLines(log, {"RFDBG_NET0_CLEANUP_FAULT_REJECTED"})
                     /\ ~HasAny(log, FalseSuccess)

CleanupRowGood(c, log) ==
  /\ CleanupObserved(log, c.negative)
  /\ IF c.negative
     THEN /\ OneLine(log, "RFDBG_A5B_CONNECT_OK") /\ StoredPayload(log) = ExactPayload
          /\ WholeLines(log, OpenMarkers)
     ELSE InitialGood(log)

CleanupRow(c, log, row) ==
  /\ StoredPayload(log) = row.payload
  /\ CleanupRowGood(c, log) = row.pass
  /\ RouteConserved(log)

CleanupClass(c, log) ==
  LET good == CleanupRowGood(c, log)
  IN  IF c.negative /\ good THEN "cleanup-negative-pass"
      ELSE IF HasAny(log, {"[PANIC]", "panicked at"}) THEN "fixture-assertion-failed"
      ELSE IF good THEN "initial-session-cleanup-pass" ELSE UnfinishedClass(log)

UserCleanupMain == Main({"ci"}, {"source", "elf"}, {}, {}, "new", "digest")

-----------------------------------------------------------------------------
(* net0-host-tx.                                                           *)
TxContract(tx) == HostTxGood(tx) /\ tx[2][1] >= tx[1][1]

HostTxRowGood(log) ==
  /\ ControlLines(log) /\ TxContract(Samples(log, "RFDBG_NET0_HOST_TX", FullLine))
  /\ CleanupObserved(log, FALSE) /\ StoredPayload(log) = ExactPayload
  /\ WholeLines(log, EndMarkers)

(* The receipts a row must have and must repeat.                           *)
SameReceipts(log, row) ==
  /\ {"session", "hosttx"} \subseteq row.ask
  /\ Samples(log, "RFDBG_NET0_HOST_TX", FullLine) = row.tx
  /\ StoredPayload(log) = row.payload
  /\ Samples(log, "RFDBG_NET0_USER_CLEANUP", FullLine) = row.cleanup

HostTxRow(c, log, row) ==
  /\ SameReceipts(log, row)
  /\ IF c.wrong THEN HostTxRowGood(log) /\ ~row.pass /\ row.tx[2][1] < 10
                ELSE HostTxRowGood(log) = row.pass

HostTxClass(c, log) ==
  IF c.wrong THEN "capture-threshold-error"
  ELSE IF HostTxRowGood(log) THEN "pass" ELSE "firmware-or-contract-failure"

HostTxMain == Main({"elf", "head", "build"}, {"elf"}, {"ap"}, {}, "place", "digest")

-----------------------------------------------------------------------------
(* net0-rx-stop, whose collect the later collectors call.  Captures of an  *)
(* older firmware, with ten words per sample, are left out.                *)
RxContract(rx) ==
  /\ RxStopGood(rx)
  /\ rx[1][1] = 1 /\ SubSeq(rx[1], 2, 5) = <<0, 0, 0, 0>> /\ rx[1][10] = 0

RxStopRow(c, log, row) ==
  LET rx == Samples(log, "RFDBG_NET0_RX_STOP", FullLine)
  IN  /\ "rxstop" \in row.ask /\ rx = row.rx
      /\ SameReceipts(log, row)
      /\ (HostTxRowGood(log) /\ RxContract(rx)) = row.pass

Passes(rows) == Cardinality({i \in DOMAIN rows : rows[i].pass})

RxStopCase(c, rows) ==
  LET passes == Passes(rows)
  IN  CASE c.class = "accepted" -> Len(rows) = c.requested /\ passes = c.requested
        [] c.class = "rejected" -> passes = 0
        [] c.class = "partial-matrix-failure" ->
             0 < passes /\ passes < Len(rows) /\ Len(rows) < c.requested
        [] OTHER -> TRUE

RxStopMain == Main({"elf", "head", "build"}, {"elf"}, {"ap"}, {}, "place", "once")

-----------------------------------------------------------------------------
(* net0-direct-rx: a normal ELF, one whose reviewed branch is changed, and *)
(* the normal one restored.                                                *)
DirectRxRejected(c, rows, flag) ==
  IF c.digest = "negative"
  THEN /\ flag = 1 /\ Len(rows) = 1 /\ Passes(rows) = 0
       /\ rows[1].payload = <<>> /\ rows[1].markers = {}
  ELSE flag = 0

DirectRxMain ==
  [Main({"elf", "negative", "ap", "mutation", "build"}, {"source", "policy", "elf"}, {},
        {"downloads", "mode"}, "place", "classify") EXCEPT !.perCase = TRUE]

-----------------------------------------------------------------------------
(* net0-rx-rebuild.                                                        *)
RebuildInitial(sample) == sample = <<0, 0, 0, 0, 0, 0, 0, 0, 0, 0, 0, 255, 255, 0, 0, 0>>

RebuildValid(rb) == RebuildGood(rb) /\ RebuildInitial(rb[1])

(* 0xffffefda, the fault a rejected allocation reports.                    *)
RebuildNegative(rb) ==
  /\ Len(rb) = 2 /\ RebuildInitial(rb[1])
  /\ rb[2] = <<1, 1, 4, 4, 8, 0, 0, 0, 0, 0, 0, 0, 0, 0, 0, -4134>>

RebuildReceipt(log, row) ==
  LET rb == Samples(log, "RFDBG_NET0_RX_REBUILD", FullLine)
  IN  "rebuild" \in row.ask /\ rb = row.rebuild /\ RebuildValid(rb) = RebuildGood(row.rebuild)

RebuildRow(c, log, row) ==
  LET rb == Samples(log, "RFDBG_NET0_RX_REBUILD", FullLine)
  IN  /\ RxStopRow(c, log, row) /\ RebuildReceipt(log, row)
      /\ IF c.digest = "negative"
         THEN /\ RebuildNegative(rb) /\ ~row.pass
              /\ ~HasAny(log, {"RFDBG_A5B_DISCONNECT_OK", "RFDBG_NET0_INITIAL_SESSION_CLOSED"})
         ELSE RebuildValid(rb)

RebuildMain ==
  [Main({"elf", "negative", "ap", "mutation", "build"}, {"source", "policy", "elf", "flash"}, {},
        {"downloads", "reports"}, "place", "classify") EXCEPT !.perCase = TRUE]
-----------------------------------------------------------------------------
(* net0-stop-scope and net0-handshake-admission: two matrices, complete or *)
(* ended by their first failure; "a partial live capture is never          *)
(* evidence".  rows is what main has read; collect reads again.  A row's   *)
(* index is its position.                                                  *)
Complete(c, rows) == Len(rows) = c.requested /\ Passes(rows) = Len(rows)

(* Mutant: any capture that has a row is taken for one that is over.       *)
StopScopeLive(c, rows) == rows # <<>>

StopScopeEnded(c, rows) ==
  \/ Complete(c, rows)
  \/ rows # <<>> /\ ~Last(rows).pass /\ \A i \in 1 .. Len(rows) - 1 : rows[i].pass

StopScopeClass(c, rows) == IF Complete(c, rows) THEN "accepted" ELSE "preserved-matrix-failure"

StopScopeMain ==
  Main({"elf", "ap", "build"}, {"source", "policy", "elf"}, {}, {"downloads"}, "place", "classify")

HandshakeEnded(c, rows) == StopScopeEnded(c, rows)
HandshakeClass(c, rows) == IF Complete(c, rows) THEN "accepted" ELSE "partial-matrix-failure"
HandshakeMain == StopScopeMain

-----------------------------------------------------------------------------
(* net0-rx-deadline: one matrix, however far it got.                       *)
DeadlineClass(c, rows) == IF Complete(c, rows) THEN "accepted" ELSE "preserved-preflight-failure"

DeadlineRow(c, log, row) ==
  /\ RxStopRow(c, log, row) /\ RebuildReceipt(log, row)
  /\ row.pass => RebuildValid(Samples(log, "RFDBG_NET0_RX_REBUILD", FullLine))

DeadlineMain ==
  Main({"elf", "ap", "build"}, {"source", "policy", "elf", "flash"}, {},
       {"reports", "downloads", "tools"}, "place", "classify")

-----------------------------------------------------------------------------
(* net0-rx-origin: three rounds exactly, each with the receive origins it  *)
(* observed: bindings, failed, replaced, capacity, matched, unmatched,     *)
(* closed, current, stale, occupied, peak, exhausted.                      *)
OriginPhase(p) == "RFDBG_NET0_RX_ORIGIN phase=" \o p
Phases == <<"bootstrap", "connected", "payload", "disconnected">>
PhaseLines == {OriginPhase(Phases[i]) : i \in DOMAIN Phases}
OriginLines(log) == SelectSeq(log, LAMBDA l : l.m \in PhaseLines /\ l.shape \in FullLine)

OriginConserved(v, retired) ==
  /\ v[12] = 0 /\ v[1] = v[5] + v[3] + retired + v[10]
  /\ v[5] = v[7] + v[8] + v[9] /\ v[10] <= v[11] /\ v[11] <= 16

OriginRow(c, log, row) ==
  LET lines == OriginLines(log)
  IN  /\ DeadlineRow(c, log, row)
      /\ \A i \in DOMAIN lines : OriginConserved(lines[i].v, 0)
      /\ Len(lines) >= 2 /\ lines[1].m = OriginPhase("bootstrap") /\ Last(lines).v[1] > 0

OriginCase(c, rows) == Len(rows) = 3

(* failed, capacity and unmatched are the words 2, 4 and 6.                *)
Covered(lines) == \A i \in DOMAIN lines : \A k \in {2, 4, 6} : lines[i].v[k] = 0

OriginMain ==
  Main({"elf", "ap", "build"}, {"elf", "flash"}, {}, {"reports", "downloads", "tools"},
       "place", "vouch")

-----------------------------------------------------------------------------
(* net0-rx-origin-free: the same observations with the free attempts       *)
(* between them; a bad observation is recorded, not raised.                *)
FreePhase(p) == "RFDBG_NET0_RX_FREE phase=" \o p

Observations(log) ==
  LET FreeLines == {FreePhase(Phases[i]) : i \in 1 .. 4}
      free == SelectSeq(log, LAMBDA l : l.m \in FreeLines /\ l.shape \in FullLine)
      lines == OriginLines(log)
      counters == {1, 2, 3, 4, 5, 6, 7, 8, 9, 11}
  IN  /\ \A i \in DOMAIN log : log[i].m \in PhaseLines \union FreeLines => log[i].shape # "cut"
      /\ [i \in DOMAIN lines |-> lines[i].m] = [i \in 1 .. 4 |-> OriginPhase(Phases[i])]
      /\ [i \in DOMAIN free |-> free[i].m] = [i \in 1 .. 4 |-> FreePhase(Phases[i])]
      /\ \A i \in 1 .. 4 : /\ free[i].v[2] <= free[i].v[1]
                           /\ OriginConserved(lines[i].v, free[i].v[2])
      /\ \A i \in 2 .. 4 : /\ \A k \in counters : lines[i].v[k] >= lines[i - 1].v[k]
                           /\ \A k \in 1 .. 2 : free[i].v[k] >= free[i - 1].v[k]
      /\ free[4].v[1] > 0 /\ lines[4].v[1] > 0

FreeCoverage(log) == Observations(log) /\ Covered(OriginLines(log))

FreeRow(c, log, row) == RxStopRow(c, log, row) /\ RebuildReceipt(log, row)

FreeCase(c, rows) ==
  Len(rows) \in 1 .. 3 /\ (Len(rows) < 3 => ~Last(rows).pass)

FreeMain ==
  Main({"ap", "tools"}, {"elf"}, {"build", "reports"}, {}, "file", "once")

-----------------------------------------------------------------------------
(* The collector by the name of its evidence directory: what main decides  *)
(* from its first reading, what it demands of a row, of all of them, and   *)
(* of its inputs.                                                          *)
Ended(c, rows) ==
  CASE c.of = "stop-scope" -> StopScopeEnded(c, rows)
    [] c.of = "handshake-admission" -> HandshakeEnded(c, rows)
    [] OTHER -> TRUE

ClassOf(c, rows) ==
  CASE c.of = "stop-scope" -> StopScopeClass(c, rows)
    [] c.of = "handshake-admission" -> HandshakeClass(c, rows)
    [] c.of = "rx-deadline" -> DeadlineClass(c, rows)
    [] OTHER -> c.class

RowAgrees(c, log, row) ==
  CASE c.of = "initial-session" -> InitialRow(c, log, row)
    [] c.of = "user-cleanup" -> CleanupRow(c, log, row)
    [] c.of = "host-tx" -> HostTxRow(c, log, row)
    [] c.of \in {"rx-stop", "direct-rx", "stop-scope", "handshake-admission"} -> RxStopRow(c, log, row)
    [] c.of = "rx-rebuild" -> RebuildRow(c, log, row)
    [] c.of = "rx-deadline" -> DeadlineRow(c, log, row)
    [] c.of = "rx-origin" -> OriginRow(c, log, row)
    [] c.of = "rx-origin-free" -> FreeRow(c, log, row)

(* rx-origin demands its three rounds of the first reading too.            *)
FirstAgrees(c, first) == c.of = "rx-origin" => OriginCase(c, first)

CaseAgrees(c, rows) ==
  CASE c.of \in {"initial-session", "user-cleanup", "host-tx"} -> TRUE
    [] c.of = "direct-rx" -> RxStopCase(c, rows) /\ DirectRxRejected(c, rows, c.flag)
    [] c.of = "rx-origin" -> RxStopCase(c, rows) /\ OriginCase(c, rows)
    [] c.of = "rx-origin-free" -> RxStopCase(c, rows) /\ FreeCase(c, rows)
    [] OTHER -> RxStopCase(c, rows)

(* What a collector says of a row beyond its being good.                   *)
Coverage(covered) == IF covered THEN "covered" ELSE "not covered"
Label(c, log) ==
  CASE c.of = "initial-session" -> InitialClass(log)
    [] c.of = "user-cleanup" -> CleanupClass(c, log)
    [] c.of = "host-tx" -> HostTxClass(c, log)
    [] c.of = "rx-origin" -> Coverage(Covered(OriginLines(log)))
    [] c.of = "rx-origin-free" -> Coverage(FreeCoverage(log))
    [] OTHER -> ""

CollectorNames ==
  {"initial-session", "user-cleanup", "host-tx", "rx-stop", "direct-rx", "stop-scope",
   "handshake-admission", "rx-rebuild", "rx-deadline", "rx-origin", "rx-origin-free"}

MainOf(c) ==
  CASE c.of = "initial-session" -> InitialMain [] c.of = "user-cleanup" -> UserCleanupMain
    [] c.of = "host-tx" -> HostTxMain          [] c.of = "rx-stop" -> RxStopMain
    [] c.of = "direct-rx" -> DirectRxMain      [] c.of = "stop-scope" -> StopScopeMain
    [] c.of = "handshake-admission" -> HandshakeMain [] c.of = "rx-rebuild" -> RebuildMain
    [] c.of = "rx-deadline" -> DeadlineMain    [] c.of = "rx-origin" -> OriginMain
    [] c.of = "rx-origin-free" -> FreeMain
=============================================================================
