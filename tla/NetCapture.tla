----------------------------- MODULE NetCapture -----------------------------
(***************************************************************************)
(* What the NET0 capture tools, docs/plan/evidence/net0-*/capture-tool.py, *)
(* demand of their arguments and of one run's UART log.  Each tool is      *)
(* three operators: <Tool>Usage(o), which arguments it accepts, and        *)
(* <Tool>Plan(o), what else is decided before the first run, and           *)
(* <Tool>Run(o, log), the row one run adds to the summary.                 *)
(* A UART line is [m, v, shape]: its marker, its words (read as signed:    *)
(* 0xffffffff is -1) and how it was received:                              *)
(*   "whole"   on a line of its own;                                       *)
(*   "joined"  after other text on the same line;                          *)
(*   "cut"     its words lost, only the marker read;                       *)
(*   "last"    complete, but the log ends before its line end.             *)
(* The host-delivery phase and the error's code and stage are part of m.   *)
(* The arguments o name what was asked for: o.ask is the set of flags.     *)
(***************************************************************************)
EXTENDS Integers, Sequences, SequencesExt, FiniteSets

(* Texts that contain a shorter marker some tool searches for.             *)
Containing(m) ==
  {m} \union CASE m = "RFDBG_A5B_DISCONNECT_ERR" -> {"RFDBG_A5B_DISCONNECT_ERR_TRACE"}
               [] m = "PANIC" -> {"[PANIC]"}
               [] OTHER -> {}

(* marker in data                                                          *)
Has(log, m) == \E i \in DOMAIN log : log[i].m \in Containing(m)
HasAll(log, ms) == \A m \in ms : Has(log, m)
HasAny(log, ms) == \E m \in ms : Has(log, m)

(* re.findall: the samples of marker m in lines of the given shapes.       *)
Samples(log, m, shapes) ==
  LET lines == SelectSeq(log, LAMBDA l : l.m = m /\ l.shape \in shapes)
  IN  [i \in DOMAIN lines |-> lines[i].v]

OwnLine == {"whole"}
Terminated == {"whole", "joined"}
Anywhere == {"whole", "joined", "last"}

Panics == {"panicked at", "PANIC"}
Connected == {"RFDBG_A5B_CONNECT_OK", "RFDBG_A5B_DISCONNECT_OK", "RFDBG_A5B_CONNECT_PROFILE_OK"}
SessionMarkers == {"RFDBG_NET0_INITIAL_SESSION_OPEN", "RFDBG_NET0_PAYLOAD_OK",
                   "RFDBG_NET0_INITIAL_SESSION_CLOSED"}
FalseSuccess == {"RFDBG_A5B_DISCONNECT_OK", "RFDBG_A5B_CONNECT_PROFILE_OK",
                 "RFDBG_NET0_INITIAL_SESSION_CLOSED"}
RoleMarkers(o) == IF o.role = "ap" THEN {"RFDBG_SOFTAP_READY"} ELSE Connected

(* A run's row: it passes with every required marker, no failure and what  *)
(* more the tool checks.  What was not asked for has no entry, and stays   *)
(* empty here.                                                             *)
Row(o, log, required, failures, more, seen) ==
  seen @@ [ask |-> o.ask, markers |-> {m \in required : Has(log, m)},
           pass |-> HasAll(log, required) /\ ~HasAny(log, failures) /\ more,
           payload |-> <<>>, cleanup |-> <<>>, tx |-> <<>>, rx |-> <<>>,
           error |-> <<>>, rebuild |-> <<>>]

(* What a tool accepts: whether the parser takes the arguments (usage),    *)
(* whether the setup that has just made the directory does (setup), whether *)
(* the directory may exist, and whether the peer is reset before every run. *)
Usage(o, flags) ==
  [usage |-> o.ask \subseteq flags, setup |-> "peer" \in o.ask => o.role = "sta",
   reuse |-> FALSE, peer |-> "peer" \in o.ask]

(* A plan: where the summary is saved before the first run, whether the    *)
(* options fit together (checked after the flash), and the markers that    *)
(* end a capture early and that every run must show.                       *)
Plan(saves, fits, required) == [saves |-> saves, fits |-> fits, required |-> required]

-----------------------------------------------------------------------------
(* net0-storage: any number of ports (two here), a fixed capture time and  *)
(* a directory that may exist.  One port alone must have booted.           *)
BootstrapUsage(o) == [Usage(o, {"flash"}) EXCEPT !.reuse = TRUE]
BootstrapPlan(o) == Plan({"flash-failed"}, TRUE, {})

BootstrapRun(o, log, peer) ==
  LET Booted(l) == /\ HasAll(l, {"RFDBG_BOOTSTRAP_PROFILE_OK", "A5U_TASK_STACK_ADMISSION_OK"})
                   /\ ~HasAny(l, Panics \union {"RFDBG_BOOTSTRAP_PROFILE_ERR"})
  IN  Row(o, log, {}, {}, Cardinality({i \in 1 .. 2 : Booted(<<log, peer>>[i])}) = 1, <<>>)

-----------------------------------------------------------------------------
(* net0-control: connect, disconnect, profile.                             *)
ControlFailures == Panics \union {"RFDBG_A5B_CONNECT_ERR", "RFDBG_A5B_DISCONNECT_ERR",
                                  "RFDBG_A5B_BOOTSTRAP_ERR"}

ControlUsage(o) == Usage(o, {"flash"})
ControlPlan(o) == Plan({"start", "flash"}, TRUE, RoleMarkers(o))

ControlRun(o, log) == Row(o, log, RoleMarkers(o), ControlFailures, TRUE, <<>>)

(* net0-bound-control: and the station's bound and closed storage.         *)
Bound(o) == IF "bound" \in o.ask THEN {"RFDBG_NET0_BOUND_CLOSED"} ELSE {}

BoundUsage(o) == Usage(o, {"flash", "bound"})
BoundPlan(o) ==
  Plan({"start", "flash", "contract"}, "bound" \in o.ask => o.role = "sta",
       RoleMarkers(o) \union Bound(o))

BoundRun(o, log) == Row(o, log, BoundPlan(o).required, ControlFailures, TRUE, <<>>)

-----------------------------------------------------------------------------
(* net0-host-delivery: and the calls into the native delivery hook, read   *)
(* at three phases: entered, returned, abandoned, in_flight, peak, closed, *)
(* crossed_close, nonzero, exhausted.                                      *)
DeliveryPhases == <<"RFDBG_NET0_HOST_DELIVERY phase=bootstrap",
                    "RFDBG_NET0_HOST_DELIVERY phase=connected",
                    "RFDBG_NET0_HOST_DELIVERY phase=disconnected">>

HostDelivery(log) ==
  LET lines == SelectSeq(log, LAMBDA l : l.m \in ToSet(DeliveryPhases) /\ l.shape \in Terminated)
      n == Len(lines)
      v == [i \in DOMAIN lines |-> lines[i].v]
  IN  /\ [i \in DOMAIN lines |-> lines[i].m] = DeliveryPhases
      /\ \A i \in 1 .. n : /\ v[i][9] = 0 /\ v[i][1] = v[i][2] + v[i][3] + v[i][4]
                           /\ v[i][3] = 0 /\ v[i][4] = 0 /\ v[i][8] = 0
                           /\ v[i][6] = v[i][1]
                           /\ i > 1 => v[i][1] >= v[i - 1][1]
      /\ v[n][1] # 0

(* What capture-test.py expects of host_delivery: one accepted log and     *)
(* seven that are refused.                                                 *)
DeliveryFixtures ==
  LET Call(k, n) == [m |-> DeliveryPhases[k], shape |-> "whole",
                     v |-> <<n, n, 0, 0, IF n > 0 THEN 1 ELSE 0, n, 0, 0, 0>>]
      Valid == <<Call(1, 0), Call(2, 4), Call(3, 5)>>
  IN  [accepted |-> {Valid},
       refused |-> {[Valid EXCEPT ![2].v[2] = 3], [Valid EXCEPT ![1].v[9] = 1],
                    Append(Valid, Call(3, 5)), <<Call(2, 4)>>, <<>>,
                    <<Call(1, 0), Call(2, 0), Call(3, 0)>>, [Valid EXCEPT ![3].v[6] = 4]}]
ASSUME FixturesJudged ==
  \A verdict \in {"accepted", "refused"} : \A log \in DeliveryFixtures[verdict] :
    HostDelivery(log) <=> verdict = "accepted"

DeliveryUsage(o) == Usage(o, {"flash", "bound", "delivery"})
DeliveryPlan(o) == BoundPlan(o)

DeliveryRun(o, log) ==
  Row(o, log, DeliveryPlan(o).required, ControlFailures,
      "delivery" \in o.ask => HostDelivery(log), <<>>)

-----------------------------------------------------------------------------
(* net0-initial-session, and the identical net0-traffic-storage and        *)
(* net0-pbuf-epoch: one session carries ten datagrams; the access point    *)
(* may be reset before every run.                                          *)
SessionFailures == ControlFailures \union {"RFDBG_NET0_PAYLOAD_ERR",
                                           "RFDBG_NET0_INITIAL_SESSION_REJECTED"}

Session(o) == "session" \in o.ask

SessionFits(o) == /\ Session(o) => o.role = "sta" /\ "delivery" \notin o.ask
                  /\ "bound" \in o.ask => o.role = "sta"

SessionUsage(o) == Usage(o, {"flash", "bound", "delivery", "session", "peer"})
SessionPlan(o) ==
  Plan({"start", "flash", "contract"}, SessionFits(o),
       RoleMarkers(o) \union Bound(o) \union (IF Session(o) THEN SessionMarkers ELSE {}))

(* sent, received, bitmap, invalid, duplicate; a second line is no payload. *)
Payload(log) ==
  LET found == Samples(log, "RFDBG_NET0_PAYLOAD", Anywhere)
  IN  IF Len(found) = 1 THEN found[1] ELSE <<>>

PayloadGood(p) == p # <<>> /\ SubSeq(p, 1, 4) = <<10, 10, 1023, 0>>

SessionRun(o, log) ==
  Row(o, log, SessionPlan(o).required, SessionFailures,
      /\ "delivery" \in o.ask => HostDelivery(log)
      /\ Session(o) => PayloadGood(Payload(log)),
      [payload |-> IF Session(o) THEN Payload(log) ELSE <<>>])

TrafficUsage(o) == SessionUsage(o)
TrafficPlan(o) == SessionPlan(o)
TrafficRun(o, log) == SessionRun(o, log)
PbufUsage(o) == SessionUsage(o)
PbufPlan(o) == SessionPlan(o)
PbufRun(o, log) == SessionRun(o, log)
-----------------------------------------------------------------------------
(* net0-user-cleanup: the session's owner state before and after, and the  *)
(* injected fault whose rejection is then the expected end.                *)
Fault(o) == "fault" \in o.ask

CleanupUsage(o) == Usage(o, {"flash", "bound", "delivery", "session", "peer", "fault"})

CleanupPlan(o) ==
  LET all == RoleMarkers(o) \union Bound(o) \union (IF Session(o) THEN SessionMarkers ELSE {})
  IN  Plan({"start", "flash", "contract"}, SessionFits(o) /\ (Fault(o) => Session(o)),
           IF Fault(o) THEN (all \ FalseSuccess) \union {"RFDBG_NET0_CLEANUP_FAULT_REJECTED"}
                       ELSE all)

CleanupFailures(o) ==
  IF Fault(o) THEN SessionFailures \ {"RFDBG_A5B_DISCONNECT_ERR"} ELSE SessionFailures

CleanupGood(o, samples) ==
  LET code == IF Fault(o) THEN 100 ELSE 0
  IN  samples = << <<0, 0, 0, 0, 0, 0, 0, 0, 0, 0>>,
                   <<1, 1, 0, 1, 0, code, 0, 1, code, code>> >>

(* 0x5732d064, the fault's code as the backend reports it, and the native  *)
(* status 0x64.                                                            *)
InjectedFault == 1462947940
ErrorGood(log) ==
  /\ Samples(log, "RFDBG_A5B_DISCONNECT_ERR", OwnLine) = << <<InjectedFault>> >>
  /\ Samples(log, "RFDBG_A5B_DISCONNECT_ERR_TRACE", OwnLine) = << <<100>> >>
  /\ ~HasAny(log, FalseSuccess)

CleanupRun(o, log) ==
  LET samples == Samples(log, "RFDBG_NET0_USER_CLEANUP", OwnLine)
  IN  Row(o, log, CleanupPlan(o).required, CleanupFailures(o),
          /\ "delivery" \in o.ask => HostDelivery(log)
          /\ Session(o) => PayloadGood(Payload(log)) /\ CleanupGood(o, samples)
          /\ Fault(o) => ErrorGood(log),
          [payload |-> IF Session(o) THEN Payload(log) ELSE <<>>,
           cleanup |-> IF Session(o) THEN samples ELSE <<>>,
           error |-> IF ~Fault(o) THEN <<>>
                     ELSE <<Samples(log, "RFDBG_A5B_DISCONNECT_ERR", OwnLine),
                            Samples(log, "RFDBG_A5B_DISCONNECT_ERR_TRACE", OwnLine),
                            <<{m \in FalseSuccess : Has(log, m)}>> >>])

-----------------------------------------------------------------------------
(* Mutant: a fault before the session is not looked at.                    *)
HostTxFaultAfter(tx) ==
  /\ Len(tx) = 2
  /\ \A i \in 1 .. 2 : tx[i][1] = tx[i][2] + tx[i][3] + tx[i][4] /\ tx[i][7] = 0
  /\ tx[2][9] = 0 /\ tx[2][1] > 0 /\ tx[2][4] = 0 /\ tx[2][8] = 1

(* net0-host-tx: accepted, processed, dropped, pending, peak, rejected,    *)
(* callback_errors, closed, fault; before and after.                       *)
HostTxGood(tx) ==
  /\ Len(tx) = 2
  /\ \A i \in 1 .. 2 : /\ tx[i][1] = tx[i][2] + tx[i][3] + tx[i][4]
                       /\ tx[i][9] = 0 /\ tx[i][7] = 0
  /\ tx[2][1] > 0 /\ tx[2][4] = 0 /\ tx[2][8] = 1

HostTxUsage(o) == CleanupUsage([o EXCEPT !.ask = @ \ {"hosttx"}])
HostTxPlan(o) == CleanupPlan(o)

HostTxRun(o, log) ==
  LET row == CleanupRun(o, log)
      tx == Samples(log, "RFDBG_NET0_HOST_TX", OwnLine)
  IN  IF "hosttx" \in o.ask
      THEN [row EXCEPT !.tx = tx, !.pass = @ /\ HostTxGood(tx)] ELSE row

-----------------------------------------------------------------------------
(* net0-rx-stop, and the identical net0-direct-rx, net0-handshake-admission *)
(* and net0-stop-scope: installed, requested, entered, returned,           *)
(* post_returned, mac_before, mac_after, descriptors_empty, native_status, *)
(* fault, expected_task, current_task; before and after.                   *)
RxStopGood(rx) ==
  /\ Len(rx) = 2
  /\ SubSeq(rx[2], 1, 5) = <<1, 1, 1, 1, 1>>
  /\ SubSeq(rx[2], 7, 10) = <<0, 1, 0, 0>>
  /\ rx[2][11] \notin {0, -1} /\ rx[2][11] = rx[2][12]

RxStopUsage(o) == HostTxUsage([o EXCEPT !.ask = @ \ {"rxstop"}])
RxStopPlan(o) == HostTxPlan(o)

RxStopRun(o, log) ==
  LET row == HostTxRun(o, log)
      rx == Samples(log, "RFDBG_NET0_RX_STOP", OwnLine)
  IN  IF "rxstop" \in o.ask
      THEN [row EXCEPT !.rx = rx, !.pass = @ /\ RxStopGood(rx)] ELSE row

DirectRxUsage(o) == RxStopUsage(o)
DirectRxPlan(o) == RxStopPlan(o)
DirectRxRun(o, log) == RxStopRun(o, log)
HandshakeUsage(o) == RxStopUsage(o)
HandshakePlan(o) == RxStopPlan(o)
HandshakeRun(o, log) == RxStopRun(o, log)
StopScopeUsage(o) == RxStopUsage(o)
StopScopePlan(o) == RxStopPlan(o)
StopScopeRun(o, log) == RxStopRun(o, log)

-----------------------------------------------------------------------------
(* net0-rx-rebuild: attempted, cleanup_attempted, what is expected, found  *)
(* and left over of three descriptor pools, and the five words that report *)
(* a fault; before and after.                                              *)
RebuildGood(rb) ==
  /\ Len(rb) = 2
  /\ SubSeq(rb[1], 1, 2) = <<0, 0>> /\ SubSeq(rb[2], 1, 2) = <<1, 1>>
  /\ rb[2][3] + rb[2][4] + rb[2][5] > 0
  /\ SubSeq(rb[2], 3, 5) = SubSeq(rb[2], 6, 8)
  /\ SubSeq(rb[2], 9, 16) = <<0, 0, 0, 0, 0, 0, 0, 0>>

RebuildUsage(o) ==
  [RxStopUsage([o EXCEPT !.ask = @ \ {"rebuild"}])
    EXCEPT !.usage = @ /\ ("rebuild" \in o.ask => "rxstop" \in o.ask)]
RebuildPlan(o) == RxStopPlan(o)

RebuildRun(o, log) ==
  LET row == RxStopRun(o, log)
      rb == Samples(log, "RFDBG_NET0_RX_REBUILD", OwnLine)
  IN  IF "rebuild" \in o.ask
      THEN [row EXCEPT !.rebuild = rb, !.pass = @ /\ RebuildGood(rb)] ELSE row

-----------------------------------------------------------------------------
(* The tool by the name of its evidence directory.                         *)
UsageOf(o) ==
  CASE o.tool = "storage" -> BootstrapUsage(o)    [] o.tool = "control" -> ControlUsage(o)
    [] o.tool = "bound-control" -> BoundUsage(o)  [] o.tool = "host-delivery" -> DeliveryUsage(o)
    [] o.tool = "initial-session" -> SessionUsage(o) [] o.tool = "traffic-storage" -> TrafficUsage(o)
    [] o.tool = "pbuf-epoch" -> PbufUsage(o)      [] o.tool = "user-cleanup" -> CleanupUsage(o)
    [] o.tool = "host-tx" -> HostTxUsage(o)       [] o.tool = "rx-stop" -> RxStopUsage(o)
    [] o.tool = "direct-rx" -> DirectRxUsage(o)   [] o.tool = "handshake-admission" -> HandshakeUsage(o)
    [] o.tool = "stop-scope" -> StopScopeUsage(o) [] o.tool = "rx-rebuild" -> RebuildUsage(o)

PlanOf(o) ==
  CASE o.tool = "storage" -> BootstrapPlan(o)    [] o.tool = "control" -> ControlPlan(o)
    [] o.tool = "bound-control" -> BoundPlan(o)  [] o.tool = "host-delivery" -> DeliveryPlan(o)
    [] o.tool = "initial-session" -> SessionPlan(o) [] o.tool = "traffic-storage" -> TrafficPlan(o)
    [] o.tool = "pbuf-epoch" -> PbufPlan(o)      [] o.tool = "user-cleanup" -> CleanupPlan(o)
    [] o.tool = "host-tx" -> HostTxPlan(o)       [] o.tool = "rx-stop" -> RxStopPlan(o)
    [] o.tool = "direct-rx" -> DirectRxPlan(o)   [] o.tool = "handshake-admission" -> HandshakePlan(o)
    [] o.tool = "stop-scope" -> StopScopePlan(o) [] o.tool = "rx-rebuild" -> RebuildPlan(o)

RowOf(o, log, peer) ==
  CASE o.tool = "storage" -> BootstrapRun(o, log, peer) [] o.tool = "control" -> ControlRun(o, log)
    [] o.tool = "bound-control" -> BoundRun(o, log)  [] o.tool = "host-delivery" -> DeliveryRun(o, log)
    [] o.tool = "initial-session" -> SessionRun(o, log) [] o.tool = "traffic-storage" -> TrafficRun(o, log)
    [] o.tool = "pbuf-epoch" -> PbufRun(o, log)      [] o.tool = "user-cleanup" -> CleanupRun(o, log)
    [] o.tool = "host-tx" -> HostTxRun(o, log)       [] o.tool = "rx-stop" -> RxStopRun(o, log)
    [] o.tool = "direct-rx" -> DirectRxRun(o, log)   [] o.tool = "handshake-admission" -> HandshakeRun(o, log)
    [] o.tool = "stop-scope" -> StopScopeRun(o, log) [] o.tool = "rx-rebuild" -> RebuildRun(o, log)
=============================================================================
