---------------------------- MODULE PairedMatrix ----------------------------
(***************************************************************************)
(* The reset matrices of hil/ that drive two boards: both input buffers    *)
(* are emptied, one board is reset and given time to settle, the other is  *)
(* reset, and both UARTs are collected until the contract is complete or   *)
(* the time is up.  ws63-ble-bond holds the second board in reset while    *)
(* the first one settles (jlink_nrst.py, held_nrst) and carries the        *)
(* passkey from one board to the other; ws63-coexistence resets both at    *)
(* once.  The boards print while the tool is at any step.                  *)
(***************************************************************************)
EXTENDS CoexistenceVerdict, BondVerdict

CONSTANTS
  Options,      \* the command lines; boots is what each board may print after
                \* a reset: segments of lines, old what it may still print at
                \* the start
  MaxUnread     \* bound: lines that wait in a serial port's input buffer

Tools == {"radio-u2", "ble-gatt", "ble-discovery", "sle-discovery",
          "sle-connect", "sle-ssap", "coexistence", "ble-bond"}

ASSUME ToolsAssumption == \A o \in Options : o.tool \in Tools

Sides == {"first", "second"}

(* What a board prints is whole lines, none of them stale yet; a line has  *)
(* no fields but those of its kind.  The central waits for the passkey     *)
(* before it says that it accepted it: a segment begins with that line.    *)
Scripts == UNION {o.boots[s] \cup o.old[s] : o \in Options, s \in Sides}
Printed == UNION {UNION {{b[i][j] : j \in DOMAIN b[i]} : i \in DOMAIN b} : b \in Scripts}

ASSUME ScriptsAssumption ==
  /\ Scripts \subseteq Seq(Seq(Printed))
  /\ \A l \in Printed :
       /\ {"m", "v", "stale"} \subseteq DOMAIN l /\ l.stale = FALSE
       /\ l.v \in [DOMAIN l.v -> Nat]
       /\ l.m \in {ActivityEvents, ServerEvents, ActivityResources, ServerResources}
            => DOMAIN l.v \subseteq Fields(l.m)
  /\ \A b \in Scripts : \A i \in DOMAIN b : \A j \in 2 .. Len(b[i]) :
       b[i][j].m # PasskeyAccepted

VARIABLES
  opt, pc, run,
  left, rx,         \* per board: segments still to be printed, unread input
  inbox,            \* what the second board has read from its UART
  held, holder,     \* the second board is in reset; J-Link Commander's process
  failed,           \* an exception is on its way out of held_nrst
  log, complete, relayed,
  disk, records, abort, status,
  sent,             \* history: passkeys written to the second board this run
  stuck             \* history: what the tool does not make good: a pulse that
                    \* failed, or how Commander ended by itself

boards == <<left, rx, inbox>>
reset == <<held, holder, failed, stuck>>
attempt == <<log, complete, relayed, sent>>
results == <<disk, records, abort, status>>
vars == <<opt, pc, run, boards, reset, attempt, results>>

Nothing == [s \in Sides |-> <<>>]

Bond(o) == o.tool = "ble-bond"

-----------------------------------------------------------------------------
(* The tools: what ends a capture early, and what is said of its logs.     *)
Capture(o) ==
  CASE o.tool = "radio-u2" -> U2Capture(o.contract)
    [] o.tool = "ble-gatt" -> GattCapture
    [] o.tool = "ble-discovery" -> BleDiscoveryCapture
    [] o.tool = "sle-discovery" -> SleDiscoveryCapture
    [] o.tool = "sle-connect" -> SleConnectCapture
    [] o.tool = "sle-ssap" ->
         [SleConnectCapture EXCEPT !.done = [s \in Sides |-> {SsapDone[s]}]]
    [] o.tool = "coexistence" -> [hold |-> FALSE, settle |-> FALSE]
    [] o.tool = "ble-bond" -> [hold |-> TRUE, settle |-> TRUE]

Complete(o, logs) ==
  CASE o.tool = "ble-bond" -> BondComplete(o.contract, o.removal, logs)
    [] o.tool = "coexistence" -> CoexComplete(o.contract, logs)
    [] OTHER -> \A s \in Sides : Missing(logs[s], Capture(o).done[s]) = {}

Classify(o, logs) ==
  CASE o.tool = "radio-u2" -> U2Classify(o.contract, logs)
    [] o.tool = "ble-gatt" -> GattClassify(logs)
    [] o.tool = "ble-discovery" -> BleDiscoveryClassify(logs)
    [] o.tool = "sle-discovery" -> SleDiscoveryClassify(logs)
    [] o.tool = "sle-connect" -> SleConnectClassify(logs)
    [] o.tool = "sle-ssap" -> MarkerVerdict(logs, SsapMarkers)
    [] o.tool = "coexistence" ->
         [pass |-> CoexPairPasses(o.contract, logs),
          sides |-> [s \in Sides |->
            CoexClassify(o.contract, EndpointRoles(o.contract)[s], logs[s])]]
    [] o.tool = "ble-bond" -> BondClassify(o.contract, o.removal, logs)

-----------------------------------------------------------------------------
Init ==
  /\ opt \in Options
  /\ pc = "args"
  /\ run = 1
  /\ \E a \in opt.old.first, b \in opt.old.second :
       left = [s \in Sides |-> IF s = "first" THEN a ELSE b]
  /\ rx = Nothing /\ inbox = <<>>
  /\ held = FALSE /\ holder = "none" /\ failed = FALSE /\ stuck = "no"
  /\ log = Nothing /\ complete = FALSE /\ relayed = FALSE /\ sent = <<>>
  /\ disk = <<>> /\ records = <<>> /\ abort = FALSE /\ status = "none"

Raise == pc' = "exit" /\ status' = "raised"
Stale(lines) == [i \in DOMAIN lines |-> [lines[i] EXCEPT !.stale = TRUE]]

(* A pulse of nRST, or its release, starts the board from the beginning.   *)
Restart(s) ==
  /\ \E b \in opt.boots[s] : left' = [left EXCEPT ![s] = b]
  /\ inbox' = IF s = "second" THEN <<>> ELSE inbox
  /\ rx' = rx

(* parse_args and main up to the first run; paths says that the ELF files  *)
(* exist and that the output directory does not.                           *)
Start ==
  /\ pc = "args"
  /\ IF /\ opt.runs > 0 /\ opt.paths
        /\ opt.removal => opt.contract = "passkey"
     THEN pc' = "ready" /\ status' = status
     ELSE pc' = "exit" /\ status' = "usage"
  /\ UNCHANGED <<opt, run, boards, reset, attempt, disk, records, abort>>

-----------------------------------------------------------------------------
(* The boards.  The central shows that it accepted the passkey when it has *)
(* read the one that the peripheral displays; it refuses another.          *)
Awaits(line) == line.m = PasskeyAccepted
Refused == << <<Plain("RFDBG_RADIO_U5_BLE_PASSKEY_RESPONSE_ERR")>> >>

Prints(s) ==
  /\ pc # "exit" /\ left[s] # <<>> /\ Len(rx[s]) <= MaxUnread
  /\ s = "second" => ~held
  /\ Awaits(Head(left[s])[1]) => inbox # <<>>
  /\ IF Awaits(Head(left[s])[1]) /\ Head(inbox).stale
     THEN left' = [left EXCEPT ![s] = Refused] /\ rx' = rx
     ELSE /\ left' = [left EXCEPT ![s] = Tail(@)]
          /\ rx' = [rx EXCEPT ![s] = @ \o Head(left[s])]
  /\ UNCHANGED <<opt, pc, run, inbox, reset, attempt, results>>

FirstPrints == Prints("first")
SecondPrints == Prints("second")

-----------------------------------------------------------------------------
(* capture_run.  What the boards still print was started by an earlier     *)
(* reset than this run's from now on.                                      *)
ResetInputs ==
  /\ pc = "ready"
  /\ rx' = Nothing /\ log' = Nothing
  /\ left' = [s \in Sides |-> [i \in DOMAIN left[s] |-> Stale(left[s][i])]]
  /\ complete' = FALSE /\ relayed' = FALSE /\ sent' = <<>>
  /\ pc' = IF Capture(opt).hold THEN "hold" ELSE "pulseFirst"
  /\ UNCHANGED <<opt, run, inbox, reset, results>>

(* held_nrst: Commander still runs 0.4 s after it was told to drive nRST,  *)
(* which it has done unless it is slow.                                    *)
Drive ==
  /\ held' \in {held, TRUE}
  /\ left' = IF held' THEN [left EXCEPT !["second"] = <<>>] ELSE left

HoldReset ==
  /\ pc = "hold"
  /\ Drive
  /\ holder' = "alive" /\ stuck' = "no"
  /\ inbox' = IF held' THEN <<>> ELSE inbox
  /\ pc' = "pulseFirst"
  /\ UNCHANGED <<opt, run, rx, failed, attempt, results>>

(* Commander exits within 0.4 s, before or after it drove nRST.            *)
HoldFails ==
  /\ pc = "hold"
  /\ Drive
  /\ holder' \in {"quit", "crashed"}
  /\ stuck' = IF holder' = "quit" THEN "quit" ELSE "no"
  /\ failed' = TRUE /\ pc' = "release"
  /\ UNCHANGED <<opt, run, rx, inbox, attempt, results>>

(* Commander ends by itself, with status 0 or another, or stops answering; *)
(* nRST stays as it is.  It may still do so after poll() found it alive.   *)
HolderDies ==
  /\ holder = "alive" /\ pc \in {"pulseFirst", "settle", "release", "communicate"}
  /\ holder' \in {"quit", "crashed", "hung"}
  /\ stuck' = IF holder' = "hung" THEN stuck
              ELSE IF pc = "communicate" THEN "late"
              ELSE IF holder' = "quit" THEN "quit" ELSE stuck
  /\ UNCHANGED <<opt, pc, run, boards, held, failed, attempt, results>>

PulseFirst ==
  /\ pc = "pulseFirst"
  /\ Restart("first")
  /\ pc' = IF Capture(opt).settle THEN "settle" ELSE "pulseSecond"
  /\ UNCHANGED <<opt, run, reset, attempt, results>>

(* J-Link fails or takes longer than 10 s.                                 *)
PulseFails ==
  /\ pc \in {"pulseFirst", "pulseSecond"}
  /\ IF holder = "none" THEN Raise /\ failed' = failed
     ELSE pc' = "release" /\ failed' = TRUE /\ status' = status
  /\ UNCHANGED <<opt, run, boards, held, holder, stuck, attempt, disk, records, abort>>

DrainFirst ==
  /\ pc = "settle" /\ rx["first"] # <<>>
  /\ log' = [log EXCEPT !["first"] = @ \o rx["first"]]
  /\ rx' = [rx EXCEPT !["first"] = <<>>]
  /\ UNCHANGED <<opt, pc, run, left, inbox, reset, complete, relayed, sent, results>>

SettleElapsed ==
  /\ pc = "settle"
  /\ pc' = IF holder = "none" THEN "pulseSecond" ELSE "release"
  /\ UNCHANGED <<opt, run, boards, reset, attempt, results>>

PulseSecond ==
  /\ pc = "pulseSecond"
  /\ Restart("second")
  /\ pc' = "loop"
  /\ UNCHANGED <<opt, run, reset, attempt, results>>

-----------------------------------------------------------------------------
(* The end of held_nrst, with or without an exception on its way.          *)
Unwind ==
  IF failed THEN Raise ELSE pc' = "loop" /\ status' = status

Released ==
  /\ Restart("second")
  /\ held' = FALSE /\ stuck' = "no"
  /\ Unwind

NotReleased == UNCHANGED <<boards, held>>

(* process.poll(): from here on Commander is taken to be there.            *)
PollHolder ==
  /\ pc = "release" /\ holder \in {"alive", "hung"}
  /\ pc' = "communicate"
  /\ UNCHANGED <<opt, run, boards, reset, attempt, results>>

PulseReleaseFails == NotReleased /\ stuck' = "pulse" /\ Raise

(* Mutant: Commander is waited for without a timeout.                      *)
ReleaseWithoutTimeout ==
  /\ \/ pc = "communicate" /\ holder = "alive"
     \/ pc = "release" /\ holder = "crashed"
  /\ \/ Released
     \/ holder # "alive" /\ PulseReleaseFails
  /\ holder' = "none"
  /\ UNCHANGED <<opt, run, failed, attempt, disk, records, abort>>

(* ClrRESET through Commander when it answers within 5 s, or a whole pulse *)
(* after it was killed or when it had ended with an error by the time of   *)
(* the poll; the pulse may fail.                                           *)
ReleaseReset ==
  /\ \/ pc = "communicate" /\ holder \in {"alive", "hung"}
     \/ pc = "release" /\ holder = "crashed"
  /\ \/ Released
     \/ holder # "alive" /\ PulseReleaseFails
  /\ holder' = "none"
  /\ UNCHANGED <<opt, run, failed, attempt, disk, records, abort>>

(* Mutant: any Commander that ended is taken to have released nRST.        *)
TrustEnded ==
  /\ pc \in {"release", "communicate"} /\ holder \in {"quit", "crashed"}
  /\ NotReleased /\ stuck' = stuck /\ Unwind
  /\ holder' = "none"
  /\ UNCHANGED <<opt, run, failed, attempt, disk, records, abort>>

(* A Commander that ended with status 0 by the time of the poll is taken   *)
(* to have released nRST, and so is one that ended after it: communicate() *)
(* swallows the broken pipe, and nobody looks at the returncode.           *)
TrustQuit ==
  /\ \/ pc = "release" /\ holder = "quit"
     \/ pc = "communicate" /\ holder \in {"quit", "crashed"}
  /\ NotReleased /\ stuck' = stuck /\ Unwind
  /\ holder' = "none"
  /\ UNCHANGED <<opt, run, failed, attempt, disk, records, abort>>

-----------------------------------------------------------------------------
Drained == [s \in Sides |-> log[s] \o rx[s]]

(* Mutant: the passkey is written again whenever it is in the log.         *)
RelaysAlways(logs) ==
  Bond(opt) /\ opt.contract = "passkey" /\ Has(logs.first, PasskeyDisplay)

Relays(logs) ==
  /\ Bond(opt) /\ opt.contract = "passkey" /\ ~relayed
  /\ Has(logs.first, PasskeyDisplay)

(* The passkey that PASSKEY_PATTERN.search finds: the first of the log.    *)
Passkey(lines) ==
  lines[CHOOSE i \in DOMAIN lines : /\ lines[i].m = PasskeyDisplay
                                    /\ \A j \in 1 .. i - 1 : lines[j].m # PasskeyDisplay]

(* One iteration of the loop.                                              *)
Poll ==
  /\ pc = "loop" /\ rx # Nothing
  /\ log' = Drained
  /\ rx' = Nothing
  /\ IF Relays(Drained)
     THEN /\ inbox' = Append(inbox, Passkey(Drained.first))
          /\ sent' = Append(sent, Passkey(Drained.first))
          /\ relayed' = TRUE
     ELSE UNCHANGED <<inbox, sent, relayed>>
  /\ complete' = (complete \/ Complete(opt, Drained))
  /\ UNCHANGED <<opt, pc, run, left, reset, results>>

CaptureEnds ==
  /\ pc' = "write"
  /\ log' = Drained
  /\ rx' = Nothing
  /\ UNCHANGED <<opt, run, left, inbox, reset, complete, relayed, sent, results>>

DeadlinePassed == pc = "loop" /\ CaptureEnds
LingerElapsed == pc = "loop" /\ complete /\ CaptureEnds

(* The logs of the run are written, then judged.                           *)
WriteRun ==
  /\ pc = "write"
  /\ LET logs == IF Bond(opt) THEN [s \in Sides |-> RedactPasskeys(log[s])] ELSE log
         record == Classify(opt, logs)
     IN  /\ disk' = Append(disk, [logs |-> logs, sent |-> sent])
         /\ records' = Append(records, record)
         /\ abort' = (Bond(opt) /\ run = 1 /\ record.empty # {})
  /\ run' = run + 1
  /\ pc' = IF abort' \/ run = opt.runs THEN "summarize" ELSE "ready"
  /\ UNCHANGED <<opt, boards, reset, attempt, status>>

ContractPass ==
  /\ Len(records) = opt.runs
  /\ \A i \in DOMAIN records : records[i].pass
  /\ Bond(opt) => PersistenceProven(records, opt.contract, opt.removal) /\ ~abort

Summarize ==
  /\ pc = "summarize"
  /\ pc' = "exit"
  /\ status' = IF ContractPass THEN "ok" ELSE "failed"
  /\ UNCHANGED <<opt, run, boards, reset, attempt, disk, records, abort>>

ToolStep ==
  \/ ResetInputs \/ HoldReset \/ PulseFirst \/ SettleElapsed \/ PulseSecond
  \/ PollHolder \/ ReleaseReset \/ TrustQuit \/ DeadlinePassed

Next ==
  \/ Start \/ ToolStep \/ HoldFails \/ HolderDies \/ PulseFails
  \/ DrainFirst \/ Poll \/ LingerElapsed \/ WriteRun \/ Summarize
  \/ FirstPrints \/ SecondPrints

Spec == Init /\ [][Next]_vars

(* Every wait of the tool has a deadline or a timeout.                     *)
FairSpec == Spec /\ WF_vars(ToolStep)

-----------------------------------------------------------------------------
TypeOK ==
  /\ pc \in {"args", "ready", "hold", "pulseFirst", "settle", "pulseSecond",
             "release", "communicate", "loop", "write", "summarize", "exit"}
  /\ held \in BOOLEAN /\ failed \in BOOLEAN
  /\ holder \in {"none", "alive", "quit", "crashed", "hung"}
  /\ stuck \in {"no", "pulse", "quit", "late"}
  /\ complete \in BOOLEAN /\ relayed \in BOOLEAN /\ abort \in BOOLEAN
  /\ status \in {"none", "usage", "raised", "ok", "failed"}

(* held_nrst: "Hold nRST for the context lifetime and release it on every  *)
(* exit path."  While nRST is driven its owner is alive or the way out is  *)
(* still ahead.  It stays driven, and the board silent, only when the      *)
(* pulse that should release it fails, which raises, or after Commander    *)
(* ended by itself with status 0, or ended in any way after the poll.      *)
ResetReleased ==
  /\ TypeOK
  /\ pc \in {"loop", "write", "summarize"} => holder = "none"
  /\ held /\ holder = "none" => stuck # "no"
  /\ held /\ stuck = "pulse" => pc = "exit" /\ status = "raised"

(* The quoted sentence without these exceptions, which does not hold.      *)
EveryPathReleases == pc \in {"loop", "exit"} => ~held

(* A bond run that passes shows one generation of each board: when the     *)
(* boot of this run's reset is in its log, none of its protocol lines was  *)
(* printed by the firmware that ran before, however long that went on      *)
(* printing between the emptied buffer and the reset.                      *)
OneGeneration ==
  Bond(opt) =>
    \A i \in {j \in DOMAIN records : records[j].pass} : \A s \in Sides :
      LET lines == disk[i].logs[s]
      IN  (\E j \in DOMAIN lines : lines[j].m = Boot /\ ~lines[j].stale) =>
            \A j \in DOMAIN lines : lines[j].m \in BondLines => ~lines[j].stale

(* Redaction leaves no passkey on disk, and a fresh pairing that passes    *)
(* was made with one passkey, the one that the peripheral of this run      *)
(* displayed.  The boot of this run's reset has to be in the central's     *)
(* log: without it a whole generation of the run before, which was left    *)
(* waiting for its passkey, may be read between the emptied buffer and the *)
(* hold and pass with nothing sent.                                        *)
PasskeyOfThisRun ==
  Bond(opt) => \A i \in DOMAIN disk :
    LET logs == disk[i].logs
    IN  /\ \A s \in Sides : ~Has(logs[s], PasskeyDisplay)
        /\ /\ records[i].pass /\ ~records[i].restored_contract
           /\ opt.contract = "passkey"
           /\ \E j \in DOMAIN logs.second :
                logs.second[j].m = Boot /\ ~logs.second[j].stale
           => Len(disk[i].sent) = 1 /\ ~disk[i].sent[1].stale

(* validate_persistence: "Validate cross-reset persistence, not just each  *)
(* run in isolation."  When the matrix succeeds, both boards of every run  *)
(* started as the run before left them: restored after a pairing or a      *)
(* restore, empty after a removal or a rejection; and a pairing, and a     *)
(* rejection, was followed by one more reset.                              *)
BondPersists ==
  Bond(opt) /\ status = "ok" =>
    LET Started(i, m) == \A s \in Sides : Has(disk[i].logs[s], m[s])
        After(i) == CASE opt.contract # "passkey" -> Empty
                      [] opt.removal /\ Started(i, Restored) -> Empty
                      [] OTHER -> Restored
    IN  /\ Len(disk) = opt.runs
        /\ \A i \in 2 .. Len(disk) : Started(i, After(i - 1))
        /\ Started(1, Empty) /\ ~opt.removal => Len(disk) >= 2

(* Exit status 0 of any of the tools: there is a log of each board for     *)
(* each run that was asked for, and no board reported a failure in it, not *)
(* even after the capture was complete.                                    *)
FailuresOf(o) ==
  CASE o.tool = "radio-u2" -> U2FailureMarkers(o.contract)
    [] o.tool = "ble-gatt" -> GattMarkers.failures
    [] o.tool = "ble-discovery" -> BleDiscoveryMarkers.failures
    [] o.tool = "sle-discovery" -> SleDiscoveryMarkers.failures
    [] o.tool = "sle-connect" -> SleConnectMarkers.failures
    [] o.tool = "sle-ssap" -> SsapMarkers.failures
    [] o.tool = "coexistence" -> CoexFailures
    [] o.tool = "ble-bond" -> BondFailures

PairProven ==
  status = "ok" =>
    /\ Len(disk) = opt.runs
    /\ \A i \in DOMAIN disk : \A s \in Sides :
         /\ disk[i].logs[s] # <<>>
         /\ \A j \in DOMAIN disk[i].logs[s] :
              disk[i].logs[s][j].m \notin FailuresOf(opt)

(* The last line of a kind that the UART left whole: a set of at most one. *)
LastWhole(lines, m) ==
  {lines[j].v : j \in {k \in DOMAIN lines :
     /\ lines[k].m = m /\ Fields(m) = DOMAIN lines[k].v
     /\ \A l \in k + 1 .. Len(lines) :
          lines[l].m = m => Fields(m) # DOMAIN lines[l].v}}

(* A coexistence run that passes an acceptance contract lost no event: the *)
(* last line of each board's role that the UART left whole says so, and    *)
(* the acceptance summary has the extremes of those lines.                 *)
NothingLost ==
  opt.tool = "coexistence" /\ opt.contract \in AcceptanceContracts /\ pc = "exit" =>
    \A i \in {j \in DOMAIN records : records[j].pass} : \A s \in Sides :
      LET softap == EndpointRoles(opt.contract)[s] = "softap"
          events == LastWhole(disk[i].logs[s],
                      IF softap THEN ServerEvents ELSE ActivityEvents)
          resources == LastWhole(disk[i].logs[s],
                         IF softap THEN ServerResources ELSE ActivityResources)
      IN  /\ events # {} /\ resources # {}
          /\ \A v \in events :
               \A f \in DOMAIN v \cap {"dropped", "wifi_dropped", "protocol_dropped"} : v[f] = 0
          /\ \A v \in resources :
               /\ v.peak <= v.arena /\ v.failures = 0
               /\ \E a \in SummarizeAcceptance(records) :
                    a.min_heap_free <= v.free /\ v.peak <= a.max_heap_peak

(* A run that begins ends, by its logs or by an exception, whatever the    *)
(* boards print, J-Link does or Commander fails to do.                     *)
CaptureReturns == (pc = "ready") ~> (pc \in {"write", "exit"})
=============================================================================
