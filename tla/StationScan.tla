----------------------------- MODULE StationScan ----------------------------
(***************************************************************************)
(* One station scan and its two consumers (chips/ws63/rf/src/wifi.rs,      *)
(* upstream_supplicant.rs, hisi_rf_backend.rs).  The runner thread starts  *)
(* a firmware scan and waits; the vendor worker thread calls scan_event    *)
(* for every result and for scan-done.  Each event goes to the capture     *)
(* queue that feeds hostap, if NATIVE_SCAN_ACTIVE, and then to the result  *)
(* list of Wifi::scan, if SCAN_STATE.active.  The firmware runs one scan   *)
(* at a time; Wifi::scan gives up at its timeout without aborting it.      *)
(* hostap may itself start a scan from a poll (the start_scan hook).       *)
(***************************************************************************)
EXTENDS Naturals, Sequences

CONSTANTS
  MAX_SCAN_RESULTS,        \* 32
  SCAN_EVENT_QUEUE_DEPTH,  \* 33
  MaxEmitted,              \* bound: results the firmware reports per scan
  MaxScans,                \* bound: scans the firmware accepts
  OddResults,              \* bound: the first results that may have odd elements
  MaxFailures              \* bound: polls that fail

ASSUME ScanAssumption ==
  /\ MAX_SCAN_RESULTS \in Nat \ {0}
  /\ SCAN_EVENT_QUEUE_DEPTH = MAX_SCAN_RESULTS + 1
  /\ MaxEmitted \in Nat /\ MaxScans \in Nat /\ OddResults \in Nat /\ MaxFailures \in Nat

(* A result's information elements: scan_event passes them on unless they  *)
(* are null or over MAX_IE_LENGTH, and the queue counts a drop of those    *)
(* that are over its own MAX_SCAN_IE_LEN.                                  *)
Payloads == {"fits", "long", "unreadable"}

(* Event `no` of firmware scan `scan`; number 0 is scan-done.              *)
DoneOf(scan) == [scan |-> scan, no |-> 0, ies |-> "fits"]
Events == [scan : 1 .. MaxScans, no : 1 .. MaxEmitted, ies : Payloads]
            \cup {DoneOf(scan) : scan \in 1 .. MaxScans}
NoEvent == DoneOf(0)
IsResult(e) == e.no # 0

VARIABLES
  native,      \* NATIVE_SCAN_ACTIVE
  accepted,    \* SCAN_EVENT_QUEUE.accepted_results
  queue,       \* the published events of SCAN_EVENT_QUEUE, oldest first
  writing,     \* the event whose slot is WRITING, or NoEvent
  overflow,    \* the queue's dropped counter differs from scan_dropped_seen
  active, done, count, success,  \* SCAN_STATE
  results,     \* SCAN_RESULTS
  fw, fwNo,    \* external: the firmware's scan (0 none), results reported
  scans,       \* history: scans accepted
  wpc, wev, wslot, wok,  \* the vendor worker in scan_event
  pc, then, copyLen,     \* the runner; `then` is where its poll returns to
  failures,    \* history: failed polls
  mine,        \* history: the firmware scan that this Wifi::scan started
  clean,       \* history: nothing of an earlier scan was left at its begin,
               \* and it has not been given up
  lost,        \* history: an event of this scan found no room in the queue
  fed,         \* history: events fed to hostap by finish_scan_cache_capture
  output,      \* what Wifi::scan returned
  okay         \* history: the backend's scan has returned Ok

nativeVars == <<native, accepted, queue, writing, overflow>>
stateVars == <<active, done, count, success, results>>
fwVars == <<fw, fwNo, scans>>
workVars == <<wpc, wev, wslot, wok>>
callVars == <<failures, mine, clean, lost, fed, output, okay>>
runVars == <<pc, then, copyLen>>
vars == <<nativeVars, stateVars, fwVars, workVars, runVars, callVars>>

WorkSteps == {"idle", "check", "accept", "claim", "publish", "reserve", "store",
              "swap", "state"}
RunSteps == {"idle", "txn", "start", "ioctl", "wait", "copy", "finish", "pending",
             "drain", "hookTxn", "hookIoctl", "cancel", "discard"}

TypeOK ==
  /\ native \in BOOLEAN
  /\ accepted \in 0 .. MAX_SCAN_RESULTS
  /\ queue \in Seq(Events) /\ Len(queue) <= SCAN_EVENT_QUEUE_DEPTH
  /\ writing \in Events \cup {NoEvent}
  /\ overflow \in BOOLEAN
  /\ active \in BOOLEAN /\ done \in BOOLEAN /\ success \in BOOLEAN
  /\ count \in 0 .. MAX_SCAN_RESULTS
  /\ results \in [1 .. MAX_SCAN_RESULTS -> Events \cup {NoEvent}]
  /\ fw \in 0 .. MaxScans /\ fwNo \in 0 .. MaxEmitted /\ scans \in 0 .. MaxScans
  /\ wpc \in WorkSteps /\ wev \in Events \cup {NoEvent}
  /\ wslot \in 0 .. MAX_SCAN_RESULTS /\ wok \in BOOLEAN
  /\ pc \in RunSteps /\ then \in {"idle", "pending"}
  /\ copyLen \in 0 .. MAX_SCAN_RESULTS
  /\ failures \in 0 .. MaxFailures /\ mine \in 0 .. MaxScans
  /\ clean \in BOOLEAN /\ lost \in BOOLEAN /\ okay \in BOOLEAN
  /\ fed \in Seq(Events) /\ output \in Seq(Events \cup {NoEvent})

Init ==
  /\ native = FALSE /\ accepted = 0 /\ queue = <<>> /\ writing = NoEvent
  /\ overflow = FALSE
  /\ active = FALSE /\ done = FALSE /\ count = 0 /\ success = TRUE
  /\ results = [i \in 1 .. MAX_SCAN_RESULTS |-> NoEvent]
  /\ fw = 0 /\ fwNo = 0 /\ scans = 0
  /\ wpc = "idle" /\ wev = NoEvent /\ wslot = 0 /\ wok = TRUE
  /\ pc = "idle" /\ then = "idle" /\ copyLen = 0
  /\ failures = 0 /\ mine = 0 /\ clean = TRUE /\ lost = FALSE
  /\ fed = <<>> /\ output = <<>> /\ okay = FALSE

-----------------------------------------------------------------------------
(* The vendor worker: the firmware's next event, and scan_event.           *)

MayBeOdd == (fw - 1) * MaxEmitted + fwNo < OddResults

(* Firmware results come before scan-done, which ends the scan.            *)
EmitResult ==
  /\ wpc = "idle" /\ fw # 0 /\ fwNo < MaxEmitted
  /\ fwNo' = fwNo + 1
  /\ \E ies \in IF MayBeOdd THEN Payloads ELSE {"fits"} :
       wev' = [scan |-> fw, no |-> fwNo + 1, ies |-> ies]
  /\ wpc' = "check"
  /\ UNCHANGED <<nativeVars, stateVars, fw, scans, wslot, wok, runVars, callVars>>

DoneStateFirst == "state"
DoneNativeFirst == "swap"

EmitDone ==
  /\ wpc = "idle" /\ fw # 0
  /\ fw' = 0
  /\ wev' = DoneOf(fw)
  /\ wok' \in BOOLEAN
  /\ wpc' = DoneNativeFirst
  /\ UNCHANGED <<nativeVars, stateVars, fwNo, scans, wslot, runVars, callVars>>

PassedOn == native /\ wev.ies # "unreadable"

(* scan_event's guard, enqueue_scan_result and                             *)
(* ScanEventQueue::enqueue_result; scan_event lists a result whatever they *)
(* return.                                                                 *)
CheckNative ==
  /\ wpc = "check"
  /\ wpc' = IF PassedOn THEN "accept" ELSE "reserve"
  /\ UNCHANGED <<nativeVars, stateVars, fwVars, wev, wslot, wok, runVars, callVars>>

RoomForResult == accepted < MAX_SCAN_RESULTS

Counted == accepted + 1

AcceptResult ==
  /\ wpc = "accept"
  /\ \/ /\ wev.ies = "long"
        /\ overflow' = TRUE
        /\ wpc' = "reserve"
        /\ UNCHANGED accepted
     \/ /\ wev.ies = "fits"
        /\ IF RoomForResult
           THEN accepted' = Counted /\ wpc' = "claim"
           ELSE wpc' = "reserve" /\ UNCHANGED accepted
        /\ UNCHANGED overflow
  /\ UNCHANGED <<native, queue, writing, stateVars, fwVars, wev, wslot, wok,
                 runVars, callVars>>

AfterQueue == IF IsResult(wev) THEN "reserve" ELSE "state"

(* ScanEventQueue::enqueue: the claim (or the drop), then the publication. *)
ClaimSlot ==
  /\ wpc = "claim"
  /\ \/ /\ Len(queue) < SCAN_EVENT_QUEUE_DEPTH
        /\ writing' = wev
        /\ wpc' = "publish"
        /\ UNCHANGED <<overflow, lost>>
     \/ /\ Len(queue) = SCAN_EVENT_QUEUE_DEPTH
        /\ overflow' = TRUE
        /\ lost' = (lost \/ wev.scan = mine)
        /\ wpc' = AfterQueue
        /\ UNCHANGED writing
  /\ UNCHANGED <<native, accepted, queue, stateVars, fwVars, wev, wslot, wok, runVars,
                 failures, mine, clean, fed, output, okay>>

PublishSlot ==
  /\ wpc = "publish"
  /\ queue' = Append(queue, writing)
  /\ writing' = NoEvent
  /\ wpc' = AfterQueue
  /\ UNCHANGED <<native, accepted, overflow, stateVars, fwVars, wev, wslot, wok, runVars,
                 callVars>>

Listed == count < MAX_SCAN_RESULTS

(* scan_event: a slot of SCAN_RESULTS under the critical section, filled   *)
(* after it.                                                               *)
Reserve ==
  /\ wpc = "reserve"
  /\ \/ /\ active /\ Listed
        /\ wslot' = count + 1
        /\ count' = count + 1
        /\ wpc' = "store"
     \/ /\ ~(active /\ Listed)
        /\ wpc' = "idle"
        /\ UNCHANGED <<wslot, count>>
  /\ UNCHANGED <<nativeVars, active, done, success, results, fwVars, wev, wok, runVars,
                 callVars>>

Store ==
  /\ wpc = "store"
  /\ results' = [results EXCEPT ![wslot] = wev]
  /\ wpc' = "idle"
  /\ UNCHANGED <<nativeVars, active, done, count, success, fwVars, wev, wslot, wok,
                 runVars, callVars>>

(* enqueue_scan_done: only one of the events that find a capture ends it.  *)
SwapNative ==
  /\ wpc = "swap"
  /\ native' = FALSE
  /\ wpc' = IF native THEN "claim" ELSE "state"
  /\ UNCHANGED <<accepted, queue, writing, overflow, stateVars, fwVars, wev, wslot, wok,
                 runVars, callVars>>

SetDone ==
  /\ wpc = "state"
  /\ IF active THEN done' = TRUE /\ success' = wok ELSE UNCHANGED <<done, success>>
  /\ wpc' = "idle"
  /\ UNCHANGED <<nativeVars, active, count, results, fwVars, wev, wslot, wok, runVars,
                 callVars>>

-----------------------------------------------------------------------------
(* The runner: Ws63Backend::scan around Wifi::scan.                        *)
RunTo(step) == pc' = step /\ UNCHANGED <<then, copyLen>>

(* begin_scan_cache_capture; an active capture refuses another one, which  *)
(* changes nothing.                                                        *)
BeginCapture ==
  /\ pc = "idle" /\ ~native
  /\ native' = TRUE
  /\ clean' = (fw = 0 /\ wpc = "idle" /\ queue = <<>> /\ ~overflow)
  /\ mine' = 0 /\ lost' = FALSE /\ fed' = <<>> /\ output' = <<>> /\ okay' = FALSE
  /\ RunTo("txn")
  /\ UNCHANGED <<accepted, queue, writing, overflow, stateVars, fwVars, workVars,
                 failures>>

begin_transaction ==
  /\ pc = "txn"
  /\ accepted' = 0
  /\ RunTo("start")
  /\ UNCHANGED <<native, queue, writing, overflow, stateVars, fwVars, workVars, callVars>>

CountAtStart == 0

(* Wifi::scan takes SCAN_STATE.  Only the runner does, through &mut self,  *)
(* so that Busy is not met.                                                *)
StartScan ==
  /\ pc = "start" /\ ~active
  /\ active' = TRUE /\ done' = FALSE /\ count' = CountAtStart /\ success' = TRUE
  /\ RunTo("ioctl")
  /\ UNCHANGED <<nativeVars, results, fwVars, workVars, callVars>>

FirmwareAccepts ==
  /\ fw = 0 /\ scans < MaxScans
  /\ fw' = scans + 1 /\ fwNo' = 0 /\ scans' = scans + 1

(* IOCTL_SCAN; on failure finish_scan and Err(StartScan).                  *)
IoctlScan ==
  /\ pc = "ioctl"
  /\ \/ /\ FirmwareAccepts
        /\ mine' = scans'
        /\ RunTo("wait")
        /\ UNCHANGED active
     \/ /\ active' = FALSE
        /\ RunTo("cancel")
        /\ UNCHANGED <<fwVars, mine>>
  /\ UNCHANGED <<nativeVars, done, count, success, results, workVars, failures, clean,
                 lost, fed, output, okay>>

(* One turn of the wait loop that ends it: finish_scan, and the snapshot   *)
(* of count taken with done.                                               *)
WaitDone ==
  /\ pc = "wait" /\ done
  /\ active' = FALSE
  /\ copyLen' = count
  /\ pc' = IF success THEN "copy" ELSE "cancel"
  /\ UNCHANGED <<nativeVars, done, count, success, results, fwVars, workVars, then,
                 callVars>>

TimedOut == ~done

WaitTimeout ==
  /\ pc = "wait" /\ TimedOut
  /\ active' = FALSE
  /\ RunTo("cancel")
  /\ UNCHANGED <<nativeVars, done, count, success, results, fwVars, workVars, callVars>>

CopyResults ==
  /\ pc = "copy"
  /\ output' = SubSeq(results, 1, copyLen)
  /\ RunTo("finish")
  /\ UNCHANGED <<nativeVars, stateVars, fwVars, workVars, failures, mine, clean, lost,
                 fed, okay>>

(* finish_scan_cache_capture: an active capture is an error.               *)
FinishCapture ==
  /\ pc = "finish"
  /\ RunTo(IF native THEN "idle" ELSE "pending")
  /\ UNCHANGED <<nativeVars, stateVars, fwVars, workVars, callVars>>

HasPending == queue # <<>> \/ writing # NoEvent

(* A poll of the loop may fail before its look at the scan queue's drops,  *)
(* for another queue's.                                                    *)
FinishLoop ==
  /\ pc = "pending"
  /\ \/ /\ ~HasPending
        /\ okay' = TRUE
        /\ RunTo("idle")
        /\ UNCHANGED <<overflow, failures>>
     \/ /\ HasPending /\ overflow
        /\ overflow' = FALSE
        /\ RunTo("idle")
        /\ UNCHANGED <<okay, failures>>
     \/ /\ HasPending /\ ~overflow
        /\ pc' = "drain" /\ then' = "pending"
        /\ UNCHANGED <<copyLen, overflow, okay, failures>>
     \/ /\ HasPending /\ failures < MaxFailures
        /\ failures' = failures + 1
        /\ RunTo("idle")
        /\ UNCHANGED <<overflow, okay>>
  /\ UNCHANGED <<native, accepted, queue, writing, stateVars, fwVars, workVars, mine,
                 clean, lost, fed, output>>

(* A poll of the idle runner: reports an overflow, or drains.              *)
IdlePoll ==
  /\ pc = "idle"
  /\ IF overflow THEN overflow' = FALSE /\ UNCHANGED <<pc, then>>
                 ELSE pc' = "drain" /\ then' = "idle" /\ UNCHANGED overflow
  /\ UNCHANGED <<native, accepted, queue, writing, stateVars, fwVars, workVars, copyLen,
                 callVars>>

(* take_oldest yields nothing while a slot is being written.               *)
Takeable == queue # <<>> /\ writing = NoEvent

DrainTake ==
  /\ pc = "drain" /\ Takeable
  /\ queue' = Tail(queue)
  /\ \/ /\ fed' = IF then = "pending" THEN Append(fed, Head(queue)) ELSE fed
        /\ UNCHANGED <<pc, failures>>
     \/ /\ failures < MaxFailures
        /\ failures' = failures + 1
        /\ pc' = "idle"
        /\ UNCHANGED fed
  /\ UNCHANGED <<native, accepted, writing, overflow, stateVars, fwVars, workVars, then,
                 copyLen, mine, clean, lost, output, okay>>

(* The rest of a poll may fail: another queue's event, the EAPOL receive,  *)
(* or hostap's own turn.                                                   *)
PollFails ==
  /\ pc = "drain" /\ failures < MaxFailures
  /\ failures' = failures + 1
  /\ RunTo("idle")
  /\ UNCHANGED <<nativeVars, stateVars, fwVars, workVars, mine, clean, lost, fed, output,
                 okay>>

(* The drain ends, an idle poll's at any point for want of budget; hostap  *)
(* may then call start_scan, whose capture must find none active.          *)
DrainEnd ==
  /\ pc = "drain"
  /\ ~Takeable \/ then = "idle"
  /\ \/ RunTo(then) /\ UNCHANGED native
     \/ ~native /\ native' = TRUE /\ RunTo("hookTxn")
  /\ UNCHANGED <<accepted, queue, writing, overflow, stateVars, fwVars, workVars, callVars>>

HookTransaction ==
  /\ pc = "hookTxn"
  /\ accepted' = 0
  /\ RunTo("hookIoctl")
  /\ UNCHANGED <<native, queue, writing, overflow, stateVars, fwVars, workVars, callVars>>

NativeKept == native
NativeAfterRefusal == FALSE

HookIoctl ==
  /\ pc = "hookIoctl"
  /\ \/ FirmwareAccepts /\ UNCHANGED native
     \/ native' = NativeAfterRefusal /\ UNCHANGED fwVars
  /\ RunTo(then)
  /\ UNCHANGED <<accepted, queue, writing, overflow, stateVars, workVars, callVars>>

(* cancel_scan_cache_capture: the flag, then discard_pending.              *)
CancelCapture ==
  /\ pc = "cancel"
  /\ native' = FALSE
  /\ clean' = FALSE
  /\ RunTo("discard")
  /\ UNCHANGED <<accepted, queue, writing, overflow, stateVars, fwVars, workVars,
                 failures, mine, lost, fed, output, okay>>

DiscardPending ==
  /\ pc = "discard"
  /\ \/ Takeable /\ queue' = Tail(queue) /\ UNCHANGED runVars
     \/ ~Takeable /\ RunTo("idle") /\ UNCHANGED queue
  /\ UNCHANGED <<native, accepted, writing, overflow, stateVars, fwVars, workVars, callVars>>

-----------------------------------------------------------------------------
Callback ==
  \/ CheckNative \/ AcceptResult \/ ClaimSlot \/ PublishSlot \/ Reserve \/ Store
  \/ SwapNative \/ SetDone

Scan ==
  \/ begin_transaction \/ StartScan \/ IoctlScan \/ WaitDone \/ WaitTimeout
  \/ CopyResults \/ FinishCapture \/ FinishLoop \/ DrainTake \/ PollFails \/ DrainEnd
  \/ HookTransaction \/ HookIoctl \/ CancelCapture \/ DiscardPending

Next == EmitResult \/ EmitDone \/ Callback \/ BeginCapture \/ IdlePoll \/ Scan

Spec == Init /\ [][Next]_vars

(* Both threads run: a callback that began ends, and the runner goes on    *)
(* once in a scan or a poll.  Nothing is assumed of the firmware.          *)
FairSpec == Spec /\ WF_vars(Callback) /\ WF_vars(Scan)

-----------------------------------------------------------------------------
(* The first n events are results of the scan in their order, then comes   *)
(* its scan-done, and nothing more of it.                                  *)
OwnBatch(events, n, scan) ==
  /\ n < Len(events)
  /\ \A i \in 1 .. n :
       events[i].scan = scan /\ IsResult(events[i]) /\ events[i].ies = "fits"
  /\ \A i, j \in 1 .. n : i < j => events[i].no < events[j].no
  /\ events[n + 1] = DoneOf(scan)
  /\ \A i \in n + 2 .. Len(events) : events[i].scan # scan

(* The list holds the scan's first results, none of them dropped over its  *)
(* length; each of them that the queue can hold is among the batch, and    *)
(* nothing of the batch is missing but what no longer fits the list.       *)
ListOf(list, events, n, scan) ==
  /\ \A k \in 1 .. Len(list) :
       list[k].scan = scan /\ list[k].no = k /\ list[k].ies # "long"
  /\ \A k \in 1 .. Len(list) :
       list[k].ies = "fits" => \E i \in 1 .. n : events[i] = list[k]
  /\ \A i \in 1 .. n : IF events[i].no <= Len(list)
                      THEN list[events[i].no] = events[i]
                      ELSE Len(list) = MAX_SCAN_RESULTS

Whole(events, list, scan) ==
  \E n \in 0 .. Len(events) : OwnBatch(events, n, scan) /\ ListOf(list, events, n, scan)

(* "keeps one scan transaction as the source of both the Rust result list  *)
(* and hostap's BSS cache": when nothing of an earlier scan was left at    *)
(* its begin, a scan that returns Ok fed hostap its own results in their   *)
(* order and then its scan-done, and the list and the cache differ in two  *)
(* ways only: a listed result whose elements are not readable is not fed,  *)
(* and what comes after a full list is not listed.                         *)
OneTransaction == okay /\ clean => Whole(fed, output, mine)

(* "the callback boundary remains lossless": every result that the queue   *)
(* accepts and the scan-done find room in it when it was empty at the      *)
(* begin, although the firmware may report more than the cache holds.      *)
BatchLossless == clean => ~lost

(* enqueue_scan_done comes before SCAN_STATE.done, so that the runner that *)
(* saw the scan end never finds its capture still active.                  *)
FinishFindsDone == pc = "finish" /\ clean => ~native

(* "scan-done is emitted after result callbacks.  The event callback no    *)
(* longer writes these initialized slots": what the runner is copying is   *)
(* complete and nobody writes to it.                                       *)
CopyStable ==
  pc = "copy" /\ clean =>
    /\ wpc # "store"
    /\ \A i \in 1 .. copyLen : results[i].scan = mine

(* The transaction over the two consumers of a scan, together.             *)
ScanSound == TypeOK /\ OneTransaction /\ BatchLossless /\ FinishFindsDone /\ CopyStable

(* Every scan and every poll returns, whatever the firmware does.          *)
ScanReturns == (pc # "idle") ~> (pc = "idle")

(* A capture ends, whichever of the timeout, the refusal or the scan-done  *)
(* of this or an earlier scan comes first, if the firmware ends its scans; *)
(* otherwise begin_scan_cache_capture refuses every later scan.            *)
CaptureEnds == []<>(fw = 0) => (native ~> ~native)

(* Neither the caller of a scan nor the capture behind it waits for ever.  *)
ScansEnd == ScanReturns /\ CaptureEnds

(* "Abort a failed vendor scan without leaking events into the next scan": *)
(* a successful scan lists no result of an earlier one.                    *)
(* Refuted by TLC, so that no configuration lists it: a scan given up at   *)
(* its timeout goes on in the firmware, and its results enter the next     *)
(* capture.                                                                *)
NoLeak == okay => \A i \in 1 .. Len(output) : output[i].scan \notin 1 .. mine - 1

(* "one scan transaction as the source of both": every listed result is    *)
(* fed to hostap too.                                                      *)
(* Refuted by TLC, so that no configuration lists it: scan_event lists a   *)
(* result whose elements are null or over MAX_IE_LENGTH, which it does not *)
(* pass on.                                                                *)
ListIsFed ==
  okay /\ clean => \A k \in 1 .. Len(output) : \E i \in 1 .. Len(fed) : fed[i] = output[k]
=============================================================================
