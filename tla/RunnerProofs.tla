----------------------------- MODULE RunnerProofs ----------------------------
(***************************************************************************)
(* The radio runner, for every value of the constants.  Its scans          *)
(* (StationScan): one transaction is the source of the result list and of  *)
(* hostap's cache, and loses nothing.  Its polls (RunnerPoll): the work    *)
(* budget, the reports of dropped events and the EAPOL frames.             *)
(***************************************************************************)
EXTENDS StationScan, RunnerPoll, Integers, TLAPS

-----------------------------------------------------------------------------
(* The scans.                                                              *)
(* What the worker holds at each step of scan_event.                       *)
CallbackInv ==
  /\ wpc = "publish" <=> writing # NoEvent
  /\ wpc = "publish" => writing = wev /\ Len(queue) < SCAN_EVENT_QUEUE_DEPTH
  /\ wpc # "idle" => wev \in Events
  /\ wpc \in {"check", "accept", "reserve", "store"} => IsResult(wev)
  /\ wpc \in {"swap", "state"} => ~IsResult(wev)
  /\ wpc \in {"claim", "publish"} => wev.ies = "fits"
  /\ wpc = "store" => wslot \in 1 .. MAX_SCAN_RESULTS

RunnerInv ==
  /\ active <=> pc \in {"ioctl", "wait"}
  /\ mine <= scans

QuietInv == fw = 0 /\ wpc = "idle"

(* Before the firmware was asked.                                          *)
Fresh ==
  /\ QuietInv /\ queue = <<>> /\ native
  /\ mine = 0
  /\ pc # "txn" => accepted = 0
  /\ pc = "ioctl" => ~done /\ count = 0

(* The results that scan_event is through with, as far as the queue and as *)
(* far as the list are concerned.                                          *)
Handled ==
  IF wpc \in {"check", "accept", "claim", "publish"} /\ IsResult(wev) THEN fwNo - 1 ELSE fwNo
Passed == IF wpc = "reserve" THEN fwNo - 1 ELSE Handled

(* The queue holds the scan's accepted results, then its scan-done.        *)
Batch ==
  /\ Len(queue) <= accepted + 1
  /\ \A i \in 1 .. Len(queue) :
       /\ queue[i].scan = mine
       /\ IsResult(queue[i]) <=> i <= accepted
       /\ queue[i].ies = "fits"
       /\ queue[i].no <= Handled
       /\ i <= accepted => i <= queue[i].no
  /\ \A i, j \in 1 .. Len(queue) : i < j /\ j <= accepted => queue[i].no < queue[j].no

Reporting == fw = mine /\ native /\ (wpc # "idle" => IsResult(wev) /\ wev.no = fwNo)
Ending == fw = 0 /\ wpc # "idle" /\ ~IsResult(wev) /\ (native <=> wpc = "swap")
Ended == QuietInv /\ ~native /\ Len(queue) = accepted + 1

(* While the scan's callbacks come.                                        *)
Capturing ==
  /\ mine # 0
  /\ wpc # "idle" => wev.scan = mine
  /\ Batch
  /\ \/ /\ Reporting
        /\ Len(queue) = IF wpc \in {"claim", "publish"} THEN accepted - 1 ELSE accepted
     \/ /\ Ending
        /\ Len(queue) = IF wpc = "state" THEN accepted + 1 ELSE accepted
     \/ Ended

Queued(e) == \E i \in 1 .. Len(queue) : queue[i] = e
Alone(e) == \A i \in 1 .. Len(queue) : queue[i].no = e.no => queue[i] = e

(* The entry k of the list, once the worker has filled it.                 *)
Entry(k) == IF wpc = "store" /\ k = wslot THEN wev ELSE results[k]

(* The list keeps pace with the reports, and the queue with the list.      *)
Listing ==
  /\ done => Ended
  /\ count = IF Passed <= MAX_SCAN_RESULTS THEN Passed ELSE MAX_SCAN_RESULTS
  /\ wpc = "store" => wslot = count
  /\ wpc = "reserve" =>
       /\ Alone(wev)
       /\ wev.ies = "fits" => Queued(wev) \/ count = MAX_SCAN_RESULTS
       /\ wev.ies = "long" => overflow
  /\ \A k \in 1 .. count :
       /\ Entry(k).scan = mine /\ Entry(k).no = k
       /\ Alone(Entry(k))
       /\ Entry(k).ies = "fits" => Queued(Entry(k))
       /\ Entry(k).ies = "long" => overflow

InPending ==
  \/ pc = "pending"
  \/ pc \in {"drain", "hookTxn", "hookIoctl"} /\ then = "pending"

(* Nothing more of this scan will come.                                    *)
Over == mine # 0 => fw # mine /\ (wpc # "idle" => wev.scan # mine)

(* The drop of a long result is reported before anything is fed.           *)
Reported == pc = "pending" /\ overflow /\ queue # <<>>

CleanInv ==
  clean =>
    /\ ~lost
    /\ pc \in {"txn", "start", "ioctl"} => Fresh /\ ~overflow /\ ~okay /\ fed = <<>>
    /\ pc = "wait" => Capturing /\ Listing /\ ~okay /\ fed = <<>>
    /\ pc = "cancel" => (Fresh \/ Capturing) /\ ~okay
    /\ pc = "copy" => Capturing /\ Listing /\ Ended /\ copyLen = count /\ ~okay /\ fed = <<>>
    /\ pc = "finish" =>
         /\ mine # 0 /\ ~okay /\ Ended /\ fed = <<>>
         /\ overflow \/ Whole(queue, output, mine)
    /\ InPending => Over /\ mine # 0 /\ ~okay /\ (Reported \/ Whole(fed \o queue, output, mine))
    /\ ~InPending /\ pc \in {"idle", "drain", "hookTxn", "hookIoctl"} =>
         Over /\ (okay => Whole(fed, output, mine))
    /\ pc # "discard"

ScanInv == TypeOK /\ CallbackInv /\ RunnerInv /\ CleanInv

Emit == EmitResult \/ EmitDone

-----------------------------------------------------------------------------
LEMMA ScanConstants ==
  /\ MAX_SCAN_RESULTS \in Nat \ {0} /\ MAX_SCAN_RESULTS \in 0 .. MAX_SCAN_RESULTS
  /\ SCAN_EVENT_QUEUE_DEPTH = MAX_SCAN_RESULTS + 1 /\ SCAN_EVENT_QUEUE_DEPTH \in Nat
  /\ MaxEmitted \in Nat /\ MaxScans \in Nat /\ MaxFailures \in Nat
  /\ 0 \in 0 .. MAX_SCAN_RESULTS /\ 0 \in 0 .. MaxScans /\ 0 \in 0 .. MaxEmitted
  /\ 0 \in 0 .. MaxFailures
  /\ NoEvent \notin Events
<1>1. NoEvent \notin Events
  <2>1. \A e \in Events : e.scan # 0
    BY DEF Events, DoneOf
  <2> QED BY <2>1 DEF NoEvent, DoneOf
<1> QED BY <1>1, ScanAssumption

LEMMA EventParts ==
  ASSUME NEW e \in Events
  PROVE  /\ e.scan \in 1 .. MaxScans /\ e.no \in 0 .. MaxEmitted /\ e.ies \in Payloads
         /\ IsResult(e) => e.no \in 1 .. MaxEmitted
         /\ ~IsResult(e) => e = DoneOf(e.scan) /\ e.no = 0 /\ e.ies = "fits"
<1>1. CASE e \in [scan : 1 .. MaxScans, no : 1 .. MaxEmitted, ies : Payloads]
  <2>1. e.scan \in 1 .. MaxScans /\ e.no \in 1 .. MaxEmitted /\ e.ies \in Payloads
    BY <1>1
  <2> QED BY <2>1, ScanConstants DEF IsResult
<1>2. CASE e \in {DoneOf(scan) : scan \in 1 .. MaxScans}
  <2>1. PICK scan \in 1 .. MaxScans : e = DoneOf(scan)
    BY <1>2
  <2>2. e.scan = scan /\ e.no = 0 /\ e.ies = "fits"
    BY <2>1 DEF DoneOf
  <2> QED BY <2>1, <2>2, ScanConstants DEF IsResult, Payloads
<1> QED BY <1>1, <1>2 DEF Events

LEMMA ScanInit == Init => ScanInv
<1> SUFFICES ASSUME Init PROVE ScanInv
  OBVIOUS
<1>1. TypeOK
  <2>1. <<>> \in Seq(Events) /\ <<>> \in Seq(Events \cup {NoEvent}) /\ Len(<<>>) = 0
    OBVIOUS
  <2>2. [i \in 1 .. MAX_SCAN_RESULTS |-> NoEvent]
          \in [1 .. MAX_SCAN_RESULTS -> Events \cup {NoEvent}]
    OBVIOUS
  <2>3. /\ native \in BOOLEAN /\ overflow \in BOOLEAN /\ active \in BOOLEAN
        /\ done \in BOOLEAN /\ success \in BOOLEAN /\ wok \in BOOLEAN /\ clean \in BOOLEAN
        /\ lost \in BOOLEAN /\ okay \in BOOLEAN
    BY DEF Init
  <2>4. /\ queue \in Seq(Events) /\ fed \in Seq(Events) /\ Len(queue) = 0
        /\ output \in Seq(Events \cup {NoEvent})
        /\ results \in [1 .. MAX_SCAN_RESULTS -> Events \cup {NoEvent}]
    BY <2>1, <2>2 DEF Init
  <2>5. 0 <= SCAN_EVENT_QUEUE_DEPTH
    BY ScanConstants
  <2>6. wpc \in WorkSteps /\ pc \in RunSteps /\ then \in {"idle", "pending"}
    BY DEF Init, WorkSteps, RunSteps
  <2>7. /\ accepted = 0 /\ writing = NoEvent /\ count = 0 /\ fw = 0 /\ fwNo = 0 /\ scans = 0
        /\ wev = NoEvent /\ wslot = 0 /\ copyLen = 0 /\ failures = 0 /\ mine = 0
    BY DEF Init
  <2> QED BY <2>3, <2>4, <2>5, <2>6, <2>7, ScanConstants DEF TypeOK
<1>2. CallbackInv /\ RunnerInv
  BY DEF Init, CallbackInv, RunnerInv
<1>3. CleanInv
  BY DEF Init, CleanInv, InPending, Over
<1> QED BY <1>1, <1>2, <1>3 DEF ScanInv

-----------------------------------------------------------------------------
(* The vendor worker's steps.                                              *)
LEMMA EmitTyped ==
  ASSUME ScanInv, Emit
  PROVE  /\ TypeOK' /\ CallbackInv' /\ RunnerInv'
         /\ wpc = "idle" /\ fw # 0 /\ wev' \in Events /\ wev'.scan = fw
         /\ UNCHANGED <<nativeVars, stateVars, scans, wslot, runVars, callVars>>
         /\ \/ IsResult(wev') /\ wpc' = "check" /\ fw' = fw /\ fwNo' = fwNo + 1 /\ wev'.no = fwNo'
            \/ ~IsResult(wev') /\ wpc' = "swap" /\ fw' = 0 /\ fwNo' = fwNo
<1> USE DEF ScanInv
<1>1. /\ wpc = "idle" /\ fw # 0
      /\ UNCHANGED <<nativeVars, stateVars, scans, wslot, runVars, callVars>>
  BY DEF Emit, EmitResult, EmitDone
<1>2. fw \in 1 .. MaxScans
  BY <1>1 DEF TypeOK
<1>3. CASE EmitResult
  <2>1. fwNo + 1 \in 1 .. MaxEmitted
    BY <1>3, ScanConstants DEF EmitResult, TypeOK
  <2>a. PICK ies \in Payloads : wev' = [scan |-> fw, no |-> fwNo + 1, ies |-> ies]
    BY <1>3 DEF EmitResult, Payloads
  <2>2. wev' \in Events /\ wev'.scan = fw /\ IsResult(wev') /\ wev'.no = fwNo + 1
    BY <1>2, <2>1, <2>a DEF Events, IsResult
  <2>3. TypeOK'
    BY <1>1, <1>3, <2>1, <2>2 DEF EmitResult, TypeOK, WorkSteps, nativeVars, stateVars, runVars,
      callVars
  <2> QED BY <1>1, <1>3, <2>2, <2>3 DEF EmitResult, CallbackInv, RunnerInv, nativeVars,
    stateVars, runVars, callVars
<1>4. CASE EmitDone
  <2>1. wev' \in Events /\ wev'.scan = fw /\ ~IsResult(wev')
    BY <1>2, <1>4 DEF EmitDone, Events, DoneOf, IsResult
  <2>2. TypeOK'
    BY <1>1, <1>4, <2>1, ScanConstants DEF EmitDone, DoneNativeFirst, TypeOK, WorkSteps,
      nativeVars, stateVars, runVars, callVars
  <2> QED BY <1>1, <1>4, <2>1, <2>2 DEF EmitDone, DoneNativeFirst, CallbackInv, RunnerInv,
    nativeVars, stateVars, runVars, callVars
<1> QED BY <1>3, <1>4 DEF Emit

LEMMA CallbackTyped ==
  ASSUME ScanInv, Callback
  PROVE  /\ TypeOK' /\ CallbackInv' /\ RunnerInv'
         /\ wpc # "idle" /\ wev' = wev
         /\ UNCHANGED <<fwVars, runVars, failures, mine, clean, fed, output, okay>>
<1> USE DEF ScanInv
<1>1. /\ wpc # "idle" /\ wev' = wev /\ wev \in Events
      /\ UNCHANGED <<fwVars, runVars, failures, mine, clean, fed, output, okay>>
  BY DEF Callback, CheckNative, AcceptResult, ClaimSlot, PublishSlot, Reserve, Store, SwapNative,
    SetDone, CallbackInv, callVars
<1>2. writing # NoEvent <=> wpc = "publish"
  BY DEF CallbackInv
<1>3. CASE CheckNative
  <2>1. TypeOK'
    BY <1>3 DEF CheckNative, TypeOK, WorkSteps, nativeVars, stateVars, fwVars, runVars, callVars
  <2> QED BY <1>1, <1>3, <2>1 DEF CheckNative, CallbackInv, RunnerInv, nativeVars, stateVars,
    fwVars, runVars, callVars
<1>4. CASE AcceptResult
  <2>1. /\ accepted' \in 0 .. MAX_SCAN_RESULTS /\ overflow' \in BOOLEAN
        /\ wpc' \in {"claim", "reserve"} /\ (wpc' = "claim" => wev.ies = "fits")
    <3>1. CASE overflow' = TRUE /\ wpc' = "reserve" /\ UNCHANGED accepted
      BY <3>1 DEF TypeOK
    <3>2. CASE wev.ies = "fits" /\ UNCHANGED overflow
      <4>1. accepted' \in 0 .. MAX_SCAN_RESULTS /\ wpc' \in {"claim", "reserve"}
        BY <1>4, <3>2, ScanConstants DEF AcceptResult, RoomForResult, Counted, TypeOK
      <4>2. overflow' \in BOOLEAN
        BY <3>2 DEF TypeOK
      <4> QED BY <3>2, <4>1, <4>2
    <3> QED BY <1>4, <3>1, <3>2 DEF AcceptResult
  <2>2. TypeOK'
    BY <1>4, <2>1 DEF AcceptResult, TypeOK, WorkSteps, stateVars, fwVars, runVars, callVars
  <2>3. UNCHANGED <<writing, queue, active, scans, wslot, pc, mine>>
    BY <1>4 DEF AcceptResult, stateVars, fwVars, runVars, callVars
  <2>4. writing = NoEvent /\ IsResult(wev)
    BY <1>2, <1>4 DEF AcceptResult, CallbackInv
  <2>5. CallbackInv' /\ RunnerInv'
    BY <1>1, <2>1, <2>3, <2>4 DEF CallbackInv, RunnerInv, IsResult
  <2> QED BY <1>1, <2>2, <2>5 DEF AcceptResult, fwVars, runVars, callVars
<1>5. CASE ClaimSlot
  <2>a. /\ overflow' \in BOOLEAN /\ lost' \in BOOLEAN /\ wpc' \in WorkSteps
        /\ writing' \in {writing, wev}
        /\ UNCHANGED <<native, accepted, queue, stateVars, wslot, wok>>
    BY <1>5 DEF ClaimSlot, AfterQueue, TypeOK, WorkSteps
  <2>1. TypeOK'
    BY <1>1, <2>a DEF TypeOK, stateVars, fwVars, runVars
  <2> QED BY <1>1, <1>2, <1>5, <2>1, ScanConstants DEF ClaimSlot, AfterQueue, CallbackInv,
    RunnerInv, stateVars, fwVars, runVars
<1>6. CASE PublishSlot
  <2>1. queue' \in Seq(Events) /\ Len(queue') <= SCAN_EVENT_QUEUE_DEPTH
    BY <1>6, ScanConstants DEF PublishSlot, CallbackInv, TypeOK
  <2>2. TypeOK'
    BY <1>6, <2>1 DEF PublishSlot, AfterQueue, TypeOK, WorkSteps, stateVars, fwVars, runVars,
      callVars
  <2> QED BY <1>1, <1>6, <2>2 DEF PublishSlot, AfterQueue, CallbackInv, RunnerInv,
    stateVars, fwVars, runVars, callVars
<1>7. CASE Reserve
  <2>1. count' \in 0 .. MAX_SCAN_RESULTS /\ wslot' \in 0 .. MAX_SCAN_RESULTS
        /\ (wpc' = "store" => wslot' \in 1 .. MAX_SCAN_RESULTS) /\ wpc' \in {"store", "idle"}
    BY <1>7, ScanConstants DEF Reserve, Listed, TypeOK
  <2>2. TypeOK'
    BY <1>7, <2>1 DEF Reserve, TypeOK, WorkSteps, nativeVars, fwVars, runVars, callVars
  <2> QED BY <1>1, <1>7, <2>1, <2>2 DEF Reserve, CallbackInv, RunnerInv, nativeVars,
    fwVars, runVars, callVars
<1>8. CASE Store
  <2>1. TypeOK'
    BY <1>1, <1>8 DEF Store, CallbackInv, TypeOK, WorkSteps, nativeVars, fwVars, runVars, callVars
  <2> QED BY <1>1, <1>8, <2>1 DEF Store, CallbackInv, RunnerInv, nativeVars,
    fwVars, runVars, callVars
<1>9. CASE SwapNative
  <2>a. native' \in BOOLEAN
    BY <1>9 DEF SwapNative
  <2>1. TypeOK'
    BY <1>9, <2>a DEF SwapNative, TypeOK, WorkSteps, stateVars, fwVars, runVars, callVars
  <2>2. wev.ies = "fits" /\ ~IsResult(wev)
    BY <1>1, <1>9, EventParts DEF SwapNative, CallbackInv
  <2> QED BY <1>1, <1>9, <2>1, <2>2 DEF SwapNative, CallbackInv, RunnerInv, stateVars,
    fwVars, runVars, callVars
<1>10. CASE SetDone
  <2>a. done' \in BOOLEAN /\ success' \in BOOLEAN
    <3>1. CASE active
      BY <1>10, <3>1 DEF SetDone, TypeOK
    <3>2. CASE ~active
      BY <1>10, <3>2 DEF SetDone, TypeOK
    <3> QED BY <3>1, <3>2
  <2>1. TypeOK'
    BY <1>10, <2>a DEF SetDone, TypeOK, WorkSteps, nativeVars, fwVars, runVars, callVars
  <2> QED BY <1>1, <1>10, <2>1 DEF SetDone, CallbackInv, RunnerInv, nativeVars,
    fwVars, runVars, callVars
<1> QED BY <1>3, <1>4, <1>5, <1>6, <1>7, <1>8, <1>9, <1>10 DEF Callback

(* The worker's steps touch none of the runner's variables.                *)
LEMMA WorkerSteps ==
  ASSUME ScanInv, Emit \/ Callback
  PROVE  /\ TypeOK' /\ CallbackInv' /\ RunnerInv'
         /\ UNCHANGED <<scans, runVars, failures, mine, clean, fed, output, okay>>
         /\ wev' = wev \/ (wpc = "idle" /\ fw # 0 /\ wev'.scan = fw)
         /\ fw' \in {fw, 0}
         /\ QuietInv => FALSE
BY EmitTyped, CallbackTyped DEF callVars, fwVars, QuietInv

LEMMA OverKept ==
  ASSUME ScanInv, Emit \/ Callback, Over
  PROVE  Over'
<1>1. CASE Emit
  <2>1. wev'.scan = fw /\ fw # 0 /\ fw' \in {fw, 0} /\ mine' = mine
    BY <1>1, EmitTyped DEF callVars
  <2> QED BY <2>1 DEF Over
<1>2. CASE Callback
  BY <1>2, CallbackTyped DEF Over, fwVars
<1> QED BY <1>1, <1>2

(* What hostap was fed, and what it will be.                               *)
LEMMA WholeParts ==
  ASSUME NEW s, Whole(s, output, mine), Len(s) \in Nat
  PROVE  \E n \in Nat : n < Len(s) /\ OwnBatch(s, n, mine) /\ ListOf(output, s, n, mine)
<1>1. PICK n \in 0 .. Len(s) : OwnBatch(s, n, mine) /\ ListOf(output, s, n, mine)
  BY DEF Whole
<1>2. n < Len(s) /\ n \in Nat
  BY <1>1 DEF OwnBatch
<1> QED BY <1>1, <1>2

LEMMA WholeAppend ==
  ASSUME NEW s \in Seq(Events), Whole(s, output, mine), NEW e \in Events, e.scan # mine
  PROVE  Whole(Append(s, e), output, mine)
<1> DEFINE l == Append(s, e)
<1>1. /\ Len(l) = Len(s) + 1 /\ Len(s) \in Nat /\ l[Len(s) + 1] = e
      /\ \A i \in 1 .. Len(s) : l[i] = s[i]
  OBVIOUS
<1> HIDE DEF l
<1>2. PICK n \in Nat : n < Len(s) /\ OwnBatch(s, n, mine) /\ ListOf(output, s, n, mine)
  BY <1>1, WholeParts
<1>3. \A i \in 1 .. n + 1 : l[i] = s[i]
  BY <1>1, <1>2
<1>4. OwnBatch(l, n, mine)
  <2>1. \A i \in n + 2 .. Len(l) : l[i].scan # mine
    <3> SUFFICES ASSUME NEW i \in n + 2 .. Len(l) PROVE l[i].scan # mine
      OBVIOUS
    <3>1. CASE i = Len(s) + 1
      BY <1>1, <3>1
    <3>2. CASE i # Len(s) + 1
      <4>1. i \in 1 .. Len(s) /\ i \in n + 2 .. Len(s)
        BY <1>1, <1>2, <3>2
      <4>2. l[i] = s[i]
        BY <1>1, <4>1
      <4> QED BY <1>2, <4>1, <4>2 DEF OwnBatch
    <3> QED BY <3>1, <3>2
  <2>2. /\ \A i \in 1 .. n : i \in 1 .. n + 1 /\ l[i] = s[i]
        /\ l[n + 1] = s[n + 1] /\ n < Len(l)
    BY <1>1, <1>2, <1>3
  <2>3. \A i \in 1 .. n : l[i].scan = mine /\ IsResult(l[i]) /\ l[i].ies = "fits"
    BY <1>2, <2>2 DEF OwnBatch
  <2>4. \A i, j \in 1 .. n : i < j => l[i].no < l[j].no
    BY <1>2, <2>2 DEF OwnBatch
  <2>5. l[n + 1] = DoneOf(mine)
    BY <1>2, <2>2 DEF OwnBatch
  <2> QED BY <2>1, <2>2, <2>3, <2>4, <2>5 DEF OwnBatch
<1>5. ListOf(output, l, n, mine)
  <2>1. \A i \in 1 .. n : l[i] = s[i]
    BY <1>2, <1>3
  <2> QED BY <1>2, <2>1 DEF ListOf
<1>6. n \in 0 .. Len(l)
  BY <1>1, <1>2
<1> QED BY <1>4, <1>5, <1>6 DEF Whole, l

LEMMA PendingKept ==
  ASSUME ScanInv, Emit \/ Callback, Over, mine # 0, Reported \/ Whole(fed \o queue, output, mine)
  PROVE  (Reported \/ Whole(fed \o queue, output, mine))'
<1>0. overflow => overflow'
  <2>1. CASE Emit
    BY <2>1, EmitTyped DEF nativeVars
  <2>2. CASE Callback
    BY <2>2 DEF Callback, CheckNative, AcceptResult, ClaimSlot, PublishSlot, Reserve, Store,
      SwapNative, SetDone, nativeVars
  <2> QED BY <2>1, <2>2
<1>1. fed' = fed /\ output' = output /\ mine' = mine /\ pc' = pc
  BY WorkerSteps DEF runVars
<1>2. CASE PublishSlot
  <2>1. /\ queue' = Append(queue, wev) /\ wev \in Events /\ wev.scan # mine
        /\ fed \in Seq(Events) /\ queue \in Seq(Events)
    BY <1>2 DEF ScanInv, TypeOK, CallbackInv, PublishSlot, Over
  <2>2. fed \o queue' = Append(fed \o queue, wev) /\ fed \o queue \in Seq(Events)
    BY <2>1
  <2>3. queue' # <<>>
    BY <2>1
  <2>4. CASE Reported
    BY <1>0, <1>1, <2>3, <2>4 DEF Reported
  <2>5. CASE Whole(fed \o queue, output, mine)
    <3>1. Whole(Append(fed \o queue, wev), output, mine)
      BY <2>1, <2>2, <2>5, WholeAppend
    <3>2. Whole(fed' \o queue', output', mine')
      BY <1>1, <2>2, <3>1
    <3> QED BY <3>2
  <2> QED BY <2>4, <2>5
<1>3. CASE ~PublishSlot
  <2>1. queue' = queue
    BY <1>3, EmitTyped DEF Callback, CheckNative, AcceptResult, ClaimSlot, Reserve, Store,
      SwapNative, SetDone, nativeVars
  <2>2. Whole(fed \o queue, output, mine) => Whole(fed' \o queue', output', mine')
    BY <1>1, <2>1
  <2> QED BY <1>0, <1>1, <2>1, <2>2 DEF Reported
<1> QED BY <1>2, <1>3

(* A scan whose events are no longer its own loses none of them.           *)
LEMMA LostKept ==
  ASSUME ScanInv, Emit \/ Callback, Over
  PROVE  lost' = lost
<1>1. CASE ClaimSlot
  <2>1. wev \in Events /\ wpc # "idle"
    BY <1>1 DEF ScanInv, CallbackInv, ClaimSlot
  <2>2. wev.scan # mine
    <3>1. CASE mine = 0
      BY <2>1, <3>1, EventParts
    <3>2. CASE mine # 0
      BY <2>1, <3>2 DEF Over
    <3> QED BY <3>1, <3>2
  <2> QED BY <1>1, <2>2 DEF ClaimSlot, ScanInv, TypeOK
<1>2. CASE ~ClaimSlot
  BY <1>2, EmitTyped DEF Callback, CheckNative, AcceptResult, PublishSlot, Reserve, Store,
    SwapNative, SetDone, callVars
<1> QED BY <1>1, <1>2

LEMMA BatchKept ==
  ASSUME TypeOK, Batch, UNCHANGED <<queue, accepted, mine>>,
         Handled \in Int, Handled' \in Int, Handled <= Handled'
  PROVE  Batch'
<1>1. \A i \in 1 .. Len(queue) : queue[i] \in Events /\ queue[i].no \in Nat
  BY EventParts DEF TypeOK
<1>2. \A i \in 1 .. Len(queue) : queue[i].no <= Handled'
  BY <1>1 DEF Batch
<1> HIDE DEF Handled
<1> QED BY <1>2 DEF Batch, IsResult

(* Every event of the scan that is being captured finds room in the queue. *)
LEMMA CapturingKept ==
  ASSUME ScanInv, Emit \/ Callback, Capturing
  PROVE  Capturing' /\ lost' = lost
<1> USE DEF ScanInv
<1>1. /\ mine' = mine /\ mine # 0 /\ accepted \in 0 .. MAX_SCAN_RESULTS
      /\ Len(queue) \in Nat /\ queue \in Seq(Events) /\ fwNo \in Nat /\ fwNo' \in Nat
      /\ SCAN_EVENT_QUEUE_DEPTH = MAX_SCAN_RESULTS + 1 /\ MAX_SCAN_RESULTS \in Nat
      /\ Batch
  BY WorkerSteps, ScanConstants DEF TypeOK, Capturing
<1>2. wpc # "idle" => wev \in Events /\ wev.scan = mine
  BY DEF CallbackInv, Capturing
<1>0. Handled \in Int /\ Handled' \in Int
  BY <1>1 DEF Handled
<1>3. CASE Emit
  <2>1. /\ wpc = "idle" /\ fw # 0 /\ wev'.scan = fw
        /\ UNCHANGED <<nativeVars, stateVars, scans, wslot, runVars, callVars>>
        /\ \/ IsResult(wev') /\ wpc' = "check" /\ fw' = fw /\ fwNo' = fwNo + 1 /\ wev'.no = fwNo'
           \/ ~IsResult(wev') /\ wpc' = "swap" /\ fw' = 0 /\ fwNo' = fwNo
    BY <1>3, EmitTyped
  <2>2. fw = mine /\ native /\ Len(queue) = accepted
    BY <2>1 DEF Capturing, Reporting, Ending, Ended, QuietInv
  <2>3. Handled = Handled'
    <3>1. Handled = fwNo
      BY <2>1 DEF Handled
    <3>2. CASE IsResult(wev') /\ wpc' = "check" /\ fwNo' = fwNo + 1
      <4>1. Handled' = fwNo' - 1
        BY <3>2 DEF Handled
      <4> QED BY <1>1, <3>1, <3>2, <4>1
    <3>3. CASE wpc' = "swap" /\ fwNo' = fwNo
      BY <3>1, <3>3 DEF Handled
    <3> QED BY <2>1, <3>2, <3>3
  <2>4. Batch'
    BY <1>0, <1>1, <2>1, <2>3, BatchKept DEF nativeVars
  <2> QED BY <1>1, <2>1, <2>2, <2>4 DEF Capturing, Reporting, Ending, IsResult, nativeVars, callVars
<1>4. CASE CheckNative
  <2>1. IsResult(wev) /\ wpc = "check"
    BY <1>4 DEF CallbackInv, CheckNative
  <2>2. Reporting /\ Len(queue) = accepted
    BY <2>1 DEF Capturing, Ending, Ended, QuietInv
  <2>3. wpc' \in {"accept", "reserve"} /\ UNCHANGED <<nativeVars, stateVars, fwVars, wev, callVars>>
    BY <1>4 DEF CheckNative
  <2>4. Batch'
    <3>1. Handled <= Handled'
      BY <1>1, <2>1, <2>3 DEF Handled, IsResult, fwVars
    <3> QED BY <1>0, <1>1, <2>3, <3>1, BatchKept DEF nativeVars
  <2> QED BY <1>1, <1>2, <2>1, <2>2, <2>3, <2>4 DEF Capturing, Reporting, IsResult, nativeVars, fwVars,
    callVars
<1>5. CASE AcceptResult
  <2>1. IsResult(wev) /\ wpc = "accept"
    BY <1>5 DEF CallbackInv, AcceptResult
  <2>2. Reporting /\ Len(queue) = accepted
    BY <2>1 DEF Capturing, Ending, Ended, QuietInv
  <2>3. /\ UNCHANGED <<native, queue, writing, fw, fwNo, wev, mine, lost>>
        /\ \/ accepted' = accepted + 1 /\ wpc' = "claim"
           \/ accepted' = accepted /\ wpc' = "reserve"
    BY <1>5 DEF AcceptResult, Counted, fwVars, callVars
  <2>4. Handled <= Handled'
    BY <1>1, <2>1, <2>3 DEF Handled, IsResult
  <2>5. Batch'
    <3>1. CASE accepted' = accepted
      BY <1>0, <1>1, <2>3, <2>4, <3>1, BatchKept
    <3>2. CASE accepted' = accepted + 1
      <4>1. \A i \in 1 .. Len(queue) : queue[i].no \in Nat
        BY <1>1, EventParts
      <4>2. \A i \in 1 .. Len(queue) :
              /\ i <= accepted /\ i <= accepted'
              /\ queue[i].scan = mine /\ IsResult(queue[i]) /\ queue[i].ies = "fits"
              /\ queue[i].no <= Handled' /\ i <= queue[i].no
        BY <1>0, <1>1, <2>2, <2>4, <3>2, <4>1 DEF Batch
      <4>3. \A i, j \in 1 .. Len(queue) : i < j => queue[i].no < queue[j].no
        BY <1>1, <2>2 DEF Batch
      <4> HIDE DEF Handled
      <4> QED BY <1>1, <2>2, <2>3, <3>2, <4>2, <4>3 DEF Batch, IsResult
    <3> QED BY <2>3, <3>1, <3>2
  <2> QED BY <1>1, <1>2, <2>1, <2>2, <2>3, <2>5 DEF Capturing, Reporting, IsResult
<1>6. CASE ClaimSlot
  <2>1. /\ wpc = "claim" /\ Len(queue) < SCAN_EVENT_QUEUE_DEPTH
        /\ \/ Reporting /\ Len(queue) = accepted - 1
           \/ Ending /\ Len(queue) = accepted
    BY <1>1, <1>6 DEF ClaimSlot, Capturing, Ended, QuietInv
  <2>2. /\ wpc' = "publish"
        /\ UNCHANGED <<native, accepted, queue, overflow, fw, fwNo, wev, mine, lost>>
    BY <1>1, <1>6, <2>1 DEF ClaimSlot, fwVars
  <2>3. Batch'
    <3>1. Handled = Handled'
      BY <2>1, <2>2 DEF Handled, IsResult
    <3> QED BY <1>0, <1>1, <2>2, <3>1, BatchKept
  <2> QED BY <1>1, <1>2, <2>1, <2>2, <2>3 DEF Capturing, Reporting, Ending, IsResult
<1>7. CASE PublishSlot
  <2>1. /\ wpc = "publish" /\ writing = wev /\ wev.ies = "fits"
        /\ \/ Reporting /\ IsResult(wev) /\ Len(queue) = accepted - 1 /\ wev.no = fwNo
           \/ Ending /\ ~IsResult(wev) /\ Len(queue) = accepted
    BY <1>7 DEF PublishSlot, CallbackInv, Capturing, Reporting, Ending, Ended, QuietInv
  <2>2. /\ wpc' = IF IsResult(wev) THEN "reserve" ELSE "state"
        /\ queue' = Append(queue, wev)
        /\ UNCHANGED <<native, accepted, overflow, fw, fwNo, wev, mine, lost>>
    BY <1>7, <2>1 DEF PublishSlot, AfterQueue, fwVars, callVars
  <2>3. /\ Len(queue') = Len(queue) + 1 /\ queue'[Len(queue) + 1] = wev
        /\ \A i \in 1 .. Len(queue) : queue'[i] = queue[i]
    BY <1>1, <2>2
  <2>4. Handled' = fwNo /\ Handled = IF IsResult(wev) THEN fwNo - 1 ELSE fwNo
    BY <2>1, <2>2 DEF Handled, IsResult
  <2>5. \A i \in 1 .. Len(queue) : queue[i].no \in Nat
    BY <1>1, EventParts
  <2>6. wev.no \in Nat /\ (~IsResult(wev) => wev.no = 0)
    BY <1>2, <2>1, EventParts
  <2>7. Batch'
    <3>0. \A i \in 1 .. Len(queue') : i = Len(queue) + 1 \/ i \in 1 .. Len(queue)
      BY <1>1, <2>3
    <3>1. Len(queue') <= accepted + 1
      BY <1>1, <2>1, <2>3
    <3>2. \A i \in 1 .. Len(queue) : i <= accepted => queue[i].no < fwNo \/ ~IsResult(wev)
      BY <1>1, <2>4, <2>5 DEF Batch
    <3>3. ASSUME NEW i \in 1 .. Len(queue')
          PROVE  /\ queue'[i].scan = mine
                 /\ IsResult(queue'[i]) <=> i <= accepted
                 /\ queue'[i].ies = "fits"
                 /\ queue'[i].no <= fwNo
                 /\ i <= accepted => i <= queue'[i].no
      <4>1. CASE i = Len(queue) + 1
        <5>1. /\ queue'[i] = wev /\ wev.scan = mine /\ (IsResult(wev) <=> i <= accepted)
              /\ wev.no <= fwNo /\ wev.ies = "fits"
          BY <1>1, <1>2, <2>1, <2>3, <2>6, <4>1
        <5>2. ASSUME i <= accepted PROVE i <= wev.no
          <6>1. IsResult(wev) /\ wev.no = fwNo /\ Len(queue) = accepted - 1
            BY <1>1, <2>1, <4>1, <5>2
          <6>2. CASE Len(queue) = 0
            <7>1. wev.no \in 1 .. MaxEmitted
              BY <1>2, <2>1, <6>1, EventParts
            <7> QED BY <4>1, <6>2, <7>1
          <6>3. CASE Len(queue) # 0
            <7>1. Len(queue) \in 1 .. Len(queue) /\ Len(queue) <= accepted
              BY <1>1, <6>1, <6>3
            <7>2. Len(queue) <= queue[Len(queue)].no /\ queue[Len(queue)].no <= Handled
              BY <1>1, <7>1 DEF Batch
            <7> QED BY <1>1, <2>4, <2>5, <4>1, <6>1, <7>1, <7>2
          <6> QED BY <6>2, <6>3
        <5> QED BY <5>1, <5>2
      <4>2. CASE i \in 1 .. Len(queue)
        <5>1. queue'[i] = queue[i] /\ queue[i].no <= fwNo
          BY <1>1, <2>3, <2>4, <2>5, <4>2 DEF Batch
        <5> QED BY <1>1, <4>2, <5>1 DEF Batch
      <4> QED BY <3>0, <4>1, <4>2
    <3>4. ASSUME NEW i \in 1 .. Len(queue'), NEW j \in 1 .. Len(queue'), i < j, j <= accepted
          PROVE  queue'[i].no < queue'[j].no
      <4>1. i \in 1 .. Len(queue) /\ queue'[i] = queue[i] /\ i <= accepted
        BY <1>1, <2>3, <3>4
      <4>2. CASE j = Len(queue) + 1
        <5>1. IsResult(wev) /\ wev.no = fwNo
          BY <1>1, <2>1, <3>4, <4>2
        <5> QED BY <2>3, <3>2, <4>1, <4>2, <5>1
      <4>3. CASE j \in 1 .. Len(queue)
        BY <1>1, <2>3, <3>4, <4>1, <4>3 DEF Batch
      <4> QED BY <3>0, <4>2, <4>3
    <3> HIDE DEF Handled
    <3> QED BY <2>2, <2>4, <3>1, <3>3, <3>4 DEF Batch, IsResult
  <2> QED BY <1>1, <1>2, <2>1, <2>2, <2>3, <2>7 DEF Capturing, Reporting, Ending, IsResult
<1>8. CASE Reserve \/ Store
  <2>1. IsResult(wev) /\ wpc \in {"reserve", "store"}
    BY <1>8 DEF CallbackInv, Reserve, Store
  <2>2. Reporting /\ Len(queue) = accepted
    BY <2>1 DEF Capturing, Ending, Ended, QuietInv
  <2>3. wpc' \in {"store", "idle"} /\ UNCHANGED <<nativeVars, fwVars, wev, callVars>>
    BY <1>8 DEF Reserve, Store
  <2>4. Batch'
    <3>1. Handled = Handled'
      BY <2>1, <2>3 DEF Handled, fwVars
    <3> QED BY <1>0, <1>1, <2>3, <3>1, BatchKept DEF nativeVars
  <2> QED BY <1>1, <1>2, <2>1, <2>2, <2>3, <2>4 DEF Capturing, Reporting, IsResult, nativeVars, fwVars,
    callVars
<1>9. CASE SwapNative
  <2>1. wpc = "swap" /\ ~IsResult(wev)
    BY <1>9 DEF CallbackInv, SwapNative
  <2>2. Ending /\ Len(queue) = accepted /\ native
    BY <2>1 DEF Capturing, Reporting, Ending, Ended, QuietInv
  <2>3. /\ wpc' = "claim" /\ native' = FALSE
        /\ UNCHANGED <<accepted, queue, overflow, fw, fwNo, wev, mine, lost>>
    BY <1>9, <2>2 DEF SwapNative, fwVars, callVars
  <2>4. Batch'
    <3>1. Handled = Handled'
      BY <2>1, <2>3 DEF Handled, IsResult
    <3> QED BY <1>0, <1>1, <2>3, <3>1, BatchKept
  <2> QED BY <1>1, <1>2, <2>1, <2>2, <2>3, <2>4 DEF Capturing, Ending, IsResult
<1>10. CASE SetDone
  <2>1. wpc = "state" /\ ~IsResult(wev)
    BY <1>10 DEF CallbackInv, SetDone
  <2>2. Ending /\ Len(queue) = accepted + 1 /\ ~native
    BY <2>1 DEF Capturing, Reporting, Ending, Ended, QuietInv
  <2>3. wpc' = "idle" /\ UNCHANGED <<nativeVars, fwVars, wev, callVars>>
    BY <1>10 DEF SetDone
  <2>4. Batch'
    <3>1. Handled = Handled'
      BY <2>1, <2>3 DEF Handled, fwVars
    <3> QED BY <1>0, <1>1, <2>3, <3>1, BatchKept DEF nativeVars
  <2> QED BY <1>1, <2>2, <2>3, <2>4 DEF Capturing, Ending, Ended, QuietInv, nativeVars, fwVars,
    callVars
<1> QED BY <1>3, <1>4, <1>5, <1>6, <1>7, <1>8, <1>9, <1>10 DEF Callback

(* A step that leaves the queue and the entries alone, and reports no less.*)
LEMMA EntriesKept ==
  ASSUME Listing, UNCHANGED <<queue, count, mine>>, overflow => overflow',
         \A k \in 1 .. count : Entry(k)' = Entry(k)
  PROVE  \A k \in 1 .. count' :
           /\ Entry(k)'.scan = mine' /\ Entry(k)'.no = k
           /\ Alone(Entry(k))'
           /\ Entry(k)'.ies = "fits" => Queued(Entry(k))'
           /\ Entry(k)'.ies = "long" => overflow'
<1> SUFFICES ASSUME NEW k \in 1 .. count
             PROVE  /\ Entry(k)'.scan = mine' /\ Entry(k)'.no = k
                    /\ Alone(Entry(k))'
                    /\ Entry(k)'.ies = "fits" => Queued(Entry(k))'
                    /\ Entry(k)'.ies = "long" => overflow'
  OBVIOUS
<1>1. /\ Entry(k).scan = mine /\ Entry(k).no = k
      /\ Alone(Entry(k))
      /\ Entry(k).ies = "fits" => Queued(Entry(k))
      /\ Entry(k).ies = "long" => overflow
  BY DEF Listing
<1>2. Entry(k)' = Entry(k)
  OBVIOUS
<1>3. (Alone(Entry(k))' <=> Alone(Entry(k))) /\ (Queued(Entry(k))' <=> Queued(Entry(k)))
  BY <1>2 DEF Alone, Queued
<1> QED BY <1>1, <1>2, <1>3

(* Each result enters the list right after the queue.                      *)
LEMMA ListingKept ==
  ASSUME ScanInv, Emit \/ Callback, Capturing, Listing, pc = "wait"
  PROVE  Listing'
<1> USE DEF ScanInv
<1>1. /\ accepted \in 0 .. MAX_SCAN_RESULTS /\ count \in 0 .. MAX_SCAN_RESULTS
      /\ Len(queue) \in Nat /\ queue \in Seq(Events) /\ MAX_SCAN_RESULTS \in Nat
      /\ SCAN_EVENT_QUEUE_DEPTH = MAX_SCAN_RESULTS + 1 /\ fwNo \in Nat
      /\ results \in [1 .. MAX_SCAN_RESULTS -> Events \cup {NoEvent}]
  BY ScanConstants DEF TypeOK
<1>2. ~QuietInv /\ ~Ended /\ ~done /\ active /\ mine' = mine
  BY WorkerSteps DEF Listing, Ended, RunnerInv
<1>0. count = IF Passed <= MAX_SCAN_RESULTS THEN Passed ELSE MAX_SCAN_RESULTS
  BY DEF Listing
<1>b. \A i \in 1 .. Len(queue) : queue[i].no \in Nat /\ queue[i].no <= Handled
  BY <1>1, EventParts DEF Capturing, Batch
<1>3. CASE Emit
  <2>1. /\ wpc = "idle" /\ wpc' \in {"check", "swap"} /\ UNCHANGED <<nativeVars, stateVars>>
        /\ \/ IsResult(wev') /\ wpc' = "check" /\ fwNo' = fwNo + 1
           \/ ~IsResult(wev') /\ wpc' = "swap" /\ fwNo' = fwNo
    BY <1>3, EmitTyped
  <2>2. Passed' = Passed
    <3>1. Passed = fwNo
      BY <2>1 DEF Passed, Handled
    <3>2. CASE IsResult(wev') /\ wpc' = "check" /\ fwNo' = fwNo + 1
      <4>1. Passed' = fwNo' - 1
        BY <3>2 DEF Passed, Handled
      <4> QED BY <1>1, <3>1, <3>2, <4>1
    <3>3. CASE wpc' = "swap" /\ fwNo' = fwNo
      BY <3>1, <3>3 DEF Passed, Handled
    <3> QED BY <2>1, <3>2, <3>3
  <2>3. \A k \in 1 .. count : Entry(k)' = Entry(k)
    BY <2>1 DEF Entry, stateVars
  <2>4. count' = count /\ done' = done
    BY <2>1 DEF stateVars
  <2>5. UNCHANGED <<queue, count, mine, overflow>>
    BY <1>2, <2>1 DEF nativeVars, stateVars
  <2>6. \A k \in 1 .. count' :
          /\ Entry(k)'.scan = mine' /\ Entry(k)'.no = k
          /\ Alone(Entry(k))'
          /\ Entry(k)'.ies = "fits" => Queued(Entry(k))'
          /\ Entry(k)'.ies = "long" => overflow'
    BY <2>3, <2>5, EntriesKept
  <2> HIDE DEF Passed
  <2> QED BY <1>0, <1>2, <2>1, <2>2, <2>4, <2>6 DEF Listing
<1>4. CASE CheckNative \/ AcceptResult
  <2>1. IsResult(wev) /\ wpc \in {"check", "accept"}
    BY <1>4 DEF CallbackInv, CheckNative, AcceptResult
  <2>2. Reporting /\ Len(queue) = accepted /\ wev.scan = mine /\ wev.no = fwNo /\ native
    BY <2>1 DEF Capturing, Reporting, Ending, Ended, QuietInv
  <2>3. /\ UNCHANGED <<queue, stateVars, wev, fwNo>> /\ (overflow => overflow')
        /\ wpc' \in {"accept", "claim", "reserve"}
    BY <1>4 DEF CheckNative, AcceptResult, nativeVars, fwVars
  <2>4. Passed' = Passed /\ Passed = fwNo - 1 /\ Handled = fwNo - 1
    BY <2>1, <2>3 DEF Passed, Handled, IsResult
  <2>5. \A k \in 1 .. count : Entry(k)' = Entry(k)
    BY <2>1, <2>3 DEF Entry, stateVars
  <2>6. UNCHANGED <<queue, count, mine, done>>
    BY <1>2, <2>3 DEF stateVars
  <2>7. \A k \in 1 .. count' :
          /\ Entry(k)'.scan = mine' /\ Entry(k)'.no = k
          /\ Alone(Entry(k))'
          /\ Entry(k)'.ies = "fits" => Queued(Entry(k))'
          /\ Entry(k)'.ies = "long" => overflow'
    BY <2>3, <2>5, <2>6, EntriesKept
  <2>8. Alone(wev)'
    BY <1>1, <1>b, <2>2, <2>3, <2>4 DEF Alone
  <2>9. wpc' = "reserve" => \/ wev.ies = "unreadable"
                            \/ wev.ies = "long" /\ overflow'
                            \/ wev.ies = "fits" /\ accepted = MAX_SCAN_RESULTS
    <3>1. wev.ies \in Payloads
      BY <2>1, EventParts DEF CallbackInv
    <3>2. CASE CheckNative
      BY <2>2, <3>1, <3>2 DEF CheckNative, PassedOn, Payloads
    <3>3. CASE AcceptResult
      <4>1. CASE wev.ies = "long" /\ overflow' = TRUE
        BY <4>1
      <4>2. CASE wev.ies = "fits" /\ IF RoomForResult THEN wpc' = "claim" ELSE wpc' = "reserve"
        BY <1>1, <4>2 DEF RoomForResult
      <4> QED BY <3>3, <4>1, <4>2 DEF AcceptResult
    <3> QED BY <1>4, <3>2, <3>3
  <2>10. accepted = MAX_SCAN_RESULTS => count = MAX_SCAN_RESULTS
    <3> SUFFICES ASSUME accepted = MAX_SCAN_RESULTS PROVE count = MAX_SCAN_RESULTS
      OBVIOUS
    <3>1. Len(queue) \in 1 .. Len(queue) /\ Len(queue) <= accepted
      BY <1>1, <2>2, ScanConstants
    <3>2. Len(queue) <= queue[Len(queue)].no
      BY <3>1 DEF Capturing, Batch
    <3>3. MAX_SCAN_RESULTS <= Passed
      BY <1>1, <1>b, <2>2, <2>4, <3>1, <3>2
    <3> QED BY <1>0, <1>1, <2>4, <3>3
  <2> HIDE DEF Passed
  <2> QED BY <1>0, <1>2, <2>3, <2>4, <2>6, <2>7, <2>8, <2>9, <2>10 DEF Listing
<1>6. CASE ClaimSlot
  <2>1. wpc = "claim" /\ Len(queue) < SCAN_EVENT_QUEUE_DEPTH
    BY <1>1, <1>6 DEF ClaimSlot, Capturing, Ended, QuietInv
  <2>2. wpc' = "publish" /\ UNCHANGED <<accepted, queue, overflow, stateVars, wev, fwNo>>
    BY <1>1, <1>6, <2>1 DEF ClaimSlot, fwVars
  <2>3. Passed' = Passed
    BY <2>1, <2>2 DEF Passed, Handled, IsResult
  <2>4. \A k \in 1 .. count : Entry(k)' = Entry(k)
    BY <2>1, <2>2 DEF Entry, stateVars
  <2>5. UNCHANGED <<queue, count, mine, done>>
    BY <1>2, <2>2 DEF stateVars
  <2>6. \A k \in 1 .. count' :
          /\ Entry(k)'.scan = mine' /\ Entry(k)'.no = k
          /\ Alone(Entry(k))'
          /\ Entry(k)'.ies = "fits" => Queued(Entry(k))'
          /\ Entry(k)'.ies = "long" => overflow'
    BY <2>2, <2>4, <2>5, EntriesKept
  <2> HIDE DEF Passed
  <2> QED BY <1>0, <1>2, <2>2, <2>3, <2>5, <2>6 DEF Listing
<1>7. CASE PublishSlot
  <2>1. /\ wpc = "publish" /\ writing = wev
        /\ \/ IsResult(wev) /\ wev.no = fwNo
           \/ ~IsResult(wev)
    BY <1>7 DEF PublishSlot, CallbackInv, Capturing, Reporting, Ending, Ended, QuietInv
  <2>2. /\ wpc' = IF IsResult(wev) THEN "reserve" ELSE "state"
        /\ queue' = Append(queue, wev) /\ UNCHANGED <<accepted, overflow, stateVars, wev, fwNo>>
    BY <1>7, <2>1 DEF PublishSlot, AfterQueue, fwVars
  <2>3. /\ Len(queue') = Len(queue) + 1 /\ queue'[Len(queue) + 1] = wev
        /\ \A i \in 1 .. Len(queue) : queue'[i] = queue[i]
    BY <1>1, <2>2
  <2>4. \A i \in 1 .. Len(queue') : i \in 1 .. Len(queue) \/ queue'[i] = wev
    BY <1>1, <2>3
  <2>5. Passed' = Passed /\ Handled = Passed
    BY <2>1, <2>2 DEF Passed, Handled, IsResult
  <2>6. UNCHANGED <<count, mine, done, results>>
    BY <1>2, <2>2 DEF stateVars
  <2>7. Queued(wev)'
    <3>1. Len(queue') \in 1 .. Len(queue') /\ queue'[Len(queue')] = wev'
      BY <1>1, <2>2, <2>3
    <3> QED BY <3>1 DEF Queued
  <2>8. ASSUME IsResult(wev) PROVE Alone(wev)'
    <3>1. Handled = fwNo - 1
      BY <2>1, <2>8 DEF Handled
    <3>2. \A i \in 1 .. Len(queue) : queue[i].no # wev.no
      BY <1>1, <1>b, <2>1, <2>8, <3>1
    <3> QED BY <2>2, <2>3, <2>4, <3>2 DEF Alone
  <2>9. ASSUME NEW k \in 1 .. count
        PROVE  /\ Entry(k)'.scan = mine /\ Entry(k)'.no = k
               /\ Alone(Entry(k))'
               /\ Entry(k)'.ies = "fits" => Queued(Entry(k))'
               /\ Entry(k)'.ies = "long" => overflow
    <3>1. /\ Entry(k).scan = mine /\ Entry(k).no = k
          /\ Alone(Entry(k))
          /\ Entry(k).ies = "fits" => Queued(Entry(k))
          /\ Entry(k).ies = "long" => overflow
      BY DEF Listing
    <3>2. Entry(k)' = Entry(k)
      BY <2>1, <2>2, <2>6 DEF Entry
    <3>3. wev.no # k
      <4>1. CASE IsResult(wev)
        <5>1. Passed = fwNo - 1
          BY <2>1, <4>1 DEF Passed, Handled
        <5> QED BY <1>0, <1>1, <2>1, <4>1, <5>1
      <4>2. CASE ~IsResult(wev)
        BY <1>1, <4>2 DEF IsResult
      <4> QED BY <4>1, <4>2
    <3>4. Alone(Entry(k))'
      BY <2>3, <2>4, <3>1, <3>2, <3>3 DEF Alone
    <3>5. Queued(Entry(k)) => Queued(Entry(k))'
      <4> SUFFICES ASSUME NEW i \in 1 .. Len(queue), queue[i] = Entry(k)
                   PROVE  Queued(Entry(k))'
        BY DEF Queued
      <4>1. i \in 1 .. Len(queue') /\ queue'[i] = Entry(k)'
        BY <1>1, <2>3, <3>2
      <4> HIDE DEF Entry
      <4> QED BY <4>1 DEF Queued
    <3> QED BY <3>1, <3>2, <3>4, <3>5
  <2>10. wpc' = "reserve" => wev.ies = "fits"
    BY <2>1 DEF CallbackInv
  <2> HIDE DEF Passed
  <2> QED BY <1>0, <1>2, <2>2, <2>5, <2>6, <2>7, <2>8, <2>9, <2>10 DEF Listing
<1>8. CASE Reserve
  <2>1. /\ wpc = "reserve" /\ IsResult(wev) /\ wev.scan = mine /\ wev.no = fwNo
        /\ Alone(wev)
        /\ wev.ies = "fits" => Queued(wev) \/ count = MAX_SCAN_RESULTS
        /\ wev.ies = "long" => overflow
    BY <1>8 DEF Reserve, Listing, CallbackInv, Capturing, Reporting, Ending, Ended, QuietInv
  <2>2. UNCHANGED <<nativeVars, active, done, success, results, wev, fwNo>>
    BY <1>8 DEF Reserve, fwVars
  <2>3. Passed = fwNo - 1 /\ Passed' = fwNo
    BY <1>8, <2>1, <2>2 DEF Passed, Handled, Reserve
  <2>4. UNCHANGED <<queue, overflow>>
    BY <2>2 DEF nativeVars
  <2>5. \A k \in 1 .. count : Entry(k) = results[k]
    BY <2>1 DEF Entry
  <2>6. CASE count = MAX_SCAN_RESULTS
    <3>1. wpc' = "idle" /\ count' = count
      BY <1>1, <1>8, <2>6 DEF Reserve, Listed
    <3>2. \A k \in 1 .. count : Entry(k)' = Entry(k)
      BY <2>2, <2>5, <3>1 DEF Entry
    <3>3. \A k \in 1 .. count' :
            /\ Entry(k)'.scan = mine' /\ Entry(k)'.no = k
            /\ Alone(Entry(k))'
            /\ Entry(k)'.ies = "fits" => Queued(Entry(k))'
            /\ Entry(k)'.ies = "long" => overflow'
      BY <1>2, <2>4, <3>1, <3>2, EntriesKept
    <3>4. count' = IF Passed' <= MAX_SCAN_RESULTS THEN Passed' ELSE MAX_SCAN_RESULTS
      BY <1>0, <1>1, <2>3, <2>6, <3>1
    <3> HIDE DEF Passed
    <3> QED BY <1>2, <2>2, <3>1, <3>3, <3>4 DEF Listing
  <2>7. CASE count # MAX_SCAN_RESULTS
    <3>1. wpc' = "store" /\ count' = count + 1 /\ wslot' = count + 1
      BY <1>1, <1>2, <1>8, <2>7 DEF Reserve, Listed
    <3>2. count = fwNo - 1 /\ count' = IF Passed' <= MAX_SCAN_RESULTS THEN Passed' ELSE MAX_SCAN_RESULTS
      BY <1>0, <1>1, <2>3, <2>7, <3>1
    <3>3. \A k \in 1 .. count' : k \in 1 .. count \/ k = count'
      BY <1>1, <3>1
    <3>4. ASSUME NEW k \in 1 .. count
          PROVE  Entry(k)' = Entry(k)
      BY <1>1, <2>2, <2>5, <3>1 DEF Entry
    <3>5. \A k \in {count + 1} : Entry(k)' = wev
      BY <2>2, <3>1 DEF Entry
    <3>6. ASSUME NEW k \in 1 .. count'
          PROVE  /\ Entry(k)'.scan = mine' /\ Entry(k)'.no = k
                 /\ Alone(Entry(k))'
                 /\ Entry(k)'.ies = "fits" => Queued(Entry(k))'
                 /\ Entry(k)'.ies = "long" => overflow'
      <4>1. CASE k \in 1 .. count
        <5>1. /\ Entry(k).scan = mine /\ Entry(k).no = k
              /\ Alone(Entry(k))
              /\ Entry(k).ies = "fits" => Queued(Entry(k))
              /\ Entry(k).ies = "long" => overflow
          BY <4>1 DEF Listing
        <5>2. Entry(k)' = Entry(k)
          BY <3>4, <4>1
        <5> HIDE DEF Entry
        <5> QED BY <1>2, <2>4, <5>1, <5>2 DEF Alone, Queued
      <4>2. CASE k = count'
        <5>1. Entry(k)' = wev
          BY <3>1, <3>5, <4>2
        <5>2. k = fwNo
          BY <1>1, <3>1, <3>2, <4>2
        <5> HIDE DEF Entry
        <5> QED BY <1>2, <2>1, <2>4, <2>7, <5>1, <5>2 DEF Alone, Queued
      <4> QED BY <3>3, <4>1, <4>2
    <3> HIDE DEF Passed, Entry
    <3> QED BY <1>2, <2>2, <3>1, <3>2, <3>6 DEF Listing
  <2> QED BY <2>6, <2>7
<1>9. CASE Store
  <2>1. /\ wpc = "store" /\ wpc' = "idle" /\ results' = [results EXCEPT ![wslot] = wev]
        /\ UNCHANGED <<nativeVars, active, done, count, success, wev, wslot, fwNo>>
    BY <1>9 DEF Store, fwVars
  <2>2. wslot = count
    BY <2>1 DEF Listing
  <2>3. Passed' = Passed
    BY <2>1 DEF Passed, Handled
  <2>4. \A k \in 1 .. count : Entry(k)' = Entry(k)
    <3> SUFFICES ASSUME NEW k \in 1 .. count PROVE Entry(k)' = Entry(k)
      OBVIOUS
    <3>1. k \in 1 .. MAX_SCAN_RESULTS
      BY <1>1
    <3> QED BY <1>1, <2>1, <2>2, <3>1 DEF Entry
  <2>5. UNCHANGED <<queue, count, mine, done, overflow>>
    BY <1>2, <2>1 DEF nativeVars
  <2>6. \A k \in 1 .. count' :
          /\ Entry(k)'.scan = mine' /\ Entry(k)'.no = k
          /\ Alone(Entry(k))'
          /\ Entry(k)'.ies = "fits" => Queued(Entry(k))'
          /\ Entry(k)'.ies = "long" => overflow'
    BY <2>4, <2>5, EntriesKept
  <2> HIDE DEF Passed, Entry
  <2> QED BY <1>0, <1>2, <2>1, <2>3, <2>5, <2>6 DEF Listing
<1>10. CASE SwapNative \/ SetDone
  <2>1. /\ wpc \in {"swap", "state"} /\ ~IsResult(wev) /\ wpc' \in {"claim", "state", "idle"}
        /\ UNCHANGED <<accepted, queue, overflow, count, results, wev, fwNo>>
    BY <1>10 DEF CallbackInv, SwapNative, SetDone, nativeVars, stateVars, fwVars
  <2>2. Passed' = Passed
    BY <2>1 DEF Passed, Handled, IsResult
  <2>3. \A k \in 1 .. count : Entry(k)' = Entry(k)
    BY <2>1 DEF Entry
  <2>4. \A k \in 1 .. count' :
          /\ Entry(k)'.scan = mine' /\ Entry(k)'.no = k
          /\ Alone(Entry(k))'
          /\ Entry(k)'.ies = "fits" => Queued(Entry(k))'
          /\ Entry(k)'.ies = "long" => overflow'
    BY <1>2, <2>1, <2>3, EntriesKept
  <2>5. done' => Ended'
    <3>1. CASE SwapNative
      BY <1>2, <3>1 DEF SwapNative, stateVars
    <3>2. CASE SetDone
      <4>1. Capturing'
        BY CapturingKept
      <4>2. fw = 0 /\ fw' = fw /\ mine' # 0 /\ wpc' = "idle"
        BY <1>2, <3>2 DEF SetDone, fwVars, CallbackInv, Capturing, Reporting, Ending, Ended,
          QuietInv
      <4> QED BY <4>1, <4>2 DEF Capturing, Reporting, Ending
    <3> QED BY <1>10, <3>1, <3>2
  <2> HIDE DEF Passed, Entry
  <2> QED BY <1>0, <2>1, <2>2, <2>4, <2>5 DEF Listing
<1> QED BY <1>3, <1>4, <1>6, <1>7, <1>8, <1>9, <1>10 DEF Callback

LEMMA WorkerSound ==
  ASSUME ScanInv, Emit \/ Callback
  PROVE  ScanInv'
<1> USE DEF ScanInv
<1>1. /\ TypeOK' /\ CallbackInv' /\ RunnerInv' /\ ~QuietInv
      /\ UNCHANGED <<scans, pc, then, copyLen, failures, mine, clean, fed, output, okay>>
  BY WorkerSteps DEF runVars
<1>2. SUFFICES ASSUME clean PROVE CleanInv'
  BY <1>1 DEF CleanInv
<1>3. ~lost /\ pc # "discard" /\ pc \notin {"txn", "start", "ioctl", "copy", "finish"}
  BY <1>1, <1>2 DEF CleanInv, Fresh, Ended
<1>4. pc \in {"wait", "cancel", "pending", "idle", "drain", "hookTxn", "hookIoctl"}
  BY <1>3 DEF TypeOK, RunSteps
<1>5. CASE pc \in {"wait", "cancel"}
  <2>1. Capturing /\ ~okay
    BY <1>1, <1>2, <1>5 DEF CleanInv, Fresh
  <2>2. Capturing' /\ lost' = lost
    BY <2>1, CapturingKept
  <2>3. pc = "wait" => Listing /\ fed = <<>>
    BY <1>2 DEF CleanInv
  <2>4. pc = "wait" => Listing'
    BY <2>1, <2>3, ListingKept
  <2>5. ~InPending'
    BY <1>1, <1>5 DEF InPending
  <2> QED BY <1>1, <1>3, <1>5, <2>1, <2>2, <2>3, <2>4, <2>5 DEF CleanInv
<1>6. CASE pc \notin {"wait", "cancel"}
  <2>1. Over
    BY <1>2, <1>4, <1>6 DEF CleanInv, InPending
  <2>2. Over' /\ lost' = lost
    BY <2>1, OverKept, LostKept
  <2>3. InPending' <=> InPending
    BY <1>1 DEF InPending
  <2>4. CASE InPending
    <3>1. mine # 0 /\ ~okay /\ (Reported \/ Whole(fed \o queue, output, mine))
      BY <1>2, <2>4 DEF CleanInv
    <3>2. (Reported \/ Whole(fed \o queue, output, mine))'
      BY <2>1, <3>1, PendingKept
    <3> QED BY <1>1, <1>3, <1>4, <1>6, <2>2, <2>3, <2>4, <3>1, <3>2 DEF CleanInv
  <2>5. CASE ~InPending
    <3>1. okay => Whole(fed, output, mine)
      BY <1>2, <1>4, <1>6, <2>5 DEF CleanInv, InPending
    <3>2. okay' => Whole(fed', output', mine')
      BY <1>1, <3>1
    <3> QED BY <1>1, <1>3, <1>4, <1>6, <2>2, <2>3, <2>5, <3>2 DEF CleanInv
  <2> QED BY <2>4, <2>5
<1> QED BY <1>4, <1>5, <1>6

-----------------------------------------------------------------------------
(* The runner's steps.                                                     *)
RunnerStep == BeginCapture \/ IdlePoll \/ Scan

LEMMA FirmwareTyped ==
  ASSUME TypeOK, FirmwareAccepts
  PROVE  /\ fw' \in 1 .. MaxScans /\ fwNo' \in 0 .. MaxEmitted /\ scans' \in 1 .. MaxScans
         /\ fw' = scans + 1 /\ scans' = scans + 1 /\ fw = 0
BY ScanConstants DEF TypeOK, FirmwareAccepts

(* The runner only takes from the queue.                                   *)
LEMMA PollQueue ==
  ASSUME ScanInv, RunnerStep
  PROVE  /\ UNCHANGED <<writing, workVars>>
         /\ queue' \in Seq(Events) /\ Len(queue') <= Len(queue)
         /\ queue' = queue \/ (queue # <<>> /\ queue' = Tail(queue) /\ pc \in {"drain", "discard"})
<1>1. UNCHANGED <<writing, workVars>>
  BY DEF RunnerStep, BeginCapture, IdlePoll, Scan, begin_transaction, StartScan, IoctlScan,
    WaitDone, WaitTimeout, CopyResults, FinishCapture, FinishLoop, DrainTake, PollFails,
    DrainEnd, HookTransaction, HookIoctl, CancelCapture, DiscardPending, nativeVars
<1>2. queue' = queue \/ (queue # <<>> /\ queue' = Tail(queue) /\ pc \in {"drain", "discard"})
  BY DEF RunnerStep, BeginCapture, IdlePoll, Scan, begin_transaction, StartScan, IoctlScan,
    WaitDone, WaitTimeout, CopyResults, FinishCapture, FinishLoop, DrainTake, PollFails,
    DrainEnd, HookTransaction, HookIoctl, CancelCapture, DiscardPending, nativeVars, Takeable
<1>3. queue \in Seq(Events)
  BY DEF ScanInv, TypeOK
<1>4. CASE queue' = queue
  BY <1>1, <1>3, <1>4
<1>5. CASE queue # <<>> /\ queue' = Tail(queue)
  <2>1. Len(Tail(queue)) = Len(queue) - 1 /\ Tail(queue) \in Seq(Events) /\ Len(queue) \in Nat
    BY <1>3, <1>5
  <2>2. queue' \in Seq(Events) /\ Len(queue') <= Len(queue)
    BY <1>5, <2>1
  <2> QED BY <1>1, <1>2, <2>2
<1> QED BY <1>2, <1>4, <1>5

LEMMA PollTyped ==
  ASSUME ScanInv, RunnerStep
  PROVE  TypeOK' /\ CallbackInv' /\ RunnerInv'
<1> USE DEF ScanInv
<1>1. /\ UNCHANGED <<writing, workVars>> /\ queue' \in Seq(Events)
      /\ Len(queue') <= SCAN_EVENT_QUEUE_DEPTH
  <2>1. Len(queue) \in Nat /\ Len(queue) <= SCAN_EVENT_QUEUE_DEPTH
    BY DEF TypeOK
  <2>2. Len(queue') <= Len(queue) /\ queue' \in Seq(Events)
    BY PollQueue
  <2>3. Len(queue') \in Nat
    BY <2>2
  <2> QED BY <2>1, <2>2, <2>3, PollQueue, ScanConstants
<1>2. CallbackInv'
  <2>1. Len(queue') <= Len(queue) /\ Len(queue) \in Nat /\ Len(queue') \in Nat
    BY <1>1, PollQueue DEF TypeOK
  <2> QED BY <1>1, <2>1, ScanConstants DEF workVars, CallbackInv, IsResult
<1>3. /\ wpc' \in WorkSteps /\ wev' \in Events \cup {NoEvent}
      /\ wslot' \in 0 .. MAX_SCAN_RESULTS /\ wok' \in BOOLEAN
      /\ writing' \in Events \cup {NoEvent}
  BY <1>1 DEF TypeOK, workVars
<1>4. CASE BeginCapture
  <2>1. /\ native' \in BOOLEAN /\ clean' \in BOOLEAN /\ lost' \in BOOLEAN /\ okay' \in BOOLEAN
        /\ mine' = 0 /\ fed' = <<>> /\ output' = <<>>
    BY <1>4 DEF BeginCapture
  <2>2. fed' \in Seq(Events) /\ output' \in Seq(Events \cup {NoEvent})
    BY <2>1
  <2>3. TypeOK'
    BY <1>1, <1>3, <1>4, <2>1, <2>2, ScanConstants DEF BeginCapture, TypeOK, RunTo, RunSteps,
      stateVars, fwVars
  <2>4. scans' = scans /\ scans \in Nat
    BY <1>4 DEF BeginCapture, fwVars, TypeOK
  <2> QED BY <1>2, <1>4, <2>1, <2>3, <2>4 DEF BeginCapture, RunnerInv, RunTo, stateVars
<1>5. CASE IdlePoll
  <2>1. overflow' \in BOOLEAN /\ pc' \in {"idle", "drain"} /\ then' \in {"idle", "pending"}
    BY <1>5 DEF IdlePoll, TypeOK
  <2>2. TypeOK'
    BY <1>1, <1>3, <1>5, <2>1 DEF IdlePoll, TypeOK, RunSteps, stateVars, fwVars, callVars
  <2> QED BY <1>2, <1>5, <2>1, <2>2 DEF IdlePoll, RunnerInv, stateVars, fwVars, callVars
<1>6. CASE begin_transaction
  <2>1. TypeOK'
    BY <1>1, <1>3, <1>6, ScanConstants DEF begin_transaction, TypeOK, RunTo, RunSteps, stateVars,
      fwVars, callVars
  <2> QED BY <1>2, <1>6, <2>1 DEF begin_transaction, RunnerInv, RunTo, stateVars, fwVars, callVars
<1>7. CASE StartScan
  <2>1. TypeOK'
    BY <1>1, <1>3, <1>7, ScanConstants DEF StartScan, CountAtStart, TypeOK, RunTo, RunSteps,
      nativeVars, fwVars, callVars
  <2> QED BY <1>2, <1>7, <2>1 DEF StartScan, RunnerInv, RunTo, fwVars, callVars
<1>8. CASE IoctlScan
  <2>1. /\ fw' \in 0 .. MaxScans /\ fwNo' \in 0 .. MaxEmitted /\ scans' \in 0 .. MaxScans
        /\ mine' \in 0 .. MaxScans /\ active' \in BOOLEAN /\ pc' \in {"wait", "cancel"}
        /\ (active' <=> pc' = "wait") /\ mine' <= scans'
    <3>1. CASE FirmwareAccepts /\ mine' = scans' /\ RunTo("wait") /\ UNCHANGED active
      BY <1>8, <3>1, FirmwareTyped DEF IoctlScan, RunnerInv, RunTo, TypeOK
    <3>2. CASE active' = FALSE /\ RunTo("cancel") /\ UNCHANGED <<fwVars, mine>>
      BY <3>2 DEF RunnerInv, RunTo, TypeOK, fwVars
    <3> QED BY <1>8, <3>1, <3>2 DEF IoctlScan
  <2>2. TypeOK'
    BY <1>1, <1>3, <1>8, <2>1 DEF IoctlScan, TypeOK, RunTo, RunSteps, nativeVars
  <2> QED BY <1>2, <2>1, <2>2 DEF RunnerInv
<1>9. CASE WaitDone
  <2>1. TypeOK'
    BY <1>1, <1>3, <1>9 DEF WaitDone, TypeOK, RunSteps, nativeVars, fwVars, callVars
  <2> QED BY <1>2, <1>9, <2>1 DEF WaitDone, RunnerInv, fwVars, callVars
<1>10. CASE WaitTimeout
  <2>1. TypeOK'
    BY <1>1, <1>3, <1>10 DEF WaitTimeout, TypeOK, RunTo, RunSteps, nativeVars, fwVars, callVars
  <2> QED BY <1>2, <1>10, <2>1 DEF WaitTimeout, RunTo, RunnerInv, fwVars, callVars
<1>11. CASE CopyResults
  <2>1. output' \in Seq(Events \cup {NoEvent})
    <3>1. copyLen \in 0 .. MAX_SCAN_RESULTS /\ output' = SubSeq(results, 1, copyLen)
          /\ results \in [1 .. MAX_SCAN_RESULTS -> Events \cup {NoEvent}]
      BY <1>11 DEF CopyResults, TypeOK
    <3>2. results \in Seq(Events \cup {NoEvent}) /\ Len(results) = MAX_SCAN_RESULTS
      BY <3>1, ScanConstants
    <3> QED BY <3>1, <3>2, ScanConstants
  <2>2. TypeOK'
    BY <1>1, <1>3, <1>11, <2>1 DEF CopyResults, TypeOK, RunTo, RunSteps, nativeVars, stateVars,
      fwVars
  <2> QED BY <1>2, <1>11, <2>2 DEF CopyResults, RunTo, RunnerInv, stateVars, fwVars
<1>12. CASE FinishCapture
  <2>1. TypeOK'
    BY <1>1, <1>3, <1>12 DEF FinishCapture, TypeOK, RunTo, RunSteps, nativeVars, stateVars,
      fwVars, callVars
  <2> QED BY <1>2, <1>12, <2>1 DEF FinishCapture, RunTo, RunnerInv, stateVars, fwVars, callVars
<1>13. CASE FinishLoop
  <2>1. /\ overflow' \in BOOLEAN /\ okay' \in BOOLEAN /\ pc' \in {"idle", "drain"}
        /\ then' \in {"idle", "pending"} /\ copyLen' = copyLen /\ failures' \in 0 .. MaxFailures
    <3>1. CASE failures' = failures
      BY <1>13, <3>1 DEF FinishLoop, TypeOK, RunTo
    <3>2. CASE failures < MaxFailures /\ failures' = failures + 1 /\ UNCHANGED <<overflow, okay>>
               /\ RunTo("idle")
      BY <3>2, ScanConstants DEF TypeOK, RunTo
    <3> QED BY <1>13, <3>1, <3>2 DEF FinishLoop
  <2>2. TypeOK'
    BY <1>1, <1>3, <1>13, <2>1 DEF FinishLoop, TypeOK, RunSteps, stateVars, fwVars
  <2> QED BY <1>2, <1>13, <2>1, <2>2 DEF FinishLoop, RunnerInv, stateVars, fwVars
<1>14. CASE DrainTake
  <2>1. /\ fed' \in Seq(Events) /\ failures' \in 0 .. MaxFailures /\ pc' \in {"drain", "idle"}
    <3>1. CASE /\ UNCHANGED <<pc, failures>>
               /\ fed' = IF then = "pending" THEN Append(fed, Head(queue)) ELSE fed
      <4>1. queue \in Seq(Events) /\ queue # <<>> /\ fed \in Seq(Events)
        BY <1>14 DEF DrainTake, Takeable, TypeOK
      <4>2. Head(queue) \in Events
        BY <4>1
      <4>3. Append(fed, Head(queue)) \in Seq(Events)
        BY <4>1, <4>2
      <4> QED BY <1>14, <3>1, <4>1, <4>3 DEF DrainTake, TypeOK
    <3>2. CASE failures < MaxFailures /\ failures' = failures + 1 /\ pc' = "idle" /\ UNCHANGED fed
      BY <3>2, ScanConstants DEF TypeOK
    <3> QED BY <1>14, <3>1, <3>2 DEF DrainTake
  <2>2. TypeOK'
    BY <1>1, <1>3, <1>14, <2>1 DEF DrainTake, TypeOK, RunSteps, stateVars, fwVars
  <2> QED BY <1>2, <1>14, <2>1, <2>2 DEF DrainTake, RunnerInv, stateVars, fwVars
<1>20. CASE PollFails
  <2>1. failures' \in 0 .. MaxFailures
    BY <1>20, ScanConstants DEF PollFails, TypeOK
  <2>2. TypeOK'
    BY <1>1, <1>3, <1>20, <2>1 DEF PollFails, TypeOK, RunTo, RunSteps, nativeVars, stateVars, fwVars
  <2> QED BY <1>2, <1>20, <2>2 DEF PollFails, RunTo, RunnerInv, stateVars, fwVars
<1>15. CASE DrainEnd
  <2>1. /\ native' \in BOOLEAN /\ pc' \in {"idle", "pending", "hookTxn"}
        /\ UNCHANGED <<then, copyLen>>
    BY <1>15 DEF DrainEnd, RunTo, TypeOK
  <2>2. TypeOK'
    BY <1>1, <1>3, <1>15, <2>1 DEF DrainEnd, TypeOK, RunSteps, stateVars, fwVars, callVars
  <2> QED BY <1>2, <1>15, <2>1, <2>2 DEF DrainEnd, RunnerInv, stateVars, fwVars, callVars
<1>16. CASE HookTransaction
  <2>1. TypeOK'
    BY <1>1, <1>3, <1>16, ScanConstants DEF HookTransaction, TypeOK, RunTo, RunSteps, stateVars,
      fwVars, callVars
  <2> QED BY <1>2, <1>16, <2>1 DEF HookTransaction, RunTo, RunnerInv, stateVars, fwVars, callVars
<1>17. CASE HookIoctl
  <2>1. /\ fw' \in 0 .. MaxScans /\ fwNo' \in 0 .. MaxEmitted /\ scans' \in 0 .. MaxScans
        /\ native' \in BOOLEAN /\ scans <= scans'
    <3>1. CASE FirmwareAccepts /\ UNCHANGED native
      BY <3>1, FirmwareTyped DEF TypeOK
    <3>2. CASE native' = NativeAfterRefusal /\ UNCHANGED fwVars
      <4>1. fw' = fw /\ fwNo' = fwNo /\ scans' = scans /\ native' = FALSE
        BY <3>2 DEF fwVars, NativeAfterRefusal
      <4>2. scans <= scans
        BY DEF TypeOK
      <4> QED BY <4>1, <4>2 DEF TypeOK
    <3> QED BY <1>17, <3>1, <3>2 DEF HookIoctl
  <2>2. pc' = then /\ UNCHANGED <<then, copyLen>>
    BY <1>17 DEF HookIoctl, RunTo
  <2>3. TypeOK'
    BY <1>1, <1>3, <1>17, <2>1, <2>2 DEF HookIoctl, TypeOK, RunSteps, stateVars, callVars
  <2>4. mine' = mine /\ mine <= scans /\ mine \in Nat /\ scans \in Nat /\ scans' \in Nat
    BY <1>17, <2>1 DEF HookIoctl, RunnerInv, TypeOK, callVars
  <2>5. mine' <= scans'
    BY <2>1, <2>4
  <2>6. active' = active /\ ~active /\ pc' \in {"idle", "pending"}
    BY <1>17, <2>2 DEF HookIoctl, RunnerInv, TypeOK, stateVars
  <2> QED BY <1>2, <2>3, <2>5, <2>6 DEF RunnerInv
<1>18. CASE CancelCapture
  <2>1. TypeOK'
    BY <1>1, <1>3, <1>18 DEF CancelCapture, TypeOK, RunTo, RunSteps, stateVars, fwVars
  <2> QED BY <1>2, <1>18, <2>1 DEF CancelCapture, RunTo, RunnerInv, stateVars, fwVars
<1>19. CASE DiscardPending
  <2>1. pc' \in {"discard", "idle"} /\ UNCHANGED <<then, copyLen>>
    BY <1>19 DEF DiscardPending, RunTo, runVars
  <2>2. TypeOK'
    BY <1>1, <1>3, <1>19, <2>1 DEF DiscardPending, TypeOK, RunSteps, stateVars, fwVars, callVars
  <2> QED BY <1>2, <1>19, <2>1, <2>2 DEF DiscardPending, RunnerInv, stateVars, fwVars, callVars
<1> QED BY <1>4, <1>5, <1>6, <1>7, <1>8, <1>9, <1>10, <1>11, <1>12, <1>13, <1>14, <1>15, <1>16,
  <1>17, <1>18, <1>19, <1>20 DEF RunnerStep, Scan

(* The list of a scan that saw its own scan-done agrees with its queue.    *)
LEMMA BatchIsWhole ==
  ASSUME ScanInv, Capturing, Listing, Ended, ~overflow, UNCHANGED <<queue, mine>>,
         Len(output') = count, \A k \in 1 .. count : output'[k] = results[k]
  PROVE  Whole(queue, output, mine)'
<1> USE DEF ScanInv
<1>1. /\ queue \in Seq(Events) /\ accepted \in Nat /\ Len(queue) = accepted + 1
      /\ fwNo \in Nat /\ MAX_SCAN_RESULTS \in Nat /\ Batch /\ wpc = "idle"
      /\ \A i \in 1 .. Len(queue) : queue[i] \in Events /\ queue[i].no \in Nat
  BY ScanConstants, EventParts DEF TypeOK, Capturing, Ended, QuietInv
<1>2. Handled = fwNo /\ Passed = fwNo
  BY <1>1 DEF Handled, Passed
<1>3. \A i \in 1 .. accepted : i \in 1 .. Len(queue) /\ i <= accepted
  BY <1>1
<1>4. OwnBatch(queue, accepted, mine)
  <2>1. \A i \in 1 .. accepted : queue[i].scan = mine /\ IsResult(queue[i]) /\ queue[i].ies = "fits"
    BY <1>1, <1>3 DEF Batch
  <2>2. \A i, j \in 1 .. accepted : i < j => queue[i].no < queue[j].no
    BY <1>1, <1>3 DEF Batch
  <2>3. queue[accepted + 1] = DoneOf(mine)
    <3>1. accepted + 1 \in 1 .. Len(queue) /\ ~(accepted + 1 <= accepted)
      BY <1>1
    <3>2. ~IsResult(queue[accepted + 1]) /\ queue[accepted + 1].scan = mine
      BY <1>1, <3>1 DEF Batch
    <3> QED BY <1>1, <3>1, <3>2, EventParts
  <2>4. accepted < Len(queue) /\ accepted + 2 .. Len(queue) = {}
    BY <1>1
  <2> QED BY <2>1, <2>2, <2>3, <2>4 DEF OwnBatch
<1>5. /\ Len(output') = count
      /\ \A k \in 1 .. count :
           /\ output'[k].scan = mine /\ output'[k].no = k
           /\ output'[k].ies # "long"
           /\ output'[k].ies = "fits" => Queued(output'[k])
           /\ Alone(output'[k])
  BY <1>1 DEF Listing, Entry
<1>6. \A k \in 1 .. count : output'[k].ies = "fits" => \E i \in 1 .. accepted : queue[i] = output'[k]
  <2> SUFFICES ASSUME NEW k \in 1 .. count, output'[k].ies = "fits"
               PROVE  \E i \in 1 .. accepted : queue[i] = output'[k]
    OBVIOUS
  <2>1. PICK i \in 1 .. Len(queue) : queue[i] = output'[k]
    BY <1>5 DEF Queued
  <2>2. IsResult(queue[i])
    BY <1>5, <2>1 DEF IsResult, TypeOK
  <2>3. i \in 1 .. accepted
    BY <1>1, <2>1, <2>2 DEF Batch
  <2> QED BY <2>1, <2>3
<1>7. ASSUME NEW i \in 1 .. accepted
      PROVE  IF queue[i].no <= count THEN output'[queue[i].no] = queue[i]
                                     ELSE count = MAX_SCAN_RESULTS
  <2>1. i \in 1 .. Len(queue) /\ i <= accepted
    BY <1>3
  <2>2. queue[i].no \in Nat /\ queue[i].no # 0 /\ queue[i].no <= fwNo
    BY <1>1, <1>2, <2>1 DEF Batch, IsResult
  <2>3. CASE queue[i].no <= count
    <3>1. queue[i].no \in 1 .. count
      BY <2>2, <2>3 DEF TypeOK
    <3>2. Alone(output'[queue[i].no]) /\ output'[queue[i].no].no = queue[i].no
      BY <1>5, <3>1
    <3>3. queue[i] = output'[queue[i].no]
      BY <2>1, <3>2 DEF Alone
    <3> QED BY <2>3, <3>3
  <2>4. CASE ~(queue[i].no <= count)
    <3>1. count = IF fwNo <= MAX_SCAN_RESULTS THEN fwNo ELSE MAX_SCAN_RESULTS
      BY <1>2 DEF Listing
    <3> QED BY <1>1, <2>2, <2>4, <3>1
  <2> QED BY <2>3, <2>4
<1>8. ListOf(output', queue, accepted, mine)
  BY <1>5, <1>6, <1>7 DEF ListOf
<1>9. Whole(queue, output', mine)
  BY <1>1, <1>4, <1>8 DEF Whole
<1> QED BY <1>9

(* What the capture and its request of the firmware leave.                 *)
LEMMA StartClean ==
  ASSUME ScanInv, BeginCapture \/ begin_transaction \/ StartScan \/ IoctlScan
  PROVE  CleanInv'
<1> USE DEF ScanInv
<1>1. SUFFICES ASSUME clean' PROVE CleanInv'
  BY DEF CleanInv
<1>2. CASE BeginCapture
  <2>1. /\ fw = 0 /\ wpc = "idle" /\ queue = <<>> /\ ~overflow
    BY <1>1, <1>2 DEF BeginCapture
  <2>2. /\ native' = TRUE /\ mine' = 0 /\ lost' = FALSE /\ fed' = <<>> /\ okay' = FALSE
        /\ pc' = "txn" /\ UNCHANGED <<queue, overflow, fw, wpc>>
    BY <1>2 DEF BeginCapture, RunTo, fwVars, workVars
  <2> QED BY <2>1, <2>2 DEF CleanInv, InPending, Fresh, QuietInv
<1>3. CASE begin_transaction
  <2>1. /\ pc = "txn" /\ pc' = "start" /\ accepted' = 0
        /\ UNCHANGED <<native, queue, overflow, fw, wpc, mine, clean, lost, fed, okay>>
    BY <1>3 DEF begin_transaction, RunTo, fwVars, workVars, callVars
  <2>2. Fresh /\ ~overflow /\ ~okay /\ fed = <<>> /\ ~lost
    BY <1>1, <2>1 DEF CleanInv
  <2> QED BY <2>1, <2>2 DEF CleanInv, InPending, Fresh, QuietInv
<1>4. CASE StartScan
  <2>1. /\ pc = "start" /\ pc' = "ioctl" /\ done' = FALSE /\ count' = 0
        /\ UNCHANGED <<accepted, native, queue, overflow, fw, wpc, mine, clean, lost, fed, okay>>
    BY <1>4 DEF StartScan, CountAtStart, RunTo, nativeVars, fwVars, workVars, callVars
  <2>2. Fresh /\ ~overflow /\ ~okay /\ fed = <<>> /\ ~lost
    BY <1>1, <2>1 DEF CleanInv
  <2> QED BY <2>1, <2>2 DEF CleanInv, InPending, Fresh, QuietInv
<1>5. CASE IoctlScan
  <2>1. /\ pc = "ioctl"
        /\ UNCHANGED <<accepted, native, queue, overflow, done, count, results, wpc, wev, clean,
                       lost, fed, okay>>
    BY <1>5 DEF IoctlScan, nativeVars, workVars
  <2>2. /\ ~overflow /\ ~okay /\ fed = <<>> /\ ~lost
        /\ fw = 0 /\ wpc = "idle" /\ queue = <<>> /\ native /\ mine = 0 /\ accepted = 0
        /\ ~done /\ count = 0
    BY <1>1, <2>1 DEF CleanInv, Fresh, QuietInv
  <2>3. CASE FirmwareAccepts /\ mine' = scans' /\ RunTo("wait") /\ UNCHANGED active
    <3>1. fw' = mine' /\ mine' # 0 /\ pc' = "wait"
      BY <2>3, FirmwareTyped DEF RunTo
    <3>2. Len(queue') = 0 /\ accepted' = 0 /\ count' = 0 /\ wpc' = "idle" /\ ~done' /\ fwNo' = 0
      BY <2>1, <2>2, <2>3 DEF FirmwareAccepts
    <3>3. Batch'
      BY <3>2 DEF Batch
    <3>a. Passed' = 0
      BY <3>2 DEF Passed, Handled
    <3>4. Capturing' /\ Listing'
      BY <2>1, <2>2, <3>1, <3>2, <3>3, <3>a, ScanConstants DEF Capturing, Reporting, Listing
    <3> QED BY <2>1, <2>2, <3>1, <3>4 DEF CleanInv, InPending
  <2>4. CASE active' = FALSE /\ RunTo("cancel") /\ UNCHANGED <<fwVars, mine>>
    BY <2>1, <2>2, <2>4 DEF RunTo, fwVars, CleanInv, InPending, Fresh, QuietInv
  <2> QED BY <1>5, <2>3, <2>4 DEF IoctlScan
<1> QED BY <1>2, <1>3, <1>4, <1>5

LEMMA WaitClean ==
  ASSUME ScanInv, WaitDone \/ WaitTimeout
  PROVE  CleanInv'
<1> USE DEF ScanInv
<1>1. SUFFICES ASSUME clean' PROVE CleanInv'
  BY DEF CleanInv
<1>2. /\ pc = "wait" /\ pc' \in {"copy", "cancel"}
      /\ UNCHANGED <<nativeVars, done, count, results, fwVars, workVars, callVars>>
  BY DEF WaitDone, WaitTimeout, RunTo
<1>3. Capturing /\ Listing /\ ~okay /\ fed = <<>> /\ ~lost
  BY <1>1, <1>2 DEF CleanInv, callVars
<1>4. UNCHANGED <<native, accepted, queue, overflow, fw, fwNo, wpc, wev, wslot, mine, lost, fed, okay>>
  BY <1>2 DEF nativeVars, fwVars, workVars, callVars
<1>5. Capturing' /\ Listing' /\ (Ended' <=> Ended)
  <2>1. Batch' <=> Batch
    BY <1>4 DEF Batch, Handled, IsResult
  <2>2. Ended' <=> Ended
    BY <1>4 DEF Ended, QuietInv
  <2>3. Capturing'
    BY <1>3, <1>4, <2>1, <2>2 DEF Capturing, Reporting, Ending, IsResult
  <2>4. Listing'
    BY <1>2, <1>3, <1>4, <2>2 DEF Listing, Passed, Handled, Entry, Alone, Queued, IsResult
  <2> QED BY <2>2, <2>3, <2>4
<1>6. CASE pc' = "cancel"
  BY <1>3, <1>4, <1>5, <1>6 DEF CleanInv, InPending
<1>7. CASE pc' = "copy"
  <2>1. done /\ copyLen' = count /\ count' = count
    BY <1>7 DEF WaitDone, WaitTimeout, RunTo
  <2>2. Ended
    BY <1>3, <2>1 DEF Listing
  <2> QED BY <1>3, <1>4, <1>5, <1>7, <2>1, <2>2 DEF CleanInv, InPending
<1> QED BY <1>2, <1>6, <1>7

LEMMA CopyClean ==
  ASSUME ScanInv, CopyResults \/ FinishCapture
  PROVE  CleanInv'
<1> USE DEF ScanInv
<1>1. SUFFICES ASSUME clean' PROVE CleanInv'
  BY DEF CleanInv
<1>2. /\ pc \in {"copy", "finish"} /\ copyLen' = copyLen
      /\ UNCHANGED <<native, accepted, queue, overflow, fw, wpc, wev, mine, lost, fed, okay, clean>>
  BY DEF CopyResults, FinishCapture, RunTo, nativeVars, fwVars, workVars, callVars
<1>3. ~okay /\ Ended /\ mine # 0 /\ fed = <<>> /\ ~lost
  BY <1>1, <1>2 DEF CleanInv, Capturing
<1>4. CASE CopyResults
  <2>1. pc = "copy" /\ pc' = "finish" /\ output' = SubSeq(results, 1, copyLen)
    BY <1>4 DEF CopyResults, RunTo
  <2>2. Capturing /\ Listing /\ copyLen = count
    BY <1>1, <1>2, <2>1 DEF CleanInv
  <2>3. /\ copyLen \in 0 .. MAX_SCAN_RESULTS /\ MAX_SCAN_RESULTS \in Nat
        /\ results \in [1 .. MAX_SCAN_RESULTS -> Events \cup {NoEvent}]
    BY ScanConstants DEF TypeOK
  <2>4. results \in Seq(Events \cup {NoEvent}) /\ Len(results) = MAX_SCAN_RESULTS
    BY <2>3
  <2>5. Len(output') = count /\ \A i \in 1 .. count : output'[i] = results[i]
    BY <2>1, <2>2, <2>3, <2>4
  <2>6. ~overflow => Whole(queue, output, mine)'
    BY <1>2, <1>3, <2>2, <2>5, BatchIsWhole
  <2>7. Ended' /\ queue' = queue
    BY <1>2, <1>3 DEF Ended, QuietInv
  <2> QED BY <1>2, <1>3, <2>1, <2>6, <2>7 DEF CleanInv, InPending
<1>5. CASE FinishCapture
  <2>1. pc = "finish" /\ pc' = "pending" /\ output' = output
    BY <1>3, <1>5 DEF FinishCapture, RunTo, Ended, callVars
  <2>2. overflow \/ Whole(queue, output, mine)
    BY <1>1, <1>2, <2>1 DEF CleanInv
  <2>3. fed' \o queue' = queue /\ queue # <<>>
    BY <1>2, <1>3 DEF TypeOK, Ended
  <2>a. Whole(queue, output, mine) => Whole(fed' \o queue', output', mine')
    BY <1>2, <2>1, <2>3
  <2>4. (Reported \/ Whole(fed \o queue, output, mine))'
    BY <1>2, <2>1, <2>2, <2>3, <2>a DEF Reported
  <2>5. Over'
    BY <1>2, <1>3 DEF Over, Ended, QuietInv
  <2> QED BY <1>2, <1>3, <2>1, <2>4, <2>5 DEF CleanInv, InPending
<1> QED BY <1>4, <1>5

(* Feeding hostap moves events from the queue, in order.                   *)
LEMMA FeedClean ==
  ASSUME ScanInv, FinishLoop \/ DrainTake \/ PollFails
  PROVE  CleanInv'
<1> USE DEF ScanInv
<1>1. SUFFICES ASSUME clean' PROVE CleanInv'
  BY DEF CleanInv
<1>2. /\ UNCHANGED <<fw, wpc, wev, mine, lost, output, clean>> /\ queue \in Seq(Events)
      /\ fed \in Seq(Events) /\ pc \in {"pending", "drain"}
  BY DEF FinishLoop, DrainTake, PollFails, fwVars, workVars, TypeOK
<1>3. Over /\ ~lost
  BY <1>1, <1>2 DEF CleanInv, InPending
<1>4. Over' /\ ~lost'
  BY <1>2, <1>3 DEF Over
<1>5. CASE FinishLoop
  <2>1. /\ pc = "pending" /\ mine # 0 /\ ~okay /\ (Reported \/ Whole(fed \o queue, output, mine))
        /\ queue' = queue /\ fed' = fed
    BY <1>1, <1>2, <1>5 DEF FinishLoop, CleanInv, InPending
  <2>2. CASE ~HasPending /\ okay' = TRUE /\ RunTo("idle")
    <3>1. fed \o queue = fed /\ queue = <<>>
      BY <1>2, <2>2 DEF HasPending
    <3>2. Whole(fed', output', mine')
      BY <1>2, <2>1, <3>1 DEF Reported
    <3> QED BY <1>4, <2>2, <3>2 DEF RunTo, CleanInv, InPending
  <2>3. CASE RunTo("idle") /\ UNCHANGED okay
    BY <1>4, <2>1, <2>3 DEF RunTo, CleanInv, InPending
  <2>4. CASE ~overflow /\ pc' = "drain" /\ then' = "pending" /\ UNCHANGED okay
    <3>1. Whole(fed' \o queue', output', mine')
      BY <1>2, <2>1, <2>4 DEF Reported
    <3> QED BY <1>2, <1>4, <2>1, <2>4, <3>1 DEF CleanInv, InPending
  <2> QED BY <1>5, <2>2, <2>3, <2>4 DEF FinishLoop
<1>6. CASE DrainTake
  <2>1. /\ pc = "drain" /\ queue # <<>> /\ queue' = Tail(queue) /\ then' = then /\ okay' = okay
    BY <1>6 DEF DrainTake, Takeable
  <2>2. then \in {"idle", "pending"}
    BY DEF TypeOK
  <2>3. CASE then = "pending"
    <3>1. mine # 0 /\ ~okay /\ Whole(fed \o queue, output, mine)
      BY <1>1, <1>2, <2>1, <2>3 DEF CleanInv, InPending, Reported
    <3>2. CASE fed' = Append(fed, Head(queue)) /\ pc' = pc
      <4>1. fed' \o queue' = fed \o queue
        BY <1>2, <2>1, <3>2
      <4>2. Whole(fed' \o queue', output', mine')
        BY <1>2, <3>1, <4>1
      <4> QED BY <1>2, <1>4, <2>1, <2>3, <3>1, <3>2, <4>2 DEF CleanInv, InPending
    <3>3. CASE pc' = "idle"
      BY <1>4, <2>1, <3>1, <3>3 DEF CleanInv, InPending
    <3> QED BY <1>6, <2>3, <3>2, <3>3 DEF DrainTake
  <2>4. CASE then = "idle"
    <3>1. okay => Whole(fed, output, mine)
      BY <1>1, <1>2, <2>1, <2>4 DEF CleanInv, InPending
    <3>2. fed' = fed /\ pc' \in {"drain", "idle"}
      BY <1>6, <2>1, <2>4 DEF DrainTake
    <3>3. okay' => Whole(fed', output', mine')
      BY <1>2, <2>1, <3>1, <3>2
    <3> QED BY <1>4, <2>1, <2>4, <3>2, <3>3 DEF CleanInv, InPending
  <2> QED BY <2>2, <2>3, <2>4
<1>7. CASE PollFails
  <2>1. pc = "drain" /\ pc' = "idle" /\ then' = then /\ UNCHANGED <<queue, fed, okay>>
    BY <1>7 DEF PollFails, RunTo, nativeVars
  <2>2. okay => Whole(fed, output, mine)
    BY <1>1, <1>2, <2>1 DEF CleanInv, InPending
  <2>3. okay' => Whole(fed', output', mine')
    BY <1>2, <2>1, <2>2
  <2> QED BY <1>4, <2>1, <2>3 DEF CleanInv, InPending
<1> QED BY <1>5, <1>6, <1>7

(* A scan that hostap starts from a poll is another firmware scan.         *)
LEMMA HookClean ==
  ASSUME ScanInv, IdlePoll \/ DrainEnd \/ HookTransaction \/ HookIoctl
  PROVE  CleanInv'
<1> USE DEF ScanInv
<1>1. SUFFICES ASSUME clean' PROVE CleanInv'
  BY DEF CleanInv
<1>2. /\ pc \in {"idle", "drain", "hookTxn", "hookIoctl"}
      /\ pc' \in {"idle", "pending", "drain", "hookTxn", "hookIoctl"}
      /\ UNCHANGED <<queue, wpc, wev, mine, lost, fed, output, okay, clean>>
  BY DEF IdlePoll, DrainEnd, HookTransaction, HookIoctl, RunTo, workVars, callVars, TypeOK
<1>3. Over /\ ~lost
  BY <1>1, <1>2 DEF CleanInv, InPending
<1>4. fw' = fw \/ fw' = scans + 1
  BY FirmwareTyped DEF IdlePoll, DrainEnd, HookTransaction, HookIoctl, fwVars
<1>5. Over'
  <2>1. mine <= scans /\ mine \in Nat /\ scans \in Nat
    BY DEF RunnerInv, TypeOK
  <2>2. mine # 0 => fw' # mine
    BY <1>3, <1>4, <2>1 DEF Over
  <2> QED BY <1>2, <1>3, <2>2 DEF Over
<1>6. InPending' <=> InPending
  BY DEF IdlePoll, DrainEnd, HookTransaction, HookIoctl, RunTo, InPending, TypeOK
<1>7. Whole(fed' \o queue', output', mine') <=> Whole(fed \o queue, output, mine)
  BY <1>2
<1>8. Whole(fed', output', mine') <=> Whole(fed, output, mine)
  BY <1>2
<1>a. InPending => ~Reported
  BY <1>2 DEF InPending, Reported
<1>9. CASE InPending
  BY <1>1, <1>2, <1>a, <1>3, <1>5, <1>6, <1>7, <1>9 DEF CleanInv
<1>10. CASE ~InPending
  BY <1>1, <1>2, <1>3, <1>5, <1>6, <1>8, <1>10 DEF CleanInv
<1> QED BY <1>9, <1>10

LEMMA PollSteps ==
  ASSUME ScanInv, RunnerStep
  PROVE  ScanInv'
<1>1. CancelCapture \/ DiscardPending => ~clean'
  BY DEF CancelCapture, DiscardPending, ScanInv, CleanInv, callVars
<1>2. CASE CancelCapture \/ DiscardPending
  BY <1>1, <1>2, PollTyped DEF ScanInv, CleanInv
<1>3. CASE ~(CancelCapture \/ DiscardPending)
  <2>1. CleanInv'
    BY <1>3, StartClean, WaitClean, CopyClean, FeedClean, HookClean DEF RunnerStep, Scan
  <2> QED BY <2>1, PollTyped DEF ScanInv
<1> QED BY <1>2, <1>3

LEMMA ScanSteps ==
  ASSUME ScanInv, [Next]_vars
  PROVE  ScanInv'
<1>1. CASE UNCHANGED vars
  <2>1. TypeOK'
    BY <1>1 DEF ScanInv, TypeOK, vars, nativeVars, stateVars, fwVars, workVars, runVars, callVars
  <2>2. CallbackInv' /\ RunnerInv'
    BY <1>1 DEF ScanInv, CallbackInv, RunnerInv, IsResult, vars, nativeVars, stateVars, fwVars,
      workVars, runVars, callVars
  <2>3. CleanInv'
    BY <1>1 DEF ScanInv, CleanInv, Fresh, QuietInv, Capturing, Batch, Reporting, Ending, Ended,
      Handled, Passed, Listing, Entry, Alone, Queued, InPending, Over, Reported, IsResult, vars, nativeVars, stateVars, fwVars,
      workVars, runVars, callVars
  <2> QED BY <2>1, <2>2, <2>3 DEF ScanInv
<1>2. CASE Next
  BY <1>2, WorkerSound, PollSteps DEF Next, Emit, RunnerStep
<1> QED BY <1>1, <1>2

LEMMA ScanInvSound == ScanInv => ScanSound
<1> SUFFICES ASSUME ScanInv PROVE ScanSound
  OBVIOUS
<1> USE DEF ScanInv
<1>1. OneTransaction
  BY DEF OneTransaction, CleanInv, InPending, TypeOK, RunSteps
<1>2. BatchLossless /\ FinishFindsDone
  BY DEF BatchLossless, FinishFindsDone, CleanInv, Ended
<1>3. CopyStable
  <2> SUFFICES ASSUME pc = "copy", clean
               PROVE  wpc # "store" /\ \A i \in 1 .. copyLen : results[i].scan = mine
    BY DEF CopyStable
  <2>1. wpc = "idle" /\ Listing /\ copyLen = count
    BY DEF CleanInv, Ended, QuietInv
  <2> QED BY <2>1 DEF Listing, Entry
<1> QED BY <1>1, <1>2, <1>3 DEF ScanSound

(* Ws63Backend::scan over Wifi::scan (hisi_rf_backend.rs, wifi.rs) and     *)
(* scan_event: whatever the vendor worker, the firmware and the runner     *)
(* interleave, a scan that returns Ok fed hostap its own results in order, *)
(* then its scan-done, and listed the same ones but for those that were    *)
(* unreadable or came after a full list; no event misses room in the       *)
(* queue, and the results are copied when nobody writes them; unless the   *)
(* scan was given up or something of an earlier one was left.              *)
THEOREM ScansSound == Spec => []ScanSound
<1>1. Init => ScanInv
  BY ScanInit
<1>2. ScanInv /\ [Next]_vars => ScanInv'
  BY ScanSteps
<1>3. ScanInv => ScanSound
  BY ScanInvSound
<1> QED BY <1>1, <1>2, <1>3, PTL DEF Spec

-----------------------------------------------------------------------------
(* The polls.                                                              *)
(* The counters are the numbers of drops, wrapped.                         *)
DropInv ==
  \A q \in Queues :
    /\ reported[q] <= drops[q] /\ drops[q] <= events
    /\ dropped[q] = drops[q] % CounterMod
    /\ seen[q] = reported[q] % CounterMod

(* What was fed and what is left of the budget add up.                     *)
BudgetInv ==
  /\ stage = "check" => work = 0
  /\ stage \in {"drain", "swap", "eapol", "shim"} => work + rx_budget = RxGrant
  /\ completed <= Budget

RoomInv == \A q \in Queues : publishing[q] => queued[q] < Depth

PollInv == RPTypeOK /\ RoomInv /\ DropInv /\ BudgetInv /\ EapolCovered

LEMMA ModUnique ==
  ASSUME NEW m \in Nat \ {0}, NEW q \in Int, NEW r \in 0 .. m - 1,
         NEW n \in Int, n = m * q + r
  PROVE  n % m = r
  BY SMT

LEMMA ModParts ==
  ASSUME NEW m \in Nat \ {0}, NEW n \in Int
  PROVE  /\ n \div m \in Int /\ n % m \in 0 .. m - 1
         /\ n = m * (n \div m) + (n % m)
  BY SMT

(* A difference modulo m depends only on the remainders.                   *)
LEMMA ModDiff ==
  ASSUME NEW m \in Nat \ {0}, NEW a \in Nat, NEW b \in Nat
  PROVE  ((a % m) - (b % m)) % m = (a - b) % m
<1> DEFINE qa == a \div m   ra == a % m
           qb == b \div m   rb == b % m
           d == ra - rb
           qd == d \div m   rd == d % m
<1>1. qa \in Int /\ ra \in Int /\ a = m * qa + ra
  BY ModParts
<1>2. qb \in Int /\ rb \in Int /\ b = m * qb + rb
  BY ModParts
<1>3. d \in Int /\ qd \in Int /\ rd \in 0 .. m - 1 /\ d = m * qd + rd
  <2>1. d \in Int
    BY <1>1, <1>2
  <2> QED BY <2>1, ModParts
<1>4. a - b = m * (qa - qb + qd) + rd /\ qa - qb + qd \in Int /\ a - b \in Int
  <2> HIDE DEF qa, ra, qb, rb, qd, rd
  <2>1. d = ra - rb
    OBVIOUS
  <2> HIDE DEF d
  <2> QED BY <1>1, <1>2, <1>3, <2>1, SMT
<1>5. (a - b) % m = rd
  <2> DEFINE e == a - b
             qe == qa - qb + qd
  <2>1. e \in Int /\ qe \in Int /\ rd \in 0 .. m - 1 /\ e = m * qe + rd
    BY <1>3, <1>4
  <2> HIDE DEF qa, ra, qb, rb, qd, rd, d, e, qe
  <2>2. e % m = rd
    BY <2>1, ModUnique
  <2> QED BY <2>2 DEF e
<1> QED BY <1>5

LEMMA ModNext ==
  ASSUME NEW m \in Nat \ {0, 1}, NEW n \in Nat
  PROVE  ((n % m) + 1) % m = (n + 1) % m
<1> DEFINE q == n \div m   r == n % m
           p == (r + 1) \div m   s == (r + 1) % m
<1>1. q \in Int /\ r \in 0 .. m - 1 /\ n = m * q + r
  BY ModParts
<1>2. p \in Int /\ s \in 0 .. m - 1 /\ r + 1 = m * p + s
  <2>1. r + 1 \in Int
    BY <1>1
  <2> QED BY <2>1, ModParts
<1> HIDE DEF q, r, p, s
<1>3. n + 1 = m * (q + p) + s /\ q + p \in Int
  BY <1>1, <1>2, SMT
<1> DEFINE n1 == n + 1
           q1 == q + p
<1>4. n1 % m = s
  <2>1. n1 \in Int /\ q1 \in Int /\ n1 = m * q1 + s
    BY <1>3
  <2> HIDE DEF n1, q1
  <2> QED BY <2>1, <1>2, ModUnique
<1> QED BY <1>4 DEF r, s

(* Reporting the difference catches up with the counter.                   *)
LEMMA CatchUp ==
  ASSUME NEW m \in Nat \ {0}, NEW a \in Nat, NEW b \in Nat, b <= a
  PROVE  /\ ((a % m) - (b % m)) % m \in Nat
         /\ b + (((a % m) - (b % m)) % m) <= a
         /\ (b + (((a % m) - (b % m)) % m)) % m = a % m
<1> DEFINE d == ((a % m) - (b % m)) % m
           n == a - b
           q == n \div m
           qa == a \div m   ra == a % m
<1>1. d = n % m
  <2>1. ((a % m) - (b % m)) % m = (a - b) % m
    BY ModDiff, Zenon
  <2> QED BY <2>1
<1>2. q \in Int /\ d \in 0 .. m - 1 /\ n = m * q + d
  BY <1>1, ModParts
<1>3. qa \in Int /\ ra \in 0 .. m - 1 /\ a = m * qa + ra
  BY ModParts
<1>4. n \in Nat /\ a = b + n
  OBVIOUS
<1> HIDE DEF d, n, q, qa, ra
<1>5. d <= n
  <2>1. q >= 0
    BY <1>2, <1>4, SMT
  <2> QED BY <2>1, <1>2, <1>4, SMT
<1>6. b + d = m * (qa - q) + ra /\ qa - q \in Int /\ b + d \in Int
  BY <1>2, <1>3, <1>4, SMT
<1>7. (b + d) % m = ra
  BY <1>3, <1>6, ModUnique
<1> QED BY <1>2, <1>4, <1>5, <1>7 DEF d, ra

LEMMA ModSmall ==
  ASSUME NEW m \in Nat \ {0}, NEW a \in Nat, NEW b \in Nat, b <= a, a - b < m
  PROVE  ((a % m) - (b % m)) % m = a - b
<1>1. (a - b) % m = a - b
  <2>1. a - b = m * 0 + (a - b) /\ a - b \in 0 .. m - 1
    OBVIOUS
  <2> QED BY <2>1, ModUnique
<1>2. ((a % m) - (b % m)) % m = (a - b) % m
  BY ModDiff, Zenon
<1> QED BY <1>1, <1>2

-----------------------------------------------------------------------------
LEMMA PollInit == RPInit => PollInv
<1> SUFFICES ASSUME RPInit PROVE PollInv
  OBVIOUS
<1>1. 0 \in 0 .. CounterMod - 1 /\ 0 \in 0 .. Depth /\ 0 % CounterMod = 0
  <2>1. CounterMod \in Nat /\ CounterMod > 1 /\ Depth \in Nat
    BY PollAssumption
  <2> QED BY <2>1
<1>2. /\ 0 \in 0 .. MaxFrames /\ 0 \in 0 .. Window /\ 0 \in 0 .. Budget
      /\ 0 \in 0 .. MaxPollFailures /\ 0 \in 0 .. MaxEvents
  BY PollAssumption
<1> DEFINE F == [q \in Queues |-> FALSE]
<1>3. /\ None \in [Queues -> 0 .. Depth] /\ None \in [Queues -> 0 .. CounterMod - 1]
      /\ None \in [Queues -> 0 .. MaxEvents] /\ F \in [Queues -> BOOLEAN]
  BY <1>1, <1>2 DEF None
<1>a. RPTypeOK
  <2> HIDE DEF F
  <2>1. publishing = F
    BY DEF F, RPInit
  <2>2. 0 \in Nat /\ 1 \in 1 .. 4 /\ FALSE \in BOOLEAN /\ "idle" \in Stages
    BY DEF Stages
  <2> QED BY <1>2, <1>3, <2>1, <2>2, Zenon DEF RPInit, RPTypeOK
<1>4. RoomInv /\ DropInv
  BY <1>1 DEF RPInit, RoomInv, DropInv, None
<1>5. BudgetInv /\ EapolCovered
  BY PollAssumption DEF RPInit, BudgetInv, EapolCovered
<1> QED BY <1>a, <1>4, <1>5 DEF PollInv

(* A producer writes one slot or counts one drop.                          *)
LEMMA ClaimSound ==
  ASSUME PollInv, NEW q \in Queues, Claim(q)
  PROVE  PollInv'
<1> USE DEF PollInv, Claim
<1>1. CounterMod \in Nat \ {0, 1} /\ Depth \in Nat /\ MaxEvents \in Nat
  BY PollAssumption
<1>2. BudgetInv' /\ EapolCovered'
  BY DEF BudgetInv, EapolCovered, RxGrant, driverVars, runnerVars
<1>3. CASE queued[q] < Depth /\ publishing' = [publishing EXCEPT ![q] = TRUE]
           /\ UNCHANGED <<dropped, drops>>
  <2>1. RPTypeOK'
    BY <1>1, <1>3 DEF RPTypeOK, driverVars, runnerVars
  <2>2. RoomInv'
    BY <1>1, <1>3 DEF RPTypeOK, RoomInv
  <2>3. DropInv'
    <3>1. \A p \in Queues : drops[p] \in Nat /\ events \in Nat /\ reported[p] \in Nat
      BY DEF RPTypeOK
    <3>2. /\ drops' = drops /\ dropped' = dropped /\ events' = events + 1
          /\ seen' = seen /\ reported' = reported
      BY <1>3 DEF runnerVars
    <3> QED BY <3>1, <3>2 DEF DropInv
  <2> QED BY <1>2, <2>1, <2>2, <2>3
<1>4. CASE /\ dropped' = [dropped EXCEPT ![q] = DropCount(@)]
           /\ drops' = [drops EXCEPT ![q] = @ + 1]
           /\ UNCHANGED publishing
  <2>1. dropped[q] = drops[q] % CounterMod /\ drops[q] \in Nat /\ drops[q] <= events
    BY DEF DropInv, RPTypeOK
  <2>2. DropCount(dropped[q]) = (drops[q] + 1) % CounterMod
    BY <1>1, <2>1, ModNext DEF DropCount
  <2>3. (drops[q] + 1) % CounterMod \in 0 .. CounterMod - 1
    <3> DEFINE n == drops[q] + 1
    <3>1. n \in Int /\ CounterMod \in Nat \ {0}
      BY <1>1, <2>1
    <3> HIDE DEF n
    <3>2. n % CounterMod \in 0 .. CounterMod - 1
      BY <3>1, ModParts, Zenon
    <3> QED BY <3>2 DEF n
  <2>4. RPTypeOK'
    BY <1>1, <1>4, <2>1, <2>2, <2>3 DEF RPTypeOK, driverVars, runnerVars
  <2>5. RoomInv'
    BY <1>4 DEF RoomInv
  <2>6. ASSUME NEW p \in Queues
        PROVE  /\ reported'[p] <= drops'[p] /\ drops'[p] <= events'
               /\ dropped'[p] = drops'[p] % CounterMod
               /\ seen'[p] = reported'[p] % CounterMod
    <3>1. reported' = reported /\ seen' = seen /\ events' = events + 1 /\ events \in Nat
      BY DEF runnerVars, RPTypeOK
    <3>2. /\ reported[p] <= drops[p] /\ drops[p] <= events
          /\ dropped[p] = drops[p] % CounterMod /\ seen[p] = reported[p] % CounterMod
          /\ reported[p] \in Nat /\ drops[p] \in Nat
      BY DEF DropInv, RPTypeOK
    <3>3. CASE p = q
      <4>1. drops'[p] = drops[q] + 1 /\ dropped'[p] = DropCount(dropped[q])
        BY <1>4, <3>3 DEF RPTypeOK
      <4>2. reported'[p] <= drops'[p] /\ drops'[p] <= events'
        BY <3>1, <3>2, <3>3, <4>1
      <4> QED BY <2>2, <3>1, <3>2, <4>1, <4>2
    <3>4. CASE p # q
      <4>1. drops'[p] = drops[p] /\ dropped'[p] = dropped[p]
        BY <1>4, <3>4 DEF RPTypeOK
      <4> QED BY <3>1, <3>2, <4>1
    <3> QED BY <3>3, <3>4
  <2>7. DropInv'
    BY <2>6 DEF DropInv
  <2> QED BY <1>2, <2>4, <2>5, <2>7
<1> QED BY <1>3, <1>4

LEMMA PublishSound ==
  ASSUME PollInv, NEW q \in Queues, Publish(q)
  PROVE  PollInv'
<1> USE DEF PollInv, Publish
<1>1. CounterMod \in Nat \ {0, 1} /\ Depth \in Nat /\ MaxEvents \in Nat
  BY PollAssumption
<1>2. BudgetInv' /\ EapolCovered'
  BY DEF BudgetInv, EapolCovered, RxGrant, driverVars, runnerVars
<1>3. queued[q] \in 0 .. Depth /\ queued[q] < Depth
  BY DEF RPTypeOK, RoomInv
<1>4. RPTypeOK'
  BY <1>1, <1>3 DEF RPTypeOK, driverVars, runnerVars
<1>5. RoomInv'
  BY <1>1 DEF RoomInv, RPTypeOK
<1>6. DropInv'
  BY DEF DropInv, runnerVars
<1> QED BY <1>2, <1>4, <1>5, <1>6

LEMMA DriverSound ==
  ASSUME PollInv, EapolArrives \/ eapol_notify
  PROVE  PollInv'
<1> USE DEF PollInv, EapolArrives, eapol_notify
<1>1. UNCHANGED <<queueVars, runnerVars>>
  OBVIOUS
<1>2. BudgetInv' /\ RoomInv' /\ DropInv'
  BY <1>1 DEF BudgetInv, RoomInv, DropInv, RxGrant, queueVars, runnerVars
<1>3. frames' \in 0 .. MaxFrames /\ unannounced' \in 0 .. MaxFrames /\ pending' \in BOOLEAN
  <2>1. /\ frames \in 0 .. MaxFrames /\ unannounced \in 0 .. MaxFrames
        /\ MaxFrames \in Nat /\ pending \in BOOLEAN
    BY PollAssumption DEF RPTypeOK
  <2>2. CASE EapolArrives
    BY <2>1, <2>2
  <2>3. CASE eapol_notify
    BY <2>1, <2>3
  <2> QED BY <2>2, <2>3
<1>4. RPTypeOK'
  BY <1>1, <1>3 DEF RPTypeOK, queueVars, runnerVars
<1>5. EapolCovered'
  BY <1>1 DEF EapolCovered, RPTypeOK, runnerVars
<1> QED BY <1>2, <1>4, <1>5

-----------------------------------------------------------------------------
(* The runner's steps.                                                     *)
LEMMA BeginSound == PollInv /\ PollBegin => PollInv'
<1> SUFFICES ASSUME PollInv, PollBegin PROVE PollInv'
  OBVIOUS
<1> USE DEF PollInv, PollBegin
<1>1. RoomInv' /\ DropInv' /\ EapolCovered'
  BY DEF RoomInv, DropInv, EapolCovered, queueVars, driverVars
<1>2. BudgetInv'
  BY PollAssumption DEF BudgetInv
<1>3. RPTypeOK'
  BY PollAssumption DEF RPTypeOK, Stages, queueVars, driverVars
<1> QED BY <1>1, <1>2, <1>3

(* The report covers every drop up to the value that was read.             *)
LEMMA CheckSound == PollInv /\ CheckOverflow => PollInv'
<1> SUFFICES ASSUME PollInv, CheckOverflow PROVE PollInv'
  OBVIOUS
<1> DEFINE q == CheckOrder[at]
<1>1. CounterMod \in Nat \ {0, 1} /\ Budget \in Nat \ {0} /\ MaxEvents \in Nat
  BY PollAssumption
<1>2. q \in Queues /\ at \in 1 .. 4
  BY DEF PollInv, RPTypeOK, CheckOrder, Queues
<1>3. RoomInv' /\ EapolCovered'
  BY DEF PollInv, CheckOverflow, RoomInv, EapolCovered, queueVars, driverVars
<1>4. CASE /\ dropped[q] # seen[q]
           /\ seen' = [seen EXCEPT ![q] = dropped[q]]
           /\ reported' = [reported EXCEPT ![q] = @ + OverflowDelta(q)]
           /\ stage' = "idle"
           /\ UNCHANGED <<at, rx_budget>>
  <2>1. /\ dropped[q] = drops[q] % CounterMod /\ seen[q] = reported[q] % CounterMod
        /\ reported[q] \in Nat /\ drops[q] \in Nat /\ reported[q] <= drops[q]
        /\ drops[q] <= MaxEvents
    BY <1>2 DEF PollInv, RPTypeOK, DropInv
  <2>2. /\ OverflowDelta(q) \in Nat
        /\ reported[q] + OverflowDelta(q) <= drops[q]
        /\ (reported[q] + OverflowDelta(q)) % CounterMod = dropped[q]
    <3>1. CounterMod \in Nat \ {0}
      BY <1>1
    <3> HIDE DEF q
    <3>2. /\ ((drops[q] % CounterMod) - (reported[q] % CounterMod)) % CounterMod \in Nat
          /\ reported[q] + (((drops[q] % CounterMod) - (reported[q] % CounterMod)) % CounterMod)
               <= drops[q]
          /\ (reported[q] + (((drops[q] % CounterMod) - (reported[q] % CounterMod)) % CounterMod))
               % CounterMod = drops[q] % CounterMod
      BY <2>1, <3>1, CatchUp, Zenon
    <3>3. OverflowDelta(q)
            = ((drops[q] % CounterMod) - (reported[q] % CounterMod)) % CounterMod
      BY <2>1, Zenon DEF OverflowDelta
    <3> QED BY <2>1, <3>2, <3>3, Zenon
  <2>3. reported[q] + OverflowDelta(q) \in 0 .. MaxEvents
    BY <1>1, <2>1, <2>2
  <2> HIDE DEF q
  <2>4. RPTypeOK'
    BY <1>2, <1>4, <2>3 DEF PollInv, CheckOverflow, RPTypeOK, Stages, queueVars, driverVars
  <2>5. DropInv'
    BY <1>2, <1>4, <2>2 DEF PollInv, CheckOverflow, RPTypeOK, DropInv, queueVars
  <2>6. BudgetInv'
    BY <1>4 DEF PollInv, CheckOverflow, BudgetInv
  <2> QED BY <1>3, <2>4, <2>5, <2>6 DEF PollInv
<1>5. CASE /\ IF at = 4
              THEN stage' = "drain" /\ at' = 1 /\ rx_budget' = RxGrant
              ELSE at' = at + 1 /\ UNCHANGED <<stage, rx_budget>>
           /\ UNCHANGED <<seen, reported>>
  <2>1. at' \in 1 .. 4 /\ RxGrant \in 0 .. Budget
    BY <1>1, <1>2, <1>5 DEF RxGrant
  <2>2. RPTypeOK'
    BY <1>5, <2>1 DEF PollInv, CheckOverflow, RPTypeOK, Stages, queueVars, driverVars
  <2>3. DropInv'
    BY <1>5 DEF PollInv, CheckOverflow, DropInv, queueVars
  <2>4. BudgetInv'
    BY <1>1, <1>5 DEF PollInv, CheckOverflow, BudgetInv, RxGrant
  <2> QED BY <1>3, <2>2, <2>3, <2>4 DEF PollInv
<1> QED BY <1>4, <1>5 DEF CheckOverflow

LEMMA FailsTyped ==
  ASSUME RPTypeOK, Fails
  PROVE  pollFailures' \in 0 .. MaxPollFailures /\ pollFailures' # 0 /\ stage' = "idle"
BY PollAssumption DEF Fails, RPTypeOK

LEMMA DrainSound == PollInv /\ (DrainEvent \/ DrainNext) => PollInv'
<1> SUFFICES ASSUME PollInv, DrainEvent \/ DrainNext PROVE PollInv'
  OBVIOUS
<1> DEFINE q == DrainOrder[at]
<1>1. q \in Queues /\ at \in 1 .. 4
  BY DEF PollInv, RPTypeOK, DrainOrder, Queues
<1>2. Budget \in Nat \ {0} /\ Window \in Nat /\ Depth \in Nat
  BY PollAssumption
<1>3. CASE DrainEvent
  <2> HIDE DEF q
  <2> DEFINE taken == /\ queued' = [queued EXCEPT ![q] = @ - 1] /\ Yields(q)
                      /\ UNCHANGED <<publishing, dropped, drops, events, driverVars, pending,
                                     seen, at, reported, completed, forgotten>>
             served == /\ rx_budget' = rx_budget - 1
                       /\ work' = work + 1
                       /\ UNCHANGED fallback_polls \/ fallback_polls' = Window
                       /\ UNCHANGED <<pollFailures, stage>>
  <2>1. /\ taken /\ stage = "drain" /\ rx_budget # 0
        /\ (Fails /\ UNCHANGED <<rx_budget, work, fallback_polls>>) \/ served
    BY <1>3 DEF DrainEvent, q
  <2>2. queued'[q] \in 0 .. Depth /\ queued' = [queued EXCEPT ![q] = queued'[q]]
    BY <1>1, <1>2, <2>1 DEF PollInv, RPTypeOK, Yields
  <2>3. RoomInv'
    BY <1>1, <2>1 DEF PollInv, RoomInv, RPTypeOK, Yields
  <2>4. DropInv'
    BY <2>1 DEF PollInv, DropInv
  <2>5. CASE Fails /\ UNCHANGED <<rx_budget, work, fallback_polls>>
    <3>1. RPTypeOK'
      BY <1>1, <2>1, <2>2, <2>5, FailsTyped DEF PollInv, RPTypeOK, Stages, driverVars
    <3>2. BudgetInv' /\ EapolCovered'
      BY <2>1, <2>5, FailsTyped DEF PollInv, RPTypeOK, BudgetInv, EapolCovered, driverVars
    <3> QED BY <2>3, <2>4, <3>1, <3>2 DEF PollInv
  <2>6. CASE served
    <3>1. rx_budget' \in 0 .. Budget /\ work' \in Nat /\ fallback_polls' \in 0 .. Window
      BY <1>2, <2>1, <2>6 DEF PollInv, RPTypeOK
    <3>2. RPTypeOK'
      BY <1>1, <2>1, <2>2, <2>6, <3>1 DEF PollInv, RPTypeOK, driverVars
    <3>3. BudgetInv'
      BY <1>2, <2>1, <2>6 DEF PollInv, RPTypeOK, BudgetInv, RxGrant
    <3>4. EapolCovered'
      BY <2>1, <2>6 DEF PollInv, EapolCovered, driverVars
    <3> QED BY <2>3, <2>4, <3>2, <3>3, <3>4 DEF PollInv
  <2> QED BY <2>1, <2>5, <2>6
<1>4. CASE DrainNext
  <2>1. at' \in 1 .. 4 /\ stage' \in {"drain", "swap"} /\ stage = "drain"
    BY <1>1, <1>4 DEF DrainNext
  <2>2. RPTypeOK'
    BY <1>4, <2>1 DEF PollInv, DrainNext, RPTypeOK, Stages, queueVars, driverVars
  <2>3. RoomInv' /\ DropInv'
    BY <1>4 DEF PollInv, DrainNext, RoomInv, DropInv, queueVars
  <2>4. BudgetInv' /\ EapolCovered'
    BY <1>4, <2>1 DEF PollInv, DrainNext, BudgetInv, EapolCovered, RxGrant, queueVars, driverVars
  <2> QED BY <2>2, <2>3, <2>4 DEF PollInv
<1> QED BY <1>3, <1>4

(* The notification that the swap discards is remembered as forgotten.     *)
LEMMA SwapSound == PollInv /\ SwapPending => PollInv'
<1> SUFFICES ASSUME PollInv, SwapPending PROVE PollInv'
  OBVIOUS
<1>1. RoomInv' /\ DropInv'
  BY DEF PollInv, SwapPending, RoomInv, DropInv, queueVars
<1>2. /\ stage = "swap" /\ pending' = FALSE /\ stage' \in {"eapol", "shim"}
      /\ stage' = "eapol" \/ forgotten' = (forgotten \/ pending)
      /\ stage' = "eapol" => UNCHANGED forgotten
      /\ UNCHANGED <<queueVars, driverVars, seen, at, rx_budget, pollFailures, reported,
                     work, completed>>
  BY DEF SwapPending
<1>3. fallback_polls' \in 0 .. Window
  <2>1. fallback_polls \in 0 .. Window /\ Window \in Nat
    BY PollAssumption DEF PollInv, RPTypeOK
  <2>2. \/ fallback_polls' = fallback_polls
        \/ fallback_polls # 0 /\ fallback_polls' = fallback_polls - 1
    BY DEF SwapPending
  <2> QED BY <2>1, <2>2
<1>4. pending \in BOOLEAN /\ forgotten' \in BOOLEAN
  BY <1>2 DEF PollInv, RPTypeOK
<1>5. RPTypeOK'
  BY <1>2, <1>3, <1>4 DEF PollInv, RPTypeOK, Stages, queueVars, driverVars
<1>6. BudgetInv'
  BY <1>2 DEF PollInv, BudgetInv, RxGrant
<1>7. EapolCovered'
  BY <1>2, <1>4 DEF PollInv, EapolCovered, driverVars
<1> QED BY <1>1, <1>5, <1>6, <1>7 DEF PollInv

LEMMA EapolSound == PollInv /\ (DrainEapol \/ DrainEapolEnd) => PollInv'
<1> SUFFICES ASSUME PollInv, DrainEapol \/ DrainEapolEnd PROVE PollInv'
  OBVIOUS
<1>1. Budget \in Nat \ {0} /\ MaxFrames \in Nat
  BY PollAssumption
<1>2. RoomInv' /\ DropInv'
  BY DEF PollInv, DrainEapol, DrainEapolEnd, RoomInv, DropInv, queueVars
<1>3. /\ rx_budget \in 0 .. Budget /\ work \in Nat /\ frames \in 0 .. MaxFrames
      /\ stage = "eapol" => work + rx_budget = RxGrant
  BY DEF PollInv, RPTypeOK, BudgetInv
<1>4. CASE DrainEapol
  <2>1. /\ stage = "eapol" /\ rx_budget # 0
        /\ UNCHANGED <<queueVars, unannounced, pending, seen, fallback_polls, at,
                       reported, completed>>
    BY <1>4 DEF DrainEapol
  <2>2. CASE /\ Fails /\ forgotten' = TRUE
             /\ \E missed \in {0, 1} : missed <= frames /\ frames' = frames - missed
             /\ UNCHANGED <<rx_budget, work>>
    <3>1. frames' \in 0 .. MaxFrames
      BY <1>1, <1>3, <2>2
    <3>2. RPTypeOK'
      BY <2>1, <2>2, <3>1, FailsTyped DEF PollInv, RPTypeOK, Stages, queueVars
    <3>3. BudgetInv' /\ EapolCovered'
      BY <2>1, <2>2, FailsTyped DEF PollInv, BudgetInv, EapolCovered
    <3> QED BY <1>2, <3>2, <3>3 DEF PollInv
  <2>3. CASE /\ frames > 0
             /\ frames' = frames - 1
             /\ rx_budget' = rx_budget - 1
             /\ work' = work + 1
             /\ UNCHANGED <<stage, pollFailures, forgotten>>
    <3>1. frames' \in 0 .. MaxFrames /\ rx_budget' \in 0 .. Budget /\ work' \in Nat
      BY <1>1, <1>3, <2>1, <2>3
    <3>2. RPTypeOK'
      BY <2>1, <2>3, <3>1 DEF PollInv, RPTypeOK, queueVars
    <3>3. BudgetInv'
      BY <1>1, <1>3, <2>1, <2>3 DEF PollInv, BudgetInv, RxGrant
    <3>4. EapolCovered'
      BY <2>1, <2>3 DEF EapolCovered
    <3> QED BY <1>2, <3>2, <3>3, <3>4 DEF PollInv
  <2> QED BY <1>4, <2>2, <2>3 DEF DrainEapol
<1>5. CASE DrainEapolEnd
  <2>1. /\ stage = "eapol" /\ stage' = "shim" /\ pending' = PendingAfterDrain
        /\ rx_budget = 0 \/ frames = 0
        /\ UNCHANGED <<queueVars, driverVars, seen, fallback_polls, at, rx_budget,
                       pollFailures, reported, work, completed, forgotten>>
    BY <1>5 DEF DrainEapolEnd
  <2>2. RPTypeOK'
    BY <2>1 DEF PollInv, RPTypeOK, Stages, PendingAfterDrain, queueVars, driverVars
  <2>3. BudgetInv'
    BY <1>3, <2>1 DEF PollInv, BudgetInv, RxGrant
  <2>4. EapolCovered'
    BY <1>3, <2>1 DEF EapolCovered, PendingAfterDrain, driverVars
  <2> QED BY <1>2, <2>2, <2>3, <2>4 DEF PollInv
<1> QED BY <1>4, <1>5

LEMMA ShimSound == PollInv /\ ShimPoll => PollInv'
<1> SUFFICES ASSUME PollInv, ShimPoll PROVE PollInv'
  OBVIOUS
<1>1. Budget \in Nat \ {0}
  BY PollAssumption
<1>2. /\ rx_budget \in 0 .. Budget /\ stage = "shim" /\ work \in Nat
      /\ work + rx_budget = RxGrant
  BY DEF PollInv, RPTypeOK, BudgetInv, ShimPoll
<1>3. /\ UNCHANGED <<queueVars, driverVars, pending, seen, fallback_polls, at,
                     rx_budget, reported, work, forgotten>>
      /\ stage' = "idle" /\ pollFailures' \in 0 .. MaxPollFailures
      /\ pollFailures' = pollFailures \/ pollFailures' # 0
  BY FailsTyped DEF PollInv, RPTypeOK, ShimPoll
<1>4. completed' \in Nat /\ completed' <= Budget
  <2> PICK ended \in 0 .. ShimBudget : completed' = ended + (RxGrant - rx_budget)
    BY DEF ShimPoll
  <2>1. ShimBudget \in Nat /\ ShimBudget + (RxGrant - rx_budget) <= Budget
    BY <1>1, <1>2 DEF ShimBudget, RxGrant
  <2>2. RxGrant - rx_budget \in Nat
    BY <1>1, <1>2 DEF RxGrant
  <2> QED BY <1>1, <2>1, <2>2
<1>5. RoomInv' /\ DropInv'
  BY <1>3 DEF PollInv, RoomInv, DropInv, queueVars
<1>6. RPTypeOK'
  BY <1>3, <1>4 DEF PollInv, RPTypeOK, Stages, queueVars, driverVars
<1>7. BudgetInv' /\ EapolCovered'
  BY <1>2, <1>3, <1>4 DEF PollInv, BudgetInv, EapolCovered, driverVars
<1> QED BY <1>5, <1>6, <1>7 DEF PollInv

-----------------------------------------------------------------------------
LEMMA PollNext == PollInv /\ [RPNext]_rpVars => PollInv'
<1> SUFFICES ASSUME PollInv, [RPNext]_rpVars PROVE PollInv'
  OBVIOUS
<1>1. CASE \E q \in Queues : Claim(q) \/ Publish(q)
  BY <1>1, ClaimSound, PublishSound
<1>2. CASE UNCHANGED rpVars
  BY <1>2 DEF PollInv, RPTypeOK, RoomInv, DropInv, BudgetInv, EapolCovered, RxGrant, rpVars,
    queueVars, driverVars, runnerVars
<1> QED
  BY <1>1, <1>2, DriverSound, BeginSound, CheckSound, DrainSound, SwapSound, EapolSound,
     ShimSound DEF RPNext, Poll

(* What the invariant says to the caller of poll.                          *)
LEMMA PollPromises == PollInv => PollSound
<1> SUFFICES ASSUME PollInv PROVE PollSound
  OBVIOUS
<1>1. CounterMod \in Nat \ {0} /\ Budget \in Nat \ {0}
  BY PollAssumption
<1>2. /\ rx_budget \in 0 .. Budget /\ stage \in Stages /\ work \in Nat
      /\ stage \in {"drain", "swap", "eapol", "shim"} => work + rx_budget = RxGrant
      /\ completed <= Budget
  BY DEF PollInv, RPTypeOK, BudgetInv
<1>3. WithinBudget
  BY <1>1, <1>2 DEF WithinBudget, ShimBudget, RxGrant, Stages
<1>4. ASSUME NEW q \in Queues, drops[q] - reported[q] < CounterMod
      PROVE  drops[q] = reported[q] + ((dropped[q] - seen[q]) % CounterMod)
  <2>1. /\ reported[q] \in Nat /\ drops[q] \in Nat /\ reported[q] <= drops[q]
        /\ dropped[q] = drops[q] % CounterMod /\ seen[q] = reported[q] % CounterMod
    BY DEF PollInv, RPTypeOK, DropInv
  <2>2. ((drops[q] % CounterMod) - (reported[q] % CounterMod)) % CounterMod
          = drops[q] - reported[q]
    BY <1>1, <1>4, <2>1, ModSmall, Zenon
  <2>3. (dropped[q] - seen[q]) % CounterMod = drops[q] - reported[q]
    BY <2>1, <2>2, Zenon
  <2> QED BY <2>1, <2>3
<1> QED BY <1>3, <1>4 DEF PollInv, PollSound, DropsReported

(* NativeSupplicant::poll (upstream_supplicant.rs): whatever the callbacks *)
(* preempt it with, a pass stays within the work budget, reports every     *)
(* drop once, through the wrap of the 32-bit counters, and leaves a frame  *)
(* in the driver only while a notification or the fallback polls cover it. *)
THEOREM PollsSound == RPSpec => []PollSound
BY PollInit, PollNext, PollPromises, PTL DEF RPSpec
=============================================================================
