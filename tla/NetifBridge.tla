----------------------------- MODULE NetifBridge -----------------------------
(***************************************************************************)
(* The smoltcp bridge (chips/ws63/rf/src/netif_smoltcp.rs): the bounded RX *)
(* ring the vendor driver fills, the two static scratch buffers, and the   *)
(* receive/transmit tokens that claim them.  Ws63Device is a unit struct,  *)
(* so any task may drive a device of its own; Users are those tasks.       *)
(* A critical section is one step; what happens between two of them can be *)
(* preempted.  A frame is its ordinal.                                     *)
(***************************************************************************)
EXTENDS Integers, FiniteSets, Sequences

CONSTANTS
  Users,      \* tasks that poll an interface over a Ws63Device
  RxDepth,    \* RX_DEPTH, 4
  MaxFrames   \* bound: frames handed to rx_push, and TX frames per user

ASSUME ConstAssumption == RxDepth \in Nat \ {0} /\ MaxFrames \in Nat

NoFrame == 0
Index == 0 .. RxDepth - 1

VARIABLES
  rx, rx_head, rx_count,          \* the ring
  rx_dropped, rx_high_watermark,  \* its diagnostics
  rxClaimed, txClaimed,           \* RX_SCRATCH_CLAIMED, TX_SCRATCH_CLAIMED
  pc,                             \* per user: next step
  fromRx,                         \* per user: the TX token came from receive
  sent,                           \* history: per user, frames it emitted
  pushed,                         \* history: frames offered to the ring
  queued,                         \* history: the frames accepted, in order
  taken                           \* history: the frames popped, in order

ringVars == <<rx, rx_head, rx_count, rx_dropped, rx_high_watermark>>
histVars == <<pushed, queued, taken>>
vars == <<ringVars, rxClaimed, txClaimed, pc, fromRx, sent, histVars>>

Steps == {"idle", "claimTx", "undoRx", "pop", "undoBoth", "rxRead",
          "txFill", "txEmit", "txConsumed", "rxConsumed"}

TypeOK ==
  /\ rx \in [Index -> 0 .. MaxFrames]
  /\ rx_head \in Index
  /\ rx_count \in 0 .. RxDepth
  /\ rx_dropped \in 0 .. MaxFrames
  /\ rx_high_watermark \in 0 .. RxDepth
  /\ rxClaimed \in BOOLEAN /\ txClaimed \in BOOLEAN
  /\ pc \in [Users -> Steps]
  /\ fromRx \in [Users -> BOOLEAN]
  /\ sent \in [Users -> 0 .. MaxFrames]
  /\ pushed \in 0 .. MaxFrames
  /\ queued \in Seq(1 .. MaxFrames)
  /\ taken \in Seq(1 .. MaxFrames)

Init ==
  /\ rx = [i \in Index |-> NoFrame]
  /\ rx_head = 0
  /\ rx_count = 0
  /\ rx_dropped = 0
  /\ rx_high_watermark = 0
  /\ rxClaimed = FALSE /\ txClaimed = FALSE
  /\ pc = [u \in Users |-> "idle"]
  /\ fromRx = [u \in Users |-> FALSE]
  /\ sent = [u \in Users |-> 0]
  /\ pushed = 0
  /\ queued = <<>>
  /\ taken = <<>>

-----------------------------------------------------------------------------
(* The decisions of the ring and of receive, a mutant before the decision. *)
RingFull == rx_count >= RxDepth

PushAtCount == rx_count % RxDepth
PushSlot == (rx_head + rx_count) % RxDepth

WatermarkAtReset == rx_count

(* The claims receive gives back when the ring turns out to be empty.      *)
TxKeptClaimed == txClaimed
TxAfterEmptyReceive == FALSE

SaturatingMax(a, b) == IF a >= b THEN a ELSE b

-----------------------------------------------------------------------------
(* rx_push, from the vendor's receive context.  An oversized frame is      *)
(* returned without a trace.                                               *)
RxPush ==
  /\ pushed < MaxFrames
  /\ pushed' = pushed + 1
  /\ \/ UNCHANGED <<ringVars, queued>>   \* frame.len() > MTU
     \/ /\ RingFull
        /\ rx_dropped' = rx_dropped + 1
        /\ UNCHANGED <<rx, rx_head, rx_count, rx_high_watermark, queued>>
     \/ /\ ~RingFull
        /\ rx' = [rx EXCEPT ![PushSlot] = pushed + 1]
        /\ rx_count' = rx_count + 1
        /\ rx_high_watermark' = SaturatingMax(rx_high_watermark, rx_count + 1)
        /\ queued' = Append(queued, pushed + 1)
        /\ UNCHANGED <<rx_head, rx_dropped>>
  /\ UNCHANGED <<rxClaimed, txClaimed, pc, fromRx, sent, taken>>

reset_rx_queue_diagnostics ==
  /\ rx_dropped' = 0
  /\ rx_high_watermark' = WatermarkAtReset
  /\ UNCHANGED <<rx, rx_head, rx_count, rxClaimed, txClaimed, pc, fromRx, sent, histVars>>

(* rx_pop, also the body of take_received.                                 *)
RxPop ==
  /\ rx_count > 0
  /\ taken' = Append(taken, rx[rx_head])
  /\ rx_head' = (rx_head + 1) % RxDepth
  /\ rx_count' = rx_count - 1
  /\ UNCHANGED <<rx, rx_dropped, rx_high_watermark, pushed, queued>>

take_received ==
  /\ RxPop
  /\ UNCHANGED <<rxClaimed, txClaimed, pc, fromRx, sent>>

-----------------------------------------------------------------------------
Goto(u, step) == pc' = [pc EXCEPT ![u] = step]

(* Ws63Device::receive: the RX scratch, then the TX scratch, then a frame. *)
ReceiveClaimRx(u) ==
  /\ pc[u] = "idle"
  /\ sent[u] < MaxFrames
  /\ ~rxClaimed
  /\ rxClaimed' = TRUE
  /\ Goto(u, "claimTx")
  /\ UNCHANGED <<ringVars, txClaimed, fromRx, sent, histVars>>

ReceiveClaimTx(u) ==
  /\ pc[u] = "claimTx"
  /\ \/ /\ txClaimed
        /\ Goto(u, "undoRx")
        /\ UNCHANGED txClaimed
     \/ /\ ~txClaimed
        /\ txClaimed' = TRUE
        /\ Goto(u, "pop")
  /\ UNCHANGED <<ringVars, rxClaimed, fromRx, sent, histVars>>

ReceiveUndoRx(u) ==
  /\ pc[u] = "undoRx"
  /\ rxClaimed' = FALSE
  /\ Goto(u, "idle")
  /\ UNCHANGED <<ringVars, txClaimed, fromRx, sent, histVars>>

ReceivePop(u) ==
  /\ pc[u] = "pop"
  /\ \/ /\ RxPop
        /\ Goto(u, "rxRead")
        /\ fromRx' = [fromRx EXCEPT ![u] = TRUE]
     \/ /\ rx_count = 0
        /\ Goto(u, "undoBoth")
        /\ UNCHANGED <<ringVars, fromRx, histVars>>
  /\ UNCHANGED <<rxClaimed, txClaimed, sent>>

ReceiveUndoBoth(u) ==
  /\ pc[u] = "undoBoth"
  /\ rxClaimed' = FALSE
  /\ txClaimed' = TxAfterEmptyReceive
  /\ Goto(u, "idle")
  /\ UNCHANGED <<ringVars, fromRx, sent, histVars>>

(* Ws63Device::transmit.                                                   *)
Transmit(u) ==
  /\ pc[u] = "idle"
  /\ sent[u] < MaxFrames
  /\ ~txClaimed
  /\ txClaimed' = TRUE
  /\ Goto(u, "txFill")
  /\ UNCHANGED <<ringVars, rxClaimed, fromRx, sent, histVars>>

(* RxFrame::consume runs the stack's closure over the RX scratch; the      *)
(* closure owns the TX token and either answers through it or drops it.    *)
RxAnswer(u) ==
  /\ pc[u] = "rxRead"
  /\ Goto(u, "txFill")
  /\ UNCHANGED <<ringVars, rxClaimed, txClaimed, fromRx, sent, histVars>>

RxNoAnswer(u) ==
  /\ pc[u] = "rxRead"
  /\ txClaimed' = FALSE              \* Drop for TxBuf
  /\ Goto(u, "rxConsumed")
  /\ UNCHANGED <<ringVars, rxClaimed, fromRx, sent, histVars>>

(* TxBuf::consume: fill the scratch, tx_emit it, release the claim; then   *)
(* Drop of the token releases it again.                                    *)
TxFill(u) ==
  /\ pc[u] = "txFill"
  /\ sent' = [sent EXCEPT ![u] = @ + 1]
  /\ Goto(u, "txEmit")
  /\ UNCHANGED <<ringVars, rxClaimed, txClaimed, fromRx, histVars>>

TxConsumeRelease(u) ==
  /\ pc[u] = "txEmit"
  /\ txClaimed' = FALSE
  /\ Goto(u, "txConsumed")
  /\ UNCHANGED <<ringVars, rxClaimed, fromRx, sent, histVars>>

(* A token of transmit that the stack finds nothing to send with goes by   *)
(* its Drop alone.                                                         *)
TxUnused(u) ==
  /\ pc[u] = "txFill" /\ ~fromRx[u]
  /\ txClaimed' = FALSE
  /\ Goto(u, "idle")
  /\ UNCHANGED <<ringVars, rxClaimed, fromRx, sent, histVars>>

TxDrop(u) ==
  /\ pc[u] = "txConsumed"
  /\ txClaimed' = FALSE
  /\ Goto(u, IF fromRx[u] THEN "rxConsumed" ELSE "idle")
  /\ UNCHANGED <<ringVars, rxClaimed, fromRx, sent, histVars>>

(* The closure has returned: consume releases the RX claim, and Drop of    *)
(* the token releases it again.  rxRead's fromRx marks the second release  *)
(* as still to come.                                                       *)
RxConsumeRelease(u) ==
  /\ pc[u] = "rxConsumed" /\ fromRx[u]
  /\ rxClaimed' = FALSE
  /\ fromRx' = [fromRx EXCEPT ![u] = FALSE]
  /\ UNCHANGED <<ringVars, txClaimed, pc, sent, histVars>>

RxDrop(u) ==
  /\ pc[u] = "rxConsumed" /\ ~fromRx[u]
  /\ rxClaimed' = FALSE
  /\ Goto(u, "idle")
  /\ UNCHANGED <<ringVars, txClaimed, fromRx, sent, histVars>>

-----------------------------------------------------------------------------
UserStep(u) ==
  \/ ReceiveClaimRx(u) \/ ReceiveClaimTx(u) \/ ReceiveUndoRx(u)
  \/ ReceivePop(u) \/ ReceiveUndoBoth(u)
  \/ Transmit(u) \/ RxAnswer(u) \/ RxNoAnswer(u)
  \/ TxFill(u) \/ TxConsumeRelease(u) \/ TxDrop(u) \/ TxUnused(u)
  \/ RxConsumeRelease(u) \/ RxDrop(u)

Next ==
  \/ RxPush \/ reset_rx_queue_diagnostics \/ take_received
  \/ \E u \in Users : UserStep(u)

Spec == Init /\ [][Next]_vars

-----------------------------------------------------------------------------
(* The frames queued, from rx_head on.                                     *)
Contents == [i \in 1 .. rx_count |-> rx[(rx_head + i - 1) % RxDepth]]

(* The ring holds, from rx_head on, exactly the accepted frames that have  *)
(* not been popped, and they come out in the order they went in, through   *)
(* every wrap of the indices.                                              *)
RingIsFifo == queued = taken \o Contents

(* Behind rx_push and rx_pop the ring is the bounded first-in first-out    *)
(* queue that osal_msg_queue is too: a frame is added at the end, never to *)
(* a full queue, and the one a pop returns is the oldest; no reset of the  *)
(* diagnostics and no token of the device moves a frame.                   *)
Fifo == INSTANCE BoundedFifo
          WITH Message <- 1 .. MaxFrames, Cap <- RxDepth, None <- NoFrame, contents <- Contents,
               last <- IF taken = <<>> THEN NoFrame ELSE taken[Len(taken)]

ImplementsFifo == Fifo!Spec

(* "Largest number of simultaneously queued frames in this window": the    *)
(* watermark is never below what is queued now, and within the capacity.   *)
WatermarkCovers == rx_count <= rx_high_watermark /\ rx_high_watermark <= RxDepth

(* The ring and what is said of it, together: every frame is where its     *)
(* indices say, and the statistics never claim less than what is queued.   *)
RingSound == TypeOK /\ RingIsFifo /\ WatermarkCovers

(* No path through receive, transmit, consume and drop leaves a buffer     *)
(* claimed: once every user is back outside the device both are free.      *)
NoClaimLeak ==
  (\A u \in Users : pc[u] = "idle") => ~rxClaimed /\ ~txClaimed

(* What every call of the device and of the receive path leaves behind.    *)
BridgeSound == RingSound /\ NoClaimLeak

(* "Each scratch buffer is claimed and released under the single-hart      *)
(* critical section before it is accessed outside that section": so no two *)
(* tasks are inside one buffer.  What the code does is not this: Drop      *)
(* releases the claim once more, whoever has it by then.                   *)
InTx(u) == pc[u] \in {"txFill", "txEmit"}
InRx(u) == pc[u] = "rxRead" \/ (fromRx[u] /\ InTx(u))

ScratchExclusive ==
  \A u, v \in Users : (InTx(u) /\ InTx(v)) \/ (InRx(u) /\ InRx(v)) => u = v
=============================================================================
