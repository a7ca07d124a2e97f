----------------------------- MODULE NetifProofs ----------------------------
(***************************************************************************)
(* The network device's side of the radio, for every value of the          *)
(* constants.  The smoltcp bridge (NetifBridge): the ring is a FIFO        *)
(* through every wrap of its indices, and no path through receive,         *)
(* transmit, consume and the two drops leaves a buffer claimed.  The       *)
(* packet buffers (Pbuf): no order of the transmitting task's and the      *)
(* driver's frees leaves a wrong reference count, and moved headers stay   *)
(* inside the allocation.                                                  *)
(***************************************************************************)
EXTENDS NetifBridge, Pbuf, Integers, Sequences, SequenceTheorems, FiniteSetTheorems, TLAPS

-----------------------------------------------------------------------------
(* A number has one quotient and one remainder.                            *)
LEMMA ModUnique ==
  ASSUME NEW m \in Nat \ {0}, NEW q \in Int, NEW r \in 0 .. m - 1,
         NEW n \in Int, n = m * q + r
  PROVE  n % m = r
  BY SMT

(* Adding to a wrapped number and wrapping again is adding and wrapping.   *)
LEMMA ModAdd ==
  ASSUME NEW m \in Nat \ {0}, NEW a \in Int, NEW k \in Int
  PROVE  ((a % m) + k) % m = (a + k) % m
<1> DEFINE q == ((a + k) \div m) - (a \div m)
           r == (a + k) % m
<1>1. q \in Int /\ r \in 0 .. m - 1
  BY SMT
<1>2. (a % m) + k = m * q + r
  <2>1. /\ a = (m * (a \div m)) + (a % m)
        /\ a + k = (m * ((a + k) \div m)) + ((a + k) % m)
    BY SMT
  <2>2. /\ a \div m \in Int /\ (a + k) \div m \in Int
        /\ a % m \in Int /\ (a + k) % m \in Int
    BY SMT
  <2>3. m * q = (m * ((a + k) \div m)) - (m * (a \div m))
    BY <2>2, SMT
  <2> QED
    BY <2>1, <2>2, <2>3, SMT
<1> HIDE DEF q, r
<1> DEFINE n == (a % m) + k
<1>3. n \in Int
  BY SMT
<1>4. n = m * q + r
  BY <1>2
<1> HIDE DEF n
<1>5. n % m = r
  BY <1>1, <1>3, <1>4, ModUnique
<1> QED
  BY <1>5 DEF n, r

-----------------------------------------------------------------------------
(* Indices are taken modulo the depth once at most.                        *)
LEMMA IndexWraps ==
  ASSUME NEW n \in 0 .. 2 * RxDepth - 1
  PROVE  n % RxDepth \in Index
         /\ n % RxDepth = IF n < RxDepth THEN n ELSE n - RxDepth
<1> DEFINE d == RxDepth
<1>1. d \in Nat \ {0} /\ n \in Int
  BY ConstAssumption
<1> HIDE DEF d
<1>2. CASE n < d
  <2>1. n = d * 0 + n /\ n \in 0 .. d - 1
    BY <1>1, <1>2, SMT DEF d
  <2>2. n % d = n
    BY <1>1, <2>1, ModUnique
  <2> QED
    BY <1>1, <1>2, <2>1, <2>2 DEF d, Index
<1>3. CASE n >= d
  <2>1. n = d * 1 + (n - d) /\ n - d \in 0 .. d - 1
    BY <1>1, <1>3, SMT DEF d
  <2>2. n % d = n - d
    BY <1>1, <2>1, ModUnique
  <2> QED
    BY <1>1, <1>3, <2>1, <2>2 DEF d, Index
<1> QED
  BY <1>1, <1>2, <1>3

-----------------------------------------------------------------------------
(* The frames in the ring, said one by one, and what bounds the counters.  *)
QueueInv ==
  /\ Len(queued) = Len(taken) + rx_count
  /\ \A i \in 1 .. Len(taken) : queued[i] = taken[i]
  /\ \A i \in 1 .. rx_count :
       queued[Len(taken) + i] = rx[(rx_head + i - 1) % RxDepth]

BoundInv ==
  /\ rx_dropped <= pushed
  /\ \A u \in Users :
       pc[u] \in {"claimTx", "undoRx", "pop", "undoBoth", "rxRead", "txFill"} =>
         sent[u] < MaxFrames

RingInv == TypeOK /\ QueueInv /\ BoundInv /\ WatermarkCovers

(* A claim is held by a task that is at a step between taking it and the   *)
(* last of the stores that give it back.                                   *)
HoldsRx(u) == \/ pc[u] \in {"claimTx", "undoRx", "pop", "undoBoth", "rxRead",
                            "rxConsumed"}
              \/ fromRx[u] /\ pc[u] \in {"txFill", "txEmit", "txConsumed"}
HoldsTx(u) == pc[u] \in {"pop", "undoBoth", "rxRead", "txFill", "txEmit",
                         "txConsumed"}

ClaimInv ==
  /\ pc \in [Users -> Steps] /\ fromRx \in [Users -> BOOLEAN]
  /\ \A u \in Users : pc[u] = "rxRead" => fromRx[u]
  /\ rxClaimed => \E u \in Users : HoldsRx(u)
  /\ txClaimed => \E u \in Users : HoldsTx(u)

LEMMA ClaimInit == Init => ClaimInv
BY DEF Init, ClaimInv, Steps

LEMMA ClaimNext == ClaimInv /\ [Next]_vars => ClaimInv'
<1> SUFFICES ASSUME ClaimInv, [Next]_vars PROVE ClaimInv'
  OBVIOUS
<1> USE DEF ClaimInv, HoldsRx, HoldsTx, Steps, Goto
<1>1. CASE RxPush \/ reset_rx_queue_diagnostics \/ take_received \/ UNCHANGED vars
  <2>1. UNCHANGED <<rxClaimed, txClaimed, pc, fromRx>>
    BY <1>1 DEF RxPush, reset_rx_queue_diagnostics, take_received, vars
  <2> QED
    BY <2>1
<1>2. ASSUME NEW u \in Users, ReceiveClaimRx(u) PROVE ClaimInv'
  BY <1>2 DEF ReceiveClaimRx
<1>3. ASSUME NEW u \in Users, ReceiveClaimTx(u) PROVE ClaimInv'
  BY <1>3 DEF ReceiveClaimTx
<1>4. ASSUME NEW u \in Users, ReceiveUndoRx(u) PROVE ClaimInv'
  BY <1>4 DEF ReceiveUndoRx
<1>5. ASSUME NEW u \in Users, ReceivePop(u) PROVE ClaimInv'
  <2>1. CASE /\ pc[u] = "pop" /\ pc' = [pc EXCEPT ![u] = "rxRead"]
             /\ fromRx' = [fromRx EXCEPT ![u] = TRUE]
             /\ UNCHANGED <<rxClaimed, txClaimed>>
    <3>1. /\ pc' \in [Users -> Steps] /\ fromRx' \in [Users -> BOOLEAN]
          /\ \A v \in Users : pc'[v] = "rxRead" => fromRx'[v]
      BY <2>1
    <3>2. \A v \in Users : (HoldsRx(v) => HoldsRx(v)') /\ (HoldsTx(v) => HoldsTx(v)')
      BY <2>1
    <3> QED
      BY <2>1, <3>1, <3>2
  <2>2. CASE /\ pc[u] = "pop" /\ pc' = [pc EXCEPT ![u] = "undoBoth"]
             /\ UNCHANGED <<rxClaimed, txClaimed, fromRx>>
    BY <2>2
  <2> QED
    BY <1>5, <2>1, <2>2 DEF ReceivePop
<1>6. ASSUME NEW u \in Users, ReceiveUndoBoth(u) PROVE ClaimInv'
  BY <1>6 DEF ReceiveUndoBoth, TxAfterEmptyReceive
<1>7. ASSUME NEW u \in Users, Transmit(u) PROVE ClaimInv'
  BY <1>7 DEF Transmit
<1>8. ASSUME NEW u \in Users, RxAnswer(u) PROVE ClaimInv'
  BY <1>8 DEF RxAnswer
<1>9. ASSUME NEW u \in Users, RxNoAnswer(u) PROVE ClaimInv'
  BY <1>9 DEF RxNoAnswer
<1>10. ASSUME NEW u \in Users, TxFill(u) \/ TxConsumeRelease(u) PROVE ClaimInv'
  BY <1>10 DEF TxFill, TxConsumeRelease
<1>11. ASSUME NEW u \in Users, TxDrop(u) \/ TxUnused(u) PROVE ClaimInv'
  BY <1>11 DEF TxDrop, TxUnused
<1>12. ASSUME NEW u \in Users, RxConsumeRelease(u) PROVE ClaimInv'
  <2>1. /\ rxClaimed' = FALSE /\ UNCHANGED <<txClaimed, pc>>
        /\ pc[u] = "rxConsumed" /\ fromRx' = [fromRx EXCEPT ![u] = FALSE]
    BY <1>12 DEF RxConsumeRelease
  <2>2. fromRx' \in [Users -> BOOLEAN] /\ \A v \in Users \ {u} : fromRx'[v] = fromRx[v]
    BY <2>1
  <2> QED
    BY <2>1, <2>2
<1>13. ASSUME NEW u \in Users, RxDrop(u) PROVE ClaimInv'
  BY <1>13 DEF RxDrop
<1> QED
  BY <1>1, <1>2, <1>3, <1>4, <1>5, <1>6, <1>7, <1>8, <1>9, <1>10, <1>11, <1>12, <1>13
     DEF Next, UserStep

(* Once every task is outside of the device both scratch buffers are free: *)
(* receive, transmit, consume and Drop of RxFrame and TxBuf.               *)
THEOREM ClaimsReturned == Spec => []NoClaimLeak
<1>1. ClaimInv => NoClaimLeak
  BY DEF ClaimInv, HoldsRx, HoldsTx, NoClaimLeak
<1> QED
  BY ClaimInit, ClaimNext, <1>1, PTL DEF Spec

-----------------------------------------------------------------------------
(* What the driver pushes goes behind, what a task takes comes from ahead.  *)
LEMMA PushKeeps ==
  ASSUME TypeOK, QueueInv, rx_count < RxDepth, NEW frame \in 1 .. MaxFrames,
         rx' = [rx EXCEPT ![PushSlot] = frame], rx_head' = rx_head,
         rx_count' = rx_count + 1, queued' = Append(queued, frame), taken' = taken
  PROVE  /\ rx' \in [Index -> 0 .. MaxFrames] /\ rx_count' \in 0 .. RxDepth
         /\ queued' \in Seq(1 .. MaxFrames) /\ QueueInv'
<1>1. /\ RxDepth \in Nat \ {0} /\ rx_head \in 0 .. RxDepth - 1
      /\ rx_count \in 0 .. RxDepth /\ rx \in [Index -> 0 .. MaxFrames]
      /\ queued \in Seq(1 .. MaxFrames) /\ taken \in Seq(1 .. MaxFrames)
      /\ Len(queued) \in Nat /\ Len(taken) \in Nat
  BY ConstAssumption, LenProperties DEF TypeOK, Index
<1>2. /\ queued' \in Seq(1 .. MaxFrames) /\ Len(queued') = Len(queued) + 1
      /\ queued'[Len(queued) + 1] = frame
      /\ \A i \in 1 .. Len(queued) : queued'[i] = queued[i]
  BY <1>1, AppendProperties
<1>3. PushSlot \in Index
        /\ PushSlot = IF rx_head + rx_count < RxDepth THEN rx_head + rx_count
                      ELSE rx_head + rx_count - RxDepth
  <2> DEFINE n == rx_head + rx_count
  <2>1. n \in 0 .. 2 * RxDepth - 1
    BY <1>1
  <2>2. PushSlot = n % RxDepth
    BY DEF PushSlot
  <2> HIDE DEF n
  <2>3. PushSlot \in Index /\ PushSlot = IF n < RxDepth THEN n ELSE n - RxDepth
    BY <2>1, <2>2, IndexWraps
  <2> QED
    BY <1>1, <2>3 DEF n
<1>4. ASSUME NEW i \in 1 .. rx_count
      PROVE  /\ (rx_head + i - 1) % RxDepth \in Index
             /\ (rx_head + i - 1) % RxDepth # PushSlot
  <2> DEFINE n == rx_head + i - 1
             at == n % RxDepth
  <2>1. n \in 0 .. 2 * RxDepth - 1 /\ n \in rx_head .. rx_head + rx_count - 1
    BY <1>1
  <2> HIDE DEF n
  <2>2. at \in Index /\ at = IF n < RxDepth THEN n ELSE n - RxDepth
    BY <2>1, IndexWraps
  <2> HIDE DEF at
  <2>3. at # PushSlot
    BY <1>1, <1>3, <2>1, <2>2 DEF Index
  <2> QED
    BY <2>2, <2>3 DEF at, n
<1>5. rx' \in [Index -> 0 .. MaxFrames] /\ rx'[PushSlot] = frame
  BY <1>1, <1>3
<1>6. Len(queued') = Len(taken') + rx_count'
  BY <1>1, <1>2 DEF QueueInv
<1>7. \A i \in 1 .. Len(taken') : queued'[i] = taken'[i]
  BY <1>1, <1>2 DEF QueueInv
<1>8. ASSUME NEW i \in 1 .. rx_count'
      PROVE  queued'[Len(taken') + i] = rx'[(rx_head' + i - 1) % RxDepth]
  <2>0. i \in Int /\ i \in 1 .. rx_count + 1
    BY <1>1
  <2>1. CASE i = rx_count + 1
    <3>1. rx_head + i - 1 = rx_head + rx_count
      BY <1>1, <2>1
    <3>2. Len(taken') + i = Len(queued) + 1
      BY <1>1, <2>1 DEF QueueInv
    <3>3. rx'[(rx_head' + i - 1) % RxDepth] = frame
      <4>1. (rx_head' + i - 1) % RxDepth = PushSlot
        BY <3>1 DEF PushSlot
      <4> QED
        BY <1>5, <4>1
    <3>4. queued'[Len(taken') + i] = frame
      <4>1. queued'[Len(taken') + i] = queued'[Len(queued) + 1]
        BY <3>2, Zenon
      <4> QED
        BY <1>2, <4>1, Zenon
    <3> QED
      BY <3>3, <3>4, Zenon
  <2>2. CASE i \in 1 .. rx_count
    <3>1. queued'[Len(taken') + i] = queued[Len(taken) + i]
      BY <1>1, <1>2, <2>2 DEF QueueInv
    <3>2. rx'[(rx_head + i - 1) % RxDepth] = rx[(rx_head + i - 1) % RxDepth]
      BY <1>1, <1>4, <2>2
    <3>3. queued[Len(taken) + i] = rx[(rx_head + i - 1) % RxDepth]
      BY <2>2, Zenon DEF QueueInv
    <3>4. rx'[(rx_head' + i - 1) % RxDepth] = rx'[(rx_head + i - 1) % RxDepth]
      OBVIOUS
    <3> QED
      BY <3>1, <3>2, <3>3, <3>4, Zenon
  <2>3. i = rx_count + 1 \/ i \in 1 .. rx_count
    BY <1>1, <2>0
  <2> QED
    BY <2>1, <2>2, <2>3, Zenon
<1>9. QueueInv'
  BY <1>6, <1>7, <1>8 DEF QueueInv
<1> QED
  BY <1>1, <1>2, <1>5, <1>9

LEMMA PopKeeps ==
  ASSUME TypeOK, QueueInv, RxPop
  PROVE  /\ rx_head' \in Index /\ rx_count' \in 0 .. RxDepth
         /\ taken' \in Seq(1 .. MaxFrames) /\ QueueInv'
<1>1. /\ RxDepth \in Nat \ {0} /\ rx_head \in 0 .. RxDepth - 1
      /\ rx_count \in 0 .. RxDepth /\ rx_count > 0
      /\ queued \in Seq(1 .. MaxFrames) /\ taken \in Seq(1 .. MaxFrames)
      /\ Len(queued) \in Nat /\ Len(taken) \in Nat
      /\ Len(queued) = Len(taken) + rx_count
      /\ taken' = Append(taken, rx[rx_head]) /\ rx_head' = (rx_head + 1) % RxDepth
      /\ rx_count' = rx_count - 1 /\ rx' = rx /\ queued' = queued
  BY ConstAssumption, LenProperties DEF TypeOK, Index, RxPop, QueueInv
<1>2. rx_head % RxDepth = rx_head
  BY <1>1, IndexWraps
<1>3. queued[Len(taken) + 1] = rx[rx_head]
  <2>1. 1 \in 1 .. rx_count /\ rx_head + 1 - 1 = rx_head
    BY <1>1
  <2> QED
    BY <1>2, <2>1 DEF QueueInv
<1>4. rx[rx_head] \in 1 .. MaxFrames
  <2>1. Len(taken) + 1 \in 1 .. Len(queued)
    BY <1>1
  <2> QED
    BY <1>1, <1>3, <2>1, ElementOfSeq
<1>5. /\ taken' \in Seq(1 .. MaxFrames) /\ Len(taken') = Len(taken) + 1
      /\ taken'[Len(taken) + 1] = rx[rx_head]
      /\ \A i \in 1 .. Len(taken) : taken'[i] = taken[i]
  BY <1>1, <1>4, AppendProperties
<1>6. rx_head' \in Index
  <2>1. rx_head + 1 \in 0 .. 2 * RxDepth - 1
    BY <1>1
  <2> QED
    BY <1>1, <2>1, IndexWraps
<1>7. Len(queued') = Len(taken') + rx_count'
  BY <1>1, <1>5
<1>8. \A i \in 1 .. Len(taken') : queued'[i] = taken'[i]
  <2> TAKE i \in 1 .. Len(taken')
  <2>1. CASE i = Len(taken) + 1
    BY <1>1, <1>3, <1>5, <2>1
  <2>2. CASE i \in 1 .. Len(taken)
    BY <1>1, <1>5, <2>2 DEF QueueInv
  <2> QED
    BY <1>1, <1>5, <2>1, <2>2
<1>9. ASSUME NEW i \in 1 .. rx_count'
      PROVE  queued'[Len(taken') + i] = rx'[(rx_head' + i - 1) % RxDepth]
  <2>1. /\ i + 1 \in 1 .. rx_count /\ i \in Int
        /\ Len(taken') + i = Len(taken) + (i + 1)
        /\ rx_head + (i + 1) - 1 = rx_head + 1 + (i - 1)
    <3>1. /\ rx_count \in Nat /\ rx_head \in Nat /\ Len(taken) \in Nat
          /\ rx_count' = rx_count - 1 /\ Len(taken') = Len(taken) + 1
      BY <1>1, <1>5
    <3> QED BY <3>1
  <2> DEFINE a == rx_head + 1
             k == i - 1
  <2>2. a \in Int /\ k \in Int
    BY <1>1, <2>1
  <2>3. rx_head' + i - 1 = (a % RxDepth) + k
    BY <1>1, <1>6, <2>1 DEF Index
  <2>4. rx_head + (i + 1) - 1 = a + k
    BY <1>1, <2>1
  <2> HIDE DEF a, k
  <2>5. ((a % RxDepth) + k) % RxDepth = (a + k) % RxDepth
    BY <1>1, <2>2, ModAdd
  <2>6. queued[Len(taken) + (i + 1)] = rx[(rx_head + (i + 1) - 1) % RxDepth]
    BY <2>1 DEF QueueInv
  <2> QED
    BY <1>1, <2>1, <2>3, <2>4, <2>5, <2>6
<1>10. QueueInv'
  BY <1>7, <1>8, <1>9 DEF QueueInv
<1> QED
  BY <1>1, <1>5, <1>6, <1>10

-----------------------------------------------------------------------------
LEMMA RingInit == Init => RingInv
<1> SUFFICES ASSUME Init PROVE RingInv
  OBVIOUS
<1>1. RxDepth \in Nat \ {0} /\ MaxFrames \in Nat
  BY ConstAssumption
<1>2. <<>> \in Seq(1 .. MaxFrames) /\ Len(<<>>) = 0
  BY EmptySeq
<1>3. rxClaimed \in BOOLEAN /\ txClaimed \in BOOLEAN
  BY Zenon DEF Init
<1>4. TypeOK
  BY <1>1, <1>2, <1>3 DEF Init, TypeOK, Index, Steps, NoFrame
<1> QED
  BY <1>1, <1>2, <1>4 DEF Init, RingInv, QueueInv, BoundInv, WatermarkCovers

LEMMA RingPush == RingInv /\ RxPush => RingInv'
<1> SUFFICES ASSUME RingInv, RxPush PROVE RingInv'
  OBVIOUS
<1>1. /\ pushed < MaxFrames /\ pushed' = pushed + 1
      /\ UNCHANGED <<rxClaimed, txClaimed, pc, fromRx, sent, taken>>
  BY DEF RxPush
<1>2. /\ RxDepth \in Nat \ {0} /\ MaxFrames \in Nat /\ TypeOK /\ QueueInv
      /\ pushed \in 0 .. MaxFrames /\ rx_dropped \in 0 .. MaxFrames
      /\ rx_count \in 0 .. RxDepth /\ rx_high_watermark \in 0 .. RxDepth
      /\ rx_dropped <= pushed /\ rx_count <= rx_high_watermark
  BY ConstAssumption DEF RingInv, TypeOK, BoundInv, WatermarkCovers
<1>3. CASE UNCHANGED <<ringVars, queued>>
  <2>1. UNCHANGED <<rx, rx_head, rx_count, rx_dropped, rx_high_watermark, queued>>
    BY <1>3 DEF ringVars
  <2>2. TypeOK'
    BY <1>1, <1>2, <2>1 DEF TypeOK
  <2>3. QueueInv' /\ BoundInv' /\ WatermarkCovers'
    BY <1>1, <1>2, <2>1 DEF RingInv, QueueInv, BoundInv, WatermarkCovers
  <2> QED
    BY <2>2, <2>3 DEF RingInv
<1>4. CASE /\ RingFull /\ rx_dropped' = rx_dropped + 1
           /\ UNCHANGED <<rx, rx_head, rx_count, rx_high_watermark, queued>>
  <2>2. TypeOK'
    BY <1>1, <1>2, <1>4 DEF TypeOK
  <2>3. QueueInv' /\ BoundInv' /\ WatermarkCovers'
    BY <1>1, <1>2, <1>4 DEF RingInv, QueueInv, BoundInv, WatermarkCovers
  <2> QED
    BY <2>2, <2>3 DEF RingInv
<1>5. CASE /\ ~RingFull /\ rx' = [rx EXCEPT ![PushSlot] = pushed + 1]
           /\ rx_count' = rx_count + 1
           /\ rx_high_watermark' = SaturatingMax(rx_high_watermark, rx_count + 1)
           /\ queued' = Append(queued, pushed + 1)
           /\ UNCHANGED <<rx_head, rx_dropped>>
  <2>1. rx_count < RxDepth /\ pushed + 1 \in 1 .. MaxFrames
    BY <1>1, <1>2, <1>5 DEF RingFull
  <2>2. /\ rx' \in [Index -> 0 .. MaxFrames] /\ rx_count' \in 0 .. RxDepth
        /\ queued' \in Seq(1 .. MaxFrames) /\ QueueInv'
    BY <1>1, <1>2, <1>5, <2>1, PushKeeps
  <2>3. rx_high_watermark' \in 0 .. RxDepth /\ rx_count' <= rx_high_watermark'
    BY <1>2, <1>5, <2>1 DEF SaturatingMax
  <2>4. TypeOK'
    BY <1>1, <1>2, <1>5, <2>2, <2>3 DEF TypeOK
  <2>5. BoundInv' /\ WatermarkCovers'
    BY <1>1, <1>2, <1>5, <2>3 DEF RingInv, BoundInv, WatermarkCovers
  <2> QED
    BY <2>2, <2>4, <2>5 DEF RingInv
<1> QED
  BY <1>3, <1>4, <1>5 DEF RxPush

LEMMA RingReset == RingInv /\ reset_rx_queue_diagnostics => RingInv'
<1> SUFFICES ASSUME RingInv, reset_rx_queue_diagnostics PROVE RingInv'
  OBVIOUS
<1>1. /\ rx_dropped' = 0 /\ rx_high_watermark' = rx_count
      /\ UNCHANGED <<rx, rx_head, rx_count, rxClaimed, txClaimed, pc, fromRx, sent,
                     pushed, queued, taken>>
  BY DEF reset_rx_queue_diagnostics, WatermarkAtReset, histVars
<1>2. TypeOK'
  BY <1>1, ConstAssumption DEF RingInv, TypeOK
<1>3. QueueInv' /\ BoundInv' /\ WatermarkCovers'
  BY <1>1 DEF RingInv, TypeOK, QueueInv, BoundInv, WatermarkCovers
<1> QED
  BY <1>2, <1>3 DEF RingInv

(* A pop, together with whatever its caller does with the claims.          *)
LEMMA RingPop ==
  ASSUME RingInv, RxPop, rxClaimed' \in BOOLEAN, txClaimed' \in BOOLEAN,
         pc' \in [Users -> Steps], fromRx' \in [Users -> BOOLEAN], sent' = sent,
         \A u \in Users :
           pc'[u] \in {"claimTx", "undoRx", "pop", "undoBoth", "rxRead", "txFill"} =>
             sent[u] < MaxFrames
  PROVE  RingInv'
<1>1. /\ rx_count > 0 /\ rx_count' = rx_count - 1
      /\ UNCHANGED <<rx, rx_dropped, rx_high_watermark, pushed, queued>>
  BY DEF RxPop
<1>2. TypeOK /\ QueueInv
  BY DEF RingInv
<1>3. /\ rx_head' \in Index /\ rx_count' \in 0 .. RxDepth
      /\ taken' \in Seq(1 .. MaxFrames) /\ QueueInv'
  BY <1>2, PopKeeps
<1>4. TypeOK'
  BY <1>1, <1>2, <1>3 DEF TypeOK
<1>5. rx_count' <= rx_high_watermark' /\ rx_high_watermark' <= RxDepth
  <2>1. rx_count \in Int /\ rx_high_watermark \in Int
    BY <1>2, ConstAssumption DEF TypeOK
  <2> QED
    BY <1>1, <2>1, ConstAssumption DEF RingInv, WatermarkCovers
<1>6. BoundInv' /\ WatermarkCovers'
  BY <1>1, <1>5 DEF RingInv, BoundInv, WatermarkCovers
<1> QED
  BY <1>3, <1>4, <1>6 DEF RingInv

(* A task's steps other than the pop leave the ring alone.                 *)
LEMMA RingKept ==
  ASSUME RingInv, UNCHANGED <<ringVars, histVars>>,
         rxClaimed' \in BOOLEAN, txClaimed' \in BOOLEAN,
         pc' \in [Users -> Steps], fromRx' \in [Users -> BOOLEAN],
         sent' \in [Users -> 0 .. MaxFrames],
         \A u \in Users :
           pc'[u] \in {"claimTx", "undoRx", "pop", "undoBoth", "rxRead", "txFill"} =>
             sent'[u] < MaxFrames
  PROVE  RingInv'
<1>1. UNCHANGED <<rx, rx_head, rx_count, rx_dropped, rx_high_watermark, pushed,
                  queued, taken>>
  BY DEF ringVars, histVars
<1>2. TypeOK'
  BY <1>1 DEF RingInv, TypeOK
<1>3. QueueInv' /\ BoundInv' /\ WatermarkCovers'
  BY <1>1 DEF RingInv, QueueInv, BoundInv, WatermarkCovers
<1> QED
  BY <1>2, <1>3 DEF RingInv

LEMMA RingNext == RingInv /\ [Next]_vars => RingInv'
<1> SUFFICES ASSUME RingInv, [Next]_vars PROVE RingInv'
  OBVIOUS
<1> DEFINE Sending == {"claimTx", "undoRx", "pop", "undoBoth", "rxRead", "txFill"}
<1>0. /\ rxClaimed \in BOOLEAN /\ txClaimed \in BOOLEAN /\ MaxFrames \in Nat
      /\ pc \in [Users -> Steps] /\ fromRx \in [Users -> BOOLEAN]
      /\ sent \in [Users -> 0 .. MaxFrames]
      /\ \A u \in Users : pc[u] \in Sending => sent[u] < MaxFrames
  BY ConstAssumption DEF RingInv, TypeOK, BoundInv
<1>1. CASE RxPush \/ reset_rx_queue_diagnostics
  BY <1>1, RingPush, RingReset
<1>2. CASE take_received
  <2>1. RxPop /\ UNCHANGED <<rxClaimed, txClaimed, pc, fromRx, sent>>
    BY <1>2 DEF take_received
  <2> QED
    BY <1>0, <2>1, RingPop
<1>3. ASSUME NEW u \in Users, ReceivePop(u) PROVE RingInv'
  <2>1. CASE RxPop
    <3>1. /\ pc[u] = "pop" /\ pc' = [pc EXCEPT ![u] = "rxRead"]
          /\ fromRx' = [fromRx EXCEPT ![u] = TRUE]
          /\ UNCHANGED <<rxClaimed, txClaimed, sent>>
      BY <1>3, <2>1 DEF ReceivePop, Goto, RxPop, ringVars
    <3>2. /\ pc' \in [Users -> Steps] /\ fromRx' \in [Users -> BOOLEAN]
          /\ \A v \in Users : pc'[v] \in Sending => pc[v] \in Sending
      BY <1>0, <3>1 DEF Steps
    <3> QED
      BY <1>0, <2>1, <3>1, <3>2, RingPop
  <2>2. CASE ~RxPop
    <3>1. /\ pc[u] = "pop" /\ pc' = [pc EXCEPT ![u] = "undoBoth"]
          /\ UNCHANGED <<rxClaimed, txClaimed, sent, fromRx, ringVars, histVars>>
      BY <1>3, <2>2 DEF ReceivePop, Goto
    <3>2. /\ pc' \in [Users -> Steps]
          /\ \A v \in Users : pc'[v] \in Sending => pc[v] \in Sending
      BY <1>0, <3>1 DEF Steps
    <3> QED
      BY <1>0, <3>1, <3>2, RingKept
  <2> QED
    BY <2>1, <2>2
<1>4. ASSUME NEW u \in Users, ReceiveClaimRx(u) \/ Transmit(u) PROVE RingInv'
  <2>1. /\ sent[u] < MaxFrames
        /\ \E next \in {"claimTx", "txFill"} : pc' = [pc EXCEPT ![u] = next]
        /\ rxClaimed' \in BOOLEAN /\ txClaimed' \in BOOLEAN
        /\ UNCHANGED <<sent, fromRx, ringVars, histVars>>
    BY <1>0, <1>4 DEF ReceiveClaimRx, Transmit, Goto
  <2>2. /\ pc' \in [Users -> Steps]
        /\ \A v \in Users : pc'[v] \in Sending => sent[v] < MaxFrames
    BY <1>0, <2>1 DEF Steps
  <2> QED
    BY <1>0, <2>1, <2>2, RingKept
<1>5. ASSUME NEW u \in Users, ReceiveClaimTx(u) \/ RxAnswer(u) PROVE RingInv'
  <2>1. /\ pc[u] \in Sending
        /\ \E next \in {"undoRx", "pop", "txFill"} : pc' = [pc EXCEPT ![u] = next]
        /\ rxClaimed' \in BOOLEAN /\ txClaimed' \in BOOLEAN
        /\ UNCHANGED <<sent, fromRx, ringVars, histVars>>
    BY <1>0, <1>5 DEF ReceiveClaimTx, RxAnswer, Goto
  <2>2. /\ pc' \in [Users -> Steps]
        /\ \A v \in Users : pc'[v] \in Sending => sent[v] < MaxFrames
    BY <1>0, <2>1 DEF Steps
  <2> QED
    BY <1>0, <2>1, <2>2, RingKept
<1>6. ASSUME NEW u \in Users,
             \/ ReceiveUndoRx(u) \/ ReceiveUndoBoth(u) \/ RxNoAnswer(u)
             \/ TxConsumeRelease(u) \/ TxDrop(u) \/ TxUnused(u) \/ RxDrop(u)
      PROVE  RingInv'
  <2>1. /\ \E next \in {"idle", "rxConsumed", "txConsumed"} :
             pc' = [pc EXCEPT ![u] = next]
        /\ rxClaimed' \in BOOLEAN /\ txClaimed' \in BOOLEAN
        /\ UNCHANGED <<sent, fromRx, ringVars, histVars>>
    BY <1>0, <1>6 DEF ReceiveUndoRx, ReceiveUndoBoth, RxNoAnswer, TxConsumeRelease,
                      TxDrop, TxUnused, RxDrop, Goto, TxAfterEmptyReceive
  <2>2. /\ pc' \in [Users -> Steps]
        /\ \A v \in Users : pc'[v] \in Sending => pc[v] \in Sending
    BY <1>0, <2>1 DEF Steps
  <2> QED
    BY <1>0, <2>1, <2>2, RingKept
<1>7. ASSUME NEW u \in Users, TxFill(u) PROVE RingInv'
  <2>1. /\ pc[u] = "txFill" /\ pc' = [pc EXCEPT ![u] = "txEmit"]
        /\ sent' = [sent EXCEPT ![u] = @ + 1] /\ sent[u] < MaxFrames
        /\ UNCHANGED <<rxClaimed, txClaimed, fromRx, ringVars, histVars>>
    BY <1>0, <1>7 DEF TxFill, Goto
  <2>2. /\ pc' \in [Users -> Steps] /\ sent' \in [Users -> 0 .. MaxFrames]
        /\ \A v \in Users : pc'[v] \in Sending => sent'[v] < MaxFrames
    BY <1>0, <2>1 DEF Steps
  <2> QED
    BY <1>0, <2>1, <2>2, RingKept
<1>8. ASSUME NEW u \in Users, RxConsumeRelease(u) PROVE RingInv'
  <2>1. /\ fromRx' = [fromRx EXCEPT ![u] = FALSE] /\ rxClaimed' \in BOOLEAN
        /\ UNCHANGED <<txClaimed, pc, sent, ringVars, histVars>>
    BY <1>8 DEF RxConsumeRelease
  <2>2. fromRx' \in [Users -> BOOLEAN]
    BY <1>0, <2>1
  <2> QED
    BY <1>0, <2>1, <2>2, RingKept
<1>9. CASE UNCHANGED vars
  <2>1. UNCHANGED <<rxClaimed, txClaimed, pc, fromRx, sent, ringVars, histVars>>
    BY <1>9 DEF vars
  <2> QED
    BY <1>0, <2>1, RingKept
<1> QED
  BY <1>1, <1>2, <1>3, <1>4, <1>5, <1>6, <1>7, <1>8, <1>9 DEF Next, UserStep

(* What is queued is what was accepted and not taken.                      *)
QueuedIs ==
  /\ Contents \in Seq(1 .. MaxFrames) /\ Len(Contents) = rx_count
  /\ \A i \in 1 .. rx_count : Contents[i] = queued[Len(taken) + i]
  /\ queued \in Seq(1 .. MaxFrames) /\ taken \in Seq(1 .. MaxFrames)
  /\ Len(queued) \in Nat /\ Len(taken) \in Nat /\ rx_count \in 0 .. RxDepth
  /\ RxDepth \in Nat \ {0} /\ Len(queued) = Len(taken) + rx_count

LEMMA ContentsQueued == RingInv => QueuedIs
<1> SUFFICES ASSUME RingInv PROVE QueuedIs
  OBVIOUS
<1>1. /\ queued \in Seq(1 .. MaxFrames) /\ taken \in Seq(1 .. MaxFrames)
      /\ Len(queued) \in Nat /\ Len(taken) \in Nat /\ rx_count \in Nat
      /\ rx_count \in 0 .. RxDepth /\ RxDepth \in Nat \ {0}
      /\ Len(queued) = Len(taken) + rx_count
  BY LenProperties, ConstAssumption DEF RingInv, TypeOK, QueueInv
<1>2. \A i \in 1 .. rx_count : Contents[i] = queued[Len(taken) + i]
  BY DEF RingInv, QueueInv, Contents
<1>3. \A i \in 1 .. rx_count : queued[Len(taken) + i] \in 1 .. MaxFrames
  <2> TAKE i \in 1 .. rx_count
  <2>1. Len(taken) + i \in 1 .. Len(queued)
    BY <1>1
  <2> QED
    BY <1>1, <2>1, ElementOfSeq
<1>4. Contents \in [1 .. rx_count -> 1 .. MaxFrames]
  BY <1>2, <1>3 DEF Contents
<1>5. Contents \in Seq(1 .. MaxFrames)
  BY <1>1, <1>4, SeqDef
<1>6. Len(Contents) \in Nat /\ 1 .. Len(Contents) = 1 .. rx_count
  BY <1>4, <1>5, LenProperties
<1>7. Len(Contents) = rx_count
  BY <1>1, <1>6
<1> QED
  BY <1>1, <1>2, <1>5, <1>7 DEF QueuedIs

(* Frames come out of the ring in the order rx_push accepted them, through *)
(* every wrap of rx_head, and the watermark of the diagnostics, also after *)
(* their reset, is never below what is queued.                             *)
THEOREM RingIsSound == Spec => []RingSound
<1>1. RingInv => RingSound
  <2> SUFFICES ASSUME RingInv PROVE RingIsFifo
    BY DEF RingInv, RingSound
  <2>1. /\ Contents \in Seq(1 .. MaxFrames) /\ Len(Contents) = rx_count
        /\ \A i \in 1 .. rx_count : Contents[i] = queued[Len(taken) + i]
        /\ queued \in Seq(1 .. MaxFrames) /\ taken \in Seq(1 .. MaxFrames)
        /\ Len(queued) \in Nat /\ Len(taken) \in Nat /\ rx_count \in Nat
        /\ Len(queued) = Len(taken) + rx_count
    BY ContentsQueued DEF QueuedIs
  <2>2. /\ taken \o Contents \in Seq(1 .. MaxFrames)
        /\ Len(taken \o Contents) = Len(taken) + Len(Contents)
        /\ \A i \in 1 .. Len(taken) + Len(Contents) :
             (taken \o Contents)[i] = IF i <= Len(taken) THEN taken[i]
                                      ELSE Contents[i - Len(taken)]
    BY <2>1, ConcatProperties
  <2>3. ASSUME NEW i \in 1 .. Len(queued) PROVE queued[i] = (taken \o Contents)[i]
    <3>1. CASE i <= Len(taken)
      BY <2>1, <2>2, <3>1 DEF RingInv, QueueInv
    <3>2. CASE i > Len(taken)
      <4>1. i - Len(taken) \in 1 .. rx_count /\ Len(taken) + (i - Len(taken)) = i
        BY <2>1, <3>2
      <4>2. Contents[i - Len(taken)] = queued[i]
        BY <2>1, <4>1
      <4>3. (taken \o Contents)[i] = Contents[i - Len(taken)]
        BY <2>1, <2>2, <3>2
      <4> QED
        BY <4>2, <4>3
    <3>3. i <= Len(taken) \/ i > Len(taken)
      BY <2>1
    <3> QED
      BY <3>1, <3>2, <3>3, Zenon
  <2>4. queued = taken \o Contents
    BY <2>1, <2>2, <2>3, SeqEqual
  <2> QED
    BY <2>4 DEF RingIsFifo
<1> QED
  BY RingInit, RingNext, <1>1, PTL DEF Spec

(* rx_push puts its frame behind those that are queued.                    *)
LEMMA PushPuts ==
  ASSUME RingInv, RingInv', UNCHANGED taken,
         NEW frame \in 1 .. MaxFrames, queued' = Append(queued, frame)
  PROVE  Contents' = Append(Contents, frame) /\ Len(Contents) < RxDepth
<1>1. /\ Contents \in Seq(1 .. MaxFrames) /\ Len(Contents) = rx_count
      /\ \A i \in 1 .. rx_count : Contents[i] = queued[Len(taken) + i]
      /\ queued \in Seq(1 .. MaxFrames) /\ Len(queued) \in Nat /\ Len(taken) \in Nat
      /\ rx_count \in Nat /\ RxDepth \in Nat /\ Len(queued) = Len(taken) + rx_count
  BY ContentsQueued DEF QueuedIs
<1>2. /\ Contents' \in Seq(1 .. MaxFrames) /\ Len(Contents') = rx_count'
      /\ \A i \in 1 .. rx_count' : Contents'[i] = queued'[Len(taken) + i]
      /\ Len(queued') = Len(taken) + rx_count' /\ rx_count' \in 0 .. RxDepth
  <2>1. QueuedIs'
    BY ContentsQueued, PTL
  <2> QED
    BY <2>1 DEF QueuedIs
<1>3. /\ Len(queued') = Len(queued) + 1 /\ queued'[Len(queued) + 1] = frame
      /\ \A i \in 1 .. Len(queued) : queued'[i] = queued[i]
  <2>1. queued \in Seq(1 .. MaxFrames)
    BY <1>1
  <2>2. /\ Len(Append(queued, frame)) = Len(queued) + 1
        /\ Append(queued, frame)[Len(queued) + 1] = frame
        /\ \A i \in 1 .. Len(queued) : Append(queued, frame)[i] = queued[i]
    BY <2>1, AppendProperties
  <2> QED
    BY <2>2
<1>4. rx_count' = rx_count + 1
  BY <1>1, <1>2, <1>3
<1>5. /\ Append(Contents, frame) \in Seq(1 .. MaxFrames)
      /\ Len(Append(Contents, frame)) = rx_count + 1
      /\ Append(Contents, frame)[rx_count + 1] = frame
      /\ \A i \in 1 .. rx_count : Append(Contents, frame)[i] = Contents[i]
  BY <1>1, AppendProperties
<1>6. ASSUME NEW i \in 1 .. rx_count + 1
      PROVE  Contents'[i] = Append(Contents, frame)[i]
  <2>1. Contents'[i] = queued'[Len(taken) + i]
    BY <1>2, <1>4
  <2>2. CASE i = rx_count + 1
    <3>1. Len(taken) + i = Len(queued) + 1
      BY <1>1, <2>2
    <3> QED
      BY <1>3, <1>5, <2>1, <2>2, <3>1
  <2>3. CASE i \in 1 .. rx_count
    <3>1. Len(taken) + i \in 1 .. Len(queued)
      BY <1>1, <2>3
    <3> QED
      BY <1>1, <1>3, <1>5, <2>1, <2>3, <3>1
  <2> QED
    BY <1>1, <2>2, <2>3
<1> QED
  BY <1>1, <1>2, <1>4, <1>5, <1>6, SeqEqual

(* rx_pop takes the one that is first.                                     *)
LEMMA PopGets ==
  ASSUME RingInv, RingInv', RxPop
  PROVE  /\ Contents # <<>> /\ Contents' = Tail(Contents) /\ taken' # <<>>
         /\ taken'[Len(taken')] = Head(Contents)
<1>1. /\ Contents \in Seq(1 .. MaxFrames) /\ Len(Contents) = rx_count /\ rx_count > 0
      /\ \A i \in 1 .. rx_count : Contents[i] = queued[Len(taken) + i]
      /\ queued \in Seq(1 .. MaxFrames) /\ taken \in Seq(1 .. MaxFrames)
      /\ Len(taken) \in Nat /\ rx_count \in Nat /\ rx_count' = rx_count - 1
      /\ queued' = queued
  BY ContentsQueued DEF RxPop, QueuedIs
<1>2. /\ Contents' \in Seq(1 .. MaxFrames) /\ Len(Contents') = rx_count'
      /\ \A i \in 1 .. rx_count' : Contents'[i] = queued'[Len(taken') + i]
      /\ taken' \in Seq(1 .. MaxFrames)
  <2>1. QueuedIs'
    BY ContentsQueued, PTL
  <2> QED
    BY <2>1 DEF QueuedIs
<1>3. rx_head % RxDepth = rx_head
  <2>1. RxDepth \in Nat \ {0} /\ rx_head \in 0 .. RxDepth - 1
    BY ConstAssumption DEF RingInv, TypeOK, Index
  <2> QED
    BY <2>1, IndexWraps
<1>4. Contents[1] = rx[rx_head]
  <2>1. 1 \in 1 .. rx_count /\ rx_head + 1 - 1 = rx_head
    BY <1>1, ConstAssumption DEF RingInv, TypeOK, Index
  <2> QED
    BY <1>3, <2>1 DEF Contents
<1>5. taken' = Append(taken, Contents[1]) /\ Contents[1] \in 1 .. MaxFrames
  <2>1. 1 \in 1 .. Len(Contents)
    BY <1>1
  <2> QED
    BY <1>1, <1>4, <2>1, ElementOfSeq DEF RxPop
<1> HIDE DEF Contents
<1>6. /\ Len(taken') = Len(taken) + 1 /\ taken'[Len(taken) + 1] = Contents[1]
  BY <1>1, <1>5, AppendProperties
<1>7. taken' # <<>>
  BY <1>1, <1>6, EmptySeq
<1>8. Contents # <<>>
  BY <1>1, EmptySeq
<1>9. /\ Tail(Contents) \in Seq(1 .. MaxFrames) /\ Len(Tail(Contents)) = rx_count - 1
      /\ Head(Contents) = Contents[1]
      /\ \A i \in 1 .. rx_count - 1 : Tail(Contents)[i] = Contents[i + 1]
  BY <1>1, <1>8, HeadTailProperties
<1>10. \A i \in 1 .. rx_count - 1 : Contents'[i] = Tail(Contents)[i]
  <2> TAKE i \in 1 .. rx_count - 1
  <2>1. i + 1 \in 1 .. rx_count /\ Len(taken') + i = Len(taken) + (i + 1)
    BY <1>1, <1>6
  <2> QED
    BY <1>1, <1>2, <1>9, <2>1
<1>11. Contents' = Tail(Contents)
  BY <1>1, <1>2, <1>9, <1>10, SeqEqual
<1> QED
  BY <1>6, <1>7, <1>8, <1>9, <1>11

(* The bridge as a whole: rx_push, rx_pop, the two tokens and their drops. *)
THEOREM BridgeIsSound == Spec => []BridgeSound
BY RingIsSound, ClaimsReturned, PTL DEF BridgeSound

(* The receive ring implements BoundedFifo: every accepted frame is taken  *)
(* once, in order, at most RxDepth are held, and neither a reset of the    *)
(* diagnostics nor a claim, a release or a drop touches the queue.         *)
THEOREM RingImplementsFifo == Spec => ImplementsFifo
<1>1. Init => Fifo!Init
  BY DEF Init, Fifo!Init, Contents
<1>2. RingInv /\ RingInv' /\ [Next]_vars => [Fifo!Next]_(Fifo!vars)
  <2> SUFFICES ASSUME RingInv, RingInv', [Next]_vars PROVE [Fifo!Next]_(Fifo!vars)
    OBVIOUS
  <2>1. CASE queued' = Append(queued, pushed + 1) /\ UNCHANGED taken /\ pushed < MaxFrames
    <3>1. pushed + 1 \in 1 .. MaxFrames
      BY <2>1, ConstAssumption DEF RingInv, TypeOK
    <3>2. Contents' = Append(Contents, pushed + 1) /\ Len(Contents) < RxDepth
      BY <2>1, <3>1, PushPuts
    <3> QED
      BY <2>1, <3>1, <3>2 DEF Fifo!Next, Fifo!Put
  <2>2. CASE RxPop
    <3>1. /\ Contents # <<>> /\ Contents' = Tail(Contents) /\ taken' # <<>>
          /\ taken'[Len(taken')] = Head(Contents)
      BY <2>2, PopGets
    <3> QED
      BY <3>1 DEF Fifo!Next, Fifo!Get
  <2>3. CASE UNCHANGED <<rx, rx_head, rx_count, taken>>
    BY <2>3 DEF Contents, Fifo!vars
  <2>4. ASSUME NEW u \in Users, UserStep(u)
        PROVE  RxPop \/ UNCHANGED <<rx, rx_head, rx_count, taken>>
    BY <2>4 DEF UserStep, ReceiveClaimRx, ReceiveClaimTx, ReceiveUndoRx, ReceivePop,
      ReceiveUndoBoth, Transmit, RxAnswer, RxNoAnswer, TxFill, TxConsumeRelease, TxDrop,
      TxUnused, RxConsumeRelease, RxDrop, ringVars, histVars
  <2> QED
    BY <2>1, <2>2, <2>3, <2>4 DEF Next, RxPush, reset_rx_queue_diagnostics, take_received, vars,
      ringVars, histVars
<1> QED
  BY <1>1, <1>2, RingInit, RingNext, PTL DEF Spec, ImplementsFifo, Fifo!Spec

-----------------------------------------------------------------------------
(* The packet buffers.                                                     *)
(* The count is the number of holders while the buffer is the holders',    *)
(* and nobody holds a buffer that is gone or going.  That a buffer going   *)
(* is not yet gone keeps the heap from handing it out again before its     *)
(* kfree; that the driver has no buffer transmit is still filling makes    *)
(* its pbuf_ref a new holder's.                                            *)
CountExactOf(b) ==
  /\ b \in freeing => live[b]
  /\ live[b] /\ b \notin freeing => ref[b] = Holders(b) /\ Holders(b) > 0
  /\ Holders(b) > 0 => live[b] /\ b \notin freeing
  /\ caller[b] = "filled" => ~driver[b]

CountInv == \A b \in Bufs : CountExactOf(b)

Inside(b) ==
  live[b] => Hdr <= payload[b] /\ payload[b] + len[b] <= Total(asked[b])

-----------------------------------------------------------------------------
(* A remainder is a natural number no larger than what it is taken of: the *)
(* 16-bit malloc_len never exceeds the size that was allocated.            *)
LEMMA RemainderAtMost ==
  ASSUME NEW n \in Nat, NEW m \in Nat \ {0}
  PROVE  n % m \in 0 .. m - 1 /\ n % m <= n
<1>1. n % m \in 0 .. m - 1
  BY SMT
<1>2. CASE n < m
  <2>1. n % m = n
    BY <1>2, SMT
  <2> QED BY <1>1, <2>1
<1>3. CASE n >= m
  BY <1>1, <1>3, SMT
<1> QED BY <1>2, <1>3

LEMMA HoldersCount ==
  ASSUME NEW b \in Bufs
  PROVE  Holders(b) \in 0 .. 3
  BY SMT DEF Holders

-----------------------------------------------------------------------------
LEMMA TypeStep == PbTypeOK /\ [PbNext]_pbVars => PbTypeOK'
<1> SUFFICES ASSUME PbTypeOK, [PbNext]_pbVars PROVE PbTypeOK'
  OBVIOUS
<1> USE PbufAssumption DEF PbTypeOK, CallerSteps
<1>1. CASE \E b \in Bufs : Kfree(b)
  BY <1>1 DEF Kfree, rxVars
<1>2. ASSUME NEW b \in Bufs, TransmitSend(b) PROVE PbTypeOK'
  <2>1. ref' \in [Bufs -> Int]
    BY <1>2 DEF TransmitSend, pbuf_ref
  <2>2. driver' \in [Bufs -> BOOLEAN]
    BY <1>2 DEF TransmitSend
  <2> QED BY <1>2, <2>1, <2>2 DEF TransmitSend, rxVars
<1>3. CASE \E b \in Bufs : TransmitRelease(b)
  BY <1>3 DEF TransmitRelease, pbuf_free, rxVars
<1>4. CASE \E b \in Bufs : DriverDone(b)
  BY <1>4 DEF DriverDone, pbuf_free, rxVars
<1>5. ASSUME NEW b \in Bufs, driverif_input(b) PROVE PbTypeOK'
  <2>1. Counted(received) \in 0 .. CounterMod - 1
        /\ Counted(dropped) \in 0 .. CounterMod - 1
    BY RemainderAtMost DEF Counted
  <2> QED BY <1>5, <2>1 DEF driverif_input, pbuf_free
<1>6. ASSUME NEW b \in Bufs, NEW n \in Lengths, TransmitAlloc(b, n) \/ DriverAlloc(b, n)
      PROVE PbTypeOK'
  <2>1. pbuf_alloc(b, n) /\ n \in 0 .. U16 - 1
    BY <1>6 DEF TransmitAlloc, DriverAlloc
  <2>2. /\ live' \in [Bufs -> BOOLEAN] /\ ref' \in [Bufs -> Int]
        /\ payload' \in [Bufs -> Int]
        /\ len' \in [Bufs -> 0 .. U16 - 1] /\ asked' \in [Bufs -> 0 .. U16 - 1]
    BY <2>1 DEF pbuf_alloc
  <2>3. caller' \in [Bufs -> CallerSteps] /\ input' \in [Bufs -> BOOLEAN]
    BY <1>6 DEF TransmitAlloc, DriverAlloc
  <2> QED BY <1>6, <2>2, <2>3 DEF TransmitAlloc, DriverAlloc, rxVars
<1>7. ASSUME NEW b \in Bufs, NEW size \in Moves, pbuf_header(b, size) PROVE PbTypeOK'
  <2>1. (len[b] + size) % U16 \in 0 .. U16 - 1
    BY <1>7, RemainderAtMost DEF pbuf_header, Room
  <2>2. payload[b] - size \in Int
    OBVIOUS
  <2> QED BY <1>7, <2>1, <2>2 DEF pbuf_header, rxVars
<1>8. CASE TransmitFail
  BY <1>8 DEF TransmitFail, memVars, rxVars
<1>9. CASE \E n \in Netifs : netifapi_netif_add(n) \/ netifapi_netif_remove(n)
  BY <1>9 DEF netifapi_netif_add, netifapi_netif_remove, memVars, rxVars
<1>10. CASE UNCHANGED pbVars
  BY <1>10 DEF pbVars, memVars, rxVars
<1> QED BY <1>1, <1>2, <1>3, <1>4, <1>5, <1>6, <1>7, <1>8, <1>9, <1>10 DEF PbNext

-----------------------------------------------------------------------------
(* A step that leaves a buffer's fields alone keeps its count exact.       *)
LEMMA CountUntouched ==
  ASSUME NEW b \in Bufs, CountExactOf(b),
         live'[b] = live[b], ref'[b] = ref[b], caller'[b] = caller[b],
         driver'[b] = driver[b], input'[b] = input[b],
         (b \in freeing') <=> (b \in freeing)
  PROVE  CountExactOf(b)'
  BY DEF CountExactOf, Holders

(* pbuf_free by a party that lets go at the same step: one holder less,    *)
(* and the buffer is going exactly if that was the last.                   *)
LEMMA FreeByHolder ==
  ASSUME PbTypeOK, NEW b \in Bufs, CountExactOf(b), pbuf_free(b),
         Holders(b) > 0, Holders(b)' = Holders(b) - 1, live' = live,
         caller'[b] = "filled" => ~driver'[b]
  PROVE  CountExactOf(b)'
<1>1. Holders(b) \in 0 .. 3
  BY HoldersCount
<1>2. live[b] /\ b \notin freeing /\ ref[b] = Holders(b)
  BY DEF CountExactOf
<1>3. CASE ref[b] <= 1
  BY <1>1, <1>2, <1>3 DEF pbuf_free, LastReference, CountExactOf, PbTypeOK
<1>4. CASE ~(ref[b] <= 1)
  BY <1>1, <1>2, <1>4 DEF pbuf_free, LastReference, CountExactOf, PbTypeOK
<1> QED BY <1>3, <1>4

LEMMA CountStep == PbTypeOK /\ CountInv /\ [PbNext]_pbVars => CountInv'
<1> SUFFICES ASSUME PbTypeOK, CountInv, [PbNext]_pbVars, NEW c \in Bufs PROVE CountExactOf(c)'
  BY DEF CountInv
<1>c. CountExactOf(c) /\ Holders(c) \in 0 .. 3
  BY HoldersCount DEF CountInv
<1>1. ASSUME NEW b \in Bufs, Kfree(b) PROVE CountExactOf(c)'
  <2>1. CASE b = c
    <3>1. Holders(c) = 0 /\ Holders(c)' = 0 /\ caller'[c] = "none"
      BY <1>1, <1>c, <2>1 DEF Kfree, CountExactOf, Holders
    <3> QED BY <1>1, <2>1, <3>1 DEF Kfree, CountExactOf, PbTypeOK
  <2>2. CASE b # c
    BY <1>1, <1>c, <2>2, CountUntouched DEF Kfree, PbTypeOK
  <2> QED BY <2>1, <2>2
<1>2. ASSUME NEW b \in Bufs, TransmitSend(b) PROVE CountExactOf(c)'
  <2>1. CASE b = c
    <3>1. CASE UNCHANGED <<ref, driver>>
      BY <1>2, <1>c, <2>1, <3>1 DEF TransmitSend, CountExactOf, Holders, PbTypeOK
    <3>2. CASE ref' = pbuf_ref(b) /\ driver' = [driver EXCEPT ![b] = TRUE]
      <4>1. ~driver[c] /\ live[c] /\ c \notin freeing /\ ref[c] = Holders(c)
        BY <1>2, <1>c, <2>1 DEF TransmitSend, CountExactOf, Holders, PbTypeOK
      <4>2. Holders(c)' = Holders(c) + 1
        BY <1>2, <2>1, <3>2, <4>1 DEF TransmitSend, Holders, PbTypeOK
      <4>3. ref'[c] = ref[c] + 1
        BY <2>1, <3>2 DEF pbuf_ref, PbTypeOK
      <4>4. live' = live /\ freeing' = freeing /\ caller'[c] = "sent"
        BY <1>2, <2>1 DEF TransmitSend, PbTypeOK
      <4> QED BY <1>c, <4>1, <4>2, <4>3, <4>4 DEF CountExactOf
    <3> QED BY <1>2, <3>1, <3>2 DEF TransmitSend
  <2>2. CASE b # c
    BY <1>2, <1>c, <2>2, CountUntouched DEF TransmitSend, pbuf_ref, PbTypeOK
  <2> QED BY <2>1, <2>2
<1>3. ASSUME NEW b \in Bufs, TransmitRelease(b) PROVE CountExactOf(c)'
  <2>1. CASE b = c
    <3>1. Holders(c) > 0 /\ Holders(c)' = Holders(c) - 1 /\ live' = live
          /\ (caller'[c] = "filled" => ~driver'[c])
      BY <1>3, <1>c, <2>1 DEF TransmitRelease, Holders, CountExactOf, PbTypeOK
    <3> QED BY <1>3, <1>c, <2>1, <3>1, FreeByHolder DEF TransmitRelease
  <2>2. CASE b # c
    BY <1>3, <1>c, <2>2, CountUntouched DEF TransmitRelease, pbuf_free, PbTypeOK
  <2> QED BY <2>1, <2>2
<1>4. ASSUME NEW b \in Bufs, DriverDone(b) PROVE CountExactOf(c)'
  <2>1. CASE b = c
    <3>1. Holders(c) > 0 /\ Holders(c)' = Holders(c) - 1 /\ live' = live
          /\ (caller'[c] = "filled" => ~driver'[c])
      BY <1>4, <1>c, <2>1 DEF DriverDone, Holders, CountExactOf, PbTypeOK
    <3> QED BY <1>4, <1>c, <2>1, <3>1, FreeByHolder DEF DriverDone
  <2>2. CASE b # c
    BY <1>4, <1>c, <2>2, CountUntouched DEF DriverDone, pbuf_free, PbTypeOK
  <2> QED BY <2>1, <2>2
<1>5. ASSUME NEW b \in Bufs, driverif_input(b) PROVE CountExactOf(c)'
  <2>1. CASE b = c
    <3>1. Holders(c) > 0 /\ Holders(c)' = Holders(c) - 1 /\ live' = live
          /\ (caller'[c] = "filled" => ~driver'[c])
      BY <1>5, <1>c, <2>1 DEF driverif_input, Holders, CountExactOf, PbTypeOK
    <3> QED BY <1>5, <1>c, <2>1, <3>1, FreeByHolder DEF driverif_input
  <2>2. CASE b # c
    BY <1>5, <1>c, <2>2, CountUntouched DEF driverif_input, pbuf_free, PbTypeOK
  <2> QED BY <2>1, <2>2
<1>6. ASSUME NEW b \in Bufs, NEW n \in Lengths, TransmitAlloc(b, n) \/ DriverAlloc(b, n)
      PROVE  CountExactOf(c)'
  <2>1. CASE b = c
    <3>1. Holders(c) = 0 /\ ~driver[c] /\ c \notin freeing
      BY <1>6, <1>c, <2>1 DEF TransmitAlloc, DriverAlloc, pbuf_alloc, CountExactOf, Holders
    <3>2. Holders(c)' = 1 /\ ~driver'[c]
      BY <1>6, <2>1, <3>1 DEF TransmitAlloc, DriverAlloc, Holders, PbTypeOK
    <3> QED BY <1>6, <2>1, <3>1, <3>2 DEF TransmitAlloc, DriverAlloc, pbuf_alloc, CountExactOf,
      PbTypeOK
  <2>2. CASE b # c
    BY <1>6, <1>c, <2>2, CountUntouched DEF TransmitAlloc, DriverAlloc, pbuf_alloc, PbTypeOK
  <2> QED BY <2>1, <2>2
<1>7. ASSUME NEW b \in Bufs, NEW size \in Moves, pbuf_header(b, size) PROVE CountExactOf(c)'
  BY <1>7, <1>c, CountUntouched DEF pbuf_header
<1>8. CASE TransmitFail
  BY <1>8, <1>c, CountUntouched DEF TransmitFail, memVars
<1>9. CASE \E n \in Netifs : netifapi_netif_add(n) \/ netifapi_netif_remove(n)
  BY <1>9, <1>c, CountUntouched DEF netifapi_netif_add, netifapi_netif_remove, memVars
<1>10. CASE UNCHANGED pbVars
  BY <1>10, <1>c, CountUntouched DEF pbVars, memVars
<1> QED BY <1>1, <1>2, <1>3, <1>4, <1>5, <1>6, <1>7, <1>8, <1>9, <1>10 DEF PbNext

-----------------------------------------------------------------------------
(* Only an allocation and pbuf_header move a payload; pbuf_header checks   *)
(* against the wrapped size, which is at most the real one.                *)
LEMMA InsideStep == PbTypeOK /\ PayloadInside /\ [PbNext]_pbVars => PayloadInside'
<1> SUFFICES ASSUME PbTypeOK, PayloadInside, [PbNext]_pbVars, NEW c \in Bufs PROVE Inside(c)'
  BY DEF PayloadInside, Inside
<1>c. Inside(c)
  BY DEF PayloadInside, Inside
<1>1. ASSUME live'[c] => live[c], UNCHANGED <<payload, len, asked>> PROVE Inside(c)'
  BY <1>1, <1>c DEF Inside, Total
<1>2. ASSUME NEW b \in Bufs, NEW n \in Lengths, TransmitAlloc(b, n) \/ DriverAlloc(b, n)
      PROVE  Inside(c)'
  <2> USE PbufAssumption DEF PbTypeOK
  <2>1. pbuf_alloc(b, n) /\ n \in Nat
    BY <1>2 DEF TransmitAlloc, DriverAlloc
  <2>2. CASE b = c
    BY <2>1, <2>2 DEF pbuf_alloc, Inside, Total
  <2>3. CASE b # c
    BY <1>c, <2>1, <2>3 DEF pbuf_alloc, Inside, Total
  <2> QED BY <2>2, <2>3
<1>3. ASSUME NEW b \in Bufs, NEW size \in Moves, pbuf_header(b, size) PROVE Inside(c)'
  <2> USE PbufAssumption DEF PbTypeOK
  <2>1. CASE b # c
    BY <1>3, <1>c, <2>1 DEF pbuf_header, Inside, Total
  <2>2. CASE b = c
    <3>1. Total(asked[c]) \in Nat
      BY DEF Total
    <3>2. malloc_len(c) \in Nat /\ malloc_len(c) <= Total(asked[c])
      <4>1. U16 \in Nat \ {0}
        OBVIOUS
      <4>2. /\ Total(asked[c]) % U16 \in 0 .. U16 - 1
            /\ Total(asked[c]) % U16 <= Total(asked[c])
        BY <3>1, <4>1, RemainderAtMost, Zenon
      <4> QED BY <4>2 DEF malloc_len
    <3>3. len[c] + size \in 0 .. U16 - 1 /\ size \in Int
      BY <1>3, <2>2 DEF pbuf_header, Room
    <3>4. (len[c] + size) % U16 = len[c] + size
      BY <3>3, SMT
    <3>5. payload'[c] = payload[c] - size /\ len'[c] = len[c] + size /\ asked' = asked
      BY <1>3, <2>2, <3>4 DEF pbuf_header
    <3>6. payload[c] - size >= Hdr /\ (payload[c] - size) + (len[c] + size) <= malloc_len(c)
      BY <1>3, <2>2 DEF pbuf_header, Room
    <3> QED BY <3>1, <3>2, <3>3, <3>5, <3>6 DEF Inside, Total
  <2> QED BY <2>1, <2>2
<1>4. CASE \E b \in Bufs : Kfree(b) \/ TransmitSend(b) \/ TransmitRelease(b)
                           \/ DriverDone(b) \/ driverif_input(b)
  BY <1>1, <1>4 DEF Kfree, TransmitSend, TransmitRelease, DriverDone, driverif_input, PbTypeOK
<1>5. CASE TransmitFail \/ \E n \in Netifs : netifapi_netif_add(n) \/ netifapi_netif_remove(n)
  BY <1>1, <1>5 DEF TransmitFail, netifapi_netif_add, netifapi_netif_remove, memVars
<1>6. CASE UNCHANGED pbVars
  BY <1>1, <1>6 DEF pbVars, memVars
<1> QED BY <1>2, <1>3, <1>4, <1>5, <1>6 DEF PbNext

-----------------------------------------------------------------------------
LEMMA InitHolds == PbInit => PbTypeOK /\ CountInv /\ PayloadInside
<1> SUFFICES ASSUME PbInit PROVE PbTypeOK /\ CountInv /\ PayloadInside
  OBVIOUS
<1>1. PbTypeOK
  <2>1. 0 \in 0 .. U16 - 1 /\ 0 \in 0 .. CounterMod - 1
    BY PbufAssumption
  <2>2. len \in [Bufs -> 0 .. U16 - 1] /\ asked \in [Bufs -> 0 .. U16 - 1]
        /\ received \in 0 .. CounterMod - 1 /\ dropped \in 0 .. CounterMod - 1
    BY <2>1 DEF PbInit
  <2>3. /\ live \in [Bufs -> BOOLEAN] /\ ref \in [Bufs -> Int]
        /\ payload \in [Bufs -> Int] /\ caller \in [Bufs -> CallerSteps]
        /\ driver \in [Bufs -> BOOLEAN] /\ input \in [Bufs -> BOOLEAN]
    BY DEF PbInit, CallerSteps
  <2> QED BY <2>2, <2>3 DEF PbInit, PbTypeOK
<1>2. CountInv
  BY DEF PbInit, CountInv, CountExactOf, Holders
<1>3. PayloadInside
  BY DEF PbInit, PayloadInside
<1> QED BY <1>1, <1>2, <1>3

LEMMA InvHolds == PbSpec => [](PbTypeOK /\ CountInv /\ PayloadInside)
<1>1. (PbTypeOK /\ CountInv /\ PayloadInside) /\ [PbNext]_pbVars
        => (PbTypeOK /\ CountInv /\ PayloadInside)'
  BY TypeStep, CountStep, InsideStep
<1> QED BY <1>1, InitHolds, PTL DEF PbSpec

(* pbuf_ref and pbuf_free (netif.rs): the count equals the parties that    *)
(* may still use the buffer, whichever of transmit and the driver's        *)
(* asynchronous send finishes first, and no holder's buffer is freed.      *)
THEOREM CountExact == PbSpec => []RefCountExact
<1>1. PbTypeOK /\ CountInv => RefCountExact
  BY DEF CountInv, CountExactOf, RefCountExact
<1> QED BY <1>1, InvHolds, PTL

(* pbuf_header (netif.rs): however headers are pushed and popped, payload  *)
(* and length stay between the header and the true end of the allocation,  *)
(* although the recorded size is the true one modulo 2^16.                 *)
THEOREM PayloadStaysInside == PbSpec => []PayloadInside
  BY InvHolds, PTL
=============================================================================
