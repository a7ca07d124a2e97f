--------------------------- MODULE SlotQueueProofs ---------------------------
(***************************************************************************)
(* Proofs about SlotQueue, for every number of callback contexts, depth,   *)
(* sequence width and number of calls.                                     *)
(***************************************************************************)
EXTENDS SlotQueue, Integers, Sequences, SequenceTheorems, FiniteSetTheorems, TLAPS

-----------------------------------------------------------------------------
(* A number has one quotient and one remainder.                            *)
LEMMA ModUnique ==
  ASSUME NEW m \in Nat \ {0}, NEW q \in Int, NEW r \in 0 .. m - 1,
         NEW n \in Int, n = m * q + r
  PROVE  n % m = r
  BY SMT

(* fetch_add wraps to the number of calls modulo the width.                *)
LEMMA ModStep ==
  ASSUME NEW m \in Nat \ {0}, NEW n \in Nat
  PROVE  ((n % m) + 1) % m = (n + 1) % m
<1>1. n = (m * (n \div m)) + (n % m) /\ n \div m \in Int /\ n % m \in 0 .. m - 1
  BY SMT
<1> DEFINE q == n \div m
           r == n % m
<1> HIDE DEF q, r
<1>2. n = m * q + r /\ q \in Int /\ r \in 0 .. m - 1
  BY <1>1 DEF q, r
<1>3. CASE r + 1 < m
  <2>1. n + 1 = m * q + (r + 1) /\ r + 1 \in 0 .. m - 1
    BY <1>2, <1>3, SMT
  <2>2. (n + 1) % m = r + 1
    BY <1>2, <2>1, ModUnique
  <2>3. (r + 1) % m = r + 1
    BY <1>2, <1>3, SMT
  <2> QED
    BY <2>2, <2>3 DEF r
<1>4. CASE r + 1 = m
  <2>1. n + 1 = m * (q + 1) + 0 /\ q + 1 \in Int
    BY <1>2, <1>4, SMT
  <2>2. (n + 1) % m = 0
    BY <2>1, ModUnique
  <2>3. m % m = 0
    BY SMT
  <2> QED
    BY <1>4, <2>2, <2>3 DEF r
<1> QED
  BY <1>2, <1>3, <1>4, SMT

(* The wrapping difference of wrapped numbers is that of the numbers.      *)
LEMMA ModDifference ==
  ASSUME NEW m \in Nat \ {0}, NEW a \in Int, NEW b \in Int
  PROVE  ((a % m) - (b % m)) % m = (a - b) % m
<1> DEFINE q == ((a - b) \div m) - (a \div m) + (b \div m)
           r == (a - b) % m
<1>1. q \in Int /\ r \in 0 .. m - 1
  BY SMT
<1>2. (a % m) - (b % m) = m * q + r
  <2>1. /\ a = (m * (a \div m)) + (a % m)
        /\ b = (m * (b \div m)) + (b % m)
        /\ a - b = (m * ((a - b) \div m)) + ((a - b) % m)
    BY SMT
  <2>2. /\ a \div m \in Int /\ b \div m \in Int /\ (a - b) \div m \in Int
        /\ a % m \in Int /\ b % m \in Int /\ (a - b) % m \in Int
    BY SMT
  <2>3. m * q = (m * ((a - b) \div m)) - (m * (a \div m)) + (m * (b \div m))
    BY <2>2, SMT
  <2> QED
    BY <2>1, <2>2, <2>3, SMT
<1> HIDE DEF q, r
<1>3. ((a % m) - (b % m)) % m = r
  <2>1. (a % m) - (b % m) \in Int
    BY SMT
  <2> QED
    BY <1>1, <1>2, <2>1, ModUnique
<1> QED
  BY <1>3 DEF r

-----------------------------------------------------------------------------
(* sequence_before orders two sequence numbers as the calls that drew them *)
(* when fewer than half of the numbers lie between.                        *)
LEMMA SequenceBefore ==
  ASSUME NEW a \in Nat, NEW b \in Nat,
         2 * (a - b) < SeqMod, 2 * (b - a) < SeqMod
  PROVE  sequence_before((a - 1) % SeqMod, (b - 1) % SeqMod) <=> a < b
<1>1. (((a - 1) % SeqMod) - ((b - 1) % SeqMod)) % SeqMod = (a - b) % SeqMod
  <2>1. (((a - 1) % SeqMod) - ((b - 1) % SeqMod)) % SeqMod = ((a - 1) - (b - 1)) % SeqMod
    <3>1. a - 1 \in Int /\ b - 1 \in Int
      OBVIOUS
    <3> QED
      BY <3>1, ModDifference, ConstAssumption
  <2>2. (a - 1) - (b - 1) = a - b
    OBVIOUS
  <2> QED
    BY <2>1, <2>2
<1>2. CASE a >= b
  <2>1. (a - b) % SeqMod = a - b
    BY <1>2, ConstAssumption, SMT
  <2> QED
    BY <1>1, <1>2, <2>1, ConstAssumption, SMT DEF sequence_before
<1>3. CASE a < b
  <2>1. (a - b) % SeqMod = a - b + SeqMod
    BY <1>3, ConstAssumption, SMT
  <2> QED
    BY <1>1, <1>3, <2>1, ConstAssumption, SMT DEF sequence_before
<1> QED
  BY <1>2, <1>3

-----------------------------------------------------------------------------
(* The initial state satisfies the inductive invariant.                    *)
LEMMA InitInv == Init => IInv
<1> SUFFICES ASSUME Init PROVE IInv
  OBVIOUS
<1> USE ConstAssumption DEF Init, Slots, Messages, NoMessage
<1>1. TypeOK
  BY DEF TypeOK, States, ProdSteps, ConsSteps
<1>2. SlotOwnership /\ NoTornMessage /\ Conservation
  BY DEF SlotOwnership, NoTornMessage, Conservation, Owning
<1>3. Numbering /\ InWindow
  <2>1. 0 % SeqMod = 0
    BY SMT
  <2> QED
    BY <2>1 DEF Numbering, InWindow, Flying, Pending
<1>4. WriteProgress /\ ScanProgress /\ OldestOfSnapshot
  BY DEF WriteProgress, ScanProgress, Scanning, OldestOfSnapshot
<1> QED
  BY <1>1, <1>2, <1>3, <1>4 DEF IInv

(* Reject preserves the invariant. *)
LEMMA RejectInv ==
  ASSUME IInv, NEW p \in Producers, Reject(p)
  PROVE  IInv'
<1> USE ConstAssumption DEF Slots, Messages, NoMessage
<1>0. /\ TypeOK /\ SlotOwnership /\ NoTornMessage /\ Conservation
      /\ Numbering /\ InWindow /\ WriteProgress /\ ScanProgress /\ OldestOfSnapshot
  BY DEF IInv
<1>1. TypeOK'
  BY <1>0 DEF Reject, CountDrop, queueVars, prodVars, consVars, histVars,
     TypeOK, States, ProdSteps, ConsSteps
<1>2. SlotOwnership'
  BY <1>0 DEF Reject, CountDrop, queueVars, prodVars, consVars, histVars,
     TypeOK, SlotOwnership, Owning, States
<1>3. NoTornMessage'
  BY <1>0 DEF Reject, CountDrop, queueVars, prodVars, consVars, histVars,
     TypeOK, SlotOwnership, NoTornMessage, Numbering, WriteProgress, Owning, Flying
<1>4. Conservation'
  BY <1>0 DEF Reject, CountDrop, queueVars, prodVars, consVars, histVars,
     TypeOK, SlotOwnership, NoTornMessage, Conservation, Numbering, WriteProgress, Owning, Flying
<1>5. Numbering'
  BY <1>0 DEF Reject, CountDrop, queueVars, prodVars, consVars, histVars,
     TypeOK, Conservation, Numbering, Flying
<1>6. InWindow'
  <2>1. Pending' \subseteq Pending
    BY <1>0 DEF Reject, queueVars, prodVars, consVars, histVars, Pending, Flying, TypeOK
  <2> QED
    BY <1>0, <2>1, <1>5 DEF InWindow, Reject
<1>7. WriteProgress'
  BY <1>0 DEF Reject, CountDrop, queueVars, prodVars, consVars, histVars,
     TypeOK, SlotOwnership, WriteProgress, Owning
<1>8. ScanProgress'
  BY <1>0 DEF Reject, CountDrop, queueVars, prodVars, consVars, histVars,
     TypeOK, SlotOwnership, NoTornMessage, Conservation, ScanProgress, Scanning, Owning
<1>9. OldestOfSnapshot'
  BY <1>0 DEF Reject, CountDrop, queueVars, prodVars, consVars, histVars,
     TypeOK, ScanProgress, Scanning, OldestOfSnapshot
<1> QED
  BY <1>1, <1>2, <1>3, <1>4, <1>5, <1>6, <1>7, <1>8, <1>9 DEF IInv

(* DrawSequence preserves the invariant. *)
LEMMA DrawSequenceInv ==
  ASSUME IInv, NEW p \in Producers, DrawSequence(p)
  PROVE  IInv'
<1> USE ConstAssumption DEF Slots, Messages, NoMessage
<1>0. /\ TypeOK /\ SlotOwnership /\ NoTornMessage /\ Conservation
      /\ Numbering /\ InWindow /\ WriteProgress /\ ScanProgress /\ OldestOfSnapshot
  BY DEF IInv
<1>1. TypeOK'
  BY <1>0 DEF DrawSequence, NextSequence, WithinWindow, queueVars, prodVars, consVars, histVars,
     TypeOK, States, ProdSteps, ConsSteps
<1>2. SlotOwnership'
  <2>1. /\ pc[p] \notin Owning /\ pc'[p] \notin Owning
        /\ \A q \in Producers \ {p} : pc'[q] = pc[q] /\ pslot'[q] = pslot[q]
    BY <1>0 DEF DrawSequence, TypeOK, Owning
  <2> QED
    BY <1>0, <2>1 DEF DrawSequence, consVars, SlotOwnership
<1>3. NoTornMessage'
  BY <1>0 DEF DrawSequence, NextSequence, WithinWindow, queueVars, prodVars, consVars, histVars,
     TypeOK, SlotOwnership, NoTornMessage, Numbering, WriteProgress, Owning, Flying
<1>4. Conservation'
  BY <1>0 DEF DrawSequence, NextSequence, WithinWindow, queueVars, prodVars, consVars, histVars,
     TypeOK, SlotOwnership, NoTornMessage, Conservation, Numbering, WriteProgress, Owning, Flying
<1>5. Numbering'
  <2>1. NextSequence(next_sequence) = (calls + 1) % SeqMod
    <3>1. calls \in Nat
      BY <1>0 DEF TypeOK
    <3>2. ((calls % SeqMod) + 1) % SeqMod = (calls + 1) % SeqMod
      BY <3>1, ModStep
    <3> QED
      BY <1>0, <3>2 DEF Numbering, NextSequence
  <2>2. pseq'[p] = ((calls + 1) - 1) % SeqMod
    BY <1>0 DEF DrawSequence, Numbering, TypeOK
  <2>3. calls' = calls + 1 /\ calls \in Nat /\ accepted' = accepted
    BY <1>0 DEF DrawSequence, TypeOK
  <2>4. /\ pmsg'[p] = calls + 1 /\ next_sequence' = (calls + 1) % SeqMod
        /\ \A q \in Producers \ {p} :
             pmsg'[q] = pmsg[q] /\ pseq'[q] = pseq[q] /\ (Flying(q)' <=> Flying(q))
    BY <1>0, <2>1 DEF DrawSequence, Flying, TypeOK
  <2>5. accepted' \subseteq 1 .. calls'
    BY <1>0, <2>3 DEF Numbering
  <2>6. ASSUME NEW q \in Producers, Flying(q)'
        PROVE  /\ pmsg'[q] \in 1 .. calls' /\ pmsg'[q] \notin accepted'
               /\ pseq'[q] = (pmsg'[q] - 1) % SeqMod
    <3>1. CASE q = p
      BY <1>0, <2>2, <2>3, <2>4, <3>1 DEF Numbering
    <3>2. CASE q # p
      BY <1>0, <2>3, <2>4, <2>6, <3>2 DEF Numbering
    <3> QED
      BY <3>1, <3>2
  <2>7. ASSUME NEW q \in Producers, NEW r \in Producers, q # r, Flying(q)', Flying(r)'
        PROVE  pmsg'[q] # pmsg'[r]
    BY <1>0, <2>3, <2>4, <2>7 DEF Numbering
  <2> QED
    BY <2>3, <2>4, <2>5, <2>6, <2>7 DEF Numbering
<1>6. InWindow'
  <2>1. Pending' \subseteq Pending \cup {calls + 1}
    BY <1>0 DEF DrawSequence, Pending, Flying, TypeOK
  <2>2. Pending \subseteq 1 .. calls
    BY <1>0 DEF Pending, Numbering
  <2>3. \A k \in Pending : 2 * ((calls + 1) - k) < SeqMod
    BY <1>0 DEF DrawSequence, WithinWindow
  <2>4. calls \in Nat
    BY <1>0 DEF TypeOK
  <2>5. ASSUME NEW a \in Pending \cup {calls + 1}, NEW b \in Pending \cup {calls + 1}
        PROVE  2 * (b - a) < SeqMod
    BY <1>0, <2>2, <2>3, <2>4 DEF InWindow
  <2> QED
    BY <2>1, <2>5 DEF InWindow
<1>7. WriteProgress'
  BY <1>0 DEF DrawSequence, NextSequence, WithinWindow, queueVars, prodVars, consVars, histVars,
     TypeOK, SlotOwnership, WriteProgress, Owning
<1>8. ScanProgress'
  BY <1>0 DEF DrawSequence, NextSequence, WithinWindow, queueVars, prodVars, consVars, histVars,
     TypeOK, SlotOwnership, NoTornMessage, Conservation, ScanProgress, Scanning, Owning
<1>9. OldestOfSnapshot'
  BY <1>0 DEF DrawSequence, NextSequence, WithinWindow, queueVars, prodVars, consVars, histVars,
     TypeOK, ScanProgress, Scanning, OldestOfSnapshot
<1> QED
  BY <1>1, <1>2, <1>3, <1>4, <1>5, <1>6, <1>7, <1>8, <1>9 DEF IInv

(* ClaimSlot preserves the invariant. *)
LEMMA ClaimSlotInv ==
  ASSUME IInv, NEW p \in Producers, ClaimSlot(p)
  PROVE  IInv'
<1> USE ConstAssumption DEF Slots, Messages, NoMessage
<1>0. /\ TypeOK /\ SlotOwnership /\ NoTornMessage /\ Conservation
      /\ Numbering /\ InWindow /\ WriteProgress /\ ScanProgress /\ OldestOfSnapshot
  BY DEF IInv
<1>1. TypeOK'
  <2>1. CASE Claimable(pslot[p])
    BY <1>0, <2>1 DEF ClaimSlot, Claimable, consVars, histVars, TypeOK, States, ProdSteps
  <2>2. CASE ~Claimable(pslot[p])
    <3>1. pslot' = [pslot EXCEPT ![p] = pslot[p] + 1] /\ pslot[p] + 1 \in 1 .. Depth + 1
      BY <1>0, <2>2 DEF ClaimSlot, TypeOK
    <3> QED
      BY <1>0, <2>2, <3>1 DEF ClaimSlot, consVars, histVars, TypeOK
  <2> QED
    BY <2>1, <2>2
<1>2. SlotOwnership'
  <2>1. /\ pc[p] \notin Owning /\ pslot[p] \in Slots
        /\ \A q \in Producers \ {p} : pc'[q] = pc[q] /\ pslot'[q] = pslot[q]
    BY <1>0 DEF ClaimSlot, TypeOK, Owning
  <2>2. CASE Claimable(pslot[p])
    <3>1. /\ pc'[p] \in Owning /\ pslot'[p] = pslot[p] /\ state[pslot[p]] = "FREE"
          /\ \A s \in Slots : state'[s] = IF s = pslot[p] THEN "WRITING" ELSE state[s]
      BY <1>0, <2>2 DEF ClaimSlot, Claimable, TypeOK, Owning
    <3> QED
      BY <1>0, <2>1, <3>1 DEF ClaimSlot, consVars, SlotOwnership
  <2>3. CASE ~Claimable(pslot[p])
    <3>1. pc'[p] \notin Owning /\ state' = state
      BY <1>0, <2>1, <2>3 DEF ClaimSlot
    <3> QED
      BY <1>0, <2>1, <3>1 DEF ClaimSlot, consVars, SlotOwnership
  <2> QED
    BY <2>2, <2>3
<1>3. NoTornMessage'
  BY <1>0 DEF ClaimSlot, Claimable, queueVars, prodVars, consVars, histVars,
     TypeOK, SlotOwnership, NoTornMessage, Numbering, WriteProgress, Owning, Flying
<1>4. Conservation'
  <2>1. CASE Claimable(pslot[p])
    <3>1. /\ pslot[p] \in Slots /\ state[pslot[p]] = "FREE"
          /\ \A s \in Slots : state'[s] = IF s = pslot[p] THEN "WRITING" ELSE state[s]
      BY <1>0, <2>1 DEF ClaimSlot, Claimable, TypeOK
    <3> QED
      BY <1>0, <3>1 DEF ClaimSlot, consVars, histVars, Conservation
  <2>2. CASE ~Claimable(pslot[p])
    BY <1>0, <2>2 DEF ClaimSlot, consVars, histVars, Conservation
  <2> QED
    BY <2>1, <2>2
<1>5. Numbering'
  <2>1. \A q \in Producers : Flying(q)' => Flying(q)
    BY <1>0 DEF ClaimSlot, Flying, TypeOK
  <2> QED
    BY <1>0, <2>1 DEF ClaimSlot, histVars, Numbering
<1>6. InWindow'
  <2>1. Pending' \subseteq Pending
    BY <1>0 DEF ClaimSlot, queueVars, prodVars, consVars, histVars, Pending, Flying, TypeOK
  <2> QED
    BY <1>0, <2>1, <1>5 DEF InWindow, ClaimSlot
<1>7. WriteProgress'
  BY <1>0 DEF ClaimSlot, Claimable, queueVars, prodVars, consVars, histVars,
     TypeOK, SlotOwnership, WriteProgress, Owning
<1>8. ScanProgress'
  <2>1. CASE Claimable(pslot[p])
    <3>1. /\ pslot[p] \in Slots /\ state[pslot[p]] = "FREE"
          /\ \A s \in Slots : state'[s] = IF s = pslot[p] THEN "WRITING" ELSE state[s]
      BY <1>0, <2>1 DEF ClaimSlot, Claimable, TypeOK
    <3> QED
      BY <1>0, <3>1 DEF ClaimSlot, consVars, histVars, TypeOK, ScanProgress, Scanning
  <2>2. CASE ~Claimable(pslot[p])
    BY <1>0, <2>2 DEF ClaimSlot, consVars, histVars, TypeOK, ScanProgress, Scanning
  <2> QED
    BY <2>1, <2>2
<1>9. OldestOfSnapshot'
  BY <1>0 DEF ClaimSlot, Claimable, queueVars, prodVars, consVars, histVars,
     TypeOK, ScanProgress, Scanning, OldestOfSnapshot
<1> QED
  BY <1>1, <1>2, <1>3, <1>4, <1>5, <1>6, <1>7, <1>8, <1>9 DEF IInv

(* DropFull preserves the invariant. *)
LEMMA DropFullInv ==
  ASSUME IInv, NEW p \in Producers, DropFull(p)
  PROVE  IInv'
<1> USE ConstAssumption DEF Slots, Messages, NoMessage
<1>0. /\ TypeOK /\ SlotOwnership /\ NoTornMessage /\ Conservation
      /\ Numbering /\ InWindow /\ WriteProgress /\ ScanProgress /\ OldestOfSnapshot
  BY DEF IInv
<1>1. TypeOK'
  BY <1>0 DEF DropFull, CountDrop, queueVars, prodVars, consVars, histVars,
     TypeOK, States, ProdSteps, ConsSteps
<1>2. SlotOwnership'
  BY <1>0 DEF DropFull, CountDrop, queueVars, prodVars, consVars, histVars,
     TypeOK, SlotOwnership, Owning, States
<1>3. NoTornMessage'
  BY <1>0 DEF DropFull, CountDrop, queueVars, prodVars, consVars, histVars,
     TypeOK, SlotOwnership, NoTornMessage, Numbering, WriteProgress, Owning, Flying
<1>4. Conservation'
  BY <1>0 DEF DropFull, CountDrop, queueVars, prodVars, consVars, histVars,
     TypeOK, SlotOwnership, NoTornMessage, Conservation, Numbering, WriteProgress, Owning, Flying
<1>5. Numbering'
  <2>1. \A q \in Producers : Flying(q)' => Flying(q)
    BY <1>0 DEF DropFull, Flying, TypeOK
  <2> QED
    BY <1>0, <2>1 DEF DropFull, histVars, Numbering
<1>6. InWindow'
  <2>1. Pending' \subseteq Pending
    BY <1>0 DEF DropFull, queueVars, prodVars, consVars, histVars, Pending, Flying, TypeOK
  <2> QED
    BY <1>0, <2>1, <1>5 DEF InWindow, DropFull
<1>7. WriteProgress'
  BY <1>0 DEF DropFull, CountDrop, queueVars, prodVars, consVars, histVars,
     TypeOK, SlotOwnership, WriteProgress, Owning
<1>8. ScanProgress'
  BY <1>0 DEF DropFull, CountDrop, queueVars, prodVars, consVars, histVars,
     TypeOK, SlotOwnership, NoTornMessage, Conservation, ScanProgress, Scanning, Owning
<1>9. OldestOfSnapshot'
  BY <1>0 DEF DropFull, CountDrop, queueVars, prodVars, consVars, histVars,
     TypeOK, ScanProgress, Scanning, OldestOfSnapshot
<1> QED
  BY <1>1, <1>2, <1>3, <1>4, <1>5, <1>6, <1>7, <1>8, <1>9 DEF IInv

(* WriteMeta preserves the invariant. *)
LEMMA WriteMetaInv ==
  ASSUME IInv, NEW p \in Producers, WriteMeta(p)
  PROVE  IInv'
<1> USE ConstAssumption DEF Slots, Messages, NoMessage
<1>0. /\ TypeOK /\ SlotOwnership /\ NoTornMessage /\ Conservation
      /\ Numbering /\ InWindow /\ WriteProgress /\ ScanProgress /\ OldestOfSnapshot
  BY DEF IInv
<1>1. TypeOK'
  BY <1>0 DEF WriteMeta, queueVars, prodVars, consVars, histVars,
     TypeOK, States, ProdSteps, ConsSteps
<1>2. SlotOwnership'
  BY <1>0 DEF WriteMeta, queueVars, prodVars, consVars, histVars,
     TypeOK, SlotOwnership, Owning, States
<1>3. NoTornMessage'
  BY <1>0 DEF WriteMeta, queueVars, prodVars, consVars, histVars,
     TypeOK, SlotOwnership, NoTornMessage, Numbering, WriteProgress, Owning, Flying
<1>4. Conservation'
  BY <1>0 DEF WriteMeta, queueVars, prodVars, consVars, histVars,
     TypeOK, SlotOwnership, NoTornMessage, Conservation, Numbering, WriteProgress, Owning, Flying
<1>5. Numbering'
  <2>1. \A q \in Producers : Flying(q)' => Flying(q)
    BY <1>0 DEF WriteMeta, Flying, TypeOK
  <2> QED
    BY <1>0, <2>1 DEF WriteMeta, histVars, Numbering
<1>6. InWindow'
  <2>1. Pending' \subseteq Pending
    BY <1>0 DEF WriteMeta, queueVars, prodVars, consVars, histVars, Pending, Flying, TypeOK
  <2> QED
    BY <1>0, <2>1, <1>5 DEF InWindow, WriteMeta
<1>7. WriteProgress'
  BY <1>0 DEF WriteMeta, queueVars, prodVars, consVars, histVars,
     TypeOK, SlotOwnership, WriteProgress, Owning
<1>8. ScanProgress'
  BY <1>0 DEF WriteMeta, queueVars, prodVars, consVars, histVars,
     TypeOK, SlotOwnership, NoTornMessage, Conservation, ScanProgress, Scanning, Owning
<1>9. OldestOfSnapshot'
  BY <1>0 DEF WriteMeta, queueVars, prodVars, consVars, histVars,
     TypeOK, ScanProgress, Scanning, OldestOfSnapshot
<1> QED
  BY <1>1, <1>2, <1>3, <1>4, <1>5, <1>6, <1>7, <1>8, <1>9 DEF IInv

(* WriteBody preserves the invariant. *)
LEMMA WriteBodyInv ==
  ASSUME IInv, NEW p \in Producers, WriteBody(p)
  PROVE  IInv'
<1> USE ConstAssumption DEF Slots, Messages, NoMessage
<1>0. /\ TypeOK /\ SlotOwnership /\ NoTornMessage /\ Conservation
      /\ Numbering /\ InWindow /\ WriteProgress /\ ScanProgress /\ OldestOfSnapshot
  BY DEF IInv
<1>1. TypeOK'
  BY <1>0 DEF WriteBody, queueVars, prodVars, consVars, histVars,
     TypeOK, States, ProdSteps, ConsSteps
<1>2. SlotOwnership'
  BY <1>0 DEF WriteBody, queueVars, prodVars, consVars, histVars,
     TypeOK, SlotOwnership, Owning, States
<1>3. NoTornMessage'
  BY <1>0 DEF WriteBody, queueVars, prodVars, consVars, histVars,
     TypeOK, SlotOwnership, NoTornMessage, Numbering, WriteProgress, Owning, Flying
<1>4. Conservation'
  <2>1. pslot[p] \in Slots /\ state[pslot[p]] = "WRITING"
    BY <1>0 DEF WriteBody, SlotOwnership, Owning
  <2>2. \A s \in Slots : s # pslot[p] => body'[s] = body[s]
    BY <1>0 DEF WriteBody, TypeOK
  <2> QED
    BY <1>0, <2>1, <2>2 DEF WriteBody, histVars, Conservation
<1>5. Numbering'
  <2>1. \A q \in Producers : Flying(q)' => Flying(q)
    BY <1>0 DEF WriteBody, Flying, TypeOK
  <2> QED
    BY <1>0, <2>1 DEF WriteBody, histVars, Numbering
<1>6. InWindow'
  <2>1. Pending' \subseteq Pending
    BY <1>0 DEF WriteBody, queueVars, prodVars, consVars, histVars, Pending, Flying, TypeOK
  <2> QED
    BY <1>0, <2>1, <1>5 DEF InWindow, WriteBody
<1>7. WriteProgress'
  BY <1>0 DEF WriteBody, queueVars, prodVars, consVars, histVars,
     TypeOK, SlotOwnership, WriteProgress, Owning
<1>8. ScanProgress'
  BY <1>0 DEF WriteBody, queueVars, prodVars, consVars, histVars,
     TypeOK, SlotOwnership, NoTornMessage, Conservation, ScanProgress, Scanning, Owning
<1>9. OldestOfSnapshot'
  BY <1>0 DEF WriteBody, queueVars, prodVars, consVars, histVars,
     TypeOK, ScanProgress, Scanning, OldestOfSnapshot
<1> QED
  BY <1>1, <1>2, <1>3, <1>4, <1>5, <1>6, <1>7, <1>8, <1>9 DEF IInv

(* StoreSequence preserves the invariant. *)
LEMMA StoreSequenceInv ==
  ASSUME IInv, NEW p \in Producers, StoreSequence(p)
  PROVE  IInv'
<1> USE ConstAssumption DEF Slots, Messages, NoMessage
<1>0. /\ TypeOK /\ SlotOwnership /\ NoTornMessage /\ Conservation
      /\ Numbering /\ InWindow /\ WriteProgress /\ ScanProgress /\ OldestOfSnapshot
  BY DEF IInv
<1>1. TypeOK'
  BY <1>0 DEF StoreSequence, DrawnSequence, queueVars, prodVars, consVars, histVars,
     TypeOK, States, ProdSteps, ConsSteps
<1>2. SlotOwnership'
  BY <1>0 DEF StoreSequence, DrawnSequence, queueVars, prodVars, consVars, histVars,
     TypeOK, SlotOwnership, Owning, States
<1>3. NoTornMessage'
  BY <1>0 DEF StoreSequence, DrawnSequence, queueVars, prodVars, consVars, histVars,
     TypeOK, SlotOwnership, NoTornMessage, Numbering, WriteProgress, Owning, Flying
<1>4. Conservation'
  BY <1>0 DEF StoreSequence, DrawnSequence, queueVars, prodVars, consVars, histVars,
     TypeOK, SlotOwnership, NoTornMessage, Conservation, Numbering, WriteProgress, Owning, Flying
<1>5. Numbering'
  <2>1. \A q \in Producers : Flying(q)' => Flying(q)
    BY <1>0 DEF StoreSequence, Flying, TypeOK
  <2> QED
    BY <1>0, <2>1 DEF StoreSequence, histVars, Numbering
<1>6. InWindow'
  <2>1. Pending' \subseteq Pending
    BY <1>0 DEF StoreSequence, queueVars, prodVars, consVars, histVars, Pending, Flying, TypeOK
  <2> QED
    BY <1>0, <2>1, <1>5 DEF InWindow, StoreSequence
<1>7. WriteProgress'
  BY <1>0 DEF StoreSequence, DrawnSequence, queueVars, prodVars, consVars, histVars,
     TypeOK, SlotOwnership, WriteProgress, Owning
<1>8. ScanProgress'
  BY <1>0 DEF StoreSequence, DrawnSequence, queueVars, prodVars, consVars, histVars,
     TypeOK, SlotOwnership, NoTornMessage, Conservation, ScanProgress, Scanning, Owning
<1>9. OldestOfSnapshot'
  BY <1>0 DEF StoreSequence, DrawnSequence, queueVars, prodVars, consVars, histVars,
     TypeOK, ScanProgress, Scanning, OldestOfSnapshot
<1> QED
  BY <1>1, <1>2, <1>3, <1>4, <1>5, <1>6, <1>7, <1>8, <1>9 DEF IInv

(* Publish preserves the invariant. *)
LEMMA PublishInv ==
  ASSUME IInv, NEW p \in Producers, Publish(p)
  PROVE  IInv'
<1> USE ConstAssumption DEF Slots, Messages, NoMessage
<1>0. /\ TypeOK /\ SlotOwnership /\ NoTornMessage /\ Conservation
      /\ Numbering /\ InWindow /\ WriteProgress /\ ScanProgress /\ OldestOfSnapshot
  BY DEF IInv
<1>1. TypeOK'
  <2>1. pmsg[p] \in Messages
    BY <1>0 DEF Publish, Numbering, Flying, TypeOK
  <2> QED
    BY <1>0, <2>1 DEF Publish, consVars, TypeOK, States, ProdSteps
<1>2. SlotOwnership'
  BY <1>0 DEF Publish, queueVars, prodVars, consVars, histVars,
     TypeOK, SlotOwnership, Owning, States
<1>3. NoTornMessage'
  BY <1>0 DEF Publish, queueVars, prodVars, consVars, histVars,
     TypeOK, SlotOwnership, NoTornMessage, Numbering, WriteProgress, Owning, Flying
<1>4. Conservation'
  <2>1. /\ pslot[p] \in Slots /\ state[pslot[p]] = "WRITING" /\ body[pslot[p]] = pmsg[p]
        /\ pmsg[p] \notin accepted
    BY <1>0 DEF Publish, SlotOwnership, WriteProgress, Numbering, Owning, Flying
  <2>2. \A s \in Slots : state'[s] = IF s = pslot[p] THEN "READY" ELSE state[s]
    BY <1>0 DEF Publish, TypeOK
  <2> QED
    BY <1>0, <2>1, <2>2 DEF Publish, Conservation
<1>5. Numbering'
  <2>1. Flying(p) /\ ~Flying(p)'
    BY <1>0 DEF Publish, Flying, TypeOK
  <2>2. \A q \in Producers \ {p} : Flying(q)' <=> Flying(q)
    BY <1>0 DEF Publish, Flying, TypeOK
  <2> QED
    BY <1>0, <2>1, <2>2 DEF Publish, Numbering
<1>6. InWindow'
  <2>1. Pending' \subseteq Pending
    BY <1>0 DEF Publish, queueVars, prodVars, consVars, histVars, Pending, Flying, TypeOK
  <2> QED
    BY <1>0, <2>1, <1>5 DEF InWindow, Publish
<1>7. WriteProgress'
  BY <1>0 DEF Publish, queueVars, prodVars, consVars, histVars,
     TypeOK, SlotOwnership, WriteProgress, Owning
<1>8. ScanProgress'
  <2>1. /\ pslot[p] \in Slots /\ state[pslot[p]] = "WRITING" /\ body[pslot[p]] = pmsg[p]
        /\ pmsg[p] \notin accepted
    BY <1>0 DEF Publish, SlotOwnership, WriteProgress, Numbering, Owning, Flying
  <2>2. \A s \in Slots : state'[s] = IF s = pslot[p] THEN "READY" ELSE state[s]
    BY <1>0 DEF Publish, TypeOK
  <2>3. cpc = "check" \/ Scanning => pmsg[p] \notin snapshot
    BY <1>0, <2>1 DEF ScanProgress, Conservation
  <2>4. oldest # 0 => oldest \in Slots
    BY <1>0 DEF TypeOK
  <2> QED
    BY <1>0, <2>1, <2>2, <2>3, <2>4 DEF Publish, consVars, ScanProgress, Scanning
<1>9. OldestOfSnapshot'
  BY <1>0 DEF Publish, queueVars, prodVars, consVars, histVars,
     TypeOK, ScanProgress, Scanning, OldestOfSnapshot
<1> QED
  BY <1>1, <1>2, <1>3, <1>4, <1>5, <1>6, <1>7, <1>8, <1>9 DEF IInv

(* BeginTake preserves the invariant. *)
LEMMA BeginTakeInv ==
  ASSUME IInv, BeginTake
  PROVE  IInv'
<1> USE ConstAssumption DEF Slots, Messages, NoMessage
<1>0. /\ TypeOK /\ SlotOwnership /\ NoTornMessage /\ Conservation
      /\ Numbering /\ InWindow /\ WriteProgress /\ ScanProgress /\ OldestOfSnapshot
  BY DEF IInv
<1>1. TypeOK'
  <2>1. ReadyMessages \subseteq Messages
    BY <1>0 DEF ReadyMessages, NoTornMessage, TypeOK
  <2> QED
    BY <1>0, <2>1 DEF BeginTake, queueVars, prodVars, TypeOK, ConsSteps
<1>2. SlotOwnership'
  BY <1>0 DEF BeginTake, ReadyMessages, queueVars, prodVars, consVars, histVars,
     TypeOK, SlotOwnership, Owning, States
<1>3. NoTornMessage'
  BY <1>0 DEF BeginTake, ReadyMessages, queueVars, prodVars, consVars, histVars,
     TypeOK, SlotOwnership, NoTornMessage, Numbering, WriteProgress, Owning, Flying
<1>4. Conservation'
  BY <1>0 DEF BeginTake, ReadyMessages, queueVars, prodVars, consVars, histVars,
     TypeOK, SlotOwnership, NoTornMessage, Conservation, Numbering, WriteProgress, Owning, Flying
<1>5. Numbering'
  BY <1>0 DEF BeginTake, ReadyMessages, queueVars, prodVars, consVars, histVars,
     TypeOK, Conservation, Numbering, Flying
<1>6. InWindow'
  <2>1. Pending' \subseteq Pending
    BY <1>0 DEF BeginTake, queueVars, prodVars, consVars, histVars, Pending, Flying, TypeOK
  <2> QED
    BY <1>0, <2>1, <1>5 DEF InWindow, BeginTake
<1>7. WriteProgress'
  BY <1>0 DEF BeginTake, ReadyMessages, queueVars, prodVars, consVars, histVars,
     TypeOK, SlotOwnership, WriteProgress, Owning
<1>8. ScanProgress'
  BY <1>0 DEF BeginTake, ReadyMessages, queueVars, prodVars, consVars, histVars,
     TypeOK, SlotOwnership, NoTornMessage, Conservation, ScanProgress, Scanning, Owning
<1>9. OldestOfSnapshot'
  BY <1>0 DEF BeginTake, ReadyMessages, queueVars, prodVars, consVars, histVars,
     TypeOK, ScanProgress, Scanning, OldestOfSnapshot
<1> QED
  BY <1>1, <1>2, <1>3, <1>4, <1>5, <1>6, <1>7, <1>8, <1>9 DEF IInv

(* CheckWriting preserves the invariant. *)
LEMMA CheckWritingInv ==
  ASSUME IInv, CheckWriting
  PROVE  IInv'
<1> USE ConstAssumption DEF Slots, Messages, NoMessage
<1>0. /\ TypeOK /\ SlotOwnership /\ NoTornMessage /\ Conservation
      /\ Numbering /\ InWindow /\ WriteProgress /\ ScanProgress /\ OldestOfSnapshot
  BY DEF IInv
<1>1. TypeOK'
  BY <1>0 DEF CheckWriting, InSlots, queueVars, prodVars, consVars, histVars,
     TypeOK, States, ProdSteps, ConsSteps
<1>2. SlotOwnership'
  BY <1>0 DEF CheckWriting, InSlots, queueVars, prodVars, consVars, histVars,
     TypeOK, SlotOwnership, Owning, States
<1>3. NoTornMessage'
  BY <1>0 DEF CheckWriting, InSlots, queueVars, prodVars, consVars, histVars,
     TypeOK, SlotOwnership, NoTornMessage, Numbering, WriteProgress, Owning, Flying
<1>4. Conservation'
  BY <1>0 DEF CheckWriting, InSlots, queueVars, prodVars, consVars, histVars,
     TypeOK, SlotOwnership, NoTornMessage, Conservation, Numbering, WriteProgress, Owning, Flying
<1>5. Numbering'
  BY <1>0 DEF CheckWriting, InSlots, queueVars, prodVars, consVars, histVars,
     TypeOK, Conservation, Numbering, Flying
<1>6. InWindow'
  <2>1. Pending' \subseteq Pending
    BY <1>0 DEF CheckWriting, queueVars, prodVars, consVars, histVars, Pending, Flying, TypeOK
  <2> QED
    BY <1>0, <2>1, <1>5 DEF InWindow, CheckWriting
<1>7. WriteProgress'
  BY <1>0 DEF CheckWriting, InSlots, queueVars, prodVars, consVars, histVars,
     TypeOK, SlotOwnership, WriteProgress, Owning
<1>8. ScanProgress'
  <2>1. cslot' \in 1 .. Depth + 1 /\ (cpc' = "scan" => cslot' = 1)
    BY <1>0 DEF CheckWriting, InSlots, TypeOK
  <2>2. cpc' = "scan" => oldest = 0
    BY <1>0 DEF CheckWriting, ScanProgress
  <2> QED
    BY <1>0, <2>1, <2>2 DEF CheckWriting, queueVars, histVars, ScanProgress, Scanning
<1>9. OldestOfSnapshot'
  BY <1>0 DEF CheckWriting, InSlots, queueVars, prodVars, consVars, histVars,
     TypeOK, ScanProgress, Scanning, OldestOfSnapshot
<1> QED
  BY <1>1, <1>2, <1>3, <1>4, <1>5, <1>6, <1>7, <1>8, <1>9 DEF IInv

(* ScanState preserves the invariant. *)
LEMMA ScanStateInv ==
  ASSUME IInv, ScanState
  PROVE  IInv'
<1> USE ConstAssumption DEF Slots, Messages, NoMessage
<1>0. /\ TypeOK /\ SlotOwnership /\ NoTornMessage /\ Conservation
      /\ Numbering /\ InWindow /\ WriteProgress /\ ScanProgress /\ OldestOfSnapshot
  BY DEF IInv
<1>1. TypeOK'
  BY <1>0 DEF ScanState, InSlots, Readable, queueVars, prodVars, consVars, histVars,
     TypeOK, States, ProdSteps, ConsSteps
<1>2. SlotOwnership'
  BY <1>0 DEF ScanState, InSlots, Readable, queueVars, prodVars, consVars, histVars,
     TypeOK, SlotOwnership, Owning, States
<1>3. NoTornMessage'
  BY <1>0 DEF ScanState, InSlots, Readable, queueVars, prodVars, consVars, histVars,
     TypeOK, SlotOwnership, NoTornMessage, Numbering, WriteProgress, Owning, Flying
<1>4. Conservation'
  BY <1>0 DEF ScanState, InSlots, Readable, queueVars, prodVars, consVars, histVars,
     TypeOK, SlotOwnership, NoTornMessage, Conservation, Numbering, WriteProgress, Owning, Flying
<1>5. Numbering'
  BY <1>0 DEF ScanState, InSlots, Readable, queueVars, prodVars, consVars, histVars,
     TypeOK, Conservation, Numbering, Flying
<1>6. InWindow'
  <2>1. Pending' \subseteq Pending
    BY <1>0 DEF ScanState, queueVars, prodVars, consVars, histVars, Pending, Flying, TypeOK
  <2> QED
    BY <1>0, <2>1, <1>5 DEF InWindow, ScanState
<1>7. WriteProgress'
  BY <1>0 DEF ScanState, InSlots, Readable, queueVars, prodVars, consVars, histVars,
     TypeOK, SlotOwnership, WriteProgress, Owning
<1>8. ScanProgress'
  <2>1. CASE InSlots(cslot) /\ Readable(cslot)
    BY <1>0, <2>1 DEF ScanState, InSlots, Readable, queueVars, histVars, TypeOK, ScanProgress, Scanning
  <2>2. CASE InSlots(cslot) /\ ~Readable(cslot)
    <3>1. cslot \in Slots /\ state[cslot] # "READY" /\ cpc = "scan" /\ cpc' = "scan" /\ cslot' = cslot + 1
      BY <1>0, <2>2 DEF ScanState, InSlots, Readable, TypeOK
    <3>2. \A s \in Slots : s < cslot + 1 /\ state[s] = "READY" => s < cslot
      BY <3>1
    <3> QED
      BY <1>0, <3>1, <3>2 DEF ScanState, queueVars, histVars, ScanProgress, Scanning
  <2>3. CASE ~InSlots(cslot)
    <3>1. cslot = Depth + 1
      BY <1>0, <2>3 DEF InSlots, TypeOK
    <3> QED
      BY <1>0, <2>3, <3>1 DEF ScanState, queueVars, histVars, TypeOK, ScanProgress, Scanning
  <2> QED
    BY <2>1, <2>2, <2>3
<1>9. OldestOfSnapshot'
  BY <1>0 DEF ScanState, InSlots, Readable, queueVars, prodVars, consVars, histVars,
     TypeOK, ScanProgress, Scanning, OldestOfSnapshot
<1> QED
  BY <1>1, <1>2, <1>3, <1>4, <1>5, <1>6, <1>7, <1>8, <1>9 DEF IInv

(* ScanSequence preserves the invariant. *)
LEMMA ScanSequenceInv ==
  ASSUME IInv, ScanSequence
  PROVE  IInv'
<1> USE ConstAssumption DEF Slots, Messages, NoMessage
<1>0. /\ TypeOK /\ SlotOwnership /\ NoTornMessage /\ Conservation
      /\ Numbering /\ InWindow /\ WriteProgress /\ ScanProgress /\ OldestOfSnapshot
  BY DEF IInv
<1>1. TypeOK'
  <2>1. sequence[cslot] \in 0 .. SeqMod - 1
    BY <1>0 DEF ScanSequence, ScanProgress, TypeOK
  <2>2. cslot \in Slots
    BY <1>0 DEF ScanSequence, ScanProgress
  <2> QED
    BY <1>0, <2>1, <2>2 DEF ScanSequence, queueVars, prodVars, histVars, TypeOK, ConsSteps
<1>2. SlotOwnership'
  BY <1>0 DEF ScanSequence, InSlots, queueVars, prodVars, consVars, histVars,
     TypeOK, SlotOwnership, Owning, States
<1>3. NoTornMessage'
  BY <1>0 DEF ScanSequence, InSlots, queueVars, prodVars, consVars, histVars,
     TypeOK, SlotOwnership, NoTornMessage, Numbering, WriteProgress, Owning, Flying
<1>4. Conservation'
  BY <1>0 DEF ScanSequence, InSlots, queueVars, prodVars, consVars, histVars,
     TypeOK, SlotOwnership, NoTornMessage, Conservation, Numbering, WriteProgress, Owning, Flying
<1>5. Numbering'
  BY <1>0 DEF ScanSequence, InSlots, queueVars, prodVars, consVars, histVars,
     TypeOK, Conservation, Numbering, Flying
<1>6. InWindow'
  <2>1. Pending' \subseteq Pending
    BY <1>0 DEF ScanSequence, queueVars, prodVars, consVars, histVars, Pending, Flying, TypeOK
  <2> QED
    BY <1>0, <2>1, <1>5 DEF InWindow, ScanSequence
<1>7. WriteProgress'
  BY <1>0 DEF ScanSequence, InSlots, queueVars, prodVars, consVars, histVars,
     TypeOK, SlotOwnership, WriteProgress, Owning
<1>8. ScanProgress'
  <2> DEFINE pick == oldest = 0 \/ sequence_before(sequence[cslot], oldestSeq)
  <2>1. cslot \in Slots /\ state[cslot] = "READY" /\ cslot' = cslot + 1 /\ cpc' = "scan"
    BY <1>0 DEF ScanSequence, ScanProgress
  <2>2. oldest # 0 => oldest \in Slots /\ state[oldest] = "READY" /\ oldestSeq = sequence[oldest]
    BY <1>0 DEF ScanSequence, ScanProgress, Scanning, TypeOK
  <2>3. \A s \in Slots : s < cslot /\ state[s] = "READY" /\ body[s] \in snapshot =>
          oldest # 0 /\ body[oldest] <= body[s]
    BY <1>0 DEF ScanSequence, ScanProgress, Scanning
  <2>4. \A m \in snapshot : \E s \in Slots : state[s] = "READY" /\ body[s] = m
    BY <1>0 DEF ScanSequence, ScanProgress, Scanning
  <2>5. /\ oldest' = IF pick THEN cslot ELSE oldest
        /\ oldestSeq' = IF pick THEN sequence[cslot] ELSE oldestSeq
        /\ UNCHANGED <<state, body, sequence, snapshot>>
    BY <1>0 DEF ScanSequence, queueVars, histVars
  <2>6. oldest # 0 => (pick <=> body[cslot] < body[oldest])
    <3> SUFFICES ASSUME oldest # 0 PROVE pick <=> body[cslot] < body[oldest]
      OBVIOUS
    <3>1. body[cslot] \in Pending /\ body[oldest] \in Pending
      BY <1>0, <2>1, <2>2 DEF Conservation, Pending
    <3>2. body[cslot] \in Nat /\ body[oldest] \in Nat
      BY <1>0, <2>1, <2>2 DEF TypeOK
    <3>3. /\ 2 * (body[cslot] - body[oldest]) < SeqMod
          /\ 2 * (body[oldest] - body[cslot]) < SeqMod
      BY <1>0, <3>1 DEF InWindow
    <3>4. /\ sequence[cslot] = (body[cslot] - 1) % SeqMod
          /\ oldestSeq = (body[oldest] - 1) % SeqMod
      BY <1>0, <2>1, <2>2 DEF NoTornMessage
    <3> QED
      BY <3>2, <3>3, <3>4, SequenceBefore
  <2> HIDE DEF pick
  <2>7. ASSUME NEW s \in Slots, s < cslot + 1, state[s] = "READY", body[s] \in snapshot
        PROVE  oldest' # 0 /\ body[oldest'] <= body[s]
    <3>1. /\ s < cslot \/ s = cslot
          /\ body[s] \in Nat /\ body[cslot] \in Nat
          /\ oldest # 0 => body[oldest] \in Nat
      BY <1>0, <2>1, <2>2, <2>7 DEF TypeOK
    <3>2. CASE oldest = 0
      BY <2>1, <2>3, <2>5, <2>7, <3>1, <3>2 DEF pick
    <3>3. CASE oldest # 0
      BY <2>1, <2>3, <2>5, <2>6, <2>7, <3>1, <3>3
    <3> QED
      BY <3>2, <3>3
  <2>8. oldest' # 0 => state[oldest'] = "READY" /\ oldestSeq' = sequence[oldest']
    BY <2>1, <2>2, <2>5
  <2> QED
    BY <2>1, <2>4, <2>5, <2>7, <2>8 DEF ScanProgress, Scanning
<1>9. OldestOfSnapshot'
  BY <1>0 DEF ScanSequence, InSlots, queueVars, prodVars, consVars, histVars,
     TypeOK, ScanProgress, Scanning, OldestOfSnapshot
<1> QED
  BY <1>1, <1>2, <1>3, <1>4, <1>5, <1>6, <1>7, <1>8, <1>9 DEF IInv

(* TakeOldest preserves the invariant. *)
LEMMA TakeOldestInv ==
  ASSUME IInv, TakeOldest
  PROVE  IInv'
<1> USE ConstAssumption DEF Slots, Messages, NoMessage
<1>0. /\ TypeOK /\ SlotOwnership /\ NoTornMessage /\ Conservation
      /\ Numbering /\ InWindow /\ WriteProgress /\ ScanProgress /\ OldestOfSnapshot
  BY DEF IInv
<1>1. TypeOK'
  <2>1. oldest \in Slots /\ body[oldest] \in Messages
    BY <1>0 DEF TakeOldest, ScanProgress, NoTornMessage, TypeOK
  <2> QED
    BY <1>0, <2>1 DEF TakeOldest, prodVars, TypeOK, States, ConsSteps
<1>2. SlotOwnership'
  BY <1>0 DEF TakeOldest, queueVars, prodVars, consVars, histVars,
     TypeOK, SlotOwnership, Owning, States
<1>3. NoTornMessage'
  BY <1>0 DEF TakeOldest, queueVars, prodVars, consVars, histVars,
     TypeOK, SlotOwnership, NoTornMessage, Numbering, WriteProgress, Owning, Flying
<1>4. Conservation'
  <2>1. oldest \in Slots /\ state[oldest] = "READY"
    BY <1>0 DEF TakeOldest, ScanProgress, TypeOK
  <2>2. \A s \in Slots : state'[s] = IF s = oldest THEN "READING" ELSE state[s]
    BY <1>0 DEF TakeOldest, TypeOK
  <2> QED
    BY <1>0, <2>1, <2>2 DEF TakeOldest, Conservation
<1>5. Numbering'
  BY <1>0 DEF TakeOldest, prodVars, Numbering, Flying
<1>6. InWindow'
  <2>1. Pending' \subseteq Pending
    BY <1>0 DEF TakeOldest, queueVars, prodVars, consVars, histVars, Pending, Flying, TypeOK
  <2> QED
    BY <1>0, <2>1, <1>5 DEF InWindow, TakeOldest
<1>7. WriteProgress'
  BY <1>0 DEF TakeOldest, queueVars, prodVars, consVars, histVars,
     TypeOK, SlotOwnership, WriteProgress, Owning
<1>8. ScanProgress'
  BY <1>0 DEF TakeOldest, queueVars, prodVars, consVars, histVars,
     TypeOK, SlotOwnership, NoTornMessage, Conservation, ScanProgress, Scanning, Owning
<1>9. OldestOfSnapshot'
  BY <1>0 DEF TakeOldest, queueVars, prodVars, consVars, histVars,
     TypeOK, ScanProgress, Scanning, OldestOfSnapshot
<1> QED
  BY <1>1, <1>2, <1>3, <1>4, <1>5, <1>6, <1>7, <1>8, <1>9 DEF IInv

(* ReleaseSlot preserves the invariant. *)
LEMMA ReleaseSlotInv ==
  ASSUME IInv, ReleaseSlot
  PROVE  IInv'
<1> USE ConstAssumption DEF Slots, Messages, NoMessage
<1>0. /\ TypeOK /\ SlotOwnership /\ NoTornMessage /\ Conservation
      /\ Numbering /\ InWindow /\ WriteProgress /\ ScanProgress /\ OldestOfSnapshot
  BY DEF IInv
<1>1. TypeOK'
  BY <1>0 DEF ReleaseSlot, Released, queueVars, prodVars, consVars, histVars,
     TypeOK, States, ProdSteps, ConsSteps
<1>2. SlotOwnership'
  BY <1>0 DEF ReleaseSlot, Released, queueVars, prodVars, consVars, histVars,
     TypeOK, SlotOwnership, Owning, States
<1>3. NoTornMessage'
  BY <1>0 DEF ReleaseSlot, Released, queueVars, prodVars, consVars, histVars,
     TypeOK, SlotOwnership, NoTornMessage, Numbering, WriteProgress, Owning, Flying
<1>4. Conservation'
  BY <1>0 DEF ReleaseSlot, Released, queueVars, prodVars, consVars, histVars,
     TypeOK, SlotOwnership, NoTornMessage, Conservation, Numbering, WriteProgress, Owning, Flying
<1>5. Numbering'
  BY <1>0 DEF ReleaseSlot, Released, queueVars, prodVars, consVars, histVars,
     TypeOK, Conservation, Numbering, Flying
<1>6. InWindow'
  <2>1. Pending' \subseteq Pending
    BY <1>0 DEF ReleaseSlot, queueVars, prodVars, consVars, histVars, Pending, Flying, TypeOK
  <2> QED
    BY <1>0, <2>1, <1>5 DEF InWindow, ReleaseSlot
<1>7. WriteProgress'
  BY <1>0 DEF ReleaseSlot, Released, queueVars, prodVars, consVars, histVars,
     TypeOK, SlotOwnership, WriteProgress, Owning
<1>8. ScanProgress'
  BY <1>0 DEF ReleaseSlot, Released, queueVars, prodVars, consVars, histVars,
     TypeOK, SlotOwnership, NoTornMessage, Conservation, ScanProgress, Scanning, Owning
<1>9. OldestOfSnapshot'
  BY <1>0 DEF ReleaseSlot, Released, queueVars, prodVars, consVars, histVars,
     TypeOK, ScanProgress, Scanning, OldestOfSnapshot
<1> QED
  BY <1>1, <1>2, <1>3, <1>4, <1>5, <1>6, <1>7, <1>8, <1>9 DEF IInv

(* Every step of the specification preserves the invariant.                *)
LEMMA NextInv == IInv /\ [Next]_vars => IInv'
<1> SUFFICES ASSUME IInv, [Next]_vars PROVE IInv'
  OBVIOUS
<1>1. CASE \E p \in Producers : Enqueue(p)
  <2>1. PICK p \in Producers : Enqueue(p)
    BY <1>1
  <2> QED
    BY <2>1, RejectInv, DrawSequenceInv, ClaimSlotInv, DropFullInv, WriteMetaInv,
       WriteBodyInv, StoreSequenceInv, PublishInv DEF Enqueue
<1>2. CASE Take
  BY <1>2, BeginTakeInv, CheckWritingInv, ScanStateInv, ScanSequenceInv,
     TakeOldestInv, ReleaseSlotInv DEF Take
<1>3. CASE UNCHANGED vars
  BY <1>3 DEF IInv, vars, queueVars, prodVars, consVars, histVars,
     TypeOK, SlotOwnership, NoTornMessage, Conservation, Numbering, InWindow, WriteProgress,
     ScanProgress, OldestOfSnapshot, Scanning, Pending, Flying
<1> QED
  BY <1>1, <1>2, <1>3 DEF Next

LEMMA Inductive == Spec => []IInv
  BY InitInv, NextInv, PTL DEF Spec

-----------------------------------------------------------------------------
(* The queue's variables keep their types.                                 *)
THEOREM TypeCorrect == Spec => []TypeOK
<1>1. IInv => TypeOK
  BY DEF IInv
<1> QED
  BY Inductive, <1>1, PTL

(* WRITING and READING are exclusive: the SAFETY comments of the slots.    *)
THEOREM OwnershipExclusive == Spec => []SlotOwnership
<1>1. IInv => SlotOwnership
  BY DEF IInv
<1> QED
  BY Inductive, <1>1, PTL

(* A message is read whole, under the sequence its call drew.              *)
THEOREM MessagesWhole == Spec => []NoTornMessage
<1>1. IInv => NoTornMessage
  BY DEF IInv
<1> QED
  BY Inductive, <1>1, PTL

(* An accepted message is neither lost nor delivered twice.                *)
THEOREM MessagesConserved == Spec => []Conservation
<1>1. IInv => Conservation
  BY DEF IInv
<1> QED
  BY Inductive, <1>1, PTL

(* The exchange that ends take_oldest never meets a slot already taken.    *)
THEOREM TakeNeverFails == Spec => []TakeSucceeds
<1>1. IInv => TakeSucceeds
  BY DEF IInv, ScanProgress, Scanning, TakeSucceeds
<1> QED
  BY Inductive, <1>1, PTL

(* take_oldest passes over no message that was READY when it began, wrap   *)
(* of the sequence numbers included.                                       *)
THEOREM OldestTaken == Spec => []OldestOfSnapshot
<1>1. IInv => OldestOfSnapshot
  BY DEF IInv
<1> QED
  BY Inductive, <1>1, PTL

-----------------------------------------------------------------------------
(* The callbacks under way are finitely many, since each began once.       *)
InFlight == {p \in Producers : Flying(p)}

AccountInv == IsFiniteSet(InFlight) /\ CallsAccounted

LEMMA AccountedNumbers ==
  ASSUME TypeOK, Numbering, IsFiniteSet(InFlight)
  PROVE  /\ calls \in Int /\ rejected \in Int /\ dropped \in Int
         /\ Cardinality(InFlight) \in Int
         /\ IsFiniteSet(accepted) /\ Cardinality(accepted) \in Int
<1>1. calls \in Int /\ rejected \in Int /\ dropped \in Int
  BY ConstAssumption DEF TypeOK
<1>2. accepted \in SUBSET (1 .. calls)
  BY DEF Numbering
<1>3. IsFiniteSet(1 .. calls)
  BY <1>1, FS_Interval
<1>4. IsFiniteSet(accepted)
  BY <1>2, <1>3, FS_Subset
<1> QED
  BY <1>1, <1>4, FS_CardinalityType

LEMMA AccountInit == Init => AccountInv
<1> SUFFICES ASSUME Init PROVE AccountInv
  OBVIOUS
<1>1. InFlight = {} /\ accepted = {}
  BY DEF Init, InFlight, Flying
<1>2. calls = 0 /\ rejected = 0 /\ dropped = 0
  BY DEF Init
<1> QED
  BY <1>1, <1>2, FS_EmptySet DEF AccountInv, CallsAccounted, InFlight

LEMMA AccountNext == IInv /\ AccountInv /\ [Next]_vars => AccountInv'
<1> SUFFICES ASSUME IInv, AccountInv, [Next]_vars PROVE AccountInv'
  OBVIOUS
<1> USE DEF CountDrop
<1>1. /\ calls \in Int /\ rejected \in Int /\ dropped \in Int
      /\ IsFiniteSet(InFlight) /\ Cardinality(InFlight) \in Int
      /\ IsFiniteSet(accepted) /\ Cardinality(accepted) \in Int
      /\ calls + rejected = Cardinality(accepted) + dropped + Cardinality(InFlight)
      /\ pc \in [Producers -> ProdSteps]
  BY AccountedNumbers DEF IInv, AccountInv, CallsAccounted, InFlight, TypeOK
<1>2. ASSUME NEW p \in Producers, Reject(p) PROVE AccountInv'
  <2>1. /\ rejected' = rejected + 1 /\ dropped' = dropped + 1
        /\ UNCHANGED <<calls, accepted, pc>>
    BY <1>2 DEF Reject, prodVars
  <2>2. InFlight' = InFlight
    BY <2>1 DEF InFlight, Flying
  <2>3. calls' + rejected' = Cardinality(accepted') + dropped' + Cardinality(InFlight')
    BY <1>1, <2>1, <2>2
  <2>4. IsFiniteSet(InFlight')
    BY <1>1, <2>2
  <2> QED
    BY <2>3, <2>4 DEF AccountInv, CallsAccounted, InFlight
(* A call that has drawn its number is in flight.                          *)
<1>3. ASSUME NEW p \in Producers, DrawSequence(p) PROVE AccountInv'
  <2>1. /\ calls' = calls + 1 /\ UNCHANGED <<rejected, dropped, accepted>>
        /\ pc[p] = "idle" /\ pc' = [pc EXCEPT ![p] = "claim"]
    BY <1>3 DEF DrawSequence
  <2>2. p \notin InFlight /\ InFlight' = InFlight \cup {p}
    BY <1>1, <2>1 DEF InFlight, Flying
  <2>3. IsFiniteSet(InFlight') /\ Cardinality(InFlight') = Cardinality(InFlight) + 1
    BY <1>1, <2>2, FS_AddElement
  <2> QED
    BY <1>1, <2>1, <2>3 DEF AccountInv, CallsAccounted, InFlight
(* One that found no slot, or has published, is not any more.              *)
<1>4. ASSUME NEW p \in Producers, DropFull(p) PROVE AccountInv'
  <2>1. /\ dropped' = dropped + 1 /\ UNCHANGED <<calls, rejected, accepted>>
        /\ pc[p] # "idle" /\ pc' = [pc EXCEPT ![p] = "idle"]
    BY <1>4 DEF DropFull, histVars
  <2>2. p \in InFlight /\ InFlight' = InFlight \ {p}
    BY <1>1, <2>1 DEF InFlight, Flying
  <2>3. IsFiniteSet(InFlight') /\ Cardinality(InFlight') = Cardinality(InFlight) - 1
    BY <1>1, <2>2, FS_RemoveElement
  <2> QED
    BY <1>1, <2>1, <2>3 DEF AccountInv, CallsAccounted, InFlight
<1>5. ASSUME NEW p \in Producers, Publish(p) PROVE AccountInv'
  <2>1. /\ accepted' = accepted \cup {pmsg[p]} /\ UNCHANGED <<calls, rejected, dropped>>
        /\ pc[p] # "idle" /\ pc' = [pc EXCEPT ![p] = "idle"]
    BY <1>5 DEF Publish
  <2>2. p \in InFlight /\ InFlight' = InFlight \ {p}
    BY <1>1, <2>1 DEF InFlight, Flying
  <2>3. IsFiniteSet(InFlight') /\ Cardinality(InFlight') = Cardinality(InFlight) - 1
    BY <1>1, <2>2, FS_RemoveElement
  <2>4. pmsg[p] \notin accepted
    BY <2>1 DEF IInv, Numbering, Flying
  <2>5. Cardinality(accepted') = Cardinality(accepted) + 1
    BY <1>1, <2>1, <2>4, FS_AddElement
  <2> QED
    BY <1>1, <2>1, <2>3, <2>5 DEF AccountInv, CallsAccounted, InFlight
<1>6. ASSUME NEW p \in Producers,
             ClaimSlot(p) \/ WriteMeta(p) \/ WriteBody(p) \/ StoreSequence(p)
      PROVE  AccountInv'
  <2>1. UNCHANGED <<calls, rejected, dropped, accepted>>
    BY <1>6 DEF ClaimSlot, WriteMeta, WriteBody, StoreSequence, histVars
  <2>2. /\ pc[p] # "idle"
        /\ pc' = pc \/ \E next \in {"meta", "body", "seq", "publish"} :
                         pc' = [pc EXCEPT ![p] = next]
    BY <1>6 DEF ClaimSlot, WriteMeta, WriteBody, StoreSequence
  <2>3. InFlight' = InFlight
    BY <1>1, <2>2 DEF InFlight, Flying
  <2> QED
    BY <1>1, <2>1, <2>3 DEF AccountInv, CallsAccounted, InFlight
<1>7. CASE Take \/ UNCHANGED vars
  <2>1. UNCHANGED <<calls, rejected, dropped, accepted, pc>>
    BY <1>7 DEF Take, BeginTake, CheckWriting, ScanState, ScanSequence, TakeOldest,
                ReleaseSlot, vars, queueVars, prodVars, histVars
  <2>2. InFlight' = InFlight
    BY <2>1 DEF InFlight, Flying
  <2> QED
    BY <1>1, <2>1, <2>2 DEF AccountInv, CallsAccounted, InFlight
<1> QED
  BY <1>2, <1>3, <1>4, <1>5, <1>6, <1>7 DEF Next, Enqueue

(* Every call was published, counted as dropped or is still under way,     *)
(* also when several callbacks drop at once: the counter that poll reports. *)
THEOREM CallsCounted == Spec => []CallsAccounted
<1>1. AccountInv => CallsAccounted
  BY DEF AccountInv
<1> QED
  BY Inductive, AccountInit, AccountNext, <1>1, PTL DEF Spec

(* Every call ends as a message in a slot or with the runner, as a counted *)
(* drop, or is under way: enqueue, take_oldest and the guard's Drop.       *)
THEOREM CallsAndMessages == Spec => []MessagesAccounted
BY CallsCounted, MessagesConserved, PTL DEF MessagesAccounted
=============================================================================
