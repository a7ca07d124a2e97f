--------------------------- MODULE MsgQueueProofs ---------------------------
(***************************************************************************)
(* Proofs about MsgQueue, for every capacity and any number of readers,    *)
(* writers and failed raises.                                              *)
(***************************************************************************)
EXTENDS MsgQueue, Integers, Sequences, SequenceTheorems, TLAPS

-----------------------------------------------------------------------------
(* A number has one quotient and one remainder.                            *)
LEMMA ModUnique ==
  ASSUME NEW m \in Nat \ {0}, NEW q \in Int, NEW r \in 0 .. m - 1,
         NEW n \in Int, n = m * q + r
  PROVE  n % m = r
  BY SMT

(* Adding to a wrapped number and wrapping again is adding and wrapping.   *)
LEMMA ModAdd ==
  ASSUME NEW m \in Nat \ {0}, NEW a \in Int, NEW k \in Int
  PROVE  ((a % m) + k) % m = (a + k) % m
<1> DEFINE q == ((a + k) \div m) - (a \div m)
           r == (a + k) % m
<1>1. q \in Int /\ r \in 0 .. m - 1
  BY SMT
<1>2. (a % m) + k = m * q + r
  <2>1. /\ a = (m * (a \div m)) + (a % m)
        /\ a + k = (m * ((a + k) \div m)) + ((a + k) % m)
    BY SMT
  <2>2. /\ a \div m \in Int /\ (a + k) \div m \in Int
        /\ a % m \in Int /\ (a + k) % m \in Int
    BY SMT
  <2>3. m * q = (m * ((a + k) \div m)) - (m * (a \div m))
    BY <2>2, SMT
  <2> QED
    BY <2>1, <2>2, <2>3, SMT
<1> HIDE DEF q, r
<1> DEFINE n == (a % m) + k
<1>3. n \in Int
  BY SMT
<1>4. n = m * q + r
  BY <1>2
<1> HIDE DEF n
<1>5. n % m = r
  BY <1>1, <1>3, <1>4, ModUnique
<1> QED
  BY <1>5 DEF n, r

(* Less than one turn apart, two numbers wrap to different values.         *)
LEMMA ModInjective ==
  ASSUME NEW m \in Nat \ {0}, NEW a \in Int, NEW d \in 1 .. m - 1
  PROVE  (a + d) % m # a % m
<1>1. /\ a = (m * (a \div m)) + (a % m)
      /\ a % m \in 0 .. m - 1 /\ a \div m \in Int
  BY SMT
<1> DEFINE q == a \div m
           r == a % m
<1>2. a = m * q + r /\ r \in 0 .. m - 1 /\ q \in Int
  BY <1>1
<1> HIDE DEF q, r
<1>3. CASE r + d < m
  <2>1. a + d = m * q + (r + d) /\ r + d \in 0 .. m - 1
    BY <1>2, <1>3, SMT
  <2>2. (a + d) % m = r + d
    <3>1. a + d \in Int
      OBVIOUS
    <3> QED
      BY <1>2, <2>1, <3>1, ModUnique
  <2> QED
    BY <1>2, <2>2 DEF r
<1>4. CASE r + d >= m
  <2> DEFINE s == r + d - m
             p == q + 1
  <2>1. a + d = m * p + s /\ s \in 0 .. m - 1 /\ p \in Int /\ s < r
    BY <1>2, <1>4, SMT
  <2> HIDE DEF s, p
  <2>2. (a + d) % m = s
    <3>1. a + d \in Int
      OBVIOUS
    <3> QED
      BY <2>1, <3>1, ModUnique
  <2> QED
    BY <1>2, <2>1, <2>2 DEF r
<1> QED
  BY <1>2, <1>3, <1>4

-----------------------------------------------------------------------------
(* The semaphore's account of the ring is what keeps the pop non-empty.    *)
IInv == TypeOK /\ SemaphoreCountsRing /\ NeverEmptyAfterDown

LEMMA InitInv == Init => IInv
  BY ConstAssumption DEF Init, IInv, TypeOK, SemaphoreCountsRing, NeverEmptyAfterDown, Messages

LEMMA NextInv == IInv /\ [Next]_vars => IInv'
<1> SUFFICES ASSUME IInv, [Next]_vars PROVE IInv'
  OBVIOUS
<1> USE ConstAssumption DEF IInv, SemaphoreCountsRing, NeverEmptyAfterDown, Messages
<1>1. CASE WriteCopy
  <2>1. WriteSlot \in 0 .. cap - 1
    BY DEF WriteSlot, TypeOK
  <2>2. written + 1 \in Messages
    BY <1>1 DEF WriteCopy, TypeOK
  <2> QED
    BY <1>1, <2>1, <2>2 DEF WriteCopy, Full, ItemsAfterWrite, TypeOK
<1>2. CASE WriteRaise
  BY <1>2 DEF WriteRaise, Raised, TypeOK
<1>3. CASE WriteRaiseFails
  BY <1>3 DEF WriteRaiseFails, TypeOK
<1>4. CASE ReadBegin
  BY <1>4 DEF ReadBegin, TypeOK
<1>5. CASE ReadDown
  BY <1>5 DEF ReadDown, TypeOK
<1>6. CASE ReadTimeout
  BY <1>6 DEF ReadTimeout, TypeOK
<1>7. CASE ReadPop
  <2>1. count > 0
    BY <1>7 DEF ReadPop, TypeOK
  <2>2. (head + 1) % cap \in 0 .. cap - 1
    BY DEF TypeOK
  <2>3. ring[head] \in Messages \cup {0}
    BY DEF TypeOK
  <2> QED
    BY <1>7, <2>1, <2>2, <2>3 DEF ReadPop, TypeOK
<1>8. CASE UNCHANGED vars
  BY <1>8 DEF vars, TypeOK
<1> QED
  BY <1>1, <1>2, <1>3, <1>4, <1>5, <1>6, <1>7, <1>8 DEF Next

LEMMA Inductive == Spec => []IInv
  BY InitInv, NextInv, PTL DEF Spec

(* Every queued message is accounted for by the semaphore.                 *)
THEOREM SemaphoreSound == Spec => []SemaphoreCountsRing
<1>1. IInv => SemaphoreCountsRing
  BY DEF IInv
<1> QED
  BY Inductive, <1>1, PTL

(* The branch commented "shouldn't happen after a successful down()" is    *)
(* never taken.                                                            *)
THEOREM PopFindsMessage == Spec => []NeverEmptyAfterDown
<1>1. IInv => NeverEmptyAfterDown
  BY DEF IInv
<1> QED
  BY Inductive, <1>1, PTL

-----------------------------------------------------------------------------
(* The ring implements the bounded queue.                                  *)

(* The slot a write fills is none of the occupied ones.                    *)
LEMMA WriteSlotFresh ==
  ASSUME TypeOK, count < cap, NEW i \in 1 .. count
  PROVE  (head + i - 1) % cap # WriteSlot
<1> DEFINE a == head + i - 1
           d == count - i + 1
<1>1. a \in Int /\ d \in 1 .. cap - 1 /\ a + d = head + count
  BY ConstAssumption DEF TypeOK
<1> HIDE DEF a, d
<1>2. (a + d) % cap # a % cap
  BY <1>1, ModInjective, ConstAssumption
<1> QED
  BY <1>1, <1>2 DEF a, WriteSlot

(* The contents are a sequence of messages, of length count.               *)
LEMMA ContentsSeq ==
  ASSUME TypeOK
  PROVE  /\ Contents \in Seq(Messages \cup {0})
         /\ Len(Contents) = count
         /\ DOMAIN Contents = 1 .. count
<1>1. count \in Nat /\ head \in Nat
  BY ConstAssumption DEF TypeOK
<1>2. ASSUME NEW i \in 1 .. count
      PROVE  ring[(head + i - 1) % cap] \in Messages \cup {0}
  <2>1. (head + i - 1) % cap \in 0 .. cap - 1
    BY <1>1, ConstAssumption
  <2> QED
    BY <2>1 DEF TypeOK
<1>3. Contents \in [1 .. count -> Messages \cup {0}]
  BY <1>2 DEF Contents
<1> QED
  BY <1>1, <1>3

(* A write appends its message.                                            *)
LEMMA WriteAppends ==
  ASSUME TypeOK, WriteCopy
  PROVE  Contents' = Append(Contents, written + 1)
<1> USE ConstAssumption
<1>1. /\ count < cap /\ count' = count + 1 /\ head' = head
      /\ ring' = [ring EXCEPT ![WriteSlot] = written + 1]
      /\ count \in Nat /\ head \in Nat
  BY DEF WriteCopy, Full, TypeOK
<1>2. ASSUME NEW i \in 1 .. count + 1
      PROVE  ring'[(head + i - 1) % cap] = IF i <= count THEN Contents[i] ELSE written + 1
  <2>1. (head + i - 1) % cap \in 0 .. cap - 1 /\ WriteSlot \in 0 .. cap - 1
    BY <1>1 DEF WriteSlot
  <2>2. CASE i <= count
    <3>1. (head + i - 1) % cap # WriteSlot
      <4>1. i \in 1 .. count
        BY <1>1, <2>2
      <4> QED
        BY <1>1, <4>1, WriteSlotFresh
    <3> QED
      BY <1>1, <2>1, <2>2, <3>1 DEF Contents, TypeOK
  <2>3. CASE i = count + 1
    <3>1. (head + i - 1) % cap = WriteSlot
      BY <1>1, <2>3 DEF WriteSlot
    <3> QED
      BY <1>1, <2>1, <2>3, <3>1 DEF TypeOK
  <2> QED
    BY <1>1, <2>2, <2>3
<1>3. Contents' = [i \in 1 .. count + 1 |-> ring'[(head + i - 1) % cap]]
  BY <1>1 DEF Contents
<1>4. Append(Contents, written + 1)
        = [i \in 1 .. count + 1 |-> IF i <= count THEN Contents[i] ELSE written + 1]
  <2>1. Contents \in Seq(Messages \cup {0}) /\ Len(Contents) = count
    BY ContentsSeq
  <2> HIDE DEF Contents
  <2> QED
    BY <1>1, <2>1
<1> QED
  BY <1>2, <1>3, <1>4

(* A pop removes the head.                                                 *)
LEMMA PopRemovesHead ==
  ASSUME TypeOK, ReadPop, count > 0
  PROVE  /\ Contents # <<>>
         /\ Contents' = Tail(Contents)
         /\ lastRead' = Head(Contents)
<1> USE ConstAssumption
<1>1. /\ count' = count - 1 /\ head' = (head + 1) % cap /\ ring' = ring
      /\ count \in Nat /\ head \in Nat
  BY DEF ReadPop, TypeOK
<1>2. ASSUME NEW i \in 1 .. count - 1
      PROVE  (((head + 1) % cap) + i - 1) % cap = (head + i) % cap
  <2> DEFINE a == head + 1
             k == i - 1
  <2>1. a \in Int /\ k \in Int /\ a + k = head + i
    BY <1>1
  <2> HIDE DEF a, k
  <2>2. ((a % cap) + k) % cap = (a + k) % cap
    BY <2>1, ModAdd
  <2>3. (a % cap) + k = ((head + 1) % cap) + i - 1
    BY <1>1 DEF a, k
  <2> QED
    BY <2>1, <2>2, <2>3
<1>3. Contents' = [i \in 1 .. count - 1 |-> ring[(head + i) % cap]]
  BY <1>1, <1>2 DEF Contents
<1>4. Contents \in Seq(Messages \cup {0}) /\ Len(Contents) = count
  BY ContentsSeq
<1>5. /\ Contents # <<>>
      /\ Tail(Contents) \in Seq(Messages \cup {0})
      /\ Len(Tail(Contents)) = count - 1
      /\ \A i \in 1 .. count - 1 : Tail(Contents)[i] = Contents[i + 1]
  <2>1. Contents # <<>>
    BY <1>1, <1>4
  <2> HIDE DEF Contents
  <2> QED
    BY <1>4, <2>1, HeadTailProperties
<1>6. \A i \in 1 .. count - 1 : Contents[i + 1] = ring[(head + i) % cap]
  BY <1>1 DEF Contents
<1>7. /\ Contents' \in Seq(Messages \cup {0})
      /\ Len(Contents') = count - 1
      /\ \A i \in 1 .. count - 1 : Contents'[i] = ring[(head + i) % cap]
  <2>1. \A i \in 1 .. count - 1 : ring[(head + i) % cap] \in Messages \cup {0}
    BY <1>1 DEF TypeOK
  <2>2. Contents' \in [1 .. count - 1 -> Messages \cup {0}]
    BY <1>3, <2>1
  <2>3. count - 1 \in Nat
    BY <1>1
  <2>4. \A i \in 1 .. count - 1 : Contents'[i] = ring[(head + i) % cap]
    BY <1>3
  <2> HIDE DEF Contents
  <2>5. Contents' \in Seq(Messages \cup {0}) /\ Len(Contents') = count - 1
    BY <2>2, <2>3
  <2> QED
    BY <2>4, <2>5
<1>8. \A i \in 1 .. count - 1 : Contents'[i] = Tail(Contents)[i]
  BY <1>5, <1>6, <1>7
<1>9. lastRead' = Head(Contents)
  <2>1. lastRead' = ring[head] /\ head \in 0 .. cap - 1 /\ 1 \in 1 .. count
    BY <1>1 DEF ReadPop, TypeOK
  <2>2. Contents[1] = ring[(head + 1 - 1) % cap]
    BY <2>1 DEF Contents
  <2>3. (head + 1 - 1) % cap = head
    BY <2>1
  <2> HIDE DEF Contents
  <2>4. Head(Contents) = Contents[1]
    BY <1>4, <1>5
  <2> QED
    BY <2>1, <2>2, <2>3, <2>4
<1> HIDE DEF Contents
<1> QED
  BY <1>5, <1>7, <1>8, <1>9, SeqEqual

(* MsgQueue implements BoundedFifo under Contents: every message is        *)
(* delivered once, in order, and at most cap of them are held.             *)
THEOREM QueueImplementsFifo == Spec => ImplementsFifo
<1>1. Init => Fifo!Init
  BY ConstAssumption DEF Init, Fifo!Init, Contents
<1>2. IInv /\ [Next]_vars => [Fifo!Next]_(Fifo!vars)
  <2> SUFFICES ASSUME IInv, [Next]_vars PROVE [Fifo!Next]_(Fifo!vars)
    OBVIOUS
  <2> USE DEF IInv
  <2>1. CASE WriteCopy
    <3>1. Contents' = Append(Contents, written + 1)
      BY <2>1, WriteAppends
    <3>2. written + 1 \in Messages /\ Len(Contents) < cap
      BY <2>1, ConstAssumption DEF WriteCopy, Full, Messages, Contents, TypeOK
    <3>3. Fifo!Put(written + 1)
      BY <2>1, <3>1, <3>2 DEF Fifo!Put, WriteCopy
    <3> QED
      BY <3>2, <3>3 DEF Fifo!Next
  <2>2. CASE ReadPop
    <3>1. count > 0
      BY <2>2, ConstAssumption DEF ReadPop, SemaphoreCountsRing, TypeOK
    <3> QED
      BY <2>2, <3>1, PopRemovesHead DEF Fifo!Next, Fifo!Get
  <2>3. CASE UNCHANGED <<ring, head, count, lastRead>>
    BY <2>3 DEF Contents, Fifo!vars
  <2> QED
    BY <2>1, <2>2, <2>3 DEF Next, WriteRaise, WriteRaiseFails, ReadBegin, ReadDown,
       ReadTimeout, vars
<1> QED
  BY <1>1, <1>2, Inductive, PTL DEF Spec, ImplementsFifo, Fifo!Spec
=============================================================================
