------------------------------ MODULE MsgQueue ------------------------------
(***************************************************************************)
(* osal_msg_queue (chips/ws63/rf/src/osal_queue.rs): a ring buffer under   *)
(* critical sections, and a counting semaphore, raised outside of them,    *)
(* that blocks readers.  Readers and writers are interchangeable, so a     *)
(* group of them at one point of the code is represented by its size.      *)
(* A message is the ordinal of the write that carries it.                  *)
(***************************************************************************)
EXTENDS Integers, Sequences

CONSTANTS
  cap,           \* queue_len
  MaxWrites,     \* bound: successful writes
  MaxReaders,    \* bound: readers inside osal_msg_queue_read_copy
  MaxUpFailures  \* bound: Semaphore::up calls that return an error

ASSUME ConstAssumption ==
  /\ cap \in Nat \ {0}
  /\ MaxWrites \in Nat /\ MaxReaders \in Nat /\ MaxUpFailures \in Nat

VARIABLES
  ring, head, count,   \* the MsgQueue
  items,               \* the semaphore's count
  raising,             \* writers past the critical section, before up()
  waiting,             \* readers inside down_timeout
  acquired,            \* readers past a successful down, before the pop
  upFailures,          \* history: up() errors
  written,             \* history: messages put into the ring
  lastRead,            \* history: the message read last
  emptyPops            \* history: pops that found the ring empty

vars == <<ring, head, count, items, raising, waiting, acquired, upFailures,
          written, lastRead, emptyPops>>

Messages == 1 .. MaxWrites

TypeOK ==
  /\ ring \in [0 .. cap - 1 -> Messages \cup {0}]
  /\ head \in 0 .. cap - 1
  /\ count \in 0 .. cap
  /\ items \in Nat
  /\ raising \in Nat
  /\ waiting \in Nat
  /\ acquired \in Nat
  /\ upFailures \in Nat
  /\ written \in 0 .. MaxWrites
  /\ lastRead \in Messages \cup {0}
  /\ emptyPops \in Nat

(* osal_msg_queue_create                                                   *)
Init ==
  /\ ring = [i \in 0 .. cap - 1 |-> 0]
  /\ head = 0
  /\ count = 0
  /\ items = 0
  /\ raising = 0
  /\ waiting = 0
  /\ acquired = 0
  /\ upFailures = 0
  /\ written = 0
  /\ lastRead = 0
  /\ emptyPops = 0

-----------------------------------------------------------------------------
Full == count >= cap

AtCount == count % cap
WriteSlot == (head + count) % cap

RaiseEarly == items + 1
ItemsAfterWrite == items

NotRaised == items
Raised == items + 1

(* The critical section of osal_msg_queue_write_copy.  A full queue        *)
(* returns OSAL_NOK and changes nothing.                                   *)
WriteCopy ==
  /\ written < MaxWrites
  /\ ~Full
  /\ ring' = [ring EXCEPT ![WriteSlot] = written + 1]
  /\ count' = count + 1
  /\ written' = written + 1
  /\ raising' = raising + 1
  /\ items' = ItemsAfterWrite
  /\ UNCHANGED <<head, waiting, acquired, upFailures, lastRead, emptyPops>>

(* items.up() after it.                                                    *)
WriteRaise ==
  /\ raising > 0
  /\ raising' = raising - 1
  /\ items' = Raised
  /\ UNCHANGED <<ring, head, count, waiting, acquired, upFailures, written,
                 lastRead, emptyPops>>

(* up() fails: the call returns OSAL_NOK, the message stays in the ring.   *)
WriteRaiseFails ==
  /\ raising > 0
  /\ upFailures < MaxUpFailures
  /\ raising' = raising - 1
  /\ upFailures' = upFailures + 1
  /\ UNCHANGED <<ring, head, count, items, waiting, acquired, written, lastRead,
                 emptyPops>>

ReadBegin ==
  /\ waiting + acquired < MaxReaders
  /\ waiting' = waiting + 1
  /\ UNCHANGED <<ring, head, count, items, raising, acquired, upFailures,
                 written, lastRead, emptyPops>>

ReadDown ==
  /\ waiting > 0 /\ items > 0
  /\ waiting' = waiting - 1
  /\ items' = items - 1
  /\ acquired' = acquired + 1
  /\ UNCHANGED <<ring, head, count, raising, upFailures, written, lastRead,
                 emptyPops>>

(* The wait ends with a timeout: OSAL_NOK.                                 *)
ReadTimeout ==
  /\ waiting > 0
  /\ waiting' = waiting - 1
  /\ UNCHANGED <<ring, head, count, items, raising, acquired, upFailures,
                 written, lastRead, emptyPops>>

(* The critical section of osal_msg_queue_read_copy.                       *)
ReadPop ==
  /\ acquired > 0
  /\ acquired' = acquired - 1
  /\ IF count = 0
     THEN /\ emptyPops' = emptyPops + 1
          /\ UNCHANGED <<head, count, lastRead>>
     ELSE /\ lastRead' = ring[head]
          /\ head' = (head + 1) % cap
          /\ count' = count - 1
          /\ UNCHANGED emptyPops
  /\ UNCHANGED <<ring, items, raising, waiting, upFailures, written>>

Next ==
  \/ WriteCopy \/ WriteRaise \/ WriteRaiseFails
  \/ ReadBegin \/ ReadDown \/ ReadTimeout \/ ReadPop

Spec == Init /\ [][Next]_vars

(* A writer past its critical section and a reader the semaphore can admit *)
(* are ready threads; a reader in the wait may always time out instead.    *)
FairSpec == Spec /\ WF_vars(WriteRaise) /\ WF_vars(ReadDown) /\ WF_vars(ReadPop)

-----------------------------------------------------------------------------
(* The semaphore never runs ahead of the ring: what it still offers, the   *)
(* readers it has admitted, the writers about to raise it and the raises   *)
(* that failed account for every queued message.                           *)
SemaphoreCountsRing ==
  count = items + acquired + raising + upFailures

(* "shouldn't happen after a successful down()": a reader the semaphore    *)
(* admitted finds a message, however other readers and writers interleave. *)
NeverEmptyAfterDown == emptyPops = 0

(* The ring seen through its indices is a bounded queue, and what a reader *)
(* copies out is its head: messages leave in the order they were written,  *)
(* none skipped or doubled.                                                *)
Contents == [i \in 1 .. count |-> ring[(head + i - 1) % cap]]

Fifo == INSTANCE BoundedFifo WITH
          contents <- Contents, last <- lastRead,
          Message <- Messages, Cap <- cap, None <- 0

ImplementsFifo == Fifo!Spec

(* While up() succeeds, a message in the ring and a reader in the wait     *)
(* meet, or the reader times out.                                          *)
ReaderServed ==
  (count > 0 /\ waiting > 0) ~> (count = 0 \/ waiting = 0 \/ upFailures > 0)
=============================================================================
