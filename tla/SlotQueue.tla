------------------------------ MODULE SlotQueue ------------------------------
(***************************************************************************)
(* The lock-free slot queues between the vendor callbacks and the radio    *)
(* runner: MgmtRxQueue, ScanEventQueue, LinkEventQueue, ExternalAuthQueue  *)
(* (chips/ws63/rf/src/upstream_supplicant.rs).  The four differ in payload *)
(* and depth only; enqueue and take_oldest are the same code, so one       *)
(* module stands for them all.                                             *)
(*                                                                         *)
(* Every atomic access is a step of its own, and so is each of the two     *)
(* copies into a slot's cells, so that a preemption may fall between any   *)
(* two of them.  A message is the ordinal of the enqueue call that         *)
(* carries it; the sequence number stored beside it wraps at SeqMod, which *)
(* is 2^32 in the code.                                                    *)
(***************************************************************************)
EXTENDS Integers, FiniteSets

CONSTANTS
  Producers,   \* contexts that may run a vendor callback
  Depth,       \* slots of the queue: 8, 33, 4 or 2
  SeqMod,      \* number of sequence values
  MaxCalls,    \* bound: enqueue calls that draw a sequence number
  MaxRejects   \* bound: enqueue calls refused for their length

ASSUME ConstAssumption ==
  /\ Depth \in Nat \ {0}
  /\ SeqMod \in Nat \ {0}
  /\ MaxCalls \in Nat
  /\ MaxRejects \in Nat

Slots == 1 .. Depth
Messages == 1 .. MaxCalls
NoMessage == 0

States == {"FREE", "WRITING", "READY", "READING"}

VARIABLES
  state,           \* slot.state
  sequence,        \* slot.sequence
  meta,            \* slot.meta: the message whose metadata the slot holds
  body,            \* slot.frame / ies / first+second: the same for the bytes
  next_sequence,   \* queue.next_sequence
  dropped,         \* queue.dropped
  pc, pslot, pseq, \* per producer: next step, slot index, sequence drawn
  pmsg,            \* per producer: the message it carries
  cpc, cslot,      \* the consumer: next step and slot index
  oldest,          \* the slot of its `oldest`, 0 for None
  oldestSeq,       \* the sequence of its `oldest`
  calls,           \* history: enqueue calls that drew a sequence number
  rejected,        \* history: enqueue calls refused for their length
  accepted,        \* history: messages published
  delivered,       \* history: messages whose guard the consumer obtained
  lastTaken,       \* history: the latest of them
  snapshot         \* history: messages READY when this take_oldest began

queueVars == <<state, sequence, meta, body, next_sequence, dropped>>
prodVars == <<pc, pslot, pseq, pmsg>>
consVars == <<cpc, cslot, oldest, oldestSeq>>
histVars == <<calls, rejected, accepted, delivered, lastTaken, snapshot>>
vars == <<queueVars, prodVars, consVars, histVars>>

ProdSteps == {"idle", "claim", "meta", "body", "seq", "publish"}
Owning == {"meta", "body", "seq", "publish"}
ConsSteps == {"idle", "check", "scan", "load", "take", "reading"}

TypeOK ==
  /\ state \in [Slots -> States]
  /\ sequence \in [Slots -> 0 .. SeqMod - 1]
  /\ meta \in [Slots -> Messages \cup {NoMessage}]
  /\ body \in [Slots -> Messages \cup {NoMessage}]
  /\ next_sequence \in 0 .. SeqMod - 1
  /\ dropped \in Nat
  /\ pc \in [Producers -> ProdSteps]
  /\ pslot \in [Producers -> 1 .. Depth + 1]
  /\ pseq \in [Producers -> 0 .. SeqMod - 1]
  /\ pmsg \in [Producers -> Messages \cup {NoMessage}]
  /\ cpc \in ConsSteps
  /\ cslot \in 1 .. Depth + 1
  /\ oldest \in 0 .. Depth
  /\ oldestSeq \in 0 .. SeqMod - 1
  /\ calls \in 0 .. MaxCalls
  /\ rejected \in 0 .. MaxRejects
  /\ accepted \in SUBSET Messages
  /\ delivered \in SUBSET Messages
  /\ lastTaken \in Messages \cup {NoMessage}
  /\ snapshot \in SUBSET Messages

Init ==
  /\ state = [s \in Slots |-> "FREE"]
  /\ sequence = [s \in Slots |-> 0]
  /\ meta = [s \in Slots |-> NoMessage]
  /\ body = [s \in Slots |-> NoMessage]
  /\ next_sequence = 0
  /\ dropped = 0
  /\ pc = [p \in Producers |-> "idle"]
  /\ pslot = [p \in Producers |-> 1]
  /\ pseq = [p \in Producers |-> 0]
  /\ pmsg = [p \in Producers |-> NoMessage]
  /\ cpc = "idle"
  /\ cslot = 1
  /\ oldest = 0
  /\ oldestSeq = 0
  /\ calls = 0
  /\ rejected = 0
  /\ accepted = {}
  /\ delivered = {}
  /\ lastTaken = NoMessage
  /\ snapshot = {}

-----------------------------------------------------------------------------
(* Operators of the code's single decisions.  Each is preceded by the      *)
(* plausible slip of it that the project's mutants put in its place.       *)

(* sequence_before: the wrapping difference, read as a signed number, is   *)
(* negative.                                                               *)
plain_before(candidate, current) == candidate < current
sequence_before(candidate, current) ==
  2 * ((candidate - current) % SeqMod) >= SeqMod

(* fetch_add on the 32-bit counter.                                        *)
NextSequence(n) == (n + 1) % SeqMod

UncountedDrop(n) == n
CountDrop(n) == n + 1

(* The slot states on which the two compare_exchanges and the scan act.    *)
ClaimableUnlessRead(s) == state[s] # "READING"
Claimable(s) == state[s] = "FREE"

Readable(s) == state[s] = "READY"

(* The sequence a producer stores is the one it drew.                      *)
RereadSequence(p) == next_sequence
DrawnSequence(p) == pseq[p]

(* What Drop of a guard stores.                                            *)
Released == "FREE"

(* The consumer's loops run over every slot.                               *)
AllButLast(i) == i < Depth
InSlots(i) == i <= Depth

ReadyMessages == {body[s] : s \in {t \in Slots : state[t] = "READY"}}

Flying(p) == pc[p] # "idle"

(* The messages drawn and not yet taken: a sequence comparison is          *)
(* meaningful while these span less than half of the sequence space, i.e.  *)
(* fewer than 2^31 callbacks while one of them waits.                      *)
Pending ==
  {pmsg[p] : p \in {q \in Producers : Flying(q)}} \cup (accepted \ delivered)

WithinWindow(m) == \A k \in Pending : 2 * (m - k) < SeqMod

-----------------------------------------------------------------------------
(* enqueue, the producers.                                                 *)

(* A payload of invalid length is refused before a sequence is drawn.      *)
(* The other early return of enqueue_result, at its limit on the results   *)
(* of one scan, counts in truncated_results and touches nothing of the     *)
(* queue: a stuttering step here, and StationScan's AcceptResult there.    *)
Reject(p) ==
  /\ pc[p] = "idle"
  /\ rejected < MaxRejects
  /\ rejected' = rejected + 1
  /\ dropped' = CountDrop(dropped)
  /\ UNCHANGED <<state, sequence, meta, body, next_sequence, prodVars, consVars,
                 calls, accepted, delivered, lastTaken, snapshot>>

DrawSequence(p) ==
  /\ pc[p] = "idle"
  /\ calls < MaxCalls
  /\ WithinWindow(calls + 1)
  /\ calls' = calls + 1
  /\ pmsg' = [pmsg EXCEPT ![p] = calls + 1]
  /\ pseq' = [pseq EXCEPT ![p] = next_sequence]
  /\ next_sequence' = NextSequence(next_sequence)
  /\ pslot' = [pslot EXCEPT ![p] = 1]
  /\ pc' = [pc EXCEPT ![p] = "claim"]
  /\ UNCHANGED <<state, sequence, meta, body, dropped, consVars,
                 rejected, accepted, delivered, lastTaken, snapshot>>

(* compare_exchange(FREE, WRITING) on the slot the loop has come to.       *)
ClaimSlot(p) ==
  /\ pc[p] = "claim"
  /\ pslot[p] \in Slots
  /\ \/ /\ Claimable(pslot[p])
        /\ state' = [state EXCEPT ![pslot[p]] = "WRITING"]
        /\ pc' = [pc EXCEPT ![p] = "meta"]
        /\ UNCHANGED pslot
     \/ /\ ~Claimable(pslot[p])
        /\ pslot' = [pslot EXCEPT ![p] = @ + 1]
        /\ UNCHANGED <<state, pc>>
  /\ UNCHANGED <<sequence, meta, body, next_sequence, dropped, pseq, pmsg,
                 consVars, histVars>>

DropFull(p) ==
  /\ pc[p] = "claim"
  /\ pslot[p] = Depth + 1
  /\ dropped' = CountDrop(dropped)
  /\ pc' = [pc EXCEPT ![p] = "idle"]
  /\ UNCHANGED <<state, sequence, meta, body, next_sequence, pslot, pseq, pmsg,
                 consVars, histVars>>

WriteMeta(p) ==
  /\ pc[p] = "meta"
  /\ meta' = [meta EXCEPT ![pslot[p]] = pmsg[p]]
  /\ pc' = [pc EXCEPT ![p] = "body"]
  /\ UNCHANGED <<state, sequence, body, next_sequence, dropped, pslot, pseq,
                 pmsg, consVars, histVars>>

WriteBody(p) ==
  /\ pc[p] = "body"
  /\ body' = [body EXCEPT ![pslot[p]] = pmsg[p]]
  /\ pc' = [pc EXCEPT ![p] = "seq"]
  /\ UNCHANGED <<state, sequence, meta, next_sequence, dropped, pslot, pseq,
                 pmsg, consVars, histVars>>

StoreSequence(p) ==
  /\ pc[p] = "seq"
  /\ sequence' = [sequence EXCEPT ![pslot[p]] = DrawnSequence(p)]
  /\ pc' = [pc EXCEPT ![p] = "publish"]
  /\ UNCHANGED <<state, meta, body, next_sequence, dropped, pslot, pseq, pmsg,
                 consVars, histVars>>

Publish(p) ==
  /\ pc[p] = "publish"
  /\ state' = [state EXCEPT ![pslot[p]] = "READY"]
  /\ accepted' = accepted \cup {pmsg[p]}
  /\ pc' = [pc EXCEPT ![p] = "idle"]
  /\ UNCHANGED <<sequence, meta, body, next_sequence, dropped, pslot, pseq,
                 pmsg, consVars, calls, rejected, delivered, lastTaken, snapshot>>

-----------------------------------------------------------------------------
(* take_oldest and the guard it returns, the single consumer.              *)

BeginTake ==
  /\ cpc = "idle"
  /\ cpc' = "check"
  /\ cslot' = 1
  /\ oldest' = 0
  /\ oldestSeq' = 0
  /\ snapshot' = ReadyMessages
  /\ UNCHANGED <<queueVars, prodVars, calls, rejected, accepted, delivered, lastTaken>>

(* The first pass: any slot found WRITING ends the call with None.         *)
CheckWriting ==
  /\ cpc = "check"
  /\ \/ /\ InSlots(cslot)
        /\ state[cslot] = "WRITING"
        /\ cpc' = "idle"
        /\ UNCHANGED cslot
     \/ /\ InSlots(cslot)
        /\ state[cslot] # "WRITING"
        /\ cslot' = cslot + 1
        /\ UNCHANGED cpc
     \/ /\ ~InSlots(cslot)
        /\ cslot' = 1
        /\ cpc' = "scan"
  /\ UNCHANGED <<queueVars, prodVars, oldest, oldestSeq, histVars>>

(* The second pass: the state of each slot, then its sequence.             *)
ScanState ==
  /\ cpc = "scan"
  /\ \/ /\ InSlots(cslot)
        /\ Readable(cslot)
        /\ cpc' = "load"
        /\ UNCHANGED cslot
     \/ /\ InSlots(cslot)
        /\ ~Readable(cslot)
        /\ cslot' = cslot + 1
        /\ UNCHANGED cpc
     \/ /\ ~InSlots(cslot)
        /\ cpc' = IF oldest = 0 THEN "idle" ELSE "take"
        /\ UNCHANGED cslot
  /\ UNCHANGED <<queueVars, prodVars, oldest, oldestSeq, histVars>>

ScanSequence ==
  /\ cpc = "load"
  /\ InSlots(cslot)
  /\ \/ /\ oldest = 0 \/ sequence_before(sequence[cslot], oldestSeq)
        /\ oldest' = cslot
        /\ oldestSeq' = sequence[cslot]
     \/ /\ ~(oldest = 0 \/ sequence_before(sequence[cslot], oldestSeq))
        /\ UNCHANGED <<oldest, oldestSeq>>
  /\ cslot' = cslot + 1
  /\ cpc' = "scan"
  /\ UNCHANGED <<queueVars, prodVars, histVars>>

(* compare_exchange(READY, READING) on the slot remembered.  It cannot     *)
(* fail with one consumer: TakeSucceeds.                                   *)
TakeOldest ==
  /\ cpc = "take"
  /\ state[oldest] = "READY"
  /\ state' = [state EXCEPT ![oldest] = "READING"]
  /\ delivered' = delivered \cup {body[oldest]}
  /\ lastTaken' = body[oldest]
  /\ cpc' = "reading"
  /\ UNCHANGED <<sequence, meta, body, next_sequence, dropped, prodVars,
                 cslot, oldest, oldestSeq, calls, rejected, accepted, snapshot>>

(* Drop of the guard, after the consumer has used the payload.             *)
ReleaseSlot ==
  /\ cpc = "reading"
  /\ state' = [state EXCEPT ![oldest] = Released]
  /\ cpc' = "idle"
  /\ UNCHANGED <<sequence, meta, body, next_sequence, dropped, prodVars,
                 cslot, oldest, oldestSeq, histVars>>

-----------------------------------------------------------------------------
Enqueue(p) ==
  \/ Reject(p) \/ DrawSequence(p) \/ ClaimSlot(p) \/ DropFull(p)
  \/ WriteMeta(p) \/ WriteBody(p) \/ StoreSequence(p) \/ Publish(p)

Take ==
  BeginTake \/ CheckWriting \/ ScanState \/ ScanSequence \/ TakeOldest \/ ReleaseSlot

Next == (\E p \in Producers : Enqueue(p)) \/ Take

Spec == Init /\ [][Next]_vars

(* A callback that has begun runs to its end, and the runner keeps         *)
(* polling: both are threads of a preemptive scheduler that never leaves a *)
(* ready thread waiting for ever.                                          *)
Fairness ==
  /\ \A p \in Producers :
       WF_vars(ClaimSlot(p) \/ DropFull(p) \/ WriteMeta(p) \/ WriteBody(p)
               \/ StoreSequence(p) \/ Publish(p))
  /\ WF_vars(Take)

FairSpec == Spec /\ Fairness

-----------------------------------------------------------------------------
(* The SAFETY comments of the slots: WRITING and READING are exclusive.    *)
(* A slot is WRITING exactly while one producer is between its claim and   *)
(* its publication of it, and READING exactly while the consumer holds the *)
(* guard; no two producers hold one slot.                                  *)
SlotOwnership ==
  /\ \A p \in Producers : pc[p] \in Owning =>
       pslot[p] \in Slots /\ state[pslot[p]] = "WRITING"
  /\ \A p, q \in Producers :
       p # q /\ pc[p] \in Owning /\ pc[q] \in Owning => pslot[p] # pslot[q]
  /\ \A s \in Slots : state[s] = "WRITING" =>
       \E p \in Producers : pc[p] \in Owning /\ pslot[p] = s
  /\ \A s \in Slots : state[s] = "READING" <=> (cpc = "reading" /\ oldest = s)

(* What the runner reads through a guard is one whole message: metadata,   *)
(* bytes and sequence come from the same enqueue call, and that call       *)
(* reported success.  A published slot that is not yet taken likewise.     *)
NoTornMessage ==
  \A s \in Slots : state[s] \in {"READY", "READING"} =>
    /\ meta[s] = body[s]
    /\ body[s] \in accepted
    /\ sequence[s] = (body[s] - 1) % SeqMod

(* Every message whose enqueue returned true is in exactly one place: in   *)
(* one READY slot, or delivered.  So none is lost, and none is delivered   *)
(* twice, whatever the preemptions.                                        *)
Conservation ==
  /\ delivered \subseteq accepted
  /\ \A m \in accepted \ delivered :
       \E s \in Slots : state[s] = "READY" /\ body[s] = m
  /\ \A s \in Slots : state[s] = "READY" => body[s] \in accepted \ delivered
  /\ \A s, t \in Slots :
       s # t /\ state[s] = "READY" /\ state[t] = "READY" => body[s] # body[t]

(* The compare_exchange that ends take_oldest finds the slot READY.        *)
TakeSucceeds == cpc = "take" => state[oldest] = "READY"

(* Every call is accounted for: it was published, counted as dropped, or   *)
(* is still under way.  poll reports overflow from this counter.           *)
CallsAccounted ==
  calls + rejected
    = Cardinality(accepted) + dropped + Cardinality({p \in Producers : Flying(p)})

(* From the callback to the runner: no call of enqueue is lost without     *)
(* being counted, and no message that was accepted is lost or doubled.     *)
MessagesAccounted == Conservation /\ CallsAccounted

(* Among the messages that were READY when take_oldest began, the oldest   *)
(* one is never passed over for a later message.  This is the order the    *)
(* queue does keep, with sequence numbers that wrap.                       *)
OldestOfSnapshot ==
  cpc = "reading" => \A m \in snapshot : lastTaken <= m

(* The strengthening that makes the invariants above inductive.            *)

(* Messages are the ordinals of the calls, each carried by one producer,   *)
(* and stored sequence numbers are those ordinals modulo SeqMod.           *)
Numbering ==
  /\ accepted \subseteq 1 .. calls
  /\ \A p \in Producers : Flying(p) =>
       /\ pmsg[p] \in 1 .. calls
       /\ pmsg[p] \notin accepted
       /\ pseq[p] = (pmsg[p] - 1) % SeqMod
  /\ \A p, q \in Producers : p # q /\ Flying(p) /\ Flying(q) => pmsg[p] # pmsg[q]
  /\ next_sequence = calls % SeqMod

(* Messages that wait together can be compared by sequence.                *)
InWindow == \A a, b \in Pending : 2 * (b - a) < SeqMod

(* What a producer has written into its slot so far.                       *)
WriteProgress ==
  \A p \in Producers :
    /\ pc[p] \in {"body", "seq", "publish"} => meta[pslot[p]] = pmsg[p]
    /\ pc[p] \in {"seq", "publish"} => body[pslot[p]] = pmsg[p]
    /\ pc[p] = "publish" => sequence[pslot[p]] = pseq[p]

Scanning == cpc \in {"scan", "load", "take"}

(* What the consumer has found so far.                                     *)
ScanProgress ==
  /\ Scanning /\ oldest # 0 => state[oldest] = "READY" /\ oldestSeq = sequence[oldest]
  /\ cpc \in {"take", "reading"} => oldest # 0
  /\ cpc = "load" => cslot \in Slots /\ state[cslot] = "READY"
  /\ cpc = "take" => cslot = Depth + 1
  /\ cpc = "check" => oldest = 0
  /\ cpc = "check" \/ Scanning =>
       \A m \in snapshot : \E s \in Slots : state[s] = "READY" /\ body[s] = m
  /\ Scanning =>
       \A s \in Slots : s < cslot /\ state[s] = "READY" /\ body[s] \in snapshot =>
         oldest # 0 /\ body[oldest] <= body[s]

IInv ==
  /\ TypeOK
  /\ SlotOwnership
  /\ NoTornMessage
  /\ Conservation
  /\ Numbering
  /\ InWindow
  /\ WriteProgress
  /\ ScanProgress
  /\ OldestOfSnapshot

(* Once the callbacks stop, the runner has every accepted message: a None  *)
(* for a WRITING slot only postpones.                                      *)
EventuallyDelivered == []<>(accepted \subseteq delivered)
=============================================================================
