----------------------------- MODULE EventGroup -----------------------------
(***************************************************************************)
(* osal_event (chips/ws63/rf/src/osal_queue.rs): a bit mask under critical *)
(* sections.  A reader whose condition does not hold registers a private   *)
(* semaphore that lives on its stack; a writer collects, under the         *)
(* critical section, the semaphores of the matching readers and raises     *)
(* them after it.  A mask is a set of bit numbers.  The stack slot of the  *)
(* semaphore is the same in every turn of a reader's loop, so a semaphore  *)
(* is named by its reader.                                                 *)
(***************************************************************************)
EXTENDS Integers, FiniteSets

CONSTANTS
  Readers, Writers,
  Bits,            \* bit numbers in use, 0 among them
  Requests,        \* the [mask, all, clr] calls of osal_event_read each reader makes
  Masks,           \* the masks that writes and clears use
  MAX_EVENT_WAITERS,
  MaxWrites,       \* bound: calls of osal_event_write
  Timeouts,        \* readers that give a finite timeout_ms, not u32::MAX
  Nobody, Dead     \* no reader in a table slot; a semaphore out of scope

ASSUME EventAssumption ==
  /\ Requests \in [Readers -> SUBSET [mask : SUBSET Bits, all : BOOLEAN, clr : BOOLEAN]]
  /\ Masks \subseteq SUBSET Bits
  /\ MAX_EVENT_WAITERS \in Nat \ {0}
  /\ MaxWrites \in Nat
  /\ Timeouts \subseteq Readers
  /\ Nobody \notin Readers
  /\ Dead \notin Nat

VARIABLES
  live,      \* the event object holds a group
  bits,      \* EventGroup.bits
  writes,    \* history: calls of osal_event_write
  waiters,   \* EventGroup.waiters
  sem,       \* each reader's semaphore: its count, or Dead outside its scope
  readPc, req,  \* readers: where they are, and their call's arguments
  todo,      \* writers: the collected semaphores still to be raised, by slot
  credit,    \* history: per bit, writes of it minus calls that consumed it
  abandoned  \* history: sleeping readers that a failed write left unraised

egVars == <<live, bits, writes, waiters, sem, readPc, req, todo, credit, abandoned>>

WaiterSlots == 1 .. MAX_EVENT_WAITERS
NoRequest == [mask |-> {}, all |-> FALSE, clr |-> FALSE]   \* outside a call
Empty == [s \in WaiterSlots |-> Nobody]

EGTypeOK ==
  /\ live \in BOOLEAN
  /\ bits \in SUBSET Bits
  /\ writes \in 0 .. MaxWrites
  /\ waiters \in [WaiterSlots -> Readers \cup {Nobody}]
  /\ sem \in [Readers -> Nat \cup {Dead}]
  /\ readPc \in [Readers -> {"idle", "poll", "register", "wait", "woken", "expired"}]
  /\ req \in [Readers -> [mask : SUBSET Bits, all : BOOLEAN, clr : BOOLEAN]]
  /\ \A r \in Readers : req[r] \in Requests[r] \cup {NoRequest}
  /\ todo \in [Writers -> [WaiterSlots -> Readers \cup {Nobody}]]
  /\ credit \in [Bits -> Int]
  /\ abandoned \subseteq Readers

(* osal_event_init                                                         *)
EGInit ==
  /\ live = TRUE
  /\ bits = {}
  /\ writes = 0
  /\ waiters = Empty
  /\ sem = [r \in Readers |-> Dead]
  /\ readPc = [r \in Readers |-> "idle"]
  /\ req = [r \in Readers |-> NoRequest]
  /\ todo = [w \in Writers |-> Empty]
  /\ credit = [b \in Bits |-> 0]
  /\ abandoned = {}

-----------------------------------------------------------------------------
event_matches(b, q) ==
  IF q.all THEN q.mask \subseteq b /\ q.mask # {} ELSE b \cap q.mask # {}

(* bits after poll_event succeeded                                         *)
LeftSet(q) == bits
Consumed(q) == IF q.clr THEN bits \ (bits \cap q.mask) ELSE bits

(* Semaphores of the matching waiters, in their table slots.               *)
IsWoken(b, r) == r # Nobody /\ event_matches(b, req[r])
WokenByNewBits(b) ==
  [s \in WaiterSlots |-> IF IsWoken(b \ bits, waiters[s]) THEN waiters[s] ELSE Nobody]
Woken(b) == [s \in WaiterSlots |-> IF IsWoken(b, waiters[s]) THEN waiters[s] ELSE Nobody]

Credited(mask, n) == [b \in Bits |-> IF b \in mask THEN credit[b] + n ELSE credit[b]]

(* The call ends: with the matched bits, which clear mode takes out of the *)
(* group, or with 0 or OSAL_NOK.                                           *)
Return(r) ==
  /\ readPc' = [readPc EXCEPT ![r] = "idle"]
  /\ req' = [req EXCEPT ![r] = NoRequest]
ReturnMatched(r, q) ==
  /\ event_matches(bits, q)
  /\ bits' = Consumed(q)
  /\ credit' = IF q.clr THEN Credited(bits \cap q.mask, -1) ELSE credit
  /\ Return(r)

(* The first poll of a turn of the loop.  Without a match the deadline may *)
(* have passed (timeout_ms may be 0) or the semaphore may not initialise.  *)
ReadPoll(r, q) ==
  /\ \/ /\ ReturnMatched(r, q)
        /\ UNCHANGED sem
     \/ /\ ~event_matches(bits, q)
        /\ Return(r)
        /\ UNCHANGED <<bits, sem, credit>>
     \/ /\ ~event_matches(bits, q)
        /\ sem' = [sem EXCEPT ![r] = 0]
        /\ req' = [req EXCEPT ![r] = q]
        /\ readPc' = [readPc EXCEPT ![r] = "register"]
        /\ UNCHANGED <<bits, credit>>
  /\ UNCHANGED <<live, writes, waiters, todo, abandoned>>

ReadBegin(r, q) == readPc[r] = "idle" /\ live /\ ReadPoll(r, q)
ReadAgain(r) == readPc[r] = "poll" /\ ReadPoll(r, req[r])

SkipSecondPoll(r) == FALSE
PollAgain(r) == event_matches(bits, req[r])

(* The second poll and the registration, in one critical section.          *)
ReadRegister(r) ==
  /\ readPc[r] = "register"
  /\ \/ /\ PollAgain(r)
        /\ sem' = [sem EXCEPT ![r] = Dead]
        /\ ReturnMatched(r, req[r])
        /\ UNCHANGED waiters
     \/ /\ ~PollAgain(r)
        /\ \A s \in WaiterSlots : waiters[s] # Nobody
        /\ sem' = [sem EXCEPT ![r] = Dead]
        /\ Return(r)
        /\ UNCHANGED <<bits, credit, waiters>>
     \/ /\ ~PollAgain(r)
        /\ \E s \in WaiterSlots :
             /\ waiters[s] = Nobody
             /\ \A t \in 1 .. s - 1 : waiters[t] # Nobody
             /\ waiters' = [waiters EXCEPT ![s] = r]
        /\ readPc' = [readPc EXCEPT ![r] = "wait"]
        /\ UNCHANGED <<bits, credit, sem, req>>
  /\ UNCHANGED <<live, writes, todo, abandoned>>

Available(r) == sem[r] > 0

(* down_timeout returns, with the semaphore or with a timeout.             *)
ReadDown(r) ==
  /\ readPc[r] = "wait"
  /\ abandoned' = abandoned \ {r}
  /\ \/ /\ Available(r)
        /\ sem' = [sem EXCEPT ![r] = @ - 1]
        /\ readPc' = [readPc EXCEPT ![r] = "woken"]
     \/ /\ sem[r] = 0 /\ r \in Timeouts
        /\ readPc' = [readPc EXCEPT ![r] = "expired"]
        /\ UNCHANGED sem
  /\ UNCHANGED <<live, bits, writes, waiters, req, todo, credit>>

Unregistered(r) == [s \in WaiterSlots |-> IF waiters[s] = r THEN Nobody ELSE waiters[s]]

(* unregister_waiter and destroy, then another turn or the return.         *)
ReadLeave(r) ==
  /\ readPc[r] \in {"woken", "expired"}
  /\ waiters' = Unregistered(r)
  /\ sem' = [sem EXCEPT ![r] = Dead]
  /\ \/ /\ readPc[r] = "woken"
        /\ readPc' = [readPc EXCEPT ![r] = "poll"]
        /\ UNCHANGED req
     \/ /\ readPc[r] = "expired"
        /\ Return(r)
  /\ UNCHANGED <<live, bits, writes, todo, credit, abandoned>>

-----------------------------------------------------------------------------
Collected(w) == {r \in Readers : \E s \in WaiterSlots : todo[w][s] = r}

(* The critical section of osal_event_write.                               *)
Write(w, mask) ==
  /\ live /\ todo[w] = Empty
  /\ writes < MaxWrites
  /\ writes' = writes + 1
  /\ bits' = bits \cup mask
  /\ todo' = [todo EXCEPT ![w] = Woken(bits \cup mask)]
  /\ credit' = Credited(mask, 1)
  /\ abandoned' = abandoned \ Collected(w)'
  /\ UNCHANGED <<live, waiters, sem, readPc, req>>

(* up() of the next collected semaphore.  It may be out of scope by then,  *)
(* and whether up() finds it alive is undefined.                           *)
IsNext(w, s) == todo[w][s] # Nobody /\ \A t \in 1 .. s - 1 : todo[w][t] = Nobody

WriteUp(w) ==
  /\ \E s \in WaiterSlots :
       /\ IsNext(w, s)
       /\ LET r == todo[w][s] IN
            sem' = IF sem[r] = Dead THEN sem ELSE [sem EXCEPT ![r] = @ + 1]
       /\ todo' = [todo EXCEPT ![w][s] = Nobody]
  /\ UNCHANGED <<live, bits, writes, waiters, readPc, req, credit, abandoned>>

(* up() returns an error: the write returns OSAL_NOK at once, and raises   *)
(* neither this semaphore nor the ones after it.                           *)
WriteUpFails(w) ==
  /\ todo[w] # Empty
  /\ todo' = [todo EXCEPT ![w] = Empty]
  /\ abandoned' = abandoned \cup {r \in Collected(w) : readPc[r] = "wait"}
  /\ UNCHANGED <<live, bits, writes, waiters, sem, readPc, req, credit>>

osal_event_clear(mask) ==
  /\ live
  /\ bits' = bits \ mask
  /\ UNCHANGED <<live, writes, waiters, sem, readPc, req, todo, credit, abandoned>>

(* "Event destruction requires no active reader/writer."                   *)
osal_event_destroy ==
  /\ live
  /\ \A r \in Readers : readPc[r] = "idle"
  /\ \A w \in Writers : todo[w] = Empty
  /\ live' = FALSE
  /\ UNCHANGED <<bits, writes, waiters, sem, readPc, req, todo, credit, abandoned>>

osal_event_init ==
  /\ ~live
  /\ live' = TRUE
  /\ bits' = {}
  /\ waiters' = Empty
  /\ UNCHANGED <<writes, sem, readPc, req, todo, credit, abandoned>>

WriterStep(w) == WriteUp(w) \/ WriteUpFails(w)
ReadStep(r) == ReadAgain(r) \/ ReadRegister(r) \/ ReadDown(r) \/ ReadLeave(r)

EGNext ==
  \/ \E r \in Readers : (\E q \in Requests[r] : ReadBegin(r, q)) \/ ReadStep(r)
  \/ \E w \in Writers : (\E mask \in Masks : Write(w, mask)) \/ WriterStep(w)
  \/ \E mask \in Masks : osal_event_clear(mask)
  \/ osal_event_destroy
  \/ osal_event_init

EGSpec == EGInit /\ [][EGNext]_egVars

(* A thread the scheduler has made ready runs; nobody is forced to call    *)
(* read or write.                                                          *)
EGFairSpec ==
  /\ EGSpec
  /\ \A r \in Readers : WF_egVars(ReadStep(r))
  /\ \A w \in Writers : WF_egVars(WriterStep(w))

-----------------------------------------------------------------------------
Blocked(r) == readPc[r] = "wait" /\ sem[r] = 0

(* "a write wakes every matching reader" (osal_event_read): a reader that  *)
(* sleeps although its condition holds is about to be woken by a writer.   *)
(* Refuted by TLC, so that no configuration lists it: an up() that returns *)
(* an error ends the write, which wakes none of the readers after it.      *)
WriteWakesMatching ==
  \A r \in Readers :
    (Blocked(r) /\ event_matches(bits, req[r])) => \E w \in Writers : r \in Collected(w)

(* The registration protocol itself loses no wakeup: a reader that sleeps  *)
(* although its condition holds is about to be raised, or is one of those  *)
(* that a write whose up() failed had collected and gave up, and that no   *)
(* write has collected since.  The second poll, in the critical section of *)
(* the registration, is there for this.                                    *)
WakesOrAbandons ==
  \A r \in Readers :
    (Blocked(r) /\ event_matches(bits, req[r])) =>
      r \in abandoned \/ \E w \in Writers : r \in Collected(w)

(* The table holds exactly the readers between registration and            *)
(* unregistration, each once and with its semaphore in scope, so a slot is *)
(* never lost to a past reader and a collected pointer was valid.          *)
TableExact ==
  /\ \A r \in Readers :
       readPc[r] \in {"wait", "woken", "expired"} <=> \E s \in WaiterSlots : waiters[s] = r
  /\ \A s, t \in WaiterSlots : waiters[s] = waiters[t] /\ waiters[s] # Nobody => s = t
  /\ \A s \in WaiterSlots : waiters[s] # Nobody => sem[waiters[s]] # Dead

(* A bit taken in clear mode is taken out of the group in the critical     *)
(* section that saw it: each write of a bit is consumed by at most one     *)
(* call, whichever readers race for it.                                    *)
ConsumedOnce ==
  \A b \in Bits : credit[b] >= 0 /\ (b \in bits => credit[b] >= 1)

(* The slots and the bits, together: neither a slot nor a bit is given to  *)
(* two calls, and none is lost to a call that has returned.                *)
ReadersAccounted == EGTypeOK /\ TableExact /\ ConsumedOnce

(* A reader asleep with its condition true leaves the wait, unless another *)
(* reader consumes the bits first, they are cleared, or a write gave up    *)
(* with this very reader among those it had not raised.                    *)
ReaderReleased ==
  \A r \in Readers :
    (readPc[r] = "wait" /\ event_matches(bits, req[r])) ~>
      (readPc[r] # "wait" \/ ~event_matches(bits, req[r]) \/ r \in abandoned)
=============================================================================
