---------------------------- MODULE TimerService ----------------------------
(***************************************************************************)
(* The software timers (chips/ws63/rf/src/timer.rs): a table of slots      *)
(* under critical sections, OSAL timers that name their slot, and workers  *)
(* that collect the due timers under a critical section and call their     *)
(* handlers outside of it.  A timer's operations come one at a time, from  *)
(* its owner or from a handler; operations on different timers, and the    *)
(* workers, interleave.  No operation makes a slot periodic, so timers are *)
(* one-shot.                                                               *)
(***************************************************************************)
EXTENDS Integers, Sequences, FiniteSets

CONSTANTS
  Timers,       \* OsalTimer objects
  Workers,      \* threads running local_timer_timeout_proc
  TimerWorker,  \* the one that ensure_timer_worker spawns
  MAX_TIMERS,   \* slots, 32
  Intervals,    \* bound: intervals used
  MaxTime,      \* bound: the clock
  MaxArms,      \* bound: per timer, osal_timer_mod calls
  SpawnFailures \* bound: spawn_with_priority calls that return None

NoTimer == "none"

ASSUME TimerAssumption ==
  /\ TimerWorker \in Workers /\ IsFiniteSet(Workers)
  /\ NoTimer \notin Timers
  /\ MAX_TIMERS \in Nat \ {0}
  /\ Intervals \subseteq Nat \ {0}
  /\ MaxTime \in Nat /\ MaxArms \in [Timers -> Nat] /\ SpawnFailures \in Nat

VARIABLES
  now,                        \* osal_get_jiffies
  started,                    \* TIMER_WORKER_STARTED
  running,                    \* workers whose thread exists
  spawnFailures,              \* history: failed spawns
  used, active, owner, deadline,  \* the slots; owner is slot.timer
  handle,                     \* (*timer).timer: slot index, 0 for null
  pc, arg, clock,             \* per timer: the operation under way
  wpc, wnow, due,             \* per worker: step, `now`, and `due`
  arms, fires, cancelled,     \* history: per timer
  exists,                     \* history: between init and destroy
  orphans                     \* history: slots of timers that were initialised anew in use

slotVars == <<used, active, owner, deadline>>
opVars == <<handle, pc, arg, clock>>
workVars == <<wpc, wnow, due>>
bootVars == <<started, running, spawnFailures>>
histVars == <<arms, fires, cancelled, exists, orphans>>
vars == <<now, bootVars, slotVars, opVars, workVars, histVars>>

Slots == 1 .. MAX_TIMERS

OpSteps == {"idle", "spawn", "alloc", "register", "arm", "unlink"}

TypeOK ==
  /\ now \in 0 .. MaxTime
  /\ started \in BOOLEAN
  /\ running \subseteq Workers
  /\ spawnFailures \in 0 .. SpawnFailures
  /\ used \in [Slots -> BOOLEAN]
  /\ active \in [Slots -> BOOLEAN]
  /\ owner \in [Slots -> Timers \cup {NoTimer}]
  /\ deadline \in [Slots -> 0 .. MaxTime]
  /\ handle \in [Timers -> 0 .. MAX_TIMERS]
  /\ pc \in [Timers -> OpSteps]
  /\ arg \in [Timers -> Nat]
  /\ clock \in [Timers -> 0 .. MaxTime]
  /\ wpc \in [Workers -> {"sleep", "collect", "fire"}]
  /\ wnow \in [Workers -> 0 .. MaxTime]
  /\ due \in [Workers -> Seq(Timers)]
  /\ arms \in [Timers -> Nat]
  /\ fires \in [Timers -> Nat]
  /\ cancelled \in [Timers -> Nat]
  /\ exists \in [Timers -> BOOLEAN]
  /\ orphans \subseteq Slots

Init ==
  /\ now = 0
  /\ started = FALSE
  /\ running = Workers \ {TimerWorker}
  /\ spawnFailures = 0
  /\ used = [s \in Slots |-> FALSE]
  /\ active = [s \in Slots |-> FALSE]
  /\ owner = [s \in Slots |-> NoTimer]
  /\ deadline = [s \in Slots |-> 0]
  /\ handle = [t \in Timers |-> 0]
  /\ pc = [t \in Timers |-> "idle"]
  /\ arg = [t \in Timers |-> 0]
  /\ clock = [t \in Timers |-> 0]
  /\ wpc = [w \in Workers |-> "sleep"]
  /\ wnow = [w \in Workers |-> 0]
  /\ due = [w \in Workers |-> <<>>]
  /\ arms = [t \in Timers |-> 0]
  /\ fires = [t \in Timers |-> 0]
  /\ cancelled = [t \in Timers |-> 0]
  /\ exists = [t \in Timers |-> FALSE]
  /\ orphans = {}

Goto(t, step) == pc' = [pc EXCEPT ![t] = step]
Done(t) ==    \* the operation returns and its locals are gone
  /\ Goto(t, "idle")
  /\ arg' = [arg EXCEPT ![t] = 0]
  /\ clock' = [clock EXCEPT ![t] = 0]
Bump(f, t, n) == [f EXCEPT ![t] = @ + n]
One(b) == IF b THEN 1 ELSE 0

-----------------------------------------------------------------------------
(* ensure_timer_worker, up to the spawn.                                   *)
EnsureWorker(t) ==
  /\ started' = TRUE
  /\ Goto(t, IF started THEN "alloc" ELSE "spawn")

(* osal_timer_init.  It refuses a timer that has a handle.                 *)
InitBegin(t) ==
  /\ pc[t] = "idle" /\ handle[t] = 0
  /\ EnsureWorker(t)
  /\ UNCHANGED <<now, running, spawnFailures, slotVars, handle, arg, clock,
                 workVars, histVars>>

ForgottenSlot(t) == {handle[t]} \ {0}

(* osal_adapt_timer_init takes the handle from any timer, also from one in *)
(* use, whose slot stays as it is, before it calls osal_timer_init: that   *)
(* refuses an interval of 0.                                               *)
AdaptInitBegin(t) ==
  /\ pc[t] = "idle" /\ handle[t] # 0
  /\ handle' = [handle EXCEPT ![t] = 0]
  /\ orphans' = orphans \cup ForgottenSlot(t)
  /\ \/ EnsureWorker(t)
     \/ UNCHANGED <<started, pc>>
  /\ UNCHANGED <<now, running, spawnFailures, slotVars, arg, clock, workVars,
                 arms, fires, cancelled, exists>>

InitSpawn(t) ==
  /\ pc[t] = "spawn"
  /\ \/ /\ running' = running \cup {TimerWorker}
        /\ Goto(t, "alloc")
        /\ UNCHANGED <<started, spawnFailures>>
     \/ /\ spawnFailures < SpawnFailures
        /\ spawnFailures' = spawnFailures + 1
        /\ started' = FALSE
        /\ Goto(t, "idle")
        /\ UNCHANGED running
  /\ UNCHANGED <<now, slotVars, handle, arg, clock, workVars, histVars>>

FreeSlot(s) == ~used[s]

InitAlloc(t) ==
  /\ pc[t] = "alloc"
  /\ \/ /\ \A s \in Slots : ~FreeSlot(s)
        /\ Goto(t, "idle")
        /\ UNCHANGED <<slotVars, arg>>
     \/ \E s \in Slots :
          /\ FreeSlot(s) /\ \A r \in 1 .. s - 1 : ~FreeSlot(r)
          /\ used' = [used EXCEPT ![s] = TRUE]
          /\ active' = [active EXCEPT ![s] = FALSE]
          /\ owner' = [owner EXCEPT ![s] = NoTimer]
          /\ deadline' = [deadline EXCEPT ![s] = 0]
          /\ arg' = [arg EXCEPT ![t] = s]
          /\ Goto(t, "register")
  /\ UNCHANGED <<now, bootVars, handle, clock, workVars, histVars>>

InitRegister(t) ==
  /\ pc[t] = "register"
  /\ handle' = [handle EXCEPT ![t] = arg[t]]
  /\ owner' = [owner EXCEPT ![arg[t]] = t]
  /\ exists' = [exists EXCEPT ![t] = TRUE]
  /\ Done(t)
  /\ UNCHANGED <<now, bootVars, used, active, deadline, workVars, arms, fires, cancelled,
                 orphans>>

-----------------------------------------------------------------------------
(* osal_timer_mod: the clock is read before the critical section.          *)
ModBegin(t, interval) ==
  /\ pc[t] = "idle" /\ handle[t] # 0
  /\ arms[t] < MaxArms[t]
  /\ now + interval <= MaxTime
  /\ arg' = [arg EXCEPT ![t] = interval]
  /\ clock' = [clock EXCEPT ![t] = now]
  /\ Goto(t, "arm")
  /\ UNCHANGED <<now, bootVars, slotVars, handle, workVars, histVars>>

ArmDeadline(t) == clock[t] + arg[t]

(* Rearming an active timer replaces its earlier arm.  The slot is in use: *)
(* SlotsMatchHandles.                                                      *)
ModArm(t) ==
  /\ pc[t] = "arm"
  /\ LET s == handle[t] IN
       /\ used[s]
       /\ deadline' = [deadline EXCEPT ![s] = ArmDeadline(t)]
       /\ active' = [active EXCEPT ![s] = TRUE]
       /\ arms' = Bump(arms, t, 1)
       /\ cancelled' = Bump(cancelled, t, One(active[s]))
  /\ Done(t)
  /\ UNCHANGED <<now, bootVars, used, owner, handle, workVars, fires, exists,
                 orphans>>

(* osal_timer_stop: 1 when the timer was active.                           *)
osal_timer_stop(t) ==
  /\ pc[t] = "idle" /\ handle[t] # 0
  /\ active' = [active EXCEPT ![handle[t]] = FALSE]
  /\ cancelled' = Bump(cancelled, t, One(active[handle[t]]))
  /\ UNCHANGED <<now, bootVars, used, owner, deadline, opVars, workVars,
                 arms, fires, exists, orphans>>

(* osal_timer_destroy: the slot, then the handle.                          *)
Emptied(s) == [used EXCEPT ![s] = FALSE]

DestroySlot(t) ==
  /\ pc[t] = "idle" /\ handle[t] # 0
  /\ LET s == handle[t] IN
       /\ used' = Emptied(s)
       /\ active' = [active EXCEPT ![s] = FALSE]
       /\ owner' = [owner EXCEPT ![s] = NoTimer]
       /\ deadline' = [deadline EXCEPT ![s] = 0]
       /\ cancelled' = Bump(cancelled, t, One(active[s]))
  /\ Goto(t, "unlink")
  /\ UNCHANGED <<now, bootVars, handle, arg, clock, workVars, arms, fires, exists,
                 orphans>>

DestroyUnlink(t) ==
  /\ pc[t] = "unlink"
  /\ handle' = [handle EXCEPT ![t] = 0]
  /\ exists' = [exists EXCEPT ![t] = FALSE]
  /\ Goto(t, "idle")
  /\ UNCHANGED <<now, bootVars, slotVars, arg, clock, workVars, arms, fires,
                 cancelled, orphans>>

-----------------------------------------------------------------------------
(* local_timer_timeout_proc                                                *)
ProcBegin(w) ==
  /\ w \in running
  /\ wpc[w] = "sleep"
  /\ wnow' = [wnow EXCEPT ![w] = now]
  /\ wpc' = [wpc EXCEPT ![w] = "collect"]
  /\ UNCHANGED <<now, bootVars, slotVars, opVars, due, histVars>>

Expired(w, s) == used[s] /\ active[s] /\ wnow[w] >= deadline[s]

CollectedStaysActive(w, s) == active[s]
ActiveAfterCollect(w, s) == active[s] /\ ~Expired(w, s)

ExpiredSlots(w) == {s \in Slots : Expired(w, s)}

(* The loop over the table visits the expired slots in ascending order:    *)
(* there is one such sequence.                                             *)
InSlotOrder(w) ==
  {visit \in [1 .. Cardinality(ExpiredSlots(w)) -> ExpiredSlots(w)] :
     \A i, j \in DOMAIN visit : i < j => visit[i] < visit[j]}

LastDueMissed(visit) == [i \in 1 .. Len(visit) - 1 |-> owner[visit[i]]]
DueTimers(visit) == [i \in 1 .. Len(visit) |-> owner[visit[i]]]

Collect(w) ==
  /\ wpc[w] = "collect"
  /\ \E visit \in InSlotOrder(w) : due' = [due EXCEPT ![w] = DueTimers(visit)]
  /\ active' = [s \in Slots |-> ActiveAfterCollect(w, s)]
  /\ wpc' = [wpc EXCEPT ![w] = "fire"]
  /\ wnow' = [wnow EXCEPT ![w] = 0]    \* not used again
  /\ UNCHANGED <<now, bootVars, used, owner, deadline, opVars, histVars>>

(* handler(data) of the next collected timer.                              *)
Fire(w) ==
  /\ wpc[w] = "fire" /\ due[w] # <<>>
  /\ fires' = Bump(fires, Head(due[w]), 1)
  /\ due' = [due EXCEPT ![w] = Tail(@)]
  /\ UNCHANGED <<now, bootVars, slotVars, opVars, wpc, wnow, arms, cancelled, exists,
                 orphans>>

ProcEnd(w) ==
  /\ wpc[w] = "fire" /\ due[w] = <<>>
  /\ wpc' = [wpc EXCEPT ![w] = "sleep"]
  /\ UNCHANGED <<now, bootVars, slotVars, opVars, wnow, due, histVars>>

Tick ==
  /\ now < MaxTime
  /\ now' = now + 1
  /\ UNCHANGED <<bootVars, slotVars, opVars, workVars, histVars>>

OpStep(t) == InitSpawn(t) \/ InitAlloc(t) \/ InitRegister(t) \/ ModArm(t) \/ DestroyUnlink(t)
WorkStep(w) == ProcBegin(w) \/ Collect(w) \/ Fire(w) \/ ProcEnd(w)

Next ==
  \/ \E t \in Timers : \/ InitBegin(t) \/ AdaptInitBegin(t) \/ OpStep(t)
                       \/ \E i \in Intervals : ModBegin(t, i)
                       \/ osal_timer_stop(t) \/ DestroySlot(t)
  \/ \E w \in Workers : WorkStep(w)
  \/ Tick

Spec == Init /\ [][Next]_vars

(* The systick advances, and the worker is a thread at the highest         *)
(* priority that sleeps for one tick at a time.                            *)
FairSpec ==
  /\ Spec
  /\ WF_vars(Tick)
  /\ \A w \in Workers : WF_vars(WorkStep(w))
  /\ \A t \in Timers : WF_vars(OpStep(t))

-----------------------------------------------------------------------------
(* A timer's entries in the batches, by worker and place, counted from the *)
(* end so that firing the first moves none, and its armed slots.           *)
Batched(t) ==
  {p \in Workers \X Slots :
     LET batch == due[p[1]]
     IN  p[2] <= Len(batch) /\ batch[Len(batch) + 1 - p[2]] = t}
ArmedSlots(t) == {s \in Slots : used[s] /\ active[s] /\ owner[s] = t}
Armed(t) == ArmedSlots(t) # {}

(* Each osal_timer_mod leads to exactly one end: the handler was called,   *)
(* the arm was cancelled (a stop that returned 1, a rearm, a destroy), it  *)
(* is collected, or it still waits, be it in a slot its timer has lost. No *)
(* stop that reported success is followed by that arm's call, and no two   *)
(* workers fire one arm twice.                                             *)
ArmsAccounted ==
  \A t \in Timers :
    arms[t] = fires[t] + cancelled[t] + Cardinality(Batched(t)) + Cardinality(ArmedSlots(t))

(* The slot table and the timers' handles name each other, so that through *)
(* any order of inits and destroys no slot is shared between timers, and   *)
(* none is leaked but those whose timer osal_adapt_timer_init was called   *)
(* on while it was in use.  Such a slot is never free again, it may still  *)
(* be armed, and no timer's handle reaches it any more.                    *)
SlotsMatchHandles ==
  /\ \A t \in Timers : handle[t] # 0 /\ pc[t] # "unlink" =>
       used[handle[t]] /\ owner[handle[t]] = t /\ handle[t] \notin orphans
  /\ \A s \in Slots : used[s] =>
       \/ s \in orphans
       \/ \E t \in Timers : handle[t] = s /\ pc[t] # "unlink"
       \/ \E t \in Timers : pc[t] = "register" /\ arg[t] = s
  /\ \A t, u \in Timers :
       t # u /\ pc[t] = "register" => handle[u] # arg[t] \/ pc[u] = "unlink"
  /\ \A s \in orphans : used[s] /\ owner[s] \in Timers

(* The arms, the slots and the handles, together.                          *)
TimersAccounted == TypeOK /\ ArmsAccounted /\ SlotsMatchHandles

(* "SAFETY: the slot held a live osal_timer pointer": the timer whose      *)
(* handler and data a worker reads has not been destroyed.                 *)
(* Refuted by TLC, so that no configuration lists it: a timer may be       *)
(* destroyed, by its owner or by an earlier handler of the batch, after it *)
(* was collected, or while a slot it lost is still armed.                  *)
FiresLiveTimer ==
  [][\A w \in Workers : Len(due'[w]) < Len(due[w]) => exists[Head(due[w])]]_vars

(* "(Re)arm a timer: it fires once after `interval` ms": an armed timer    *)
(* fires, unless it is stopped, rearmed or destroyed.  A timer whose init  *)
(* ran during a spawn that then failed is the exception.                   *)
ArmedFires ==
  \A t \in Timers : \A n \in 1 .. MaxArms[t] :
    (arms[t] = n /\ Armed(t)) ~>
      (arms[t] = fires[t] + cancelled[t] \/ arms[t] > n \/ spawnFailures > 0)
=============================================================================
