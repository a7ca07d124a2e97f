------------------------------ MODULE OsalProofs -----------------------------
(***************************************************************************)
(* The OSAL's waiting and timing, for every value of the constants.  The   *)
(* timer service (TimerService): every slot agrees with its owner's        *)
(* handle, and no arming is lost or counted twice.  The event groups       *)
(* (EventGroup): no reader sleeps unnoticed while its condition holds, and *)
(* the slots and bits are accounted for.                                   *)
(***************************************************************************)
EXTENDS TimerService, EventGroup, FiniteSetTheorems, FunctionTheorems, TLAPS

-----------------------------------------------------------------------------
(* The timers.                                                             *)
(* A timer is in its slot from osal_timer_init's registration until        *)
(* osal_timer_destroy, which empties the slot before it takes the handle,  *)
(* or osal_adapt_timer_init, which takes the handle and leaves the slot.   *)
Holds(t) == handle[t] # 0 /\ pc[t] # "unlink"

HandleInv ==
  /\ \A t \in Timers : Holds(t) =>
       used[handle[t]] /\ owner[handle[t]] = t /\ handle[t] \notin orphans
  /\ \A s \in Slots : owner[s] # NoTimer =>
       s \in orphans \/ (handle[owner[s]] = s /\ Holds(owner[s]))
  /\ \A s \in Slots : active[s] => owner[s] # NoTimer
  /\ \A s \in orphans : used[s] /\ owner[s] # NoTimer

(* A used slot without an owner belongs to one init between its two        *)
(* critical sections.                                                      *)
RegisterInv ==
  /\ \A s \in Slots : used[s] /\ owner[s] = NoTimer =>
       \E t \in Timers : pc[t] = "register" /\ arg[t] = s
  /\ \A t \in Timers : pc[t] = "register" =>
       arg[t] \in Slots /\ used[arg[t]] /\ owner[arg[t]] = NoTimer
  /\ \A t, u \in Timers :
       pc[t] = "register" /\ pc[u] = "register" /\ arg[t] = arg[u] => t = u

StepInv ==
  \A t \in Timers :
    /\ pc[t] \in {"spawn", "alloc", "register"} => handle[t] = 0
    /\ pc[t] \in {"arm", "unlink"} => handle[t] # 0
    /\ pc[t] = "arm" => arg[t] \in Nat /\ clock[t] + arg[t] <= MaxTime /\ arms[t] < MaxArms[t]

(* A worker has a batch only while it fires it, no longer than the table.  *)
DueInv ==
  \A w \in Workers :
    (wpc[w] # "fire" => due[w] = <<>>) /\ Len(due[w]) <= MAX_TIMERS

TimerInv == TypeOK /\ HandleInv /\ RegisterInv /\ StepInv /\ DueInv /\ ArmsAccounted

-----------------------------------------------------------------------------
LEMMA Ranges ==
  /\ 0 \in 0 .. MaxTime /\ 0 \in Nat /\ TRUE \in BOOLEAN /\ FALSE \in BOOLEAN
  /\ Slots \subseteq 0 .. MAX_TIMERS /\ Slots \subseteq Nat /\ 0 \notin Slots
  /\ NoTimer \notin Timers
BY TimerAssumption DEF Slots

LEMMA TimerInit == Init => TimerInv
<1> SUFFICES ASSUME Init PROVE TimerInv
  OBVIOUS
<1>1. /\ 0 \in 0 .. MaxTime /\ 0 \in 0 .. SpawnFailures
      /\ 0 \in 0 .. MAX_TIMERS /\ 0 \in Nat /\ <<>> \in Seq(Timers)
      /\ Workers \ {TimerWorker} \subseteq Workers
  BY TimerAssumption
<1>2. TypeOK
  BY <1>1 DEF Init, TypeOK, OpSteps
<1>3. HandleInv /\ RegisterInv /\ StepInv
  BY DEF Init, HandleInv, RegisterInv, StepInv, Holds
<1>4. DueInv
  BY TimerAssumption DEF Init, DueInv
<1>5. ArmsAccounted
  <2>1. \A t \in Timers : Batched(t) = {} /\ ArmedSlots(t) = {}
    BY DEF Init, Batched, ArmedSlots, Slots
  <2>2. \A t \in Timers : Cardinality(Batched(t)) = 0 /\ Cardinality(ArmedSlots(t)) = 0
    BY <2>1, FS_EmptySet, Zenon
  <2> QED BY <2>2 DEF Init, ArmsAccounted
<1> QED BY <1>2, <1>3, <1>4, <1>5 DEF TimerInv

(* The two sets that the arms are counted by are finite.                   *)
LEMMA CountsFinite ==
  ASSUME NEW t
  PROVE  /\ IsFiniteSet(Batched(t)) /\ Cardinality(Batched(t)) \in Nat
         /\ IsFiniteSet(ArmedSlots(t)) /\ Cardinality(ArmedSlots(t)) \in Nat
<1>1. IsFiniteSet(Slots) /\ IsFiniteSet(Workers \X Slots)
  <2>1. MAX_TIMERS \in Int /\ 1 \in Int /\ IsFiniteSet(Workers)
    BY TimerAssumption
  <2>2. IsFiniteSet(Slots)
    BY <2>1, FS_Interval DEF Slots
  <2> QED BY <2>1, <2>2, FS_Product
<1>2. Batched(t) \in SUBSET (Workers \X Slots) /\ ArmedSlots(t) \in SUBSET Slots
  BY DEF Batched, ArmedSlots
<1>3. IsFiniteSet(Batched(t)) /\ IsFiniteSet(ArmedSlots(t))
  BY <1>1, <1>2, FS_Subset
<1> QED BY <1>3, FS_CardinalityType

LEMMA SlotsAgree == TimerInv => SlotsMatchHandles
<1> SUFFICES ASSUME TimerInv PROVE SlotsMatchHandles
  OBVIOUS
<1> USE TimerAssumption DEF TimerInv, Holds
<1>1. /\ \A t \in Timers : handle[t] # 0 /\ pc[t] # "unlink" =>
           used[handle[t]] /\ owner[handle[t]] = t /\ handle[t] \notin orphans
      /\ \A s \in orphans : used[s] /\ owner[s] \in Timers
  BY DEF HandleInv, TypeOK
<1>2. ASSUME NEW s \in Slots, used[s]
      PROVE  \/ s \in orphans
             \/ \E t \in Timers : handle[t] = s /\ pc[t] # "unlink"
             \/ \E t \in Timers : pc[t] = "register" /\ arg[t] = s
  <2>1. CASE owner[s] = NoTimer
    BY <1>2, <2>1 DEF RegisterInv
  <2>2. CASE owner[s] # NoTimer
    <3>1. owner[s] \in Timers
      BY <2>2 DEF TypeOK
    <3> QED BY <2>2, <3>1 DEF HandleInv
  <2> QED BY <2>1, <2>2
<1>3. ASSUME NEW t \in Timers, NEW u \in Timers, t # u, pc[t] = "register"
      PROVE  handle[u] # arg[t] \/ pc[u] = "unlink"
  <2> SUFFICES ASSUME handle[u] = arg[t], pc[u] # "unlink" PROVE FALSE
    OBVIOUS
  <2>1. arg[t] \in Slots /\ owner[arg[t]] = NoTimer
    BY <1>3 DEF RegisterInv
  <2>2. Holds(u)
    BY <2>1 DEF Slots
  <2>3. owner[handle[u]] = u
    BY <2>2 DEF HandleInv
  <2> QED BY <2>1, <2>3
<1> QED BY <1>1, <1>2, <1>3 DEF SlotsMatchHandles

-----------------------------------------------------------------------------
(* Steps that leave the table and the batches alone.                       *)
LEMMA CountsKept ==
  ASSUME TimerInv, UNCHANGED <<slotVars, due, arms, fires, cancelled>>
  PROVE  ArmsAccounted'
<1>1. \A t \in Timers : Batched(t)' = Batched(t) /\ ArmedSlots(t)' = ArmedSlots(t)
  BY DEF Batched, ArmedSlots, slotVars
<1> QED BY <1>1 DEF TimerInv, ArmsAccounted

LEMMA BatchesKept ==
  ASSUME TimerInv, UNCHANGED workVars
  PROVE  DueInv'
BY DEF TimerInv, DueInv, workVars

LEMMA BootSound ==
  ASSUME TimerInv, NEW t \in Timers, InitBegin(t) \/ InitSpawn(t)
  PROVE  TimerInv'
<1> USE DEF TimerInv
<1>1. /\ UNCHANGED <<now, slotVars, handle, arg, clock, workVars, histVars>>
      /\ pc[t] \in {"idle", "spawn"} /\ handle[t] = 0
      /\ \E step \in {"spawn", "alloc", "idle"} : pc' = [pc EXCEPT ![t] = step]
      /\ started' \in BOOLEAN /\ running' \subseteq Workers
      /\ spawnFailures' \in 0 .. SpawnFailures
  <2>1. CASE InitBegin(t)
    BY <2>1 DEF InitBegin, EnsureWorker, Goto, TypeOK
  <2>2. CASE InitSpawn(t)
    <3>1. pc[t] = "spawn" /\ handle[t] = 0
      BY <2>2 DEF InitSpawn, StepInv
    <3>2. spawnFailures' \in 0 .. SpawnFailures
      BY <2>2, TimerAssumption DEF InitSpawn, TypeOK
    <3>3. TimerWorker \in Workers
      BY TimerAssumption
    <3> QED BY <2>2, <3>1, <3>2, <3>3 DEF InitSpawn, Goto, TypeOK
  <2> QED BY <2>1, <2>2
<1>2. PICK step \in {"spawn", "alloc", "idle"} : pc' = [pc EXCEPT ![t] = step]
  BY <1>1
<1>3. TypeOK'
  BY <1>1, <1>2 DEF TypeOK, OpSteps, slotVars, workVars, histVars
<1>4. \A u \in Timers : Holds(u)' = Holds(u)
  BY <1>1, <1>2 DEF Holds, TypeOK
<1>5. \A u \in Timers : u # t => pc'[u] = pc[u]
  BY <1>2 DEF TypeOK
<1>6. pc'[t] = step /\ handle' = handle /\ arg' = arg /\ clock' = clock /\ arms' = arms
  BY <1>1, <1>2 DEF TypeOK, histVars
<1>7. \A u \in Timers : pc'[u] = "register" <=> pc[u] = "register"
  BY <1>1, <1>5, <1>6
<1>8. HandleInv'
  <2>1. \A s \in Slots : owner[s] # NoTimer => owner[s] \in Timers
    BY DEF TypeOK
  <2> QED BY <1>1, <1>4, <2>1 DEF HandleInv, slotVars, histVars
<1>9. RegisterInv'
  BY <1>1, <1>7 DEF RegisterInv, slotVars
<1>10. StepInv'
  BY <1>1, <1>5, <1>6 DEF StepInv
<1> QED BY <1>1, <1>3, <1>8, <1>9, <1>10, CountsKept, BatchesKept DEF histVars, workVars

(* A timer in use that is initialised anew leaves its slot an orphan.      *)
LEMMA AdaptSound ==
  ASSUME TimerInv, NEW t \in Timers, AdaptInitBegin(t)
  PROVE  TimerInv'
<1> USE DEF TimerInv
<1> DEFINE s == handle[t]
<1>1. /\ pc[t] = "idle" /\ Holds(t)
      /\ handle' = [handle EXCEPT ![t] = 0] /\ orphans' = orphans \cup {s}
      /\ UNCHANGED <<now, running, spawnFailures, slotVars, arg, clock, workVars,
                     arms, fires, cancelled, exists>>
      /\ started' \in BOOLEAN
      /\ \E step \in {"spawn", "alloc", "idle"} : pc' = [pc EXCEPT ![t] = step]
  <2>1. pc = [pc EXCEPT ![t] = pc[t]] /\ started \in BOOLEAN
    BY DEF TypeOK
  <2> QED BY <2>1 DEF AdaptInitBegin, EnsureWorker, ForgottenSlot, Goto, Holds
<1>2. s \in Slots /\ used[s] /\ owner[s] = t /\ s \notin orphans
  BY <1>1 DEF TypeOK, Holds, Slots, HandleInv
<1> HIDE DEF s
<1>3. /\ \A u \in Timers : u # t => pc'[u] = pc[u] /\ handle'[u] = handle[u]
      /\ pc'[t] \in {"spawn", "alloc", "idle"} /\ handle'[t] = 0
  BY <1>1 DEF TypeOK
<1>4. TypeOK'
  <2>1. 0 \in 0 .. MAX_TIMERS
    BY TimerAssumption
  <2> QED BY <1>1, <1>2, <2>1 DEF TypeOK, OpSteps, slotVars, workVars
<1>5. ~Holds(t)' /\ \A u \in Timers : u # t => Holds(u)' = Holds(u)
  BY <1>3 DEF Holds
<1>6. HandleInv'
  <2>1. ASSUME NEW u \in Timers, Holds(u)'
        PROVE  used'[handle'[u]] /\ owner'[handle'[u]] = u /\ handle'[u] \notin orphans'
    <3>1. u # t /\ Holds(u) /\ handle'[u] = handle[u]
      BY <1>3, <1>5, <2>1
    <3>2. used[handle[u]] /\ owner[handle[u]] = u /\ handle[u] \notin orphans
      BY <3>1 DEF HandleInv
    <3> QED BY <1>1, <1>2, <3>1, <3>2 DEF slotVars
  <2>2. ASSUME NEW r \in Slots, owner'[r] # NoTimer, r \notin orphans'
        PROVE  handle'[owner'[r]] = r /\ Holds(owner[r])' /\ owner'[r] = owner[r]
    <3>1. owner'[r] = owner[r] /\ owner[r] \in Timers
      BY <1>1, <2>2 DEF TypeOK, slotVars
    <3>2. handle[owner[r]] = r /\ Holds(owner[r]) /\ r # s
      BY <1>1, <2>2, <3>1 DEF HandleInv
    <3>3. owner[r] # t
      BY <3>2 DEF s
    <3> QED BY <1>3, <1>5, <3>1, <3>2, <3>3
  <2>3. \A r \in orphans' : used'[r] /\ owner'[r] # NoTimer
    BY <1>1, <1>2, Ranges DEF HandleInv, slotVars
  <2>4. \A r \in Slots : active'[r] => owner'[r] # NoTimer
    BY <1>1 DEF HandleInv, slotVars
  <2> QED BY <2>1, <2>2, <2>3, <2>4 DEF HandleInv, Holds
<1>7. RegisterInv'
  <2>1. \A u \in Timers : pc'[u] = "register" <=> pc[u] = "register"
    BY <1>1, <1>3
  <2> QED BY <1>1, <2>1 DEF RegisterInv, slotVars
<1>8. StepInv'
  BY <1>1, <1>3 DEF StepInv
<1> QED BY <1>1, <1>4, <1>6, <1>7, <1>8, CountsKept, BatchesKept DEF workVars

LEMMA TickSound == TimerInv /\ Tick => TimerInv'
<1> SUFFICES ASSUME TimerInv, Tick PROVE TimerInv'
  OBVIOUS
<1> USE DEF TimerInv, Tick
<1>1. now' \in 0 .. MaxTime
  BY TimerAssumption DEF TypeOK
<1>a. TypeOK'
  BY <1>1 DEF TypeOK, bootVars, slotVars, opVars, workVars, histVars
<1>2. HandleInv' /\ RegisterInv' /\ StepInv'
  BY DEF HandleInv, RegisterInv, StepInv, Holds, slotVars, opVars, histVars
<1> QED BY <1>a, <1>2, CountsKept, BatchesKept DEF histVars, workVars

(* The first free slot is nobody's.                                        *)
LEMMA AllocSound ==
  ASSUME TimerInv, NEW t \in Timers, InitAlloc(t)
  PROVE  TimerInv'
<1> USE DEF TimerInv
<1>1. UNCHANGED <<now, bootVars, handle, clock, workVars, histVars>> /\ pc[t] = "alloc"
  BY DEF InitAlloc
<1>2. handle[t] = 0
  BY <1>1 DEF StepInv
<1>3. CASE Goto(t, "idle") /\ UNCHANGED <<slotVars, arg>>
  <2>1. TypeOK'
    BY <1>1, <1>3 DEF TypeOK, OpSteps, Goto, bootVars, slotVars, workVars, histVars
  <2>2. /\ \A u \in Timers : Holds(u)' = Holds(u)
        /\ \A u \in Timers : u # t => pc'[u] = pc[u]
        /\ pc'[t] = "idle"
    BY <1>1, <1>2, <1>3 DEF Holds, TypeOK, Goto
  <2>3. HandleInv'
    <3>1. \A s \in Slots : owner[s] # NoTimer => owner[s] \in Timers
      BY DEF TypeOK
    <3> QED BY <1>1, <1>3, <2>2, <3>1 DEF HandleInv, slotVars, histVars
  <2>4. RegisterInv'
    BY <1>1, <1>3, <2>2 DEF RegisterInv, slotVars
  <2>5. StepInv'
    BY <1>1, <1>3, <2>2 DEF StepInv, histVars
  <2> QED BY <1>1, <1>3, <2>1, <2>3, <2>4, <2>5, CountsKept, BatchesKept DEF histVars, workVars
<1>4. ASSUME NEW s \in Slots, FreeSlot(s),
             used' = [used EXCEPT ![s] = TRUE], active' = [active EXCEPT ![s] = FALSE],
             owner' = [owner EXCEPT ![s] = NoTimer], deadline' = [deadline EXCEPT ![s] = 0],
             arg' = [arg EXCEPT ![t] = s], Goto(t, "register")
      PROVE  TimerInv'
  <2>1. ~used[s] /\ owner[s] = NoTimer /\ ~active[s] /\ s \in Nat
    <3>1. ASSUME owner[s] # NoTimer PROVE FALSE
      <4>1. s \notin orphans
        BY <1>4 DEF FreeSlot, HandleInv
      <4>2. owner[s] \in Timers /\ Holds(owner[s]) /\ handle[owner[s]] = s
        BY <3>1, <4>1 DEF TypeOK, HandleInv
      <4> QED BY <1>4, <4>2 DEF HandleInv, FreeSlot
    <3> QED BY <1>4, <3>1 DEF FreeSlot, HandleInv, Slots
  <2>2. /\ owner' = owner /\ active' = active
        /\ \A r \in Slots : used'[r] = (used[r] \/ r = s)
    BY <1>4, <2>1 DEF TypeOK
  <2>3. /\ \A u \in Timers : u # t => pc'[u] = pc[u] /\ arg'[u] = arg[u]
        /\ pc'[t] = "register" /\ arg'[t] = s
        /\ \A u \in Timers : Holds(u)' = Holds(u)
    BY <1>1, <1>2, <1>4 DEF Holds, TypeOK, Goto
  <2>4. TypeOK'
    BY <1>1, <1>4, <2>1, Ranges DEF TypeOK, OpSteps, Goto, bootVars, workVars, histVars
  <2>5. HandleInv'
    <3>1. \A r \in Slots : owner[r] # NoTimer => owner[r] \in Timers
      BY DEF TypeOK
    <3>2. \A u \in Timers : Holds(u) => handle[u] \in Slots
      BY DEF TypeOK, Holds, Slots
    <3>3. orphans \subseteq Slots /\ orphans' = orphans
      BY <1>1 DEF TypeOK, histVars
    <3> QED BY <1>1, <2>2, <2>3, <3>1, <3>2, <3>3 DEF HandleInv
  <2>6. RegisterInv'
    <3>1. ASSUME NEW r \in Slots, used'[r], owner'[r] = NoTimer
          PROVE  \E u \in Timers : pc'[u] = "register" /\ arg'[u] = r
      <4>1. CASE r = s
        BY <2>3, <4>1
      <4>2. CASE r # s
        <5>1. PICK u \in Timers : pc[u] = "register" /\ arg[u] = r
          BY <2>2, <3>1, <4>2 DEF RegisterInv
        <5>2. u # t
          BY <1>1, <5>1
        <5> QED BY <2>3, <5>1, <5>2
      <4> QED BY <4>1, <4>2
    <3>2. ASSUME NEW u \in Timers, pc'[u] = "register"
          PROVE  arg'[u] \in Slots /\ used'[arg'[u]] /\ owner'[arg'[u]] = NoTimer
      <4>1. CASE u = t
        BY <2>1, <2>2, <2>3, <4>1
      <4>2. CASE u # t
        BY <2>2, <2>3, <3>2, <4>2 DEF RegisterInv
      <4> QED BY <4>1, <4>2
    <3>3. ASSUME NEW u \in Timers, NEW v \in Timers,
                 pc'[u] = "register", pc'[v] = "register", arg'[u] = arg'[v]
          PROVE  u = v
      BY <2>1, <2>3, <3>3 DEF RegisterInv
    <3> QED BY <3>1, <3>2, <3>3 DEF RegisterInv
  <2>7. StepInv'
    BY <1>1, <1>2, <2>3 DEF StepInv, histVars
  <2>8. ASSUME NEW u \in Timers
        PROVE  Batched(u)' = Batched(u) /\ ArmedSlots(u)' = ArmedSlots(u)
    BY <1>1, <2>1, <2>2 DEF Batched, ArmedSlots, workVars
  <2>9. ArmsAccounted'
    BY <1>1, <2>8 DEF ArmsAccounted, histVars
  <2> QED BY <1>1, <2>4, <2>5, <2>6, <2>7, <2>9, BatchesKept
<1> QED BY <1>3, <1>4 DEF InitAlloc

LEMMA RegisterSound ==
  ASSUME TimerInv, NEW t \in Timers, InitRegister(t)
  PROVE  TimerInv'
<1> USE DEF TimerInv
<1> DEFINE s == arg[t]
<1>1. /\ pc[t] = "register" /\ handle[t] = 0
      /\ s \in Slots /\ used[s] /\ owner[s] = NoTimer /\ ~active[s]
  BY DEF InitRegister, StepInv, RegisterInv, HandleInv
<1>2. /\ UNCHANGED <<now, bootVars, used, active, deadline, workVars, arms, fires, cancelled,
                     orphans>>
      /\ handle' = [handle EXCEPT ![t] = s] /\ owner' = [owner EXCEPT ![s] = t]
      /\ pc' = [pc EXCEPT ![t] = "idle"] /\ arg' = [arg EXCEPT ![t] = 0]
      /\ clock' = [clock EXCEPT ![t] = 0] /\ exists' = [exists EXCEPT ![t] = TRUE]
  BY DEF InitRegister, Done, Goto
<1> HIDE DEF s
<1>3. /\ \A u \in Timers : u # t => /\ pc'[u] = pc[u] /\ arg'[u] = arg[u]
                                    /\ handle'[u] = handle[u] /\ clock'[u] = clock[u]
      /\ pc'[t] = "idle" /\ handle'[t] = s
      /\ \A r \in Slots : r # s => owner'[r] = owner[r]
      /\ owner'[s] = t
  BY <1>1, <1>2 DEF TypeOK
<1>4. TypeOK'
  BY <1>1, <1>2, Ranges DEF TypeOK, OpSteps, bootVars, workVars
<1>5. s # 0
  BY <1>1, Ranges
<1>6. Holds(t)' /\ \A u \in Timers : u # t => Holds(u)' = Holds(u)
  BY <1>3, <1>5 DEF Holds
<1>7. /\ s \notin orphans
      /\ \A r \in Slots : owner[r] # NoTimer /\ r \notin orphans =>
           owner[r] \in Timers /\ owner[r] # t
  <2>1. ~Holds(t)
    BY <1>1 DEF Holds
  <2> QED BY <1>1, <2>1 DEF TypeOK, HandleInv
<1>8. \A u \in Timers : Holds(u) => handle[u] \in Slots
  BY DEF TypeOK, Holds, Slots
<1>9. HandleInv'
  <2>1. ASSUME NEW u \in Timers, Holds(u)'
        PROVE  used'[handle'[u]] /\ owner'[handle'[u]] = u /\ handle'[u] \notin orphans'
    <3>1. CASE u = t
      BY <1>1, <1>2, <1>3, <1>7, <3>1
    <3>2. CASE u # t
      <4>1. /\ Holds(u) /\ handle[u] \in Slots /\ owner[handle[u]] = u /\ used[handle[u]]
            /\ handle[u] \notin orphans
        BY <1>6, <1>8, <2>1, <3>2 DEF HandleInv
      <4>2. handle[u] # s
        BY <1>1, <4>1, Ranges
      <4> QED BY <1>2, <1>3, <3>2, <4>1, <4>2
    <3> QED BY <3>1, <3>2
  <2>2. ASSUME NEW r \in Slots, owner'[r] # NoTimer, r \notin orphans'
        PROVE  handle'[owner'[r]] = r /\ Holds(owner[r])'
    <3>1. CASE r = s
      <4>1. owner'[r] = t /\ handle'[t] = r
        BY <1>3, <3>1
      <4> QED BY <1>6, <4>1 DEF Holds
    <3>2. CASE r # s
      <4>1. /\ owner'[r] = owner[r] /\ owner[r] \in Timers /\ owner[r] # t
            /\ handle[owner[r]] = r /\ Holds(owner[r])
        BY <1>2, <1>3, <1>7, <2>2, <3>2 DEF HandleInv
      <4>2. handle'[owner[r]] = r /\ pc'[owner[r]] = pc[owner[r]]
        BY <1>3, <4>1
      <4> QED BY <4>1, <4>2 DEF Holds
    <3> QED BY <3>1, <3>2
  <2>3. \A r \in Slots : active'[r] => owner'[r] # NoTimer
    BY <1>1, <1>2, <1>3 DEF HandleInv
  <2>4. \A r \in orphans' : used'[r] /\ owner'[r] # NoTimer
    <3>1. orphans \subseteq Slots
      BY DEF TypeOK
    <3> QED BY <1>2, <1>3, <1>7, <3>1 DEF HandleInv
  <2> QED BY <2>1, <2>2, <2>3, <2>4 DEF HandleInv
<1>10. RegisterInv'
  <2>1. \A u \in Timers : pc'[u] = "register" =>
          u # t /\ pc[u] = "register" /\ arg'[u] = arg[u] /\ arg[u] # s
    BY <1>1, <1>3 DEF RegisterInv, s
  <2>2. ASSUME NEW r \in Slots, used'[r], owner'[r] = NoTimer
        PROVE  \E u \in Timers : pc'[u] = "register" /\ arg'[u] = r
    <3>1. r # s /\ used[r] /\ owner[r] = NoTimer
      BY <1>2, <1>3, <2>2, Ranges
    <3>2. PICK u \in Timers : pc[u] = "register" /\ arg[u] = r
      BY <3>1 DEF RegisterInv
    <3>3. u # t
      BY <3>1, <3>2 DEF s
    <3> QED BY <1>3, <3>2, <3>3
  <2> QED BY <1>2, <1>3, <2>1, <2>2 DEF RegisterInv
<1>11. StepInv'
  BY <1>2, <1>3 DEF StepInv
<1>12. ASSUME NEW u \in Timers
       PROVE  Batched(u)' = Batched(u) /\ ArmedSlots(u)' = ArmedSlots(u)
  BY <1>1, <1>2, <1>3 DEF Batched, ArmedSlots, workVars
<1>13. ArmsAccounted'
  BY <1>2, <1>12 DEF ArmsAccounted
<1> QED BY <1>2, <1>4, <1>9, <1>10, <1>11, <1>13, BatchesKept

LEMMA ModBeginSound ==
  ASSUME TimerInv, NEW t \in Timers, NEW i \in Intervals, ModBegin(t, i)
  PROVE  TimerInv'
<1> USE DEF TimerInv
<1>1. /\ pc[t] = "idle" /\ handle[t] # 0 /\ arms[t] < MaxArms[t]
      /\ i \in Nat /\ now + i <= MaxTime /\ now \in 0 .. MaxTime
  BY TimerAssumption DEF ModBegin, TypeOK
<1>2. /\ UNCHANGED <<now, bootVars, slotVars, handle, workVars, histVars>>
      /\ arg' = [arg EXCEPT ![t] = i] /\ clock' = [clock EXCEPT ![t] = now]
      /\ pc' = [pc EXCEPT ![t] = "arm"]
  BY DEF ModBegin, Goto
<1>3. /\ \A u \in Timers : u # t => /\ pc'[u] = pc[u] /\ arg'[u] = arg[u]
                                    /\ clock'[u] = clock[u]
      /\ pc'[t] = "arm" /\ arg'[t] = i /\ clock'[t] = now
  BY <1>2 DEF TypeOK
<1>4. TypeOK'
  BY <1>1, <1>2 DEF TypeOK, OpSteps, bootVars, slotVars, workVars, histVars
<1>5. \A u \in Timers : Holds(u)' = Holds(u)
  BY <1>1, <1>2, <1>3 DEF Holds
<1>6. HandleInv'
  <2>1. \A s \in Slots : owner[s] # NoTimer => owner[s] \in Timers
    BY DEF TypeOK
  <2> QED BY <1>2, <1>5, <2>1 DEF HandleInv, slotVars, histVars
<1>7. RegisterInv'
  <2>1. \A u \in Timers : /\ pc'[u] = "register" <=> pc[u] = "register"
                          /\ pc[u] = "register" => arg'[u] = arg[u]
    BY <1>1, <1>3
  <2> QED BY <1>2, <2>1 DEF RegisterInv, slotVars
<1>8. StepInv'
  BY <1>1, <1>2, <1>3 DEF StepInv, histVars
<1> QED BY <1>2, <1>4, <1>6, <1>7, <1>8, CountsKept, BatchesKept DEF workVars, histVars

(* What the operations on a timer's own slot have in common.               *)
LEMMA OwnSlot ==
  ASSUME TimerInv, NEW t \in Timers, Holds(t)
  PROVE  /\ handle[t] \in Slots /\ used[handle[t]] /\ owner[handle[t]] = t
         /\ \A u \in Timers : u # t /\ Holds(u) => handle[u] # handle[t]
         /\ handle[t] \notin orphans
<1>1. handle[t] \in Slots
  BY DEF TimerInv, TypeOK, Holds, Slots
<1> QED BY <1>1 DEF TimerInv, HandleInv

LEMMA WithOrWithout ==
  ASSUME NEW S, IsFiniteSet(S), NEW x
  PROVE  Cardinality(S) = Cardinality(S \ {x}) + One(x \in S) /\ Cardinality(S \ {x}) \in Nat
<1>1. IsFiniteSet(S \ {x})
  BY FS_RemoveElement
<1>2. Cardinality(S) \in Nat /\ Cardinality(S \ {x}) \in Nat
  BY <1>1, FS_CardinalityType
<1>3. Cardinality(S \ {x}) = IF x \in S THEN Cardinality(S) - 1 ELSE Cardinality(S)
  BY FS_RemoveElement
<1> QED BY <1>2, <1>3 DEF One

(* An operation on a timer's slot leaves the other slots, the batches and  *)
(* the other timers' arms alone, so that the count of arms agrees after it *)
(* when the slot's own contribution does.                                  *)
LEMMA OwnArms ==
  ASSUME TimerInv, NEW t \in Timers, Holds(t),
         used' \in [Slots -> BOOLEAN], active' \in [Slots -> BOOLEAN],
         \A s \in Slots : s # handle[t] =>
           used'[s] = used[s] /\ active'[s] = active[s] /\ owner'[s] = owner[s],
         owner'[handle[t]] \in {t, NoTimer},
         UNCHANGED <<due, fires>>,
         arms'[t] \in Nat, cancelled'[t] \in Nat,
         \A u \in Timers : u # t => arms'[u] = arms[u] /\ cancelled'[u] = cancelled[u],
         arms'[t] - cancelled'[t] - One(handle[t] \in ArmedSlots(t)')
           = arms[t] - cancelled[t] - One(active[handle[t]])
  PROVE  ArmsAccounted'
<1> USE DEF TimerInv
<1> DEFINE h == handle[t]
<1>1. /\ owner[h] = t /\ used[h] /\ h \in Slots
      /\ \A u \in Timers : Batched(u)' = Batched(u)
  BY OwnSlot DEF Batched
<1>2. ASSUME NEW u \in Timers, u # t PROVE ArmedSlots(u)' = ArmedSlots(u)
  <2>1. \A s \in Slots : (used'[s] /\ active'[s] /\ owner'[s] = u)
                             <=> (used[s] /\ active[s] /\ owner[s] = u)
    BY <1>1, <1>2, Ranges
  <2> QED BY <2>1 DEF ArmedSlots
<1>3. ArmedSlots(t)' \ {h} = ArmedSlots(t) \ {h} /\ (h \in ArmedSlots(t) <=> active[h])
  BY <1>1 DEF ArmedSlots
<1>4. IsFiniteSet(ArmedSlots(t)) /\ Cardinality(Batched(t)) \in Nat
  BY CountsFinite
<1>5. IsFiniteSet(ArmedSlots(t)')
  <2>1. IsFiniteSet((ArmedSlots(t) \ {h}) \cup {h})
    BY <1>4, FS_RemoveElement, FS_AddElement
  <2>2. ArmedSlots(t)' \in SUBSET ((ArmedSlots(t) \ {h}) \cup {h})
    BY <1>3
  <2> HIDE DEF h
  <2> QED BY <2>1, <2>2, FS_Subset
<1>6. /\ Cardinality(ArmedSlots(t)) = Cardinality(ArmedSlots(t) \ {h}) + One(active[h])
      /\ Cardinality(ArmedSlots(t)') = Cardinality(ArmedSlots(t) \ {h})
                                         + One(h \in ArmedSlots(t)')
      /\ Cardinality(ArmedSlots(t) \ {h}) \in Nat
  <2>1. One(h \in ArmedSlots(t)) = One(active[h])
    BY <1>3 DEF One
  <2> HIDE DEF h
  <2>2. Cardinality(ArmedSlots(t)) = Cardinality(ArmedSlots(t) \ {h}) + One(h \in ArmedSlots(t))
        /\ Cardinality(ArmedSlots(t) \ {h}) \in Nat
    BY <1>4, WithOrWithout
  <2>3. Cardinality(ArmedSlots(t)') = Cardinality(ArmedSlots(t)' \ {h})
                                       + One(h \in ArmedSlots(t)')
    BY <1>5, WithOrWithout
  <2> QED BY <1>3, <2>1, <2>2, <2>3
<1>7. ASSUME NEW u \in Timers
      PROVE  arms'[u] = fires'[u] + cancelled'[u] + Cardinality(Batched(u)')
                          + Cardinality(ArmedSlots(u)')
  <2>1. arms[u] = fires[u] + cancelled[u] + Cardinality(Batched(u)) + Cardinality(ArmedSlots(u))
    BY DEF ArmsAccounted
  <2>2. CASE u # t
    BY <1>1, <1>2, <2>1, <2>2
  <2>3. CASE u = t
    <3>1. /\ arms[t] \in Nat /\ fires[t] \in Nat /\ cancelled[t] \in Nat
          /\ One(active[h]) \in Nat /\ One(h \in ArmedSlots(t)') \in Nat
      BY DEF TypeOK, One
    <3> DEFINE new == One(h \in ArmedSlots(t)')
               old == One(active[h])
               kept == Cardinality(ArmedSlots(t) \ {h})
               batched == Cardinality(Batched(t))
    <3>2. /\ arms[t] = fires[t] + cancelled[t] + batched + (kept + old)
          /\ arms'[t] - cancelled'[t] - new = arms[t] - cancelled[t] - old
          /\ Cardinality(ArmedSlots(t)') = kept + new /\ fires'[t] = fires[t]
          /\ kept \in Nat /\ new \in Nat /\ old \in Nat /\ batched \in Nat
          /\ Cardinality(Batched(t)') = batched
      BY <1>1, <1>4, <1>6, <2>1, <2>3, <3>1
    <3> HIDE DEF new, old, kept, batched
    <3> QED BY <2>3, <3>1, <3>2
  <2> QED BY <2>2, <2>3
<1> QED BY <1>7 DEF ArmsAccounted

LEMMA ModArmSound ==
  ASSUME TimerInv, NEW t \in Timers, ModArm(t)
  PROVE  TimerInv'
<1> USE DEF TimerInv
<1> DEFINE s == handle[t]
<1>1. /\ pc[t] = "arm" /\ Holds(t) /\ arms[t] < MaxArms[t]
      /\ clock[t] + arg[t] \in 0 .. MaxTime
  <2>1. /\ pc[t] = "arm" /\ handle[t] # 0 /\ arms[t] < MaxArms[t]
        /\ arg[t] \in Nat /\ clock[t] + arg[t] <= MaxTime
    BY DEF ModArm, StepInv
  <2>2. clock[t] \in 0 .. MaxTime /\ MaxTime \in Nat
    BY TimerAssumption DEF TypeOK
  <2> QED BY <2>1, <2>2 DEF Holds
<1>2. /\ s \in Slots /\ used[s] /\ owner[s] = t
      /\ \A u \in Timers : u # t /\ Holds(u) => handle[u] # s
      /\ s \notin orphans
  BY <1>1, OwnSlot
<1>3. /\ deadline' = [deadline EXCEPT ![s] = clock[t] + arg[t]]
      /\ active' = [active EXCEPT ![s] = TRUE]
      /\ arms' = [arms EXCEPT ![t] = @ + 1]
      /\ cancelled' = [cancelled EXCEPT ![t] = @ + One(active[s])]
      /\ pc' = [pc EXCEPT ![t] = "idle"] /\ arg' = [arg EXCEPT ![t] = 0]
      /\ clock' = [clock EXCEPT ![t] = 0]
      /\ UNCHANGED <<now, bootVars, used, owner, handle, workVars, fires, exists, orphans>>
  BY DEF ModArm, ArmDeadline, Bump, Done, Goto
<1> HIDE DEF s
<1>4. /\ \A u \in Timers : u # t => /\ pc'[u] = pc[u] /\ arg'[u] = arg[u]
                                    /\ clock'[u] = clock[u] /\ arms'[u] = arms[u]
                                    /\ cancelled'[u] = cancelled[u]
      /\ pc'[t] = "idle" /\ arms'[t] = arms[t] + 1
      /\ cancelled'[t] = cancelled[t] + One(active[s])
      /\ \A r \in Slots : r # s => active'[r] = active[r]
      /\ active'[s] = TRUE
  BY <1>2, <1>3 DEF TypeOK
<1>5. arms[t] + 1 \in Nat /\ cancelled[t] + One(active[s]) \in Nat
  BY DEF TypeOK, One
<1>6. TypeOK'
  BY <1>1, <1>2, <1>3, <1>5, Ranges DEF TypeOK, OpSteps, bootVars, workVars
<1>7. \A u \in Timers : Holds(u)' = Holds(u)
  BY <1>1, <1>3, <1>4 DEF Holds
<1>8. HandleInv'
  <2>1. \A r \in Slots : owner[r] # NoTimer => owner[r] \in Timers
    BY DEF TypeOK
  <2>2. \A r \in Slots : active'[r] => owner[r] # NoTimer
    BY <1>2, <1>4, Ranges DEF HandleInv
  <2> QED BY <1>3, <1>7, <2>1, <2>2 DEF HandleInv
<1>9. RegisterInv'
  <2>1. \A u \in Timers : /\ pc'[u] = "register" <=> pc[u] = "register"
                          /\ pc[u] = "register" => arg'[u] = arg[u]
    BY <1>1, <1>4
  <2> QED BY <1>3, <2>1 DEF RegisterInv
<1>10. StepInv'
  BY <1>3, <1>4 DEF StepInv
<1>11. ArmsAccounted'
  <2>1. used' \in [Slots -> BOOLEAN] /\ active' \in [Slots -> BOOLEAN]
    BY <1>6 DEF TypeOK
  <2>2. /\ \A r \in Slots : r # handle[t] =>
             used'[r] = used[r] /\ active'[r] = active[r] /\ owner'[r] = owner[r]
        /\ owner'[handle[t]] \in {t, NoTimer}
    BY <1>2, <1>3, <1>4 DEF s
  <2>3. arms'[t] - cancelled'[t] - One(s \in ArmedSlots(t)')
          = arms[t] - cancelled[t] - One(active[s])
    <3>1. s \in ArmedSlots(t)'
      BY <1>2, <1>3, <1>4 DEF ArmedSlots
    <3> QED BY <1>3, <1>4, <3>1 DEF TypeOK, One
  <2>4. UNCHANGED <<due, fires>> /\ arms'[t] \in Nat /\ cancelled'[t] \in Nat
    BY <1>3, <1>4, <1>5 DEF TypeOK, workVars
  <2> QED BY <1>1, <1>3, <1>4, <2>1, <2>2, <2>3, <2>4, OwnArms DEF s
<1> QED BY <1>3, <1>6, <1>8, <1>9, <1>10, <1>11, BatchesKept

LEMMA StopSound ==
  ASSUME TimerInv, NEW t \in Timers, osal_timer_stop(t)
  PROVE  TimerInv'
<1> USE DEF TimerInv
<1> DEFINE s == handle[t]
<1>1. Holds(t)
  BY DEF osal_timer_stop, Holds
<1>2. s \in Slots /\ used[s] /\ owner[s] = t
  BY <1>1, OwnSlot
<1>3. /\ active' = [active EXCEPT ![s] = FALSE]
      /\ cancelled' = [cancelled EXCEPT ![t] = @ + One(active[s])]
      /\ UNCHANGED <<now, bootVars, used, owner, deadline, opVars, workVars,
                     arms, fires, exists, orphans>>
  BY DEF osal_timer_stop, Bump
<1> HIDE DEF s
<1>4. /\ \A u \in Timers : u # t => cancelled'[u] = cancelled[u]
      /\ cancelled'[t] = cancelled[t] + One(active[s])
      /\ \A r \in Slots : r # s => active'[r] = active[r]
      /\ active'[s] = FALSE
  BY <1>2, <1>3 DEF TypeOK
<1>5. cancelled[t] + One(active[s]) \in Nat
  BY DEF TypeOK, One
<1>6. TypeOK'
  BY <1>2, <1>3, <1>5 DEF TypeOK, bootVars, opVars, workVars
<1>7. HandleInv'
  <2>1. \A r \in Slots : active'[r] => active[r]
    BY <1>2, <1>4
  <2> QED BY <1>3, <2>1 DEF HandleInv, Holds, opVars
<1>8. RegisterInv' /\ StepInv'
  BY <1>3 DEF RegisterInv, StepInv, opVars
<1>9. ArmsAccounted'
  <2>1. used' \in [Slots -> BOOLEAN] /\ active' \in [Slots -> BOOLEAN]
    BY <1>6 DEF TypeOK
  <2>2. /\ \A r \in Slots : r # handle[t] =>
             used'[r] = used[r] /\ active'[r] = active[r] /\ owner'[r] = owner[r]
        /\ owner'[handle[t]] \in {t, NoTimer}
    BY <1>2, <1>3, <1>4 DEF s
  <2>3. arms'[t] - cancelled'[t] - One(s \in ArmedSlots(t)')
          = arms[t] - cancelled[t] - One(active[s])
    <3>1. s \notin ArmedSlots(t)'
      BY <1>2, <1>3, <1>4 DEF ArmedSlots
    <3> QED BY <1>3, <1>4, <3>1 DEF TypeOK, One
  <2>4. UNCHANGED <<due, fires>> /\ arms'[t] \in Nat /\ cancelled'[t] \in Nat
    BY <1>3, <1>4, <1>5 DEF TypeOK, workVars
  <2> QED BY <1>1, <1>3, <1>4, <2>1, <2>2, <2>3, <2>4, OwnArms DEF s
<1> QED BY <1>3, <1>6, <1>7, <1>8, <1>9, BatchesKept

LEMMA DestroySound ==
  ASSUME TimerInv, NEW t \in Timers, DestroySlot(t)
  PROVE  TimerInv'
<1> USE DEF TimerInv
<1> DEFINE s == handle[t]
<1>1. Holds(t) /\ pc[t] = "idle"
  BY DEF DestroySlot, Holds
<1>2. /\ s \in Slots /\ used[s] /\ owner[s] = t /\ s \notin orphans
      /\ \A u \in Timers : u # t /\ Holds(u) => handle[u] # s
  BY <1>1, OwnSlot
<1>3. /\ used' = [used EXCEPT ![s] = FALSE] /\ active' = [active EXCEPT ![s] = FALSE]
      /\ owner' = [owner EXCEPT ![s] = NoTimer] /\ deadline' = [deadline EXCEPT ![s] = 0]
      /\ cancelled' = [cancelled EXCEPT ![t] = @ + One(active[s])]
      /\ pc' = [pc EXCEPT ![t] = "unlink"]
      /\ UNCHANGED <<now, bootVars, handle, arg, clock, workVars, arms, fires, exists, orphans>>
  BY DEF DestroySlot, Emptied, Bump, Goto
<1> HIDE DEF s
<1>4. /\ \A u \in Timers : u # t => cancelled'[u] = cancelled[u] /\ pc'[u] = pc[u]
      /\ cancelled'[t] = cancelled[t] + One(active[s]) /\ pc'[t] = "unlink"
      /\ \A r \in Slots : r # s =>
           used'[r] = used[r] /\ active'[r] = active[r] /\ owner'[r] = owner[r]
      /\ used'[s] = FALSE /\ active'[s] = FALSE /\ owner'[s] = NoTimer
  BY <1>2, <1>3 DEF TypeOK
<1>5. cancelled[t] + One(active[s]) \in Nat
  BY DEF TypeOK, One
<1>6. TypeOK'
  BY <1>2, <1>3, <1>5, Ranges DEF TypeOK, OpSteps, bootVars, workVars
<1>7. ~Holds(t)' /\ \A u \in Timers : u # t => Holds(u)' = Holds(u)
  BY <1>3, <1>4 DEF Holds
<1>8. \A r \in Slots : owner[r] # NoTimer => owner[r] \in Timers
  BY DEF TypeOK
<1>9. \A r \in Slots : owner[r] = t /\ r \notin orphans => r = s
  BY <1>1, <1>2, Ranges DEF HandleInv, s
<1>10. HandleInv'
  <2>1. ASSUME NEW u \in Timers, Holds(u)'
        PROVE  used'[handle'[u]] /\ owner'[handle'[u]] = u /\ handle'[u] \notin orphans'
    <3>1. u # t /\ Holds(u)
      BY <1>7, <2>1
    <3>2. /\ handle[u] # s /\ handle[u] \in Slots
          /\ used[handle[u]] /\ owner[handle[u]] = u /\ handle[u] \notin orphans
      BY <1>2, <3>1, OwnSlot
    <3> QED BY <1>3, <1>4, <3>2
  <2>2. ASSUME NEW r \in Slots, owner'[r] # NoTimer, r \notin orphans'
        PROVE  handle'[owner'[r]] = r /\ Holds(owner[r])' /\ owner'[r] = owner[r]
    <3>1. r # s /\ owner'[r] = owner[r]
      BY <1>4, <2>2
    <3>2. owner[r] # t /\ owner[r] \in Timers /\ handle[owner[r]] = r /\ Holds(owner[r])
      BY <1>3, <1>8, <1>9, <2>2, <3>1 DEF HandleInv
    <3>3. handle'[owner[r]] = r /\ pc'[owner[r]] = pc[owner[r]]
      BY <1>3, <1>4, <3>2
    <3> QED BY <3>1, <3>2, <3>3 DEF Holds
  <2>3. \A r \in Slots : active'[r] => owner'[r] # NoTimer
    BY <1>4 DEF HandleInv
  <2>4. \A r \in orphans' : used'[r] /\ owner'[r] # NoTimer
    <3>1. orphans \subseteq Slots
      BY DEF TypeOK
    <3> QED BY <1>2, <1>3, <1>4, <3>1 DEF HandleInv
  <2> QED BY <2>1, <2>2, <2>3, <2>4 DEF HandleInv, Holds
<1>11. RegisterInv'
  <2>1. \A u \in Timers : /\ pc'[u] = "register" <=> pc[u] = "register"
                          /\ pc[u] = "register" => arg[u] # s
    BY <1>1, <1>2, <1>4, Ranges DEF RegisterInv
  <2>2. \A r \in Slots : used'[r] => r # s
    BY <1>4
  <2> QED BY <1>3, <1>4, <2>1, <2>2 DEF RegisterInv
<1>12. StepInv'
  BY <1>1, <1>3, <1>4 DEF StepInv, Holds
<1>13. ArmsAccounted'
  <2>1. used' \in [Slots -> BOOLEAN] /\ active' \in [Slots -> BOOLEAN]
    BY <1>6 DEF TypeOK
  <2>2. /\ \A r \in Slots : r # handle[t] =>
             used'[r] = used[r] /\ active'[r] = active[r] /\ owner'[r] = owner[r]
        /\ owner'[handle[t]] \in {t, NoTimer}
    BY <1>2, <1>3, <1>4 DEF s
  <2>3. arms'[t] - cancelled'[t] - One(s \in ArmedSlots(t)')
          = arms[t] - cancelled[t] - One(active[s])
    <3>1. s \notin ArmedSlots(t)'
      BY <1>2, <1>3, <1>4 DEF ArmedSlots
    <3> QED BY <1>3, <1>4, <3>1 DEF TypeOK, One
  <2>4. UNCHANGED <<due, fires>> /\ arms'[t] \in Nat /\ cancelled'[t] \in Nat
    BY <1>3, <1>4, <1>5 DEF TypeOK, workVars
  <2> QED BY <1>1, <1>3, <1>4, <2>1, <2>2, <2>3, <2>4, OwnArms DEF s
<1> QED BY <1>3, <1>6, <1>10, <1>11, <1>12, <1>13, BatchesKept

LEMMA UnlinkSound ==
  ASSUME TimerInv, NEW t \in Timers, DestroyUnlink(t)
  PROVE  TimerInv'
<1> USE DEF TimerInv
<1>1. /\ pc[t] = "unlink" /\ ~Holds(t)
      /\ handle' = [handle EXCEPT ![t] = 0] /\ exists' = [exists EXCEPT ![t] = FALSE]
      /\ pc' = [pc EXCEPT ![t] = "idle"]
      /\ UNCHANGED <<now, bootVars, slotVars, arg, clock, workVars, arms, fires, cancelled,
                     orphans>>
  BY DEF DestroyUnlink, Goto, Holds
<1>2. /\ \A u \in Timers : u # t => pc'[u] = pc[u] /\ handle'[u] = handle[u]
      /\ pc'[t] = "idle" /\ handle'[t] = 0
  BY <1>1 DEF TypeOK
<1>3. 0 \in 0 .. MAX_TIMERS
  BY TimerAssumption
<1>4. TypeOK'
  BY <1>1, <1>3, Ranges DEF TypeOK, OpSteps, bootVars, slotVars, workVars
<1>5. ~Holds(t)' /\ \A u \in Timers : u # t => Holds(u)' = Holds(u)
  BY <1>2 DEF Holds
<1>6. HandleInv'
  <2>1. \A r \in Slots : owner[r] # NoTimer /\ r \notin orphans =>
          owner[r] \in Timers /\ owner[r] # t
    BY <1>1 DEF TypeOK, HandleInv
  <2> QED BY <1>1, <1>2, <1>5, <2>1 DEF HandleInv, slotVars
<1>7. RegisterInv'
  <2>1. \A u \in Timers : pc'[u] = "register" <=> pc[u] = "register"
    BY <1>1, <1>2
  <2> QED BY <1>1, <2>1 DEF RegisterInv, slotVars
<1>8. StepInv'
  BY <1>1, <1>2 DEF StepInv
<1> QED BY <1>1, <1>4, <1>6, <1>7, <1>8, CountsKept, BatchesKept DEF workVars, histVars

-----------------------------------------------------------------------------
(* The workers.                                                            *)
LEMMA SleepSound ==
  ASSUME TimerInv, NEW w \in Workers, ProcBegin(w) \/ ProcEnd(w)
  PROVE  TimerInv'
<1> USE DEF TimerInv
<1>1. /\ UNCHANGED <<now, bootVars, slotVars, opVars, due, histVars>>
      /\ due[w] = <<>>
      /\ wnow' \in [Workers -> 0 .. MaxTime]
      /\ \E step \in {"collect", "sleep"} : wpc' = [wpc EXCEPT ![w] = step]
  <2>1. CASE ProcBegin(w)
    BY <2>1 DEF ProcBegin, TypeOK, DueInv
  <2>2. CASE ProcEnd(w)
    BY <2>2 DEF ProcEnd, TypeOK
  <2> QED BY <2>1, <2>2
<1> PICK step \in {"collect", "sleep"} : wpc' = [wpc EXCEPT ![w] = step]
  BY <1>1
<1>a. wpc' \in [Workers -> {"sleep", "collect", "fire"}]
  BY DEF TypeOK
<1>2. TypeOK'
  BY <1>1, <1>a DEF TypeOK, bootVars, slotVars, opVars, histVars
<1>3. HandleInv' /\ RegisterInv' /\ StepInv'
  BY <1>1 DEF HandleInv, RegisterInv, StepInv, Holds, slotVars, opVars, histVars
<1>4. DueInv'
  BY <1>1 DEF DueInv, TypeOK
<1> QED BY <1>1, <1>2, <1>3, <1>4, CountsKept DEF histVars

(* The visit reaches every expired slot, each once.                        *)
LEMMA VisitsAll ==
  ASSUME NEW w \in Workers, NEW visit \in InSlotOrder(w)
  PROVE  /\ visit \in Seq(ExpiredSlots(w)) /\ DOMAIN visit = 1 .. Len(visit)
         /\ 1 .. Len(visit) \subseteq Slots
         /\ \A i, j \in 1 .. Len(visit) : visit[i] = visit[j] => i = j
         /\ \A s \in ExpiredSlots(w) : \E i \in 1 .. Len(visit) : visit[i] = s
<1> DEFINE E == ExpiredSlots(w)
           n == Cardinality(E)
<1>1. E \subseteq Slots
  BY DEF ExpiredSlots
<1>2. IsFiniteSet(E) /\ n \in Nat /\ 1 .. n \subseteq Slots
  <2>1. /\ IsFiniteSet(Slots)
        /\ Cardinality(Slots) = IF 1 > MAX_TIMERS THEN 0 ELSE MAX_TIMERS - 1 + 1
    <3>1. MAX_TIMERS \in Int /\ 1 \in Int
      BY TimerAssumption
    <3> QED BY <3>1, FS_Interval DEF Slots
  <2> HIDE DEF E
  <2>2. IsFiniteSet(E) /\ Cardinality(E) <= Cardinality(Slots) /\ Cardinality(E) \in Nat
    BY <1>1, <2>1, FS_Subset, FS_CardinalityType
  <2> QED BY <2>1, <2>2, TimerAssumption DEF Slots
<1>3. /\ visit \in [1 .. n -> E]
      /\ \A i, j \in 1 .. n : i < j => visit[i] < visit[j]
  BY DEF InSlotOrder
<1>4. visit \in Seq(E) /\ Len(visit) = n /\ DOMAIN visit = 1 .. n
  <2> HIDE DEF E, n
  <2> QED BY <1>2, <1>3
<1>5. ASSUME NEW i \in 1 .. n, NEW j \in 1 .. n, visit[i] = visit[j] PROVE i = j
  <2> HIDE DEF E, n
  <2>1. visit[i] \in Nat /\ visit[j] \in Nat
    BY <1>1, <1>3, Ranges
  <2> QED BY <1>2, <1>3, <1>5, <2>1
<1>6. visit \in Surjection(1 .. n, E)
  <2> HIDE DEF E, n
  <2>1. visit \in Injection(1 .. n, E)
    BY <1>3, <1>5 DEF Injection, IsInjective
  <2>2. Cardinality(1 .. n) = n
    <3>1. Cardinality(1 .. n) = IF 1 > n THEN 0 ELSE n - 1 + 1
      BY <1>2, FS_Interval
    <3> QED BY <1>2, <3>1
  <2> QED BY <1>2, <2>1, <2>2, FS_Injection DEF n
<1>7. \A s \in E : \E i \in 1 .. n : visit[i] = s
  BY <1>6 DEF Surjection
<1> QED BY <1>2, <1>4, <1>5, <1>7

LEMMA CollectSound ==
  ASSUME TimerInv, NEW w \in Workers, Collect(w)
  PROVE  TimerInv'
<1> USE DEF TimerInv
<1> PICK visit \in InSlotOrder(w) : due' = [due EXCEPT ![w] = DueTimers(visit)]
  BY DEF Collect
<1> DEFINE batch == DueTimers(visit)
           n == Len(visit)
<1>1. /\ wpc[w] = "collect" /\ due[w] = <<>>
      /\ active' = [s \in Slots |-> active[s] /\ ~Expired(w, s)]
      /\ wpc' = [wpc EXCEPT ![w] = "fire"] /\ wnow' = [wnow EXCEPT ![w] = 0]
      /\ UNCHANGED <<now, bootVars, used, owner, deadline, opVars, histVars>>
  BY DEF Collect, ActiveAfterCollect, DueInv
<1>2. \A s \in ExpiredSlots(w) :
        s \in Slots /\ used[s] /\ active[s] /\ Expired(w, s) /\ owner[s] \in Timers
  BY DEF ExpiredSlots, Expired, HandleInv, TypeOK
<1>3. /\ n \in Nat /\ 1 .. n \subseteq Slots
      /\ \A i \in 1 .. n : visit[i] \in ExpiredSlots(w)
      /\ \A i, j \in 1 .. n : visit[i] = visit[j] => i = j
      /\ \A s \in ExpiredSlots(w) : \E i \in 1 .. n : visit[i] = s
  BY VisitsAll
<1>4. /\ batch \in Seq(Timers) /\ Len(batch) = n
      /\ \A i \in 1 .. n : batch[i] = owner[visit[i]]
  BY <1>2, <1>3 DEF DueTimers
<1>5. due' = [due EXCEPT ![w] = batch]
  OBVIOUS
<1> HIDE DEF batch, n
<1>6. due'[w] = batch /\ \A v \in Workers : v # w => due'[v] = due[v]
  BY <1>5 DEF TypeOK
<1>7. TypeOK'
  <2>1. active' \in [Slots -> BOOLEAN]
    BY <1>1 DEF TypeOK
  <2>2. due' \in [Workers -> Seq(Timers)]
    BY <1>4, <1>5 DEF TypeOK
  <2> QED BY <1>1, <2>1, <2>2, Ranges DEF TypeOK, bootVars, opVars, histVars
<1>8. HandleInv'
  <2>1. \A s \in Slots : active'[s] => active[s]
    BY <1>1
  <2> QED BY <1>1, <2>1 DEF HandleInv, Holds, opVars, histVars
<1>9. RegisterInv' /\ StepInv'
  BY <1>1 DEF RegisterInv, StepInv, opVars, histVars
<1>10. DueInv'
  <2>1. n <= MAX_TIMERS
    BY <1>3, TimerAssumption DEF Slots
  <2> QED BY <1>1, <1>4, <1>6, <2>1 DEF DueInv, TypeOK
<1>11. ASSUME NEW t \in Timers
       PROVE  arms'[t] = fires'[t] + cancelled'[t] + Cardinality(Batched(t)')
                           + Cardinality(ArmedSlots(t)')
  <2> DEFINE taken == {s \in ExpiredSlots(w) : owner[s] = t}
             added == {p \in {w} \X (1 .. n) : batch[n + 1 - p[2]] = t}
  <2>1. /\ arms[t] = fires[t] + cancelled[t] + Cardinality(Batched(t)) + Cardinality(ArmedSlots(t))
        /\ fires[t] \in Nat /\ cancelled[t] \in Nat
        /\ fires' = fires /\ cancelled' = cancelled /\ arms' = arms
    BY <1>1 DEF ArmsAccounted, TypeOK, histVars
  <2>2. /\ IsFiniteSet(Batched(t)) /\ Cardinality(Batched(t)) \in Nat
        /\ IsFiniteSet(ArmedSlots(t)) /\ Cardinality(ArmedSlots(t)) \in Nat
    BY CountsFinite
  <2>3. taken \subseteq ArmedSlots(t) /\ ArmedSlots(t)' = ArmedSlots(t) \ taken
    BY <1>1, <1>2 DEF ArmedSlots, ExpiredSlots, Expired
  <2>4. Batched(t)' = Batched(t) \cup added /\ Batched(t) \cap added = {}
    <3>1. \A p \in Workers \X Slots : p[1] = w => p \notin Batched(t)
      BY <1>1, Ranges DEF Batched
    <3>2. \A p \in Workers \X Slots : p[1] = w => (p \in Batched(t)' <=> p \in added)
      BY <1>3, <1>4, <1>6, Ranges DEF Batched, Slots
    <3>3. \A p \in Workers \X Slots : p[1] # w => /\ p \in Batched(t)' <=> p \in Batched(t)
                                                 /\ p \notin added
      BY <1>6 DEF Batched
    <3>4. added \subseteq Workers \X Slots /\ Batched(t) \subseteq Workers \X Slots
      BY <1>3 DEF Batched
    <3>5. Batched(t)' \subseteq Workers \X Slots
      BY DEF Batched
    <3> HIDE DEF added
    <3> QED BY <3>1, <3>2, <3>3, <3>4, <3>5
  <2>5. IsFiniteSet(taken) /\ IsFiniteSet(added) /\ Cardinality(added) = Cardinality(taken)
        /\ Cardinality(taken) \in Nat
    <3>1. IsFiniteSet(taken)
      BY <2>2, <2>3, FS_Subset
    <3> DEFINE place == [p \in added |-> visit[n + 1 - p[2]]]
    <3>2. \A p \in added : p = <<w, p[2]>> /\ p[2] \in 1 .. n /\ n + 1 - p[2] \in 1 .. n
      BY <1>3
    <3>3. place \in [added -> taken]
      BY <1>3, <1>4, <3>2
    <3>4. \A p, q \in added : place[p] = place[q] => p = q
      <4> SUFFICES ASSUME NEW p \in added, NEW q \in added, place[p] = place[q] PROVE p = q
        OBVIOUS
      <4>1. n + 1 - p[2] = n + 1 - q[2]
        BY <1>3, <3>2
      <4>2. p[2] = q[2]
        BY <1>3, <3>2, <4>1
      <4> QED BY <3>2, <4>2
    <3>5. \A s \in taken : \E p \in added : place[p] = s
      <4> SUFFICES ASSUME NEW s \in taken PROVE \E p \in added : place[p] = s
        OBVIOUS
      <4>1. PICK i \in 1 .. n : visit[i] = s
        BY <1>3
      <4>2. n + 1 - i \in 1 .. n /\ n + 1 - (n + 1 - i) = i
        BY <1>3
      <4>3. <<w, n + 1 - i>> \in added
        BY <1>4, <4>1, <4>2
      <4> QED BY <4>1, <4>2, <4>3
    <3> HIDE DEF place, added, taken
    <3>6. place \in Bijection(added, taken)
      BY <3>3, <3>4, <3>5 DEF Bijection, Injection, IsInjective, Surjection
    <3>7. ExistsBijection(taken, added)
      BY <3>6, Fun_ExistsBijSymmetric DEF ExistsBijection
    <3> QED BY <3>1, <3>7, FS_Bijection, FS_CardinalityType
  <2>6. Cardinality(Batched(t)') = Cardinality(Batched(t)) + Cardinality(taken)
    <3> HIDE DEF added, taken
    <3>1. Cardinality({}) = 0
      BY FS_EmptySet
    <3>2. Cardinality(Batched(t) \cup added)
            = Cardinality(Batched(t)) + Cardinality(added) - Cardinality(Batched(t) \cap added)
      BY <2>2, <2>5, FS_Union
    <3>3. /\ Cardinality(Batched(t)') = Cardinality(Batched(t) \cup added)
          /\ Cardinality(Batched(t) \cap added) = 0
      BY <2>4, <3>1, Zenon
    <3> QED BY <2>2, <2>5, <3>2, <3>3
  <2>7. Cardinality(ArmedSlots(t)') = Cardinality(ArmedSlots(t)) - Cardinality(taken)
    <3> HIDE DEF taken
    <3>1. Cardinality(ArmedSlots(t) \ taken)
            = Cardinality(ArmedSlots(t)) - Cardinality(ArmedSlots(t) \cap taken)
      BY <2>2, FS_Difference
    <3>2. ArmedSlots(t) \cap taken = taken
      BY <2>3
    <3> QED BY <2>3, <3>1, <3>2
  <2> HIDE DEF taken
  <2> QED BY <2>1, <2>2, <2>5, <2>6, <2>7
<1>12. ArmsAccounted'
  BY <1>11 DEF ArmsAccounted
<1> QED BY <1>7, <1>8, <1>9, <1>10, <1>12

LEMMA FireSound ==
  ASSUME TimerInv, NEW w \in Workers, Fire(w)
  PROVE  TimerInv'
<1> USE DEF TimerInv
<1> DEFINE batch == due[w]
           t == Head(batch)
           first == <<w, Len(batch)>>
<1>1. /\ wpc[w] = "fire" /\ batch # <<>>
      /\ fires' = [fires EXCEPT ![t] = @ + 1]
      /\ due' = [due EXCEPT ![w] = Tail(batch)]
      /\ UNCHANGED <<now, bootVars, slotVars, opVars, wpc, wnow, arms, cancelled, exists,
                     orphans>>
  BY DEF Fire, Bump
<1>2. batch \in Seq(Timers)
  BY DEF TypeOK
<1> HIDE DEF batch
<1>3. /\ t \in Timers /\ t = batch[1] /\ Len(batch) \in Nat /\ Len(batch) > 0
      /\ Tail(batch) \in Seq(Timers) /\ Len(Tail(batch)) = Len(batch) - 1
      /\ \A i \in 1 .. Len(Tail(batch)) : Tail(batch)[i] = batch[i + 1]
  BY <1>1, <1>2
<1> HIDE DEF t
<1>4. /\ due'[w] = Tail(batch) /\ \A v \in Workers : v # w => due'[v] = due[v]
      /\ fires'[t] = fires[t] + 1 /\ \A u \in Timers : u # t => fires'[u] = fires[u]
  BY <1>1, <1>3 DEF TypeOK
<1>5. TypeOK'
  <2>1. fires \in [Timers -> Nat] /\ due \in [Workers -> Seq(Timers)]
    BY DEF TypeOK
  <2>2. fires[t] + 1 \in Nat
    BY <1>3, <2>1
  <2>3. fires' \in [Timers -> Nat]
    BY <1>1, <2>1, <2>2, Zenon
  <2>4. due' \in [Workers -> Seq(Timers)]
    BY <1>1, <1>3, <2>1, Zenon
  <2> QED BY <1>1, <2>3, <2>4 DEF TypeOK, bootVars, slotVars, opVars
<1>6. HandleInv' /\ RegisterInv' /\ StepInv'
  BY <1>1 DEF HandleInv, RegisterInv, StepInv, Holds, slotVars, opVars
<1>7. DueInv' /\ Len(batch) \in Slots
  <2>1. Len(batch) <= MAX_TIMERS
    BY DEF DueInv, batch
  <2> QED BY <1>1, <1>3, <1>4, <2>1, TimerAssumption DEF DueInv, Slots
<1>8. ASSUME NEW u \in Timers
      PROVE  Batched(u)' = Batched(u) \ {first} /\ (first \in Batched(u) <=> u = t)
  <2>1. first \in Batched(u) <=> u = t
    BY <1>3, <1>7 DEF Batched, batch
  <2>2. ASSUME NEW p \in Workers \X Slots, p[1] = w
        PROVE  p \in Batched(u)' <=> p \in Batched(u) /\ p # first
    <3>1. p = <<w, p[2]>> /\ p[2] \in Nat /\ p[2] > 0
      BY <2>2 DEF Slots
    <3>2. CASE p[2] < Len(batch)
      <4>1. /\ Len(Tail(batch)) + 1 - p[2] \in 1 .. Len(Tail(batch))
            /\ Len(Tail(batch)) + 1 - p[2] + 1 = Len(batch) + 1 - p[2]
        BY <1>3, <3>1, <3>2
      <4>2. Tail(batch)[Len(Tail(batch)) + 1 - p[2]] = batch[Len(batch) + 1 - p[2]]
        BY <1>3, <4>1
      <4>3. p # first /\ p[2] <= Len(batch) /\ p[2] <= Len(Tail(batch))
        BY <1>3, <3>1, <3>2
      <4> QED BY <1>4, <2>2, <4>2, <4>3 DEF Batched, batch
    <3>3. CASE p[2] = Len(batch)
      <4>1. p = first /\ ~(p[2] <= Len(Tail(batch)))
        BY <1>3, <3>1, <3>3
      <4> QED BY <1>4, <2>2, <4>1 DEF Batched
    <3>4. CASE p[2] > Len(batch)
      <4>1. ~(p[2] <= Len(Tail(batch))) /\ ~(p[2] <= Len(batch))
        BY <1>3, <3>1, <3>4
      <4> QED BY <1>4, <2>2, <4>1 DEF Batched, batch
    <3> QED BY <1>3, <3>1, <3>2, <3>3, <3>4
  <2>3. ASSUME NEW p \in Workers \X Slots, p[1] # w
        PROVE  p \in Batched(u)' <=> p \in Batched(u) /\ p # first
    BY <1>4, <2>3 DEF Batched
  <2>4. Batched(u)' \subseteq Workers \X Slots
    BY DEF Batched
  <2>5. Batched(u) \subseteq Workers \X Slots
    BY DEF Batched
  <2> HIDE DEF first
  <2> QED BY <2>1, <2>2, <2>3, <2>4, <2>5
<1>9. ASSUME NEW u \in Timers
      PROVE  arms'[u] = fires'[u] + cancelled'[u] + Cardinality(Batched(u)')
                          + Cardinality(ArmedSlots(u)')
  <2>1. /\ arms[u] = fires[u] + cancelled[u] + Cardinality(Batched(u)) + Cardinality(ArmedSlots(u))
        /\ arms' = arms
    BY <1>1 DEF ArmsAccounted
  <2>2. /\ fires[u] \in Nat /\ cancelled[u] \in Nat
        /\ IsFiniteSet(Batched(u)) /\ Cardinality(Batched(u)) \in Nat
        /\ Cardinality(ArmedSlots(u)) \in Nat
        /\ cancelled' = cancelled
    BY <1>1, CountsFinite DEF TypeOK
  <2>3. ArmedSlots(u)' = ArmedSlots(u)
    BY <1>1 DEF ArmedSlots, slotVars
  <2>4. Cardinality(Batched(u)) = Cardinality(Batched(u)') + One(u = t)
        /\ Cardinality(Batched(u)') \in Nat
    <3>1. One(first \in Batched(u)) = One(u = t)
      BY <1>8 DEF One
    <3>2. Cardinality(Batched(u)) = Cardinality(Batched(u) \ {first}) + One(first \in Batched(u))
          /\ Cardinality(Batched(u) \ {first}) \in Nat
      BY <2>2, WithOrWithout
    <3> QED BY <1>8, <3>1, <3>2
  <2>5. fires'[u] = fires[u] + One(u = t)
    BY <1>4, <2>2 DEF One
  <2>6. One(u = t) \in Nat
    BY DEF One
  <2> QED BY <2>1, <2>2, <2>3, <2>4, <2>5, <2>6
<1>10. ArmsAccounted'
  BY <1>9 DEF ArmsAccounted
<1> QED BY <1>5, <1>6, <1>7, <1>10

-----------------------------------------------------------------------------
LEMMA TimerNext == TimerInv /\ [Next]_vars => TimerInv'
<1> SUFFICES ASSUME TimerInv, [Next]_vars PROVE TimerInv'
  OBVIOUS
<1>1. ASSUME NEW t \in Timers,
             \/ InitBegin(t) \/ AdaptInitBegin(t) \/ OpStep(t)
             \/ \E i \in Intervals : ModBegin(t, i)
             \/ osal_timer_stop(t) \/ DestroySlot(t)
      PROVE  TimerInv'
  BY <1>1, BootSound, AdaptSound, AllocSound, RegisterSound, ModBeginSound, ModArmSound, StopSound,
     DestroySound, UnlinkSound DEF OpStep
<1>2. ASSUME NEW w \in Workers, WorkStep(w)
      PROVE  TimerInv'
  BY <1>2, SleepSound, CollectSound, FireSound DEF WorkStep
<1>3. CASE UNCHANGED vars
  <2>1. TypeOK'
    BY <1>3 DEF vars, bootVars, slotVars, opVars, workVars, histVars, TimerInv, TypeOK
  <2>2. HandleInv' /\ RegisterInv' /\ StepInv'
    BY <1>3 DEF vars, slotVars, opVars, histVars, TimerInv, HandleInv, RegisterInv, StepInv,
      Holds
  <2> QED BY <1>3, <2>1, <2>2, CountsKept, BatchesKept DEF vars, workVars, histVars, TimerInv
<1> QED BY <1>1, <1>2, <1>3, TickSound DEF Next

(* The timer table (timer.rs): whatever operations and workers interleave, *)
(* a slot belongs to the timer whose handle names it or to an init under   *)
(* way, or was lost when osal_adapt_timer_init was called on a timer in    *)
(* use; and every arming of a timer has fired, was cancelled or            *)
(* superseded, waits in a slot, or is in exactly one worker's batch.       *)
THEOREM TimersAllAccounted == Spec => []TimersAccounted
<1>1. TimerInv => TimersAccounted
  BY SlotsAgree DEF TimerInv, TimersAccounted
<1> QED BY TimerInit, TimerNext, <1>1, PTL DEF Spec

-----------------------------------------------------------------------------
(* The event groups.                                                       *)
Calls == [mask : SUBSET Bits, all : BOOLEAN, clr : BOOLEAN]
Registered == {"wait", "woken", "expired"}

(* A reader about to register has a semaphore, and an event object that is *)
(* gone has neither a reader nor a writer inside.                          *)
ScopeInv ==
  /\ \A r \in Readers : readPc[r] = "register" => sem[r] # Dead
  /\ ~live => /\ \A r \in Readers : readPc[r] = "idle"
              /\ \A w \in Writers : todo[w] = Empty

AccountInv == EGTypeOK /\ TableExact /\ ConsumedOnce /\ ScopeInv

-----------------------------------------------------------------------------
(* More bits satisfy no fewer conditions; the empty group satisfies none.  *)
LEMMA MatchesGrow ==
  ASSUME NEW q, NEW b, NEW c, b \subseteq c, event_matches(b, q)
  PROVE  event_matches(c, q)
BY DEF event_matches

LEMMA NoBitsNoMatch == \A q : ~event_matches({}, q)
BY DEF event_matches

LEMMA RequestTyped ==
  ASSUME NEW r \in Readers, NEW q \in Requests[r] \cup {NoRequest}
  PROVE  q \in Calls
<1>1. Requests[r] \in SUBSET Calls
  BY EventAssumption DEF Calls
<1>2. NoRequest \in Calls
  BY DEF NoRequest, Calls
<1> QED BY <1>1, <1>2

(* A bit taken leaves the group in the same step, so that its count never  *)
(* falls below zero and a set bit still has a write to be taken.           *)
LEMMA TakenOnce ==
  ASSUME AccountInv, NEW r \in Readers, NEW q \in Calls, ReturnMatched(r, q)
  PROVE  /\ bits' \in SUBSET Bits /\ bits' \subseteq bits
         /\ credit' \in [Bits -> Int] /\ ConsumedOnce'
<1> USE DEF AccountInv, EGTypeOK, ConsumedOnce, ReturnMatched, Consumed, Credited
<1>1. CASE q.clr
  BY <1>1
<1>2. CASE ~q.clr
  BY <1>2
<1> QED BY <1>1, <1>2

LEMMA CreditUntouched ==
  ASSUME ConsumedOnce, bits' \subseteq bits, UNCHANGED credit
  PROVE  ConsumedOnce'
BY DEF ConsumedOnce

-----------------------------------------------------------------------------
LEMMA PollAccounts ==
  ASSUME AccountInv, live, NEW r \in Readers, readPc[r] \in {"idle", "poll"},
         NEW q \in Requests[r] \cup {NoRequest}, ReadPoll(r, q)
  PROVE  AccountInv'
<1>1. q \in Calls /\ NoRequest \in Calls
  BY RequestTyped DEF NoRequest, Calls
<1>2. \A s \in WaiterSlots : waiters[s] # r
  BY DEF AccountInv, TableExact
<1>3. /\ bits' \in SUBSET Bits /\ credit' \in [Bits -> Int] /\ ConsumedOnce'
  <2>1. CASE ReturnMatched(r, q)
    BY <1>1, <2>1, TakenOnce
  <2>2. CASE UNCHANGED <<bits, credit>>
    BY <2>2 DEF AccountInv, EGTypeOK, ConsumedOnce
  <2> QED BY <2>1, <2>2 DEF ReadPoll
<1>4. UNCHANGED <<live, writes, waiters, todo, abandoned>>
  BY DEF ReadPoll
<1>5. \/ /\ readPc' = [readPc EXCEPT ![r] = "idle"] /\ req' = [req EXCEPT ![r] = NoRequest]
         /\ UNCHANGED sem
      \/ /\ readPc' = [readPc EXCEPT ![r] = "register"] /\ req' = [req EXCEPT ![r] = q]
         /\ sem' = [sem EXCEPT ![r] = 0]
  BY DEF ReadPoll, ReturnMatched, Return
<1>6. EGTypeOK'
  <2>1. readPc' \in [Readers -> {"idle", "poll", "register", "wait", "woken", "expired"}]
    BY <1>5 DEF AccountInv, EGTypeOK
  <2>2. req' \in [Readers -> Calls]
        /\ \A x \in Readers : req'[x] \in Requests[x] \cup {NoRequest}
    <3>1. PICK called \in Requests[r] \cup {NoRequest} : req' = [req EXCEPT ![r] = called]
      BY <1>5
    <3>2. called \in Calls
      BY RequestTyped
    <3>3. req \in [Readers -> Calls]
          /\ \A x \in Readers : req[x] \in Requests[x] \cup {NoRequest}
      BY DEF AccountInv, EGTypeOK, Calls
    <3> QED BY <3>1, <3>2, <3>3
  <2>3. sem' \in [Readers -> Nat \cup {Dead}]
    BY <1>5 DEF AccountInv, EGTypeOK
  <2> QED BY <1>3, <1>4, <2>1, <2>2, <2>3 DEF AccountInv, EGTypeOK, Calls
<1>7. TableExact'
  BY <1>2, <1>4, <1>5, EventAssumption DEF AccountInv, EGTypeOK, TableExact
<1>8. ScopeInv'
  BY <1>4, <1>5, EventAssumption DEF AccountInv, EGTypeOK, ScopeInv
<1> QED BY <1>3, <1>6, <1>7, <1>8 DEF AccountInv

LEMMA RegisterAccounts ==
  ASSUME AccountInv, NEW r \in Readers, ReadRegister(r)
  PROVE  AccountInv'
<1>1. req[r] \in Calls /\ NoRequest \in Calls
  BY RequestTyped DEF NoRequest, Calls, AccountInv, EGTypeOK
<1>2. readPc[r] = "register" /\ sem[r] # Dead /\ (\A s \in WaiterSlots : waiters[s] # r) /\ live
  BY DEF AccountInv, TableExact, ScopeInv, ReadRegister
<1>3. /\ bits' \in SUBSET Bits /\ credit' \in [Bits -> Int] /\ ConsumedOnce'
  <2>1. CASE ReturnMatched(r, req[r])
    BY <1>1, <2>1, TakenOnce
  <2>2. CASE UNCHANGED <<bits, credit>>
    BY <2>2 DEF AccountInv, EGTypeOK, ConsumedOnce
  <2> QED BY <2>1, <2>2 DEF ReadRegister
<1>4. UNCHANGED <<live, writes, todo, abandoned>>
  BY DEF ReadRegister
<1>5. CASE /\ readPc' = [readPc EXCEPT ![r] = "idle"] /\ req' = [req EXCEPT ![r] = NoRequest]
           /\ sem' = [sem EXCEPT ![r] = Dead] /\ UNCHANGED waiters
  <2>1. EGTypeOK'
    BY <1>1, <1>3, <1>4, <1>5 DEF AccountInv, EGTypeOK, Calls
  <2>2. TableExact'
    BY <1>2, <1>5 DEF AccountInv, EGTypeOK, TableExact
  <2>3. ScopeInv'
    BY <1>2, <1>4, <1>5 DEF AccountInv, EGTypeOK, ScopeInv
  <2> QED BY <1>3, <2>1, <2>2, <2>3 DEF AccountInv
<1>6. ASSUME NEW s \in WaiterSlots, waiters[s] = Nobody, waiters' = [waiters EXCEPT ![s] = r],
             readPc' = [readPc EXCEPT ![r] = "wait"], UNCHANGED <<sem, req>>
      PROVE  AccountInv'
  <2>1. EGTypeOK'
    BY <1>3, <1>4, <1>6 DEF AccountInv, EGTypeOK
  <2>2. TableExact'
    BY <1>2, <1>6, EventAssumption DEF AccountInv, EGTypeOK, TableExact
  <2>3. ScopeInv'
    BY <1>2, <1>4, <1>6 DEF AccountInv, EGTypeOK, ScopeInv
  <2> QED BY <1>3, <2>1, <2>2, <2>3 DEF AccountInv
<1> QED BY <1>5, <1>6 DEF ReadRegister, ReturnMatched, Return

LEMMA DownAccounts ==
  ASSUME AccountInv, NEW r \in Readers, ReadDown(r)
  PROVE  AccountInv'
<1>1. readPc[r] = "wait" /\ sem[r] \in Nat /\ live
  BY EventAssumption DEF AccountInv, EGTypeOK, TableExact, ScopeInv, ReadDown
<1>2. /\ UNCHANGED <<live, bits, writes, waiters, req, todo, credit>>
      /\ abandoned' \subseteq Readers
  BY DEF ReadDown, AccountInv, EGTypeOK
<1>3. /\ sem' \in [Readers -> Nat \cup {Dead}] /\ sem'[r] # Dead
      /\ \A x \in Readers : x # r => sem'[x] = sem[x]
  <2>1. CASE Available(r) /\ sem' = [sem EXCEPT ![r] = @ - 1]
    <3>1. sem[r] - 1 \in Nat
      BY <1>1, <2>1 DEF Available
    <3> QED BY <2>1, <3>1, EventAssumption DEF AccountInv, EGTypeOK
  <2>2. CASE UNCHANGED sem
    BY <1>1, <2>2, EventAssumption DEF AccountInv, EGTypeOK
  <2> QED BY <2>1, <2>2 DEF ReadDown
<1>4. PICK step \in {"woken", "expired"} : readPc' = [readPc EXCEPT ![r] = step]
  BY DEF ReadDown
<1>5. EGTypeOK'
  BY <1>2, <1>3, <1>4 DEF AccountInv, EGTypeOK
<1>6. TableExact'
  <2>1. \A x \in Readers : readPc'[x] \in Registered <=> readPc[x] \in Registered
    BY <1>1, <1>4 DEF AccountInv, EGTypeOK, Registered
  <2>2. \A x \in Readers : sem[x] # Dead => sem'[x] # Dead
    BY <1>3
  <2> QED BY <1>2, <2>1, <2>2 DEF AccountInv, EGTypeOK, TableExact, Registered
<1>7. ScopeInv'
  BY <1>1, <1>2, <1>3, <1>4 DEF AccountInv, EGTypeOK, ScopeInv
<1> QED BY <1>2, <1>5, <1>6, <1>7 DEF AccountInv, ConsumedOnce

LEMMA LeaveAccounts ==
  ASSUME AccountInv, NEW r \in Readers, ReadLeave(r)
  PROVE  AccountInv'
<1>1. /\ readPc[r] \in {"woken", "expired"} /\ live
      /\ waiters' = Unregistered(r) /\ sem' = [sem EXCEPT ![r] = Dead]
      /\ UNCHANGED <<live, bits, writes, todo, credit, abandoned>>
  BY DEF ReadLeave, AccountInv, ScopeInv
<1>2. PICK step \in {"poll", "idle"} : readPc' = [readPc EXCEPT ![r] = step]
  BY DEF ReadLeave, Return
<1>3. UNCHANGED req \/ req' = [req EXCEPT ![r] = NoRequest]
  BY DEF ReadLeave, Return
<1>4. /\ waiters' \in [WaiterSlots -> Readers \cup {Nobody}]
      /\ \A s \in WaiterSlots : waiters'[s] = IF waiters[s] = r THEN Nobody ELSE waiters[s]
  BY <1>1 DEF Unregistered, AccountInv, EGTypeOK
<1>5. EGTypeOK'
  <2>1. req' \in [Readers -> Calls]
        /\ \A x \in Readers : req'[x] \in Requests[x] \cup {NoRequest}
    BY <1>3, RequestTyped DEF AccountInv, EGTypeOK, Calls
  <2> QED BY <1>1, <1>2, <1>4, <2>1 DEF AccountInv, EGTypeOK, Calls
<1>6. TableExact'
  BY <1>1, <1>2, <1>4, EventAssumption DEF AccountInv, EGTypeOK, TableExact
<1>7. ScopeInv'
  BY <1>1, <1>2 DEF AccountInv, EGTypeOK, ScopeInv
<1> QED BY <1>1, <1>5, <1>6, <1>7 DEF AccountInv, ConsumedOnce

(* The writers and the object's own calls.                                 *)
LEMMA WriteAccounts ==
  ASSUME AccountInv, NEW w \in Writers, NEW mask \in Masks, Write(w, mask)
  PROVE  AccountInv'
<1>1. mask \subseteq Bits /\ live
  BY EventAssumption DEF Write
<1>2. Woken(bits \cup mask) \in [WaiterSlots -> Readers \cup {Nobody}]
  BY DEF Woken, AccountInv, EGTypeOK
<1>3. /\ writes' \in 0 .. MaxWrites /\ bits' = bits \cup mask
      /\ todo' = [todo EXCEPT ![w] = Woken(bits \cup mask)]
      /\ credit' = Credited(mask, 1)
      /\ UNCHANGED <<live, waiters, sem, readPc, req>> /\ abandoned' \subseteq Readers
  BY EventAssumption DEF Write, AccountInv, EGTypeOK
<1>4. EGTypeOK'
  <2>1. todo' \in [Writers -> [WaiterSlots -> Readers \cup {Nobody}]]
    BY <1>2, <1>3 DEF AccountInv, EGTypeOK
  <2>2. credit' \in [Bits -> Int] /\ bits' \in SUBSET Bits
    BY <1>1, <1>3 DEF AccountInv, EGTypeOK, Credited
  <2> QED BY <1>3, <2>1, <2>2 DEF AccountInv, EGTypeOK
<1>5. ConsumedOnce'
  BY <1>1, <1>3 DEF AccountInv, EGTypeOK, ConsumedOnce, Credited
<1>6. TableExact' /\ ScopeInv'
  BY <1>1, <1>3 DEF AccountInv, EGTypeOK, TableExact, ScopeInv
<1> QED BY <1>4, <1>5, <1>6 DEF AccountInv

LEMMA UpAccounts ==
  ASSUME AccountInv, NEW w \in Writers, WriterStep(w)
  PROVE  AccountInv'
<1>1. UNCHANGED <<live, bits, writes, waiters, readPc, req, credit>>
  BY DEF WriterStep, WriteUp, WriteUpFails
<1>2. todo[w] # Empty
  <2>1. CASE WriteUp(w)
    BY <2>1 DEF WriteUp, IsNext, Empty
  <2>2. CASE WriteUpFails(w)
    BY <2>2 DEF WriteUpFails
  <2> QED BY <2>1, <2>2 DEF WriterStep
<1>3. live
  BY <1>2 DEF AccountInv, ScopeInv
<1>4. /\ todo' \in [Writers -> [WaiterSlots -> Readers \cup {Nobody}]]
      /\ sem' \in [Readers -> Nat \cup {Dead}] /\ abandoned' \subseteq Readers
      /\ \A x \in Readers : sem[x] # Dead => sem'[x] # Dead
  <2>1. CASE WriteUp(w)
    <3>1. PICK s \in WaiterSlots :
            /\ todo[w][s] # Nobody
            /\ sem' = IF sem[todo[w][s]] = Dead THEN sem
                      ELSE [sem EXCEPT ![todo[w][s]] = @ + 1]
            /\ todo' = [todo EXCEPT ![w][s] = Nobody]
      BY <2>1 DEF WriteUp, IsNext
    <3>2. todo[w][s] \in Readers
      BY <3>1 DEF AccountInv, EGTypeOK
    <3>3. CASE sem[todo[w][s]] = Dead
      BY <2>1, <3>1, <3>3 DEF WriteUp, AccountInv, EGTypeOK
    <3>4. CASE sem[todo[w][s]] # Dead
      <4>1. sem[todo[w][s]] + 1 \in Nat
        BY <3>2, <3>4 DEF AccountInv, EGTypeOK
      <4> QED BY <2>1, <3>1, <3>2, <3>4, <4>1, EventAssumption DEF WriteUp, AccountInv, EGTypeOK
    <3> QED BY <3>3, <3>4
  <2>2. CASE WriteUpFails(w)
    BY <2>2 DEF WriteUpFails, Collected, Empty, AccountInv, EGTypeOK
  <2> QED BY <2>1, <2>2 DEF WriterStep
<1>5. EGTypeOK' /\ ConsumedOnce'
  BY <1>1, <1>4 DEF AccountInv, EGTypeOK, ConsumedOnce
<1>6. TableExact' /\ ScopeInv'
  BY <1>1, <1>3, <1>4 DEF AccountInv, EGTypeOK, TableExact, ScopeInv
<1> QED BY <1>5, <1>6 DEF AccountInv

LEMMA ObjectAccounts ==
  ASSUME AccountInv,
         (\E mask \in Masks : osal_event_clear(mask)) \/ osal_event_destroy \/ osal_event_init
  PROVE  AccountInv'
<1>1. CASE \E mask \in Masks : osal_event_clear(mask)
  BY <1>1 DEF osal_event_clear, AccountInv, EGTypeOK, TableExact, ConsumedOnce, ScopeInv
<1>2. CASE osal_event_destroy
  BY <1>2 DEF osal_event_destroy, AccountInv, EGTypeOK, TableExact, ConsumedOnce, ScopeInv
<1>3. CASE osal_event_init
  <2>1. \A r \in Readers : readPc[r] = "idle" /\ UNCHANGED readPc
    BY <1>3 DEF osal_event_init, AccountInv, ScopeInv
  <2>2. \A s \in WaiterSlots : waiters'[s] = Nobody
    BY <1>3 DEF osal_event_init, Empty
  <2>3. EGTypeOK' /\ ConsumedOnce'
    BY <1>3 DEF osal_event_init, AccountInv, EGTypeOK, ConsumedOnce, Empty
  <2>4. TableExact'
    BY <2>1, <2>2, EventAssumption DEF TableExact
  <2>5. ScopeInv'
    BY <1>3, <2>1 DEF osal_event_init, ScopeInv
  <2> QED BY <2>3, <2>4, <2>5 DEF AccountInv
<1> QED BY <1>1, <1>2, <1>3

LEMMA AccountNext == AccountInv /\ [EGNext]_egVars => AccountInv'
<1> SUFFICES ASSUME AccountInv, [EGNext]_egVars PROVE AccountInv'
  OBVIOUS
<1>1. ASSUME NEW r \in Readers, NEW q \in Requests[r], ReadBegin(r, q) PROVE AccountInv'
  BY <1>1, PollAccounts DEF ReadBegin
<1>2. ASSUME NEW r \in Readers, ReadAgain(r) PROVE AccountInv'
  <2>1. readPc[r] = "poll" /\ live /\ req[r] \in Requests[r] \cup {NoRequest}
    BY <1>2 DEF ReadAgain, AccountInv, ScopeInv, EGTypeOK
  <2> QED BY <1>2, <2>1, PollAccounts DEF ReadAgain
<1>3. ASSUME NEW r \in Readers, ReadStep(r) PROVE AccountInv'
  BY <1>2, <1>3, RegisterAccounts, DownAccounts, LeaveAccounts DEF ReadStep
<1>4. CASE UNCHANGED egVars
  BY <1>4 DEF egVars, AccountInv, EGTypeOK, TableExact, ConsumedOnce, ScopeInv
<1> QED BY <1>1, <1>3, <1>4, WriteAccounts, UpAccounts, ObjectAccounts DEF EGNext

LEMMA AccountInit == EGInit => AccountInv
<1> SUFFICES ASSUME EGInit PROVE AccountInv
  OBVIOUS
<1>1. EGTypeOK
  <2>1. Empty \in [WaiterSlots -> Readers \cup {Nobody}] /\ NoRequest \in Calls
    BY DEF Empty, NoRequest, Calls
  <2>2. 0 \in 0 .. MaxWrites
    BY EventAssumption
  <2>3. /\ waiters \in [WaiterSlots -> Readers \cup {Nobody}]
        /\ todo \in [Writers -> [WaiterSlots -> Readers \cup {Nobody}]]
    BY <2>1 DEF EGInit
  <2>4. /\ req \in [Readers -> Calls]
        /\ \A r \in Readers : req[r] \in Requests[r] \cup {NoRequest}
    BY <2>1 DEF EGInit
  <2>5. /\ sem \in [Readers -> Nat \cup {Dead}] /\ credit \in [Bits -> Int]
        /\ readPc \in [Readers -> {"idle", "poll", "register", "wait", "woken", "expired"}]
    BY DEF EGInit
  <2> QED BY <2>2, <2>3, <2>4, <2>5 DEF EGInit, EGTypeOK, Calls
<1>2. TableExact
  BY EventAssumption DEF EGInit, TableExact, Empty
<1>3. ConsumedOnce /\ ScopeInv
  BY DEF EGInit, ConsumedOnce, ScopeInv
<1> QED BY <1>1, <1>2, <1>3 DEF AccountInv

-----------------------------------------------------------------------------
(* Without new bits, a reader that is asleep with its condition true was   *)
(* so before, and who is yet to be raised or was given up is as it was.    *)
LEMMA StillNoticed ==
  ASSUME WakesOrAbandons, bits' \subseteq bits, UNCHANGED todo,
         \A r \in Readers : Blocked(r)' =>
           Blocked(r) /\ req'[r] = req[r] /\ (r \in abandoned => r \in abandoned')
  PROVE  WakesOrAbandons'
<1> SUFFICES ASSUME NEW r \in Readers, Blocked(r)', event_matches(bits', req'[r])
             PROVE  r \in abandoned' \/ \E w \in Writers : r \in Collected(w)'
  BY DEF WakesOrAbandons
<1>1. Blocked(r) /\ event_matches(bits, req[r])
  BY MatchesGrow
<1> QED BY <1>1 DEF WakesOrAbandons, Collected

LEMMA ReadersNoticed ==
  ASSUME AccountInv, WakesOrAbandons, NEW r \in Readers,
         (\E q \in Requests[r] : ReadBegin(r, q)) \/ ReadAgain(r) \/ ReadDown(r) \/ ReadLeave(r)
  PROVE  WakesOrAbandons'
<1>1. bits' \subseteq bits /\ UNCHANGED todo
  BY DEF ReadBegin, ReadAgain, ReadPoll, ReturnMatched, Consumed, ReadDown, ReadLeave
<1>2. /\ readPc'[r] # "wait"
      /\ \A x \in Readers \ {r} : readPc'[x] = readPc[x] /\ sem'[x] = sem[x] /\ req'[x] = req[x]
      /\ abandoned \ {r} \subseteq abandoned'
  <2> USE DEF AccountInv, EGTypeOK
  <2>1. CASE \E q : ReadPoll(r, q)
    BY <2>1 DEF ReadPoll, ReturnMatched, Return
  <2>2. CASE ReadDown(r)
    BY <2>2 DEF ReadDown
  <2>3. CASE ReadLeave(r)
    BY <2>3 DEF ReadLeave, Return
  <2> QED BY <2>1, <2>2, <2>3 DEF ReadBegin, ReadAgain
<1> QED BY <1>1, <1>2, StillNoticed DEF Blocked

(* The reader that registers has just seen that its condition is false.    *)
LEMMA RegisterNoticed ==
  ASSUME AccountInv, WakesOrAbandons, NEW r \in Readers, ReadRegister(r)
  PROVE  WakesOrAbandons'
<1> USE DEF AccountInv, EGTypeOK
<1>1. bits' \subseteq bits /\ UNCHANGED <<todo, abandoned>>
  BY DEF ReadRegister, ReturnMatched, Consumed
<1>2. \A x \in Readers \ {r} : readPc'[x] = readPc[x] /\ sem'[x] = sem[x] /\ req'[x] = req[x]
  BY DEF ReadRegister, ReturnMatched, Return
<1>3. \/ readPc'[r] = "idle"
      \/ ~event_matches(bits, req[r]) /\ UNCHANGED <<bits, req>>
  BY DEF ReadRegister, ReturnMatched, Return, PollAgain
<1>4. CASE readPc'[r] = "idle"
  BY <1>1, <1>2, <1>4, StillNoticed DEF Blocked
<1>5. CASE ~event_matches(bits, req[r]) /\ UNCHANGED <<bits, req>>
  BY <1>1, <1>2, <1>5 DEF WakesOrAbandons, Blocked, Collected
<1> QED BY <1>3, <1>4, <1>5

(* The writer collects every reader of the table that matches now.         *)
LEMMA WriteNoticed ==
  ASSUME AccountInv, WakesOrAbandons, NEW w \in Writers, NEW mask \in Masks, Write(w, mask)
  PROVE  WakesOrAbandons'
<1> SUFFICES ASSUME NEW r \in Readers, Blocked(r)', event_matches(bits', req'[r])
             PROVE  r \in Collected(w)'
  BY DEF WakesOrAbandons
<1>1. readPc[r] = "wait" /\ event_matches(bits \cup mask, req[r])
  BY DEF Write, Blocked
<1>2. PICK s \in WaiterSlots : waiters[s] = r
  BY <1>1 DEF AccountInv, TableExact
<1>3. Woken(bits \cup mask)[s] = r
  BY <1>1, <1>2, EventAssumption DEF Woken, IsWoken
<1>4. todo'[w] = Woken(bits \cup mask)
  BY DEF Write, AccountInv, EGTypeOK
<1> QED BY <1>3, <1>4 DEF Collected

(* The writer leaves one reader less, and that one is no longer blocked.   *)
LEMMA UpNoticed ==
  ASSUME AccountInv, WakesOrAbandons, NEW w \in Writers, WriteUp(w)
  PROVE  WakesOrAbandons'
<1>1. PICK t \in WaiterSlots :
        /\ todo[w][t] # Nobody
        /\ sem' = IF sem[todo[w][t]] = Dead THEN sem
                  ELSE [sem EXCEPT ![todo[w][t]] = @ + 1]
        /\ todo' = [todo EXCEPT ![w][t] = Nobody]
  BY DEF WriteUp, IsNext
<1>2. todo[w][t] \in Readers
  BY <1>1 DEF AccountInv, EGTypeOK
<1>3. /\ \A x \in Readers : x # todo[w][t] => sem'[x] = sem[x]
      /\ sem'[todo[w][t]] # 0
  <2>1. CASE sem[todo[w][t]] = Dead
    <3>1. sem'[todo[w][t]] = Dead
      BY <1>1, <2>1
    <3>2. Dead # 0
      BY EventAssumption
    <3> QED BY <1>1, <2>1, <3>1, <3>2
  <2>2. CASE sem[todo[w][t]] # Dead
    BY <1>1, <1>2, <2>2 DEF AccountInv, EGTypeOK
  <2> QED BY <2>1, <2>2
<1> SUFFICES ASSUME NEW r \in Readers, Blocked(r)', event_matches(bits', req'[r])
             PROVE  r \in abandoned' \/ \E v \in Writers : r \in Collected(v)'
  BY DEF WakesOrAbandons
<1>4. r # todo[w][t]
  BY <1>2, <1>3 DEF Blocked
<1>5. Blocked(r) /\ event_matches(bits, req[r]) /\ UNCHANGED abandoned
  BY <1>3, <1>4 DEF Blocked, WriteUp
<1>6. CASE r \in abandoned
  BY <1>5, <1>6
<1>7. ASSUME NEW v \in Writers, r \in Collected(v) PROVE r \in Collected(v)'
  <2>1. PICK s \in WaiterSlots : todo[v][s] = r
    BY <1>7 DEF Collected
  <2>2. todo'[v][s] = r
    BY <1>1, <1>4, <2>1 DEF AccountInv, EGTypeOK
  <2> QED BY <2>2 DEF Collected
<1> QED BY <1>5, <1>6, <1>7 DEF WakesOrAbandons

(* A write that gives up leaves its sleepers where they are known.         *)
LEMMA UpFailsNoticed ==
  ASSUME AccountInv, WakesOrAbandons, NEW w \in Writers, WriteUpFails(w)
  PROVE  WakesOrAbandons'
<1> SUFFICES ASSUME NEW r \in Readers, Blocked(r)', event_matches(bits', req'[r])
             PROVE  r \in abandoned' \/ \E v \in Writers : r \in Collected(v)'
  BY DEF WakesOrAbandons
<1>1. /\ Blocked(r) /\ event_matches(bits, req[r])
      /\ abandoned' = abandoned \cup {x \in Collected(w) : readPc[x] = "wait"}
      /\ \A v \in Writers : v # w => todo'[v] = todo[v]
  BY DEF Blocked, WriteUpFails, AccountInv, EGTypeOK
<1>2. ASSUME NEW v \in Writers, v # w PROVE Collected(v)' = Collected(v)
  BY <1>1, <1>2 DEF Collected
<1> QED BY <1>1, <1>2 DEF WakesOrAbandons, Blocked

LEMMA ObjectNoticed ==
  ASSUME WakesOrAbandons,
         (\E mask \in Masks : osal_event_clear(mask)) \/ osal_event_destroy \/ osal_event_init
  PROVE  WakesOrAbandons'
<1>1. bits' \subseteq bits /\ UNCHANGED <<todo, readPc, sem, req, abandoned>>
  BY DEF osal_event_clear, osal_event_destroy, osal_event_init
<1> QED BY <1>1, StillNoticed DEF Blocked

LEMMA NoticedNext == AccountInv /\ WakesOrAbandons /\ [EGNext]_egVars => WakesOrAbandons'
<1> SUFFICES ASSUME AccountInv, WakesOrAbandons, [EGNext]_egVars
             PROVE  WakesOrAbandons'
  OBVIOUS
<1>1. ASSUME NEW r \in Readers, (\E q \in Requests[r] : ReadBegin(r, q)) \/ ReadStep(r)
      PROVE  WakesOrAbandons'
  BY <1>1, ReadersNoticed, RegisterNoticed DEF ReadStep
<1>2. ASSUME NEW w \in Writers, WriterStep(w)
      PROVE  WakesOrAbandons'
  BY <1>2, UpNoticed, UpFailsNoticed DEF WriterStep
<1>3. CASE UNCHANGED egVars
  BY <1>3 DEF egVars, WakesOrAbandons, Blocked, Collected
<1> QED BY <1>1, <1>2, <1>3, WriteNoticed, ObjectNoticed DEF EGNext

LEMMA NoticedInit == EGInit => WakesOrAbandons
BY DEF EGInit, WakesOrAbandons, Blocked

-----------------------------------------------------------------------------
(* osal_event_read and the table (osal_queue.rs): the slots hold exactly   *)
(* the readers that are registered, each once, with a semaphore in scope,  *)
(* and no write of a bit is consumed by two calls in clear mode.           *)
THEOREM ReadersAreAccounted == EGSpec => []ReadersAccounted
<1>1. AccountInv => ReadersAccounted
  BY DEF AccountInv, ReadersAccounted
<1> QED BY AccountInit, AccountNext, <1>1, PTL DEF EGSpec

(* osal_event_read and osal_event_write (osal_queue.rs): between the first *)
(* poll, the second poll with the registration, the collection and the     *)
(* up() calls, no wakeup is lost: whoever sleeps with its condition true   *)
(* is about to be raised, or was dropped by a write whose up() returned an *)
(* error, with no write collecting it since.                               *)
THEOREM NoLostWakeup == EGSpec => []WakesOrAbandons
BY AccountInit, AccountNext, NoticedInit, NoticedNext, PTL DEF EGSpec
=============================================================================
