----------------------------- MODULE RunnerPoll -----------------------------
(***************************************************************************)
(* NativeSupplicant::poll (chips/ws63/rf/src/upstream_supplicant.rs): the  *)
(* radio runner's pass over the four callback queues and the driver's      *)
(* EAPOL frames, within a work budget, preempted at any point by the       *)
(* callbacks that fill them.  A queue is the number of its published       *)
(* events (SlotQueue is about its inside); while a producer is writing a   *)
(* slot the queue yields nothing.                                          *)
(***************************************************************************)
EXTENDS Integers, Sequences

CONSTANTS
  Depth,        \* slots of each queue
  Budget,       \* work_budget, 32 in the code
  Window,       \* EAPOL_FALLBACK_POLL_WINDOW, 2000
  CounterMod,   \* number of values of a drop counter, 2^32
  MaxEvents,    \* bound: callbacks, over all queues
  MaxFrames,    \* bound: EAPOL frames in the driver and yet to be announced
  MaxPollFailures \* bound: hostap calls and ioctls that fail

ASSUME PollAssumption ==
  /\ Depth \in Nat \ {0} /\ Budget \in Nat \ {0}
  /\ Window \in Nat /\ CounterMod \in Nat \ {0, 1}
  /\ MaxEvents \in Nat /\ MaxFrames \in Nat /\ MaxPollFailures \in Nat

CheckOrder == <<"mgmt", "scan", "link", "auth">>
DrainWithoutMgmt == <<"scan", "link", "auth", "auth">>
DrainOrder == <<"scan", "link", "auth", "mgmt">>
Queues == {"mgmt", "scan", "link", "auth"}

VARIABLES
  queued,           \* published events per queue
  publishing,       \* a producer is between claim and publication
  dropped, seen,    \* the queue's counter, and the runner's copy
  frames,           \* EAPOL frames in the driver's skb queue
  unannounced,      \* of these, frames whose eapol_notify is yet to be called
  pending,          \* EAPOL_PENDING
  fallback_polls,   \* eapol_fallback_polls_remaining
  stage, at,        \* the runner: step of poll, position in its order
  rx_budget,        \* poll's remaining budget
  pollFailures,     \* history: failed calls
  events,           \* history: callbacks so far
  drops, reported,  \* history: drops, and drops reported as overflow errors
  work,             \* history: events and frames fed by this poll
  completed,        \* history: work_completed of the latest poll
  forgotten         \* history: a notification was swapped away unserved

queueVars == <<queued, publishing, dropped, drops, events>>
driverVars == <<frames, unannounced>>
runnerVars == <<seen, fallback_polls, stage, at, rx_budget,
                pollFailures, reported, work, completed, forgotten>>
rpVars == <<queueVars, driverVars, pending, runnerVars>>

Stages == {"idle", "check", "drain", "swap", "eapol", "shim"}

RPTypeOK ==
  /\ queued \in [Queues -> 0 .. Depth]
  /\ publishing \in [Queues -> BOOLEAN]
  /\ dropped \in [Queues -> 0 .. CounterMod - 1]
  /\ seen \in [Queues -> 0 .. CounterMod - 1]
  /\ frames \in 0 .. MaxFrames /\ unannounced \in 0 .. MaxFrames
  /\ pending \in BOOLEAN
  /\ fallback_polls \in 0 .. Window
  /\ stage \in Stages /\ at \in 1 .. 4
  /\ rx_budget \in 0 .. Budget
  /\ pollFailures \in 0 .. MaxPollFailures /\ events \in 0 .. MaxEvents
  /\ drops \in [Queues -> 0 .. MaxEvents] /\ reported \in [Queues -> 0 .. MaxEvents]
  /\ work \in Nat /\ completed \in Nat
  /\ forgotten \in BOOLEAN

None == [q \in Queues |-> 0]

RPInit ==
  /\ queued = None
  /\ publishing = [q \in Queues |-> FALSE]
  /\ dropped = None /\ seen = None
  /\ frames = 0 /\ unannounced = 0
  /\ pending = FALSE
  /\ fallback_polls = 0
  /\ stage = "idle" /\ at = 1
  /\ rx_budget = 0
  /\ pollFailures = 0 /\ events = 0
  /\ drops = None /\ reported = None
  /\ work = 0 /\ completed = 0
  /\ forgotten = FALSE

-----------------------------------------------------------------------------
DropCount(n) == (n + 1) % CounterMod

(* The callbacks.  One claim is under way per queue at a time here.        *)
Claim(q) ==
  /\ events < MaxEvents /\ ~publishing[q]
  /\ events' = events + 1
  /\ \/ /\ queued[q] < Depth
        /\ publishing' = [publishing EXCEPT ![q] = TRUE]
        /\ UNCHANGED <<dropped, drops>>
     \/ /\ queued[q] = Depth
        /\ dropped' = [dropped EXCEPT ![q] = DropCount(@)]
        /\ drops' = [drops EXCEPT ![q] = @ + 1]
        /\ UNCHANGED publishing
  /\ UNCHANGED <<queued, driverVars, pending, runnerVars>>

Publish(q) ==
  /\ publishing[q]
  /\ publishing' = [publishing EXCEPT ![q] = FALSE]
  /\ queued' = [queued EXCEPT ![q] = @ + 1]
  /\ UNCHANGED <<dropped, drops, events, driverVars, pending, runnerVars>>

EapolArrives ==
  /\ frames + unannounced < MaxFrames
  /\ frames' = frames + 1
  /\ unannounced' = unannounced + 1
  /\ UNCHANGED <<queueVars, pending, runnerVars>>

eapol_notify ==
  /\ unannounced > 0
  /\ unannounced' = unannounced - 1
  /\ pending' = TRUE
  /\ UNCHANGED <<queueVars, frames, runnerVars>>

-----------------------------------------------------------------------------
(* poll.  An error returns to the runner, which polls again.               *)
Fails ==
  /\ pollFailures < MaxPollFailures
  /\ pollFailures' = pollFailures + 1
  /\ stage' = "idle"

RxGrant == Budget - 1

PollBegin ==
  /\ stage = "idle"
  /\ stage' = "check" /\ at' = 1
  /\ rx_budget' = 0 /\ work' = 0 /\ completed' = 0
  /\ UNCHANGED <<queueVars, driverVars, pending, seen, fallback_polls, pollFailures,
                 reported, forgotten>>

OverflowDelta(q) == (dropped[q] - seen[q]) % CounterMod

(* One dropped counter: a change is remembered and ends the poll.          *)
CheckOverflow ==
  /\ stage = "check"
  /\ LET q == CheckOrder[at] IN
       \/ /\ dropped[q] # seen[q]
          /\ seen' = [seen EXCEPT ![q] = dropped[q]]
          /\ reported' = [reported EXCEPT ![q] = @ + OverflowDelta(q)]
          /\ stage' = "idle"
          /\ UNCHANGED <<at, rx_budget>>
       \/ /\ dropped[q] = seen[q]
          /\ IF at = 4
             THEN stage' = "drain" /\ at' = 1 /\ rx_budget' = RxGrant
             ELSE at' = at + 1 /\ UNCHANGED <<stage, rx_budget>>
          /\ UNCHANGED <<seen, reported>>
  /\ UNCHANGED <<queueVars, driverVars, pending, fallback_polls, pollFailures, work,
                 completed, forgotten>>

Yields(q) == queued[q] > 0 /\ ~publishing[q]

(* take_oldest and the feed of one event.  A successful association opens  *)
(* the fallback window; any feed may fail, and the event is gone then.     *)
DrainEvent ==
  /\ stage = "drain" /\ rx_budget # 0
  /\ LET q == DrainOrder[at] IN
       /\ Yields(q)
       /\ queued' = [queued EXCEPT ![q] = @ - 1]
       /\ \/ Fails /\ UNCHANGED <<rx_budget, work, fallback_polls>>
          \/ /\ rx_budget' = rx_budget - 1
             /\ work' = work + 1
             /\ \/ UNCHANGED fallback_polls
                \/ q = "link" /\ fallback_polls' = Window
             /\ UNCHANGED <<pollFailures, stage>>
  /\ UNCHANGED <<publishing, dropped, drops, events, driverVars, pending, seen, at,
                 reported, completed, forgotten>>

DrainNext ==
  /\ stage = "drain"
  /\ rx_budget = 0 \/ ~Yields(DrainOrder[at])
  /\ IF at = 4 THEN stage' = "swap" /\ UNCHANGED at
               ELSE at' = at + 1 /\ UNCHANGED stage
  /\ UNCHANGED <<queueVars, driverVars, pending, seen, fallback_polls,
                 rx_budget, pollFailures, reported, work, completed, forgotten>>

(* EAPOL_PENDING.swap(false) and the decision to drain.                    *)
SwapPending ==
  /\ stage = "swap"
  /\ pending' = FALSE
  /\ LET notified == pending
         fallback == ~notified /\ fallback_polls # 0
     IN \/ /\ rx_budget # 0 /\ (notified \/ fallback)
           /\ stage' = "eapol"
           /\ fallback_polls' = IF fallback THEN fallback_polls - 1 ELSE fallback_polls
           /\ UNCHANGED forgotten
        \/ /\ ~(rx_budget # 0 /\ (notified \/ fallback))
           /\ stage' = "shim"
           /\ forgotten' = (forgotten \/ notified)
           /\ UNCHANGED fallback_polls
  /\ UNCHANGED <<queueVars, driverVars, seen, at, rx_budget, pollFailures, reported,
                 work, completed>>

(* One turn of drain_eapol.  The ioctl may fail and leave the frame in the *)
(* driver, or the frame it returned may be refused; an error leaves        *)
(* without setting the flag again.                                         *)
DrainEapol ==
  /\ stage = "eapol" /\ rx_budget # 0
  /\ \/ /\ Fails
        /\ forgotten' = TRUE
        /\ \E lost \in {0, 1} : lost <= frames /\ frames' = frames - lost
        /\ UNCHANGED <<rx_budget, work>>
     \/ /\ frames > 0
        /\ frames' = frames - 1
        /\ rx_budget' = rx_budget - 1
        /\ work' = work + 1
        /\ UNCHANGED <<stage, pollFailures, forgotten>>
  /\ UNCHANGED <<queueVars, unannounced, pending, seen, fallback_polls, at,
                 reported, completed>>

PendingLeftClear == pending
PendingAfterDrain == IF rx_budget = 0 THEN TRUE ELSE pending

DrainEapolEnd ==
  /\ stage = "eapol"
  /\ rx_budget = 0 \/ frames = 0
  /\ pending' = PendingAfterDrain
  /\ stage' = "shim"
  /\ UNCHANGED <<queueVars, driverVars, seen, fallback_polls, at, rx_budget,
                 pollFailures, reported, work, completed, forgotten>>

(* hisi_wpa_poll with what is left of the budget, and account_poll_work.   *)
ShimBudget == IF rx_budget > 1 THEN rx_budget ELSE 1

ShimPoll ==
  /\ stage = "shim"
  /\ \E done \in 0 .. ShimBudget : completed' = done + (RxGrant - rx_budget)
  /\ \/ Fails
     \/ stage' = "idle" /\ UNCHANGED pollFailures
  /\ UNCHANGED <<queueVars, driverVars, pending, seen, fallback_polls, at,
                 rx_budget, reported, work, forgotten>>

-----------------------------------------------------------------------------
Poll ==
  \/ PollBegin \/ CheckOverflow \/ DrainEvent \/ DrainNext \/ SwapPending
  \/ DrainEapol \/ DrainEapolEnd \/ ShimPoll

RPNext ==
  \/ \E q \in Queues : Claim(q) \/ Publish(q)
  \/ EapolArrives \/ eapol_notify
  \/ Poll

RPSpec == RPInit /\ [][RPNext]_rpVars

(* The runner keeps polling (RadioRunner::run_once in a loop) and a        *)
(* callback that began ends.                                               *)
RPFairSpec ==
  /\ RPSpec
  /\ WF_rpVars(Poll)
  /\ WF_rpVars(eapol_notify)
  /\ \A q \in Queues : WF_rpVars(Publish(q))

-----------------------------------------------------------------------------
(* "Advance bounded hostap work": inputs fed and the shim's share stay     *)
(* within the budget, and the work reported covers every input fed.        *)
WithinBudget ==
  /\ work + ShimBudget <= Budget \/ stage \in {"idle", "check"}
  /\ completed <= Budget
  /\ stage = "shim" => work = RxGrant - rx_budget

(* "Queue overflow is observable, not silent": the errors report every     *)
(* drop once, over any number of polls and wraps of the counter, provided  *)
(* fewer drops than the counter has values fall between two polls.         *)
DropsReported ==
  \A q \in Queues : drops[q] - reported[q] < CounterMod =>
    drops[q] = reported[q] + ((dropped[q] - seen[q]) % CounterMod)

(* While nothing was forgotten, EAPOL frames in the driver are in sight:   *)
(* announced by the flag, about to be, or inside the running drain.        *)
EapolCovered ==
  (frames > 0 /\ ~forgotten /\ pollFailures = 0) =>
    pending \/ unannounced > 0 \/ stage = "eapol"

(* One poll's promises to its caller, together: bounded work, every loss   *)
(* reported, and no announced frame out of sight.                          *)
PollSound == RPTypeOK /\ WithinBudget /\ DropsReported /\ EapolCovered

(* Every published event reaches hostap, although earlier queues have      *)
(* precedence in the budget and overflow errors cut polls short: once the  *)
(* callbacks stop, each queue empties.                                     *)
EventsConsumed == \A q \in Queues : (queued[q] > 0) ~> (queued[q] = 0)

(* "EAPOL callbacks only set a pending flag and wake the runner.  The      *)
(* runner uses WS63 commands 6/7/8 to enable, drain and disable the        *)
(* bounded receive path": announced frames are drained.                    *)
(* Refuted by TLC, so that no configuration lists it: a poll whose budget  *)
(* is spent discards the notification.                                     *)
EapolDrained == (frames > 0) ~> (frames = 0)
=============================================================================
