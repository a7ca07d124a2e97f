# TLA+ models of the WS63 radio port and of the tools that test it

This directory holds TLA+ models of two bodies of code, the TLC configurations
that check them on small instances, and TLAPS proofs of their central
invariants:

* the Python tools that drive boards and turn what they print into evidence:
  the reset matrices of `hil/` and the capture tools, collectors and download
  verifiers of `docs/plan/evidence/net0-*`;
* the Rust radio port in `chips/ws63/rf`. File names ending in `.rs` below are
  files of `chips/ws63/rf/src/`.

## The tools

A person at a host with two boards starts a tool. It opens one or two serial
ports, pulses the boards' reset lines with J-Link Commander, collects what they
print until a marker or a deadline, judges the logs, and writes logs and a
summary. The boards run on by themselves all the time; the UART may lose or cut
a line, the USB adapter may disappear, Commander may fail, die or hang, and the
tool may be killed. Other tools read the files later, or at the same time.

| Component | State | Operations | Meets others through | What makes it correct |
|---|---|---|---|---|
| Connectivity reset matrix (`hil/ws63-connectivity-reset-matrix.py`) | both logs, boot flag, terminal time, reconnects, records | capture_run, record_from_log, summarize_records, main with and without `--analyze-dir` | UART, J-Link, log files | a log is of one boot, a pass is proved by every stage, the summary is that of the logs, status 0 is about every run |
| Paired-board reset matrices (eight `hil/ws63-*-reset-matrix.py`) | both logs, what was relayed, records | capture, validate, main; for bonds validate_persistence | UARTs, J-Link | one generation of each board, one passkey, no failure on either side, persistence across resets |
| J-Link reset line (`hil/jlink_nrst.py`) | the line, Commander's process | pulse_nrst, held_nrst | Commander | released on every way out |
| NET0 capture tools (`net0-*/capture-tool.py`, one `capture-test.py`) | buffers, rows, `summary.json`, logs | flash, capture, judge, save | UART, access point's UART, files | the summary stands on the logs beside it, whatever is cut off when |
| NET0 evidence collectors (`net0-*/collect-evidence.py`) | what has been read, what is published | read the capture, check it against ELF and build, publish, SHA256SUMS | the capture's directory | what is published was proved by one finished reading |
| NET0 download verifiers (`net0-*/verify-downloads.py`) | the run's conclusion, three hosts' reports | view the run, download, compare, receipt | GitHub | a receipt is of one finished run and three archives that agree |
| Build, mutation, decoding and audit tools of NET0; shell wrappers; `scripts/` | files | one sequential pass | nothing else running | |

What is hard here: bytes of the previous firmware that arrive between the
emptied input buffer and the reset; a reconnect in the middle of a run; two
boards whose boots interleave; lines that are lost, cut or joined, so that the
newest diagnostics are those of an earlier line; counters that wrap; files
rewritten in place and read by another process; a verdict reached from several
readings of one file; a reset line whose driver dies.

## The radio port

The WS63 is a single-hart RISC-V chip. A vendor binary (Wi-Fi MAC, firmware
interface) runs on it in threads and interrupts of its own, and calls into the
Rust port for its operating system (OSAL: queues, events, timers, locks), for
packet buffers, and to report events. The port's radio runner thread drives
hostap's supplicant; a smoltcp device gives the IP stack its frames. Code runs
concurrently only by preemption: an interrupt or a thread of higher priority can
come in between any two instructions outside a critical section, and everything
shared is protected by critical sections, atomics, or by a convention about who
owns what.

| Component | State | Operations | Meets others through | What makes it correct |
|---|---|---|---|---|
| Callback queues (`upstream_supplicant.rs`) | slots FREE/WRITING/READY/READING, sequence counter, drop counter | enqueue (callbacks), take_oldest and guard release (runner) | atomics | one owner per slot, whole messages, none lost or doubled, oldest first |
| Runner poll (`upstream_supplicant.rs`) | remembered drop counters, EAPOL pending flag, fallback window | poll, drain_eapol, eapol_notify | the queues, the driver's frame queue | bounded work, drops reported, every event and frame reaches hostap |
| Station scan (`wifi.rs`, `upstream_supplicant.rs`, `hisi_rf_backend.rs`) | SCAN_STATE, SCAN_RESULTS, NATIVE_SCAN_ACTIVE, capture queue | scan, scan_event, begin/finish/cancel capture, start_scan hook | vendor worker, firmware | one transaction for both consumers, no torn copy, always returns |
| OSAL message queues (`osal_queue.rs`) | ring, head, count, semaphore | create, write_copy, read_copy, is_full, delete | any thread | bounded FIFO, the semaphore never runs ahead of the ring |
| OSAL event groups (`osal_queue.rs`) | bits, table of eight waiters, a semaphore per waiter | init, read, write, clear, destroy | any thread | no lost wakeup, bits consumed once, table exact |
| Software timers (`timer.rs`) | 32 slots, handles, worker flag | init, mod, stop, destroy, timeout_proc | owners, worker threads, handlers | each arm ends once, slots and handles agree, armed timers fire |
| Network device bridge (`netif_smoltcp.rs`) | receive ring of 4, scratch claims, counters | rx_push, rx_pop, receive, transmit, consume, drop | vendor receive context, network task | FIFO, claims given back |
| Packet buffers (`netif.rs`) | reference count, payload window, registered netif | pbuf_alloc/ref/free/header, transmit, driverif_input | vendor driver | count = holders, payload inside the allocation, freed in the end |
| Station backend, connection state (`hisi_rf_backend.rs`, `wifi.rs`) | one-shot peripherals, CONNECTION_STATE | initialize, connect, disconnect | runner, vendor events | no stale event decides an attempt; a failed step can be retried |
| Supplicant port (`upstream_supplicant.rs`) | PORT_STATE, DRIVER_CONTEXT, native context | prepare port, create, configure, drop, hooks | hostap's C shim | one installation, rollback or poison |
| Wait objects (`osal_wait.rs`) | counting semaphore, diagnostics | wait, wakeup, destroy | any thread | a waiter whose predicate holds wakes |
| FRW/HCC self-test transport (`frw.rs`, `hcc.rs`) | node pool, FIFO of 32, worker flag | get/put node, post, worker, stop | producer, worker | in-order delivery, the worker stops |
| Locks, interrupts, threads (`osal.rs`, `osal_sync.rs`, `osal_ext.rs`, `osal_adapt.rs`, `runtime.rs`) | handles over the RTOS driver | lock, unlock, request_irq, spawn | RTOS driver (a submodule, not in the tree) | |
| Heap trace (`alloc.rs`) | trace of allocations | kmalloc, kfree | every component | |
| Cryptography (`crypto.rs`, `crypto_sae.rs`) | hardware engines | hashes, ciphers, curves | supplicant | |
| Flash boot loader (`chips/ws63/flashboot`) | partition table, image headers | choose, verify, jump | flash | |

What is hard here: callbacks that preempt each other and the runner at any
instruction (queues, events, scan); values read in one critical section and used
after it (collected timers, collected semaphores, the copied result list);
notifications consumed before they are served; timeouts that leave the other
side running (scan); counters that wrap or are cut to 16 bits; steps that fail
after an earlier one took effect (semaphore raise, worker spawn). `PROJECT.json`
lists each at its line with the properties that watch it.

## Modules

| Module | Models | Grain |
|---|---|---|
| `SlotQueue` | the four callback queues | one atomic access, one write of a slot's cell |
| `SlotQueueProofs` | proofs about it | |
| `RunnerPoll` | one poll of the runner | one queue operation or flag access |
| `StationScan` | a scan and its two consumers | one critical section or atomic access |
| `RunnerProofs` | proofs about the scan and the poll | |
| `MsgQueue`, `BoundedFifo`, `MsgQueueProofs` | message queues, the bounded FIFO that they and the bridge's ring implement, proofs | one critical section or semaphore call |
| `EventGroup` | one event group | one critical section or semaphore call |
| `TimerService` | the timer table and its workers | one critical section, clock read or handler call |
| `OsalProofs` | proofs about timers and event groups | |
| `NetifBridge` | ring and scratch claims | one critical section, one closure |
| `Pbuf` | packet buffers and the netif seam | one function of the seam, with the free of the memory apart |
| `NetifProofs` | proofs about the bridge and the packet buffers | |
| `UartContract` | what the connectivity matrix reads in a log: stages, markers, diagnostics | a line |
| `UartVerdict` | what it says of a log and of all of them | a log, a list of records |
| `ConnectivityMatrix` | its process, the boards, USB and J-Link | one read, pulse, wait or file |
| `UartFixtures` | the logs that its tests build: inputs of the runs | |
| `ConnectivityMatrixProofs` | proofs about fresh logs, contracts, the summary and the exit status | |
| `PairedVerdict`, `BondVerdict`, `CoexistenceVerdict` | the verdicts of the eight paired matrices | a log of each board |
| `PairedMatrix` | their process, the boards and the held reset line | one read, pulse, wait or file |
| `PairedMatrixProofs` | proofs about the reset line, the verdicts and the bond's history | |
| `NetCapture` | the verdicts of the capture tools | a log |
| `NetCollect` | what the collectors require | a directory |
| `NetDownloads` | what the verifiers compare | an archive |
| `EvidenceChain` | the three processes and the files between them | one file written or read |
| `EvidenceChainProofs` | proofs about summaries, collections and receipts | |
| `MC*` | TLC instances where model values or symmetry are needed | |

`ConnectivityMatrix` extends `UartVerdict`, which extends `UartContract`;
`PairedMatrix` extends the three verdict modules of its tools; `EvidenceChain`
composes a capture tool, a collector and a verifier over `NetCollect` (which
extends `NetCapture`) and `NetDownloads`. Three proof modules extend two
components each, so that the second one's general names carry a prefix:
`PbInit`, `PbNext`, `PbSpec` of `Pbuf`, `EG...` of `EventGroup`, `RP...` of
`RunnerPoll`. The two components do not interact in them; each theorem is about
one of the specifications.

Names of variables and operators follow the source where TLA+ allows it; a
multi-step operation is a group of actions with a program counter whose steps
end where the code leaves a critical section or touches a shared atomic. An
operator that stands for one decision of the code is preceded by the slip of it
(`PushAtCount` before `PushSlot`) that the mutants substitute to show that a
property can fail.

How the state corresponds to the code:

* **Logs.** A log is a sequence of lines; a line is its marker, its numeric
  fields `v`, its textual fields `t`, and in the models of hardware whether it
  is `stale`, printed by the firmware that ran before the reset. A field that
  the UART cut off is not in the domain of `v` or `t`. Searching a marker in
  bytes is searching a line with that marker; the places where the code is
  sensitive to more than that (a line joined to other text, the last line
  without its end) are lines of their own in `NetCapture`.
* **ConnectivityMatrix.** `left` is what the boards will still print, `rx` the
  input buffers, `log`, `bootSeen`, `terminal`, `reconnects` the locals of
  `capture_run`; `disk` and `records` what `main` has written and collected, in
  two steps, the files of a run and then its record; `summary` is `summary.json`,
  empty until a judging exit writes it. A failed pulse, a port that does not come
  back or an exception of the drain ends the tool at once (`Raise`): the logs of
  earlier runs stay on disk and their records are gone.
  The peer's port and J-Link are one option, `paired`: the tool without a J-Link
  for the peer only skips the pulse and the wait.
* **PairedMatrix.** `held` is the line, `holder` Commander's process, `failed`
  an exception on its way through `held_nrst`. The way out of `held_nrst` is two
  steps, `poll()` (`PollHolder`) and then `communicate()` or the pulse
  (`ReleaseReset`, `TrustQuit`), and Commander may end or hang between them or
  during the second; `stuck` says why a line that is still driven was left so.
  The tools differ in a record of
  what ends a capture and in the definition of a verdict, as in the code.
  A Commander that is alive 0.4 s after it was started counts as holding, as the
  code takes it to.
* **EvidenceChain.** `tool` is the capture process, `rows` its summary in
  memory, `disk` its directory; a save is two steps, the truncation of
  `summary.json` and its writing, with a kill possible between; the two logs of a
  run are two writes. An exception that nothing catches (the flash tool's
  timeout, a pulse, a serial port) ends the tool without a save (`Raises`). `col` and `main`
  are the collector and what it has read, `out` what it has published; `ver`,
  `checks`, `ci`, `gone` and `receipt` the verifier, which in net0-rx-origin-free
  also rewrites the collector's SHA256SUMS (`VerifierSums`). The collector of
  net0-rx-origin publishes the digest of its first reading, the others that of
  the last (`Digested`). A capture that times out is
  a log that ends early.

* **SlotQueue.** `state`, `sequence`, `meta`, `body` are the fields of a slot,
  `next_sequence` and `dropped` those of the queue. The four queues differ in
  what they check before enqueueing (`Reject`) and in the type of the payload;
  the limit of `enqueue_result` on the results of one scan ends a call before it
  touches the queue, and is in `StationScan` (`AcceptResult`);
  `meta` and `body` hold the number of the call whose data they carry, so that a
  torn slot shows. The guard that `take_oldest` returns is the step `"reading"`;
  its `Drop` is `ReleaseSlot`. `SeqMod` stands for 2^32.
* **RunnerPoll.** A queue is the number of its published events and a flag for a
  slot being written. `rx_budget` and the local names of
  `SwapPending` are locals of `poll`. The driver's frame queue is external: `EapolArrives` puts a frame
  there before its notification is called.
* **StationScan.** The runner's steps follow `Ws63WifiBackend::scan` into
  `begin_scan_cache_capture`, `Wifi::scan` and `finish_` or
  `cancel_scan_cache_capture`; the worker's steps follow `scan_event`. The
  firmware is external: it runs one scan at a time, reports results and then
  scan-done, and is not told of a timeout, as in the code. Of a result's
  information elements it is kept whether they fit, are too long for the
  capture queue's slot, which counts a drop, or cannot be read by `scan_event`
  (null, or over MAX_IE_LENGTH), which then only lists the result. A poll fails
  for the capture queue's drops, for an event that hostap refuses, or for
  another source (`PollFails`, `FinishLoop`).
* **MsgQueue.** Readers and writers at one point of the code are counted.
  `raising` are the writers between the critical section and `up()`.
* **EventGroup.** A wait mask is a set of bits. `sem[r]` is the semaphore on the
  stack of reader `r`, `Dead` outside its scope; `todo[w]` the array into which a
  write has collected pointers, one place per slot of the table. An `up()` may
  fail on any semaphore, dead or live; the write then returns and leaves its
  reader and the ones after it asleep (`WriteUpFails`), which `abandoned`
  remembers until a write collects them again or they leave. The value a call returns is left out: a call that
  matched takes its bits (`ReturnMatched`), any other leaves them.
* **TimerService.** `handle[t]` is the slot number kept in the `OsalTimer`,
  `due[w]` the batch a worker has collected: the loop over the table visits the
  expired slots in ascending order (`InSlotOrder`). `osal_adapt_timer_init`
  nulls the handle of a timer that may be in use before it calls
  `osal_timer_init` (`AdaptInitBegin`); `orphans` are the slots forgotten so,
  which stay used, and armed if they were.
* **NetifBridge.** `rx`, `rx_head`, `rx_count` are the ring; `rxClaimed` and
  `txClaimed` the claims. A user is a thread that calls the smoltcp device; it
  may drop a token of `transmit` without consuming it (`TxUnused`).
* **Pbuf.** Sizes are scaled down (`U16` for 2^16); `payload` and `len` are
  offsets within the allocation. The driver's references are external.

## Runs

A passing run checks a module's safety and liveness together, under its fair
specification; the violating run checks a sentence of the source's own comments.

| Run | Result | Shows |
|---|---|---|
| `ConnectivityMatrix` | pass | `FreshLog`: through every reconnect a log starts at this boot. `ContractProven`: a pass has every stage in order and newest diagnostics without an error. `SummaryFaithful`, `ExitHonest`: the summary and the status of a judging exit are about all the logs, and an exit by an exception has no summary. `CaptureReturns` |
| `ConnectivityMatrixStale` | violation | a run can pass on what was printed before the reset (finding) |
| `PairedMatrix` | pass | `ResetReleased`, `OneGeneration`, `PasskeyOfThisRun`, `BondPersists`, `PairProven`, `NothingLost`, `CaptureReturns` |
| `EvidenceChain` | pass | `SummaryBacked`, `PublishedBacked`, `PublishedProven`, `SumsOfOneCollection`, `ReceiptProven`, `CaptureEnds` |
| `SlotQueue` | pass | ownership, whole messages, conservation, counted calls, oldest first, through a wrap of the sequence numbers; accepted messages are delivered |
| `NetifBridge` | pass | FIFO ring and its watermark, no claim left behind; refinement to `BoundedFifo` |
| `Pbuf` | pass | reference count and payload window, with allocation lengths on both sides of the 16-bit wrap; buffers are freed |
| `MsgQueue` | pass | an admitted reader finds a message; refinement to `BoundedFifo`; a waiting reader is served |
| `EventGroup` | pass | no wakeup is lost but to an `up()` that fails, exact table, bits consumed once; a matching reader is released |
| `TimerService` | pass | every arm ends once, slots match handles but for those that a repeated `osal_adapt_timer_init` forgets; armed timers fire |
| `RunnerPoll` | pass | budget, drop reports, EAPOL coverage; published events are consumed |
| `StationScan` | pass | one transaction (`Whole`: hostap was fed the scan's results in their order, then the scan-done, and nothing more of the scan; the list is the same but for unreadable results and what a full list leaves out), lossless batch, stable copy; scans and polls return and the capture flag is released |

Type invariants are parts of the folded invariants (`RingSound`, `PollSound`,
`TimersAccounted`, ...), and proved for every module of the port and for
`ConnectivityMatrix`.

**Bounds of the tools' models.** Their inputs are sets of logs, not sizes.
`ConnectivityMatrix`: two runs (one when paired), four scripts of what a target
prints (a good boot, a good boot whose marker is lost, a board that restarts
half way, a failed initialization), two of the peer; and the analysis of logs
built by the repository's own tests with each single line lost, each two
neighbours swapped, each field cut off or changed, and each failure line added.
One defect at a time reaches every clause of the verdict, because its clauses
are conjunctions over lines. `Word = 8` stands for 2^32: the two samples of an
echo lie on both sides of the wrap. `MaxUnread` bounds the input buffer;
`MaxReconnects` is the code's three. `PairedMatrix`: each tool with two boards
as they should be, and with one line lost, doubled, cut or a failure added on
one of them, in every interleaving of the two boards; the bond tool with two
resets, so that each of its histories across a reset occurs, and with three, so
that a run may read a whole generation of the run before, which waited for its
passkey. `EvidenceChain`:
each of fourteen capture tools with two runs, either of
them flawed in each of the ways the log can be, kills at every save, and two
collections (`Attempts`) begun at any moment; each verifier with one thing
wrong on one of the three hosts, a CI run that is not over, and archives that
expire between two downloads.

**Bounds of the port's models.** They are named in the modules' CONSTANTS. Two slots and two
producers give every pairwise race of the queues and a full queue; `SeqMod = 4`
with six calls wraps the numbers while the messages that wait together stay
inside half of the space, which is also the assumption of the code (2^31 calls
while one waits) and is the guard `WithinWindow`. The ring has three slots and
five frames, so that indices wrap while it is full. Packet buffers: `U16 = 16`
and lengths whose allocation does and does not exceed it. Message queues:
capacity three, eight writes. Event groups: three readers that wait for any bit,
for all bits and to take bits, in a table of two slots, so that the table
overflows, a write wakes two readers, and two readers compete for a bit; one of
them may time out; three writes. Timers: two timers on two slots, so that
a timer that is initialised again takes the second slot, fills the table and
is armed in both, two workers that collect at the same
time, and an arm that is replaced. Poll: budget two against four queues of depth one, three
events, two frames and a one-bit counter. Scan: two scans, two firmware events
each, a result list of one and a capture queue of two, so that truncation and a
full queue happen; the first result may have elements that do not fit
or cannot be read (`OddResults`), and one poll may fail (`MaxFailures`). Histories (`calls`, `pushed`, `arms` ...) are bounded by the
guards that carry their bound's name.

**Fairness.** A matrix or capture tool is one process whose every wait has a
deadline or a timeout (`time.monotonic()` loops, `serial` timeouts, the
`timeout=` of each `subprocess.run`), so that it always takes its next step; the
boards, J-Link, the USB adapter and GitHub owe nothing, nor do collectors and
verifiers, which a person starts. In the port: weak fairness of a thread's steps once it is in an operation: the
scheduler runs ready threads and nothing in these operations waits outside of
the modelled waits. The runner polls in a loop (`RadioRunner::run_once`), the
timer worker sleeps one tick at a time at the highest priority, time advances.
Nobody is forced to call an operation, to write an event or to send a frame. The
firmware is not fair: that it ends the scans it accepts is a hypothesis inside
`CaptureEnds`, and `ScanReturns` does without.

**Deadlock** is checked in every run of the port. The tools end, so their runs
do not check it; that they end otherwise than by deadlock is `CaptureReturns`
and `CaptureEnds`.

## Where code and text disagree

* `ConnectivityMatrixStale` (finding): "Keep only this boot so stale success
  markers cannot terminate or pass the next run" holds once the boot marker was
  read. When the UART loses it, `capture_run` keeps the whole log and
  `record_from_log` judges it, stale lines included. `FreshLog` states what does
  hold.

Seven more sentences of the source are stated as properties that TLC refutes. No
configuration lists them; adding the name to the module's `.cfg`, as INVARIANT
or PROPERTY, shows the behaviour.

* `EventGroup!WriteWakesMatching` ("a write wakes every matching reader"):
  the semaphores are raised after the critical section; when an `up()` fails,
  because the semaphore was destroyed meanwhile or for any other reason, its
  reader and the ones after it stay asleep (`osal_queue.rs:463`).
  `WakesOrAbandons` says that they are the only ones.
* `TimerService!FiresLiveTimer` ("SAFETY: the slot held a live osal_timer
  pointer"): due timers are collected under the lock and read after it; one
  destroyed in between, by its owner or by an earlier handler, is still called
  (`timer.rs:313`), and so is one whose second init forgot an armed slot
  (`timer.rs:184`).
* `StationScan!ListIsFed` ("keeps one scan transaction as the source of both the
  Rust result list and hostap's BSS cache"): a result whose information elements
  are null or longer than MAX_IE_LENGTH is not passed on, and is listed all the
  same (`wifi.rs:1523`). `OneTransaction` says that the two differ in nothing
  else but what a full list leaves out.
* `PairedMatrix!EveryPathReleases` ("Hold nRST for the context lifetime and
  release it on every exit path", `jlink_nrst.py:82`): a Commander that ended
  with status 0 is taken to have released the line, and one that dies after
  `poll()` found it running makes `communicate()` return as usual, its broken
  pipe swallowed and its return code not looked at (`jlink_nrst.py:101-103`); in
  both cases the board stays in reset and nothing is raised. When the releasing
  pulse fails, the line stays driven too, but the tool ends with the exception.
  `ResetReleased` names these three ways and excludes any other.
* `RunnerPoll!EapolDrained` (EAPOL frames that were announced are drained):
  `EAPOL_PENDING` is swapped before the budget is looked at, and a poll whose
  budget is spent discards the notification (`upstream_supplicant.rs:1547`).
* `StationScan!NoLeak` ("Abort a failed vendor scan without leaking events into
  the next scan"): the firmware's scan goes on after a timeout, and its results
  enter the next capture (`upstream_supplicant.rs:1366`).
* `NetifBridge!ScratchExclusive` ("Each scratch buffer is claimed and released
  under the single-hart critical section before it is accessed outside that
  section"): `consume` releases the claim and the `Drop` of the token releases it
  again; between the two another task may have claimed the buffer, whose claim
  the second release takes away, and the next `transmit` overlaps with it
  (`netif_smoltcp.rs:465`). It takes two tasks that drive a
  `Ws63Device` each, a unit struct that anyone can make; with the one that
  `RadioResources` hands out it does not happen. `NoClaimLeak` states what does
  hold.

Smaller ones, seen while modelling, that no property is about: `osal_adapt_timer_init`
called on a timer in use leaks its slot (`timer.rs:184`; `SlotsMatchHandles`
excepts these slots, `ForgottenSlot`); a connectivity matrix in which a later
run raises writes no `summary.json` for the runs before it; `validate_persistence` accepts a
matrix of a single restored or removal run; the tools that do not hold the
second board in reset let lines of its previous generation satisfy the
contract, so that `OneGeneration` is claimed of the bond tool alone and only
when the boot line of the run is in the log; the passkey relayed is the first in the log; when the
last conservation line is cut short an older one is judged (`NothingLost` says
which); a board that reboots in the middle of a connectivity run leaves one log of two
boots. The branch of `validate_rust_contract` that reports
stages out of order cannot be reached: the cursor finds them missing first. In
the evidence, the collectors of rx-deadline, host-tx, initial-session,
user-cleanup and the rejected cases of rx-stop and rx-rebuild do not ask whether
the capture is over, and some take the digest of the summary in a second
reading: `Final` in `PublishedBacked` names the ones for which one finished
reading is claimed, and only where the capture made no more than the runs that
the collector demands (its 3 or 20; the capture tool takes any `--runs`, and the
first rows of a longer capture may be published while it goes on). The pbuf-epoch and traffic-storage verifiers do not compare
the local report with the artifact's digest.

## Proofs

TLAPS checks the theorems for every value of the constants that satisfies the
named assumptions of the modules, which TLC evaluates for its instances too:

* the port: `Depth`, `Producers`, `SeqMod`, `MaxCalls` of the slot queue; `cap`
  and the bounds of the message queue; the depth, the tasks and the bounds of
  `NetifBridge` (`ConstAssumption` in each); the sizes of `Pbuf`
  (`PbufAssumption`); any sets of readers, writers and bits of `EventGroup`
  (`EventAssumption`); any timers, any number of slots and any finite set of
  workers (`TimerAssumption`); any depth, budget, counter width and bounds of
  `RunnerPoll` (`PollAssumption`); any number of scans, and a result list of
  any length with a capture queue one longer, 32 and 33 in the code
  (`ScanAssumption`);
* the tools: any set of options that satisfies `ToolsAssumption` (which tools
  there are) or the two `OptionsAssumption` (what the fields of the CI view
  hold, and a collector's case; that `--analyze-dir` alone brings files, which are
  logs of the same kind, one of each board and run); and any set of scripts that
  a board may print, of whole lines none of which is stale yet, where the
  central accepts a passkey only after it has waited for one
  (`ScriptsAssumption`). Of a line's counters only what the code takes for granted is assumed: they are
  unsigned, and those of the echo path are below `Word`, which stands for 2^32.

Each proof module states its few facts about numbers and sequences where it
needs them. What a recursive definition computes is out of an inductive proof's
reach here, but not of every proof: a property that fails fails at a least
natural number (`LeastNatural`) or in a smallest set (`SmallestSubset`), and the
step leads from there to a smaller one. In this way `RecursionExists` and
`SumExists` show that a recursion over `0 .. n` or over the subsets of a finite
set has a solution, so that the recursive functions of the models (the cursor
over the stages, the snapshots, the sums of the summary) have the values that
their equations say.

* **SlotQueueProofs.** None of the safety properties is inductive alone. `IInv`
  (in `SlotQueue`) adds how calls are numbered (`Numbering`: a message's sequence
  is its ordinal modulo `SeqMod`), that waiting messages lie within half of the
  sequence space (`InWindow`), what a producer has written so far
  (`WriteProgress`) and what the consumer has found so far (`ScanProgress`). The
  step lemma has a case per action. Its first lemmas prove that within the window
  `sequence_before` orders messages as their ordinals do; this is where
  `OldestOfSnapshot` comes from. Theorems: `TypeCorrect`, `OwnershipExclusive`,
  `MessagesWhole`, `MessagesConserved`, `TakeNeverFails`, `OldestTaken`, and
  `CallsAndMessages`, whose half about the calls (`CallsCounted`) adds that
  finitely many are in flight.
* **MsgQueueProofs.** `IInv` is the type invariant with `SemaphoreCountsRing` and
  `NeverEmptyAfterDown`; the counting equation makes the popping reader's ring
  non-empty. `QueueImplementsFifo` maps the ring to its contents in order: a
  write appends, a pop takes the first and returns it, every other step stutters. Theorems:
  `SemaphoreSound`, `PopFindsMessage`, `QueueImplementsFifo`.
* **NetifProofs**, the bridge. `RingIsSound`: `QueueInv` says frame by frame where the
  `i`-th frame that is not yet taken lies in the ring, across the wrap of
  `rx_head` (`IndexWraps`), and `BoundInv` bounds the counters; a push keeps it,
  also one that a full ring or the size of the frame refuses, and so does a pop.
  `RingImplementsFifo`: the same positions say what the ring contains
  (`QueuedIs`), so that a push appends to it, a pop takes its head
  (`PushPuts`, `PopGets`), and nothing else, a reset of the counters or a claim,
  moves a frame. `BoundedFifo` is thus the promise of both queues of the port.
  `ClaimsReturned`: `ClaimInv` says that whenever a scratch buffer is claimed
  some task is between taking it and the last of the stores that give it back.
  `consume` and `Drop` both give it back, and what makes this harmless for
  leaks is that every way out ends with such a store; who else holds the claim
  meanwhile is not said. `BridgeIsSound` puts the two together.

  The packet buffers. `CountExact`: `CountInv` adds to `RefCountExact` that a buffer
  whose last reference is gone is still allocated until its `kfree`, so that the
  heap does not hand it out in between, and that the driver has no reference
  while `transmit` still fills the buffer, so that its `pbuf_ref` is a new
  holder's. `PayloadStaysInside`: `pbuf_header` compares with the recorded
  16-bit length, and a remainder never exceeds the number it is taken of.
* **OsalProofs**, the event groups. `ReadersAreAccounted`: `AccountInv` adds that a reader
  which is about to register has its semaphore, and that nobody is inside an
  event group that is gone. `NoLostWakeup`: a reader is registered in the
  critical section of its second poll, so that a write before it is seen by the
  poll and one after it collects the reader; the pointer then stays in `todo`
  until the `up()` that reaches it, or is given up because this `up()` or an
  earlier one failed: the reader is then in `abandoned`.

  The timers. `TimersAllAccounted`: `TimerInv` ties slots and handles in both
  directions (`HandleInv`), gives a used slot without an owner to exactly one
  init between its two critical sections (`RegisterInv`), and says what a step
  in between still holds (`StepInv`). `DueInv` bounds a
  batch by the table; it visits distinct slots (`InSlotOrder`), but may name a
  timer twice, once for a slot that the timer has lost. Then
  the arms are conserved one by one: collecting moves an arm from its slot into
  one worker's batch (`VisitsAll`, `CollectedFinite`), and firing takes it out
  again, also when its timer was destroyed and made anew meanwhile. Arms are
  therefore counted by slots and by places of a batch, not by timers.
  `SlotsMatchHandles` follows from `HandleInv` and `RegisterInv`.
* **RunnerProofs**, the scan. `ScansSound`: `ScanInv` follows one transaction
  through its phases. Before the firmware is asked nothing is there (`Fresh`);
  while its callbacks come (`Capturing`) the queue holds the scan's accepted
  results with at most one scan-done behind them (`Batch`), and the worker is at
  a known place of `scan_event` (`Reporting`, `Ending`, `Ended`); the result
  list keeps pace with the queue, number by number (`Listing`), but for unreadable
  results, which only the list has, and for what comes after a full list; after the scan-done nothing
  of the scan comes any more (`Over`), so that later drains append only other
  scans' events to what was fed. All of it holds of a scan that began with
  nothing left over (`clean`), the condition of the property; a scan after a
  timeout need not be one, as `NoLeak` above shows.

  The polls. `PollsSound`: `PollInv` relates each wrapped counter to the number
  of drops it stands for (`DropInv`), says that a slot being written has room
  (`RoomInv`) and that work and remaining budget add up to the grant
  (`BudgetInv`). `DropsReported` is then modular arithmetic: the difference of
  two remainders is the remainder of the difference (`ModDiff`), a counter that
  is stepped wraps as the number does (`ModNext`), and a difference smaller than
  the modulus is its own remainder (`ModSmall`, `CatchUp`).
* **ConnectivityMatrixProofs.** `FreshLogs`: a log and the unread input behind
  it are one capture, in which stale lines come first and no stale line is a
  boot marker unless the board restarted by itself (`PortInv`); cutting the log
  at its first marker (`Kept`), a pulse (`Resets`) and new lines (`MoreLines`)
  keep it so. `FreshLog` alone is not inductive: it says nothing of the unread
  input. `ExitsHonest`: `RecordsInv` says that the records are those of the
  files, of which there is one more between a run's writing and its record
  (`PendingInv`), `ProgressInv` how far the runs are, and `SummaryInv` that only
  the exits that judge have a summary; as many passes as records are a
  pass of each (`EveryRecordPasses`). `ContractsProven` and `SummariesFaithful`:
  `LogsInv` adds that what is on disk is whole lines with unsigned counters
  (`PeerInv`, `DiskInv`). Then a pass without violations means what the property
  says of one log: the code's cursor has found a chain of the stages
  (`CursorOfStages`, `EndsOfStages`), the newest snapshot that still has a
  counter is the last line with it (`ZeroDriftIsClean`), and the largest step
  bounds all (`StepsWithinBudget`). For the summary: minimum and maximum bound
  what they are taken of (`RangeHolds`); an advance taken modulo `Word` leads
  from one sample to the next (`AdvanceOfCounter`); sums keep an inequality that
  holds of each run (`SumsAddUp`); and the results partition the runs
  (`TallyCountsAll`).
* **PairedMatrixProofs.** `ResetAlwaysReleased`: `HoldInv` ties the line, the
  Commander process, `stuck` and the way out of the `with` block to the step the
  tool is at; the boards' steps and the verdicts leave all of these alone. `PairsProven`
  and `BondsPersist`: `RecordInv`, the records are the verdicts on the logs
  written. `GenerationsSeparate`: `FlowInv` and `LogsInv` follow the lines of a
  board from its script through the buffer into the log, stale ones first; what
  `generation_errors` finds in the order of the lines then separates the
  generations. `EventsAllAccounted`: the conservation line that the
  verdict reads is the last whole one, and the extremes of
  `summarize_acceptance` are those of all runs and boards. `PasskeysRelayed`
  (`SentInv`): no log on disk shows the passkey, at most one is relayed in a
  run, and in a run that passes with its boot marker it is not a stale one.
  `PasskeysOfThisRun` adds that one was relayed at all: `AnswerInv` says of
  every place where the central's acceptance can be, still to be printed, unread
  or in the log, that the tool has sent this run's passkey before, because the
  segment that begins with it is printed only after the inbox was read and the
  hold has begun the firmware anew. A stale acceptance is not one of this kind,
  which is why the property asks for this run's boot line in the central's log:
  it then stands before the acceptance that the verdict found.
* **EvidenceChainProofs.** What a verdict asks of a log is not looked into: the
  theorems hold whatever it is. `SummariesBacked`: `BackedInv` says that the
  rows in memory are backed by the logs on the disk too, that a run's log is written
  before its row and that a failed row ends the runs; `SummaryBacked` alone is not
  inductive, since a save copies the rows. `SumsVouchForOne`: `SumsInv` says that
  a directory made anew is written by one collection only, and that a collection
  in place has written every file again when it comes to the sums.
  `PublicationsBacked` goes through the collector's two readings of a summary that
  may be rewritten between them. `ReadInv`: once a reading was judged, each of
  its rows agrees with its log, and the log is not written again, since a row is
  saved after its log (`LogsKept`, `AgreedStays`). `OverInv`: a summary whose
  rows are all that were asked for, or end with a failed one, is the tool's last;
  `FinalInv`: the collectors that insist on such a summary have read the same
  rows twice, and publish these (`FirstReading`, `SecondReading`, `Judgement`,
  `Publication`). All of it rests on `BackedInv`: a log is added behind the ones
  that are there, and none of these is touched.
  `ReceiptsProven`: `ReceiptInv` says
  what the verifier knows at each step, that the view of a run that was over
  stays true, and that equal neighbours are equal pairwise.

Only model-checked:

* all liveness, which is outside the prover's reach;
* `PublishedProven`: which line of a log is the first wrong one is a property
  of the logs that the instance is built with, not of the tools; the part that
  does not depend on them is `PublishedBacked`;
* the sentences that TLC refutes, above.

## Not modelled

In the tools: parsing of bytes into lines and fields beyond what is said above,
wording, arguments that only name files. The LAN ping before the first
connectivity run, whose result is copied into the summary. The words of the
lines that only one tool prints and none checks (`OLD_RX` with ten words). Files
of net0-storage, whose capture reuses its directory: `SummaryBacked` claims
nothing of it. The build, mutation, decoding and audit tools of the evidence,
`scripts/`, the shell wrappers of `hil/`: each is one sequential pass over files
with no other actor and no state that outlives it, where a model would only
repeat the program.

In the port: 
Weak memory: the chip has one hart, so that atomics are sequentially consistent
for threads and interrupts. Payload bytes, parsing of information elements and
diagnostics. Cryptography, C library shims, logging and register set-up. The
RTOS scheduler and the HAL, which are submodules outside of the tree.
`osal_msg_queue_delete` and `osal_wait_destroy`, whose contract is that nobody
uses the object any more. `local_timer_init` and `local_timer_exit`
(`timer.rs:273-283`), which clear the whole timer table: the self-test calls the
first (`selftest.rs:165`), nothing the second. The components marked `not_modelled` in
`PROJECT.json`.

## Plan

Done: the callback queues; the runner's poll; the scan; the OSAL queues, events
and timers; the netif bridge and packet buffers; the connectivity matrix; the
paired matrices and the reset line; the evidence chain.

1. `WaitObject` (`osal_wait.rs`): predicates, one semaphore, several waiters.
2. `StationConnection` (`hisi_rf_backend.rs`, `wifi.rs`): initialize with its
   one-shot resources, connect and disconnect with timeouts, stale events.
3. `SupplicantPort` (`upstream_supplicant.rs`): PORT_STATE, creation and drop of
   the native context, the hooks installed in two steps.
4. `FrwWorker` (`frw.rs`, `hcc.rs`); `SpinLock`, `AllocTrace`; the boot loader.
5. Refinement: the queues of `RunnerPoll` to `SlotQueue`'s promise.
