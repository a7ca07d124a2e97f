---------------------------- MODULE NetDownloads ----------------------------
(***************************************************************************)
(* What the NET0 download verifiers, net0-*/verify-downloads.py, demand of *)
(* a finished CI run and of the report archive of each of three hosts.     *)
(* An archive a is                                                         *)
(*   [digest |-> its bytes are those GitHub lists, source |-> it was built *)
(*    from the verified commit, members |-> the names in it, failing |->   *)
(*    the reports whose status is not pass, flags |-> every flag the       *)
(*    consumer must set or clear is right, lock |-> the lock file is the   *)
(*    one the consumer names, off |-> the reports whose pinned schema or   *)
(*    counts differ, elf |-> the ELF each report is about, shape |-> what  *)
(*    of a report must not depend on the host].                            *)
(* Counts, sizes and schema names are not told apart.                      *)
(***************************************************************************)
EXTENDS Naturals, Sequences, FiniteSets

Hosts == <<"ubuntu-latest", "macos-14", "windows-latest">>

ConsumerFiles == {"consumer", "cleanup", "storage", "consumer.Cargo.toml", "consumer.Cargo.lock"}

(* The run: its commit, its end, every one of its 23 jobs.                 *)
CiPassed(ci) == ci.source /\ ci.status = "completed" /\ ci.conclusion = "success" /\ ci.jobs

(* A verifier: which members an archive has, which reports must pass,      *)
(* which are pinned, which must be about one ELF, which pair must be about *)
(* two, and what is compared across hosts; whether it first compares the   *)
(* build's source copy, requires the artifact listing to be complete,      *)
(* downloads the archives itself, and writes the SHA256SUMS of the         *)
(* directory it leaves its receipt in.                                     *)
Verifier(members, passing, pinned, same, other, parity) ==
  [members |-> members, passing |-> passing, pinned |-> pinned, same |-> same,
   other |-> other, parity |-> parity, copy |-> FALSE, listed |-> TRUE, download |-> TRUE,
   sums |-> FALSE]

TransitiveVerifier ==
  Verifier(ConsumerFiles, {"consumer", "cleanup", "storage"},
           {"consumer", "consumer.Cargo.toml", "cleanup", "storage"},
           {{"storage", "cleanup"}}, {}, {"cleanup", "storage"})

HostTxVerifier ==
  Verifier(ConsumerFiles \union {"host-tx"}, {"consumer", "cleanup", "storage", "host-tx"},
           {"host-tx", "cleanup"}, {{"host-tx", "cleanup", "storage"}}, {},
           {"host-tx", "storage"})

RxStopVerifier ==
  Verifier(ConsumerFiles \union {"host-tx", "rx-stop"},
           {"consumer", "cleanup", "storage", "host-tx", "rx-stop"},
           {"host-tx", "cleanup", "rx-stop"}, {{"host-tx", "cleanup", "storage"}},
           {{"rx-stop", "host-tx"}}, {"rx-stop"})

RxModeFiles == {"host-tx", "rx-stop", "rx-mode"}

DirectRxVerifier ==
  Verifier(ConsumerFiles \union RxModeFiles, {"consumer", "cleanup", "storage"} \union RxModeFiles,
           {"cleanup"} \union RxModeFiles,
           {{"host-tx", "cleanup", "storage"}, {"rx-mode", "rx-stop"}},
           {{"rx-stop", "host-tx"}}, {"rx-stop", "rx-mode"})

RebuildVerifier == DirectRxVerifier

DeadlineVerifier == DirectRxVerifier

(* Only the consumer's and the origin report are looked at.                *)
OriginVerifier ==
  Verifier(ConsumerFiles \union RxModeFiles \union {"rx-origin"}, {"consumer", "rx-origin"},
           {"rx-origin"}, {}, {}, {"rx-origin"})

OriginFreeVerifier == [OriginVerifier EXCEPT !.sums = TRUE]

(* Two archives a host, taken together here.                               *)
CleanupVerifier ==
  LET storages == {"net0-storage", "net0-incremental-storage", "net0-payload-storage"}
      links == {"net0-cleanup-link", "net0-cleanup-fault-link"}
  IN  [Verifier(storages \union links, storages \union links, storages \union links, {}, {},
                storages \union links) EXCEPT !.copy = TRUE]

(* The reports come from a local directory: what GitHub lists of an        *)
(* archive's digest and members is not compared with them, but their       *)
(* resource dimensions are, with the local report's.                       *)
PbufVerifier ==
  LET reports == {"net0-storage", "net0-incremental-storage", "net0-payload-storage"}
  IN  [Verifier(reports, reports, reports, {}, {}, reports)
        EXCEPT !.copy = TRUE, !.listed = FALSE, !.download = FALSE]

TrafficVerifier == PbufVerifier

Verifiers == {"transitive-link", "host-tx", "rx-stop", "direct-rx", "rx-rebuild", "rx-deadline",
              "rx-origin", "rx-origin-free", "user-cleanup", "pbuf-epoch", "traffic-storage"}

VerifierOf(name) ==
  CASE name = "transitive-link" -> TransitiveVerifier [] name = "host-tx" -> HostTxVerifier
    [] name = "rx-stop" -> RxStopVerifier     [] name = "direct-rx" -> DirectRxVerifier
    [] name = "rx-rebuild" -> RebuildVerifier [] name = "rx-deadline" -> DeadlineVerifier
    [] name = "rx-origin" -> OriginVerifier   [] name = "rx-origin-free" -> OriginFreeVerifier
    [] name = "user-cleanup" -> CleanupVerifier [] name = "pbuf-epoch" -> PbufVerifier
    [] name = "traffic-storage" -> TrafficVerifier

-----------------------------------------------------------------------------
(* One host's archive by itself.                                           *)
SameElf(a, reports) == \A r, s \in reports : a.elf[r] = a.elf[s]

ArchiveAccepted(v, a) ==
  /\ a.source
  /\ v.download => a.digest /\ a.members = v.members
  /\ a.failing \intersect v.passing = {} /\ a.off \intersect v.pinned = {}
  /\ "consumer" \in v.members => a.flags /\ a.lock
  /\ \A group \in v.same : SameElf(a, group)
  /\ \A pair \in v.other : ~SameElf(a, pair)

(* And against the hosts before it: the reference is the last one's.       *)
Shape(v, a) == [r \in v.parity |-> a.shape[r]]

(* Mutant: the reports of one host are not compared with the others'.      *)
ParityUnchecked(v, a, reference) == TRUE
Parity(v, a, reference) == reference = <<>> \/ reference = <<Shape(v, a)>>
=============================================================================
