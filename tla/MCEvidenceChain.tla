-------------------------- MODULE MCEvidenceChain --------------------------
(***************************************************************************)
(* The evidence chain on the logs a board prints when all is well, each    *)
(* once with one flaw: a line missing, a wrong word, a panic, a line       *)
(* received joined to other text, cut, or last in the log, a line twice,   *)
(* or the log ending early.                                                *)
(***************************************************************************)
EXTENDS EvidenceChain

L(m, v) == [m |-> m, v |-> v, shape |-> "whole"]
When(condition, lines) == IF condition THEN lines ELSE <<>>
Zeros(n) == [i \in 1 .. n |-> 0]

(* What a station prints; asked may name more than the tool's flags:       *)
(* "cleanup", "route" and "origin" are lines every such firmware prints.   *)
Before(asked) ==
  When("cleanup" \in asked, <<L("RFDBG_NET0_USER_CLEANUP", Zeros(10))>>)
  \o When("hosttx" \in asked, <<L("RFDBG_NET0_HOST_TX", <<2, 2, 0, 0, 1, 0, 0, 0, 0>>)>>)
  \o When("rxstop" \in asked, <<L("RFDBG_NET0_RX_STOP", <<1, 0, 0, 0, 0, 0, 0, 0, 0, 0, 5, 5>>)>>)
  \o When("rebuild" \in asked, <<L("RFDBG_NET0_RX_REBUILD",
                                  [i \in 1 .. 16 |-> IF i \in {12, 13} THEN 255 ELSE 0])>>)
  \o When("delivery" \in asked, <<L(DeliveryPhases[1], Zeros(9)),
                                 L(DeliveryPhases[2], <<4, 4, 0, 0, 1, 4, 0, 0, 0>>)>>)

After(asked, code) ==
  When("delivery" \in asked, <<L(DeliveryPhases[3], <<5, 5, 0, 0, 1, 5, 0, 0, 0>>)>>)
  \o When("cleanup" \in asked,
          <<L("RFDBG_NET0_USER_CLEANUP", <<1, 1, 0, 1, 0, code, 0, 1, code, code>>)>>)
  \o When("hosttx" \in asked, <<L("RFDBG_NET0_HOST_TX", <<9, 8, 1, 0, 2, 0, 0, 1, 0>>)>>)
  \o When("rxstop" \in asked, <<L("RFDBG_NET0_RX_STOP", <<1, 1, 1, 1, 1, 7, 0, 1, 0, 0, 5, 5>>)>>)
  \o When("rebuild" \in asked,
          <<L("RFDBG_NET0_RX_REBUILD", <<1, 1, 4, 4, 8, 4, 4, 8>> \o Zeros(8))>>)

Origin(n, bound) == <<L(OriginPhase(Phases[n]), <<bound, 0, 0, 16, bound, 0, bound, 0, 0, 0, 1, 0>>),
                      L(FreePhase(Phases[n]), <<bound, 0>>)>>

Good(asked) ==
  LET origin(n) == When("origin" \in asked, Origin(n, 3 * (n - 1)))
      session == "session" \in asked
      fault == "fault" \in asked
  IN  Before(asked) \o origin(1) \o <<L("RFDBG_A5B_CONNECT_OK", <<>>)>> \o origin(2)
      \o When(session, <<L("RFDBG_NET0_INITIAL_SESSION_OPEN", <<>>),
                         L("RFDBG_NET0_PAYLOAD", ExactPayload), L("RFDBG_NET0_PAYLOAD_OK", <<>>)>>)
      \o When("route" \in asked, <<L("RFDBG_NET0_ROUTE", <<10, 8, 1, 1>>)>>)
      \o When("bound" \in asked, <<L("RFDBG_NET0_BOUND_CLOSED", <<>>)>>)
      \o origin(3) \o After(asked, IF fault THEN 100 ELSE 0) \o origin(4)
      \o IF fault
         THEN <<L("RFDBG_A5B_DISCONNECT_ERR", <<InjectedFault>>),
                L("RFDBG_A5B_DISCONNECT_ERR_TRACE", <<100>>),
                L("RFDBG_NET0_CLEANUP_FAULT_REJECTED", <<>>)>>
         ELSE <<L("RFDBG_A5B_DISCONNECT_OK", <<>>)>>
              \o When(session, <<L("RFDBG_NET0_INITIAL_SESSION_CLOSED", <<>>)>>)
              \o <<L("RFDBG_A5B_CONNECT_PROFILE_OK", <<>>)>>

-----------------------------------------------------------------------------
(* A run: what is printed, and from which line on it is wrong.             *)
Run(log, from) == [log |-> log, from |-> from]
Never == 99
Sound(log) == Run(log, Never)

(* The word whose change is an error, for each marker with words.          *)
Judged(m) ==
  CASE m \in {"RFDBG_NET0_HOST_TX", "RFDBG_NET0_RX_REBUILD"} \union ToSet(DeliveryPhases) -> 9
    [] m \in {"RFDBG_NET0_PAYLOAD", "RFDBG_NET0_ROUTE"} -> 2
    [] m \in PhaseLines -> 12
    [] OTHER -> 1

WrongWord(log) ==
  {Run([log EXCEPT ![k].v[Judged(log[k].m)] = @ + 1], k) : k \in {k \in DOMAIN log : log[k].v # <<>>}}
Missing(log) == {Run(RemoveAt(log, k), 0) : k \in {k \in DOMAIN log : log[k].m # "RFDBG_NET0_ROUTE"}}
Panic(log) == {Run(InsertAt(log, k, L("PANIC", <<>>)), k) : k \in {1, Len(log), Len(log) + 1}}
Twice(log) == {Run(InsertAt(log, k, log[k]), k + 1) : k \in {k \in DOMAIN log : log[k].m = "RFDBG_A5B_CONNECT_OK"}}
Joined(log) == {Sound([log EXCEPT ![k].shape = "joined"]) : k \in DOMAIN log}
Cut(log) == {Sound([log EXCEPT ![k].shape = "cut", ![k].v = <<>>]) : k \in DOMAIN log}
Stopped(log) == {Run(SubSeq(log, 1, k), 0) : k \in 0 .. Len(log) - 1}
Ending(log) == {Sound([log EXCEPT ![Len(log)].shape = "last"])}

Flawed(log) ==
  WrongWord(log) \union Missing(log) \union Panic(log) \union Twice(log) \union Joined(log)
  \union Cut(log) \union Stopped(log) \union Ending(log)

(* A few of them, for tools that judge by the same definitions.            *)
Sample(log) == Panic(log) \union Twice(log) \union Ending(log) \union {Run(Tail(log), 0)}

-----------------------------------------------------------------------------
NoCase == [of |-> "none", class |-> "", requested |-> 0, negative |-> FALSE, wrong |-> FALSE,
           digest |-> "", flag |-> 0]
NoCi == [source |-> TRUE, status |-> "completed", conclusion |-> "success", jobs |-> TRUE]

(* A capture of runs rs with the tool.                                     *)
Job(name, asked, rs) ==
  [job |-> "capture", tool |-> name, ask |-> asked, role |-> "sta", runs |-> Len(rs), exists |-> FALSE,
   fault |-> "none", logs |-> [i \in DOMAIN rs |-> rs[i].log], peer |-> <<L("RFDBG_SOFTAP_READY", <<>>)>>,
   wrongFrom |-> [i \in DOMAIN rs |-> rs[i].from], case |-> NoCase, bad |-> "none",
   verifier |-> "", archives |-> <<>>, ci |-> NoCi, listed |-> TRUE, copied |-> TRUE]

Of(name, class, n) == [NoCase EXCEPT !.of = name, !.class = class, !.requested = n]

SessionAsk == {"flash", "session", "bound"}
AskOf(name) ==
  CASE name = "initial-session" -> SessionAsk
    [] name = "user-cleanup" -> SessionAsk
    [] name = "host-tx" -> SessionAsk \union {"hosttx"}
    [] name \in {"rx-stop", "direct-rx", "stop-scope", "handshake-admission"} ->
         SessionAsk \union {"hosttx", "rxstop"}
    [] OTHER -> SessionAsk \union {"hosttx", "rxstop", "rebuild"}

Printed(name) ==
  CASE name = "initial-session" -> {"route"}
    [] name = "user-cleanup" -> {"route", "cleanup"}
    [] name \in {"rx-origin", "rx-origin-free"} -> {"cleanup", "origin"}
    [] OTHER -> {"cleanup"}

ToolOf(name) == IF name \in {"rx-deadline", "rx-origin", "rx-origin-free"} THEN "rx-rebuild" ELSE name
GoodOf(name) == Good(AskOf(name) \union Printed(name))
Collectors == {"initial-session", "user-cleanup", "host-tx", "rx-stop", "direct-rx", "stop-scope",
               "handshake-admission", "rx-rebuild", "rx-deadline", "rx-origin", "rx-origin-free"}

Collectable(name, class, rs) ==
  [Job(ToolOf(name), AskOf(name), rs) EXCEPT !.case = Of(name, class, Len(rs))]

(* One run with every flaw, for the tools whose definitions differ.        *)
OneRun ==
  UNION {{Collectable(name, "accepted", <<r>>) : r \in Flawed(GoodOf(name))}
         \union {Collectable(name, "rejected", <<r>>) : r \in Sample(GoodOf(name))} :
         name \in {"rx-stop", "rx-rebuild"}}
  \union UNION {{Collectable(name, "", <<r>>) : r \in Flawed(GoodOf(name))} :
         name \in {"initial-session", "host-tx"}}
  \union UNION {
    LET asked == AskOf("user-cleanup") \union fault
    IN  {[Collectable("user-cleanup", "", <<r>>) EXCEPT !.ask = asked, !.case.negative = fault # {}] :
         r \in Flawed(Good(asked \union {"route", "cleanup"}))
               \union {Sound(Good(AskOf("user-cleanup") \union {"cleanup"}))}} :
    fault \in SUBSET {"fault"}}

(* Two runs, the second flawed, or the first; a kill, or all well; the     *)
(* collector at any moment, and a second time.                             *)
TwoRuns ==
  UNION {
    LET good == Sound(GoodOf(name))
    IN  {Collectable(name, class, <<good, r>>) : r \in Sample(GoodOf(name)), class \in {"accepted", "partial-matrix-failure"}}
        \union {Collectable(name, "rejected", <<r, good>>) : r \in Sample(GoodOf(name))}
        \union {[Collectable(name, "accepted", <<good, good>>) EXCEPT !.fault = fault, !.ask = @ \union {"peer"}] :
                fault \in {"none", "flood", "raise", "kill", "peer"}} :
    name \in {"stop-scope", "handshake-admission", "rx-deadline"}}

(* The receive-origin collectors: three rounds, and their own lines.       *)
OriginRuns ==
  LET log == GoodOf("rx-origin")
      good == Sound(log)
      own == {k \in DOMAIN log : log[k].m \in PhaseLines \union {FreePhase(Phases[i]) : i \in 1 .. 4}}
      one(r) == <<good, good, r>>
      origin(rs) == Collectable("rx-origin", "failed-origin-preflight", rs)
      free(rs) == Collectable("rx-origin-free", "observation-only-preflight", rs)
  IN  UNION {{origin(one(r)), free(one(r))} : r \in {good} \union Panic(log)}
      \union UNION {{origin(<<r>>), free(<<r>>)} : r \in Panic(log)}
      \union {origin(one(Run([log EXCEPT ![k].v[12] = 1], k))) : k \in {k \in own : Len(log[k].v) = 12}}
      \union {free(one(Sound([log EXCEPT ![k].v[1] = @ + 1]))) : k \in own}
      \union {free(one(Sound([log EXCEPT ![k].shape = "cut"]))) : k \in own}
      \union {origin(<<good, good>>)}

(* The changed ELFs, and the case captured with a threshold the firmware   *)
(* never reached.                                                          *)
Negatives ==
  LET silent == Run(<<L("RFDBG_SOFTAP_READY", <<>>)>>, 0)
      log == SelectSeq(GoodOf("rx-rebuild"),
                       LAMBDA l : l.m \notin {"RFDBG_A5B_DISCONNECT_OK", "RFDBG_NET0_INITIAL_SESSION_CLOSED"})
      last == CHOOSE k \in DOMAIN log : log[k].m = "RFDBG_NET0_RX_REBUILD" /\ log[k].v[1] = 1
      refused == [log EXCEPT ![last].v = <<1, 1, 4, 4, 8>> \o Zeros(10) \o <<-4134>>]
      tx == SelectSeq(GoodOf("host-tx"), LAMBDA l : l.m # "RFDBG_NET0_BOUND_CLOSED")
  IN  {[Collectable("direct-rx", "rejected", <<r>>) EXCEPT !.case.digest = "negative", !.case.flag = flag] :
         r \in {silent, Sound(GoodOf("direct-rx"))}, flag \in {0, 1}}
      \union {[Collectable("rx-rebuild", "rejected", <<r>>) EXCEPT !.case.digest = "negative"] :
              r \in {Run(refused, 0), Run(log, 0), Sound(GoodOf("rx-rebuild"))}}
      \union {[Collectable("host-tx", "", <<Run(tx, 0)>>) EXCEPT !.case.wrong = TRUE]}

(* Every input a collector checks, wrong at its first or second collection. *)
WrongInputs ==
  UNION {LET m == MainOf(Of(name, "", 1))
         IN  {[Collectable(name, "accepted", [i \in 1 .. (IF name = "rx-origin" THEN 3 ELSE 1) |-> Sound(GoodOf(name))])
                EXCEPT !.bad = input, !.fault = "none"] :
              input \in m.before \union m.each \union m.between \union m.after} :
         name \in Collectors}

(* The tools whose captures were not collected, and refused arguments.     *)
Access == <<L("RFDBG_SOFTAP_READY", <<>>)>>
Booted == <<L("A5U_TASK_STACK_ADMISSION_OK", <<>>), L("RFDBG_BOOTSTRAP_PROFILE_OK", <<>>)>>
Uncollected ==
  {[Job("storage", {"flash"}, <<r, Sound(Booted)>>) EXCEPT !.peer = peer, !.exists = exists, !.fault = fault] :
     r \in {Sound(Booted)} \union Panic(Booted) \union Missing(Booted), peer \in {<<>>, Booted},
     exists \in BOOLEAN, fault \in {"none", "flash"}}
  \union {[Job(name, {"flash"}, <<r, r>>) EXCEPT !.role = "ap", !.exists = exists] :
          name \in {"control", "bound-control"}, r \in {Sound(Access)} \union Panic(Access), exists \in BOOLEAN}
  \union {[Job(name, asked, <<r>>) EXCEPT !.role = role, !.fault = fault] :
          name \in {"control", "bound-control", "host-delivery"},
          asked \in {{}, {"flash"}, {"bound"}, {"flash", "bound", "delivery"}},
          role \in {"sta", "ap"}, fault \in {"none", "flash"},
          r \in {Sound(Good({"bound", "delivery"}))}}
  \union {Job("host-delivery", {"delivery"}, <<r>>) : r \in Flawed(Good({"delivery"}))}
  \union {[Job(name, asked, <<Sound(Good(SessionAsk))>>) EXCEPT !.role = role, !.fault = fault] :
          name \in {"traffic-storage", "pbuf-epoch"},
          asked \in {{"session"}, {"session", "delivery"}, {"session", "bound", "peer"}, {"fault"}},
          role \in {"sta", "ap"}, fault \in {"none", "peer", "flood", "kill"}}
  \union {Job("rx-rebuild", {"rebuild"}, <<Sound(<<>>)>>)}

-----------------------------------------------------------------------------
(* Three good archives, or one with one thing wrong on one host.           *)
Reports == ConsumerFiles \union RxModeFiles \union {"rx-origin"} \union CleanupVerifier.members
Elf(r) == IF r \in {"rx-stop", "rx-mode"} THEN "experiment" ELSE "normal"
Archive(v) == [digest |-> TRUE, source |-> TRUE, members |-> v.members, failing |-> {}, flags |-> TRUE,
               lock |-> TRUE, off |-> {}, elf |-> [r \in Reports |-> Elf(r)],
               shape |-> [r \in Reports |-> "same"]]

Spoiled(v) ==
  LET a == Archive(v)
      r == CHOOSE r \in v.parity : TRUE
  IN  {[a EXCEPT !.digest = FALSE], [a EXCEPT !.source = FALSE], [a EXCEPT !.members = @ \ {r}],
       [a EXCEPT !.failing = {r}], [a EXCEPT !.flags = FALSE], [a EXCEPT !.lock = FALSE],
       [a EXCEPT !.off = {r}], [a EXCEPT !.shape[r] = "other"], [a EXCEPT !.elf["storage"] = "other"],
       [a EXCEPT !.elf["rx-stop"] = "normal"]}

Downloads ==
  UNION {
    LET v == VerifierOf(name)
        job == [Job("", {}, <<>>) EXCEPT !.job = "downloads", !.verifier = name,
                                         !.archives = [h \in 1 .. 3 |-> Archive(v)]]
    IN  {job, [job EXCEPT !.ci.source = FALSE], [job EXCEPT !.ci.conclusion = "failure"],
         [job EXCEPT !.ci.jobs = FALSE], [job EXCEPT !.listed = FALSE], [job EXCEPT !.copied = FALSE]}
        \union {[job EXCEPT !.archives[h] = a] : h \in 1 .. 3, a \in Spoiled(v)} :
    name \in Verifiers}

(* The experiment whose verifier writes into the collector's directory.    *)
Shared ==
  LET v == VerifierOf("rx-origin-free")
      log == GoodOf("rx-origin-free")
  IN  {[Collectable("rx-origin-free", "observation-only-preflight", <<Run(Tail(log), 0)>>)
         EXCEPT !.verifier = "rx-origin-free", !.archives = [h \in 1 .. 3 |-> Archive(v)]]}

MCOptions == Shared \union OneRun \union TwoRuns \union OriginRuns \union Negatives \union WrongInputs
             \union Uncollected \union Downloads
=============================================================================
