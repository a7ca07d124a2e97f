----------------------- MODULE ConnectivityMatrixProofs -----------------------
(***************************************************************************)
(* For every set of command lines and whatever the boards print, when they *)
(* restart and how often the USB adapter disappears: a log that has seen   *)
(* its boot marker is of that boot, status 0 is about every run, a run     *)
(* that passes a contract proved all of it in the log that is on disk, and *)
(* the summary holds what those logs say.                                  *)
(***************************************************************************)
EXTENDS ConnectivityMatrix, FiniteSetTheorems, SequenceTheorems, WellFoundedInduction, TLAPS

-----------------------------------------------------------------------------
(* A set of naturals has a least element, and a finite one a greatest.     *)
LEMMA LeastNatural ==
  ASSUME NEW S \in SUBSET Nat, S # {}
  PROVE  \E x \in S : \A y \in S : x <= y
<1>1. PICK x \in S : \A y \in S : <<y, x>> \notin OpToRel(<, Nat)
  BY WFMin, NatLessThanWellFounded, Zenon
<1>2. \A y \in S : ~(y < x)
  BY <1>1, Zenon DEF OpToRel
<1>3. \A y \in S : x =< y
  BY <1>2
<1> QED
  BY <1>3

LEMMA GreatestNatural ==
  ASSUME NEW S \in SUBSET Nat, S # {}, IsFiniteSet(S)
  PROVE  \E x \in S : \A y \in S : y <= x
<1> DEFINE Greatest(T) == \E x \in T : \A y \in T : y <= x
           Counts == {Cardinality(T) : T \in {U \in SUBSET S : U # {} /\ ~Greatest(U)}}
<1>1. \A T \in SUBSET S : IsFiniteSet(T) /\ Cardinality(T) \in Nat
  BY FS_Subset, FS_CardinalityType
<1>2. SUFFICES ASSUME ~Greatest(S) PROVE FALSE
  OBVIOUS
<1>3. Cardinality(S) \in Counts /\ Counts \in SUBSET Nat
  BY <1>1, <1>2
<1>4. PICK n \in Counts : \A m \in Counts : n <= m
  <2> HIDE DEF Counts
  <2> QED
    BY <1>3, LeastNatural
<1>5. PICK T \in SUBSET S : T # {} /\ ~Greatest(T) /\ n = Cardinality(T)
  OBVIOUS
<1>6. PICK x : x \in T
  BY <1>5
<1> DEFINE rest == T \ {x}
<1>7. Cardinality(rest) < n /\ rest \in SUBSET S
  <2>1. Cardinality(rest) = Cardinality(T) - 1
    BY <1>1, <1>6, FS_RemoveElement
  <2> QED
    BY <1>1, <1>5, <2>1
<1>8. rest = {} \/ Greatest(rest)
  <2>1. Cardinality(rest) \notin Counts
    BY <1>1, <1>3, <1>4, <1>7
  <2> QED
    BY <1>7, <2>1
<1>9. CASE rest = {}
  <2>1. \A y \in T : y = x
    BY <1>9
  <2> QED
    BY <1>5, <1>6, <2>1
<1>10. CASE Greatest(rest)
  <2>1. PICK z \in rest : \A y \in rest : y <= z
    BY <1>10
  <2>2. \A y \in T : y = x \/ y \in rest
    OBVIOUS
  <2>3. x \in Nat /\ z \in Nat /\ z \in T /\ T \subseteq Nat
    BY <1>5, <1>6, <2>1
  <2>4. CASE z <= x
    <3>1. \A y \in T : y <= x
      BY <2>1, <2>2, <2>3, <2>4
    <3> QED
      BY <1>5, <1>6, <3>1
  <2>5. CASE x <= z
    <3>1. \A y \in T : y <= z
      BY <2>1, <2>2, <2>3, <2>5
    <3> QED
      BY <1>5, <2>3, <3>1
  <2> QED
    BY <2>3, <2>4, <2>5
<1> QED
  BY <1>8, <1>9, <1>10

(* A sequence of whatever its elements are.                                *)
IsSequence(s) == s \in Seq({s[i] : i \in DOMAIN s})

LEMMA SequenceLength ==
  ASSUME NEW s, IsSequence(s)
  PROVE  Len(s) \in Nat /\ DOMAIN s = 1 .. Len(s)
BY LenProperties DEF IsSequence

LEMMA AppendSequence ==
  ASSUME NEW s, IsSequence(s), NEW e
  PROVE  /\ IsSequence(Append(s, e)) /\ Len(Append(s, e)) = Len(s) + 1
         /\ Append(s, e)[Len(s) + 1] = e
         /\ \A i \in 1 .. Len(s) : Append(s, e)[i] = s[i]
<1> DEFINE S == {s[i] : i \in DOMAIN s} \union {e}
           t == Append(s, e)
<1>1. s \in Seq(S)
  BY SeqMonotonic DEF IsSequence
<1>2. /\ t \in Seq(S) /\ Len(t) = Len(s) + 1 /\ t[Len(s) + 1] = e
      /\ \A i \in 1 .. Len(s) : t[i] = s[i]
  BY <1>1, AppendProperties
<1>3. t \in [1 .. Len(t) -> S] /\ Len(t) \in Nat /\ DOMAIN t = 1 .. Len(t)
  BY <1>2, LenProperties
<1>4. t \in [1 .. Len(t) -> {t[i] : i \in DOMAIN t}]
  BY <1>3
<1>5. t \in Seq({t[i] : i \in DOMAIN t})
  BY <1>3, <1>4, SeqDef
<1> QED
  BY <1>2, <1>5 DEF IsSequence

LEMMA NoRows == IsSequence(<<>>) /\ Len(<<>>) = 0
BY EmptySeq DEF IsSequence

-----------------------------------------------------------------------------
Received == Printed \union {[l EXCEPT !.stale = TRUE] : l \in Printed}

-----------------------------------------------------------------------------
(* What arrives.                                                           *)
LEMMA MarkedStale ==
  ASSUME NEW l \in Printed
  PROVE  LET s == [l EXCEPT !.stale = TRUE]
         IN  s.m = l.m /\ s.stale = TRUE /\ [s EXCEPT !.stale = TRUE] = s
<1>1. "m" \in DOMAIN l /\ "stale" \in DOMAIN l
  BY ScriptsAssumption
<1> QED
  BY <1>1

LEMMA ReceivedLines ==
  /\ \A l \in Printed : l \in Received /\ ~l.stale
  /\ \A l \in Received : /\ [l EXCEPT !.stale = TRUE] \in Received
                         /\ [l EXCEPT !.stale = TRUE].m = l.m
                         /\ [l EXCEPT !.stale = TRUE].stale
<1>1. \A l \in Printed : l \in Received /\ ~l.stale
  BY ScriptsAssumption DEF Received
<1>2. ASSUME NEW l \in Received
      PROVE  /\ [l EXCEPT !.stale = TRUE] \in Received
             /\ [l EXCEPT !.stale = TRUE].m = l.m
             /\ [l EXCEPT !.stale = TRUE].stale
  <2>1. CASE l \in Printed
    BY <2>1, MarkedStale DEF Received
  <2>2. CASE \E p \in Printed : l = [p EXCEPT !.stale = TRUE]
    <3>1. PICK p \in Printed : l = [p EXCEPT !.stale = TRUE]
      BY <2>2
    <3>2. [l EXCEPT !.stale = TRUE] = l /\ l.stale = TRUE
      BY <3>1, MarkedStale
    <3> QED
      BY <3>2
  <2> QED
    BY <2>1, <2>2 DEF Received
<1> QED
  BY <1>1, <1>2

LEMMA LeastIndex ==
  ASSUME NEW S \in SUBSET Nat, S # {}
  PROVE  Min(S) \in S /\ \A i \in S : Min(S) <= i
BY LeastNatural DEF Min

(* From its first boot marker on, a log keeps its order and begins there.  *)
LEMMA BootLog ==
  ASSUME NEW lines \in Seq(Received), Has(lines, Boot)
  PROVE  \E first \in 1 .. Len(lines) :
           LET rest == CurrentBootLog(lines)
           IN  /\ lines[first].m = Boot
               /\ rest \in Seq(Received) /\ Len(rest) = Len(lines) - first + 1
               /\ \A i \in 1 .. Len(rest) : rest[i] = lines[first + i - 1]
<1> DEFINE boots == {i \in DOMAIN lines : lines[i].m = Boot}
           first == Min(boots)
<1>1. DOMAIN lines = 1 .. Len(lines) /\ Len(lines) \in Nat
  BY LenProperties
<1>2. boots # {} /\ boots \in SUBSET Nat
  BY <1>1 DEF Has
<1>3. first \in boots
  BY <1>2, LeastIndex
<1>4. CurrentBootLog(lines) = SubSeq(lines, first, Len(lines))
  BY <1>2 DEF CurrentBootLog
<1>5. first \in 1 .. Len(lines) /\ lines[first].m = Boot
  BY <1>1, <1>3
<1> HIDE DEF first, boots
<1>6. \A i \in first .. Len(lines) : lines[i] \in Received
  BY <1>1, <1>5, ElementOfSeq
<1>7. /\ SubSeq(lines, first, Len(lines)) \in Seq(Received)
      /\ Len(SubSeq(lines, first, Len(lines))) = Len(lines) - first + 1
      /\ \A i \in 1 .. Len(lines) - first + 1 :
           SubSeq(lines, first, Len(lines))[i] = lines[first + i - 1]
  BY <1>1, <1>5, <1>6, SubSeqProperties
<1> QED
  BY <1>1, <1>4, <1>5, <1>7

-----------------------------------------------------------------------------
(* What the capture read and has yet to read: bytes of an earlier boot come *)
(* first, and none of them is a boot marker unless that boot restarted.     *)
Capture(lines, mixed) ==
  /\ lines \in Seq(Received)
  /\ \A i, j \in 1 .. Len(lines) : i < j /\ lines[j].stale => lines[i].stale
  /\ ~mixed => \A i \in 1 .. Len(lines) : lines[i].m = Boot => ~lines[i].stale

(* Once the marker is seen the log starts with it, and not before.         *)
Marked(lines, seen) ==
  IF seen THEN Len(lines) > 0 /\ lines[1].m = Boot ELSE ~Has(lines, Boot)

LEMMA CaptureIsFresh ==
  ASSUME NEW mixed, NEW lines, Capture(lines, mixed), Marked(lines, TRUE)
  PROVE  StartsCurrent(lines, mixed)
BY LenProperties DEF Capture, Marked, StartsCurrent

(* Reading on: fresh lines arrive behind.                                  *)
LEMMA MoreLines ==
  ASSUME NEW lines, NEW mixed, Capture(lines, mixed), NEW more \in Seq(Printed)
  PROVE  Capture(lines \o more, mixed)
<1>1. /\ lines \in Seq(Received) /\ Len(lines) \in Nat
      /\ more \in Seq(Received) /\ Len(more) \in Nat
  BY LenProperties, SeqMonotonic, ReceivedLines DEF Capture
<1>2. \A i \in 1 .. Len(more) : ~more[i].stale
  BY ElementOfSeq, ReceivedLines
<1>3. /\ lines \o more \in Seq(Received)
      /\ Len(lines \o more) = Len(lines) + Len(more)
      /\ \A i \in 1 .. Len(lines) + Len(more) :
           (lines \o more)[i] = IF i <= Len(lines) THEN lines[i]
                                ELSE more[i - Len(lines)]
  BY <1>1, ConcatProperties
<1> DEFINE all == lines \o more
<1>4. \A i \in 1 .. Len(all) : all[i].stale => i <= Len(lines) /\ all[i] = lines[i]
  BY <1>1, <1>2, <1>3
<1>5. \A i \in 1 .. Len(all) :
        \/ i <= Len(lines) /\ i \in 1 .. Len(lines) /\ all[i] = lines[i]
        \/ i > Len(lines) /\ ~all[i].stale
  BY <1>1, <1>2, <1>3
<1> HIDE DEF all
<1>6. \A i, j \in 1 .. Len(all) : i < j /\ all[j].stale => all[i].stale
  <2> TAKE i, j \in 1 .. Len(all)
  <2> HAVE i < j /\ all[j].stale
  <2>1. j \in 1 .. Len(lines) /\ all[j] = lines[j]
    BY <1>5
  <2>2. i \in 1 .. Len(lines) /\ all[i] = lines[i]
    BY <1>1, <1>5, <2>1
  <2> QED
    BY <2>1, <2>2 DEF Capture
<1>7. ~mixed => \A i \in 1 .. Len(all) : all[i].m = Boot => ~all[i].stale
  BY <1>5 DEF Capture
<1> QED
  BY <1>3, <1>6, <1>7 DEF Capture, all

(* What is kept of the log after a chunk.                                  *)
LEMMA Kept ==
  ASSUME NEW lines, NEW mixed, Capture(lines, mixed), NEW seen \in BOOLEAN,
         seen => Marked(lines, TRUE)
  PROVE  LET kept == KeptLog(lines, seen)
         IN  Capture(kept, mixed) /\ Marked(kept, seen \/ Has(kept, Boot))
<1> DEFINE kept == KeptLog(lines, seen)
<1>0. Len(lines) \in Nat /\ DOMAIN lines = 1 .. Len(lines)
  BY LenProperties DEF Capture
<1>1. CASE seen
  BY <1>1 DEF KeptLog, Marked
<1>2. CASE ~seen /\ ~Has(lines, Boot)
  <2>1. kept = lines
    BY <1>2 DEF KeptLog, CurrentBootLog, Has
  <2> QED
    BY <1>2, <2>1 DEF Marked
<1>3. CASE ~seen /\ Has(lines, Boot)
  <2>1. kept = CurrentBootLog(lines)
    BY <1>3 DEF KeptLog
  <2>2. PICK first \in 1 .. Len(lines) :
          /\ lines[first].m = Boot
          /\ kept \in Seq(Received) /\ Len(kept) = Len(lines) - first + 1
          /\ \A i \in 1 .. Len(kept) : kept[i] = lines[first + i - 1]
    BY <1>3, <2>1, BootLog DEF Capture
  <2> HIDE DEF kept
  <2>3. /\ Len(kept) \in Nat /\ Len(kept) > 0 /\ kept[1].m = Boot
        /\ DOMAIN kept = 1 .. Len(kept)
    BY <1>0, <2>2, LenProperties
  <2>4. \A i \in 1 .. Len(kept) : first + i - 1 \in 1 .. Len(lines)
    BY <1>0, <2>2
  <2>5. \A i, j \in 1 .. Len(kept) : i < j /\ kept[j].stale => kept[i].stale
    <3> TAKE i, j \in 1 .. Len(kept)
    <3>1. i < j => first + i - 1 < first + j - 1
      BY <2>2
    <3> QED
      BY <2>2, <2>4, <3>1 DEF Capture
  <2>6. ~mixed => \A i \in 1 .. Len(kept) : kept[i].m = Boot => ~kept[i].stale
    BY <2>2, <2>4 DEF Capture
  <2> QED
    BY <2>2, <2>3, <2>5, <2>6 DEF Capture, Marked, Has, kept
<1> QED
  BY <1>1, <1>2, <1>3

(* nRST: what was unread is of an earlier boot from here on.               *)
LEMMA Resets ==
  ASSUME NEW lines \in Seq(Received), NEW mixed \in BOOLEAN,
         ~mixed => ~Has(lines, Boot)
  PROVE  LET old == [i \in DOMAIN lines |-> [lines[i] EXCEPT !.stale = TRUE]]
         IN  old \in Seq(Received) /\ Capture(<<>> \o old, mixed)
<1> DEFINE old == [i \in DOMAIN lines |-> [lines[i] EXCEPT !.stale = TRUE]]
<1>1. DOMAIN lines = 1 .. Len(lines) /\ Len(lines) \in Nat
  BY LenProperties
<1>2. \A i \in 1 .. Len(lines) : lines[i] \in Received
  BY ElementOfSeq
<1>3. \A i \in 1 .. Len(lines) :
        old[i] \in Received /\ old[i].m = lines[i].m /\ old[i].stale
  BY <1>1, <1>2, ReceivedLines
<1>4. old \in [1 .. Len(lines) -> Received]
  BY <1>1, <1>3
<1>5. old \in Seq(Received) /\ Len(old) = Len(lines)
  BY <1>1, <1>4, SeqDef, LenProperties
<1>6. <<>> \o old = old
  BY <1>5, ConcatEmptySeq
<1> QED
  BY <1>1, <1>3, <1>5, <1>6 DEF Capture, Has

-----------------------------------------------------------------------------
(* While the ports are cleared and the boards are reset, an unread boot     *)
(* marker means that the target restarted; from nRST on, log and unread     *)
(* input together are one capture.                                          *)
Pulsing == {"peerPulse", "settle", "pulse"}
Capturing == {"loop", "write"}

PortInv ==
  /\ left \in Seq(Seq(Printed)) /\ rx \in Seq(Received)
  /\ pc \in Pulsing /\ ~staleBoot => ~Has(rx, Boot)
  /\ pc \in Capturing =>
       /\ log \in Seq(Received)
       /\ Capture(log \o rx, staleBoot)
       /\ Marked(log, bootSeen)

CountInv == TypeOK /\ (reconnects > MaxReconnects => pc = "exit")

FilesInv ==
  /\ IsSequence(disk)
  /\ opt \in Options
  /\ ~opt.analyze => \A i \in DOMAIN disk :
       disk[i].booted => StartsCurrent(disk[i].log, disk[i].mixed)

FreshInv == PortInv /\ CountInv /\ FilesInv

(* The bytes of a log are the first of its capture.                        *)
LEMMA LogOfCapture ==
  ASSUME NEW lines \in Seq(Received), NEW unread \in Seq(Received), NEW mixed,
         Capture(lines \o unread, mixed)
  PROVE  Capture(lines, mixed)
<1>1. Len(lines) \in Nat /\ Len(unread) \in Nat
  BY LenProperties
<1>2. /\ Len(lines \o unread) = Len(lines) + Len(unread)
      /\ \A i \in 1 .. Len(lines) + Len(unread) :
           (lines \o unread)[i] = IF i <= Len(lines) THEN lines[i]
                                  ELSE unread[i - Len(lines)]
  BY ConcatProperties
<1>3. \A i \in 1 .. Len(lines) :
        i \in 1 .. Len(lines \o unread) /\ (lines \o unread)[i] = lines[i]
  BY <1>1, <1>2
<1> QED
  BY <1>3 DEF Capture

LEMMA CapturedMarked ==
  ASSUME NEW lines \in Seq(Received), NEW unread \in Seq(Received),
         Marked(lines, TRUE)
  PROVE  Marked(lines \o unread, TRUE)
<1>1. Len(lines) \in Nat /\ Len(unread) \in Nat
  BY LenProperties
<1>2. /\ Len(lines \o unread) = Len(lines) + Len(unread)
      /\ \A i \in 1 .. Len(lines) + Len(unread) :
           (lines \o unread)[i] = IF i <= Len(lines) THEN lines[i]
                                  ELSE unread[i - Len(lines)]
  BY ConcatProperties
<1> QED
  BY <1>1, <1>2 DEF Marked

LEMMA CountInvInit == Init => CountInv
<1> SUFFICES ASSUME Init PROVE CountInv
  OBVIOUS
<1>1. /\ pc = "args" /\ run = 1 /\ status = "none" /\ reconnects = 0
      /\ bootSeen \in BOOLEAN /\ terminal \in BOOLEAN /\ staleBoot \in BOOLEAN
  BY Zenon DEF Init
<1> QED
  BY <1>1 DEF CountInv, TypeOK, MaxReconnects

LEMMA CountInvNext == CountInv /\ [Next]_vars => CountInv'
<1> SUFFICES ASSUME CountInv, [Next]_vars PROVE CountInv'
  OBVIOUS
<1> USE DEF CountInv, TypeOK, MaxReconnects, Raise
<1>1. CASE Start
  <2>1. /\ pc' \in {"analyze", "ready", "exit"} /\ status' \in {status, "usage"}
        /\ UNCHANGED <<run, bootSeen, terminal, staleBoot, reconnects>>
    BY <1>1 DEF Start, attempt, port
  <2>2. reconnects <= 3
    BY <1>1 DEF Start
  <2> QED
    BY <2>1, <2>2
<1>2. CASE ResetInput \/ PulsePeer \/ SettleElapsed \/ PulseTarget \/ Reopen
  <2>1. bootSeen' \in BOOLEAN /\ terminal' \in BOOLEAN /\ staleBoot' \in BOOLEAN
    BY <1>2, Zenon DEF ResetInput, PulsePeer, SettleElapsed, PulseTarget, Reopen,
                       attempt, port
  <2>2. /\ pc' \in {"peerPulse", "settle", "pulse", "loop"}
        /\ UNCHANGED <<run, status>> /\ reconnects' \in {0, reconnects}
    BY <1>2 DEF ResetInput, PulsePeer, SettleElapsed, PulseTarget, Reopen, results
  <2>3. pc # "exit"
    BY <1>2 DEF ResetInput, PulsePeer, SettleElapsed, PulseTarget, Reopen
  <2> QED
    BY <2>1, <2>2, <2>3
<1>3. CASE DeadlinePassed \/ PostTerminalElapsed
  BY <1>3 DEF DeadlinePassed, PostTerminalElapsed, LoopEnds, attempt, results, port
<1>4. CASE DrainPeer
  BY <1>4 DEF DrainPeer, attempt, results, port
<1>5. CASE Read
  <2>1. bootSeen' \in BOOLEAN /\ terminal' \in BOOLEAN
    BY <1>5, Zenon DEF Read
  <2>2. UNCHANGED <<pc, run, staleBoot, reconnects, status>>
    BY <1>5, Zenon DEF Read, results
  <2> QED
    BY <2>1, <2>2
<1>6. CASE PulseFails \/ DrainFails \/ ReopenFails
  BY <1>6 DEF PulseFails, DrainFails, ReopenFails, attempt, port
<1>7. CASE ReadFails
  BY <1>7 DEF ReadFails, attempt, port
<1>8. CASE RecordRun
  <2>1. bootSeen' \in BOOLEAN /\ terminal' \in BOOLEAN /\ staleBoot' \in BOOLEAN
    BY <1>8, Zenon DEF RecordRun, port
  <2>2. /\ pc = "record" /\ pc' \in {"ready", "summarize"} /\ run' = run + 1
        /\ UNCHANGED <<reconnects, status>>
    BY <1>8 DEF RecordRun
  <2> QED
    BY <2>1, <2>2
<1>9. CASE AnalyzeRun
  BY <1>9 DEF AnalyzeRun, attempt, port
<1>10. CASE Summarize
  BY <1>10 DEF Summarize, attempt, port
<1>11. CASE TargetPrints \/ PeerPrints
  BY <1>11 DEF TargetPrints, PeerPrints, attempt, results, port
<1>12. CASE UNCHANGED vars
  BY <1>12 DEF vars, attempt, results, port
<1>13. CASE WriteRun
  BY <1>13 DEF WriteRun, attempt, port
<1> QED
  BY <1>1, <1>2, <1>3, <1>4, <1>5, <1>6, <1>7, <1>8, <1>9, <1>10, <1>11, <1>12, <1>13
     DEF Next, CaptureStep

LEMMA PortInvInit == Init => PortInv
<1> SUFFICES ASSUME Init PROVE PortInv
  OBVIOUS
<1>1. left \in Seq(Seq(Printed))
  BY ScriptsAssumption, EmptySeq DEF Init
<1>2. rx \in Seq(Received) /\ pc = "args"
  BY EmptySeq DEF Init
<1> QED
  BY <1>1, <1>2 DEF PortInv, Pulsing, Capturing

(* What a target prints next.                                              *)
LEMMA NextSegment ==
  ASSUME NEW s \in Seq(Seq(Printed)), s # <<>>
  PROVE  Head(s) \in Seq(Printed) /\ Head(s) \in Seq(Received)
         /\ Tail(s) \in Seq(Seq(Printed))
<1>1. Head(s) \in Seq(Printed) /\ Tail(s) \in Seq(Seq(Printed))
  BY HeadTailProperties
<1>2. Printed \subseteq Received
  BY ReceivedLines
<1> QED
  BY <1>1, <1>2, SeqMonotonic

LEMMA HasEither ==
  ASSUME NEW s \in Seq(Received), NEW t \in Seq(Received)
  PROVE  s \o t \in Seq(Received) /\ (Has(s \o t, Boot) => Has(s, Boot) \/ Has(t, Boot))
<1>1. /\ Len(s) \in Nat /\ DOMAIN s = 1 .. Len(s)
      /\ Len(t) \in Nat /\ DOMAIN t = 1 .. Len(t)
  BY LenProperties
<1>2. /\ s \o t \in Seq(Received) /\ Len(s \o t) = Len(s) + Len(t)
      /\ DOMAIN (s \o t) = 1 .. Len(s) + Len(t)
      /\ \A i \in 1 .. Len(s) + Len(t) :
           (s \o t)[i] = IF i <= Len(s) THEN s[i] ELSE t[i - Len(s)]
  BY ConcatProperties, LenProperties
<1>3. ASSUME NEW i \in 1 .. Len(s) + Len(t)
      PROVE  \/ i \in 1 .. Len(s) /\ (s \o t)[i] = s[i]
             \/ i - Len(s) \in 1 .. Len(t) /\ (s \o t)[i] = t[i - Len(s)]
  BY <1>1, <1>2
<1> QED
  BY <1>1, <1>2, <1>3 DEF Has

LEMMA PortInvPrints == PortInv /\ staleBoot \in BOOLEAN /\ TargetPrints => PortInv'
<1> SUFFICES ASSUME PortInv, staleBoot \in BOOLEAN, TargetPrints PROVE PortInv'
  OBVIOUS
<1> DEFINE more == Head(left)
           restart == pc \in Pulsing /\ Has(more, Boot)
<1>1. /\ left # <<>> /\ rx' = rx \o more /\ left' = Tail(left)
      /\ UNCHANGED <<pc, log, bootSeen>>
  BY Zenon DEF TargetPrints, attempt
<1>2. staleBoot' = (staleBoot \/ restart)
  BY Zenon DEF TargetPrints, Pulsing
<1>3. /\ left \in Seq(Seq(Printed)) /\ rx \in Seq(Received)
      /\ more \in Seq(Printed) /\ more \in Seq(Received)
      /\ left' \in Seq(Seq(Printed))
  BY <1>1, NextSegment DEF PortInv
<1>4. ~staleBoot' => ~staleBoot /\ ~restart
  BY <1>2, Zenon
<1>5. ~restart => staleBoot' = staleBoot
  <2>1. CASE staleBoot
    BY <1>2, <2>1, Zenon
  <2>2. CASE ~staleBoot
    BY <1>2, <2>2, Zenon
  <2> QED
    BY <2>1, <2>2
<1>6. restart => pc \in Pulsing
  OBVIOUS
<1>7. pc \in Pulsing /\ ~restart => ~Has(more, Boot)
  OBVIOUS
<1> HIDE DEF more, restart
<1>8. rx' \in Seq(Received) /\ (Has(rx', Boot) => Has(rx, Boot) \/ Has(more, Boot))
  BY <1>1, <1>3, HasEither
<1>9. pc' \in Pulsing /\ ~staleBoot' => ~Has(rx', Boot)
  <2> HAVE pc' \in Pulsing /\ ~staleBoot'
  <2>1. ~Has(more, Boot) /\ ~Has(rx, Boot)
    BY <1>1, <1>4, <1>7 DEF PortInv
  <2> QED
    BY <1>8, <2>1, Zenon
<1>10. ASSUME pc' \in Capturing
       PROVE  /\ log' \in Seq(Received)
              /\ Capture(log' \o rx', staleBoot')
              /\ Marked(log', bootSeen')
  <2>1. /\ pc \in Capturing /\ pc \notin Pulsing
        /\ log \in Seq(Received) /\ Capture(log \o rx, staleBoot)
        /\ Marked(log, bootSeen)
    BY <1>1, <1>10 DEF PortInv, Capturing, Pulsing
  <2>2. staleBoot' = staleBoot
    BY <1>5, <1>6, <2>1, Zenon
  <2>3. (log \o rx) \o more = log \o (rx \o more)
    BY <1>3, <2>1, ConcatAssociative
  <2>4. Capture((log \o rx) \o more, staleBoot)
    BY <1>3, <2>1, MoreLines
  <2> QED
    BY <1>1, <2>1, <2>2, <2>3, <2>4, Zenon
<1> QED
  BY <1>3, <1>8, <1>9, <1>10, Zenon DEF PortInv

LEMMA PortInvRead == PortInv /\ bootSeen \in BOOLEAN /\ Read => PortInv'
<1> SUFFICES ASSUME PortInv, bootSeen \in BOOLEAN, Read PROVE PortInv'
  OBVIOUS
<1>1. /\ pc = "loop" /\ rx' = <<>> /\ UNCHANGED <<pc, left, staleBoot>>
      /\ log' = IF rx = <<>> THEN log ELSE KeptLog(log \o rx, bootSeen)
      /\ bootSeen' = (bootSeen \/ Has(log', Boot))
  BY DEF Read
<1>2. /\ left \in Seq(Seq(Printed)) /\ rx \in Seq(Received)
      /\ log \in Seq(Received) /\ Capture(log \o rx, staleBoot)
      /\ Marked(log, bootSeen)
  BY <1>1 DEF PortInv, Capturing
<1>3. Capture(log', staleBoot) /\ Marked(log', bootSeen')
  <2>1. CASE rx = <<>>
    <3>1. log' = log /\ log \o rx = log
      BY <1>1, <1>2, <2>1, ConcatEmptySeq
    <3>2. bootSeen' = bootSeen
      <4>1. CASE bootSeen
        BY <1>1, <4>1, Zenon
      <4>2. CASE ~bootSeen
        <5>1. ~Has(log', Boot)
          BY <1>2, <3>1, <4>2, Zenon DEF Marked
        <5> QED
          BY <1>1, <4>2, <5>1, Zenon
      <4> QED
        BY <4>1, <4>2
    <3> QED
      BY <1>2, <3>1, <3>2, Zenon
  <2>2. CASE rx # <<>>
    <3>1. log' = KeptLog(log \o rx, bootSeen)
      BY <1>1, <2>2, Zenon
    <3>2. bootSeen => Marked(log \o rx, TRUE)
      <4>1. ASSUME bootSeen PROVE Marked(log, TRUE)
        BY <1>2, <4>1, Zenon DEF Marked
      <4> QED
        BY <1>2, <4>1, CapturedMarked
    <3>3. Capture(log', staleBoot) /\ Marked(log', bootSeen \/ Has(log', Boot))
      BY <1>2, <3>1, <3>2, Kept, Zenon
    <3> QED
      BY <1>1, <3>3, Zenon
  <2> QED
    BY <2>1, <2>2
<1>4. log' \in Seq(Received) /\ log' \o rx' = log'
  BY <1>1, <1>3, ConcatEmptySeq DEF Capture
<1>5. rx' \in Seq(Received) /\ pc' \notin Pulsing
  BY <1>1, EmptySeq DEF Pulsing
<1> QED
  BY <1>1, <1>2, <1>3, <1>4, <1>5, Zenon DEF PortInv

LEMMA PortInvPulse == PortInv /\ staleBoot \in BOOLEAN /\ PulseTarget => PortInv'
<1> SUFFICES ASSUME PortInv, staleBoot \in BOOLEAN, PulseTarget PROVE PortInv'
  OBVIOUS
<1>1. /\ pc = "pulse" /\ pc' = "loop" /\ left' \in Scripts
      /\ log' = <<>> /\ bootSeen' = FALSE
      /\ rx' = [i \in DOMAIN rx |-> [rx[i] EXCEPT !.stale = TRUE]]
      /\ staleBoot' = staleBoot
  BY Zenon DEF PulseTarget
<1>2. left' \in Seq(Seq(Printed))
  BY <1>1, ScriptsAssumption
<1>3. rx \in Seq(Received) /\ (~staleBoot => ~Has(rx, Boot))
  BY <1>1 DEF PortInv, Pulsing
<1>4. rx' \in Seq(Received) /\ Capture(<<>> \o rx', staleBoot)
  BY <1>1, <1>3, Resets, Zenon
<1>5. <<>> \in Seq(Received) /\ Marked(<<>>, FALSE)
  BY EmptySeq, LenProperties DEF Marked, Has
<1>6. pc' \notin Pulsing
  BY <1>1 DEF Pulsing
<1> QED
  BY <1>1, <1>2, <1>4, <1>5, <1>6, Zenon DEF PortInv

LEMMA PortInvNext == PortInv /\ CountInv /\ [Next]_vars => PortInv'
<1> SUFFICES ASSUME PortInv, CountInv, [Next]_vars PROVE PortInv'
  OBVIOUS
<1>0. bootSeen \in BOOLEAN /\ staleBoot \in BOOLEAN
  BY DEF CountInv, TypeOK
<1> USE DEF Pulsing, Capturing
(* The input is dropped.                                                   *)
<1>1. CASE ResetInput \/ Reopen
  <2>1. rx' = <<>> /\ left' = left /\ pc' \in Pulsing
    BY <1>1 DEF ResetInput, Reopen
  <2>2. rx' \in Seq(Received) /\ ~Has(rx', Boot)
    BY <2>1, EmptySeq, LenProperties DEF Has
  <2> QED
    BY <2>1, <2>2 DEF PortInv
<1>2. CASE TargetPrints
  BY <1>0, <1>2, PortInvPrints
<1>3. CASE Read
  BY <1>0, <1>3, PortInvRead
<1>4. CASE PulseTarget
  BY <1>0, <1>4, PortInvPulse
(* The port is left alone, and the capture is not begun.                   *)
<1>5. CASE Start \/ PulseFails \/ DrainFails \/ ReadFails \/ ReopenFails
           \/ WriteRun \/ RecordRun \/ AnalyzeRun \/ Summarize
  <2>1. rx' = rx /\ left' = left /\ pc' \notin Pulsing \cup Capturing
    BY <1>5 DEF Start, PulseFails, DrainFails, ReadFails, ReopenFails, WriteRun,
                RecordRun, AnalyzeRun, Summarize, Raise, port
  <2> QED
    BY <2>1 DEF PortInv
(* What the capture has read stays.                                        *)
<1>6. CASE \/ PulsePeer \/ SettleElapsed \/ DrainPeer \/ PeerPrints
           \/ DeadlinePassed \/ PostTerminalElapsed \/ UNCHANGED vars
  <2>1. UNCHANGED <<rx, left, log, bootSeen, staleBoot>>
    BY <1>6 DEF PulsePeer, SettleElapsed, DrainPeer, PeerPrints, DeadlinePassed,
                PostTerminalElapsed, LoopEnds, vars, port, attempt
  <2>2. /\ pc' \in Pulsing => pc \in Pulsing
        /\ pc' \in Capturing => pc \in Capturing
    BY <1>6 DEF PulsePeer, SettleElapsed, DrainPeer, PeerPrints, DeadlinePassed,
                PostTerminalElapsed, LoopEnds, vars
  <2> QED
    BY <2>1, <2>2 DEF PortInv
<1> QED
  BY <1>1, <1>2, <1>3, <1>4, <1>5, <1>6 DEF Next, CaptureStep

LEMMA FilesInvInit == Init => FilesInv
<1> SUFFICES ASSUME Init PROVE FilesInv
  OBVIOUS
<1>1. opt \in Options /\ disk = opt.files
  BY DEF Init
<1>2. disk \in Seq(ToSet(disk)) /\ (~opt.analyze => disk = <<>>)
  BY <1>1, OptionsAssumption
<1>3. IsSequence(disk)
  BY <1>2 DEF IsSequence, ToSet
<1>4. ~opt.analyze => DOMAIN disk = {}
  BY <1>2, EmptySeq, LenProperties
<1> QED
  BY <1>1, <1>3, <1>4 DEF FilesInv

LEMMA FilesInvNext == PortInv /\ CountInv /\ FilesInv /\ [Next]_vars => FilesInv'
<1> SUFFICES ASSUME PortInv, CountInv, FilesInv, [Next]_vars PROVE FilesInv'
  OBVIOUS
<1>1. CASE WriteRun
  <2> DEFINE entry == [log |-> log, peer |-> PeerOfRun,
                       booted |-> bootSeen, mixed |-> staleBoot]
  <2>1. pc = "write" /\ disk' = Append(disk, entry) /\ opt' = opt
    BY <1>1 DEF WriteRun
  <2>2. /\ IsSequence(disk') /\ Len(disk') = Len(disk) + 1
        /\ disk'[Len(disk) + 1] = entry
        /\ \A i \in 1 .. Len(disk) : disk'[i] = disk[i]
    BY <2>1, AppendSequence DEF FilesInv
  <2>3. /\ Len(disk) \in Nat /\ DOMAIN disk = 1 .. Len(disk)
        /\ DOMAIN disk' = 1 .. Len(disk')
    BY <2>2, SequenceLength DEF FilesInv
  <2>4. entry.booted => StartsCurrent(entry.log, entry.mixed)
    <3>1. /\ log \in Seq(Received) /\ rx \in Seq(Received)
          /\ Capture(log \o rx, staleBoot) /\ Marked(log, bootSeen)
      BY <2>1 DEF PortInv, Capturing
    <3>2. bootSeen => Marked(log, TRUE)
      BY <3>1 DEF Marked
    <3>3. bootSeen => StartsCurrent(log, staleBoot)
      BY <3>1, <3>2, LogOfCapture, CaptureIsFresh
    <3> QED
      BY <3>3
  <2> HIDE DEF entry
  <2>5. ~opt.analyze => \A i \in DOMAIN disk' :
          disk'[i].booted => StartsCurrent(disk'[i].log, disk'[i].mixed)
    <3> SUFFICES ASSUME ~opt.analyze, NEW i \in DOMAIN disk'
                 PROVE  disk'[i].booted => StartsCurrent(disk'[i].log, disk'[i].mixed)
      OBVIOUS
    <3>1. CASE i \in 1 .. Len(disk)
      BY <2>2, <2>3, <3>1 DEF FilesInv
    <3>2. CASE i = Len(disk) + 1
      BY <2>2, <2>4, <3>2
    <3> QED
      BY <2>2, <2>3, <3>1, <3>2
  <2> QED
    BY <2>1, <2>2, <2>5 DEF FilesInv
<1>2. CASE ~WriteRun
  <2>1. disk' = disk /\ opt' = opt
    BY <1>2 DEF Next, CaptureStep, Start, ResetInput, PulsePeer, SettleElapsed,
                PulseTarget, Reopen, DeadlinePassed, PostTerminalElapsed, LoopEnds,
                DrainPeer, Read, PulseFails, DrainFails, ReadFails, ReopenFails,
                RecordRun, AnalyzeRun, Summarize, TargetPrints, PeerPrints, vars, results
  <2> QED
    BY <2>1 DEF FilesInv
<1> QED
  BY <1>1, <1>2

(* Once the boot marker is seen the log is of that boot, through every     *)
(* reconnect, and so is every log on disk: KeptLog and the reset of the    *)
(* input buffer in capture_run.                                            *)
THEOREM FreshLogs == Spec => []FreshLog
<1>1. Init => FreshInv
  BY PortInvInit, CountInvInit, FilesInvInit DEF FreshInv
<1>2. FreshInv /\ [Next]_vars => FreshInv'
  BY PortInvNext, CountInvNext, FilesInvNext DEF FreshInv
<1>3. FreshInv => FreshLog
  <2> SUFFICES ASSUME FreshInv PROVE FreshLog
    OBVIOUS
  <2>1. TypeOK
    BY DEF FreshInv, CountInv
  <2>2. ASSUME pc \in {"loop", "write"}, bootSeen
        PROVE  StartsCurrent(log, staleBoot)
    <3>1. /\ log \in Seq(Received) /\ rx \in Seq(Received)
          /\ Capture(log \o rx, staleBoot) /\ Marked(log, bootSeen)
      BY <2>2 DEF FreshInv, PortInv, Capturing
    <3>2. Marked(log, TRUE)
      BY <2>2, <3>1 DEF Marked
    <3> QED
      BY <3>1, <3>2, LogOfCapture, CaptureIsFresh
  <2>3. ~opt.analyze => \A i \in DOMAIN disk :
          disk[i].booted => StartsCurrent(disk[i].log, disk[i].mixed)
    BY DEF FreshInv, FilesInv
  <2> QED
    BY <2>1, <2>2, <2>3, Zenon DEF FreshLog
<1> QED
  BY <1>1, <1>2, <1>3, PTL DEF Spec

-----------------------------------------------------------------------------
(* As many passes as records are a pass of each of them.                   *)
LEMMA EveryRecordPasses ==
  ASSUME NEW rows, IsSequence(rows), Passes(SummarizeRecords(rows)) = Len(rows)
  PROVE  \A i \in DOMAIN rows : rows[i].result = "pass"
<1> DEFINE good == {i \in DOMAIN rows : rows[i].result = "pass"}
           seen == {rows[i].result : i \in DOMAIN rows}
<1>1. Len(rows) \in Nat /\ DOMAIN rows = 1 .. Len(rows)
  BY SequenceLength
<1>2. SummarizeRecords(rows).counts =
        [k \in seen |-> Cardinality({i \in DOMAIN rows : rows[i].result = k})]
  BY DEF SummarizeRecords, Tally
<1>3. CASE "pass" \notin seen
  <2>1. Passes(SummarizeRecords(rows)) = 0
    BY <1>2, <1>3 DEF Passes
  <2> QED
    BY <1>1, <2>1
<1>4. CASE "pass" \in seen
  <2>1. Passes(SummarizeRecords(rows)) = Cardinality(good)
    BY <1>2, <1>4 DEF Passes
  <2>2. IsFiniteSet(1 .. Len(rows)) /\ Cardinality(1 .. Len(rows)) = Len(rows)
    <3>1. 1 \in Int /\ Len(rows) \in Int
      BY <1>1
    <3>2. /\ IsFiniteSet(1 .. Len(rows))
          /\ Cardinality(1 .. Len(rows)) =
               IF 1 > Len(rows) THEN 0 ELSE Len(rows) - 1 + 1
      BY <3>1, FS_Interval
    <3> QED
      BY <1>1, <3>2
  <2>3. good = 1 .. Len(rows)
    BY <1>1, <2>1, <2>2, FS_Subset
  <2> QED
    BY <1>1, <2>3
<1> QED
  BY <1>3, <1>4

(* A manifest with no mismatch is the identity of the ELF and the profile. *)
LEMMA IdentityNamed ==
  ASSUME NEW m, NEW e, NEW p, m = [k \in DOMAIN m |-> m[k]],
         Mismatches(m, ArtifactIdentity(e, p)) = {}
  PROVE  m = ArtifactIdentity(e, p)
<1> DEFINE a == ArtifactIdentity(e, p)
<1>1. a = [k \in DOMAIN a |-> a[k]]
  BY DEF ArtifactIdentity
<1> HIDE DEF a
<1>2. DOMAIN m = DOMAIN a /\ \A k \in DOMAIN a : m[k] = a[k]
  BY DEF Mismatches, a
<1>3. [k \in DOMAIN m |-> m[k]] = [k \in DOMAIN a |-> a[k]]
  BY <1>2
<1> QED
  BY <1>1, <1>3 DEF a

LEMMA ManifestsNamed ==
  ASSUME NEW o \in Options, ArgumentsAccepted(o)
  PROVE  \A id \in {o.identity, o.peerIdentity} : \A m \in id.manifest :
           \E e \in id.elf, p \in id.profile : m = ArtifactIdentity(e, p)
<1> SUFFICES ASSUME NEW id \in {o.identity, o.peerIdentity}, NEW m \in id.manifest
             PROVE  \E e \in id.elf, p \in id.profile : m = ArtifactIdentity(e, p)
  OBVIOUS
<1>1. IdentityAccepted(id)
  BY DEF ArgumentsAccepted
<1>2. PICK n \in id.manifest, e \in id.elf, p \in id.profile :
        Mismatches(n, ArtifactIdentity(e, p)) = {}
  BY <1>1 DEF IdentityAccepted
<1>3. m = n /\ m = [k \in DOMAIN m |-> m[k]]
  BY OptionsAssumption
<1>4. m = ArtifactIdentity(e, p)
  BY <1>2, <1>3, IdentityNamed
<1> QED
  BY <1>4

-----------------------------------------------------------------------------
(* A record for each run so far, made from that run's logs.                *)
HardwarePcs == {"ready", "peerPulse", "settle", "pulse", "loop", "reopen", "write", "record"}

RecordsInv ==
  /\ opt \in Options
  /\ IsSequence(records) /\ IsSequence(disk) /\ run \in Int
  /\ run = Len(records) + 1
  /\ IF opt.analyze THEN Len(records) <= Len(disk)
     ELSE Len(disk) = Len(records) + IF pc = "record" THEN 1 ELSE 0
  /\ \A i \in 1 .. Len(records) :
       records[i] = RecordFromLog(disk[i].log, disk[i].peer, opt)

(* The last file on disk is of the run that is not recorded yet.           *)
PendingInv ==
  pc = "record" => disk[Len(records) + 1].log = log
                   /\ disk[Len(records) + 1].peer = PeerOfRun

SummaryInv ==
  /\ summary = IF status \in {"ok", "failed"} THEN {SummarizeRecords(records)} ELSE {}
  /\ status \in {"ok", "failed"} => Len(disk) = Len(records) /\ pc = "exit"

ProgressInv ==
  /\ pc # "exit" => status = "none"
  /\ pc = "args" => run = 1
  /\ pc = "analyze" => opt.analyze /\ (disk # <<>> => run <= Len(disk))
  /\ pc \in HardwarePcs => ~opt.analyze /\ run <= opt.runs
  /\ pc = "summarize" => IF opt.analyze THEN Len(records) = Len(disk)
                                        ELSE Len(records) = opt.runs
  /\ pc # "args" /\ status # "usage" => ArgumentsAccepted(opt)
  /\ status = "ok" => /\ pc = "exit" /\ ArgumentsAccepted(opt)
                      /\ Len(disk) = Len(records) /\ Len(records) = RunsExpected(opt)
                      /\ \A i \in 1 .. Len(records) : records[i].result = "pass"

ExitInv == RecordsInv /\ PendingInv /\ SummaryInv /\ ProgressInv

LEMMA ExitInvInit == Init => ExitInv
<1> SUFFICES ASSUME Init PROVE ExitInv
  OBVIOUS
<1>1. /\ opt \in Options /\ disk = opt.files /\ records = <<>> /\ run = 1
      /\ pc = "args" /\ status = "none" /\ summary = {}
  BY DEF Init
<1>2. disk \in Seq(ToSet(disk)) /\ (~opt.analyze => disk = <<>>)
  BY <1>1, OptionsAssumption
<1>3. IsSequence(disk) /\ Len(disk) \in Nat
  BY <1>2, LenProperties DEF IsSequence, ToSet
<1>4. IsSequence(records) /\ Len(records) = 0
  BY <1>1, NoRows
<1>5. RecordsInv
  BY <1>1, <1>2, <1>3, <1>4, NoRows DEF RecordsInv
<1>6. ProgressInv
  BY <1>1 DEF ProgressInv, HardwarePcs
<1>7. PendingInv /\ SummaryInv
  BY <1>1 DEF PendingInv, SummaryInv
<1> QED
  BY <1>5, <1>6, <1>7 DEF ExitInv

(* Writing a run, recording it, and reading one of an earlier matrix.      *)
LEMMA ExitInvWrite == ExitInv /\ WriteRun => ExitInv'
<1> SUFFICES ASSUME ExitInv, WriteRun PROVE ExitInv'
  OBVIOUS
<1> DEFINE entry == [log |-> log, peer |-> PeerOfRun, booted |-> bootSeen,
                     mixed |-> staleBoot]
<1>1. /\ pc = "write" /\ pc' = "record" /\ disk' = Append(disk, entry)
      /\ UNCHANGED <<opt, run, log, peerLog, records, summary, status>>
  BY DEF WriteRun, attempt
<1>2. /\ opt \in Options /\ opt.runs \in Int /\ ~opt.analyze /\ run <= opt.runs
      /\ status = "none" /\ ArgumentsAccepted(opt)
      /\ run \in Int /\ run = Len(records) + 1 /\ Len(disk) = Len(records)
      /\ Len(records) \in Nat
  BY <1>1, OptionsAssumption, SequenceLength
     DEF ExitInv, RecordsInv, ProgressInv, HardwarePcs
<1>3. entry.log = log /\ entry.peer = PeerOfRun
  OBVIOUS
<1> HIDE DEF entry
<1>4. /\ IsSequence(disk') /\ Len(disk') = Len(disk) + 1
      /\ disk'[Len(disk) + 1] = entry
      /\ \A i \in 1 .. Len(disk) : disk'[i] = disk[i]
  BY <1>1, AppendSequence DEF ExitInv, RecordsInv
<1>5. RecordsInv'
  BY <1>1, <1>2, <1>4 DEF ExitInv, RecordsInv
<1>6. PendingInv'
  BY <1>1, <1>2, <1>3, <1>4 DEF PendingInv, PeerOfRun
<1>7. ProgressInv' /\ SummaryInv'
  BY <1>1, <1>2 DEF ExitInv, ProgressInv, SummaryInv, HardwarePcs
<1> QED
  BY <1>5, <1>6, <1>7 DEF ExitInv

LEMMA ExitInvRecord == ExitInv /\ RecordRun => ExitInv'
<1> SUFFICES ASSUME ExitInv, RecordRun PROVE ExitInv'
  OBVIOUS
<1> DEFINE record == RecordFromLog(log, PeerOfRun, opt)
<1>1. /\ pc = "record" /\ records' = Append(records, record)
      /\ run' = run + 1 /\ pc' = (IF run < opt.runs THEN "ready" ELSE "summarize")
      /\ UNCHANGED <<opt, disk, summary, status>>
  BY DEF RecordRun
<1>2. /\ opt \in Options /\ opt.runs \in Int /\ ~opt.analyze /\ run <= opt.runs
      /\ status = "none" /\ ArgumentsAccepted(opt)
      /\ run \in Int /\ run = Len(records) + 1 /\ Len(disk) = Len(records) + 1
      /\ disk[Len(records) + 1].log = log /\ disk[Len(records) + 1].peer = PeerOfRun
  BY <1>1, OptionsAssumption DEF ExitInv, RecordsInv, PendingInv, ProgressInv, HardwarePcs
<1>3. Len(records) \in Nat
  BY SequenceLength DEF ExitInv, RecordsInv
<1> HIDE DEF record
<1>4. /\ IsSequence(records') /\ Len(records') = Len(records) + 1
      /\ records'[Len(records) + 1] = record
      /\ \A i \in 1 .. Len(records) : records'[i] = records[i]
  BY <1>1, AppendSequence DEF ExitInv, RecordsInv
<1>5. ASSUME NEW i \in 1 .. Len(records')
      PROVE  records'[i] = RecordFromLog(disk'[i].log, disk'[i].peer, opt')
  <2>1. CASE i \in 1 .. Len(records)
    BY <1>1, <1>4, <2>1 DEF ExitInv, RecordsInv
  <2>2. CASE i = Len(records) + 1
    BY <1>1, <1>2, <1>4, <2>2 DEF record
  <2> QED
    BY <1>3, <1>4, <2>1, <2>2
<1>6. RecordsInv'
  BY <1>1, <1>2, <1>3, <1>4, <1>5 DEF ExitInv, RecordsInv
<1>7. PendingInv' /\ SummaryInv'
  BY <1>1, <1>2 DEF ExitInv, PendingInv, SummaryInv
<1>8. ProgressInv'
  BY <1>1, <1>2, <1>3, <1>4 DEF ProgressInv, HardwarePcs
<1> QED
  BY <1>6, <1>7, <1>8 DEF ExitInv

LEMMA ExitInvAnalyze == ExitInv /\ AnalyzeRun => ExitInv'
<1> SUFFICES ASSUME ExitInv, AnalyzeRun PROVE ExitInv'
  OBVIOUS
<1>1. /\ pc = "analyze" /\ UNCHANGED <<opt, disk>>
      /\ opt.analyze /\ (disk # <<>> => run <= Len(disk)) /\ status = "none"
      /\ ArgumentsAccepted(opt) /\ summary' = summary /\ summary = {}
  BY DEF AnalyzeRun, ExitInv, ProgressInv, SummaryInv
<1>2. CASE disk = <<>>
  <2>1. /\ pc' = "exit" /\ status' = "usage" /\ UNCHANGED <<run, records>>
    BY <1>2 DEF AnalyzeRun, Raise
  <2>2. RecordsInv'
    BY <1>1, <2>1 DEF ExitInv, RecordsInv
  <2>3. ProgressInv'
    BY <2>1 DEF ProgressInv, HardwarePcs
  <2>4. PendingInv' /\ SummaryInv'
    BY <1>1, <2>1 DEF PendingInv, SummaryInv
  <2> QED
    BY <2>2, <2>3, <2>4 DEF ExitInv
<1>3. CASE disk # <<>>
  <2> DEFINE record == RecordFromLog(disk[run].log, disk[run].peer, opt)
  <2>1. /\ records' = Append(records, record) /\ run' = run + 1
        /\ pc' = (IF run < Len(disk) THEN "analyze" ELSE "summarize")
        /\ status' = status
    BY <1>3 DEF AnalyzeRun
  <2> HIDE DEF record
  <2>2. /\ IsSequence(records') /\ Len(records') = Len(records) + 1
        /\ records'[Len(records) + 1] = record
        /\ \A i \in 1 .. Len(records) : records'[i] = records[i]
    BY <2>1, AppendSequence DEF ExitInv, RecordsInv
  <2>3. /\ Len(records) \in Nat /\ Len(disk) \in Nat
        /\ run = Len(records) + 1 /\ run <= Len(disk)
    BY <1>1, <1>3, SequenceLength DEF ExitInv, RecordsInv
  <2>4. ASSUME NEW i \in 1 .. Len(records')
        PROVE  records'[i] = RecordFromLog(disk'[i].log, disk'[i].peer, opt')
    <3>1. CASE i \in 1 .. Len(records)
      BY <1>1, <2>2, <3>1 DEF ExitInv, RecordsInv
    <3>2. CASE i = Len(records) + 1
      BY <1>1, <2>2, <2>3, <3>2 DEF record
    <3> QED
      BY <2>2, <2>3, <3>1, <3>2
  <2>5. RecordsInv'
    BY <1>1, <2>1, <2>2, <2>3, <2>4 DEF ExitInv, RecordsInv
  <2>6. ProgressInv'
    BY <1>1, <1>3, <2>1, <2>2, <2>3 DEF ProgressInv, HardwarePcs
  <2>7. PendingInv' /\ SummaryInv'
    BY <1>1, <2>1 DEF PendingInv, SummaryInv
  <2> QED
    BY <2>5, <2>6, <2>7 DEF ExitInv
<1> QED
  BY <1>2, <1>3

LEMMA ExitInvSummarize == ExitInv /\ Summarize => ExitInv'
<1> SUFFICES ASSUME ExitInv, Summarize PROVE ExitInv'
  OBVIOUS
<1>1. /\ pc = "summarize" /\ pc' = "exit"
      /\ status' = (IF Passes(SummarizeRecords(records)) = RunsExpected(opt)
                    THEN "ok" ELSE "failed")
      /\ summary' = {SummarizeRecords(records)}
      /\ UNCHANGED <<opt, run, disk, records>>
  BY DEF Summarize
<1>2. /\ status = "none" /\ ArgumentsAccepted(opt)
      /\ IF opt.analyze THEN Len(records) = Len(disk) ELSE Len(records) = opt.runs
  BY <1>1 DEF ExitInv, ProgressInv
<1>3. RecordsInv'
  BY <1>1 DEF ExitInv, RecordsInv
<1>4. Len(records) = RunsExpected(opt) /\ Len(disk) = Len(records)
  BY <1>1, <1>2, SequenceLength DEF RunsExpected, ExitInv, RecordsInv
<1>5. ASSUME status' = "ok"
      PROVE  \A i \in 1 .. Len(records) : records[i].result = "pass"
  <2>1. Passes(SummarizeRecords(records)) = Len(records)
    BY <1>1, <1>4, <1>5
  <2> QED
    BY <2>1, EveryRecordPasses, SequenceLength DEF ExitInv, RecordsInv
<1>6. RunsExpected(opt)' = RunsExpected(opt)
  BY <1>1 DEF RunsExpected
<1>7. ProgressInv'
  BY <1>1, <1>2, <1>4, <1>5, <1>6 DEF ProgressInv, HardwarePcs
<1>8. PendingInv' /\ SummaryInv'
  BY <1>1, <1>4 DEF PendingInv, SummaryInv
<1> QED
  BY <1>3, <1>7, <1>8 DEF ExitInv

LEMMA ExitInvNext == ExitInv /\ [Next]_vars => ExitInv'
<1> SUFFICES ASSUME ExitInv, [Next]_vars PROVE ExitInv'
  OBVIOUS
<1>1. CASE WriteRun
  BY <1>1, ExitInvWrite
<1>2. CASE AnalyzeRun
  BY <1>2, ExitInvAnalyze
<1>3. CASE Summarize
  BY <1>3, ExitInvSummarize
<1>5. CASE RecordRun
  BY <1>5, ExitInvRecord
<1>4. CASE ~(WriteRun \/ RecordRun \/ AnalyzeRun \/ Summarize)
  <2>1. UNCHANGED <<opt, run, disk, records, summary>>
    BY <1>4 DEF Next, CaptureStep, Start, ResetInput, PulsePeer, SettleElapsed,
                PulseTarget, Reopen, DeadlinePassed, PostTerminalElapsed, LoopEnds,
                DrainPeer, Read, PulseFails, DrainFails, ReadFails, ReopenFails,
                TargetPrints, PeerPrints, vars, results
  <2>4. IF pc = "record" THEN pc' = pc /\ UNCHANGED <<log, peerLog>>
        ELSE pc' # "record"
    BY <1>4 DEF Next, CaptureStep, Start, ResetInput, PulsePeer, SettleElapsed,
                PulseTarget, Reopen, DeadlinePassed, PostTerminalElapsed, LoopEnds,
                DrainPeer, Read, PulseFails, DrainFails, ReadFails, ReopenFails, Raise,
                TargetPrints, PeerPrints, vars, attempt
  <2>2. RecordsInv' /\ PendingInv'
    BY <2>1, <2>4 DEF ExitInv, RecordsInv, PendingInv, PeerOfRun
  <2>5. status' \in {status, "usage", "raised"} /\ (status' # status => pc # "exit")
    BY <1>4 DEF Next, CaptureStep, Start, ResetInput, PulsePeer, SettleElapsed,
                PulseTarget, Reopen, DeadlinePassed, PostTerminalElapsed, LoopEnds,
                DrainPeer, Read, PulseFails, DrainFails, ReadFails, ReopenFails, Raise,
                TargetPrints, PeerPrints, vars, results
  <2>6. pc = "exit" => pc' = "exit"
    BY <1>4 DEF Next, CaptureStep, Start, ResetInput, PulsePeer, SettleElapsed,
                PulseTarget, Reopen, DeadlinePassed, PostTerminalElapsed, LoopEnds,
                DrainPeer, Read, PulseFails, DrainFails, ReadFails, ReopenFails, Raise,
                TargetPrints, PeerPrints, vars
  <2>7. SummaryInv'
    BY <2>1, <2>5, <2>6 DEF ExitInv, ProgressInv, SummaryInv
  <2>3. ProgressInv'
    <3>1. CASE Start
      <4>1. CASE ArgumentsAccepted(opt)
        <5>1. /\ pc = "args" /\ pc' = (IF opt.analyze THEN "analyze" ELSE "ready")
              /\ status' = status
          BY <3>1, <4>1 DEF Start
        <5>2. /\ opt.runs > 0 /\ opt.runs \in Int /\ run = 1
              /\ disk # <<>> => run <= Len(disk)
          <6>1. opt.runs > 0 /\ opt.runs \in Int /\ run = 1
            BY <4>1, <5>1, OptionsAssumption
               DEF ArgumentsAccepted, ExitInv, RecordsInv, ProgressInv
          <6>2. Len(disk) \in Nat /\ (Len(disk) = 0 => disk = <<>>)
            BY SequenceLength, EmptySeq DEF ExitInv, RecordsInv, IsSequence
          <6> QED
            BY <6>1, <6>2
        <5> QED
          BY <2>1, <4>1, <5>1, <5>2 DEF ExitInv, RecordsInv, ProgressInv, HardwarePcs
      <4>2. CASE ~ArgumentsAccepted(opt)
        <5>1. pc' = "exit" /\ status' = "usage"
          BY <3>1, <4>2 DEF Start, Raise
        <5> QED
          BY <2>1, <5>1 DEF ProgressInv, HardwarePcs
      <4> QED
        BY <4>1, <4>2
    <3>2. CASE PulseFails \/ DrainFails \/ ReopenFails \/ (ReadFails /\ pc' = "exit")
      <4>1. pc' = "exit" /\ status' = "raised" /\ pc \in HardwarePcs
        BY <3>2 DEF PulseFails, DrainFails, ReopenFails, ReadFails, Raise, HardwarePcs
      <4>2. ArgumentsAccepted(opt)
        BY <4>1 DEF ExitInv, ProgressInv, HardwarePcs
      <4> QED
        BY <2>1, <4>1, <4>2 DEF ProgressInv, HardwarePcs
    <3>3. CASE \/ ResetInput \/ PulsePeer \/ SettleElapsed \/ PulseTarget \/ Reopen
               \/ DeadlinePassed \/ PostTerminalElapsed \/ DrainPeer \/ Read
               \/ (ReadFails /\ pc' # "exit")
      <4>1. pc' \in HardwarePcs /\ pc \in HardwarePcs /\ status' = status
        BY <3>3 DEF ResetInput, PulsePeer, SettleElapsed, PulseTarget, Reopen,
                    DeadlinePassed, PostTerminalElapsed, LoopEnds, DrainPeer, Read,
                    ReadFails, Raise, HardwarePcs, results
      <4> QED
        BY <2>1, <4>1 DEF ExitInv, ProgressInv, HardwarePcs
    <3>4. CASE TargetPrints \/ PeerPrints \/ UNCHANGED vars
      <4>1. pc' = pc /\ status' = status
        BY <3>4 DEF TargetPrints, PeerPrints, vars, results
      <4>2. /\ ProgressInv
            /\ UNCHANGED <<opt, pc, run, disk, records, status>>
        BY <2>1, <4>1 DEF ExitInv
      <4>3. ASSUME status' = "ok"
            PROVE  /\ pc' = "exit" /\ ArgumentsAccepted(opt')
                   /\ Len(disk') = Len(records')
                   /\ \A i \in 1 .. Len(records') : records'[i].result = "pass"
        BY <4>2, <4>3 DEF ProgressInv
      <4>4. ASSUME status' = "ok" PROVE Len(records') = RunsExpected(opt)'
        BY <4>2, <4>4 DEF ProgressInv, RunsExpected
      <4>5. ArgumentsAccepted(opt') = ArgumentsAccepted(opt)
        BY <4>2
      <4> QED
        BY <4>2, <4>3, <4>4, <4>5 DEF ProgressInv, HardwarePcs
    <3>5. PostTerminalElapsed => DeadlinePassed
      BY DEF PostTerminalElapsed, DeadlinePassed
    <3>6. CASE ReadFails
      BY <3>2, <3>3, <3>6, Zenon
    <3> QED
      BY <1>4, <3>1, <3>2, <3>3, <3>4, <3>5, <3>6 DEF Next, CaptureStep
  <2> QED
    BY <2>2, <2>3, <2>7 DEF ExitInv
<1> QED
  BY <1>1, <1>2, <1>3, <1>4, <1>5

(* Each record says what an analysis of that run's files says; a summary   *)
(* is written exactly by the exits that judge and counts every log on      *)
(* disk; status 0 is a statement about every run that was asked for: main, *)
(* record_from_log and summarize_records.                                  *)
THEOREM ExitsHonest == Spec => []ExitHonest
<1>1. Init => ExitInv
  BY ExitInvInit
<1>2. ExitInv /\ [Next]_vars => ExitInv'
  BY ExitInvNext
<1>3. ExitInv => ExitHonest
  <2> SUFFICES ASSUME ExitInv PROVE ExitHonest
    OBVIOUS
  <2>1. /\ opt \in Options /\ Len(disk) \in Nat /\ DOMAIN disk = 1 .. Len(disk)
        /\ Len(records) \in Nat /\ DOMAIN records = 1 .. Len(records)
        /\ Len(records) <= Len(disk)
    BY SequenceLength DEF ExitInv, RecordsInv
  <2>2. ASSUME NEW i \in DOMAIN records PROVE records[i] = Analysed[i]
    <3>1. i \in DOMAIN disk
      BY <2>1
    <3>2. Analysed[i] = RecordFromLog(disk[i].log, disk[i].peer, opt)
      BY <3>1 DEF Analysed
    <3> QED
      BY <2>1, <3>2 DEF ExitInv, RecordsInv
  <2>3. Len(records) = Len(disk) => records = Analysed
    <3>1. records = [i \in DOMAIN records |-> records[i]]
      BY LenProperties DEF ExitInv, RecordsInv, IsSequence
    <3>2. Analysed = [i \in DOMAIN disk |-> Analysed[i]]
      BY DEF Analysed
    <3> QED
      BY <2>1, <2>2, <3>1, <3>2
  <2>4. summary = IF status \in {"ok", "failed"} THEN {SummarizeRecords(Analysed)} ELSE {}
    BY <2>3 DEF ExitInv, SummaryInv
  <2>5. ASSUME status = "ok"
        PROVE  /\ Len(disk) = RunsExpected(opt)
               /\ \A i \in DOMAIN disk : Analysed[i].result = "pass"
    BY <2>1, <2>2, <2>5 DEF ExitInv, ProgressInv
  <2>6. ASSUME status = "ok"
        PROVE  \A id \in {opt.identity, opt.peerIdentity} : \A m \in id.manifest :
                 \E e \in id.elf, p \in id.profile : m = ArtifactIdentity(e, p)
    BY <2>1, <2>6, ManifestsNamed DEF ExitInv, ProgressInv
  <2> QED
    BY <2>1, <2>2, <2>4, <2>5, <2>6, Zenon DEF ExitHonest
<1> QED
  BY <1>1, <1>2, <1>3, PTL DEF Spec

-----------------------------------------------------------------------------
(* A recursion over 0..n has a solution: step[k] maps the value at k-1 to  *)
(* the value at k.                                                         *)
Solvable(n, V, base, step) ==
  \E f \in [0 .. n -> V] : f[0] = base /\ \A k \in 1 .. n : f[k] = step[k][f[k - 1]]

LEMMA RecursionExists ==
  ASSUME NEW n \in Nat, NEW V, NEW base \in V, NEW step \in [1 .. n -> [V -> V]]
  PROVE  Solvable(n, V, base, step)
<1> USE DEF Solvable
<1> DEFINE Solves(f, m) == f[0] = base /\ \A k \in 1 .. m : f[k] = step[k][f[k - 1]]
           Unsolved == {m \in 0 .. n : ~\E f \in [0 .. m -> V] : Solves(f, m)}
<1>1. SUFFICES Unsolved = {}
  OBVIOUS
<1>2. SUFFICES ASSUME Unsolved # {} PROVE FALSE
  OBVIOUS
<1>3. PICK m \in Unsolved : \A j \in Unsolved : m <= j
  <2>1. Unsolved \in SUBSET Nat
    OBVIOUS
  <2> HIDE DEF Unsolved
  <2> QED
    BY <1>2, <2>1, LeastNatural
<1>4. m \in 0 .. n /\ ~\E f \in [0 .. m -> V] : Solves(f, m)
  BY <1>3
<1>5. CASE m = 0
  <2> DEFINE g == [k \in 0 .. m |-> base]
  <2>1. g \in [0 .. m -> V] /\ Solves(g, m)
    BY <1>5
  <2> QED
    BY <1>4, <2>1
<1>6. CASE m # 0
  <2>1. m - 1 \in 0 .. n /\ m - 1 \notin Unsolved /\ m \in 1 .. n
    <3>1. m \in Nat /\ m - 1 \in 0 .. n /\ ~(m <= m - 1) /\ m \in 1 .. n
      BY <1>4, <1>6
    <3> HIDE DEF Unsolved
    <3> QED
      BY <1>3, <3>1
  <2>2. PICK f \in [0 .. m - 1 -> V] : Solves(f, m - 1)
    BY <2>1
  <2> DEFINE g == [k \in 0 .. m |-> IF k = m THEN step[m][f[m - 1]] ELSE f[k]]
  <2>3. g \in [0 .. m -> V]
    <3>1. f[m - 1] \in V /\ step[m] \in [V -> V]
      BY <2>1
    <3>2. step[m][f[m - 1]] \in V
      BY <3>1
    <3>3. \A k \in 0 .. m : k # m => k \in 0 .. m - 1
      BY <2>1
    <3> QED
      BY <3>2, <3>3
  <2>4. g[0] = base
    BY <2>1, <2>2
  <2>5. ASSUME NEW k \in 1 .. m PROVE g[k] = step[k][g[k - 1]]
    <3>1. k - 1 \in 0 .. m /\ k - 1 # m /\ k \in 0 .. m
      BY <2>1
    <3>2. g[k - 1] = f[k - 1]
      BY <3>1
    <3>3. CASE k = m
      BY <3>1, <3>2, <3>3
    <3>4. CASE k # m
      <4>1. k \in 1 .. m - 1
        BY <2>1, <3>4
      <4> QED
        BY <2>2, <3>1, <3>2, <3>4, <4>1
    <3> QED
      BY <3>3, <3>4
  <2> QED
    BY <1>4, <2>3, <2>4, <2>5
<1> QED
  BY <1>5, <1>6

(* The first marker of a group after a line is a line of the log.          *)
LEMMA PositionInLog ==
  ASSUME NEW lines, IsSequence(lines), NEW group, NEW after \in 0 .. Len(lines)
  PROVE  LET p == GroupPosition(lines, group, after)
         IN  /\ p \in 0 .. Len(lines)
             /\ p # 0 => p \in DOMAIN lines /\ p > after /\ lines[p].m \in group
             /\ NextCursor(lines, group, after) \in 0 .. Len(lines)
<1> DEFINE found == {i \in DOMAIN lines : i > after /\ lines[i].m \in group}
           p == GroupPosition(lines, group, after)
<1>1. DOMAIN lines = 1 .. Len(lines) /\ Len(lines) \in Nat
  BY SequenceLength
<1>2. CASE found = {}
  <2>1. p = 0
    BY <1>2 DEF GroupPosition
  <2> QED
    BY <1>1, <2>1 DEF NextCursor
<1>3. CASE found # {}
  <2>1. p = Min(found)
    BY <1>3 DEF GroupPosition
  <2>2. Min(found) \in found
    <3>1. found \in SUBSET Nat
      BY <1>1
    <3> HIDE DEF found
    <3> QED
      BY <1>3, <3>1, LeastIndex
  <2>3. p \in DOMAIN lines /\ p > after /\ lines[p].m \in group
    BY <2>1, <2>2
  <2> QED
    BY <1>1, <2>3 DEF NextCursor
<1> QED
  BY <1>2, <1>3

(* The cursor of validate_rust_contract, stage by stage.                   *)
LEMMA CursorOfStages ==
  ASSUME NEW lines, IsSequence(lines), NEW stages, IsSequence(stages)
  PROVE  \E c \in [0 .. Len(stages) -> 0 .. Len(lines)] :
           /\ c[0] = 0
           /\ \A k \in 1 .. Len(stages) :
                c[k] = NextCursor(lines, stages[k].any, c[k - 1])
           /\ StageViolations(lines, stages) =
                {<<"missing", stages[k].name>> : k \in
                   {j \in 1 .. Len(stages) :
                      GroupPosition(lines, stages[j].any, c[j - 1]) = 0}}
<1> DEFINE n == Len(stages)
           V == 0 .. Len(lines)
           step == [k \in 1 .. n |-> [x \in V |-> NextCursor(lines, stages[k].any, x)]]
           cursor[k \in 0 .. n] ==
             IF k = 0 THEN 0 ELSE NextCursor(lines, stages[k].any, cursor[k - 1])
           Solution(f) == f = [k \in 0 .. n |->
             IF k = 0 THEN 0 ELSE NextCursor(lines, stages[k].any, f[k - 1])]
<1>1. n \in Nat /\ Len(lines) \in Nat
  BY SequenceLength
<1>2. step \in [1 .. n -> [V -> V]]
  BY PositionInLog
<1>3. \A k \in 1 .. n : \A x \in V : step[k][x] = NextCursor(lines, stages[k].any, x)
  OBVIOUS
<1>4. PICK f \in [0 .. n -> V] : f[0] = 0 /\ \A k \in 1 .. n : f[k] = step[k][f[k - 1]]
  <2>1. 0 \in V
    BY <1>1
  <2>2. Solvable(n, V, 0, step)
    <3> HIDE DEF n, V, step
    <3> QED
      BY <1>1, <1>2, <2>1, RecursionExists
  <2> HIDE DEF step, V
  <2> QED
    BY <2>2 DEF Solvable
<1>5. \A k \in 1 .. n : f[k - 1] \in V
  BY <1>1
<1>6. Solution(f)
  <2>1. ASSUME NEW k \in 0 .. n
        PROVE  f[k] = IF k = 0 THEN 0 ELSE NextCursor(lines, stages[k].any, f[k - 1])
    <3>1. k = 0 \/ k \in 1 .. n
      BY <1>1
    <3> HIDE DEF step
    <3> QED
      BY <1>3, <1>4, <1>5, <3>1
  <2> QED
    BY <2>1
<1>7. Solution(cursor)
  <2>1. cursor = CHOOSE g : Solution(g)
    OBVIOUS
  <2> HIDE DEF cursor, Solution
  <2> QED
    BY <1>6, <2>1
<1>8. cursor[0] = 0 /\ \A k \in 1 .. n :
        cursor[k] = NextCursor(lines, stages[k].any, cursor[k - 1])
  <2> HIDE DEF cursor
  <2>1. \A k \in 1 .. n : k \in 0 .. n /\ k # 0
    BY <1>1
  <2> QED
    BY <1>1, <1>7, <2>1
<1>9. cursor \in [0 .. n -> V]
  <2> DEFINE Outside == {k \in 0 .. n : cursor[k] \notin V}
  <2>1. cursor = [k \in 0 .. n |-> cursor[k]]
    <3> HIDE DEF cursor
    <3> QED
      BY <1>7
  <2> HIDE DEF cursor
  <2>2. SUFFICES ASSUME Outside # {} PROVE FALSE
    BY <2>1
  <2>3. PICK k \in Outside : \A j \in Outside : k <= j
    <3>1. Outside \in SUBSET Nat
      OBVIOUS
    <3> HIDE DEF Outside
    <3> QED
      BY <2>2, <3>1, LeastNatural
  <2>4. k \in 1 .. n /\ k - 1 \in 0 .. n /\ ~(k <= k - 1)
    BY <1>1, <1>8, <2>3
  <2>5. cursor[k - 1] \in V
    BY <2>3, <2>4
  <2>6. cursor[k] \in V
    BY <1>8, <2>4, <2>5, PositionInLog
  <2> QED
    BY <2>3, <2>6
<1>10. StageViolations(lines, stages) =
        {<<"missing", stages[k].name>> : k \in
           {j \in 1 .. n : GroupPosition(lines, stages[j].any, cursor[j - 1]) = 0}}
  BY DEF StageViolations
<1> HIDE DEF cursor
<1> QED
  BY <1>8, <1>9, <1>10

(* The chains of StagesInOrder, stage by stage.                            *)
LEMMA EndsOfStages ==
  ASSUME NEW lines, IsSequence(lines), NEW stages, IsSequence(stages)
  PROVE  \E e \in [0 .. Len(stages) -> SUBSET (0 .. Len(lines))] :
           /\ e[0] = {0}
           /\ \A k \in 1 .. Len(stages) :
                e[k] = {i \in DOMAIN lines : /\ lines[i].m \in stages[k].any
                                            /\ \E j \in e[k - 1] : j < i}
           /\ StagesInOrder(lines, stages) <=> e[Len(stages)] # {}
<1> DEFINE n == Len(stages)
           V == SUBSET (0 .. Len(lines))
           Later(k, S) == {i \in DOMAIN lines : /\ lines[i].m \in stages[k].any
                                               /\ \E j \in S : j < i}
           step == [k \in 1 .. n |-> [S \in V |-> Later(k, S)]]
           ends[k \in 0 .. n] ==
             IF k = 0 THEN {0}
             ELSE {i \in DOMAIN lines : /\ lines[i].m \in stages[k].any
                                       /\ \E j \in ends[k - 1] : j < i}
           Solution(f) == f = [k \in 0 .. n |->
             IF k = 0 THEN {0}
             ELSE {i \in DOMAIN lines : /\ lines[i].m \in stages[k].any
                                       /\ \E j \in f[k - 1] : j < i}]
<1>1. n \in Nat /\ Len(lines) \in Nat /\ DOMAIN lines = 1 .. Len(lines)
  BY SequenceLength
<1>2. step \in [1 .. n -> [V -> V]]
  <2>1. \A k \in 1 .. n : \A S \in V : Later(k, S) \in V
    BY <1>1
  <2> HIDE DEF Later
  <2> QED
    BY <2>1
<1>3. \A k \in 1 .. n : \A S \in V : step[k][S] = Later(k, S)
  <2> HIDE DEF Later
  <2> QED
    OBVIOUS
<1>4. PICK f \in [0 .. n -> V] : f[0] = {0} /\ \A k \in 1 .. n : f[k] = step[k][f[k - 1]]
  <2>1. {0} \in V
    BY <1>1
  <2>2. Solvable(n, V, {0}, step)
    <3> HIDE DEF n, V, step
    <3> QED
      BY <1>1, <1>2, <2>1, RecursionExists
  <2> HIDE DEF step, V
  <2> QED
    BY <2>2 DEF Solvable
<1>5. \A k \in 1 .. n : f[k - 1] \in V
  BY <1>1
<1>6. Solution(f)
  <2>1. ASSUME NEW k \in 0 .. n
        PROVE  f[k] = IF k = 0 THEN {0} ELSE Later(k, f[k - 1])
    <3>1. k = 0 \/ k \in 1 .. n
      BY <1>1
    <3> HIDE DEF step, Later, V
    <3> QED
      BY <1>3, <1>4, <1>5, <3>1
  <2> QED
    BY <2>1
<1>7. Solution(ends)
  <2>1. ends = CHOOSE g : Solution(g)
    OBVIOUS
  <2> HIDE DEF ends, Solution
  <2> QED
    BY <1>6, <2>1
<1>8. ends[0] = {0} /\ \A k \in 1 .. n : ends[k] = Later(k, ends[k - 1])
  <2>1. ends = [k \in 0 .. n |-> IF k = 0 THEN {0} ELSE Later(k, ends[k - 1])]
    BY <1>7
  <2> HIDE DEF ends, Later
  <2>2. \A k \in 0 .. n : ends[k] = IF k = 0 THEN {0} ELSE Later(k, ends[k - 1])
    BY <2>1, Zenon
  <2>3. 0 \in 0 .. n /\ \A k \in 1 .. n : k \in 0 .. n /\ k # 0
    BY <1>1
  <2> QED
    BY <2>2, <2>3, Zenon
<1>9. ends \in [0 .. n -> V]
  <2>1. ends = [k \in 0 .. n |-> ends[k]]
    <3> HIDE DEF ends
    <3> QED
      BY <1>7
  <2> HIDE DEF ends
  <2>2. ASSUME NEW k \in 0 .. n PROVE ends[k] \in V
    <3>1. k = 0 \/ k \in 1 .. n
      BY <1>1
    <3> QED
      BY <1>1, <1>8, <3>1
  <2> QED
    BY <2>1, <2>2
<1>10. StagesInOrder(lines, stages) <=> ends[n] # {}
  BY DEF StagesInOrder
<1> HIDE DEF ends
<1> QED
  BY <1>8, <1>9, <1>10

(* A cursor that finds every stage is the end of a chain of all of them.   *)
LEMMA NothingMissing ==
  ASSUME NEW lines, IsSequence(lines), NEW stages, IsSequence(stages),
         StageViolations(lines, stages) = {}
  PROVE  StagesInOrder(lines, stages)
<1> DEFINE n == Len(stages)
<1>1. PICK c \in [0 .. n -> 0 .. Len(lines)] :
        /\ c[0] = 0
        /\ \A k \in 1 .. n : c[k] = NextCursor(lines, stages[k].any, c[k - 1])
        /\ StageViolations(lines, stages) =
             {<<"missing", stages[k].name>> : k \in
                {j \in 1 .. n : GroupPosition(lines, stages[j].any, c[j - 1]) = 0}}
  BY CursorOfStages
<1>2. PICK e \in [0 .. n -> SUBSET (0 .. Len(lines))] :
        /\ e[0] = {0}
        /\ \A k \in 1 .. n :
             e[k] = {i \in DOMAIN lines : /\ lines[i].m \in stages[k].any
                                         /\ \E j \in e[k - 1] : j < i}
        /\ StagesInOrder(lines, stages) <=> e[n] # {}
  BY EndsOfStages
<1>3. n \in Nat
  BY SequenceLength
<1>4. \A k \in 1 .. n : GroupPosition(lines, stages[k].any, c[k - 1]) # 0
  <2> SUFFICES ASSUME NEW k \in 1 .. n, GroupPosition(lines, stages[k].any, c[k - 1]) = 0
               PROVE  FALSE
    OBVIOUS
  <2> DEFINE lost == {j \in 1 .. n : GroupPosition(lines, stages[j].any, c[j - 1]) = 0}
  <2>1. k \in lost /\ StageViolations(lines, stages) = {<<"missing", stages[j].name>> : j \in lost}
    BY <1>1, Zenon
  <2>2. <<"missing", stages[k].name>> \in StageViolations(lines, stages)
    BY <2>1, Zenon
  <2> QED
    BY <2>2
<1> DEFINE Astray == {k \in 0 .. n : c[k] \notin e[k]}
<1>5. Astray = {}
  <2> SUFFICES ASSUME Astray # {} PROVE FALSE
    OBVIOUS
  <2>1. PICK k \in Astray : \A j \in Astray : k <= j
    <3>1. Astray \in SUBSET Nat
      OBVIOUS
    <3> HIDE DEF Astray
    <3> QED
      BY <3>1, LeastNatural
  <2>2. k \in 1 .. n /\ k - 1 \in 0 .. n /\ ~(k <= k - 1)
    BY <1>1, <1>2, <1>3, <2>1
  <2>3. c[k - 1] \in e[k - 1] /\ c[k - 1] \in 0 .. Len(lines)
    BY <1>1, <2>1, <2>2
  <2> DEFINE p == GroupPosition(lines, stages[k].any, c[k - 1])
  <2>4. p # 0 /\ p \in DOMAIN lines /\ p > c[k - 1] /\ lines[p].m \in stages[k].any
    BY <1>4, <2>2, <2>3, PositionInLog
  <2>5. c[k] = p
    BY <1>1, <2>2, <2>4 DEF NextCursor
  <2> HIDE DEF p
  <2>6. c[k - 1] < p
    <3>1. DOMAIN lines = 1 .. Len(lines)
      BY SequenceLength
    <3> QED
      BY <2>3, <2>4, <3>1
  <2>7. c[k] \in e[k]
    BY <1>2, <2>2, <2>3, <2>4, <2>5, <2>6
  <2> QED
    BY <2>1, <2>7
<1>6. c[n] \in e[n]
  BY <1>3, <1>5
<1> QED
  BY <1>2, <1>6

-----------------------------------------------------------------------------
(* The greatest element of a finite set of naturals is Max.                *)
LEMMA MaxIsGreatest ==
  ASSUME NEW S \in SUBSET Nat, S # {}, IsFiniteSet(S)
  PROVE  Max(S) \in S /\ \A i \in S : i <= Max(S)
<1>1. PICK x \in S : \A y \in S : y <= x
  BY GreatestNatural
<1>2. \A y \in S : x >= y
  BY <1>1
<1>3. Max(S) \in S /\ \A y \in S : Max(S) >= y
  BY <1>2, Zenon DEF Max
<1> QED
  BY <1>3

(* A snapshot without drift: each counter's newest value is there and zero. *)
LEMMA ZeroDriftIsClean ==
  ASSUME NEW lines, IsSequence(lines), ZeroDrift(ReadyOwnership(lines))
  PROVE  NoDrift(lines)
<1> DEFINE S == OwnershipLines(lines)
           With(f) == {i \in DOMAIN lines : Fielded(lines[i], S) /\ f \in DOMAIN lines[i].v}
           r == [f \in {g \in OwnershipFields : With(g) # {}} |->
                   lines[Max(With(f))].v[f]]
<1>1. DOMAIN lines = 1 .. Len(lines) /\ Len(lines) \in Nat
  BY SequenceLength
<1>2. ReadyOwnership(lines) = {r}
  <2>1. ReadyOwnership(lines) # {}
    BY DEF ZeroDrift
  <2> QED
    BY <2>1 DEF ReadyOwnership
<1>3. \A f \in OwnershipFields : f \in DOMAIN r /\ r[f] = 0
  <2> HIDE DEF r
  <2> QED
    BY <1>2 DEF ZeroDrift
<1>4. ASSUME NEW f \in OwnershipFields
      PROVE  \E i \in DOMAIN lines :
               /\ lines[i].m \in {"RFDBG_A5B_SCHED", "RFDBG_SOFTAP_SCHED"}
               /\ f \in DOMAIN lines[i].v /\ lines[i].v[f] = 0
               /\ \A j \in DOMAIN lines :
                    j > i /\ lines[j].m = lines[i].m /\ f \in DOMAIN lines[j].v =>
                      lines[j].v[f] = 0
  <2> DEFINE i == Max(With(f))
  <2>1. With(f) # {} /\ lines[i].v[f] = 0
    BY <1>3
  <2>2. With(f) \in SUBSET Nat /\ IsFiniteSet(With(f))
    <3>1. With(f) \in SUBSET (1 .. Len(lines)) /\ IsFiniteSet(1 .. Len(lines))
      BY <1>1, FS_Interval
    <3> HIDE DEF With
    <3> QED
      BY <3>1, FS_Subset
  <2>3. i \in With(f) /\ \A j \in With(f) : j <= i
    <3> HIDE DEF With
    <3> QED
      BY <2>1, <2>2, MaxIsGreatest
  <2> HIDE DEF i
  <2>4. i \in DOMAIN lines /\ lines[i].m \in S /\ f \in DOMAIN lines[i].v
    BY <2>3 DEF Fielded
  <2>5. ASSUME NEW j \in DOMAIN lines,
               j > i, lines[j].m = lines[i].m, f \in DOMAIN lines[j].v
        PROVE  FALSE
    <3>1. j \in With(f)
      BY <2>4, <2>5 DEF Fielded
    <3>2. j <= i
      BY <2>3, <3>1
    <3> QED
      BY <1>1, <2>4, <2>5, <3>2
  <2>6. S \subseteq {"RFDBG_A5B_SCHED", "RFDBG_SOFTAP_SCHED"}
    BY DEF OwnershipLines
  <2> QED
    BY <2>1, <2>4, <2>5, <2>6
<1> QED
  BY <1>4, Zenon DEF NoDrift

LEMMA OwnershipClean ==
  ASSUME NEW lines, IsSequence(lines), NEW role,
         ReadyOwnershipViolations(lines, role) = {}
  PROVE  NoDrift(lines)
<1>1. ReadyOwnership(lines) # {}
  BY DEF ReadyOwnershipViolations
<1> DEFINE r == CHOOSE s \in ReadyOwnership(lines) : TRUE
<1>2. r \in ReadyOwnership(lines)
  BY <1>1
<1>3. /\ {<<"missing", role, f>> : f \in OwnershipFields \ DOMAIN r} = {}
      /\ {<<"nonzero", role, f>> : f \in {g \in DOMAIN r : r[g] # 0}} = {}
  BY <1>1 DEF ReadyOwnershipViolations
<1> HIDE DEF r
<1>4. ASSUME NEW f \in OwnershipFields, f \notin DOMAIN r PROVE FALSE
  <2>1. <<"missing", role, f>> \in {<<"missing", role, g>> : g \in OwnershipFields \ DOMAIN r}
    BY <1>4, Zenon
  <2> QED
    BY <1>3, <2>1
<1>5. ASSUME NEW f \in DOMAIN r, r[f] # 0 PROVE FALSE
  <2>1. <<"nonzero", role, f>> \in {<<"nonzero", role, g>> : g \in {h \in DOMAIN r : r[h] # 0}}
    BY <1>5, Zenon
  <2> QED
    BY <1>3, <2>1
<1>6. ZeroDrift(ReadyOwnership(lines))
  BY <1>2, <1>4, <1>5 DEF ZeroDrift
<1> QED
  BY <1>6, ZeroDriftIsClean

(* The runner steps of a log are finitely many.                            *)
LEMMA RunnerStepsBounded ==
  ASSUME NEW lines, WholeLog(lines)
  PROVE  RunnerSteps(lines) \in SUBSET Nat /\ IsFiniteSet(RunnerSteps(lines))
<1> DEFINE J == {j \in DOMAIN lines :
                   lines[j].m = "RFDBG_A5B_RUNNER_ELAPSED_MS" /\ "value" \in DOMAIN lines[j].v}
           value == [j \in J |-> lines[j].v["value"]]
<1>1. IsSequence(lines) /\ \A j \in DOMAIN lines : Counters(lines[j])
  BY DEF WholeLog, IsSequence, ToSet
<1>2. DOMAIN lines = 1 .. Len(lines) /\ Len(lines) \in Nat
  BY <1>1, SequenceLength
<1>3. RunnerSteps(lines) = {value[j] : j \in J}
  BY DEF RunnerSteps
<1>4. \A j \in J : value[j] \in Nat
  BY <1>1 DEF Counters
<1>5. IsFiniteSet(J)
  <2>1. J \in SUBSET (1 .. Len(lines)) /\ IsFiniteSet(1 .. Len(lines))
    BY <1>2, FS_Interval
  <2> HIDE DEF J
  <2> QED
    BY <2>1, FS_Subset
<1>6. value \in Surjection(J, RunnerSteps(lines))
  <2> HIDE DEF J
  <2> QED
    BY <1>3 DEF Surjection
<1>7. IsFiniteSet(RunnerSteps(lines))
  <2> HIDE DEF J, value
  <2> QED
    BY <1>5, <1>6, FS_Surjection
<1> QED
  BY <1>3, <1>4, <1>7

(* The longest step of the trailer covers every step that was printed.     *)
LEMMA StepsWithinBudget ==
  ASSUME NEW lines, WholeLog(lines), NEW limit \in Int, limit > 0, NEW disconnect,
         A5bViolations(lines, limit, disconnect) = {}
  PROVE  /\ Has(lines, "RFDBG_A5B_CONNECT_PROFILE_OK")
         /\ \A j \in DOMAIN lines :
              lines[j].m = "RFDBG_A5B_RUNNER_ELAPSED_MS" =>
                Field(lines[j].v, "value") <= limit
<1> DEFINE metrics == A5bMetrics(lines, disconnect)
           x == CHOOSE y \in metrics : TRUE
<1>1. Has(lines, "RFDBG_A5B_CONNECT_PROFILE_OK")
  <2>1. limit # 0
    OBVIOUS
  <2>2. If(limit # 0, <<"missing", "a5b_connect_profile">>) =
          {<<"missing", "a5b_connect_profile">>}
    BY <2>1, Zenon DEF If
  <2> QED
    BY <2>2 DEF A5bViolations
<1>2. MetricsComplete(metrics)
  BY <1>1 DEF A5bViolations
<1>3. ~(limit # 0 /\ x.step > limit)
  <2> DEFINE over == limit # 0 /\ x.step > limit
  <2>1. If(over, <<"budget", "runner_step">>) = {}
    BY <1>1, <1>2 DEF A5bViolations
  <2> QED
    BY <2>1 DEF If
<1>4. x.step = IF RunnerSteps(lines) = {} THEN 0 ELSE Max(RunnerSteps(lines))
  <2>1. metrics # {}
    BY <1>2 DEF MetricsComplete
  <2>2. \A y \in metrics :
          y.step = IF RunnerSteps(lines) = {} THEN 0 ELSE Max(RunnerSteps(lines))
    BY DEF A5bMetrics
  <2> HIDE DEF metrics
  <2> QED
    BY <2>1, <2>2
<1>5. ASSUME NEW j \in DOMAIN lines, lines[j].m = "RFDBG_A5B_RUNNER_ELAPSED_MS"
      PROVE  Field(lines[j].v, "value") <= limit
  <2>1. CASE "value" \notin DOMAIN lines[j].v
    BY <2>1 DEF Field
  <2>2. CASE "value" \in DOMAIN lines[j].v
    <3>1. lines[j].v["value"] \in RunnerSteps(lines)
      BY <1>5, <2>2 DEF RunnerSteps
    <3>2. /\ Max(RunnerSteps(lines)) \in Nat
          /\ lines[j].v["value"] <= Max(RunnerSteps(lines))
          /\ lines[j].v["value"] \in Nat
      BY <3>1, RunnerStepsBounded, MaxIsGreatest
    <3>3. Max(RunnerSteps(lines)) <= limit
      BY <1>3, <1>4, <3>1, <3>2
    <3> QED
      BY <2>2, <3>2, <3>3 DEF Field
  <2> QED
    BY <2>1, <2>2
<1> QED
  BY <1>1, <1>5

-----------------------------------------------------------------------------
(* What a board proved: the conjuncts of ContractProven for one run.       *)
LEMMA AnySequence ==
  ASSUME NEW S, NEW s \in Seq(S)
  PROVE  IsSequence(s)
<1>1. Len(s) \in Nat /\ DOMAIN s = 1 .. Len(s) /\ s \in [1 .. Len(s) -> S]
  BY LenProperties
<1>2. s \in [1 .. Len(s) -> {s[i] : i \in DOMAIN s}]
  BY <1>1
<1> QED
  BY <1>1, <1>2, SeqDef DEF IsSequence

LEMMA BothSequences ==
  ASSUME NEW s, IsSequence(s), NEW t, IsSequence(t)
  PROVE  IsSequence(s \o t)
<1> DEFINE S == {s[i] : i \in DOMAIN s} \union {t[i] : i \in DOMAIN t}
<1>1. s \in Seq(S) /\ t \in Seq(S)
  BY SeqMonotonic DEF IsSequence
<1>2. s \o t \in Seq(S)
  <2> HIDE DEF S
  <2> QED
    BY <1>1, ConcatProperties
<1> HIDE DEF S
<1> QED
  BY <1>2, AnySequence

LEMMA FiveStages ==
  ASSUME NEW a, NEW b, NEW c, NEW d, NEW e
  PROVE  IsSequence(<<a, b, c, d, e>>)
<1>1. <<a, b, c, d, e>> \in Seq({a, b, c, d, e})
  OBVIOUS
<1> QED
  BY <1>1, AnySequence

LEMMA EightStages ==
  ASSUME NEW a, NEW b, NEW c, NEW d, NEW e, NEW f, NEW g, NEW h
  PROVE  IsSequence(<<a, b, c, d, e, f, g, h>>)
<1>1. <<a, b, c, d, e, f, g, h>> \in Seq({a, b, c, d, e, f, g, h})
  OBVIOUS
<1> QED
  BY <1>1, AnySequence

LEMMA StagesAreSequences ==
  \A stage \in {"init-scan", "connect", "connectivity"} : IsSequence(RustStages(stage))
<1>1. IsSequence(<<>>)
  BY NoRows
<1>2. IsSequence(InitScanStages)
  BY FiveStages, Zenon DEF InitScanStages
<1>3. IsSequence(ConnectivityStages)
  BY <1>2, EightStages, BothSequences, Zenon DEF ConnectivityStages
<1> QED
  BY <1>1, <1>2, <1>3 DEF RustStages

LEMMA ContractClean ==
  ASSUME NEW lines, NEW o, RustContract(lines, o) = {}
  PROVE  /\ StageViolations(lines, RustStages(o.stage)) = {}
         /\ \A m \in RustFatal : ~Has(lines, m)
         /\ o.stage # "init-scan" =>
              /\ ReadyOwnershipViolations(lines, "sta") = {}
              /\ A5bViolations(lines, o.limit, o.stage = "connect") = {}
<1>1. /\ {<<"fatal", m>> : m \in {f \in RustFatal : Has(lines, f)}} = {}
      /\ StageViolations(lines, RustStages(o.stage)) = {}
      /\ (IF o.stage = "init-scan" THEN {}
          ELSE ReadyOwnershipViolations(lines, "sta")
               \cup A5bViolations(lines, o.limit, o.stage = "connect")) = {}
  BY DEF RustContract
<1>2. ASSUME NEW m \in RustFatal, Has(lines, m) PROVE FALSE
  <2>1. <<"fatal", m>> \in {<<"fatal", n>> : n \in {f \in RustFatal : Has(lines, f)}}
    BY <1>2, Zenon
  <2> QED
    BY <1>1, <2>1
<1> QED
  BY <1>1, <1>2

LEMMA PeersClean ==
  ASSUME NEW peer, NEW o, o.contract, PeerViolations(peer, o) = {}
  PROVE  \A p \in peer : /\ Has(p, "RFDBG_SOFTAP_READY")
                         /\ ReadyOwnershipViolations(p, "peer") = {}
<1> SUFFICES ASSUME NEW p \in peer
             PROVE  /\ Has(p, "RFDBG_SOFTAP_READY")
                    /\ ReadyOwnershipViolations(p, "peer") = {}
  OBVIOUS
<1> DEFINE V(q) == If(~Has(q, "RFDBG_SOFTAP_READY"), <<"missing", "peer_ready">>)
                   \cup ReadyOwnershipViolations(q, "peer")
<1>1. UNION {V(q) : q \in peer} = {}
  BY DEF PeerViolations
<1>2. V(p) = {}
  <2> HIDE DEF V
  <2>1. V(p) \subseteq UNION {V(q) : q \in peer}
    OBVIOUS
  <2> QED
    BY <1>1, <2>1
<1> QED
  BY <1>2 DEF If

LEMMA PassHasNoViolation ==
  ASSUME NEW lines, NEW peer, NEW o, o.contract, o.profile = "rust",
         RecordFromLog(lines, peer, o).result = "pass"
  PROVE  RustContract(lines, o) = {} /\ PeerViolations(peer, o) = {}
<1> DEFINE violations == RustContract(lines, o) \cup PeerViolations(peer, o)
<1>1. RecordFromLog(lines, peer, o).result =
        IF Verdict(lines, o) = "pass" /\ violations # {}
        THEN "contract_violation" ELSE Verdict(lines, o)
  BY Zenon DEF RecordFromLog
<1>2. violations = {}
  <2> HIDE DEF violations
  <2> QED
    BY <1>1
<1> QED
  BY <1>2

LEMMA PassProves ==
  ASSUME NEW lines, WholeLog(lines), NEW peer, \A p \in peer : WholeLog(p),
         NEW o \in Options, o.contract, o.profile = "rust",
         RecordFromLog(lines, peer, o).result = "pass"
  PROVE  /\ StagesInOrder(lines, RustStages(o.stage))
         /\ \A j \in DOMAIN lines : lines[j].m \notin RustFatal
         /\ o.stage # "init-scan" => NoDrift(lines)
         /\ \A p \in peer : Has(p, "RFDBG_SOFTAP_READY") /\ NoDrift(p)
         /\ o.limit > 0 /\ o.stage # "init-scan" =>
              /\ Has(lines, "RFDBG_A5B_CONNECT_PROFILE_OK")
              /\ \A j \in DOMAIN lines :
                   lines[j].m = "RFDBG_A5B_RUNNER_ELAPSED_MS" =>
                     Field(lines[j].v, "value") <= o.limit
<1>1. IsSequence(lines) /\ \A p \in peer : IsSequence(p)
  BY DEF WholeLog, IsSequence, ToSet
<1>2. RustContract(lines, o) = {} /\ PeerViolations(peer, o) = {}
  BY PassHasNoViolation
<1>3. o.limit \in Int /\ IsSequence(RustStages(o.stage))
  BY OptionsAssumption, StagesAreSequences
<1>4. StagesInOrder(lines, RustStages(o.stage))
  BY <1>1, <1>2, <1>3, ContractClean, NothingMissing
<1>5. \A j \in DOMAIN lines : lines[j].m \notin RustFatal
  BY <1>2, ContractClean DEF Has
<1>6. o.stage # "init-scan" => NoDrift(lines)
  BY <1>1, <1>2, ContractClean, OwnershipClean
<1>7. \A p \in peer : Has(p, "RFDBG_SOFTAP_READY") /\ NoDrift(p)
  BY <1>1, <1>2, PeersClean, OwnershipClean
<1>8. ASSUME o.limit > 0, o.stage # "init-scan"
      PROVE  /\ Has(lines, "RFDBG_A5B_CONNECT_PROFILE_OK")
             /\ \A j \in DOMAIN lines :
                  lines[j].m = "RFDBG_A5B_RUNNER_ELAPSED_MS" =>
                    Field(lines[j].v, "value") <= o.limit
  <2>1. A5bViolations(lines, o.limit, o.stage = "connect") = {}
    BY <1>2, <1>8, ContractClean
  <2> QED
    BY <1>3, <1>8, <2>1, StepsWithinBudget
<1> QED
  BY <1>4, <1>5, <1>6, <1>7, <1>8

-----------------------------------------------------------------------------
(* What the peer printed is still to come, unread, or in its log; the logs *)
(* on disk are whole lines, their counters unsigned.                       *)
PeerInv ==
  /\ peerLeft \in Seq(Seq(PeerPrinted))
  /\ peerRx \in Seq(PeerPrinted) /\ peerLog \in Seq(PeerPrinted)

DiskInv == \A i \in DOMAIN disk : WholeFile(disk[i])

LogsInv == FreshInv /\ ExitInv /\ PeerInv /\ DiskInv

LEMMA PrintedIsWhole ==
  /\ \A s \in Seq(Received) : WholeLog(s)
  /\ \A s \in Seq(PeerPrinted) : WholeLog(s)
<1>1. \A l \in Received : Counters(l)
  <2>1. ASSUME NEW l \in Printed
        PROVE  Counters(l) /\ Counters([l EXCEPT !.stale = TRUE])
    <3>1. Counters(l) /\ "v" \in DOMAIN l
      BY ScriptsAssumption
    <3>2. [l EXCEPT !.stale = TRUE].v = l.v
      BY <3>1
    <3> QED
      BY <3>1, <3>2 DEF Counters
  <2> QED
    BY <2>1 DEF Received
<1>2. \A l \in PeerPrinted : Counters(l)
  BY ScriptsAssumption
<1>3. ASSUME NEW S, \A l \in S : Counters(l), NEW s \in Seq(S)
      PROVE  WholeLog(s)
  <2>1. IsSequence(s) /\ \A i \in DOMAIN s : s[i] \in S
    BY AnySequence, ElementOfSeq, LenProperties
  <2> QED
    BY <1>3, <2>1 DEF WholeLog, IsSequence, ToSet
<1> QED
  BY <1>1, <1>2, <1>3

LEMMA CutAtBoot ==
  ASSUME NEW S, NEW lines \in Seq(S)
  PROVE  CurrentBootLog(lines) \in Seq(S)
<1> DEFINE boots == {i \in DOMAIN lines : lines[i].m = Boot}
           first == Min(boots)
<1>1. DOMAIN lines = 1 .. Len(lines) /\ Len(lines) \in Nat
  BY LenProperties
<1>2. CASE boots = {}
  BY <1>2 DEF CurrentBootLog
<1>3. CASE boots # {}
  <2>1. first \in 1 .. Len(lines)
    <3>1. boots \in SUBSET Nat
      BY <1>1
    <3>2. first \in boots
      <4> HIDE DEF boots
      <4> QED
        BY <1>3, <3>1, LeastIndex
    <3> QED
      BY <1>1, <3>2
  <2>2. CurrentBootLog(lines) = SubSeq(lines, first, Len(lines))
    BY <1>3 DEF CurrentBootLog
  <2> HIDE DEF first
  <2>3. \A i \in first .. Len(lines) : lines[i] \in S
    BY <1>1, <2>1, ElementOfSeq
  <2> QED
    BY <1>1, <2>1, <2>2, <2>3, SubSeqProperties
<1> QED
  BY <1>2, <1>3

LEMMA LogsInvInit == Init => LogsInv
<1> SUFFICES ASSUME Init PROVE LogsInv
  OBVIOUS
<1>1. FreshInv /\ ExitInv
  BY PortInvInit, CountInvInit, FilesInvInit, ExitInvInit DEF FreshInv
<1>2. PeerInv
  BY EmptySeq DEF Init, PeerInv
<1>3. opt \in Options /\ disk = opt.files
  BY DEF Init
<1>4. DiskInv
  <2>1. ASSUME NEW i \in DOMAIN disk
        PROVE  WholeFile(disk[i])
    <3>1. disk[i] \in ToSet(opt.files)
      BY <1>3 DEF ToSet
    <3> QED
      BY <1>3, <3>1, OptionsAssumption
  <2> QED
    BY <2>1 DEF DiskInv
<1> QED
  BY <1>1, <1>2, <1>4 DEF LogsInv

LEMMA PeerInvNext == PeerInv /\ [Next]_vars => PeerInv'
<1> SUFFICES ASSUME PeerInv, [Next]_vars PROVE PeerInv'
  OBVIOUS
<1> USE DEF PeerInv
<1>0. <<>> \in Seq(PeerPrinted) /\ peerLog \o peerRx \in Seq(PeerPrinted)
  BY EmptySeq, ConcatProperties
<1>1. CASE PeerPrints
  <2>1. /\ peerLeft # <<>> /\ peerLeft' = Tail(peerLeft) /\ peerLog' = peerLog
        /\ peerRx' = peerRx \o Head(peerLeft)
    BY <1>1 DEF PeerPrints
  <2>2. Head(peerLeft) \in Seq(PeerPrinted) /\ Tail(peerLeft) \in Seq(Seq(PeerPrinted))
    BY <2>1, HeadTailProperties
  <2> QED
    BY <2>1, <2>2, ConcatProperties
<1>2. CASE PulsePeer
  BY <1>2, ScriptsAssumption DEF PulsePeer
<1>3. CASE DeadlinePassed \/ PostTerminalElapsed
  <2>1. /\ peerLog' = CurrentBootLog(peerLog \o peerRx) /\ peerRx' = <<>>
        /\ peerLeft' = peerLeft
    BY <1>3 DEF DeadlinePassed, PostTerminalElapsed, LoopEnds
  <2> QED
    BY <1>0, <2>1, CutAtBoot
<1>4. CASE DrainPeer \/ Read
  BY <1>0, <1>4 DEF DrainPeer, Read
<1>5. CASE ResetInput \/ Reopen \/ RecordRun
  BY <1>0, <1>5 DEF ResetInput, Reopen, RecordRun, peerPort
<1>6. CASE \/ Start \/ SettleElapsed \/ PulseTarget \/ PulseFails \/ DrainFails
           \/ ReadFails \/ ReopenFails \/ WriteRun \/ AnalyzeRun \/ Summarize
           \/ TargetPrints \/ UNCHANGED vars
  BY <1>6 DEF Start, SettleElapsed, PulseTarget, PulseFails, DrainFails, ReadFails,
              ReopenFails, WriteRun, AnalyzeRun, Summarize, TargetPrints, vars, peerPort
<1> QED
  BY <1>1, <1>2, <1>3, <1>4, <1>5, <1>6 DEF Next, CaptureStep

LEMMA DiskInvNext == LogsInv /\ [Next]_vars => DiskInv'
<1> SUFFICES ASSUME LogsInv, [Next]_vars PROVE DiskInv'
  OBVIOUS
<1>1. CASE WriteRun
  <2> DEFINE peer == PeerOfRun
             entry == [log |-> log, peer |-> peer, booted |-> bootSeen, mixed |-> staleBoot]
  <2>1. pc = "write" /\ disk' = Append(disk, entry) /\ IsSequence(disk)
    BY <1>1 DEF WriteRun, LogsInv, FreshInv, FilesInv
  <2>2. entry.log = log /\ entry.peer = peer
    OBVIOUS
  <2>3. WholeFile(entry)
    <3>1. log \in Seq(Received) /\ peerLog \in Seq(PeerPrinted)
      BY <2>1 DEF LogsInv, FreshInv, PortInv, PeerInv, Capturing
    <3>2. WholeLog(log) /\ \A p, q \in peer : WholeLog(p) /\ p = q
      BY <3>1, PrintedIsWhole DEF PeerOfRun
    <3> HIDE DEF entry
    <3> QED
      BY <2>2, <3>2 DEF WholeFile
  <2> HIDE DEF entry
  <2>4. /\ DOMAIN disk' = 1 .. Len(disk) + 1 /\ DOMAIN disk = 1 .. Len(disk)
        /\ Len(disk) \in Nat /\ disk'[Len(disk) + 1] = entry
        /\ \A i \in 1 .. Len(disk) : disk'[i] = disk[i]
    BY <2>1, AppendSequence, SequenceLength
  <2>5. ASSUME NEW i \in DOMAIN disk'
        PROVE  WholeFile(disk'[i])
    <3>1. i = Len(disk) + 1 \/ i \in DOMAIN disk
      BY <2>4
    <3> QED
      BY <2>3, <2>4, <3>1 DEF LogsInv, DiskInv
  <2> QED
    BY <2>5 DEF DiskInv
<1>2. CASE ~WriteRun
  <2>1. disk' = disk
    BY <1>2 DEF Next, CaptureStep, Start, ResetInput, PulsePeer, SettleElapsed,
                PulseTarget, Reopen, DeadlinePassed, PostTerminalElapsed, LoopEnds,
                DrainPeer, Read, PulseFails, DrainFails, ReadFails, ReopenFails,
                RecordRun, AnalyzeRun, Summarize, TargetPrints, PeerPrints, vars, results
  <2> QED
    BY <2>1 DEF LogsInv, DiskInv
<1> QED
  BY <1>1, <1>2

LEMMA LogsInvNext == LogsInv /\ [Next]_vars => LogsInv'
BY PortInvNext, CountInvNext, FilesInvNext, ExitInvNext, PeerInvNext, DiskInvNext
   DEF LogsInv, FreshInv

(* A run that passes under --require-contract proved every stage in order, *)
(* no failure, no drift on either board and no step above the budget, in   *)
(* the log that is on disk: validate_rust_contract and record_from_log.    *)
THEOREM ContractsProven == Spec => []ContractProven
<1>1. Init => LogsInv
  BY LogsInvInit
<1>2. LogsInv /\ [Next]_vars => LogsInv'
  BY LogsInvNext
<1>3. LogsInv => ContractProven
  <2> SUFFICES ASSUME LogsInv, pc = "summarize", opt.contract, opt.profile = "rust",
                      NEW i \in DOMAIN records, records[i].result = "pass"
               PROVE  LET lines == disk[i].log
                      IN  /\ StagesInOrder(lines, RustStages(opt.stage))
                          /\ \A j \in DOMAIN lines : lines[j].m \notin RustFatal
                          /\ opt.stage # "init-scan" => NoDrift(lines)
                          /\ \A p \in disk[i].peer :
                               Has(p, "RFDBG_SOFTAP_READY") /\ NoDrift(p)
                          /\ opt.limit > 0 /\ opt.stage # "init-scan" =>
                               /\ Has(lines, "RFDBG_A5B_CONNECT_PROFILE_OK")
                               /\ \A j \in DOMAIN lines :
                                    lines[j].m = "RFDBG_A5B_RUNNER_ELAPSED_MS" =>
                                      Field(lines[j].v, "value") <= opt.limit
    BY Zenon DEF ContractProven
  <2>1. /\ opt \in Options
        /\ records[i] = RecordFromLog(disk[i].log, disk[i].peer, opt)
        /\ i \in DOMAIN disk
    BY SequenceLength DEF LogsInv, ExitInv, RecordsInv, ProgressInv
  <2>2. WholeLog(disk[i].log) /\ \A p \in disk[i].peer : WholeLog(p)
    BY <2>1 DEF LogsInv, DiskInv, WholeFile
  <2>3. RecordFromLog(disk[i].log, disk[i].peer, opt).result = "pass"
    BY <2>1
  <2> QED
    BY <2>1, <2>2, <2>3, PassProves, Zenon
<1> QED
  BY <1>1, <1>2, <1>3, PTL DEF Spec

-----------------------------------------------------------------------------
(* Finite sums, as MapThenSumSet computes them: one element after another. *)
Picked(T) == CHOOSE x \in T : TRUE

Sums(S, f, g) ==
  /\ g[{}] = 0
  /\ \A T \in SUBSET S : T # {} => g[T] = f[Picked(T)] + g[T \ {Picked(T)}]

(* A property of subsets that fails fails first at a smallest one.         *)
LEMMA SmallestSubset ==
  ASSUME NEW S, IsFiniteSet(S), NEW Bad \in SUBSET (SUBSET S), Bad # {}
  PROVE  \E T \in Bad : T # {} => Picked(T) \in T /\ T \ {Picked(T)} \notin Bad
<1> DEFINE Sizes == {Cardinality(T) : T \in Bad}
<1>1. \A T \in SUBSET S : IsFiniteSet(T) /\ Cardinality(T) \in Nat
  BY FS_Subset, FS_CardinalityType
<1>2. Sizes # {} /\ Sizes \in SUBSET Nat
  BY <1>1
<1>3. PICK n \in Sizes : \A k \in Sizes : n <= k
  <2> HIDE DEF Sizes
  <2> QED
    BY <1>2, LeastNatural
<1>4. PICK T \in Bad : n = Cardinality(T)
  OBVIOUS
<1>5. ASSUME T # {}
      PROVE  Picked(T) \in T /\ T \ {Picked(T)} \notin Bad
  <2>1. Picked(T) \in T
    BY <1>5 DEF Picked
  <2>2. Cardinality(T \ {Picked(T)}) = Cardinality(T) - 1
    BY <1>1, <2>1, FS_RemoveElement
  <2>3. ~(n <= Cardinality(T \ {Picked(T)}))
    BY <1>1, <1>4, <2>2
  <2>4. Cardinality(T \ {Picked(T)}) \notin Sizes
    BY <1>3, <2>3
  <2> QED
    BY <2>1, <2>4
<1> QED
  BY <1>5

LEMMA SumExists ==
  ASSUME NEW S, IsFiniteSet(S), NEW f \in [S -> Nat]
  PROVE  \E g \in [SUBSET S -> Nat] : Sums(S, f, g)
<1> DEFINE n == Cardinality(S)
           V == [SUBSET S -> Nat]
           base == [T \in SUBSET S |-> 0]
           Add(k, h) == [T \in SUBSET S |->
             IF Cardinality(T) = k /\ T # {}
             THEN f[Picked(T)] + h[T \ {Picked(T)}] ELSE h[T]]
           step == [k \in 1 .. n |-> [h \in V |-> Add(k, h)]]
<1>1. n \in Nat /\ \A T \in SUBSET S : Cardinality(T) \in 0 .. n /\ IsFiniteSet(T)
  <2>1. \A T \in SUBSET S : Cardinality(T) \in Nat /\ Cardinality(T) <= n
    BY FS_Subset, FS_CardinalityType
  <2>2. n \in Nat
    BY FS_CardinalityType
  <2> QED
    BY <2>1, <2>2, FS_Subset
<1>2. \A T \in SUBSET S : T # {} => Picked(T) \in T
  BY DEF Picked
<1>3. \A k \in 1 .. n : \A h \in V : Add(k, h) \in V
  <2> TAKE k \in 1 .. n
  <2> TAKE h \in V
  <2>1. \A T \in SUBSET S : T # {} =>
          f[Picked(T)] \in Nat /\ h[T \ {Picked(T)}] \in Nat
    BY <1>2
  <2>2. \A a, b \in Nat : a + b \in Nat
    OBVIOUS
  <2> QED
    BY <2>1, <2>2
<1>4. step \in [1 .. n -> [V -> V]] /\ base \in V
  <2>1. base \in V
    OBVIOUS
  <2> HIDE DEF Add, V, n
  <2> QED
    BY <1>3, <2>1
<1>5. Solvable(n, V, base, step)
  <2> HIDE DEF step, V, n, base
  <2> QED
    BY <1>1, <1>4, RecursionExists
<1>6. PICK F \in [0 .. n -> V] : F[0] = base /\ \A k \in 1 .. n : F[k] = step[k][F[k - 1]]
  <2> HIDE DEF step, V, n, base
  <2> QED
    BY <1>5 DEF Solvable
<1>7. \A k \in 1 .. n : F[k - 1] \in V /\ F[k] = Add(k, F[k - 1])
  <2>1. \A k \in 1 .. n : \A h \in V : step[k][h] = Add(k, h)
    <3> HIDE DEF Add, V
    <3> QED
      OBVIOUS
  <2>2. \A k \in 1 .. n : F[k - 1] \in V
    <3>1. \A k \in 1 .. n : k - 1 \in 0 .. n
      BY <1>1
    <3> HIDE DEF V, n
    <3> QED
      BY <3>1
  <2> HIDE DEF Add, step, V
  <2> QED
    BY <1>6, <2>1, <2>2
<1> DEFINE g == [T \in SUBSET S |-> F[Cardinality(T)][T]]
<1>8. g \in [SUBSET S -> Nat]
  <2>1. \A T \in SUBSET S : F[Cardinality(T)] \in V
    BY <1>1
  <2> QED
    BY <2>1
<1>9. g[{}] = 0
  BY <1>6, FS_EmptySet
<1>10. ASSUME NEW T \in SUBSET S, T # {}
       PROVE  g[T] = f[Picked(T)] + g[T \ {Picked(T)}]
  <2> DEFINE c == Cardinality(T)
             U == T \ {Picked(T)}
  <2>1. Cardinality(U) = c - 1 /\ U \in SUBSET S /\ c \in Nat
    <3>1. IsFiniteSet(T) /\ Picked(T) \in T /\ c \in Nat
      BY <1>1, <1>2, <1>10
    <3> QED
      BY <3>1, FS_RemoveElement
  <2>2. c \in 1 .. n
    <3>1. c # 0
      BY <1>1, <1>10, FS_EmptySet
    <3> QED
      BY <1>1, <3>1
  <2>3. F[c] = Add(c, F[c - 1])
    BY <1>7, <2>2
  <2>4. F[c][T] = f[Picked(T)] + F[c - 1][U]
    BY <1>10, <2>3
  <2>5. g[T] = F[c][T] /\ g[U] = F[c - 1][U]
    <3> HIDE DEF U
    <3> QED
      BY <2>1
  <2> QED
    BY <2>4, <2>5
<1> HIDE DEF g
<1> QED
  BY <1>8, <1>9, <1>10 DEF Sums

(* The recursion of MapThenFoldSet has that solution.                      *)
LEMMA SumSolves ==
  ASSUME NEW S, IsFiniteSet(S), NEW f \in [S -> Nat], NEW it,
         it = CHOOSE g : g = [T \in SUBSET S |->
                IF T = {} THEN 0
                ELSE f[CHOOSE x \in T : TRUE] + g[T \ {CHOOSE x \in T : TRUE}]]
  PROVE  Sums(S, f, it)
<1> DEFINE Solution(g) == g = [T \in SUBSET S |->
             IF T = {} THEN 0 ELSE f[Picked(T)] + g[T \ {Picked(T)}]]
<1>1. PICK g \in [SUBSET S -> Nat] : Sums(S, f, g)
  BY SumExists
<1>2. Solution(g)
  <2>1. \A T \in SUBSET S : g[T] = IF T = {} THEN 0 ELSE f[Picked(T)] + g[T \ {Picked(T)}]
    BY <1>1 DEF Sums
  <2> QED
    BY <2>1
<1>3. it = CHOOSE h : Solution(h)
  BY DEF Picked
<1>4. Solution(it)
  <2> HIDE DEF Solution
  <2> QED
    BY <1>2, <1>3
<1>5. \A T \in SUBSET S : it[T] = IF T = {} THEN 0 ELSE f[Picked(T)] + it[T \ {Picked(T)}]
  BY <1>4, Zenon
<1> QED
  BY <1>5 DEF Sums

LEMMA SumIsNatural ==
  ASSUME NEW S, IsFiniteSet(S), NEW f \in [S -> Nat], NEW g, Sums(S, f, g)
  PROVE  \A T \in SUBSET S : g[T] \in Nat
<1> DEFINE Bad == {T \in SUBSET S : g[T] \notin Nat}
<1> SUFFICES ASSUME Bad # {} PROVE FALSE
  OBVIOUS
<1>1. PICK T \in Bad : T # {} => Picked(T) \in T /\ T \ {Picked(T)} \notin Bad
  <2>1. Bad \in SUBSET (SUBSET S)
    OBVIOUS
  <2> HIDE DEF Bad
  <2> QED
    BY <2>1, SmallestSubset
<1>2. T # {} /\ T \in SUBSET S
  <2>1. g[{}] = 0
    BY DEF Sums
  <2> QED
    BY <2>1
<1>3. f[Picked(T)] \in Nat /\ g[T \ {Picked(T)}] \in Nat
  BY <1>1, <1>2
<1>4. g[T] = f[Picked(T)] + g[T \ {Picked(T)}]
  BY <1>2 DEF Sums
<1>5. g[T] \in Nat
  BY <1>3, <1>4
<1> QED
  BY <1>5

(* What holds for each element holds for the sums.                         *)
LEMMA SumsAddUp ==
  ASSUME NEW S, IsFiniteSet(S),
         NEW a \in [S -> Nat], NEW A, Sums(S, a, A),
         NEW b \in [S -> Nat], NEW B, Sums(S, b, B),
         NEW c \in [S -> Nat], NEW C, Sums(S, c, C),
         \A x \in S : a[x] <= b[x] + c[x]
  PROVE  A[S] <= B[S] + C[S]
<1> DEFINE Bad == {T \in SUBSET S : ~(A[T] <= B[T] + C[T])}
<1>1. \A T \in SUBSET S : A[T] \in Nat /\ B[T] \in Nat /\ C[T] \in Nat
  BY SumIsNatural
<1> SUFFICES ASSUME Bad # {} PROVE FALSE
  OBVIOUS
<1>2. PICK T \in Bad : T # {} => Picked(T) \in T /\ T \ {Picked(T)} \notin Bad
  <2>1. Bad \in SUBSET (SUBSET S)
    OBVIOUS
  <2> HIDE DEF Bad
  <2> QED
    BY <2>1, SmallestSubset
<1>3. T # {} /\ T \in SUBSET S
  <2>1. A[{}] = 0 /\ B[{}] = 0 /\ C[{}] = 0
    BY DEF Sums
  <2>2. A[{}] <= B[{}] + C[{}]
    BY <2>1
  <2> QED
    BY <2>2
<1> DEFINE x == Picked(T)
           U == T \ {Picked(T)}
<1>4. x \in S /\ U \in SUBSET S /\ A[U] <= B[U] + C[U]
  BY <1>2, <1>3
<1>5. A[T] = a[x] + A[U] /\ B[T] = b[x] + B[U] /\ C[T] = c[x] + C[U]
  BY <1>3 DEF Sums
<1> HIDE DEF x, U
<1>6. A[T] <= B[T] + C[T]
  <2>1. /\ a[x] \in Nat /\ b[x] \in Nat /\ c[x] \in Nat /\ a[x] <= b[x] + c[x]
        /\ A[U] \in Nat /\ B[U] \in Nat /\ C[U] \in Nat
    BY <1>1, <1>4
  <2> QED
    BY <1>4, <1>5, <2>1
<1> QED
  BY <1>6

(* The parts of a finite set count as many as the whole.                   *)
LEMMA TallyCountsAll ==
  ASSUME NEW D, IsFiniteSet(D), NEW key, NEW count, NEW total,
         count = [k \in {key[i] : i \in D} |-> Cardinality({i \in D : key[i] = k})],
         Sums({key[i] : i \in D}, count, total), IsFiniteSet({key[i] : i \in D})
  PROVE  total[{key[i] : i \in D}] = Cardinality(D)
<1> DEFINE K == {key[i] : i \in D}
           Part(T) == {i \in D : key[i] \in T}
           Bad == {T \in SUBSET K : total[T] # Cardinality(Part(T))}
<1>1. Part(K) = D
  OBVIOUS
<1> SUFFICES ASSUME Bad # {} PROVE FALSE
  BY <1>1
<1>2. PICK T \in Bad : T # {} => Picked(T) \in T /\ T \ {Picked(T)} \notin Bad
  <2>1. Bad \in SUBSET (SUBSET K)
    OBVIOUS
  <2> HIDE DEF Bad, K
  <2> QED
    BY <2>1, SmallestSubset DEF K
<1>3. T # {} /\ T \in SUBSET K
  <2>1. Part({}) = {} /\ total[{}] = 0
    BY DEF Sums
  <2> QED
    BY <2>1, FS_EmptySet
<1> DEFINE x == Picked(T)
           U == T \ {Picked(T)}
           here == {i \in D : key[i] = x}
<1>4. x \in K /\ x \in T /\ U \in SUBSET K /\ total[U] = Cardinality(Part(U))
  BY <1>2, <1>3
<1>5. total[T] = count[x] + total[U] /\ count[x] = Cardinality(here)
  BY <1>3, <1>4 DEF Sums
<1>6. Part(T) = here \union Part(U) /\ here \cap Part(U) = {}
  BY <1>4
<1>7. IsFiniteSet(here) /\ IsFiniteSet(Part(U))
  <2>1. here \in SUBSET D /\ Part(U) \in SUBSET D
    OBVIOUS
  <2> HIDE DEF here, Part, U
  <2> QED
    BY <2>1, FS_Subset
<1>8. Cardinality(Part(T)) = Cardinality(here) + Cardinality(Part(U))
  <2> HIDE DEF here, Part, U
  <2>1. Cardinality(here \union Part(U)) =
          Cardinality(here) + Cardinality(Part(U)) - Cardinality(here \cap Part(U))
    BY <1>7, FS_Union
  <2>2. Cardinality(here \cap Part(U)) = 0
    BY <1>6, FS_EmptySet
  <2>3. Cardinality(here) \in Nat /\ Cardinality(Part(U)) \in Nat
    BY <1>7, FS_CardinalityType
  <2> QED
    BY <1>6, <2>1, <2>2, <2>3
<1> HIDE DEF here, Part, U, x
<1>9. total[T] = Cardinality(Part(T))
  BY <1>4, <1>5, <1>8
<1> QED
  BY <1>9

-----------------------------------------------------------------------------
(* The aggregates.                                                         *)
LEMMA ImageFinite ==
  ASSUME NEW S, IsFiniteSet(S), NEW f
  PROVE  IsFiniteSet({f[x] : x \in S})
<1> DEFINE T == {f[x] : x \in S}
           h == [x \in S |-> f[x]]
<1>1. h \in Surjection(S, T)
  BY DEF Surjection
<1> QED
  BY <1>1, FS_Surjection

LEMMA IndicesFinite ==
  ASSUME NEW s, IsSequence(s), NEW I \in SUBSET DOMAIN s
  PROVE  IsFiniteSet(I)
<1>1. DOMAIN s = 1 .. Len(s) /\ Len(s) \in Nat
  BY SequenceLength
<1>2. IsFiniteSet(1 .. Len(s))
  BY <1>1, FS_Interval
<1> QED
  BY <1>1, <1>2, FS_Subset

(* MinMax of a finite set of naturals bounds its elements.                 *)
Inside(x, r) == r.min <= x /\ x <= r.max

LEMMA MinMaxBounds ==
  ASSUME NEW S \in SUBSET Nat, IsFiniteSet(S), NEW x \in S
  PROVE  Inside(x, MinMax(S))
BY LeastIndex, MaxIsGreatest DEF MinMax, Inside

(* A range of a counter holds its value in every sample.                   *)
LEMMA RangeHolds ==
  ASSUME NEW samples, IsFiniteSet(samples), NEW fields, NEW f \in fields,
         \A y \in samples : f \in DOMAIN y => y[f] \in Nat,
         NEW x \in samples, f \in DOMAIN x
  PROVE  Inside(x[f], Ranges(samples, fields)[f])
<1> DEFINE having == {y \in samples : f \in DOMAIN y}
           value == [y \in having |-> y[f]]
           values == {y[f] : y \in having}
<1>1. Ranges(samples, fields)[f] = MinMax(values)
  BY DEF Ranges
<1>2. IsFiniteSet(having)
  BY FS_Subset
<1>3. values = {value[y] : y \in having}
  OBVIOUS
<1>4. IsFiniteSet(values)
  <2> HIDE DEF having, value, values
  <2> QED
    BY <1>2, <1>3, ImageFinite
<1>5. values \in SUBSET Nat /\ x[f] \in values
  OBVIOUS
<1> HIDE DEF values
<1> QED
  BY <1>1, <1>4, <1>5, MinMaxBounds

LEMMA CountersAreNatural ==
  ASSUME NEW lines, WholeLog(lines), NEW m
  PROVE  \A k \in DOMAIN Values(lines, m) : Values(lines, m)[k] \in Nat
<1> DEFINE I == {i \in 1 .. Len(lines) : Fielded(lines[i], {m})}
<1>1. IsSequence(lines) /\ \A i \in DOMAIN lines : Counters(lines[i])
  BY DEF WholeLog, IsSequence, ToSet
<1>2. DOMAIN lines = 1 .. Len(lines) /\ Len(lines) \in Nat
  BY <1>1, SequenceLength
<1>3. LastPrefixed(lines, {m}) = IF I # {} THEN Max(I) ELSE 0
  BY DEF LastPrefixed, SelectLastInSeq
<1>4. CASE I = {}
  BY <1>3, <1>4 DEF Values, None
<1>5. CASE I # {}
  <2>1. Max(I) \in I
    <3>1. I \in SUBSET Nat /\ IsFiniteSet(I)
      BY <1>1, <1>2, IndicesFinite
    <3> HIDE DEF I
    <3> QED
      BY <1>5, <3>1, MaxIsGreatest
  <2>2. Values(lines, m) = lines[Max(I)].v
    <3>1. Max(I) # 0
      BY <2>1
    <3> HIDE DEF I
    <3> QED
      BY <1>3, <1>5, <3>1 DEF Values
  <2>3. Counters(lines[Max(I)])
    BY <1>1, <1>2, <2>1
  <2> QED
    BY <2>2, <2>3 DEF Counters
<1> QED
  BY <1>4, <1>5

(* aggregate_l2_protocol_diagnostics: each run's last snapshot.            *)
LEMMA L2Held ==
  ASSUME NEW rows, IsSequence(rows), NEW logs,
         \A i \in DOMAIN rows : /\ WholeLog(logs[i])
                                /\ rows[i].l2_protocol = L2Protocol(logs[i]),
         NEW i \in DOMAIN rows,
         NEW f \in L2Fields \cap DOMAIN Values(logs[i], "RFDBG_A5B_L2")
  PROVE  Inside(Values(logs[i], "RFDBG_A5B_L2")[f], L2Ranges(rows)[f])
<1> DEFINE seen == {j \in DOMAIN rows : rows[j].l2_protocol # {}}
           Newest(j) == [k \in L2Fields \cap DOMAIN Values(logs[j], "RFDBG_A5B_L2") |->
                         Values(logs[j], "RFDBG_A5B_L2")[k]]
           last == [j \in seen |-> Newest(j)]
           samples == UNION {rows[j].l2_protocol : j \in DOMAIN rows}
<1>1. \A j \in DOMAIN rows :
        rows[j].l2_protocol = IF LastPrefixed(logs[j], {"RFDBG_A5B_L2"}) = 0 THEN {}
                              ELSE {Newest(j)}
  BY DEF L2Protocol
<1>2. \A j \in seen : rows[j].l2_protocol = {Newest(j)} /\ j \in DOMAIN rows
  <2> HIDE DEF Newest
  <2> QED
    BY <1>1
<1>3. samples = {last[j] : j \in seen}
  <2>1. \A j \in DOMAIN rows : rows[j].l2_protocol = {} \/ j \in seen
    OBVIOUS
  <2>2. \A j \in seen : last[j] = Newest(j)
    OBVIOUS
  <2> HIDE DEF Newest, last
  <2> QED
    BY <1>2, <2>1, <2>2
<1>4. IsFiniteSet(samples)
  <2>1. IsFiniteSet(seen)
    BY IndicesFinite
  <2> HIDE DEF seen, last, samples
  <2> QED
    BY <1>3, <2>1, ImageFinite
<1>5. i \in seen
  <2>1. LastPrefixed(logs[i], {"RFDBG_A5B_L2"}) # 0
    BY DEF Values, None
  <2> HIDE DEF Newest
  <2> QED
    BY <1>1, <2>1
<1>6. Newest(i) \in samples /\ f \in DOMAIN Newest(i)
      /\ Newest(i)[f] = Values(logs[i], "RFDBG_A5B_L2")[f]
  <2>1. Newest(i) \in samples
    <3> HIDE DEF Newest
    <3> QED
      BY <1>2, <1>5
  <2> QED
    BY <2>1
<1>7. ASSUME NEW y \in samples, f \in DOMAIN y PROVE y[f] \in Nat
  <2>1. PICK j \in seen : y = Newest(j)
    BY <1>3
  <2>2. f \in DOMAIN Values(logs[j], "RFDBG_A5B_L2")
        /\ y[f] = Values(logs[j], "RFDBG_A5B_L2")[f]
    BY <1>7, <2>1
  <2> QED
    BY <2>2, CountersAreNatural
<1>8. L2Ranges(rows) = Ranges(samples, L2Fields)
  BY DEF L2Ranges
<1> HIDE DEF samples, Newest
<1> QED
  BY <1>4, <1>6, <1>7, <1>8, RangeHolds

(* The snapshots of a log are lines of it, in a sequence.                  *)
LEMMA SnapshotsAreLines ==
  ASSUME NEW lines, IsSequence(lines), NEW m
  PROVE  /\ IsSequence(Snapshots(lines, m))
         /\ \A j \in DOMAIN Snapshots(lines, m) :
              \E i \in DOMAIN lines : /\ Snapshots(lines, m)[j] = lines[i]
                                      /\ lines[i].m = m
<1> DEFINE n == Len(lines)
           X == {lines[i] : i \in {j \in DOMAIN lines : lines[j].m = m}}
           V == Seq(X)
           More(k, s) == IF Fielded(lines[k], {m}) THEN Append(s, lines[k]) ELSE s
           step == [k \in 1 .. n |-> [s \in V |-> More(k, s)]]
           samples[i \in 0 .. n] ==
             IF i = 0 THEN <<>>
             ELSE IF Fielded(lines[i], {m}) THEN Append(samples[i - 1], lines[i])
             ELSE samples[i - 1]
           Solution(g) == g = [i \in 0 .. n |->
             IF i = 0 THEN <<>>
             ELSE IF Fielded(lines[i], {m}) THEN Append(g[i - 1], lines[i])
             ELSE g[i - 1]]
<1>1. n \in Nat /\ DOMAIN lines = 1 .. n
  BY SequenceLength
<1>2. \A k \in 1 .. n : \A s \in V : More(k, s) \in V
  <2>1. ASSUME NEW k \in 1 .. n, Fielded(lines[k], {m}) PROVE lines[k] \in X
    BY <1>1, <2>1 DEF Fielded
  <2> HIDE DEF X
  <2> QED
    BY <2>1, AppendProperties
<1>3. step \in [1 .. n -> [V -> V]] /\ <<>> \in V
  <2>1. <<>> \in V
    BY EmptySeq
  <2> HIDE DEF More, V
  <2> QED
    BY <1>2, <2>1
<1>4. Solvable(n, V, <<>>, step)
  <2> HIDE DEF step, V, n
  <2> QED
    BY <1>1, <1>3, RecursionExists
<1>5. PICK f \in [0 .. n -> V] : f[0] = <<>> /\ \A k \in 1 .. n : f[k] = step[k][f[k - 1]]
  <2> HIDE DEF step, V
  <2> QED
    BY <1>4 DEF Solvable
<1>6. Solution(f)
  <2>1. \A k \in 1 .. n : f[k - 1] \in V
    <3>1. \A k \in 1 .. n : k - 1 \in 0 .. n
      BY <1>1
    <3> HIDE DEF V, n
    <3> QED
      BY <3>1
  <2>2. \A k \in 1 .. n : \A s \in V : step[k][s] = More(k, s)
    <3> HIDE DEF More, V
    <3> QED
      OBVIOUS
  <2>3. \A k \in 1 .. n : f[k] = More(k, f[k - 1])
    <3> HIDE DEF More, step, V
    <3> QED
      BY <1>5, <2>1, <2>2
  <2>4. ASSUME NEW k \in 0 .. n
        PROVE  f[k] = IF k = 0 THEN <<>>
                      ELSE IF Fielded(lines[k], {m}) THEN Append(f[k - 1], lines[k])
                      ELSE f[k - 1]
    <3>1. k = 0 \/ k \in 1 .. n
      BY <1>1
    <3> QED
      BY <1>5, <2>3, <3>1
  <2> HIDE DEF V
  <2> QED
    BY <2>4
<1>7. Solution(samples)
  <2>1. samples = CHOOSE g : Solution(g)
    OBVIOUS
  <2> HIDE DEF samples, Solution
  <2> QED
    BY <1>6, <2>1
<1>8. samples[0] = <<>> /\ \A k \in 1 .. n : samples[k] = More(k, samples[k - 1])
  <2>1. \A k \in 0 .. n :
          samples[k] = IF k = 0 THEN <<>>
                       ELSE IF Fielded(lines[k], {m}) THEN Append(samples[k - 1], lines[k])
                       ELSE samples[k - 1]
    <3> HIDE DEF samples
    <3> QED
      BY <1>7, Zenon
  <2>2. 0 \in 0 .. n /\ \A k \in 1 .. n : k \in 0 .. n /\ k # 0
    BY <1>1
  <2> HIDE DEF samples
  <2> QED
    BY <2>1, <2>2, Zenon
<1>9. Snapshots(lines, m) = samples[n]
  BY DEF Snapshots
<1> HIDE DEF samples
<1>10. samples[n] \in V
  <2> DEFINE Outside == {k \in 0 .. n : samples[k] \notin V}
  <2>1. SUFFICES ASSUME Outside # {} PROVE FALSE
    <3>1. n \in 0 .. n
      BY <1>1
    <3> HIDE DEF V
    <3> QED
      BY <3>1
  <2>2. PICK k \in Outside : \A j \in Outside : k <= j
    <3>1. Outside \in SUBSET Nat
      OBVIOUS
    <3> HIDE DEF Outside
    <3> QED
      BY <2>1, <3>1, LeastNatural
  <2>3. k \in 1 .. n /\ k - 1 \in 0 .. n /\ ~(k <= k - 1)
    <3>1. k # 0
      <4> HIDE DEF V
      <4> QED
        BY <1>3, <1>8, <2>2
    <3>2. k \in 0 .. n
      OBVIOUS
    <3> QED
      BY <1>1, <3>1, <3>2
  <2>4. samples[k - 1] \in V
    BY <2>2, <2>3
  <2>5. samples[k] \in V
    <3> HIDE DEF V, More
    <3> QED
      BY <1>2, <1>8, <2>3, <2>4
  <2> QED
    BY <2>2, <2>5
<1>11. IsSequence(samples[n])
  BY <1>10, AnySequence
<1>12. ASSUME NEW j \in DOMAIN samples[n] PROVE samples[n][j] \in X
  <2> HIDE DEF X
  <2> QED
    BY <1>10, <1>12, ElementOfSeq, LenProperties
<1> QED
  BY <1>9, <1>11, <1>12

-----------------------------------------------------------------------------
(* Counters of the echo path are of one width, and so are their advances.  *)
LEMMA ModUnique ==
  ASSUME NEW m \in Nat \ {0}, NEW q \in Int, NEW r \in 0 .. m - 1,
         NEW n \in Int, n = m * q + r
  PROVE  n % m = r
BY SMT

LEMMA AdvanceOfCounter ==
  ASSUME NEW m \in Nat \ {0}, NEW a \in 0 .. m - 1, NEW b \in 0 .. m - 1
  PROVE  (b - a) % m \in 0 .. m - 1 /\ (a + ((b - a) % m)) % m = b
<1>1. CASE a <= b
  <2>1. b - a = m * 0 + (b - a) /\ b - a \in 0 .. m - 1 /\ b = m * 0 + b
    BY <1>1
  <2>2. (b - a) % m = b - a
    BY <2>1, ModUnique
  <2>3. a + (b - a) = b /\ b % m = b
    BY <2>1, ModUnique
  <2> QED
    BY <2>1, <2>2, <2>3
<1>2. CASE b < a
  <2> DEFINE d == b - a + m
  <2>1. b - a = m * (-1) + d /\ d \in 0 .. m - 1 /\ a + d = m * 1 + b
    BY <1>2
  <2>2. (b - a) % m = d
    <3> HIDE DEF d
    <3> QED
      BY <2>1, ModUnique
  <2>3. (a + d) % m = b
    <3>1. a + d \in Int
      OBVIOUS
    <3> HIDE DEF d
    <3> QED
      BY <2>1, <3>1, ModUnique
  <2> QED
    BY <2>1, <2>2, <2>3
<1> QED
  BY <1>1, <1>2

LEMMA EchoCounters ==
  ASSUME NEW lines, WholeLog(lines)
  PROVE  LET echo == LocalEchoPath(lines)
         IN  /\ IsSequence(echo)
             /\ \A j \in DOMAIN echo : \A f \in DOMAIN echo[j].v :
                  echo[j].v[f] \in 0 .. Word - 1
<1> DEFINE echo == LocalEchoPath(lines)
<1>1. IsSequence(lines) /\ \A i \in DOMAIN lines : Counters(lines[i])
  BY DEF WholeLog, IsSequence, ToSet
<1>2. /\ IsSequence(echo)
      /\ \A j \in DOMAIN echo : \E i \in DOMAIN lines :
           echo[j] = lines[i] /\ lines[i].m = LocalEchoMarker
  BY <1>1, SnapshotsAreLines DEF LocalEchoPath
<1> HIDE DEF echo
<1>3. ASSUME NEW j \in DOMAIN echo, NEW f \in DOMAIN echo[j].v
      PROVE  echo[j].v[f] \in 0 .. Word - 1
  <2>1. PICK i \in DOMAIN lines : echo[j] = lines[i] /\ lines[i].m = LocalEchoMarker
    BY <1>2
  <2>2. lines[i].v[f] \in Nat /\ lines[i].v[f] < Word
    BY <1>1, <2>1 DEF Counters
  <2> QED
    BY <2>1, <2>2, WordAssumption
<1> QED
  BY <1>2, <1>3 DEF echo

(* aggregate_local_echo_path: every advance, also across a wrap.           *)
EchoWithin(echo, ranges) ==
  \A k \in 1 .. Len(echo) - 1 :
    \A f \in (DOMAIN echo[k].v \cap DOMAIN echo[k + 1].v) \ {"sequence"} :
      \E d \in 0 .. Word - 1 : /\ (echo[k].v[f] + d) % Word = echo[k + 1].v[f]
                               /\ Inside(d, ranges[f])

LEMMA EchoHeld ==
  ASSUME NEW rows, IsSequence(rows), NEW logs,
         \A i \in DOMAIN rows : /\ WholeLog(logs[i])
                                /\ rows[i].local_echo_path = LocalEchoPath(logs[i]),
         NEW i \in DOMAIN rows
  PROVE  EchoWithin(LocalEchoPath(logs[i]), AggregateLocalEcho(rows))
<1> SUFFICES ASSUME NEW k \in 1 .. Len(LocalEchoPath(logs[i])) - 1,
                    NEW f \in (DOMAIN LocalEchoPath(logs[i])[k].v
                               \cap DOMAIN LocalEchoPath(logs[i])[k + 1].v) \ {"sequence"}
             PROVE  LET echo == LocalEchoPath(logs[i])
                    IN  \E d \in 0 .. Word - 1 :
                          /\ (echo[k].v[f] + d) % Word = echo[k + 1].v[f]
                          /\ Inside(d, AggregateLocalEcho(rows)[f])
  BY DEF EchoWithin
<1> DEFINE echo == LocalEchoPath(logs[i])
           runs == {j \in DOMAIN rows : rows[j].local_echo_path # <<>>}
           Samples(j) == rows[j].local_echo_path
           Named(j) == UNION {DOMAIN Samples(j)[n].v : n \in DOMAIN Samples(j)}
           names == UNION {Named(j) : j \in runs}
           counters == names \ {"sequence"}
           Steps(c) == UNION {EchoSteps(Samples(j), c) : j \in runs}
           d == (echo[k + 1].v[f] - echo[k].v[f]) % Word
<1>1. /\ IsSequence(echo) /\ Len(echo) \in Nat /\ DOMAIN echo = 1 .. Len(echo)
      /\ k \in DOMAIN echo /\ k + 1 \in DOMAIN echo
  <2>1. IsSequence(echo)
    BY EchoCounters
  <2> HIDE DEF echo
  <2>2. Len(echo) \in Nat /\ DOMAIN echo = 1 .. Len(echo)
    BY <2>1, SequenceLength
  <2> QED
    BY <2>1, <2>2 DEF echo
<1>2. echo[k].v[f] \in 0 .. Word - 1 /\ echo[k + 1].v[f] \in 0 .. Word - 1
  BY <1>1, EchoCounters
<1>3. d \in 0 .. Word - 1 /\ (echo[k].v[f] + d) % Word = echo[k + 1].v[f]
  <2> HIDE DEF echo
  <2> QED
    BY <1>2, WordAssumption, AdvanceOfCounter
<1>4. i \in runs /\ Samples(i) = echo
  <2>1. Samples(i) = echo
    OBVIOUS
  <2>2. echo # <<>>
    <3> HIDE DEF echo
    <3> QED
      BY <1>1, EmptySeq
  <2> QED
    BY <2>1, <2>2
<1>5. f \in counters
  <2>1. k \in DOMAIN Samples(i) /\ f \in DOMAIN Samples(i)[k].v /\ f # "sequence"
    BY <1>1, <1>4
  <2> HIDE DEF echo, runs, Samples
  <2>2. f \in Named(i)
    BY <2>1
  <2>4. i \in runs
    BY <1>4
  <2> HIDE DEF Named
  <2>5. f \in names
    BY <2>2, <2>4
  <2> HIDE DEF names
  <2> QED
    BY <2>1, <2>5
<1>6. d \in Steps(f)
  <2>1. d \in EchoSteps(echo, f)
    BY <1>1 DEF EchoSteps
  <2> HIDE DEF d, echo, runs, Samples
  <2> QED
    BY <1>4, <2>1
<1>7. Steps(f) \in SUBSET (0 .. Word - 1)
  <2>1. ASSUME NEW j \in runs, NEW x \in EchoSteps(Samples(j), f)
        PROVE  x \in 0 .. Word - 1
    <3> DEFINE s == Samples(j)
    <3>1. WholeLog(logs[j]) /\ s = LocalEchoPath(logs[j])
      OBVIOUS
    <3>2. /\ IsSequence(s)
          /\ \A n \in DOMAIN s : \A c \in DOMAIN s[n].v : s[n].v[c] \in 0 .. Word - 1
      BY <3>1, EchoCounters
    <3> HIDE DEF s
    <3>3. Len(s) \in Nat /\ DOMAIN s = 1 .. Len(s)
      BY <3>2, SequenceLength
    <3>4. PICK n \in {m \in 1 .. Len(s) - 1 : f \in DOMAIN s[m].v /\ f \in DOMAIN s[m + 1].v} :
            x = (s[n + 1].v[f] - s[n].v[f]) % Word
      BY <2>1 DEF EchoSteps, s
    <3>5. s[n].v[f] \in 0 .. Word - 1 /\ s[n + 1].v[f] \in 0 .. Word - 1
      BY <3>2, <3>3, <3>4
    <3> QED
      BY <3>4, <3>5, WordAssumption, AdvanceOfCounter
  <2> HIDE DEF runs, Samples
  <2> QED
    BY <2>1
<1>8. AggregateLocalEcho(rows)[f] = MinMax(Steps(f))
  <2>1. AggregateLocalEcho(rows) = [c \in {e \in counters : Steps(e) # {}} |-> MinMax(Steps(c))]
    BY DEF AggregateLocalEcho
  <2>2. f \in {e \in counters : Steps(e) # {}}
    <3> HIDE DEF counters, Steps, d
    <3> QED
      BY <1>5, <1>6
  <2> HIDE DEF counters, Steps
  <2> QED
    BY <2>1, <2>2
<1>9. Inside(d, MinMax(Steps(f)))
  <2>1. Steps(f) \in SUBSET Nat /\ IsFiniteSet(Steps(f))
    <3>1. IsFiniteSet(0 .. Word - 1)
      BY FS_Interval, WordAssumption
    <3>2. (0 .. Word - 1) \in SUBSET Nat
      BY WordAssumption
    <3> HIDE DEF Steps
    <3>3. Steps(f) \in SUBSET Nat
      BY <1>7, <3>2
    <3> QED
      BY <1>7, <3>1, <3>3, FS_Subset
  <2> HIDE DEF Steps, d
  <2> QED
    BY <1>6, <2>1, MinMaxBounds
<1> HIDE DEF d, Steps
<1> QED
  BY <1>3, <1>8, <1>9

-----------------------------------------------------------------------------
(* aggregate_echo_correlation: what the station sent is what the peer       *)
(* observed or what it missed.                                             *)
LEMMA SequencesFinite ==
  ASSUME NEW s, IsSequence(s), NEW phases
  PROVE  IsFiniteSet(SequencesOf(s, phases))
<1> DEFINE J == {j \in DOMAIN s : /\ "sequence" \in DOMAIN s[j].v
                                  /\ phases # {} => \E p \in phases : TextIs(s[j], "phase", p)}
           value == [j \in J |-> s[j].v["sequence"]]
<1>1. SequencesOf(s, phases) = {value[j] : j \in J}
  BY DEF SequencesOf
<1>2. IsFiniteSet(J)
  BY IndicesFinite
<1> HIDE DEF J, value
<1> QED
  BY <1>1, <1>2, ImageFinite

Correlated(rows) == {i \in DOMAIN rows : rows[i].echo_correlation # {}}

LEMMA CorrelationTotal ==
  ASSUME NEW rows, NEW x \in {"sta_sent", "ap_observed", "sent_missing_at_ap"},
         NEW runs, runs = Correlated(rows),
         IsFiniteSet(runs), NEW a \in [runs -> Nat],
         \A i \in runs :
           a[i] = Cardinality(Picked(rows[i].echo_correlation)[x])
  PROVE  \E A : Sums(runs, a, A) /\ EchoTotals(rows)[x] = A[runs]
<1> DEFINE Size(i) == Cardinality(Picked(rows[i].echo_correlation)[x])
           Solution(g) == g = [T \in SUBSET runs |->
             IF T = {} THEN 0
             ELSE Size(CHOOSE y \in T : TRUE) + g[T \ {CHOOSE y \in T : TRUE}]]
           it == CHOOSE g : Solution(g)
<1>1. EchoTotals(rows)[x] = it[runs]
  BY DEF EchoTotals, MapThenSumSet, MapThenFoldSet, Picked, Correlated
<1>2. PICK g \in [SUBSET runs -> Nat] : Sums(runs, a, g)
  BY SumExists
<1>3. \A T \in SUBSET runs : T # {} => a[Picked(T)] = Size(CHOOSE y \in T : TRUE)
  <2> TAKE T \in SUBSET runs
  <2> HAVE T # {}
  <2>1. Picked(T) \in runs
    BY DEF Picked
  <2>2. a[Picked(T)] = Size(Picked(T))
    BY <2>1
  <2> HIDE DEF Size
  <2> QED
    BY <2>2 DEF Picked
<1> HIDE DEF Size
<1>4. Solution(g)
  <2>1. \A T \in SUBSET runs :
          g[T] = IF T = {} THEN 0
                 ELSE Size(CHOOSE y \in T : TRUE) + g[T \ {CHOOSE y \in T : TRUE}]
    BY <1>2, <1>3 DEF Sums, Picked
  <2> QED
    BY <2>1
<1>5. Solution(it)
  <2> HIDE DEF Solution
  <2> QED
    BY <1>4
<1> HIDE DEF it
<1>6. Sums(runs, a, it)
  <2>1. \A T \in SUBSET runs :
          it[T] = IF T = {} THEN 0
                  ELSE Size(CHOOSE y \in T : TRUE) + it[T \ {CHOOSE y \in T : TRUE}]
    BY <1>5, Zenon
  <2> QED
    BY <1>3, <2>1 DEF Sums, Picked
<1> QED
  BY <1>1, <1>6

LEMMA SentIsAccounted ==
  ASSUME NEW rows, IsSequence(rows), NEW sta, NEW ap,
         \A i \in DOMAIN rows :
           /\ IsSequence(sta[i]) /\ IsSequence(ap[i])
           /\ rows[i].echo_correlation = EchoCorrelation(sta[i], ap[i])
  PROVE  LET t == EchoTotals(rows)
         IN  t["sta_sent"] <= t["ap_observed"] + t["sent_missing_at_ap"]
<1> DEFINE runs == {i \in DOMAIN rows : rows[i].echo_correlation # {}}
           Of(i) == Picked(rows[i].echo_correlation)
           Sent(i) == SequencesOf(sta[i], {"send"})
           Observed(i) == SequencesOf(ap[i], {})
           a == [i \in runs |-> Cardinality(Sent(i))]
           b == [i \in runs |-> Cardinality(Observed(i))]
           c == [i \in runs |-> Cardinality(Sent(i) \ Observed(i))]
<1>0. runs = Correlated(rows)
  BY DEF Correlated
<1>1. IsFiniteSet(runs)
  BY IndicesFinite
<1>2. ASSUME NEW i \in runs
      PROVE  /\ Of(i)["sta_sent"] = Sent(i) /\ Of(i)["ap_observed"] = Observed(i)
             /\ Of(i)["sent_missing_at_ap"] = Sent(i) \ Observed(i)
  <2> DEFINE found == EchoCorrelation(sta[i], ap[i])
  <2>1. rows[i].echo_correlation = found /\ found # {}
    BY <1>2
  <2>2. ASSUME NEW r \in found
        PROVE  /\ r["sta_sent"] = Sent(i) /\ r["ap_observed"] = Observed(i)
               /\ r["sent_missing_at_ap"] = Sent(i) \ Observed(i)
    <3> DEFINE submitted == SequencesOf(SelectSeq(ap[i], LAMBDA s :
                              Field(s.v, "vendor_tx_delta") > 0), {})
               received == SequencesOf(sta[i], {"receive"})
               row == [sta_sent |-> Sent(i), sta_received |-> received,
                       ap_observed |-> Observed(i), ap_submitted |-> submitted,
                       sent_missing_at_ap |-> Sent(i) \ Observed(i),
                       ap_without_sta_send |-> Observed(i) \ Sent(i),
                       submitted_without_sta_receive |-> submitted \ received]
    <3>1. found = IF sta[i] = <<>> \/ ap[i] = <<>> THEN {} ELSE {row}
      BY DEF EchoCorrelation
    <3> HIDE DEF found, submitted, received, Sent, Observed
    <3>2. r = row
      BY <2>2, <3>1
    <3> QED
      BY <3>2
  <2>3. Of(i) \in found
    <3> HIDE DEF found
    <3> QED
      BY <2>1 DEF Picked
  <2> HIDE DEF Of, found, Sent, Observed
  <2> QED
    BY <2>2, <2>3
<1>3. ASSUME NEW i \in runs
      PROVE  /\ IsFiniteSet(Sent(i)) /\ IsFiniteSet(Observed(i))
             /\ IsFiniteSet(Sent(i) \ Observed(i))
  <2>1. IsFiniteSet(Sent(i)) /\ IsFiniteSet(Observed(i))
    BY SequencesFinite
  <2> QED
    BY <2>1, FS_Subset
<1>4. \A i \in runs : /\ Cardinality(Sent(i)) \in Nat
                      /\ Cardinality(Observed(i)) \in Nat
                      /\ Cardinality(Sent(i) \ Observed(i)) \in Nat
  <2> HIDE DEF Sent, Observed, runs
  <2> QED
    BY <1>3, FS_CardinalityType
<1>5. \A i \in runs : Cardinality(Sent(i)) <=
                        Cardinality(Observed(i)) + Cardinality(Sent(i) \ Observed(i))
  <2> HIDE DEF Sent, Observed, runs
  <2> TAKE i \in runs
  <2> DEFINE all == Observed(i) \union (Sent(i) \ Observed(i))
  <2>1. /\ IsFiniteSet(all)
        /\ Cardinality(all) = Cardinality(Observed(i)) + Cardinality(Sent(i) \ Observed(i))
                              - Cardinality(Observed(i) \cap (Sent(i) \ Observed(i)))
    BY <1>3, FS_Union
  <2>2. Cardinality(Observed(i) \cap (Sent(i) \ Observed(i))) = 0
    <3>1. Observed(i) \cap (Sent(i) \ Observed(i)) = {}
      OBVIOUS
    <3> QED
      BY <3>1, FS_EmptySet
  <2>3. Cardinality(Sent(i)) <= Cardinality(all)
    <3>1. Sent(i) \in SUBSET all
      OBVIOUS
    <3> HIDE DEF all
    <3> QED
      BY <2>1, <3>1, FS_Subset
  <2> HIDE DEF all
  <2> QED
    BY <1>4, <2>1, <2>2, <2>3
<1>6. a \in [runs -> Nat] /\ b \in [runs -> Nat] /\ c \in [runs -> Nat]
  BY <1>4
<1>7. /\ \A i \in runs : a[i] = Cardinality(Of(i)["sta_sent"])
      /\ \A i \in runs : b[i] = Cardinality(Of(i)["ap_observed"])
      /\ \A i \in runs : c[i] = Cardinality(Of(i)["sent_missing_at_ap"])
  <2> HIDE DEF runs, Of, Sent, Observed
  <2> QED
    BY <1>2
<1>8. \A i \in runs : a[i] <= b[i] + c[i]
  <2> HIDE DEF runs, Sent, Observed
  <2> QED
    BY <1>5
<1> HIDE DEF a, b, c
<1>9. PICK A : Sums(runs, a, A) /\ EchoTotals(rows)["sta_sent"] = A[runs]
  <2> HIDE DEF runs
  <2> QED
    BY <1>0, <1>1, <1>6, <1>7, CorrelationTotal
<1>10. PICK B : Sums(runs, b, B) /\ EchoTotals(rows)["ap_observed"] = B[runs]
  <2> HIDE DEF runs
  <2> QED
    BY <1>0, <1>1, <1>6, <1>7, CorrelationTotal
<1>11. PICK C : Sums(runs, c, C) /\ EchoTotals(rows)["sent_missing_at_ap"] = C[runs]
  <2> HIDE DEF runs
  <2> QED
    BY <1>0, <1>1, <1>6, <1>7, CorrelationTotal
<1> HIDE DEF runs
<1>12. A[runs] <= B[runs] + C[runs]
  BY <1>1, <1>6, <1>8, <1>9, <1>10, <1>11, SumsAddUp
<1> QED
  BY <1>9, <1>10, <1>11, <1>12

-----------------------------------------------------------------------------
(* summarize_records: every record has a result, and one only.             *)
SumOf(c) == MapThenSumSet(LAMBDA r : c[r], DOMAIN c)

LEMMA CountsCoverRuns ==
  ASSUME NEW rows, IsSequence(rows)
  PROVE  SumOf(Tally(rows, LAMBDA r : r.result)) = Len(rows)
<1> DEFINE D == DOMAIN rows
           key == [i \in D |-> rows[i].result]
           K == {key[i] : i \in D}
           count == [k \in K |-> Cardinality({i \in D : key[i] = k})]
           counts == Tally(rows, LAMBDA r : r.result)
           it == CHOOSE g : g = [T \in SUBSET DOMAIN counts |->
                   IF T = {} THEN 0
                   ELSE counts[CHOOSE x \in T : TRUE] + g[T \ {CHOOSE x \in T : TRUE}]]
<1>1. D = 1 .. Len(rows) /\ Len(rows) \in Nat
  BY SequenceLength
<1>2. IsFiniteSet(D) /\ Cardinality(D) = Len(rows)
  <2>1. IsFiniteSet(1 .. Len(rows))
        /\ Cardinality(1 .. Len(rows)) = IF 1 > Len(rows) THEN 0 ELSE Len(rows) - 1 + 1
    BY <1>1, FS_Interval
  <2> QED
    BY <1>1, <2>1
<1>3. IsFiniteSet(K)
  <2> HIDE DEF D, key
  <2> QED
    BY <1>2, ImageFinite
<1>4. count \in [K -> Nat]
  <2>1. \A k \in K : Cardinality({i \in D : key[i] = k}) \in Nat
    <3> TAKE k \in K
    <3> DEFINE part == {i \in D : key[i] = k}
    <3>1. part \in SUBSET D
      OBVIOUS
    <3> HIDE DEF part, D, key
    <3>2. IsFiniteSet(part)
      BY <1>2, <3>1, FS_Subset
    <3> QED
      BY <3>2, FS_CardinalityType DEF part
  <2> HIDE DEF K, D, key
  <2> QED
    BY <2>1
<1>5. counts = count
  <2>1. counts = [k \in {rows[i].result : i \in D} |-> Cardinality({i \in D : rows[i].result = k})]
    BY DEF Tally
  <2>2. {rows[i].result : i \in D} = K
    OBVIOUS
  <2>3. \A k \in K : {i \in D : rows[i].result = k} = {i \in D : key[i] = k}
    OBVIOUS
  <2> HIDE DEF K, D, key, counts
  <2> QED
    BY <2>1, <2>2, <2>3
<1> HIDE DEF counts
<1>6. SumOf(counts) = it[DOMAIN counts]
  BY DEF SumOf, MapThenSumSet, MapThenFoldSet
<1>7. DOMAIN counts = K /\ counts \in [K -> Nat]
  BY <1>4, <1>5
<1>8. Sums(K, counts, it)
  <2> DEFINE S == DOMAIN counts
  <2>1. IsFiniteSet(S) /\ counts \in [S -> Nat]
    BY <1>3, <1>7
  <2>2. Sums(S, counts, it)
    <3> HIDE DEF K, count
    <3> QED
      BY <2>1, SumSolves
  <2> HIDE DEF it, K, count
  <2> QED
    BY <1>7, <2>2
<1>9. it[K] = Cardinality(D)
  <2> HIDE DEF D, key, it
  <2> QED
    BY <1>2, <1>3, <1>5, <1>8, TallyCountsAll
<1>10. SumOf(counts) = Len(rows)
  <2> HIDE DEF it, K, D
  <2> QED
    BY <1>2, <1>6, <1>7, <1>9
<1> QED
  BY <1>10 DEF counts

(* ready_ownership_hil_passed: both boards of every run, their newest      *)
(* counters at zero.                                                       *)
PeerLogOf(peer) == IF peer = {} THEN <<>> ELSE CHOOSE p \in peer : TRUE

LEMMA OwnershipOfBoth ==
  ASSUME NEW lines, WholeLog(lines),
         NEW peer, \A p, q \in peer : WholeLog(p) /\ p = q,
         ZeroDrift(ReadyOwnership(lines)), ZeroDrift(ReadyOwnership(PeerLogOf(peer)))
  PROVE  NoDrift(lines) /\ peer # {} /\ \A p \in peer : NoDrift(p)
<1>1. \A s : WholeLog(s) => IsSequence(s)
  BY DEF WholeLog, IsSequence, ToSet
<1>2. NoDrift(lines)
  BY <1>1, ZeroDriftIsClean
<1>3. peer # {}
  <2> SUFFICES ASSUME peer = {} PROVE FALSE
    OBVIOUS
  <2>1. ZeroDrift(ReadyOwnership(<<>>))
    BY DEF PeerLogOf
  <2>2. NoDrift(<<>>)
    BY <2>1, NoRows, ZeroDriftIsClean
  <2> QED
    BY <2>2 DEF NoDrift, OwnershipFields
<1>4. ASSUME NEW p \in peer PROVE NoDrift(p)
  <2>1. PeerLogOf(peer) \in peer
    BY <1>3 DEF PeerLogOf
  <2>2. PeerLogOf(peer) = p
    BY <2>1
  <2> QED
    BY <1>1, <2>2, ZeroDriftIsClean
<1> QED
  BY <1>2, <1>3, <1>4

(* What of a record the summary reads.                                     *)
LEMMA RecordParts ==
  ASSUME NEW lines, NEW peer, NEW o
  PROVE  LET r == RecordFromLog(lines, peer, o)
         IN  /\ r.l2_protocol = L2Protocol(lines)
             /\ r.local_echo_path = LocalEchoPath(lines)
             /\ r.ready_ownership = ReadyOwnership(lines)
             /\ r.peer_ready_ownership = ReadyOwnership(PeerLogOf(peer))
             /\ r.echo_correlation =
                  EchoCorrelation(LocalEchoPath(lines), SoftapEchoPath(PeerLogOf(peer)))
BY Zenon DEF RecordFromLog, PeerLogOf

LEMMA SummaryParts ==
  ASSUME NEW rows
  PROVE  LET s == SummarizeRecords(rows)
         IN  /\ s.counts = Tally(rows, LAMBDA r : r.result)
             /\ s.l2_protocol = L2Ranges(rows)
             /\ s.local_echo_path = AggregateLocalEcho(rows)
             /\ s.echo_correlation = EchoTotals(rows)
             /\ s.ready_ownership_ok = ReadyOwnershipHilPassed(rows)
BY Zenon DEF SummarizeRecords

-----------------------------------------------------------------------------
(* The summary speaks of the logs on disk: its ranges, its echo advances,  *)
(* its totals and its evidence marker, in a live matrix and on an analyzed *)
(* directory alike: summarize_records.                                     *)
THEOREM SummariesFaithful == Spec => []SummaryFaithful
<1>1. Init => LogsInv
  BY LogsInvInit
<1>2. LogsInv /\ [Next]_vars => LogsInv'
  BY LogsInvNext
<1>3. LogsInv => SummaryFaithful
  <2> SUFFICES ASSUME LogsInv, pc = "summarize" PROVE SummaryFaithful
    BY DEF SummaryFaithful
  <2> DEFINE s == SummarizeRecords(records)
             logs == [i \in DOMAIN disk |-> disk[i].log]
             sta == [i \in DOMAIN disk |-> LocalEchoPath(disk[i].log)]
             ap == [i \in DOMAIN disk |-> SoftapEchoPath(PeerLogOf(disk[i].peer))]
  <2>1. /\ IsSequence(records) /\ DOMAIN records = DOMAIN disk
        /\ Len(records) = Len(disk)
        /\ \A i \in DOMAIN disk :
             records[i] = RecordFromLog(disk[i].log, disk[i].peer, opt)
    BY SequenceLength DEF LogsInv, ExitInv, RecordsInv, ProgressInv
  <2>2. \A i \in DOMAIN disk : /\ WholeLog(disk[i].log)
                               /\ \A p, q \in disk[i].peer : WholeLog(p) /\ p = q
    BY DEF LogsInv, DiskInv, WholeFile
  <2>3. \A i \in DOMAIN disk :
          /\ records[i].l2_protocol = L2Protocol(disk[i].log)
          /\ records[i].local_echo_path = LocalEchoPath(disk[i].log)
          /\ records[i].ready_ownership = ReadyOwnership(disk[i].log)
          /\ records[i].peer_ready_ownership = ReadyOwnership(PeerLogOf(disk[i].peer))
          /\ records[i].echo_correlation = EchoCorrelation(sta[i], ap[i])
    BY <2>1, RecordParts
  <2>4. MapThenSumSet(LAMBDA r : s.counts[r], DOMAIN s.counts) = Len(disk)
    <3> DEFINE counts == Tally(records, LAMBDA r : r.result)
    <3>1. SumOf(counts) = Len(disk)
      BY <2>1, CountsCoverRuns
    <3>2. s.counts = counts
      BY SummaryParts, Zenon
    <3> HIDE DEF counts, s
    <3>3. SumOf(s.counts) = Len(disk)
      BY <3>1, <3>2
    <3> QED
      BY <3>3, Zenon DEF SumOf
  <2>5. ASSUME NEW i \in DOMAIN disk,
               NEW f \in L2Fields \cap DOMAIN Values(disk[i].log, "RFDBG_A5B_L2")
        PROVE  Inside(Values(disk[i].log, "RFDBG_A5B_L2")[f], s.l2_protocol[f])
    <3>1. \A j \in DOMAIN records : /\ WholeLog(logs[j])
                                    /\ records[j].l2_protocol = L2Protocol(logs[j])
      BY <2>1, <2>2, <2>3
    <3>2. i \in DOMAIN records /\ logs[i] = disk[i].log
      BY <2>1
    <3>3. s.l2_protocol = L2Ranges(records)
      BY SummaryParts, Zenon
    <3> HIDE DEF logs, s
    <3> QED
      BY <2>1, <2>5, <3>1, <3>2, <3>3, L2Held
  <2>6. ASSUME NEW i \in DOMAIN disk
        PROVE  EchoWithin(LocalEchoPath(disk[i].log), s.local_echo_path)
    <3>1. \A j \in DOMAIN records : /\ WholeLog(logs[j])
                                    /\ records[j].local_echo_path = LocalEchoPath(logs[j])
      BY <2>1, <2>2, <2>3
    <3>2. i \in DOMAIN records /\ logs[i] = disk[i].log
      BY <2>1
    <3>3. s.local_echo_path = AggregateLocalEcho(records)
      BY SummaryParts, Zenon
    <3> HIDE DEF logs, s
    <3> QED
      BY <2>1, <3>1, <3>2, <3>3, EchoHeld
  <2>7. s.echo_correlation["sta_sent"] <=
          s.echo_correlation["ap_observed"] + s.echo_correlation["sent_missing_at_ap"]
    <3>1. \A i \in DOMAIN records :
            /\ IsSequence(sta[i]) /\ IsSequence(ap[i])
            /\ records[i].echo_correlation = EchoCorrelation(sta[i], ap[i])
      <4> TAKE i \in DOMAIN records
      <4>1. WholeLog(disk[i].log) /\ i \in DOMAIN disk
        BY <2>1, <2>2
      <4>2. IsSequence(disk[i].log) /\ IsSequence(PeerLogOf(disk[i].peer))
        <5>1. \A l : WholeLog(l) => IsSequence(l)
          BY DEF WholeLog, IsSequence, ToSet
        <5>2. PeerLogOf(disk[i].peer) = <<>> \/ PeerLogOf(disk[i].peer) \in disk[i].peer
          BY DEF PeerLogOf
        <5> QED
          BY <2>2, <4>1, <5>1, <5>2, NoRows
      <4>3. IsSequence(sta[i]) /\ IsSequence(ap[i])
        BY <4>1, <4>2, SnapshotsAreLines DEF LocalEchoPath, SoftapEchoPath
      <4> QED
        BY <2>3, <4>1, <4>3
    <3>2. s.echo_correlation = EchoTotals(records)
      BY SummaryParts, Zenon
    <3> HIDE DEF sta, ap, s
    <3> QED
      BY <2>1, <3>1, <3>2, SentIsAccounted
  <2>8. ASSUME s.ready_ownership_ok, NEW i \in DOMAIN disk
        PROVE  /\ NoDrift(disk[i].log) /\ disk[i].peer # {}
               /\ \A p \in disk[i].peer : NoDrift(p)
    <3>1. ReadyOwnershipHilPassed(records)
      BY <2>8, SummaryParts, Zenon
    <3> HIDE DEF s
    <3>2. ZeroDrift(records[i].ready_ownership) /\ ZeroDrift(records[i].peer_ready_ownership)
      BY <2>1, <3>1 DEF ReadyOwnershipHilPassed
    <3> QED
      BY <2>2, <2>3, <3>2, OwnershipOfBoth
  <2> HIDE DEF s
  <2> QED
    BY <2>4, <2>5, <2>6, <2>7, <2>8, Zenon DEF SummaryFaithful, EchoWithin, Inside, s
<1> QED
  BY <1>1, <1>2, <1>3, PTL DEF Spec
=============================================================================
