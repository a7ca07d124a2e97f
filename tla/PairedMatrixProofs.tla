------------------------- MODULE PairedMatrixProofs -------------------------
(***************************************************************************)
(* For every set of command lines, whatever the boards print and however   *)
(* J-Link fails: the second board is released on every way out of          *)
(* held_nrst but those that ResetReleased names; exit status 0 rests on  *)
(* a log of each board for each run, with no failure in any; a bond run    *)
(* that passes shows one generation of each board and at most one passkey, *)
(* a bond matrix that passes a bond that persists; and a coexistence run   *)
(* that passes an acceptance contract lost no event.                       *)
(***************************************************************************)
EXTENDS PairedMatrix, FiniteSetTheorems, SequenceTheorems, WellFoundedInduction, TLAPS

-----------------------------------------------------------------------------
(* A set of naturals has a least element, and a finite one a greatest.     *)
LEMMA LeastNatural ==
  ASSUME NEW S \in SUBSET Nat, S # {}
  PROVE  \E x \in S : \A y \in S : x <= y
<1>1. PICK x \in S : \A y \in S : <<y, x>> \notin OpToRel(<, Nat)
  BY WFMin, NatLessThanWellFounded, Zenon
<1>2. \A y \in S : ~(y < x)
  BY <1>1, Zenon DEF OpToRel
<1>3. \A y \in S : x =< y
  BY <1>2
<1> QED
  BY <1>3

LEMMA GreatestNatural ==
  ASSUME NEW S \in SUBSET Nat, S # {}, IsFiniteSet(S)
  PROVE  \E x \in S : \A y \in S : y <= x
<1> DEFINE Greatest(T) == \E x \in T : \A y \in T : y <= x
           Counts == {Cardinality(T) : T \in {U \in SUBSET S : U # {} /\ ~Greatest(U)}}
<1>1. \A T \in SUBSET S : IsFiniteSet(T) /\ Cardinality(T) \in Nat
  BY FS_Subset, FS_CardinalityType
<1>2. SUFFICES ASSUME ~Greatest(S) PROVE FALSE
  OBVIOUS
<1>3. Cardinality(S) \in Counts /\ Counts \in SUBSET Nat
  BY <1>1, <1>2
<1>4. PICK n \in Counts : \A m \in Counts : n <= m
  <2> HIDE DEF Counts
  <2> QED
    BY <1>3, LeastNatural
<1>5. PICK T \in SUBSET S : T # {} /\ ~Greatest(T) /\ n = Cardinality(T)
  OBVIOUS
<1>6. PICK x : x \in T
  BY <1>5
<1> DEFINE rest == T \ {x}
<1>7. Cardinality(rest) < n /\ rest \in SUBSET S
  <2>1. Cardinality(rest) = Cardinality(T) - 1
    BY <1>1, <1>6, FS_RemoveElement
  <2> QED
    BY <1>1, <1>5, <2>1
<1>8. rest = {} \/ Greatest(rest)
  <2>1. Cardinality(rest) \notin Counts
    BY <1>1, <1>3, <1>4, <1>7
  <2> QED
    BY <1>7, <2>1
<1>9. CASE rest = {}
  <2>1. \A y \in T : y = x
    BY <1>9
  <2> QED
    BY <1>5, <1>6, <2>1
<1>10. CASE Greatest(rest)
  <2>1. PICK z \in rest : \A y \in rest : y <= z
    BY <1>10
  <2>2. \A y \in T : y = x \/ y \in rest
    OBVIOUS
  <2>3. x \in Nat /\ z \in Nat /\ z \in T /\ T \subseteq Nat
    BY <1>5, <1>6, <2>1
  <2>4. CASE z <= x
    <3>1. \A y \in T : y <= x
      BY <2>1, <2>2, <2>3, <2>4
    <3> QED
      BY <1>5, <1>6, <3>1
  <2>5. CASE x <= z
    <3>1. \A y \in T : y <= z
      BY <2>1, <2>2, <2>3, <2>5
    <3> QED
      BY <1>5, <2>3, <3>1
  <2> QED
    BY <2>3, <2>4, <2>5
<1> QED
  BY <1>8, <1>9, <1>10

(* A sequence of whatever its elements are.                                *)
IsSequence(s) == s \in Seq({s[i] : i \in DOMAIN s})

LEMMA SequenceLength ==
  ASSUME NEW s, IsSequence(s)
  PROVE  Len(s) \in Nat /\ DOMAIN s = 1 .. Len(s)
BY LenProperties DEF IsSequence

LEMMA AppendSequence ==
  ASSUME NEW s, IsSequence(s), NEW e
  PROVE  /\ IsSequence(Append(s, e)) /\ Len(Append(s, e)) = Len(s) + 1
         /\ Append(s, e)[Len(s) + 1] = e
         /\ \A i \in 1 .. Len(s) : Append(s, e)[i] = s[i]
<1> DEFINE S == {s[i] : i \in DOMAIN s} \union {e}
           t == Append(s, e)
<1>1. s \in Seq(S)
  BY SeqMonotonic DEF IsSequence
<1>2. /\ t \in Seq(S) /\ Len(t) = Len(s) + 1 /\ t[Len(s) + 1] = e
      /\ \A i \in 1 .. Len(s) : t[i] = s[i]
  BY <1>1, AppendProperties
<1>3. t \in [1 .. Len(t) -> S] /\ Len(t) \in Nat /\ DOMAIN t = 1 .. Len(t)
  BY <1>2, LenProperties
<1>4. t \in [1 .. Len(t) -> {t[i] : i \in DOMAIN t}]
  BY <1>3
<1>5. t \in Seq({t[i] : i \in DOMAIN t})
  BY <1>3, <1>4, SeqDef
<1> QED
  BY <1>2, <1>5 DEF IsSequence

LEMMA NoRows == IsSequence(<<>>) /\ Len(<<>>) = 0
BY EmptySeq DEF IsSequence

-----------------------------------------------------------------------------
(* Commander's process exists only between HoldReset and the release, an   *)
(* exception is on its way only there or at the end, and a release that    *)
(* failed ends the matrix.                                                 *)
HoldInv ==
  /\ TypeOK
  /\ opt \in Options
  /\ pc = "hold" \/ holder # "none" => Capture(opt).hold
  /\ holder # "none" => pc \in {"pulseFirst", "settle", "release", "communicate"}
  /\ failed => pc \in {"release", "communicate", "exit"}
  /\ holder = "quit" => stuck \in {"quit", "late"}
  /\ pc = "communicate" /\ holder = "crashed" => stuck = "late"
  /\ held /\ holder = "none" => stuck # "no"
  /\ stuck = "pulse" => pc = "exit" /\ status = "raised"

(* A tool that holds a board in reset lets the other one settle.           *)
LEMMA HoldSettles ==
  ASSUME NEW o \in Options, Capture(o).hold
  PROVE  Capture(o).settle
<1>1. o.tool \in Tools
  BY ToolsAssumption
<1>2. CASE o.tool = "ble-bond"
  BY <1>2 DEF Capture
<1>3. CASE o.tool = "coexistence"
  BY <1>3 DEF Capture
<1>4. CASE o.tool = "radio-u2"
  BY <1>4 DEF Capture, U2Capture, SettledCapture
<1>5. CASE o.tool \in {"ble-gatt", "ble-discovery", "sle-discovery", "sle-connect"}
  BY <1>5 DEF Capture, GattCapture, BleDiscoveryCapture, SleDiscoveryCapture,
              SleConnectCapture, SettledCapture
<1>6. CASE o.tool = "sle-ssap"
  BY <1>6 DEF Capture, SleConnectCapture, SettledCapture
<1> QED
  BY <1>1, <1>2, <1>3, <1>4, <1>5, <1>6 DEF Tools

(* No option starts with the board in reset.                               *)
LEMMA HoldInit == Init => HoldInv
BY DEF Init, HoldInv, TypeOK

(* The steps that leave the reset line and its owner alone.                *)
LEMMA QuietSteps ==
  ASSUME HoldInv,
         \/ Start \/ FirstPrints \/ SecondPrints \/ ResetInputs \/ DrainFirst
         \/ SettleElapsed \/ Poll \/ DeadlinePassed \/ LingerElapsed
         \/ WriteRun \/ Summarize
  PROVE  HoldInv'
<1>1. CASE Start
  BY <1>1 DEF HoldInv, TypeOK, Start, reset, attempt
<1>2. CASE FirstPrints \/ SecondPrints
  <2>1. UNCHANGED <<opt, pc, reset, attempt, results>>
    BY <1>2 DEF FirstPrints, SecondPrints, Prints
  <2> QED
    BY <2>1 DEF HoldInv, TypeOK, reset, attempt, results
<1>3. CASE ResetInputs
  BY <1>3 DEF HoldInv, TypeOK, ResetInputs, reset, results
<1>4. CASE DrainFirst
  BY <1>4 DEF HoldInv, TypeOK, DrainFirst, reset, results
<1>5. CASE SettleElapsed
  BY <1>5 DEF HoldInv, TypeOK, SettleElapsed, reset, attempt, results
<1>6. CASE Poll
  <2>1. relayed' \in BOOLEAN
    BY <1>6 DEF HoldInv, TypeOK, Poll
  <2>2. complete' \in BOOLEAN
    BY <1>6 DEF Poll
  <2> QED
    BY <1>6, <2>1, <2>2 DEF HoldInv, TypeOK, Poll, reset, results
<1>7. CASE DeadlinePassed \/ LingerElapsed
  BY <1>7 DEF HoldInv, TypeOK, DeadlinePassed, LingerElapsed, CaptureEnds,
              reset, results
<1>8. CASE WriteRun
  <2>1. abort' \in BOOLEAN
    BY <1>8 DEF WriteRun
  <2>2. pc' \in {"summarize", "ready"} /\ pc = "write"
    BY <1>8 DEF WriteRun
  <2>3. UNCHANGED <<opt, reset, attempt, status>>
    BY <1>8 DEF WriteRun
  <2> QED
    BY <2>1, <2>2, <2>3 DEF HoldInv, TypeOK, reset, attempt
<1>9. CASE Summarize
  BY <1>9 DEF HoldInv, TypeOK, Summarize, reset, attempt
<1> QED
  BY <1>1, <1>2, <1>3, <1>4, <1>5, <1>6, <1>7, <1>8, <1>9

(* The steps of the reset line.                                            *)
LEMMA ResetSteps ==
  ASSUME HoldInv,
         \/ HoldReset \/ HoldFails \/ HolderDies \/ PulseFirst \/ PulseFails
         \/ PulseSecond \/ PollHolder \/ ReleaseReset \/ TrustQuit
  PROVE  HoldInv'
<1>1. CASE HoldReset
  <2>1. /\ holder' = "alive" /\ held' \in {held, TRUE} /\ stuck' = "no"
        /\ pc = "hold" /\ pc' = "pulseFirst"
        /\ UNCHANGED <<opt, failed, attempt, results>>
    BY <1>1 DEF HoldReset, Drive
  <2> QED
    BY <2>1 DEF HoldInv, TypeOK, attempt, results
<1>2. CASE HoldFails
  <2>1. /\ holder' \in {"quit", "crashed"} /\ held' \in {held, TRUE}
        /\ stuck' = (IF holder' = "quit" THEN "quit" ELSE "no")
        /\ failed' = TRUE /\ pc' = "release"
        /\ pc = "hold" /\ UNCHANGED <<opt, attempt, results>>
    BY <1>2 DEF HoldFails, Drive
  <2> QED
    BY <2>1 DEF HoldInv, TypeOK, attempt, results
<1>3. CASE HolderDies
  BY <1>3 DEF HoldInv, TypeOK, HolderDies, attempt, results
<1>4. CASE PulseFirst
  <2>1. /\ pc = "pulseFirst" /\ pc' \in {"settle", "pulseSecond"}
        /\ pc' = "pulseSecond" => ~Capture(opt).settle
        /\ UNCHANGED <<opt, reset, attempt, results>>
    BY <1>4 DEF PulseFirst
  <2>2. holder # "none" => Capture(opt).settle
    BY HoldSettles DEF HoldInv
  <2> QED
    BY <2>1, <2>2 DEF HoldInv, TypeOK, reset, attempt, results
<1>5. CASE PulseFails
  BY <1>5 DEF HoldInv, TypeOK, PulseFails, Raise, attempt
<1>6. CASE PulseSecond
  BY <1>6 DEF HoldInv, TypeOK, PulseSecond, reset, attempt, results
<1>7. CASE ReleaseReset
  <2>1. /\ holder' = "none" /\ pc \in {"release", "communicate"} /\ holder # "none"
        /\ UNCHANGED <<opt, failed, attempt, abort>>
    BY <1>7 DEF ReleaseReset
  <2>2. CASE Released
    BY <2>1, <2>2 DEF HoldInv, TypeOK, Released, Unwind, Raise, attempt
  <2>3. CASE PulseReleaseFails
    BY <2>1, <2>3 DEF HoldInv, TypeOK, PulseReleaseFails, NotReleased, Raise, attempt
  <2> QED
    BY <1>7, <2>2, <2>3 DEF ReleaseReset
<1>8. CASE TrustQuit
  BY <1>8 DEF HoldInv, TypeOK, TrustQuit, NotReleased, Unwind, Raise, attempt
<1>9. CASE PollHolder
  BY <1>9 DEF HoldInv, TypeOK, PollHolder, reset, attempt, results
<1> QED
  BY <1>1, <1>2, <1>3, <1>4, <1>5, <1>6, <1>7, <1>8, <1>9

LEMMA HoldStep == HoldInv /\ [Next]_vars => HoldInv'
<1> SUFFICES ASSUME HoldInv, [Next]_vars PROVE HoldInv'
  OBVIOUS
<1>1. CASE Next
  BY <1>1, QuietSteps, ResetSteps DEF Next, ToolStep
<1>2. CASE UNCHANGED vars
  BY <1>2 DEF HoldInv, TypeOK, vars, reset, attempt, results
<1> QED
  BY <1>1, <1>2

(* ResetReleased, of held_nrst: nRST is driven only while its owner lives  *)
(* or the release is still ahead, unless the pulse that releases it failed *)
(* and the matrix raised, or Commander ended by itself with status 0, or   *)
(* in any way after poll() had found it alive.                             *)
THEOREM ResetAlwaysReleased == Spec => []ResetReleased
<1>1. HoldInv => ResetReleased
  BY DEF HoldInv, ResetReleased
<1> QED
  BY HoldInit, HoldStep, <1>1, PTL DEF Spec

-----------------------------------------------------------------------------
(* A log that a marker is required of is not empty.                        *)
LEMMA HasSomething ==
  ASSUME NEW lines, NEW m, Has(lines, m)
  PROVE  lines # <<>>
BY DEF Has

LEMMA MarkersProven ==
  ASSUME NEW logs, NEW c, MarkerVerdict(logs, c).pass,
         NEW a \in c.first, NEW b \in c.second
  PROVE  \A s \in Sides : /\ logs[s] # <<>>
                          /\ \A j \in DOMAIN logs[s] : logs[s][j].m \notin c.failures
<1>1. Missing(logs["first"], c["first"]) = {} /\ Missing(logs["second"], c["second"]) = {}
      /\ Reported(logs, c.failures) = {}
  BY DEF MarkerVerdict
<1>2. Has(logs["first"], a) /\ Has(logs["second"], b)
  BY <1>1 DEF Missing
<1>3. \A m \in c.failures : ~Has(logs["first"], m) /\ ~Has(logs["second"], m)
  BY <1>1 DEF Reported
<1> QED
  BY <1>2, <1>3, HasSomething DEF Sides, Has

LEMMA BondProven ==
  ASSUME NEW mode, NEW removal, NEW logs, BondClassify(mode, removal, logs).pass
  PROVE  \A s \in Sides : /\ logs[s] # <<>>
                          /\ \A j \in DOMAIN logs[s] : logs[s][j].m \notin BondFailures
<1>1. Reported(logs, BondFailures) = {}
  BY DEF BondClassify
<1>2. \A s \in Sides : Cardinality({m \in {Empty[s], Restored[s]} : Has(logs[s], m)}) = 1
  BY DEF BondClassify, Sides
<1>3. ASSUME NEW s \in Sides PROVE logs[s] # <<>>
  <2>1. {m \in {Empty[s], Restored[s]} : Has(logs[s], m)} # {}
    BY <1>2, FS_EmptySet
  <2> QED
    BY <2>1, HasSomething
<1>4. \A m \in BondFailures : ~Has(logs["first"], m) /\ ~Has(logs["second"], m)
  BY <1>1 DEF Reported
<1> QED
  BY <1>3, <1>4 DEF Sides, Has

LEMMA CoexProven ==
  ASSUME NEW contract, NEW logs, CoexPairPasses(contract, logs)
  PROVE  \A s \in Sides : /\ logs[s] # <<>>
                          /\ \A j \in DOMAIN logs[s] : logs[s][j].m \notin CoexFailures
<1> SUFFICES ASSUME NEW s \in Sides
             PROVE  /\ logs[s] # <<>>
                    /\ \A j \in DOMAIN logs[s] : logs[s][j].m \notin CoexFailures
  OBVIOUS
<1> DEFINE role == EndpointRoles(contract)[s]
           own == logs[s]
<1>1. CoexClassify(contract, role, own).pass
  BY DEF CoexPairPasses, Sides
<1>2. /\ \A m \in RequiredMarkers(contract, role) : Occurs(own, m)
      /\ \A m \in CoexFailures : ~Has(own, m)
  BY <1>1 DEF CoexClassify
<1>3. \E m : m \in RequiredMarkers(contract, role)
  <2>1. SoftapNet \in RequiredMarkers(contract, role)
        \/ "RFDBG_COEX_" \o "INIT_OK" \in RequiredMarkers(contract, role)
    BY DEF RequiredMarkers, CommonMarkers, Named
  <2> QED
    BY <2>1
<1>4. own # <<>>
  BY <1>2, <1>3, HasSomething DEF Occurs
<1> QED
  BY <1>2, <1>4 DEF Has

(* What each tool's verdict says of the logs it passes.                    *)
LEMMA PassingLogs ==
  ASSUME NEW o \in Options, NEW logs, Classify(o, logs).pass
  PROVE  \A s \in Sides : /\ logs[s] # <<>>
                          /\ \A j \in DOMAIN logs[s] : logs[s][j].m \notin FailuresOf(o)
<1>1. o.tool \in Tools
  BY ToolsAssumption
<1>2. CASE o.tool = "radio-u2"
  <2> DEFINE common == "RFDBG_RADIO_U2_INIT_OK"
             c == [first |-> {common, U2Protocols[o.contract].source},
                   second |-> {common, U2Protocols[o.contract].observer},
                   failures |-> U2FailureMarkers(o.contract)]
  <2>1. MarkerVerdict(logs, c).pass
    BY <1>2 DEF Classify, U2Classify
  <2>2. common \in c.first /\ common \in c.second /\ c.failures = U2FailureMarkers(o.contract)
    OBVIOUS
  <2>3. FailuresOf(o) = U2FailureMarkers(o.contract)
    BY <1>2 DEF FailuresOf
  <2> HIDE DEF c
  <2> QED
    BY <2>1, <2>2, <2>3, MarkersProven
<1>3. CASE o.tool = "ble-gatt"
  <2>1. MarkerVerdict(logs, GattMarkers).pass /\ FailuresOf(o) = GattMarkers.failures
    BY <1>3 DEF Classify, GattClassify, FailuresOf
  <2>2. "RFDBG_BLE_B3_" \o "INIT_OK" \in GattMarkers.first
        /\ "RFDBG_BLE_B3_" \o "INIT_OK" \in GattMarkers.second
    BY DEF GattMarkers, Named
  <2> QED
    BY <2>1, <2>2, MarkersProven
<1>4. CASE o.tool = "ble-discovery"
  <2>1. BleDiscoveryClassify(logs).pass /\ FailuresOf(o) = BleDiscoveryMarkers.failures
    BY <1>4 DEF Classify, FailuresOf
  <2>2. MarkerVerdict(logs, BleDiscoveryMarkers).pass
    BY <2>1 DEF BleDiscoveryClassify, MarkerVerdict
  <2>3. "RFDBG_BLE_B1_INIT_OK" \in BleDiscoveryMarkers.first
        /\ "RFDBG_BLE_B1_INIT_OK" \in BleDiscoveryMarkers.second
    BY DEF BleDiscoveryMarkers
  <2> QED
    BY <2>1, <2>2, <2>3, MarkersProven
<1>5. CASE o.tool = "sle-discovery"
  <2>1. MarkerVerdict(logs, SleDiscoveryMarkers).pass
        /\ FailuresOf(o) = SleDiscoveryMarkers.failures
    BY <1>5 DEF Classify, SleDiscoveryClassify, FailuresOf
  <2>2. "RFDBG_SLE_S1_" \o "INIT_OK" \in SleDiscoveryMarkers.first
        /\ "RFDBG_SLE_S1_" \o "INIT_OK" \in SleDiscoveryMarkers.second
    BY DEF SleDiscoveryMarkers, Named
  <2> QED
    BY <2>1, <2>2, MarkersProven
<1>6. CASE o.tool = "sle-connect"
  <2>1. MarkerVerdict(logs, SleConnectMarkers).pass
        /\ FailuresOf(o) = SleConnectMarkers.failures
    BY <1>6 DEF Classify, SleConnectClassify, FailuresOf
  <2>2. "RFDBG_SLE_S1_INIT_OK" \in SleConnectMarkers.first
        /\ "RFDBG_SLE_S1_INIT_OK" \in SleConnectMarkers.second
    BY DEF SleConnectMarkers
  <2> QED
    BY <2>1, <2>2, MarkersProven
<1>7. CASE o.tool = "sle-ssap"
  <2>1. MarkerVerdict(logs, SsapMarkers).pass /\ FailuresOf(o) = SsapMarkers.failures
    BY <1>7 DEF Classify, FailuresOf
  <2>2. "RFDBG_SLE_S1_INIT_OK" \in SsapMarkers.first
        /\ "RFDBG_SLE_S1_INIT_OK" \in SsapMarkers.second
    BY DEF SsapMarkers
  <2> QED
    BY <2>1, <2>2, MarkersProven
<1>8. CASE o.tool = "coexistence"
  <2>1. CoexPairPasses(o.contract, logs) /\ FailuresOf(o) = CoexFailures
    BY <1>8 DEF Classify, FailuresOf
  <2> QED
    BY <2>1, CoexProven
<1>9. CASE o.tool = "ble-bond"
  <2>1. BondClassify(o.contract, o.removal, logs).pass /\ FailuresOf(o) = BondFailures
    BY <1>9 DEF Classify, FailuresOf
  <2> QED
    BY <2>1, BondProven
<1> QED
  BY <1>1, <1>2, <1>3, <1>4, <1>5, <1>6, <1>7, <1>8, <1>9 DEF Tools

-----------------------------------------------------------------------------
(* Every record is the verdict on the logs of its run, and status 0 rests  *)
(* on the records there are at the end.                                    *)
RecordInv ==
  /\ IsSequence(disk) /\ IsSequence(records) /\ Len(disk) = Len(records)
  /\ \A i \in 1 .. Len(records) : records[i] = Classify(opt, disk[i].logs)
  /\ status = "ok" => pc = "exit" /\ ContractPass

(* The steps that write no run leave the results alone.                    *)
LEMMA QuietResults ==
  ASSUME [Next]_vars, ~WriteRun, RecordInv
  PROVE  /\ UNCHANGED <<opt, disk, records, abort>>
         /\ status' = "ok" => pc' = "exit" /\ ContractPass
<1> USE DEF RecordInv
<1>1. CASE Start \/ ResetInputs \/ DrainFirst \/ SettleElapsed \/ Summarize
  BY <1>1 DEF Start, ResetInputs, DrainFirst, SettleElapsed, Summarize, results
<1>2. CASE FirstPrints \/ SecondPrints
  BY <1>2 DEF FirstPrints, SecondPrints, Prints, results
<1>3. CASE HoldReset \/ HoldFails \/ HolderDies
  BY <1>3 DEF HoldReset, HoldFails, HolderDies, results
<1>9. CASE PollHolder
  BY <1>9 DEF PollHolder, results
<1>4. CASE PulseFirst \/ PulseSecond \/ PulseFails
  BY <1>4 DEF PulseFirst, PulseSecond, PulseFails, Raise, results
<1>5. CASE ReleaseReset
  BY <1>5 DEF ReleaseReset, Released, PulseReleaseFails, NotReleased, Unwind, Raise
<1>6. CASE TrustQuit
  BY <1>6 DEF TrustQuit, NotReleased, Unwind, Raise
<1>7. CASE Poll \/ DeadlinePassed \/ LingerElapsed
  BY <1>7 DEF Poll, DeadlinePassed, LingerElapsed, CaptureEnds, results
<1>8. CASE UNCHANGED vars
  BY <1>8 DEF vars, results
<1> QED
  BY <1>1, <1>2, <1>3, <1>4, <1>5, <1>6, <1>7, <1>8, <1>9 DEF Next, ToolStep

LEMMA RecordStep == RecordInv /\ [Next]_vars => RecordInv'
<1> SUFFICES ASSUME RecordInv, [Next]_vars PROVE RecordInv'
  OBVIOUS
<1>1. CASE ~WriteRun
  <2>1. UNCHANGED <<opt, disk, records, abort>>
        /\ (status' = "ok" => pc' = "exit" /\ ContractPass)
    BY <1>1, QuietResults
  <2> QED
    BY <2>1 DEF RecordInv, ContractPass
<1>2. CASE WriteRun
  <2> DEFINE logs == IF Bond(opt) THEN [s \in Sides |-> RedactPasskeys(log[s])] ELSE log
             d == [logs |-> logs, sent |-> sent]
             r == Classify(opt, logs)
  <2>1. /\ disk' = Append(disk, d) /\ records' = Append(records, r)
        /\ opt' = opt /\ status' = status /\ pc = "write"
    BY <1>2 DEF WriteRun
  <2>2. d.logs = logs
    OBVIOUS
  <2> HIDE DEF d, r
  <2>3. /\ IsSequence(disk') /\ Len(disk') = Len(disk) + 1 /\ disk'[Len(disk) + 1] = d
        /\ \A i \in 1 .. Len(disk) : disk'[i] = disk[i]
        /\ IsSequence(records') /\ Len(records') = Len(records) + 1
        /\ records'[Len(records) + 1] = r
        /\ \A i \in 1 .. Len(records) : records'[i] = records[i]
    BY <2>1, AppendSequence DEF RecordInv
  <2>4. Len(records) \in Nat /\ Len(disk) = Len(records)
    BY SequenceLength DEF RecordInv
  <2>5. \A i \in 1 .. Len(records) + 1 : records'[i] = Classify(opt, disk'[i].logs)
    BY <2>2, <2>3, <2>4 DEF RecordInv, r
  <2>6. status' # "ok"
    BY <2>1 DEF RecordInv
  <2> QED
    BY <2>1, <2>3, <2>4, <2>5, <2>6 DEF RecordInv
<1> QED
  BY <1>1, <1>2

LEMMA RecordsAlways == Spec => [](RecordInv /\ HoldInv)
<1>1. Init => RecordInv
  BY NoRows DEF Init, RecordInv
<1> QED
  BY <1>1, RecordStep, HoldInit, HoldStep, PTL DEF Spec

(* PairProven, of each tool's main: status 0 means a log of each board for *)
(* each run that was asked for, and no failure that the tool knows in any. *)
THEOREM PairsProven == Spec => []PairProven
<1>1. RecordInv /\ HoldInv => PairProven
  <2> SUFFICES ASSUME RecordInv, HoldInv, status = "ok" PROVE PairProven
    BY DEF PairProven
  <2>1. Len(records) = opt.runs /\ \A i \in DOMAIN records : records[i].pass
    BY DEF RecordInv, ContractPass
  <2>2. DOMAIN disk = 1 .. Len(disk) /\ DOMAIN records = 1 .. Len(records)
    BY SequenceLength DEF RecordInv
  <2>3. \A i \in DOMAIN disk : Classify(opt, disk[i].logs).pass
    BY <2>1, <2>2 DEF RecordInv
  <2> QED
    BY <2>1, <2>2, <2>3, PassingLogs DEF PairProven, RecordInv, HoldInv
<1> QED
  BY <1>1, RecordsAlways, PTL

(* A bond run that passes started either way, and the same on both boards. *)
LEMMA BondStarts ==
  ASSUME NEW mode, NEW removal, NEW logs,
         BondClassify(mode, removal, logs).pass
  PROVE  LET restored == BondClassify(mode, removal, logs).restored_contract
             Started(m) == \A s \in Sides : Has(logs[s], m[s])
         IN  /\ restored \in BOOLEAN
             /\ restored <=> Started(Restored)
             /\ ~restored <=> Started(Empty)
<1> DEFINE startup == [s \in Sides |-> {m \in {Empty[s], Restored[s]} : Has(logs[s], m)}]
           restored == [s \in Sides |-> Has(logs[s], Restored[s])]
<1>1. /\ \A s \in Sides : Cardinality(startup[s]) = 1
      /\ restored["first"] = restored["second"]
      /\ BondClassify(mode, removal, logs).restored_contract
           = (restored["first"] /\ restored["second"])
  BY DEF BondClassify, Sides
<1>2. ASSUME NEW s \in Sides
      PROVE  Has(logs[s], Empty[s]) <=> ~Has(logs[s], Restored[s])
  <2>1. PICK m : startup[s] = {m}
    <3>1. IsFiniteSet(startup[s])
      <4>1. startup[s] \subseteq {Empty[s], Restored[s]}
        OBVIOUS
      <4>2. IsFiniteSet({Empty[s], Restored[s]})
        <5>1. IsFiniteSet({Empty[s]})
          BY FS_Singleton
        <5>2. {Empty[s]} \cup {Restored[s]} = {Empty[s], Restored[s]}
          OBVIOUS
        <5> QED
          BY <5>1, <5>2, FS_AddElement
      <4> QED
        BY <4>1, <4>2, FS_Subset
    <3>2. Cardinality(startup[s]) = 1
      BY <1>1
    <3> HIDE DEF startup
    <3> QED
      BY <3>1, <3>2, FS_Singleton
  <2>2. Empty[s] # Restored[s]
    BY DEF Sides, Empty, Restored
  <2> QED
    BY <2>1, <2>2
<1> QED
  BY <1>1, <1>2, Zenon DEF Sides

LEMMA BondMatrixPersists ==
  ASSUME RecordInv, HoldInv, Bond(opt), status = "ok"
  PROVE  BondPersists
<1> DEFINE Started(i, m) == \A s \in Sides : Has(disk[i].logs[s], m[s])
           restored(i) == records[i].restored_contract
<1>1. /\ Len(records) = opt.runs /\ Len(disk) = Len(records)
      /\ Len(records) \in Nat
      /\ DOMAIN records = 1 .. Len(records)
      /\ PersistenceProven(records, opt.contract, opt.removal)
  BY SequenceLength DEF RecordInv, ContractPass
<1>2. \A i \in 1 .. Len(records) : records[i].pass
  BY <1>1 DEF PersistenceProven
<1>3. ASSUME NEW i \in 1 .. Len(records)
      PROVE  /\ restored(i) \in BOOLEAN
             /\ restored(i) <=> Started(i, Restored)
             /\ ~restored(i) <=> Started(i, Empty)
  <2>1. records[i] = BondClassify(opt.contract, opt.removal, disk[i].logs)
    BY DEF RecordInv, Classify, Bond
  <2> DEFINE verdict == BondClassify(opt.contract, opt.removal, disk[i].logs)
  <2>2. verdict.pass
    BY <1>2, <2>1
  <2>3. /\ verdict.restored_contract \in BOOLEAN
        /\ verdict.restored_contract <=> Started(i, Restored)
        /\ ~verdict.restored_contract <=> Started(i, Empty)
    BY <2>2, BondStarts, Zenon
  <2>4. restored(i) = verdict.restored_contract
    BY <2>1
  <2> HIDE DEF verdict, restored, Started
  <2> QED
    BY <2>3, <2>4
<1>4. records # <<>> => 1 \in 1 .. Len(records)
  BY <1>1, EmptySeq DEF RecordInv, IsSequence
<1>5. \A i \in 2 .. Len(records) : i \in 1 .. Len(records) /\ i - 1 \in 1 .. Len(records)
  BY <1>1
<1> HIDE DEF Started, restored
<1>6. CASE opt.contract # "passkey"
  <2>1. Len(records) >= 2 /\ \A i \in 1 .. Len(records) : ~restored(i)
    BY <1>1, <1>6 DEF PersistenceProven, restored
  <2> QED
    BY <1>1, <1>3, <1>5, <1>6, <2>1 DEF BondPersists, Started
<1>7. CASE opt.contract = "passkey" /\ opt.removal
  <2>1. \A i \in 2 .. Len(records) : restored(i) <=> ~restored(i - 1)
    BY <1>1, <1>3, <1>7, Zenon DEF PersistenceProven, restored
  <2> QED
    BY <1>1, <1>3, <1>5, <1>7, <2>1 DEF BondPersists, Started
<1>8. CASE opt.contract = "passkey" /\ ~opt.removal
  <2>1. /\ records # <<>>
        /\ ~restored(1) => Len(records) >= 2
        /\ \A i \in 2 .. Len(records) : restored(i)
    BY <1>1, <1>8 DEF PersistenceProven, restored
  <2> QED
    BY <1>1, <1>3, <1>4, <1>5, <1>8, <2>1 DEF BondPersists, Started
<1> QED
  BY <1>6, <1>7, <1>8

(* BondPersists, of validate_persistence: every run of a matrix that       *)
(* passes started as the run before left the boards.                       *)
THEOREM BondsPersist == Spec => []BondPersists
<1>1. RecordInv /\ HoldInv => BondPersists
  BY BondMatrixPersists DEF BondPersists
<1> QED
  BY <1>1, RecordsAlways, PTL

-----------------------------------------------------------------------------
(* What arrives from the boards: lines of their scripts, the refusal of a  *)
(* passkey, and either of them printed before the last reset.              *)
Spoken == Printed \cup {Refused[1][1]}
Received == Spoken \cup {[l EXCEPT !.stale = TRUE] : l \in Spoken}

WellFormed(l) ==
  /\ {"m", "v", "stale"} \subseteq DOMAIN l /\ l.stale \in BOOLEAN
  /\ l.v \in [DOMAIN l.v -> Nat]
  /\ l.m \in {ActivityEvents, ServerEvents, ActivityResources, ServerResources}
       => DOMAIN l.v \subseteq Fields(l.m)

LEMMA SpokenLines ==
  ASSUME NEW l \in Spoken
  PROVE  LET old == [l EXCEPT !.stale = TRUE]
         IN  /\ WellFormed(l) /\ ~l.stale
             /\ WellFormed(old) /\ old.stale = TRUE /\ [old EXCEPT !.stale = TRUE] = old
<1>1. WellFormed(l) /\ ~l.stale
  <2>1. CASE l \in Printed
    BY <2>1, ScriptsAssumption DEF WellFormed
  <2>2. CASE l = Refused[1][1]
    <3>1. l = [m |-> "RFDBG_RADIO_U5_BLE_PASSKEY_RESPONSE_ERR", v |-> NoFields,
               stale |-> FALSE]
      BY <2>2 DEF Refused, Plain, Line
    <3>2. DOMAIN NoFields = {} /\ NoFields \in [{} -> Nat]
      BY DEF NoFields
    <3> QED
      BY <3>1, <3>2 DEF WellFormed
  <2> QED
    BY <2>1, <2>2 DEF Spoken
<1> QED
  BY <1>1 DEF WellFormed

LEMMA ReceivedLines ==
  /\ \A l \in Spoken : l \in Received /\ ~l.stale
  /\ \A l \in Received :
       /\ WellFormed(l)
       /\ [l EXCEPT !.stale = TRUE] \in Received
       /\ [l EXCEPT !.stale = TRUE].stale
<1>1. \A l \in Spoken : l \in Received /\ ~l.stale
  BY SpokenLines DEF Received
<1>2. ASSUME NEW l \in Received
      PROVE  /\ WellFormed(l)
             /\ [l EXCEPT !.stale = TRUE] \in Received
             /\ [l EXCEPT !.stale = TRUE].stale
  <2>1. CASE l \in Spoken
    BY <2>1, SpokenLines DEF Received
  <2>2. CASE \E p \in Spoken : l = [p EXCEPT !.stale = TRUE]
    <3>1. PICK p \in Spoken : l = [p EXCEPT !.stale = TRUE]
      BY <2>2
    <3>2. WellFormed(l) /\ l.stale = TRUE /\ [l EXCEPT !.stale = TRUE] = l
      BY <3>1, SpokenLines
    <3> QED
      BY <3>2
  <2> QED
    BY <2>1, <2>2 DEF Received
<1> QED
  BY <1>1, <1>2

-----------------------------------------------------------------------------
(* A board's lines in the order of the generations that printed them.      *)
Ordered(lines) ==
  /\ \E n \in Nat : DOMAIN lines = 1 .. n
  /\ \A i, j \in DOMAIN lines : i < j /\ lines[j].stale => lines[i].stale

Fresh(segments) ==
  \A i \in 1 .. Len(segments) : \A j \in 1 .. Len(segments[i]) : ~segments[i][j].stale
Old(segments) ==
  \A i \in 1 .. Len(segments) : \A j \in 1 .. Len(segments[i]) : segments[i][j].stale

(* What was read, waits in the port and is still to come of one board: an  *)
(* older generation is over when a newer one begins.                       *)
Flow(lines, rest) ==
  /\ lines \in Seq(Received) /\ rest \in Seq(Seq(Received))
  /\ Ordered(lines)
  /\ \/ Fresh(rest)
     \/ Old(rest) /\ \A i \in 1 .. Len(lines) : lines[i].stale

(* The lines that were read are the first of them.                         *)
LEMMA OrderedPrefix ==
  ASSUME NEW read \in Seq(Received), NEW unread \in Seq(Received), Ordered(read \o unread)
  PROVE  Ordered(read)
<1>1. /\ Len(read) \in Nat /\ Len(unread) \in Nat /\ DOMAIN read = 1 .. Len(read)
      /\ DOMAIN (read \o unread) = 1 .. Len(read) + Len(unread)
      /\ \A i \in 1 .. Len(read) + Len(unread) :
           (read \o unread)[i] = IF i <= Len(read) THEN read[i] ELSE unread[i - Len(read)]
  BY ConcatProperties, LenProperties
<1>2. \A i \in DOMAIN read : /\ i \in DOMAIN (read \o unread)
                             /\ (read \o unread)[i] = read[i]
  BY <1>1
<1> QED
  BY <1>1, <1>2 DEF Ordered

(* A board prints its next segment.                                        *)
LEMMA FlowPrints ==
  ASSUME NEW lines, NEW rest, Flow(lines, rest), rest # <<>>
  PROVE  /\ Head(rest) \in Seq(Received)
         /\ Flow(lines \o Head(rest), Tail(rest))
<1> DEFINE more == Head(rest)
           all == lines \o more
<1>1. /\ more \in Seq(Received) /\ Tail(rest) \in Seq(Seq(Received))
      /\ Len(rest) \in Nat /\ Len(rest) > 0 /\ more = rest[1]
      /\ Len(Tail(rest)) = Len(rest) - 1
      /\ \A i \in 1 .. Len(Tail(rest)) : Tail(rest)[i] = rest[i + 1]
  BY HeadTailProperties, EmptySeq, LenProperties DEF Flow
<1>2. /\ Len(lines) \in Nat /\ Len(more) \in Nat
      /\ DOMAIN lines = 1 .. Len(lines)
      /\ all \in Seq(Received) /\ Len(all) = Len(lines) + Len(more)
      /\ DOMAIN all = 1 .. Len(lines) + Len(more)
      /\ \A i \in 1 .. Len(lines) + Len(more) :
           all[i] = IF i <= Len(lines) THEN lines[i] ELSE more[i - Len(lines)]
  BY <1>1, ConcatProperties, LenProperties DEF Flow
<1> HIDE DEF more, all
<1>3. \A i \in 1 .. Len(all) :
        \/ i <= Len(lines) /\ i \in 1 .. Len(lines) /\ all[i] = lines[i]
        \/ i > Len(lines) /\ i - Len(lines) \in 1 .. Len(more) /\ all[i] = more[i - Len(lines)]
  BY <1>2
<1>4. CASE Fresh(rest)
  <2>1. \A i \in 1 .. Len(more) : ~more[i].stale
    BY <1>1, <1>4 DEF Fresh
  <2>2. Fresh(Tail(rest))
    BY <1>1, <1>4 DEF Fresh
  <2>3. ASSUME NEW i \in DOMAIN all, NEW j \in DOMAIN all, i < j, all[j].stale
        PROVE  all[i].stale
    <3>1. j \in 1 .. Len(lines) /\ all[j] = lines[j]
      BY <1>2, <1>3, <2>1, <2>3
    <3>2. i \in 1 .. Len(lines) /\ all[i] = lines[i]
      BY <1>2, <1>3, <2>3, <3>1
    <3> QED
      BY <1>2, <2>3, <3>1, <3>2 DEF Flow, Ordered
  <2> QED
    BY <1>1, <1>2, <2>2, <2>3 DEF Flow, Ordered, all, more
<1>5. CASE Old(rest) /\ \A i \in 1 .. Len(lines) : lines[i].stale
  <2>1. \A i \in 1 .. Len(more) : more[i].stale
    BY <1>1, <1>5 DEF Old
  <2>2. Old(Tail(rest))
    BY <1>1, <1>5 DEF Old
  <2>3. \A i \in 1 .. Len(all) : all[i].stale
    BY <1>3, <1>5, <2>1
  <2> QED
    BY <1>1, <1>2, <2>2, <2>3 DEF Flow, Ordered, all, more
<1> QED
  BY <1>4, <1>5 DEF Flow

(* A board starts from the beginning.                                      *)
LEMMA FlowRestart ==
  ASSUME NEW lines, NEW rest, Flow(lines, rest), NEW b \in Seq(Seq(Spoken))
  PROVE  b \in Seq(Seq(Received)) /\ Flow(lines, b)
<1>1. Spoken \subseteq Received
  BY ReceivedLines
<1>2. Seq(Spoken) \subseteq Seq(Received)
  BY <1>1, SeqMonotonic
<1>3. b \in Seq(Seq(Received))
  BY <1>2, SeqMonotonic
<1>4. \A i \in 1 .. Len(b) : b[i] \in Seq(Spoken)
  BY ElementOfSeq
<1>5. Fresh(b)
  BY <1>4, ElementOfSeq, ReceivedLines DEF Fresh
<1> QED
  BY <1>3, <1>5 DEF Flow

LEMMA StaleLines ==
  ASSUME NEW lines \in Seq(Received)
  PROVE  /\ Stale(lines) \in Seq(Received)
         /\ DOMAIN Stale(lines) = 1 .. Len(lines) /\ Len(Stale(lines)) = Len(lines)
         /\ DOMAIN lines = 1 .. Len(lines) /\ Len(lines) \in Nat
         /\ \A j \in 1 .. Len(lines) :
              /\ lines[j] \in Received
              /\ Stale(lines)[j] = [lines[j] EXCEPT !.stale = TRUE]
              /\ Stale(lines)[j].stale
<1>1. /\ DOMAIN lines = 1 .. Len(lines) /\ Len(lines) \in Nat
      /\ \A i \in 1 .. Len(lines) : lines[i] \in Received
  BY LenProperties, ElementOfSeq
<1>2. Stale(lines) \in [1 .. Len(lines) -> Received]
  BY <1>1, ReceivedLines DEF Stale
<1>3. DOMAIN Stale(lines) = 1 .. Len(lines)
  BY <1>1 DEF Stale
<1>4. Stale(lines) \in Seq(Received)
  <2> DEFINE t == Stale(lines)
  <2> HIDE DEF t
  <2>1. t \in [1 .. Len(lines) -> Received]
    BY <1>2 DEF t
  <2>2. t \in Seq(Received)
    BY <1>1, <2>1, SeqDef
  <2> QED
    BY <2>2 DEF t
<1>5. Len(Stale(lines)) = Len(lines)
  BY <1>1, <1>3, <1>4, LenProperties
<1>6. \A j \in 1 .. Len(lines) : Stale(lines)[j] = [lines[j] EXCEPT !.stale = TRUE]
  BY <1>1 DEF Stale
<1>7. \A j \in 1 .. Len(lines) : Stale(lines)[j].stale
  BY <1>1, ReceivedLines DEF Stale
<1> QED
  BY <1>1, <1>3, <1>4, <1>5, <1>6, <1>7

(* The input buffers are emptied before the reset.                         *)
LEMMA FlowReset ==
  ASSUME NEW rest \in Seq(Seq(Received))
  PROVE  Flow(<<>> \o <<>>, [i \in DOMAIN rest |-> Stale(rest[i])])
<1> DEFINE old == [i \in DOMAIN rest |-> Stale(rest[i])]
<1>1. /\ DOMAIN rest = 1 .. Len(rest) /\ Len(rest) \in Nat
      /\ \A i \in 1 .. Len(rest) : rest[i] \in Seq(Received)
  BY LenProperties, ElementOfSeq
<1>2. ASSUME NEW lines \in Seq(Received)
      PROVE  /\ Stale(lines) \in Seq(Received)
             /\ \A j \in 1 .. Len(Stale(lines)) : Stale(lines)[j].stale
  BY StaleLines
<1>3. old \in [1 .. Len(rest) -> Seq(Received)]
  BY <1>1, <1>2
<1>4. old \in Seq(Seq(Received)) /\ DOMAIN old = 1 .. Len(rest)
  BY <1>1, <1>3, SeqDef
<1>5. Len(old) = Len(rest)
  BY <1>1, <1>4, LenProperties
<1>6. Old(old)
  BY <1>1, <1>2, <1>5 DEF Old
<1>7. <<>> \o <<>> = <<>> /\ <<>> \in Seq(Received) /\ Len(<<>>) = 0 /\ DOMAIN <<>> = 1 .. 0
  BY ConcatEmptySeq, EmptySeq, LenProperties
<1>8. Ordered(<<>>)
  BY <1>7 DEF Ordered
<1> QED
  BY <1>4, <1>6, <1>7, <1>8 DEF Flow

FlowInv ==
  /\ left \in [Sides -> Seq(Seq(Received))]
  /\ rx \in [Sides -> Seq(Received)] /\ log \in [Sides -> Seq(Received)]
  /\ \A s \in Sides : Flow(log[s] \o rx[s], left[s])

LEMMA EmptyParts ==
  /\ <<>> \in Seq(Received) /\ <<>> \in Seq(Seq(Received)) /\ Fresh(<<>>)
  /\ \A lines \in Seq(Received) : lines \o <<>> = lines
  /\ \A lines, rest : Flow(lines, rest) => Flow(lines, <<>>)
<1>1. <<>> \in Seq(Received) /\ <<>> \in Seq(Seq(Received)) /\ Len(<<>>) = 0
  BY EmptySeq
<1>2. Fresh(<<>>)
  BY <1>1 DEF Fresh
<1> QED
  BY <1>1, <1>2, ConcatEmptySeq DEF Flow

(* The scripts of the command lines.                                       *)
LEMMA SpokenScripts ==
  /\ Refused \in Seq(Seq(Spoken))
  /\ \A o \in Options, s \in Sides : o.boots[s] \cup o.old[s] \subseteq Seq(Seq(Spoken))
<1>1. Printed \subseteq Spoken /\ Refused[1][1] \in Spoken
  BY DEF Spoken
<1>2. Seq(Seq(Printed)) \subseteq Seq(Seq(Spoken))
  BY <1>1, SeqMonotonic
<1>3. Refused \in Seq(Seq(Spoken))
  <2> DEFINE l == Refused[1][1]
  <2>1. Refused = << <<l>> >>
    BY DEF Refused
  <2> HIDE DEF l
  <2>2. << <<l>> >> \in Seq(Seq(Spoken))
    BY <1>1 DEF l
  <2> QED
    BY <2>1, <2>2
<1>4. ASSUME NEW o \in Options, NEW s \in Sides
      PROVE  o.boots[s] \cup o.old[s] \subseteq Seq(Seq(Printed))
  <2>1. o.boots[s] \cup o.old[s] \subseteq Scripts
    <3> DEFINE S == {p.boots[t] \cup p.old[t] : p \in Options, t \in Sides}
    <3>1. o.boots[s] \cup o.old[s] \in S
      OBVIOUS
    <3>2. Scripts = UNION S
      BY DEF Scripts
    <3> HIDE DEF S
    <3> QED
      BY <3>1, <3>2
  <2> QED
    BY <2>1, ScriptsAssumption
<1> QED
  BY <1>2, <1>3, <1>4

LEMMA FlowInit == Init => FlowInv
<1> SUFFICES ASSUME Init PROVE FlowInv
  OBVIOUS
<1>1. opt \in Options /\ rx = Nothing /\ log = Nothing
  BY DEF Init
<1>2. /\ left = [s \in Sides |-> IF s = "first" THEN left["first"] ELSE left["second"]]
      /\ left["first"] \in opt.old["first"] /\ left["second"] \in opt.old["second"]
  BY DEF Init, Sides
<1>3. \A s \in Sides : left[s] \in Seq(Seq(Spoken))
  BY <1>1, <1>2, SpokenScripts DEF Sides
<1>4. Flow(<<>> \o <<>>, <<>>)
  <2>1. [i \in DOMAIN <<>> |-> Stale(<<>>[i])] \in Seq(Seq(Received))
        /\ Flow(<<>> \o <<>>, [i \in DOMAIN <<>> |-> Stale(<<>>[i])])
    BY FlowReset, EmptyParts DEF Flow
  <2> QED
    BY <2>1, EmptyParts DEF Flow
<1>5. \A s \in Sides : rx[s] = <<>> /\ log[s] = <<>>
  BY <1>1 DEF Nothing
<1>6. \A s \in Sides : left[s] \in Seq(Seq(Received)) /\ Flow(log[s] \o rx[s], left[s])
  BY <1>3, <1>4, <1>5, FlowRestart
<1> QED
  BY <1>1, <1>2, <1>6, EmptyParts DEF FlowInv, Nothing

LEMMA FlowRestarts ==
  ASSUME FlowInv, HoldInv, NEW s \in Sides, Restart(s), log' = log
  PROVE  FlowInv'
<1>1. PICK b \in opt.boots[s] : left' = [left EXCEPT ![s] = b]
  BY DEF Restart
<1>2. rx' = rx
  BY DEF Restart
<1>3. b \in Seq(Seq(Spoken))
  BY SpokenScripts DEF HoldInv
<1>4. b \in Seq(Seq(Received)) /\ Flow(log[s] \o rx[s], b)
  BY <1>3, FlowRestart DEF FlowInv
<1> QED
  BY <1>1, <1>2, <1>4 DEF FlowInv

LEMMA FlowPrinted ==
  ASSUME FlowInv, NEW s \in Sides, Prints(s)
  PROVE  FlowInv'
<1>1. log' = log /\ left[s] # <<>>
  BY DEF Prints, attempt
<1>2. CASE left' = [left EXCEPT ![s] = Refused] /\ rx' = rx
  <2>1. Refused \in Seq(Seq(Received)) /\ Flow(log[s] \o rx[s], Refused)
    BY SpokenScripts, FlowRestart DEF FlowInv
  <2> QED
    BY <1>1, <1>2, <2>1 DEF FlowInv
<1>3. CASE /\ left' = [left EXCEPT ![s] = Tail(@)]
           /\ rx' = [rx EXCEPT ![s] = @ \o Head(left[s])]
  <2> DEFINE more == Head(left[s])
  <2>1. more \in Seq(Received) /\ Flow((log[s] \o rx[s]) \o more, Tail(left[s]))
    BY <1>1, FlowPrints DEF FlowInv
  <2>2. log[s] \in Seq(Received) /\ rx[s] \in Seq(Received)
    BY DEF FlowInv
  <2>3. (log[s] \o rx[s]) \o more = log[s] \o (rx[s] \o more)
    <3>1. ASSUME NEW a \in Seq(Received), NEW b \in Seq(Received), NEW c \in Seq(Received)
          PROVE  (a \o b) \o c = a \o (b \o c)
      BY ConcatAssociative
    <3> QED
      BY <2>1, <2>2, <3>1, Zenon
  <2>4. rx[s] \o more \in Seq(Received) /\ Tail(left[s]) \in Seq(Seq(Received))
    BY <2>1, <2>2, ConcatProperties DEF Flow
  <2> QED
    BY <1>1, <1>3, <2>1, <2>3, <2>4 DEF FlowInv
<1> QED
  BY <1>2, <1>3 DEF Prints

(* The tool reads what waits in the ports.                                 *)
LEMMA FlowDrained ==
  ASSUME FlowInv, log' = Drained, rx' = Nothing, left' = left
  PROVE  FlowInv'
<1>1. \A s \in Sides : log[s] \o rx[s] \in Seq(Received)
  BY DEF FlowInv, Flow
<1>2. \A s \in Sides : log'[s] = log[s] \o rx[s] /\ rx'[s] = <<>>
  BY DEF Drained, Nothing
<1>3. \A s \in Sides : log'[s] \o rx'[s] = log[s] \o rx[s]
  BY <1>1, <1>2, EmptyParts
<1>4. log' \in [Sides -> Seq(Received)] /\ rx' \in [Sides -> Seq(Received)]
  BY <1>1, EmptyParts DEF Drained, Nothing
<1> QED
  BY <1>3, <1>4 DEF FlowInv

LEMMA FlowStep == FlowInv /\ HoldInv /\ [Next]_vars => FlowInv'
<1> SUFFICES ASSUME FlowInv, HoldInv, [Next]_vars PROVE FlowInv'
  OBVIOUS
<1>0. "first" \in Sides /\ "second" \in Sides
  BY DEF Sides
<1>1. CASE FirstPrints \/ SecondPrints
  BY <1>0, <1>1, FlowPrinted DEF FirstPrints, SecondPrints
<1>2. CASE PulseFirst \/ PulseSecond
  BY <1>0, <1>2, FlowRestarts DEF PulseFirst, PulseSecond, attempt
<1>3. CASE ReleaseReset /\ Released
  BY <1>0, <1>3, FlowRestarts DEF ReleaseReset, Released, attempt
<1>4. CASE HoldReset \/ HoldFails
  <2>1. /\ rx' = rx /\ log' = log
        /\ left' \in {left, [left EXCEPT !["second"] = <<>>]}
    BY <1>4 DEF HoldReset, HoldFails, Drive, attempt
  <2>2. CASE left' = left
    BY <2>1, <2>2 DEF FlowInv
  <2>3. CASE left' = [left EXCEPT !["second"] = <<>>]
    <3>1. Flow(log["second"] \o rx["second"], <<>>)
      BY <1>0, EmptyParts DEF FlowInv
    <3> QED
      BY <1>0, <2>1, <2>3, <3>1, EmptyParts DEF FlowInv
  <2> QED
    BY <2>1, <2>2, <2>3
<1>5. CASE ResetInputs
  <2>1. /\ rx' = Nothing /\ log' = Nothing
        /\ left' = [s \in Sides |-> [i \in DOMAIN left[s] |-> Stale(left[s][i])]]
    BY <1>5 DEF ResetInputs
  <2>2. \A s \in Sides : /\ left'[s] \in Seq(Seq(Received))
                         /\ Flow(log'[s] \o rx'[s], left'[s])
    <3> TAKE s \in Sides
    <3>1. left[s] \in Seq(Seq(Received)) /\ log'[s] = <<>> /\ rx'[s] = <<>>
      BY <2>1 DEF FlowInv, Nothing
    <3>2. left'[s] = [i \in DOMAIN left[s] |-> Stale(left[s][i])]
      BY <2>1
    <3> QED
      BY <3>1, <3>2, FlowReset DEF Flow
  <2> QED
    BY <2>1, <2>2, EmptyParts DEF FlowInv, Nothing
<1>6. CASE DrainFirst
  <2>1. /\ left' = left
        /\ log' = [log EXCEPT !["first"] = @ \o rx["first"]]
        /\ rx' = [rx EXCEPT !["first"] = <<>>]
    BY <1>6 DEF DrainFirst
  <2>2. log["first"] \o rx["first"] \in Seq(Received)
    BY <1>0 DEF FlowInv, Flow
  <2>3. (log["first"] \o rx["first"]) \o <<>> = log["first"] \o rx["first"]
    BY <2>2, EmptyParts
  <2> QED
    BY <1>0, <2>1, <2>2, <2>3, EmptyParts DEF FlowInv
<1>7. CASE Poll \/ DeadlinePassed \/ LingerElapsed
  BY <1>7, FlowDrained DEF Poll, DeadlinePassed, LingerElapsed, CaptureEnds
<1>8. CASE \/ Start \/ HolderDies \/ PulseFails \/ SettleElapsed \/ TrustQuit
           \/ WriteRun \/ Summarize \/ PollHolder \/ UNCHANGED vars
           \/ ReleaseReset /\ ~Released
  <2>1. left' = left /\ rx' = rx /\ log' = log
    BY <1>8 DEF Start, HolderDies, PulseFails, SettleElapsed, TrustQuit, WriteRun,
                Summarize, PollHolder, ReleaseReset, PulseReleaseFails, NotReleased,
                vars, boards, attempt
  <2> QED
    BY <2>1 DEF FlowInv
<1> QED
  BY <1>1, <1>2, <1>3, <1>4, <1>5, <1>6, <1>7, <1>8 DEF Next, ToolStep

-----------------------------------------------------------------------------
(* The logs on disk.                                                       *)
LogsInv ==
  \A i \in 1 .. Len(disk), s \in Sides :
    /\ Ordered(disk[i].logs[s])
    /\ ~Bond(opt) => disk[i].logs[s] \in Seq(Received)

(* Redaction hides a passkey and leaves the order of the lines alone.      *)
LEMMA RedactedOrder ==
  ASSUME NEW lines \in Seq(Received), Ordered(lines)
  PROVE  Ordered(RedactPasskeys(lines))
<1> DEFINE clean == RedactPasskeys(lines)
<1>1. DOMAIN clean = DOMAIN lines
  BY DEF RedactPasskeys
<1>2. ASSUME NEW i \in DOMAIN lines PROVE clean[i].stale = lines[i].stale
  <2>1. lines[i] \in Received
    BY ElementOfSeq, LenProperties
  <2>3. "stale" \in DOMAIN lines[i]
    BY <2>1, ReceivedLines DEF WellFormed
  <2>2. clean[i] = lines[i] \/ clean[i] = [lines[i] EXCEPT !.m = PasskeyRedacted]
    BY DEF RedactPasskeys
  <2> QED
    BY <2>2, <2>3
<1> HIDE DEF clean
<1>3. Ordered(clean)
  BY <1>1, <1>2 DEF Ordered
<1> QED
  BY <1>3 DEF clean

LEMMA LogsStep == LogsInv /\ FlowInv /\ RecordInv /\ [Next]_vars => LogsInv'
<1> SUFFICES ASSUME LogsInv, FlowInv, RecordInv, [Next]_vars PROVE LogsInv'
  OBVIOUS
<1>1. CASE ~WriteRun
  BY <1>1, QuietResults DEF LogsInv
<1>2. CASE WriteRun
  <2> DEFINE logs == IF Bond(opt) THEN [s \in Sides |-> RedactPasskeys(log[s])] ELSE log
             d == [logs |-> logs, sent |-> sent]
  <2>1. disk' = Append(disk, d) /\ opt' = opt
    BY <1>2 DEF WriteRun
  <2>2. d.logs = logs
    OBVIOUS
  <2> HIDE DEF d
  <2>3. /\ Len(disk') = Len(disk) + 1 /\ disk'[Len(disk) + 1] = d
        /\ \A i \in 1 .. Len(disk) : disk'[i] = disk[i]
        /\ Len(disk) \in Nat
    BY <2>1, AppendSequence, SequenceLength DEF RecordInv
  <2>4. \A s \in Sides : log[s] \in Seq(Received) /\ Ordered(log[s])
    BY OrderedPrefix DEF FlowInv, Flow
  <2>5. \A s \in Sides : /\ Ordered(logs[s])
                         /\ ~Bond(opt) => logs[s] \in Seq(Received)
    BY <2>4, RedactedOrder
  <2> HIDE DEF logs
  <2> QED
    BY <2>1, <2>2, <2>3, <2>5 DEF LogsInv
<1> QED
  BY <1>1, <1>2

LEMMA LogsAlways == Spec => [](LogsInv /\ RecordInv /\ HoldInv)
<1>1. Init => LogsInv
  BY NoRows DEF Init, LogsInv
<1>2. Init => RecordInv
  BY NoRows DEF Init, RecordInv
<1> QED
  BY <1>1, <1>2, FlowInit, FlowStep, LogsStep, RecordStep, HoldInit, HoldStep, PTL DEF Spec

(* generation_errors: one boot, and no protocol line before it.            *)
LEMMA GenerationStartsAtBoot ==
  ASSUME NEW lines, Ordered(lines), ~GenerationErrors(lines),
         NEW b \in DOMAIN lines, lines[b].m = Boot, ~lines[b].stale
  PROVE  \A j \in DOMAIN lines : lines[j].m \in BondLines => ~lines[j].stale
<1> DEFINE boots == {i \in DOMAIN lines : lines[i].m = Boot}
<1>1. PICK n \in Nat : DOMAIN lines = 1 .. n
  BY DEF Ordered
<1>2. IsFiniteSet(boots) /\ Cardinality(boots) = 1
  <2>1. IsFiniteSet(1 .. n)
    BY FS_Interval
  <2>2. IsFiniteSet(boots)
    BY <1>1, <2>1, FS_Subset
  <2> QED
    BY <2>2 DEF GenerationErrors, Count
<1>3. PICK x : boots = {x}
  <2> HIDE DEF boots
  <2> QED
    BY <1>2, FS_Singleton
<1>4. SUFFICES ASSUME NEW j \in DOMAIN lines, lines[j].m \in BondLines
               PROVE  ~lines[j].stale
  OBVIOUS
<1>5. PICK i \in 1 .. j : lines[i].m = Boot
  BY <1>4 DEF GenerationErrors
<1>6. i \in DOMAIN lines
  BY <1>1, <1>4, <1>5
<1>7. i = b
  BY <1>3, <1>5, <1>6
<1> QED
  BY <1>1, <1>4, <1>5, <1>7 DEF Ordered

(* OneGeneration, of generation_errors: however long the firmware of the   *)
(* run before goes on printing, none of its protocol lines is in the log   *)
(* of a run that passes with the boot of its own reset.                    *)
THEOREM GenerationsSeparate == Spec => []OneGeneration
<1>1. LogsInv /\ RecordInv /\ HoldInv => OneGeneration
  <2> SUFFICES ASSUME LogsInv, RecordInv, Bond(opt),
                      NEW i \in DOMAIN records, records[i].pass, NEW s \in Sides
               PROVE  LET lines == disk[i].logs[s]
                      IN  (\E j \in DOMAIN lines : lines[j].m = Boot /\ ~lines[j].stale) =>
                            \A j \in DOMAIN lines : lines[j].m \in BondLines => ~lines[j].stale
    BY DEF OneGeneration
  <2>1. i \in 1 .. Len(records) /\ Len(disk) = Len(records)
    BY SequenceLength DEF RecordInv
  <2>2. records[i] = BondClassify(opt.contract, opt.removal, disk[i].logs)
    BY <2>1 DEF RecordInv, Classify, Bond
  <2>3. ~GenerationErrors(disk[i].logs[s])
    BY <2>2 DEF BondClassify, Sides
  <2>4. Ordered(disk[i].logs[s])
    BY <2>1 DEF LogsInv
  <2> QED
    BY <2>3, <2>4, GenerationStartsAtBoot
<1> QED
  BY <1>1, LogsAlways, PTL

-----------------------------------------------------------------------------
(* The acceptance contracts: one board is the softap, the other is active. *)
Judged(contract, s) ==
  IF EndpointRoles(contract)[s] = "softap"
  THEN [events |-> ServerEvents, resources |-> ServerResources]
  ELSE [events |-> ActivityEvents, resources |-> ActivityResources]

(* The last whole line of a kind is the newest one that its pattern        *)
(* matches: a line that is cut short has lost fields.                      *)
LEMMA NewestIsLast ==
  ASSUME NEW lines \in Seq(Received),
         NEW m \in {ActivityEvents, ServerEvents, ActivityResources, ServerResources}
  PROVE  Newest(lines, m) = LastWhole(lines, m)
<1> DEFINE last == {k \in DOMAIN lines :
              /\ lines[k].m = m /\ Fields(m) = DOMAIN lines[k].v
              /\ \A l \in k + 1 .. Len(lines) :
                   lines[l].m = m => Fields(m) # DOMAIN lines[l].v}
           newest == {j \in Matches(lines, m) : \A k \in Matches(lines, m) : j >= k}
<1>1. DOMAIN lines = 1 .. Len(lines) /\ Len(lines) \in Nat
  BY LenProperties
<1>2. \A k \in DOMAIN lines : lines[k] \in Received
  BY <1>1, ElementOfSeq
<1>3. ASSUME NEW k \in DOMAIN lines, lines[k].m = m
      PROVE  Fields(m) \subseteq DOMAIN lines[k].v <=> Fields(m) = DOMAIN lines[k].v
  <2>1. DOMAIN lines[k].v \subseteq Fields(lines[k].m)
    BY <1>2, <1>3, ReceivedLines DEF WellFormed
  <2> QED
    BY <1>3, <2>1
<1>4. \A k : k \in Matches(lines, m) <=>
               k \in DOMAIN lines /\ lines[k].m = m /\ Fields(m) = DOMAIN lines[k].v
  BY <1>3 DEF Matches
<1>5. last = newest
  <2>1. ASSUME NEW k \in last PROVE k \in newest
    <3>1. k \in Matches(lines, m)
      BY <1>4
    <3>2. ASSUME NEW l \in Matches(lines, m), ~(k >= l) PROVE FALSE
      <4>1. l \in k + 1 .. Len(lines)
        BY <1>1, <1>4, <3>1, <3>2
      <4> QED
        BY <1>4, <4>1
    <3> QED
      BY <3>1, <3>2
  <2>2. ASSUME NEW k \in newest PROVE k \in last
    <3>1. k \in DOMAIN lines /\ lines[k].m = m /\ Fields(m) = DOMAIN lines[k].v
      BY <1>4
    <3>2. ASSUME NEW l \in k + 1 .. Len(lines), lines[l].m = m, Fields(m) = DOMAIN lines[l].v
          PROVE  FALSE
      <4>1. l \in Matches(lines, m) /\ k < l
        BY <1>1, <1>4, <3>1, <3>2
      <4>2. k >= l
        BY <4>1
      <4> QED
        BY <1>1, <3>1, <4>1, <4>2
    <3> QED
      BY <3>1, <3>2
  <2> QED
    BY <2>1, <2>2
<1> HIDE DEF last
<1>6. Newest(lines, m) = {lines[j].v : j \in last}
  BY <1>5 DEF Newest
<1> QED
  BY <1>6 DEF last, LastWhole

(* There is at most one, and it has the fields of its kind.                *)
LEMMA NewestValues ==
  ASSUME NEW lines \in Seq(Received),
         NEW m \in {ActivityEvents, ServerEvents, ActivityResources, ServerResources}
  PROVE  /\ \A v \in Newest(lines, m) : v \in [Fields(m) -> Nat]
         /\ \A v, w \in Newest(lines, m) : v = w
<1>1. DOMAIN lines = 1 .. Len(lines) /\ Len(lines) \in Nat
  BY LenProperties
<1>2. ASSUME NEW v \in Newest(lines, m) PROVE v \in [Fields(m) -> Nat]
  <2>1. PICK k \in DOMAIN lines : v = lines[k].v /\ lines[k].m = m /\ Fields(m) = DOMAIN lines[k].v
    BY NewestIsLast DEF LastWhole
  <2>2. lines[k] \in Received
    BY <1>1, ElementOfSeq
  <2>3. v \in [DOMAIN v -> Nat]
    BY <2>1, <2>2, ReceivedLines DEF WellFormed
  <2> QED
    BY <2>1, <2>3
<1>3. ASSUME NEW v \in Newest(lines, m), NEW w \in Newest(lines, m) PROVE v = w
  <2>1. PICK j \in Matches(lines, m) : v = lines[j].v /\ \A k \in Matches(lines, m) : j >= k
    BY DEF Newest
  <2>2. PICK l \in Matches(lines, m) : w = lines[l].v /\ \A k \in Matches(lines, m) : l >= k
    BY DEF Newest
  <2>3. j \in Nat /\ l \in Nat /\ j >= l /\ l >= j
    BY <1>1, <2>1, <2>2 DEF Matches
  <2> QED
    BY <2>1, <2>2, <2>3
<1> QED
  BY <1>2, <1>3

(* What classify says of a board that passes an acceptance contract.       *)
LEMMA AcceptedBoard ==
  ASSUME NEW contract \in AcceptanceContracts, NEW s \in Sides, NEW lines
  PROVE  LET result == CoexClassify(contract, EndpointRoles(contract)[s], lines)
             kind == Judged(contract, s)
         IN  /\ result.events = Newest(lines, kind.events)
             /\ result.resources = Newest(lines, kind.resources)
             /\ result.pass =>
                  /\ IF kind.events = ActivityEvents THEN ActivityEventsOk(lines)
                     ELSE ServerEventsOk(lines)
                  /\ ResourcesOk(lines, kind.resources)
<1> DEFINE role == EndpointRoles(contract)[s]
           result == CoexClassify(contract, role, lines)
           kind == Judged(contract, s)
           active == role = TrafficActivityRole(contract)
<1>1. contract \in TrafficContracts
  BY DEF AcceptanceContracts, TrafficContracts
<1>2. active <=> role # "softap"
  <2>1. CASE contract = "wifi-ble-connected-traffic"
    BY <2>1 DEF EndpointRoles, TrafficActivityRole, Sides
  <2>2. CASE contract = "wifi-sle-connected-traffic"
    BY <2>2 DEF EndpointRoles, TrafficActivityRole, Sides
  <2> QED
    BY <2>1, <2>2 DEF AcceptanceContracts
<1>3. CASE role = "softap"
  <2>1. kind.events = ServerEvents /\ kind.resources = ServerResources
    BY <1>3 DEF Judged
  <2>2. kind.events # ActivityEvents
    BY <2>1 DEF ServerEvents, ActivityEvents
  <2>3. /\ result.events = Newest(lines, ServerEvents)
        /\ result.resources = Newest(lines, ServerResources)
        /\ result.pass => ServerEventsOk(lines) /\ ResourcesOk(lines, ServerResources)
    BY <1>1, <1>2, <1>3 DEF CoexClassify
  <2> QED
    BY <2>1, <2>2, <2>3
<1>4. CASE role # "softap"
  <2>1. kind.events = ActivityEvents /\ kind.resources = ActivityResources
    BY <1>4 DEF Judged
  <2>2. /\ result.events = Newest(lines, ActivityEvents)
        /\ result.resources = Newest(lines, ActivityResources)
        /\ result.pass => ActivityEventsOk(lines) /\ ResourcesOk(lines, ActivityResources)
    BY <1>1, <1>2, <1>4 DEF CoexClassify
  <2> QED
    BY <2>1, <2>2
<1> QED
  BY <1>3, <1>4

(* summarize_acceptance takes the extremes over both boards of every run.  *)
LEMMA AcceptanceExtremes ==
  ASSUME NEW rows, NEW n \in Nat, DOMAIN rows = 1 .. n,
         \A i \in 1 .. n, s \in Sides :
           /\ \A v \in rows[i].sides[s].resources :
                v.free \in Nat /\ v.peak \in Nat /\ "peak" \in DOMAIN v
           /\ \A v, w \in rows[i].sides[s].resources : v = w,
         NEW run0 \in 1 .. n, NEW side \in Sides,
         rows[run0].sides[side].events # {},
         NEW value \in rows[run0].sides[side].resources
  PROVE  \E a \in SummarizeAcceptance(rows) :
           a.min_heap_free <= value.free /\ value.peak <= a.max_heap_peak
<1> DEFINE events == Snapshots(rows, "events")
           resources == Snapshots(rows, "resources")
           free == {e[3].free : e \in resources}
           peaks == {At(e[3], "peak") : e \in resources}
<1>1. ASSUME NEW field, NEW i \in DOMAIN rows, NEW s \in Sides,
             NEW v \in rows[i].sides[s][field]
      PROVE  <<i, s, v>> \in Snapshots(rows, field)
  <2> DEFINE part == {<<i, s, w>> : w \in rows[i].sides[s][field]}
             parts == {{<<j, t, w>> : w \in rows[j].sides[t][field]} :
                          j \in DOMAIN rows, t \in {"first", "second"}}
  <2>1. part \in parts
    BY DEF Sides
  <2>2. <<i, s, v>> \in part
    OBVIOUS
  <2>3. Snapshots(rows, field) = UNION parts
    BY DEF Snapshots
  <2> HIDE DEF part, parts
  <2> QED
    BY <2>1, <2>2, <2>3
<1>2. ASSUME NEW e \in resources
      PROVE  \E i \in 1 .. n, s \in Sides : e[3] \in rows[i].sides[s].resources
  <2> DEFINE parts == {{<<j, t, w>> : w \in rows[j].sides[t]["resources"]} :
                          j \in DOMAIN rows, t \in {"first", "second"}}
  <2>1. resources = UNION parts
    BY DEF Snapshots
  <2>2. PICK part \in parts : e \in part
    <3> HIDE DEF parts
    <3> QED
      BY <2>1
  <2>3. PICK j \in DOMAIN rows, t \in {"first", "second"} :
          part = {<<j, t, w>> : w \in rows[j].sides[t]["resources"]}
    BY <2>2
  <2>4. PICK w \in rows[j].sides[t]["resources"] : e = <<j, t, w>>
    BY <2>2, <2>3
  <2> QED
    BY <2>4 DEF Sides
<1>8. events # {} /\ <<run0, side, value>> \in resources
  <2>1. PICK v : v \in rows[run0].sides[side]["events"]
    OBVIOUS
  <2>2. <<run0, side, v>> \in events
    BY <1>1, <2>1
  <2>3. value \in rows[run0].sides[side]["resources"]
    OBVIOUS
  <2> QED
    BY <1>1, <2>2, <2>3
<1>4. \E a \in SummarizeAcceptance(rows) :
        a.min_heap_free = Min(free) /\ a.max_heap_peak = Max(peaks)
  BY <1>8 DEF SummarizeAcceptance, Highest
<1> HIDE DEF resources, events
<1>3. ASSUME NEW e \in resources
      PROVE  /\ e[3].free \in Nat
             /\ At(e[3], "peak") = e[3].peak /\ e[3].peak \in Nat
  BY <1>2 DEF At
<1>5. Min(free) <= value.free
  <2>1. free \in SUBSET Nat /\ value.free \in free
    BY <1>8, <1>3
  <2> HIDE DEF free
  <2> QED
    BY <2>1, LeastNatural DEF Min
<1>6. value.peak <= Max(peaks)
  <2>1. peaks \in SUBSET Nat /\ value.peak \in peaks
    BY <1>8, <1>3
  <2>2. IsFiniteSet(peaks)
    <3> DEFINE runs == (1 .. n) \X Sides
               of == [p \in runs |->
                        IF rows[p[1]].sides[p[2]].resources = {} THEN 0
                        ELSE (CHOOSE v \in rows[p[1]].sides[p[2]].resources : TRUE).peak]
               seen == {of[p] : p \in runs}
    <3>1. IsFiniteSet(runs)
      <4>1. IsFiniteSet(1 .. n) /\ IsFiniteSet({"first"})
        <5>1. 1 \in Int /\ n \in Int
          OBVIOUS
        <5> QED
          BY <5>1, FS_Interval, FS_Singleton
      <4>2. IsFiniteSet({"first"} \cup {"second"})
        BY <4>1, FS_AddElement
      <4>3. {"first"} \cup {"second"} = Sides
        BY DEF Sides
      <4> QED
        BY <4>1, <4>2, <4>3, FS_Product
    <3>2. of \in Surjection(runs, seen)
      BY DEF Surjection
    <3>3. IsFiniteSet(seen)
      <4> HIDE DEF runs, of, seen
      <4> QED
        BY <3>1, <3>2, FS_Surjection
    <3>4. ASSUME NEW e \in resources PROVE At(e[3], "peak") \in seen
      <4>1. PICK i \in 1 .. n, s \in Sides : e[3] \in rows[i].sides[s].resources
        BY <1>2
      <4>2. (CHOOSE v \in rows[i].sides[s].resources : TRUE) = e[3]
        BY <4>1
      <4> DEFINE p == <<i, s>>
      <4>3. p \in runs /\ p[1] = i /\ p[2] = s
        OBVIOUS
      <4>4. of[p] = e[3].peak
        BY <4>1, <4>2, <4>3
      <4> HIDE DEF p, of
      <4> QED
        BY <1>3, <4>3, <4>4
    <3>5. peaks \subseteq seen
      <4> HIDE DEF seen
      <4> QED
        BY <3>4
    <3> HIDE DEF peaks, seen
    <3> QED
      BY <3>3, <3>5, FS_Subset
  <2> HIDE DEF peaks
  <2> QED
    BY <2>1, <2>2, GreatestNatural DEF Max
<1> QED
  BY <1>4, <1>5, <1>6

(* A coexistence matrix that passes an acceptance contract.                *)
LEMMA CoexistenceLosesNothing ==
  ASSUME LogsInv, RecordInv, opt.tool = "coexistence",
         opt.contract \in AcceptanceContracts
  PROVE  NothingLost
<1> DEFINE kind(s) == Judged(opt.contract, s)
           of(i, s) == records[i].sides[s]
<1>1. /\ DOMAIN records = 1 .. Len(records) /\ Len(records) \in Nat
      /\ Len(disk) = Len(records)
  BY SequenceLength DEF RecordInv
<1>2. ASSUME NEW i \in 1 .. Len(records), NEW s \in Sides
      PROVE  /\ disk[i].logs[s] \in Seq(Received)
             /\ of(i, s) = CoexClassify(opt.contract, EndpointRoles(opt.contract)[s],
                                        disk[i].logs[s])
             /\ records[i].pass => of(i, s).pass
  <2>1. records[i] = [pass |-> CoexPairPasses(opt.contract, disk[i].logs),
                      sides |-> [t \in Sides |->
                        CoexClassify(opt.contract, EndpointRoles(opt.contract)[t],
                                     disk[i].logs[t])]]
    BY DEF RecordInv, Classify
  <2>2. disk[i].logs[s] \in Seq(Received)
    BY <1>1 DEF LogsInv, Bond
  <2>3. CoexPairPasses(opt.contract, disk[i].logs) =>
          CoexClassify(opt.contract, EndpointRoles(opt.contract)[s], disk[i].logs[s]).pass
    BY DEF CoexPairPasses, Sides
  <2> QED
    BY <2>1, <2>2, <2>3
<1> HIDE DEF of
<1>3. \A s \in Sides :
        /\ kind(s).events \in {ActivityEvents, ServerEvents}
        /\ kind(s).resources \in {ActivityResources, ServerResources}
  BY DEF Judged
<1>4. ASSUME NEW i \in 1 .. Len(records), NEW s \in Sides
      PROVE  /\ of(i, s).events = Newest(disk[i].logs[s], kind(s).events)
             /\ of(i, s).resources = Newest(disk[i].logs[s], kind(s).resources)
             /\ records[i].pass =>
                  /\ IF kind(s).events = ActivityEvents
                     THEN ActivityEventsOk(disk[i].logs[s])
                     ELSE ServerEventsOk(disk[i].logs[s])
                  /\ ResourcesOk(disk[i].logs[s], kind(s).resources)
  <2> DEFINE result == CoexClassify(opt.contract, EndpointRoles(opt.contract)[s],
                                    disk[i].logs[s])
  <2>1. of(i, s) = result /\ (records[i].pass => result.pass)
    BY <1>2
  <2>2. /\ result.events = Newest(disk[i].logs[s], kind(s).events)
        /\ result.resources = Newest(disk[i].logs[s], kind(s).resources)
        /\ result.pass =>
             /\ IF kind(s).events = ActivityEvents
                THEN ActivityEventsOk(disk[i].logs[s])
                ELSE ServerEventsOk(disk[i].logs[s])
             /\ ResourcesOk(disk[i].logs[s], kind(s).resources)
    BY AcceptedBoard, Zenon
  <2> HIDE DEF result, kind
  <2> QED
    BY <2>1, <2>2
<1>5. ASSUME NEW i \in 1 .. Len(records), NEW s \in Sides
      PROVE  /\ \A v \in of(i, s).events : v \in [Fields(kind(s).events) -> Nat]
             /\ \A v, w \in of(i, s).events : v = w
             /\ \A v \in of(i, s).resources : v \in [Fields(kind(s).resources) -> Nat]
             /\ \A v, w \in of(i, s).resources : v = w
  BY <1>2, <1>3, <1>4, NewestValues
<1>6. ASSUME NEW m \in {ActivityResources, ServerResources}
      PROVE  {"free", "peak"} \subseteq Fields(m)
  BY DEF Fields, ActivityResources, ServerResources, LocalEcho, SoftapNet,
         ServerEvents, ActivityEvents
<1>7. /\ "dropped" \notin Fields(ActivityEvents)
      /\ {"wifi_dropped", "protocol_dropped"} \cap Fields(ServerEvents) = {}
  BY DEF Fields, LocalEcho, SoftapNet, ServerEvents, ActivityEvents
<1>8. ASSUME NEW i \in DOMAIN records, records[i].pass, NEW s \in Sides
      PROVE  /\ of(i, s).events # {} /\ of(i, s).resources # {}
             /\ \A v \in of(i, s).events :
                  \A f \in DOMAIN v \cap {"dropped", "wifi_dropped", "protocol_dropped"} :
                    v[f] = 0
             /\ \A v \in of(i, s).resources :
                  /\ v.peak <= v.arena /\ v.failures = 0
                  /\ \E a \in SummarizeAcceptance(records) :
                       a.min_heap_free <= v.free /\ v.peak <= a.max_heap_peak
  <2>1. i \in 1 .. Len(records)
    BY <1>1
  <2> DEFINE lines == disk[i].logs[s]
             events == of(i, s).events
             resources == of(i, s).resources
  <2>2. /\ events = Newest(lines, kind(s).events)
        /\ resources = Newest(lines, kind(s).resources)
        /\ IF kind(s).events = ActivityEvents
           THEN ActivityEventsOk(lines) ELSE ServerEventsOk(lines)
        /\ ResourcesOk(lines, kind(s).resources)
    BY <1>4, <1>8, <2>1
  <2>3. /\ \A v \in events : v \in [Fields(kind(s).events) -> Nat]
        /\ \A v, w \in events : v = w
        /\ \A v, w \in resources : v = w
    BY <1>5, <2>1
  <2>4. kind(s).events \in {ActivityEvents, ServerEvents}
    BY <1>3
  <2> HIDE DEF lines, events, resources, kind
  <2>5. PICK e \in events :
          IF kind(s).events = ActivityEvents
          THEN e.wifi_dropped = 0 /\ e.protocol_dropped = 0 ELSE e.dropped = 0
    <3>1. CASE kind(s).events = ActivityEvents
      BY <2>2, <3>1 DEF ActivityEventsOk
    <3>2. CASE kind(s).events = ServerEvents /\ kind(s).events # ActivityEvents
      BY <2>2, <3>2 DEF ServerEventsOk
    <3> QED
      BY <2>4, <3>1, <3>2
  <2>6. \A f \in DOMAIN e \cap {"dropped", "wifi_dropped", "protocol_dropped"} : e[f] = 0
    <3>1. DOMAIN e = Fields(kind(s).events)
      BY <2>3
    <3> QED
      BY <1>7, <2>4, <2>5, <3>1
  <2>7. PICK r \in resources : r.peak <= r.arena /\ r.failures = 0
    BY <2>2 DEF ResourcesOk
  <2>8. \E a \in SummarizeAcceptance(records) :
          a.min_heap_free <= r.free /\ r.peak <= a.max_heap_peak
    <3>1. ASSUME NEW k \in 1 .. Len(records), NEW t \in Sides
          PROVE  /\ \A v \in records[k].sides[t].resources :
                      v.free \in Nat /\ v.peak \in Nat /\ "peak" \in DOMAIN v
                 /\ \A v, w \in records[k].sides[t].resources : v = w
      <4>1. /\ {"free", "peak"} \subseteq Fields(kind(t).resources)
            /\ \A v \in of(k, t).resources : v \in [Fields(kind(t).resources) -> Nat]
            /\ \A v, w \in of(k, t).resources : v = w
        BY <1>3, <1>5, <1>6
      <4> QED
        BY <4>1 DEF of
    <3>2. records[i].sides[s].events # {} /\ r \in records[i].sides[s].resources
      BY <2>5, <2>7 DEF of, events, resources
    <3> QED
      BY <1>1, <2>1, <3>1, <3>2, AcceptanceExtremes
  <2> QED
    BY <2>3, <2>5, <2>6, <2>7, <2>8 DEF events, resources
<1>9. ASSUME NEW i \in DOMAIN records, NEW s \in Sides
      PROVE  LET softap == EndpointRoles(opt.contract)[s] = "softap"
             IN  /\ of(i, s).events = LastWhole(disk[i].logs[s],
                      IF softap THEN ServerEvents ELSE ActivityEvents)
                 /\ of(i, s).resources = LastWhole(disk[i].logs[s],
                      IF softap THEN ServerResources ELSE ActivityResources)
  <2>1. /\ of(i, s).events = LastWhole(disk[i].logs[s], kind(s).events)
        /\ of(i, s).resources = LastWhole(disk[i].logs[s], kind(s).resources)
    BY <1>1, <1>2, <1>3, <1>4, NewestIsLast
  <2> QED
    BY <2>1 DEF Judged
<1> HIDE DEF of
<1> QED
  BY <1>8, <1>9 DEF NothingLost

(* NothingLost, of classify and summarize_acceptance: a line that the UART *)
(* cut short hides no loss, and no extreme of the summary.                 *)
THEOREM EventsAllAccounted == Spec => []NothingLost
<1>1. LogsInv /\ RecordInv => NothingLost
  BY CoexistenceLosesNothing DEF NothingLost
<1> QED
  BY <1>1, LogsAlways, PTL

-----------------------------------------------------------------------------
(* What was sent to the second board is a passkey of the first one's log.  *)
SentFrom(passkeys, lines, marker) ==
  /\ IsSequence(passkeys) /\ Len(passkeys) <= 1
  /\ \A k \in 1 .. Len(passkeys) : \E j \in DOMAIN lines :
       lines[j].m = marker /\ lines[j].stale = passkeys[k].stale

SentInv ==
  /\ SentFrom(sent, log["first"], PasskeyDisplay)
  /\ ~relayed => Len(sent) = 0
  /\ Bond(opt) => \A i \in 1 .. Len(disk) :
       /\ \A s \in Sides : ~Has(disk[i].logs[s], PasskeyDisplay)
       /\ SentFrom(disk[i].sent, disk[i].logs["first"], PasskeyRedacted)

LEMMA FirstPasskey ==
  ASSUME NEW lines \in Seq(Received), Has(lines, PasskeyDisplay)
  PROVE  \E j \in DOMAIN lines : lines[j].m = PasskeyDisplay /\ Passkey(lines) = lines[j]
<1> DEFINE shown == {i \in DOMAIN lines : lines[i].m = PasskeyDisplay}
           First(i) == /\ lines[i].m = PasskeyDisplay
                       /\ \A j \in 1 .. i - 1 : lines[j].m # PasskeyDisplay
<1>1. DOMAIN lines = 1 .. Len(lines) /\ Len(lines) \in Nat
  BY LenProperties
<1>2. shown # {} /\ shown \in SUBSET Nat
  BY <1>1 DEF Has
<1>3. PICK i \in shown : \A j \in shown : i <= j
  <2> HIDE DEF shown
  <2> QED
    BY <1>2, LeastNatural
<1>4. i \in DOMAIN lines /\ First(i)
  BY <1>1, <1>3
<1>5. \E k \in DOMAIN lines : k = (CHOOSE j \in DOMAIN lines : First(j)) /\ First(k)
  BY <1>4, Zenon
<1> QED
  BY <1>5, Zenon DEF Passkey

(* The log of the first board grows.                                       *)
LEMMA SentKept ==
  ASSUME NEW passkeys, NEW m, NEW read \in Seq(Received), NEW unread \in Seq(Received),
         SentFrom(passkeys, read, m)
  PROVE  SentFrom(passkeys, read \o unread, m)
<1>1. \A j \in DOMAIN read : j \in DOMAIN (read \o unread) /\ (read \o unread)[j] = read[j]
  BY ConcatProperties, LenProperties
<1> QED
  BY <1>1 DEF SentFrom

LEMMA RedactedPasskeys ==
  ASSUME NEW passkeys, NEW lines \in Seq(Received), SentFrom(passkeys, lines, PasskeyDisplay)
  PROVE  SentFrom(passkeys, RedactPasskeys(lines), PasskeyRedacted)
<1>1. ASSUME NEW j \in DOMAIN lines, lines[j].m = PasskeyDisplay
      PROVE  /\ j \in DOMAIN RedactPasskeys(lines)
             /\ RedactPasskeys(lines)[j].m = PasskeyRedacted
             /\ RedactPasskeys(lines)[j].stale = lines[j].stale
  <2>1. lines[j] \in Received
    BY ElementOfSeq, LenProperties
  <2>2. "m" \in DOMAIN lines[j] /\ "stale" \in DOMAIN lines[j]
    BY <2>1, ReceivedLines DEF WellFormed
  <2>3. /\ j \in DOMAIN RedactPasskeys(lines)
        /\ RedactPasskeys(lines)[j] = [lines[j] EXCEPT !.m = PasskeyRedacted]
    BY <1>1 DEF RedactPasskeys
  <2> QED
    BY <2>2, <2>3
<1> QED
  BY <1>1 DEF SentFrom

LEMMA NoPasskeyLeft ==
  ASSUME NEW lines \in Seq(Received)
  PROVE  ~Has(RedactPasskeys(lines), PasskeyDisplay)
<1>1. ASSUME NEW j \in DOMAIN lines PROVE RedactPasskeys(lines)[j].m # PasskeyDisplay
  <2>1. lines[j] \in Received
    BY ElementOfSeq, LenProperties
  <2>2. "m" \in DOMAIN lines[j]
    BY <2>1, ReceivedLines DEF WellFormed
  <2>3. RedactPasskeys(lines)[j] = IF lines[j].m = PasskeyDisplay
                                   THEN [lines[j] EXCEPT !.m = PasskeyRedacted] ELSE lines[j]
    BY DEF RedactPasskeys
  <2>4. PasskeyRedacted # PasskeyDisplay
    BY DEF PasskeyRedacted, PasskeyDisplay
  <2> QED
    BY <2>2, <2>3, <2>4
<1>2. DOMAIN RedactPasskeys(lines) = DOMAIN lines
  BY DEF RedactPasskeys
<1> QED
  BY <1>1, <1>2 DEF Has

LEMMA SentStep == SentInv /\ FlowInv /\ RecordInv /\ HoldInv /\ [Next]_vars => SentInv'
<1> SUFFICES ASSUME SentInv, FlowInv, RecordInv, HoldInv, [Next]_vars PROVE SentInv'
  OBVIOUS
<1> DEFINE Kept == Bond(opt) => \A i \in 1 .. Len(disk) :
             /\ \A s \in Sides : ~Has(disk[i].logs[s], PasskeyDisplay)
             /\ SentFrom(disk[i].sent, disk[i].logs["first"], PasskeyRedacted)
<1>0. /\ log["first"] \in Seq(Received) /\ rx["first"] \in Seq(Received)
      /\ log["first"] \o rx["first"] \in Seq(Received)
  BY ConcatProperties DEF FlowInv, Sides
<1>1. CASE WriteRun
  <2> DEFINE logs == IF Bond(opt) THEN [s \in Sides |-> RedactPasskeys(log[s])] ELSE log
             d == [logs |-> logs, sent |-> sent]
  <2>1. disk' = Append(disk, d) /\ UNCHANGED <<opt, log, sent, relayed>>
    BY <1>1 DEF WriteRun, attempt
  <2>2. d.logs = logs /\ d.sent = sent
    OBVIOUS
  <2> HIDE DEF d
  <2>3. /\ Len(disk') = Len(disk) + 1 /\ disk'[Len(disk) + 1] = d
        /\ \A i \in 1 .. Len(disk) : disk'[i] = disk[i]
        /\ Len(disk) \in Nat
    BY <2>1, AppendSequence, SequenceLength DEF RecordInv
  <2>4. ASSUME Bond(opt)
        PROVE  /\ \A s \in Sides : ~Has(logs[s], PasskeyDisplay)
               /\ SentFrom(sent, logs["first"], PasskeyRedacted)
    <3>1. /\ \A s \in Sides : logs[s] = RedactPasskeys(log[s])
          /\ logs["first"] = RedactPasskeys(log["first"])
      BY <2>4 DEF Sides
    <3>2. \A s \in Sides : log[s] \in Seq(Received)
      BY DEF FlowInv
    <3> QED
      BY <1>0, <3>1, <3>2, NoPasskeyLeft, RedactedPasskeys DEF SentInv
  <2> HIDE DEF logs
  <2> QED
    BY <2>1, <2>2, <2>3, <2>4 DEF SentInv
<1>2. CASE ~WriteRun
  <2>1. UNCHANGED <<opt, disk>>
    BY <1>2, QuietResults
  <2>2. CASE ResetInputs
    <3>1. sent' = <<>> /\ log'["first"] = <<>>
      BY <2>2 DEF ResetInputs, Nothing, Sides
    <3> QED
      BY <2>1, <3>1, NoRows DEF SentInv, SentFrom
  <2>3. CASE Poll
    <3>1. log'["first"] = log["first"] \o rx["first"]
      BY <2>3 DEF Poll, Drained, Sides
    <3>2. SentFrom(sent, log'["first"], PasskeyDisplay)
      BY <1>0, <3>1, SentKept DEF SentInv
    <3>3. CASE Relays(Drained)
      <4> DEFINE p == Passkey(Drained["first"])
      <4>1. ~relayed /\ Has(log'["first"], PasskeyDisplay) /\ p = Passkey(log'["first"])
        BY <3>1, <3>3 DEF Relays, Drained, Sides
      <4>2. sent' = Append(sent, p) /\ relayed' = TRUE
        BY <2>3, <3>3 DEF Poll
      <4>3. PICK j \in DOMAIN log'["first"] :
              log'["first"][j].m = PasskeyDisplay /\ p = log'["first"][j]
        BY <1>0, <3>1, <4>1, FirstPasskey
      <4> HIDE DEF p
      <4>4. IsSequence(sent') /\ Len(sent') = 1 /\ sent'[1] = p
        <5>1. IsSequence(sent) /\ Len(sent) = 0
          BY <4>1 DEF SentInv, SentFrom
        <5>2. /\ IsSequence(Append(sent, p)) /\ Len(Append(sent, p)) = 0 + 1
              /\ Append(sent, p)[0 + 1] = p
          BY <5>1, AppendSequence, Zenon
        <5> QED
          BY <4>2, <5>2
      <4>5. SentFrom(sent', log'["first"], PasskeyDisplay)
        BY <4>3, <4>4 DEF SentFrom
      <4> QED
        BY <2>1, <4>2, <4>5 DEF SentInv
    <3>4. CASE ~Relays(Drained)
      <4>1. sent' = sent /\ relayed' = relayed
        BY <2>3, <3>4 DEF Poll
      <4> QED
        BY <2>1, <3>2, <4>1 DEF SentInv
    <3> QED
      BY <3>3, <3>4
  <2>4. CASE DrainFirst \/ DeadlinePassed \/ LingerElapsed
    <3>1. log'["first"] = log["first"] \o rx["first"] /\ sent' = sent /\ relayed' = relayed
      <4>1. CASE DrainFirst
        BY <4>1 DEF DrainFirst, FlowInv, Sides
      <4>2. CASE DeadlinePassed \/ LingerElapsed
        BY <4>2 DEF DeadlinePassed, LingerElapsed, CaptureEnds, Drained, Sides
      <4> QED
        BY <2>4, <4>1, <4>2
    <3> QED
      BY <1>0, <2>1, <3>1, SentKept DEF SentInv
  <2>5. CASE ~(WriteRun \/ ResetInputs \/ Poll \/ DrainFirst \/ DeadlinePassed \/ LingerElapsed)
    <3>1. UNCHANGED <<log, sent, relayed>>
      BY <2>5 DEF Next, ToolStep, Start, HoldReset, HoldFails, HolderDies, PulseFirst,
                  PulseFails, SettleElapsed, PulseSecond, PollHolder,
                  ReleaseReset, TrustQuit, Summarize, FirstPrints, SecondPrints, Prints, vars, attempt
    <3> QED
      BY <2>1, <3>1 DEF SentInv
  <2> QED
    BY <1>2, <2>2, <2>3, <2>4, <2>5
<1> QED
  BY <1>1, <1>2

LEMMA SentInit == Init => SentInv
<1> SUFFICES ASSUME Init PROVE SentInv
  OBVIOUS
<1>1. sent = <<>> /\ disk = <<>> /\ log["first"] = <<>>
  BY DEF Init, Nothing, Sides
<1> QED
  BY <1>1, NoRows DEF SentInv, SentFrom

(* The peripheral's passkey goes to the central once per run, never to     *)
(* disk, and in a run that passes with the boot of its own reset it is the *)
(* one that the peripheral displayed since then.                           *)
PasskeyRelayed ==
  Bond(opt) => \A i \in DOMAIN disk :
    /\ \A s \in Sides : ~Has(disk[i].logs[s], PasskeyDisplay)
    /\ Len(disk[i].sent) <= 1
    /\ records[i].pass
       /\ (\E j \in DOMAIN disk[i].logs["first"] :
             disk[i].logs["first"][j].m = Boot /\ ~disk[i].logs["first"][j].stale)
       => \A k \in 1 .. Len(disk[i].sent) : ~disk[i].sent[k].stale

(* capture_run's relay of the passkey and RedactPasskeys.                  *)
THEOREM PasskeysRelayed == Spec => []PasskeyRelayed
<1>1. SentInv /\ LogsInv /\ RecordInv => PasskeyRelayed
  <2> SUFFICES ASSUME SentInv, LogsInv, RecordInv, Bond(opt), NEW i \in DOMAIN disk
               PROVE  /\ \A s \in Sides : ~Has(disk[i].logs[s], PasskeyDisplay)
                      /\ Len(disk[i].sent) <= 1
                      /\ records[i].pass
                         /\ (\E j \in DOMAIN disk[i].logs["first"] :
                               /\ disk[i].logs["first"][j].m = Boot
                               /\ ~disk[i].logs["first"][j].stale)
                         => \A k \in 1 .. Len(disk[i].sent) : ~disk[i].sent[k].stale
    BY DEF PasskeyRelayed
  <2> DEFINE lines == disk[i].logs["first"]
  <2>1. i \in 1 .. Len(disk) /\ i \in 1 .. Len(records)
    BY SequenceLength DEF RecordInv
  <2>2. SentFrom(disk[i].sent, lines, PasskeyRedacted)
        /\ \A s \in Sides : ~Has(disk[i].logs[s], PasskeyDisplay)
    BY <2>1 DEF SentInv
  <2>3. Ordered(lines)
    BY <2>1 DEF LogsInv, Sides
  <2>4. ASSUME records[i].pass,
               NEW j \in DOMAIN lines, lines[j].m = Boot, ~lines[j].stale,
               NEW k \in 1 .. Len(disk[i].sent)
        PROVE  ~disk[i].sent[k].stale
    <3>1. records[i] = BondClassify(opt.contract, opt.removal, disk[i].logs)
      BY <2>1 DEF RecordInv, Classify, Bond
    <3>2. ~GenerationErrors(lines)
      BY <2>4, <3>1 DEF BondClassify
    <3>3. PasskeyRedacted \in BondLines
      <4>1. PasskeyRedacted \in FreshMarkers.first
        BY DEF FreshMarkers
      <4>2. FreshMarkers.first \cup FreshMarkers.second \in
              {c.first \cup c.second : c \in {FreshMarkers, RemovalMarkers,
                 NegativeMarkers.reject, NegativeMarkers.stale}}
        OBVIOUS
      <4> QED
        BY <4>1, <4>2, Zenon DEF BondLines
    <3> QED
      BY <2>2, <2>3, <2>4, <3>2, <3>3, GenerationStartsAtBoot DEF SentFrom
  <2> QED
    BY <2>2, <2>4 DEF SentFrom
<1> QED
  BY <1>1, SentInit, SentStep, FlowInit, FlowStep, LogsStep, LogsAlways, RecordStep,
     HoldInit, HoldStep, PTL DEF Spec
-----------------------------------------------------------------------------
(* The central's acceptance of a passkey since this run's reset: it is     *)
(* printed only by a board that began again in this run, which has read    *)
(* exactly what the tool sent in this run.                                 *)
Accepts(line) == line.m = PasskeyAccepted /\ ~line.stale
Accepted(lines) == \E j \in DOMAIN lines : Accepts(lines[j])
Genuine(passkeys) == passkeys # <<>> /\ ~Head(passkeys).stale

(* Each segment of a board waits at most where it begins.                  *)
WaitsFirst(segments) ==
  \A i \in DOMAIN segments : \A j \in 2 .. Len(segments[i]) :
    segments[i][j].m # PasskeyAccepted

Expected(segments) == \E i \in DOMAIN segments : Accepted(segments[i])

AnswerInv ==
  /\ \A s \in Sides : WaitsFirst(left[s])
  /\ pc \in {"hold", "pulseFirst", "settle", "release", "communicate"} =>
       /\ sent = <<>>
       /\ ~Expected(left["second"])
       /\ ~Accepted(log["second"]) /\ ~Accepted(rx["second"])
  /\ Bond(opt) =>
       /\ pc # "pulseSecond"
       /\ pc \in {"pulseFirst", "settle", "release", "communicate"} => holder # "none"
       /\ pc = "loop" =>
            /\ Accepted(log["second"]) \/ Accepted(rx["second"]) => Genuine(sent)
            /\ Expected(left["second"]) => inbox = sent
       /\ pc = "write" /\ Accepted(log["second"]) => Genuine(sent)
       /\ \A i \in 1 .. Len(disk) :
            Accepted(disk[i].logs["second"]) => Genuine(disk[i].sent)
LEMMA NothingExpected ==
  ~Accepted(<<>>) /\ ~Expected(<<>>) /\ WaitsFirst(<<>>) /\ WaitsFirst(Refused)
  /\ ~Expected(Refused)
<1> DEFINE l == Refused[1][1]
<1>1. DOMAIN <<>> = {}
  OBVIOUS
<1>2. l.m # PasskeyAccepted
  BY DEF Refused, Plain, Line, PasskeyAccepted
<1>3. Refused = << <<l>> >>
  BY DEF Refused
<1> HIDE DEF l
<1>4. DOMAIN Refused = {1} /\ Refused[1] = <<l>> /\ Len(Refused[1]) = 1 /\ DOMAIN Refused[1] = {1}
      /\ Refused[1][1] = l
  BY <1>3
<1> QED
  BY <1>1, <1>2, <1>4 DEF Accepted, Accepts, Expected, WaitsFirst

LEMMA AcceptedRead ==
  ASSUME NEW read \in Seq(Received), NEW unread \in Seq(Received)
  PROVE  Accepted(read \o unread) <=> Accepted(read) \/ Accepted(unread)
<1> DEFINE all == read \o unread
<1>1. /\ Len(read) \in Nat /\ Len(unread) \in Nat
      /\ DOMAIN read = 1 .. Len(read) /\ DOMAIN unread = 1 .. Len(unread)
      /\ DOMAIN all = 1 .. Len(read) + Len(unread)
      /\ \A i \in 1 .. Len(read) + Len(unread) :
           all[i] = IF i <= Len(read) THEN read[i] ELSE unread[i - Len(read)]
  BY ConcatProperties, LenProperties
<1> HIDE DEF all
<1>2. ASSUME Accepted(all) PROVE Accepted(read) \/ Accepted(unread)
  <2>1. PICK j \in DOMAIN all : Accepts(all[j])
    BY <1>2 DEF Accepted
  <2>2. CASE j <= Len(read)
    <3>1. j \in DOMAIN read /\ all[j] = read[j]
      BY <1>1, <2>1, <2>2
    <3> QED
      BY <2>1, <3>1 DEF Accepted
  <2>3. CASE ~(j <= Len(read))
    <3>1. j - Len(read) \in DOMAIN unread /\ all[j] = unread[j - Len(read)]
      BY <1>1, <2>1, <2>3
    <3> QED
      BY <2>1, <3>1 DEF Accepted
  <2> QED
    BY <2>2, <2>3
<1>3. ASSUME NEW j \in DOMAIN read, Accepts(read[j]) PROVE Accepted(all)
  <2>1. j \in DOMAIN all /\ all[j] = read[j]
    BY <1>1
  <2> QED
    BY <1>3, <2>1 DEF Accepted
<1>4. ASSUME NEW j \in DOMAIN unread, Accepts(unread[j]) PROVE Accepted(all)
  <2>1. j \in 1 .. Len(unread)
    BY <1>1
  <2>2. /\ Len(read) + j \in 1 .. Len(read) + Len(unread)
        /\ ~(Len(read) + j <= Len(read)) /\ (Len(read) + j) - Len(read) = j
    BY <1>1, <2>1
  <2>3. Len(read) + j \in DOMAIN all /\ all[Len(read) + j] = unread[j]
    BY <1>1, <2>2
  <2> QED
    BY <1>4, <2>3 DEF Accepted
<1>5. Accepted(read) \/ Accepted(unread) => Accepted(all)
  BY <1>3, <1>4 DEF Accepted
<1> QED
  BY <1>2, <1>5 DEF all

(* The next segment and those after it.                                    *)
LEMMA NextSegment ==
  ASSUME NEW rest \in Seq(Seq(Received)), rest # <<>>, WaitsFirst(rest)
  PROVE  /\ WaitsFirst(Tail(rest))
         /\ Expected(Tail(rest)) => Expected(rest)
         /\ Accepted(Head(rest)) => Expected(rest) /\ Awaits(Head(rest)[1])
<1>1. /\ Len(rest) \in Nat /\ Len(rest) > 0 /\ DOMAIN rest = 1 .. Len(rest)
      /\ Head(rest) = rest[1] /\ rest[1] \in Seq(Received)
      /\ DOMAIN Tail(rest) = 1 .. Len(rest) - 1
      /\ \A i \in 1 .. Len(rest) - 1 : Tail(rest)[i] = rest[i + 1]
  <2>1. Tail(rest) \in Seq(Seq(Received)) /\ Len(Tail(rest)) = Len(rest) - 1
        /\ \A i \in 1 .. Len(Tail(rest)) : Tail(rest)[i] = rest[i + 1]
    BY HeadTailProperties
  <2>2. Len(rest) > 0 /\ Head(rest) = rest[1]
    BY HeadTailProperties, EmptySeq, LenProperties
  <2> QED
    BY <2>1, <2>2, LenProperties, ElementOfSeq
<1>2. \A i \in DOMAIN Tail(rest) : i + 1 \in DOMAIN rest /\ Tail(rest)[i] = rest[i + 1]
  BY <1>1
<1>3. ASSUME Accepted(rest[1]) PROVE Expected(rest) /\ Awaits(rest[1][1])
  <2>1. PICK j \in DOMAIN rest[1] : Accepts(rest[1][j])
    BY <1>3 DEF Accepted
  <2>2. DOMAIN rest[1] = 1 .. Len(rest[1]) /\ Len(rest[1]) \in Nat
    BY <1>1, LenProperties
  <2>3. j = 1 \/ j \in 2 .. Len(rest[1])
    BY <2>1, <2>2
  <2>4. 1 \in DOMAIN rest
    BY <1>1
  <2>5. j = 1
    BY <2>1, <2>3, <2>4 DEF WaitsFirst, Accepts
  <2> QED
    BY <1>3, <2>1, <2>4, <2>5 DEF Expected, Accepts, Awaits
<1> QED
  BY <1>1, <1>2, <1>3 DEF WaitsFirst, Expected

LEMMA ScriptWaits ==
  ASSUME NEW o \in Options, NEW s \in Sides, NEW b \in o.boots[s] \cup o.old[s]
  PROVE  WaitsFirst(b)
<1> DEFINE S == {p.boots[t] \cup p.old[t] : p \in Options, t \in Sides}
<1>1. o.boots[s] \cup o.old[s] \in S
  OBVIOUS
<1>2. Scripts = UNION S
  BY DEF Scripts
<1> HIDE DEF S
<1>3. b \in Scripts
  BY <1>1, <1>2
<1> QED
  BY <1>3, ScriptsAssumption DEF WaitsFirst

(* What was started by an earlier reset accepts nothing of this run.       *)
LEMMA StaleAnswers ==
  ASSUME NEW rest \in Seq(Seq(Received)), WaitsFirst(rest)
  PROVE  LET old == [i \in DOMAIN rest |-> Stale(rest[i])]
         IN  WaitsFirst(old) /\ ~Expected(old)
<1> DEFINE old == [i \in DOMAIN rest |-> Stale(rest[i])]
<1>0. \A i \in DOMAIN rest : rest[i] \in Seq(Received)
  BY ElementOfSeq, LenProperties
<1>1. \A i \in DOMAIN old :
        /\ i \in DOMAIN rest /\ old[i] = Stale(rest[i])
        /\ DOMAIN old[i] = DOMAIN rest[i] /\ Len(old[i]) = Len(rest[i])
  BY <1>0, StaleLines
<1>2. ASSUME NEW i \in DOMAIN old, NEW j \in DOMAIN old[i]
      PROVE  old[i][j].stale /\ old[i][j].m = rest[i][j].m
  <2> DEFINE lines == rest[i]
  <2>1. lines \in Seq(Received) /\ old[i] = Stale(lines)
    BY <1>0, <1>1
  <2> HIDE DEF lines
  <2>2. /\ lines[j] \in Received
        /\ Stale(lines)[j] = [lines[j] EXCEPT !.stale = TRUE] /\ Stale(lines)[j].stale
    BY <1>2, <2>1, StaleLines
  <2>3. "m" \in DOMAIN lines[j] /\ "stale" \in DOMAIN lines[j]
    BY <2>2, ReceivedLines DEF WellFormed
  <2>4. Stale(lines)[j].m = lines[j].m
    BY <2>2, <2>3
  <2> QED
    BY <2>1, <2>2, <2>4 DEF lines
<1>3. \A i \in DOMAIN old : \A j \in 2 .. Len(old[i]) :
        j \in DOMAIN old[i] /\ rest[i][j].m # PasskeyAccepted
  <2> TAKE i \in DOMAIN old
  <2> TAKE j \in 2 .. Len(old[i])
  <2>1. DOMAIN rest[i] = 1 .. Len(rest[i]) /\ Len(rest[i]) \in Nat
    BY <1>0, <1>1, LenProperties
  <2> QED
    BY <1>1, <2>1 DEF WaitsFirst
<1> HIDE DEF old
<1>4. WaitsFirst(old) /\ ~Expected(old)
  BY <1>2, <1>3 DEF WaitsFirst, Expected, Accepted, Accepts
<1> QED
  BY <1>4 DEF old

LEMMA RedactedAnswers ==
  ASSUME NEW lines \in Seq(Received), Accepted(RedactPasskeys(lines))
  PROVE  Accepted(lines)
<1>1. PICK j \in DOMAIN RedactPasskeys(lines) : Accepts(RedactPasskeys(lines)[j])
  BY DEF Accepted
<1>2. /\ j \in DOMAIN lines
      /\ RedactPasskeys(lines)[j] = IF lines[j].m = PasskeyDisplay
                                    THEN [lines[j] EXCEPT !.m = PasskeyRedacted] ELSE lines[j]
  BY DEF RedactPasskeys
<1>3. lines[j] \in Received
  BY <1>2, ElementOfSeq, LenProperties
<1>4. "m" \in DOMAIN lines[j]
  BY <1>3, ReceivedLines DEF WellFormed
<1>5. PasskeyRedacted # PasskeyAccepted
  BY DEF PasskeyRedacted, PasskeyAccepted
<1>6. RedactPasskeys(lines)[j] = lines[j]
  BY <1>1, <1>2, <1>4, <1>5 DEF Accepts
<1> QED
  BY <1>1, <1>2, <1>6 DEF Accepted
(* The steps that read, print and send.                                    *)
LEMMA AnswerPrinted ==
  ASSUME AnswerInv, FlowInv, NEW s \in Sides, Prints(s)
  PROVE  AnswerInv'
<1>0. "first" \in Sides /\ "second" \in Sides
  BY DEF Sides
<1>1. /\ left[s] # <<>> /\ WaitsFirst(left[s]) /\ left[s] \in Seq(Seq(Received))
      /\ Head(left[s]) \in Seq(Received) /\ rx[s] \in Seq(Received)
      /\ UNCHANGED <<opt, pc, inbox, holder, log, sent, disk>>
  BY FlowPrints DEF Prints, AnswerInv, FlowInv, reset, attempt, results
<1>2. CASE s # "second"
  <2>1. left'["second"] = left["second"] /\ rx'["second"] = rx["second"]
    BY <1>0, <1>2 DEF Prints, FlowInv
  <2>2. \A t \in Sides : WaitsFirst(left'[t])
    <3>1. WaitsFirst(Tail(left[s])) /\ WaitsFirst(Refused)
      BY <1>1, NextSegment, NothingExpected
    <3>2. \A t \in Sides : left'[t] \in {left[t], Tail(left[s]), Refused} /\ (t # s => left'[t] = left[t])
      BY DEF Prints, FlowInv
    <3>3. left'[s] \in {Tail(left[s]), Refused}
      BY DEF Prints, FlowInv
    <3> QED
      BY <3>1, <3>2, <3>3 DEF AnswerInv
  <2> QED
    BY <1>1, <2>1, <2>2 DEF AnswerInv, Bond
<1>3. CASE s = "second" /\ left' = [left EXCEPT ![s] = Refused] /\ rx' = rx
  <2>1. left'["second"] = Refused /\ rx'["second"] = rx["second"]
    BY <1>0, <1>3 DEF FlowInv
  <2>2. \A t \in Sides : WaitsFirst(left'[t])
    BY <1>3, NothingExpected DEF AnswerInv, FlowInv
  <2> QED
    BY <1>1, <2>1, <2>2, NothingExpected DEF AnswerInv, Bond
<1>4. CASE /\ s = "second" /\ ~(Awaits(Head(left[s])[1]) /\ Head(inbox).stale)
           /\ left' = [left EXCEPT ![s] = Tail(@)]
           /\ rx' = [rx EXCEPT ![s] = @ \o Head(left[s])]
  <2>1. /\ left'["second"] = Tail(left["second"])
        /\ rx'["second"] = rx["second"] \o Head(left["second"])
    BY <1>0, <1>4 DEF FlowInv
  <2>2. \A t \in Sides : WaitsFirst(left'[t])
    BY <1>1, <1>4, NextSegment DEF AnswerInv, FlowInv
  <2>3. Expected(left'["second"]) => Expected(left["second"])
    BY <1>1, <1>4, <2>1, NextSegment
  <2>4. Accepted(rx'["second"]) => Accepted(rx["second"]) \/ Accepted(Head(left["second"]))
    BY <1>1, <1>4, <2>1, AcceptedRead
  <2>5. Accepted(Head(left["second"])) =>
          Expected(left["second"]) /\ inbox # <<>> /\ ~Head(inbox).stale
    BY <1>1, <1>4, NextSegment DEF Prints
  <2> QED
    BY <1>1, <2>1, <2>2, <2>3, <2>4, <2>5 DEF AnswerInv, Genuine, Bond
<1> QED
  BY <1>2, <1>3, <1>4 DEF Prints

LEMMA AnswerRead ==
  ASSUME AnswerInv, FlowInv, SentInv, Poll \/ DeadlinePassed \/ LingerElapsed
  PROVE  AnswerInv'
<1>0. "second" \in Sides
  BY DEF Sides
<1>1. /\ pc = "loop" /\ pc' \in {"loop", "write"}
      /\ pc' = "write" => sent' = sent /\ inbox' = inbox
      /\ log' = Drained /\ rx' = Nothing /\ UNCHANGED <<opt, left, disk, holder>>
  BY DEF Poll, DeadlinePassed, LingerElapsed, CaptureEnds, reset, results
<1>2. log'["second"] = log["second"] \o rx["second"] /\ rx'["second"] = <<>>
  BY <1>0, <1>1 DEF Drained, Nothing
<1>3. log["second"] \in Seq(Received) /\ rx["second"] \in Seq(Received)
  BY <1>0 DEF FlowInv
<1>4. Accepted(log'["second"]) <=> Accepted(log["second"]) \/ Accepted(rx["second"])
  BY <1>2, <1>3, AcceptedRead
<1>5. ~Accepted(rx'["second"])
  BY <1>2, NothingExpected
<1>6. CASE sent' = sent /\ inbox' = inbox
  BY <1>1, <1>4, <1>5, <1>6 DEF AnswerInv, Bond
<1>7. CASE Poll /\ Relays(Drained)
  <2>1. pc' = "loop" /\ \E p : inbox' = Append(inbox, p) /\ sent' = Append(sent, p)
    BY <1>1, <1>7 DEF Poll
  <2>2. sent = <<>>
    <3>1. IsSequence(sent) /\ Len(sent) = 0
      BY <1>7 DEF Relays, SentInv, SentFrom
    <3> QED
      BY <3>1, EmptySeq DEF IsSequence
  <2>3. Bond(opt) => ~Accepted(log["second"]) /\ ~Accepted(rx["second"])
    BY <1>1, <2>2 DEF AnswerInv, Genuine
  <2>4. Bond(opt) /\ Expected(left["second"]) => inbox' = sent'
    BY <1>1, <2>1 DEF AnswerInv
  <2> QED
    BY <1>1, <1>4, <1>5, <2>1, <2>3, <2>4 DEF AnswerInv, Bond
<1> QED
  BY <1>1, <1>6, <1>7 DEF Poll, DeadlinePassed, LingerElapsed, CaptureEnds

LEMMA AnswerWritten ==
  ASSUME AnswerInv, FlowInv, RecordInv, WriteRun
  PROVE  AnswerInv'
<1> DEFINE logs == IF Bond(opt) THEN [s \in Sides |-> RedactPasskeys(log[s])] ELSE log
           d == [logs |-> logs, sent |-> sent]
<1>1. /\ pc = "write" /\ pc' \in {"summarize", "ready"}
      /\ disk' = Append(disk, d) /\ UNCHANGED <<opt, boards, holder, log, sent>>
  BY DEF WriteRun, attempt, reset
<1>2. d.logs = logs /\ d.sent = sent
  OBVIOUS
<1> HIDE DEF d
<1>3. /\ Len(disk') = Len(disk) + 1 /\ disk'[Len(disk) + 1] = d
      /\ \A i \in 1 .. Len(disk) : disk'[i] = disk[i]
      /\ Len(disk) \in Nat
  BY <1>1, AppendSequence, SequenceLength DEF RecordInv
<1>4. Bond(opt) /\ Accepted(logs["second"]) => Genuine(sent)
  <2> SUFFICES ASSUME Bond(opt), Accepted(logs["second"]) PROVE Genuine(sent)
    OBVIOUS
  <2>1. logs["second"] = RedactPasskeys(log["second"]) /\ log["second"] \in Seq(Received)
    BY DEF Sides, FlowInv
  <2>2. Accepted(log["second"])
    BY <2>1, RedactedAnswers
  <2> QED
    BY <1>1, <2>2 DEF AnswerInv
<1> HIDE DEF logs
<1> QED
  BY <1>1, <1>2, <1>3, <1>4 DEF AnswerInv, boards, Bond
(* The steps up to the loop.                                               *)
LEMMA AnswerBefore ==
  ASSUME AnswerInv, FlowInv, HoldInv,
         \/ ResetInputs \/ HoldReset \/ HoldFails \/ HolderDies \/ PulseFirst \/ PulseFails
         \/ DrainFirst \/ SettleElapsed \/ PulseSecond \/ PollHolder
  PROVE  AnswerInv'
<1>0. "first" \in Sides /\ "second" \in Sides
  BY DEF Sides
<1>1. Bond(opt) => Capture(opt).hold /\ Capture(opt).settle
  BY DEF Bond, Capture
<1>2. CASE ResetInputs
  <2>1. /\ pc' \in {"hold", "pulseFirst"} /\ (Bond(opt) => pc' = "hold")
        /\ sent' = <<>> /\ rx'["second"] = <<>> /\ log'["second"] = <<>>
        /\ left' = [s \in Sides |-> [i \in DOMAIN left[s] |-> Stale(left[s][i])]]
        /\ UNCHANGED <<opt, disk, inbox, holder>>
    BY <1>0, <1>1, <1>2 DEF ResetInputs, Nothing, reset, results
  <2>2. \A s \in Sides : WaitsFirst(left'[s]) /\ ~Expected(left'[s])
    <3> TAKE s \in Sides
    <3>1. left[s] \in Seq(Seq(Received)) /\ WaitsFirst(left[s])
      BY DEF FlowInv, AnswerInv
    <3>2. left'[s] = [i \in DOMAIN left[s] |-> Stale(left[s][i])]
      BY <2>1
    <3> QED
      BY <3>1, <3>2, StaleAnswers
  <2> QED
    BY <1>0, <2>1, <2>2, NothingExpected DEF AnswerInv, Bond
<1>3. CASE HoldReset \/ HoldFails
  <2>1. /\ pc = "hold" /\ pc' \in {"pulseFirst", "release"} /\ holder' # "none"
        /\ rx' = rx /\ left' \in {left, [left EXCEPT !["second"] = <<>>]}
        /\ UNCHANGED <<opt, disk, log, sent>>
    BY <1>3 DEF HoldReset, HoldFails, Drive, attempt, results
  <2>2. \A s \in Sides : left'[s] \in {left[s], <<>>}
    BY <2>1 DEF FlowInv
  <2>3. (\A s \in Sides : WaitsFirst(left'[s])) /\ ~Expected(left'["second"])
    BY <1>0, <2>1, <2>2, NothingExpected DEF AnswerInv
  <2> QED
    BY <2>1, <2>3 DEF AnswerInv, Bond
<1>4. CASE HolderDies
  BY <1>4 DEF HolderDies, boards, attempt, results, AnswerInv, Bond
<1>5. CASE PulseFirst
  <2>1. /\ pc = "pulseFirst" /\ pc' \in {"settle", "pulseSecond"}
        /\ (Bond(opt) => pc' = "settle")
        /\ rx' = rx /\ UNCHANGED <<opt, disk, log, sent, holder>>
    BY <1>1, <1>5 DEF PulseFirst, Restart, attempt, results, reset
  <2>2. PICK b \in opt.boots["first"] : left' = [left EXCEPT !["first"] = b]
    BY <1>5 DEF PulseFirst, Restart
  <2>3. WaitsFirst(b)
    BY <1>0, ScriptWaits DEF HoldInv
  <2>4. (\A s \in Sides : WaitsFirst(left'[s])) /\ left'["second"] = left["second"]
    BY <1>0, <2>2, <2>3 DEF AnswerInv, FlowInv, Sides
  <2> QED
    BY <2>1, <2>4 DEF AnswerInv, Bond
<1>6. CASE PulseFails
  <2>1. pc' \in {"release", "exit"} /\ (pc' = "release" => holder # "none")
        /\ UNCHANGED <<opt, disk, boards, log, sent, holder>>
    BY <1>6 DEF PulseFails, Raise, attempt
  <2>2. pc' = "release" => pc = "pulseFirst"
    BY <1>6, <2>1 DEF PulseFails, HoldInv
  <2> QED
    BY <2>1, <2>2 DEF AnswerInv, boards, Bond
<1>7. CASE DrainFirst
  <2>1. /\ log'["second"] = log["second"] /\ rx'["second"] = rx["second"]
        /\ UNCHANGED <<opt, pc, left, inbox, holder, sent, disk>>
    BY <1>0, <1>7 DEF DrainFirst, reset, results, FlowInv, Sides
  <2> QED
    BY <2>1 DEF AnswerInv, Bond
<1>8. CASE SettleElapsed
  <2>1. /\ pc = "settle" /\ pc' = IF holder = "none" THEN "pulseSecond" ELSE "release"
        /\ UNCHANGED <<opt, boards, holder, log, sent, disk>>
    BY <1>8 DEF SettleElapsed, reset, attempt, results
  <2> QED
    BY <2>1 DEF AnswerInv, boards, Bond
<1>9. CASE PulseSecond
  <2>1. /\ pc = "pulseSecond" /\ pc' = "loop" /\ UNCHANGED <<opt, disk>>
    BY <1>9 DEF PulseSecond, results
  <2>2. PICK b \in opt.boots["second"] : left' = [left EXCEPT !["second"] = b]
    BY <1>9 DEF PulseSecond, Restart
  <2>3. WaitsFirst(b)
    BY <1>0, ScriptWaits DEF HoldInv
  <2>4. \A s \in Sides : WaitsFirst(left'[s])
    BY <1>0, <2>2, <2>3 DEF AnswerInv, FlowInv
  <2> QED
    BY <2>1, <2>4 DEF AnswerInv, Bond
<1>10. CASE PollHolder
  BY <1>10 DEF PollHolder, boards, reset, attempt, results, AnswerInv, Bond
<1> QED
  BY <1>2, <1>3, <1>4, <1>5, <1>6, <1>7, <1>8, <1>9, <1>10

(* The release of the central, which starts it or leaves it as it is.      *)
LEMMA AnswerReleased ==
  ASSUME AnswerInv, FlowInv, HoldInv, ReleaseReset \/ TrustQuit
  PROVE  AnswerInv'
<1>0. "first" \in Sides /\ "second" \in Sides
  BY DEF Sides
<1>1. /\ pc \in {"release", "communicate"} /\ pc' \in {"loop", "exit"}
      /\ rx' = rx /\ UNCHANGED <<opt, log, sent, disk>>
  BY DEF ReleaseReset, TrustQuit, Released, PulseReleaseFails, NotReleased, Unwind,
         Raise, Restart, attempt, boards
<1>2. CASE ReleaseReset /\ Released
  <2>1. inbox' = <<>> /\ \E b \in opt.boots["second"] : left' = [left EXCEPT !["second"] = b]
    BY <1>2 DEF Released, Restart
  <2>2. PICK b \in opt.boots["second"] : left' = [left EXCEPT !["second"] = b]
    BY <2>1
  <2>3. WaitsFirst(b)
    BY <1>0, ScriptWaits DEF HoldInv
  <2>4. \A s \in Sides : WaitsFirst(left'[s])
    BY <1>0, <2>2, <2>3 DEF AnswerInv, FlowInv
  <2> QED
    BY <1>1, <2>1, <2>4 DEF AnswerInv, Bond
<1>3. CASE boards' = boards
  BY <1>1, <1>3 DEF AnswerInv, boards, Bond
<1> QED
  BY <1>2, <1>3 DEF ReleaseReset, TrustQuit, PulseReleaseFails, NotReleased

LEMMA AnswerStep ==
  AnswerInv /\ SentInv /\ FlowInv /\ RecordInv /\ HoldInv /\ [Next]_vars => AnswerInv'
<1> SUFFICES ASSUME AnswerInv, SentInv, FlowInv, RecordInv, HoldInv, [Next]_vars
             PROVE  AnswerInv'
  OBVIOUS
<1>1. CASE FirstPrints \/ SecondPrints
  BY <1>1, AnswerPrinted DEF FirstPrints, SecondPrints, Sides
<1>2. CASE Start \/ Summarize
  BY <1>2 DEF Start, Summarize, AnswerInv, boards, reset, attempt, Bond
<1>3. CASE UNCHANGED vars
  BY <1>3 DEF vars, AnswerInv, boards, reset, attempt, results, Bond
<1> QED
  BY <1>1, <1>2, <1>3, AnswerRead, AnswerWritten, AnswerBefore, AnswerReleased
  DEF Next, ToolStep

LEMMA AnswerInit == Init => AnswerInv
<1> SUFFICES ASSUME Init PROVE AnswerInv
  OBVIOUS
<1>1. /\ opt \in Options /\ pc = "args" /\ disk = <<>>
      /\ left = [s \in Sides |-> IF s = "first" THEN left["first"] ELSE left["second"]]
      /\ left["first"] \in opt.old["first"] /\ left["second"] \in opt.old["second"]
  BY DEF Init, Sides
<1>2. \A s \in Sides : left[s] \in opt.old[s]
  BY <1>1 DEF Sides
<1> QED
  BY <1>1, <1>2, ScriptWaits, NoRows DEF AnswerInv
(* The contract of a fresh pairing asks for the central's acceptance.      *)
LEMMA FreshPairing ==
  ASSUME NEW removal, NEW logs, BondClassify("passkey", removal, logs).pass,
         ~BondClassify("passkey", removal, logs).restored_contract
  PROVE  ~GenerationErrors(logs["second"]) /\ Has(logs["second"], PasskeyAccepted)
<1> DEFINE restored == [s \in Sides |-> Has(logs[s], Restored[s])]
           missing == [s \in Sides |->
             Missing(logs[s], MarkerContract("passkey", s, restored[s], removal))]
<1>1. /\ \A s \in Sides : missing[s] = {} /\ ~GenerationErrors(logs[s])
      /\ restored["first"] = restored["second"]
      /\ ~(restored["first"] /\ restored["second"])
  BY DEF BondClassify, Sides
<1>2. "second" \in Sides
  BY DEF Sides
<1>3. ~restored["second"]
  BY <1>1
<1>4. MarkerContract("passkey", "second", restored["second"], removal) = FreshMarkers["second"]
  BY <1>3 DEF MarkerContract
<1>5. Missing(logs["second"], FreshMarkers["second"]) = {}
  BY <1>1, <1>2, <1>4
<1>6. PasskeyAccepted \in FreshMarkers["second"]
  BY DEF FreshMarkers
<1> QED
  BY <1>1, <1>2, <1>5, <1>6 DEF Missing

LEMMA GenuineIsOne ==
  ASSUME NEW passkeys, IsSequence(passkeys), Len(passkeys) <= 1, Genuine(passkeys)
  PROVE  Len(passkeys) = 1 /\ ~passkeys[1].stale
<1> DEFINE S == {passkeys[i] : i \in DOMAIN passkeys}
<1>1. passkeys \in Seq(S)
  BY DEF IsSequence
<1> HIDE DEF S
<1>2. Len(passkeys) \in Nat /\ Len(passkeys) # 0
  BY <1>1, EmptySeq, LenProperties DEF Genuine
<1>3. Head(passkeys) = passkeys[1]
  BY <1>1, HeadTailProperties DEF Genuine
<1>4. ~passkeys[1].stale
  BY <1>3, Zenon DEF Genuine
<1>5. Len(passkeys) = 1
  <2>1. ASSUME NEW n \in Nat, n <= 1, n # 0 PROVE n = 1
    BY <2>1
  <2> QED
    BY <1>2, <2>1, Zenon
<1> QED
  BY <1>4, <1>5

(* PasskeyOfThisRun, of capture_run's relay and RedactPasskeys: no passkey *)
(* is left on disk, and a fresh pairing that passes with the boot of this  *)
(* run's reset in the central's log took one passkey, which the peripheral *)
(* displayed since its own reset.  The passing contract asks for the       *)
(* acceptance, GenerationErrors puts it after that boot, and AnswerInv     *)
(* says what such a board had read.                                        *)
THEOREM PasskeysOfThisRun == Spec => []PasskeyOfThisRun
<1>1. AnswerInv /\ SentInv /\ LogsInv /\ RecordInv => PasskeyOfThisRun
  <2> SUFFICES ASSUME AnswerInv, SentInv, LogsInv, RecordInv, Bond(opt), NEW i \in DOMAIN disk
               PROVE  LET logs == disk[i].logs
                      IN  /\ \A s \in Sides : ~Has(logs[s], PasskeyDisplay)
                          /\ /\ records[i].pass /\ ~records[i].restored_contract
                             /\ opt.contract = "passkey"
                             /\ \E j \in DOMAIN logs.second :
                                  logs.second[j].m = Boot /\ ~logs.second[j].stale
                             => Len(disk[i].sent) = 1 /\ ~disk[i].sent[1].stale
    BY DEF PasskeyOfThisRun
  <2> DEFINE logs == disk[i].logs
             lines == disk[i].logs["second"]
  <2>1. i \in 1 .. Len(disk) /\ i \in 1 .. Len(records)
    BY SequenceLength DEF RecordInv
  <2>2. /\ \A s \in Sides : ~Has(logs[s], PasskeyDisplay)
        /\ IsSequence(disk[i].sent) /\ Len(disk[i].sent) <= 1
    BY <2>1 DEF SentInv, SentFrom
  <2>3. SUFFICES ASSUME records[i].pass, ~records[i].restored_contract,
                        opt.contract = "passkey",
                        NEW b \in DOMAIN lines, lines[b].m = Boot, ~lines[b].stale
                 PROVE  Len(disk[i].sent) = 1 /\ ~disk[i].sent[1].stale
    BY <2>2
  <2>4. records[i] = BondClassify("passkey", opt.removal, logs)
    BY <2>1, <2>3 DEF RecordInv, Classify, Bond
  <2>5. ~GenerationErrors(lines) /\ Has(lines, PasskeyAccepted)
    BY <2>3, <2>4, FreshPairing
  <2>6. PasskeyAccepted \in BondLines
    <3>1. PasskeyAccepted \in FreshMarkers.second
      BY DEF FreshMarkers
    <3>2. FreshMarkers.first \cup FreshMarkers.second \in
            {c.first \cup c.second : c \in {FreshMarkers, RemovalMarkers,
               NegativeMarkers.reject, NegativeMarkers.stale}}
      OBVIOUS
    <3> QED
      BY <3>1, <3>2, Zenon DEF BondLines
  <2>7. Ordered(lines)
    BY <2>1 DEF LogsInv, Sides
  <2>8. Accepted(lines)
    BY <2>3, <2>5, <2>6, <2>7, GenerationStartsAtBoot DEF Has, Accepted, Accepts
  <2>9. Genuine(disk[i].sent)
    BY <2>1, <2>8 DEF AnswerInv
  <2> QED
    BY <2>2, <2>9, GenuineIsOne
<1> QED
  BY <1>1, AnswerInit, AnswerStep, SentInit, SentStep, FlowInit, FlowStep, LogsAlways,
     HoldInit, HoldStep, PTL DEF Spec
=============================================================================
