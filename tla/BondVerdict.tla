---------------------------- MODULE BondVerdict ----------------------------
(***************************************************************************)
(* hil/ws63-ble-bond-reset-matrix.py: the verdict over one reset of both   *)
(* boards, and what a sequence of resets proves about the bond they keep.  *)
(* The peripheral is the board that is reset first.                        *)
(***************************************************************************)
EXTENDS PairedVerdict

BondPrefix == "RFDBG_RADIO_U5_BLE_"
P(names) == Named("RFDBG_RADIO_U5_BLE_PERIPHERAL_", names)
C(names) == Named("RFDBG_RADIO_U5_BLE_CENTRAL_", names)

Boot == "boot."
PasskeyDisplay == "RFDBG_RADIO_U5_BLE_PERIPHERAL_PASSKEY_DISPLAY=digits"
PasskeyRedacted == "RFDBG_RADIO_U5_BLE_PERIPHERAL_PASSKEY_DISPLAY=[REDACTED]"
PasskeyAccepted == "RFDBG_RADIO_U5_BLE_CENTRAL_PASSKEY_ACCEPTED"
Empty == [first |-> "RFDBG_RADIO_U5_BLE_PERIPHERAL_BOND_EMPTY",
          second |-> "RFDBG_RADIO_U5_BLE_CENTRAL_BOND_EMPTY"]
Restored == [first |-> "RFDBG_RADIO_U5_BLE_PERIPHERAL_BOND_RESTORED",
             second |-> "RFDBG_RADIO_U5_BLE_CENTRAL_BOND_RESTORED"]
BondOk == [first |-> "RFDBG_RADIO_U5_BLE_PERIPHERAL_BOND_OK",
           second |-> "RFDBG_RADIO_U5_BLE_CENTRAL_BOND_OK"]
RemoveOk == [first |-> "RFDBG_RADIO_U5_BLE_PERIPHERAL_BOND_REMOVE_OK",
             second |-> "RFDBG_RADIO_U5_BLE_CENTRAL_BOND_REMOVE_OK"]
NegativeOk ==
  [reject |-> [first |-> "RFDBG_RADIO_U5_BLE_PERIPHERAL_REJECT_OK",
               second |-> "RFDBG_RADIO_U5_BLE_CENTRAL_REJECT_OK"],
   stale |-> [first |-> "RFDBG_RADIO_U5_BLE_PERIPHERAL_STALE_OK",
              second |-> "RFDBG_RADIO_U5_BLE_CENTRAL_STALE_OK"]]

(* The contracts of a fresh pairing, a restored bond, a restored bond that *)
(* is removed, and the two negative modes.                                 *)
FreshMarkers ==
  [first |-> {PasskeyRedacted} \cup P({"READY", "CONNECTED", "PAIRED", "AUTH_OK",
                                       "BOND_OBSERVED", "BOND_OK"}),
   second |-> {"RFDBG_RADIO_U5_BLE_SCAN_MATCH", "RFDBG_RADIO_U5_BLE_PAIR_ACCEPTED",
               PasskeyAccepted}
     \cup C({"CONNECTED", "PASSKEY_INPUT", "PAIRED", "AUTH_OK", "BOND_OBSERVED",
             "BOND_OK"})]

RestoredMarkers ==
  [first |-> P({"READY", "CONNECTED", "PAIRED", "RESTORED_ACTIVE", "BOND_OK"}),
   second |-> {"RFDBG_RADIO_U5_BLE_SCAN_MATCH"}
     \cup C({"CONNECTED", "PAIRED", "RESTORED_ACTIVE", "BOND_OK"})]

RemovalMarkers ==
  [first |-> RestoredMarkers.first \cup P({"BOND_REMOVED", "BOND_REMOVE_OK"}),
   second |-> RestoredMarkers.second \cup C({"BOND_REMOVED", "BOND_REMOVE_OK"})]

NegativeMarkers ==
  LET p == P({"READY", "CONNECTED", "NEGATIVE_DISCONNECTED"})
      c == {"RFDBG_RADIO_U5_BLE_SCAN_MATCH"}
           \cup C({"CONNECTED", "PASSKEY_INPUT", "NEGATIVE_DISCONNECTED"})
  IN  [reject |-> [first |-> p \cup P({"REJECT_OK"}),
                   second |-> c \cup C({"REJECT_ACCEPTED", "REJECT_OK"})],
       stale |-> [first |-> p \cup P({"STALE_OK"}),
                  second |-> c \cup C({"STALE_REJECTED", "STALE_OK"})]]

BondFailures ==
  Named(BondPrefix,
    {"EVENT_DROP", "BOND_CONSERVATION_ERR", "PERIPHERAL_ERR", "CENTRAL_ERR",
     "COMMAND_ERR", "SCAN_LIFECYCLE_ERR", "SCAN_STOP_ERR",
     "PERIPHERAL_BOND_RESTORE_ERR", "CENTRAL_BOND_RESTORE_ERR",
     "RESTORED_STATE_ERR", "STATE_QUEUE_ERR", "PASSKEY_QUEUE_ERR",
     "PASSKEY_RESPONSE_ERR", "NEGATIVE_REQUIRES_EMPTY", "NEGATIVE_PAIRED_ERR",
     "NEGATIVE_AUTH_ERR", "NEGATIVE_BOND_ERR", "STALE_DISCONNECT_ERR",
     "NEGATIVE_CONSERVATION_ERR"})
  \cup {"RFDBG_NV_WRITE_ERR", "panicked at"}

(* The lines whose text has the prefix of the fixture, U5_MARKER_PREFIX.   *)
BondLines ==
  (UNION {c.first \cup c.second : c \in {FreshMarkers, RemovalMarkers,
                                         NegativeMarkers.reject,
                                         NegativeMarkers.stale}})
  \cup {PasskeyDisplay} \cup {Empty.first, Empty.second}
  \cup {Restored.first, Restored.second}
  \cup (BondFailures \ {"RFDBG_NV_WRITE_ERR", "panicked at"})

MarkerContract(mode, side, restored, removal) ==
  CASE mode # "passkey" -> NegativeMarkers[mode][side]
    [] mode = "passkey" /\ restored /\ removal -> RemovalMarkers[side]
    [] mode = "passkey" /\ restored /\ ~removal -> RestoredMarkers[side]
    [] OTHER -> FreshMarkers[side]

RedactPasskeys(log) ==
  [i \in DOMAIN log |-> IF log[i].m = PasskeyDisplay
                        THEN [log[i] EXCEPT !.m = PasskeyRedacted] ELSE log[i]]

(* Mutant: a protocol line before the boot marker is not noticed.          *)
BootsOnce(log) == Count(log, Boot) # 1

(* generation_errors: not exactly one boot, or a protocol line before it.  *)
GenerationErrors(log) ==
  \/ Count(log, Boot) # 1
  \/ \E i \in DOMAIN log : /\ log[i].m \in BondLines
                           /\ \A j \in 1 .. i : log[j].m # Boot

BondClassify(mode, removal, logs) ==
  LET Sides == {"first", "second"}
      restored == [s \in Sides |-> Has(logs[s], Restored[s])]
      missing == [s \in Sides |->
                    Missing(logs[s], MarkerContract(mode, s, restored[s], removal))]
      startup == [s \in Sides |-> {m \in {Empty[s], Restored[s]} : Has(logs[s], m)}]
      swapped == \/ Has(logs.first, Empty.second) \/ Has(logs.first, Restored.second)
                 \/ Has(logs.second, Empty.first) \/ Has(logs.second, Restored.first)
  IN  [pass |-> /\ \A s \in Sides : missing[s] = {} /\ Cardinality(startup[s]) = 1
                /\ Reported(logs, BondFailures) = {}
                /\ ~swapped
                /\ restored.first = restored.second
                /\ mode # "passkey" => ~restored.first /\ ~restored.second
                /\ \A s \in Sides : ~GenerationErrors(logs[s]),
       restored_contract |-> restored.first /\ restored.second,
       empty |-> {s \in Sides : logs[s] = <<>>}]

(* Mutant: only the last reset has to restore what the first one paired.   *)
PersistenceOfLast(records, mode, removal) ==
  /\ records # <<>>
  /\ \A i \in DOMAIN records : records[i].pass
  /\ Len(records) > 1
  /\ mode = "passkey" => records[Len(records)].restored_contract

(* validate_persistence: no error over the whole sequence of resets.       *)
PersistenceProven(records, mode, removal) ==
  LET restored(i) == records[i].restored_contract
  IN  /\ records # <<>>
      /\ \A i \in DOMAIN records : records[i].pass
      /\ IF mode # "passkey"
         THEN Len(records) >= 2 /\ \A i \in DOMAIN records : ~restored(i)
         ELSE IF removal
         THEN \A i \in 2 .. Len(records) : restored(i) = ~restored(i - 1)
         ELSE /\ ~restored(1) => Len(records) >= 2
              /\ \A i \in 2 .. Len(records) : restored(i)

(* capture_run's test after each poll, on logs that are not redacted yet.  *)
BondComplete(mode, removal, logs) ==
  LET Both(m) == Has(logs.first, m.first) /\ Has(logs.second, m.second)
  IN  IF mode = "passkey"
      THEN IF removal /\ Both(Restored) THEN Both(RemoveOk) ELSE Both(BondOk)
      ELSE Both(NegativeOk[mode])
=============================================================================
