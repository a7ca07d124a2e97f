---------------------------- MODULE UartFixtures ----------------------------
(***************************************************************************)
(* The UART logs of hil/test-ws63-connectivity-reset-matrix.py: what the   *)
(* firmware prints when a run is good, in the order it prints it.          *)
(***************************************************************************)
EXTENDS UartContract

Const(fields, x) == [f \in fields |-> x]

ReadyOwnershipLine(m, x) == Line(m, Const(OwnershipFields, x), None)

SectionLine(section, zero) ==
  LET s == A5bSections[section]
  IN  Line(s.m, [f \in s.fields |-> IF f \in zero THEN 0 ELSE 1], None)

(* a5b_success_log: an A5B boot up to its trailer.                         *)
A5bSuccessLog ==
  << Line("W2E_AP_SECURITY", None, [mode |-> "transition"]),
     ReadyOwnershipLine("RFDBG_A5B_SCHED", 0),
     Line("RFDBG_A5B_INITIALIZE_OK", [elapsed_ms |-> 36], None),
     Line("RFDBG_A5B_SCAN_OK", [elapsed_ms |-> 1568, count |-> 9,
                                truncated |-> 0], None),
     Line("RFDBG_A5B_CONNECT_OK", [elapsed_ms |-> 42], None),
     Line("RFDBG_A5B_DISCONNECT_OK", [elapsed_ms |-> 9], None),
     Line("RFDBG_A5B_CONNECT_ASSOC_IOCTL", [values |-> 12], None),
     Line("RFDBG_A5B_RUNNER_ELAPSED_MS", [value |-> 12], None),
     Line("RFDBG_A5B_RUNNER_ELAPSED_MS", [value |-> 38], None),
     SectionLine("event_queue", {"dropped"}),
     SectionLine("control_queue", {"pending"}),
     SectionLine("runner", {"errors"}),
     SectionLine("wait", {"l2"}),
     SectionLine("blocking", {"scan_calls", "poll_calls", "internal_sleep",
                              "supplicant_poll"}),
     Plain("RFDBG_A5B_CONNECT_PROFILE_OK") >>

(* connectivity_success_log                                                *)
ScanSuccessLog ==
  << Plain("RF1_IMAGE_OK"),
     ReadyOwnershipLine("RFDBG_A5B_SCHED", 0),
     Line("RF2_INIT_OK", None, [ifname |-> "hisi-rf"]),
     Plain("A4_RADIO_EVENT kind=initialized"),
     Line("RF3_SCAN_OK", [count |-> 3], None),
     Plain("A4_RADIO_EVENT kind=scan-completed") >>

LocalSuccessLog ==
  << Plain("W2D_WPA2_CONNECT_OK"),
     Plain("A4_RADIO_EVENT kind=connected"),
     Line("RF5A_DHCP_OK", None, [addr |-> "192.0.2.2"]),
     Line("RF5A_ARP_OK", None, [evidence |-> "l2-arp-reply"]),
     Line("RF5C_LOCAL_DATA_PATH_OK", [arp_reply |-> 1, arp_request |-> 1],
          [gateway |-> "192.0.2.1"]) >>

PublicSuccessLog ==
  << Line("RF5C_PUBLIC_DNS_BEGIN", [attempts |-> 4], [primary |-> "223.5.5.5"]),
     Line("RF5C_PUBLIC_DNS_OK",
          [attempts |-> 1, responses |-> 1, invalid |-> 0, tx_error |-> 0],
          [target |-> "223.5.5.5"]),
     Line("RF5C_CONNECTIVITY_SUMMARY",
          [arp_request |-> 1, arp_reply |-> 1, dns_attempts |-> 1,
           dns_responses |-> 1, dns_invalid |-> 0, dns_tx_error |-> 0,
           rx_queue_drop |-> 0], None),
     Line("RFDBG_A5B_L2",
          [f \in L2Fields |-> IF f \in {"rx_other", "tx_arp_reply", "tx_other"}
                              THEN 0 ELSE 4], None),
     Line("A4_NET_RUNNER_STEADY", None, [lease |-> "managed"]),
     Line("A4_DHCP_RENEW_OK", [client |-> 1, server |-> 1], None) >>

ConnectivitySuccessLog == ScanSuccessLog \o LocalSuccessLog \o PublicSuccessLog

(* The quantities of the RTOS and of the RF arena.                         *)
HeapSample == [arena |-> <<11, 6>>, used |-> <<1, 1>>, free |-> <<10, 5>>,
               peak |-> <<2, 2>>, failures |-> <<0, 0>>]

(* resource_calibration_log, in units of 16 KiB.                           *)
ResourceCalibrationLog ==
  << Line("RFDBG_RESOURCE", [runtime_arena |-> 11, rf_arena |-> 6],
          [schema |-> "v8", revision |-> "ws63-wifi-test"]),
     Line("RFDBG_HEAP",
          [k \in {HeapKey(a, q) : a \in {"rtos", "rf"}, q \in DOMAIN HeapSample} |->
             LET q == CHOOSE x \in DOMAIN HeapSample :
                        k \in {HeapKey("rtos", x), HeapKey("rf", x)}
             IN  HeapSample[q][IF k = HeapKey("rtos", q) THEN 1 ELSE 2]], None) >>
=============================================================================
