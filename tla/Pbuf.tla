-------------------------------- MODULE Pbuf --------------------------------
(***************************************************************************)
(* The lwIP packet buffers at the vendor boundary                          *)
(* (chips/ws63/rf/src/netif.rs): pbuf_alloc, pbuf_ref, pbuf_free and       *)
(* pbuf_header, the transmit path that shares a buffer with the driver's   *)
(* asynchronous send, driverif_input, and the registered interface.        *)
(* Addresses are offsets from the start of the allocation.                 *)
(***************************************************************************)
EXTENDS Integers, FiniteSets

CONSTANTS
  Bufs,      \* allocations the heap can hold
  Netifs,    \* interface objects of the vendor WAL
  U16,       \* 2^16 in the code
  Hdr,       \* PBUF_HDR, 32
  Reserve,   \* PBUF_ZERO_COPY_RESERVE, 80
  Tailroom,  \* PBUF_ZERO_COPY_TAILROOM, 4
  Pad,       \* ETH_PAD_SIZE, 2
  MTU,       \* largest frame the bridge takes, 1536
  Lengths,   \* bound: pbuf lengths explored
  Moves,     \* bound: header sizes explored
  CounterMod \* number of values of an AtomicU32 counter, 2^32

ASSUME PbufAssumption ==
  /\ U16 \in Nat \ {0} /\ Hdr \in Nat /\ Reserve \in Nat /\ Tailroom \in Nat
  /\ Pad \in Nat /\ MTU \in Nat
  /\ Lengths \subseteq 0 .. U16 - 1
  /\ Moves \subseteq Int
  /\ CounterMod \in Nat \ {0}

NoNetif == "none"

VARIABLES
  live,       \* the allocation exists
  ref,        \* ref_count
  payload,    \* payload - p
  len,        \* len (tot_len is the same: buffers are unchained)
  asked,      \* the length pbuf_alloc was called with
  caller,     \* transmit's progress with the buffer
  driver,     \* the driver's asynchronous send holds a reference
  input,      \* the buffer is a received one on its way to driverif_input
  freeing,    \* pbuf_free has left its critical section and is to kfree
  netif,      \* REGISTERED_NETIF
  txFailed,   \* TX_FAILED, as: some transmit failed
  received, dropped   \* RX_RECEIVED, RX_DROPPED

memVars == <<live, ref, payload, len, asked>>
rxVars == <<received, dropped>>
pbVars == <<memVars, caller, driver, input, freeing, netif, txFailed, rxVars>>

CallerSteps == {"none", "filled", "sent"}

PbTypeOK ==
  /\ live \in [Bufs -> BOOLEAN]
  /\ ref \in [Bufs -> Int]
  /\ payload \in [Bufs -> Int]
  /\ len \in [Bufs -> 0 .. U16 - 1]
  /\ asked \in [Bufs -> 0 .. U16 - 1]
  /\ caller \in [Bufs -> CallerSteps]
  /\ driver \in [Bufs -> BOOLEAN]
  /\ input \in [Bufs -> BOOLEAN]
  /\ freeing \subseteq Bufs
  /\ netif \in Netifs \cup {NoNetif}
  /\ txFailed \in BOOLEAN
  /\ received \in 0 .. CounterMod - 1 /\ dropped \in 0 .. CounterMod - 1

PbInit ==
  /\ live = [b \in Bufs |-> FALSE]
  /\ ref = [b \in Bufs |-> 0]
  /\ payload = [b \in Bufs |-> 0]
  /\ len = [b \in Bufs |-> 0]
  /\ asked = [b \in Bufs |-> 0]
  /\ caller = [b \in Bufs |-> "none"]
  /\ driver = [b \in Bufs |-> FALSE]
  /\ input = [b \in Bufs |-> FALSE]
  /\ freeing = {}
  /\ netif = NoNetif
  /\ txFailed = FALSE
  /\ received = 0 /\ dropped = 0

-----------------------------------------------------------------------------
Total(n) == Hdr + Reserve + n + Tailroom
malloc_len(b) == Total(asked[b]) % U16

(* pbuf_alloc of a buffer the heap has free.                               *)
pbuf_alloc(b, n) ==
  /\ ~live[b]
  /\ live' = [live EXCEPT ![b] = TRUE]
  /\ ref' = [ref EXCEPT ![b] = 1]
  /\ payload' = [payload EXCEPT ![b] = Hdr + Reserve]
  /\ len' = [len EXCEPT ![b] = n]
  /\ asked' = [asked EXCEPT ![b] = n]

(* The critical section of pbuf_free; kfree follows outside of it.         *)
FreeWhenShared(b) == ref[b] <= 2
NeverLast(b) == ref[b] < 1
LastReference(b) == ref[b] <= 1

pbuf_free(b) ==
  \/ /\ ~LastReference(b)
     /\ ref' = [ref EXCEPT ![b] = @ - 1]
     /\ UNCHANGED freeing
  \/ /\ LastReference(b)
     /\ ref' = [ref EXCEPT ![b] = 0]
     /\ freeing' = freeing \cup {b}

Kfree(b) ==
  /\ b \in freeing
  /\ freeing' = freeing \ {b}
  /\ live' = [live EXCEPT ![b] = FALSE]
  /\ UNCHANGED <<ref, payload, len, asked, caller, driver, input, netif, txFailed, rxVars>>

Holders(b) ==
  (IF caller[b] # "none" THEN 1 ELSE 0) + (IF driver[b] THEN 1 ELSE 0)
  + (IF input[b] THEN 1 ELSE 0)

(* pbuf_header by whoever holds the buffer.                                *)
RoomIgnoringLength(b, size) == payload[b] - size >= Hdr
Room(b, size) ==
  /\ len[b] + size \in 0 .. U16 - 1
  /\ payload[b] - size >= Hdr
  /\ (payload[b] - size) + (len[b] + size) <= malloc_len(b)

pbuf_header(b, size) ==
  /\ Holders(b) > 0
  /\ Room(b, size)
  /\ payload' = [payload EXCEPT ![b] = @ - size]
  /\ len' = [len EXCEPT ![b] = (@ + size) % U16]
  /\ UNCHANGED <<live, ref, asked, caller, driver, input, freeing, netif, txFailed, rxVars>>

-----------------------------------------------------------------------------
(* transmit, the TX sink.  It needs a registered interface and memory.     *)
TransmitAlloc(b, n) ==
  /\ netif # NoNetif
  /\ n > 0
  /\ pbuf_alloc(b, n)
  /\ caller' = [caller EXCEPT ![b] = "filled"]
  /\ UNCHANGED <<driver, input, freeing, netif, txFailed, rxVars>>

TransmitFail ==
  /\ netif = NoNetif \/ (\A b \in Bufs : live[b])
  /\ txFailed' = TRUE
  /\ UNCHANGED <<memVars, caller, driver, input, freeing, netif, rxVars>>

(* drv_send: the driver keeps the buffer under a reference of its own      *)
(* (pbuf_ref), or lets it go.                                              *)
pbuf_ref(b) == [ref EXCEPT ![b] = @ + 1]

TransmitSend(b) ==
  /\ caller[b] = "filled"
  /\ caller' = [caller EXCEPT ![b] = "sent"]
  /\ \/ ref' = pbuf_ref(b) /\ driver' = [driver EXCEPT ![b] = TRUE]
     \/ UNCHANGED <<ref, driver>>
  /\ UNCHANGED <<live, payload, len, asked, input, freeing, netif, txFailed, rxVars>>

TransmitRelease(b) ==
  /\ caller[b] = "sent"
  /\ pbuf_free(b)
  /\ caller' = [caller EXCEPT ![b] = "none"]
  /\ UNCHANGED <<live, payload, len, asked, driver, input, netif, txFailed, rxVars>>

DriverDone(b) ==
  /\ driver[b]
  /\ pbuf_free(b)
  /\ driver' = [driver EXCEPT ![b] = FALSE]
  /\ UNCHANGED <<live, payload, len, asked, caller, input, netif, txFailed, rxVars>>

(* The driver's receive side: allocate, then hand up with driverif_input,  *)
(* which copies the frame behind the pad if it fits and frees the buffer.  *)
DriverAlloc(b, n) ==
  /\ pbuf_alloc(b, n)
  /\ input' = [input EXCEPT ![b] = TRUE]
  /\ UNCHANGED <<caller, driver, freeing, netif, txFailed, rxVars>>

Counted(n) == (n + 1) % CounterMod

driverif_input(b) ==
  /\ input[b]
  /\ \/ /\ len[b] > Pad /\ len[b] - Pad <= MTU
        /\ received' = Counted(received)
        /\ UNCHANGED dropped
     \/ /\ ~(len[b] > Pad /\ len[b] - Pad <= MTU)
        /\ dropped' = Counted(dropped)
        /\ UNCHANGED received
  /\ pbuf_free(b)
  /\ input' = [input EXCEPT ![b] = FALSE]
  /\ UNCHANGED <<live, payload, len, asked, caller, driver, netif, txFailed>>

netifapi_netif_add(n) ==
  /\ netif' = n
  /\ UNCHANGED <<memVars, caller, driver, input, freeing, txFailed, rxVars>>

netifapi_netif_remove(n) ==
  /\ netif = n
  /\ netif' = NoNetif
  /\ UNCHANGED <<memVars, caller, driver, input, freeing, txFailed, rxVars>>

-----------------------------------------------------------------------------
PbNext ==
  \/ \E b \in Bufs : Kfree(b) \/ TransmitSend(b) \/ TransmitRelease(b)
                     \/ DriverDone(b) \/ driverif_input(b)
  \/ \E b \in Bufs, n \in Lengths : TransmitAlloc(b, n) \/ DriverAlloc(b, n)
  \/ \E b \in Bufs, size \in Moves : pbuf_header(b, size)
  \/ TransmitFail
  \/ \E n \in Netifs : netifapi_netif_add(n) \/ netifapi_netif_remove(n)

PbSpec == PbInit /\ [][PbNext]_pbVars

(* Contexts finish what they began: transmit runs to its end, the driver   *)
(* completes its sends and hands its receptions up.                        *)
PbFairness ==
  \A b \in Bufs : /\ WF_pbVars(Kfree(b))
                  /\ WF_pbVars(TransmitSend(b))
                  /\ WF_pbVars(TransmitRelease(b))
                  /\ WF_pbVars(DriverDone(b))
                  /\ WF_pbVars(driverif_input(b))

PbFairSpec == PbSpec /\ PbFairness

-----------------------------------------------------------------------------
(* The count is the number of parties that may still use the buffer, and a *)
(* buffer with a user is neither freed nor about to be, whichever of the   *)
(* transmitting task and the driver finishes first.                        *)
RefCountExact ==
  /\ PbTypeOK
  /\ \A b \in Bufs :
       /\ live[b] /\ b \notin freeing => ref[b] = Holders(b) /\ ref[b] > 0
       /\ Holders(b) > 0 => live[b] /\ b \notin freeing

(* However the headers are moved, payload and length stay between the      *)
(* header and the true end of the allocation.                              *)
PayloadInside ==
  \A b \in Bufs : live[b] =>
    Hdr <= payload[b] /\ payload[b] + len[b] <= Total(asked[b])

(* A buffer is returned to the heap once nobody needs it: no order of the  *)
(* caller's and the driver's frees leaks it.                               *)
EventuallyFreed ==
  \A b \in Bufs : live[b] ~> ~live[b]
=============================================================================
