------------------------------ MODULE EbpfTap -------------------------------
(***************************************************************************)
(* The live interface of the network agent: the kernel's TC classifier     *)
(* (net-ebpf: try_observe) copies each TLS hello into a ring buffer, and   *)
(* one task of the agent (live_iface.rs: run) waits for the ring, drains   *)
(* it, parses each copy and hands an event to the sink.                    *)
(*                                                                         *)
(* The kernel wakes the reader only for a record that finds the ring       *)
(* drained, and a record stays in the ring until its item is dropped.      *)
(* The wakeup is an edge: the runtime turns it into readiness when the     *)
(* task is parked, and the task clears the readiness itself.  The          *)
(* statistics of the loop are the sizes of the sets kept here; run never   *)
(* returns them.                                                           *)
(***************************************************************************)
EXTENDS TlsParse

CONSTANTS
  Frame,                (* the frames of the interface, by an identifier     *)
  MAX_HANDSHAKE_BYTES,  (* how much of a hello is copied                     *)
  RingSlots             (* how many records the ring holds                   *)

ASSUME TapAssumption ==
  /\ MAX_HANDSHAKE_BYTES \in Nat \ {0}
  /\ RingSlots \in Nat \ {0}

VARIABLES
  arrived,   (* frames the interface has received                            *)
  ring,      (* EVENTS: the frames of its records, oldest first              *)
  dropped,   (* frames for which reserve found no room                       *)
  notified,  (* a wakeup the runtime has not collected                       *)
  ready,     (* the readiness of the AsyncFd                                 *)
  reader,    (* where the task is in its loop                                *)
  reported,  (* frames whose event was handed to the sink                    *)
  failed     (* frames whose hello did not parse                             *)

readerVars == <<ready, reader, reported, failed>>
tapVars == <<arrived, ring, dropped, notified, readerVars>>

(***************************************************************************)
(* A frame: its header fields, -1 for one that lies behind the end of the  *)
(* packet, and the bytes behind the record header.  They are a hello, less *)
(* the `cut' bytes that travel in the next segment, and what follows it.   *)
(***************************************************************************)
Payload ==
  [f \in DOMAIN Frame |->
     LET sent == Encoded(Frame[f].hello) \o Frame[f].tail
     IN  SubSeq(sent, 1, Len(sent) - Frame[f].cut)]

(* A hello is made of bytes and its length fits two of them, as the peers' *)
(* do that a record can hold; no more is cut off than there is.            *)
Sendable(p) ==
  /\ HelloBody(p.hello) \in Seq(Byte) /\ Len(HelloBody(p.hello)) \in Word
  /\ p.tail \in Seq(Byte)
  /\ p.cut \in 0..(Len(Encoded(p.hello)) + Len(p.tail))

ASSUME FrameAssumption == \A f \in DOMAIN Frame : Sendable(Frame[f])

(* The copy: byte by byte, until the packet or the record ends.            *)
HandshakeEvent(f) ==
  SubSeq(Payload[f], 1, IF Len(Payload[f]) < MAX_HANDSHAKE_BYTES THEN Len(Payload[f])
                          ELSE MAX_HANDSHAKE_BYTES)

(* What try_observe lets through: IPv4, TCP, a handshake record that       *)
(* starts with a hello.                                                    *)
Selected ==
  {f \in DOMAIN Frame :
     LET h == Frame[f].header
     IN  /\ h.eth_proto = \h0800
         /\ h.ip_ihl >= 20 /\ h.ip_proto = 6
         /\ h.tcp_hdr_len >= 20
         /\ h.rec_type = \h16 /\ h.major = 3
         /\ Payload[f] # <<>> /\ Payload[f][1] \in {1, 2}}

TapInit ==
  /\ arrived = {} /\ ring = <<>> /\ dropped = {}
  /\ notified = FALSE /\ ready = FALSE /\ reader = "start"
  /\ reported = {} /\ failed = {}

(***************************************************************************)
(* The classifier.  The packet is passed on in every case.                 *)
(***************************************************************************)
PassBy(f) ==
  /\ f \notin Selected
  /\ UNCHANGED <<ring, dropped, notified>>

NoRoom(f) ==
  /\ f \in Selected
  /\ Len(ring) = RingSlots
  /\ dropped' = dropped \union {f}
  /\ UNCHANGED <<ring, notified>>

Submit(f) ==
  /\ f \in Selected
  /\ Len(ring) < RingSlots
  /\ ring' = Append(ring, f)
  /\ notified' = (notified \/ (ring = <<>> /\ reader # "start"))
  /\ UNCHANGED dropped

try_observe(f) ==
  /\ f \in DOMAIN Frame \ arrived
  /\ arrived' = arrived \union {f}
  /\ PassBy(f) \/ NoRoom(f) \/ Submit(f)
  /\ UNCHANGED readerVars

(***************************************************************************)
(* The task.  The classifier is attached before the ring is registered;    *)
(* registering reports what the ring holds already.                        *)
(***************************************************************************)
Register ==
  /\ reader = "start"
  /\ reader' = "wait"
  /\ notified' = (ring # <<>>)
  /\ UNCHANGED <<arrived, ring, dropped, ready, reported, failed>>

(* The runtime has one thread: it collects wakeups when the task is parked.*)
Driver ==
  /\ reader \in {"wait", "sleep"}
  /\ notified
  /\ notified' = FALSE
  /\ ready' = TRUE
  /\ UNCHANGED <<arrived, ring, dropped, reader, reported, failed>>

Readable ==
  /\ reader = "wait"
  /\ ready
  /\ reader' = "drain"
  /\ UNCHANGED <<arrived, ring, dropped, notified, ready, reported, failed>>

(* What the parser makes of each copy.                                     *)
Parsed == [f \in DOMAIN Frame |-> parse_handshake(HandshakeEvent(f))]

LoaderEvent ==
  [f \in DOMAIN Frame |->
     Event("ree0xq-net", "tls_session", Frame[f].session, SummaryPrimitives(Parsed[f]),
           NoChannel, NoAgility)]

(* ring.next, parse_handshake, on_event; the item is still held.           *)
TakeItem ==
  /\ reader = "drain"
  /\ ring # <<>>
  /\ reader' = "hold"
  /\ LET f == Head(ring)
     IN  \/ /\ Parsed[f].ok
            /\ reported' = reported \union {f}
            /\ UNCHANGED failed
         \/ /\ ~Parsed[f].ok
            /\ failed' = failed \union {f}
            /\ UNCHANGED reported
  /\ UNCHANGED <<arrived, ring, dropped, notified, ready>>

(* Mutant of DropItem: one record for each wakeup.                         *)
DropItemOnce ==
  /\ reader = "hold"
  /\ ring' = Tail(ring)
  /\ reader' = "empty"
  /\ UNCHANGED <<arrived, dropped, notified, ready, reported, failed>>

DropItem ==
  /\ reader = "hold"
  /\ ring' = Tail(ring)
  /\ reader' = "drain"
  /\ UNCHANGED <<arrived, dropped, notified, ready, reported, failed>>

NoItem ==
  /\ reader = "drain"
  /\ ring = <<>>
  /\ reader' = "empty"
  /\ UNCHANGED <<arrived, ring, dropped, notified, ready, reported, failed>>

ClearReady ==
  /\ reader = "empty"
  /\ ready' = FALSE
  /\ reader' = "sleep"
  /\ UNCHANGED <<arrived, ring, dropped, notified, reported, failed>>

SleepOver ==
  /\ reader = "sleep"
  /\ reader' = "wait"
  /\ UNCHANGED <<arrived, ring, dropped, notified, ready, reported, failed>>

TapLoop == Register \/ Readable \/ TakeItem \/ DropItem \/ NoItem \/ ClearReady \/ SleepOver

TapNext == (\E f \in DOMAIN Frame : try_observe(f)) \/ Driver \/ TapLoop

-----------------------------------------------------------------------------
(* A hello that the parser can be expected to read: it came in one piece,  *)
(* fits the copy, and nothing follows a hello without extensions, whose    *)
(* end the parser takes from the end of the copy.                          *)
Sound ==
  {f \in Selected :
     /\ Frame[f].cut = 0
     /\ Len(Encoded(Frame[f].hello)) <= MAX_HANDSHAKE_BYTES
     /\ Frame[f].hello.extensions \/ Frame[f].tail = <<>>}

(* An event says what the peer offered: the primitives are those of the    *)
(* lists of the hello, whatever the order, padding and size of its         *)
(* extensions and whatever follows it, and never those of a part of it;    *)
(* and a hello is given up only when it did not come whole, exceeds the    *)
(* copy, or has no extensions and is followed by another message           *)
(* (tls/mod.rs, parse_handshake; net-ebpf main.rs, try_observe).           *)
HelloIsReadRight ==
  /\ \A r \in reported :
       LET h == Frame[r].hello
       IN  LoaderEvent[r].primitives =
             primitives_from_summary(Named(h.suites, ciphersuite_name),
                                     Named(IF h.extensions THEN h.groups ELSE <<>>, named_group_name),
                                     Named(IF h.extensions THEN h.schemes ELSE <<>>, signature_scheme_name))
  /\ failed \intersect Sound = {}

(* A sound hello that found room in the ring becomes an event, though no   *)
(* wakeup comes for a record that finds another in the ring, and one may   *)
(* come while the task drains, clears the readiness or sleeps              *)
(* (live_iface.rs, run).                                                   *)
SoundHelloIsReported ==
  \A f \in Sound :
    (f \in arrived \ dropped) ~> (f \in reported)

=============================================================================
