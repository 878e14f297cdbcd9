---------------------------- MODULE LiveObserver ----------------------------
(***************************************************************************)
(* The frame loop of the network agent (live.rs: observe_pcap_with_dedup,  *)
(* handle_frame) over the session cache.  A frame is classified layer by   *)
(* layer, every outcome is counted, and a parsed handshake becomes an      *)
(* event unless the cache has seen its session.                            *)
(***************************************************************************)
EXTENDS DedupCache

CONSTANT
  MaxPackets      (* bound: frames of one capture                            *)

ASSUME LiveAssumption == MaxPackets \in Nat

VARIABLES
  dedup,  (* whether the caller supplied a cache; run_live does unless the   *)
          (* TTL it is given is 0                                            *)
  stats   (* ObservationStats                                                *)

liveVars == <<dedupVars, dedup, stats>>

Counter == {"packets_seen", "skipped_unparseable", "skipped_empty_payload",
            "handshake_packets", "parsed", "parse_failed", "deduplicated",
            "events_emitted"}

TypeOK ==
  /\ DedupTypeOK
  /\ dedup \in BOOLEAN
  /\ stats \in [Counter -> 0..MaxPackets]

Init ==
  /\ DedupInit
  /\ dedup \in BOOLEAN
  /\ stats = [c \in Counter |-> 0]

(* Every frame counts as seen, and as whatever else C says.                *)
Count(C) ==
  /\ stats["packets_seen"] < MaxPackets
  /\ stats' = [c \in Counter |->
                 IF c \in C \union {"packets_seen"} THEN stats[c] + 1 ELSE stats[c]]
  /\ UNCHANGED dedup

(* A frame that yields no handshake: unreadable or unparseable, without a  *)
(* payload, not TCP or not a hello, or a hello that does not parse.        *)
OtherFrame ==
  /\ \/ Count({"skipped_unparseable"})
     \/ Count({"skipped_empty_payload"})
     \/ Count({})
     \/ Count({"handshake_packets", "parse_failed"})
  /\ UNCHANGED dedupVars

(* build_live_event and on_event.                                          *)
Emit == Count({"handshake_packets", "parsed", "events_emitted"})

DuplicateHello(id) ==
  /\ dedup
  /\ Hit(id)
  /\ Count({"handshake_packets", "parsed", "deduplicated"})

FreshHello(id) ==
  /\ dedup
  /\ Fresh(id)
  /\ Emit

(* No cache: every handshake becomes an event.                             *)
HelloWithoutCache ==
  /\ ~dedup
  /\ Emit
  /\ UNCHANGED dedupVars

Wait == Tick /\ UNCHANGED <<dedup, stats>>

(* The capture ends.                                                       *)
EndOfCapture ==
  /\ stats["packets_seen"] = MaxPackets
  /\ now = MaxTime
  /\ UNCHANGED liveVars

Next ==
  \/ OtherFrame
  \/ \E id \in Identity : DuplicateHello(id) \/ FreshHello(id)
  \/ HelloWithoutCache
  \/ Wait
  \/ EndOfCapture

Spec == Init /\ [][Next]_liveVars

-----------------------------------------------------------------------------
(* The statistics account for every handshake: each one seen failed to     *)
(* parse, was a duplicate or became an event, and no frame is counted      *)
(* twice (live.rs, ObservationStats).                                      *)
StatsBalance ==
  /\ stats["handshake_packets"] = stats["parsed"] + stats["parse_failed"]
  /\ stats["parsed"] = stats["deduplicated"] + stats["events_emitted"]
  /\ stats["skipped_unparseable"] + stats["skipped_empty_payload"]
       + stats["handshake_packets"] <= stats["packets_seen"]

=============================================================================
