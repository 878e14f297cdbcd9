----------------------------- MODULE EventStore -----------------------------
(***************************************************************************)
(* What the collector promises of its event store, whatever the backend    *)
(* (trait EventStore, crates/ree0xq-server/src/store.rs).  The history is  *)
(* append-only, and the per-asset pointer moves only to an event that is   *)
(* at-or-after the one it shows.  Both happen in one indivisible step.     *)
(*                                                                         *)
(* A row of the history is an occurrence of an event: the same event       *)
(* ingested twice is two rows.  RankOf gives the resolution at which the   *)
(* backend compares observation times.                                     *)
(***************************************************************************)
EXTENDS Integers

CONSTANTS
  Key,        (* dedup keys (source_module, asset.kind, asset.identity)      *)
  Row,        (* rows of the history, each carrying an event in field "ev"   *)
  NoEvent,    (* the pointer of an asset nobody has observed yet             *)
  RankOf(_)   (* the observation time of an event, as the backend sees it    *)

VARIABLES
  history,    (* the set of rows stored so far                               *)
  latest      (* per dedup key, the event the inventory shows                *)

vars == <<history, latest>>

Init ==
  /\ history = {}
  /\ latest  = [k \in Key |-> NoEvent]

(* An event replaces the pointer unless it is older than what is shown.    *)
Supersedes(ev, shown) ==
  \/ shown = NoEvent
  \/ RankOf(shown) <= RankOf(ev)

Append(r) ==
  /\ r \notin history
  /\ history' = history \union {r}
  /\ latest'  = [latest EXCEPT ![r.ev.key] =
                   IF Supersedes(r.ev, @) THEN r.ev ELSE @]

Next == \E r \in Row : Append(r)

Spec == Init /\ [][Next]_vars

=============================================================================
