------------------------------- MODULE Ingest -------------------------------
(***************************************************************************)
(* The ingest handlers of the collector (routes.rs: ingest_one,            *)
(* ingest_batch, ingest).  A request carries a batch of events, checks the *)
(* schema version of all of them before it stores any, then appends them   *)
(* to the event store one after the other and is answered 2xx only when    *)
(* every append has succeeded.  Handlers run concurrently, one per worker. *)
(*                                                                         *)
(* This module holds the loop.  The store behind the append call is        *)
(* PgStore (store_pg.rs) or MemStore (store.rs), which extend it.          *)
(***************************************************************************)
EXTENDS Integers, Sequences

CONSTANTS
  Key,             (* dedup keys                                             *)
  Event,           (* the events clients send                                *)
  NoEvent,
  Worker,          (* concurrently running handlers                          *)
  Batch,           (* the batches clients send                               *)
  SCHEMA_VERSION,  (* the one major schema version the collector accepts     *)
  MaxBatch,        (* bound: events of one request (the code caps its bytes) *)
  MaxRequests      (* bound: requests received in one behaviour              *)

ASSUME IngestAssumption ==
  /\ Event \subseteq [key : Key, ns : Nat, schema_version : Nat]
  /\ NoEvent \notin Event
  /\ Batch \subseteq Seq(Event)
  /\ MaxBatch \in Nat
  /\ \A b \in Batch : Len(b) <= MaxBatch
  /\ SCHEMA_VERSION \in Nat
  /\ MaxRequests \in Nat

VARIABLES
  pc,        (* where each handler stands; "idle" when it serves no request  *)
  batch,     (* the batch it serves                                          *)
  at,        (* index of the event it is appending                           *)
  rid,       (* the number of the request it serves                          *)
  received,  (* requests received so far                                     *)
  acked      (* history: requests answered 2xx, with their batch             *)

ingestVars == <<pc, batch, at, rid, received, acked>>

(* One occurrence of an event in the history: position pos of request rid. *)
Row == [rid : 1..MaxRequests, pos : 1..MaxBatch, ev : Event]

RowOf(r, b, i) == [rid |-> r, pos |-> i, ev |-> b[i]]

(* The event a busy handler is appending, and its row.                     *)
Current(w) == batch[w][at[w]]
CurrentRow(w) == RowOf(rid[w], batch[w], at[w])

SchemaOK(b) == \A i \in DOMAIN b : b[i].schema_version = SCHEMA_VERSION

IngestTypeOK(Control) ==
  /\ pc \in [Worker -> Control]
  /\ batch \in [Worker -> Batch \union {<< >>}]
  /\ at \in [Worker -> 0..MaxBatch]
  /\ rid \in [Worker -> 0..MaxRequests]
  /\ received \in 0..MaxRequests
  /\ acked \subseteq [rid : 1..MaxRequests, batch : Batch]
  /\ \A w \in Worker : pc[w] # "idle" => /\ at[w] \in DOMAIN batch[w]
                                         /\ rid[w] # 0

IngestInit ==
  /\ pc = [w \in Worker |-> "idle"]
  /\ batch = [w \in Worker |-> << >>]
  /\ at = [w \in Worker |-> 0]
  /\ rid = [w \in Worker |-> 0]
  /\ received = 0
  /\ acked = {}

(* A request that never reaches the store: a batch with an event of        *)
(* another schema version is refused whole with 422, an empty one is       *)
(* answered at once.                                                       *)
AnswerAtOnce(w, b) ==
  /\ pc[w] = "idle"
  /\ received < MaxRequests
  /\ b = << >> \/ ~SchemaOK(b)
  /\ received' = received + 1
  /\ UNCHANGED <<pc, batch, at, rid, acked>>

(* A request that passes the schema check enters the append loop at its    *)
(* first event; start is the first step of the backend's append.           *)
StartBatch(w, b, start) ==
  /\ pc[w] = "idle"
  /\ received < MaxRequests
  /\ b # << >> /\ SchemaOK(b)
  /\ received' = received + 1
  /\ pc' = [pc EXCEPT ![w] = start]
  /\ batch' = [batch EXCEPT ![w] = b]
  /\ at' = [at EXCEPT ![w] = 1]
  /\ rid' = [rid EXCEPT ![w] = received + 1]
  /\ UNCHANGED acked

(* The handler leaves its request; its local state is gone.                *)
Release(W) ==
  /\ pc' = [w \in Worker |-> IF w \in W THEN "idle" ELSE pc[w]]
  /\ batch' = [w \in Worker |-> IF w \in W THEN << >> ELSE batch[w]]
  /\ at' = [w \in Worker |-> IF w \in W THEN 0 ELSE at[w]]
  /\ rid' = [w \in Worker |-> IF w \in W THEN 0 ELSE rid[w]]

(* append returned Ok: on to the next event, or answer 2xx.                *)
Advance(w, start) ==
  \/ /\ at[w] < Len(batch[w])
     /\ pc' = [pc EXCEPT ![w] = start]
     /\ at' = [at EXCEPT ![w] = @ + 1]
     /\ UNCHANGED <<batch, rid, received, acked>>
  \/ /\ at[w] = Len(batch[w])
     /\ acked' = acked \union {[rid |-> rid[w], batch |-> batch[w]]}
     /\ Release({w})
     /\ UNCHANGED received

(* append returned an error, or the client went away: the loop stops where *)
(* it is.  The events already appended stay in the store.                  *)
Abandon(W) ==
  /\ Release(W)
  /\ UNCHANGED <<received, acked>>

=============================================================================
