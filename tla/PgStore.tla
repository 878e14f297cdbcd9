------------------------------ MODULE PgStore -------------------------------
(***************************************************************************)
(* Ingest over the Postgres event store (store_pg.rs).  One append is one  *)
(* transaction: INSERT the event, UPSERT the asset row under a condition   *)
(* on observed_at, COMMIT.  Postgres serves the transactions of several    *)
(* handlers at once: an uncommitted row is private, the upsert waits for   *)
(* the lock on its asset row and then sees the committed row, and a        *)
(* transaction that is not committed leaves nothing behind.                *)
(***************************************************************************)
EXTENDS Ingest, FiniteSets

CONSTANTS
  NoWorker,
  MaxConnections,  (* size of the connection pool                            *)
  TicksPerMicro    (* resolution of observed_at over that of a TIMESTAMPTZ   *)

ASSUME PgAssumption ==
  /\ NoWorker \notin Worker
  /\ MaxConnections \in Nat \ {0}
  /\ TicksPerMicro \in Nat \ {0}

VARIABLES
  events,   (* committed rows of table events                                *)
  assets,   (* committed row of table assets, per dedup key                  *)
  lock,     (* per dedup key, the transaction holding the asset row          *)
  staged    (* the asset row a transaction will leave when it commits        *)

vars == <<ingestVars, events, assets, lock, staged>>

Control == {"idle", "begin", "insert", "upsert", "commit"}
InTransaction == {"insert", "upsert", "commit"}

(* Binding a DateTime<Utc> to a TIMESTAMPTZ keeps whole microseconds.      *)
Micros(ev) == ev.ns \div TicksPerMicro

TypeOK ==
  /\ IngestTypeOK(Control)
  /\ events \subseteq Row
  /\ assets \in [Key -> Event \union {NoEvent}]
  /\ lock \in [Key -> Worker \union {NoWorker}]
  /\ staged \in [Worker -> Event \union {NoEvent}]

Init ==
  /\ IngestInit
  /\ events = {}
  /\ assets = [k \in Key |-> NoEvent]
  /\ lock = [k \in Key |-> NoWorker]
  /\ staged = [w \in Worker |-> NoEvent]

storeVars == <<events, assets, lock, staged>>

Receive(w, b) ==
  /\ AnswerAtOnce(w, b) \/ StartBatch(w, b, "begin")
  /\ UNCHANGED storeVars

Connections == Cardinality({w \in Worker : pc[w] \in InTransaction})

(* self.pool.begin(): waits for a free connection.                         *)
Begin(w) ==
  /\ pc[w] = "begin"
  /\ Connections < MaxConnections
  /\ pc' = [pc EXCEPT ![w] = "insert"]
  /\ UNCHANGED <<batch, at, rid, received, acked, storeVars>>

(* INSERT INTO events: the row is private until the commit.                *)
InsertEvent(w) ==
  /\ pc[w] = "insert"
  /\ pc' = [pc EXCEPT ![w] = "upsert"]
  /\ UNCHANGED <<batch, at, rid, received, acked, storeVars>>

(* Mutant of Upserted: the condition is strict.                            *)
UpsertedStrict(ev, row) ==
  IF row = NoEvent \/ Micros(row) < Micros(ev) THEN ev ELSE row

(* ON CONFLICT ... DO UPDATE ... WHERE assets.observed_at <= EXCLUDED...   *)
Upserted(ev, row) ==
  IF row = NoEvent \/ Micros(row) <= Micros(ev) THEN ev ELSE row

(* Mutant of UpsertAsset: the row is read and written without waiting for  *)
(* its lock.                                                               *)
UpsertAssetUnlocked(w) ==
  LET ev == Current(w) IN
  /\ pc[w] = "upsert"
  /\ staged' = [staged EXCEPT ![w] = Upserted(ev, assets[ev.key])]
  /\ pc' = [pc EXCEPT ![w] = "commit"]
  /\ UNCHANGED <<batch, at, rid, received, acked, events, assets, lock>>

(* INSERT INTO assets ... ON CONFLICT: waits while another transaction     *)
(* holds the row, then decides on the committed row, and holds it.         *)
UpsertAsset(w) ==
  LET ev == Current(w) IN
  /\ pc[w] = "upsert"
  /\ lock[ev.key] = NoWorker
  /\ lock' = [lock EXCEPT ![ev.key] = w]
  /\ staged' = [staged EXCEPT ![w] = Upserted(ev, assets[ev.key])]
  /\ pc' = [pc EXCEPT ![w] = "commit"]
  /\ UNCHANGED <<batch, at, rid, received, acked, events, assets>>

(* The end of a transaction frees the row it held.                         *)
Unlock(W) ==
  /\ lock' = [k \in Key |-> IF lock[k] \in W THEN NoWorker ELSE lock[k]]
  /\ staged' = [w \in Worker |-> IF w \in W THEN NoEvent ELSE staged[w]]

(* Mutant of Durable: an event that does not change the asset row is not   *)
(* kept in the history either.                                             *)
DurableWhenNewer(w) ==
  /\ events' = IF staged[w] = Current(w) THEN events \union {CurrentRow(w)}
               ELSE events
  /\ assets' = [assets EXCEPT ![Current(w).key] = staged[w]]

(* What a commit makes durable.                                            *)
Durable(w) ==
  /\ events' = events \union {CurrentRow(w)}
  /\ assets' = [assets EXCEPT ![Current(w).key] = staged[w]]

(* Mutant of Commit: one transaction spans the batch, so that a row stays  *)
(* locked while the next event of the batch waits for its own.             *)
CommitHoldingLocks(w) ==
  /\ pc[w] = "commit"
  /\ Durable(w)
  /\ IF at[w] = Len(batch[w]) THEN Unlock({w}) ELSE UNCHANGED <<lock, staged>>
  /\ Advance(w, "begin")

Commit(w) ==
  /\ pc[w] = "commit"
  /\ Durable(w)
  /\ Unlock({w})
  /\ Advance(w, "begin")

(* The commit took effect but its answer never arrived: append returns an  *)
(* error for an event that is stored.                                      *)
CommitAnswerLost(w) ==
  /\ pc[w] = "commit"
  /\ Durable(w)
  /\ Unlock({w})
  /\ Abandon({w})

(* Mutant of Fail: the loop logs the error and goes on.                    *)
FailIgnored(w) ==
  /\ pc[w] # "idle"
  /\ Unlock({w})
  /\ Advance(w, "begin")
  /\ UNCHANGED <<events, assets>>

(* Any await of append fails (pool timeout, a statement or the commit), or *)
(* the client disconnects and the handler is dropped: rollback.            *)
Fail(w) ==
  /\ pc[w] # "idle"
  /\ Unlock({w})
  /\ Abandon({w})
  /\ UNCHANGED <<events, assets>>

(* The collector process stops and starts again: every transaction is      *)
(* rolled back, the tables stay.                                           *)
Restart ==
  /\ Unlock(Worker)
  /\ Abandon(Worker)
  /\ UNCHANGED <<events, assets>>

Step(w) == Begin(w) \/ InsertEvent(w) \/ UpsertAsset(w) \/ Commit(w)

Next ==
  \/ \E w \in Worker : \E b \in Batch : Receive(w, b)
  \/ \E w \in Worker : Step(w) \/ CommitAnswerLost(w) \/ Fail(w)
  \/ Restart

(* A running handler keeps making progress.  Postgres queues the waiters   *)
(* of a row lock and of the pool in order, so a wait that keeps ending is  *)
(* not overtaken for ever: strong fairness.                                *)
Spec == Init /\ [][Next]_vars /\ \A w \in Worker : SF_vars(Step(w))

-----------------------------------------------------------------------------
(* The inventory shows, for every asset, an event of the history that no   *)
(* event of the same asset in the history is newer than, at the resolution *)
(* of a TIMESTAMPTZ, whatever the order of arrival and whichever           *)
(* transactions overlap or fail (store_pg.rs, append).                     *)
LatestIsNewest ==
  \A k \in Key :
    LET seen == {r.ev : r \in {x \in events : x.ev.key = k}} IN
    IF seen = {} THEN assets[k] = NoEvent
    ELSE /\ assets[k] \in seen
         /\ \A ev \in seen : Micros(ev) <= Micros(assets[k])

(* Every event of a request that was answered 2xx is in the history, also  *)
(* after a restart (routes.rs, ingest).                                    *)
AckedIsStored ==
  \A a \in acked : \A i \in DOMAIN a.batch : RowOf(a.rid, a.batch, i) \in events

(* A batch that stops half way leaves a prefix: an event is stored only    *)
(* after the events before it in its batch (routes.rs, the append loop).   *)
StoredIsPrefix ==
  \A r \in events : \A p \in 1..(r.pos - 1) :
    \E q \in events : q.rid = r.rid /\ q.pos = p

(* The store behind the handlers implements the abstract event store.      *)
Abstract == INSTANCE EventStore WITH
              history <- events, latest <- assets, RankOf <- Micros

Refines == Abstract!Spec

(* Every request is answered or given up: two requests never wait for each *)
(* other's asset rows or connections for ever.                             *)
RequestsEnd == \A w \in Worker : pc[w] # "idle" ~> pc[w] = "idle"

=============================================================================
