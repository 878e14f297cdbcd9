------------------------------ MODULE MemStore ------------------------------
(***************************************************************************)
(* Ingest over the in-memory event store (store.rs, InMemoryEventStore),   *)
(* the default backend.  append looks the asset up in the concurrent map,  *)
(* lets go of the entry, inserts the event into the map and then pushes it *)
(* to the mutex-guarded log: three steps that the appends of other         *)
(* handlers may come between.  append never awaits, so that a handler is   *)
(* not cancelled half way and never fails.  Nothing survives a restart,    *)
(* which is Init.                                                          *)
(***************************************************************************)
EXTENDS Ingest, SequencesExt

VARIABLES
  latest,   (* DashMap: per dedup key, the event the inventory shows         *)
  log,      (* Mutex<Vec>: the rows in order of arrival                      *)
  looked,   (* history: what each handler found at its lookup                *)
  raced     (* history: assets whose entry changed between the lookup and    *)
            (* the insert of one append                                      *)

vars == <<ingestVars, latest, log, looked, raced>>

Control == {"idle", "lookup", "insert", "push"}

TypeOK ==
  /\ IngestTypeOK(Control)
  /\ latest \in [Key -> Event \union {NoEvent}]
  /\ log \in Seq(Row)
  /\ looked \in [Worker -> Event \union {NoEvent}]
  /\ raced \subseteq Key

Init ==
  /\ IngestInit
  /\ latest = [k \in Key |-> NoEvent]
  /\ log = << >>
  /\ looked = [w \in Worker |-> NoEvent]
  /\ raced = {}

Receive(w, b) ==
  /\ AnswerAtOnce(w, b) \/ StartBatch(w, b, "lookup")
  /\ UNCHANGED <<latest, log, looked, raced>>

(* The outcome of a lookup: on to the map, or past it to the log.          *)
Found(w, stale) ==
  /\ pc[w] = "lookup"
  /\ pc' = [pc EXCEPT ![w] = IF stale THEN "push" ELSE "insert"]
  /\ looked' = [looked EXCEPT ![w] = latest[Current(w).key]]
  /\ UNCHANGED <<batch, at, rid, received, acked, latest, log, raced>>

(* Mutant of Lookup: the comparison is turned round.                       *)
LookupReversed(w) ==
  LET prev == latest[Current(w).key]
  IN Found(w, prev # NoEvent /\ prev.ns < Current(w).ns)

(* Mutant of Lookup: only an asset that is known already is updated.       *)
LookupKnownOnly(w) ==
  LET prev == latest[Current(w).key]
  IN Found(w, prev = NoEvent \/ Current(w).ns < prev.ns)

(* latest.get: an event older than the one shown goes to the log only.     *)
Lookup(w) ==
  LET prev == latest[Current(w).key]
  IN Found(w, prev # NoEvent /\ Current(w).ns < prev.ns)

(* latest.insert: decided at the lookup, done without looking again.       *)
Insert(w) ==
  LET k == Current(w).key IN
  /\ pc[w] = "insert"
  /\ latest' = [latest EXCEPT ![k] = Current(w)]
  /\ raced' = IF latest[k] # looked[w] THEN raced \union {k} ELSE raced
  /\ pc' = [pc EXCEPT ![w] = "push"]
  /\ UNCHANGED <<batch, at, rid, received, acked, log, looked>>

(* Mutant of Push: the early return leaves the older event out of the log. *)
PushNewer(w) ==
  /\ pc[w] = "push"
  /\ log' = IF latest[Current(w).key] = Current(w)
            THEN Append(log, CurrentRow(w)) ELSE log
  /\ Advance(w, "lookup")
  /\ UNCHANGED <<latest, looked, raced>>

(* log.lock().push, on both paths; then on to the next event.              *)
Push(w) ==
  /\ pc[w] = "push"
  /\ log' = Append(log, CurrentRow(w))
  /\ Advance(w, "lookup")
  /\ UNCHANGED <<latest, looked, raced>>

Step(w) == Lookup(w) \/ Insert(w) \/ Push(w)

(* No request is left to come: the collector waits.                        *)
Quiet ==
  /\ received = MaxRequests
  /\ \A w \in Worker : pc[w] = "idle"
  /\ UNCHANGED vars

Next ==
  \/ \E w \in Worker : \E b \in Batch : Receive(w, b)
  \/ \E w \in Worker : Step(w)
  \/ Quiet

Spec == Init /\ [][Next]_vars /\ \A w \in Worker : WF_vars(Step(w))

-----------------------------------------------------------------------------
Logged == Range(log)

(* The rows of a request that was answered 2xx are the events of its       *)
(* batch, each of them once and in the order of the batch, whatever other  *)
(* handlers logged in between (routes.rs, ingest; store.rs, append).       *)
AckedIsLoggedInOrder ==
  \A a \in acked :
    /\ \A i \in DOMAIN a.batch : RowOf(a.rid, a.batch, i) \in Logged
    /\ \A r \in Logged : r.rid = a.rid =>
         r.pos \in DOMAIN a.batch /\ r.ev = a.batch[r.pos]
    /\ \A i, j \in DOMAIN log :
         i < j /\ log[i].rid = a.rid /\ log[j].rid = a.rid => log[i].pos < log[j].pos

(* The inventory never invents: the event shown for an asset is in the     *)
(* log or is about to be pushed to it by the handler that showed it.  And  *)
(* it never forgets: an asset with an event in the log is shown.           *)
ShownIsLogged ==
  \A k \in Key :
    /\ latest[k] # NoEvent =>
         \/ \E r \in Logged : r.ev = latest[k]
         \/ \E w \in Worker : pc[w] = "push" /\ Current(w) = latest[k]
    /\ (\E r \in Logged : r.ev.key = k) => latest[k] # NoEvent

(* The event shown for an asset is the newest of the log, unless two       *)
(* appends of that asset have overlapped: the order of arrival, early      *)
(* returns and the handlers of other assets do not matter (store.rs,       *)
(* append).                                                                *)
LatestUnlessRaced ==
  \A k \in Key \ raced : \A r \in Logged :
    r.ev.key = k => r.ev.ns <= latest[k].ns

=============================================================================
