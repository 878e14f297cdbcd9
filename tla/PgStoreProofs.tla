--------------------------- MODULE PgStoreProofs ----------------------------
(***************************************************************************)
(* Theorems about ingest over Postgres, for any number of handlers, keys,  *)
(* events, batches and connections.                                        *)
(*                                                                         *)
(* The argument: a transaction about to commit holds the lock of its asset *)
(* row, so the row it staged was computed from the row that is still the   *)
(* committed one (LockOK).  A request number is unique and its rows are    *)
(* stored in order (NumberOK, ProgressOK), so what is acknowledged is      *)
(* stored, and each commit is one Append of the abstract event store.      *)
(***************************************************************************)
EXTENDS PgStore, TLAPS

Busy(w) == pc[w] # "idle"

(* Request numbers are handed out once, and rows carry used numbers.       *)
NumberOK ==
  /\ \A w \in Worker : Busy(w) => rid[w] <= received
  /\ \A v, w \in Worker : Busy(v) /\ Busy(w) /\ rid[v] = rid[w] => v = w
  /\ \A r \in events : r.rid <= received

(* A handler at event i has stored the events before i, and no other.      *)
ProgressOK ==
  \A w \in Worker : Busy(w) =>
    /\ \A i \in 1..(at[w] - 1) : RowOf(rid[w], batch[w], i) \in events
    /\ \A r \in events : r.rid = rid[w] => r.pos < at[w]

(* The lock of an asset row is with the transaction about to commit to it, *)
(* which staged what the upsert makes of the row as it is now.             *)
LockOK ==
  /\ \A w \in Worker : pc[w] = "commit" =>
       /\ lock[Current(w).key] = w
       /\ staged[w] = Upserted(Current(w), assets[Current(w).key])
  /\ \A k \in Key, w \in Worker : lock[k] = w =>
       pc[w] = "commit" /\ Current(w).key = k

(* The row of k shows an event of the history, and none there is newer.    *)
NewestOK ==
  \A k \in Key :
    /\ assets[k] # NoEvent => \E r \in events : r.ev.key = k /\ r.ev = assets[k]
    /\ \A r \in events : r.ev.key = k =>
         assets[k] # NoEvent /\ Micros(r.ev) <= Micros(assets[k])

PgInv ==
  /\ TypeOK
  /\ NumberOK
  /\ ProgressOK
  /\ LockOK
  /\ NewestOK
  /\ AckedIsStored
  /\ StoredIsPrefix

-----------------------------------------------------------------------------
(* A rank is an integer, so any two compare.                               *)
LEMMA MicrosType == \A ev \in Event : Micros(ev) \in Int
BY IngestAssumption, PgAssumption DEF Micros

(* What a busy handler works on.                                           *)
LEMMA BusyTypes ==
  ASSUME TypeOK, NEW w \in Worker, Busy(w)
  PROVE  /\ batch[w] \in Batch /\ batch[w] \in Seq(Event)
         /\ Len(batch[w]) \in Nat /\ Len(batch[w]) <= MaxBatch
         /\ at[w] \in 1..Len(batch[w])
         /\ at[w] \in 1..MaxBatch
         /\ rid[w] \in 1..MaxRequests
         /\ Current(w) \in Event /\ Current(w).key \in Key
         /\ CurrentRow(w) \in Row
         /\ CurrentRow(w).rid = rid[w]
         /\ CurrentRow(w).pos = at[w]
         /\ CurrentRow(w).ev = Current(w)
<1>1. at[w] \in DOMAIN batch[w] /\ rid[w] # 0
  BY DEF TypeOK, IngestTypeOK, Busy
<1>2. batch[w] \in Batch
  BY <1>1 DEF TypeOK, IngestTypeOK
<1>3. batch[w] \in Seq(Event) /\ Len(batch[w]) \in Nat /\ Len(batch[w]) <= MaxBatch
  BY <1>2, IngestAssumption
<1>4. at[w] \in 1..Len(batch[w]) /\ at[w] \in 1..MaxBatch
  BY <1>1, <1>3, IngestAssumption
<1>5. rid[w] \in 1..MaxRequests
  BY <1>1, IngestAssumption DEF TypeOK, IngestTypeOK
<1>6. Current(w) \in Event /\ Current(w).key \in Key
  BY <1>3, <1>4, IngestAssumption DEF Current
<1>7. QED
  BY <1>2, <1>3, <1>4, <1>5, <1>6 DEF CurrentRow, RowOf, Row, Current

(* The invariant holds when the collector starts.                          *)
LEMMA PgInvInit == Init => PgInv
<1> SUFFICES ASSUME Init PROVE PgInv
  OBVIOUS
<1> USE IngestAssumption, PgAssumption DEF Init, IngestInit
<1>1. TypeOK
  BY DEF TypeOK, IngestTypeOK, Control
<1>2. NumberOK /\ ProgressOK /\ LockOK /\ NewestOK
  BY DEF NumberOK, ProgressOK, LockOK, NewestOK, Busy
<1>3. AckedIsStored /\ StoredIsPrefix
  BY DEF AckedIsStored, StoredIsPrefix
<1>4. QED
  BY <1>1, <1>2, <1>3 DEF PgInv

(* A request that is answered at once only uses up a number.               *)
LEMMA AnswerKeepsInv ==
  ASSUME PgInv, NEW w \in Worker, NEW b \in Batch,
         AnswerAtOnce(w, b), UNCHANGED storeVars
  PROVE  PgInv'
<1> USE IngestAssumption, PgAssumption DEF PgInv, AnswerAtOnce, storeVars
<1>1. TypeOK'
  BY DEF TypeOK, IngestTypeOK
<1>2. NumberOK'
  BY BusyTypes DEF NumberOK, Busy, TypeOK, IngestTypeOK, Row
<1>3. ProgressOK'
  BY DEF ProgressOK, Busy
<1>4. LockOK'
  BY DEF LockOK, Current
<1>5. NewestOK' /\ AckedIsStored' /\ StoredIsPrefix'
  BY DEF NewestOK, AckedIsStored, StoredIsPrefix
<1>6. QED
  BY <1>1, <1>2, <1>3, <1>4, <1>5

(* A request enters the loop under a number of its own.                    *)
LEMMA StartKeepsInv ==
  ASSUME PgInv, NEW w \in Worker, NEW b \in Batch,
         StartBatch(w, b, "begin"), UNCHANGED storeVars
  PROVE  PgInv'
<1> USE IngestAssumption, PgAssumption DEF PgInv, storeVars
<1>1. /\ pc[w] = "idle" /\ received < MaxRequests
      /\ received' = received + 1
      /\ pc' = [pc EXCEPT ![w] = "begin"]
      /\ batch' = [batch EXCEPT ![w] = b]
      /\ at' = [at EXCEPT ![w] = 1]
      /\ rid' = [rid EXCEPT ![w] = received + 1]
      /\ acked' = acked
  BY DEF StartBatch
<1>2. /\ b \in Seq(Event) /\ Len(b) \in 1..MaxBatch /\ DOMAIN b = 1..Len(b)
      /\ received \in 0..(MaxRequests - 1)
  BY <1>1 DEF StartBatch, TypeOK, IngestTypeOK
<1>3. TypeOK'
  BY <1>1, <1>2 DEF TypeOK, IngestTypeOK, Control
<1>4. NumberOK'
  <2>1. \A v \in Worker : Busy(v) => rid[v] \in Nat
    BY BusyTypes
  <2>2. \A r \in events : r.rid \in Nat
    BY DEF TypeOK, Row
  <2>3. QED
    BY <1>1, <1>2, <2>1, <2>2 DEF NumberOK, Busy, TypeOK, IngestTypeOK
<1>5. ProgressOK'
  <2> SUFFICES ASSUME NEW v \in Worker, Busy(v)'
               PROVE  /\ \A i \in 1..(at'[v] - 1) :
                           RowOf(rid'[v], batch'[v], i) \in events
                      /\ \A r \in events : r.rid = rid'[v] => r.pos < at'[v]
    BY DEF ProgressOK, RowOf
  <2>1. CASE v = w
    <3>1. at'[v] = 1 /\ rid'[v] = received + 1
      BY <1>1, <2>1 DEF TypeOK, IngestTypeOK
    <3>2. \A r \in events : r.rid # received + 1
      BY <1>2 DEF NumberOK, TypeOK, Row
    <3>3. QED
      BY <3>1, <3>2
  <2>2. CASE v # w
    BY <1>1, <2>2 DEF ProgressOK, Busy, TypeOK, IngestTypeOK
  <2>3. QED
    BY <2>1, <2>2
<1>6. LockOK'
  <2>1. \A v \in Worker : pc[v] = "commit" \/ pc'[v] = "commit" =>
          /\ pc'[v] = pc[v] /\ Current(v)' = Current(v)
    BY <1>1 DEF Current, TypeOK, IngestTypeOK
  <2>2. QED
    BY <2>1 DEF LockOK
<1>7. NewestOK' /\ AckedIsStored' /\ StoredIsPrefix'
  BY <1>1 DEF NewestOK, AckedIsStored, StoredIsPrefix
<1>8. QED
  BY <1>3, <1>4, <1>5, <1>6, <1>7

(* Steps inside the transaction change nothing others see.                 *)
LEMMA InnerStepKeepsInv ==
  ASSUME PgInv, NEW w \in Worker, Begin(w) \/ InsertEvent(w)
  PROVE  PgInv'
<1> USE IngestAssumption, PgAssumption DEF PgInv, storeVars
<1>1. PICK label \in {"insert", "upsert"} :
        /\ pc[w] \in {"begin", "insert"}
        /\ pc' = [pc EXCEPT ![w] = label]
        /\ UNCHANGED <<batch, at, rid, received, acked, storeVars>>
  BY DEF Begin, InsertEvent
<1>2. \A v \in Worker : Busy(v)' = Busy(v) /\ Current(v)' = Current(v)
  BY <1>1 DEF Busy, Current, TypeOK, IngestTypeOK
<1>3. TypeOK'
  BY <1>1 DEF TypeOK, IngestTypeOK, Control
<1>4. NumberOK' /\ ProgressOK'
  BY <1>1, <1>2 DEF NumberOK, ProgressOK
<1>5. LockOK'
  <2>1. \A v \in Worker : pc[v] = "commit" <=> pc'[v] = "commit"
    BY <1>1 DEF TypeOK, IngestTypeOK
  <2>2. QED
    BY <1>1, <1>2, <2>1 DEF LockOK
<1>6. NewestOK' /\ AckedIsStored' /\ StoredIsPrefix'
  BY <1>1 DEF NewestOK, AckedIsStored, StoredIsPrefix
<1>7. QED
  BY <1>3, <1>4, <1>5, <1>6

(* The upsert locks a free row and stages what it makes of it.             *)
LEMMA UpsertKeepsInv ==
  ASSUME PgInv, NEW w \in Worker, UpsertAsset(w)
  PROVE  PgInv'
<1> USE IngestAssumption, PgAssumption DEF PgInv
<1> DEFINE ev == Current(w)
<1>1. /\ pc[w] = "upsert"
      /\ lock[ev.key] = NoWorker
      /\ lock' = [lock EXCEPT ![ev.key] = w]
      /\ staged' = [staged EXCEPT ![w] = Upserted(ev, assets[ev.key])]
      /\ pc' = [pc EXCEPT ![w] = "commit"]
      /\ UNCHANGED <<batch, at, rid, received, acked, events, assets>>
  BY DEF UpsertAsset
<1>2. ev \in Event /\ ev.key \in Key
  BY <1>1, BusyTypes DEF Busy
<1>3. \A v \in Worker : Busy(v)' = Busy(v) /\ Current(v)' = Current(v)
  BY <1>1 DEF Busy, Current, TypeOK, IngestTypeOK
<1>4. Current(w) = ev
  OBVIOUS
<1> HIDE DEF ev
<1>5. TypeOK'
  BY <1>1, <1>2 DEF TypeOK, IngestTypeOK, Control, Upserted
<1>6. NumberOK' /\ ProgressOK'
  BY <1>1, <1>3 DEF NumberOK, ProgressOK
<1>7. LockOK'
  <2>1. ASSUME NEW v \in Worker, pc'[v] = "commit"
        PROVE  /\ lock'[Current(v)'.key] = v
               /\ staged'[v] = Upserted(Current(v)', assets[Current(v)'.key])
    <3>1. CASE v = w
      BY <1>1, <1>2, <1>3, <1>4, <3>1 DEF TypeOK
    <3>2. CASE v # w
      <4>1. pc[v] = "commit"
        BY <1>1, <2>1, <3>2 DEF TypeOK, IngestTypeOK
      <4>2. /\ lock[Current(v).key] = v
            /\ staged[v] = Upserted(Current(v), assets[Current(v).key])
            /\ Current(v).key \in Key
        BY <4>1, BusyTypes DEF LockOK, Busy
      <4>3. Current(v).key # ev.key
        BY <4>2, <1>1
      <4>4. QED
        BY <1>1, <1>2, <1>3, <3>2, <4>2, <4>3 DEF TypeOK
    <3>3. QED
      BY <3>1, <3>2
  <2>2. ASSUME NEW k \in Key, NEW v \in Worker, lock'[k] = v
        PROVE  pc'[v] = "commit" /\ Current(v)'.key = k
    <3>1. CASE k = ev.key
      <4>1. v = w
        BY <1>1, <1>2, <2>2, <3>1 DEF TypeOK
      <4>2. QED
        BY <1>1, <1>3, <1>4, <3>1, <4>1 DEF TypeOK, IngestTypeOK
    <3>2. CASE k # ev.key
      <4>1. lock[k] = v
        BY <1>1, <1>2, <2>2, <3>2 DEF TypeOK
      <4>2. pc[v] = "commit" /\ Current(v).key = k
        BY <4>1 DEF LockOK
      <4>3. QED
        BY <1>1, <1>3, <4>2 DEF TypeOK, IngestTypeOK
    <3>3. QED
      BY <3>1, <3>2
  <2>3. QED
    BY <1>1, <2>1, <2>2 DEF LockOK, Upserted
<1>8. NewestOK' /\ AckedIsStored' /\ StoredIsPrefix'
  BY <1>1 DEF NewestOK, AckedIsStored, StoredIsPrefix
<1>9. QED
  BY <1>5, <1>6, <1>7, <1>8

(* What a commit makes durable is one more row, the upsert of the row that *)
(* is committed at that moment, and a store that is still in order.        *)
LEMMA DurableAppends ==
  ASSUME PgInv, NEW w \in Worker, pc[w] = "commit", Durable(w)
  PROVE  /\ CurrentRow(w) \notin events
         /\ events' = events \union {CurrentRow(w)}
         /\ assets' = [assets EXCEPT ![Current(w).key] =
                         Upserted(Current(w), assets[Current(w).key])]
         /\ events' \subseteq Row
         /\ assets' \in [Key -> Event \union {NoEvent}]
         /\ NewestOK'
         /\ StoredIsPrefix'
         /\ AckedIsStored
<1> USE DEF PgInv
<1> DEFINE ev == Current(w)
           row == CurrentRow(w)
<1>1. /\ ev \in Event /\ ev.key \in Key /\ row \in Row
      /\ row.rid = rid[w] /\ row.pos = at[w] /\ row.ev = ev
      /\ at[w] \in 1..MaxBatch
  BY BusyTypes DEF Busy
<1>2. row \notin events
  <2>1. \A r \in events : r.rid = rid[w] => r.pos < at[w]
    BY DEF ProgressOK, Busy
  <2>2. QED
    BY <1>1, <2>1
<1>3. events' = events \union {row} /\ events' \subseteq Row
  BY <1>1 DEF Durable, TypeOK
<1>4. assets' = [assets EXCEPT ![ev.key] = Upserted(ev, assets[ev.key])]
  BY DEF Durable, LockOK
<1>5. assets' \in [Key -> Event \union {NoEvent}]
  BY <1>1, <1>4 DEF TypeOK, Upserted
<1>6. StoredIsPrefix'
  <2> SUFFICES ASSUME NEW r \in events', NEW p \in 1..(r.pos - 1)
               PROVE  \E q \in events' : q.rid = r.rid /\ q.pos = p
    BY DEF StoredIsPrefix
  <2>1. CASE r \in events
    BY <1>3, <2>1 DEF StoredIsPrefix
  <2>2. CASE r = row
    <3>1. p \in 1..(at[w] - 1)
      BY <1>1, <2>2
    <3>2. RowOf(rid[w], batch[w], p) \in events
      BY <3>1 DEF ProgressOK, Busy
    <3>3. QED
      BY <1>1, <1>3, <2>2, <3>2 DEF RowOf
  <2>3. QED
    BY <1>3, <2>1, <2>2
<1> HIDE DEF ev, row
<1>7. NewestOK'
  <2> SUFFICES ASSUME NEW k \in Key
               PROVE  /\ assets'[k] # NoEvent =>
                           \E r \in events' : r.ev.key = k /\ r.ev = assets'[k]
                      /\ \A r \in events' : r.ev.key = k =>
                           /\ assets'[k] # NoEvent
                           /\ Micros(r.ev) <= Micros(assets'[k])
    BY DEF NewestOK, Micros
  <2>1. CASE k # ev.key
    <3>1. assets'[k] = assets[k]
      BY <1>1, <1>4, <2>1 DEF TypeOK
    <3>2. QED
      BY <1>1, <1>3, <2>1, <3>1 DEF NewestOK
  <2>2. CASE k = ev.key
    <3>1. assets'[k] = IF assets[k] = NoEvent \/ Micros(assets[k]) <= Micros(ev)
                       THEN ev ELSE assets[k]
      BY <1>1, <1>4, <2>2 DEF TypeOK, Upserted
    <3>2. ev # NoEvent /\ Micros(ev) \in Int
      BY <1>1, MicrosType, IngestAssumption
    <3>3. assets[k] # NoEvent => Micros(assets[k]) \in Int
      BY MicrosType DEF TypeOK
    <3>4. \A r \in events : Micros(r.ev) \in Int
      BY MicrosType DEF TypeOK, Row
    <3>5. CASE assets'[k] = ev
      <4>1. \A r \in events : r.ev.key = k => Micros(r.ev) <= Micros(ev)
        BY <3>1, <3>2, <3>3, <3>4, <3>5 DEF NewestOK
      <4>2. QED
        BY <1>1, <1>3, <2>2, <3>2, <3>5, <4>1
    <3>6. CASE assets[k] # NoEvent /\ ~(Micros(assets[k]) <= Micros(ev))
      <4>1. assets'[k] = assets[k] /\ Micros(ev) <= Micros(assets[k])
        BY <3>1, <3>2, <3>3, <3>6
      <4>2. QED
        BY <1>1, <1>3, <3>6, <4>1 DEF NewestOK
    <3>7. QED
      BY <3>1, <3>5, <3>6
  <2>3. QED
    BY <2>1, <2>2
<1>8. QED
  BY <1>2, <1>3, <1>4, <1>5, <1>6, <1>7 DEF ev, row

(* Transactions that end free their locks and no other, and what they      *)
(* committed is no business of the transactions that hold other rows.      *)
LEMMA UnlockKeepsLocks ==
  ASSUME PgInv, NEW W \in SUBSET Worker, Unlock(W),
         \A v \in Worker \ W : pc'[v] = pc[v] /\ Current(v)' = Current(v),
         \A v \in W : pc'[v] # "commit",
         \A k \in Key : lock[k] \notin W => assets'[k] = assets[k]
  PROVE  /\ LockOK'
         /\ lock' \in [Key -> Worker \union {NoWorker}]
         /\ staged' \in [Worker -> Event \union {NoEvent}]
<1> USE PgAssumption DEF PgInv
<1>1. /\ lock' = [k \in Key |-> IF lock[k] \in W THEN NoWorker ELSE lock[k]]
      /\ staged' = [w \in Worker |-> IF w \in W THEN NoEvent ELSE staged[w]]
  BY DEF Unlock
<1>2. ASSUME NEW v \in Worker, pc'[v] = "commit"
      PROVE  /\ lock'[Current(v)'.key] = v
             /\ staged'[v] = Upserted(Current(v)', assets'[Current(v)'.key])
  <2>1. v \notin W /\ pc[v] = "commit" /\ Current(v)' = Current(v)
    BY <1>2
  <2>2. /\ lock[Current(v).key] = v
        /\ staged[v] = Upserted(Current(v), assets[Current(v).key])
        /\ Current(v).key \in Key
    BY <2>1, BusyTypes DEF LockOK, Busy
  <2>3. assets'[Current(v).key] = assets[Current(v).key]
    BY <2>1, <2>2
  <2>4. QED
    BY <1>1, <2>1, <2>2, <2>3
<1>3. ASSUME NEW k \in Key, NEW v \in Worker, lock'[k] = v
      PROVE  pc'[v] = "commit" /\ Current(v)'.key = k
  <2>1. lock[k] = v /\ v \notin W
    BY <1>1, <1>3
  <2>2. QED
    BY <2>1 DEF LockOK
<1>4. LockOK'
  BY <1>2, <1>3 DEF LockOK, Upserted, Micros
<1>5. QED
  BY <1>1, <1>4 DEF TypeOK

(* Handlers that leave their request are idle; the others stay as they     *)
(* were.                                                                   *)
LEMMA ReleaseTypes ==
  ASSUME TypeOK, NEW W \in SUBSET Worker, Release(W)
  PROVE  /\ pc' \in [Worker -> Control]
         /\ batch' \in [Worker -> Batch \union {<< >>}]
         /\ at' \in [Worker -> 0..MaxBatch]
         /\ rid' \in [Worker -> 0..MaxRequests]
         /\ \A v \in W : pc'[v] = "idle"
         /\ \A v \in Worker \ W : /\ pc'[v] = pc[v] /\ batch'[v] = batch[v]
                                  /\ at'[v] = at[v] /\ rid'[v] = rid[v]
                                  /\ Current(v)' = Current(v)
BY IngestAssumption DEF Release, TypeOK, IngestTypeOK, Control, Current

(* The requests that go on keep their numbers and their progress, whatever *)
(* rows those that end have added under their own.                         *)
LEMMA LeaveKeepsProgress ==
  ASSUME PgInv, NEW W \in SUBSET Worker, Release(W), received' = received,
         events \subseteq events',
         \A r \in events' \ events : \E w \in W : Busy(w) /\ r.rid = rid[w]
  PROVE  NumberOK' /\ ProgressOK'
<1> USE DEF PgInv
<1>1. ASSUME NEW v \in Worker, Busy(v)'
      PROVE  /\ v \notin W /\ Busy(v)
             /\ rid'[v] = rid[v] /\ batch'[v] = batch[v] /\ at'[v] = at[v]
  BY <1>1, ReleaseTypes DEF Busy
<1>2. NumberOK'
  BY <1>1 DEF NumberOK
<1>3. ProgressOK'
  <2> SUFFICES ASSUME NEW v \in Worker, Busy(v)'
               PROVE  /\ \A i \in 1..(at[v] - 1) :
                           RowOf(rid[v], batch[v], i) \in events'
                      /\ \A r \in events' : r.rid = rid[v] => r.pos < at[v]
    BY <1>1 DEF ProgressOK, RowOf
  <2>1. v \notin W /\ Busy(v)
    BY <1>1
  <2>2. \A r \in events' : r.rid = rid[v] => r \in events
    BY <2>1 DEF NumberOK
  <2>3. QED
    BY <2>1, <2>2 DEF ProgressOK
<1>4. QED
  BY <1>2, <1>3

(* Handlers that give up, with or without a crash of the collector, leave  *)
(* the tables as they are.                                                 *)
LEMMA AbandonKeepsInv ==
  ASSUME PgInv, NEW W \in SUBSET Worker,
         Unlock(W), Abandon(W), UNCHANGED <<events, assets>>
  PROVE  PgInv'
<1> USE IngestAssumption, ReleaseTypes, UnlockKeepsLocks DEF PgInv, Abandon
<1>1. LockOK' /\ lock' \in [Key -> Worker \union {NoWorker}]
      /\ staged' \in [Worker -> Event \union {NoEvent}]
  OBVIOUS
<1>2. TypeOK'
  BY <1>1 DEF TypeOK, IngestTypeOK
<1>3. NumberOK' /\ ProgressOK'
  BY LeaveKeepsProgress
<1>4. NewestOK' /\ AckedIsStored' /\ StoredIsPrefix'
  BY DEF NewestOK, AckedIsStored, StoredIsPrefix
<1>5. QED
  BY <1>1, <1>2, <1>3, <1>4

(* A commit whose answer is lost stores the event and ends the request.    *)
LEMMA LostAnswerKeepsInv ==
  ASSUME PgInv, NEW w \in Worker, CommitAnswerLost(w)
  PROVE  PgInv'
<1> USE IngestAssumption, BusyTypes DEF PgInv
<1>1. pc[w] = "commit" /\ Durable(w) /\ Unlock({w}) /\ Abandon({w})
  BY DEF CommitAnswerLost
<1> USE <1>1
<1>2. /\ CurrentRow(w) \in Row /\ CurrentRow(w).rid = rid[w]
      /\ Current(w).key \in Key /\ Busy(w)
  BY DEF Busy
<1>3. /\ events' = events \union {CurrentRow(w)} /\ events' \subseteq Row
      /\ assets' \in [Key -> Event \union {NoEvent}]
      /\ \A k \in Key : k # Current(w).key => assets'[k] = assets[k]
      /\ NewestOK' /\ StoredIsPrefix'
  BY DurableAppends DEF TypeOK
<1>4. lock[Current(w).key] = w
  BY DEF LockOK
<1>5. LockOK' /\ lock' \in [Key -> Worker \union {NoWorker}]
      /\ staged' \in [Worker -> Event \union {NoEvent}]
  BY <1>3, <1>4, ReleaseTypes, UnlockKeepsLocks DEF Abandon
<1>6. TypeOK'
  BY <1>3, <1>5, ReleaseTypes DEF Abandon, TypeOK, IngestTypeOK
<1>7. NumberOK' /\ ProgressOK'
  BY <1>2, <1>3, LeaveKeepsProgress DEF Abandon
<1>8. AckedIsStored'
  BY <1>3 DEF Abandon, AckedIsStored
<1>9. QED
  BY <1>3, <1>5, <1>6, <1>7, <1>8

(* A commit stores the event and goes on to the next, or answers 2xx with  *)
(* the whole batch stored.                                                 *)
LEMMA CommitKeepsInv ==
  ASSUME PgInv, NEW w \in Worker, Commit(w)
  PROVE  PgInv'
<1> USE IngestAssumption DEF PgInv
<1>1. pc[w] = "commit" /\ Durable(w) /\ Unlock({w}) /\ Advance(w, "begin")
  BY DEF Commit
<1> USE <1>1
<1>2. /\ CurrentRow(w) \in Row /\ CurrentRow(w).rid = rid[w]
      /\ CurrentRow(w).pos = at[w] /\ CurrentRow(w) = RowOf(rid[w], batch[w], at[w])
      /\ Current(w).key \in Key /\ Busy(w)
      /\ batch[w] \in Batch /\ DOMAIN batch[w] = 1..Len(batch[w])
      /\ Len(batch[w]) \in Nat /\ Len(batch[w]) <= MaxBatch
      /\ at[w] \in 1..Len(batch[w]) /\ rid[w] \in 1..MaxRequests
  BY BusyTypes DEF Busy, CurrentRow
<1>3. /\ events' = events \union {CurrentRow(w)} /\ events' \subseteq Row
      /\ assets' \in [Key -> Event \union {NoEvent}]
      /\ \A k \in Key : k # Current(w).key => assets'[k] = assets[k]
      /\ NewestOK' /\ StoredIsPrefix'
  BY DurableAppends, <1>2 DEF TypeOK
<1>4. lock[Current(w).key] = w
  BY DEF LockOK
<1>5. \A i \in 1..at[w] : RowOf(rid[w], batch[w], i) \in events'
  BY <1>2, <1>3 DEF ProgressOK
<1>6. CASE /\ at[w] < Len(batch[w])
           /\ pc' = [pc EXCEPT ![w] = "begin"]
           /\ at' = [at EXCEPT ![w] = @ + 1]
           /\ UNCHANGED <<batch, rid, received, acked>>
  <2>1. \A v \in Worker \ {w} : /\ pc'[v] = pc[v] /\ at'[v] = at[v]
                                /\ Current(v)' = Current(v)
    BY <1>6 DEF Current, TypeOK, IngestTypeOK
  <2>2. pc'[w] = "begin" /\ at'[w] = at[w] + 1 /\ at'[w] \in 1..Len(batch[w])
    BY <1>2, <1>6 DEF TypeOK, IngestTypeOK
  <2>3. LockOK' /\ lock' \in [Key -> Worker \union {NoWorker}]
        /\ staged' \in [Worker -> Event \union {NoEvent}]
    BY <1>3, <1>4, <2>1, <2>2, UnlockKeepsLocks
  <2>4. TypeOK'
    <3>1. /\ pc' \in [Worker -> Control] /\ at' \in [Worker -> 0..MaxBatch]
      BY <1>2, <1>6, <2>2 DEF TypeOK, IngestTypeOK, Control
    <3>2. \A v \in Worker : pc'[v] # "idle" => at'[v] \in DOMAIN batch[v] /\ rid[v] # 0
      BY <1>2, <2>1, <2>2 DEF TypeOK, IngestTypeOK
    <3>3. QED
      BY <1>3, <1>6, <2>3, <3>1, <3>2 DEF TypeOK, IngestTypeOK
  <2>5. NumberOK'
    <3>1. \A v \in Worker : Busy(v)' = Busy(v)
      BY <1>2, <2>1, <2>2 DEF Busy
    <3>2. \A r \in events' : r.rid <= received
      BY <1>2, <1>3 DEF NumberOK
    <3>3. QED
      BY <1>6, <3>1, <3>2 DEF NumberOK
  <2>6. ProgressOK'
    <3> SUFFICES ASSUME NEW v \in Worker, Busy(v)'
                 PROVE  /\ \A i \in 1..(at'[v] - 1) :
                             RowOf(rid[v], batch[v], i) \in events'
                        /\ \A r \in events' : r.rid = rid[v] => r.pos < at'[v]
      BY <1>6 DEF ProgressOK, RowOf
    <3>1. CASE v = w
      <4>1. 1..(at'[v] - 1) = 1..at[w]
        BY <1>2, <2>2, <3>1
      <4>2. \A r \in events : r.rid = rid[w] => r.pos < at[w]
        BY <1>2 DEF ProgressOK
      <4>3. \A r \in events : r.pos \in Nat
        BY DEF TypeOK, Row
      <4>4. QED
        BY <1>2, <1>3, <1>5, <2>2, <3>1, <4>1, <4>2, <4>3
    <3>2. CASE v # w
      <4>1. Busy(v) /\ rid[v] # rid[w]
        BY <1>2, <2>1, <3>2 DEF Busy, NumberOK
      <4>2. QED
        BY <1>2, <1>3, <2>1, <3>2, <4>1 DEF ProgressOK
    <3>3. QED
      BY <3>1, <3>2
  <2>7. AckedIsStored'
    BY <1>3, <1>6 DEF AckedIsStored
  <2>8. QED
    BY <1>3, <2>3, <2>4, <2>5, <2>6, <2>7
<1>7. CASE /\ at[w] = Len(batch[w])
           /\ acked' = acked \union {[rid |-> rid[w], batch |-> batch[w]]}
           /\ Release({w})
           /\ UNCHANGED received
  <2>1. LockOK' /\ lock' \in [Key -> Worker \union {NoWorker}]
        /\ staged' \in [Worker -> Event \union {NoEvent}]
    BY <1>3, <1>4, <1>7, ReleaseTypes, UnlockKeepsLocks
  <2>2. acked' \subseteq [rid : 1..MaxRequests, batch : Batch]
    BY <1>2, <1>7 DEF TypeOK, IngestTypeOK
  <2>3. TypeOK'
    BY <1>3, <1>7, <2>1, <2>2, ReleaseTypes DEF TypeOK, IngestTypeOK
  <2>4. NumberOK' /\ ProgressOK'
    BY <1>2, <1>3, <1>7, LeaveKeepsProgress
  <2>5. AckedIsStored'
    <3> SUFFICES ASSUME NEW a \in acked', NEW i \in DOMAIN a.batch
                 PROVE  RowOf(a.rid, a.batch, i) \in events'
      BY DEF AckedIsStored, RowOf
    <3>1. CASE a \in acked
      BY <1>3, <3>1 DEF AckedIsStored
    <3>2. CASE a = [rid |-> rid[w], batch |-> batch[w]]
      BY <1>2, <1>5, <1>7, <3>2
    <3>3. QED
      BY <1>7, <3>1, <3>2
  <2>6. QED
    BY <1>3, <2>1, <2>3, <2>4, <2>5
<1>8. QED
  BY <1>6, <1>7 DEF Advance

(* Every step keeps the invariant.                                         *)
LEMMA PgInvNext == PgInv /\ [Next]_vars => PgInv'
<1> SUFFICES ASSUME PgInv, [Next]_vars PROVE PgInv'
  OBVIOUS
<1>1. ASSUME NEW w \in Worker, NEW b \in Batch, Receive(w, b) PROVE PgInv'
  BY <1>1, AnswerKeepsInv, StartKeepsInv DEF Receive
<1>2. ASSUME NEW w \in Worker, Step(w) PROVE PgInv'
  BY <1>2, InnerStepKeepsInv, UpsertKeepsInv, CommitKeepsInv DEF Step
<1>3. ASSUME NEW w \in Worker, CommitAnswerLost(w) PROVE PgInv'
  BY <1>3, LostAnswerKeepsInv
<1>4. ASSUME NEW w \in Worker, Fail(w) PROVE PgInv'
  BY <1>4, AbandonKeepsInv DEF Fail
<1>5. ASSUME Restart PROVE PgInv'
  BY <1>5, AbandonKeepsInv DEF Restart
<1>6. ASSUME UNCHANGED vars PROVE PgInv'
  BY <1>6 DEF vars, ingestVars, PgInv, TypeOK, IngestTypeOK, NumberOK, ProgressOK,
              LockOK, NewestOK, AckedIsStored, StoredIsPrefix, Busy, Current,
              RowOf, Upserted, Micros
<1>7. QED
  BY <1>1, <1>2, <1>3, <1>4, <1>5, <1>6 DEF Next

-----------------------------------------------------------------------------
(* The invariant holds throughout.                                         *)
LEMMA PgInvariant == Spec => []PgInv
BY PgInvInit, PgInvNext, PTL DEF Spec

(* The handlers and the tables keep their types: among them, a handler in  *)
(* the loop always stands on an event of its batch (routes.rs, ingest).    *)
THEOREM PgTypes == Spec => []TypeOK
<1>1. PgInv => TypeOK
  BY DEF PgInv
<1>2. QED
  BY <1>1, PgInvariant, PTL

(* The inventory shows the newest event of each asset, whichever           *)
(* transactions overlap or fail (store_pg.rs, append).                     *)
THEOREM PgLatestIsNewest == Spec => []LatestIsNewest
<1>1. PgInv => LatestIsNewest
  <2> SUFFICES ASSUME PgInv, NEW k \in Key PROVE LatestIsNewest!(k)
    BY DEF LatestIsNewest
  <2> DEFINE seen == {r.ev : r \in {x \in events : x.ev.key = k}}
  <2>1. CASE seen = {}
    <3>1. assets[k] = NoEvent
      BY <2>1 DEF PgInv, NewestOK
    <3>2. QED
      BY <2>1, <3>1
  <2>2. CASE seen # {}
    <3>1. assets[k] \in seen /\ \A ev \in seen : Micros(ev) <= Micros(assets[k])
      BY <2>2 DEF PgInv, NewestOK
    <3>2. QED
      BY <2>2, <3>1
  <2>3. QED
    BY <2>1, <2>2
<1>2. QED
  BY <1>1, PgInvariant, PTL

(* What was answered 2xx is stored (routes.rs, ingest).                    *)
THEOREM PgAckedIsStored == Spec => []AckedIsStored
<1>1. PgInv => AckedIsStored
  BY DEF PgInv
<1>2. QED
  BY <1>1, PgInvariant, PTL

(* A batch that stops half way leaves a prefix (routes.rs, ingest).        *)
THEOREM PgStoredIsPrefix == Spec => []StoredIsPrefix
<1>1. PgInv => StoredIsPrefix
  BY DEF PgInv
<1>2. QED
  BY <1>1, PgInvariant, PTL

-----------------------------------------------------------------------------
(* A commit is an append of the abstract event store.                      *)
LEMMA DurableIsAppend ==
  ASSUME PgInv, NEW w \in Worker, pc[w] = "commit", Durable(w)
  PROVE  Abstract!Next
<1>1. CurrentRow(w) \in Row /\ CurrentRow(w).ev = Current(w) /\ Current(w).key \in Key
  BY BusyTypes DEF PgInv, Busy
<1>2. assets' = [assets EXCEPT ![Current(w).key] =
                   IF Abstract!Supersedes(Current(w), @) THEN Current(w) ELSE @]
  BY DurableAppends DEF Upserted, Abstract!Supersedes
<1>3. Abstract!Append(CurrentRow(w))
  BY <1>1, <1>2, DurableAppends DEF Abstract!Append
<1>4. QED
  BY <1>1, <1>3 DEF Abstract!Next

(* Ingest over Postgres implements the abstract event store: an append is  *)
(* one indivisible step, whatever goes on around it (store.rs, trait       *)
(* EventStore; store_pg.rs, append).                                       *)
THEOREM PgRefines == Spec => Refines
<1>1. Init => Abstract!Init
  BY DEF Init, Abstract!Init
<1>2. PgInv /\ [Next]_vars => [Abstract!Next]_(Abstract!vars)
  <2> SUFFICES ASSUME PgInv, [Next]_vars, ~UNCHANGED <<events, assets>>
               PROVE  Abstract!Next
    BY DEF Abstract!vars
  <2>1. PICK w \in Worker : Commit(w) \/ CommitAnswerLost(w)
    BY DEF Next, vars, Receive, storeVars, Step, Begin, InsertEvent, UpsertAsset,
           Fail, Restart
  <2>2. QED
    BY <2>1, DurableIsAppend DEF Commit, CommitAnswerLost
<1>3. QED
  BY <1>1, <1>2, PgInvariant, PTL DEF Spec, Refines, Abstract!Spec

=============================================================================
