--------------------------- MODULE MemStoreProofs ---------------------------
(***************************************************************************)
(* Theorems about ingest over the in-memory store, for any number of       *)
(* handlers, assets, events and batches.                                   *)
(*                                                                         *)
(* A handler pushes the rows of its request one after the other and no     *)
(* other handler has its number (NumberOK, ProgressOK, OrderOK).  The map  *)
(* is decided on at the lookup and written at the insert: as long as no    *)
(* entry changed in between, an asset's entry only gets newer, and it is   *)
(* there, and new enough, before the handler pushes (PushOK, LookedOK).    *)
(***************************************************************************)
EXTENDS MemStore, TLAPS

Busy(w) == pc[w] # "idle"

(* Request numbers are handed out once, and rows carry used numbers.       *)
NumberOK ==
  /\ \A w \in Worker : Busy(w) => rid[w] <= received
  /\ \A v, w \in Worker : Busy(v) /\ Busy(w) /\ rid[v] = rid[w] => v = w
  /\ \A r \in Logged : r.rid <= received
  /\ \A a \in acked : /\ a.rid <= received
                      /\ \A w \in Worker : Busy(w) => rid[w] # a.rid

(* A handler at event i has logged the events before i, and no other.      *)
ProgressOK ==
  \A w \in Worker : Busy(w) =>
    /\ \A i \in 1..(at[w] - 1) : RowOf(rid[w], batch[w], i) \in Logged
    /\ \A r \in Logged : r.rid = rid[w] => r.pos < at[w] /\ r.ev = batch[w][r.pos]

(* The rows of a request are in the order of its batch.                    *)
OrderOK ==
  \A i, j \in DOMAIN log :
    i < j /\ log[i].rid = log[j].rid => log[i].pos < log[j].pos

(* An event about to be logged has its asset in the map, and without a     *)
(* race not as an older one.                                               *)
PushOK ==
  \A w \in Worker : pc[w] = "push" =>
    /\ latest[Current(w).key] # NoEvent
    /\ Current(w).key \notin raced => Current(w).ns <= latest[Current(w).key].ns

(* An event about to be inserted is not older than what its lookup found.  *)
LookedOK ==
  \A w \in Worker : pc[w] = "insert" /\ looked[w] # NoEvent =>
    looked[w].ns <= Current(w).ns

MemInv ==
  /\ TypeOK
  /\ NumberOK
  /\ ProgressOK
  /\ OrderOK
  /\ AckedIsLoggedInOrder
  /\ PushOK
  /\ LookedOK
  /\ ShownIsLogged
  /\ LatestUnlessRaced

-----------------------------------------------------------------------------
(* What a busy handler works on.                                           *)
LEMMA BusyTypes ==
  ASSUME TypeOK, NEW w \in Worker, Busy(w)
  PROVE  /\ batch[w] \in Batch /\ batch[w] \in Seq(Event)
         /\ Len(batch[w]) \in Nat /\ Len(batch[w]) <= MaxBatch
         /\ at[w] \in 1..Len(batch[w]) /\ at[w] \in 1..MaxBatch
         /\ rid[w] \in 1..MaxRequests
         /\ Current(w) \in Event /\ Current(w).key \in Key /\ Current(w).ns \in Nat
         /\ CurrentRow(w) \in Row
         /\ CurrentRow(w).rid = rid[w]
         /\ CurrentRow(w).pos = at[w]
         /\ CurrentRow(w).ev = Current(w)
<1>1. at[w] \in DOMAIN batch[w] /\ rid[w] # 0
  BY DEF TypeOK, IngestTypeOK, Busy
<1>2. batch[w] \in Batch
  BY <1>1 DEF TypeOK, IngestTypeOK
<1>3. batch[w] \in Seq(Event) /\ Len(batch[w]) \in Nat /\ Len(batch[w]) <= MaxBatch
  BY <1>2, IngestAssumption
<1>4. at[w] \in 1..Len(batch[w]) /\ at[w] \in 1..MaxBatch
  BY <1>1, <1>3, IngestAssumption
<1>5. rid[w] \in 1..MaxRequests
  BY <1>1, IngestAssumption DEF TypeOK, IngestTypeOK
<1>6. Current(w) \in Event
  BY <1>3, <1>4 DEF Current
<1>7. QED
  BY <1>2, <1>3, <1>4, <1>5, <1>6, IngestAssumption DEF CurrentRow, RowOf, Row, Current

(* The log holds rows.                                                     *)
LEMMA LoggedRows ==
  ASSUME TypeOK
  PROVE  /\ \A i \in DOMAIN log : log[i] \in Row
         /\ \A r \in Logged : r \in Row
         /\ \A r \in Row : r.rid \in Nat /\ r.pos \in Nat /\ r.ev \in Event
<1>1. \A i \in DOMAIN log : log[i] \in Row
  BY DEF TypeOK
<1>2. \A r \in Logged : r \in Row
  BY <1>1 DEF Logged, Range
<1>3. \A r \in Row : r.rid \in Nat /\ r.pos \in Nat /\ r.ev \in Event
  BY DEF Row
<1>4. QED
  BY <1>1, <1>2, <1>3

(* A push adds one row at the end.                                         *)
LEMMA AppendedLog ==
  ASSUME log \in Seq(Row), NEW x \in Row, log' = Append(log, x)
  PROVE  /\ log' \in Seq(Row)
         /\ Len(log) \in Nat
         /\ DOMAIN log = 1..Len(log)
         /\ DOMAIN log' = 1..(Len(log) + 1)
         /\ \A i \in 1..Len(log) : log'[i] = log[i]
         /\ log'[Len(log) + 1] = x
         /\ Logged' = Logged \union {x}
<1>1. /\ log' \in Seq(Row) /\ Len(log) \in Nat /\ DOMAIN log = 1..Len(log)
      /\ DOMAIN log' = 1..(Len(log) + 1)
      /\ \A i \in 1..Len(log) : log'[i] = log[i]
      /\ log'[Len(log) + 1] = x
  OBVIOUS
<1>2. Logged' = Logged \union {x}
  BY <1>1 DEF Logged, Range
<1>3. QED
  BY <1>1, <1>2

(* The store starts out empty.                                             *)
LEMMA MemInvInit == Init => MemInv
<1> SUFFICES ASSUME Init PROVE MemInv
  OBVIOUS
<1> USE IngestAssumption DEF Init, IngestInit
<1>1. TypeOK
  BY DEF TypeOK, IngestTypeOK, Control
<1>2. Logged = {} /\ DOMAIN log = {}
  BY DEF Logged, Range
<1>3. NumberOK /\ ProgressOK /\ OrderOK /\ AckedIsLoggedInOrder
  BY <1>2 DEF NumberOK, ProgressOK, OrderOK, AckedIsLoggedInOrder, Busy
<1>4. PushOK /\ LookedOK /\ ShownIsLogged /\ LatestUnlessRaced
  BY <1>2 DEF PushOK, LookedOK, ShownIsLogged, LatestUnlessRaced
<1>5. QED
  BY <1>1, <1>3, <1>4 DEF MemInv

(* A request that never reaches the store.                                 *)
LEMMA AnswerKeepsInv ==
  ASSUME MemInv, NEW w \in Worker, NEW b \in Batch, AnswerAtOnce(w, b),
         UNCHANGED <<latest, log, looked, raced>>
  PROVE  MemInv'
<1> USE IngestAssumption DEF MemInv, AnswerAtOnce
<1>1. received \in Nat /\ received' = received + 1 /\ received' \in 0..MaxRequests
  BY DEF TypeOK, IngestTypeOK
<1>2. TypeOK'
  BY <1>1 DEF TypeOK, IngestTypeOK
<1>3. Logged' = Logged
  BY DEF Logged
<1>4. NumberOK'
  <2>1. \A r \in Logged : r.rid \in Nat
    BY LoggedRows
  <2>2. \A v \in Worker : rid[v] \in Nat
    BY DEF TypeOK, IngestTypeOK
  <2>3. \A a \in acked : a.rid \in Nat
    BY DEF TypeOK, IngestTypeOK
  <2>4. QED
    BY <1>1, <1>3, <2>1, <2>2, <2>3 DEF NumberOK, Busy
<1>5. ProgressOK' /\ OrderOK' /\ AckedIsLoggedInOrder'
  BY <1>3 DEF ProgressOK, OrderOK, AckedIsLoggedInOrder, Busy
<1>6. PushOK' /\ LookedOK' /\ ShownIsLogged' /\ LatestUnlessRaced'
  BY <1>3 DEF PushOK, LookedOK, ShownIsLogged, LatestUnlessRaced, Current
<1>7. QED
  BY <1>2, <1>4, <1>5, <1>6

(* A request that enters the append loop has a number of its own.          *)
LEMMA StartKeepsInv ==
  ASSUME MemInv, NEW w \in Worker, NEW b \in Batch, StartBatch(w, b, "lookup"),
         UNCHANGED <<latest, log, looked, raced>>
  PROVE  MemInv'
<1> USE IngestAssumption DEF MemInv
<1>1. /\ received \in Nat /\ received' = received + 1 /\ received' \in 1..MaxRequests
      /\ b \in Seq(Event) /\ Len(b) \in 1..MaxBatch /\ 1 \in DOMAIN b
      /\ pc[w] = "idle" /\ pc' = [pc EXCEPT ![w] = "lookup"]
      /\ batch' = [batch EXCEPT ![w] = b]
      /\ at' = [at EXCEPT ![w] = 1]
      /\ rid' = [rid EXCEPT ![w] = received']
      /\ acked' = acked
  BY DEF StartBatch, TypeOK, IngestTypeOK
<1>2. \A v \in Worker :
        /\ pc'[v] = IF v = w THEN "lookup" ELSE pc[v]
        /\ batch'[v] = IF v = w THEN b ELSE batch[v]
        /\ at'[v] = IF v = w THEN 1 ELSE at[v]
        /\ rid'[v] = IF v = w THEN received' ELSE rid[v]
  BY <1>1 DEF TypeOK, IngestTypeOK
<1>3. TypeOK'
  <2>1. 1 \in 0..MaxBatch /\ received' \in 0..MaxRequests
    BY <1>1
  <2>2. /\ pc' \in [Worker -> Control]
        /\ batch' \in [Worker -> Batch \union {<< >>}]
        /\ at' \in [Worker -> 0..MaxBatch]
        /\ rid' \in [Worker -> 0..MaxRequests]
    BY <1>1, <2>1 DEF TypeOK, IngestTypeOK, Control
  <2>3. \A v \in Worker : pc'[v] # "idle" => at'[v] \in DOMAIN batch'[v] /\ rid'[v] # 0
    BY <1>1, <1>2 DEF TypeOK, IngestTypeOK
  <2>4. QED
    BY <1>1, <2>1, <2>2, <2>3 DEF TypeOK, IngestTypeOK
<1>4. Logged' = Logged /\ (\A r \in Logged : r.rid \in Nat /\ r.rid <= received)
  BY LoggedRows DEF Logged, NumberOK
<1>5. NumberOK'
  <2>1. \A v \in Worker : rid[v] \in Nat
    BY DEF TypeOK, IngestTypeOK
  <2>2. \A a \in acked : a.rid \in Nat /\ a.rid <= received
    BY DEF NumberOK, TypeOK, IngestTypeOK
  <2>3. QED
    BY <1>1, <1>2, <1>4, <2>1, <2>2 DEF NumberOK, Busy
<1>6. ProgressOK'
  BY <1>1, <1>2, <1>4 DEF ProgressOK, Busy
<1>7. OrderOK' /\ AckedIsLoggedInOrder'
  BY <1>1, <1>4 DEF OrderOK, AckedIsLoggedInOrder
<1>8. \A v \in Worker : pc'[v] \in {"insert", "push"} => v # w /\ Current(v)' = Current(v)
  BY <1>2 DEF Current
<1>9. \A v \in Worker : pc[v] = "push" => pc'[v] = "push" /\ Current(v)' = Current(v)
  BY <1>1, <1>2 DEF Current
<1>10. PushOK' /\ LookedOK' /\ ShownIsLogged' /\ LatestUnlessRaced'
  BY <1>2, <1>4, <1>8, <1>9 DEF PushOK, LookedOK, ShownIsLogged, LatestUnlessRaced
<1>11. QED
  BY <1>3, <1>5, <1>6, <1>7, <1>10

(* The map steps leave the log and the numbers alone.                      *)
LEMMA MapStepKeepsLog ==
  ASSUME MemInv, UNCHANGED <<batch, at, rid, received, acked, log>>,
         NEW w \in Worker, NEW next \in {"insert", "push"}, pc[w] # "idle",
         pc' = [pc EXCEPT ![w] = next]
  PROVE  /\ IngestTypeOK(Control)'
         /\ \A v \in Worker : pc'[v] = IF v = w THEN next ELSE pc[v]
         /\ \A v \in Worker : Current(v)' = Current(v)
         /\ Logged' = Logged
         /\ NumberOK' /\ ProgressOK' /\ OrderOK' /\ AckedIsLoggedInOrder'
<1> USE DEF MemInv
<1>1. \A v \in Worker : pc'[v] = IF v = w THEN next ELSE pc[v]
  BY DEF TypeOK, IngestTypeOK
<1>2. IngestTypeOK(Control)'
  BY <1>1 DEF TypeOK, IngestTypeOK, Control
<1>3. Logged' = Logged /\ \A v \in Worker : Busy(v)' = Busy(v)
  BY <1>1 DEF Logged, Busy
<1>4. NumberOK' /\ ProgressOK'
  BY <1>3 DEF NumberOK, ProgressOK
<1>5. OrderOK' /\ AckedIsLoggedInOrder'
  BY <1>3 DEF OrderOK, AckedIsLoggedInOrder
<1>6. QED
  BY <1>1, <1>2, <1>3, <1>4, <1>5 DEF Current

(* The lookup: an event that will be inserted is not older than the entry, *)
(* one that will not is not newer.                                         *)
LEMMA LookupKeepsInv ==
  ASSUME MemInv, NEW w \in Worker, Lookup(w)
  PROVE  MemInv'
<1> USE DEF MemInv
<1> DEFINE k == Current(w).key
<1>1. PICK next \in {"insert", "push"} :
        /\ pc[w] = "lookup"
        /\ pc' = [pc EXCEPT ![w] = next]
        /\ looked' = [looked EXCEPT ![w] = latest[k]]
        /\ next = "push" <=> latest[k] # NoEvent /\ Current(w).ns < latest[k].ns
        /\ UNCHANGED <<batch, at, rid, received, acked, latest, log, raced>>
  BY DEF Lookup, Found
<1>2. /\ k \in Key /\ Current(w).ns \in Nat
      /\ latest[k] \in Event \union {NoEvent}
      /\ latest[k] # NoEvent => latest[k].ns \in Nat
  BY <1>1, BusyTypes, IngestAssumption DEF Busy, TypeOK
<1>3. /\ IngestTypeOK(Control)'
      /\ \A v \in Worker : pc'[v] = IF v = w THEN next ELSE pc[v]
      /\ \A v \in Worker : Current(v)' = Current(v)
      /\ Logged' = Logged
      /\ NumberOK' /\ ProgressOK' /\ OrderOK' /\ AckedIsLoggedInOrder'
  BY <1>1, MapStepKeepsLog
<1>4. /\ looked' \in [Worker -> Event \union {NoEvent}]
      /\ \A v \in Worker : looked'[v] = IF v = w THEN latest[k] ELSE looked[v]
  BY <1>1, <1>2 DEF TypeOK
<1> HIDE DEF k
<1>5. TypeOK'
  BY <1>1, <1>3, <1>4 DEF TypeOK
<1>6. PushOK'
  BY <1>1, <1>2, <1>3 DEF PushOK, k
<1>7. LookedOK'
  BY <1>1, <1>2, <1>3, <1>4 DEF LookedOK, k
<1>8. ShownIsLogged' /\ LatestUnlessRaced'
  BY <1>1, <1>3 DEF ShownIsLogged, LatestUnlessRaced
<1>9. QED
  BY <1>3, <1>5, <1>6, <1>7, <1>8

(* The insert: if the entry is still the one the lookup found, it only     *)
(* gets newer.                                                             *)
LEMMA InsertKeepsInv ==
  ASSUME MemInv, NEW w \in Worker, Insert(w)
  PROVE  MemInv'
<1> USE DEF MemInv
<1> DEFINE k == Current(w).key
           ev == Current(w)
<1>1. /\ pc[w] = "insert"
      /\ pc' = [pc EXCEPT ![w] = "push"]
      /\ latest' = [latest EXCEPT ![k] = ev]
      /\ raced' = IF latest[k] # looked[w] THEN raced \union {k} ELSE raced
      /\ UNCHANGED <<batch, at, rid, received, acked, log, looked>>
  BY DEF Insert
<1>2. k \in Key /\ ev \in Event /\ ev.ns \in Nat /\ ev # NoEvent
  BY <1>1, BusyTypes, IngestAssumption DEF Busy
<1>3. /\ IngestTypeOK(Control)'
      /\ \A v \in Worker : pc'[v] = IF v = w THEN "push" ELSE pc[v]
      /\ \A v \in Worker : Current(v)' = Current(v)
      /\ Logged' = Logged
      /\ NumberOK' /\ ProgressOK' /\ OrderOK' /\ AckedIsLoggedInOrder'
  BY <1>1, MapStepKeepsLog
<1>4. /\ latest' \in [Key -> Event \union {NoEvent}]
      /\ \A j \in Key : latest'[j] = IF j = k THEN ev ELSE latest[j]
  BY <1>1, <1>2 DEF TypeOK
<1>5. k \notin raced' => latest[k] = NoEvent \/ (latest[k].ns <= ev.ns /\ latest[k].ns \in Nat)
  <2>1. k \notin raced' => latest[k] = looked[w]
    BY <1>1
  <2>2. latest[k] \in Event \union {NoEvent}
    BY <1>2 DEF TypeOK
  <2>3. QED
    BY <1>1, <2>1, <2>2, IngestAssumption DEF LookedOK
<1>6. raced \subseteq raced' /\ raced' \subseteq Key
  BY <1>1, <1>2 DEF TypeOK
<1>7. \A v \in Worker : pc[v] = "push" =>
        Current(v).key \in Key /\ Current(v).ns \in Nat
  BY BusyTypes DEF Busy
<1>8. Current(w) = ev /\ ev.key = k
  OBVIOUS
<1> HIDE DEF k, ev
<1>9. TypeOK' /\ LookedOK'
  BY <1>1, <1>3, <1>4, <1>6 DEF TypeOK, LookedOK
<1>10. PushOK'
  <2> SUFFICES ASSUME NEW v \in Worker, pc'[v] = "push"
               PROVE  /\ latest'[Current(v).key] # NoEvent
                      /\ Current(v).key \notin raced' =>
                           Current(v).ns <= latest'[Current(v).key].ns
    BY <1>3 DEF PushOK
  <2>1. CASE v = w
    BY <1>2, <1>4, <1>8, <2>1
  <2>2. CASE v # w
    BY <1>2, <1>3, <1>4, <1>5, <1>6, <1>7, <2>2 DEF PushOK
  <2>3. QED
    BY <2>1, <2>2
<1>11. ShownIsLogged'
  BY <1>2, <1>3, <1>4, <1>8 DEF ShownIsLogged
<1>12. LatestUnlessRaced'
  <2> SUFFICES ASSUME NEW j \in Key \ raced', NEW r \in Logged, r.ev.key = j
               PROVE  r.ev.ns <= latest'[j].ns
    BY <1>3 DEF LatestUnlessRaced
  <2>1. r.ev.ns \in Nat /\ j \notin raced /\ r.ev.ns <= latest[j].ns /\ latest[j] # NoEvent
    BY <1>6, LoggedRows, IngestAssumption DEF LatestUnlessRaced, ShownIsLogged
  <2>2. QED
    BY <1>2, <1>4, <1>5, <2>1
<1>13. QED
  BY <1>3, <1>9, <1>10, <1>11, <1>12

(* The push: the next row of the request, or its last one, after which the *)
(* request is acknowledged.                                                *)
LEMMA PushKeepsInv ==
  ASSUME MemInv, NEW w \in Worker, Push(w)
  PROVE  MemInv'
<1> USE DEF MemInv
<1> DEFINE x == CurrentRow(w)
           n == Len(batch[w])
<1>1. /\ pc[w] = "push"
      /\ log' = Append(log, x)
      /\ UNCHANGED <<latest, looked, raced>>
  BY DEF Push
<1>2. /\ batch[w] \in Batch /\ n \in Nat /\ n <= MaxBatch /\ at[w] \in 1..n
      /\ DOMAIN batch[w] = 1..n
      /\ rid[w] \in 1..MaxRequests /\ x \in Row
      /\ x.rid = rid[w] /\ x.pos = at[w] /\ x.ev = Current(w)
      /\ Current(w) = batch[w][at[w]] /\ x = RowOf(rid[w], batch[w], at[w])
      /\ Current(w).key \in Key /\ Current(w).ns \in Nat
  BY <1>1, BusyTypes DEF Busy, Current, CurrentRow
<1>3. /\ log' \in Seq(Row) /\ Len(log) \in Nat
      /\ DOMAIN log = 1..Len(log) /\ DOMAIN log' = 1..(Len(log) + 1)
      /\ \A i \in 1..Len(log) : log'[i] = log[i]
      /\ log'[Len(log) + 1] = x
      /\ Logged' = Logged \union {x}
  BY <1>1, <1>2, AppendedLog DEF TypeOK
<1> HIDE DEF x, n
<1>4. at[w] \in Nat /\ at[w] >= 1 /\ at[w] <= n
  BY <1>2
(* Where the handlers stand afterwards.                                    *)
<1>5. /\ received' = received
      /\ \A v \in Worker : v # w =>
           pc'[v] = pc[v] /\ batch'[v] = batch[v] /\ at'[v] = at[v] /\ rid'[v] = rid[v]
      /\ \/ /\ at[w] < n /\ pc'[w] = "lookup" /\ at'[w] = at[w] + 1
            /\ batch'[w] = batch[w] /\ rid'[w] = rid[w] /\ acked' = acked
         \/ /\ at[w] = n /\ pc'[w] = "idle"
            /\ acked' = acked \union {[rid |-> rid[w], batch |-> batch[w]]}
  BY DEF Push, Advance, Release, TypeOK, IngestTypeOK, n
<1>6. TypeOK'
  <2>1. /\ pc' \in [Worker -> Control]
        /\ batch' \in [Worker -> Batch \union {<< >>}]
        /\ at' \in [Worker -> 0..MaxBatch]
        /\ rid' \in [Worker -> 0..MaxRequests]
    <3>1. CASE at[w] < n
      <4>1. at[w] + 1 \in 0..MaxBatch /\ at[w] # n
        <5>1. n \in Nat /\ n <= MaxBatch /\ MaxBatch \in Nat
          <6>1. batch[w] \in Batch /\ n = Len(batch[w]) /\ n \in Nat
            BY <1>2 DEF n
          <6>2. QED
            BY <6>1, IngestAssumption
        <5>2. QED
          BY <1>4, <3>1, <5>1
      <4>2. QED
        BY <3>1, <4>1 DEF Push, Advance, TypeOK, IngestTypeOK, Control, n
    <3>2. CASE at[w] = n
      <4>1. ~(at[w] < n) /\ 0 \in 0..MaxBatch /\ 0 \in 0..MaxRequests
        BY <1>2, <1>4, <3>2, IngestAssumption
      <4>2. Release({w})
        BY <4>1 DEF Push, Advance, n
      <4>3. QED
        BY <4>1, <4>2 DEF Release, TypeOK, IngestTypeOK, Control
    <3>3. QED
      BY <1>5, <3>1, <3>2
  <2>2. acked' \subseteq [rid : 1..MaxRequests, batch : Batch]
    BY <1>2, <1>5 DEF TypeOK, IngestTypeOK
  <2>3. \A v \in Worker : pc'[v] # "idle" => at'[v] \in DOMAIN batch'[v] /\ rid'[v] # 0
    <3>1. at[w] < n => at[w] + 1 \in 1..n /\ rid[w] # 0
      BY <1>2, <1>4
    <3>2. \A v \in Worker : pc[v] # "idle" => at[v] \in DOMAIN batch[v] /\ rid[v] # 0
      BY DEF TypeOK, IngestTypeOK
    <3>3. QED
      BY <1>2, <1>5, <3>1, <3>2
  <2>4. QED
    BY <1>1, <1>3, <1>5, <2>1, <2>2, <2>3 DEF TypeOK, IngestTypeOK
<1>7. \A r \in Logged : r \in Row /\ r.rid \in Nat /\ r.pos \in Nat
  BY LoggedRows
<1>8. \A v \in Worker : v # w /\ pc[v] # "idle" => rid[v] # rid[w]
  BY <1>1 DEF NumberOK, Busy
<1>9. NumberOK'
  <2>1. rid[w] <= received /\ \A a \in acked : a.rid # rid[w]
    BY <1>1 DEF NumberOK, Busy
  <2>2. \A v \in Worker : pc'[v] # "idle" => pc[v] # "idle" /\ rid'[v] = rid[v]
    BY <1>1, <1>5
  <2>3. \A r \in Logged' : r.rid <= received
    BY <1>2, <1>3, <2>1 DEF NumberOK
  <2>4. \A a \in acked' : a \in acked \/ (a.rid = rid[w] /\ pc'[w] = "idle")
    BY <1>5
  <2>5. QED
    BY <1>5, <1>8, <2>1, <2>2, <2>3, <2>4 DEF NumberOK, Busy
<1>10. /\ \A i \in 1..at[w] : RowOf(rid[w], batch[w], i) \in Logged'
      /\ \A r \in Logged' : r.rid = rid[w] =>
           r.pos \in 1..at[w] /\ r.ev = batch[w][r.pos]
  <2>1. \A i \in 1..at[w] : i = at[w] \/ i \in 1..(at[w] - 1)
    BY <1>4
  <2>2. \A r \in Logged : r.rid = rid[w] => r.pos \in 1..at[w] /\ r.ev = batch[w][r.pos]
    <3>1. \A r \in Logged : r.pos \in 1..MaxBatch
      BY <1>7 DEF Row
    <3>2. \A r \in Logged : r.rid = rid[w] => r.pos < at[w] /\ r.ev = batch[w][r.pos]
      BY <1>1 DEF ProgressOK, Busy
    <3>3. QED
      BY <1>4, <3>1, <3>2, IngestAssumption
  <2>3. QED
    BY <1>1, <1>2, <1>3, <2>1, <2>2 DEF ProgressOK, Busy
<1>11. ProgressOK'
  <2> SUFFICES ASSUME NEW v \in Worker, pc'[v] # "idle"
               PROVE  /\ \A i \in 1..(at'[v] - 1) :
                           RowOf(rid'[v], batch'[v], i) \in Logged'
                      /\ \A r \in Logged' : r.rid = rid'[v] =>
                           r.pos < at'[v] /\ r.ev = batch'[v][r.pos]
    BY DEF ProgressOK, Busy, RowOf
  <2>1. CASE v = w
    BY <1>2, <1>5, <1>10, <2>1
  <2>2. CASE v # w
    BY <1>2, <1>3, <1>5, <1>8, <2>2 DEF ProgressOK, Busy
  <2>3. QED
    BY <2>1, <2>2
<1>12. OrderOK'
  <2> SUFFICES ASSUME NEW i \in 1..(Len(log) + 1), NEW j \in 1..(Len(log) + 1),
                      i < j, log'[i].rid = log'[j].rid
               PROVE  log'[i].pos < log'[j].pos
    BY <1>3 DEF OrderOK
  <2>1. i \in 1..Len(log) /\ log'[i] = log[i]
    BY <1>3
  <2>2. CASE j \in 1..Len(log)
    BY <1>3, <2>1, <2>2 DEF OrderOK
  <2>3. CASE j = Len(log) + 1
    <3>1. log[i] \in Logged
      BY <1>3, <2>1 DEF Logged, Range
    <3>2. QED
      BY <1>1, <1>2, <1>3, <2>1, <2>3, <3>1 DEF ProgressOK, Busy
  <2>4. QED
    BY <1>3, <2>2, <2>3
<1>13. AckedIsLoggedInOrder'
  <2> SUFFICES ASSUME NEW a \in acked'
               PROVE  /\ \A i \in DOMAIN a.batch : RowOf(a.rid, a.batch, i) \in Logged'
                      /\ \A r \in Logged' : r.rid = a.rid =>
                           r.pos \in DOMAIN a.batch /\ r.ev = a.batch[r.pos]
    BY <1>12 DEF AckedIsLoggedInOrder, OrderOK, RowOf
  <2>1. CASE a \in acked
    <3>1. a.rid # rid[w]
      BY <1>1, <2>1 DEF NumberOK, Busy
    <3>2. QED
      BY <1>2, <1>3, <2>1, <3>1 DEF AckedIsLoggedInOrder
  <2>2. CASE a \notin acked
    <3>1. at[w] = n /\ a.rid = rid[w] /\ a.batch = batch[w]
      BY <1>5, <2>2
    <3>2. QED
      BY <1>2, <1>10, <3>1
  <2>3. QED
    BY <2>1, <2>2
<1>14. \A v \in Worker : pc'[v] \in {"insert", "push"} =>
         v # w /\ pc'[v] = pc[v] /\ Current(v)' = Current(v)
  BY <1>5 DEF Current
<1>15. PushOK' /\ LookedOK'
  BY <1>1, <1>14 DEF PushOK, LookedOK
<1>16. ShownIsLogged'
  <2>1. \A v \in Worker : v # w /\ pc[v] = "push" => pc'[v] = "push" /\ Current(v)' = Current(v)
    BY <1>5 DEF Current
  <2>2. latest[Current(w).key] # NoEvent
    BY <1>1 DEF PushOK
  <2>3. QED
    BY <1>1, <1>2, <1>3, <2>1, <2>2 DEF ShownIsLogged
<1>17. LatestUnlessRaced'
  BY <1>1, <1>2, <1>3 DEF LatestUnlessRaced, PushOK
<1>18. QED
  BY <1>6, <1>9, <1>11, <1>12, <1>13, <1>15, <1>16, <1>17

(* Every step keeps the invariant.                                         *)
LEMMA MemInvNext == MemInv /\ [Next]_vars => MemInv'
<1>1. MemInv /\ UNCHANGED vars => MemInv'
  BY DEF MemInv, vars, ingestVars, TypeOK, IngestTypeOK, NumberOK, ProgressOK, OrderOK,
         AckedIsLoggedInOrder, PushOK, LookedOK, ShownIsLogged, LatestUnlessRaced,
         Logged, Busy, Current
<1>2. QED
  BY <1>1, AnswerKeepsInv, StartKeepsInv, LookupKeepsInv, InsertKeepsInv, PushKeepsInv
     DEF Next, Receive, Step, Quiet

(* The invariant holds throughout.                                         *)
LEMMA MemInvariant == Spec => []MemInv
BY MemInvInit, MemInvNext, PTL DEF Spec

-----------------------------------------------------------------------------
(* The handlers and the store keep their types.                            *)
THEOREM MemTypes == Spec => []TypeOK
<1>1. MemInv => TypeOK
  BY DEF MemInv
<1>2. QED
  BY <1>1, MemInvariant, PTL

(* An acknowledged batch is in the log, whole, once and in order           *)
(* (routes.rs, ingest; store.rs, append).                                  *)
THEOREM MemAckedIsLogged == Spec => []AckedIsLoggedInOrder
<1>1. MemInv => AckedIsLoggedInOrder
  BY DEF MemInv
<1>2. QED
  BY <1>1, MemInvariant, PTL

(* The inventory shows an event of the log, or one about to be there, and  *)
(* shows every asset of the log (store.rs, append).                        *)
THEOREM MemShownIsLogged == Spec => []ShownIsLogged
<1>1. MemInv => ShownIsLogged
  BY DEF MemInv
<1>2. QED
  BY <1>1, MemInvariant, PTL

(* Without overlapping appends of an asset, the newest of its events is    *)
(* shown (store.rs, append).                                               *)
THEOREM MemLatestUnlessRaced == Spec => []LatestUnlessRaced
<1>1. MemInv => LatestUnlessRaced
  BY DEF MemInv
<1>2. QED
  BY <1>1, MemInvariant, PTL

=============================================================================
