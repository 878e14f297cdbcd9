--------------------------- MODULE QkdLinkProofs ----------------------------
(***************************************************************************)
(* Theorems about the observation of QKD links, for every set of KMEs,     *)
(* every scenario and every threshold.  The collector reports what it has  *)
(* seen at a KME, so the invariant follows a report from the poll to the   *)
(* row: a KME is never without keys, the history knows the state it is in, *)
(* and a report that is under way says something the history knows.  The   *)
(* driver's part ties the operations that took effect to the event it      *)
(* comes to.                                                               *)
(***************************************************************************)
EXTENDS QkdLink, Functions, FiniteSetTheorems, TLAPS

(* The history knows the state that every KME is in.                       *)
StateIsKnown == \A k \in Kme : Truth(k) \in been[k]

(* No emulator runs out of keys: a slave's request leaves them in place.   *)
HasKeys == \A k \in Kme : keys[k] # {}

(* The report that is under way was so when it was made.                   *)
ReportWasTrue ==
  ev # NoEvent =>
    \A k \in Kme :
      /\ ev.id = <<"own", k>> => ev.health \in been[k]
      /\ ev.id = <<"unreachable", k>> => "refuses" \in been[k]

(* What has taken effect before the driver comes to its next operation:    *)
(* nothing beyond the ones it has come to, and all of those but the ones   *)
(* that were refused.                                                      *)
Progress ==
  driver \in {"start", "run"} =>
    /\ \A i \in 1..Len(applied) : applied[i].op < next
    /\ \A n \in (1..(next - 1)) \ refused : \E i \in 1..Len(applied) : applied[i].op = n

QkdInv ==
  /\ TypeOK
  /\ StateIsKnown
  /\ HasKeys
  /\ ReportWasTrue
  /\ RowsWereTrue
  /\ Progress
  /\ ReplayKeepsTime

-----------------------------------------------------------------------------
(* There are keys enough for all emulators to start with.                  *)
LEMMA SeedingExists == Seeding # {}
<1> DEFINE n == Cardinality(Kme)
<1>1. n \in Nat /\ ExistsBijection(1..n, Kme)
  BY QkdAssumption, FS_CardinalityType
<1>2. PICK f \in [1..n -> Kme] : \A k \in Kme : \E i \in 1..n : f[i] = k
  BY <1>1 DEF ExistsBijection, Bijection, Surjection
<1> HIDE DEF n
<1> DEFINE at(k) == CHOOSE i \in 1..n : f[i] = k
           from(k) == (at(k) - 1) * SeedKeys + 1
           to(k) == at(k) * SeedKeys
           seed == [k \in Kme |-> from(k)..to(k)]
<1>3. \A k \in Kme : at(k) \in 1..n /\ f[at(k)] = k
  BY <1>2
<1>4. \A j, k \in Kme : j # k => at(j) # at(k)
  BY <1>3
<1> HIDE DEF at
<1>5. SeedKeys \in Nat /\ SeedKeys >= 1
  BY QkdAssumption
<1>6. ASSUME NEW i \in 1..n
      PROVE  /\ (i - 1) * SeedKeys \in Nat /\ i * SeedKeys \in Nat
             /\ i * SeedKeys = (i - 1) * SeedKeys + SeedKeys
             /\ i * SeedKeys <= SeedKeys * n
  <2>1. i \in Nat /\ i >= 1 /\ i <= n
    BY <1>1
  <2>2. i * SeedKeys = (i - 1) * SeedKeys + SeedKeys
    BY <1>5, <2>1
  <2>3. (i - 1) * SeedKeys \in Nat /\ i * SeedKeys \in Nat
    BY <1>5, <2>1
  <2>4. i * SeedKeys <= SeedKeys * n
    BY <1>1, <1>5, <2>1
  <2>5. QED
    BY <2>2, <2>3, <2>4
<1>7. ASSUME NEW i \in 1..n, NEW j \in 1..n, i < j
      PROVE  i * SeedKeys <= (j - 1) * SeedKeys
  <2>1. i \in Nat /\ j - 1 \in Nat /\ i <= j - 1
    BY <1>1, <1>7
  <2>2. QED
    BY <1>5, <2>1
<1>8. ASSUME NEW k \in Kme
      PROVE  /\ from(k) \in Int /\ to(k) \in Int /\ from(k) >= 1
             /\ to(k) - from(k) + 1 = SeedKeys /\ from(k) <= to(k)
             /\ to(k) <= SeedKeys * n /\ SeedKeys * n \in Int
  <2>1. /\ (at(k) - 1) * SeedKeys \in Nat /\ at(k) * SeedKeys \in Nat
        /\ at(k) * SeedKeys = (at(k) - 1) * SeedKeys + SeedKeys
        /\ at(k) * SeedKeys <= SeedKeys * n
    BY <1>3, <1>6
  <2>2. SeedKeys * n \in Int
    BY <1>1, <1>5
  <2>3. \A a, b \in Nat : b = a + SeedKeys => b - (a + 1) + 1 = SeedKeys /\ a + 1 <= b /\ a + 1 >= 1
    BY <1>5
  <2>4. QED
    BY <2>1, <2>2, <2>3
<1>9. ASSUME NEW j \in Kme, NEW k \in Kme, at(j) < at(k)
      PROVE  to(j) < from(k)
  <2>1. to(j) <= (at(k) - 1) * SeedKeys
    BY <1>3, <1>7, <1>9
  <2>2. (at(k) - 1) * SeedKeys \in Nat /\ to(j) \in Nat
    BY <1>3, <1>6
  <2>3. QED
    BY <2>1, <2>2
<1>10. \A j, k \in Kme : j # k => at(j) < at(k) \/ at(k) < at(j)
  BY <1>1, <1>3, <1>4
<1> HIDE DEF from, to
<1>11. \A k \in Kme : from(k)..to(k) \subseteq 1..(SeedKeys * n)
  BY <1>8
<1>12. \A k \in Kme : Cardinality(from(k)..to(k)) = SeedKeys
  BY <1>8, FS_Interval
<1>13. \A j, k \in Kme : j # k => (from(j)..to(j)) \intersect (from(k)..to(k)) = {}
  <2> SUFFICES ASSUME NEW j \in Kme, NEW k \in Kme, j # k
               PROVE  (from(j)..to(j)) \intersect (from(k)..to(k)) = {}
    OBVIOUS
  <2>1. to(j) < from(k) \/ to(k) < from(j)
    BY <1>9, <1>10
  <2>2. QED
    BY <1>8, <2>1
<1>14. seed \in Seeding
  BY <1>11, <1>12, <1>13 DEF Seeding, n
<1>15. QED
  BY <1>14

-----------------------------------------------------------------------------
LEMMA ScenarioTypes ==
  ASSUME TypeOK
  PROVE  /\ Len(events) \in Nat /\ DOMAIN events = 1..Len(events)
         /\ scenario.duration \in Nat
         /\ \A i \in 1..Len(events) :
              /\ events[i].at_seconds \in Nat
              /\ events[i].op.op = "set_qber" => events[i].op.qber \in Int
<1>1. scenario \in Scenario
  BY DEF TypeOK
<1>2. /\ scenario.duration \in Nat
      /\ events \in Seq({events[i] : i \in DOMAIN events})
      /\ \A i \in DOMAIN events :
           /\ events[i].at_seconds \in Nat
           /\ events[i].op.op = "set_qber" => events[i].op.qber \in Int
  BY <1>1, ScenarioAssumption, Zenon DEF events
<1>3. Len(events) \in Nat /\ DOMAIN events = 1..Len(events)
  BY <1>2
<1>4. QED
  BY <1>2, <1>3

LEMMA TruthType ==
  ASSUME NEW k \in Kme
  PROVE  Truth(k) \in Health \union {"refuses"} /\ Truth(k)' \in Health \union {"refuses"}
BY DEF Truth, Health

(* The history grows with the states of the KMEs.                          *)
LEMMA HistoryGrows ==
  ASSUME TypeOK, StateIsKnown, Recorded \/ UNCHANGED <<qber, forced, been>>
  PROVE  /\ StateIsKnown'
         /\ been' \in [Kme -> SUBSET (Health \union {"refuses"})]
         /\ \A k \in Kme : been[k] \subseteq been'[k]
<1>1. CASE Recorded
  <2>1. been' = [k \in Kme |-> been[k] \union {Truth(k)'}]
    BY <1>1 DEF Recorded
  <2>2. \A k \in Kme : been'[k] = been[k] \union {Truth(k)'}
    BY <2>1
  <2>3. StateIsKnown'
    <3> SUFFICES ASSUME NEW k \in Kme PROVE Truth(k)' \in been'[k]
      BY DEF StateIsKnown
    <3>1. QED
      BY <2>2
  <2>4. \A k \in Kme : been[k] \in SUBSET (Health \union {"refuses"})
    BY DEF TypeOK
  <2>5. QED
    BY <2>1, <2>2, <2>3, <2>4, TruthType
<1>2. CASE UNCHANGED <<qber, forced, been>>
  BY <1>2 DEF StateIsKnown, Truth, TypeOK
<1>3. QED
  BY <1>1, <1>2

(* What was so remains so.                                                 *)
LEMMA ReportsStayTrue ==
  ASSUME ReportWasTrue, RowsWereTrue, UNCHANGED <<ev, latest>>,
         \A k \in Kme : been[k] \subseteq been'[k]
  PROVE  ReportWasTrue' /\ RowsWereTrue'
BY DEF ReportWasTrue, RowsWereTrue

(* Steps that leave the driver alone, and do not turn the clock back.      *)
LEMMA ReplayStays ==
  ASSUME TypeOK, Progress, ReplayKeepsTime, UNCHANGED replay, clock' \in Int, clock <= clock'
  PROVE  Progress' /\ ReplayKeepsTime'
<1>1. UNCHANGED <<scenario, driver, next, applied, refused>> /\ events' = events
  BY DEF replay, events
<1>2. Progress'
  BY <1>1 DEF Progress
<1>3. clock >= scenario.duration => clock' >= scenario.duration
  BY ScenarioTypes DEF TypeOK
<1>4. ReplayKeepsTime'
  BY <1>1, <1>3 DEF ReplayKeepsTime
<1>5. QED
  BY <1>2, <1>4

(* Steps of the emulators leave the rest of the invariant alone.           *)
LEMMA RestStays ==
  ASSUME QkdInv, Recorded \/ UNCHANGED <<qber, forced, been>>,
         UNCHANGED <<scenario, driver, next, applied, refused, ev, latest, clock>>
  PROVE  StateIsKnown' /\ ReportWasTrue' /\ RowsWereTrue' /\ Progress' /\ ReplayKeepsTime'
<1>1. StateIsKnown' /\ \A k \in Kme : been[k] \subseteq been'[k]
  BY HistoryGrows DEF QkdInv
<1>2. clock' \in Int /\ clock <= clock' /\ UNCHANGED replay
  BY QkdAssumption DEF QkdInv, TypeOK, replay
<1>3. Progress' /\ ReplayKeepsTime'
  BY <1>2, ReplayStays DEF QkdInv
<1>4. QED
  BY <1>1, <1>3, ReportsStayTrue DEF QkdInv

(* What a control operation may do to the emulator.                        *)
LEMMA ControlTypes ==
  ASSUME TypeOK, next <= Len(events), handle_control(Driven, events[next].op)
  PROVE  /\ qber' \in [Kme -> 0..MaxQber]
         /\ forced' \in [Kme -> BOOLEAN]
         /\ up' = up /\ keys' = keys
<1>1. next \in 1..Len(events)
  BY ScenarioTypes DEF TypeOK
<1> DEFINE op == events[next].op
<1>2. op.op = "set_qber" => op.qber \in Int
  BY <1>1, ScenarioTypes
<1> HIDE DEF op
<1>3. op.op = "set_qber" => Clamp(op.qber) \in 0..MaxQber
  BY <1>2, QkdAssumption DEF Clamp
<1>4. /\ qber' = IF op.op = "set_qber" THEN [qber EXCEPT ![Driven] = Clamp(op.qber)] ELSE qber
      /\ forced' = CASE op.op = "force" -> [forced EXCEPT ![Driven] = TRUE]
                     [] op.op = "clear" -> [forced EXCEPT ![Driven] = FALSE]
                     [] OTHER           -> forced
      /\ UNCHANGED <<up, keys>>
  BY DEF handle_control, op
<1>5. qber' \in [Kme -> 0..MaxQber]
  BY <1>3, <1>4 DEF TypeOK
<1>6. forced' \in [Kme -> BOOLEAN]
  <2>1. \/ forced' = [forced EXCEPT ![Driven] = TRUE]
        \/ forced' = [forced EXCEPT ![Driven] = FALSE]
        \/ forced' = forced
    BY <1>4
  <2>2. QED
    BY <2>1 DEF TypeOK
<1>7. QED
  BY <1>4, <1>5, <1>6

(* The keys that are generated next.                                       *)
LEMMA GeneratedKeys ==
  ASSUME TypeOK, NEW count \in Nat \ {0}, made + count <= MaxKeys
  PROVE  /\ Generated(count) \subseteq 1..MaxKeys /\ Generated(count) # {}
         /\ made + count \in 0..MaxKeys
<1>1. made \in Nat /\ MaxKeys \in Nat
  BY QkdAssumption DEF TypeOK
<1>2. made + count \in (made + 1)..(made + count)
  BY <1>1
<1>3. QED
  BY <1>1, <1>2 DEF Generated

LEMMA QkdInvInit == Init => QkdInv
<1> SUFFICES ASSUME Init PROVE QkdInv
  OBVIOUS
<1> USE QkdAssumption DEF Init
<1> DEFINE n == SeedKeys * Cardinality(Kme)
<1>1. n \in Nat /\ n <= MaxKeys /\ made = n
  BY FS_CardinalityType
<1>2. keys \in Seeding
  BY SeedingExists
<1>3. keys \in [Kme -> SUBSET (1..n)] /\ \A k \in Kme : Cardinality(keys[k]) = SeedKeys
  BY <1>2 DEF Seeding
<1> HIDE DEF n
<1>4. HasKeys
  <2>1. \A k \in Kme : Cardinality(keys[k]) # 0
    BY <1>3
  <2>2. QED
    BY <2>1, FS_EmptySet DEF HasKeys
<1>5. StateIsKnown /\ been \in [Kme -> SUBSET (Health \union {"refuses"})]
  BY TruthType DEF StateIsKnown
<1>6. Len(events) \in Nat /\ 1 \in 1..(Len(events) + 1)
  BY ScenarioAssumption DEF events
<1>7. TypeOK
  <2>1. keys \in [Kme -> SUBSET (1..MaxKeys)] /\ made \in 0..MaxKeys
    BY <1>1, <1>3
  <2>2. /\ up \in [Kme -> BOOLEAN] /\ forced \in [Kme -> BOOLEAN]
        /\ qber \in [Kme -> 0..MaxQber]
        /\ issued \in [Kme -> SUBSET (1..MaxKeys)] /\ slave \subseteq 1..MaxKeys
    OBVIOUS
  <2>3. /\ applied \in Seq([op : 1..Len(events), at : 0..MaxTime]) /\ refused \subseteq 1..Len(events)
        /\ clock \in 0..MaxTime /\ faults \in 0..MaxFaults
    OBVIOUS
  <2>4. latest \in [Identity -> Event \union {NoEvent}]
    OBVIOUS
  <2>5. QED
    BY <1>5, <1>6, <2>1, <2>2, <2>3, <2>4 DEF TypeOK
<1>8. ReportWasTrue /\ RowsWereTrue
  BY DEF ReportWasTrue, RowsWereTrue, Identity
<1>9. Progress /\ ReplayKeepsTime
  BY <1>6 DEF Progress, ReplayKeepsTime
<1>10. QED
  BY <1>4, <1>5, <1>7, <1>8, <1>9 DEF QkdInv

-----------------------------------------------------------------------------
(* The emulators.                                                          *)
LEMMA SaeKeepsQkdInv ==
  ASSUME QkdInv, SaeRequest PROVE QkdInv'
<1> USE DEF QkdInv
<1>1. ASSUME NEW k \in Kme, NEW number \in 1..MaxPerCall, handle_enc_keys(k, number)
      PROVE  QkdInv'
  <2>1. /\ made + number <= MaxKeys /\ made' = made + number
        /\ keys' = [keys EXCEPT ![k] = @ \union Generated(number)]
        /\ issued' = [issued EXCEPT ![k] = @ \union Generated(number)]
        /\ UNCHANGED <<up, qber, forced, slave, scenario, driver, next, applied, refused,
                       pc, cycle, ev, latest, clock, been, faults>>
    BY <1>1 DEF handle_enc_keys, replay, collector
  <2>2. /\ Generated(number) \subseteq 1..MaxKeys
        /\ made + number \in 0..MaxKeys
    BY <2>1, QkdAssumption, GeneratedKeys
  <2>3. TypeOK'
    <3>1. keys' \in [Kme -> SUBSET (1..MaxKeys)] /\ issued' \in [Kme -> SUBSET (1..MaxKeys)]
      BY <2>1, <2>2 DEF TypeOK
    <3>2. QED
      BY <2>1, <2>2, <3>1 DEF TypeOK, events
  <2>4. HasKeys'
    BY <2>1 DEF HasKeys, TypeOK
  <2>5. QED
    BY <2>1, <2>3, <2>4, RestStays
<1>2. ASSUME NEW k \in Kme, NEW ids \in SUBSET UNION {issued[j] : j \in Kme}, handle_dec_keys(k, ids)
      PROVE  QkdInv'
  <2>1. /\ slave' = IF ids \subseteq keys[k] THEN slave \union ids ELSE slave
        /\ UNCHANGED <<up, qber, forced, keys, made, issued, scenario, driver, next, applied, refused,
                       pc, cycle, ev, latest, clock, been, faults>>
    BY <1>2 DEF handle_dec_keys, replay, collector, emulator
  <2>2. ids \subseteq 1..MaxKeys
    BY <1>2 DEF TypeOK
  <2>3. slave' \subseteq 1..MaxKeys
    BY <2>1, <2>2 DEF TypeOK
  <2>4. TypeOK'
    BY <2>1, <2>3 DEF TypeOK, events
  <2>5. HasKeys'
    BY <2>1 DEF HasKeys
  <2>6. QED
    BY <2>1, <2>4, <2>5, RestStays
<1>3. QED
  BY <1>1, <1>2 DEF SaeRequest

LEMMA FaultType ==
  ASSUME TypeOK, Fault PROVE faults' \in 0..MaxFaults
BY QkdAssumption DEF TypeOK, Fault

LEMMA DieKeepsQkdInv ==
  ASSUME QkdInv, NEW k \in Kme, Die(k) PROVE QkdInv'
<1> USE DEF QkdInv
<1>1. /\ up' = [up EXCEPT ![k] = FALSE] /\ faults' \in 0..MaxFaults
      /\ UNCHANGED <<qber, forced, keys, made, issued, slave, scenario, driver, next, applied, refused,
                     pc, cycle, ev, latest, clock, been>>
  BY FaultType DEF Die, sae, replay, collector
<1>2. TypeOK'
  BY <1>1 DEF TypeOK, events
<1>3. HasKeys'
  BY <1>1 DEF HasKeys
<1>4. QED
  BY <1>1, <1>2, <1>3, RestStays

LEMMA RebornKeepsQkdInv ==
  ASSUME QkdInv, NEW k \in Kme, Reborn(k) PROVE QkdInv'
<1> USE DEF QkdInv
<1>1. /\ made + SeedKeys <= MaxKeys /\ made' = made + SeedKeys
      /\ up' = [up EXCEPT ![k] = TRUE]
      /\ qber' = [qber EXCEPT ![k] = InitialQber]
      /\ forced' = [forced EXCEPT ![k] = FALSE]
      /\ keys' = [keys EXCEPT ![k] = Generated(SeedKeys)]
      /\ issued' = [issued EXCEPT ![k] = {}]
      /\ Recorded
      /\ UNCHANGED <<slave, scenario, driver, next, applied, refused, pc, cycle, ev, latest, clock, faults>>
  BY DEF Reborn, replay, collector
<1>2. /\ Generated(SeedKeys) \subseteq 1..MaxKeys /\ Generated(SeedKeys) # {}
      /\ made + SeedKeys \in 0..MaxKeys
  BY <1>1, QkdAssumption, GeneratedKeys
<1>3. /\ StateIsKnown' /\ \A j \in Kme : been[j] \subseteq been'[j]
      /\ been' \in [Kme -> SUBSET (Health \union {"refuses"})]
  BY <1>1, HistoryGrows
<1>4. TypeOK'
  <2>1. keys' \in [Kme -> SUBSET (1..MaxKeys)] /\ issued' \in [Kme -> SUBSET (1..MaxKeys)]
    BY <1>1, <1>2 DEF TypeOK
  <2>2. qber' \in [Kme -> 0..MaxQber] /\ forced' \in [Kme -> BOOLEAN] /\ up' \in [Kme -> BOOLEAN]
    BY <1>1, QkdAssumption DEF TypeOK
  <2>3. QED
    BY <1>1, <1>2, <1>3, <2>1, <2>2 DEF TypeOK, events
<1>5. HasKeys'
  BY <1>1, <1>2 DEF HasKeys, TypeOK
<1>6. QED
  BY <1>1, <1>4, <1>5, RestStays

-----------------------------------------------------------------------------
(* The driver.                                                             *)

(* What a step of the driver at an operation makes of the history: the     *)
(* operation takes effect, in its turn and in its time, or it does not.    *)
LEMMA OperationHistory ==
  ASSUME QkdInv, AtOperation, TakesEffect \/ NoEffect, UNCHANGED <<scenario, clock>>
  PROVE  /\ applied' \in Seq([op : 1..Len(events), at : 0..MaxTime])
         /\ \A i \in 1..Len(applied') : applied'[i].at >= events[applied'[i].op].at_seconds
         /\ \A i, j \in 1..Len(applied') : i < j => applied'[i].op < applied'[j].op
         /\ \A i \in 1..Len(applied') : applied'[i].op < next + 1
         /\ \A n \in (1..(next - 1)) \ refused : \E i \in 1..Len(applied') : applied'[i].op = n
         /\ TakesEffect => \E i \in 1..Len(applied') : applied'[i].op = next
<1> DEFINE Entry == [op : 1..Len(events), at : 0..MaxTime]
<1>1. TypeOK /\ Progress /\ ReplayKeepsTime
  BY DEF QkdInv
<1>2. next \in 1..Len(events) /\ next \in Nat /\ clock \in 0..MaxTime
  BY <1>1, ScenarioTypes DEF TypeOK, AtOperation
<1>3. /\ applied \in Seq(Entry)
      /\ \A i \in 1..Len(applied) : applied[i] \in Entry /\ applied[i].op \in Int
  <2>1. applied \in Seq(Entry)
    BY <1>1, Zenon DEF TypeOK
  <2>2. \A e \in Entry : e.op \in Int
    BY <1>1, ScenarioTypes
  <2> HIDE DEF Entry
  <2>3. QED
    BY <2>1, <2>2
<1>4. /\ \A i \in 1..Len(applied) : applied[i].at >= events[applied[i].op].at_seconds
      /\ \A i, j \in 1..Len(applied) : i < j => applied[i].op < applied[j].op
  BY <1>1 DEF ReplayKeepsTime
<1>5. /\ \A i \in 1..Len(applied) : applied[i].op < next
      /\ \A n \in (1..(next - 1)) \ refused : \E i \in 1..Len(applied) : applied[i].op = n
  BY <1>1 DEF Progress, AtOperation
<1>6. CASE TakesEffect
  <2> DEFINE e == [op |-> next, at |-> clock]
             k == Len(applied) + 1
  <2>1. applied' = Append(applied, e) /\ e \in Entry
    BY <1>2, <1>6 DEF TakesEffect
  <2>2. Len(applied) \in Nat
    BY <1>3
  <2>3. e.op = next /\ e.at = clock
    OBVIOUS
  <2> HIDE DEF e, Entry
  <2>4. /\ applied' \in Seq(Entry) /\ Len(applied') = k
        /\ \A i \in 1..Len(applied) : applied'[i] = applied[i]
        /\ applied'[k] = e
    BY <1>3, <2>1
  <2>5. \A i \in 1..k : i = k \/ i \in 1..Len(applied)
    BY <2>2
  <2>6. clock >= events[next].at_seconds
    BY DEF AtOperation, Due
  <2>7. \A i \in 1..Len(applied') : applied'[i].at >= events[applied'[i].op].at_seconds
    BY <1>4, <2>3, <2>4, <2>5, <2>6
  <2>8. \A i \in 1..Len(applied') : applied'[i].op < next + 1
    BY <1>2, <1>3, <1>5, <2>3, <2>4, <2>5
  <2>9. \A i, j \in 1..Len(applied') : i < j => applied'[i].op < applied'[j].op
    <3> SUFFICES ASSUME NEW i \in 1..k, NEW j \in 1..k, i < j
                 PROVE  applied'[i].op < applied'[j].op
      BY <2>4
    <3>1. i \in 1..Len(applied)
      BY <2>2
    <3>2. QED
      BY <1>4, <1>5, <2>3, <2>4, <2>5, <3>1
  <2>10. \A n \in (1..(next - 1)) \ refused : \E i \in 1..Len(applied') : applied'[i].op = n
    <3>1. 1..Len(applied) \subseteq 1..Len(applied')
      BY <2>2, <2>4
    <3>2. QED
      BY <1>5, <2>4, <3>1
  <2>11. k \in 1..Len(applied') /\ applied'[k].op = next
    BY <2>2, <2>3, <2>4
  <2>12. QED
    BY <2>4, <2>7, <2>8, <2>9, <2>10, <2>11 DEF Entry
<1>7. CASE applied' = applied /\ ~TakesEffect
  <2>1. \A i \in 1..Len(applied) : applied[i].op < next + 1
    BY <1>2, <1>3, <1>5
  <2>2. QED
    BY <1>3, <1>4, <1>5, <1>7, <2>1
<1>8. QED
  BY <1>6, <1>7 DEF NoEffect

(* The driver comes to an operation and goes on, or gives up there.        *)
LEMMA OperationKeepsQkdInv ==
  ASSUME QkdInv, AtOperation, TakesEffect \/ NoEffect,
         \/ driver' = driver /\ next' = next + 1 /\ refused' = refused /\ TakesEffect
         \/ driver' = driver /\ next' = next + 1 /\ refused' = refused \union {next}
         \/ driver' = "failed" /\ next' = next /\ refused' = refused,
         faults' \in 0..MaxFaults,
         UNCHANGED <<sae, scenario, collector, latest, clock>>
  PROVE  QkdInv'
<1> USE DEF QkdInv
<1>1. /\ UNCHANGED <<made, issued, slave, scenario, pc, cycle, ev, latest, clock>>
      /\ events' = events
  BY DEF sae, collector, events
<1>2. TypeOK
  OBVIOUS
<1>3. Len(events) \in Nat /\ next \in 1..Len(events) /\ next \in Nat /\ driver = "run"
  BY <1>2, ScenarioTypes DEF TypeOK, AtOperation
<1>4. /\ StateIsKnown' /\ \A j \in Kme : been[j] \subseteq been'[j]
      /\ been' \in [Kme -> SUBSET (Health \union {"refuses"})]
  BY HistoryGrows DEF TakesEffect, NoEffect, emulator
<1>5. /\ qber' \in [Kme -> 0..MaxQber] /\ forced' \in [Kme -> BOOLEAN]
      /\ up' = up /\ keys' = keys
  <2>1. CASE TakesEffect
    BY <1>2, <2>1, ControlTypes DEF TakesEffect, AtOperation
  <2>2. CASE NoEffect
    BY <1>2, <2>2 DEF NoEffect, emulator, TypeOK
  <2>3. QED
    BY <2>1, <2>2
<1>6. applied' \in Seq([op : 1..Len(events), at : 0..MaxTime])
  BY <1>1, OperationHistory
<1>7. TypeOK'
  <2>1. next' \in 1..(Len(events) + 1)
    BY <1>3
  <2>2. refused' \subseteq 1..Len(events)
    BY <1>2, <1>3 DEF TypeOK
  <2>3. driver' \in {"start", "rejected", "run", "failed", "complete"}
    BY <1>3
  <2>4. QED
    BY <1>1, <1>2, <1>4, <1>5, <1>6, <2>1, <2>2, <2>3 DEF TypeOK
<1>8. HasKeys'
  BY <1>5 DEF HasKeys
<1>9. Progress'
  <2> SUFFICES ASSUME driver' = driver
               PROVE  /\ \A i \in 1..Len(applied') : applied'[i].op < next + 1
                      /\ \A n \in (1..next) \ refused' : \E i \in 1..Len(applied') : applied'[i].op = n
    BY <1>3 DEF Progress
  <2>1. /\ \A i \in 1..Len(applied') : applied'[i].op < next + 1
        /\ \A n \in (1..(next - 1)) \ refused : \E i \in 1..Len(applied') : applied'[i].op = n
        /\ TakesEffect => \E i \in 1..Len(applied') : applied'[i].op = next
    BY <1>1, OperationHistory
  <2>2. \A n \in 1..next : n = next \/ n \in 1..(next - 1)
    BY <1>3
  <2>3. refused \subseteq refused' /\ (next \in refused' \/ TakesEffect)
    BY <1>3
  <2>4. QED
    BY <2>1, <2>2, <2>3
<1>10. ReplayKeepsTime'
  <2>1. driver' # "complete"
    BY <1>3
  <2>2. QED
    BY <1>1, <2>1, OperationHistory DEF ReplayKeepsTime
<1>11. QED
  BY <1>1, <1>4, <1>7, <1>8, <1>9, <1>10, ReportsStayTrue

LEMMA DriverKeepsQkdInv ==
  ASSUME QkdInv, Driver PROVE QkdInv'
<1> USE DEF QkdInv
<1>1. ASSUME UNCHANGED <<emulator, sae, scenario, next, applied, refused, collector, latest, clock, been>>,
             faults' \in 0..MaxFaults,
             \/ driver = "start" /\ driver' \in {"run", "rejected"}
             \/ /\ driver = "run" /\ next > Len(events) /\ clock >= scenario.duration
                /\ driver' = "complete"
      PROVE  QkdInv'
  <2>1. /\ UNCHANGED <<up, qber, forced, keys, made, issued, slave, scenario, next, applied, refused,
                       pc, cycle, ev, latest, clock, been>>
        /\ events' = events
    BY <1>1 DEF emulator, sae, collector, events
  <2>2. TypeOK'
    BY <1>1, <2>1 DEF TypeOK
  <2>3. HasKeys'
    BY <2>1 DEF HasKeys
  <2>4. Len(events) \in Nat /\ next \in 1..(Len(events) + 1)
    BY ScenarioTypes DEF TypeOK
  <2>5. Progress'
    BY <1>1, <2>1 DEF Progress
  <2>6. ReplayKeepsTime'
    <3>1. driver = "run" /\ next > Len(events) =>
            \A n \in (1..Len(events)) \ refused : \E i \in 1..Len(applied) : applied[i].op = n
      BY <2>4 DEF Progress
    <3>2. QED
      BY <1>1, <2>1, <3>1 DEF ReplayKeepsTime
  <2>7. QED
    BY <2>1, <2>2, <2>3, <2>5, <2>6, HistoryGrows, ReportsStayTrue
<1>2. faults \in 0..MaxFaults
  BY DEF TypeOK
<1>3. ASSUME Validate PROVE QkdInv'
  BY <1>1, <1>2, <1>3 DEF Validate
<1>4. ASSUME Applied PROVE QkdInv'
  BY <1>2, <1>4, OperationKeepsQkdInv DEF Applied
<1>5. ASSUME ControlRefused PROVE QkdInv'
  BY <1>5, FaultType, OperationKeepsQkdInv DEF ControlRefused
<1>6. ASSUME ControlFailed PROVE QkdInv'
  BY <1>2, <1>6, FaultType, OperationKeepsQkdInv DEF ControlFailed
<1>7. ASSUME Complete PROVE QkdInv'
  BY <1>1, <1>2, <1>7 DEF Complete
<1>8. QED
  BY <1>3, <1>4, <1>5, <1>6, <1>7 DEF Driver

-----------------------------------------------------------------------------
(* The collector.                                                          *)
LEMMA PolledKeepsQkdInv ==
  ASSUME QkdInv, Polled PROVE QkdInv'
<1> USE DEF QkdInv
<1>1. PICK k \in cycle :
        /\ ev' = IF forced[k]
                 THEN build_kme_event("unreachable", k, "failed")
                 ELSE build_kme_event("own", k, derive_link_health(qber[k], Cardinality(keys[k])))
        /\ cycle' = cycle \ {k}
  BY DEF Polled
<1>2. /\ pc' = "forward"
      /\ UNCHANGED <<up, qber, forced, keys, made, issued, slave, scenario, driver, next, applied, refused,
                     latest, clock, been, faults>>
      /\ events' = events
  BY DEF Polled, emulator, sae, replay, events
<1>3. k \in Kme /\ clock \in 0..MaxTime
  BY DEF TypeOK
<1>4. Cardinality(keys[k]) # 0
  <2>1. keys[k] \subseteq 1..MaxKeys /\ keys[k] # {}
    BY <1>3 DEF TypeOK, HasKeys
  <2>2. IsFiniteSet(keys[k])
    <3>1. IsFiniteSet(1..MaxKeys)
      BY QkdAssumption, FS_Interval
    <3>2. QED
      BY <2>1, <3>1, FS_Subset
  <2>3. QED
    BY <2>1, <2>2, FS_EmptySet
<1>5. ~forced[k] => derive_link_health(qber[k], Cardinality(keys[k])) = Truth(k)
  <2>1. qber[k] \in Int /\ WarnQber \in Int /\ FailQber \in Int
    BY <1>3, QkdAssumption DEF TypeOK
  <2>2. QED
    BY <1>4, <2>1 DEF derive_link_health, Truth
<1>6. /\ forced[k] => Truth(k) = "refuses"
      /\ ~forced[k] => Truth(k) \in Health
  BY DEF Truth, Health
<1>7. /\ forced[k] => ev' = [id |-> <<"unreachable", k>>, health |-> "failed", at |-> clock]
      /\ ~forced[k] => ev' = [id |-> <<"own", k>>, health |-> Truth(k), at |-> clock]
  BY <1>1, <1>5 DEF build_kme_event
<1>8. ev' \in Event
  BY <1>3, <1>6, <1>7 DEF Event, Identity, Health
<1>9. TypeOK'
  BY <1>1, <1>2, <1>8, NoEventAssumption DEF TypeOK
<1>10. ReportWasTrue'
  <2> SUFFICES ASSUME NEW j \in Kme
               PROVE  /\ ev'.id = <<"own", j>> => ev'.health \in been[j]
                      /\ ev'.id = <<"unreachable", j>> => "refuses" \in been[j]
    BY <1>2 DEF ReportWasTrue
  <2>1. Truth(k) \in been[k]
    BY <1>3 DEF StateIsKnown
  <2>2. CASE forced[k]
    <3>1. ev'.id = <<"unreachable", k>>
      BY <1>7, <2>2
    <3>2. QED
      BY <1>6, <2>1, <2>2, <3>1
  <2>3. CASE ~forced[k]
    <3>1. ev'.id = <<"own", k>> /\ ev'.health = Truth(k)
      BY <1>7, <2>3
    <3>2. QED
      BY <2>1, <2>3, <3>1
  <2>4. QED
    BY <2>2, <2>3
<1>11. StateIsKnown' /\ HasKeys' /\ RowsWereTrue'
  BY <1>2 DEF StateIsKnown, Truth, HasKeys, RowsWereTrue
<1>12. Progress' /\ ReplayKeepsTime'
  BY <1>2 DEF Progress, ReplayKeepsTime
<1>13. QED
  BY <1>9, <1>10, <1>11, <1>12

(* A report is shown, or it is not.                                        *)
LEMMA ForwardKeepsQkdInv ==
  ASSUME QkdInv, pc = "forward", latest' \in {latest, Shown}, pc' = "poll", ev' = NoEvent,
         faults' \in 0..MaxFaults,
         UNCHANGED <<emulator, sae, replay, cycle, clock, been>>
  PROVE  QkdInv'
<1> USE DEF QkdInv
<1>1. /\ UNCHANGED <<up, qber, forced, keys, made, issued, slave, scenario, driver, next, applied, refused,
                     cycle, clock, been>>
      /\ events' = events
  BY DEF emulator, sae, replay, events
<1>2. ev \in Event /\ ev # NoEvent /\ ev.id \in Identity
  BY NoEventAssumption DEF TypeOK, Event
<1>3. \/ latest' = latest
      \/ latest' = [latest EXCEPT ![ev.id] = ev]
      \/ latest' = [latest EXCEPT ![ev.id] = latest[ev.id]]
  BY DEF Shown
<1>4. latest' \in [Identity -> Event \union {NoEvent}]
  BY <1>2, <1>3 DEF TypeOK
<1>5. \A i \in Identity : latest'[i] = latest[i] \/ (i = ev.id /\ latest'[i] = ev)
  BY <1>2, <1>3 DEF TypeOK
<1>6. TypeOK'
  BY <1>1, <1>4 DEF TypeOK
<1>7. RowsWereTrue'
  <2> SUFFICES ASSUME NEW k \in Kme
               PROVE  /\ latest'[<<"own", k>>] # NoEvent => latest'[<<"own", k>>].health \in been[k]
                      /\ latest'[<<"unreachable", k>>] # NoEvent => "refuses" \in been[k]
    BY <1>1 DEF RowsWereTrue
  <2>1. <<"own", k>> \in Identity /\ <<"unreachable", k>> \in Identity
    BY DEF Identity
  <2>2. QED
    BY <1>2, <1>5, <2>1 DEF RowsWereTrue, ReportWasTrue
<1>8. StateIsKnown' /\ HasKeys' /\ ReportWasTrue'
  BY <1>1 DEF StateIsKnown, Truth, HasKeys, ReportWasTrue
<1>9. Progress' /\ ReplayKeepsTime'
  BY <1>1 DEF Progress, ReplayKeepsTime
<1>10. QED
  BY <1>6, <1>7, <1>8, <1>9

LEMMA CollectorKeepsQkdInv ==
  ASSUME QkdInv, Collector PROVE QkdInv'
<1> USE DEF QkdInv
<1>1. ASSUME UNCHANGED <<emulator, sae, replay, ev, latest, clock, been>>,
             cycle' \subseteq Kme, faults' \in 0..MaxFaults,
             pc \in {"idle", "poll"}, pc' \in {"idle", "poll"}
      PROVE  QkdInv'
  <2>1. /\ UNCHANGED <<up, qber, forced, keys, made, issued, slave, scenario, driver, next, applied, refused,
                       ev, latest, clock, been>>
        /\ events' = events
    BY <1>1 DEF emulator, sae, replay, events
  <2>2. TypeOK'
    BY <1>1, <2>1 DEF TypeOK
  <2>3. HasKeys'
    BY <2>1 DEF HasKeys
  <2>4. QED
    BY <2>1, <2>2, <2>3, RestStays
<1>2. cycle \subseteq Kme /\ faults \in 0..MaxFaults
  BY DEF TypeOK
<1>3. ASSUME Tick \/ PollFailed \/ EndCycle PROVE QkdInv'
  <2>1. Fault => faults' \in 0..MaxFaults
    BY FaultType
  <2>2. QED
    BY <1>1, <1>2, <1>3, <2>1 DEF Tick, PollFailed, EndCycle
<1>4. ASSUME Forwarded \/ ForwardFailed PROVE QkdInv'
  <2>1. faults' \in 0..MaxFaults
    BY <1>2, <1>4, FaultType DEF Forwarded, ForwardFailed
  <2>2. QED
    BY <1>4, <2>1, ForwardKeepsQkdInv DEF Forwarded, ForwardFailed
<1>5. QED
  BY <1>3, <1>4, PolledKeepsQkdInv DEF Collector

LEMMA ClockKeepsQkdInv ==
  ASSUME QkdInv, Clock PROVE QkdInv'
<1> USE DEF QkdInv
<1>1. /\ clock' \in 0..MaxTime /\ clock' \in Int /\ clock <= clock' /\ UNCHANGED replay
      /\ UNCHANGED <<up, qber, forced, keys, made, issued, slave, scenario, driver, next, applied, refused,
                     pc, cycle, ev, latest, been, faults>>
  BY QkdAssumption DEF Clock, TypeOK, emulator, sae, replay, collector
<1>2. TypeOK'
  BY <1>1 DEF TypeOK, events
<1>3. HasKeys'
  BY <1>1 DEF HasKeys
<1>4. Progress' /\ ReplayKeepsTime'
  BY <1>1, ReplayStays
<1>5. QED
  BY <1>1, <1>2, <1>3, <1>4, HistoryGrows, ReportsStayTrue

LEMMA QkdInvNext == QkdInv /\ [Next]_vars => QkdInv'
<1> SUFFICES ASSUME QkdInv, [Next]_vars PROVE QkdInv'
  OBVIOUS
<1>1. ASSUME UNCHANGED vars PROVE QkdInv'
  <2>1. UNCHANGED <<up, qber, forced, keys, made, issued, slave, scenario, driver, next, applied, refused,
                    pc, cycle, ev, latest, clock, been, faults>>
    BY <1>1 DEF vars, emulator, sae, replay, collector
  <2>2. TypeOK' /\ HasKeys'
    BY <2>1 DEF QkdInv, TypeOK, events, HasKeys
  <2>3. QED
    BY <2>1, <2>2, RestStays DEF QkdInv
<1>2. QED
  BY <1>1, SaeKeepsQkdInv, DieKeepsQkdInv, RebornKeepsQkdInv, DriverKeepsQkdInv,
     CollectorKeepsQkdInv, ClockKeepsQkdInv DEF Next

(* The invariant holds throughout.                                         *)
LEMMA QkdInvariant == Spec => []QkdInv
BY QkdInvInit, QkdInvNext, PTL DEF Spec

(* Emulators, driver, collector and rows keep their types: whatever is     *)
(* asked of it, a QBER stays between 0 and 1 (emulator/mod.rs,             *)
(* handle_control), and the driver never steps beyond the end of its       *)
(* events (bin/replay.rs, main).                                           *)
THEOREM QkdTypes == Spec => []TypeOK
<1>1. QkdInv => TypeOK
  BY DEF QkdInv
<1>2. QED
  BY <1>1, QkdInvariant, PTL

(* A row says of a KME what was so, for every pair of thresholds, whatever *)
(* died, was lost or came late (collector/mod.rs, derive_link_health and   *)
(* poll_once).                                                             *)
THEOREM QkdRowsWereTrue == Spec => []RowsWereTrue
<1>1. QkdInv => RowsWereTrue
  BY DEF QkdInv
<1>2. QED
  BY <1>1, QkdInvariant, PTL

(* For every scenario file: no operation takes effect early, twice or out  *)
(* of order, whatever was lost or refused, and a driver that completes has *)
(* slept through the duration and left none undone but those that were     *)
(* answered with an error (bin/replay.rs, main).                           *)
THEOREM QkdReplayKeepsTime == Spec => []ReplayKeepsTime
<1>1. QkdInv => ReplayKeepsTime
  BY DEF QkdInv
<1>2. QED
  BY <1>1, QkdInvariant, PTL

=============================================================================
