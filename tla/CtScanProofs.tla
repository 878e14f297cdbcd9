---------------------------- MODULE CtScanProofs ----------------------------
(***************************************************************************)
(* Theorems about the CT-log scan, for any number of domains, of entries   *)
(* and of faults.  The log only grows at its top, and a walk goes through  *)
(* the entries of its list from the smallest: whatever is above every mark *)
(* at one point is above every mark that a walk, a save or a load makes of *)
(* them, until it is sent.                                                 *)
(***************************************************************************)
EXTENDS CtScan, FiniteSetTheorems, WellFoundedInduction, TLAPS

Running == pc \notin {"idle", "refused"}

(* No mark, and no list, is ahead of the log.                              *)
TopOK ==
  /\ \A d \in Domain : /\ log[d] \subseteq 1..top
                       /\ file.marks[d] <= top
                       /\ seen[d] <= top
  /\ new_max <= top

(* Outside a walk nothing of one is left.  Inside one, an entry of the     *)
(* domain that is no longer to be walked is done with, or was logged after *)
(* the list was made.                                                      *)
WalkOK ==
  /\ pc # "walk" => entries = {}
  /\ pc = "walk" =>
       /\ entries \subseteq log[domain]
       /\ seen[domain] <= new_max
       /\ domain \notin todo
       /\ \A id \in log[domain] \ entries :
            \/ <<domain, id>> \in inventory \union failed
            \/ \A j \in entries : j < id

(* What this run has sent is below a mark the run will save.               *)
FreshOK ==
  \A d \in Domain, id \in Id :
    <<d, id>> \in fresh =>
      /\ Running
      /\ d \notin todo
      /\ d = domain => id <= new_max /\ id \notin entries
      /\ d # domain => id <= seen[d]

(* What an earlier run has sent is below the marks the file holds, or was  *)
(* forgotten.                                                              *)
SentOK ==
  /\ forgotten \union fresh \subseteq inventory
  /\ \A d \in Domain, id \in Id :
       <<d, id>> \in inventory \ (forgotten \union fresh) =>
         /\ pc # "fill" => id <= file.marks[d]
         /\ Running => id <= seen[d]

CtInv ==
  /\ TypeOK
  /\ TopOK
  /\ WalkOK
  /\ PassedOverOnlyIfFailed
  /\ FreshOK
  /\ SentOK
  /\ RepeatedOnlyIfForgotten

-----------------------------------------------------------------------------
(* A walk has a smallest entry.                                            *)
LEMMA MinIsLeast ==
  ASSUME NEW S \in SUBSET Nat, S # {}
  PROVE  Min(S) \in S /\ \A y \in S : Min(S) <= y
<1>1. PICK x \in S : \A y \in S : ~(<<y, x>> \in OpToRel(<, Nat))
  BY NatLessThanWellFounded, WFMin
<1>2. ASSUME NEW y \in S PROVE x <= y
  <2>1. OpToRel(<, Nat) = {ss \in Nat \X Nat : ss[1] < ss[2]}
    BY DEF OpToRel
  <2>2. <<y, x>> \in Nat \X Nat /\ ~(y < x)
    BY <1>1, <2>1
  <2>3. QED
    BY <2>2
<1>3. QED
  BY <1>2 DEF Min

LEMMA MaxOfTwo ==
  ASSUME NEW a \in Nat, NEW b \in Nat
  PROVE  Max({a, b}) = IF a >= b THEN a ELSE b
<1>1. \E x \in {a, b} : \A y \in {a, b} : x >= y
  OBVIOUS
<1>2. Max({a, b}) \in {a, b} /\ \A y \in {a, b} : Max({a, b}) >= y
  BY <1>1 DEF Max
<1>3. QED
  BY <1>2

(* Before the first run.                                                   *)
LEMMA CtInvInit == Init => CtInv
<1> SUFFICES ASSUME Init PROVE CtInv
  OBVIOUS
<1> USE CtAssumption DEF Init, Without, NoMarks
<1>1. TypeOK
  BY DEF TypeOK, Marks, Entry, Id
<1>2. TopOK /\ WalkOK /\ PassedOverOnlyIfFailed
  BY DEF TopOK, WalkOK, PassedOverOnlyIfFailed
<1>3. FreshOK /\ SentOK /\ RepeatedOnlyIfForgotten
  BY DEF FreshOK, SentOK, RepeatedOnlyIfForgotten
<1>4. QED
  BY <1>1, <1>2, <1>3 DEF CtInv

(* What is logged is above every mark and every list.                      *)
LEMMA LoggedKeepsInv == CtInv /\ Logged => CtInv'
<1> SUFFICES ASSUME CtInv, Logged PROVE CtInv'
  OBVIOUS
<1> USE CtAssumption DEF CtInv
<1>1. /\ top \in Nat /\ top' = top + 1 /\ top' \in Id /\ top < MaxId
      /\ \A d \in Domain : log[d] \subseteq log'[d] /\ log'[d] \subseteq log[d] \union {top'}
      /\ log' \in [Domain -> SUBSET Id]
      /\ UNCHANGED <<file, pc, run, inventory, failed, ghosts, faults>>
  BY DEF Logged, TypeOK, Id
<1> USE DEF run, ghosts
<1>2. TypeOK'
  BY <1>1 DEF TypeOK, Id
<1>3. TopOK'
  BY <1>1 DEF TopOK, TypeOK, Marks, Id
<1>4. WalkOK'
  <2> SUFFICES ASSUME pc = "walk"
               PROVE  /\ entries \subseteq log'[domain]
                      /\ \A id \in log'[domain] \ entries :
                           \/ <<domain, id>> \in inventory \union failed
                           \/ \A j \in entries : j < id
    BY <1>1 DEF WalkOK
  <2>1. domain \in Domain
    BY DEF TypeOK
  <2>2. \A j \in entries : j < top'
    BY <1>1, <2>1 DEF WalkOK, TopOK, TypeOK, Id
  <2>3. QED
    BY <1>1, <2>1, <2>2 DEF WalkOK
<1>5. PassedOverOnlyIfFailed'
  <2> SUFFICES ASSUME NEW d \in Domain, NEW id \in log'[d],
                      <<d, id>> \notin inventory \union failed
               PROVE  /\ id > seen[d] \/ pc \in {"idle", "refused"}
                      /\ id > file.marks[d]
                      /\ d = domain => id > new_max
    BY <1>1 DEF PassedOverOnlyIfFailed
  <2>1. CASE id \in log[d]
    BY <2>1 DEF PassedOverOnlyIfFailed
  <2>2. CASE id = top'
    BY <1>1, <2>2 DEF TopOK, TypeOK, Marks
  <2>3. QED
    BY <1>1, <2>1, <2>2
<1>6. FreshOK' /\ SentOK' /\ RepeatedOnlyIfForgotten'
  BY <1>1 DEF FreshOK, SentOK, RepeatedOnlyIfForgotten, Running
<1>7. QED
  BY <1>2, <1>3, <1>4, <1>5, <1>6

(* A run starts from the marks of the file, which are below whatever is    *)
(* not sent and above whatever is not forgotten.                           *)
LEMMA LoadKeepsInv == CtInv /\ Load => CtInv'
<1> SUFFICES ASSUME CtInv, Load PROVE CtInv'
  OBVIOUS
<1> USE CtAssumption DEF CtInv, Load, ghosts
<1>1. TypeOK'
  BY DEF TypeOK
<1>2. TopOK' /\ WalkOK'
  BY DEF TopOK, WalkOK
<1>3. PassedOverOnlyIfFailed'
  BY DEF PassedOverOnlyIfFailed
<1>4. FreshOK' /\ SentOK' /\ RepeatedOnlyIfForgotten'
  BY DEF FreshOK, SentOK, RepeatedOnlyIfForgotten, Running
<1>5. QED
  BY <1>1, <1>2, <1>3, <1>4

(* A domain is listed, or skipped.                                         *)
LEMMA ListKeepsInv == CtInv /\ (List \/ ListFailed) => CtInv'
<1> USE CtAssumption DEF CtInv, ghosts
<1>1. ASSUME CtInv, List PROVE CtInv'
  <2> USE <1>1
  <2>1. PICK d \in todo : /\ todo' = todo \ {d} /\ domain' = d
                          /\ entries' = log[d] /\ new_max' = seen[d]
    BY DEF List
  <2>2. /\ d \in Domain /\ pc = "list" /\ pc' = "walk" /\ domain = NoDomain
        /\ UNCHANGED <<log, top, file, seen, inventory, failed, ghosts, faults>>
    BY <2>1 DEF List, TypeOK
  <2>3. TypeOK'
    BY <2>1, <2>2 DEF TypeOK, Marks
  <2>4. TopOK' /\ WalkOK'
    BY <2>1, <2>2 DEF TopOK, WalkOK, TypeOK, Marks
  <2>5. PassedOverOnlyIfFailed'
    BY <2>1, <2>2 DEF PassedOverOnlyIfFailed
  <2>6. FreshOK' /\ SentOK' /\ RepeatedOnlyIfForgotten'
    BY <2>1, <2>2 DEF FreshOK, SentOK, RepeatedOnlyIfForgotten, Running
  <2>7. QED
    BY <2>3, <2>4, <2>5, <2>6
<1>2. ASSUME CtInv, ListFailed PROVE CtInv'
  <2> USE <1>2
  <2>1. PICK d \in todo : todo' = todo \ {d}
    BY DEF ListFailed
  <2>2. /\ pc = "list" /\ faults' \in 0..MaxFaults
        /\ UNCHANGED <<log, top, file, pc, seen, domain, entries, new_max, inventory,
                       failed, ghosts>>
    BY DEF ListFailed, Fault, TypeOK
  <2>3. TypeOK'
    BY <2>1, <2>2 DEF TypeOK
  <2>4. TopOK' /\ WalkOK' /\ PassedOverOnlyIfFailed'
    BY <2>2 DEF TopOK, WalkOK, PassedOverOnlyIfFailed
  <2>5. FreshOK' /\ SentOK' /\ RepeatedOnlyIfForgotten'
    BY <2>1, <2>2 DEF FreshOK, SentOK, RepeatedOnlyIfForgotten, Running
  <2>6. QED
    BY <2>3, <2>4, <2>5
<1>3. QED
  BY <1>1, <1>2

(* The step of a walk that all ways of dealing with an entry share: once   *)
(* the entry is done with, what is not is above it.                        *)
LEMMA WalkStep ==
  ASSUME CtInv, NEW id \in entries, Walk(id),
         inventory \subseteq inventory', failed \subseteq failed',
         <<domain, id>> \in inventory' \union failed',
         new_max' \in {new_max, Max({new_max, id})}
  PROVE  /\ domain \in Domain /\ id \in Id /\ pc = "walk"
         /\ new_max' \in 0..MaxId /\ new_max <= new_max'
         /\ TopOK' /\ WalkOK' /\ PassedOverOnlyIfFailed'
<1> USE CtAssumption DEF CtInv
<1>1. /\ pc = "walk" /\ domain \in Domain /\ domain \notin todo /\ id \in Id
      /\ id = Min(entries) /\ entries' = entries \ {id}
      /\ id \in log[domain]
      /\ UNCHANGED <<log, top, file, pc, seen, todo, domain>>
  BY DEF Walk, TypeOK, WalkOK
<1>2. \A j \in entries : id <= j
  BY <1>1, MinIsLeast DEF TypeOK, Id
<1>3. /\ new_max \in Nat /\ new_max' \in Nat /\ new_max <= new_max'
      /\ new_max' = new_max \/ new_max' = id
  BY <1>1, MaxOfTwo DEF TypeOK, Id
<1>4. new_max' \in 0..MaxId
  BY <1>1, <1>3 DEF TypeOK, Id
<1>5. TopOK'
  BY <1>1, <1>3 DEF TopOK, TypeOK
<1>6. WalkOK'
  <2>1. seen[domain] \in Nat /\ seen[domain] <= new_max'
    BY <1>1, <1>3 DEF WalkOK, TypeOK, Marks
  <2>2. QED
    BY <1>1, <2>1 DEF WalkOK
<1>7. PassedOverOnlyIfFailed'
  <2> SUFFICES ASSUME NEW d \in Domain, NEW i \in log[d],
                      <<d, i>> \notin inventory' \union failed'
               PROVE  /\ i > seen[d] \/ pc \in {"idle", "refused"}
                      /\ i > file.marks[d]
                      /\ d = domain => i > new_max'
    BY <1>1 DEF PassedOverOnlyIfFailed
  <2>1. <<d, i>> \notin inventory \union failed /\ i \in Id
    BY DEF TypeOK
  <2>2. /\ i > seen[d] \/ pc \in {"idle", "refused"}
        /\ i > file.marks[d]
        /\ d = domain => i > new_max
    BY <2>1 DEF PassedOverOnlyIfFailed
  <2>3. d = domain => i > id
    <3>1. CASE d = domain /\ i \in entries
      BY <1>1, <1>2, <3>1 DEF Id
    <3>2. CASE d = domain /\ i \notin entries
      BY <1>1, <2>1, <3>2 DEF WalkOK, Id
    <3>3. QED
      BY <3>1, <3>2
  <2>4. QED
    BY <1>3, <2>2, <2>3
<1>8. QED
  BY <1>1, <1>3, <1>4, <1>5, <1>6, <1>7

(* An entry at or below the mark was done with by an earlier run.          *)
LEMMA BelowKeepsInv ==
  ASSUME CtInv, NEW id \in entries, Below(id)
  PROVE  CtInv'
<1> USE DEF CtInv, ghosts
<1>1. /\ Walk(id) /\ ~Above(id)
      /\ UNCHANGED <<new_max, inventory, failed, ghosts, faults>>
  BY DEF Below
<1>2. <<domain, id>> \in inventory \union failed
  <2>1. domain \in Domain /\ id \in log[domain] /\ pc = "walk" /\ id \in Nat
    BY <1>1 DEF Walk, WalkOK, TypeOK, Id
  <2>2. ~(id > seen[domain])
    BY <1>1 DEF Above
  <2>3. QED
    BY <2>1, <2>2 DEF PassedOverOnlyIfFailed
<1>3. /\ domain \in Domain /\ id \in Id
      /\ TopOK' /\ WalkOK' /\ PassedOverOnlyIfFailed'
  BY <1>1, <1>2, WalkStep
<1>4. TypeOK'
  BY <1>1 DEF Walk, TypeOK
<1>5. FreshOK' /\ SentOK' /\ RepeatedOnlyIfForgotten'
  BY <1>1 DEF Walk, FreshOK, SentOK, RepeatedOnlyIfForgotten, Running
<1>6. QED
  BY <1>3, <1>4, <1>5

(* An entry that is sent again is above its mark and not of this run: it   *)
(* was forgotten.                                                          *)
LEMMA ShippedKeepsInv ==
  ASSUME CtInv, NEW id \in entries, Shipped(id)
  PROVE  CtInv'
<1> USE DEF CtInv
<1> DEFINE e == <<domain, id>>
<1>1. /\ Walk(id) /\ id > seen[domain]
      /\ inventory' = inventory \union {e}
      /\ again' = IF e \in inventory THEN again \union {e} ELSE again
      /\ fresh' = fresh \union {e}
      /\ new_max' = Max({new_max, id})
      /\ UNCHANGED <<failed, forgotten, faults>>
  BY DEF Shipped, Above
<1>2. /\ pc = "walk" /\ domain \in Domain /\ domain \notin todo /\ id \in Id
      /\ entries' = entries \ {id}
      /\ UNCHANGED <<log, top, file, pc, seen, todo, domain>>
  BY <1>1 DEF Walk, TypeOK, WalkOK
<1>3. /\ new_max' \in 0..MaxId /\ new_max <= new_max'
      /\ TopOK' /\ WalkOK' /\ PassedOverOnlyIfFailed'
  BY <1>1, WalkStep
<1>4. id <= new_max' /\ new_max \in Nat
  BY <1>1, <1>2, MaxOfTwo DEF TypeOK, Id
<1>5. TypeOK'
  BY <1>1, <1>2, <1>3 DEF TypeOK, Entry
<1>6. FreshOK'
  <2> SUFFICES ASSUME NEW d \in Domain, NEW i \in Id, <<d, i>> \in fresh'
               PROVE  /\ d \notin todo
                      /\ d = domain => i <= new_max' /\ i \notin entries'
                      /\ d # domain => i <= seen[d]
    BY <1>2 DEF FreshOK, Running
  <2>1. CASE <<d, i>> = e
    BY <1>2, <1>4, <2>1
  <2>2. CASE <<d, i>> \in fresh
    BY <1>2, <1>3, <1>4, <2>2 DEF FreshOK, Id
  <2>3. QED
    BY <1>1, <2>1, <2>2
<1>7. SentOK'
  BY <1>1, <1>2 DEF SentOK, Running
<1>8. RepeatedOnlyIfForgotten'
  <2>1. e \in inventory => e \in forgotten
    <3>1. e \notin fresh
      BY <1>2 DEF FreshOK
    <3>2. pc # "idle" /\ pc # "refused" /\ seen[domain] \in Nat /\ id \in Nat
      BY <1>2 DEF TypeOK, Marks, Id
    <3>3. QED
      BY <1>1, <1>2, <3>1, <3>2 DEF SentOK, Running
  <2>2. QED
    BY <1>1, <2>1 DEF RepeatedOnlyIfForgotten
<1>9. QED
  BY <1>3, <1>5, <1>6, <1>7, <1>8

(* An entry that fails is done with as well.                               *)
LEMMA FailureKeepsInv ==
  ASSUME CtInv, NEW id \in entries, Unsent(id) \/ FetchFailed(id)
  PROVE  CtInv'
<1> USE DEF CtInv, ghosts
<1>1. /\ Walk(id)
      /\ failed' = failed \union {<<domain, id>>}
      /\ new_max' \in {new_max, Max({new_max, id})}
      /\ faults' \in 0..MaxFaults
      /\ UNCHANGED <<inventory, ghosts>>
  BY CtAssumption DEF Unsent, FetchFailed, Fault, TypeOK
<1>2. /\ pc = "walk" /\ domain \in Domain /\ domain \notin todo /\ id \in Id
      /\ entries' = entries \ {id}
      /\ UNCHANGED <<log, top, file, pc, seen, todo, domain>>
  BY <1>1 DEF Walk, TypeOK, WalkOK
<1>3. /\ new_max' \in 0..MaxId /\ new_max <= new_max'
      /\ TopOK' /\ WalkOK' /\ PassedOverOnlyIfFailed'
  BY <1>1, WalkStep
<1>4. TypeOK'
  BY <1>1, <1>2, <1>3 DEF TypeOK, Entry
<1>5. FreshOK'
  <2>1. \A i \in Id : i <= new_max => i <= new_max'
    BY <1>3 DEF TypeOK, Id
  <2>2. QED
    BY <1>1, <1>2, <2>1 DEF FreshOK, Running
<1>6. SentOK' /\ RepeatedOnlyIfForgotten'
  BY <1>1, <1>2 DEF SentOK, Running, RepeatedOnlyIfForgotten
<1>7. QED
  BY <1>3, <1>4, <1>5, <1>6

(* The walk is over: the domain's mark is the highest entry that was sent. *)
LEMMA EndDomainKeepsInv == CtInv /\ EndDomain => CtInv'
<1> SUFFICES ASSUME CtInv, EndDomain PROVE CtInv'
  OBVIOUS
<1> USE CtAssumption DEF CtInv, ghosts
<1>1. /\ pc = "walk" /\ pc' = "list" /\ entries = {}
      /\ domain \in Domain /\ domain \notin todo
      /\ seen' = [seen EXCEPT ![domain] = new_max]
      /\ domain' = NoDomain /\ new_max' = 0
      /\ new_max \in 0..MaxId /\ seen[domain] <= new_max
      /\ UNCHANGED <<log, top, file, todo, entries, inventory, failed, ghosts, faults>>
  BY DEF EndDomain, TypeOK, WalkOK
<1>2. \A d \in Domain : seen'[d] = IF d = domain THEN new_max ELSE seen[d]
  BY <1>1 DEF TypeOK, Marks
<1>3. TypeOK'
  BY <1>1 DEF TypeOK, Marks
<1>4. TopOK' /\ WalkOK'
  BY <1>1, <1>2 DEF TopOK, WalkOK, TypeOK
<1>5. PassedOverOnlyIfFailed'
  BY <1>1, <1>2 DEF PassedOverOnlyIfFailed
<1>6. FreshOK'
  BY <1>1, <1>2 DEF FreshOK, Running
<1>7. SentOK'
  <2>1. \A d \in Domain : seen[d] \in Nat /\ seen[d] <= seen'[d]
    BY <1>1, <1>2 DEF TypeOK, Marks
  <2>2. \A d \in Domain, id \in Id : id <= seen[d] => id <= seen'[d]
    BY <1>1, <1>2, <2>1 DEF Id
  <2>3. QED
    BY <1>1, <2>2 DEF SentOK, Running
<1>8. RepeatedOnlyIfForgotten'
  BY <1>1 DEF RepeatedOnlyIfForgotten
<1>9. QED
  BY <1>3, <1>4, <1>5, <1>6, <1>7, <1>8

(* Cursor::save: at the end of a run its marks cover whatever it sent.     *)
LEMMA SaveKeepsInv == CtInv /\ (EndDomains \/ SaveOpen \/ SaveFill) => CtInv'
<1> USE CtAssumption DEF CtInv, ghosts, run
<1>1. ASSUME CtInv, EndDomains PROVE CtInv'
  <2> USE <1>1 DEF EndDomains
  <2>1. TypeOK' /\ TopOK' /\ WalkOK' /\ PassedOverOnlyIfFailed'
    BY DEF TypeOK, TopOK, WalkOK, PassedOverOnlyIfFailed
  <2>2. FreshOK' /\ SentOK' /\ RepeatedOnlyIfForgotten'
    BY DEF FreshOK, SentOK, RepeatedOnlyIfForgotten, Running
  <2>3. QED
    BY <2>1, <2>2
<1>2. ASSUME CtInv, SaveOpen PROVE CtInv'
  <2> USE <1>2 DEF SaveOpen, Without, NoMarks
  <2>1. TypeOK'
    BY DEF TypeOK, Marks
  <2>2. TopOK' /\ WalkOK'
    BY DEF TopOK, WalkOK, TypeOK
  <2>3. PassedOverOnlyIfFailed'
    <3>1. \A d \in Domain : \A id \in log[d] : id \in Nat /\ id > 0
      BY DEF TypeOK, Id
    <3>2. pc' = "fill" /\ pc = "open" /\ \A d \in Domain : file'.marks[d] = 0
      OBVIOUS
    <3>3. QED
      BY <3>1, <3>2 DEF PassedOverOnlyIfFailed
  <2>4. FreshOK' /\ SentOK' /\ RepeatedOnlyIfForgotten'
    BY DEF FreshOK, SentOK, RepeatedOnlyIfForgotten, Running
  <2>5. QED
    BY <2>1, <2>2, <2>3, <2>4
<1>3. ASSUME CtInv, SaveFill PROVE CtInv'
  <2> USE <1>3 DEF SaveFill, Exit
  <2>1. pc = "fill" /\ domain = NoDomain /\ file' = [kind |-> "cursor", marks |-> seen]
    BY DEF TypeOK, Holding
  <2>2. TypeOK'
    BY <2>1 DEF TypeOK, Marks, NoMarks
  <2>3. TopOK' /\ WalkOK'
    BY <2>1 DEF TopOK, WalkOK, TypeOK, NoMarks
  <2>4. PassedOverOnlyIfFailed'
    <3>1. pc' = "idle" /\ file'.marks = seen /\ domain' = NoDomain
      BY <2>1
    <3>2. pc \notin {"idle", "refused"}
      BY <2>1
    <3>3. QED
      BY <3>1, <3>2 DEF PassedOverOnlyIfFailed
  <2>5. FreshOK' /\ RepeatedOnlyIfForgotten'
    BY DEF FreshOK, RepeatedOnlyIfForgotten
  <2>6. SentOK'
    <3>1. \A d \in Domain, id \in Id :
            <<d, id>> \in inventory \ forgotten => id <= seen[d]
      BY <2>1 DEF SentOK, FreshOK, Running
    <3>2. QED
      BY <2>1, <3>1 DEF SentOK, Running
  <2>7. QED
    BY <2>2, <2>3, <2>4, <2>5, <2>6
<1>4. QED
  BY <1>1, <1>2, <1>3

(* A run that dies forgets what it sent; one that dies while it writes the *)
(* file forgets everything.                                                *)
LEMMA CrashKeepsInv == CtInv /\ Crash => CtInv'
<1> SUFFICES ASSUME CtInv, Crash PROVE CtInv'
  OBVIOUS
<1> USE CtAssumption DEF CtInv, Crash, Exit
<1>1. /\ pc' = "idle" /\ seen' = [d \in Domain |-> 0] /\ todo' = {} /\ entries' = {}
      /\ domain' = NoDomain /\ new_max' = 0 /\ fresh' = {}
      /\ faults' \in 0..MaxFaults
      /\ UNCHANGED <<log, top, inventory, failed, again>>
  BY DEF Fault, TypeOK, NoMarks
<1>2. /\ file'.kind \in {"absent", "empty", "garbage", "cursor"}
      /\ file' \in [kind : {"absent", "empty", "garbage", "cursor"}, marks : Marks]
      /\ file'.kind # "cursor" => file'.marks = NoMarks
      /\ file'.marks = file.marks \/ file'.marks = [d \in Domain |-> 0]
  BY DEF Without, TypeOK, NoMarks, Marks
<1>3. forgotten \subseteq forgotten' /\ forgotten' \subseteq Entry
  <2>1. CASE pc # "fill"
    BY <2>1 DEF TypeOK
  <2>2. CASE pc = "fill"
    BY <2>2 DEF TypeOK, SentOK
  <2>3. QED
    BY <2>1, <2>2
<1>4. TypeOK'
  BY <1>1, <1>2, <1>3 DEF TypeOK, Marks
<1>5. TopOK' /\ WalkOK'
  BY <1>1, <1>2 DEF TopOK, WalkOK, TypeOK
<1>6. PassedOverOnlyIfFailed'
  <2>1. \A d \in Domain : \A id \in log[d] : id \in Nat /\ id > 0
    BY DEF TypeOK, Id
  <2>2. ASSUME NEW d \in Domain PROVE file'.marks[d] \in {file.marks[d], 0}
    BY <1>2
  <2>3. QED
    BY <1>1, <2>1, <2>2 DEF PassedOverOnlyIfFailed
<1>7. FreshOK'
  BY <1>1 DEF FreshOK
<1>8. SentOK' /\ RepeatedOnlyIfForgotten'
  BY <1>1, <1>3 DEF SentOK, Running, RepeatedOnlyIfForgotten
<1>9. QED
  BY <1>4, <1>5, <1>6, <1>7, <1>8

(* Every step keeps the invariant.                                         *)
LEMMA CtInvNext == CtInv /\ [Next]_vars => CtInv'
<1>1. CtInv /\ UNCHANGED vars => CtInv'
  BY DEF CtInv, vars, run, ghosts, TypeOK, TopOK, WalkOK, PassedOverOnlyIfFailed,
         FreshOK, SentOK, RepeatedOnlyIfForgotten, Running
<1>2. QED
  BY <1>1, LoggedKeepsInv, LoadKeepsInv, ListKeepsInv, BelowKeepsInv, ShippedKeepsInv,
     FailureKeepsInv, EndDomainKeepsInv, SaveKeepsInv, CrashKeepsInv
     DEF Next, Scan

(* The invariant holds throughout.                                         *)
LEMMA CtInvariant == Spec => []CtInv
BY CtInvInit, CtInvNext, PTL DEF Spec

-----------------------------------------------------------------------------
(* The scan keeps its types.                                               *)
THEOREM CtTypes == Spec => []TypeOK
<1>1. CtInv => TypeOK
  BY DEF CtInv
<1>2. QED
  BY <1>1, CtInvariant, PTL

(* An entry at or below a mark was sent, or failed: no certificate is      *)
(* skipped unseen, however the log grows under the scan and wherever the   *)
(* process dies (ct.rs, "only fetches entries with id > max_id_seen").     *)
THEOREM CtNothingSkipped == Spec => []PassedOverOnlyIfFailed
<1>1. CtInv => PassedOverOnlyIfFailed
  BY DEF CtInv
<1>2. QED
  BY <1>1, CtInvariant, PTL

(* An entry is sent again only after a run whose cursor was not kept       *)
(* (ct.rs, Cursor::save).                                                  *)
THEOREM CtRepeatsAreForgotten == Spec => []RepeatedOnlyIfForgotten
<1>1. CtInv => RepeatedOnlyIfForgotten
  BY DEF CtInv
<1>2. QED
  BY <1>1, CtInvariant, PTL

=============================================================================
