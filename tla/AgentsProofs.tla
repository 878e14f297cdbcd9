---------------------------- MODULE AgentsProofs ----------------------------
(***************************************************************************)
(* Theorems about the agents' processes, for every value of the constants. *)
(*                                                                         *)
(* The session cache: the inductive invariant relates the cache to what    *)
(* observe has answered.  An entry that is held is the last fresh          *)
(* observation, and a fresh observation still within its TTL is held       *)
(* unless it was evicted.  The frame loop drives the cache as DedupCache   *)
(* specifies it, so what is proved of the cache holds of the loop, and of  *)
(* the process whatever command it runs.                                   *)
(***************************************************************************)
EXTENDS Agents, FiniteSetTheorems, SequenceTheorems, TLAPS

(* An entry is the instant of the last observation answered "fresh".       *)
EntryIsLastFresh ==
  \A i \in Identity : entries[i] # Never => entries[i] = lastFresh[i]

(* No observation lies in the future.                                      *)
NotInFuture == \A i \in Identity : lastFresh[i] <= now

(* A recent observation is held, or it was given up.                       *)
RecentIsHeld ==
  \A i \in Identity :
    Within(lastFresh[i]) => i \in evicted \/ entries[i] = lastFresh[i]

DedupInv ==
  /\ DedupTypeOK
  /\ EntryIsLastFresh
  /\ NotInFuture
  /\ RecentIsHeld
  /\ CounterTellsEvictions

-----------------------------------------------------------------------------
(* An observation that is recent after the clock has moved was so before.  *)
LEMMA WithinIsMonotone ==
  ASSUME DedupTypeOK, Tick, NEW t \in Instant, t # Never, now' - t < ttl
  PROVE  now - t < ttl
BY DedupAssumption DEF DedupTypeOK, Tick, Instant, Never

(* What observe leaves in the map when it answers "fresh": nothing but     *)
(* the new entry and entries it held before, and of those it keeps every   *)
(* recent one but the victim.                                              *)
LEMMA FreshEntries ==
  ASSUME DedupTypeOK, NEW id \in Identity, Fresh(id)
  PROVE  /\ entries' \in [Identity -> Instant]
         /\ entries'[id] = now
         /\ \A i \in Identity \ {id} :
              entries'[i] # Never => entries'[i] = entries[i]
         /\ \A i \in Identity \ {id} :
              Within(entries[i]) => i \in evicted' \/ entries'[i] = entries[i]
         /\ \A i \in evicted \ {id} : i \in evicted'
         /\ evicted' \subseteq Identity
         /\ forced' \in 0..ForcedMax
         /\ forced' = 0 => forced = 0 /\ evicted' \subseteq evicted
<1> USE DedupAssumption DEF DedupTypeOK, Instant
<1>0. Pruned \in [Identity -> Instant]
  BY DEF Pruned
<1>1. CASE /\ entries' = [Pruned EXCEPT ![id] = now]
           /\ evicted' = evicted \ {id}
           /\ UNCHANGED forced
  BY <1>0, <1>1 DEF Pruned, Kept
<1>2. CASE \E old \in Identity :
             /\ Victim(old)
             /\ entries' = [Pruned EXCEPT ![old] = Never, ![id] = now]
             /\ evicted' = (evicted \union {old}) \ {id}
  <2>1. PICK old \in Identity :
             /\ Victim(old)
             /\ entries' = [Pruned EXCEPT ![old] = Never, ![id] = now]
             /\ evicted' = (evicted \union {old}) \ {id}
    BY <1>2
  <2>2. forced' \in 1..ForcedMax
    BY <2>1 DEF Victim
  <2>3. entries' = [i \in Identity |-> IF i = id THEN now
                                       ELSE IF i = old THEN Never
                                       ELSE Pruned[i]]
    BY <1>0, <2>1
  <2>4. entries' \in [Identity -> Instant] /\ entries'[id] = now
    BY <1>0, <2>3 DEF Never
  <2>5. ASSUME NEW i \in Identity \ {id}
        PROVE  /\ entries'[i] # Never => entries'[i] = entries[i]
               /\ Within(entries[i]) => i \in evicted' \/ entries'[i] = entries[i]
    BY <2>1, <2>3 DEF Pruned, Kept
  <2>6. QED
    BY <2>1, <2>2, <2>4, <2>5
<1>3. QED
  BY <1>1, <1>2 DEF Fresh

(* The cache starts out in the invariant.                                  *)
LEMMA DedupInvInit == DedupInit => DedupInv
BY DedupAssumption
   DEF DedupInit, DedupInv, DedupTypeOK, EntryIsLastFresh, NotInFuture,
       RecentIsHeld, CounterTellsEvictions, Within, Instant, Never

(* Every operation of the cache, and the clock, keep the invariant.        *)
LEMMA DedupInvNext == DedupInv /\ [DedupNext]_dedupVars => DedupInv'
<1> SUFFICES ASSUME DedupInv, [DedupNext]_dedupVars PROVE DedupInv'
  OBVIOUS
<1> USE DEF DedupInv
<1>1. ASSUME UNCHANGED dedupVars PROVE DedupInv'
  BY <1>1 DEF dedupVars, DedupTypeOK, EntryIsLastFresh, NotInFuture,
              RecentIsHeld, CounterTellsEvictions, Within
<1>2. ASSUME NEW id \in Identity, Hit(id) PROVE DedupInv'
  BY <1>1, <1>2 DEF Hit
<1>3. ASSUME NEW id \in Identity, Fresh(id) PROVE DedupInv'
  <2>1. /\ now' = now
        /\ lastFresh' = [lastFresh EXCEPT ![id] = now]
    BY <1>3 DEF Fresh, Observed
  <2>2. DedupTypeOK'
    BY <1>3, <2>1, FreshEntries DEF DedupTypeOK, Instant
  <2>3. EntryIsLastFresh'
    BY <1>3, <2>1, FreshEntries DEF EntryIsLastFresh, DedupTypeOK
  <2>4. NotInFuture'
    BY <2>1 DEF NotInFuture, DedupTypeOK, Instant, Never
  <2>5. RecentIsHeld'
    <3> SUFFICES ASSUME NEW i \in Identity, Within(lastFresh[i])'
                 PROVE  i \in evicted' \/ entries'[i] = lastFresh'[i]
      BY DEF RecentIsHeld
    <3>1. CASE i = id
      BY <3>1, <1>3, <2>1, FreshEntries DEF DedupTypeOK
    <3>2. CASE i # id
      <4>1. lastFresh'[i] = lastFresh[i] /\ Within(lastFresh[i])
        BY <3>2, <2>1 DEF Within, DedupTypeOK
      <4>2. i \in evicted \/ (Within(entries[i]) /\ entries[i] = lastFresh[i])
        BY <4>1 DEF RecentIsHeld
      <4>3. QED
        BY <3>2, <4>1, <4>2, <1>3, FreshEntries
    <3>3. QED
      BY <3>1, <3>2
  <2>6. CounterTellsEvictions'
    BY <1>3, FreshEntries DEF CounterTellsEvictions
  <2>7. QED
    BY <2>2, <2>3, <2>4, <2>5, <2>6
<1>4. ASSUME Tick PROVE DedupInv'
  <2>1. /\ now' = now + 1
        /\ entries' = entries /\ lastFresh' = lastFresh
        /\ forced' = forced /\ evicted' = evicted
    BY <1>4 DEF Tick
  <2>2. DedupTypeOK' /\ NotInFuture' /\ EntryIsLastFresh' /\ CounterTellsEvictions'
    BY <2>1 DEF DedupTypeOK, NotInFuture, EntryIsLastFresh,
                CounterTellsEvictions, Instant, Never
  <2>3. RecentIsHeld'
    <3> SUFFICES ASSUME NEW i \in Identity, Within(lastFresh[i])'
                 PROVE  i \in evicted' \/ entries'[i] = lastFresh'[i]
      BY DEF RecentIsHeld
    <3>1. lastFresh[i] \in Instant /\ lastFresh[i] # Never /\ now' - lastFresh[i] < ttl
      BY <2>1 DEF Within, DedupTypeOK
    <3>2. Within(lastFresh[i])
      BY <1>4, <3>1, WithinIsMonotone DEF Within
    <3>3. QED
      BY <3>2, <2>1 DEF RecentIsHeld
  <2>4. QED
    BY <2>2, <2>3
<1>5. QED
  BY <1>1, <1>2, <1>3, <1>4 DEF DedupNext

-----------------------------------------------------------------------------
(* The invariant holds throughout.                                         *)
LEMMA DedupInvariant == DedupSpec => []DedupInv
BY DedupInvInit, DedupInvNext, PTL DEF DedupSpec

(* The cache keeps its types: among them, the counter stays within its     *)
(* width whatever the number of evictions (dedup.rs, saturating_add).      *)
THEOREM DedupTypes == DedupSpec => []DedupTypeOK
<1>1. DedupInv => DedupTypeOK
  BY DEF DedupInv
<1>2. QED
  BY <1>1, DedupInvariant, PTL

(* Whatever is suppressed was reported less than a TTL ago (dedup.rs,      *)
(* observe: a hit does not refresh).                                       *)
THEOREM DedupSuppression == DedupSpec => []SuppressedOnlyWithinTtl
<1>1. DedupInv => SuppressedOnlyWithinTtl
  BY DEF DedupInv, SuppressedOnlyWithinTtl, EntryIsLastFresh, Within
<1>2. QED
  BY <1>1, DedupInvariant, PTL

(* A zero counter means that nothing alive was given up (dedup.rs,         *)
(* forced_evictions).                                                      *)
THEOREM DedupCounter == DedupSpec => []CounterTellsEvictions
<1>1. DedupInv => CounterTellsEvictions
  BY DEF DedupInv
<1>2. QED
  BY <1>1, DedupInvariant, PTL

(* A second report within the TTL comes only after an eviction (dedup.rs,  *)
(* observe).                                                               *)
THEOREM DedupRepeats == DedupSpec => RepeatOnlyAfterEviction
<1>1. DedupInv /\ [DedupNext]_dedupVars =>
        [\A id \in Identity :
           Fresh(id) /\ Within(lastFresh[id]) => id \in evicted]_dedupVars
  <2> SUFFICES ASSUME DedupInv, NEW id \in Identity,
                      Fresh(id), Within(lastFresh[id])
               PROVE  id \in evicted
    OBVIOUS
  <2>1. id \in evicted \/ entries[id] = lastFresh[id]
    BY DEF DedupInv, RecentIsHeld
  <2>2. ~Within(entries[id])
    BY DEF Fresh
  <2>3. QED
    BY <2>1, <2>2
<1>2. QED
  BY <1>1, DedupInvariant, PTL DEF DedupSpec, RepeatOnlyAfterEviction

-----------------------------------------------------------------------------
(* Making room for one entry keeps the map within its capacity.            *)
LEMMA FreshKeepsCapacity ==
  ASSUME DedupTypeOK, WithinCapacity, NEW id \in Identity, Fresh(id)
  PROVE  WithinCapacity'
<1>1. /\ IsFiniteSet(Held) /\ Cardinality(Held) \in Nat
      /\ IsFiniteSet(Kept) /\ Cardinality(Kept) \in Nat
      /\ Cardinality(Kept) <= Cardinality(Held)
  <2>1. Kept \subseteq Held /\ Held \subseteq Identity
    BY DEF Kept, Held, Within
  <2>2. IsFiniteSet(Held)
    BY <2>1, DedupAssumption, FS_Subset
  <2>3. QED
    BY <2>1, <2>2, FS_Subset, FS_CardinalityType
<1>2. capacity \in Nat
  BY DedupAssumption DEF capacity
<1>3. id \notin Kept
  BY DEF Fresh, Kept
<1>4. CASE /\ Cardinality(Kept) < capacity
           /\ entries' = [Pruned EXCEPT ![id] = now]
  <2>1. Held' \subseteq Kept \union {id}
    BY <1>4 DEF Held, Pruned, Kept
  <2>2. /\ IsFiniteSet(Kept \union {id})
        /\ Cardinality(Kept \union {id}) = Cardinality(Kept) + 1
    BY <1>1, <1>3, FS_AddElement
  <2>3. Cardinality(Held') <= Cardinality(Kept) + 1 /\ Cardinality(Held') \in Nat
    BY <2>1, <2>2, FS_Subset, FS_CardinalityType
  <2>4. QED
    BY <1>1, <1>2, <1>4, <2>3 DEF WithinCapacity, capacity
<1>5. CASE \E old \in Identity :
             /\ Victim(old)
             /\ entries' = [Pruned EXCEPT ![old] = Never, ![id] = now]
  <2>1. PICK old \in Identity :
             /\ old \in Kept
             /\ entries' = [Pruned EXCEPT ![old] = Never, ![id] = now]
    BY <1>5 DEF Victim
  <2>2. Held' \subseteq (Kept \ {old}) \union {id}
    BY <2>1 DEF Held, Pruned, Kept
  <2>3. /\ IsFiniteSet(Kept \ {old})
        /\ Cardinality(Kept \ {old}) = Cardinality(Kept) - 1
    BY <1>1, <2>1, FS_RemoveElement
  <2>4. /\ IsFiniteSet((Kept \ {old}) \union {id})
        /\ Cardinality((Kept \ {old}) \union {id}) = Cardinality(Kept)
    <3>1. id \notin Kept \ {old}
      BY <1>3
    <3>2. /\ IsFiniteSet((Kept \ {old}) \union {id})
          /\ Cardinality((Kept \ {old}) \union {id}) = Cardinality(Kept \ {old}) + 1
      BY <3>1, <2>3, FS_AddElement
    <3>3. QED
      BY <3>2, <2>3, <1>1
  <2>5. Cardinality(Held') <= Cardinality(Kept) /\ Cardinality(Held') \in Nat
    BY <2>2, <2>4, FS_Subset, FS_CardinalityType
  <2>6. QED
    BY <1>1, <1>2, <2>5 DEF WithinCapacity, capacity
<1>6. QED
  BY <1>4, <1>5 DEF Fresh

(* The map never holds more than its capacity (dedup.rs, observe).         *)
THEOREM DedupCapacity == DedupSpec => []WithinCapacity
<1>1. DedupInit => WithinCapacity
  <2>1. DedupInit => Held = {}
    BY DEF DedupInit, Held
  <2>2. QED
    BY <2>1, FS_EmptySet, DedupAssumption DEF WithinCapacity, capacity
<1>2. DedupInv /\ WithinCapacity /\ [DedupNext]_dedupVars => WithinCapacity'
  <2> SUFFICES ASSUME DedupInv, WithinCapacity, [DedupNext]_dedupVars
               PROVE  WithinCapacity'
    OBVIOUS
  <2>1. ASSUME entries' = entries PROVE WithinCapacity'
    BY <2>1 DEF WithinCapacity, Held, capacity
  <2>2. ASSUME NEW id \in Identity, Fresh(id) PROVE WithinCapacity'
    BY <2>2, FreshKeepsCapacity DEF DedupInv
  <2>3. QED
    BY <2>1, <2>2 DEF DedupNext, Hit, Tick, dedupVars
<1>3. QED
  BY <1>1, <1>2, DedupInvariant, PTL DEF DedupSpec

-----------------------------------------------------------------------------
(* The frame loop implements the cache's specification: each frame is one  *)
(* observe or leaves the cache alone (live.rs, handle_frame).              *)
THEOREM LiveImplementsDedup == Spec => DedupSpec
<1>1. Init => DedupInit
  BY DEF Init
<1>2. [Next]_liveVars => [DedupNext]_dedupVars
  BY DEF Next, liveVars, DedupNext, OtherFrame, DuplicateHello, FreshHello,
         HelloWithoutCache, Wait, EndOfCapture
<1>3. QED
  BY <1>1, <1>2, PTL DEF Spec, DedupSpec

(* The frame loop reports a session again within the TTL only after its    *)
(* entry was evicted (live.rs, handle_frame; dedup.rs, observe).           *)
THEOREM LiveRepeats == Spec => RepeatOnlyAfterEviction
BY LiveImplementsDedup, DedupRepeats

(* No session is suppressed for longer than a TTL after its last report.   *)
THEOREM LiveSuppression == Spec => []SuppressedOnlyWithinTtl
BY LiveImplementsDedup, DedupSuppression

(* However many handshakes pass, the cache stays within its capacity.      *)
THEOREM LiveCapacity == Spec => []WithinCapacity
BY LiveImplementsDedup, DedupCapacity

-----------------------------------------------------------------------------
(* The counters are numbers, and they balance.                             *)
StatsInv == stats \in [Counter -> Nat] /\ StatsBalance

(* Every frame's outcome keeps the balance.                                *)
LEMMA CountKeepsBalance ==
  ASSUME StatsInv, NEW C \in {{"skipped_unparseable"}, {"skipped_empty_payload"},
                              {}, {"handshake_packets", "parse_failed"},
                              {"handshake_packets", "parsed", "deduplicated"},
                              {"handshake_packets", "parsed", "events_emitted"}},
         Count(C)
  PROVE  StatsInv'
<1>1. stats' \in [Counter -> Nat]
  BY DEF StatsInv, Count
<1>2. \A c \in Counter : stats'[c] =
        IF c \in C \union {"packets_seen"} THEN stats[c] + 1 ELSE stats[c]
  BY DEF Count
<1>3. StatsBalance'
  BY <1>2 DEF StatsInv, StatsBalance, Counter
<1>4. QED
  BY <1>1, <1>3 DEF StatsInv

(* The statistics account for every handshake (live.rs, handle_frame).     *)
THEOREM LiveStats == Spec => []StatsBalance
<1>1. Init => StatsInv
  BY DEF Init, StatsInv, StatsBalance, Counter
<1>2. StatsInv /\ [Next]_liveVars => StatsInv'
  <2> SUFFICES ASSUME StatsInv, [Next]_liveVars PROVE StatsInv'
    OBVIOUS
  <2>1. ASSUME UNCHANGED stats PROVE StatsInv'
    BY <2>1 DEF StatsInv, StatsBalance
  <2>2. ASSUME OtherFrame PROVE StatsInv'
    BY <2>2, CountKeepsBalance DEF OtherFrame
  <2>3. ASSUME NEW id \in Identity, DuplicateHello(id) PROVE StatsInv'
    BY <2>3, CountKeepsBalance DEF DuplicateHello
  <2>4. ASSUME NEW id \in Identity, FreshHello(id) PROVE StatsInv'
    BY <2>4, CountKeepsBalance DEF FreshHello, Emit
  <2>5. ASSUME HelloWithoutCache PROVE StatsInv'
    BY <2>5, CountKeepsBalance DEF HelloWithoutCache, Emit
  <2>6. QED
    BY <2>1, <2>2, <2>3, <2>4, <2>5
       DEF Next, Wait, EndOfCapture, liveVars
<1>3. StatsInv => StatsBalance
  BY DEF StatsInv
<1>4. QED
  BY <1>1, <1>2, <1>3, PTL DEF Spec

-----------------------------------------------------------------------------
(* An agent's process takes the steps of the frame loop, or leaves its     *)
(* state alone.                                                            *)
LEMMA AgentsImplementLive == AgentsSpec => Spec
<1>1. AgentsInit => Init
  BY DEF AgentsInit
<1>2. [AgentsNext]_agentVars => [Next]_liveVars
  BY DEF AgentsNext, agentVars, Live, LiveEbpf, OneShot, Quiet
<1>3. QED
  BY <1>1, <1>2, PTL DEF AgentsSpec, Spec

(* No agent reports a session twice within the TTL unless its cache had to *)
(* give the entry up (dedup.rs, observe; live.rs, handle_frame).           *)
THEOREM AgentsRepeats == AgentsSpec => RepeatOnlyAfterEviction
BY AgentsImplementLive, LiveRepeats

(* No agent suppresses a session beyond the TTL of its last report.        *)
THEOREM AgentsSuppression == AgentsSpec => []SuppressedOnlyWithinTtl
BY AgentsImplementLive, LiveSuppression

-----------------------------------------------------------------------------
(***************************************************************************)
(* The inventory commands.  A walk stands before a node `at'.  What it has *)
(* handed on or collected is, in order, what it has passed and nothing     *)
(* explains away; and what is explained away lies behind it.               *)
(***************************************************************************)
Increasing(s) == \A i, j \in DOMAIN s : i < j => s[i] < s[j]

Position == 1..Len(nodes)

SweepTypes ==
  /\ cmd \in DOMAIN Trees /\ nodes \in Trees[cmd]
  /\ at \in 1..(Len(nodes) + 1)
  /\ given \in Seq(Position) /\ batch \in Seq(Position)
  /\ \A f \in faults : f[1] \in Position
  /\ exit \in {"running", "ok", "error"}

(* Passed over without anything that explains it.                          *)
Passed == {i \in Things \ Explained : i < at}

InOrder ==
  /\ Increasing(given) /\ Increasing(batch)
  /\ \A i \in Range(given), j \in Range(batch) : i < j

Complete == Range(given) \union Range(batch) = Passed

ExplainedBehind == exit # "error" => \A i \in Explained : i < at

(* Who holds things back, and until when.                                  *)
HeldBack ==
  /\ cmd \in Streaming => batch = <<>>
  /\ cmd \notin Streaming /\ at <= Len(nodes) => given = <<>>

HowItEnds ==
  /\ exit = "ok" => at = Len(nodes) + 1 /\ batch = <<>>
  /\ exit = "error" =>
       /\ at <= Len(nodes)
       /\ cmd # "host_scan"
       /\ cmd = "vault_scan" => at = 1

SweepInv ==
  /\ SweepTypes
  /\ InOrder
  /\ Complete
  /\ ExplainedBehind
  /\ HeldBack
  /\ HowItEnds

-----------------------------------------------------------------------------
(* A set of numbers has a least one.                                       *)
LEMMA LeastNumber ==
  ASSUME NEW T \in SUBSET Nat, T # {}
  PROVE  \E x \in T : \A y \in T : x <= y
<1>1. IsWellFoundedOn(OpToRel(<, Nat), Nat)
  BY NatLessThanWellFounded
<1>2. PICK x \in T : \A y \in T : ~(<<y, x>> \in OpToRel(<, Nat))
  BY <1>1, WFMin
<1>3. \A y \in T : ~(y < x)
  BY <1>2 DEF OpToRel
<1>4. QED
  BY <1>3

LEMMA RangeOfAppend ==
  ASSUME NEW S, NEW s \in Seq(S), NEW x \in S
  PROVE  /\ Append(s, x) # <<>>
         /\ Range(Append(s, x)) = Range(s) \union {x}
         /\ Increasing(s) /\ (\A y \in Range(s) : y < x) => Increasing(Append(s, x))
<1> DEFINE t == Append(s, x)
<1>1. /\ t # <<>> /\ Len(s) \in Nat
      /\ DOMAIN s = 1..Len(s) /\ DOMAIN t = 1..(Len(s) + 1)
      /\ \A i \in 1..Len(s) : t[i] = s[i]
      /\ t[Len(s) + 1] = x
  OBVIOUS
<1> HIDE DEF t
<1>2. Range(t) = Range(s) \union {x}
  BY <1>1 DEF Range
<1>3. Increasing(s) /\ (\A y \in Range(s) : y < x) => Increasing(t)
  <2> SUFFICES ASSUME Increasing(s), \A y \in Range(s) : y < x,
                      NEW i \in DOMAIN t, NEW j \in DOMAIN t, i < j
               PROVE  t[i] < t[j]
    BY DEF Increasing
  <2>1. CASE j \in 1..Len(s)
    BY <1>1, <2>1 DEF Increasing
  <2>2. CASE j = Len(s) + 1
    BY <1>1, <2>2 DEF Range
  <2>3. QED
    BY <1>1, <2>1, <2>2
<1>4. QED
  BY <1>1, <1>2, <1>3 DEF t

LEMMA RangeOfTail ==
  ASSUME NEW S, NEW s \in Seq(S), s # <<>>
  PROVE  /\ Range(s) = Range(Tail(s)) \union {Head(s)}
         /\ Increasing(s) => Increasing(Tail(s)) /\ \A y \in Range(Tail(s)) : Head(s) < y
<1> DEFINE t == Tail(s)
           n == Len(s)
<1>1. /\ n \in Nat /\ n >= 1
      /\ DOMAIN s = 1..n /\ DOMAIN t = 1..(n - 1)
      /\ \A i \in 1..(n - 1) : t[i] = s[i + 1]
      /\ Head(s) = s[1]
  OBVIOUS
<1> HIDE DEF t, n
<1>2. /\ \A i \in 1..n : i = 1 \/ (i - 1 \in 1..(n - 1) /\ (i - 1) + 1 = i)
      /\ \A i \in 1..(n - 1) : i + 1 \in 1..n /\ 1 < i + 1 /\ i \in Nat
      /\ \A i, j \in 1..(n - 1) : i < j => i + 1 < j + 1
      /\ 1 \in 1..n
  <2>1. n \in Nat /\ n >= 1
    BY <1>1
  <2>2. QED
    BY <2>1
<1>3. \A i \in 1..n : i = 1 \/ s[i] = t[i - 1]
  BY <1>1, <1>2
<1>4. Range(s) = Range(t) \union {Head(s)}
  <2>1. ASSUME NEW x \in Range(s) PROVE x \in Range(t) \union {Head(s)}
    <3>1. PICK i \in 1..n : x = s[i]
      BY <1>1 DEF Range
    <3>2. CASE i = 1
      BY <1>1, <3>1, <3>2
    <3>3. CASE i # 1
      <4>1. i - 1 \in 1..(n - 1) /\ x = t[i - 1]
        BY <1>2, <1>3, <3>1, <3>3
      <4>2. QED
        BY <1>1, <4>1 DEF Range
    <3>4. QED
      BY <3>2, <3>3
  <2>2. ASSUME NEW x \in Range(t) \union {Head(s)} PROVE x \in Range(s)
    <3>1. CASE x = Head(s)
      <4>1. 1 \in DOMAIN s /\ x = s[1]
        BY <1>1, <1>2, <3>1
      <4>2. QED
        BY <4>1 DEF Range
    <3>2. CASE x \in Range(t)
      <4>1. PICK i \in 1..(n - 1) : x = t[i]
        BY <1>1, <3>2 DEF Range
      <4>2. i + 1 \in DOMAIN s /\ x = s[i + 1]
        BY <1>1, <1>2, <4>1
      <4>3. QED
        BY <4>2 DEF Range
    <3>3. QED
      BY <2>2, <3>1, <3>2
  <2>3. QED
    BY <2>1, <2>2
<1>5. ASSUME Increasing(s) PROVE Increasing(t) /\ \A y \in Range(t) : Head(s) < y
  <2>1. ASSUME NEW i \in 1..(n - 1), NEW j \in 1..(n - 1), i < j PROVE t[i] < t[j]
    <3>1. s[i + 1] < s[j + 1]
      BY <1>1, <1>2, <1>5, <2>1 DEF Increasing
    <3>2. QED
      BY <1>1, <3>1
  <2>2. ASSUME NEW i \in 1..(n - 1) PROVE Head(s) < t[i]
    <3>1. s[1] < s[i + 1]
      BY <1>1, <1>2, <1>5, <2>2 DEF Increasing
    <3>2. QED
      BY <1>1, <3>1
  <2>3. QED
    BY <1>1, <2>1, <2>2 DEF Increasing, Range
<1>6. QED
  BY <1>4, <1>5 DEF t

(* The walk goes on behind what is below the node.                         *)
LEMMA AfterSubtreeIsBehind ==
  ASSUME SweepTypes, at \in Position
  PROVE  /\ AfterSubtree(at) \in (at + 1)..(Len(nodes) + 1)
         /\ Below(at) = at..(AfterSubtree(at) - 1)
<1> DEFINE n == Len(nodes)
           lv(i) == nodes[i].level
           T == {j \in (at + 1)..(n + 1) : j = n + 1 \/ lv(j) <= lv(at)}
           Q(j) == /\ j = n + 1 \/ lv(j) <= lv(at)
                   /\ \A k \in (at + 1)..(j - 1) : lv(k) > lv(at)
<1>1. /\ n \in Nat /\ at \in 1..n
      /\ \A i \in 1..n : lv(i) \in Nat
  BY SweepAssumption DEF SweepTypes, Position
<1> HIDE DEF lv, n
<1>2. T \in SUBSET Nat /\ n + 1 \in T
  BY <1>1
<1>3. PICK j \in T : \A y \in T : j <= y
  BY <1>2, LeastNumber
<1>4. j \in (at + 1)..(n + 1) /\ Q(j)
  BY <1>1, <1>3
<1>5. AfterSubtree(at) = CHOOSE k \in (at + 1)..(n + 1) : Q(k)
  BY DEF AfterSubtree, lv, n
<1> DEFINE a == AfterSubtree(at)
<1>6. a \in (at + 1)..(n + 1) /\ Q(a)
  BY <1>4, <1>5
<1>7. Below(at) = {i \in at..n : \A k \in (at + 1)..i : lv(k) > lv(at)}
  BY DEF Below, lv, n
<1> HIDE DEF a
<1>8. ASSUME NEW i \in at..n, \A k \in (at + 1)..i : lv(k) > lv(at)
      PROVE  i \in at..(a - 1)
  BY <1>1, <1>6, <1>8
<1>9. ASSUME NEW i \in at..(a - 1)
      PROVE  i \in at..n /\ \A k \in (at + 1)..i : lv(k) > lv(at)
  BY <1>1, <1>6, <1>9
<1>10. Below(at) = at..(a - 1)
  BY <1>7, <1>8, <1>9
<1>11. QED
  BY <1>6, <1>10 DEF a, n

(* What a fault at a node adds to what is explained.                       *)
Explains(f) ==
  IF cmd = "pq_probe" /\ f[2] # "read" THEN {}
  ELSE IF f[2] = "marker" THEN f[1]..Len(nodes) ELSE Below(f[1])

LEMMA OneMoreFault ==
  ASSUME NEW f, faults' = faults \union {f}, UNCHANGED <<cmd, nodes>>
  PROVE  /\ Explained' = Explained \union Explains(f)
         /\ Things' = Things
BY DEF Explained, Explains, Things, Below

(* What the tables say of the reactions.                                   *)
LEMMA Reactions ==
  ASSUME cmd \in Command, NEW t \in OnFault(cmd)
  PROVE  /\ t[3] = "stop" <=> t[2] = "marker"
         /\ t[3] = "stop" => cmd # "pq_probe"
         /\ t[3] = "skip" => cmd # "pq_probe"
         /\ t[3] = "report" => cmd = "pq_probe" /\ t[1] = 1 /\ t[2] # "read"
         /\ t[3] = "abort" => cmd # "host_scan" /\ (cmd = "vault_scan" => t[1] = 0)
<1> USE DEF Wrong
<1>1. CASE cmd = "host_scan"
  BY <1>1 DEF OnFault, HostScanFaults
<1>2. CASE cmd = "vault_scan"
  BY <1>2 DEF OnFault, VaultScanFaults
<1>3. CASE cmd = "aws_kms_scan"
  BY <1>3 DEF OnFault, KmsScanFaults
<1>4. CASE cmd = "pkcs11_scan"
  BY <1>4 DEF OnFault, Pkcs11ScanFaults
<1>5. CASE cmd = "inventory_scan"
  BY <1>5 DEF OnFault, InventoryFaults
<1>6. CASE cmd \in {"zgrab_array", "zgrab_lines"}
  BY <1>6 DEF OnFault, ZgrabFaults
<1>7. CASE cmd = "pq_probe"
  BY <1>7 DEF OnFault, PqProbeFaults
<1>8. CASE cmd \in ChainCommand
  BY <1>8 DEF OnFault, AddressFaults, ChainCommand
<1>9. QED
  BY <1>1, <1>2, <1>3, <1>4, <1>5, <1>6, <1>7, <1>8
     DEF Command, CertCommand, IdCommand, ChainCommand, NetCommand

-----------------------------------------------------------------------------
LEMMA Positions ==
  ASSUME SweepTypes
  PROVE  /\ Len(nodes) \in Nat /\ Position \subseteq Int /\ at \in Int
         /\ given \in Seq(Int) /\ batch \in Seq(Int)
         /\ Things \subseteq Position
         /\ \A i \in Explained : i \in Int
<1>1. /\ Len(nodes) \in Nat /\ Position \subseteq Int /\ at \in Int
      /\ given \in Seq(Int) /\ batch \in Seq(Int)
      /\ DOMAIN nodes = Position
  BY SweepAssumption DEF SweepTypes, Position
<1>2. Things \subseteq Position
  BY <1>1 DEF Things
<1>3. \A i \in Explained : i \in Int
  BY <1>1 DEF Explained, Below, SweepTypes
<1>4. QED
  BY <1>1, <1>2, <1>3

(* A node is taken: it comes behind all that was handed on or collected.   *)
LEMMA Handed ==
  ASSUME SweepInv, exit = "running", at \in Position, at \in Things,
         UNCHANGED <<cmd, nodes, exit>>, Explained' = Explained, at' = at + 1,
         \A f \in faults' : f[1] \in Position,
         \/ cmd \in Streaming /\ given' = Append(given, at) /\ batch' = batch
         \/ cmd \notin Streaming /\ batch' = Append(batch, at) /\ given' = given
  PROVE  SweepInv'
<1> USE DEF SweepInv
<1>1. /\ Len(nodes) \in Nat /\ Position \subseteq Int
      /\ given \in Seq(Int) /\ batch \in Seq(Int) /\ at \in Int
  BY Positions
<1>2. Things' = Things /\ Position' = Position
  BY DEF Things, Position
<1>3. \A i \in Range(given) \union Range(batch) : i < at
  BY DEF Complete, Passed
<1>4. at \notin Explained
  BY <1>1 DEF ExplainedBehind
<1>5. Passed' = Passed \union {at}
  <2>1. Passed' = {i \in Things \ Explained : i < at + 1}
    BY <1>2 DEF Passed
  <2>2. \A i \in Things : i < at + 1 <=> i < at \/ i = at
    <3>1. \A i \in Int : i < at + 1 <=> i < at \/ i = at
      BY <1>1
    <3>2. QED
      BY <1>1, <3>1, Positions
  <2>3. QED
    BY <1>4, <2>1, <2>2 DEF Passed
<1>6. SweepTypes'
  <2>1. at + 1 \in 1..(Len(nodes) + 1)
    BY <1>1 DEF Position
  <2>2. given' \in Seq(Position) /\ batch' \in Seq(Position)
    <3>1. given \in Seq(Position) /\ batch \in Seq(Position)
      BY DEF SweepTypes
    <3>2. Append(given, at) \in Seq(Position) /\ Append(batch, at) \in Seq(Position)
      BY <3>1, SMT
    <3>3. QED
      BY <3>1, <3>2
  <2>3. QED
    BY <1>2, <2>1, <2>2 DEF SweepTypes
<1>7. ExplainedBehind'
  <2>1. \A i \in Explained : i \in Int /\ i < at
    BY Positions DEF ExplainedBehind
  <2>2. \A i \in Explained : i < at + 1
    BY <1>1, <2>1
  <2>3. QED
    BY <2>2 DEF ExplainedBehind
<1>8. CASE cmd \in Streaming
  <2>1. given' = Append(given, at) /\ batch' = <<>> /\ batch = <<>>
    BY <1>8 DEF HeldBack
  <2>2. Range(batch) = {}
    BY <2>1 DEF Range
  <2>3. Range(given') = Range(given) \union {at} /\ Range(batch') = {}
    BY <1>1, <2>1, <2>2, RangeOfAppend
  <2>4. Increasing(given') /\ Increasing(batch')
    BY <1>1, <1>3, <2>1, RangeOfAppend DEF InOrder
  <2>5. InOrder' /\ Complete'
    BY <1>5, <2>2, <2>3, <2>4 DEF InOrder, Complete, Increasing
  <2>6. HeldBack' /\ HowItEnds'
    BY <1>8, <2>1 DEF HeldBack, HowItEnds
  <2>7. QED
    BY <1>6, <1>7, <2>5, <2>6
<1>9. CASE cmd \notin Streaming
  <2>1. batch' = Append(batch, at) /\ given' = <<>> /\ given = <<>>
    BY <1>1, <1>9 DEF HeldBack, Position
  <2>2. Range(given) = {}
    BY <2>1 DEF Range
  <2>3. Range(batch') = Range(batch) \union {at} /\ Range(given') = {}
    BY <1>1, <2>1, <2>2, RangeOfAppend
  <2>4. Increasing(given') /\ Increasing(batch')
    BY <1>1, <1>3, <2>1, RangeOfAppend DEF InOrder
  <2>5. InOrder' /\ Complete'
    BY <1>5, <2>2, <2>3, <2>4 DEF InOrder, Complete, Increasing
  <2>6. HeldBack' /\ HowItEnds'
    BY <1>9, <2>1 DEF HeldBack, HowItEnds
  <2>7. QED
    BY <1>6, <1>7, <2>5, <2>6
<1>10. QED
  BY <1>8, <1>9

(* Nodes are passed that are no things, or that are explained away.        *)
LEMMA PassedBy ==
  ASSUME SweepInv, exit = "running", at \in Position,
         UNCHANGED <<cmd, nodes, batch, given, exit>>,
         at' \in (at + 1)..(Len(nodes) + 1),
         \A f \in faults' : f[1] \in Position,
         Explained \subseteq Explained',
         \A i \in Explained' \ Explained : i \in at..(at' - 1),
         \A i \in at..(at' - 1) : i \notin Things \/ i \in Explained'
  PROVE  SweepInv'
<1> USE DEF SweepInv
<1>1. Len(nodes) \in Nat /\ Position \subseteq Int /\ at \in Int /\ at' \in Int
  BY Positions
<1>2. Things' = Things /\ Position' = Position
  BY DEF Things, Position
<1>3. \A i \in Things \union Explained : i \in Int
  BY Positions
<1>4. Passed' = Passed
  <2>1. Passed' = {i \in Things \ Explained' : i < at'}
    BY <1>2 DEF Passed
  <2>2. ASSUME NEW i \in Passed PROVE i \in Passed'
    <3>1. i \in Int /\ i < at /\ i \in Things \ Explained
      BY <1>3 DEF Passed
    <3>2. QED
      BY <1>1, <3>1, <2>1
  <2>3. ASSUME NEW i \in Passed' PROVE i \in Passed
    <3>1. i \in Int /\ i < at' /\ i \in Things /\ i \notin Explained'
      BY <1>3, <2>1
    <3>2. ~(i \in at..(at' - 1))
      BY <3>1
    <3>3. \A a, b, x \in Int : x < b /\ ~(x \in a..(b - 1)) => x < a
      OBVIOUS
    <3>4. i < at
      BY <1>1, <3>1, <3>2, <3>3
    <3>5. i \notin Explained
      BY <3>1
    <3>6. QED
      BY <3>1, <3>4, <3>5 DEF Passed
  <2>4. QED
    BY <2>2, <2>3
<1>5. ExplainedBehind'
  <2> SUFFICES ASSUME NEW i \in Explained' PROVE i < at'
    BY DEF ExplainedBehind
  <2>1. CASE i \in Explained
    BY <1>1, <1>3, <2>1 DEF ExplainedBehind
  <2>2. CASE i \notin Explained
    BY <1>1, <2>2
  <2>3. QED
    BY <2>1, <2>2
<1>6. SweepTypes'
  BY <1>1, <1>2 DEF SweepTypes
<1>7. InOrder' /\ Complete'
  BY <1>4 DEF InOrder, Complete
<1>8. HeldBack' /\ HowItEnds'
  BY <1>1 DEF HeldBack, HowItEnds, Position
<1>9. QED
  BY <1>5, <1>6, <1>7, <1>8

(* Something goes wrong at the node.                                       *)
LEMMA FailKeepsSweepInv ==
  ASSUME SweepInv, NEW t \in OnFault(cmd), Fail(t)
  PROVE  SweepInv'
<1> DEFINE f == <<at, t[2]>>
<1> USE DEF SweepInv
<1>1. /\ Len(nodes) \in Nat /\ at \in Position /\ exit = "running"
      /\ at \in Int /\ Position' = Position /\ DOMAIN nodes = Position
  <2>1. Len(nodes) \in Nat /\ DOMAIN nodes = Position
    BY SweepAssumption DEF SweepTypes, Position
  <2>2. QED
    BY <2>1 DEF Fail, Walking, SweepTypes, Position
<1>2. /\ faults' = faults \union {f} /\ UNCHANGED <<cmd, nodes, batch>>
      /\ t[1] = nodes[at].level
  BY DEF Fail, Possible
<1>3. /\ cmd \in Command
      /\ nodes[at].level = 0 => at = 1
  BY <1>1, SweepAssumption DEF SweepTypes, Position
<1>4. \A g \in faults' : g[1] \in Position
  BY <1>1, <1>2 DEF SweepTypes
<1>5. Explained' = Explained \union Explains(f) /\ Things' = Things
  BY <1>2, OneMoreFault
<1>6. /\ AfterSubtree(at) \in (at + 1)..(Len(nodes) + 1)
      /\ Below(at) = at..(AfterSubtree(at) - 1)
  BY <1>1, AfterSubtreeIsBehind
<1>7. CASE t[3] = "skip" /\ at' = AfterSubtree(at) /\ UNCHANGED <<given, exit>>
  <2>1. Explains(f) = at..(at' - 1)
    BY <1>3, <1>6, <1>7, Reactions DEF Explains
  <2>2. QED
    BY <1>1, <1>2, <1>4, <1>5, <1>6, <1>7, <2>1, PassedBy
<1>8. CASE t[3] = "stop" /\ at' = Len(nodes) + 1 /\ UNCHANGED <<given, exit>>
  <2>1. Explains(f) = at..Len(nodes)
    BY <1>3, <1>8, Reactions DEF Explains
  <2>2. at..Len(nodes) = at..(at' - 1) /\ at' \in (at + 1)..(Len(nodes) + 1)
    BY <1>1, <1>8 DEF Position
  <2>3. QED
    BY <1>1, <1>2, <1>4, <1>5, <1>8, <2>1, <2>2, PassedBy
<1>9. CASE t[3] = "report" /\ at' = at + 1 /\ given' = Append(given, at) /\ UNCHANGED exit
  <2>1. cmd = "pq_probe" /\ t[1] = 1 /\ Explains(f) = {}
    BY <1>3, <1>9, Reactions DEF Explains
  <2>2. at \in Things
    BY <1>1, <1>2, <2>1 DEF Things, ThingLevel, Classified
  <2>3. cmd \in Streaming
    BY <2>1 DEF Streaming
  <2>4. QED
    BY <1>1, <1>2, <1>4, <1>5, <1>9, <2>1, <2>2, <2>3, Handed
<1>10. CASE t[3] = "abort" /\ exit' = "error" /\ UNCHANGED <<at, given>>
  <2>1. \A i \in Explains(f) : i \in Int /\ at <= i
    <3>1. \A i \in Below(at) : i \in Int /\ at <= i
      BY <1>1, <1>6
    <3>2. \A i \in at..Len(nodes) : i \in Int /\ at <= i
      BY <1>1
    <3>3. QED
      BY <3>1, <3>2 DEF Explains
  <2>2. Passed' = Passed
    <3>1. \A i \in Explains(f) : ~(i < at)
      BY <1>1, <2>1
    <3>2. QED
      BY <1>5, <1>10, <3>1 DEF Passed
  <2>3. SweepTypes'
    BY <1>1, <1>2, <1>4, <1>10 DEF SweepTypes
  <2>4. InOrder' /\ Complete' /\ HeldBack' /\ ExplainedBehind'
    BY <1>2, <1>10, <2>2 DEF InOrder, Complete, HeldBack, ExplainedBehind
  <2>5. HowItEnds'
    BY <1>1, <1>2, <1>3, <1>10, Reactions DEF HowItEnds, Position
  <2>6. QED
    BY <2>3, <2>4, <2>5
<1>11. QED
  BY <1>7, <1>8, <1>9, <1>10 DEF Fail, PrintLine

(* A thing that was collected is sent.                                     *)
LEMMA FlushKeepsSweepInv ==
  ASSUME SweepInv, Flush PROVE SweepInv'
<1> USE DEF SweepInv
<1>1. /\ Len(nodes) \in Nat /\ Position \subseteq Int /\ Position' = Position
      /\ given \in Seq(Int) /\ batch \in Seq(Int)
  BY Positions DEF Flush, Position
<1>2. /\ exit = "running" /\ at > Len(nodes) /\ batch # <<>>
      /\ given' = Append(given, Head(batch)) /\ batch' = Tail(batch)
      /\ UNCHANGED <<cmd, nodes, at, faults, exit>>
  BY DEF Flush, Send
<1>3. Head(batch) \in Position /\ Tail(batch) \in Seq(Position)
  BY <1>2 DEF SweepTypes
<1>4. /\ Range(batch) = Range(batch') \union {Head(batch)}
      /\ Increasing(batch') /\ \A y \in Range(batch') : Head(batch) < y
  BY <1>1, <1>2, RangeOfTail DEF InOrder
<1>5. \A y \in Range(given) : y < Head(batch)
  BY <1>4 DEF InOrder
<1>6. Range(given') = Range(given) \union {Head(batch)} /\ Increasing(given')
  BY <1>1, <1>2, <1>3, <1>5, RangeOfAppend DEF InOrder
<1>7. Passed' = Passed /\ Explained' = Explained
  BY <1>2 DEF Passed, Things, Explained, Below
<1>8. SweepTypes'
  <2>1. given \in Seq(Position)
    BY DEF SweepTypes
  <2>2. given' \in Seq(Position)
    BY <1>2, <1>3, <2>1
  <2>3. QED
    BY <1>1, <1>2, <1>3, <2>2 DEF SweepTypes
<1>9. InOrder'
  <2>1. \A i \in Range(given), j \in Range(batch') : i < j
    BY <1>4 DEF InOrder
  <2>2. QED
    BY <1>4, <1>6, <2>1 DEF InOrder
<1>10. Complete'
  BY <1>4, <1>6, <1>7 DEF Complete
<1>11. ExplainedBehind' /\ HeldBack' /\ HowItEnds'
  <2>1. ~(at <= Len(nodes)) /\ cmd \notin Streaming
    BY <1>1, <1>2, Positions DEF HeldBack
  <2>2. QED
    BY <1>2, <1>7, <2>1 DEF ExplainedBehind, HeldBack, HowItEnds
<1>12. QED
  BY <1>8, <1>9, <1>10, <1>11

LEMMA SweepInvInit == SweepInit => SweepInv
<1> SUFFICES ASSUME SweepInit PROVE SweepInv
  OBVIOUS
<1>1. Len(nodes) \in Nat
  BY SweepAssumption DEF SweepInit
<1>2. SweepTypes
  BY <1>1 DEF SweepInit, SweepTypes
<1>3. Explained = {}
  BY DEF SweepInit, Explained
<1>4. Range(given) = {} /\ Range(batch) = {} /\ Increasing(given) /\ Increasing(batch)
  BY DEF SweepInit, Range, Increasing
<1>5. Passed = {}
  <2>1. \A i \in Position : ~(i < 1)
    BY <1>1 DEF Position
  <2>2. QED
    BY <1>2, <2>1, Positions DEF Passed, SweepInit
<1>6. QED
  BY <1>2, <1>3, <1>4, <1>5
     DEF SweepInit, SweepInv, InOrder, Complete, ExplainedBehind, HeldBack, HowItEnds

LEMMA SweepInvNext == SweepInv /\ [SweepNext]_sweepVars => SweepInv'
<1> SUFFICES ASSUME SweepInv, [SweepNext]_sweepVars PROVE SweepInv'
  OBVIOUS
<1> USE DEF SweepInv
<1>1. ASSUME UNCHANGED sweepVars PROVE SweepInv'
  BY <1>1 DEF sweepVars, SweepTypes, Position, InOrder, Complete, Passed, Things, Explained,
              Below, ExplainedBehind, HeldBack, HowItEnds
<1>2. ASSUME Walking PROVE at \in Position /\ DOMAIN nodes = Position /\ at \in Int
                           /\ Len(nodes) \in Nat /\ exit = "running"
  <2>1. Len(nodes) \in Nat /\ DOMAIN nodes = Position
    BY SweepAssumption DEF SweepTypes, Position
  <2>2. QED
    BY <1>2, <2>1 DEF Walking, SweepTypes, Position
<1>3. ASSUME UNCHANGED <<cmd, nodes, faults>>
      PROVE  Explained' = Explained /\ \A g \in faults' : g[1] \in Position
  BY <1>3 DEF Explained, Below, SweepTypes
<1>4. ASSUME Walking, at' = at + 1
      PROVE  at' \in (at + 1)..(Len(nodes) + 1) /\ at..(at' - 1) = {at}
  BY <1>2, <1>4 DEF Position
<1>5. ASSUME Enter PROVE SweepInv'
  <2>1. at \notin Things
    <3>1. nodes[at].level < ThingLevel(cmd) /\ ThingLevel(cmd) \in Int /\ nodes[at].level \in Int
      BY <1>2, <1>5, SweepAssumption DEF Enter, ThingLevel, SweepTypes
    <3>2. nodes[at].level # ThingLevel(cmd)
      BY <3>1
    <3>3. QED
      BY <3>2 DEF Things
  <2>2. Walking /\ at' = at + 1 /\ UNCHANGED <<cmd, nodes, faults, batch, given, exit>>
    BY <1>5 DEF Enter
  <2>3. QED
    BY <1>2, <1>3, <1>4, <2>1, <2>2, PassedBy
<1>6. ASSUME Find PROVE SweepInv'
  <2>1. Walking /\ at' = at + 1 /\ UNCHANGED <<cmd, nodes, faults, exit>>
    BY <1>6 DEF Find
  <2>2. CASE Classified(cmd, nodes[at]) /\ HandOn(at)
    <3>1. at \in Things
      BY <1>2, <1>6, <2>1, <2>2 DEF Things, Find
    <3>2. \/ cmd \in Streaming /\ given' = Append(given, at) /\ batch' = batch
          \/ cmd \notin Streaming /\ batch' = Append(batch, at) /\ given' = given
      BY <2>2 DEF HandOn, Send, PrintLine, Streaming
    <3>3. QED
      BY <1>2, <1>3, <2>1, <3>1, <3>2, Handed
  <2>3. CASE ~Classified(cmd, nodes[at]) /\ UNCHANGED <<batch, given, taken, rows>>
    <3>1. at \notin Things
      BY <2>3 DEF Things
    <3>2. QED
      BY <1>2, <1>3, <1>4, <2>1, <2>3, <3>1, PassedBy
  <2>4. QED
    BY <1>6, <2>2, <2>3 DEF Find
<1>7. ASSUME Exit PROVE SweepInv'
  <2>1. /\ exit = "running" /\ at > Len(nodes) /\ batch = <<>> /\ exit' = "ok"
        /\ UNCHANGED <<cmd, nodes, at, faults, batch, given, taken, rows>>
    BY <1>7 DEF Exit
  <2>2. at = Len(nodes) + 1
    BY <2>1, Positions DEF SweepTypes
  <2>3. SweepTypes' /\ InOrder' /\ HeldBack' /\ HowItEnds'
    BY <2>1, <2>2 DEF SweepTypes, Position, InOrder, HeldBack, HowItEnds
  <2>4. Complete' /\ ExplainedBehind'
    BY <2>1 DEF Complete, Passed, Things, Explained, Below, ExplainedBehind
  <2>5. QED
    BY <2>3, <2>4
<1>8. QED
  BY <1>1, <1>5, <1>6, <1>7, FailKeepsSweepInv, FlushKeepsSweepInv DEF SweepNext, SweepDone

(* An inventory command hands on every thing that nothing explains away,   *)
(* once and in order, whatever goes wrong on its way and wherever it ends, *)
(* for every tree it may find (scan.rs, vault.rs, aws_kms.rs, pkcs11.rs,   *)
(* inventory.rs, ree0xq_net.rs).                                           *)
THEOREM SweepMissesNothing == AgentsSpec => []MissedOnlyIfFaulty
<1>1. AgentsInit => SweepInv
  BY SweepInvInit DEF AgentsInit
<1>2. SweepInv /\ [AgentsNext]_agentVars => SweepInv'
  <2>1. [AgentsNext]_agentVars => [SweepNext]_sweepVars
    BY DEF AgentsNext, agentVars, Live, LiveEbpf, OneShot, Quiet
  <2>2. QED
    BY <2>1, SweepInvNext
<1>3. SweepInv => MissedOnlyIfFaulty
  <2> SUFFICES ASSUME SweepInv PROVE MissedOnlyIfFaulty
    OBVIOUS
  <2> USE DEF SweepInv
  <2>1. {given[i] : i \in DOMAIN given} = Range(given)
    BY DEF Range
  <2>2. Range(<<>>) = {}
    BY DEF Range
  <2>3. ASSUME exit = "ok" PROVE Range(given) = Things \ Explained
    <3>1. at = Len(nodes) + 1 /\ batch = <<>>
      BY <2>3 DEF HowItEnds
    <3>2. \A i \in Things : i < at
      <4>1. \A i \in Position : i < Len(nodes) + 1
        BY Positions DEF Position
      <4>2. QED
        BY <3>1, <4>1, Positions
    <3>3. QED
      BY <2>2, <3>1, <3>2 DEF Complete, Passed
  <2>4. ASSUME exit = "error"
        PROVE  Range(given) = IF cmd \in Streaming THEN Passed ELSE {}
    BY <2>2, <2>4 DEF HowItEnds, HeldBack, Complete
  <2>5. \A i, j \in DOMAIN given : i < j => given[i] < given[j]
    BY DEF InOrder, Increasing
  <2>6. QED
    BY <2>1, <2>3, <2>4, <2>5 DEF MissedOnlyIfFaulty, HowItEnds, Passed
<1>4. QED
  BY <1>1, <1>2, <1>3, PTL DEF AgentsSpec

-----------------------------------------------------------------------------
(* The key under which the collector keeps a thing.                        *)
KeyOf(i) == Key(build_event(cmd, nodes[i]))

(* A thing that the collector took is behind the row of its key, which is  *)
(* that of the last thing with this key.                                   *)
RowIsLastOfKey ==
  \A i \in taken :
    /\ KeyOf(i) \in DOMAIN rows
    /\ rows[KeyOf(i)] \in taken
    /\ KeyOf(rows[KeyOf(i)]) = KeyOf(i)
    /\ i <= rows[KeyOf(i)]

RowInv == taken \subseteq Range(given) /\ taken \subseteq Int /\ RowIsLastOfKey

LEMMA SendKeepsRowInv ==
  ASSUME RowInv, given \in Seq(Int), NEW i \in Int, Send(i), \A j \in Range(given) : j < i,
         UNCHANGED <<cmd, nodes>>
  PROVE  RowInv'
<1>1. Range(given') = Range(given) \union {i}
  BY RangeOfAppend DEF Send
<1>2. \A j : KeyOf(j)' = KeyOf(j)
  BY DEF KeyOf
<1>3. CASE taken' = taken /\ rows' = rows
  BY <1>1, <1>2, <1>3 DEF RowInv, RowIsLastOfKey
<1>4. CASE /\ taken' = taken \union {i}
           /\ rows' = [k \in DOMAIN rows \union {KeyOf(i)} |-> IF k = KeyOf(i) THEN i ELSE rows[k]]
  <2>1. /\ DOMAIN rows' = DOMAIN rows \union {KeyOf(i)}
        /\ rows'[KeyOf(i)] = i
        /\ \A k \in DOMAIN rows : k # KeyOf(i) => rows'[k] = rows[k]
    BY <1>4
  <2>2. taken' \subseteq Range(given') /\ taken' \subseteq Int
    BY <1>1, <1>4 DEF RowInv
  <2>3. ASSUME NEW j \in taken'
        PROVE  /\ KeyOf(j) \in DOMAIN rows'
               /\ rows'[KeyOf(j)] \in taken'
               /\ KeyOf(rows'[KeyOf(j)]) = KeyOf(j)
               /\ j <= rows'[KeyOf(j)]
    <3>1. CASE KeyOf(j) = KeyOf(i)
      <4>1. j <= i
        BY <1>4 DEF RowInv
      <4>2. QED
        BY <1>4, <2>1, <3>1, <4>1
    <3>2. CASE KeyOf(j) # KeyOf(i)
      <4>1. j \in taken
        BY <1>4, <3>2
      <4>2. QED
        BY <1>4, <2>1, <3>2, <4>1 DEF RowInv, RowIsLastOfKey
    <3>3. QED
      BY <3>1, <3>2
  <2>4. RowIsLastOfKey'
    BY <1>2, <2>3 DEF RowIsLastOfKey
  <2>5. QED
    BY <2>2, <2>4 DEF RowInv
<1>5. QED
  BY <1>3, <1>4 DEF Send, KeyOf

LEMMA RowInvNext == SweepInv /\ RowInv /\ [SweepNext]_sweepVars => RowInv'
<1> SUFFICES ASSUME SweepInv, RowInv, [SweepNext]_sweepVars PROVE RowInv'
  OBVIOUS
<1>1. given \in Seq(Int) /\ batch \in Seq(Int) /\ at \in Int
  BY Positions DEF SweepInv
<1>2. UNCHANGED <<cmd, nodes>>
  BY DEF SweepNext, sweepVars, Enter, Find, Fail, Flush, Exit, SweepDone
<1>3. \A i : KeyOf(i)' = KeyOf(i)
  BY <1>2 DEF KeyOf
<1>4. ASSUME UNCHANGED <<given, taken, rows>> PROVE RowInv'
  BY <1>3, <1>4 DEF RowInv, RowIsLastOfKey
<1>5. ASSUME PrintLine(at) PROVE RowInv'
  <2>1. Range(given') = Range(given) \union {at} /\ UNCHANGED <<taken, rows>>
    BY <1>1, <1>5, RangeOfAppend DEF PrintLine
  <2>2. QED
    BY <1>3, <2>1 DEF RowInv, RowIsLastOfKey
<1>6. ASSUME Find PROVE RowInv'
  <2>1. \A j \in Range(given) : j < at
    BY DEF SweepInv, Complete, Passed
  <2>2. ASSUME Send(at) PROVE RowInv'
    BY <1>1, <1>2, <2>1, <2>2, SendKeepsRowInv
  <2>3. QED
    BY <1>4, <1>5, <1>6, <2>2 DEF Find, HandOn
<1>7. ASSUME Flush PROVE RowInv'
  <2>1. batch # <<>> /\ Send(Head(batch))
    BY <1>7 DEF Flush
  <2>2. Head(batch) \in Int /\ Head(batch) \in Range(batch)
    BY <1>1, <2>1, RangeOfTail
  <2>3. \A j \in Range(given) : j < Head(batch)
    BY <2>2 DEF SweepInv, InOrder
  <2>4. QED
    BY <1>1, <1>2, <2>1, <2>2, <2>3, SendKeepsRowInv
<1>8. ASSUME NEW t \in OnFault(cmd), Fail(t) PROVE RowInv'
  BY <1>4, <1>5, <1>8 DEF Fail
<1>9. QED
  BY <1>4, <1>6, <1>7, <1>8 DEF SweepNext, sweepVars, Enter, Exit, SweepDone

(* Of the things that share a key the collector shows the last it took,    *)
(* and never a thing of another key: a thing is hidden only by a later one *)
(* whose key, identity included, is its own (store.rs, append; the sinks). *)
THEOREM SweepShowsTheLast == AgentsSpec => []RowIsLastOfKey
<1>1. AgentsInit => SweepInv /\ RowInv
  <2>1. AgentsInit => RowInv
    BY DEF AgentsInit, SweepInit, RowInv, RowIsLastOfKey
  <2>2. QED
    BY <2>1, SweepInvInit DEF AgentsInit
<1>2. SweepInv /\ RowInv /\ [AgentsNext]_agentVars => SweepInv' /\ RowInv'
  <2>1. [AgentsNext]_agentVars => [SweepNext]_sweepVars
    BY DEF AgentsNext, agentVars, Live, LiveEbpf, OneShot, Quiet
  <2>2. QED
    BY <2>1, SweepInvNext, RowInvNext
<1>3. RowInv => RowIsLastOfKey
  BY DEF RowInv
<1>4. QED
  BY <1>1, <1>2, <1>3, PTL DEF AgentsSpec

(* Parts of one word each, in a row: the words.                            *)
LEMMA FlattenSingles ==
  ASSUME NEW S, NEW seqs \in Seq(Seq(S)), \A i \in DOMAIN seqs : Len(seqs[i]) = 1
  PROVE  /\ Len(FlattenSeq(seqs)) = Len(seqs)
         /\ \A i \in 1..Len(seqs) : FlattenSeq(seqs)[i] = seqs[i][1]
<1> DEFINE n == Len(seqs)
           word(i) == seqs[i][1]
           first(k) == [j \in 1..k |-> word(j)]
           flatten == CHOOSE g : g = [i \in 1..n |-> IF i = 1 THEN seqs[i] ELSE g[i - 1] \o seqs[i]]
<1>1. n \in Nat /\ DOMAIN seqs = 1..n
  OBVIOUS
<1>2. \A i \in 1..n : seqs[i] \in Seq(S) /\ Len(seqs[i]) = 1 /\ seqs[i][1] = word(i)
  <2>1. \A i \in 1..n : seqs[i] \in Seq(S)
    OBVIOUS
  <2>2. \A i \in 1..n : Len(seqs[i]) = 1
    BY <1>1
  <2> HIDE DEF n
  <2>3. QED
    BY <2>1, <2>2
<1>3. \A i \in 1..n : word(i) \in S /\ DOMAIN seqs[i] = {1} /\ seqs[i] = [j \in {1} |-> word(i)]
  BY <1>2
<1> HIDE DEF word, n
<1>4. \A k \in 0..n : first(k) \in Seq(S) /\ Len(first(k)) = k
  BY <1>1, <1>3
<1>5. ASSUME NEW k \in 1..n
      PROVE  first(k) = IF k = 1 THEN seqs[k] ELSE first(k - 1) \o seqs[k]
  <2>1. CASE k = 1
    <3>1. 1..k = {1}
      BY <2>1
    <3>2. seqs[k] = [j \in {1} |-> word(1)]
      BY <1>3, <2>1
    <3>3. QED
      BY <2>1, <3>1, <3>2
  <2>2. CASE k # 1
    <3> DEFINE a == first(k - 1)
               b == seqs[k]
               c == first(k)
    <3>1. /\ a \in Seq(S) /\ Len(a) = k - 1 /\ \A j \in 1..k - 1 : a[j] = word(j)
          /\ b \in Seq(S) /\ Len(b) = 1 /\ b[1] = word(k)
          /\ c \in Seq(S) /\ Len(c) = k /\ \A j \in 1..k : c[j] = word(j)
          /\ k \in Nat
      BY <1>1, <1>2, <1>4, <2>2
    <3> HIDE DEF a, b, c
    <3>2. a \o b \in Seq(S) /\ Len(a \o b) = k
      <4>1. a \o b \in Seq(S) /\ Len(a \o b) = Len(a) + Len(b)
        BY <3>1, ConcatProperties
      <4>2. (k - 1) + 1 = k
        BY <3>1
      <4>3. QED
        BY <3>1, <4>1, <4>2
    <3>3. ASSUME NEW j \in 1..k PROVE (a \o b)[j] = word(j)
      <4>1. (a \o b)[j] = IF j <= Len(a) THEN a[j] ELSE b[j - Len(a)]
        <5>1. j \in 1..(Len(a) + Len(b))
          BY <3>1
        <5>2. QED
          BY <3>1, <5>1, ConcatProperties
      <4>2. CASE j <= k - 1
        <5>1. j \in 1..k - 1
          BY <3>1, <4>2
        <5>2. QED
          BY <3>1, <4>1, <4>2, <5>1
      <4>3. CASE ~(j <= k - 1)
        <5>1. j = k /\ j - (k - 1) = 1
          BY <3>1, <4>3
        <5>2. (a \o b)[j] = b[1]
          BY <3>1, <4>1, <4>3, <5>1
        <5>3. QED
          BY <3>1, <5>1, <5>2
      <4>4. QED
        BY <4>2, <4>3
    <3>4. c = a \o b
      BY <3>1, <3>2, <3>3, SeqEqual
    <3>5. QED
      BY <2>2, <3>4 DEF a, b, c
  <2>3. QED
    BY <2>1, <2>2
<1> DEFINE h == [i \in 1..n |-> first(i)]
<1>6. h = [i \in 1..n |-> IF i = 1 THEN seqs[i] ELSE h[i - 1] \o seqs[i]]
  <2>1. \A i \in 1..n : h[i] = first(i)
    OBVIOUS
  <2>2. \A i \in 1..n : i # 1 => h[i - 1] = first(i - 1)
    BY <1>1
  <2>3. h = [i \in 1..n |-> h[i]]
    OBVIOUS
  <2> HIDE DEF h, first
  <2>4. \A i \in 1..n : h[i] = IF i = 1 THEN seqs[i] ELSE h[i - 1] \o seqs[i]
    BY <1>5, <2>1, <2>2
  <2>5. QED
    BY <2>3, <2>4
<1>7. flatten = [i \in 1..n |-> IF i = 1 THEN seqs[i] ELSE flatten[i - 1] \o seqs[i]]
  <2> HIDE DEF h
  <2>1. QED
    BY <1>6
<1> HIDE DEF h, flatten, first
<1>8. \A i \in 1..n : flatten[i] = IF i = 1 THEN seqs[i] ELSE flatten[i - 1] \o seqs[i]
  BY <1>7
<1>9. \A k \in 1..n : flatten[k] = first(k)
  <2> DEFINE B == {k \in 1..n : flatten[k] # first(k)}
  <2> SUFFICES ASSUME B # {} PROVE FALSE
    OBVIOUS
  <2>1. B \in SUBSET Nat
    BY <1>1
  <2>2. PICK k \in B : \A j \in B : k <= j
    BY <2>1, LeastNumber
  <2>3. k \in 1..n /\ flatten[k] # first(k)
    OBVIOUS
  <2>4. k # 1
    BY <1>5, <1>8, <2>3
  <2>5. k - 1 \in 1..n /\ ~(k <= k - 1)
    BY <1>1, <2>3, <2>4
  <2>6. flatten[k - 1] = first(k - 1)
    BY <2>2, <2>5
  <2>7. QED
    BY <1>5, <1>8, <2>3, <2>4, <2>6
<1>10. CASE n = 0
  <2>1. FlattenSeq(seqs) = seqs
    BY <1>10 DEF FlattenSeq, n
  <2>2. QED
    BY <1>10, <2>1 DEF n
<1>11. CASE n # 0
  <2>1. FlattenSeq(seqs) = flatten[n]
    BY <1>11 DEF FlattenSeq, n, flatten
  <2>2. n \in 1..n /\ n \in 0..n
    BY <1>1, <1>11
  <2>3. FlattenSeq(seqs) = first(n)
    BY <1>9, <2>1, <2>2
  <2>4. Len(first(n)) = n /\ \A i \in 1..n : first(n)[i] = word(i)
    BY <1>4, <2>2 DEF first
  <2>5. QED
    BY <2>3, <2>4 DEF n, word
<1>12. QED
  BY <1>10, <1>11

(* Such parts can be told from the words they make in a row.               *)
LEMMA SinglesAreTold ==
  ASSUME NEW S, NEW s \in Seq(Seq(S)), NEW t \in Seq(Seq(S)),
         \A i \in DOMAIN s : Len(s[i]) = 1, \A i \in DOMAIN t : Len(t[i]) = 1,
         FlattenSeq(s) = FlattenSeq(t)
  PROVE  s = t
<1>1. /\ Len(FlattenSeq(s)) = Len(s) /\ \A i \in 1..Len(s) : FlattenSeq(s)[i] = s[i][1]
      /\ Len(FlattenSeq(t)) = Len(t) /\ \A i \in 1..Len(t) : FlattenSeq(t)[i] = t[i][1]
  BY FlattenSingles
<1>2. Len(s) = Len(t) /\ \A i \in 1..Len(s) : s[i][1] = t[i][1]
  BY <1>1
<1>3. ASSUME NEW i \in 1..Len(s) PROVE s[i] = t[i]
  <2> DEFINE a == s[i]
             b == t[i]
  <2>1. a \in Seq(S) /\ b \in Seq(S) /\ Len(a) = 1 /\ Len(b) = 1 /\ a[1] = b[1]
    BY <1>2
  <2> HIDE DEF a, b
  <2>2. a = b
    BY <2>1, SeqEqual
  <2>3. QED
    BY <2>2 DEF a, b
<1>4. QED
  BY <1>2, <1>3, SeqEqual

(* The last part of a key is the name that the thing is reported under.    *)
LEMMA KeyNames ==
  ASSUME NEW c \in Command, NEW n
  PROVE  Key(build_event(c, n))[3] = IdentityOf(n)
<1>1. CASE c \in CertCommand
  <2>1. build_event(c, n) = event_from_cert(n)
    BY <1>1 DEF build_event, CertCommand, IdCommand, ChainCommand, NetCommand
  <2>2. QED
    BY <2>1 DEF Key, Event, event_from_cert
<1>2. CASE c \in IdCommand
  <2>1. build_event(c, n) = HsmSlot(c, n)
    BY <1>2 DEF build_event, CertCommand, IdCommand, ChainCommand, NetCommand
  <2>2. QED
    BY <2>1 DEF Key, Event, HsmSlot
<1>3. CASE c \in ChainCommand
  <2>1. build_event(c, n) = BlockchainKey(c, n)
    BY <1>3 DEF build_event, CertCommand, IdCommand, ChainCommand, NetCommand
  <2>2. QED
    BY <2>1 DEF Key, Event, BlockchainKey
<1>4. CASE c \in NetCommand
  <2>1. build_event(c, n) = event_from_zgrab(n)
    BY <1>4 DEF build_event, CertCommand, IdCommand, ChainCommand, NetCommand
  <2>2. QED
    BY <2>1 DEF Key, Event, event_from_zgrab
<1>5. QED
  BY <1>1, <1>2, <1>3, <1>4 DEF Command

(* A thing that the collector took is shown by its own row, or by that of  *)
(* a namesake where names may be shared, or a part of a name contains the  *)
(* separator: the row has the thing's key (SweepShowsTheLast), the key     *)
(* holds the parts of the name in a row, and parts without a separator can *)
(* be told from that (id: event.rs, pkcs11.rs, inventory.rs; zgrab).       *)
THEOREM SweepHidesOnlyNamesakes == AgentsSpec => []HiddenOnlyByNamesake
<1>1. AgentsInit => SweepInv /\ RowInv
  <2>1. AgentsInit => RowInv
    BY DEF AgentsInit, SweepInit, RowInv, RowIsLastOfKey
  <2>2. QED
    BY <2>1, SweepInvInit DEF AgentsInit
<1>2. SweepInv /\ RowInv /\ [AgentsNext]_agentVars => SweepInv' /\ RowInv'
  <2>1. [AgentsNext]_agentVars => [SweepNext]_sweepVars
    BY DEF AgentsNext, agentVars, Live, LiveEbpf, OneShot, Quiet
  <2>2. QED
    BY <2>1, SweepInvNext, RowInvNext
<1>3. SweepInv /\ RowInv => HiddenOnlyByNamesake
  <2> SUFFICES ASSUME SweepInv, RowInv, NEW i \in taken,
                      LET r == nodes[rows[KeyOf(i)]]
                          n == nodes[i]
                      IN  \A p \in Range(r.parts) \union Range(n.parts) : ~(Len(p) > 1)
               PROVE  LET r == nodes[rows[KeyOf(i)]]
                          n == nodes[i]
                      IN  \/ r.asset = n.asset
                          \/ r.parts = n.parts /\ cmd \in Ambiguous
    BY DEF HiddenOnlyByNamesake, KeyOf
  <2> DEFINE j == rows[KeyOf(i)]
             s == nodes[j].parts
             t == nodes[i].parts
  <2>1. j \in taken /\ KeyOf(j) = KeyOf(i)
    BY DEF RowInv, RowIsLastOfKey
  <2>2. cmd \in DOMAIN Trees /\ cmd \in Command /\ nodes \in Trees[cmd]
    BY SweepAssumption DEF SweepInv, SweepTypes
  <2>3. taken \subseteq Things
    BY DEF RowInv, SweepInv, Complete, Passed
  <2> HIDE DEF j
  <2>4. \A k \in {i, j} : k \in {l \in DOMAIN nodes : nodes[l].level = ThingLevel(cmd)}
    BY <2>1, <2>3 DEF Things
  <2>5. /\ s \in Seq(Seq(STRING)) /\ <<>> \notin Range(s)
        /\ t \in Seq(Seq(STRING)) /\ <<>> \notin Range(t)
        /\ cmd \notin Ambiguous /\ s = t => nodes[j].asset = nodes[i].asset
    BY <2>2, <2>4, NamesAssumption
  <2>6. FlattenSeq(s) = FlattenSeq(t)
    <3>1. KeyOf(j)[3] = IdentityOf(nodes[j]) /\ KeyOf(i)[3] = IdentityOf(nodes[i])
      BY <2>2, KeyNames DEF KeyOf
    <3>2. QED
      BY <2>1, <3>1 DEF IdentityOf
  <2>7. \A p \in Range(s) \union Range(t) : ~(Len(p) > 1)
    BY DEF j
  <2> HIDE DEF s, t
  <2>8. ASSUME NEW u \in Seq(Seq(STRING)), <<>> \notin Range(u), \A p \in Range(u) : ~(Len(p) > 1)
        PROVE  \A k \in DOMAIN u : Len(u[k]) = 1
    <3> SUFFICES ASSUME NEW k \in DOMAIN u PROVE Len(u[k]) = 1
      OBVIOUS
    <3>1. u[k] \in Seq(STRING) /\ u[k] \in Range(u)
      BY DEF Range
    <3>2. u[k] # <<>> /\ ~(Len(u[k]) > 1)
      BY <2>8, <3>1
    <3> DEFINE w == u[k]
    <3>3. w \in Seq(STRING) /\ w # <<>> /\ ~(Len(w) > 1)
      BY <3>1, <3>2
    <3> HIDE DEF w
    <3>4. Len(w) \in Nat /\ Len(w) # 0
      BY <3>3
    <3>5. \A m \in Nat : m # 0 /\ ~(m > 1) => m = 1
      OBVIOUS
    <3>6. Len(w) = 1
      BY <3>3, <3>4, <3>5, Zenon
    <3>7. QED
      BY <3>6 DEF w
  <2>9. /\ \A k \in DOMAIN s : Len(s[k]) = 1
        /\ \A k \in DOMAIN t : Len(t[k]) = 1
    BY <2>5, <2>7, <2>8
  <2>10. s = t
    BY <2>5, <2>6, <2>9, SinglesAreTold
  <2>11. QED
    BY <2>5, <2>10 DEF s, t, j
<1>4. QED
  BY <1>1, <1>2, <1>3, PTL DEF AgentsSpec

-----------------------------------------------------------------------------
(***************************************************************************)
(* The tables: which primitives claim to resist, and that it is so of the  *)
(* hashes among them.                                                      *)
(***************************************************************************)
Claims(p) == p.pq = "yes"

IsLongHash(p) == p.role = "hash" /\ p.algorithm \in LongHash

LEMMA RangeOfConcat ==
  ASSUME NEW S, NEW s \in Seq(S), NEW t \in Seq(S)
  PROVE  Range(s \o t) \subseteq Range(s) \union Range(t)
<1> SUFFICES ASSUME NEW i \in DOMAIN (s \o t)
             PROVE  (s \o t)[i] \in Range(s) \union Range(t)
  BY DEF Range
<1>1. /\ Len(s) \in Nat /\ Len(t) \in Nat /\ i \in 1..(Len(s) + Len(t))
      /\ DOMAIN s = 1..Len(s) /\ DOMAIN t = 1..Len(t)
      /\ (s \o t)[i] = IF i <= Len(s) THEN s[i] ELSE t[i - Len(s)]
  <2>1. DOMAIN (s \o t) = 1..Len(s \o t) /\ Len(s \o t) = Len(s) + Len(t)
    BY ConcatProperties, LenProperties
  <2>2. QED
    BY <2>1, ConcatProperties, LenProperties
<1>2. CASE i <= Len(s)
  BY <1>1, <1>2 DEF Range
<1>3. CASE ~(i <= Len(s))
  <2>1. i - Len(s) \in 1..Len(t)
    BY <1>1, <1>3
  <2>2. QED
    BY <1>1, <1>3, <2>1 DEF Range
<1>4. QED
  BY <1>2, <1>3

(* Of the key types only those of the standards, and AES, claim to resist. *)
LEMMA KeyClaims ==
  ASSUME NEW type \in DOMAIN KeyPrimitives, NEW p \in Range(KeyPrimitives[type]), Claims(p)
  PROVE  \/ p.role = "sig" /\ type \in PqSignature
         \/ p.role = "encrypt" /\ type \in {"AES", "SYMMETRIC_DEFAULT"}
         \/ IsLongHash(p)
<1> USE DEF Claims, Range, KeyPrimitives, Sig, Encrypt, Hash, Primitive, PqSignature, IsLongHash, LongHash
<1>1. CASE type \in {"RSA", "RSA_2048", "RSA_3072", "RSA_4096", "ED25519", "ED448", "SM2"}
  BY <1>1
<1>2. CASE type \in {"ECC_NIST_P256", "ECC_NIST_P384"}
  BY <1>2
<1>3. CASE type \in {"ECC_NIST_P521", "ECC_SECG_P256K1"}
  BY <1>3
<1>4. CASE type \in {"ML_DSA_44", "ML_DSA_65", "ML_DSA_87", "SLH_DSA_128S", "SLH_DSA_192S"}
  BY <1>4
<1>5. CASE type \in {"AES_128", "AES", "SYMMETRIC_DEFAULT"}
  BY <1>5
<1>6. CASE type \in {"HMAC_224", "HMAC_256", "HMAC_384", "HMAC_512"}
  BY <1>6
<1>7. QED
  BY <1>1, <1>2, <1>3, <1>4, <1>5, <1>6

(* A certificate's signature, named or not, and its hash.                  *)
LEMMA CertClaims ==
  ASSUME NEW sig, NEW p \in Range(CertPrimitives(sig)), Claims(p)
  PROVE  \/ p.role = "sig" /\ sig \in {"ML-DSA-44", "ML-DSA-65", "ML-DSA-87"}
         \/ IsLongHash(p)
         \/ p.role = "hash" /\ sig = "RSA-PKCS1-SHA1"
<1> DEFINE Names == {"SHA-1", "SHA-256", "SHA-384", "SHA-512"}
           first == decompose_sig(sig)
           S == {first} \union {Hash(a, "yes") : a \in Names}
           Good(q) == IsLongHash(q) \/ (q.role = "hash" /\ sig = "RSA-PKCS1-SHA1")
<1>1. first.role = "sig"
  BY DEF decompose_sig, Sig, Primitive
<1>2. first.pq = "yes" => sig \in {"ML-DSA-44", "ML-DSA-65", "ML-DSA-87"}
  BY DEF decompose_sig, Sig, Primitive
<1>3. \/ HashPart(sig) = <<>>
      \/ \E a \in Names : HashPart(sig) = <<Hash(a, "yes")>> /\ (a = "SHA-1" => sig = "RSA-PKCS1-SHA1")
  BY DEF HashPart
<1> HIDE DEF first
<1>4. HashPart(sig) \in Seq(S) /\ \A q \in Range(HashPart(sig)) : Good(q)
  <2>1. CASE HashPart(sig) = <<>>
    BY <2>1 DEF Range
  <2>2. ASSUME NEW a \in Names, HashPart(sig) = <<Hash(a, "yes")>>, a = "SHA-1" => sig = "RSA-PKCS1-SHA1"
        PROVE  HashPart(sig) \in Seq(S) /\ \A q \in Range(HashPart(sig)) : Good(q)
    <3> DEFINE h == Hash(a, "yes")
    <3>1. h.role = "hash" /\ h.algorithm = a /\ h \in S
      BY DEF Hash, Primitive
    <3> HIDE DEF h, S
    <3>2. Good(h)
      BY <2>2, <3>1 DEF IsLongHash, LongHash
    <3> HIDE DEF Good
    <3>3. <<h>> \in Seq(S) /\ Range(<<h>>) = {h}
      BY <3>1 DEF Range
    <3>4. HashPart(sig) = <<h>>
      BY <2>2 DEF h
    <3>5. QED
      BY <3>2, <3>3, <3>4
  <2>3. QED
    BY <1>3, <2>1, <2>2
<1> HIDE DEF Names
<1>5. <<first>> \in Seq(S) /\ Range(<<first>>) = {first}
  <2>1. first \in S
    OBVIOUS
  <2> HIDE DEF S
  <2>2. QED
    BY <2>1 DEF Range
<1> HIDE DEF S
<1>6. p \in Range(<<first>> \o HashPart(sig))
  BY DEF CertPrimitives, first
<1>7. p = first \/ Good(p)
  <2> HIDE DEF Good
  <2>1. QED
    BY <1>4, <1>5, <1>6, RangeOfConcat
<1>8. QED
  BY <1>1, <1>2, <1>7 DEF Claims

(* A suite, by what its cipher is.                                         *)
LEMMA SuiteClaims ==
  ASSUME NEW name \in KnownSuite
  PROVE  /\ SuitePrimitives(name) \in Seq(Range(SuitePrimitives(name)))
         /\ \A p \in Range(SuitePrimitives(name)) :
              Claims(p) => (p.role = "encrypt" /\ name \in LongKeySuite) \/ IsLongHash(p)
<1>1. CASE name \in DOMAIN Tls13Suite
  <2> DEFINE t == Tls13Suite[name]
             e == Encrypt(t[1], t[2])
             h == Hash(t[3], "yes")
  <2>1. e.role = "encrypt" /\ h.role = "hash" /\ e.pq = t[2] /\ h.algorithm = t[3]
    BY DEF Encrypt, Hash, Primitive
  <2>6. t[3] \in LongHash
    BY <1>1 DEF Tls13Suite, LongHash
  <2>2. t[2] = "yes" => name \in LongKeySuite
    BY <1>1 DEF Tls13Suite, LongKeySuite
  <2>3. SuitePrimitives(name) = <<e, h>>
    BY <1>1 DEF SuitePrimitives, primitives_from_tls13_ciphersuite
  <2> HIDE DEF t, e, h
  <2>4. Range(<<e, h>>) = {e, h} /\ <<e, h>> \in Seq({e, h})
    BY DEF Range
  <2>5. QED
    BY <2>1, <2>2, <2>3, <2>4, <2>6 DEF Claims, IsLongHash
<1>2. CASE name \notin DOMAIN Tls13Suite
  <2> DEFINE t == Tls12Suite[name]
             k == Kex(KexWord(t[1]), "no")
             s == Sig(SigWord(t[1]), "no")
             c == CipherWord(t[2])
             h == HashWord(t[3])
  <2>1. name \in DOMAIN Tls12Suite
    BY <1>2 DEF KnownSuite
  <2>2. k.pq = "no" /\ s.pq = "no" /\ h.role = "hash" /\ c.role = "encrypt"
    BY DEF Kex, Sig, CipherWord, HashWord, Encrypt, Hash, Primitive
  <2>8. h.pq = "yes" => IsLongHash(h)
    BY DEF HashWord, Hash, Primitive, IsLongHash, LongHash
  <2>3. c.pq = "yes" => t[2] \in {"AES_256_GCM", "CHACHA20_POLY1305"}
    BY DEF CipherWord, Encrypt, Primitive
  <2>4. t[2] \in {"AES_256_GCM", "CHACHA20_POLY1305"} => name \in LongKeySuite
    BY <2>1 DEF Tls12Suite, LongKeySuite
  <2>5. SuitePrimitives(name) = <<k, s, c, h>>
    BY <1>2 DEF SuitePrimitives, primitives_from_tls12_ciphersuite
  <2> HIDE DEF t, k, s, c, h
  <2>6. Range(<<k, s, c, h>>) = {k, s, c, h} /\ <<k, s, c, h>> \in Seq({k, s, c, h})
    BY DEF Range
  <2>7. QED
    BY <2>2, <2>3, <2>4, <2>5, <2>6, <2>8 DEF Claims
<1>3. QED
  BY <1>1, <1>2

(* An address.                                                             *)
LEMMA ChainClaims ==
  ASSUME NEW script \in DOMAIN ChainPrimitives, NEW p \in Range(ChainPrimitives[script]), Claims(p)
  PROVE  (p.role = "sig" /\ script = "qrl") \/ IsLongHash(p)
BY DEF Claims, Range, ChainPrimitives, Sig, Hash, Primitive, IsLongHash, LongHash

(* A record of a scan: a suite, a group and a signature.                   *)
LEMMA ZgrabClaims ==
  ASSUME NEW r, r.suite \in KnownSuite \union {"none"},
         NEW p \in Range(primitives_from_zgrab(r)), Claims(p)
  PROVE  \/ p.role = "encrypt" /\ r.suite \in LongKeySuite
         \/ p.role = "kex" /\ r.group \in PqGroup
         \/ p.role = "sig" /\ r.sig \in PqSignature
         \/ IsLongHash(p)
<1> DEFINE A == IF r.suite = "none" THEN <<>> ELSE SuitePrimitives(r.suite)
           B == IF r.group \in KnownGroup THEN <<primitive_from_supported_group[r.group]>> ELSE <<>>
           C == IF r.sig \in DOMAIN ZgrabSig THEN <<ZgrabSig[r.sig]>> ELSE <<>>
<1>1. /\ A \in Seq(Range(A))
      /\ \A q \in Range(A) : Claims(q) => (q.role = "encrypt" /\ r.suite \in LongKeySuite) \/ IsLongHash(q)
  <2>1. CASE r.suite = "none"
    BY <2>1 DEF Range
  <2>2. CASE r.suite # "none"
    <3>1. r.suite \in KnownSuite /\ A = SuitePrimitives(r.suite)
      BY <2>2
    <3> HIDE DEF A
    <3>2. QED
      BY <3>1, SuiteClaims
  <2>3. QED
    BY <2>1, <2>2
<1>2. /\ B \in Seq(Range(B))
      /\ \A q \in Range(B) : Claims(q) => q.role = "kex" /\ r.group \in PqGroup
  <2>1. CASE r.group \notin KnownGroup
    BY <2>1 DEF Range
  <2>2. CASE r.group \in KnownGroup
    <3> DEFINE g == primitive_from_supported_group[r.group]
    <3>1. Claims(g) => g.role = "kex" /\ r.group \in PqGroup
      BY <2>2 DEF KnownGroup, primitive_from_supported_group, Kex, Primitive, Claims, PqGroup
    <3>2. B = <<g>>
      BY <2>2
    <3> HIDE DEF g, B
    <3>3. <<g>> \in Seq({g}) /\ Range(<<g>>) = {g}
      BY DEF Range
    <3>4. QED
      BY <3>1, <3>2, <3>3
  <2>3. QED
    BY <2>1, <2>2
<1>3. /\ C \in Seq(Range(C))
      /\ \A q \in Range(C) : Claims(q) => q.role = "sig" /\ r.sig \in PqSignature
  <2>1. CASE r.sig \notin DOMAIN ZgrabSig
    BY <2>1 DEF Range
  <2>2. CASE r.sig \in DOMAIN ZgrabSig
    <3> DEFINE g == ZgrabSig[r.sig]
    <3>1. Claims(g) => g.role = "sig" /\ r.sig \in PqSignature
      BY <2>2 DEF ZgrabSig, Sig, Primitive, Claims, PqSignature
    <3>2. C = <<g>>
      BY <2>2
    <3> HIDE DEF g, C
    <3>3. <<g>> \in Seq({g}) /\ Range(<<g>>) = {g}
      BY DEF Range
    <3>4. QED
      BY <3>1, <3>2, <3>3
  <2>3. QED
    BY <2>1, <2>2
<1>4. primitives_from_zgrab(r) = A \o B \o C
  BY DEF primitives_from_zgrab
<1> HIDE DEF A, B, C
<1> DEFINE S == Range(A) \union Range(B) \union Range(C)
<1>5. A \in Seq(S) /\ B \in Seq(S) /\ C \in Seq(S)
  <2>1. Range(A) \subseteq S /\ Range(B) \subseteq S /\ Range(C) \subseteq S
    OBVIOUS
  <2> HIDE DEF S
  <2>2. QED
    BY <1>1, <1>2, <1>3, <2>1, SeqMonotonic
<1> HIDE DEF S
<1>6. A \o B \in Seq(S)
  BY <1>5, ConcatProperties
<1>7. p \in Range(A) \union Range(B) \union Range(C)
  BY <1>4, <1>5, <1>6, RangeOfConcat
<1>8. QED
  BY <1>1, <1>2, <1>3, <1>7

(* What a command may claim of a thing.                                    *)
LEMMA CommandClaims ==
  ASSUME NEW c \in Command \ {"pq_probe"}, NEW n,
         c \in IdCommand => n.what \in DOMAIN KeyPrimitives,
         c = "aws_kms_scan" => n.what # "AES",
         c \in NetCommand => n.what.suite \in KnownSuite \union {"none"},
         Classified(c, n),
         NEW p \in Range(build_event(c, n).primitives), Claims(p)
  PROVE  \/ Resists(c, n.what, p)
         \/ p.role = "encrypt" /\ c = "pkcs11_scan" /\ n.what = "AES_128"
         \/ p.role = "encrypt" /\ c = "inventory_scan" /\ n.what = "AES"
         \/ p.role = "hash" /\ c \in CertCommand /\ n.what = "RSA-PKCS1-SHA1"
<1>0. IsLongHash(p) => Resists(c, n.what, p)
  BY DEF IsLongHash, Resists
<1>1. CASE c \in CertCommand
  <2>1. build_event(c, n) = event_from_cert(n)
    BY <1>1 DEF build_event, CertCommand, IdCommand, ChainCommand, NetCommand
  <2>2. p \in Range(CertPrimitives(sig_algo_name(n.what)))
    BY <2>1 DEF event_from_cert, Event
  <2>3. \/ p.role = "sig" /\ sig_algo_name(n.what) \in {"ML-DSA-44", "ML-DSA-65", "ML-DSA-87"}
        \/ IsLongHash(p)
        \/ p.role = "hash" /\ sig_algo_name(n.what) = "RSA-PKCS1-SHA1"
    BY <2>2, CertClaims
  <2>4. /\ sig_algo_name(n.what) \in {"ML-DSA-44", "ML-DSA-65", "ML-DSA-87"} => n.what \in PqSignature
        /\ sig_algo_name(n.what) = "RSA-PKCS1-SHA1" => n.what = "RSA-PKCS1-SHA1"
    BY DEF sig_algo_name, PqSignature
  <2>5. p.role = "sig" /\ n.what \in PqSignature => Resists(c, n.what, p)
    BY <1>1 DEF Resists
  <2>6. QED
    BY <1>0, <1>1, <2>3, <2>4, <2>5
<1>2. CASE c \in IdCommand
  <2> DEFINE type == IF c = "pkcs11_scan" THEN key_type_label(n.what) ELSE n.what
  <2>1. build_event(c, n) = HsmSlot(c, n)
    BY <1>2 DEF build_event, CertCommand, IdCommand, ChainCommand, NetCommand
  <2>2. p \in Range(KeyPrimitives[type])
    BY <2>1 DEF HsmSlot, Event
  <2>3. /\ key_type_label(n.what) \in DOMAIN KeyPrimitives \ PqSignature
        /\ key_type_label(n.what) \notin {"SYMMETRIC_DEFAULT"}
        /\ key_type_label(n.what) = "AES" => n.what \in {"AES_128", "SYMMETRIC_DEFAULT"}
    BY DEF key_type_label, KeyPrimitives, PqSignature
  <2>4. type \in DOMAIN KeyPrimitives
    BY <1>2, <2>3
  <2> HIDE DEF type
  <2>5. \/ p.role = "sig" /\ type \in PqSignature
        \/ p.role = "encrypt" /\ type \in {"AES", "SYMMETRIC_DEFAULT"}
        \/ IsLongHash(p)
    BY <2>2, <2>4, KeyClaims
  <2>6. CASE c = "pkcs11_scan"
    BY <1>0, <1>2, <2>3, <2>5, <2>6 DEF type, Resists
  <2>7. CASE c # "pkcs11_scan"
    <3>1. c \in {"aws_kms_scan", "inventory_scan"} /\ type = n.what
      BY <1>2, <2>7 DEF IdCommand, type
    <3>2. QED
      BY <1>0, <1>2, <2>5, <3>1 DEF Resists
  <2>8. QED
    BY <2>6, <2>7
<1>3. CASE c \in ChainCommand
  <2>1. build_event(c, n) = BlockchainKey(c, n)
    BY <1>3 DEF build_event, CertCommand, IdCommand, ChainCommand, NetCommand
  <2> DEFINE script == CASE c = "bitcoin_scan"  -> classify(n.what)
                         [] c = "ethereum_scan" -> "ethereum"
                         [] c = "qrl_scan"      -> "qrl"
  <2>2. p \in Range(ChainPrimitives[script])
    <3>1. BlockchainKey(c, n) =
            Event("ree0xq-chain", "blockchain_key", IdentityOf(n), ChainPrimitives[script], NoChannel, NoAgility)
      BY Zenon DEF BlockchainKey
    <3> HIDE DEF script
    <3>2. QED
      BY <2>1, <3>1 DEF Event
  <2>3. script \in {"P2PKH", "P2TR", "ethereum", "qrl"} /\ (script = "qrl" => c = "qrl_scan")
    <3>1. CASE c = "bitcoin_scan"
      <4>1. classify(n.what) # "none"
        BY <3>1 DEF Classified
      <4>2. classify(n.what) \in {"P2PKH", "P2TR"}
        BY <4>1 DEF classify
      <4>3. script = classify(n.what)
        BY <3>1
      <4>4. QED
        BY <4>2, <4>3
    <3>2. CASE c = "ethereum_scan"
      BY <3>2
    <3>3. CASE c = "qrl_scan"
      BY <3>3
    <3>4. QED
      BY <1>3, <3>1, <3>2, <3>3 DEF ChainCommand
  <2> HIDE DEF script
  <2>4. script \in DOMAIN ChainPrimitives
    BY <2>3 DEF ChainPrimitives
  <2>5. (p.role = "sig" /\ script = "qrl") \/ IsLongHash(p)
    BY <2>2, <2>4, ChainClaims
  <2>6. QED
    BY <1>0, <2>3, <2>5 DEF Resists
<1>4. CASE c \in NetCommand
  <2>1. build_event(c, n) = event_from_zgrab(n)
    BY <1>4 DEF build_event, CertCommand, IdCommand, ChainCommand, NetCommand
  <2>2. p \in Range(primitives_from_zgrab(n.what))
    BY <2>1 DEF event_from_zgrab, Event
  <2>3. \/ p.role = "encrypt" /\ n.what.suite \in LongKeySuite
        \/ p.role = "kex" /\ n.what.group \in PqGroup
        \/ p.role = "sig" /\ n.what.sig \in PqSignature
        \/ IsLongHash(p)
    BY <1>4, <2>2, ZgrabClaims
  <2>4. QED
    BY <1>0, <1>4, <2>3 DEF Resists
<1>5. QED
  BY <1>1, <1>2, <1>3, <1>4 DEF Command

(* The probe's table and its list, taken together.                         *)
LEMMA ProbeIsRight ==
  ASSUME NEW ok \in BOOLEAN, NEW what
  PROVE  ProbeIsSound(ok, what)
<1> DEFINE claimed == PqProbeResult(ok, what).kex_pq
<1>1. claimed = (ok /\ is_pq_named_group(probe_group_name(what.group)))
  BY DEF PqProbeResult
<1>2. is_pq_named_group(probe_group_name(what.group))
        => what.group \in HybridCode \union UnassignedCode
  BY DEF probe_group_name, is_pq_named_group, HybridCode, UnassignedCode
<1>3. /\ probe_group_name(\h11EB) = "SecP256r1MLKEM768"
      /\ probe_group_name(\h11EC) = "X25519MLKEM768"
      /\ probe_group_name(\h11ED) = "P384MLKEM1024"
  BY DEF probe_group_name
<1>4. what.group \in HybridCode => is_pq_named_group(probe_group_name(what.group))
  BY <1>3 DEF HybridCode, is_pq_named_group
<1> HIDE DEF claimed
<1>5. /\ claimed => ok /\ what.group \in HybridCode \union UnassignedCode
      /\ ok /\ what.group \in HybridCode \union MlKemCode /\ ~claimed => what.group \in MlKemCode
  BY <1>1, <1>2, <1>4, Zenon
<1>6. QED
  BY <1>5 DEF ProbeIsSound, claimed

(* Whatever is inventoried, nothing is reported as resisting a quantum     *)
(* computer that does not, hashes included, but an AES key of unknown      *)
(* length and the SHA-1 of a certificate; and the probe claims a           *)
(* post-quantum exchange for all hybrid groups and no other assigned       *)
(* codepoint (id: pkcs11.rs, algos.rs; cert.rs; chain; net: pq_probe.rs,   *)
(* algos.rs, zgrab).                                                       *)
THEOREM SweepOverstatesOnlyAesOrSha1 == AgentsSpec => []OverstatedOnlyAesOrSha1
<1>1. AgentsInit => SweepInv
  BY SweepInvInit DEF AgentsInit
<1>2. SweepInv /\ [AgentsNext]_agentVars => SweepInv'
  <2>1. [AgentsNext]_agentVars => [SweepNext]_sweepVars
    BY DEF AgentsNext, agentVars, Live, LiveEbpf, OneShot, Quiet
  <2>2. QED
    BY <2>1, SweepInvNext
<1>3. SweepInv => OverstatedOnlyAesOrSha1
  <2> SUFFICES ASSUME SweepInv, NEW i \in {given[k] : k \in DOMAIN given}
               PROVE  LET n == nodes[i] IN
                      IF cmd = "pq_probe"
                        THEN ProbeIsSound(~(\E f \in faults : f[1] = i), n.what)
                        ELSE \A p \in Range(build_event(cmd, n).primitives) :
                               p.pq = "yes" /\ ~Resists(cmd, n.what, p)
                                 => \/ p.role = "encrypt" /\ cmd = "pkcs11_scan" /\ n.what = "AES_128"
                                    \/ p.role = "encrypt" /\ cmd = "inventory_scan" /\ n.what = "AES"
                                    \/ p.role = "hash" /\ cmd \in CertCommand /\ n.what = "RSA-PKCS1-SHA1"
    BY DEF OverstatedOnlyAesOrSha1
  <2> DEFINE n == nodes[i]
  <2>1. cmd \in DOMAIN Trees /\ cmd \in Command /\ nodes \in Trees[cmd]
    BY SweepAssumption DEF SweepInv, SweepTypes
  <2>2. i \in Things
    BY DEF SweepInv, Complete, Passed, Range
  <2>3. i \in {k \in DOMAIN nodes : nodes[k].level = ThingLevel(cmd)} /\ Classified(cmd, n)
    BY <2>2 DEF Things
  <2>4. /\ cmd \in IdCommand => n.what \in DOMAIN KeyPrimitives
        /\ cmd = "aws_kms_scan" => n.what # "AES"
        /\ cmd \in NetCommand => n.what.suite \in KnownSuite \union {"none"}
    BY <2>1, <2>3, VocabularyAssumption
  <2>5. CASE cmd = "pq_probe"
    <3> DEFINE ok == ~(\E f \in faults : f[1] = i)
    <3>1. ok \in BOOLEAN
      OBVIOUS
    <3> HIDE DEF ok
    <3>2. ProbeIsSound(ok, n.what)
      BY <3>1, ProbeIsRight
    <3>3. QED
      BY <2>5, <3>2 DEF ok
  <2>6. CASE cmd # "pq_probe"
    <3> HIDE DEF n
    <3>1. ASSUME NEW p \in Range(build_event(cmd, n).primitives), Claims(p)
          PROVE  \/ Resists(cmd, n.what, p)
                 \/ p.role = "encrypt" /\ cmd = "pkcs11_scan" /\ n.what = "AES_128"
                 \/ p.role = "encrypt" /\ cmd = "inventory_scan" /\ n.what = "AES"
                 \/ p.role = "hash" /\ cmd \in CertCommand /\ n.what = "RSA-PKCS1-SHA1"
      <4>1. cmd \in Command \ {"pq_probe"}
        BY <2>1, <2>6
      <4>2. QED
        BY <2>3, <2>4, <3>1, <4>1, CommandClaims
    <3>2. QED
      BY <2>6, <3>1 DEF Claims, n
  <2>7. QED
    BY <2>5, <2>6
<1>4. QED
  BY <1>1, <1>2, <1>3, PTL DEF AgentsSpec

-----------------------------------------------------------------------------
(***************************************************************************)
(* The tap.  What its liveness rests on: the wakeup for a record is never  *)
(* lost, though the kernel sends it only for a record that finds the ring  *)
(* drained and the task clears the readiness itself.                       *)
(***************************************************************************)
TapTypes ==
  /\ ring \in Seq(DOMAIN Frame) /\ Len(ring) <= RingSlots
  /\ ready \in BOOLEAN /\ notified \in BOOLEAN
  /\ reader \in {"start", "wait", "drain", "hold", "empty", "sleep"}

(* A record in the ring is about to be looked at, or a wakeup is under way *)
(* to a task that waits (live_iface.rs, run).                              *)
WakeupIsKept ==
  ring # <<>> =>
    \/ reader \in {"start", "drain", "hold"}
    \/ reader = "empty" /\ notified
    \/ reader \in {"sleep", "wait"} /\ (notified \/ ready)

(* A hello that the classifier selected was dropped for want of room, is   *)
(* in the ring, or was parsed (net-ebpf main.rs, try_observe; run).        *)
NoneVanishes ==
  arrived \intersect Selected \subseteq dropped \union Range(ring) \union reported \union failed

(* The record that is held is the first of the ring.                       *)
HeldIsFirst == reader = "hold" => ring # <<>> /\ Head(ring) \in reported \union failed

TapInv == TapTypes /\ WakeupIsKept /\ NoneVanishes /\ HeldIsFirst

LEMMA TapInvInit == TapInit => TapInv
<1>1. TapInit => TapTypes
  <2>1. <<>> \in Seq(DOMAIN Frame) /\ Len(<<>>) = 0 /\ 0 <= RingSlots
    BY TapAssumption
  <2>2. TapInit => ready \in BOOLEAN /\ notified \in BOOLEAN
    BY Zenon DEF TapInit
  <2>3. TapInit => reader \in {"start", "wait", "drain", "hold", "empty", "sleep"}
    BY DEF TapInit
  <2>4. QED
    BY <2>1, <2>2, <2>3, Zenon DEF TapInit, TapTypes
<1>2. TapInit => WakeupIsKept /\ HeldIsFirst
  BY DEF TapInit, WakeupIsKept, HeldIsFirst
<1>3. TapInit => NoneVanishes
  BY DEF TapInit, NoneVanishes
<1>4. QED
  BY <1>1, <1>2, <1>3 DEF TapInv

LEMMA TapInvNext == TapInv /\ [TapNext]_tapVars => TapInv'
<1> SUFFICES ASSUME TapInv, [TapNext]_tapVars PROVE TapInv'
  OBVIOUS
<1> USE DEF TapInv, readerVars
<1>1. ASSUME UNCHANGED tapVars PROVE TapInv'
  BY <1>1 DEF tapVars, TapTypes, WakeupIsKept, NoneVanishes, HeldIsFirst, Range
<1>2. ASSUME NEW f \in DOMAIN Frame, try_observe(f) PROVE TapInv'
  <2>1. arrived' = arrived \union {f} /\ UNCHANGED readerVars
    BY <1>2 DEF try_observe
  <2>2. CASE PassBy(f)
    BY <2>1, <2>2 DEF PassBy, TapTypes, WakeupIsKept, NoneVanishes, HeldIsFirst
  <2>3. CASE NoRoom(f)
    BY <2>1, <2>3 DEF NoRoom, TapTypes, WakeupIsKept, NoneVanishes, HeldIsFirst
  <2>4. CASE Submit(f)
    <3>1. /\ Len(ring) < RingSlots /\ ring' = Append(ring, f) /\ dropped' = dropped
          /\ notified' = (notified \/ (ring = <<>> /\ reader # "start"))
      BY <2>4 DEF Submit
    <3>2. ring' # <<>> /\ Range(ring') = Range(ring) \union {f}
      BY <3>1, RangeOfAppend DEF TapTypes
    <3>3. ring # <<>> => Head(ring') = Head(ring)
      BY <3>1 DEF TapTypes
    <3>4. TapTypes'
      <4>1. ring' \in Seq(DOMAIN Frame) /\ Len(ring') = Len(ring) + 1 /\ Len(ring) \in Nat
        BY <3>1 DEF TapTypes
      <4>2. Len(ring') <= RingSlots
        BY <3>1, <4>1, TapAssumption
      <4>3. notified' \in BOOLEAN
        BY <3>1
      <4>4. QED
        BY <2>1, <4>1, <4>2, <4>3 DEF TapTypes
    <3>5. WakeupIsKept'
      BY <2>1, <3>1 DEF WakeupIsKept, TapTypes
    <3>6. NoneVanishes'
      BY <2>1, <3>1, <3>2 DEF NoneVanishes
    <3>7. HeldIsFirst'
      BY <2>1, <3>2, <3>3 DEF HeldIsFirst
    <3>8. QED
      BY <3>4, <3>5, <3>6, <3>7
  <2>5. QED
    BY <1>2, <2>2, <2>3, <2>4 DEF try_observe
<1>3. ASSUME Register \/ Driver \/ Readable \/ NoItem \/ ClearReady \/ SleepOver PROVE TapInv'
  BY <1>3 DEF Register, Driver, Readable, NoItem, ClearReady, SleepOver,
              TapTypes, WakeupIsKept, NoneVanishes, HeldIsFirst
<1>4. ASSUME TakeItem PROVE TapInv'
  BY <1>4 DEF TakeItem, TapTypes, WakeupIsKept, NoneVanishes, HeldIsFirst
<1>5. ASSUME DropItem PROVE TapInv'
  <2>1. /\ reader = "hold" /\ reader' = "drain" /\ ring' = Tail(ring)
        /\ UNCHANGED <<arrived, dropped, notified, ready, reported, failed>>
    BY <1>5 DEF DropItem
  <2>2. ring # <<>> /\ Head(ring) \in reported \union failed
    BY <2>1 DEF HeldIsFirst
  <2>3. Range(ring) = Range(ring') \union {Head(ring)}
    BY <2>1, <2>2, RangeOfTail DEF TapTypes
  <2>4. ring' \in Seq(DOMAIN Frame) /\ Len(ring') = Len(ring) - 1 /\ Len(ring) \in Nat
    BY <2>1, <2>2 DEF TapTypes
  <2>5. TapTypes'
    BY <2>1, <2>4, TapAssumption DEF TapTypes
  <2>6. WakeupIsKept' /\ NoneVanishes' /\ HeldIsFirst'
    BY <2>1, <2>2, <2>3 DEF WakeupIsKept, NoneVanishes, HeldIsFirst
  <2>7. QED
    BY <2>5, <2>6
<1>6. QED
  BY <1>1, <1>2, <1>3, <1>4, <1>5 DEF TapNext, TapLoop

(* Whenever the task is parked with a record in the ring, its readiness is *)
(* set or a wakeup for it has not been collected yet; and every hello that *)
(* was selected is accounted for (live_iface.rs, run; net-ebpf main.rs).   *)
THEOREM TapLosesNoWakeup == AgentsSpec => [](WakeupIsKept /\ NoneVanishes)
<1>1. AgentsInit => TapInv
  BY TapInvInit DEF AgentsInit
<1>2. TapInv /\ [AgentsNext]_agentVars => TapInv'
  <2>1. [AgentsNext]_agentVars => [TapNext]_tapVars
    BY DEF AgentsNext, agentVars, Live, LiveEbpf, OneShot, Quiet
  <2>2. QED
    BY <2>1, TapInvNext
<1>3. TapInv => WakeupIsKept /\ NoneVanishes
  BY DEF TapInv
<1>4. QED
  BY <1>1, <1>2, <1>3, PTL DEF AgentsSpec

-----------------------------------------------------------------------------
(***************************************************************************)
(* The parser and a hello that did not come whole.                         *)
(***************************************************************************)
LEMMA PrefixOfBytes ==
  ASSUME NEW S, NEW s \in Seq(S), NEW m \in 0..Len(s)
  PROVE  /\ SubSeq(s, 1, m) \in Seq(S) /\ Len(SubSeq(s, 1, m)) = m
         /\ \A i \in 1..m : SubSeq(s, 1, m)[i] = s[i]
<1>1. Len(s) \in Nat /\ m \in Nat /\ m <= Len(s)
  BY LenProperties
<1>2. QED
  BY <1>1

(* Four bytes before a sequence.                                           *)
Framed(S, e, b, u, y, h, l) ==
  /\ e \in Seq(S) /\ Len(e) = 4 + Len(b)
  /\ e \o u \in Seq(S) /\ Len(e \o u) = Len(e) + Len(u)
  /\ (e \o u)[2] = y /\ (e \o u)[3] = h /\ (e \o u)[4] = l

LEMMA FourBefore ==
  ASSUME NEW S, NEW b \in Seq(S), NEW u \in Seq(S), NEW x \in S, NEW y \in S, NEW h \in S, NEW l \in S
  PROVE  Framed(S, <<x, y>> \o <<h, l>> \o b, b, u, y, h, l)
<1> DEFINE first == <<x, y>>
           second == <<h, l>>
           front == first \o second
           e == front \o b
<1>1. /\ first \in Seq(S) /\ Len(first) = 2 /\ first[2] = y
      /\ second \in Seq(S) /\ Len(second) = 2 /\ second[1] = h /\ second[2] = l
  OBVIOUS
<1>2. Len(b) \in Nat /\ Len(u) \in Nat
  BY LenProperties
<1> HIDE DEF first, second
<1>3. front \in Seq(S) /\ Len(front) = Len(first) + Len(second)
  BY <1>1, ConcatProperties
<1>4. front[2] = y /\ front[3] = h /\ front[4] = l /\ Len(front) = 4
  <2>1. \A i \in 1..(Len(first) + Len(second)) :
          front[i] = IF i <= Len(first) THEN first[i] ELSE second[i - Len(first)]
    BY <1>1, ConcatProperties
  <2>2. /\ 2 \in 1..(Len(first) + Len(second)) /\ 2 <= Len(first)
        /\ 3 \in 1..(Len(first) + Len(second)) /\ ~(3 <= Len(first)) /\ 3 - Len(first) = 1
        /\ 4 \in 1..(Len(first) + Len(second)) /\ ~(4 <= Len(first)) /\ 4 - Len(first) = 2
        /\ Len(first) + Len(second) = 4
    BY <1>1
  <2> HIDE DEF front
  <2>3. front[2] = first[2]
    BY <2>1, <2>2, Zenon
  <2>4. front[3] = second[3 - Len(first)] /\ front[4] = second[4 - Len(first)]
    BY <2>1, <2>2, Zenon
  <2>5. QED
    BY <1>1, <1>3, <2>2, <2>3, <2>4
<1> HIDE DEF front
<1>5. e \in Seq(S) /\ Len(e) = Len(front) + Len(b)
  BY <1>3, ConcatProperties
<1>6. \A i \in 1..(Len(front) + Len(b)) : e[i] = IF i <= Len(front) THEN front[i] ELSE b[i - Len(front)]
  <2>1. front \in Seq(S)
    BY <1>3
  <2>2. QED
    BY <2>1, ConcatProperties, Zenon
<1> HIDE DEF e
<1>7. /\ e \o u \in Seq(S) /\ Len(e \o u) = Len(e) + Len(u)
      /\ \A i \in 1..(Len(e) + Len(u)) : (e \o u)[i] = IF i <= Len(e) THEN e[i] ELSE u[i - Len(e)]
  <2>1. e \in Seq(S)
    BY <1>5
  <2>2. QED
    BY <2>1, ConcatProperties, Zenon
<1>8. \A i \in {2, 3, 4} : (e \o u)[i] = front[i]
  <2> SUFFICES ASSUME NEW i \in {2, 3, 4} PROVE (e \o u)[i] = front[i]
    OBVIOUS
  <2>1. /\ i \in 1..(Len(e) + Len(u)) /\ i <= Len(e)
        /\ i \in 1..(Len(front) + Len(b)) /\ i <= Len(front)
    BY <1>2, <1>4, <1>5
  <2>2. (e \o u)[i] = e[i]
    BY <1>7, <2>1, Zenon
  <2>3. e[i] = front[i]
    BY <1>6, <2>1, Zenon
  <2>4. QED
    BY <2>2, <2>3
<1>9. e \in Seq(S) /\ Len(e) = 4 + Len(b) /\ Len(e \o u) = Len(e) + Len(u) /\ e \o u \in Seq(S)
  BY <1>4, <1>5, <1>7
<1>10. QED
  BY <1>4, <1>8, <1>9 DEF e, front, first, second, Framed

(* The number in the bytes 2 to 4.                                         *)
LengthIn(s) == 256 * (256 * s[2] + s[3]) + s[4]

(* A frame, and where its hello says how long it is.                       *)
LEMMA WhatIsSent ==
  ASSUME NEW f \in DOMAIN Frame
  PROVE  LET L == Len(HelloBody(Frame[f].hello))
             sent == Encoded(Frame[f].hello) \o Frame[f].tail
         IN  /\ sent \in Seq(Int) /\ L \in Nat /\ Len(Encoded(Frame[f].hello)) = 4 + L
             /\ Frame[f].cut \in 0..Len(sent)
             /\ LengthIn(sent) = L
<1> DEFINE pkt == Frame[f]
           b == HelloBody(pkt.hello)
           u == pkt.tail
           t == IF pkt.hello.client THEN 1 ELSE 2
           L == Len(b)
           h == L \div 256
           l == L % 256
           e == Encoded(pkt.hello)
           cut == pkt.cut
<1>1. Sendable(pkt)
  BY FrameAssumption, Zenon
<1>2. b \in Seq(Byte) /\ u \in Seq(Byte) /\ L \in Word /\ cut \in 0..(Len(e) + Len(u))
  BY <1>1, Zenon DEF Sendable
<1>3. e = <<t, 0>> \o <<h, l>> \o b
  BY Zenon DEF Encoded, Be16
<1>4. t \in Int
  OBVIOUS
<1> HIDE DEF pkt, b, u, e, cut, t
<1>5. b \in Seq(Int) /\ u \in Seq(Int) /\ L \in Nat
  <2>1. Byte \subseteq Int
    BY DEF Byte
  <2>2. b \in Seq(Int) /\ u \in Seq(Int)
    BY <1>2, <2>1, SeqMonotonic, Zenon
  <2>3. QED
    BY <2>2, LenProperties, Zenon
<1> HIDE DEF L
<1>6. h \in Int /\ l \in Int /\ 0 \in Int /\ 256 * (256 * 0 + h) + l = L
  BY <1>2, <1>5 DEF Word
<1> HIDE DEF h, l
<1>7. /\ e \in Seq(Int) /\ Len(e) = 4 + Len(b)
      /\ e \o u \in Seq(Int) /\ Len(e \o u) = Len(e) + Len(u)
      /\ (e \o u)[2] = 0 /\ (e \o u)[3] = h /\ (e \o u)[4] = l
  <2>1. h \in Int /\ l \in Int /\ 0 \in Int
    BY <1>6
  <2>2. Framed(Int, <<t, 0>> \o <<h, l>> \o b, b, u, 0, h, l)
    BY <1>4, <1>5, <2>1, FourBefore
  <2>3. Framed(Int, e, b, u, 0, h, l)
    BY <1>3, <2>2, Zenon
  <2>4. QED
    BY <2>3 DEF Framed
<1>8. LengthIn(e \o u) = L
  <2> DEFINE s == e \o u
  <2>1. s[2] = 0 /\ s[3] = h /\ s[4] = l
    BY <1>7, Zenon
  <2> HIDE DEF s
  <2>2. LengthIn(s) = L
    BY <1>6, <2>1 DEF LengthIn
  <2>3. QED
    BY <2>2 DEF s
<1>9. cut \in 0..Len(e \o u)
  BY <1>2, <1>7, Zenon
<1>10. Len(e) = 4 + L
  BY <1>7, Zenon DEF L
<1>11. QED
  BY <1>5, <1>7, <1>8, <1>9, <1>10, Zenon DEF pkt, b, u, e, cut, L

(* What is copied of a frame begins as what was sent does.                 *)
LEMMA CopyIsPrefix ==
  ASSUME NEW f \in DOMAIN Frame
  PROVE  LET sent == Encoded(Frame[f].hello) \o Frame[f].tail
         IN  /\ Len(HandshakeEvent(f)) \in Nat
             /\ \A i \in 1..Len(HandshakeEvent(f)) : HandshakeEvent(f)[i] = sent[i]
<1> DEFINE sent == Encoded(Frame[f].hello) \o Frame[f].tail
           cut == Frame[f].cut
           n == Len(sent) - cut
           pay == SubSeq(sent, 1, n)
           m == IF Len(pay) < MAX_HANDSHAKE_BYTES THEN Len(pay) ELSE MAX_HANDSHAKE_BYTES
<1>1. sent \in Seq(Int) /\ cut \in 0..Len(sent)
  BY WhatIsSent, Zenon
<1>2. Payload[f] = pay
  BY DEF Payload
<1>3. HandshakeEvent(f) = SubSeq(pay, 1, m)
  BY <1>2, Zenon DEF HandshakeEvent
<1> HIDE DEF sent, cut
<1>4. Len(sent) \in Nat
  BY <1>1, LenProperties, Zenon
<1>5. n \in 0..Len(sent)
  BY <1>1, <1>4
<1> HIDE DEF n
<1>6. pay \in Seq(Int) /\ Len(pay) = n /\ \A i \in 1..n : pay[i] = sent[i]
  BY <1>1, <1>5, PrefixOfBytes, Zenon
<1> HIDE DEF pay
<1>7. m \in 0..n /\ n \in Nat /\ m \in Nat
  BY <1>4, <1>5, <1>6, TapAssumption
<1> HIDE DEF m
<1>8. m \in 0..Len(pay)
  BY <1>6, <1>7
<1>9. Len(SubSeq(pay, 1, m)) = m /\ \A i \in 1..m : SubSeq(pay, 1, m)[i] = pay[i]
  BY <1>6, <1>8, PrefixOfBytes, Zenon
<1>10. \A i \in 1..m : i \in 1..n
  BY <1>7
<1>11. \A i \in 1..m : SubSeq(pay, 1, m)[i] = sent[i]
  BY <1>6, <1>9, <1>10, Zenon
<1>12. QED
  BY <1>3, <1>7, <1>9, <1>11, Zenon DEF sent

(* The parser reads no hello that is shorter than it says.                 *)
LEMMA ParsedIsWhole ==
  ASSUME NEW buf, parse_handshake(buf).ok
  PROVE  need(buf, 0, 4) /\ need(buf, 4, read_u24(buf, 1))
<1>1. ASSUME ~(need(buf, 0, 4) /\ need(buf, 4, read_u24(buf, 1))) PROVE FALSE
  <2>1. parse_handshake(buf) = ParseError
    BY <1>1 DEF parse_handshake
  <2>2. ParseError.ok = FALSE
    BY DEF ParseError, Summary
  <2>3. QED
    BY <2>1, <2>2
<1>2. QED
  BY <1>1

(* An event is made only of a hello that is there from its first byte to   *)
(* its last: neither one whose rest travels in the next segment nor one    *)
(* that exceeds the copy is reported as far as it goes (tls/mod.rs,        *)
(* parse_handshake; net-ebpf main.rs, try_observe; live_iface.rs, run).    *)
ReportedIsWhole ==
  \A f \in reported : Len(Encoded(Frame[f].hello)) <= Len(HandshakeEvent(f))

ReportedIsParsed == \A f \in reported : f \in DOMAIN Frame /\ Parsed[f].ok

LEMMA WholeIfParsed ==
  ASSUME NEW f \in DOMAIN Frame, Parsed[f].ok
  PROVE  Len(Encoded(Frame[f].hello)) <= Len(HandshakeEvent(f))
<1> DEFINE buf == HandshakeEvent(f)
           L == Len(HelloBody(Frame[f].hello))
           sent == Encoded(Frame[f].hello) \o Frame[f].tail
<1>1. parse_handshake(buf).ok
  BY DEF Parsed
<1>2. Len(buf) \in Nat /\ \A i \in 1..Len(buf) : buf[i] = sent[i]
  BY CopyIsPrefix, Zenon
<1>3. /\ L \in Nat /\ Len(Encoded(Frame[f].hello)) = 4 + L
      /\ LengthIn(sent) = L
  BY WhatIsSent, Zenon
<1> HIDE DEF buf, L, sent
<1>4. need(buf, 0, 4) /\ need(buf, 4, read_u24(buf, 1))
  BY <1>1, ParsedIsWhole
<1>5. Len(buf) \in Int /\ 4 <= Len(buf)
  BY <1>2, <1>4 DEF need
<1>6. buf[2] = sent[2] /\ buf[3] = sent[3] /\ buf[4] = sent[4]
  BY <1>2, <1>5
<1>7. read_u24(buf, 1) = LengthIn(buf)
  BY DEF read_u24, read_u16, LengthIn
<1>8. read_u24(buf, 1) = L
  BY <1>3, <1>6, <1>7 DEF LengthIn
<1>9. 4 + L <= Len(buf)
  BY <1>4, <1>8 DEF need
<1>10. QED
  BY <1>3, <1>9 DEF buf

(* Only hellos that came whole are reported.                               *)
THEOREM TapReadsWholeHellos == AgentsSpec => []ReportedIsWhole
<1>1. AgentsInit => TapInv /\ ReportedIsParsed
  BY TapInvInit DEF AgentsInit, TapInit, ReportedIsParsed
<1>2. TapInv /\ ReportedIsParsed /\ [AgentsNext]_agentVars => TapInv' /\ ReportedIsParsed'
  <2> SUFFICES ASSUME TapInv, ReportedIsParsed, [AgentsNext]_agentVars
               PROVE  TapInv' /\ ReportedIsParsed'
    OBVIOUS
  <2>1. [TapNext]_tapVars
    BY DEF AgentsNext, agentVars, Live, LiveEbpf, OneShot, Quiet
  <2>2. ASSUME TakeItem PROVE ReportedIsParsed'
    <3>1. ring \in Seq(DOMAIN Frame) /\ ring # <<>>
      BY <2>2 DEF TapInv, TapTypes, TakeItem
    <3>2. Head(ring) \in DOMAIN Frame
      BY <3>1
    <3>3. QED
      BY <2>2, <3>2 DEF TakeItem, ReportedIsParsed
  <2>3. ASSUME reported' = reported PROVE ReportedIsParsed'
    BY <2>3 DEF ReportedIsParsed
  <2>4. reported' = reported \/ TakeItem
    BY <2>1 DEF TapNext, TapLoop, tapVars, readerVars, try_observe, Driver, Register, Readable,
                DropItem, NoItem, ClearReady, SleepOver
  <2>5. QED
    BY <2>1, <2>2, <2>3, <2>4, TapInvNext
<1>3. ReportedIsParsed => ReportedIsWhole
  BY WholeIfParsed DEF ReportedIsParsed, ReportedIsWhole
<1>4. QED
  BY <1>1, <1>2, <1>3, PTL DEF AgentsSpec

=============================================================================
