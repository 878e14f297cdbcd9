----------------------------- MODULE DedupCache -----------------------------
(***************************************************************************)
(* The recent-session cache of the network agent (dedup.rs).  observe      *)
(* answers whether a session identity is fresh, so that retransmits of one *)
(* handshake yield one event per TTL.  The cache is bounded: when it is    *)
(* full of entries that have not expired it gives up the oldest.           *)
(***************************************************************************)
EXTENDS Integers, FiniteSets

CONSTANTS
  Identity,           (* session identities                                  *)
  ttl,                (* how long an observation suppresses the next ones    *)
  RequestedCapacity,  (* the capacity the caller asks for                    *)
  ForcedMax,          (* u64::MAX, where the eviction counter saturates      *)
  MaxTime             (* bound: the last instant of a behaviour              *)

ASSUME DedupAssumption ==
  /\ IsFiniteSet(Identity)
  /\ ttl \in Nat
  /\ RequestedCapacity \in Nat
  /\ ForcedMax \in Nat \ {0}
  /\ MaxTime \in Nat

VARIABLES
  now,        (* Instant::now(), monotonic                                   *)
  entries,    (* when each held identity was first observed, or Never        *)
  forced,     (* forced_evictions                                            *)
  lastFresh,  (* history: when observe last answered true, or Never          *)
  evicted     (* history: identities given up since then while still alive   *)

dedupVars == <<now, entries, forced, lastFresh, evicted>>

Never == -1
Instant == Nat \union {Never}

(* DedupCache::new: capacity.max(1).                                       *)
capacity == IF RequestedCapacity < 1 THEN 1 ELSE RequestedCapacity

Held == {i \in Identity : entries[i] # Never}

(* Observed less than ttl ago.                                             *)
Within(t) == t # Never /\ now - t < ttl

DedupTypeOK ==
  /\ now \in Nat
  /\ entries \in [Identity -> Instant]
  /\ forced \in 0..ForcedMax
  /\ lastFresh \in [Identity -> Instant]
  /\ evicted \subseteq Identity

DedupInit ==
  /\ now = 0
  /\ entries = [i \in Identity |-> Never]
  /\ forced = 0
  /\ lastFresh = [i \in Identity |-> Never]
  /\ evicted = {}

(* Mutant of Hit: a duplicate refreshes the entry.                         *)
HitRefreshing(id) ==
  /\ Within(entries[id])
  /\ entries' = [entries EXCEPT ![id] = now]
  /\ UNCHANGED <<now, forced, lastFresh, evicted>>

(* observe answers false: a live entry, which is not refreshed.            *)
Hit(id) ==
  /\ Within(entries[id])
  /\ UNCHANGED dedupVars

(* What is left after the entries older than ttl are pruned.               *)
Kept == {i \in Identity : Within(entries[i])}
Pruned == [i \in Identity |-> IF i \in Kept THEN entries[i] ELSE Never]

(* The oldest entry left; the choice between equals is the map's.          *)
Victim(old) ==
  /\ old \in Kept
  /\ \A i \in Kept : entries[old] <= entries[i]
  /\ forced' = IF forced < ForcedMax THEN forced + 1 ELSE forced

Observed(id) ==
  /\ lastFresh' = [lastFresh EXCEPT ![id] = now]
  /\ UNCHANGED now

(* Mutant of Fresh: the whole cache is dropped when it is full.            *)
FreshClearing(id) ==
  /\ ~Within(entries[id])
  /\ Observed(id)
  /\ \/ /\ Cardinality(Kept) < capacity
        /\ entries' = [Pruned EXCEPT ![id] = now]
        /\ evicted' = evicted \ {id}
        /\ UNCHANGED forced
     \/ /\ Cardinality(Kept) >= capacity
        /\ \E old \in Identity :
             /\ Victim(old)
             /\ entries' = [i \in Identity |-> IF i = id THEN now ELSE Never]
             /\ evicted' = (evicted \union {old}) \ {id}

(* observe answers true: prune, make room if need be, insert.              *)
Fresh(id) ==
  /\ ~Within(entries[id])
  /\ Observed(id)
  /\ \/ /\ Cardinality(Kept) < capacity
        /\ entries' = [Pruned EXCEPT ![id] = now]
        /\ evicted' = evicted \ {id}
        /\ UNCHANGED forced
     \/ /\ Cardinality(Kept) >= capacity
        /\ \E old \in Identity :
             /\ Victim(old)
             /\ entries' = [Pruned EXCEPT ![old] = Never, ![id] = now]
             /\ evicted' = (evicted \union {old}) \ {id}

Tick ==
  /\ now < MaxTime
  /\ now' = now + 1
  /\ UNCHANGED <<entries, forced, lastFresh, evicted>>

DedupNext == (\E id \in Identity : Hit(id) \/ Fresh(id)) \/ Tick

DedupSpec == DedupInit /\ [][DedupNext]_dedupVars

-----------------------------------------------------------------------------
(* The cache never holds more than its capacity (dedup.rs, Sizing).        *)
WithinCapacity == Cardinality(Held) <= capacity

(* A session is reported again within the TTL of its last report only if   *)
(* the cache had to give its entry up in between: pruning, re-insertion    *)
(* and the eviction of others never forget it (dedup.rs, observe).         *)
RepeatOnlyAfterEviction ==
  [][\A id \in Identity :
       Fresh(id) /\ Within(lastFresh[id]) => id \in evicted]_dedupVars

(* A session is suppressed only within the TTL of its last report, so that *)
(* one that is retransmitted for ever is reported again after every TTL:   *)
(* duplicates do not extend the suppression (dedup.rs, observe).           *)
SuppressedOnlyWithinTtl ==
  \A id \in Identity : Within(entries[id]) => Within(lastFresh[id])

(* While forced_evictions reads 0 nothing was given up, so no session has  *)
(* been reported twice within a TTL: the counter the operator watches does *)
(* not miss the case it is there for.                                      *)
CounterTellsEvictions == forced = 0 => evicted = {}

=============================================================================
