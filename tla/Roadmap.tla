------------------------------- MODULE Roadmap ------------------------------
(***************************************************************************)
(* The projection of a migration plan (roadmap.rs).  Scores are integers   *)
(* of which `whole' stands for 1.0 (see Posture); a mean is a fraction.    *)
(***************************************************************************)
EXTENDS Integers, Sequences, FiniteSetsExt, Functions

AssetSnapshot(identity, q, blocked, primitives) ==
  [identity |-> identity, q |-> q, blocked |-> blocked, primitives |-> primitives]

Milestone(label, date, asset_ids, target) ==
  [label |-> label, date |-> date, asset_ids |-> asset_ids, target_primitives |-> target]

(* A mean of scores; 0 over nothing.                                       *)
Mean(sum, n) == [sum |-> sum, over |-> IF n = 0 THEN 1 ELSE n]

avg_q(items) ==
  Mean(SumFunction([i \in DOMAIN items |-> items[i].q]), Len(items))

avg_q_state(state) ==
  Mean(SumFunction([id \in DOMAIN state |-> state[id].q]), Cardinality(DOMAIN state))

Blocked(state) == Cardinality({id \in DOMAIN state : state[id].blocked})

(* q >= 0.30.                                                              *)
Classical(state, whole) ==
  Cardinality({id \in DOMAIN state : 10 * state[id].q >= 3 * whole})

(* The working copy, by identity: of two assets with one identity the      *)
(* later one in the list stays.                                            *)
WorkingCopy(items) ==
  [id \in {items[i].identity : i \in DOMAIN items} |->
     items[Max({i \in DOMAIN items : items[i].identity = id})]]

(* Where the i-th milestone stands when they are sorted by date; those of  *)
(* one date keep their order.                                              *)
Place(plan, i) ==
  Cardinality({j \in DOMAIN plan : \/ plan[j].date < plan[i].date
                                   \/ plan[j].date = plan[i].date /\ j <= i})

Sorted(plan) ==
  [n \in DOMAIN plan |-> plan[CHOOSE i \in DOMAIN plan : Place(plan, i) = n]]

(* A migrated asset is given q = 0.10 and is no longer blocked.            *)
Migrated(state, m, whole) ==
  [id \in DOMAIN state |->
     IF id \in Range(m.asset_ids)
       THEN AssetSnapshot(id, whole \div 10, FALSE, m.target_primitives)
       ELSE state[id]]

Projection(m, before, after, whole) ==
  [milestone |-> m.label, date |-> m.date,
   org_q_before |-> avg_q_state(before), org_q_after |-> avg_q_state(after),
   blocked_before |-> Blocked(before), blocked_after |-> Blocked(after),
   assets_migrated |-> Cardinality({i \in DOMAIN m.asset_ids : m.asset_ids[i] \in DOMAIN before}),
   assets_remaining_classical |-> Classical(after, whole)]

(* Mutant of Trajectory: every milestone is applied to today's inventory.  *)
TrajectoryAnew(items, plan, whole) ==
  LET s0 == WorkingCopy(items)
      sorted == Sorted(plan)
  IN  [n \in DOMAIN sorted |-> Projection(sorted[n], s0, Migrated(s0, sorted[n], whole), whole)]

(* One row per milestone, each from where the one before it ended.         *)
Trajectory(items, plan, whole) ==
  LET sorted == Sorted(plan)
      state[n \in 0..Len(sorted)] ==
        IF n = 0 THEN WorkingCopy(items) ELSE Migrated(state[n - 1], sorted[n], whole)
  IN  [n \in DOMAIN sorted |-> Projection(sorted[n], state[n - 1], state[n], whole)]

project_roadmap(items, plan, whole) ==
  [today_org_q   |-> avg_q(items),
   today_blocked |-> Cardinality({i \in DOMAIN items : items[i].blocked}),
   total_assets  |-> Len(items),
   projections   |-> Trajectory(items, plan, whole)]

=============================================================================
