------------------------------ MODULE Posture -------------------------------
(***************************************************************************)
(* The quantum-risk rollup of the server (posture.rs) in exact integers.   *)
(* Axis scores are multiples of 1/Unit, which is exact while the role      *)
(* weights of an asset sum to at most 10 tenths; the code uses f32.  Dates *)
(* are counted in half years.  The weights of one moment have the common   *)
(* denominator Total(now), so a score q of that moment is an integer, of   *)
(* which Whole(now) stands for 1.0.                                        *)
(***************************************************************************)
EXTENDS Schema, Integers, Functions

CONSTANTS
  Deadline,   (* AppState::default_deadline                                  *)
  Horizon     (* AppState::horizon_years                                     *)

ASSUME PostureAssumption == Deadline \in Nat /\ Horizon \in Nat

Unit == 25200

(* W_SIG, W_KEX, W_ENC, W_HASH, in tenths; auth counts as hash.            *)
RoleWeight == [sig |-> 4, kex |-> 3, encrypt |-> 2, hash |-> 1, auth |-> 1]

primitive_a_score(p) ==
  [yes |-> Unit, no |-> (3 * Unit) \div 10, unknown |-> (4 * Unit) \div 10][p.pq]

axis_a(prims) ==
  IF prims = <<>>
    THEN (4 * Unit) \div 10
    ELSE LET W == [i \in DOMAIN prims |-> RoleWeight[prims[i].role]]
             A == [i \in DOMAIN prims |-> W[i] * primitive_a_score(prims[i])]
         IN  SumFunction(A) \div SumFunction(W)

axis_c(channel) ==
  [none |-> 0, classical |-> 0, qkd_hybrid_psk |-> (7 * Unit) \div 10,
   qkd_only |-> Unit][channel.state]

(* The score that came with the block, whatever its level.                 *)
axis_g(agility) ==
  (Unit \div 100) * (IF agility = NoAgility THEN score["pinned"] ELSE agility.level_score)

(* deadline_tension, in units of 1/Span.  Without a horizon the tension    *)
(* is 1 and the unit does not matter.                                      *)
Span == IF Horizon = 0 THEN 1 ELSE Horizon

deadline_tension(now) ==
  IF Horizon = 0 THEN 1
    ELSE LET left == Deadline - now
         IN  IF left <= 0 THEN Horizon ELSE IF left >= Horizon THEN 0 ELSE Horizon - left

(* The unrenormalised weights ALPHA, BETA and gamma in tenths of Span, and *)
(* their sum, by which they are renormalised.                              *)
Gamma(now) == 3 * (Span - deadline_tension(now))

(* Mutant of Total: the weights are not renormalised when gamma shrinks.   *)
TotalFixed(now) == 10 * Span

Total(now) == 5 * Span + 2 * Span + Gamma(now)

Whole(now) == Total(now) * Unit

q_for_event(ev, now) ==
  Whole(now) - (5 * Span * axis_a(ev.primitives) + 2 * Span * axis_c(ev.channel)
                  + Gamma(now) * axis_g(ev.agility))

is_blocked(agility) == agility.level \in {"locked", "frozen"}

(* In tenths.                                                              *)
asset_kind_weight ==
  [x509_cert |-> 10, tls_session |-> 7, ssh_session |-> 7, ipsec_sa |-> 7,
   blockchain_key |-> 15, hsm_slot |-> 10, dns_dnssec |-> 5, qkd_link |-> 4, qkd_kme |-> 4]

(* The mean of the scores weighted by kind, as a fraction; 0 over nothing. *)
org_score(events, now) ==
  LET weight == [ev \in events |-> asset_kind_weight[ev.kind]]
      weighted == [ev \in events |-> weight[ev] * q_for_event(ev, now)]
  IN  [sum  |-> SumFunction(weighted),
       over |-> IF events = {} THEN 1 ELSE SumFunction(weight)]

=============================================================================
