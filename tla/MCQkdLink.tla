----------------------------- MODULE MCQkdLink -----------------------------
(* Scenarios after r2 (a ramp, here down from beyond 1.0) and r3 (a        *)
(* failure and the recovery, which a driver may not reach, or be refused), *)
(* and two that validate must refuse.                                      *)
EXTENDS QkdLink

Timed(t, op) == [at_seconds |-> t, op |-> op]
SetQber(q) == [op |-> "set_qber", qber |-> q]
Force == [op |-> "force"]
Clear == [op |-> "clear"]

MCScenario ==
  { [duration |-> 2, events |-> <<Timed(1, SetQber(5)), Timed(2, SetQber(2))>>],
    [duration |-> 2, events |-> <<Timed(1, Force), Timed(2, Clear)>>],
    [duration |-> 2, events |-> <<Timed(2, Force), Timed(1, Clear)>>],
    [duration |-> 1, events |-> <<Timed(2, Force)>>] }

=============================================================================
