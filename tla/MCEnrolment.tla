---------------------------- MODULE MCEnrolment -----------------------------
(* Enrolment with two handlers racing for the tokens of two agents.        *)
EXTENDS Enrolment, TLC

Symmetric == Permutations(Worker) \union Permutations(Token) \union Permutations(Agent)

=============================================================================
