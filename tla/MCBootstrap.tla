---------------------------- MODULE MCBootstrap -----------------------------
(***************************************************************************)
(* Two handlers racing for the tokens of two agents; requests of the same  *)
(* two as clients of the limiter; an authority with four key pairs to      *)
(* make.  The authority mentions nothing that the symmetry permutes, so    *)
(* its part of the state graph, to which alone the fairness and the        *)
(* liveness property apply, is not reduced.                                *)
(***************************************************************************)
EXTENDS Bootstrap, TLC

Symmetric == Permutations(Worker) \union Permutations(Token) \union Permutations(Agent)

=============================================================================
