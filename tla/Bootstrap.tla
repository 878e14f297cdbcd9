----------------------------- MODULE Bootstrap ------------------------------
(***************************************************************************)
(* How an agent comes by its certificate: the limiter in front of the      *)
(* bootstrap endpoints, the tokens and the handlers behind it, and the     *)
(* authority that signs.  No part reads what another keeps: the limiter    *)
(* lets a request through or not, requests reach the handlers in any order *)
(* and number anyway, and the authority signs whatever a handler asks it   *)
(* to.  What the collector does is therefore, seen from each part, what    *)
(* the part does by itself, and a behaviour follows one of them while the  *)
(* others keep their first state.                                          *)
(***************************************************************************)
EXTENDS Enrolment, CaRoot, RateLimiter

VARIABLE part  (* the part that is followed                                   *)

bootstrapVars == <<part, vars, caVars, rateVars>>

BootstrapInit ==
  /\ part \in {"limiter", "enrolment", "authority"}
  /\ Init /\ CaInit /\ RateInit

Limiter(A) == part = "limiter" /\ A /\ UNCHANGED <<part, vars, caVars>>

Handlers(A) == part = "enrolment" /\ A /\ UNCHANGED <<part, caVars, rateVars>>

Authority(A) == part = "authority" /\ A /\ UNCHANGED <<part, vars, rateVars>>

BootstrapNext == Limiter(RateNext) \/ Handlers(Next) \/ Authority(CaNext)

(* The fairness of CaSpec.                                                 *)
BootstrapFairness ==
  /\ WF_caVars(part = "authority" /\ Server)
  /\ WF_caVars(part = "authority" /\ Retry)
  /\ SF_caVars(part = "authority" /\ RemovePartial)

BootstrapSpec ==
  BootstrapInit /\ [][BootstrapNext]_bootstrapVars /\ BootstrapFairness

(* The authority comes up in the end, through crashes and with the one     *)
(* manual step its error message asks for, unless it died inside a write   *)
(* (ca.rs, load_or_init).                                                  *)
AuthorityComesUp == part = "authority" => ComesUpUnlessTorn

=============================================================================
