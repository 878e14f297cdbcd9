----------------------------- MODULE Enrolment ------------------------------
(***************************************************************************)
(* Bootstrap tokens and agent enrolment (enrol.rs).  An operator has a     *)
(* token issued for one agent; the agent exchanges it for a client         *)
(* certificate.  The tokens live in a concurrent in-memory map, and each   *)
(* map operation of a handler is a step of its own: another handler may    *)
(* run between taking a token out and putting it back.                     *)
(***************************************************************************)
EXTENDS Integers, FiniteSets

CONSTANTS
  Token,          (* the tokens a UUID generator can return                  *)
  Agent,          (* agent ids                                               *)
  NoAgent,        (* a blank agent id                                        *)
  NoToken,        (* a request without the token header                      *)
  Absent,         (* no entry in the map                                     *)
  Worker,         (* concurrently running handlers                           *)
  AdminEnabled,   (* booted with an admin secret                             *)
  MaxTtl,         (* the longest token life an operator may ask for, hours   *)
  MaxValidity,    (* the longest certificate life an agent may ask for, days *)
  MaxTime         (* bound: the last hour of a behaviour                     *)

ASSUME EnrolmentAssumption ==
  /\ NoAgent \notin Agent
  /\ NoToken \notin Token
  /\ AdminEnabled \in BOOLEAN
  /\ MaxTtl \in Nat \ {0}
  /\ MaxValidity \in Nat \ {0}
  /\ MaxTime \in Nat

Entry == [agent_id : Agent, expires_at : Nat]

ASSUME AbsentAssumption == Absent \notin Entry

VARIABLES
  now,      (* Utc::now(), in hours                                          *)
  tokens,   (* BootstrapTokenStore: the entry of each unconsumed token       *)
  pc,       (* where each handler stands                                     *)
  ask,      (* the request it serves                                         *)
  held,     (* the entry it has taken out of the map                         *)
  issued,   (* history: the entry each token was issued with                 *)
  live,     (* history: tokens issued since the collector started            *)
  spent,    (* history: tokens for which consume returned Ok                 *)
  minted    (* history: certificates minted on each token                    *)

serverVars == <<tokens, pc, ask, held>>
ghostVars == <<issued, live, spent, minted>>
vars == <<now, serverVars, ghostVars>>

Request == [token : Token \union {NoToken}, agent_id : Agent \union {NoAgent},
            days : 0..(MaxValidity + 1), hours : 0..(MaxTtl + 1)]

IssueAsk(agent, hours) ==
  [token |-> NoToken, agent_id |-> agent, days |-> 0, hours |-> hours]
EnrolAsk(t, agent, days) ==
  [token |-> t, agent_id |-> agent, days |-> days, hours |-> 0]
NoRequest == EnrolAsk(NoToken, NoAgent, 0)

Control == {"idle", "remove", "check", "restore", "mint", "prune", "issue"}

(* The handlers whose hands an entry is in.                                *)
Holding == {"check", "restore", "mint"}

TypeOK ==
  /\ now \in 0..MaxTime
  /\ tokens \in [Token -> Entry \union {Absent}]
  /\ pc \in [Worker -> Control]
  /\ ask \in [Worker -> Request]
  /\ held \in [Worker -> Entry \union {Absent}]
  /\ issued \in [Token -> Entry \union {Absent}]
  /\ live \subseteq Token
  /\ spent \subseteq Token
  /\ minted \in [Token -> Nat]

Init ==
  /\ now = 0
  /\ tokens = [t \in Token |-> Absent]
  /\ pc = [w \in Worker |-> "idle"]
  /\ ask = [w \in Worker |-> NoRequest]
  /\ held = [w \in Worker |-> Absent]
  /\ issued = [t \in Token |-> Absent]
  /\ live = {}
  /\ spent = {}
  /\ minted = [t \in Token |-> 0]

Goto(w, label) == pc' = [pc EXCEPT ![w] = label]

(* The handler answers and forgets its request.                            *)
Answer(w) ==
  /\ Goto(w, "idle")
  /\ ask' = [ask EXCEPT ![w] = NoRequest]
  /\ held' = [held EXCEPT ![w] = Absent]

-----------------------------------------------------------------------------
(* POST /v1/admin/bootstrap-tokens (issue_bootstrap_token).                *)

(* Not configured, wrong secret, blank agent id or a life out of range:    *)
(* refused before the token store is touched.                              *)
MayIssue(secretOK, agent, hours) ==
  /\ AdminEnabled
  /\ secretOK
  /\ agent # NoAgent
  /\ hours \in 1..MaxTtl

(* Bound: there are only so many tokens to hand out.                       *)
TokensLeft ==
  Cardinality({w \in Worker : pc[w] \in {"prune", "issue"}})
    < Cardinality({t \in Token : issued[t] = Absent})

IssueRequest(w, secretOK, agent, hours) ==
  /\ pc[w] = "idle"
  /\ TokensLeft
  /\ MayIssue(secretOK, agent, hours)
  /\ Goto(w, "prune")
  /\ ask' = [ask EXCEPT ![w] = IssueAsk(agent, hours)]
  /\ UNCHANGED <<now, tokens, held, ghostVars>>

(* prune_expired: keep what has not expired yet.                           *)
Prune(w) ==
  /\ pc[w] = "prune"
  /\ tokens' = [t \in Token |->
                  IF tokens[t] # Absent /\ tokens[t].expires_at < now
                  THEN Absent ELSE tokens[t]]
  /\ Goto(w, "issue")
  /\ UNCHANGED <<now, ask, held, ghostVars>>

(* issue: a fresh UUID, bound to the agent.                                *)
Issue(w, t) ==
  LET entry == [agent_id |-> ask[w].agent_id, expires_at |-> now + ask[w].hours]
  IN /\ pc[w] = "issue"
     /\ issued[t] = Absent
     /\ tokens' = [tokens EXCEPT ![t] = entry]
     /\ issued' = [issued EXCEPT ![t] = entry]
     /\ live' = live \union {t}
     /\ Answer(w)
     /\ UNCHANGED <<now, spent, minted>>

-----------------------------------------------------------------------------
(* POST /v1/enrol (enrol, BootstrapTokenStore::consume).                   *)

EnrolRequest(w, t, agent, days) ==
  /\ pc[w] = "idle"
  /\ t # NoToken          \* without the header: 401, nothing is touched
  /\ Goto(w, "remove")
  /\ ask' = [ask EXCEPT ![w] = EnrolAsk(t, agent, days)]
  /\ UNCHANGED <<now, tokens, held, ghostVars>>

(* tokens.remove found nothing: 401.                                       *)
RejectUnknown(w) ==
  /\ pc[w] = "remove"
  /\ tokens[ask[w].token] = Absent
  /\ Answer(w)
  /\ UNCHANGED <<now, tokens, ghostVars>>

(* Mutant of Take: the entry is looked up and left in the map.             *)
TakeCopy(w) ==
  /\ pc[w] = "remove"
  /\ tokens[ask[w].token] # Absent
  /\ held' = [held EXCEPT ![w] = tokens[ask[w].token]]
  /\ Goto(w, "check")
  /\ UNCHANGED <<now, tokens, ask, ghostVars>>

(* tokens.remove took the entry out, atomically.                           *)
Take(w) ==
  /\ pc[w] = "remove"
  /\ tokens[ask[w].token] # Absent
  /\ held' = [held EXCEPT ![w] = tokens[ask[w].token]]
  /\ tokens' = [tokens EXCEPT ![ask[w].token] = Absent]
  /\ Goto(w, "check")
  /\ UNCHANGED <<now, ask, ghostVars>>

(* Expired by the clock as read now: 401.  The entry is not put back.      *)
RejectExpired(w) ==
  /\ pc[w] = "check"
  /\ held[w].expires_at < now
  /\ Answer(w)
  /\ UNCHANGED <<now, tokens, ghostVars>>

(* Another agent's token: to be put back.                                  *)
Mismatch(w) ==
  /\ pc[w] = "check"
  /\ held[w].expires_at >= now
  /\ held[w].agent_id # ask[w].agent_id
  /\ Goto(w, "restore")
  /\ UNCHANGED <<now, tokens, ask, held, ghostVars>>

(* Mutant of Restore: the mismatch is answered without putting it back.    *)
RestoreNothing(w) ==
  /\ pc[w] = "restore"
  /\ Answer(w)
  /\ UNCHANGED <<now, tokens, ghostVars>>

(* tokens.insert of the entry taken: 401.                                  *)
Restore(w) ==
  /\ pc[w] = "restore"
  /\ tokens' = [tokens EXCEPT ![ask[w].token] = held[w]]
  /\ Answer(w)
  /\ UNCHANGED <<now, ghostVars>>

(* Mutant of Match: any agent may use the token.                           *)
MatchAnyone(w) ==
  /\ pc[w] = "check"
  /\ held[w].expires_at >= now
  /\ spent' = spent \union {ask[w].token}
  /\ Goto(w, "mint")
  /\ UNCHANGED <<now, tokens, ask, held, issued, live, minted>>

(* consume returns Ok.                                                     *)
Match(w) ==
  /\ pc[w] = "check"
  /\ held[w].expires_at >= now
  /\ held[w].agent_id = ask[w].agent_id
  /\ spent' = spent \union {ask[w].token}
  /\ Goto(w, "mint")
  /\ UNCHANGED <<now, tokens, ask, held, issued, live, minted>>

(* The validity asked for is out of range (422) or signing fails (500).    *)
(* Both come after consume.                                                *)
RejectAfterConsume(w) ==
  /\ pc[w] = "mint"
  /\ Answer(w)
  /\ UNCHANGED <<now, tokens, ghostVars>>

(* ca.sign_agent_cert: the certificate is returned.                        *)
Mint(w) ==
  /\ pc[w] = "mint"
  /\ ask[w].days \in 1..MaxValidity
  /\ minted' = [minted EXCEPT ![ask[w].token] = @ + 1]
  /\ Answer(w)
  /\ UNCHANGED <<now, tokens, issued, live, spent>>

-----------------------------------------------------------------------------
Tick ==
  /\ now < MaxTime
  /\ now' = now + 1
  /\ UNCHANGED <<serverVars, ghostVars>>

(* The map is not persisted: a restart forgets every token and handler.    *)
Restart ==
  /\ tokens' = [t \in Token |-> Absent]
  /\ pc' = [w \in Worker |-> "idle"]
  /\ ask' = [w \in Worker |-> NoRequest]
  /\ held' = [w \in Worker |-> Absent]
  /\ live' = {}
  /\ UNCHANGED <<now, issued, spent, minted>>

Step(w) ==
  \/ Prune(w) \/ (\E t \in Token : Issue(w, t))
  \/ RejectUnknown(w) \/ Take(w)
  \/ RejectExpired(w) \/ Mismatch(w) \/ Restore(w) \/ Match(w)
  \/ RejectAfterConsume(w) \/ Mint(w)

Arrive(w) ==
  \/ \E agent \in Agent \union {NoAgent}, hours \in 0..(MaxTtl + 1) :
       \E secretOK \in BOOLEAN : IssueRequest(w, secretOK, agent, hours)
  \/ \E t \in Token \union {NoToken}, agent \in Agent \union {NoAgent},
        days \in {0, 1, MaxValidity + 1} : EnrolRequest(w, t, agent, days)

Next == (\E w \in Worker : Arrive(w) \/ Step(w)) \/ Tick \/ Restart

(* Neither handler awaits: once started, it runs to its answer.            *)
Spec == Init /\ [][Next]_vars /\ \A w \in Worker : WF_vars(Step(w))

-----------------------------------------------------------------------------
(* A token is in at most one place: in the map, in the hands of one        *)
(* handler, or gone.  It is gone once a certificate was minted on it, and  *)
(* at most one ever is, however many handlers race for it and whatever is  *)
(* restored meanwhile (enrol.rs, consume; module doc, step 3).             *)
SingleUse ==
  \A t \in Token :
    /\ minted[t] <= 1
    /\ \A w \in Worker : pc[w] \in Holding /\ ask[w].token = t =>
         /\ tokens[t] = Absent
         /\ minted[t] = 0
         /\ \A v \in Worker \ {w} : ~(pc[v] \in Holding /\ ask[v].token = t)
    /\ minted[t] = 1 => tokens[t] = Absent

(* consume succeeds only for the agent the token was issued to, within the *)
(* life it was issued with, and never twice.                               *)
ConsumeIsEntitled ==
  [][\A w \in Worker : pc[w] # "mint" /\ pc'[w] = "mint" =>
       LET t == ask[w].token IN
       /\ t \in live \ spent
       /\ issued[t].agent_id = ask'[w].agent_id
       /\ now <= issued[t].expires_at]_vars

(* A request with the wrong agent id does not burn a token: as long as the *)
(* collector runs, a token that has neither expired nor been consumed is   *)
(* in the map as it was issued, or in the hands of a handler that has yet  *)
(* to decide on it or is putting it back.  Pruning does not lose it either *)
(* (enrol.rs, consume and prune_expired).                                  *)
NotBurned ==
  \A t \in live \ spent :
    issued[t].expires_at >= now =>
      \/ tokens[t] = issued[t]
      \/ \E w \in Worker : /\ pc[w] \in {"check", "restore"}
                           /\ ask[w].token = t
                           /\ held[w] = issued[t]

-----------------------------------------------------------------------------
(* What AppState and BootstrapTokenStore say: a token is consumed, and     *)
(* removed, on the first successful enrolment, so one that was consumed    *)
(* has led to a certificate unless its handler is still at it.             *)
ConsumedMeansEnrolled ==
  \A t \in live \intersect spent :
    \/ minted[t] = 1
    \/ \E w \in Worker : pc[w] = "mint" /\ ask[w].token = t

=============================================================================
