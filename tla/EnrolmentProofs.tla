-------------------------- MODULE EnrolmentProofs ---------------------------
(***************************************************************************)
(* Theorems about bootstrap tokens, for any number of tokens, agents and   *)
(* concurrent handlers.  A token is in one place at a time: the invariant  *)
(* follows it from the map through the hands of the one handler that took  *)
(* it out, back into the map or on to the certificate.                     *)
(*                                                                         *)
(* And about the authority that signs the certificate, for any number of   *)
(* crashes and losses: what the two files hold at each step of a boot      *)
(* decides that a certificate and a key which both parse are one pair.     *)
(*                                                                         *)
(* And about the limiter in front of the endpoints, for any number of      *)
(* requests, clients and any window: a stamp is never ahead of the clock,  *)
(* so what a request prunes as expired is expired by the clock too; recent *)
(* admissions are all in their bucket, and no bucket is over the limit.    *)
(***************************************************************************)
EXTENDS Enrolment, CaRoot, RateLimiter, FiniteSetTheorems, TLAPS

(* What a handler has in hand, by where it stands.                         *)
HandsOK ==
  \A w \in Worker :
    /\ pc[w] \in {"prune", "issue"} => ask[w].agent_id \in Agent
    /\ pc[w] \in Holding \union {"remove"} => ask[w].token \in Token
    /\ pc[w] \in Holding => /\ held[w] \in Entry
                            /\ held[w] = issued[ask[w].token]
                            /\ ask[w].token \in live
                            /\ tokens[ask[w].token] = Absent
    /\ pc[w] \in {"check", "restore"} => ask[w].token \notin spent
    /\ pc[w] = "mint" => ask[w].token \in spent /\ minted[ask[w].token] = 0

(* What the map holds is what was issued, unspent.                         *)
MapOK ==
  \A t \in Token : tokens[t] # Absent => /\ tokens[t] = issued[t]
                                         /\ t \in live
                                         /\ t \notin spent

(* Nothing is known of a token before it is issued.                        *)
UnissuedOK ==
  \A t \in Token : issued[t] = Absent => t \notin live /\ t \notin spent

(* A certificate is minted on spent tokens only, once.                     *)
MintedOK == \A t \in Token : minted[t] <= 1 /\ (t \notin spent => minted[t] = 0)

(* No two handlers hold the same token.                                    *)
Exclusive ==
  \A v, w \in Worker :
    pc[v] \in Holding /\ pc[w] \in Holding /\ ask[v].token = ask[w].token => v = w

EnrolInv ==
  /\ TypeOK
  /\ HandsOK
  /\ MapOK
  /\ UnissuedOK
  /\ MintedOK
  /\ Exclusive
  /\ NotBurned

-----------------------------------------------------------------------------
(* The invariant holds when the collector starts.                          *)
LEMMA EnrolInvInit == Init => EnrolInv
BY EnrolmentAssumption
   DEF Init, EnrolInv, TypeOK, HandsOK, MapOK, UnissuedOK, MintedOK, Exclusive,
       NotBurned, Control, Request, NoRequest, EnrolAsk, Holding

(* A request that arrives touches neither the map nor any token.           *)
LEMMA ArriveKeepsInv ==
  ASSUME EnrolInv, NEW w \in Worker, Arrive(w)
  PROVE  EnrolInv'
<1> USE EnrolmentAssumption DEF EnrolInv
<1>1. PICK label \in {"prune", "remove"}, q \in Request :
        /\ pc[w] = "idle"
        /\ pc' = [pc EXCEPT ![w] = label]
        /\ ask' = [ask EXCEPT ![w] = q]
        /\ label = "prune" => q.agent_id \in Agent
        /\ label = "remove" => q.token \in Token
        /\ UNCHANGED <<now, tokens, held, ghostVars>>
  <2>1. ASSUME NEW agent \in Agent \union {NoAgent}, NEW hours \in 0..(MaxTtl + 1),
               NEW secretOK \in BOOLEAN, IssueRequest(w, secretOK, agent, hours)
        PROVE  \E q \in Request :
                 /\ pc[w] = "idle"
                 /\ pc' = [pc EXCEPT ![w] = "prune"]
                 /\ ask' = [ask EXCEPT ![w] = q]
                 /\ q.agent_id \in Agent
                 /\ UNCHANGED <<now, tokens, held, ghostVars>>
    <3>1. IssueAsk(agent, hours) \in Request
      BY DEF IssueAsk, Request
    <3>2. IssueAsk(agent, hours).agent_id \in Agent
      BY <2>1 DEF IssueAsk, IssueRequest, MayIssue
    <3>3. QED
      BY <2>1, <3>1, <3>2 DEF IssueRequest, Goto
  <2>2. ASSUME NEW t \in Token \union {NoToken}, NEW agent \in Agent \union {NoAgent},
               NEW days \in {0, 1, MaxValidity + 1}, EnrolRequest(w, t, agent, days)
        PROVE  \E q \in Request :
                 /\ pc[w] = "idle"
                 /\ pc' = [pc EXCEPT ![w] = "remove"]
                 /\ ask' = [ask EXCEPT ![w] = q]
                 /\ q.token \in Token
                 /\ UNCHANGED <<now, tokens, held, ghostVars>>
    <3>1. EnrolAsk(t, agent, days) \in Request
      BY DEF EnrolAsk, Request
    <3>2. EnrolAsk(t, agent, days).token \in Token
      BY <2>2 DEF EnrolAsk, EnrolRequest
    <3>3. QED
      BY <2>2, <3>1, <3>2 DEF EnrolRequest, Goto
  <2>3. QED
    BY <2>1, <2>2 DEF Arrive
<1>2. TypeOK'
  BY <1>1 DEF TypeOK, ghostVars, Control
<1>3. HandsOK'
  BY <1>1 DEF HandsOK, TypeOK, ghostVars, Holding
<1>4. MapOK' /\ UnissuedOK' /\ MintedOK'
  BY <1>1 DEF MapOK, UnissuedOK, MintedOK, ghostVars
<1>5. Exclusive'
  BY <1>1 DEF Exclusive, TypeOK, Holding
<1>6. NotBurned'
  BY <1>1 DEF NotBurned, TypeOK, ghostVars
<1>7. QED
  BY <1>2, <1>3, <1>4, <1>5, <1>6

(* Pruning drops expired tokens only.                                      *)
LEMMA PruneKeepsInv ==
  ASSUME EnrolInv, NEW w \in Worker, Prune(w)
  PROVE  EnrolInv'
<1> USE EnrolmentAssumption DEF EnrolInv
<1>1. /\ pc[w] = "prune"
      /\ tokens' \in [Token -> Entry \union {Absent}]
      /\ \A t \in Token : \/ tokens'[t] = tokens[t]
                          \/ tokens'[t] = Absent /\ tokens[t].expires_at < now
      /\ pc' = [pc EXCEPT ![w] = "issue"]
      /\ UNCHANGED <<now, ask, held, ghostVars>>
  BY DEF Prune, Goto, TypeOK
<1>2. TypeOK'
  BY <1>1 DEF TypeOK, ghostVars, Control
<1>3. HandsOK'
  BY <1>1 DEF HandsOK, TypeOK, ghostVars, Holding
<1>4. MapOK' /\ UnissuedOK' /\ MintedOK'
  BY <1>1 DEF MapOK, UnissuedOK, MintedOK, ghostVars
<1>5. Exclusive'
  BY <1>1 DEF Exclusive, TypeOK, Holding
<1>6. NotBurned'
  <2> SUFFICES ASSUME NEW t \in live \ spent, issued[t].expires_at >= now
               PROVE  \/ tokens'[t] = issued[t]
                      \/ \E v \in Worker : /\ pc'[v] \in {"check", "restore"}
                                           /\ ask[v].token = t
                                           /\ held[v] = issued[t]
    BY <1>1 DEF NotBurned, ghostVars
  <2>0. t \in Token /\ issued[t] # Absent
    BY DEF TypeOK, UnissuedOK
  <2>1. CASE tokens[t] = issued[t]
    <3>1. issued[t] \in Entry /\ now \in Nat /\ issued[t].expires_at \in Nat
      BY <2>0 DEF TypeOK, Entry
    <3>2. QED
      BY <1>1, <2>0, <2>1, <3>1
  <2>2. CASE \E v \in Worker : /\ pc[v] \in {"check", "restore"}
                               /\ ask[v].token = t
                               /\ held[v] = issued[t]
    BY <1>1, <2>2 DEF TypeOK
  <2>3. QED
    BY <2>1, <2>2 DEF NotBurned
<1>7. QED
  BY <1>2, <1>3, <1>4, <1>5, <1>6

(* What Answer leaves of a handler.                                        *)
LEMMA AnswerIsClean ==
  ASSUME EnrolInv, NEW w \in Worker, Answer(w)
  PROVE  /\ pc' \in [Worker -> Control] /\ pc'[w] = "idle"
         /\ ask' \in [Worker -> Request]
         /\ held' \in [Worker -> Entry \union {Absent}]
         /\ \A v \in Worker \ {w} : /\ pc'[v] = pc[v]
                                    /\ ask'[v] = ask[v]
                                    /\ held'[v] = held[v]
<1>1. NoRequest \in Request
  BY EnrolmentAssumption DEF NoRequest, EnrolAsk, Request
<1>2. QED
  BY <1>1 DEF EnrolInv, Answer, Goto, TypeOK, Control

(* A new token enters the map as it was issued.                            *)
LEMMA IssueKeepsInv ==
  ASSUME EnrolInv, NEW w \in Worker, NEW t \in Token, Issue(w, t)
  PROVE  EnrolInv'
<1> USE EnrolmentAssumption, AbsentAssumption, AnswerIsClean DEF EnrolInv
<1> DEFINE entry == [agent_id |-> ask[w].agent_id,
                     expires_at |-> now + ask[w].hours]
<1>1. /\ pc[w] = "issue"
      /\ issued[t] = Absent
      /\ tokens' = [tokens EXCEPT ![t] = entry]
      /\ issued' = [issued EXCEPT ![t] = entry]
      /\ live' = live \union {t}
      /\ Answer(w)
      /\ UNCHANGED <<now, spent, minted>>
  BY DEF Issue
<1>2. entry \in Entry
  BY <1>1 DEF TypeOK, HandsOK, Request, Entry
<1>3. t \notin live /\ t \notin spent
  BY <1>1 DEF UnissuedOK
<1> HIDE DEF entry
<1>4. TypeOK'
  BY <1>1, <1>2 DEF TypeOK
<1>5. HandsOK'
  <2> SUFFICES ASSUME NEW v \in Worker, v # w PROVE HandsOK!(v)'
    BY <1>1 DEF HandsOK, Holding
  <2>1. pc[v] \in Holding => ask[v].token # t
    BY <1>3 DEF HandsOK
  <2>2. QED
    BY <1>1, <2>1 DEF HandsOK, TypeOK, Holding
<1>6. MapOK' /\ UnissuedOK' /\ MintedOK'
  BY <1>1, <1>2, <1>3 DEF MapOK, UnissuedOK, MintedOK, TypeOK
<1>7. Exclusive'
  BY <1>1 DEF Exclusive, Holding
<1>8. NotBurned'
  <2> SUFFICES ASSUME NEW s \in live' \ spent', issued'[s].expires_at >= now
               PROVE  \/ tokens'[s] = issued'[s]
                      \/ \E v \in Worker : /\ pc'[v] \in {"check", "restore"}
                                           /\ ask'[v].token = s
                                           /\ held'[v] = issued'[s]
    BY <1>1 DEF NotBurned
  <2>1. CASE s = t
    BY <1>1, <2>1 DEF TypeOK
  <2>2. CASE s # t
    <3>1. s \in live \ spent /\ issued'[s] = issued[s] /\ tokens'[s] = tokens[s]
      BY <1>1, <2>2 DEF TypeOK
    <3>2. QED
      BY <1>1, <3>1 DEF NotBurned
  <2>3. QED
    BY <2>1, <2>2
<1>9. QED
  BY <1>4, <1>5, <1>6, <1>7, <1>8

(* A handler that answers without touching anything, and with no token     *)
(* that is still good in its hands, loses nothing.                         *)
LEMMA AnswerKeepsInv ==
  ASSUME EnrolInv, NEW w \in Worker, Answer(w),
         UNCHANGED <<now, tokens, ghostVars>>,
         pc[w] \in {"check", "restore"} => held[w].expires_at < now
  PROVE  EnrolInv'
<1> USE AnswerIsClean DEF EnrolInv, ghostVars
<1>1. TypeOK' /\ MapOK' /\ UnissuedOK' /\ MintedOK'
  BY DEF TypeOK, MapOK, UnissuedOK, MintedOK
<1>2. HandsOK' /\ Exclusive'
  BY DEF HandsOK, Exclusive, Holding
<1>3. NotBurned'
  <2> SUFFICES ASSUME NEW t \in live \ spent, issued[t].expires_at >= now
               PROVE  \/ tokens[t] = issued[t]
                      \/ \E v \in Worker : /\ pc'[v] \in {"check", "restore"}
                                           /\ ask'[v].token = t
                                           /\ held'[v] = issued[t]
    BY DEF NotBurned
  <2>1. ASSUME NEW v \in Worker, pc[v] \in {"check", "restore"},
               ask[v].token = t, held[v] = issued[t]
        PROVE  v # w
    <3>1. held[v] \in Entry /\ held[v].expires_at \in Nat /\ now \in Nat
      BY <2>1 DEF HandsOK, Holding, Entry, TypeOK
    <3>2. QED
      BY <2>1, <3>1
  <2>2. QED
    BY <2>1 DEF NotBurned
<1>4. QED
  BY <1>1, <1>2, <1>3

(* remove is atomic: the token leaves the map for one pair of hands.       *)
LEMMA TakeKeepsInv ==
  ASSUME EnrolInv, NEW w \in Worker, Take(w)
  PROVE  EnrolInv'
<1> USE AbsentAssumption DEF EnrolInv
<1> DEFINE t == ask[w].token
<1>1. /\ pc[w] = "remove"
      /\ t \in Token
      /\ tokens[t] # Absent
      /\ held' = [held EXCEPT ![w] = tokens[t]]
      /\ tokens' = [tokens EXCEPT ![t] = Absent]
      /\ pc' = [pc EXCEPT ![w] = "check"]
      /\ UNCHANGED <<now, ask, ghostVars>>
  BY DEF Take, Goto, HandsOK
<1>2. tokens[t] \in Entry /\ tokens[t] = issued[t] /\ t \in live /\ t \notin spent
  BY <1>1 DEF TypeOK, MapOK
<1>3. \A v \in Worker : pc[v] \in Holding => ask[v].token # t
  BY <1>1 DEF HandsOK
<1> HIDE DEF t
<1>4. ask[w].token = t
  BY DEF t
<1>5. TypeOK'
  BY <1>1, <1>2 DEF TypeOK, Control, ghostVars
<1>6. HandsOK'
  <2> SUFFICES ASSUME NEW v \in Worker PROVE HandsOK!(v)'
    BY DEF HandsOK
  <2>1. CASE v = w
    BY <1>1, <1>2, <1>4, <2>1 DEF TypeOK, Holding, ghostVars
  <2>2. CASE v # w
    BY <1>1, <1>3, <2>2 DEF HandsOK, TypeOK, Holding, ghostVars
  <2>3. QED
    BY <2>1, <2>2
<1>7. MapOK' /\ UnissuedOK' /\ MintedOK'
  BY <1>1 DEF MapOK, UnissuedOK, MintedOK, TypeOK, ghostVars
<1>8. Exclusive'
  BY <1>1, <1>3, <1>4 DEF Exclusive, TypeOK, Holding
<1>9. NotBurned'
  <2> SUFFICES ASSUME NEW s \in live \ spent, issued[s].expires_at >= now
               PROVE  \/ tokens'[s] = issued[s]
                      \/ \E v \in Worker : /\ pc'[v] \in {"check", "restore"}
                                           /\ ask[v].token = s
                                           /\ held'[v] = issued[s]
    BY <1>1 DEF NotBurned, ghostVars
  <2>1. CASE s = t
    BY <1>1, <1>2, <1>4, <2>1 DEF TypeOK
  <2>2. CASE s # t
    <3>1. CASE tokens[s] = issued[s]
      BY <1>1, <2>2, <3>1 DEF TypeOK
    <3>2. CASE \E v \in Worker : /\ pc[v] \in {"check", "restore"}
                                 /\ ask[v].token = s
                                 /\ held[v] = issued[s]
      BY <1>1, <3>2 DEF TypeOK
    <3>3. QED
      BY <3>1, <3>2 DEF NotBurned
  <2>3. QED
    BY <2>1, <2>2
<1>10. QED
  BY <1>5, <1>6, <1>7, <1>8, <1>9

(* The token of another agent is kept in hand, then goes back as it was.   *)
LEMMA RestoreKeepsInv ==
  ASSUME EnrolInv, NEW w \in Worker, Mismatch(w) \/ Restore(w)
  PROVE  EnrolInv'
<1> USE AbsentAssumption DEF EnrolInv
<1>1. CASE Mismatch(w)
  <2>1. /\ pc[w] = "check"
        /\ pc' = [pc EXCEPT ![w] = "restore"]
        /\ UNCHANGED <<now, tokens, ask, held, ghostVars>>
    BY <1>1 DEF Mismatch, Goto
  <2>2. TypeOK' /\ MapOK' /\ UnissuedOK' /\ MintedOK'
    BY <2>1 DEF TypeOK, MapOK, UnissuedOK, MintedOK, Control, ghostVars
  <2>3. HandsOK' /\ Exclusive'
    BY <2>1 DEF HandsOK, Exclusive, TypeOK, Holding, ghostVars
  <2>4. NotBurned'
    BY <2>1 DEF NotBurned, TypeOK, ghostVars
  <2>5. QED
    BY <2>2, <2>3, <2>4
<1>2. CASE Restore(w)
  <2> USE AnswerIsClean
  <2> DEFINE t == ask[w].token
  <2>1. /\ pc[w] = "restore"
        /\ tokens' = [tokens EXCEPT ![t] = held[w]]
        /\ Answer(w)
        /\ UNCHANGED <<now, ghostVars>>
    BY <1>2 DEF Restore
  <2>2. /\ t \in Token /\ held[w] \in Entry /\ held[w] = issued[t]
        /\ t \in live /\ t \notin spent
    BY <2>1 DEF HandsOK, Holding
  <2>3. \A v \in Worker \ {w} : pc[v] \in Holding => ask[v].token # t
    BY <2>1 DEF Exclusive, Holding
  <2> HIDE DEF t
  <2>4. TypeOK' /\ MapOK' /\ UnissuedOK' /\ MintedOK'
    BY <2>1, <2>2 DEF TypeOK, MapOK, UnissuedOK, MintedOK, ghostVars
  <2>5. HandsOK'
    <3> SUFFICES ASSUME NEW v \in Worker, v # w PROVE HandsOK!(v)'
      BY <2>1 DEF HandsOK, Holding
    <3>1. QED
      BY <2>1, <2>3 DEF HandsOK, TypeOK, Holding, ghostVars
  <2>6. Exclusive'
    BY <2>1 DEF Exclusive, Holding
  <2>7. NotBurned'
    <3> SUFFICES ASSUME NEW s \in live \ spent, issued[s].expires_at >= now
                 PROVE  \/ tokens'[s] = issued[s]
                        \/ \E v \in Worker : /\ pc'[v] \in {"check", "restore"}
                                             /\ ask'[v].token = s
                                             /\ held'[v] = issued[s]
      BY <2>1 DEF NotBurned, ghostVars
    <3>1. CASE s = t
      BY <2>1, <2>2, <3>1 DEF TypeOK
    <3>2. CASE s # t
      <4>1. tokens'[s] = tokens[s]
        BY <2>1, <3>2 DEF TypeOK
      <4>2. \A v \in Worker : ask[v].token = s => v # w
        BY <3>2 DEF t
      <4>3. QED
        BY <2>1, <4>1, <4>2 DEF NotBurned
    <3>3. QED
      BY <3>1, <3>2
  <2>8. QED
    BY <2>4, <2>5, <2>6, <2>7
<1>3. QED
  BY <1>1, <1>2

(* consume spends the token that only this handler holds.                  *)
LEMMA MatchKeepsInv ==
  ASSUME EnrolInv, NEW w \in Worker, Match(w)
  PROVE  EnrolInv'
<1> USE DEF EnrolInv
<1> DEFINE t == ask[w].token
<1>1. /\ pc[w] = "check"
      /\ spent' = spent \union {t}
      /\ pc' = [pc EXCEPT ![w] = "mint"]
      /\ UNCHANGED <<now, tokens, ask, held, issued, live, minted>>
  BY DEF Match, Goto
<1>2. /\ t \in Token /\ t \in live /\ t \notin spent
      /\ tokens[t] = Absent /\ minted[t] = 0 /\ issued[t] # Absent
  BY <1>1, AbsentAssumption DEF HandsOK, Holding, MintedOK
<1>3. \A v \in Worker \ {w} : pc[v] \in Holding => ask[v].token # t
  BY <1>1 DEF Exclusive, Holding
<1>4. TypeOK' /\ MapOK' /\ UnissuedOK' /\ MintedOK'
  BY <1>1, <1>2 DEF TypeOK, MapOK, UnissuedOK, MintedOK, Control
<1>5. HandsOK'
  <2> SUFFICES ASSUME NEW v \in Worker PROVE HandsOK!(v)'
    BY DEF HandsOK
  <2>1. CASE v = w
    BY <1>1, <1>2, <2>1 DEF HandsOK, TypeOK, Holding
  <2>2. CASE v # w
    BY <1>1, <1>3, <2>2 DEF HandsOK, TypeOK, Holding
  <2>3. QED
    BY <2>1, <2>2
<1>6. Exclusive'
  BY <1>1 DEF Exclusive, TypeOK, Holding
<1>7. NotBurned'
  <2> SUFFICES ASSUME NEW s \in live \ spent', issued[s].expires_at >= now
               PROVE  \/ tokens[s] = issued[s]
                      \/ \E v \in Worker : /\ pc'[v] \in {"check", "restore"}
                                           /\ ask[v].token = s
                                           /\ held[v] = issued[s]
    BY <1>1 DEF NotBurned
  <2>1. s \in live \ spent /\ s # t
    BY <1>1
  <2>2. \A v \in Worker : ask[v].token = s => pc'[v] = pc[v]
    BY <1>1, <2>1 DEF TypeOK
  <2>3. QED
    BY <2>1, <2>2 DEF NotBurned
<1>8. QED
  BY <1>4, <1>5, <1>6, <1>7

(* The first certificate on a spent token is the only one.                 *)
LEMMA MintKeepsInv ==
  ASSUME EnrolInv, NEW w \in Worker, Mint(w)
  PROVE  EnrolInv'
<1> USE AnswerIsClean DEF EnrolInv
<1> DEFINE t == ask[w].token
<1>1. /\ pc[w] = "mint"
      /\ minted' = [minted EXCEPT ![t] = @ + 1]
      /\ Answer(w)
      /\ UNCHANGED <<now, tokens, issued, live, spent>>
  BY DEF Mint
<1>2. t \in Token /\ t \in spent /\ minted[t] = 0
  BY <1>1 DEF HandsOK, Holding
<1>3. \A v \in Worker \ {w} : pc[v] \in Holding => ask[v].token # t
  BY <1>1 DEF Exclusive, Holding
<1>4. TypeOK' /\ MapOK' /\ UnissuedOK' /\ MintedOK'
  BY <1>1, <1>2 DEF TypeOK, MapOK, UnissuedOK, MintedOK
<1>5. HandsOK'
  <2> SUFFICES ASSUME NEW v \in Worker, v # w PROVE HandsOK!(v)'
    BY <1>1 DEF HandsOK, Holding
  <2>1. pc[v] = "mint" => minted'[ask[v].token] = minted[ask[v].token]
    BY <1>1, <1>3 DEF HandsOK, Holding, TypeOK
  <2>2. QED
    BY <1>1, <2>1 DEF HandsOK, Holding
<1>6. Exclusive'
  BY <1>1 DEF Exclusive, Holding
<1>7. NotBurned'
  BY <1>1 DEF NotBurned
<1>8. QED
  BY <1>4, <1>5, <1>6, <1>7

(* The passing of time, and a restart that forgets every token.            *)
LEMMA EnvironmentKeepsInv ==
  ASSUME EnrolInv, Tick \/ Restart \/ UNCHANGED vars
  PROVE  EnrolInv'
<1> USE EnrolmentAssumption DEF EnrolInv
<1>1. CASE Tick
  <2>1. now \in Nat /\ now' = now + 1 /\ UNCHANGED <<serverVars, ghostVars>>
    BY <1>1 DEF Tick, TypeOK
  <2>2. TypeOK'
    BY <1>1, <2>1 DEF Tick, TypeOK, serverVars, ghostVars
  <2>3. HandsOK' /\ MapOK' /\ UnissuedOK' /\ MintedOK' /\ Exclusive'
    BY <2>1 DEF HandsOK, MapOK, UnissuedOK, MintedOK, Exclusive, Holding,
                serverVars, ghostVars
  <2>4. NotBurned'
    <3> SUFFICES ASSUME NEW t \in live \ spent, issued[t].expires_at >= now'
                 PROVE  issued[t].expires_at >= now
      BY <2>1 DEF NotBurned, serverVars, ghostVars
    <3>1. issued[t] \in Entry /\ issued[t].expires_at \in Nat
      BY DEF TypeOK, UnissuedOK, Entry
    <3>2. QED
      BY <2>1, <3>1
  <2>5. QED
    BY <2>2, <2>3, <2>4
<1>2. CASE Restart
  <2>1. NoRequest \in Request
    BY DEF NoRequest, EnrolAsk, Request
  <2>2. TypeOK'
    BY <1>2, <2>1 DEF Restart, TypeOK, Control
  <2>3. HandsOK' /\ MapOK' /\ UnissuedOK' /\ MintedOK' /\ Exclusive' /\ NotBurned'
    BY <1>2 DEF Restart, HandsOK, MapOK, UnissuedOK, MintedOK, Exclusive,
                NotBurned, Holding
  <2>4. QED
    BY <2>2, <2>3
<1>3. CASE UNCHANGED vars
  BY <1>3 DEF vars, serverVars, ghostVars, TypeOK, HandsOK, MapOK, UnissuedOK,
              MintedOK, Exclusive, NotBurned, Holding
<1>4. QED
  BY <1>1, <1>2, <1>3

(* Every step keeps the invariant.                                         *)
LEMMA EnrolInvNext == EnrolInv /\ [Next]_vars => EnrolInv'
<1> SUFFICES ASSUME EnrolInv, [Next]_vars PROVE EnrolInv'
  OBVIOUS
<1>1. ASSUME NEW w \in Worker, Step(w) PROVE EnrolInv'
  <2>1. CASE RejectUnknown(w)
    BY <2>1, AnswerKeepsInv DEF RejectUnknown
  <2>2. CASE RejectExpired(w)
    BY <2>2, AnswerKeepsInv DEF RejectExpired
  <2>3. CASE RejectAfterConsume(w)
    BY <2>3, AnswerKeepsInv DEF RejectAfterConsume
  <2>4. QED
    BY <1>1, <2>1, <2>2, <2>3, PruneKeepsInv, IssueKeepsInv, TakeKeepsInv,
       RestoreKeepsInv, MatchKeepsInv, MintKeepsInv DEF Step
<1>2. QED
  BY <1>1, ArriveKeepsInv, EnvironmentKeepsInv DEF Next

-----------------------------------------------------------------------------
(* The invariant holds throughout.                                         *)
LEMMA EnrolInvariant == Spec => []EnrolInv
BY EnrolInvInit, EnrolInvNext, PTL DEF Spec

(* The handlers keep their types: in particular every token that is issued *)
(* is bound to an agent (enrol.rs, issue_bootstrap_token).                 *)
THEOREM EnrolTypes == Spec => []TypeOK
<1>1. EnrolInv => TypeOK
  BY DEF EnrolInv
<1>2. QED
  BY <1>1, EnrolInvariant, PTL

(* One token, one certificate, however many handlers race for it           *)
(* (enrol.rs, consume).                                                    *)
THEOREM EnrolSingleUse == Spec => []SingleUse
<1>1. EnrolInv => SingleUse
  <2> SUFFICES ASSUME EnrolInv, NEW t \in Token PROVE SingleUse!(t)
    BY DEF SingleUse
  <2> USE DEF EnrolInv
  <2>1. minted[t] \in Nat /\ minted[t] <= 1 /\ (minted[t] # 0 => t \in spent)
    BY DEF MintedOK, TypeOK
  <2>2. ASSUME NEW w \in Worker, pc[w] \in Holding, ask[w].token = t
        PROVE  /\ tokens[t] = Absent
               /\ minted[t] = 0
               /\ \A v \in Worker \ {w} : ~(pc[v] \in Holding /\ ask[v].token = t)
    BY <2>1, <2>2 DEF HandsOK, Holding, Exclusive
  <2>3. minted[t] = 1 => tokens[t] = Absent
    BY <2>1 DEF MapOK
  <2>4. QED
    BY <2>1, <2>2, <2>3
<1>2. QED
  BY <1>1, EnrolInvariant, PTL

(* A good token is never lost while the collector runs (enrol.rs, consume  *)
(* and prune_expired).                                                     *)
THEOREM EnrolNotBurned == Spec => []NotBurned
<1>1. EnrolInv => NotBurned
  BY DEF EnrolInv
<1>2. QED
  BY <1>1, EnrolInvariant, PTL

(* Only the entitled agent redeems a token, in time and once (enrol.rs,    *)
(* consume).                                                               *)
THEOREM EnrolEntitled == Spec => ConsumeIsEntitled
<1> DEFINE Entitled(w) == /\ ask[w].token \in live \ spent
                          /\ issued[ask[w].token].agent_id = ask'[w].agent_id
                          /\ now <= issued[ask[w].token].expires_at
<1>1. EnrolInv /\ [Next]_vars =>
        [\A w \in Worker : pc[w] # "mint" /\ pc'[w] = "mint" => Entitled(w)]_vars
  <2> SUFFICES ASSUME EnrolInv, Next, NEW w \in Worker,
                      pc[w] # "mint", pc'[w] = "mint"
               PROVE  Entitled(w)
    OBVIOUS
  <2> USE DEF EnrolInv
  <2>1. Match(w)
    <3>1. ASSUME NEW v \in Worker, Arrive(v) \/ Step(v) PROVE v = w /\ Match(v)
      BY <3>1 DEF Arrive, Step, IssueRequest, EnrolRequest, Prune, Issue,
                  RejectUnknown, Take, RejectExpired, Mismatch, Restore, Match,
                  RejectAfterConsume, Mint, Answer, Goto, TypeOK
    <3>2. QED
      BY <3>1 DEF Next, Tick, Restart, serverVars
  <2>2. ask[w].token \in live \ spent /\ held[w] = issued[ask[w].token]
    BY <2>1 DEF Match, HandsOK, Holding
  <2>3. held[w] \in Entry /\ held[w].expires_at \in Nat /\ now \in Nat
    BY <2>1 DEF Match, HandsOK, Holding, TypeOK, Entry
  <2>4. QED
    BY <2>1, <2>2, <2>3 DEF Match
<1>2. QED
  BY <1>1, EnrolInvariant, PTL DEF Spec, ConsumeIsEntitled

-----------------------------------------------------------------------------
(* What the files hold while they are written, and what a running server   *)
(* has loaded from them.                                                   *)
BootOK ==
  /\ boot \in {"cert_open", "cert_fill", "key_open", "key_fill"} => new \in Root
  /\ boot = "cert_open" => cert = "absent" /\ key = "absent"
  /\ boot = "cert_fill" => cert = "empty" /\ key = "absent"
  /\ boot = "key_open" => cert = new /\ key = "absent"
  /\ boot = "key_fill" => cert = new /\ key = "empty"
  /\ boot = "partial" => Exists(cert) # Exists(key)
  /\ boot = "up" => /\ inner = [cert |-> cert, key |-> key]
                    /\ cert \in Root /\ key \in Root

(* A certificate and a key that both parse are one pair.                   *)
DiskOK == cert \in Root /\ key \in Root => cert = key

CaInv ==
  /\ CaTypeOK
  /\ BootOK
  /\ DiskOK
  /\ SignaturesVerify
  /\ OneAnchor

(* A host without the files.                                               *)
LEMMA CaInvInit == CaInit => CaInv
<1> SUFFICES ASSUME CaInit PROVE CaInv
  OBVIOUS
<1> USE CaAssumption DEF CaInit
<1>1. CaTypeOK
  <2>1. torn \in BOOLEAN
    BY Zenon
  <2>2. QED
    BY <2>1 DEF CaTypeOK, Content
<1>2. BootOK /\ DiskOK /\ OneAnchor
  BY DEF BootOK, DiskOK, OneAnchor
<1>3. SignaturesVerify
  BY DEF SignaturesVerify, None
<1>4. QED
  BY <1>1, <1>2, <1>3 DEF CaInv

(* load_or_init keeps the invariant.                                       *)
LEMMA BootKeepsCaInv == CaInv /\ Server => CaInv'
<1> SUFFICES ASSUME CaInv, Server PROVE CaInv'
  OBVIOUS
<1> USE CaAssumption DEF CaInv, CaTypeOK, BootOK, DiskOK, SignaturesVerify,
                         OneAnchor, Content
<1>1. CASE Start
  BY <1>1 DEF Start, Exists
<1>2. CASE Open
  BY <1>2 DEF Open, Pair, Exists
<1>3. CASE Fill
  BY <1>3 DEF Fill, Pair, Exists
<1>4. CASE Load
  <2>1. cert \in Root /\ key \in Root => [cert |-> cert, key |-> key] \in Pair
    BY DEF Pair
  <2>2. QED
    BY <1>4, <2>1 DEF Load
<1>5. QED
  BY <1>1, <1>2, <1>3, <1>4 DEF Server

(* So does everything else: a crash leaves the files as they are, the      *)
(* operator removes them only while one is missing, and then no agent has  *)
(* an anchor unless a key was lost.                                        *)
LEMMA CaInvNext == CaInv /\ [CaNext]_caVars => CaInv'
<1> SUFFICES ASSUME CaInv, [CaNext]_caVars PROVE CaInv'
  OBVIOUS
<1> USE CaAssumption DEF CaInv, CaTypeOK, BootOK, DiskOK, SignaturesVerify,
                         OneAnchor, Content
<1>1. CASE sign_agent_cert
  <2>1. inner \in Pair
    BY <1>1 DEF sign_agent_cert, Pair
  <2>2. QED
    BY <1>1, <2>1 DEF sign_agent_cert
<1>2. CASE Crash
  BY <1>2 DEF Crash, None
<1>3. CASE Retry
  BY <1>3 DEF Retry
<1>4. CASE LoseKey
  BY <1>4 DEF LoseKey
<1>5. CASE RemovePartial
  <2>1. losses = 0 => trusted = {}
    BY <1>5 DEF RemovePartial, Exists, Pair
  <2>2. QED
    BY <1>5, <2>1 DEF RemovePartial
<1>6. CASE UNCHANGED caVars
  BY <1>6 DEF caVars
<1>7. QED
  BY <1>1, <1>2, <1>3, <1>4, <1>5, <1>6, BootKeepsCaInv DEF CaNext

(* The invariant holds throughout.                                         *)
LEMMA CaInvariant == CaSpec => []CaInv
BY CaInvInit, CaInvNext, PTL DEF CaSpec

(* Every agent's certificate verifies against the anchor it was given      *)
(* (ca.rs, CaInner).                                                       *)
THEOREM CaSignaturesVerify == CaSpec => []SignaturesVerify
<1>1. CaInv => SignaturesVerify
  BY DEF CaInv
<1>2. QED
  BY <1>1, CaInvariant, PTL

(* All agents ever enrolled share the anchor on disk, unless the key file  *)
(* was lost (ca.rs, load_or_init).                                         *)
THEOREM CaOneAnchor == CaSpec => []OneAnchor
<1>1. CaInv => OneAnchor
  BY DEF CaInv
<1>2. QED
  BY <1>1, CaInvariant, PTL

-----------------------------------------------------------------------------
(***************************************************************************)
(* The rate limiter.                                                       *)
(***************************************************************************)
(* No stamp is ahead of the clock, and no verdict ahead of the request.    *)
StampsOK ==
  \A r \in Call :
    /\ stamp[r] <= instant
    /\ client[r] = NoClient => verdict[r] = "none"

(* A bucket holds admissions of its client.                                *)
BucketsOK == \A c \in Client : buckets[c] \subseteq Admitted(c)

(* No bucket is over the limit.                                            *)
BoundOK == \A c \in Client : Cardinality(buckets[c]) <= max_requests

RateInv ==
  /\ RateTypeOK
  /\ StampsOK
  /\ BucketsOK
  /\ BoundOK
  /\ RecentIsHeld

-----------------------------------------------------------------------------
(* The sweep leaves a bucket alone or drops it, the latter only if nothing *)
(* in it is recent.                                                        *)
LEMMA SweptBucket ==
  ASSUME RateTypeOK, NEW s \in Nat, NEW c \in Client
  PROVE  /\ Swept(s) \in [Client -> SUBSET Call]
         /\ Swept(s)[c] \subseteq buckets[c]
         /\ \A q \in buckets[c] : Recent(q, s) => q \in Swept(s)[c]
BY DEF Swept, RateTypeOK

(* Buckets are finite.                                                     *)
LEMMA FiniteSubset ==
  ASSUME NEW S \in SUBSET Call
  PROVE  IsFiniteSet(S) /\ Cardinality(S) \in Nat
BY RateAssumption, FS_Subset, FS_CardinalityType

(* The limiter starts out empty.                                           *)
LEMMA RateInvInit == RateInit => RateInv
<1> SUFFICES ASSUME RateInit PROVE RateInv
  OBVIOUS
<1> USE RateAssumption DEF RateInit
<1>1. RateTypeOK /\ StampsOK /\ BucketsOK /\ RecentIsHeld
  BY DEF RateTypeOK, StampsOK, BucketsOK, RecentIsHeld, Admitted
<1>2. BoundOK
  BY FS_EmptySet DEF BoundOK, max_requests
<1>3. QED
  BY <1>1, <1>2 DEF RateInv

(* check, whatever it answers, keeps the invariant.                        *)
LEMMA CheckKeepsInv ==
  ASSUME RateInv, NEW r \in Call, Admit(r) \/ Reject(r)
  PROVE  RateInv'
<1> USE RateAssumption DEF RateInv
<1> DEFINE s == stamp[r]
           c == client[r]
           h == Hits(r)
<1>1. /\ c \in Client /\ s \in Nat /\ s <= instant /\ instant \in Nat
      /\ verdict[r] = "none"
      /\ instant' = instant /\ client' = client /\ stamp' = stamp
  BY DEF Admit, Reject, Waiting, Decide, RateTypeOK, StampsOK
<1>2. PICK answer \in {"admitted", "rejected"}, after \in {h, h \union {r}} :
        /\ verdict' = [verdict EXCEPT ![r] = answer]
        /\ buckets' = [Swept(s) EXCEPT ![c] = after]
        /\ answer = "admitted" => after = h \union {r} /\ Cardinality(h) < max_requests
        /\ answer = "rejected" => after = h
  BY DEF Admit, Reject, Decide
<1>3. h \subseteq buckets[c] /\ (\A q \in buckets[c] : Recent(q, s) => q \in h)
      /\ h \subseteq Call
  BY <1>1, SweptBucket DEF Hits, RateTypeOK
<1>4. max_requests \in Nat
  BY DEF max_requests
<1>5. /\ \A d \in Client : d # c => buckets'[d] = Swept(s)[d]
      /\ buckets'[c] = after
      /\ buckets' \in [Client -> SUBSET Call]
  BY <1>1, <1>2, <1>3, SweptBucket DEF RateTypeOK
<1>6. \A q \in Call : verdict'[q] = IF q = r THEN answer ELSE verdict[q]
  BY <1>2 DEF RateTypeOK
<1> HIDE DEF s, c, h
<1>7. client[r] = c /\ stamp[r] = s
  BY DEF c, s
<1>8. RateTypeOK' /\ StampsOK'
  BY <1>1, <1>2, <1>5, <1>6, <1>7 DEF RateTypeOK, StampsOK
<1>9. BucketsOK'
  <2> SUFFICES ASSUME NEW d \in Client, NEW q \in buckets'[d]
               PROVE  client[q] = d /\ verdict'[q] = "admitted" /\ q \in Call
    BY <1>1 DEF BucketsOK, Admitted
  <2>1. CASE q \in buckets[d]
    BY <1>1, <1>6, <2>1 DEF BucketsOK, Admitted
  <2>2. CASE q \notin buckets[d]
    <3>1. d = c /\ q = r /\ answer = "admitted"
      BY <1>1, <1>2, <1>3, <1>5, <2>2, SweptBucket
    <3>2. QED
      BY <1>6, <1>7, <3>1
  <2>3. QED
    BY <2>1, <2>2
<1>10. BoundOK'
  <2> SUFFICES ASSUME NEW d \in Client PROVE Cardinality(buckets'[d]) <= max_requests
    BY DEF BoundOK, max_requests
  <2>1. \A S \in SUBSET Call : IsFiniteSet(S) /\ Cardinality(S) \in Nat
    BY FiniteSubset
  <2>2. ASSUME NEW S \in SUBSET buckets[d] PROVE Cardinality(S) <= max_requests
    <3>1. buckets[d] \in SUBSET Call
      BY DEF RateTypeOK
    <3>2. IsFiniteSet(buckets[d]) /\ Cardinality(buckets[d]) \in Nat
      BY <2>1, <3>1
    <3>3. Cardinality(S) <= Cardinality(buckets[d]) /\ S \in SUBSET Call
      BY <3>1, <3>2, FS_Subset
    <3>4. QED
      BY <1>4, <2>1, <3>2, <3>3 DEF BoundOK
  <2>3. CASE buckets'[d] \subseteq buckets[d]
    BY <2>2, <2>3
  <2>4. CASE ~(buckets'[d] \subseteq buckets[d])
    <3>1. d = c /\ answer = "admitted"
      BY <1>1, <1>2, <1>3, <1>5, <2>4, SweptBucket
    <3>2. IsFiniteSet(h) /\ Cardinality(h) \in Nat /\ Cardinality(h) < max_requests
      BY <1>2, <1>3, <2>1, <3>1
    <3>3. Cardinality(h \union {r}) <= Cardinality(h) + 1
      <4>1. Cardinality(h \union {r}) =
              IF r \in h THEN Cardinality(h) ELSE Cardinality(h) + 1
        BY <3>2, FS_AddElement
      <4>2. QED
        BY <3>2, <4>1
    <3>4. Cardinality(h \union {r}) \in Nat
      BY <1>3, <2>1
    <3>5. buckets'[d] = h \union {r}
      BY <1>2, <1>5, <3>1
    <3>6. QED
      BY <1>4, <3>2, <3>3, <3>4, <3>5
  <2>5. QED
    BY <2>3, <2>4
<1>11. RecentIsHeld'
  <2> SUFFICES ASSUME NEW d \in Client, NEW q \in Call, client[q] = d,
                      verdict'[q] = "admitted", Recent(q, instant)
               PROVE  q \in buckets'[d]
    BY <1>1 DEF RecentIsHeld, Admitted, Recent, Age
  <2>1. CASE q = r
    BY <1>2, <1>5, <1>6, <1>7, <2>1
  <2>2. CASE q # r
    <3>1. q \in buckets[d]
      BY <1>6, <2>2 DEF RecentIsHeld, Admitted
    <3>2. Recent(q, s)
      BY <1>1 DEF Recent, Age, RateTypeOK
    <3>3. QED
      BY <1>1, <1>2, <1>3, <1>5, <3>1, <3>2, SweptBucket
  <2>3. QED
    BY <2>1, <2>2
<1>12. QED
  BY <1>8, <1>9, <1>10, <1>11

(* Every step keeps the invariant.                                         *)
LEMMA RateInvNext == RateInv /\ [RateNext]_rateVars => RateInv'
<1> SUFFICES ASSUME RateInv, [RateNext]_rateVars PROVE RateInv'
  OBVIOUS
<1> USE RateAssumption DEF RateInv
<1>1. ASSUME NEW r \in Call, NEW c \in Client, Stamp(r, c) PROVE RateInv'
  <2>1. /\ verdict[r] = "none"
        /\ client' = [client EXCEPT ![r] = c]
        /\ stamp' = [stamp EXCEPT ![r] = instant]
        /\ instant' = instant /\ verdict' = verdict /\ buckets' = buckets
    BY <1>1 DEF Stamp, StampsOK
  <2>2. RateTypeOK' /\ StampsOK' /\ BoundOK'
    BY <2>1 DEF RateTypeOK, StampsOK, BoundOK, max_requests
  <2>3. \A q \in Call : verdict[q] = "admitted" =>
          client'[q] = client[q] /\ stamp'[q] = stamp[q]
    BY <2>1 DEF RateTypeOK
  <2>4. BucketsOK' /\ RecentIsHeld'
    BY <2>1, <2>3 DEF BucketsOK, RecentIsHeld, Admitted, Recent, Age
  <2>5. QED
    BY <2>2, <2>4
<1>2. ASSUME RateTick PROVE RateInv'
  <2>1. instant \in Nat /\ instant' = instant + 1
    BY <1>2 DEF RateTick, RateTypeOK
  <2>2. RateTypeOK' /\ StampsOK' /\ BucketsOK' /\ BoundOK'
    BY <1>2, <2>1 DEF RateTick, RateTypeOK, StampsOK, BucketsOK, BoundOK, Admitted,
                      max_requests
  <2>3. RecentIsHeld'
    <3>1. \A q \in Call : Recent(q, instant') => Recent(q, instant)
      BY <2>1 DEF RateTypeOK, Recent, Age
    <3>2. QED
      BY <1>2, <3>1 DEF RateTick, RecentIsHeld, Recent, Age, Admitted
  <2>4. QED
    BY <2>2, <2>3
<1>3. ASSUME UNCHANGED rateVars PROVE RateInv'
  BY <1>3 DEF rateVars, RateTypeOK, StampsOK, BucketsOK, BoundOK, RecentIsHeld, Admitted,
              Recent, Age, max_requests
<1>4. QED
  BY <1>1, <1>2, <1>3, CheckKeepsInv DEF RateNext, Done

-----------------------------------------------------------------------------
(* The invariant holds throughout.                                         *)
LEMMA RateInvariant == RateSpec => []RateInv
BY RateInvInit, RateInvNext, PTL DEF RateSpec

(* The limiter keeps its types.                                            *)
THEOREM RateTypes == RateSpec => []RateTypeOK
<1>1. RateInv => RateTypeOK
  BY DEF RateInv
<1>2. QED
  BY <1>1, RateInvariant, PTL

(* No admission that still counts is forgotten (ratelimit.rs, check_at).   *)
THEOREM RateRecentIsHeld == RateSpec => []RecentIsHeld
<1>1. RateInv => RecentIsHeld
  BY DEF RateInv
<1>2. QED
  BY <1>1, RateInvariant, PTL

(* At no instant are there more than max_requests admissions of a client   *)
(* in the window before it (ratelimit.rs, Algorithm).                      *)
THEOREM RateLimitHolds == RateSpec => []AtMostMaxPerWindow
<1>1. RateInv => AtMostMaxPerWindow
  <2> SUFFICES ASSUME RateInv, NEW c \in Client
               PROVE  Cardinality({r \in Admitted(c) : Recent(r, instant)}) <= max_requests
    BY DEF AtMostMaxPerWindow
  <2> DEFINE S == {r \in Admitted(c) : Recent(r, instant)}
  <2>1. S \subseteq buckets[c] /\ buckets[c] \in SUBSET Call
    BY DEF RateInv, RecentIsHeld, RateTypeOK
  <2>2. /\ IsFiniteSet(buckets[c]) /\ Cardinality(buckets[c]) \in Nat
        /\ S \in SUBSET Call
    BY <2>1, FiniteSubset
  <2>3. Cardinality(S) <= Cardinality(buckets[c])
    BY <2>1, <2>2, FS_Subset
  <2>4. Cardinality(S) \in Nat /\ max_requests \in Nat
    BY <2>2, FiniteSubset, RateAssumption DEF max_requests
  <2>5. QED
    BY <2>2, <2>3, <2>4 DEF RateInv, BoundOK
<1>2. QED
  BY <1>1, RateInvariant, PTL

(* A client is turned away only for max_requests recent admissions of its  *)
(* own (ratelimit.rs, check_at).                                           *)
THEOREM RateRejections == RateSpec => RejectedOnlyAtLimit
<1> DEFINE Counted(r) == {q \in Admitted(client[r]) : Recent(q, stamp[r])}
<1>1. RateInv /\ [RateNext]_rateVars =>
        [\A r \in Call : verdict[r] = "none" /\ verdict'[r] = "rejected" =>
           Cardinality(Counted(r)) >= max_requests]_rateVars
  <2> SUFFICES ASSUME RateInv, RateNext, NEW r \in Call,
                      verdict[r] = "none", verdict'[r] = "rejected"
               PROVE  Cardinality(Counted(r)) >= max_requests
    OBVIOUS
  <2> USE DEF RateInv
  <2>1. Reject(r)
    <3>1. ASSUME NEW q \in Call, Admit(q) \/ Reject(q) PROVE q = r /\ Reject(q)
      BY <3>1 DEF Admit, Reject, Decide, RateTypeOK
    <3>2. QED
      BY <3>1 DEF RateNext, Stamp, RateTick, Done, rateVars
  <2>2. client[r] \in Client /\ stamp[r] \in Nat
    BY <2>1 DEF Reject, Waiting, RateTypeOK
  <2>3. Hits(r) \subseteq Counted(r)
    BY <2>2, SweptBucket DEF Hits, BucketsOK
  <2>4. Counted(r) \in SUBSET Call
    BY DEF Admitted
  <2>5. /\ IsFiniteSet(Counted(r)) /\ Cardinality(Counted(r)) \in Nat
        /\ Cardinality(Hits(r)) \in Nat
    BY <2>3, <2>4, FiniteSubset
  <2>6. Cardinality(Hits(r)) <= Cardinality(Counted(r))
    BY <2>3, <2>5, FS_Subset
  <2>7. Cardinality(Hits(r)) >= max_requests /\ max_requests \in Nat
    BY <2>1, RateAssumption DEF Reject, max_requests
  <2>8. QED
    BY <2>5, <2>6, <2>7
<1>2. QED
  BY <1>1, RateInvariant, PTL DEF RateSpec, RejectedOnlyAtLimit

-----------------------------------------------------------------------------
(* A check makes a key of its own client at most; and once the map has     *)
(* been swept, every other key has a hit that the request counts.          *)
LEMMA KeysAfterCheck ==
  ASSUME RateInv, NEW r \in Call, Admit(r) \/ Reject(r)
  PROVE  /\ Keys' \subseteq Keys \union {client[r]}
         /\ client[r] \in Client
         /\ Cardinality(Keys) >= KEY_SOFT_CAP =>
              /\ \A c \in Keys' \ {client[r]} : \E q \in buckets'[c] : Recent(q, stamp[r])
              /\ client[r] \in Keys' =>
                   \/ r \in buckets'[client[r]]
                   \/ \E q \in buckets'[client[r]] : Recent(q, stamp[r])
<1> USE DEF RateInv
<1>1. client[r] \in Client /\ stamp[r] \in Nat
  BY DEF Admit, Reject, Waiting, RateTypeOK
<1>2. PICK after \in {Hits(r), Hits(r) \union {r}} :
        buckets' = [Swept(stamp[r]) EXCEPT ![client[r]] = after]
  BY DEF Admit, Reject, Decide
<1>3. /\ \A c \in Client \ {client[r]} : buckets'[c] = Swept(stamp[r])[c]
      /\ buckets'[client[r]] = after
  BY <1>1, <1>2, SweptBucket
<1>4. Keys' \subseteq Keys \union {client[r]}
  BY <1>1, <1>3, SweptBucket DEF Keys
<1>5. ASSUME Cardinality(Keys) >= KEY_SOFT_CAP, NEW c \in Keys' \ {client[r]}
      PROVE  \E q \in buckets'[c] : Recent(q, stamp[r])
  <2>1. c \in Client /\ buckets'[c] = Swept(stamp[r])[c] /\ buckets'[c] # {}
    BY <1>3, <1>5 DEF Keys
  <2>2. Cardinality(Keys) \in Nat
    BY RateAssumption, FS_Subset, FS_CardinalityType DEF Keys
  <2>3. ~(Cardinality(Keys) < KEY_SOFT_CAP)
    BY <1>5, <2>2, RateAssumption
  <2>4. QED
    BY <2>1, <2>3 DEF Swept
<1>6. ASSUME client[r] \in Keys'
      PROVE  \/ r \in buckets'[client[r]]
             \/ \E q \in buckets'[client[r]] : Recent(q, stamp[r])
  BY <1>2, <1>3, <1>6 DEF Keys, Hits
<1>7. QED
  BY <1>1, <1>4, <1>5, <1>6

(* The map outgrows its soft cap only when every key in it is active       *)
(* (ratelimit.rs, KEY_SOFT_CAP): below the cap a check adds one key at     *)
(* most, and at the cap the sweep has left only active ones.               *)
THEOREM RateMapIsBounded == RateSpec => OverCapOnlyIfActive
<1> DEFINE Active(r) == \A c \in Keys' : \E q \in buckets'[c] : Recent(q, stamp[r])
<1>1. RateInv /\ [RateNext]_rateVars =>
        [\A r \in Call : /\ verdict[r] # verdict'[r]
                         /\ Cardinality(Keys') > KEY_SOFT_CAP
                         => Active(r)]_rateVars
  <2> SUFFICES ASSUME RateInv, RateNext, NEW r \in Call, verdict[r] # verdict'[r],
                      Cardinality(Keys') > KEY_SOFT_CAP
               PROVE  Active(r)
    OBVIOUS
  <2> USE RateAssumption
  <2>1. Admit(r) \/ Reject(r)
    <3>1. ASSUME NEW q \in Call, Admit(q) \/ Reject(q) PROVE q = r
      BY <3>1 DEF Admit, Reject, Decide, RateInv, RateTypeOK
    <3>2. QED
      BY <3>1 DEF RateNext, Stamp, RateTick, Done, rateVars
  <2>2. /\ IsFiniteSet(Keys) /\ Cardinality(Keys) \in Nat
        /\ IsFiniteSet(Keys') /\ Cardinality(Keys') \in Nat
    BY FS_Subset, FS_CardinalityType DEF Keys
  <2>3. client[r] \in Client /\ stamp[r] \in Nat
    BY <2>1, KeysAfterCheck DEF RateInv, RateTypeOK
  <2>4. Cardinality(Keys) >= KEY_SOFT_CAP
    <3>1. /\ IsFiniteSet(Keys \union {client[r]})
          /\ Cardinality(Keys \union {client[r]}) \in Nat
          /\ Cardinality(Keys \union {client[r]}) <= Cardinality(Keys) + 1
      <4>1. /\ IsFiniteSet(Keys \union {client[r]})
            /\ Cardinality(Keys \union {client[r]}) =
                 IF client[r] \in Keys THEN Cardinality(Keys) ELSE Cardinality(Keys) + 1
        BY <2>2, FS_AddElement
      <4>2. QED
        BY <2>2, <4>1
    <3>2. Cardinality(Keys') <= Cardinality(Keys \union {client[r]})
      BY <2>1, <3>1, KeysAfterCheck, FS_Subset
    <3>3. QED
      BY <2>2, <3>1, <3>2
  <2>5. CASE window = 0
    <3>1. \A q \in Call : ~Recent(q, stamp[r])
      BY <2>3, <2>5 DEF Recent, Age, RateInv, RateTypeOK
    <3>2. \A c \in Client : buckets'[c] \subseteq Call
      BY RateInvNext DEF RateInv, RateTypeOK
    <3>3. Keys' \subseteq {client[r]}
      BY <2>1, <2>4, <3>1, <3>2, KeysAfterCheck DEF Keys
    <3>4. Cardinality(Keys') <= 1
      <4>1. IsFiniteSet({client[r]}) /\ Cardinality({client[r]}) = 1
        BY FS_Singleton
      <4>2. QED
        BY <3>3, <4>1, FS_Subset
    <3>5. QED
      BY <2>2, <3>4
  <2>6. CASE window # 0
    <3>1. Recent(r, stamp[r])
      BY <2>3, <2>6 DEF Recent, Age
    <3>2. QED
      BY <2>1, <2>4, <3>1, KeysAfterCheck
  <2>7. QED
    BY <2>5, <2>6
<1>2. QED
  BY <1>1, RateInvariant, PTL DEF RateSpec, OverCapOnlyIfActive

=============================================================================
