---------------------------- MODULE RateLimiter ----------------------------
(***************************************************************************)
(* The sliding-window limiter in front of the bootstrap endpoints          *)
(* (ratelimit.rs, lib.rs: rate_limit_mw).  A request reads the clock first *)
(* and takes the mutex afterwards, so requests may pass the limiter in     *)
(* another order than the one of their stamps.                             *)
(***************************************************************************)
EXTENDS Integers, FiniteSets

CONSTANTS
  Call,          (* the requests of a behaviour, each with its own task      *)
  Client,        (* what client_key tells apart                              *)
  NoClient,      (* not a client                                             *)
  max,           (* the max_requests the constructor is given                *)
  window,        (* length of the sliding window                             *)
  KEY_SOFT_CAP,  (* distinct keys held before a full prune                   *)
  LastInstant    (* bound: the last instant of a behaviour                   *)

ASSUME RateAssumption ==
  /\ IsFiniteSet(Call)
  /\ IsFiniteSet(Client)
  /\ NoClient \notin Client
  /\ max \in Nat
  /\ window \in Nat
  /\ KEY_SOFT_CAP \in Nat \ {0}
  /\ LastInstant \in Nat

VARIABLES
  instant,  (* Instant::now(), monotonic                                     *)
  client,   (* the client of a request that has reached the middleware       *)
  stamp,    (* the instant it read                                           *)
  verdict,  (* what check answered: "none" until then                        *)
  buckets   (* per client, the admitted requests whose stamps are held       *)

rateVars == <<instant, client, stamp, verdict, buckets>>

(* RateLimiter::new: max_requests.max(1).                                  *)
max_requests == IF max < 1 THEN 1 ELSE max

RateTypeOK ==
  /\ instant \in Nat
  /\ client \in [Call -> Client \union {NoClient}]
  /\ stamp \in [Call -> Nat]
  /\ verdict \in [Call -> {"none", "admitted", "rejected"}]
  /\ buckets \in [Client -> SUBSET Call]

RateInit ==
  /\ instant = 0
  /\ client = [r \in Call |-> NoClient]
  /\ stamp = [r \in Call |-> 0]
  /\ verdict = [r \in Call |-> "none"]
  /\ buckets = [c \in Client |-> {}]

(* rate_limit_mw derives the key, check reads the clock.                   *)
Stamp(r, c) ==
  /\ client[r] = NoClient
  /\ client' = [client EXCEPT ![r] = c]
  /\ stamp' = [stamp EXCEPT ![r] = instant]
  /\ UNCHANGED <<instant, verdict, buckets>>

(* duration_since saturates: a stamp later than s has no age.              *)
Age(q, s) == IF stamp[q] < s THEN s - stamp[q] ELSE 0

Recent(q, s) == Age(q, s) < window

(* A check never leaves a bucket empty, so the keys of the map are the     *)
(* clients whose bucket is not.                                            *)
Keys == {c \in Client : buckets[c] # {}}

(* Mutant of Swept: the sweep asks for all instead of any.                 *)
SweptEager(s) ==
  IF Cardinality(Keys) < KEY_SOFT_CAP THEN buckets
  ELSE [c \in Client |->
          IF \A q \in buckets[c] : Recent(q, s) THEN buckets[c] ELSE {}]

(* Mutant of Swept: no sweep.                                              *)
SweptNever(s) == buckets

(* The map after the sweep that a map at its soft cap is given.            *)
Swept(s) ==
  IF Cardinality(Keys) < KEY_SOFT_CAP THEN buckets
  ELSE [c \in Client |->
          IF \E q \in buckets[c] : Recent(q, s) THEN buckets[c] ELSE {}]

(* Stamped, and not yet past the mutex.                                    *)
Waiting(r) == client[r] # NoClient /\ verdict[r] = "none"

(* The hits the request finds in its bucket.                               *)
Hits(r) == {q \in Swept(stamp[r])[client[r]] : Recent(q, stamp[r])}

Decide(r, answer, hits) ==
  /\ verdict' = [verdict EXCEPT ![r] = answer]
  /\ buckets' = [Swept(stamp[r]) EXCEPT ![client[r]] = hits]
  /\ UNCHANGED <<instant, client, stamp>>

(* Mutant of Admit: one too many.                                          *)
AdmitOneMore(r) ==
  /\ Waiting(r)
  /\ Cardinality(Hits(r)) <= max_requests
  /\ Decide(r, "admitted", Hits(r) \union {r})

(* check_at, under the mutex: admitted and recorded.                       *)
Admit(r) ==
  /\ Waiting(r)
  /\ Cardinality(Hits(r)) < max_requests
  /\ Decide(r, "admitted", Hits(r) \union {r})

(* 429; only the expired hits of the bucket are dropped.                   *)
Reject(r) ==
  /\ Waiting(r)
  /\ Cardinality(Hits(r)) >= max_requests
  /\ Decide(r, "rejected", Hits(r))

RateTick ==
  /\ instant < LastInstant
  /\ instant' = instant + 1
  /\ UNCHANGED <<client, stamp, verdict, buckets>>

(* The behaviour is over.                                                  *)
Done ==
  /\ instant = LastInstant
  /\ \A r \in Call : verdict[r] # "none"
  /\ UNCHANGED rateVars

RateNext ==
  \/ \E r \in Call, c \in Client : Stamp(r, c)
  \/ \E r \in Call : Admit(r) \/ Reject(r)
  \/ RateTick
  \/ Done

RateSpec == RateInit /\ [][RateNext]_rateVars

-----------------------------------------------------------------------------
Admitted(c) == {r \in Call : client[r] = c /\ verdict[r] = "admitted"}

(* At every instant a client has at most max_requests admissions stamped   *)
(* within the last window, in whatever order requests got hold of the      *)
(* mutex and whichever of them swept the map (ratelimit.rs, Algorithm).    *)
AtMostMaxPerWindow ==
  \A c \in Client :
    Cardinality({r \in Admitted(c) : Recent(r, instant)}) <= max_requests

(* No admission that still counts is forgotten, neither by the pruning of  *)
(* its bucket nor by the sweep of the whole map (ratelimit.rs, check_at).  *)
RecentIsHeld ==
  \A c \in Client : {r \in Admitted(c) : Recent(r, instant)} \subseteq buckets[c]

(* A client is turned away only for its own admissions: max_requests of    *)
(* them no more than a window older than the request.  Rejected requests   *)
(* and other clients' never count (ratelimit.rs, check_at).                *)
RejectedOnlyAtLimit ==
  [][\A r \in Call :
       verdict[r] = "none" /\ verdict'[r] = "rejected" =>
         Cardinality({q \in Admitted(client[r]) : Recent(q, stamp[r])})
           >= max_requests]_rateVars

(* The map grows past its soft cap only by clients that are all active:    *)
(* every key then has a hit within the window of the request that made it  *)
(* grow (ratelimit.rs, KEY_SOFT_CAP).                                      *)
OverCapOnlyIfActive ==
  [][\A r \in Call :
       /\ verdict[r] # verdict'[r]
       /\ Cardinality(Keys') > KEY_SOFT_CAP
       => \A c \in Keys' : \E q \in buckets'[c] : Recent(q, stamp[r])]_rateVars

=============================================================================
