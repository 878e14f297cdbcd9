-------------------------------- MODULE Advice ------------------------------
(***************************************************************************)
(* What the collector and the command line of ree0xq-agility say about the *)
(* inventory: posture, blocked assets, replacements, roadmap.              *)
(* The endpoints of routes.rs change nothing: each is an operator over the *)
(* latest event of every asset and the clock.  What changes is the         *)
(* inventory, the clock, and the block that the agility scanner printed    *)
(* last, which its caller wraps into an event of an asset it knows.        *)
(***************************************************************************)
EXTENDS Posture, Recommend, Compat, Roadmap, AgilityScan

CONSTANTS
  Seen,        (* the events that the agents report, without agility         *)
  Wrapped,     (* those of them that are also reported with an agility block *)
  External,    (* agility blocks that other scanners report                  *)
  Tree,        (* the files of the target that is scanned                    *)
  RuleDirs,    (* the rule directories that may be given to the scanner      *)
  ByteCaps, LineCaps,   (* --max-file-bytes, --max-lines                     *)
  Plans,       (* migration plans                                            *)
  Start, Year, LastYear,  (* when the clock starts, its step and its end     *)
  MaxAssets    (* bound on the inventory                                     *)

(* What the tables of the agents name (see Algos).  A name that a          *)
(* replacement rule matches is reported in the rule's role, and a          *)
(* classical signature is named in full, or in a way that no rule matches: *)
(* by nothing but its family, or as RSA-MD5.                               *)
FullNames == RsaNames \union EcdsaNames \union {"Ed25519", "Ed448", "Schnorr-secp256k1"}
UnruledNames == {"ECDSA", "RSA", "RSA-MD5", "DSA", "anonymous", "unknown"}

Vocabulary(p) ==
  /\ recommend_for_sig(p) # <<>> => p.role = "sig"
  /\ recommend_for_encrypt(p) # <<>> => p.role = "encrypt"
  /\ p.role = "sig" /\ p.pq = "no" => p.algorithm \in FullNames \union UnruledNames

ASSUME AdviceAssumption ==
  /\ Wrapped \subseteq Seen
  /\ Seen \subseteq {ev \in CryptoInventoryEvent : ev.agility = NoAgility}
  /\ \A ev \in Seen : \A i \in DOMAIN ev.primitives : Vocabulary(ev.primitives[i])
  /\ External \subseteq AgilityBlock
  /\ Start \in Nat /\ Year \in Nat \ {0} /\ LastYear \in Nat

(* What is scanned, the rules, and the plans.                              *)
ASSUME ScanAssumption ==
  /\ IsFiniteSet(Tree)
  /\ \A f \in Tree : f.bytes \in Nat /\ Len(f.lines) \in Nat
  /\ \A dir \in RuleDirs : \A f \in dir : f.rule.emit_level \in AgilityLevel
  /\ ByteCaps \subseteq Nat /\ LineCaps \subseteq Nat

ASSUME PlansAssumption ==
  \A plan \in Plans :
    /\ plan = [i \in 1..Len(plan) |-> plan[i]] /\ Len(plan) \in Nat
    /\ \A i \in 1..Len(plan) : plan[i].date \in Int

VARIABLES
  latest,   (* EventStore::latest_per_asset                                   *)
  now,      (* the wall clock, in half years                                  *)
  block     (* what the last scan printed; no level before the first          *)

vars == <<latest, now, block>>

Init ==
  /\ latest = {}
  /\ now = Start
  /\ block = [level |-> "none", level_score |-> 0, evidence |-> {}]

(* POST /v1/events: the new event of an asset takes the place of the old.  *)
Store(ev) ==
  LET rest == {e \in latest : Key(e) # Key(ev)}
  IN  /\ Cardinality(rest) < MaxAssets
      /\ latest' = rest \union {ev}
      /\ UNCHANGED <<now, block>>

Observe(ev) == Store(ev)

(* The level and the score of the last block; there is none at first.      *)
LastScan == [level |-> block.level, level_score |-> block.level_score]

(* An event with an agility block: the scanner's last, or another's.       *)
ObserveAgility(ev, agility) ==
  /\ agility # NoAgility
  /\ Store([ev EXCEPT !.agility = agility])

Tick ==
  /\ now + Year <= LastYear
  /\ now' = now + Year
  /\ UNCHANGED <<latest, block>>

(* What ree0xq-agility scan may print, whatever it cannot read; nothing is *)
(* printed when the rules do not load.                                     *)
Printed ==
  {scan_target(Tree, unreadable, load_ruleset(dir).rules, bytes, lines) :
     dir \in {d \in RuleDirs : load_ruleset(d).ok}, unreadable \in SUBSET Tree,
     bytes \in ByteCaps, lines \in LineCaps}

Scan(printed) ==
  /\ block' = printed
  /\ UNCHANGED <<latest, now>>

Next ==
  \/ \E ev \in Seen : Observe(ev)
  \/ \E ev \in Wrapped, agility \in External \union {LastScan} : ObserveAgility(ev, agility)
  \/ Tick
  \/ \E printed \in Printed : Scan(printed)

Spec == Init /\ [][Next]_vars

(***************************************************************************)
(* The endpoints.                                                          *)
(***************************************************************************)
Names(ev) == [i \in DOMAIN ev.primitives |-> ev.primitives[i].algorithm]

InventoryItem(ev) ==
  [source_module |-> ev.source_module, asset_kind |-> ev.kind, identity |-> ev.identity,
   q |-> q_for_event(ev, now), blocked |-> is_blocked(ev.agility), primitives |-> Names(ev)]

(* The orders in which the rows of a reply may stand: the store lists its  *)
(* assets in any order, and the inventory is then sorted by falling q.     *)
Orders(rows) == {s \in [1..Cardinality(rows) -> rows] : Range(s) = rows}
Ranked(rows) ==
  {s \in Orders(rows) : \A i \in 1..Len(s) - 1 : s[i].q >= s[i + 1].q}

inventory == Ranked({InventoryItem(ev) : ev \in latest})

blocked_assets == Ranked({InventoryItem(ev) : ev \in {e \in latest : is_blocked(e.agility)}})

org_posture ==
  [org_q |-> org_score(latest, now), assets |-> Cardinality(latest),
   blocked_count |-> Cardinality({e \in latest : is_blocked(e.agility)})]

qkd_links ==
  {[identity |-> e.identity,
    link_health |-> IF e.channel = NoChannel THEN "unknown" ELSE e.channel.link_health] :
     e \in {ev \in latest : ev.kind \in {"qkd_link", "qkd_kme"}}}

RecommendationItem(ev) ==
  [source_module |-> ev.source_module, asset_kind |-> ev.kind, identity |-> ev.identity,
   recommendations |-> recommend_for(ev.primitives)]

recommendations ==
  {RecommendationItem(ev) : ev \in {e \in latest : recommend_for(e.primitives) # <<>>}}

(* POST /v1/agility/roadmap, over the assets in the order of the store.    *)
agility_roadmap(order, plan) ==
  project_roadmap([i \in DOMAIN order |->
                     AssetSnapshot(order[i].identity, q_for_event(order[i], now),
                                   is_blocked(order[i].agility), Names(order[i]))],
                  plan, Whole(now))

(***************************************************************************)
(* The commands, over a reply of /v1/inventory.                            *)
(***************************************************************************)
run_recommend(items, filter_kind) ==
  LET Prims(item) == [i \in DOMAIN item.primitives |->
                        Primitive(classify_role(item.primitives[i]), item.primitives[i], "unknown")]
      chosen == {item \in Range(items) : filter_kind \in {"none", item.asset_kind}}
  IN  {[asset_kind |-> item.asset_kind, identity |-> item.identity,
        recommendations |-> recommend_for(Prims(item))] :
          item \in {it \in chosen : recommend_for(Prims(it)) # <<>>}}

run_roadmap(items, plan) ==
  project_roadmap([i \in DOMAIN items |->
                     AssetSnapshot(items[i].identity, items[i].q, items[i].blocked,
                                   items[i].primitives)],
                  plan, Whole(now))

-----------------------------------------------------------------------------
SameMean(m1, m2) == m1.sum * m2.over = m2.sum * m1.over
NoMoreThan(m1, m2) == m1.sum * m2.over <= m2.sum * m1.over

(* As the deadline nears, gamma shrinks and the other weights take its     *)
(* share (q_for_event): the risk of an asset that nobody touched rises     *)
(* when its agility is above the mean of its other axes, and falls when    *)
(* it is below; it never does the opposite.                                *)
RiskMovesAgainstAgility ==
  [][now' # now => \A ev \in latest \intersect latest' :
       LET rise == q_for_event(ev, now') * Total(now) - q_for_event(ev, now) * Total(now')
           lean == 7 * axis_g(ev.agility) - (5 * axis_a(ev.primitives) + 2 * axis_c(ev.channel))
       IN  (lean >= 0 => rise >= 0) /\ (lean <= 0 => rise <= 0)]_vars

(* A trajectory (project_roadmap) hangs together: it starts from today's   *)
(* figures unless two assets share an identity, every milestone starts     *)
(* where the one before it ended, dates rise, and no milestone adds        *)
(* blocked or classical assets, or raises the mean risk unless an asset    *)
(* was already below the 0.10 that a migration is credited with.           *)
RoadmapIsCoherent ==
  \A plan \in Plans, order \in Orders(latest) :
    LET r == agility_roadmap(order, plan)
        rows == r.projections
    IN  /\ (rows # <<>> /\ \A e, f \in latest : e.identity = f.identity => e = f) =>
             /\ SameMean(rows[1].org_q_before, r.today_org_q)
             /\ rows[1].blocked_before = r.today_blocked
        /\ \A n \in 1..Len(rows) - 1 :
             /\ SameMean(rows[n + 1].org_q_before, rows[n].org_q_after)
             /\ rows[n + 1].blocked_before = rows[n].blocked_after
             /\ rows[n + 1].date >= rows[n].date
             /\ rows[n + 1].assets_remaining_classical <= rows[n].assets_remaining_classical
        /\ \A n \in DOMAIN rows :
             /\ rows[n].blocked_after <= rows[n].blocked_before
             /\ NoMoreThan(rows[n].org_q_after, rows[n].org_q_before)
                  \/ \E e \in latest : 10 * q_for_event(e, now) < Whole(now)

(* roadmap.rs credits a migrated asset with q = 0.10, which "matches the   *)
(* paper's three-axis model when the new primitives are all PQ-safe": the  *)
(* rollup gives an asset whose primitives are all PQ-safe no more than     *)
(* that.                                                                   *)
MigratedMatchesModel ==
  \A ev \in latest :
    (ev.primitives # <<>> /\ \A i \in DOMAIN ev.primitives : ev.primitives[i].pq = "yes")
      => 10 * q_for_event(ev, now) <= Whole(now)

(* The commands say what the endpoints say, although the inventory that    *)
(* they read has lost the roles of the primitives and is in another        *)
(* order: the same replacements for every asset, the same trajectory when  *)
(* identities are unique; and a pair that the table of stacks does not     *)
(* know is unknown to both.                                                *)
CliAgreesWithServer ==
  /\ \A items \in inventory :
       /\ run_recommend(items, "none") =
            {[asset_kind |-> r.asset_kind, identity |-> r.identity,
              recommendations |-> r.recommendations] : r \in recommendations}
       /\ (\A e, f \in latest : e.identity = f.identity => e = f) =>
            \A plan \in Plans, order \in Orders(latest) :
              run_roadmap(items, plan) = agility_roadmap(order, plan)
  /\ \A item \in recommendations : \A i \in DOMAIN item.recommendations :
       \A s \in {e.stack : e \in build_matrix} :
         LET a == item.recommendations[i].replacement
         IN  /\ (agility_compat(s, a).status = 404) =
                  (\E e \in run_compat(s, a) : e.status = "unknown")
             /\ agility_compat(s, a).items \subseteq agility_compat("none", "none").items

(* A classical signature that an agent reports goes without a replacement  *)
(* only under one of six names that the prefixes of recommend_for_sig do   *)
(* not match: a family without its size or curve, as in certificates       *)
(* signed with ECDSA and in TLS 1.2 suites, and RSA-MD5.                   *)
UnadvisedOnlyIfUnruled ==
  \A ev \in latest : \A i \in DOMAIN ev.primitives :
    LET p == ev.primitives[i]
    IN  p.role = "sig" /\ p.pq = "no" =>
          \/ \E r \in Range(recommend_for(ev.primitives)) : r.replaces = p.algorithm
          \/ p.algorithm \in UnruledNames

(* What a scan by these rules finds when no file is skipped or cut off.    *)
AllTagged(rules) ==
  Tagged(Tree, {}, rules, Max({f.bytes : f \in Tree}), Max({Len(f.lines) : f \in Tree}))

(* A scan that had to skip files (unreadable, too large, not text, cut off *)
(* at max_lines) makes nothing up: a complete scan by the same rules finds *)
(* its evidence too, and its level is that of a rule behind the evidence   *)
(* that it prints; pinned only stands in when there is none.               *)
PartialScanIsSupported ==
  block.level # "none" =>
    \E dir \in {d \in RuleDirs : load_ruleset(d).ok} :
      LET all == AllTagged(load_ruleset(dir).rules)
      IN  /\ block.evidence \subseteq {Evidence(t) : t \in all}
          /\ \/ block.evidence = {} /\ block.level = "pinned"
             \/ \E t \in all : Evidence(t) \in block.evidence /\ block.level = t.emit_level

(* "The final level is min(level) across evidence - the weakest link       *)
(* governs" (ree0xq-agility lib.rs): no rule behind the evidence printed   *)
(* says less of the target than the level does.                            *)
LevelIsWeakestLink ==
  block.level # "none" =>
    \E dir \in {d \in RuleDirs : load_ruleset(d).ok} :
      \A t \in AllTagged(load_ruleset(dir).rules) :
        Evidence(t) \in block.evidence => Rank[block.level] <= Rank[t.emit_level]

=============================================================================
