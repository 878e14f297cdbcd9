------------------------------ MODULE QkdLink ------------------------------
(***************************************************************************)
(* The observation of QKD links, end to end: KME emulators that hand out   *)
(* keys and report their state (emulator/mod.rs), the replay driver that   *)
(* takes one of them through a scenario (replay/mod.rs, bin/replay.rs),    *)
(* the collector that polls them all (collector/mod.rs), and the per-asset *)
(* rows of the server its events end in (EventStore).                      *)
(*                                                                         *)
(* Every handler of an emulator holds the state lock throughout and is one *)
(* step.  A poll and the forwarding of its event are two.  QBER is counted *)
(* in steps of which MaxQber make 1.0.  The key rate is only reported on,  *)
(* as is a key's size, and both are left out.                              *)
(***************************************************************************)
EXTENDS Integers, Sequences, FiniteSets

CONSTANTS
  Kme,         (* the endpoints the collector polls, one emulator behind each *)
  NoEvent,     (* no event                                                    *)
  Driven,      (* the emulator the replay driver talks to                     *)
  Scenario,    (* scenarios an operator may hand to the driver                *)
  MaxQber,     (* a QBER of 1.0                                               *)
  InitialQber, (* EmulatorConfig.initial_qber                                 *)
  WarnQber,    (* CollectorConfig.qber_warn_threshold                         *)
  FailQber,    (* CollectorConfig.qber_fail_threshold                         *)
  SeedKeys,    (* keys an emulator starts with: 32                            *)
  MaxPerCall,  (* max_key_per_request: 128                                    *)
  MaxKeys,     (* bound: keys generated in all                                *)
  MaxTime,     (* bound: the clock                                            *)
  MaxFaults    (* bound: requests that fail, emulators that die               *)

ASSUME QkdAssumption ==
  /\ IsFiniteSet(Kme) /\ Driven \in Kme
  /\ MaxQber \in Nat /\ InitialQber \in 0..MaxQber
  /\ WarnQber \in Nat /\ FailQber \in Nat
  /\ SeedKeys \in Nat \ {0} /\ MaxPerCall \in Nat \ {0}
  /\ MaxKeys \in Nat /\ MaxTime \in Nat /\ MaxFaults \in Nat
  /\ SeedKeys * Cardinality(Kme) <= MaxKeys

(* What a scenario file parses to; it need not be a valid scenario.        *)
ASSUME ScenarioAssumption ==
  \A s \in Scenario :
    /\ s.duration \in Nat
    /\ s.events \in Seq({s.events[i] : i \in DOMAIN s.events})
    /\ \A i \in DOMAIN s.events :
         /\ s.events[i].at_seconds \in Nat
         /\ s.events[i].op.op = "set_qber" => s.events[i].op.qber \in Int

VARIABLES
  up,        (* per KME, whether its process runs                             *)
  qber,      (* EmulatorState.qber                                            *)
  forced,    (* whether forced_failure is set                                 *)
  keys,      (* EmulatorState.keys                                            *)
  made,      (* keys generated so far, by all emulators                       *)
  issued,    (* per KME, keys this process has given to master SAEs           *)
  slave,     (* keys that slave SAEs have fetched                             *)
  scenario,  (* what the driver replays                                       *)
  driver,    (* where the driver is                                           *)
  next,      (* index of the event it comes to                                *)
  pc,        (* where the collector is                                        *)
  cycle,     (* the endpoints it has not polled in this tick                  *)
  ev,        (* the event it is about to forward                              *)
  latest,    (* the server: per identity, the event that is shown             *)
  clock,
  applied,   (* history: which control operations took effect, and when       *)
  refused,   (* history: the operations answered with an error status         *)
  been,      (* history: per KME, the states it has been in                   *)
  faults

emulator  == <<up, qber, forced, keys>>
sae       == <<made, issued, slave>>
replay    == <<scenario, driver, next, applied, refused>>
collector == <<pc, cycle, ev>>
vars      == <<emulator, sae, replay, collector, latest, clock, been, faults>>

Health   == {"ok", "degraded", "failed"}
Identity == {"own", "unreachable"} \X Kme
Event    == [id : Identity, health : Health, at : 0..MaxTime]

ASSUME NoEventAssumption == NoEvent \notin Event

At(event) == event.at
ES == INSTANCE EventStore WITH
        Key <- Identity, Row <- {}, RankOf <- At, history <- {}

Fault == faults < MaxFaults /\ faults' = faults + 1

-----------------------------------------------------------------------------
(* The state of a KME as an observer at its door would name it.            *)
Truth(k) ==
  CASE forced[k]            -> "refuses"
    [] ~forced[k] /\ qber[k] >= FailQber -> "failed"
    [] ~forced[k] /\ qber[k] < FailQber /\ qber[k] >= WarnQber -> "degraded"
    [] OTHER                -> "ok"

Recorded == been' = [k \in Kme |-> been[k] \union {Truth(k)'}]

(* Keys for every emulator to start with, no two the same.                 *)
Seeding ==
  {seed \in [Kme -> SUBSET (1..(SeedKeys * Cardinality(Kme)))] :
     /\ \A k \in Kme : Cardinality(seed[k]) = SeedKeys
     /\ \A j, k \in Kme : j # k => seed[j] \intersect seed[k] = {}}

Init ==
  /\ up = [k \in Kme |-> TRUE]
  /\ qber = [k \in Kme |-> InitialQber]
  /\ forced = [k \in Kme |-> FALSE]
  /\ keys = CHOOSE seed \in Seeding : TRUE
  /\ made = SeedKeys * Cardinality(Kme)
  /\ issued = [k \in Kme |-> {}]
  /\ slave = {}
  /\ scenario \in Scenario
  /\ driver = "start"
  /\ next = 1
  /\ pc = "idle"
  /\ cycle = {}
  /\ ev = NoEvent
  /\ latest = [i \in Identity |-> NoEvent]
  /\ clock = 0
  /\ applied = <<>>
  /\ refused = {}
  /\ been = [k \in Kme |-> {Truth(k)}]
  /\ faults = 0

-----------------------------------------------------------------------------
(* The emulator.  generate_keys puts every key it makes into the pool.     *)
Generated(count) == (made + 1)..(made + count)

handle_enc_keys(k, number) ==
  /\ up[k] /\ ~forced[k]
  /\ number <= MaxPerCall /\ made + number <= MaxKeys
  /\ keys' = [keys EXCEPT ![k] = @ \union Generated(number)]
  /\ issued' = [issued EXCEPT ![k] = @ \union Generated(number)]
  /\ made' = made + number
  /\ UNCHANGED <<up, qber, forced, slave, replay, collector, latest, clock, been, faults>>

(* All keys that are asked for, or none (404).                             *)
handle_dec_keys(k, ids) ==
  /\ up[k] /\ ~forced[k]
  /\ slave' = IF ids \subseteq keys[k] THEN slave \union ids ELSE slave
  /\ UNCHANGED <<emulator, made, issued, replay, collector, latest, clock, been, faults>>

(* A slave SAE asks for keys whose ids some master has told it.            *)
SaeRequest ==
  \E k \in Kme :
    \/ \E number \in 1..MaxPerCall : handle_enc_keys(k, number)
    \/ \E ids \in SUBSET UNION {issued[j] : j \in Kme} \ {{}} : handle_dec_keys(k, ids)

Clamp(q) == IF q < 0 THEN 0 ELSE IF q > MaxQber THEN MaxQber ELSE q

(* What a control operation makes of the state of emulator k.              *)
handle_control(k, op) ==
  /\ qber' = IF op.op = "set_qber" THEN [qber EXCEPT ![k] = Clamp(op.qber)] ELSE qber
  /\ forced' = CASE op.op = "force" -> [forced EXCEPT ![k] = TRUE]
                 [] op.op = "clear" -> [forced EXCEPT ![k] = FALSE]
                 [] OTHER           -> forced
  /\ UNCHANGED <<up, keys>>

(* External: the process of an emulator dies, and is started again with an *)
(* empty state and keys of its own (EmulatorState::new).                   *)
Die(k) ==
  /\ up[k] /\ Fault
  /\ up' = [up EXCEPT ![k] = FALSE]
  /\ UNCHANGED <<qber, forced, keys, sae, replay, collector, latest, clock, been>>

Reborn(k) ==
  /\ ~up[k] /\ made + SeedKeys <= MaxKeys
  /\ up' = [up EXCEPT ![k] = TRUE]
  /\ qber' = [qber EXCEPT ![k] = InitialQber]
  /\ forced' = [forced EXCEPT ![k] = FALSE]
  /\ keys' = [keys EXCEPT ![k] = Generated(SeedKeys)]
  /\ issued' = [issued EXCEPT ![k] = {}]
  /\ made' = made + SeedKeys
  /\ Recorded
  /\ UNCHANGED <<slave, replay, collector, latest, clock, faults>>

-----------------------------------------------------------------------------
(* The replay driver.                                                      *)
events == scenario.events

(* validate: the events are in the order of their times, and within the    *)
(* duration.                                                               *)
Valid ==
  /\ \A i \in 1..(Len(events) - 1) : events[i].at_seconds <= events[i + 1].at_seconds
  /\ \A i \in 1..Len(events) : events[i].at_seconds <= scenario.duration

Validate ==
  /\ driver = "start"
  /\ driver' = IF Valid THEN "run" ELSE "rejected"
  /\ UNCHANGED <<emulator, sae, scenario, next, applied, refused, collector, latest, clock, been, faults>>

(* Mutant of Due: the driver does not sleep before the first event.        *)
DueAtOnce == next = 1 \/ clock >= events[next].at_seconds

Due == clock >= events[next].at_seconds

(* The driver comes to its next operation, having slept until its time.    *)
AtOperation == driver = "run" /\ next <= Len(events) /\ Due

(* The operation reaches the emulator, or it does not.                     *)
TakesEffect ==
  /\ up[Driven]
  /\ handle_control(Driven, events[next].op)
  /\ applied' = Append(applied, [op |-> next, at |-> clock])
  /\ Recorded

NoEffect == UNCHANGED <<emulator, applied, been>>

(* The operation takes effect, and the driver is told so.                  *)
Applied ==
  /\ AtOperation /\ TakesEffect
  /\ next' = next + 1
  /\ UNCHANGED <<sae, scenario, driver, refused, collector, latest, clock, faults>>

(* The answer has an error status, of the emulator (it cannot read the     *)
(* operation) or of something on the way to it, before or after the        *)
(* operation took effect: the driver warns, and goes on to the next one.   *)
ControlRefused ==
  /\ AtOperation /\ Fault
  /\ TakesEffect \/ NoEffect
  /\ refused' = refused \union {next}
  /\ next' = next + 1
  /\ UNCHANGED <<sae, scenario, driver, collector, latest, clock>>

(* There is no answer, or none within the timeout, before or after the     *)
(* operation took effect: the driver gives up.                             *)
ControlFailed ==
  /\ AtOperation
  /\ \/ ~up[Driven] /\ NoEffect /\ UNCHANGED faults
     \/ up[Driven] /\ NoEffect /\ Fault
     \/ TakesEffect /\ Fault
  /\ driver' = "failed"
  /\ UNCHANGED <<sae, scenario, next, refused, collector, latest, clock>>

(* The driver sleeps through the rest of the scenario.                     *)
Complete ==
  /\ driver = "run" /\ next > Len(events)
  /\ clock >= scenario.duration
  /\ driver' = "complete"
  /\ UNCHANGED <<emulator, sae, scenario, next, applied, refused, collector, latest, clock, been, faults>>

Driver == Validate \/ Applied \/ ControlRefused \/ ControlFailed \/ Complete

-----------------------------------------------------------------------------
(* The collector.                                                          *)

(* Mutant of derive_link_health: the warning is looked for first.          *)
derive_link_healthWarnFirst(q, stored_key_count) ==
  CASE q >= WarnQber \/ stored_key_count = 0 -> "degraded"
    [] q < WarnQber /\ stored_key_count # 0 /\ q >= FailQber -> "failed"
    [] OTHER -> "ok"

derive_link_health(q, stored_key_count) ==
  CASE q >= FailQber -> "failed"
    [] q < FailQber /\ q >= WarnQber -> "degraded"
    [] q < FailQber /\ q < WarnQber /\ stored_key_count = 0 -> "degraded"
    [] OTHER -> "ok"

build_kme_event(name, k, health) == [id |-> <<name, k>>, health |-> health, at |-> clock]

Tick ==
  /\ pc = "idle"
  /\ pc' = "poll"
  /\ cycle' = Kme
  /\ UNCHANGED <<emulator, sae, replay, ev, latest, clock, been, faults>>

(* The status is read, or /status answers 503: then the event carries the  *)
(* name of a stub.                                                         *)
Polled ==
  /\ pc = "poll"
  /\ \E k \in cycle :
       /\ up[k]
       /\ ev' = IF forced[k]
                THEN build_kme_event("unreachable", k, "failed")
                ELSE build_kme_event("own", k,
                       derive_link_health(qber[k], Cardinality(keys[k])))
       /\ cycle' = cycle \ {k}
  /\ pc' = "forward"
  /\ UNCHANGED <<emulator, sae, replay, latest, clock, been, faults>>

(* Mutant of PollFailed: the error ends the cycle.                         *)
PollFailedEnding ==
  /\ pc = "poll"
  /\ \E k \in cycle : (~up[k] /\ UNCHANGED faults) \/ (up[k] /\ Fault)
  /\ cycle' = {}
  /\ UNCHANGED <<emulator, sae, replay, pc, ev, latest, clock, been>>

(* No answer within the timeout, or one that does not parse: no event.     *)
PollFailed ==
  /\ pc = "poll"
  /\ \E k \in cycle :
       /\ (~up[k] /\ UNCHANGED faults) \/ (up[k] /\ Fault)
       /\ cycle' = cycle \ {k}
  /\ UNCHANGED <<emulator, sae, replay, pc, ev, latest, clock, been>>

EndCycle ==
  /\ pc = "poll" /\ cycle = {}
  /\ pc' = "idle"
  /\ UNCHANGED <<emulator, sae, replay, cycle, ev, latest, clock, been, faults>>

Shown == [latest EXCEPT ![ev.id] = IF ES!Supersedes(ev, @) THEN ev ELSE @]

Forwarded ==
  /\ pc = "forward"
  /\ latest' = Shown
  /\ pc' = "poll"
  /\ ev' = NoEvent
  /\ UNCHANGED <<emulator, sae, replay, cycle, clock, been, faults>>

(* The event is refused or lost, or only the server's answer is: either    *)
(* way it is not sent again.                                               *)
ForwardFailed ==
  /\ pc = "forward" /\ Fault
  /\ latest' \in {latest, Shown}
  /\ pc' = "poll"
  /\ ev' = NoEvent
  /\ UNCHANGED <<emulator, sae, replay, cycle, clock, been>>

Collector == Tick \/ Polled \/ PollFailed \/ EndCycle \/ Forwarded \/ ForwardFailed

(* External: the clock.                                                    *)
Clock ==
  /\ clock < MaxTime
  /\ clock' = clock + 1
  /\ UNCHANGED <<emulator, sae, replay, collector, latest, been, faults>>

Next ==
  \/ SaeRequest
  \/ \E k \in Kme : Die(k) \/ Reborn(k)
  \/ Driver
  \/ Collector
  \/ Clock

(* The collector and the driver are loops that go on, and time passes.     *)
Spec == Init /\ [][Next]_vars /\ WF_vars(Collector) /\ WF_vars(Driver) /\ WF_vars(Clock)

-----------------------------------------------------------------------------
TypeOK ==
  /\ up \in [Kme -> BOOLEAN]
  /\ qber \in [Kme -> 0..MaxQber]
  /\ forced \in [Kme -> BOOLEAN]
  /\ keys \in [Kme -> SUBSET (1..MaxKeys)]
  /\ made \in 0..MaxKeys
  /\ issued \in [Kme -> SUBSET (1..MaxKeys)]
  /\ slave \subseteq 1..MaxKeys
  /\ scenario \in Scenario
  /\ driver \in {"start", "rejected", "run", "failed", "complete"}
  /\ next \in 1..(Len(events) + 1)
  /\ pc \in {"idle", "poll", "forward"}
  /\ cycle \subseteq Kme
  /\ ev \in Event \union {NoEvent}
  /\ pc = "forward" <=> ev # NoEvent
  /\ latest \in [Identity -> Event \union {NoEvent}]
  /\ clock \in 0..MaxTime
  /\ applied \in Seq([op : 1..Len(events), at : 0..MaxTime])
  /\ refused \subseteq 1..Len(events)
  /\ been \in [Kme -> SUBSET (Health \union {"refuses"})]
  /\ faults \in 0..MaxFaults

(* What the server shows of a KME was so: a row under its own name gives a *)
(* health its QBER alone has put it in, since an emulator never runs out   *)
(* of keys, and a row under the name of a stub means that it has refused   *)
(* to answer (collector/mod.rs, derive_link_health and poll_once).         *)
RowsWereTrue ==
  \A k \in Kme :
    /\ latest[<<"own", k>>] # NoEvent => latest[<<"own", k>>].health \in been[k]
    /\ latest[<<"unreachable", k>>] # NoEvent => "refuses" \in been[k]

(* No control operation takes effect before its time, whichever earlier    *)
(* ones were late, refused or lost; each does so once at most, in the      *)
(* order of the scenario; and a driver that completes has slept through    *)
(* the duration and leaves none undone but those whose answer was an       *)
(* error, which it only warns about (bin/replay.rs, "at the right offset"  *)
(* and "replay complete").                                                 *)
ReplayKeepsTime ==
  /\ \A i \in 1..Len(applied) : applied[i].at >= events[applied[i].op].at_seconds
  /\ \A i, j \in 1..Len(applied) : i < j => applied[i].op < applied[j].op
  /\ driver = "complete" =>
       /\ clock >= scenario.duration
       /\ \A n \in (1..Len(events)) \ refused : \E i \in 1..Len(applied) : applied[i].op = n

(* The state a KME settles in is the one the server shows in the end,      *)
(* through lost polls and events, and whether or not other KMEs are dead:  *)
(* under its own name while it answers, under that of the stub while it    *)
(* refuses (collector/mod.rs, run: every endpoint in every tick).          *)
SettledIsShown ==
  \A k \in Kme : <>[](up[k] =>
    IF forced[k]
    THEN latest[<<"unreachable", k>>] # NoEvent
    ELSE /\ latest[<<"own", k>>] # NoEvent
         /\ latest[<<"own", k>>].health = Truth(k))

=============================================================================
