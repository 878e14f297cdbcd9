# TLA+ models of ree0xQ

ree0xQ collects an inventory of the cryptography an organisation uses. Agents
observe networks, certificates, key stores, ledgers and QKD links and send
`crypto_inventory_event`s to a collector, which stores them, shows the latest
event of every asset and scores it. This directory holds TLA+ models of the
parts that keep state, the TLC runs that check them on small instances, and
TLAPS proofs of their main properties for every size.

Line numbers refer to `src/crates/...`; `PROJECT.json` maps every definition to
the lines it models.

## 1. The system

| Component | State | Operations | Meets |
|---|---|---|---|
| Ingest handlers (`ree0xq-server/routes.rs`) | per request: the batch and the position in it | `ingest_one`, `ingest_batch` | call `EventStore::append` once per event; run concurrently on the tokio runtime |
| Postgres store (`store_pg.rs`, `migrations/`) | tables `events`, `assets`; connection pool | `append` (one transaction), reads | row locks and transactions of Postgres |
| In-memory store (`store.rs`) | `DashMap` of latest events, mutex-guarded log | `append`, reads | the default backend, shared by all handlers |
| Bootstrap tokens (`enrol.rs`) | `DashMap` token -> (agent, expiry) | `issue_bootstrap_token`, `enrol`, `prune_expired` | sits behind the rate limiter, calls the CA |
| Certificate authority (`ca.rs`) | `ca.crt`, `ca.key`, issuer in memory | `load_or_init`, `sign_agent_cert`, `sign_server_cert` | boot, enrolment, TLS listener |
| Rate limiter (`ratelimit.rs`, `lib.rs`) | per client the stamps of recent requests | `check`, called by `rate_limit_mw` | in front of the two bootstrap endpoints |
| Live observer (`ree0xq-net/live.rs`) | statistics | `observe_pcap_with_dedup`, `observe_interface_with_dedup`, `handle_frame` | asks the dedup cache, calls the sink |
| Dedup cache (`dedup.rs`) | identity -> first observation, eviction counter | `observe` | owned by the observer |
| Sink and spool (`bin/ree0xq_net.rs`, `spool.rs`) | spool file, temporary file | `Sink::new` (drains), `send`, `append`, `drain` | POSTs to the ingest handlers |
| CT, host and Vault scans (`ree0xq-cert`) | CT: a cursor file | `ct_scan`, `host_scan`, `vault_scan` | POST to the ingest handlers |
| QKD collector, KME emulator, replay (`ree0xq-qkd`) | emulator: keys and link state | `poll_once`/`run`; `status`, `enc_keys`, `dec_keys`, control; replay of a recording | collector polls a KME, POSTs events |
| eBPF probe and reader (`ree0xq-net-ebpf`, `live_iface.rs`) | ring buffer, readiness of its descriptor | `try_observe`, the reading loop of `run` | kernel to agent; hands copies of hellos to the parser |
| Parsing and tables (`tls/mod.rs`, `algos.rs`, `zgrab/`, `pq_probe.rs`) | none | `parse_handshake`, names of codepoints, primitives of names, zgrab import, probe | observer, tap, commands |
| Posture rollup (`posture.rs`) | none | scores per event and per organisation, as of now | reads the latest events |
| Agility (`ree0xq-agility`) | none | scan of a source tree, recommendations, compatibility, roadmap | served by `routes.rs` too |
| Chain and identity inventories (`ree0xq-chain`, `ree0xq-id`) | per run: position and what was collected | one-shot walks of lists, key stores and slots | print or POST |
| Event schema (`ree0xq-core`) | none | types and their JSON form | used by all |
| Web UI (`web/`) | none of its own | reads the collector's endpoints | - |

What is hard about it, and what makes each part correct:

- **Concurrent appends.** Handlers share the store. The latest pointer of an
  asset must be the newest event of its history, whatever the order of arrival,
  overlap and failure; a 2xx must mean that every event is stored.
- **Tokens.** Taking a token out, looking at it and putting it back are three
  steps. A token must be good for one certificate, for its own agent, in time,
  and must not be lost to somebody else's mistake.
- **Crash and restart.** The root is two files written one after the other; the
  spool is a file that is appended to and replaced. Neither may lose what it has
  promised to keep, and both must be usable after any crash.
- **Unreliable delivery.** A POST may take effect without its answer. What was
  spooled must reach the collector.
- **Limits and clocks.** The cache and the limiter forget by age and under
  pressure, and must not forget what still counts; the limiter's clock is read
  before its mutex is taken.
- **Edge-triggered wakeups.** The kernel wakes the reader of the ring only for a
  record that finds it drained, and the reader clears the readiness by hand. A
  hello that found room must be reported, however the two interleave.
- **Bytes.** A copy of a hello may be cut off, padded or followed by another
  message; it must be read right or given up.
- **Scans of what may be broken.** Every inventory command meets things it
  cannot read, and each reacts in its own way. What it leaves out must be what
  was broken, and what it reports must be told apart by the collector.
- **Figures that depend on the clock and on names.** Scores, roadmap and advice
  are computed by the server and by commands from different views of the same
  inventory and must agree.

`PROJECT.json` lists the hazards line by line under `hazards`, with the property
that would catch each.

## 2. Modules

| Module | Models | Extends |
|---|---|---|
| `EventStore` | the contract of trait `EventStore`: append-only history, pointer at-or-after, both in one step | - |
| `Ingest` | the handler loop of `routes.rs` over some `append` | - |
| `PgStore` | `append` of `store_pg.rs`: begin, insert, upsert, commit | `Ingest`; instantiates `EventStore` |
| `MemStore` | `append` of `store.rs`: lookup, insert, push | `Ingest` |
| `Enrolment` | `enrol.rs` | - |
| `CaRoot` | `ca.rs` | - |
| `RateLimiter` | `ratelimit.rs` and its middleware | - |
| `Bootstrap` | the bootstrap listener of `lib.rs`: limiter, handlers, authority | `Enrolment`, `CaRoot`, `RateLimiter` |
| `DedupCache` | `dedup.rs` | - |
| `LiveObserver` | the frame loop of `live.rs` over the cache | `DedupCache` |
| `AgentSink` | `Sink` and `Spool` | - |
| `CtScan` | `ct_scan` and its cursor file, run after run | - |
| `QkdLink` | KME emulators, replay driver, QKD collector and the rows their events end in | instantiates `EventStore` |
| `Schema` | assets, events, primitives and the dedup key of `ree0xq-core` | - |
| `Algos` | the tables of the agents that make primitives of names | `Schema` |
| `TlsParse` | `parse_handshake`, byte by byte, and the names of codepoints | `Algos` |
| `EbpfTap` | the eBPF classifier, its ring and the task that reads it | `TlsParse` |
| `Sweep` | the eleven one-shot inventory commands | `Algos` |
| `Agents` | what an agent process can be: observer, tap or command | `LiveObserver`, `EbpfTap`, `Sweep` |
| `Posture` | `posture.rs` | `Schema` |
| `Recommend`, `Compat` | the tables of `ree0xq-agility` and the lookups in them | `Recommend`: `Schema` |
| `Roadmap` | the projection of a migration plan | - |
| `AgilityScan` | the scan of a source tree: rules, globs, caps, aggregation | `Schema` |
| `Advice` | the inventory, the clock and the last scan, and on top the read endpoints of `routes.rs` and the commands of `agility.rs` | `Posture` to `AgilityScan` |
| `MC*` | constants and symmetry for TLC | the module of that name |
| `*Proofs` | the theorems: `AgentsProofs` those of cache, observer, tap and commands, `EnrolmentProofs` those of `CaRoot` and `RateLimiter` too, `AdviceProofs` those of everything below `Advice` | the module of that name |

How the models correspond to the code:

**Ingest.** A worker is a running handler, `batch`, `at` and `rid` are its
locals. The schema check runs over the whole batch before anything is stored
(`AnswerAtOnce`), the loop appends in order (`StartBatch`, `Advance`), and an
error leaves it where it is (`Abandon`). `acked` records the requests answered
2xx. An event is its dedup key, observation time and schema version.

**PgStore.** `Begin` waits for a connection, `InsertEvent` writes a row that is
private until the commit, `UpsertAsset` waits for the lock on the asset row and
decides on the committed row (`ON CONFLICT ... WHERE`, under READ COMMITTED),
`Commit` makes both durable. `Fail` is any await that returns an error or a
handler that is dropped because its client went away, `CommitAnswerLost` a
commit that took effect although `append` returned an error, `Restart` the end
of the process. The row lock of an upsert that conflicts is taken whether or
not its `WHERE` holds, as in Postgres. Binding a `DateTime<Utc>` to a
`TIMESTAMPTZ` keeps microseconds: `Micros`.

**MemStore.** Each access to the map or the log is a step. `append` has no
await, so a handler is neither cancelled nor fails inside it. `looked` and
`raced` are history: they tell when the entry changed between the lookup and
the insert of one append.

**Enrolment.** One step per map operation: `Prune`, `Issue`, `Take` (remove),
`Restore` (insert). `Take`, the decision on the entry (`RejectExpired`,
`Mismatch`, `Match`) and the steps after it may be interleaved with other
handlers and with the clock. The validity check and the signing come after
`Match`, as in the code. `issued`, `live`, `spent` and `minted` are history.

**CaRoot.** `fs::write` is two steps, open (which truncates) and fill; a death
in between leaves an empty file. `LoseKey`, `RemovePartial` and `Retry` are the
environment: a key file that is not there at boot, the operator who follows the
error message, and the service manager (`dist/systemd/ree0xq-server.service`,
`Restart=on-failure`) or operator who starts the server again.

**RateLimiter.** A request is stamped on arrival and passes the mutex later, in
any order. A bucket is the set of the requests whose stamps it holds (stamps
may be equal, requests are not). `duration_since` saturates at zero, so a stamp
in the future counts as recent.

**Bootstrap.** No part reads what another keeps: the limiter lets a request
through or not, the handlers must cope with any order and number of requests,
and the authority signs what it is asked to. A behaviour follows one of the
three (`part`) while the others keep their first state.

**DedupCache, LiveObserver.** A frame is reduced to the counters it increments
and, for a parsed hello, to its session identity. The choice among equally old
entries is left open, as it is in a `HashMap`.

**AgentSink.** The spool is a sequence of lines and a flag that says whether
the last one lacks its newline; a line is an event or junk. The line and the
newline are two writes, so `append` is two steps. A drain reads the lines it
found at its start, writes what was not taken to a temporary file and swaps the
files at the end. A crash may leave an unsynced line whole, torn or not at all.
`Poison` are events that the collector refuses whenever they are sent (422).

**CtScan.** A run is `Load`, for every domain `List`, one step per entry
(`Below`, `Shipped`, `Unsent`, `FetchFailed`) and `EndDomain`, then `SaveOpen`
and `SaveFill`, the two halves of `fs::write`. `seen` and `new_max` are the
locals of `ct_scan`; they are gone when the process ends. `Unsent` is an event
that cannot be built, is refused or is lost: `Sink::send` logs it and the mark
moves on. New ids are larger than old ones, as crt.sh assigns them. `fresh`,
`forgotten`, `again` and `failed` are history.

**QkdLink.** Every handler of the emulator holds the `RwLock` from its first to
its last statement and is one step. The collector polls the endpoints of a tick
one after the other, in any order; a poll and the forwarding of its event are
two steps. A 503 yields an event with the identity of a stub
(`unreachable:<endpoint>`), a KME that does not answer yields none. The rows of
the server follow the rule of `EventStore`. The driver waits for the answer of
every control operation. If there is none it gives up (`ControlFailed`,
`replay.rs:61-65`); if the answer is an error status it only warns and goes on
to the next operation (`ControlRefused`, `replay.rs:66-67`), and so to "replay
complete". In both cases the operation may have taken effect or not. An emulator
that is started again has lost its keys and its control state. KMEs have
different ids. `applied`, `refused` and `been` are history.

**TlsParse.** A buffer is a sequence of bytes. The parser is the code's: lengths
read where the `Cursor` reads them, extensions walked to the end of the buffer
or of their declared length, a summary that is not `ok` for every error.
`Encoded` is the external side, the bytes a peer sends for a hello.

**EbpfTap.** A frame is its header fields and the bytes behind the record
header. `try_observe` copies up to `MAX_HANDSHAKE_BYTES` into the ring or finds
no room. The reader takes a record (`TakeItem`) and gives its slot back later
(`DropItem`), so that a record which comes in between finds the ring not
drained and sets off no wakeup. The wakeup is an edge (`notified`) that the
runtime turns into the readiness of the `AsyncFd` (`Driver`) only while the
task is parked, since there is one thread; `ClearReady` is `clear_ready`.

**Sweep.** What a command finds is a tree in the order of its walk, and at any
node a fault of its level may be met. The reaction is the code's: leave out what
is below, end with an error, end as if complete, or report the failure itself.
Commands either hand on a thing when they come to it or collect first. Events
are made by the tables of `Algos`; the collector keeps the last one of each key.
`asset`, the thing a node stands for, and `Resists`, the roles in which an
algorithm resists by the standards, are the truth that the properties compare
with; no action reads them. TLS gives the probe a codepoint, which its own table
(`probe_group_name`, `pq_probe.rs:148-166`) names; `HybridCode`, `MlKemCode` and
`UnassignedCode` say what the codepoints are by the registry.

**Agents.** A process is one of the three for its whole life, and they share
nothing but the collector; the components that do not run keep their first
state.

**Advice and its modules.** Scores are exact integers with the common
denominator of the moment instead of `f32`. The clock counts half years. An
event replaces the row of its key. A scan may find any of its files unreadable;
its result is printed, and its caller wraps it into an event; other scanners
send blocks of their own, whose `level_score` nothing compares with their level.
The endpoints and the commands are operators over that state: they change nothing. The order in
which a store lists its assets is left open.

## 3. Runs

| Run | Bounds | Shows |
|---|---|---|
| `pg_store` | 3 handlers, 2 connections, 3 requests, 2 assets, batches of up to 2 in opposite orders | `LatestIsNewest`, `AckedIsStored`, `StoredIsPrefix`, `Refines` (implements `EventStore`), `RequestsEnd` |
| `mem_store` | 2 handlers, 2 requests, all batches of up to 2 out of 4 events | `AckedIsLoggedInOrder`, `ShownIsLogged`, `LatestUnlessRaced` |
| `bootstrap` | handlers: 2, with 2 tokens, 2 agents, 4 instants, lives of 1 or 2; limiter: 4 requests, 2 clients, limit 2, window 2, soft cap 1; authority: 4 key pairs, 2 crashes, 1 loss of the key file | `SingleUse`, `NotBurned`, `ConsumeIsEntitled`; `AtMostMaxPerWindow`, `RecentIsHeld`, `OverCapOnlyIfActive`; `SignaturesVerify`, `OneAnchor`, `AuthorityComesUp` |
| `enrol_validity` | 1 handler, 1 token | **violated** `ConsumedMeansEnrolled` |
| `agents` | observer: 3 sessions, cache of 2, TTL 2, 5 frames, counter saturating at 2; tap: 7 frames, ring of 2, copies of 84 bytes; commands: one tree each, the probe one per group | `SuppressedOnlyWithinTtl`, `RepeatOnlyAfterEviction`, `HelloIsReadRight`, `SoundHelloIsReported`, `MissedOnlyIfFaulty`, `HiddenOnlyByNamesake`, `OverstatedOnlyAesOrSha1` |
| `sink` | 3 events, one of them poison, 2 crashes, 2 file faults | `SpooledIsSafe`, `RepeatedOnlyIfDisturbed`, `SpooledIsDelivered` |
| `sink_halted` | 3 events, 1 fault | **violated** `ValidLinesAreRetried` |
| `ct_scan` | 2 domains, 2 log entries under one or both, 2 faults or deaths | `PassedOverOnlyIfFailed`, `RepeatedOnlyIfForgotten`, `LoggedIsShipped` |
| `qkd_link` | 2 KMEs, 4 scenarios of up to 2 operations, 3 keys, 3 instants, 2 faults or deaths | `RowsWereTrue`, `ReplayKeepsTime`, `SettledIsShown` |
| `advice` | inventories of up to 2 of 5 assets with every primitive the agents' tables know, 3 files, 2 rule directories, 2 blocks of other scanners, 2 plans, 2 dates | `RoadmapIsCoherent`, `CliAgreesWithServer`, `UnadvisedOnlyIfUnruled`, `PartialScanIsSupported`, `RiskMovesAgainstAgility` |
| `roadmap_model` | as `advice` | **violated** `MigratedMatchesModel` |
| `scan_level` | as `advice` | **violated** `LevelIsWeakestLink` |

Why the bounds are enough. Three handlers over two connections let one wait for
the pool while two wait for rows; the events of asset `k1` fall into two
microseconds, two of them into the same one, so that older, equal and newer
observations all occur. Two handlers suffice for every race on a map entry,
since an append or a consume touches one entry. Three sessions over a cache of
two force evictions, and the TTL passes twice within a behaviour. Four requests
with a limit of two fill a bucket, empty it and fill it again, and two clients
over a soft cap of one make the sweep run at nearly every check. Two crashes
allow a crash during the recovery from a crash, two faults one during the
recovery from the other. Four key pairs are more than a behaviour generates.
Two log entries are the fewest of which one can fail below one that succeeds, or
be logged while the other is walked. Two KMEs let one be dead or refuse while
the other is healthy; the scenarios cross both thresholds, go beyond a QBER of
1.0, fail and recover, and include one out of order and one past its end.

Seven frames over a ring of two fill it while the reader holds a record, and let
every step of the reading loop be met by a record that wakes it and by one that
does not. The copy of 84 bytes stands for 1024: the hybrid hello just fits and
the one with a key share does not. The frames are a hello with padding, one with
reserved codepoints, one split over two segments, the server hellos of TLS 1.3
and, without extensions, of TLS 1.2, each followed by a certificate, and one
that the classifier passes by. The trees have each level twice where the
command has it, so that a fault has something before, beside and behind it, and
contain namesakes, names with a separator inside, unnamed algorithms, addresses
at the edges of the accepted lengths, AES keys of unknown length and a
certificate signed with SHA-1.

In `advice` the assets are a key and a certificate that share an identity, a
wallet, a KME and a TLS session, reported with every row of the tables of
`Algos`; two in the inventory at a time suffice, since the endpoints look at
assets one by one or at pairs of the same identity. The clock goes from before
the deadline to the deadline itself. Of the blocks of other scanners one has the
score of its level and one contradicts it. The plans are out of order, name an asset
twice, one that is gone, and all of them.

Fairness. `PgStore`: strong fairness of each handler's step, since Postgres and
the pool queue their waiters in order. `MemStore`, `Enrolment`: weak fairness; a
handler that does not wait keeps running. `AgentSink`: a run of the agent goes
on and ends, it is started again, and the collector does not refuse for ever an
event that it can accept (strong fairness of the accepted retry); without the
last one nothing can be promised of delivery. `CaRoot`: the process runs, a
failed boot is retried, and the operator does not ignore the error message for
ever; in `Bootstrap` this applies to the authority's part alone, which mentions
nothing that the symmetry of the run permutes, so that its part of the state
graph is not reduced. `CtScan`: runs follow one another and go on until they end or die.
`QkdLink`: the collector and the driver are loops that go on, and time passes;
emulators need not come back and requests fail a bounded number of times.
`Agents`: weak fairness of the tap's task and of the runtime's driver, which
share one thread that does nothing else (`ree0xq_net.rs:224-230` builds a
current-thread runtime for it); frames need not arrive. The frame loop, the
commands, the limiter and `Advice` are checked for safety only.

The runs do not spend a property on types. The type invariants of the modules
with theorems are proved; those of the other modules are written down for the
reader.

Every property of a passing run has a mutant in `PROJECT.json`: a change of the
modelled code, of the kind a slip would make, under which TLC finds the
property violated. The mutated definitions stand before the ones they replace.

### Where code and documentation disagree

- `enrol_validity`. Tokens are to be consumed on the first successful enrolment
  (`lib.rs:68-69`, `enrol.rs:61-62`); a request refused for its `validity_days`,
  or whose signing fails, has consumed its token (`enrol.rs:256-313`).
- `sink_halted`. Valid lines are to be retried (`spool.rs:18-20`, `104-109`); a
  line that cannot be read ends the drain and everything behind it is dropped
  with the file (`spool.rs:142-145`, `178-188`).
- `roadmap_model`. A migrated asset is projected with a risk of 0.10, "a
  simplification that matches the paper's three-axis model when the new
  primitives are all PQ-safe" (`roadmap.rs:53-57`). The rollup scores an asset
  without QKD and with PQ-safe primitives alone at about 0.32 two years before
  the deadline, more than the 0.30 from which the roadmap itself counts an asset
  as classical (`posture.rs:105-124`, `roadmap.rs:117`).
- `scan_level`. The level of a scan is documented as the least agile of the
  evidence, "the weakest link governs" (`ree0xq-agility/src/lib.rs:13-17`,
  `ree0xq-core/src/lib.rs:284-286`); the code takes the most agile one, as the
  comment of the function says (`scanner.rs:137-148`). In the trace a
  configuration file makes a target "configurable" beside a "pinned" and a
  "locked" finding.

Others, met while modelling and visible in the models without a run of their
own:

- The trait says the latest pointer moves only to an event at-or-after the
  previous one (`store.rs:28-30`). `append` of the in-memory store decides at
  the lookup and inserts later (`store.rs:104-111`), so that two overlapping
  appends can leave the older event. `LatestUnlessRaced` shows that this overlap
  is the only way.
- A death inside the write of `ca.key` leaves two files, one empty. The branch
  that tells the operator to remove a partial state (`ca.rs:74-79`) is not
  reached, and every later boot fails, although the server is to "load the same
  files on every subsequent restart" (`ca.rs:3-6`). `AuthorityComesUp` says
  that it is the only way not to come up.
- A retry is said to be idempotent on the collector's side (`spool.rs:114-116`);
  the collector stores a row for every event it is sent.
  `RepeatedOnlyIfDisturbed` says when that happens.
- The CT cursor is documented as the highest id "we've already seen and shipped
  an event for" (`ct.rs:170-171`). It passes an entry whose fetch failed when a
  later one succeeds (`ct.rs:284-289`), and one whose event was not delivered:
  `Unsent` and `FetchFailed` followed by `Shipped`. Such entries are never
  tried again, which is why `PassedOverOnlyIfFailed` and `LoggedIsShipped`
  except them. `--spool-dir` is documented to keep such events
  (`ree0xq_cert.rs:13-17`) and is ignored (`ree0xq_cert.rs:200-219`).
- A CT cursor file that was being written when the process died may be one that
  no run can parse; every later scan then ends at once (`ct.rs:187`).
- `LinkHealth::Failed` is "KME unreachable" (`ree0xq-core/src/lib.rs:265`). A
  KME that does not answer produces no event at all (`collector/mod.rs:158`),
  and one that refuses is reported under another identity
  (`collector/mod.rs:163`), whose row stays failed after the recovery while the
  row under the KME's own name stays as it was during the failure.
- `max_key_count` is "the maximum number of keys the KME can store"
  (`etsi014/mod.rs:54`); nothing enforces it, and no key ever leaves the pool.
- An append after one that failed before its newline continues the open
  line and returns `Ok` for an entry no drain can parse (`spool.rs:81`, history
  variable `glued`).
- A consume that fails because the token has expired removes it
  (`enrol.rs:109-111`) although failed consumes are said not to change the
  store; while a token with a mismatched agent id is out of the map its rightful
  agent is told it is unknown (`enrol.rs:106-115`).
- Events of one microsecond tie in Postgres, so the older may be shown
  (`store_pg.rs:115`).
- The tap's documentation expects hellos to fit well below 1 KiB
  (`net-ebpf/src/main.rs:50-53`). One with an ML-KEM key share does not, is
  copied in part and does not parse: it is counted as a failure and no event is
  made of it. That nothing is ever made of a part is proved
  (`TapReadsWholeHellos`).
- `replay.rs` ends with "replay complete" although operations were answered with
  an error and may not have been done (`replay.rs:66-67`). `ReplayKeepsTime` says
  that these are the only ones that can be missing.
- "Always equals the canonical score for `level`" (`ree0xq-core/src/lib.rs:283`):
  the ingest checks no such thing, and the rollup uses the score as it was sent
  (`posture.rs:91`), outside 0 to 1 too. `Advice` lets other scanners send any
  score, and what is proved of the risk holds for every one.
- "At least one entry must be present" (`ree0xq-core/src/lib.rs:284`); a scan
  that finds nothing prints an empty list and the level pinned.
- The comment of `scan_target` sends firmware strings "through a separate path"
  (`scanner.rs:83`); they are looked for in text files like everything else.
- The SHA-1 in a certificate's signature is reported as resistant
  (`cert.rs:191`, `203`). The tables for TLS report SHA-1 as not resistant
  (`ree0xq-net/src/algos.rs:151`), `docs/posture-rollup.md:73` calls it
  deprecated, and the schema reserves the flag for 256 bits and more
  (`docs/crypto-event-schema.md:89`). It is one of the two exceptions of
  `OverstatedOnlyAesOrSha1`.
- The probe says it names groups by their "IANA spelling" (`pq_probe.rs:145`)
  and looks for ML-KEM at 0x0768 to 0x076A; the registry has it at 0x0200 to
  0x0202, so that a pure ML-KEM group is reported as not post-quantum
  (`ProbeIsSound`).
- The PKCS#11 scan is documented to map `CKA_EC_PARAMS`
  (`docs/ree0xq-id-pkcs11.md:7`); every EC key is reported as P-256
  (`pkcs11.rs:140`). Neither it nor an inventory file need know the length of an
  AES key, which is then taken for 256 bits (`OverstatedOnlyAesOrSha1`).
- Certificates signed with ECDSA, and the suites of TLS 1.2, are reported by the
  name of their family, and zgrab's MD5 signatures as `RSA-MD5`; there is no
  recommendation for any of these (`UnadvisedOnlyIfUnruled`).
- The identity of a zgrab record leaves out its port, that of a PKCS#11 object
  its class, and names are joined with a slash they may contain
  (`HiddenOnlyByNamesake`).
- The commands of `ree0xq-cert`, `-id` and `-chain` drop an event that the
  collector refuses and end well all the same (`taken` and `given` of `Sweep`);
  their `--spool-dir` is a stub.

## 4. Proofs

Eight modules, all proved to the last leaf with Z3, Zenon and LS4.

| Module | Theorems | Inductive invariant |
|---|---|---|
| `PgStoreProofs` | `PgTypes`, `PgLatestIsNewest`, `PgAckedIsStored`, `PgStoredIsPrefix`, `PgRefines` | `PgInv` |
| `MemStoreProofs` | `MemTypes`, `MemAckedIsLogged`, `MemShownIsLogged`, `MemLatestUnlessRaced` | `MemInv` |
| `EnrolmentProofs` | `EnrolTypes`, `EnrolSingleUse`, `EnrolNotBurned`, `EnrolEntitled`; of `CaRoot`: `CaSignaturesVerify`, `CaOneAnchor`; of `RateLimiter`: `RateTypes`, `RateRecentIsHeld`, `RateLimitHolds`, `RateRejections`, `RateMapIsBounded` | `EnrolInv`, `CaInv`, `RateInv` |
| `AgentSinkProofs` | `SinkTypes`, `SinkSpooledIsSafe`, `SinkRepeats` | `SinkInv` |
| `CtScanProofs` | `CtTypes`, `CtNothingSkipped`, `CtRepeatsAreForgotten` | `CtInv` |
| `QkdLinkProofs` | `QkdTypes`, `QkdRowsWereTrue`, `QkdReplayKeepsTime` | `QkdInv` |
| `AgentsProofs` | cache: `DedupTypes`, `DedupSuppression`, `DedupCounter`, `DedupRepeats`, `DedupCapacity`; observer: `LiveImplementsDedup`, `LiveRepeats`, `LiveSuppression`, `LiveCapacity`, `LiveStats`; whole agents: `AgentsRepeats`, `AgentsSuppression`, `SweepMissesNothing`, `SweepShowsTheLast`, `SweepHidesOnlyNamesakes`, `SweepOverstatesOnlyAesOrSha1`, `TapLosesNoWakeup`, `TapReadsWholeHellos` | `DedupInv`, `StatsInv`, `SweepInv`, `RowInv`, `TapInv` |
| `AdviceProofs` | `AdvInvariant`, `TablesAreVocabulary`, `PartialScans`, `RiskMoves`, `Roadmaps`, `CliAgrees`, `Unadvised` | `AdvInv` |

They hold for all values of the constants that satisfy the named assumptions:
sets of any size (finite where a cardinality is taken), bounds any natural
number, placeholders such as `NoEvent` that are no member of the set they stand
beside. Some assumptions say more, each of what the code is given and none of
what it makes of it:

- `SweepAssumption`: what a command walks is a sequence of nodes whose first,
  and only the first, is the root of the walk.
- `NamesAssumption`: the parts of a name are sequences of strings, none empty,
  and for all commands but those in `Ambiguous` two things with the same parts
  are one. A certificate is named by its fingerprint, a KMS key by its ARN, an
  exported key by vendor, slot and key id, an address by itself.
- `VocabularyAssumption`: key types and suites are those that the tables list;
  a type the tables do not know is `SM2`. A KMS has no spec for an AES key
  without its length.
- `FrameAssumption`: a hello consists of bytes and is shorter than 65536 of
  them, as a TLS record is, and no more is cut off a frame than it has.
- `ScenarioAssumption`: a recording is a sequence of operations at natural
  numbers of seconds, with whole (scaled) error rates. `QkdAssumption`: the
  bound on keys leaves room for the ones the emulators start with.
- `AdviceAssumption`: primitives are named as the agents name them
  (`Vocabulary`), which `TablesAreVocabulary` proves of every row of every table
  in `Algos`. An event that some other program posts may be named differently;
  nothing is claimed of the advice for it.
- `ScanAssumption`, `PlansAssumption`: a tree is finite, sizes and caps are
  natural numbers, the rules name levels that exist (others do not load), and a
  plan is a sequence of dated milestones.

- *Postgres.* `LatestIsNewest` is not inductive: a transaction that has staged
  its row must still be right when it commits. `LockOK` says that a worker
  about to commit holds the lock of its asset, alone, and that what it staged is
  the upsert of its event into the row committed now; nobody else can change
  that row meanwhile. `ProgressOK` and `NumberOK` relate the rows in the history
  to the positions of the running requests, which gives the two batch
  properties and, for the refinement, that a commit adds a row that was not
  there.
- *In-memory store.* The order of a request in the log needs `OrderOK` with
  `NumberOK`: no two running handlers have a number, and a handler pushes only
  positions above those it has pushed. `LatestUnlessRaced` speaks of the log,
  but the decision falls before the push: `LookedOK` carries it from the lookup
  to the insert, `PushOK` from the insert to the push, each as long as no entry
  changed in between.
- *Enrolment.* `SingleUse` needs to know where a token can be: `Exclusive` says
  that a token in the hands of a handler is in nobody else's and not in the map,
  `MintedOK` that a minted one is nowhere, `MapOK` and `HandsOK` that what is in
  the map or in hands is the entry as issued, `UnissuedOK` that a token not yet
  issued is nowhere.
- *Certificate authority.* `BootOK` says what each step of a first boot finds
  on disk, so that `DiskOK` holds in every state a crash can leave: a
  certificate and a key that both parse are of one pair.
- *Rate limiter.* `BoundOK` bounds every bucket by the limit and `RecentIsHeld`
  puts every admission that still counts into its bucket, although requests are
  recorded out of order; together they give the limit at every instant. The
  same facts show that the sweep leaves more buckets than the soft cap only when
  they are in use (`RateMapIsBounded`).
- *Sink.* `DrainOK` accounts for every line a drain has read, `AppendOK` and
  `TailOK` for the line being written, which makes the swap of the files safe.
  `OnePlace` and `PendingOK` say that, undisturbed, an event is with the
  collector or still to be sent and never both.
- *CT scan.* A mark may not pass an entry that is still to come. `TopOK` (no
  mark or list is ahead of the log) and `WalkOK` (an entry no longer in the list
  was dealt with or is above the list) make `PassedOverOnlyIfFailed` inductive;
  `FreshOK` and `SentOK` follow what was sent from this run to the file.
- *QKD.* A report is true of the past, so the invariant follows it from the poll
  to the row: the history knows the present state of each KME (`StateIsKnown`),
  a report under way says something the history knows (`ReportWasTrue`), and
  no KME is ever without keys (`HasKeys`), the one case in which a health would
  be reported that no control operation has set. `Progress` ties the operations
  that took effect to the position of the driver: each one behind it took effect
  or was refused, and after a request that failed or was refused the operation
  may have been applied.
- *Dedup cache and observer.* An entry's time is the last fresh observation
  unless the entry was evicted or has expired; the rest follows, with one
  cardinality argument for the capacity. `LiveImplementsDedup` carries the
  results over to the observer, and a step of `Agents` is one of the observer or
  leaves its variables alone.
- *Commands.* `Complete` says at every node, and not only at the end, that what
  was handed on or is held back is exactly what lies behind the walk and is not
  explained by a fault; `InOrder` that it is in the order of the walk, without
  repetition. It rests on a lemma about trees written as sequences of levels
  (`AfterSubtreeIsBehind`): skipping what is below a node moves on, and skips
  one interval. Two things have the same key only if their parts agree or one
  of the parts contains the separator (`SinglesAreTold`): as long as every part is one
  piece, the flattened name gives back its parts. What an event claims is
  followed through every table from the thing to its primitives
  (`CommandClaims`, `ProbeIsRight`).
- *Tap.* `WakeupIsKept` is the reason why `SoundHelloIsReported` holds: whenever
  a record is in the ring the reader is on its way to it, or a wakeup is on its
  way to the reader. `HeldIsFirst` is needed for the record that has been read
  but still occupies its slot, and hides the next one from the kernel's test.
  `TapReadsWholeHellos` rests on the first four bytes alone: they are in the
  copy whenever anything parses, they hold the length of the hello, and the
  parser asks for that many bytes before it reads on.
- *Posture.* A sum over the primitives of an asset lies between the bounds of
  its terms (`SumBound`), so two of the axes are shares of a unit (`Axes`); the
  third is any integer, since a sender may give any score. From one
  date to the next the risk changes by the product of what the weight of agility
  loses and of the asset's lean (`RiseIs`), which gives its sign.
- *Roadmap.* The trajectory is a recursive function over the plan in the order of
  its dates; `TrajectoryIs` gives its states in closed form: the last milestone so
  far that names an asset decides what it counts as. Each milestone then replaces terms
  of a sum by smaller ones (`MilestoneLowers`). `PlaceStrict` and `SortedByDate`
  show that the sort is one: every milestone gets a place of its own.
- *Advice.* No rule for signatures matches a name of a cipher and conversely, so
  that the role the command guesses leads to the same rules as the one the agent
  reported (`GuessedRules`); the stable sort by cost loses no replacement
  (`NothingLost`).
- *Agility scan.* What a scan finds is the union of what it finds in each file
  and grows with the files and the caps (`MoreIsFound`), and the level is that
  of one of the findings (`MostAgile`).

The prover cannot instantiate the library's induction theorems. Where a claim
about sums, folds or recursive functions is needed, the proofs take a least
counterexample (`LeastNumber`, `SmallestSet`): if the claim failed there would be
a smallest place where it does, and the defining equation refutes that one. A sum
of natural numbers is shown to be the number of its units (`SumIsCount`), which
makes it independent of the order (`SumPermuted`) by the theorems on cardinality;
sums of integers are first lifted above zero (`Lift`).

The invariants that the runs do not check (the type invariants,
`CounterTellsEvictions`, `WithinCapacity`, `StatsBalance`,
`RejectedOnlyAtLimit`, `RowIsLastOfKey`, `WakeupIsKept`, `NoneVanishes`,
`ReportedIsWhole`) are proved here.

The proofs corrected the models in one respect: two tables (`Truth` of `QkdLink`,
the names of key exchanges and signatures in `Algos`) were written as `CASE` with overlapping guards, of which TLC takes
the first and the logic any. They now choose as the `if` chains of the code do.

Only model-checked:

- Liveness, out of the prover's reach: `RequestsEnd`, `SpooledIsDelivered`,
  `AuthorityComesUp`, `LoggedIsShipped`, `SettledIsShown`,
  `SoundHelloIsReported` (its safety part is `TapLosesNoWakeup`).
- `HelloIsReadRight`: that a hello which came whole is summed up as it was sent
  and not given up. It compares the parser, byte by byte, with the
  concatenations of `Encoded`, and holds only of frames in which the hello is
  followed by other handshake messages or by nothing. What it says of hellos
  that did not come whole is proved (`TapReadsWholeHellos`).

All other invariants and action properties of the runs are proved.

## 5. Not modelled

- The web UI, which only reads. A slow answer to a poll may overwrite a later one
  on the screen (`usePolling.ts:43`).
- The TLS listeners and the boot of the server (rustls, wiring), the contents of
  certificates, and `sign_server_cert`, which changes no state: the certificate
  of the listener is minted once at boot for a year, and nothing reacts to its
  expiry (`main.rs:179`).
- X.509, PEM, JSON, YAML and regular expressions: libraries, taken by their
  outcome. The layers of a frame in front of the observer likewise; the hello
  parser itself is modelled.
- Texts: recommendations, rationales, log lines. Query parameters and paging of
  endpoints that only list what the store holds.
- The table of deadlines (`deadlines.rs`): constants, and a filter on
  jurisdiction and date.
- Loading and attaching the eBPF program, which precede the first state of
  `EbpfTap`.
- Two agents on one spool directory, which `spool.rs:12-16` excludes.
  `client_key` is abstracted to a set of clients.

## 6. Plan

Done: ingest and both stores, enrolment, CA, limiter, cache, observer, sink, CT
scan, QKD; the parser, the tap, the inventory commands; posture, agility scan,
advice and roadmap with the endpoints and commands that serve them.

Proved: every safety property the runs check, but for the reading of whole
hellos.

Next, in this order:

1. `HelloIsReadRight`: lemmas on `read_u16` at an offset into a concatenation,
   then one per vector of the hello.
2. `Delivery`: observer, sink and collector composed; what a failed POST means
   for a session the cache has marked as seen, beyond
   `SuppressedOnlyWithinTtl`.
