# Network Defender in TLA+

Network Defender is a passive intrusion detection system in Python. A *sensor*
process captures packets, runs detectors and rules over them, deduplicates,
stores and enriches the alerts; an *API* process serves the same database to
dashboards, polls it for a live feed and lets analysts triage. The two share a
database and nothing else. Inside the sensor a capture thread, an evaluation
timer, an enrichment worker and maintenance timers share dictionaries and
queues, mostly without locks. This project models those parts, checks them with
TLC on small instances and proves their most important invariants with TLAPS
for every value of the constants.

Paths below are relative to `src/network_defender/` of the repository
unless they begin with `docs/`, `migrations/` or `frontend/`.

    tlc -config AlertPipeline.cfg MCAlertPipeline     check one run
    tlapm GatekeeperProofs.tla                        check the proofs

## 1. Inventory

| Component | State | Operations | Who calls it | What is hard |
| --- | --- | --- | --- | --- |
| Alert pipeline (`services/alerts/`) | tracker of active alerts (an `OrderedDict`), the alert objects | `process`, `_merge`, `_prune`, `_evict_overflow`, `reset`; `AlertService._process` saves, notifies, enqueues | capture thread (rules), evaluation thread (detectors), main thread at shutdown | three threads, no lock; save may fail |
| Alert content (`services/alerts/confidence.py`, `mitre.py`, `dispatcher.py`) | hooks and their tallies | score, attribute, dispatch | pipeline | hooks that raise or register meanwhile; two sources of confidence |
| Alert store (`database/`, `sdk/alert_operations.py`) | rows of `alerts` | `save`, `prune`, read-modify-write by PATCH and POST enrich, the lists | pipeline, worker, API requests, retention | whole-row writes from stale copies in two processes; pages of a moving table |
| API gatekeeper (`shared/gatekeeper*.py`) | two fixed windows, queue depth | `execute`: queue, slot, call, retry | enrichment worker, API requests | limits under competition, deadlines, leaks on errors |
| Threat-intelligence lookups (`services/threat_intel/`) | memory tier, durable tier, circuit breaker | `query_provider`, cache get/set, breaker allow/success/failure | worker, API requests | check-then-act on three stores, two processes |
| Threat-intelligence report (`factory.py`, `aggregation.py`, `providers/`) | the providers built | build, choose the address, look up, merge | worker, API requests | providers that fail or disagree; what may leave the site |
| Enrichment worker (`services/threat_intel/worker*.py`) | bounded queue, stop event, thread | `submit`, `start`, `stop`, the loop | pipeline, SDK | join that times out, restart, failures |
| Live feed (`api/live/`, `frontend/src/hooks/useLiveFeed.ts`) | watermark, client set, frames | poll, broadcast, handler | one event loop | awaits between reading and sending, commits out of order, stamps that tie |
| Dashboard (`frontend/src/`) | what is on screen, fetches and writes under way | filter, page, triage, enrich, toggle | the user | answers out of order, writes whose effect must be seen |
| REST API (`api/`) | requests under way | middlewares, key, validation, endpoint, errors | dashboards | rows and a database that go meanwhile |
| Detectors (`detectors/`) | three kinds of sliding windows, reported keys | ingest, evaluate, `report_once`, `forget_absent` | capture and evaluation threads | iteration during mutation, late packets, which packet counts for whom |
| Evaluation loop (`services/evaluation_loop.py`, `detection.py`) | thread, stop event, loaded detectors | `start`, `stop`, `run_once` | SDK | join that times out, restart, last evaluation at stop |
| Plugins and registry (`detectors/registry.py`, `shared/extension_discovery.py`) | detectors loaded | discover, construct, configure | detection service | one bad plugin beside the others |
| Rules (`rules/`, `sdk/rule_operations.py`) | registry, series per rule and group, snapshot | match, count, load, watch, reload, toggle | capture thread, watcher, SDK, API | late packets, eviction, edits; two processes |
| Capture (`capture/`) | sniffer, token bucket, counters | start, stop, packet callback, replay | SDK, sniffer thread | life cycle, refill |
| Parser (`parser/`, `capture/tls_metadata.py`) | none | extract the layers of a frame | capture thread | frames cut off anywhere |
| Statistics and retention (`services/statistics_sampler.py`, `maintenance.py`, `database/retention.py`) | last sample, four tables | sample, sweep | timers | a counter that restarts; a sweep that fails half way |
| SDK (`sdk/lifecycle.py`) | what is started | start, stop, health | CLI, API | a start that fails half way, a sniffer that dies |
| Configuration (`shared/config*.py`, `secrets.py`) | three layers, `.env` | load, validate | every entry point | precedence, and when each layer is read |
| Logging and tracing (`observability/`) | context variables, loggers | scope, format, redact, write | all threads | ids across threads, credentials in odd places |
| Database schema (`migrations/`, `database/models*.py`) | tables, version | upgrade, downgrade | every process at its start | a process that dies half way |

How they interact: capture thread -> parser -> `DetectionService.process_packet`
-> detectors (record) and rule engine (match) -> `AlertService` -> repository,
notification hooks, `EnrichmentWorker.submit`. The evaluation timer asks every
detector and reports through the same `AlertService`. The worker asks the
providers through cache, breaker and gatekeeper, and saves the alert again. The
API process reads and patches the rows, and its broadcaster polls them.

What makes each part correct:

* pipeline: one alert per key and window; the row agrees with the tracked
  alert; what is stored is announced; the tracker stays bounded;
* content: a worse finding is held no less likely; every hook that wants an
  alert gets it;
* store: no writer undoes another's column; a client that pages to the end
  misses no row;
* gatekeeper: limits hold, the queue never leaks, no caller hangs;
* lookups and report: answers are bounded in age, an outage costs a bounded
  number of calls and ends, no verdict is milder than a provider's;
* worker: no alert is lost without being counted, stopped threads end;
* live feed and dashboard: each alert once, in order, whatever other clients
  do; what is on screen answers the newest question;
* API: an answer is true of some moment of its request;
* detectors: a source is reported when and only when it earned it within the
  window, and once per episode; a detector counts the packets of its kind;
* rules: the same for windowed counts; the rules in force are those on disk;
* capture: admitted packets stay within burst and rate; charts do not invent
  packets;
* SDK: nothing is fed before it is ready, a stop unwinds what a start began;
* configuration, logging, schema: layers keep their order, lines their id, no
  credential is shown, and the tables are those the program expects.

## 2. Modules

One module per component. The steps of an action are what the thread does
between two points where another may run: between two bytecodes that touch a
shared dictionary in code without a lock, a critical section in code with one,
the stretch between two `await`s in the API, a statement or transaction in the
database. Variables named "history" are not in the code; they remember what a
property compares with. Operators marked "Mutant" are wrong versions of the
definition that follows; nothing in a next-state relation uses them.

### Alerts

**AlertPipeline.** Each thread walks through `_process`: `Begin` (the alert is
built), `PruneScan` and `PruneDrop` (the scan and the deletes of `_prune`),
`Lookup`, then either `Merge`, `Touch`, `GetActive`, or `Insert`,
`EvictTest`/`EvictPop`; both go on to a save, which is `Load`, `Copy` and `Commit`
(the three steps of `SqlAlchemyAlertRepository.save`), and a new alert to
`Announce`. `active` and `before` are the `OrderedDict`: the mapping and its order.
An exception that leaves `_process` is `Abandon`, one that leaves a save
`NotStored`. `Reset` is the service's start or stop. A row is abstracted to its
`occurrences`, an alert to key, stamp, `last_seen` and occurrences. `met` and
`crossed` are history: the saves under way that have met another of the same
alert, and the alerts whose row such a pair may have left behind. A rule
match is stamped by its packet, which may lag the wall clock by `Skew`
(queueing, or a recording being replayed); a detector's alert by the wall
clock.

**AlertStore.** One row; the pipeline and the worker share one `Alert` object,
an API request works on the copy it fetched. Load, apply and commit are the
transaction of `SqlAlchemyAlertRepository.save`: SQLAlchemy writes the columns
that differ from what it loaded, which is what makes some races harmless and
others not. `Close` ends the session: what it loaded and the request's copy are
forgotten. `Prune` is the retention sweep; a commit may fail.

**Listings.** A client goes through the pages of `GET /alerts` or
`GET /packets`; `ReadPage` and `AnswerPage` are the two transactions of one
request (the rows, and the count). Rows come late, grow old, are swept and
triaged between them. No two rows share a timestamp: the code gives a tie no order.

**ThreatReport.** `EnrichAlert` chooses the address that may be asked about,
`QueryProvider`, `NothingToAsk` and `LookupRaises` end each provider's lookup,
`Aggregate` merges. The providers are those the factory builds from every
combination of settings, plugins included. A lookup ends at the first of
`Skipped`, `Cached`, `Looked` and `Unanswered`, in the order of the code.

**LiveFeed.** The poll (`PollBegin`, `PollQuery`, `PollResume`, `SendDelta`,
`BroadcastEnd`, `StatsFrame`) and the handlers of the dashboards (`Connect`,
`SendStats`, `SendInitial`, `NoticeGone`) on one event loop, a step between two
awaits; the sensor commits (`AlertSaved`) at any moment. `stamps[i]` is the
timestamp of the `i`-th alert to be committed; it has no part in that order and
may be that of others, as two rules give the alerts of one packet its time.
`NewestFirst` is what the query may answer among equals. `late` is history: the
alerts committed after a poll had read past their stamp (`ReadPast`), be it only by
an alert of the same stamp; `cut` those its limit left out.

**AlertConsole** is what an analyst works with: `AlertStore`, `Listings`,
`ThreatReport` and `LiveFeed`, one part at a time.

**AlertContent.** Confidence in ten-thousandths, from thresholds or from a
rule's keywords; `HandleFinding` hands an alert to a sender, `Send`, `Count`, `Sent` are
one hook of the dispatcher at a time, `Register` may come in between.

### Threat intelligence

**Gatekeeper.** `EnterQueue`, `SetDeadline`, `TrySlot`, `CheckDeadline`,
`Respond`, `Retry`, `LeaveQueue` are the stages of `execute` for each caller;
`TrySlot` is atomic because `acquire_slot` tests and records both windows under
one lock. `Status` is the read of the counters. Ages saturate at the window's
length, so time needs no bound. `stretch` is history: any caller may `Observe` the
next stretch as long as a window, and `Over` counts what it admitted.

**ThreatIntelQuery.** One address at one provider. Memory tier and breaker per
process, durable row shared. `MemoryGet`, `DurableGet`, `Purge`, `Promote` are
the read path, `Breaker` the admission, `Succeed`/`Fail` the answer, the rest
the write path; eviction, the prune of expired rows, stop and start come from
elsewhere. A lookup that raises (`Raise`) is counted by no one. An answer is
abstracted to its age since the provider gave it.

**EnrichmentWorker.** `Submit` is the pipeline; `Start`, `StopBegin`,
`StopJoin` the SDK; the loop's steps belong to each thread there has been.
`StopJoin` may find its thread alive (the join timed out) and forgets it either
way. **Enrichment** holds the worker and the lookups, one half at a time, with
the fairness of each.

### Detection

**EvaluationLoop.** The service's start (`Load`, `Start`, `StartRaises`) and
stop (`StopBegin`, `StopJoin`, `StopEnd` with its last evaluation), the loop
threads (`Wait`) and the question both ask (`Ask`, `Add`, `Dispatch`).

**Lifecycle** extends it to a process in one of three roles (sensor, replay,
API). `BeginStart`, `BeginStop` and `BeginCapture` are the SDK's calls, `Proceed`
their next service, of which detection is the one of `EvaluationLoop`; what a
start goes through is the list `Started[role]`, what a stop undoes the list
`Stopped[role]`, and `Built` is the process as the builder leaves it;
`SnifferDies` is a thread of the capture library that ends by itself.

**BreadthDetector.** The capture thread (`Advance`, `Fetch`, `SetSeen`) and the
evaluation (`Begin`, `Visit`, `Scan`, `Expire`, `Expired`, `Drop`, `Report`,
`Return`, `Dispatch`, `Abort`) on `SlidingPeers._peers`. `orphan` says that the
dictionary the capture thread has fetched has meanwhile been dropped. `Abort`
is an iteration over a dictionary that changed, or a callback that raises.

**Detectors.** All thirteen, as a `Registry` of records: the window a detector
uses (distinct peers, counts in buckets, timestamps), the packets it counts,
the key it counts them for, its threshold, and when it raises. `Ingest` and `Evaluate` are one
step each; late packets move no clock.

**RuleMatching**, **RuleEpisodes**, **RuleWindow**, **RuleDirectory.** Validation
and evaluation of a rule over a packet; the abstract promise of an aggregation
rule over logs of matches (fire on the match that takes a group to the
threshold, once per episode); the code's queues, flags, LRU order and eviction,
which implement it (`RuleWindow!ImplementsEpisodes`, with `over <- alerted`, the
groups whose series has `reported` set). A match records what it contributes
(`Contributed`): the value of the distinct field, or `Blank`, the empty string, if
the rule has none; an edit (`Edit`) keeps both as they were recorded;
and the files, registries, watcher, toggles and reloads of two processes with
the snapshot in the database. **RuleEngine** holds the last two.

**Capture** and **PacketParsing.** The packet callback as two feeders run it,
token bucket in ticks, filter, counters, the sampler that turns the counter
into rates; every extractor of the parser and of the one-line summary, and the
walk through a ClientHello byte by byte. **PacketPath** follows a packet through
capture, parser, rules and detectors; **Traffic** has the frames, packets and
rules it is sampled with.

### Around them

**Configuration** (loads of the three layers, for a key of each declared type,
and edits between them), **Plugins** (`LoadDetectors`), **Tracing** (findings and
their way through the queue of the worker), **Requests** (extends it: a request
through the middlewares to its endpoint), **Logging** (`SetupLogging`,
`WriteRecord`), **Upkeep** (four tables, the sweep one transaction at a time, and
`SaveAgain`, the upsert of an alert somebody still has in hand, which inserts it
anew when it was swept),
**Dashboard** (`Fetch`, `Settle`, `TurnPage`, `Write` and the rest of three pages),
**DatabaseSchema** (upgrades and a downgrade, statement by statement, with
deaths between; the ORM's tables beside those the migration creates).
**Deployment** holds them, one part at a time.

### Instances and proofs

The **MC** modules extend a module and define the sets its `.cfg` names. The
compositions whose parts share no state (`AlertConsole`, `Enrichment`,
`RuleEngine`, `PacketPath`, `Deployment`) choose a part in the initial state and
leave the others alone: a product of independent parts would show nothing more.
`Lifecycle`, `Requests` over `Tracing`, and `RuleWindow` over `RuleEpisodes` are
compositions in the full sense. `Enrichment.cfg` needs no MC module, and
`Detectors_instant.cfg` and `Detectors_floods.cfg` run the instance of
`PacketPath`. Modules named
**...Proofs** hold the theorems.

## 3. Runs

Where a cfg says `CHECK_DEADLOCK FALSE`, its bounded inputs run out and the
system may stop. Type invariants are proved for the modules with a proof
module; the runs spend their time on the properties below.

| Run | Instance | What it shows |
| --- | --- | --- |
| `AlertPipeline` | capture thread with one rule key, evaluation loop and stopping thread with one detector key; 3 alerts, window 1 of 3 instants, room for 1 key, one failing save, one reset, packets up to 1 late; saves in three steps | the tracker exceeds its bound only by threads still evicting (`TrackedBounded`); the row of an active alert has every occurrence, unless its last save raised or saves of it crossed and none ran alone since (`ActiveRowsCurrent`); a stored alert is announced unless its own thread met an error (`RowsAreAnnounced`); while threads take turns no dictionary operation and no second INSERT raises, and with stamps in order duplicates merge and `last_seen` is the newest event (`SoundInTurn`) |
| `AlertConsole` | a PATCH, an enrich request, both sensor threads, a sweep, 3 occurrences; lists of 3 rows of 2 kinds, pages of 1 or 2; the four shipped providers and two plugins in every configuration; 2 dashboards, 3 alerts in any commit order with 3 timestamps that may tie, query limit 2 | enrichment is neither undone by merges nor lost to a sweep (`EnrichmentLands`); a PATCH undoes no column that stood still from its read to its load (`PatchWritesOnlyStatus`); a walk to the last page has met every row that stood all along (`NoneMissed`); the merged verdict is no milder than any provider's and no private address is asked about unasked (`ReportIsSound`); deltas are in order and free of repeats, and nothing is passed over but what was committed after a poll had read past its stamp and what a burst cut off (`PushedOnce`); clients that stay catch up, whoever leaves (`EveryAlertArrives`) |
| `AlertStore_triage` | a PATCH and both sensor threads | **violated**: see 5 |
| `Gatekeeper` | 3 callers for a queue of 2, one slot a minute (2 instants), 3 a day (4), one retry | accounting, limits, at most twice the limit in any stretch as long as a window, callers are only shed when others got a full minute of slots (`PaceHolds`), every caller leaves |
| `Enrichment` | 3 alerts, a queue of 2, 3 threads started; two lookups, both in the API or one of them in the worker, TTL, cooldown and threshold 2, one stop and restart | every alert in exactly one place; threads that outlive `stop()` end and queued alerts get their turn (`WorkerSettles`); no answer is handed out at two TTLs; failures in a row are bounded; circuits recover |
| `BreadthDetector` | 2 sources, 2 peers, threshold 2, window 1 of 2 instants, packets up to 1 late | alerts are earned; a sustained episode is told unless an evaluation that raised dropped it |
| `RuleEngine` | 3 groups, room for 2, 2 values, 3 versions of a rule, counting and distinct, 3 instants, 3 matches a group; 2 rule files, 2 edits, 2 requests at once | refinement of `RuleEpisodes`, through edits from counting to distinct values and back; the rules in force are those of the files the watcher could hear of (`RegistryFollowsDisk`); a toggle holds to the next reload and no longer (`TogglesHold`) |
| `Lifecycle` | 2 starts, 1 episode, 4 SDK calls, one edit of the thresholds, in each of three roles | an episode is raised once; nothing is fed before it is ready (`FedWhileReady`); a stop that returned has unwound everything (`UnwoundClean`); "ok" is deserved; started services ask, stopped ones leave no thread (`LoopsFollow`) |
| `PacketPath` | rate 1, burst 2, seconds of 2 ticks, 3 packets; sampled frames and a ClientHello cut off at every byte; all detectors, 4 packets in a window of 4 with buckets of 2, up to 1 late | admitted packets stay within burst and rate (`RateBounded`); charted rates add up to the counter (`RatesAddUp`); every window measures what it promises, give or take a bucket and the lateness (`MeasuresTheWindow`); nothing is reported that no packet shows (`EvidenceIsThere`); parser and summary agree and no name is read out of neighbouring bytes (`ReadersAgree`) |
| `Detectors_instant`, `Detectors_floods` | the same detectors | **violated**: see 5 |
| `Deployment` | 2 requests, 2 findings, a queue of 1, a key; 3 hooks, 2 alerts; two built-in modules and two plugins, one module with two routes and one built-in that is listed, two loads; 3 retention policies, 3 days, 2 sweeps; 2 filters, 2 pages, 3 fetches, 1 write; two processes on both databases, 1 death | layers keep their order, and one bad plugin costs no other detector (`SetUpIsSound`); lines carry their id, once, without a credential the redaction has a word for (`LinesAreSound`); an answer is true of some moment of its request (`AnswersFit`); a worse finding is held no less likely and hooks get what they want (`AlertsAreHeard`); the schema is whole, a sweep removes nothing but what outlived its window, and leaves of that only alerts that a save put back behind it (`StoreHolds`); the screen shows the answer to its newest question (`ScreenIsTrue`) |

**Why the bounds are enough.** Each bound is the least at which the interesting
case exists, then one more where TLC affords it. A race needs two threads, and
a third to be the bystander whose work is disturbed (`AlertPipeline`,
`Gatekeeper`); an eviction needs one key more than fit; an expiry needs an
instant after the window; a restart that overtakes a stop needs two starts, and
the third start of `Enrichment` leaves three threads on one queue; an old answer
that overtakes a new one needs two fetches, and a third to be the newest; a
page that shifts needs rows on two pages; one death half way is enough for a
schema because what it leaves is all the next start sees. One address, one row,
one key of a detector, one setting of each type stand for all where the code
treats them independently (separate dictionary entries, rows, fields). The one
case where they are not independent, the shared order and size of a tracker,
has as many keys as fit and one more. The inputs of `PacketPath` are samples: at
least one frame for every extractor, one packet for every detector and one rule
for every operator, and every prefix of a ClientHello.

**Symmetry** is used for the interchangeable evaluator threads of
`AlertPipeline`, and groups, values, files and callers of `RuleEngine`. Neither run
checks liveness.

**Conditions in properties.** Several properties hold only where no race, late
packet or exception has intervened, because that is all the code provides. The
condition is then a history variable that records the intervention and nothing
else (`overlapped`, `misdated`, `crossed`, `late`, `cut`, `lost`, `outrun`, `doubled`,
`failed`, `shifted`, `missed`, `drifted`, `turned`, `revived`), and the run contains the
interventions: the property says that they are the only way to lose what the
documentation promises. Section 6 lists what happens under them.

### Fairness

* `Gatekeeper`, `Enrichment`: time passes; a thread inside a call is
  scheduled and every provider request is bounded by an HTTP timeout
  (`services/threat_intel/http.py`), so a call under way ends; a join has a
  timeout. Nobody is obliged to call, submit, start or stop.
* `AlertConsole`, of its behaviours about the feed (`FairConsole`): the event loop
  runs ready tasks; the poll repeats. A query may fail but not for ever (strong
  fairness of a successful one); a send to a dead client ends (the server's ping
  timeout). The other parts are under no fairness.
* `BreadthDetector`, `Lifecycle`: the timer thread repeats its evaluation (an
  exception does not end it: `run_once` swallows it), the capture thread
  finishes the packet it holds, an SDK call that has begun goes on. Nobody is
  obliged to send packets, start or stop.

Fairness is weak except for the query, where a broken database that never
answers would refute every delivery property for a reason that is not the
code's.

## 4. Proofs

| Theorem | States | Holds for |
| --- | --- | --- |
| `AlertPipelineProofs!TypeCorrect` | `[]TypeOK` | all finite sets of threads and keys, all bounds |
| `AlertPipelineProofs!TrackerBounded` | `[]TrackedBounded` | the same |
| `AlertPipelineProofs!StoredIsTold` | `[]RowsAreAnnounced` | the same |
| `AlertPipelineProofs!RowsFollow` | `[]ActiveRowsCurrent` | the same |
| `AlertPipelineProofs!TurnsAreSound` | `[]SoundInTurn` | the same |
| `AlertConsoleProofs!TypeCorrect` | `[]TypeOK` | all sets of requests and statuses |
| `AlertConsoleProofs!PatchIsNarrow` | `PatchWritesOnlyStatus` | the same |
| `AlertConsoleProofs!EnrichmentStays` | `[]EnrichmentLands` | the same, at most one sweep |
| `AlertConsoleProofs!ListsTyped`, `PagesMissNothing` | of the lists: `[]ListingsTypeOK`, `[]NoneMissed` | all kinds, statuses and page sizes, all numbers of rows |
| `AlertConsoleProofs!ReportTyped`, `ReportsAreSound` | of the report: `[]ReportTypeOK`, `[]ReportIsSound` | all builtins, finite sets of plugins, settings, opinions and thresholds |
| `AlertConsoleProofs!FeedTyped`, `FeedPushesOnce` | of the live feed: `[]FeedTypeOK`, `[]PushedOnce` | all finite sets of dashboards, numbers of alerts, timestamps (ties included), limits of a query |
| `AlertConsoleProofs!PartsOfTheConsole` | `ConsoleSpec`, of which the run's specification is the fair behaviours, implies those of its four parts | the same |
| `PacketPathProofs!TypeCorrect`, `RateHolds`, `RatesTrue` | of the capture: `[]TypeOK`, `[]RateBounded`, `[]RatesAddUp` | all rates, bursts, seconds, feeders and clocks |
| `PacketPathProofs!PathIsCapture` | the run's specification implies that of the capture | the same |
| `PacketPathProofs!WindowsFollowTheLog`, `WindowsMeasure`, `EvidenceHolds` | of the detectors and rules: `[](DetInv /\ AlertsAreBacked)`, `[]MeasuresTheWindow`, `[]EvidenceIsThere` | all packets, networks, thresholds, windows, buckets, latenesses and rules |
| `PacketPathProofs!ReadersAreAlike` | of the parser: `ReadAlikeIn` of every frame read, half of `ReadersAgree` | all frames |
| `EnrichmentProofs!TypeCorrect`, `AlertsKeepOnePlace` | `[]WorkerTypeOK`, `[]OnePlace` | all numbers of alerts, depths and restarts |
| `EnrichmentProofs!LookupsTyped`, `AnswersStayFresh`, `OutagesAreBounded` | `[]TypeOK`, `[]BoundedStaleness`, `[]OutageBounded` | all lifetimes, thresholds, cooldowns, finite sets of callers, processes |
| `EnrichmentProofs!HalvesHold` | the conjunction of these for the run's specification | the same |
| `GatekeeperProofs!TypeCorrect`, `AccountingCorrect`, `QuotasHold`, `PaceIsKept` | `[]TypeOK`, `[]QueueAccounting`, `[]QuotaRespected`, `[]PaceHolds` | all finite sets of callers and configurations |
| `LifecycleProofs!TypeCorrect`, `AskedInTurn`, `EpisodesRaiseOnce` | of the loop: `[]TypeOK`, `[]AskedByOne`, `[]RaisedOnce` | all numbers of starts and episodes |
| `LifecycleProofs!ProcessRunsLoop`, `ProcessRaisesOnce` | a process implements the loop, so `[]RaisedOnce` | the same, all roles |
| `LifecycleProofs!NothingFedEarly`, `StopUnwinds`, `HealthIsTrue` | `[]FedWhileReady`, `[]UnwoundClean`, `[]HealthIsDeserved` | the same |
| `DetectionProofs!TypeCorrect`, `RulesFollowFiles`, `TogglesHoldOn` | of the rule directory: `[]DirectoryTypeOK`, `[]RegistryFollowsDisk`, `[]TogglesHold` | all sets of rule files and callers, all numbers of edits and requests |
| `DetectionProofs!EpisodesAreKept` | of `EngineSpec`: `ImplementsEpisodes`, that is `Episodes!Spec`, when `Lag = 0` | all groups, values and versions of a rule, all bounds on series and logs |
| `DetectionProofs!BreadthTyped`, `ReportsAreEarned` | of the breadth detector: `[]TypeOK`, `AlertsAreEarned` | all sources, finite sets of peers, thresholds, windows, latenesses |
| `DeploymentProofs!AnswersAreTrue`, `IdsFollowJobs` | of the requests and their lines: `[]AnswersFit`, `[]LinesAreTraced` | all sets of requests, whatever they ask for, all numbers of findings and depths of the queue, all changes of the database |
| `DeploymentProofs!LogsStayClean`, `HighestLayerWins`, `DetectorsStand` | of logging: `[]LogsAreClean`; of the settings: `[]LayersRespected`; of the detectors: `[]DetectorsStandAlone` | every record, kind of setting, file and environment of the models; all modules, classes and sections, whichever imports fail |
| `DeploymentProofs!SchemaStaysWhole`, `RowsAreKept` | `[]SchemaIsWhole`; of the sweeps: `[]RetentionHolds` | all sets of processes, numbers of deaths; all windows, tables of any size, numbers of sweeps |
| `DeploymentProofs!ScreenStaysTrue` | of the dashboard: `[](ShowsItsAnswer /\ EmptyMeansNone)` | all filters, pages, fetches and writes |
| `DeploymentProofs!DeploymentIsItsParts` | the run's specification implies those of its eight parts | the same |
| `DeploymentProofs!LinesStaySound`, `DeployedAnswersFit`, `DeployedScreenIsTrue`, `AlertsGetHeard`, `StoreStaysWhole`, `SetUpStaysSound` | of the deployment: `[]LinesAreSound`, `[]AnswersFit`, `[]ScreenIsTrue`, `[]AlertsAreHeard`, `[]StoreHolds`, `[]SetUpIsSound` | the same; all detections, rules, thresholds and hooks |

*Alert pipeline.* `TypeOK` is not inductive: `Merge` updates `alert[found[t]]`,
and nothing in `TypeOK` says a thread that merges has found an alert. `InHand`
adds that a thread inside `_process` owns an alert and one that merges or saves a
merged alert has found one. `IInv == TypeOK /\ InHand` is inductive (`InitInv`,
`StepInv`, one step per action), and the other three are inductive relative to it.
*The bound:* `Insert` adds at most one key and one evicting thread; `EvictTest`
lets a thread go only when it has found the tracker within bounds; `EvictPop`
removes a key or, on an empty tracker, a thread. So the bound is `MaxTracked`
plus one per thread caught between insert and test, however many race.
*Announcements:* an alert is in a row, in the tracker or in another thread's
hands only if the thread that built it inserted it (`Entered`), and that thread
leaves by announcing or by an error of its own (`ToldInv`). *Turns:* while nobody has
overlapped, at most one thread is inside `_process` and the dictionary is as its
own last operation left it (`Alone`), so none of its operations can raise; with
stamps in order as well, an alert that left the tracker without being forgotten
was out of its window when it did, so its successor is later than that (`InOrder`).
*Rows:* `Keyed` ties the alerts a thread handles to their key. While the row of a
tracked alert is behind, some thread is on its way to write it or to find the key
gone (`Writing`); and once it is whole, whoever still has a commit to make has met
another save (`Current`). `Apart` is what a save in three steps needs: one that has
met no other finds the row as it loaded it, so what it writes is what it copied,
and an alert of which two saves have met is `crossed` until one has run alone.

*Alert store.* What a transaction is about to write is what its copy differs in
from the row it loaded (`PendingIsDirty`), which gives the PATCH its narrowness.
For enrichment, `SensorInv` says where a stale copy can still be: a merge that
loaded before the worker committed has no threat intelligence to write unless
the row was swept under it, and one sweep cannot do so twice.

*Lists.* `NoneMissed` speaks of a walk that is over. `Walk` says of each stage
what keeps it true: before a page is read, a row that is due has as many rows ahead
of it as the client has skipped, and it can only lose ground, since no row ahead of
it leaves; after, a row that is due and not on the page lies behind a full page.
So a page short of its limit has nothing behind it, and a count that was taken later
exceeds what was skipped. That the places of a list are filled without a gap
(`PlacesFilled`) is what makes a page with a row behind it full.

*Report.* The verdict is that of the maximum of the scores, a finite set of numbers
(`GreatestIsThere`); `ClassifyGrows` says a higher score is never classified milder,
whichever way round the thresholds are configured. The address that goes out passed
the test at that moment, and the settings do not change under a request.

*Capture.* `RateBounded` speaks of packets and says nothing of tokens; `Budget` adds
what the bucket would hold now: refill plus what was admitted since the mark is
at most the capacity and the rate of the time. `RatesAddUp` says nothing of a counter
that is read and not yet sampled; `Sampled` orders the values: what has been told since
the first sample is at most the last sample, that is at most what the status read,
and that at most the counter.

*Detectors.* `MeasuresTheWindow` speaks of one instant and `AlertsAreBacked` of the
evaluation before; neither is inductive, because what matters of a deque is what it
will be worth once its head has been expired. `Follows` says it of every entry at
once: from that entry on, the deque is worth the observations of its key from some
point of the log on, none of which is older than the entry by more than the lateness
of a packet; and what came before that point belongs to an entry before, or has left
the window. So wherever expiry cuts, what is kept holds all of the window
(`FollowsHead`: what was cut off belonged to entries that had left it) and nothing
older than a bucket and a lateness. An observation opens an entry
(`FollowsOpens`) or adds to the youngest (`FollowsAdds`), even a late one; both keep
it. `PeersFollow` is the same for the dictionary of peers, where a late contact makes
a peer look older. The DNS detector compares two counters with a clock each; `InStep`
says that while they have not parted the clocks are one, and then both measure the
same window. The sums are those of the community modules, whose recursion is over
sets: that they exist, do not depend on the order and grow with the set
(`SumsExist`, `SumTakesAny`, `SumsGrow`, `SumsMove`) is shown by induction on the size
of a set, with the set of the numbers that have the property in place of a predicate
(`NaturalsGrow`, from the library's theorem that `<` is well-founded).

*Rules and readers.* What a condition needs of a field before it holds is what
`RulesNeedTheirFields` says of a match (`MatchesNeedTheirFields`). A packet with a TLS
section is a TLS packet because `TlsMetadata` reads nothing out of a payload that does
not begin like a handshake record (`TlsIsTls`).

*Enrichment worker.* `OnePlace` counts, and is not inductive; `WorkerInv` says
where an alert is without counting (`HeldAtWork`, `Apart`, `Handed`, `NoneLost`), for
any number of loops a restart has left on one queue.

*Lookups.* `Aged` gives each tier its own bound: an answer in the durable tier is
as old as its row, one in the memory tier was younger than a lifetime when it was
promoted. That is why an answer may be almost two lifetimes old and never more.
`Costs` explains the bound on an outage: a closed circuit has counted every
failure of it and is short of its threshold; an open one admits nobody, so the
failures still to come are those of the callers past the breaker, of whom each
can fail once.

*Evaluation loop* (`LifecycleProofs`). Detectors and `_reported` have no lock. `LoopInv` says who may be
alive: until a loop outlasts the wait of a `stop()`, no loop but the one `stop()`
would wait for, and the stopping thread asks only after its join. One thread at a
time asks, so nobody else is about to raise what it marks or arms.

*Life cycle.* A call in progress is a place in the list of its role: the script is
the suffix from there, what is before it has been started, or stopped (`InCall`).
The rest of `SystemInv` ties the states of detection to that place
(`AtDetection`, `NotLoaded`), a sniffer to the pipeline that must be up under it
(`Sniffers`), and says what is up between calls (`Standing`, `Reader`). The services
an alert meets come before detection in every start list and after it in every
stop list: that is where the order of the lists enters. A step of a process is a
step of `EvaluationLoop` or leaves its variables alone (`ProcessRunsLoop`), so what
is proved of the loop holds of the process.

*Gatekeeper.* `IInv == TypeOK /\ RetriesLeft /\ QueueAccounting /\
QuotaRespected`. Each needs another: `waiting - 1` is a natural number only
because the accounting counts the leaver; an attempt stays in `0 .. Retries` only
because a caller sleeps only before an attempt it has left; the quota needs the
types of the windows. *The pace:* fixed windows admit two windows' calls around
a boundary. `Burst` says why no more: a stretch still counted has slots of the
current window and of one before it, and of the current one alone if that began
before the stretch did. `Outrun` says that who has waited for longer than the
window is old has seen every slot of it go to others.

*Live feed.* `FeedInv` follows an alert through a poll. A query's answer lists
each alert once, none before a newer one (`Sorted`), so the new ones are the first
of it. Before the watermark moves, the answer holds what is new, but for alerts
newer than all it holds (`InQuery`): what has come in since with a stamp the answer
reaches was read past, and is late. So what is behind the watermark once it has
moved has been in an answer, or is late or cut. While a broadcast is under way its
clients have been sent what is behind the watermark or are about to be
(`SentBehind`), each older than all that follows (`Behind`), and a client that stays
is among them (`Enrolled`), whoever else leaves between two sends.

*Breadth detector.* `AlertsAreEarned` relates an alert to contacts that are not in
the detector's state: `latest` remembers them all. `Recorded` says that a table never
claims a later contact than there was. `Scanned` follows an evaluation: after the scan
whoever is left in the table, and not about to be deleted, was seen inside the window
whose cutoff was read at its beginning, up to the lateness of a packet that came in
between (`Since`). `Held` bounds that lateness for the packet in the capture thread's
hands, and says when the dictionary it fetched is no longer the table's. `Cycle`
makes a key in hand one that has not been visited, so that an alert is new.

*Rule directory.* `RegistryFollowsDisk` speaks of a watcher that is idle. `Known`
says of each stage of the loader why the rule will be right by then: before a
load the file is there to be listed, during it the file is unread, after it an
event of the right kind is on its way. The kind matters: of a file that is gone
the queue must still hold a deletion, of one that is there a change, and handling
one event must leave the other. `Reach` says why a toggle lands in both places: a
file that has not drifted has one toggle under way at most, and what that has
stored is what it will apply. `Cleared` follows a reload: a file whose override
is left is unread, unreadable, or has an event pending. `Stages` (one reload at
a time, and where its loader is) excludes a second load in between. The run
checks both properties on the behaviours of `RuleEngine` that are about files,
which are those of `DirectorySpec` (`EngineIsItsParts`).

*Episodes of a rule.* Every step of `RuleWindow` is a step of `RuleEpisodes`, one lemma
per action (`MatchImplements`, `EditImplements`, `ResetImplements`), with the log of all
matches as the history variable both have. `Retained` says that the hits of a group are
the end of its log, and that what `popleft()` has dropped lay before the window of the last
match; `Sorted` that matches come in order, which is where `Lag = 0` is needed. So the
next cutoff, which is not earlier, parts the log where it parts the queue (`QueueEnds`,
`Parted`), and counting the places of the log from there on is taking the length of the
queue (`MeasuredAlike`, a bijection). That the keys of the dictionary are the groups
with matches, each once (`KnownAreKept`), makes an eviction one that the promise allows
(`Evicting`): there is one group too many, and it is not the one just touched. An
edit keeps the hits with the values they were recorded with, in the queue and in the
log alike, so the promise says what an edit from counting to distinct values means:
the old hits are one value more.

*Requests and their lines.* `AnswersFit` speaks of an answer, when `seen` is what
the world was during the whole request. `InChain` says it for a request that is under
way: the present is among what it saw, one past the key was let in, and one whose
handler found the row saw it. The steps of ten handlers reduce to three forms
(`Served`: answer what the request has earned, fail because the database did, or go
on), so one lemma per handler names the form and one per form keeps the invariant.
`LinesAreTraced` needs `InScope` (the id in the context of a thread is that of its job,
and none between jobs), `InQueue` (what waits for the worker carries its id with it)
and `Minted` (ids are handed out in order, none twice).

*Logging.* What has been written is the record, formatted by each handler of its
stream (`LoggingInv`): a second set-up replaces the handlers and adds none. That no
formatted record shows a credential is a fact about one record (`RecordsAreClean`), of
which the model has those with a credential after a word that `SENSITIVE_PATTERNS`
looks for, or under a key that `SENSITIVE_KEYS` names.

*Settings.* `LayersRespected` compares a configuration with what the environment was
when it was read; `ConfigurationInv` says that it is the layers over each other
(`Layered`), was accepted, and that the environment has only changed since in what `.env`
names. The rest is about values: a text that `Coerce` accepts for a kind is what was
meant by it (`TextsAreMeant`), and a value that is accepted has that kind
(`ValuesAreTyped`).

*Schema.* `SchemaIsWhole` says nothing of the middle of a migration. `Upgrading` does:
at most one process is past its first statement, whatever it has left to do is what
is missing from the database (SQLite) or from its transaction (PostgreSQL), and the first
table is there; another that begins then fails on its first statement. `Standing` says
why a process that failed met somebody or something, `TablesStand` what the tables are
between migrations, `Downgrading` the same for the way back. What the two scripts create
and drop is compared with the ORM once (`WholeUpgrade`, `WholeDowngrade`, `ColumnsAreDeclared`).

*Alert content.* That a worse finding is never less sure is a fact about two alerts:
`EvidenceGrows` and `ScoresGrow` say that the confidence is monotone in magnitude,
threshold crossed and severity, whose quotients (`QuotientsGrow`) are rounded down.
Of the hooks, `NoneMissed` says that those a sender has passed have had what they wanted.
`CountsAreTrue` bounds the tallies though they are not atomic: two senders that read one
counter and write one after the other lose a count and never invent one, for every
value a counter has or is about to get.

*Retention.* `Doomed` ties what a sweep is about to delete to the moment whose cutoff it
read; windows only close behind it, so what is doomed stays outlived, and an alert that
a save puts back was outlived when it left, which it still is. What is left of the
doomed behind the sweep is what was put back there (`Spared`, the `revived` ones), and
its evidence, whose window is no longer than the alert's, is gone or goes with it
(`EvidenceGoesFirst`). `Numbered` (rows are numbered as they come) says that an alert and
its packets are told from all others.

*Dashboard.* `OnTheWay` says of every fetch that its answer is to its own question, and of
the newest fetch that the question is the one on screen and the answer as young as any
write confirmed since; the older ones may say anything, because they are not shown.

*Detectors.* The registry is a set here and not a list, because the order in which
modules are found decides nothing; a detector is known by the load that took it, its
route and the place of its class, so that one registered twice is two members.
`ScanTakesTheFine` says what a scan takes; two detectors from one place would then have
two routes to one module, which the names taken (built-in and plugin) and the
dictionary of the discovery (entry point and configuration) exclude (`LoadStands`).

*A deployment is each of its parts.* A step of the deployment is one of a part and leaves
the variables of the others alone, so its behaviours are behaviours of every part
(`DeploymentIsItsParts`), and what is proved of the parts holds of it.

Assumptions: those named in the modules (constants are numbers, positive where
the configuration enforces it, sets finite, the actors of a row distinct), and of
`EnrichmentStays` that there is at most one sweep, sweeps being an interval apart. One is
a fact of arithmetic, `BackoffIsNatural`: the provers do not know exponentiation.
TLC evaluates all of them in the runs.

*Only model-checked:* all liveness (fairness and `ENABLED` are out of the
prover's reach) and half of one property. Of `ReadersAgree`, that no name is read out of the bytes around it
(`SniIsAskedIn`) relates the bytes of a frame to what its sender asked for, which only
the sampled frames say.

## 5. Where the code falls short of its documentation (violated runs)

* `AlertStore_triage`. A PATCH sets the status of an alert; the sensor's next
  merge compares its own, older object with the row and writes the old status
  back, because `apply_alert_to_record` copies every field (`database/mappers.py:88`;
  `docs/API.md:51` promises of the PATCH "Update triage status").
* `Detectors_instant`. The DNS tunneling detector divides one counter by another
  and says of them "they advance on the same packets, so their clocks stay in
  step"; the second is advanced by high-entropy queries only, so between them it
  keeps counts that have left the window of the first
  (`detectors/impl/dns_tunneling.py:93`).
* `Detectors_floods`. The SYN flood detector tests the SYN flag alone
  (`detectors/impl/floods.py:55`), so a server's SYN-ACKs count towards an alert
  about the client they go to. Its docstrings say "Counts bare SYNs only. A SYN-ACK
  is a server answering" (`floods.py:34`) and "Return True for a bare SYN — no ACK"
  (`:54`), `docs/DETECTORS.md:93` the same. The model counts as the code does, so
  `EvidenceIsThere` and `MeasuresTheWindow` speak of packets with the SYN flag.

## 6. What happens under the conditions

Behaviours that the models contain and the conditions of section 3 exclude from
the properties, and disagreements met while reading the code for a model. They
are listed so that a reader knows what the properties do not promise.

### Alerts

* Two threads with one key (the evaluation loop and the thread stopping the
  service) both find it untracked and both announce it
  (`services/alerts/dedup.py:78`; `docs/ALERT_SYSTEM.md:75-76` says such alerts
  are merged). The prune of one can also raise in the other.
* A late or replayed packet moves `last_seen` back (`dedup.py:113`;
  `docs/ALERT_SYSTEM.md:44` says it advances), after which the key may expire
  early; a tracker shared by packet time and wall clock is pruned by both
  (`factory.py:71`).
* A failed save leaves a tracked alert: repeats are merged and stored, nobody is
  told (`service.py:132`).
* Two threads that save one alert at once may cross: the one that copied the older
  count commits last, and the row stays behind until another save has run alone; on
  the first save of an alert the second INSERT fails. If that is the builder's, the
  alert is in the database and nobody is told (`database/repositories/alerts.py:55-61`,
  `service.py:132`).
* A suppressed duplicate is written back to the row (`service.py:128`), where
  `docs/ALERT_SYSTEM.md:22` draws suppression as the end of the path.
* A PATCH rewrites the row from a copy: occurrences and threat intelligence
  that arrived between its read and its load are restored to their older values
  (`sdk/alert_operations.py:87`), and POST enrich likewise restores a status.
* Every save is an upsert: a merge, the worker, a PATCH or POST enrich that has a swept
  alert in hand inserts it anew, as old as it was and without its evidence
  (`database/repositories/alerts.py:56-58`), also behind the sweep that was due to
  remove it. The next sweep removes it again.
* Lists: packets are listed oldest first, so a sweep during a walk through the
  pages shifts the rows and some are skipped; a list filtered by status skips
  rows under triage in the same way. `total_alerts` and `by_severity` are six
  separate counts.
* Threat report: `lookup` raises on JSON bodies whose values the result model
  refuses, and the whole enrichment is lost with it (`base.py` says that a lookup
  must never raise). A plugin that leaves `config_name` empty is silently never
  built; the order of providers is the factory's, not that of the setting; a
  plugin that needs a key never gets one (`docs/EXTENDING.md:176-178`) and may
  reuse the name or the quota of a shipped one. With private addresses allowed, a
  private source hides the public destination.
* A critical heuristic at six times its threshold scores 1.0, above any
  signature's 0.95 (`confidence.py:13-16` argues the other way). The tallies of
  the dispatcher are not atomic.

### Threat intelligence

* The gatekeeper serves whoever polls first, not first come
  (`shared/gatekeeper_limits.py:88`; `rate_limit_models.py:20` speaks of FIFO).
* An entry promoted from the durable tier starts a new lifetime, so an answer
  can be almost two TTLs old (`tiered_cache.py:95`; `docs/THREAT_INTEL.md:64`).
* A half-open circuit admits every caller that asks (`circuit_breaker.py:71`),
  and an answer to a call admitted before it opened closes it during the
  cooldown (`:81`; `docs/THREAT_INTEL.md:75-87`).
* A lookup that raises leaves the breaker as it is (`query.py:62`): neither a failure
  nor a success, and a half-open circuit stays half open.
* A full queue drops the new alert (`worker.py:95`), and a stop leaves the queue
  as it is (`worker.py:81`).

### Live feed and dashboard

* An alert committed after a poll has read past its stamp is never sent, nor is what
  a query's limit cuts off (`broadcaster.py:100-112`). The test is strict and stamps
  tie: rule alerts carry the packet's time (`services/alerts/factory.py:71`), so of two
  rules on one packet the second is passed over if it commits after the poll that
  found the first (`docs/API.md:69` promises alerts "pushed as they happen").
* A delta can reach a client before its snapshot (`routers/live.py:54`). The dashboard
  then lists an alert twice, or replaces one the snapshot does not have
  (`useLiveFeed.ts:53-62`); the list it shows is not in the model.
* The effect that asks anew after a write runs when React renders next, not with the
  answer to the write as in the model; in between the page shows what it had.
* "Next" is judged by the `has_more` of data that may be old, so a change of the
  filter followed by "Next" may land on an empty page, where the pager is hidden.
* A PATCH, an enrichment or a toggle that failed is told to nobody; the packets
  of the previous alert stay on screen while those of the next one load.

### Detection and rules

* Peers are lost when the evaluation drops an empty dictionary the capture
  thread has just fetched, or a late packet rewinds a contact
  (`window_peers.py:50,69`).
* `evaluate` marks its sources as reported before their alerts are told
  (`services/detection.py:147`, outside the `try`): a callback that raises costs
  the episodes behind it their only report (`:134-135` promises one each).
* Eviction makes a rule fire again within one episode (`rules/window.py:95`).
* An edit keeps the series of a rule with what the old version recorded: after one from
  counting to distinct values all the old hits are one value more, the empty string,
  and the rule may fire one value early (`rules/engine.py:88`, `rules/series.py:59`).
* Hits are expired from the head of a queue, so a late one behind a younger head
  stays counted and a rule can fire for more than its window
  (`rules/series.py:45`; `rules/engine.py:75-76`).
* A loop that outlasted the wait of `stop()` can report an episode a second time
  (`edge.py:52`).
* `detectors.json` is read when the registry is constructed, the confidence
  thresholds each time the alert service starts: an edit in between scores
  findings by thresholds they were not detected by. A JSON document in it that is not an
  object makes the loading of detectors raise.
* Only built-in detectors that *loaded* reserve their names, so a plugin named
  like a disabled or an invalid built-in one takes its place and its section. A
  class that a second module imports is registered twice.
* Rule files: a rename onto a rule file, which is how editors save, has no handler
  (`docs/RULE_SCHEMA.md:3` promises that edits are picked up). A toggle through
  the API reaches the database but not a sensor in another process
  (`api/routers/rules.py:8`); a reload through the API starts a loader there;
  rules disabled in their file never enter the snapshot; two toggles at once may
  leave database and engine disagreeing. That one reload runs at a time is a
  bound of the model.

### Life cycle, capture, maintenance

* A sniffer that died makes `CaptureService.stop` raise, and `stop()` of the SDK
  ends after the maintenance service: the rest keeps running, and health goes on
  to report it. A second start while capturing orphans the first sniffer.
* `_find_sni` returns an empty name or a prefix from a ClientHello that is cut
  off inside the name, where its docstring says "or None".
* A sweep that fails at one table leaves those after it to the next sweep.
  Evidence saved after its alert was pruned is refused by the foreign key, and
  that is only logged. Alerts from a replayed recording carry old stamps, so the
  next sweep may remove them at once.

### Configuration, API, logging, schema

* `.env` enters the environment when the first secret is asked for, which is
  after the first load has collected `os.environ`: `ND__` variables in `.env` are
  ignored by the first load of a process and honoured by its second
  (`shared/config.py:4`, `shared/config_env.py:4`).
* "Every problem listed at once" (`shared/config.py:15`) holds for one file: the
  SDK stops at the first invalid one, and nothing in the program calls
  `validate_all`. A malformed number in a variable raises a bare `ValueError`, a
  section set whole beside one of its keys a `TypeError`, depending on their order;
  unknown keys are ignored.
* The answer to an unhandled exception carries neither the correlation id nor the
  security headers; readiness answers 500, not 503, without a database; a
  malformed body is refused before the key is asked for.
* Errors the evaluation loop catches about a finding are logged outside its
  scope, and a captured id of `None` is replaced by a new one. `extra={"service":
  ...}` overwrites the `service` field of a JSON line. Redaction leaves what is
  nested `MAX_DEPTH` deep and objects that are not strings as they are, and knows the
  credentials its patterns know (`observability/redaction.py:41-51`): it replaces the
  word `Basic` of `Authorization: Basic ...` and leaves what follows, does not see a
  key between quotes (a dict written out in a message), nor one within a longer
  name (`X_API_KEY=...`).
* SQLite commits every DDL statement by itself: an upgrade that dies half way
  leaves a schema every later start fails on, and a downgrade leaves the version
  stamped with tables missing. Of two processes that start at once on a fresh
  database one fails. `env.py` ignores `sqlalchemy.url`, so the override that
  `upgrade_to_head(database_url)` documents does nothing, and an embedder's own
  configuration does not get its database migrated.

## 7. Not modelled, and why

* Statistics over floating-point values (the entropy of a name, the deviations
  of beacon intervals) are sets of names or inputs: their outcome matters, their
  arithmetic is beyond TLC.
* HTTP to the providers is an outcome: an answer, an error, a body the model
  refuses.
* Reading and writing pcap files, the choice of an interface and the validation
  of a BPF string are calls of the capture library.
* The reconnect of a dashboard and the cancellation of the poll at shutdown are
  left out of `LiveFeed`, and so is what a dashboard makes of its frames; `drain()` of the worker has no caller; only tests empty a
  table; the in-memory repository serves programs without a database.
* Fields of REST bodies, widths and conversions of columns, ranges of single
  settings (one bound stands for them), the arguments and the printed report of
  the command line, layout and charts are data no property tells apart.
* Scripts, notebooks, research and tests are not part of the running program.

`PROJECT.json` lists every part with its status, and every hazard found with the
properties that watch it. One hazard has none: late hits that stay counted
(`rules/series.py:45`) make the property that would exclude them false; the
refinement of `RuleEpisodes` is therefore stated for packets in order.

## 8. Plan

What is left, in the order of its worth:

1. An end-to-end composition of pipeline, store and feed: an announced alert
   reaches a dashboard. Each link has its property; their product does not fit
   the bounds at which each is interesting, so it wants an abstract store between.
2. What a dashboard makes of its frames, its reconnection, and the shutdown of the
   poll in `LiveFeed`.
3. An abstract upsert register for `AlertStore`, and a rate meter that both
   `Gatekeeper` and `Capture` implement.
4. The in-memory repository and the reading of capture files, should the
   program come to depend on them.
