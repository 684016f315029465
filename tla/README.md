# HealthOps: specifications and proofs

HealthOps is a monitoring server: it probes services on a schedule, turns the
results into incidents, notifies people, tries to repair what failed and asks a
language model for an explanation. This directory holds TLA+ specifications of
the parts of its backend (`backend/`, Go) where goroutines, timers, a database
that can fail and restarts meet, TLC instances that check them, and proofs that
TLAPS checks.

Paths below are relative to `backend/internal/monitoring/` unless they start
with `backend/`, `cmd/`, `docs/` or `frontend/`.

## 1. The system

```
 HTTP handlers ──► check store ──► CheckScheduler ──► Runner ──► probe
      │                              (a goroutine       │
      │                               per check)        ├─► MySQLRuleEngine ─┐
      │                                                 ▼                    │
      │             POST /runs ─────────► Service.handleAlertResults         │
      │                                   (counters, rules, thresholds)      │
      ▼                                                 ▼                    ▼
 acknowledge, resolve ────────────────────────► IncidentManager ◄────────────┘
                                                        │ onIncidentCreated / onIncidentResolved
             ┌──────────────────────┬───────────────────┴──────┐
             ▼                      ▼                          ▼
  NotificationDispatcher     RemediationEngine          AI queue and worker
  (debounce, cooldown,       (limits, attempts,         (claim, analyse,
   outbox)                    actions)                   complete)
```

Everything is one process. The persistent state is MongoDB, plus files for the
alert rules, the states of the MySQL rules and the keys. Each box runs on goroutines of its own, and
shares mutex-protected maps or Mongo documents with the others.

### Inventory

| Component | State | Operations | What is hard | What makes it correct |
| --- | --- | --- | --- | --- |
| Incident manager (`incident_manager.go`, `repositories/mongo_incident_repository.go`) | one document per incident | ProcessAlert, AcknowledgeIncident, ResolveIncident, AutoResolveOnRecovery, PruneBefore | find-then-insert and load-then-replace, operations that time out but were applied, identifiers made of the check and the second | one open incident per check and final resolutions but for calls that overlap, each incident announced once |
| Scheduler (`scheduler.go`) | timers, cooldowns, wait group, context | Start, Stop, UpsertSchedule, RemoveSchedule, the loop of a check | a timer that has fired cannot be stopped, Start schedules without the mutex, Stop waits while loops go on, handlers write the store and then the schedule | enabled checks keep running, disabled ones end, Stop returns and then nothing runs |
| Alert pipeline (`service.go` 140-260, `alert_rules.go`) | failure and success counters, rule cooldowns | handleAlertResults, called by every loop and by POST /runs | calls overlap, thresholds come from a snapshot, counts are read and used later | an incident opens and resolves exactly at its streak |
| MySQL rules (`mysql_rules.go`, `runner.go` 266-374) | a state per rule and check, in memory and in a file | Evaluate, SetOpenIncidentID | incidents are opened while the check runs, the file may be behind the memory | a rule opens and closes exactly at its streak, also over restarts |
| Notification dispatcher (`notify/dispatcher.go`, outbox, channel store) | batch, debounce timer, dedup and cooldown maps, outbox | NotifyIncident, flushBatch, NotifyResolved, Stop | timers that are replaced while they fire, overlapping flushes, sends nobody waits for | no batch without a timer, each opening sent once per channel and not lost |
| Remediation (`remediation/`) | running counter, cooldowns, attempts, actions, configuration | TryRemediate, manual trigger, execute | four limits tested before and recorded after, actions that hang, crashes | the counter is exact, attempts are recorded and their verdicts final |
| AI queue (`ai/service.go`, `ai/repositories/mongo_ai_queue.go`, `ai/api.go`) | one item per incident, results | Enqueue, ClaimPending, Complete, Fail, PruneBefore, AnalyzeIncident | three kinds of workers race for an item, an item is marked before its result is stored | at most one result per item, finished items final, queued items analysed |
| Alert rules (`alert_rules.go`, `frontend_api.go`) | the rules, in memory and in a file, the time each fired last | AddRule, UpdateRule, DeleteRule, Evaluate | edits are written to the file with errors ignored, ids may repeat, a restart forgets cooldowns | a restart loads what is in force, the cooldown holds |
| Notification channels (`notify/api.go`, `repositories/channel_store_adapter.go`, `repositories/mongo_channel_repository.go`) | a document per channel | Create, Update, ToggleEnabled, Delete | read-modify-write, forms that send masked secrets back | a channel delivers with the secret typed last |
| MySQL sampling (`mysql/collector.go`, `repositories/mongo_mysql_repository.go`, `mysql_models.go`, `mysql_incident_evidence.go`) | samples, deltas, evidence | Collect, AppendSample, ComputeAndAppendDelta, CaptureEvidence | overlapping executions, counters that a restart of MySQL resets | a delta shows no more than was counted |
| Check and result store (`mongo_store.go`, `secrets.go`) | cache and database | seeding, UpsertCheck, DeleteCheck, AppendResults, retention | timed-out writes leave the cache and the database apart, masked credentials | cache and database hold what was acknowledged |
| Mirrored store (`hybrid_store.go`, `store.go`; not used by the program any more) | a file and a mirror in MongoDB | writes, syncToMongo, reads | syncs overlap, fail midway and come back | readers see what was written |
| Maintenance windows (`maintenance.go`, `repositories/mongo_maintenance_repository.go`) | windows | create, update, delete, IsActive, currentOccurrence, CoversCheck | calendar arithmetic, a second query that forgets | an alert is held back exactly during a window |
| Heartbeats (`check_heartbeat.go`, `heartbeat_api.go`) | a state per token, in memory | Register, RecordPing, Execute | tokens are registered by requests only, a run decides on a copy | silence is noticed, and nothing else called silence |
| Degraded mode (`degraded_mode.go`) | a status, an incident | runHealthCheck, Middleware, Stop | reports the outage of the database to the database | an outage that ended is over for everybody |
| Retention job (`retention_jobs.go`) | none | RunDaily, RunOnce over six repositories | repositories fail for ever, in a random order | nothing goes early, everything goes in the end |
| Users (`users.go`, `auth.go`, `repositories/mongo_user_repository.go`, `repositories/user_store_adapter.go`) | accounts, the signing secret, tokens | bootstrap, login, Create, Update, Delete | count-then-delete, tokens outlive the role they carry | an administrator remains, authority expires |
| Status pages (`status_page.go`, `status_page_api.go`, `repositories/mongo_status_page_repository.go`) | pages | Create, Update, Delete, the public page | failed saves, the aggregation of components | slugs are unique, the page shown is true |
| Dashboards (`custom_dashboard.go`, `custom_dashboard_api.go`) | layouts with an owner | create, duplicate, update, delete | the right is decided on a copy | only the owner, or a caller without a name, changes a dashboard |
| Servers (`server_repository.go`, `server_api.go`, `runner.go`) | documents, a cached list, passwords | create, update, delete, resolveServer | two stores without a lock, a pointer into a list that moves | the runner uses the servers that are stored |
| Logs (`logs/`) | entries and error families | ingest, PATCH, categorize | insert races, whole documents written back | every error counted once |
| AI configuration (`ai/config.go`, `ai/repositories/`, `cmd/rotate-ai-keys`) | providers, settings, encryption keys | edit, reload, rotate | one edit is a series of writes, two processes share the key files | one default, keys readable, providers in use current |
| Conversations (`ai_chat.go`, `repositories/mongo_chat_repository.go`) | conversations with an owner | create, ask, delete | a minute passes between question and answer | no message of another conversation, no return of a deleted one |
| Rate limiters (`backend/internal/httpx/ratelimit.go`) | a bucket per client, for logins and for the API | allow, cleanup | refills as a whole, forgotten buckets, a login charged twice | at most twice the rate in any window, refusals only of clients that used their rate |
| Seeding of the MySQL rules (`cmd/healthops/main.go`, `repositories/mongo_alert_rule_repository.go`) | a collection | list, insert the defaults, list again | one insertion per call, an expired context, a process killed half-way | an edited rule is kept, rules are lost in named ways only |

The remaining parts (analytics, evidence and root-cause texts, recommendations,
SSH collectors, live streams, audit log, help texts, the web interface,
migration and load-test tools) hold formatting and computation around I/O;
`PROJECT.json` lists each with the reason it is left out.

`PROJECT.json` also lists, under `hazards`, every place found so far where this
code can go wrong in a way a test would hardly reach, with the properties that
watch it or the reason there is none.

## 2. Modules

| Module | Models | Extended by |
| --- | --- | --- |
| `IncidentLifecycle` | what the manager promises: the life of an incident, abstractly | |
| `Incidents` | the manager over the MongoDB repository, a step per database round trip | `MCIncidents`, `IncidentsProofs` |
| `CheckScheduler` | the scheduler, its loops, Service.Run around it and the check API | `MCCheckScheduler`, `CheckSchedulerProofs` |
| `AlertPipeline` | handleAlertResults, a step per lock or store access | `MCAlertPipeline`, `AlertPipelineProofs` |
| `MySQLRules` | the rule engine, runMySQL and the result of the run | `MCMySQLRules`, `MySQLRulesProofs` |
| `NotificationDispatcher` | the dispatcher, its timers and its sends | `MCNotificationDispatcher`, `NotificationDispatcherProofs` |
| `RemediationEngine` | the engine from trigger to recorded outcome | `MCRemediationEngine`, `RemediationEngineProofs` |
| `AIQueue` | the queue, the worker, on-demand and external analyses | `MCAIQueue`, `AIQueueProofs` |
| `AIConfig` | provider documents, the adapter, the service's providers, key rotation | `MCAIQueue`, `AIQueueProofs` |
| `AlertRules` | rules, their file, conditions and cooldown | `MCAlertPipeline`, `AlertPipelineProofs` |
| `Channels` | channels, their API and its masked secrets | `MCNotificationDispatcher`, `NotificationDispatcherProofs` |
| `Heartbeats` | tokens, pings and the runs that judge them | `MCMonitoring`, `CheckSchedulerProofs` |
| `DegradedMode` | the probe of the database and its incident | `MCMonitoring` |
| `Retention` | the job and the six repositories | `MCMonitoring`, `CheckSchedulerProofs` |
| `RateLimiter` | the two limiters in front of the API | `MCMonitoring`, `CheckSchedulerProofs` |
| `RuleSeeding` | the collection of MySQL rules and the starts that fill it | `MCMonitoring`, `CheckSchedulerProofs` |
| `MySQLSamples` | samples, deltas, evidence | `MCRepositories`, `MySQLRulesProofs` |
| `Servers` | collection, cached list, API and runs | `MCRepositories`, `CheckSchedulerProofs` |
| `Logs` | ingestion, PATCH, categorizer | `MCRepositories`, `AdministrationProofs` |
| `UserAccounts` | accounts and tokens on either store | `MCAdministration`, `AdministrationProofs` |
| `StatusPages` | pages on either store and the public view | `MCAdministration`, `AdministrationProofs` |
| `Dashboards` | dashboards on either store | `MCAdministration`, `AdministrationProofs` |
| `Maintenance` | windows on either store and their recurrence | `MCAdministration`, `AlertPipelineProofs` |
| `CheckStore` | the cache and collection of checks, and of results | `MCAdministration`, `AdministrationProofs` |
| `HybridStore` | the file and its mirror | `MCAdministration`, `AdministrationProofs` |
| `Chat` | conversations on either store | `MCAdministration`, `AdministrationProofs` |

The MC modules give the constants their values. Components that share no state
are put side by side in one of them: a variable `focus`, chosen initially, says
which one runs, and the others rest in an initial state. That explores each
component completely and none of the products; a property of a resting component
holds in its initial state and says nothing more. Fairness is that of the
component in focus.

The modules meet at the interfaces of the code. What one module treats as a
single step or as its environment, another takes apart:

* `AlertPipeline` and `MySQLRules` call the incident manager in one step;
  `Incidents` takes the call apart into its database operations, and its
  `Alerters` are the goroutines that `CheckScheduler` shows to exist: one loop
  per check until a check is rescheduled, then several (`OneLoopPerCheck`).
* `NotificationDispatcher`, `RemediationEngine` and `AIQueue` start from the
  callbacks of the manager. That a callback comes at most once per incident is
  `AnnouncedAtMostOnce` of `Incidents`.
* The fairness of `AlertPipeline` and `MySQLRules` (a check is run again and
  again) is `EnabledKeepsRunning` of `CheckScheduler`. Their maintenance gate is
  `IsCheckInMaintenance` of `Maintenance`, the conditions of a rule are those of
  `AlertRules`, the channel a flush reads is a `Channels` document.
* `Retention` decides what is pruned when; `PruneBefore` in `Incidents` and
  `AIQueue` is its effect on calls under way.
* `Incidents` implements `IncidentLifecycle` (`ImplementsLifecycle`).
  The mapping keeps, per identifier, the status, the severity and who
  acknowledged it, and forgets copies and the clock; of the callers it keeps the
  identifiers at which one is out of date (`rushed`). At those the lifecycle
  admits a second open incident or the write-back of an old copy, and nowhere else.

### State and actions against the code

**Incidents.** `incidents` is the collection, indexed by identifier, which is
the check and the second of creation (generateIncidentID). A caller is a
goroutine inside the manager, `pc` its next database operation, `req` its
arguments, `doc` the copy it is about to write back. `Find*`, `Create*` and
`Update*` are the outcomes of the three repository operations: done, refused,
failed, and failed although applied. An update is a load, the mutator, and later
a replacement of the whole document. `PruneBefore` is the retention job, `Tick`
the clock, `Restart` the end of all callers. `stale` is history: the callers
between a read and the write that follows from it whose read another call has
made out of date (it changed the document they loaded, or opened an incident of
the check for which they found none), or whose lookup failed. Only MongoDB is
modelled (`cmd/healthops/main.go:158`): the memory repository, whose update is
atomic, is constructed by tests only.

**CheckScheduler.** A timer is a zero-delay AfterFunc whose function never
returns while its check is enabled, so a timer and its goroutine are one loop:
`armed` until it fires, then inside runCheck (`guard`, `probe`, `report`,
`delay`, `exhausted`) or at its ticker. `timers`, `cooling` and `wg` are the
scheduler's fields, `main` is Service.Run, `handler` a request that writes the
store and then schedules from its own copy. Start does not hold the mutex after it
has set `running`: sweeping the old timers (`SweepOne`, `DropOld`), reading the
checks, and for each the lookup of its timer, the arming of the new one and the
record of it (`StartOne`, `ArmTimer`, `RecordTimer`) are steps between which
handlers, loops and Stop take theirs. `raced` is history: the checks that a
handler scheduled in the middle of Start's scheduleCheck, so that an armed timer is
off the record. That the two goroutines write one Go map without a lock, which the
runtime may detect and abort the process for, is not modelled: the map operations
are taken in some order.

**AlertPipeline.** `tracker` holds the counters, `handler` the calls under way
with their results and their snapshot of the checks. The steps of a call are its
critical sections: count, evaluate the rules, then one alert at a time, then one
recovery at a time. The first of the two evaluations in the code, which keeps the
cooldown of a rule, only writes the alert log and is left out. Two variables are
history: `streak`, the true number of consecutive results in the order in which
they were counted, which no restart resets, and `overtaken`, the checks of a call
that another call has counted since. A verdict of an overtaken call rests on a
count that may be stale, so the streak properties speak of the others.

**MySQLRules.** `states` and `disk` are the engine's memory and its file. A run
samples, evaluates every rule under the engine's mutex, acts on the verdicts in
the order of the rules, and ends with the handling of its own, healthy, result.
`lostWrites` counts the failed writes of the file (at most `MaxLostWrites`);
`rewound` is history: a restart has read a file that such a write left behind.

**NotificationDispatcher.** Each incident may own a debounce timer, whose flush
is `flush[i]`; `flush[Main]` is the flush inside Stop. Dedup (`notified`) and
cooldown (`cooling`) are tested in one critical section and recorded in another.
`sends` are the goroutines that deliver a message; the outbox record they write
about it is left out, because nothing reads it back. `state` is what a read of
the channel store yields: the adapter turns a failed read into an empty list, so
a failure is a moment in which all channels are absent. Whether a channel has a
cooldown (`Cooled`) is chosen initially.

**RemediationEngine.** `run` is a trigger on its way from the configuration
through the limits to the execution; `attempts` is the collection, `running` the
atomic counter. Every repository call may fail.

**AIQueue.** `queue` and `results` are the two collections. The worker claims
up to MaxConcurrent items and runs a `job` for each; `request` is an HTTP handler
that analyses on demand or reports for an external worker. `faults`, chosen
initially, says whether database calls may fail and the process may restart in
this behaviour: safety is checked with and without, liveness without.

**AIConfig.** `docs` are the provider documents with the number of the key each is
encrypted with, `keyFiles` the files, `todo` the writes an edit still has to make
under the adapter's lock, `active` the providers the service uses, `rotation` the
tool. When the providers cannot be listed the adapter answers with what it has
cached (`held`, of the last listing or edit): a start then has no providers, and a
reload takes the cached ones. Edits of prompts do not reload. `lags` and `botched`
are history: a reload failed, took cached providers that differ from the stored ones,
or was overtaken; a rotation failed half-way.

**AlertRules, Channels, Servers, Logs, MySQLSamples, Chat, Dashboards.** The
documents, and for each overlapping request, run or execution a record of where it
is and what it has read. History variables (`tooSoon`, `typed`, `mixed`,
`copied`, `typedPw`, `doubt`, `acked`, `overwritten`, `total`, `entitled`,
`disputed`) hold what clients were told or typed, and which requests overlapped in
the ways the code does not defend against; the properties exempt exactly those. A
POST of a channel that carries the mask the API shows stores the mask, so
`Channels` notes it in `copied`. The callers of `Dashboards` have a name or, by
legacy Basic Auth, none (`Anonymous`): a request without a name may change any
dashboard and creates dashboards without an owner, which anybody may change. A
dashboard's identifier may come with the request; the file store then writes over
the dashboard that has it, MongoDB refuses.

**UserAccounts, StatusPages, Maintenance, CheckStore, HybridStore.** The store in
use is chosen initially where the code has two. A file store does an operation in
one step, with the file written, not written or torn; MongoDB one call at a time,
with writes that fail before or after they took effect. Restarts load what is
stored. `Maintenance` answers its question with the queries that succeed (`reads`):
without the first one no window is found, without the second none that recurs.

**Heartbeats, DegradedMode, Retention.** Time is relative: `jobAge` and the age
of a ping or document count up to a bound above which nothing is told apart.
`handlePing` is the time stamp (`heartbeat_api.go:40`) and RecordPing (:68) in one
step.

**RateLimiter, RuleSeeding.** `visitors` are the buckets with the ticks since their
last refill, `admitted` the history of what was let through. `ruleDocs` is the
collection, `starting` the progress of a start, `engineRules` what the engine was
given; `wanted`, `cutShort` and `reseeded` are history: what operators did to a
rule, and which starts were interrupted or seeded.

Mutants: next to some definitions stand variants that are not part of the
specification, marked "Mutant:". Each shows that a property notices a plausible
mistake in that definition.

## 3. What is checked

TLC runs are listed with their bounds in `PROJECT.json` and the `.cfg` files.

### Properties that hold

| Run | Instance | Shows |
| --- | --- | --- |
| `incidents_mongo` | 2 goroutines, each evaluating and operating, 4 calls, 4 seconds, 2 severities, failures, time-outs, restarts, retention of 2 seconds | `AnnouncedAtMostOnce`; `SettledIsFinal`: a resolution is final once no goroutine holds an older copy; `ResolutionAnnouncedOnce`: a second announcement comes from a caller that had loaded the open incident too; `ImplementsLifecycle`: only a caller that is out of date leaves the lifecycle |
| `repositories` | samples: 2 executions, 3 samples, a restart of MySQL, either repository | `DeltasSound`: no delta above what was counted, one per sample, evidence not older than its sample |
| | servers: 2 servers, 2 requests, a run | `ServersSound`: list, collection and passwords agree when no request overlapped; a run reaches its server |
| | logs: 1 fingerprint, 2 callers, 3 entries, PATCH and categorizer | `LogCountsSound`: counts exact unless a document was written back |
| `scheduler` | scheduler: 1 check, 1 request at a time and Start beside it, 2 loops, 1 retry, cooldown | `ArmedIsRecorded` (a timer that has not fired can be stopped, unless a request raced Start at its check), `StoppedIsQuiet`, `LoopsEnd` (Stop returns, and the loops of a disabled check end), `EnabledKeepsRunning` |
| | heartbeats: 1 token, in the file or not, interval and grace of 1, restarts | `HeartbeatsTruthful`: no false verdict, and silence is noticed |
| | database: 3 outages, shutdown, restart | `OutageIsCleared` |
| | retention: 2 repositories with 3 collections, each broken or not, another failure | `RetentionKept`: nothing early, everything in the end |
| | limiters: 2 clients, one reached under two headers, rates of 1 and 2, a window of 2 ticks | `RatesKept` |
| | seeding: 2 default rules, one with threshold 0, edits and deletions by hand, failures, restarts | `SeedingSound` |
| `pipeline` | pipeline: 1 check, 1 rule, 2 overlapping calls, thresholds 2, failures, restarts, deletion, maintenance | `OpenedOnStreak`, `ResolvedOnStreak`, `OutageIsReported`, `RecoveryResolves` |
| | rules: 2 ids, 2 rules, 3 requests, cooldowns up to 2, failed writes, restarts | `RulesSound` |
| `mysql` | 1 rule with streaks of 2, 2 overlapping runs, failures, restarts, 1 lost write of the file | `OpensOnStreak`, `ClosesOnStreak`, `LastingIsNoticed` (a lasting breach opens, a lasting recovery resolves) |
| `dispatcher` | 2 incidents, one wanted by a filter and one by assignment, a channel that is edited, with and without cooldown, shutdown | `SendsSound` (nothing buffered without a timer, an opening sent once), `OpenEventuallySent` |
| | channels: 1 channel, 2 requests, 2 secrets, the mask sent back in updates and creations | `ChannelSecretsKept` |
| `remediation` | 2 triggers, 3 attempts, limit 1, failures, restarts | `EngineSound` (counter exact, running actions recorded, limit exceeded by racing requests only), `VerdictFinal` |
| `aiqueue` | queue: 2 items, 2 requests, the worker, with failures, restarts and pruning or without | `OneResult`, `FinishedIsFinal`, `QueuedIsAnalysed` |
| | configuration: 2 providers, 2 requests, 3 keys, a rotation beside the server, reads and writes that fail | `ProvidersSound` |
| `admin` | accounts: 2 names, 2 requests, tokens that live 1 | `AuthoritySound`: the last administrator is lost only in the named ways, authority expires |
| | pages: 2 pages, 2 slugs, 2 checks | `StatusPagesSound` |
| | dashboards: 2 dashboards, 2 owners and callers without a name, identifiers given or not, 2 requests at once and 4 in all | `DashboardsOwned` |
| | maintenance: 2 windows of 3 kinds, either query failing or not; 150 recurring windows against the reference definition over 12 days | `MaintenanceSound` |
| | checks: 2 checks, one with a secret; results: 3 | `CheckStoreSound` |
| | hybrid: 2 checks, 2 writers and the first sync | `HybridReads`: read your writes |
| | conversations: 1, 2 questions, 2 owners and requests without a name | `ChatsSound` |

The first seven modules of the table in section 2 each have a type invariant, and for
each it is proved; the others keep their types as part of an invariant of section 4.

### Disagreements between the code and its documents

Each of these runs checks one statement of a document, comment or test of the
repository, and TLC finds a behaviour of the code that breaks it. The findings
in `PROJECT.json` quote the statement.

| Run | What happens |
| --- | --- |
| `incidents_mongo_reopen` | an acknowledgement loaded before a resolution is written after it: the incident is open again |
| `scheduler_second_loop` | rescheduling a running check leaves the old loop beside the new one |
| `mysql_autoresolve` | the incident of a MySQL rule is resolved at the end of the run that opened it |

The models show more of them; these are behaviours of the specifications, and no
run is kept for each:

| Where | What happens |
| --- | --- |
| `incident_manager.go:46` | two goroutines evaluating a check in different seconds, or one whose lookup failed, open two incidents (`rushed` in the lifecycle) |
| `incident_manager.go:132` | two callers that both loaded the open incident both resolve it, and both announce the resolution (`stale`) |
| `scheduler.go:153` | a request that schedules a check while Start is at it leaves one of two armed timers off the record: neither RemoveSchedule nor Stop stops it (`raced`) |
| `scheduler.go:92` | Stop cuts off the checks it waits for, and they are reported as failures |
| `service.go:815` | two requests at once take effect in different orders on the store and on the schedule; an enabled check has no loop |
| `service.go:242` | a healthy run resolves the incident that a failing run has just opened (an overtaken call) |
| `service.go:198` | the run of a check deleted meanwhile opens an incident on its first failure |
| `service.go:242` | the incident of a latency rule is resolved by the call that opened it |
| `service.go:159` | a rule in its cooldown opens an incident; the cooldown limits the alert log only |
| `runner.go:336` | the rules of a check share an incident; the first to recover resolves it |
| `runner.go:324` | a MySQL rule opens an incident in a maintenance window |
| `mysql_rules.go:147` | a restart loses which incident an open rule belongs to |
| `mysql_rules.go:92` | after a failed write and a restart, a rule opens on samples that are not consecutive (`rewound`) |
| `notify/dispatcher.go:179` | two overlapping flushes both pass the cooldown |
| `notify/dispatcher.go:202` | the process ends with messages unsent after the flush that should send them |
| `notify/dispatcher.go:419` | failed deliveries are not retried |
| `remediation/engine.go:507` | an SSH action that hangs holds its slot for ever |
| `remediation/engine.go:167` | an action runs without an operator |
| `remediation/engine.go:153` | two triggers pass the limit of attempts together (`AttemptsOvershoot` bounds by how much) |
| `remediation/engine.go:144` | an action starts in the cooldown of another |
| `remediation/engine.go:203` | a request without incident is refused for the attempts of other incidents |
| `cmd/healthops/main.go:714` | a start with no registered action turns the engine on |
| `ai/repositories/mongo_ai_queue.go:171` | an item claimed before a restart stays in processing |
| `ai/repositories/mongo_ai_queue.go:222` | a completed item has no result |
| `ai/service.go:552` | the answer of a repeated analysis is not stored |
| `ai/repositories/mongo_config_repository.go:815` | the rollback of a rotation deletes the key that providers already re-encrypted need (docs/ai-key-rotation.md promises a safe rollback) |
| `alert_rules.go:56` | a failed write of the rules is ignored; POST accepts an id that exists, and DELETE then removes the first of the two |
| `repositories/channel_store_adapter.go:60` | a channel created from what the API shows has the mask for its secret (`copied`) |
| `repositories/channel_store_adapter.go:65` | a form sent back stores the shortened webhook address it was shown; two requests lose each other's change |
| `mongo_store.go` | an edit is decoded into the cached settings before it is validated; deleting every check and restarting seeds them again |
| `hybrid_store.go:185` | a deleted check stays in the mirror and is read again |
| `check_heartbeat.go:110` | the token of a check created by the API is unknown after a restart, and its pings are refused |
| `check_heartbeat.go:165` | a run that decided on an older copy marks a fresh ping missed |
| `degraded_mode.go:126` | the alert of an outage is lost with the database; a probe cut off by the shutdown opens a false incident |
| `logs/categorizer.go:129` | the categorizer and PATCH write back a whole family and lose the entries counted since |
| `server_api.go:67` | a removal shifts the list under a run, which connects to another server; a check whose server is missing runs on this machine |
| `ai/repositories/config_store_adapter.go:57` | when the providers cannot be listed a start has none, and an edit puts the cached ones in use |
| `custom_dashboard_api.go:252` | a request without a name changes and deletes anybody's dashboard; in the file store a POST that names an identifier writes over the dashboard that has it |
| `repositories/mongo_maintenance_repository.go:184` | a query that fails answers that there is no window, and alerts are sent during one |
| `repositories/mongo_maintenance_repository.go:204` | a recurring window is not found while another window is active |
| `repositories/mongo_user_repository.go:247` | two requests delete the last two administrators |
| `repositories/mongo_chat_repository.go:181` | every question renames its conversation |
| `ai_chat.go:513` | of two racing questions, one prompt shows its own question twice and lacks the other |
| `repositories/mongo_mysql_repository.go:126` | overlapping executions compute two deltas from one previous sample |
| `cmd/healthops/main.go:331` | a start that fails half-way leaves some of the default MySQL rules out, and no later start adds them |
| `backend/internal/httpx/ratelimit.go:42` | a client gets twice its rate around a refill |
| `cmd/healthops/main.go:367` | snapshots and MySQL samples are kept 30 days where docs/api-reference.md says 7; audit, logs, root-cause reports, remediation attempts and evidence are never pruned |

### Bounds

Bounds are constants, and each is chosen so that the case it could hide occurs:

* Two goroutines (`Callers`, `Handlers`, `Runs`, `Requests`) are enough for every
  race listed, since each race has one goroutine between a test and its use and
  one that changes what was tested. The scheduler has two loops (one may have been
  replaced by the other) and, because `EnabledKeepsRunning` fails with two
  requests for one check at once, one request at a time.
* `MaxClock` (seconds) must let identifiers both collide and differ, and, with
  `Retention`, let a document age and be pruned. `MaxCalls` (4) is a bound of the
  instance, not of `Incidents`: two calls open and resolve an incident and two more
  race for it. `MaxDashRequests` (4) lets a duplicate overlap an update of the
  duplicate and a change of its original.
* Streaks are cut off at the larger threshold or one above it (`Cap`): they are
  only compared with thresholds, so larger values behave alike. Thresholds of 2 tell
  a streak from a single sample.
* Identifiers that nothing refers to any more are taken again (`Fresh` in
  `MySQLRules`, free loops in `CheckScheduler`), so the small sets bound how many
  exist at a time and not how many a behaviour uses.
* The calendar of `Maintenance` has months of 5, 3 and 4 days of 2 slots, so that
  a day is missing in the next month, windows cross midnight and a month's end and
  are longer than a day, a week or a month; weeks keep their 7 days.
* Two of everything that is compared (pages, slugs, dashboards, owners, servers,
  checks, providers) let one collide with the other; one document per collection
  in `Retention`, one fingerprint in `Logs`, one conversation in `Chat` suffice
  because documents of one kind do not affect each other there.
* `RateWindow` is long enough for a request inside a window, at its end and after
  a cleanup; two default rules, so that a start can insert one and miss the other.
* `MaxStamp`, `MaxSent`, `MaxEdits`, `MaxChanges`, `MaxRequests`, `MaxWrites`,
  `MaxKeys` bound how often something is done; each lets the first two doers
  overlap and a third look at what they left.
* Callers, requests and executions are interchangeable where `SYMMETRY` says so,
  and no liveness property is checked in those runs.
* `Attempts`, `Incidents` and retries are small numbers; the proofs below are
  for any.

`CHECK_DEADLOCK FALSE` appears where the process really ends, the scheduler
after Stop and the dispatcher after Exit, and in `admin`, where requests stop when
their bound is reached.

### Fairness

Weak fairness only, and only of steps the program itself takes: goroutines that
can run do, timers and tickers fire, probes, HTTP requests and provider calls
end because they have a timeout. An SSH command has none and gets no fairness.
Nothing is assumed of requests, operators, failures, restarts or the target.
`AlertPipeline` and `MySQLRules` assume that a check is executed again and again,
which `CheckScheduler` shows. Time passes (`TickHeartbeats`, `NextDay`), probes of the database and deletions end
because they have a timeout. In `Retention` a step is fair and its failure is not:
failures other than those of a broken repository are finitely many.
Where failures are part of the instance, the
liveness properties say what happens once they cease (`FaultsEnd`, that is
`<>[][~Fault]_vars`), or in behaviours without any (`faults`).

## 4. What is proved

| Module | Theorems | Assumptions |
| --- | --- | --- |
| `IncidentsProofs` | `TypeCorrect`, `SettledFinal`, `AnnouncedTheorem`, `ResolutionTheorem`, `LifecycleTheorem` (refinement) | the operation timeout is below the retention period; the last two exempt callers whose read is out of date |
| `CheckSchedulerProofs` | `TypeCorrect`, `RecordedTheorem`, `QuietTheorem` | none beyond the constants |
| | `SeedingTheorem` | at least one default rule |
| | `HeartbeatsTheorem`, `RetentionTheorem` (the safety halves of `HeartbeatsTruthful` and `RetentionKept`) | an interval and a grace of at least one; a fallback of at least one day |
| | `RatesTheorem` | a window and rates of at least one; the address of every request is a client |
| | `ServersTheorem` | finitely many servers; the mask is not a password |
| `AlertPipelineProofs` | `TypeCorrect`, `OpenedTheorem`, `ResolvedTheorem` | the properties exempt overtaken calls and deleted checks |
| | `RulesTheorem` | cooldowns are integers, the default rules a list whose ids requests can name |
| | `MaintenanceTheorem` | a calendar of at least one month, months and days of at least one day and slot, starts on the calendar, finitely many windows |
| `MySQLRulesProofs` | `TypeCorrect`, `OpensTheorem`, `ClosesTheorem` | the properties exempt what follows a restart from an outdated file |
| | `DeltasTheorem` | none |
| `AIQueueProofs` | `TypeCorrect`, `OneResultTheorem`, `FinishedTheorem` | none beyond the constants |
| | `ProvidersTheorem` | the mask is not a key that users type, and no request is main itself |
| `RemediationEngineProofs` | `TypeCorrect`, `EngineTheorem`, `VerdictTheorem` | finitely many triggers and attempts, at least one attempt and check |
| `NotificationDispatcherProofs` | `TypeCorrect`, `SendsTheorem` | none beyond the constants |
| | `ChannelsTheorem` | the mask is not a secret |
| `AdministrationProofs` | `AuthorityTheorem`, `StatusPagesTheorem`, `DashboardsTheorem`, `CheckStoreTheorem`, `HybridTheorem`, `ChatsTheorem`, `LogsTheorem` | finitely many checks of pages, dashboards and requests that log; a window of at least one message; the mask and the seed are not secrets that users type |

All hold for every number of goroutines, checks, rules, incidents, requests,
documents and retries and for every threshold. The exemptions are exactly the
behaviours listed above for
`service.go:242`, `service.go:198`, `mysql_rules.go:92`, `incident_manager.go:46`
and 132, and `scheduler.go:153`. Where a property of a component exempts
requests that overlapped or writes that failed, the theorem exempts the same ones
and no others, since it is about the same definition.

A component that shares its run with others has a specification of its own for
its theorem (`UsersSpec`, `SamplesSpec`, ...: its Init and its Next). The run
takes the same Next under `focus`.

The arguments:

* *An incident is announced once.* `AnnouncedAtMostOnce` alone is not inductive:
  a pruned document would let its identifier be inserted again. The invariant
  adds that a goroutine about to insert an identifier began no longer ago than
  the operation timeout (`InsertIsRecent`), the same for copies about to be
  written back (`WriteIsRecent`), that an announced identifier exists or is too
  old to be inserted (`AnnouncedIsTaken`), and that a goroutine about to announce
  is the only one.
* *A settled resolution is final.* A resolved document changes only through a
  copy taken before; when nobody holds one, none can be taken, because the
  mutators refuse a resolved document.
* *A resolution is announced once.* A caller that is about to replace the document
  and is not out of date holds what the mutator makes of the document as it is now
  (`ReplaceIsFresh`), so what it resolves is open still.
* *The lifecycle.* The same for every write: a caller that is not out of date
  changes a document the way its mutator allows, and inserts where its check has no
  open incident (`InsertIsFirst`); the write of any other is an `Overwrite`.
* *Stop is quiet.* The wait group holds exactly the loops inside runCheck, a
  cancelled scheduler has no timer on record, an armed timer is on record unless it
  is the one Start is about to record or its check was raced, and Stop leaves its
  wait only with an empty wait group.
* *Streaks.* The engine's counters never exceed the true streaks: both are
  bumped by the same sample, and whatever resets the true one resets the
  counter. For the MySQL rules the file agrees with the memory in status and
  counters until a write is lost, so a restart changes neither or sets `rewound`.
  For the pipeline, a call past its test still has a sufficient streak unless
  another call was counted meanwhile, which is when `overtaken` names the check.
* *One result.* An item with a result, or with a goroutine about to insert one,
  is completed or gone from the queue for good (`Spent`), and Complete's
  conditional update lets a second one pass never.
* *Providers.* One update writes at a time, and between its `clearDefault` and the
  write that sets the flag no document has it. A view that a reload has read and nothing
  overtook is what the documents say, since whatever writes makes it stale or lets the
  service lag (`ViewsRight`). A rotation may delete the key of version 2 when it fails;
  before its first re-encryption nothing stored is encrypted with it, and afterwards its
  failure is what `botched` notes (`KeysRight`).
* *The engine's books.* The counter equals the number of goroutines inside execute;
  each of them past its insertion holds a stored attempt that says so, and no two
  hold the same (`HoldersApart`). The stored attempts of an incident and the
  goroutines that have passed the limit and inserted nothing yet exceed the limit
  together by at most the other goroutines (`OvershootInv`).
* *An opening is sent once.* This does not rest on the dedup entries, which a
  resolution clears, but on an incident being in one place (`OnePlace`): the buffer,
  then one flush, then messages, of which a flush sends one per channel.
* *Deltas.* A reading of the server is a life of the server, what it had counted in
  all, and its counter. Any two readings, stored, under way or in a delta, agree
  (`ReadingsAgree`): in one life the difference of the counters is what was counted
  in between, and a later life has counted after every reading of an earlier one. So
  a negative difference, which counterDiff turns into 0, can only hide something.
* *Default rules.* While a start seeds without a failure, every rule before the
  next one is stored unless an operator deleted it; a start that seeds has noted
  that every rule may come back.
* *Heartbeats.* A run decides on a copy, and the copy is right as long as no ping came
  in since it was taken, which is what `pinged` says; the copy of a token that is known
  ages with the job's last call.
* *Retention.* A pass decides by the day on which it looks at a repository, and a
  document only grows older while the pass waits, so the pass may be late and is never
  early.
* *Rates.* A bucket younger than the window lacks exactly what was let through since
  its refill; what was let through before that and within a window is of one earlier
  bucket, since two refills are a window apart.
* *Alert rules.* An id that at most one rule has, and that no request has named since
  its last alert, fired with the cooldown its rule still has (`CoolRight`). A pass over
  the list is a recursive function over its positions: what holds before the first
  rule and is kept by each holds after the last, since there is no first position
  where it fails (`LeastNumber`).
* *Maintenance windows.* Every time has a day and every day a month, since months
  follow each other without gaps. For each recurrence the occurrence computed from the
  calendar fields of the present time is the latest beginning not in the future: a whole
  number of periods after the start and less than one before the present, or, by the
  month, the only beginning in its month, earlier than those of later months. Whether
  some beginning is less than the duration ago is decided by the latest one. On
  MongoDB, one-shot windows that are active are all in the answer of the first query, and a
  recurring one is in the answer of the second when it is the only one active.
* *Servers.* While nothing is in doubt one request at most is under way, and the list
  differs from the collection in the server of that request only (`Agreed`,
  `AloneIsAlone`). A pointer that nothing cut points inside the list at the server it
  was taken for, because `removeCachedServer` alone moves servers (`RunRight`).
* *Channels.* The mask is stored by a creation only, and updates carry on what is
  stored. A channel that is not mixed has at most one request that has read and
  not replaced it, and what that request will write agrees with what was typed.
* *Accounts.* On MongoDB a deletion that nothing overtook has seen an administrator
  of another name, who is still there; a token of an administrator expires at most
  its life after its user was last one, since it was signed while the role was held.
* *Status pages.* Beside unique slugs in memory, the file, when it can be read,
  has unique slugs too, and holds what is in memory unless a call ended in an error.
* *Dashboards.* Whoever with a name was allowed to change an owned dashboard that is not
  disputed owns it still: each step that could give it another owner meanwhile makes it disputed.
  A duplicate that waits for its new owner has an identifier nobody else gets.
* *Checks.* What a request decoded into the cached settings stays there until it is
  decided; the password in use is the one that was sent, or the one that was there.
* *The mirror.* While a sync runs its snapshot may be stale, but then the write that
  made it stale is waiting for the lock, and will sync again.
* *Conversations.* An identifier is given once, so who was let in is let in for as
  long as the conversation is stored; each question has its messages in the order of
  its own steps.
* *Logs.* Each request that has yet to count its entry leaves room for it in the
  count of its family, and so does each document that is going to be written back.

These changes of the models came out of the proofs. `Verdict` of `MySQLRules`,
`HbVerdict` and two operators of `StatusPages` had CASE expressions whose guards
overlap, where TLA+ leaves open which is taken; they are IF chains now, in the order of
the code. The samples of `MySQLSamples` were a sequence that TLC could prune and
the prover could not; they are a set with positions. `setCachedServer` and
`removeCachedServer` of `Servers` are given by positions of the array for the same
reason, and what was let through (`RateLimiter`) by a cardinality instead of a sum;
a pass over the rules of `AlertRules` is a recursive function instead of a fold.
What an update of `AIConfig` still has to write is a set in the order of its kinds
instead of a sequence put together from one.
Constants got the assumptions
above, each of which every instance satisfies.

Left to TLC: liveness under fairness and everything about ENABLED, which the
prover does not reach; `DegradedMode` and the other halves of `HeartbeatsTruthful`
and `RetentionKept`, which are liveness. Every safety property that the passing runs
check is the subject of a theorem.

## 5. Not modelled, and the plan

Not modelled: analytics, metrics and exports, which compute percentages from stored results;
root-cause analysis, evidence, recommendations and automation, which collect and
format documents per request; the audit log, which nothing reads back; the probes,
the SSH collector, the live streams, the providers' HTTP clients and the wire
formats of the channels, which are I/O; configuration parsing, the web interface
and the tools. Of the modelled components: reads without effect, the notification
outbox, which is written and never read back, the API of the remediation actions,
the memory repository of incidents and the file stores that only tests use
(`NotificationChannelStore`, the file queue).

Next modules: `RunOnce`, the worker pool of the runner with its overlap guard; a
composition of `CheckScheduler`, `AlertPipeline` and `IncidentLifecycle` that shows
one incident per outage from end to end.

Next theorems: type correctness of the components whose theorem is about one
invariant, stated beside it.

## 6. Running

```
tlc -config incidents_mongo.cfg MCIncidents
tlapm IncidentsProofs.tla
```

Every run takes at most about three minutes with two workers, the proofs about
ten minutes together, most of it for `AdministrationProofs`.
