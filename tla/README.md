# TLA+ models of uns-api-global

`uns-api-global` is a Node.js process that answers history and latest-value
requests from a time-series database, keeps a cache of live values that arrive
over MQTT, and runs *automation* on that cache: triggers, and captures that
record sessions of rows.  Its definitions, the tables of its topics, the topics
of its entities and the state of its tokens come from a controller; its process
can be handed over to a successor.  This directory holds TLA+ models of the
parts of that program whose correctness depends on the order of events, models
of its pure algorithms, the TLC configurations that check them, and theorems
proved with TLAPS.

Source paths below are relative to the repository (`src/captures/service.ts`);
`PROJECT.json` maps every definition to its source lines.

## 1. The system

Everything runs in one event loop: a handler runs to its next `await` without
interruption, and any other handler may run before it resumes.  The hard
behaviours are therefore the state read before an `await` and used after it,
results that come late or in another order, failures in the middle of a
handler, and, for the one component with files, crashes.

| Component | State | Operations | Interacts with |
|---|---|---|---|
| Capture audit outbox (`captures/audit-outbox.ts`, `audit-transport.ts`) | entries by session, a promise chain of operations, the running flush, one timer, `storageFailed`, `deliveryFailed`, checkpoint files | start, enqueue, flush, stop | the capture service enqueues and asks `canRecord`; the controller upserts sessions; the file system |
| Capture service (`captures/service.ts`) | condition states, one active session per capture with a chain of publications, pending openings, session timers | onMessage, onTriggerFire, timers, registry refreshes, start/stop, pause/drain/export/import | registry, outbox, publisher, value cache |
| Query admission (`query-diagnostics.ts`) | in-flight reads by key, a priority queue, slots, the interactive streak, a cooldown, the lookups' shared ranks | query, runRecovery, joinRecovery, aborts | every database read of the process |
| Definition registries (`captures/registry.ts`, `triggers/registry.ts`, `controller-registry-health.ts`) | definitions and their indexes, a generation, the coalesced refresh, health with its latch | start, refresh, pause, stop, list | controller, listeners of the capture service |
| Triggers (`triggers/*.ts`) | per-trigger edge, cooldown and aggregation state | onMessage, fire, publish | value cache, captures |
| Latest values (`latest-value-history.ts`, `background-cache-seed.ts`, `budgeted-fallback-rotation.ts`, `index.ts`) | `lastValueMap`, lookups in flight, their waiters and failures, the seed's cycle, the rotation's cursor | live packets, batch requests, the seed, eviction, release, import, activation | query admission, value cache |
| Authorization status (`authorization-status.ts`) | verdicts by token, probes under way, a cooldown | check | controller, every handler |
| Entity bindings and values (`entity-binding-client.ts`, `entity-last-value-cache.ts`) | intervals by entity and range; bindings, topics and values by selector | listIntervals, replace, observe | controller, live packets |
| Mapping cache (`questdb-mapping-cache.ts`) | one list of mappings, a load under way, two cooldowns | resolve | controller |
| History reads (`history-table-source.ts`, `entity-query-planner.ts`, `catchall-helpers.ts`, `raw-export-window.ts`, `topic-matcher.ts`) | a cache of table columns | plan, read, merge, export, counter rises | all of the above |
| Process handover (`index.ts`, `migration-state.ts`) | ownership flags | release, drain, export, import, activate | all stateful components |

What makes each of them correct:

- **Outbox**: what `enqueue` confirmed survives a crash of the host at any
  point until the controller has it; nothing but a delivered close is
  forgotten; a close is final; whatever is persisted is eventually delivered;
  failed storage pauses recording.
- **Capture sessions**: at most one session per capture, none out of reach of
  the handlers that close it; no output without a checkpoint that a restart
  can close; a close counts the rows exactly and ends whatever fails; a
  session ends at its stop condition and at its maximum duration; all of this
  also when the session goes on in another process.
- **Query admission**: slots are exact; the waiting bound holds; one read per
  statement and owner; a cancellation stays with its owner; a caller is not
  delayed by what it joined; no class starves another one.
- **Registries**: a late answer never brings back older definitions; exactly
  one interval refreshes a registry that is started, none a paused one; health
  says what the getters do; a registry recovers from every failure and refusal.
- **Triggers**: a rise of the condition fires, once, whatever was evicted,
  disabled or handed over since the last message (a composite may repeat it,
  section 5); fires are a cooldown apart; a
  trigger with snapshots fires with all of them or not at all.
- **Latest values**: an archived value never replaces what a live packet or a
  handover brought; the coordinator's books are exact; a topic that failed
  rests; each miss gets its turn; a released process fills nothing in any more;
  every request is answered.
- **History requests**: what was decided before an `await` was true a bounded
  time ago (token, plan, tables); an answer has every table it should have or
  says which one is missing; every request ends.
- **History answers**: an entity's history over several topics has each of its
  rows once; buckets, rises of counters, exports and the recovered newest value
  are what the recorded rows say.

## 2. Modules

| Module | What it is |
|---|---|
| `AuditLedger` | abstract: evidence that only grows, and is given up only when it was delivered |
| `AuditOutbox` | the outbox with its files, crashes and the controller; implements `AuditLedger` |
| `CaptureSession` | the sessions of one capture definition, handed from process to process |
| `QueryWorkload` | admission of database reads |
| `TriggerEvaluation` | one trigger over the cache of last values |
| `ControllerView` | abstract: a cache of controller data that never shows an older version |
| `DefinitionRegistry` | a registry of definitions, its refreshes and its health; implements `ControllerView` |
| `LatestLookup` | `lastValueMap`, its recovery from the history, the seed, the handover |
| `RequestClock` | what the parts of a history request share: requests, their reads, ages |
| `AuthorizationStatus`, `EntityBindings`, `MappingCache`, `HistorySources`, `EntityValues` | the caches that a history request goes through |
| `HistoryRequest` | composes these five: requests from the token to the answer |
| `TopicRules` | which rule, source or mapping covers a topic |
| `HistorySql` | what the statements ask of the database; ranges, buckets, exports |
| `EntityHistory` | planning and merging an entity's history over its topics |
| `ArchivedLatest` | the newest archived value, or a conflict |
| `CounterDelta` | how much a counter rose in each bucket |
| `HistoryAnswers` | composes these five pure modules and compares with what was recorded |
| `Filtering` | what a loop keeps of a sequence, and the order a sort puts it in |
| `FilteringProofs` | what a filtered sequence contains, orders and finite sums, and the induction they take |
| `AuditOutboxProofs`, `CaptureSessionProofs`, `HistoryAnswersProofs`, `HistoryRequestProofs`, `LatestLookupProofs`, `QueryWorkloadProofs` | inductive invariants and theorems of the module they are named after |
| `AutomationProofs` | the same of `DefinitionRegistry` (`Init`, `Next`, `Spec`, `IInv`) and of `TriggerEvaluation`, whose names begin with `Trigger` (`TriggerInit`, `TriggerNext`, `TriggerSpec`, `TriggerIInv`) so that one module can extend both |
| `MC*` | instances for TLC: definitions, operators for symmetry |

### AuditOutbox

`mem` is the map `entries`; an entry keeps the event type, the row count, the
version and the flags `durable` and `acknowledged`.  `queue` is the promise
chain `writes`: `serialize` appends, and the operation at its head runs, `step`
telling how far its file operation got.  A write is two steps, the rename that
makes the new file visible and the directory sync that makes it permanent;
either may throw.  `survivors[k]` is the set of contents a crash may leave of
file `k`: a rename or an `rm` adds one, a sync (of the one directory, hence of
all files) keeps only what the process sees.  `Crash` picks one of them per
file.  `flush`, `ahead` and `sending` are the loop of `flushOnce` with its
live iteration: an entry added while it runs is visited too.  The controller is
the upsert that `docs/automations-runtime-recovery.md` describes, external to
this repository; a request whose deadline passed may be lost, or arrive later
(`wire`, `LateArrival`).  `Stop` has the guard of the handover drain, the only
caller of `stop`.

`AuditLedger` says what all this amounts to for a session whose events are
reported: what is kept of it has the kind of one report and the rows of one,
only grows, is what the callers were promised and the controller is told, and
is given up only when the controller has its close and all its rows.  The
mapping reads `kept` off the files (`survivors[k]`, of which a restart finds
one), `promised` off the acknowledgements, `told` off the requests that are
sent or still on the wire, `shown` off the controller's rows; `reported` is
history.  A rename or an `rm` is `Keep`, `Interrupt` or `Forget`, a directory
sync `Settle`, a write that ends well `Promise`, the start of a request
`Tell`, its arrival `Show`; the rest of the program stutters.

Left out: the content of events other than type and row count, validation of
files (an unreadable file is `LoadThrows`), the length of retry delays.

### CaptureSession

One definition, chosen at the start from `Definitions`; sessions are numbered.
`value` is which conditions are true of the cached values now, `wasFalse` what
the last evaluation remembered, `backlog` the messages whose `onMessage` still
awaits the evaluation of other captures.  `opening` is the pending opening,
`active` the entry of `activeSessions`, `closer` where `closeSession` is.
`chain` and `rowStep` are a session's `publishQueue`; `audits` is the outbox's
queue with the handler that waits for each event, and `ledger` the entry it
makes of them (the module above has the rest).  `life` is the two flags
`stopped` and `handoverPaused`: `prepared` (`prepareForHandover`), `starting`
(inside `start`, while the registry refreshes), `running`, `released`
(`pauseForHandover`), `settling` and `drained` (`drainForHandover`), `stopped`.
`rearmed` is history: the sessions that `start` found closing and armed again.

`Handover` is one step of two processes: the drained one exports, the prepared
one imports, and from then on the variables are the successor's.  Its guards
are what the two sides insist on: `captureMigrationState` accepts only
`closing: false`, the definitions must be the same, an active session needs its
definition, and the source delivered its outbox before.  The drain first awaits
the openings and the accepted messages (`WorkDrained`), and then the rows of the
session that is active at that moment (`Drained`), so a
close that a refresh started may still run when the state is exported; such a
handover is refused, not lost.  The `ledger` is what the outboxes of the two
processes have together: the source keeps the acknowledged open checkpoint of
a session that the target continues.

Left out: values of rows and aggregates (whether a required one is missing is
a choice), metrics and diagnostics.

### QueryWorkload

A call is `queued`, `granted` (its promise resolved, not resumed), `executing`,
`settled`, or it `joined` another one and is `resolved`.  `workload` maps each
call and each lookup to the `workload` of its admission object; a call of a
lookup uses the lookup's object, which is how `joinRecovery` reaches reads that
are queued already.  `release` selects the next entry exactly as the code does.
Left out: the diagnostic events and counters, the hashing of keys (equal
statement and owner), the length of the deadlines.

### TriggerEvaluation

`trigger` is what the registry returns for one id, of any kind; `state` is its
`TriggerRuntimeState`: `seen` for `lastSeenValue`, `firedAt` for `lastFiredAt`,
`comparison` and `composite` for the two remembered results.  `cache` is
`lastValueMap`.  `Input` is the whole message handler, `updateLastValue` and
then `onMessage` with the cached entry; `BadInput` the same for a packet that
changes nothing, for which the handler still evaluates the old entry.  Each
evaluator is an operator that returns what to commit and whether there is an
edge; the cooldown and the snapshots, which every evaluator checks last, are
one place (`Fires`).  Around it are the steps that can make the remembered
state and the cache disagree: `Evict`, `Recover` (the seed and the requests
fill an absent entry, with the time of the measurement), `Redefine` (the state
is kept by id), `Toggle`, `Restart` and `Handover`.  `level`, `heard` and
`lastFire` are history: what the last message that could tell said of the
condition, computed from the cache and the definition without the remembered
state, and the last number it brought to a threshold.  An edit is judged, too
(`LevelUnder`): a new threshold is held against that number, a condition that is
not touched keeps its level, and of any other one nothing is known.

A reading is a number, another text or nothing usable; a number and its decimal
text are one reading, and a Boolean is a word.  Left out: the publication and
the capture hook (not awaited by the handler), metrics, the value published.

### DefinitionRegistry and ControllerView

The two registries have the same code for everything modelled here; the
capture registry has listeners, which are awaited, and the trigger registry has
none.  `refresh[i]` is one call of `refreshOnce`: `phase` is the `await` it is
at, `generation` its argument, `expiry` its token's, `rows` the definitions it
brings.  `refreshPromise` is the one that others join.  `version` counts the
edits at the controller; an answer has the definitions of some time between the
request and its arrival.  `byId` is the version that is cached, `NoRows` an
empty registry.  `accepted`, `checkedAt`, `expiresAt` and `healthy` are
`ControllerRegistryHealth`; `Use` is any getter, each of which runs
`executionAllowed`.  `starting` is the refresh that a call of `start` awaits,
`armed` counts the intervals that run and `refreshTimer` says whether the
registry still has the handle.  `Clock` may set the clock forward and back.

`ControllerView` says what such a cache promises its users in three actions:
the controller is edited, the cache shows a version between the newest it has
shown and the controller's, or it shows nothing.  `DefinitionRegistry`
implements it with `truth <- version, seen <- newest, view <- byId`.

Left out: which rows are valid, the indexes, what listeners do (CaptureSession
has that), the wording of the health message.  A process calls `start` again
only after its earlier call returned, which the proxy process's activation
guarantees and the registry itself does not.

### LatestLookup

`cache` is `lastValueMap`, reduced to where a value came from.  A batch request
asks for a list of topics that may name one twice; `item[c][i]` is what a caller
(a batch request or the seed) does about the topic at place `i` of the list:
whether it is to try it, owns the lookup, joined it, or settled at once, and
what it got.
`pending`, `waiters` and `failures` are `LatestLookupCoordinator`; `cursor` is
`BudgetedFallbackRotation`; `seeding` and `accepting` are `BackgroundCacheSeed`.
A lookup itself is external: it ends with a value, without one, with an error,
refused by the queue of `QueryWorkload`, or not until its timeout.  The process
is passive, importing, imported, active or released, as the hooks of `index.ts`
make it.  `others` counts the other lists that were asked for since this one: at
`MaxCursors` of them its cursor is evicted, and it begins again (`AskElsewhere`).
`authority`, `quiet`, `missed` and `skipped` are history: what a packet
or a handover put there last, how long ago a topic failed, the misses of the last
request, and how many requests in a row with just these misses passed one over.

Left out: topics that only differ in their spelling, revisions of topics, the
admission of whole requests (`HistoryRequest` has it), and of the requests for
other lists everything but their cursors.

### HistoryRequest and its parts

A request is `authorizing`, `planning`, `reading` and so on until it is
`answered` or `failed`; the reads it makes side by side (`Reader`, a request
and a place) each resolve their tables, learn their columns and query them.
`AuthorizationStatus`, `EntityBindings`, `MappingCache`, `HistorySources` and
`EntityValues` have the variables and steps of one shared cache each; the
composition says which of them a handler calls in which order.  The controller
and the database are external: a token may be revoked and restored, bindings
and mappings edited, a table dropped at any time, and each call looks at them
at one moment and returns at a later one, or fails.  Time is ages: each instant
the program keeps is compared with one limit only, so its distance from now is
counted up to that limit (`RequestClock`).

A request for the last value of an entity has two caches to do with: that of the
entity (`entityValues`), and the results that its batch takes of the topics, some
before and some after the lookups (`captured`).  `EntityAnswer` is which of them it
answers.

Left out: parsing and validation of parameters, the response's format, limits
on its size, diagnostics, resolving a path to an entity.  The fetch of a plan's
bindings is one call, for however many entities; the process's own access token,
which each call of the controller asks for first and which `timeoutMs` does not
cover (`entity-binding-client.ts:340`), is taken to come or to fail.

### HistoryAnswers and its parts

The pure functions are operators: what a statement selects rather than its
text, on tables that are sequences of rows.  A step of `HistoryAnswers` asks
one question about one small table, binding set or mapping set, and the answer
is compared with a definition from the rows themselves: which were recorded for
the entity while each topic was bound, how much of a rise falls into a bucket,
which row is the newest.  Values between two samples of a counter are kept as
multiples of `1 / Scale`, exactly; samples come in any order.  `CounterDelta`
extends `HistorySql`, whose tables it reads.

An `ORDER BY` puts the rows in any order that its key allows (`Ordered`), so
what holds of the answers holds whichever of two equal rows the database puts
first.

Left out: the choice of the value column, parsing and text of statements,
summaries, the formats of values; for counters the end of interval rows and the
limit of the undivided read, since their rows have one time; for exports the
second sign of a page that was cut off, a count of the database above the rows it
returned (`raw-export-window.ts:34`).

## 3. Runs

| Run | Instance | States | Shows |
|---|---|---|---|
| `OutboxCrash` | 2 symmetric sessions, 2 crashes | 0.89 M | the outbox implements `AuditLedger` under crashes and failures of every disk operation and request, with a shared chain, directory and loop; nothing undelivered is forgotten; a wake-up is never lost |
| `OutboxDelivery` | 2 sessions in a directory that holds both open but not closed, 1 crash, fair | 0.73 M | every close and row count that is on disk reaches the controller, unless `load` refuses the directory for ever |
| `CaptureSafety` | 3 definitions, 2 sessions, 1 row and a summary each, any number of handovers | 7.6 M | safety of sessions, within a process and from one to the next |
| `CaptureEnds` | interval and summary modes, 1 session, fair | 0.50 M | a close ends; a maximum duration ends a session |
| `QueryAdmission` | 4 callers, 1 statement, 1 slot, 2 waiting, a lookup | 0.88 M | safety of admission |
| `QueryTurns` | 3 callers, 3 statements, 1 slot, fair | 0.28 M | neither class of foreground reads starves |
| `TriggerFires` | 8 definitions of 6 kinds, 2 topics, 2 numbers and a word, 3 readings of the clock | 0.52 M | rises fire once (a composite may repeat one, section 5), none is lost, cooldowns are kept |
| `RegistryRefresh` | 2 overlapping refreshes, 2 versions, 2 pauses or stops, fair | 0.09 M | the registry implements `ControllerView`; one interval; truthful health; recovery |
| `LatestReads` | 4 configurations: 1 or 2 requests and the seed, lists of 1 to 3 places, with a topic without history or one that comes twice, with other lists in between, fair | 0.77 M | what is newer stays in the cache, the coordinator's books, rest after failures, turns, a quiet release, answers |
| `HistoryReads` | 5 configurations, one for each cache with the others at rest, 2 requests, fair | 0.46 M | how old a token, a plan and a mapping may be when used; complete answers; cached values within their bindings; every request ends |
| `HistoryAnswers` | every table of up to 3 rows over 2 topics, 7 sets of bindings, every question | 0.49 M | the answers of entity reads, counters, exports, recoveries and mappings, against what was recorded |

One run expects a violation, of a sentence of the repository:

| Run | Statement | What happens |
|---|---|---|
| `OutboxPause` | "Storage failure pauses new recording and reports degradation" | an enqueue fails while a flush is past its key; the flush ends well and clears `storageFailed` |

The type invariants of the outbox, the triggers and the registry are theorems;
those of the other components are a conjunct of `SlotsExact`,
`SessionReachable`, `WaitersExact` and `AnswerComplete`, and are proved with
them.

**Bounds.**  Two sessions are what the chain, the directory sync, the capacity
and the loop of the outbox can confuse, and what it takes to outgrow the
directory on load; two crashes let
a crash hit the recovery from a crash; row counts to 1 or 2 tell an old report
from a new one.  Two consecutive sessions are what an entry, a timer or an
opening of one can be confused with another; one row and a summary make a row
wait for another one; the theorems lift these bounds.  Four callers are one
that executes, two that wait and one too many; the starvation run needs one to
wait and two to keep overtaking it.  Two topics are the operands of a
comparison or a trigger and its snapshot, and a cooldown of two ticks spans a
tick at which others have passed.  Two refreshes are the one of an old
generation and the current one; two pauses make a refresh of the first
generation outlive both; a reading of the clock before and one after are what
expiry, staleness and a clock set back need.  In `LatestReads` a request and
the seed are an owner and one that joined, two requests are one waiter too
many, two topics are a budget of two and its turns, and three places a budget
of one whose rotation passes a sparse topic or meets the same topic again; of the
256 cursors two are enough to keep one over another list and to lose it to a
second.  In `HistoryReads`
only one cache moves at a time, because a request goes through them one after
the other and they share nothing but the request; two requests share a probe, a
load or an entry, and a third version of the mappings has a retired table
beside a new one.  In `HistoryAnswers` three rows are a duplicate and a third,
and the bindings move, overlap, return and begin late; instants are small
integers with every boundary hit exactly.  No question there is longer than the
lookback that `normalizeRange` truncates to; the theorem has those, too.  Deadlock is not checked where the
bounds stop the model (sessions used up, a stopped service, all questions
asked).

**Fairness.**  Outbox: the event loop runs what is ready, the file operations
settle, a crashed or failed process is started again, and a controller that is
asked for ever answers in time again and again (strong fairness of the steps
that failures compete with); crashes are never fair.  A process whose start is
refused is started again and refused again.  Sessions: publications
and audits settle one way or the other, and armed timers fire; nothing is
assumed of messages, refreshes or handovers.  Queries: promises settle and
every read ends (it has a statement timeout); the deadline of a queued read is
not used, so the turns are what admits it.  Registry: every await of a refresh
settles within its timeout, the interval fires, and a controller that is asked
for ever again and again gives a token without expiry and answers in time;
edits, pauses, getters and the clock are not fair.  Latest values: promises are
resumed and the coordinator's timeout fires; the database never has to answer.
History requests: every call of the controller or the database ends, with an
answer or at its timeout, and so do the calls for an access token, which have
none; edits, revocations and dropped tables are not fair.

## 4. Proofs

All theorems hold for every value of the constants, from the named assumptions
of each module (`OutboxAssumption`, `TriggerAssumption`, `RegistryAssumption`,
`CaptureAssumption`, `ConfigurationAssumption`, `WorkloadAssumption`; for
history requests `HistoryAssumption` and those of the five parts; for history
answers `RuleAssumption`, `ArchiveAssumption`, `RangeAssumption`,
`CounterAssumption` and `EntityAssumption`), which TLC evaluates in the runs.  The assumptions give constants
their types, make the sets that the program enumerates finite, and say what the
code establishes of its settings: the cooldown of the mappings is at most their
time to live (5 s and 60 s, the defaults, which `index.ts:2538` keeps), a fresh
interval entry is younger than a stale one (`entity-binding-client.ts:222`), and
a topic's list of mappings names each table once (`validateHistoryMappings`).
For the answers they say that the times that order rows are numbers or absent,
and that a rule which pins one level only pins a text that is not empty: `+//+`
is as long as `+/+/+` for the code, which could then choose either.  Those of
counters are numbers or absent, the bucket is positive, the policy one of the
two that the endpoint takes, and `Scale`, which the code does not have, a
multiple of every gap between two samples.  An entity has finitely many
bindings, topics and rules are lists of levels, a point time is never absent
(it is the designated timestamp of its table), a request's times are not before
the epoch, and its aggregate is one of those that `parseAggregateMode` lets
through (`catchall-helpers.ts:225`).

| Theorem | Statement |
|---|---|
| `TypeCorrect`, `TriggerTypeCorrect`, `RegistryTypeCorrect` | `Spec => []TypeOK` of `AuditOutbox` and `DefinitionRegistry`, `TriggerSpec => []TriggerTypeOK` of `TriggerEvaluation` |
| `NoEvidenceLost` | `Spec => []EvidenceRetained` |
| `OldReportsDeleteNothing` | `Spec => ForgetsOnlyDelivered` |
| `ClosedStaysClosed` | `Spec => ClosePermanent` |
| `ImplementsLedger` | `Spec => KeepsLedger`: the outbox implements `AuditLedger` |
| `OneFirePerRise` | `TriggerSpec => FiresOnRise` |
| `EveryRiseFires` | `TriggerSpec => RiseFires` |
| `CooldownAlwaysKept` | `TriggerSpec => CooldownKept` |
| `NoOlderDefinitions` | `Spec => []NeverOlder` |
| `IntervalOwned` | `Spec => []OneInterval` |
| `HealthTruthful` | `Spec => HealthyMeansUsable` |
| `RegistryShowsController` | `Spec => ShowsController`: the registry implements `ControllerView` |
| `Invariant` (of `CaptureSessionProofs`) | `Spec => []IInv` |
| `SessionStaysReachable` | `Spec => []SessionReachable`, with the types |
| `OutputIsRecorded` | `Spec => []OutputRecorded` |
| `CloseIsExact` | `Spec => []CloseExact` |
| `TimersAreOwned` | `Spec => []TimersOwned` |
| `AuthorityAlwaysKept` | `Spec => []AuthorityKept` |
| `ReleasedIsQuiet` | `Spec => SeedQuiet` |
| `WaitersAlwaysExact` | `Spec => []WaitersExact`, with the types |
| `TurnAlwaysKept` | `Spec => []TurnKept` |
| `QuietAlways` | `Spec => QuietAfterFailure` |
| `FlushAlwaysComes` | `Spec => []FlushComes` |
| `Invariant` (of `QueryWorkloadProofs`) | `Spec => []IInv` |
| `Slots` | `Spec => []SlotsExact`, with the types |
| `Bounded` | `Spec => []WaitingBounded` |
| `Once` | `Spec => []OneRead` |
| `Cancels` | `Spec => []CancelIsOwn` |
| `NotDelayed` | `Spec => []JoinedNotDelayed` |
| `AdmittedAlwaysRecently` | `Spec => AdmittedRecently` |
| `PlanAlwaysRecent` | `Spec => PlanRecent` |
| `MappingAlwaysRecent` | `Spec => MappingRecent` |
| `AnswerAlwaysComplete` | `Spec => []AnswerComplete`, with the types |
| `EntityValueAlwaysBound` | `Spec => []EntityValueBound` |
| `TablesMostSpecific` | `AnswersSpec => []MostSpecific` |
| `NewestAlwaysRecovered` | `AnswersSpec => []LatestExact` |
| `ExportAlwaysExact` | `AnswersSpec => []ExportExact` |
| `CounterAlwaysExact` | `AnswersSpec => []CounterExact` |
| `EntityReadAlwaysExact` | `AnswersSpec => []EntityReadExact` |

**Outbox.**  `EvidenceRetained` alone is not inductive.  The invariant `IInv`
adds: what the operation at the head of the chain and its `step` say of the
entry and the file it works on (`StepMeans`); that what a running send or
settle captured is an older or the same checkpoint of its key (`SendMeans`),
which is why an acknowledgement of an equal version may delete; for each key,
that every possible file content is at least as recent as the confirmed
evidence or that the controller has it (`Kept`); and that memory and the
visible files agree while an entry is durable (`InMemory`, `Visible`).  The
proof has one lemma per group of actions and one step per conjunct that an
action disturbs.

**The outbox's ledger.**  The mapping forgets what the process has in memory, so
every abstract step must be justified from what `IInv` and these conjuncts of
`LInv` relate.  `Newest`: what memory has of a session covers every content
its file may still have, and so does the visible file, except while a closed
entry's file is being removed; what is written next therefore only adds.
`Unsettled`: only open checkpoints are ever acknowledged, and while the process
loads nothing is written but a conversion, which is what makes that write an
`Interrupt`.  `OnDisk`: a durable entry is what the file shows, or the controller
has it already; this is why what is sent was kept first.  `Founded`,
`EnqueueFits`: rows and kind of everything kept come from reports.  There is one
lemma per action, which names the abstract step.  `ClosePermanent`, which
`ClosedStaysClosed` proves, is not checked by a run of its own: a file that is
reopened is a step that `AuditLedger` does not have.

**Sessions.**  Each property speaks of one session, but what keeps it true is
on its way through the outbox: a handler that awaits an event goes on with what
was true when it emitted it.  `EventFits` says that this is still true when the
event is settled (the session of an opening is not accepted yet and nothing
else is active; the session of a row is in use; a closing event has the final
row count), and `Apart` that no two events on their way can be answered by the
same handler: one opening at a time, one row and one close per session.
`SessionFits` keeps the books of each session: what is published, counted and
recorded, and that an accepted session that is not deleted yet is the active
one.  That `closeSession` deletes *the capture's* entry, whichever session it
has, is harmless because of this last conjunct.  The proof has lemmas for the
ways a step may touch the queue (append, settle, replace) and for the kinds of
steps (one that leaves the sessions alone or begins a close, one that opens,
one that accepts, publishes or settles a row, one that settles an event), and
each action is one of these kinds.

**Triggers.**  The history `level` is computed from the cache alone, the
evaluators decide by what they remember: `Means` says, kind by kind, that the
two agree (a remembered value is on the side of the threshold that the level
says, a remembered result is the level).  One lemma per kind shows that an
evaluation keeps `Means` and has an edge exactly for a rise (`Commits`).  An edit
keeps it because the remembered value of a threshold is the last number heard,
whatever threshold it is then held against (`EditStep`); a restart, because
without remembered state a threshold or a comparison only arms, and a composite
has false for what it does not remember, which is its exception in `FiresOnRise`.
`state.firedAt = lastFire` carries the cooldown.

**Registry.**  `NeverOlder` needs to know of every refresh under way what it
will bring: in the current generation only the one that others join is asking
(`OneCurrent`), and what it asks for is at least as new as anything that was
cached (`AsksNewer`).  A pause makes all of them old at once.  Health is
truthful because it is raised by one step only (`OnlyBodyHeals`), which has
just compared the credential with the clock, and lowered whenever a getter
finds the authority gone (`HealthHasRows`).  The refinement follows from the
same invariant: the step that ends a refresh is the abstract `Show`, the steps
that clear the definitions are `Hide`, and every other one but an edit
stutters.

**Latest values.**  A fill checks that the topic has no value, so what a packet
brought is safe; what must be proved is that the *absence* of an imported
operand is safe too until the activation.  `NoRequests` (a process that was
never active has none) and `SeedFits` (the import waits until the seed's cycle
is over, and nothing but the activation begins one) say that nobody could fill
it then; the last conjunct of `SeedFits` is what makes a released process
quiet.

The coordinator has an invariant of its own, `BooksInv`.  `Ledger` says that the
waiters are the callers that joined and that each pending lookup has an owner;
that a lookup has only one follows because an owner appears only when its topic
becomes pending.  `Remembered` orders the failures by age and says which topic
a full map may have forgotten: every failure it still has is then younger.
`TurnFits` is the argument of the rotation: the number of requests that passed
a miss over, times the budget, plus the distance of the cursor from it stays
below the length of the list.  An eviction of the cursor starts the count again
(`ElsewhereBooks`), so the theorem says nothing beyond it, and neither does the
code's README.

**The outbox's wake-up.**  `FlushComes` follows from `Woken`, which adds the one
moment at which nothing is scheduled yet: between the two steps of the write of
an `enqueue`, whose end schedules a flush.  A flush that ends with an entry left
has set the timer itself.

**Query admission.**  `IInv` has a conjunct for each thing the code counts or
links: the queue holds each queued call once (`QueueFits`); `active` counts
those that hold a slot, and nobody is queued while one is free (`SlotsFit`);
`coalescedWaiters` counts the followers (`WaitersFit`); a statement has one
entry per owner until its owner returns (`EntriesFit`); and who joined follows
one read, of its own owner, with a rank at least as urgent (`FollowersFit`),
which a promotion through the shared object of a lookup must keep too.

**History requests.**  `HistoryInv` has one conjunct per part, and each step of a
request is one of them with the others at rest.  For the caches it relates what
is stored to the time at which the source last said otherwise: an "active"
status, or a probe that has seen one, is at least as old as the token is
inactive (`StatusAge`, `ProbeAge`), because an entry is dated from the start of
its probe; an interval entry is at least as old as its version is replaced, and
what a fetch falls back to was that old when the fetch *began* (`EntryAge`,
`FetchAge`).  For the mappings `MappingFits` says that what the list in use
claims was true at most a load before it came, and `Ended` that whoever finds a
cooldown running had a load, good or failed, since it began: this is why a
reader that is told without a load of its own is still told something recent.
A read has every table of its list except retired ones found missing, each
table once (`ReadFits`); since it has at least two when it leaves one out, one
remains.  For the cached values, the newest binding of a selector to a topic may
be any of several with the same revision, and any of them will do
(`TopicUpdated`).

**Induction over data.**  The library's induction theorems take a predicate as a
parameter, which the provers cannot instantiate.  `FilteringProofs` states
induction over *sets* of naturals instead (`SetInduction`, from `LeastElement`,
which comes from the library's well-founded order on finite sets), shows with
it that the recursive function of a loop exists, and from there what `Filter`
keeps; `RefreshedExists` does the same for the loop of `handleBatchLast`.

**History answers.**  These modules calculate, so a theorem about them is one
about their operators, for tables and sets of mappings of any size.

- `TablesMostSpecific`: the code ranks rules by a sum of text lengths, the
  property by refinement.  A sum over a finite set does not depend on the order
  in which it is taken, hence a rule that pins more levels is longer; and a
  finite set of lengths has a greatest one.
- `NewestAlwaysRecovered`: a strict order on finitely many places has an
  enumeration, which counts for each place those before it, and has each once
  (`Ordered`).  In it the rows of the newest instant come first, so that
  whether they fill the page and one more row decides if all of them were seen.
- `ExportAlwaysExact`: a page that is not cut off is an enumeration of the rows
  its condition selects, and the conditions of two adjoining pages divide those
  of the whole, so each row is exported as often as it was recorded.
- `CounterAlwaysExact`: the rows read are those of the table between the two
  ends, sorted (`Spans`), and the row before one of them is the same in both.
  What the loop has reached rises from each row to the next by what the table
  says it rises there, restarts included, and it keeps one sample for each
  instant, with all the rises of that instant.  Interpolation is a line on every
  gap between two samples, exactly so because `Scale` is a multiple of the gap;
  the difference of its values at two edges is therefore the sum of the shares
  of the gaps between them (a telescoping sum).  An answered bucket has samples
  on both sides among what was read, so the gaps of the table that the read left
  out, and those it may have seen otherwise, are outside of the bucket and have
  no share in it.  `counterBoundarySourceRange` reads two buckets more on either
  side, which is where `CounterExact` says that a sample suffices.

- `EntityReadAlwaysExact`, the plan: each part of a plan is the clipped interval
  of a binding, and each binding that is in force in the range has one
  (`RecordedIs`).  The rows a part reads are the recorded ones that its binding
  covers, and since the bindings of a topic follow each other the parts have all
  of them.
- Its rows: a statement draws each of its rows from a place of the table and
  none twice (`Draws`), in the order of its key and cut at the limit.  The merge
  puts the parts one after the other and keeps one row of each payload, at the
  place of the first, so the answer has every payload once.  That a limited
  answer has the newest is a pigeonhole: a newer row that is missing from the
  answer was cut from its own part, which then has as many rows before it as the
  limit allows, all of them in the merge.
- Its buckets: rows that have one instant fall into one part each, so the rows
  of a bucket are divided by the parts, counts and sums over the parts add up,
  the least of the least values is the least of all, and the last row of the
  latest part is the last of all (`MergedBuckets`); a part alone is grouped by
  the database (`BucketSqlIs`).  A width for the points that were asked exists,
  because a range is one bucket of a width that exceeds its end; the least one
  keeps the number of buckets below the points (`WidthDerived`, `PointsKept`),
  also for deduplicated reads and overlapping bindings.

Model-checked only: liveness (`ENABLED` and fairness are out of the proof
system's reach) and the violation above.  Every invariant of the other runs is
stated by a theorem.

## 5. What the models found

Disagreements between the code and its own documentation, each reproduced with
a model (the first has a run):

- `audit-outbox.ts:229`: a flush that was under way when a checkpoint could not
  be written clears `storageFailed` at its end (`OutboxPause`).
- `audit-outbox.ts:120`: `load` rewrites open checkpoints as longer closed ones
  after its capacity check; the aggregate may exceed `maxBytes`, and the next
  start refuses the directory, which aborts the start of the process
  (`index.ts:1672`).  Nothing is delivered then until someone repairs it by hand:
  `DeliveryComes` has this as its only exception (`Refused`), and `OutboxDelivery`
  reaches it.
- `service.ts:327`: a stop edge that comes while the opening checkpoint is
  written is consumed without a session to close; the session opens and stays
  open until the condition falls and rises again, or its maximum duration.
- `service.ts:222`: `start` arms the timers of a session that began to close
  while the registry refreshed; they outlive it and close the next session
  early.  `TimersOwned` excepts the sessions that `start` found so (`rearmed`) and
  no other that is closing or closed.
- `budgeted-fallback-rotation.ts:21`: the cursor is a place in the list of the
  misses of *this* request.  When that list changes from request to request a
  miss may never get its turn: with a budget of one and the misses a, b, c and
  b, c in turn, the requests try a, c, a, c and so on, and b never.  The README
  promises turns for a "stable batch"; `TurnKept` states what holds, and
  `TurnAlwaysKept` proves it: turns are kept while the misses stay the same and the
  cursor is not evicted (which the README says of it).
- `evaluator.ts:599`: a composite takes what it does not remember, and what is not
  cached, for false.  Its first message after a restart fires although the
  condition held all along, where `service.ts:17` promises "no replay on restart";
  and when an operand is evicted, a message comes and the operand is recovered,
  the same excursion fires twice.  `FiresOnRise` demands the edge of thresholds and
  comparisons only.
- `index.ts:2063`: for an entity `handleBatchLast` answers the result it has of the
  *topic*, once the binding of the cached value is in its plan.  A packet dated
  before the binding that arrives late is kept out of the entity's cache and
  replaces the topic's entry; and the topic's result is taken before the lookups
  of other topics, during which a packet of the binding may come.  Either way the
  answer is the previous occupant's value, which the README says is not reassigned.
  `NotReassigned` states that sentence and is violated: as a `PROPERTY` of
  `HistoryReads.cfg` it shows the second way in ten states.
  `EntityValueBound` is about the cache alone.

Behaviour that the models have because the code does, and that a reader of the
code might not expect; the properties say what holds nevertheless:

- Handover of captures: a session that is closing at the export makes the
  import fail (`closing: false` is required), and the drain does not await
  closes that a registry refresh started.  The source's outbox keeps the
  acknowledged open checkpoint of a session the target continues.
  `CaptureService.stop` has no caller in `index.ts`.
- Entity history: `BucketsExact` is about reads that ask for `dedupe=false`, while
  a batch that says nothing is deduplicated (`index.ts:2134`): a bucket then has the
  value of the rows that are left.  An interval row that spans a move to another topic and back is
  read by both parts and counted twice in a bucket, and it may lie in a bucket
  before the range, which is why the buckets of `EntityReadExact` are those of
  reads by a point time (`Instants`); a row exactly at the end of the range is
  not read at a topic whose binding begins there; the parts are limited before
  duplicates are removed; an interval read of a table that also has a point time
  is limited in each part by the start of the interval and in the merge by the
  point time, so a limited answer need not have the newest by either (`OneTime`);
  of two parts that differ only in whether they include their end one is read,
  so two bindings of a topic that overlap may hide a row (`Consecutive`); a part
  of a bucket that has only empty values counts as 0 in `min` and `max`;
  deduplication keeps one row per topic in a table without interval columns.
- Counters: the rise after a row without a value is not counted in the
  undivided rises (`buildCounterDeltaSourceSql`).
- Mappings: rules are ranked by the length of their literal text, so of two that
  cover a topic and do not refine each other the one with longer names wins.
- Cached entity values: with two plans for one selector at once the value of
  the other plan's topic may be answered, without a topic; entries stay when
  `lastValueMap` evicts; the revision is chosen by text comparison.
- Bindings: two fetches of one key at once store their answers in the order in
  which they return, and `intervalCache` is never evicted.
- The seed: a `start` after a pause joins the cycle that was interrupted, and a
  process that is activated again does not run its background timers.

## 6. Not modelled, and the plan

- *Capture publisher*: it formats a row and hands it to the broker; its success
  and failure are in `CaptureSession`.
- *Database client, deployment budget*: one HTTP call whose outcomes
  `QueryWorkload` has, and a validation of configured limits.
- *Route and service registration, topic refresh*: loops that retry until they
  succeed; nothing else waits for them.
- *Identity reconciliation plan*: a comparison of two lists, for an operator.
- *Parsing, formatting, SQL text, GraphQL schema, dictionaries, generated code,
  examples*: no state depends on them.
- *Values*: of rows and aggregates in captures, of messages a trigger
  publishes.

The models have one trigger, one capture definition and one statement each:
triggers and captures do not share state except through the cache, and reads
of different statements meet only in the slots and the queue, which `QueryTurns`
has.

Next, in this order:

1. The handover composed: outbox and sessions of two processes, with the two
   ledgers apart, and the source's recovery when the target never takes over.
2. `DefinitionRegistry` and `CaptureSession` composed: a refresh that waits for
   listeners that wait for publications.
3. A statement about triggers whose kind, source or operands are edited: the
   remembered value is then another condition's.
4. The turns of a miss when the misses change between requests, once the rotation
   remembers topics rather than places.
