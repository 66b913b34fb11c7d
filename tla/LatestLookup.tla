----------------------------- MODULE LatestLookup -----------------------------
(***************************************************************************)
(* The cache of last values and its recovery from the history              *)
(* (src/src/latest-value-history.ts, src/src/background-cache-seed.ts,     *)
(* src/src/budgeted-fallback-rotation.ts, src/src/history-request-work.ts  *)
(* and their use in src/src/index.ts).                                     *)
(*                                                                         *)
(* Live packets, batch requests, the startup seed, the eviction timer and  *)
(* a handover share lastValueMap.  A request answers what is cached and    *)
(* tries to recover a bounded part of the rest; it and the seed share the  *)
(* lookups through the coordinator, which remembers failures for a while.  *)
(* A lookup is external: it ends with a value, without one, with an error, *)
(* refused by the database's queue, or not at all until its timeout.       *)
(***************************************************************************)
EXTENDS Integers, FiniteSets, SequencesExt, Filtering

CONSTANTS
  Topic,        \* topics of live packets
  Request,      \* batch requests that may be under way at once
  Seed,         \* the background seed
  Config,       \* the configurations considered: see ConfigurationAssumption
  Concurrency,  \* historyRequestConcurrency
  MaxWaiters,   \* maxWaiters of the coordinator
  MaxFailures,  \* maxFailures of the coordinator
  MaxCursors,   \* capacity of the rotation
  Cooldown      \* cooldownMs, in ticks

Caller == Request \cup {Seed}

\* stateful: a correlated-v2 handover; moves: the process is released; churn: requests
\* come for other lists too; topics: what the seed and the requests, those of the set
\* requests, ask for in this order, some perhaps twice (a request's own topics and
\* those of its entities may overlap); cacheOnly: topics without history; published:
\* those that live packets, or the operands of a handover, come for.
ASSUME ConfigurationAssumption ==
  /\ Config \subseteq [stateful : BOOLEAN, moves : BOOLEAN, churn : BOOLEAN, budget : Nat \ {0},
                       maxPending : Nat \ {0}, topics : Seq(Topic),
                       requests : SUBSET Request, cacheOnly : SUBSET Topic,
                       published : SUBSET Topic]
  /\ Seed \notin Request /\ IsFiniteSet(Request)
  /\ Concurrency \in Nat \ {0} /\ MaxWaiters \in Nat /\ MaxFailures \in Nat
  /\ MaxCursors \in Nat \ {0} /\ Cooldown \in Nat \ {0}

VARIABLES
  config,      \* the configuration of this process
  phase,       \* of the process: passive, importing, imported, active or released
  timers,      \* backgroundTimers run
  cache,       \* lastValueMap
  authority,   \* what the cache owes: the last live packet, the imported operand
  queue,       \* what each caller still has to begin: places in config.topics
  item,        \* what a caller does about a place: item[c][i]
  pending,     \* pending: topics with a lookup in flight
  waiters,     \* waiters
  failures,    \* failures, in the order of insertion
  quiet,       \* how long ago each topic failed
  cursor,      \* the rotation's cursor for this list of topics
  others,      \* lists with a more recently used cursor; MaxCursors: this one has none
  missed,      \* the misses of the last request
  skipped,     \* requests in a row with these misses that did not try one
  seeding,     \* BackgroundCacheSeed.current
  accepting,   \* current.accepting
  aborted      \* requests whose client disconnected

process     == <<config, phase, timers>>
values      == <<cache, authority>>
work        == <<queue, item>>
coordinator == <<pending, waiters, failures, quiet>>
rotation    == <<cursor, others, missed, skipped>>
seed        == <<seeding, accepting>>
vars        == <<process, values, work, coordinator, rotation, seed, aborted>>

Cached(t) == cache[t] # "none"
topic(i)  == config.topics[i]
Place     == DOMAIN config.topics
Places    == [i \in Place |-> i]  \* in their order

-----------------------------------------------------------------------------
(* The items of a caller.                                                  *)

NoItem      == [role |-> "none", got |-> "none"]
Answer(a)   == [role |-> "answered", got |-> a]
Outcome(r)  == [role |-> "own", got |-> r]        \* run settles at once
Underway(c) == {i \in Place : item[c][i].role \in {"own", "owner", "joined"}}
Busy(c)     == \E i \in Place : item[c][i] # NoItem

-----------------------------------------------------------------------------
(* LatestLookupCoordinator.                                                *)

Without(t)   == Filter(failures, {f \in Range(failures) : f.topic # t})
Capped(n, m) == IF n < m THEN n ELSE m

\* A failure or miss of t is the newest; the oldest ones are forgotten.
remember(t, e) ==
  LET all == Append(Without(t), [topic |-> t, age |-> 0, error |-> e])
  IN SubSeq(all, Len(all) - Capped(Len(all), MaxFailures) + 1, Len(all))

Cooling(t) == {i \in DOMAIN failures : failures[i].topic = t /\ failures[i].age < Cooldown}

\* How a call of run for t begins.  It may settle at once: without history, with
\* too many waiters or lookups, or while the last failure is recent.
Settles(t, r) ==
  \/ t \in config.cacheOnly /\ r = "null"
  \/ t \notin config.cacheOnly /\ t \in pending /\ waiters >= MaxWaiters /\ r = "error"
  \/ /\ t \notin config.cacheOnly /\ t \notin pending
     /\ \E i \in Cooling(t) : r = IF failures[i].error THEN "error" ELSE "null"
  \/ /\ t \notin config.cacheOnly /\ t \notin pending /\ Cooling(t) = {}
     /\ Cardinality(pending) >= config.maxPending /\ r = "error"
Joins(t)  == t \notin config.cacheOnly /\ t \in pending /\ waiters < MaxWaiters

\* Mutant: the failures are not asked.
StartsHot(t) == t \notin config.cacheOnly /\ t \notin pending
                /\ Cardinality(pending) < config.maxPending

Starts(t) == /\ t \notin config.cacheOnly /\ t \notin pending /\ Cooling(t) = {}
             /\ Cardinality(pending) < config.maxPending

\* Caller c calls run for the topic at place i.
Run(c, i) ==
  \/ \E r \in {"null", "error"} :
       /\ Settles(topic(i), r)
       /\ item' = [item EXCEPT ![c][i] = Outcome(r)]
       /\ UNCHANGED <<pending, waiters>>
  \/ /\ Joins(topic(i))
     /\ item' = [item EXCEPT ![c][i] = [role |-> "joined", got |-> "waiting"]]
     /\ waiters' = waiters + 1 /\ UNCHANGED pending
  \/ /\ Starts(topic(i))
     /\ item' = [item EXCEPT ![c][i] = [role |-> "owner", got |-> "waiting"]]
     /\ pending' = pending \cup {topic(i)} /\ UNCHANGED waiters

Awaits(c, i, t) == topic(i) = t /\ item[c][i].got = "waiting"

\* Mutant: those that joined are left waiting.
DeliveredToOwner(t, r) ==
  [c \in Caller |-> [i \in Place |-> IF Awaits(c, i, t) /\ item[c][i].role = "owner"
                                     THEN [item[c][i] EXCEPT !.got = r] ELSE item[c][i]]]

\* Those that wait for t's lookup get its result r.
Delivered(t, r) ==
  [c \in Caller |-> [i \in Place |-> IF Awaits(c, i, t)
                                     THEN [item[c][i] EXCEPT !.got = r] ELSE item[c][i]]]

\* The lookup of t ends with a value, without one, with an error, or refused by
\* the database's queue, which is not held against the topic.
Settle(t, r) ==
  /\ t \in pending /\ pending' = pending \ {t}
  /\ item' = Delivered(t, IF r = "busy" THEN "error" ELSE r)
  /\ CASE r = "value" -> /\ failures' = Without(t)
                         /\ quiet' = [quiet EXCEPT ![t] = Cooldown]
       [] r = "busy"  -> UNCHANGED <<failures, quiet>>
       [] OTHER       -> /\ failures' = remember(t, r = "error")
                         /\ quiet' = [quiet EXCEPT ![t] = 0]
  /\ UNCHANGED <<process, values, queue, waiters, rotation, seed, aborted>>

Lookup(t) == \E r \in {"value", "null", "error", "busy"} : Settle(t, r)

\* timeoutMs: the caller gets an error; what the cancelled reads bring is not looked at.
Timeout(t) ==
  /\ t \in pending /\ pending' = pending \ {t}
  /\ item' = Delivered(t, "error")
  /\ failures' = remember(t, TRUE) /\ quiet' = [quiet EXCEPT ![t] = 0]
  /\ UNCHANGED <<process, values, queue, waiters, rotation, seed, aborted>>

\* Mutant: the owner counts as a waiter when it resumes.
LeavesAlways(c, i) == waiters' = IF item[c][i].role = "own" THEN waiters ELSE waiters - 1

\* A waiter that resumes is counted no more.
Leaves(c, i) == waiters' = IF item[c][i].role = "joined" THEN waiters - 1 ELSE waiters

-----------------------------------------------------------------------------
(* Batch requests: resolveBatchLastResults.                                *)

Misses == Filter(Places, {i \in Place : ~Cached(topic(i))})

\* Mutant: every request begins with the first miss.
selectFirst(misses) == SubSeq(misses, 1, Capped(Len(misses), config.budget))

\* BudgetedFallbackRotation.select: from the cursor on, as many as the budget allows.
select(misses) ==
  [i \in 1 .. Capped(Len(misses), config.budget) |->
     misses[(((cursor % Len(misses)) + i - 1) % Len(misses)) + 1]]

\* The first pass answers what is cached and chooses what to recover.
Ask(c) ==
  /\ phase = "active" /\ c \in config.requests /\ ~Busy(c)
  /\ LET eligible == select(Misses)
         tried    == Range(eligible)
     IN /\ queue' = [queue EXCEPT ![c] = eligible]
        /\ item' = [item EXCEPT ![c] =
                      [i \in Place |-> IF Cached(topic(i)) THEN Answer("cache")
                                       ELSE IF i \in tried THEN [role |-> "eligible", got |-> "none"]
                                       ELSE Answer("miss")]]
        /\ cursor' = IF Misses = <<>> THEN cursor
                     ELSE ((cursor % Len(Misses)) + Len(eligible)) % Len(Misses)
        /\ others' = IF Misses = <<>> THEN others ELSE 0
        /\ missed' = Misses
        /\ skipped' = [i \in Place |-> IF i \notin Range(Misses) \ tried THEN 0
                                       ELSE IF missed = Misses THEN skipped[i] + 1 ELSE 1]
  /\ UNCHANGED <<process, values, coordinator, seed, aborted>>

\* A request asks for another list, the first time since this one's: at the capacity
\* the least recently used cursor is evicted, and a list without one begins at its
\* first miss.  Of that request only this matters here.
AskElsewhere ==
  /\ config.churn /\ phase = "active" /\ others < MaxCursors
  /\ others' = others + 1
  /\ IF others' < MaxCursors THEN UNCHANGED <<cursor, missed, skipped>>
     ELSE cursor' = 0 /\ missed' = <<>> /\ skipped' = [i \in Place |-> 0]
  /\ UNCHANGED <<process, values, work, coordinator, seed, aborted>>

\* A worker of mapHistoryRequests takes the next topic, unless it is cached by now.
Begin(c) ==
  /\ queue[c] # <<>> /\ c \notin aborted
  /\ Cardinality(Underway(c)) < Concurrency
  /\ queue' = [queue EXCEPT ![c] = Tail(@)]
  /\ LET i == Head(queue[c])
     IN IF Cached(topic(i))
        THEN /\ item' = [item EXCEPT ![c][i] = Answer("cache")]
             /\ UNCHANGED <<pending, waiters>>
        ELSE Run(c, i)
  /\ UNCHANGED <<process, values, failures, quiet, rotation, seed, aborted>>

\* Mutant: the value that was looked up replaces what came meanwhile.
overwriteCacheValue(t) == TRUE

\* preserveConcurrentCacheValue: a value that arrived meanwhile is kept.
insertsArchived(t) == ~Cached(t)

\* Without a value of its own a request answers what is cached, or its failure.
AnsweredCached(c, i) == IF Cached(topic(i)) THEN "cache"
                        ELSE IF item[c][i].got = "error" THEN "failed" ELSE "miss"

\* The lookup for place i is over: the request caches and answers its value.
Resume(c, i) ==
  /\ i \in Underway(c) /\ item[c][i].got # "waiting"
  /\ Leaves(c, i)
  /\ \/ /\ item[c][i].got = "value" /\ insertsArchived(topic(i))
        /\ cache' = [cache EXCEPT ![topic(i)] = "archived"]
        /\ item' = [item EXCEPT ![c][i] = Answer("questdb")]
     \/ /\ item[c][i].got # "value" \/ ~insertsArchived(topic(i))
        /\ item' = [item EXCEPT ![c][i] = Answer(AnsweredCached(c, i))]
        /\ UNCHANGED cache
  /\ UNCHANGED <<process, authority, queue, pending, failures, quiet, rotation, seed,
                 aborted>>

\* All admitted work has settled: the request returns its answers or "cancelled".
Reply(c) ==
  /\ Busy(c) /\ Underway(c) = {}
  /\ queue[c] = <<>> \/ c \in aborted
  /\ queue' = [queue EXCEPT ![c] = <<>>]
  /\ item' = [item EXCEPT ![c] = [i \in Place |-> NoItem]]
  /\ aborted' = aborted \ {c}
  /\ UNCHANGED <<process, values, coordinator, rotation, seed>>

\* The client of c disconnects.
Abort(c) ==
  /\ Busy(c) /\ c \notin aborted /\ aborted' = aborted \cup {c}
  /\ UNCHANGED <<process, values, work, coordinator, rotation, seed>>

-----------------------------------------------------------------------------
(* BackgroundCacheSeed.                                                    *)

\* start: a cycle that is under way is joined, a paused one too.
StartsSeed ==
  IF seeding THEN UNCHANGED <<seed, queue>>
  ELSE /\ seeding' = TRUE /\ accepting' = TRUE
       /\ queue' = [queue EXCEPT ![Seed] = Places]

\* pause
PausesSeed == accepting' = FALSE /\ UNCHANGED seeding

SeedNext ==
  /\ seeding /\ accepting /\ queue[Seed] # <<>> /\ Underway(Seed) = {}
  /\ queue' = [queue EXCEPT ![Seed] = Tail(@)]
  /\ LET i == Head(queue[Seed])
     IN IF Cached(topic(i)) THEN UNCHANGED <<item, pending, waiters>> ELSE Run(Seed, i)
  /\ UNCHANGED <<process, values, failures, quiet, rotation, seed, aborted>>

AppliesAlways == TRUE  \* Mutant: a lookup that was admitted before the release counts.
Applies == accepting

SeedResume(i) ==
  /\ i \in Underway(Seed) /\ item[Seed][i].got # "waiting"
  /\ Leaves(Seed, i)
  /\ item' = [item EXCEPT ![Seed][i] = NoItem]
  /\ cache' = IF item[Seed][i].got = "value" /\ Applies /\ insertsArchived(topic(i))
              THEN [cache EXCEPT ![topic(i)] = "archived"] ELSE cache
  /\ UNCHANGED <<process, authority, queue, pending, failures, quiet, rotation, seed,
                 aborted>>

SeedEnds ==
  /\ seeding /\ Underway(Seed) = {} /\ (~accepting \/ queue[Seed] = <<>>)
  /\ seeding' = FALSE /\ queue' = [queue EXCEPT ![Seed] = <<>>]
  /\ UNCHANGED <<process, values, item, coordinator, rotation, accepting, aborted>>

-----------------------------------------------------------------------------
(* Live packets, eviction and time.                                        *)

\* updateLastValue
Live(t) ==
  /\ t \in config.published
  /\ cache' = [cache EXCEPT ![t] = "live"]
  /\ authority' = [authority EXCEPT ![t] = "live"]
  /\ UNCHANGED <<process, work, coordinator, rotation, seed, aborted>>

\* The eviction timer of the active process: any entry may have become stale.
Evict(t) ==
  /\ phase = "active" /\ timers /\ Cached(t)
  /\ cache' = [cache EXCEPT ![t] = "none"]
  /\ authority' = [authority EXCEPT ![t] = "free"]
  /\ UNCHANGED <<process, work, coordinator, rotation, seed, aborted>>

Tick ==
  /\ \E t \in Topic : quiet[t] < Cooldown
  /\ failures' = [i \in DOMAIN failures |->
                    [failures[i] EXCEPT !.age = Capped(@ + 1, Cooldown)]]
  /\ quiet' = [t \in Topic |-> Capped(quiet[t] + 1, Cooldown)]
  /\ UNCHANGED <<process, values, work, pending, waiters, rotation, seed, aborted>>

-----------------------------------------------------------------------------
(* The handover hooks.                                                     *)

\* onActivate.  From now on the cache may recover what it lacks.
Activate ==
  /\ phase \in {"passive", "imported", "released"} /\ phase' = "active"
  /\ StartsSeed
  /\ authority' = [t \in Topic |-> IF authority[t] = "none" THEN "free" ELSE authority[t]]
  /\ UNCHANGED <<config, timers, cache, item, coordinator, rotation, aborted>>

\* onRelease: nothing is asked any more, what was admitted goes on.
Release ==
  /\ config.moves /\ phase = "active" /\ phase' = "released"
  /\ timers' = FALSE /\ PausesSeed
  /\ UNCHANGED <<config, values, work, coordinator, rotation, aborted>>

\* importState of a passive process: it pauses the seed and waits for it ...
ImportStarts ==
  /\ config.stateful /\ phase = "passive" /\ phase' = "importing"
  /\ PausesSeed
  /\ UNCHANGED <<config, timers, values, work, coordinator, rotation, aborted>>

\* ... and replaces the operands of the topics S, of which the source has those of V.
Imported(S, V) ==
  /\ phase = "importing" /\ ~seeding /\ phase' = "imported"
  /\ cache' = [t \in Topic |-> IF t \in V THEN "operand"
                               ELSE IF t \in S THEN "none" ELSE cache[t]]
  /\ authority' = [t \in Topic |-> IF t \in S THEN cache'[t] ELSE authority[t]]
  /\ UNCHANGED <<config, timers, work, coordinator, rotation, seed, aborted>>

Handover ==
  \/ Activate \/ Release \/ ImportStarts
  \/ \E S \in SUBSET config.published : \E V \in SUBSET S : Imported(S, V)

-----------------------------------------------------------------------------

\* A process starts passive; without a stateful handover it seeds at once.
Init ==
  /\ config \in Config
  /\ phase = "passive" /\ timers = TRUE
  /\ cache = [t \in Topic |-> "none"]
  /\ authority = [t \in Topic |-> "free"]
  /\ seeding = ~config.stateful /\ accepting = ~config.stateful
  /\ queue = [c \in Caller |-> IF c = Seed /\ seeding THEN Places ELSE <<>>]
  /\ item = [c \in Caller |-> [i \in Place |-> NoItem]]
  /\ pending = {} /\ waiters = 0 /\ failures = <<>>
  /\ quiet = [t \in Topic |-> Cooldown]
  /\ cursor = 0 /\ others = MaxCursors /\ missed = <<>> /\ skipped = [i \in Place |-> 0]
  /\ aborted = {}

\* What the requests of c do on their own.
Proceeds(c) == Begin(c) \/ Reply(c) \/ \E i \in Place : Resume(c, i)

Next ==
  \/ \E c \in Request : Ask(c) \/ Proceeds(c) \/ Abort(c)
  \/ AskElsewhere
  \/ SeedNext \/ SeedEnds \/ \E i \in Place : SeedResume(i)
  \/ \E t \in Topic : Lookup(t) \/ Timeout(t) \/ Live(t) \/ Evict(t)
  \/ Tick \/ Handover

\* Promises are resumed and timers fire; the database need not answer.
Fairness ==
  /\ \A c \in Request : WF_vars(Proceeds(c))
  /\ \A t \in Topic : WF_vars(Timeout(t))

Spec == Init /\ [][Next]_vars /\ Fairness

-----------------------------------------------------------------------------
(* Properties.                                                             *)

Result == {"value", "null", "error"}
Item   == [role : {"none"}, got : {"none"}] \cup [role : {"eligible"}, got : {"none"}]
          \cup [role : {"own"}, got : {"null", "error"}]
          \cup [role : {"owner", "joined"}, got : {"waiting"} \cup Result]
          \cup [role : {"answered"}, got : {"cache", "questdb", "miss", "failed"}]

\* The type invariant.
LookupTypeOK ==
  /\ config \in Config
  /\ phase \in {"passive", "importing", "imported", "active", "released"}
  /\ timers \in BOOLEAN /\ seeding \in BOOLEAN /\ accepting \in BOOLEAN
  /\ cache \in [Topic -> {"none", "archived", "operand", "live"}]
  /\ authority \in [Topic -> {"free", "none", "archived", "operand", "live"}]
  /\ queue \in [Caller -> Seq(Place)]
  /\ item \in [Caller -> [Place -> Item]]
  /\ pending \subseteq Topic /\ aborted \subseteq Request
  /\ waiters \in Nat
  /\ failures \in Seq([topic : Topic, age : 0 .. Cooldown, error : BOOLEAN])
  /\ quiet \in [Topic -> 0 .. Cooldown]
  /\ cursor \in Nat /\ others \in 0 .. MaxCursors /\ missed \in Seq(Place) /\ skipped \in [Place -> Nat]

\* Whatever lookups, timeouts, seeds and requests do: a live packet, and the exact
\* operand of a handover (its absence too, until activation), is what is cached
\* until the next packet or the eviction.
AuthorityKept == \A t \in Topic : authority[t] # "free" => cache[t] = authority[t]

\* The coordinator's books: one owner waits for each pending lookup, nobody waits
\* for another one, the waiters are those that joined, and the bounds hold.
WaitersExact ==
  /\ LookupTypeOK
  /\ \A t \in Topic :
       /\ t \in pending <=> \E c \in Caller, i \in Place :
                              Awaits(c, i, t) /\ item[c][i].role = "owner"
       /\ (\E c \in Caller, i \in Place : Awaits(c, i, t)) => t \in pending
  /\ waiters = Cardinality({ci \in Caller \X Place : item[ci[1]][ci[2]].role = "joined"})
  /\ waiters <= MaxWaiters /\ Cardinality(pending) <= config.maxPending
  /\ Len(failures) <= MaxFailures

\* After a miss or a failure a topic is not read again within the cooldown, unless
\* the bounded map is full of the failures of others.
QuietAfterFailure ==
  [][\A t \in Topic : t \in pending' \ pending /\ quiet[t] < Cooldown =>
       Cardinality({f.topic : f \in Range(failures)} \ {t}) = MaxFailures]_vars

\* "Empty leading paths do not repeatedly exclude later archived values in a stable
\* batch": while the misses stay the same, and fewer other lists come between than
\* evict the cursor, none is passed over by more requests in a row than it takes to
\* try the others.  (The cursor is a place in the list of misses: when that list
\* changes, a miss may lose its turn, and so it may each time the cursor is evicted.)
TurnKept == \A i \in Place : skipped[i] > 0 => skipped[i] * config.budget < Len(missed)

\* After the release, and once the admitted requests are answered, only a live
\* packet changes the cache: the state that is exported is not overtaken by a fill.
SeedQuiet ==
  [][phase = "released" /\ (\A c \in Request : ~Busy(c)) =>
       \A t \in Topic : cache'[t] \in {cache[t], "live"}]_vars

\* Every request is answered although the database never is: by the timeouts.
Answered == \A c \in Request : Busy(c) ~> ~Busy(c)
=============================================================================
