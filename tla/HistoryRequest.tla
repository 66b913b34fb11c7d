--------------------------- MODULE HistoryRequest ---------------------------
(***************************************************************************)
(* Requests for history, from the check of the token to the answer         *)
(* (the handlers of src/src/index.ts: the catch-all GET, handleBatchRange  *)
(* and handleBatchLast), composed of AuthorizationStatus, EntityBindings,  *)
(* MappingCache, HistorySources and EntityValues.                          *)
(*                                                                         *)
(* "get" asks for the history of one topic, "entities" for that of an      *)
(* entity, which is read from every topic it was bound to, and "last" for  *)
(* the last value of an entity.  Each part has caches of its own that all  *)
(* requests share; what a request was told before an await may be outdated *)
(* after it.                                                               *)
(***************************************************************************)
EXTENDS AuthorizationStatus, EntityBindings, MappingCache, HistorySources, EntityValues

CONSTANTS
  Config,       \* the configurations considered: see HistoryAssumption
  TopicsOf,     \* TopicsOf[v]: the topics of an entity's intervals in version v, in order
  Allowed,      \* the topics that the callers may read
  Configured,   \* the table that a data source may name
  Concurrency   \* historyRequestConcurrency

\* kind: the requests; asks: what a request of kind "get" asks for, or the selector of
\* one of kind "last"; authority: tokens are checked with the controller; override: a
\* data source names the table; current: requests that insist on current bindings;
\* timed: the cache whose time runs; partial: not a delta, nor an export; drops: tables
\* are dropped; version: of the mappings at first.
ASSUME HistoryAssumption ==
  /\ Config \subseteq [kind : {"get", "entities", "last"}, asks : [Request -> Topic \cup Selector],
                       authority : BOOLEAN, override : BOOLEAN, current : SUBSET Request,
                       timed : {"authorization", "bindings", "mapping", "none"},
                       partial : BOOLEAN, drops : BOOLEAN, version : Versions]
  /\ \A c \in Config, r \in Request : /\ c.kind = "get" => c.asks[r] \in Topic
                                      /\ c.kind = "last" => c.asks[r] \in Selector
  /\ TopicsOf \in [1..MaxBindings -> Seq(Topic)] /\ 1..MaxBindings \subseteq DOMAIN BindingsOf
  /\ \A v \in 1..MaxBindings : Len(TopicsOf[v]) <= MaxSegments
  /\ \A v \in Versions : MappingOf[v] \in [Topic -> Seq([table : Table, retired : BOOLEAN])]
  /\ \A v \in Versions, t \in Topic : \A i, j \in DOMAIN MappingOf[v][t] :  \* once each
       MappingOf[v][t][i].table = MappingOf[v][t][j].table => i = j
  /\ Configured \in Table
  /\ Concurrency \in Nat \ {0}

VARIABLES
  config,   \* the configuration of this behaviour
  stage,    \* how far each request is
  captured  \* the timestamps of its topics' results, in a request for a last value

requestVars == <<config, stage, captured>>
vars == <<authorization, bindingVars, mappingVars, sourceVars, valueVars, requestVars>>

Stage(r, s)  == stage' = [stage EXCEPT ![r] = s]
Items(r)     == {x \in Reader : x[1] = r /\ item[x].stage # "none"}
Reading(r)   == {x \in Items(r) : item[x].stage \in {"resolving", "schema", "query"}}
Waiting(r)   == {x \in Items(r) : item[x].stage = "waiting"}
Over(r)      == stage[r] \in {"idle", "answered", "failed"}

\* The reads of request r: one for each of its topics.
Reads(r, topics) == [x \in Reader |->
  IF x[1] # r THEN item[x]
  ELSE IF x[2] \in DOMAIN topics THEN [NoRead EXCEPT !.stage = "waiting", !.topic = topics[x[2]]]
  ELSE NoRead]

-----------------------------------------------------------------------------
(* The request.                                                            *)

\* A request comes.
Arrive(r) ==
  /\ Over(r)
  /\ IF config.authority
     THEN Stage(r, "authorizing") /\ check(r)
     ELSE Stage(r, "authorized") /\ UNCHANGED authorization
  /\ UNCHANGED <<bindingVars, mappingVars, sourceVars, valueVars, config, captured>>

Authorized(r) == \/ stage[r] = "authorized"
                 \/ stage[r] = "authorizing" /\ verdict[r] = "admitted"

\* The result of check is not needed any more.
Heard(r) == /\ verdict' = [verdict EXCEPT ![r] = "none"]
            /\ UNCHANGED <<active, inactiveFor, statuses, probes, quietFor>>

TurnedAway(r) ==
  /\ stage[r] = "authorizing" /\ verdict[r] \in {"denied", "unavailable"} /\ Stage(r, "failed")
  /\ Heard(r)
  /\ UNCHANGED <<bindingVars, mappingVars, sourceVars, valueVars, config, captured>>

\* A request for a topic goes on to read it.
ReadsTopic(r) ==
  /\ Authorized(r) /\ config.kind = "get" /\ Stage(r, "reading")
  /\ item' = Reads(r, <<config.asks[r]>>) /\ Heard(r)
  /\ UNCHANGED <<bindingVars, mappingVars, existing, schemas, valueVars, config, captured>>

\* A request for an entity asks for its bindings; one for its value now has a range
\* of its own.
Plans(r) ==
  /\ Authorized(r) /\ config.kind # "get" /\ Stage(r, "planning")
  /\ listIntervals(r, r \in config.current, config.kind = "last") /\ Heard(r)
  /\ UNCHANGED <<mappingVars, sourceVars, valueVars, config, captured>>

PlanEnds(r) == Fetched(r, config.kind = "last")
               /\ UNCHANGED <<authorization, mappingVars, sourceVars, valueVars, requestVars>>

\* The bindings are known: those outside the caller's topics refuse the request.
Planning(r)  == stage[r] = "planning" /\ ~fetching[r].on
Readable(v)  == Range(TopicsOf[v]) \subseteq Allowed

PlanUsed(r)  == Planned(r, Failed)
                /\ UNCHANGED <<bindings, replacedFor, intervalCache, fetching>>

PlanFails(r) ==
  /\ Planning(r) /\ Stage(r, "failed")
  /\ planned[r] # Failed => ~Readable(planned[r])
  /\ PlanUsed(r)
  /\ UNCHANGED <<authorization, mappingVars, sourceVars, valueVars, config, captured>>

ReadsEntity(r) ==
  /\ Planning(r) /\ config.kind = "entities" /\ planned[r] # Failed /\ Readable(planned[r])
  /\ Stage(r, "reading") /\ item' = Reads(r, TopicsOf[planned[r]]) /\ PlanUsed(r)
  /\ UNCHANGED <<authorization, mappingVars, existing, schemas, valueVars, config, captured>>

-----------------------------------------------------------------------------
(* The reads of a request.                                                 *)

\* The next read asks for its tables, a bounded number of them at once.
NextRead(r) == Waiting(r) # {} /\ Cardinality(Reading(r)) < Concurrency

ResolvesTables(r) ==
  \E x \in Waiting(r) :
    /\ NextRead(r) /\ \A y \in Waiting(r) : x[2] <= y[2]
    /\ item' = [item EXCEPT ![x].stage = "resolving"]
    /\ resolveHistory(x, item[x].topic)
    /\ UNCHANGED <<authorization, bindingVars, existing, schemas, valueVars, requestVars>>

TablesResume(x) ==
  /\ item[x].stage = "resolving" /\ ResolveResumes(x, item[x].topic)
  /\ UNCHANGED <<authorization, bindingVars, sourceVars, valueVars, requestVars>>

\* Its tables are known.
TablesKnown(x) ==
  /\ item[x].stage = "resolving" /\ resolving[x].is = "found"
  /\ resolving' = [resolving EXCEPT ![x] = Quiet]
  /\ IF config.override
     THEN ReadBegins(x, <<[table |-> Configured, retired |-> FALSE]>>, FALSE)
     ELSE ReadBegins(x, resolving[x].found, config.partial)
  /\ UNCHANGED <<authorization, bindingVars, refreshing, mapped, valueVars, requestVars>>

ReadGoesOn(x) == /\ SchemaRead(x) \/ Queried(x)
                 /\ UNCHANGED <<authorization, bindingVars, mappingVars, valueVars, requestVars>>

\* Every read is over: one that failed fails what was asked for.
Succeeded(r) == \A x \in Items(r) : item[x].stage = "ok"

Answers(r) ==
  /\ stage[r] = "reading" /\ Waiting(r) = {} /\ Reading(r) = {}
  /\ Stage(r, IF Succeeded(r) THEN "answered" ELSE "failed") /\ item' = Reads(r, <<>>)
  /\ UNCHANGED <<authorization, bindingVars, mappingVars, existing, schemas, valueVars, config, captured>>

-----------------------------------------------------------------------------
(* The last value of an entity.                                            *)

PlanOf(r) == BindingsOf[planned[r]][config.asks[r]]

PlanTopics(r) == {b.topic : b \in Range(PlanOf(r))}

\* The selector's bindings become those of the plan, and what is cached of their
\* topics is the result of the request for them; the other topics are looked up.
ReplacesBindings(r) ==
  /\ Planning(r) /\ config.kind = "last" /\ planned[r] # Failed /\ Readable(planned[r])
  /\ replaceBindings(config.asks[r], Range(PlanOf(r))) /\ Stage(r, "recovering")
  /\ captured' = [captured EXCEPT ![r] =
                    [t \in Signal |-> IF t \in PlanTopics(r) THEN latest[t] ELSE None]]
  /\ UNCHANGED <<authorization, bindingVars, mappingVars, sourceVars, config>>

\* A lookup is over: it recovered an entry, or a packet brought one meanwhile.
TopicFound(r, t) ==
  /\ stage[r] = "recovering" /\ t \in PlanTopics(r) /\ captured[r][t] = None
  /\ IF latest[t] = None THEN \E at \in 0..MaxTime : Publish(t, at)
                         ELSE UNCHANGED valueVars
  /\ captured' = [captured EXCEPT ![r][t] = latest'[t]]
  /\ UNCHANGED <<authorization, bindingVars, mappingVars, sourceVars, config, stage>>

\* What the request answers: the result of the topic that the cached value is of, or
\* that value, if there is none or the value's binding is not in this request's plan.
EntityAnswer(r, cached) ==
  LET found == captured[r][cached.topic]
  IN IF cached = NoValue THEN NoValue
     ELSE IF found # None /\ \E b \in Range(PlanOf(r)) : SameBinding(b, cached)
          THEN [cached EXCEPT !.at = found]
     ELSE cached

NothingCaptured == [t \in Signal |-> None]

\* The lookups are over; topics that the recovery passed over, or did not find, have
\* no result.  Every entry is offered to the cache of entities again.
AnswersLast(r) ==
  /\ stage[r] = "recovering" /\ Stage(r, "answered")
  /\ entityValues' = Refreshed(PlanOf(r), latest) /\ PlanUsed(r)
  /\ captured' = [captured EXCEPT ![r] = NothingCaptured]
  /\ UNCHANGED <<authorization, mappingVars, sourceVars, bindingsBySelector,
                 selectorsByTopic, latest, config>>

-----------------------------------------------------------------------------
(* The controller, the database, packets and time.                         *)

Probe(t) == /\ Judge(t) \/ Settle(t)
            /\ UNCHANGED <<bindingVars, mappingVars, sourceVars, valueVars, requestVars>>

BindingsComeBack(r) == /\ BindingsRead(r)
                       /\ UNCHANGED <<authorization, mappingVars, sourceVars, valueVars, requestVars>>

LoadComesBack == /\ LoadReads \/ LoadArrives \/ LoadFails
                 /\ UNCHANGED <<authorization, bindingVars, sourceVars, valueVars, requestVars>>

TokenEdit(t) == /\ config.authority /\ (Revoke(t) \/ Restore(t))
             /\ UNCHANGED <<bindingVars, mappingVars, sourceVars, valueVars, requestVars>>

Edit == \/ /\ config.kind # "get" /\ Rebind
           /\ UNCHANGED <<authorization, mappingVars, sourceVars, valueVars, requestVars>>
        \/ /\ config.timed = "mapping" /\ Remap
           /\ UNCHANGED <<authorization, bindingVars, sourceVars, valueVars, requestVars>>

TableLost(t) == /\ config.drops /\ (Drop(t) \/ SchemaExpires(t))
              /\ UNCHANGED <<authorization, bindingVars, mappingVars, valueVars, requestVars>>

Packet(t, at) == /\ config.kind = "last" /\ Publish(t, at)
                 /\ UNCHANGED <<authorization, bindingVars, mappingVars, sourceVars, requestVars>>

Tick ==
  \/ /\ config.timed = "authorization" /\ AuthorizationTick
     /\ UNCHANGED <<bindingVars, mappingVars, sourceVars, valueVars, requestVars>>
  \/ /\ config.timed = "bindings" /\ BindingsTick
     /\ UNCHANGED <<authorization, mappingVars, sourceVars, valueVars, requestVars>>
  \/ /\ config.timed = "mapping" /\ MappingTick
     /\ UNCHANGED <<authorization, bindingVars, sourceVars, valueVars, requestVars>>

RequestInit == /\ config \in Config /\ stage = [r \in Request |-> "idle"]
               /\ captured = [r \in Request |-> NothingCaptured]

Init == /\ AuthorizationInit /\ BindingsInit /\ MappingInit /\ SourcesInit /\ ValuesInit
        /\ RequestInit /\ mappings = config.version

\* What a request does when it is its turn.
Proceeds(r) == \/ TurnedAway(r) \/ ReadsTopic(r) \/ Plans(r) \/ PlanFails(r) \/ ReadsEntity(r)
               \/ ResolvesTables(r) \/ Answers(r) \/ ReplacesBindings(r) \/ AnswersLast(r)
               \/ \E t \in Signal : TopicFound(r, t)
               \/ \E x \in Items(r) : TablesResume(x) \/ TablesKnown(x)

\* What answers it, or fails, until the timeout of each call at the latest.
Outside == \/ \E t \in Token : Probe(t)
           \/ \E r \in Request : BindingsComeBack(r)
           \/ LoadComesBack

Next == \/ \E r \in Request : Arrive(r) \/ Proceeds(r) \/ PlanEnds(r)
        \/ \E x \in Reader : ReadGoesOn(x)
        \/ Outside \/ Edit \/ Tick
        \/ \E t \in Token : TokenEdit(t)
        \/ \E t \in Table : TableLost(t)
        \/ \E t \in Signal, at \in 0..MaxTime : Packet(t, at)

\* Every request proceeds, and every call to the controller or the database ends: it
\* has a timeout (that of the access token is assumed).
Moves(r) == \/ Proceeds(r) \/ PlanEnds(r)
            \/ \E x \in Items(r) : ReadGoesOn(x)
Fairness == /\ \A r \in Request : WF_vars(Moves(r))
            /\ \A t \in Token : WF_vars(Probe(t))
            /\ WF_vars(LoadComesBack)

Spec == Init /\ [][Next]_vars /\ Fairness

-----------------------------------------------------------------------------
(* Properties.                                                             *)

\* The types, the sizes of the authorization cache and of its pending probes.
HistoryTypeOK ==
  /\ AuthorizationTypeOK
  /\ entries \in Versions \cup {0} /\ entries <= mappings /\ load.seen <= mappings
  /\ \A r \in Request : planned[r] <= bindings /\ fetching[r].seen <= bindings
  /\ stage \in [Request -> {"idle", "authorizing", "authorized", "planning", "reading",
                            "recovering", "answered", "failed"}]
  /\ \A x \in Reader : item[x].known <= Len(item[x].tables)

\* A request is let in only if its token was active less than cacheMs ago, whatever
\* is cached, joined or late (authorization-status.ts).
Admits(r) == verdict'[r] = "admitted" /\ verdict[r] # "admitted"
AdmittedRecently ==
  [][\A r \in Request : Admits(r) =>
       Bearer[r] \in active' \/ inactiveFor'[Bearer[r]] < CacheMs]_vars

\* The bindings of a plan were in force at most staleIfErrorMs before the request
\* asked for them, and since it asked if it insists on the current ones
\* (entity-binding-client.ts).
Learns(r) == /\ stage'[r] = "planning" /\ ~fetching'[r].on /\ planned'[r] # Failed
             /\ stage[r] # "planning" \/ fetching[r].on
PlanRecent ==
  [][\A r \in Request : Learns(r) =>
       replacedFor[planned'[r]] <=
         fetching[r].age + (IF r \in config.current THEN 0 ELSE StaleIfError)]_vars

\* Unless a load failed a moment ago, the tables a topic is read from were the
\* controller's at most ttlMs and a load ago, and a topic is said to have none only
\* if it had none that shortly ago that the cooldown explains it
\* (questdb-mapping-cache.ts).
Resolves(x) == resolving'[x].is = "found" /\ resolving[x].is # "found"
MappingRecent ==
  [][\A x \in Reader : Resolves(x) /\ failedFor >= Cooldown =>
       IF resolving'[x].found = <<>> THEN unmappedFor[item[x].topic] <= Cooldown + LoadTimeout
       ELSE outdatedFor <= Ttl + LoadTimeout]_vars

\* Rows are answered from every table of the topic except retired ones that do not
\* exist, which are reported, and never without the current one
\* (history-table-source.ts).
AnswerComplete ==
  /\ HistoryTypeOK
  /\ \A x \in Reader : item[x].stage = "ok" /\ ~config.override =>
       /\ Range(item[x].tables) \cup item[x].missing = Mapped(x)
       /\ item[x].missing \subseteq Retired(x) \ existing
       /\ Mapped(x) \ Retired(x) \subseteq Range(item[x].tables)

\* The cached value of an entity is within a binding of the newest plan for it, and
\* packets find exactly the selectors that are bound to their topic
\* (entity-last-value-cache.ts).  What is answered may be another one: NotReassigned.
EntityValueBound ==
  /\ \A s \in Selector : entityValues[s] # NoValue =>
       \E b \in bindingsBySelector[s] : /\ SameBinding(b, entityValues[s])
                                        /\ Within(b, entityValues[s].at)
  /\ \A t \in Signal, s \in Selector :
       s \in selectorsByTopic[t] <=> \E b \in bindingsBySelector[s] : b.topic = t

\* "A previous occupant's value before a reused path's new binding is not reassigned
\* to the new Asset" (README.md 313): what is answered of an entity as the value of a
\* binding is not from before that binding.  This does not hold: the result of the
\* topic is answered for the value that is cached, and a late packet may have replaced
\* the topic's entry, or a packet of the binding came after the result was taken
\* (handleBatchLast).
NotReassigned ==
  [][\A r \in Request : stage[r] = "recovering" /\ stage'[r] = "answered" =>
       LET a == EntityAnswer(r, entityValues'[config.asks[r]])
       IN \A b \in Range(PlanOf(r)) : SameBinding(b, a) => a.at >= b.from]_vars

\* Every request ends, although tokens, plans, loads, tables and queries fail; the
\* calls for the process's own access token are taken to end, one way or the other.
HistoryAnswered == \A r \in Request : []<>Over(r)
=============================================================================
