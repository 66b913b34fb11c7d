---------------------------- MODULE MappingCache ----------------------------
(***************************************************************************)
(* Which tables hold a topic's history (QuestDbMappingCache of             *)
(* src/src/questdb-mapping-cache.ts and fetchQuestDbMappings of            *)
(* src/src/index.ts).                                                      *)
(*                                                                         *)
(* All topics share one list of mappings, one load at a time, a time to    *)
(* live, and one cooldown for ordinary refreshes and one for misses.  The  *)
(* controller's list is the version `mappings`; a load reads it at one     *)
(* moment and ends at a later one, or fails, at the latest when it times   *)
(* out.  Timers fire within their tick, and so do continuations.           *)
(***************************************************************************)
EXTENDS RequestClock

CONSTANTS
  Topic,
  MappingOf,    \* MappingOf[v][t]: a topic's tables in version v: [table, retired]
  Ttl,          \* ttlMs, in ticks
  Cooldown,     \* cooldownMs, in ticks
  LoadTimeout   \* timeoutMs, in ticks

Versions == DOMAIN MappingOf

ASSUME MappingAssumption ==
  /\ IsFiniteSet(Versions) /\ Versions # {} /\ Versions = 1..Cardinality(Versions)
  /\ {Ttl, Cooldown, LoadTimeout} \subseteq Nat \ {0} /\ Cooldown <= Ttl

VARIABLES
  mappings,     \* external: the controller's version
  entries,      \* the version in entries; 0 before the first load
  fetchedFor,   \* age of fetchedAt
  refreshedFor, \* age of lastRefreshAt
  missedFor,    \* age of lastMissRefreshAt
  load,         \* inFlight
  resolving,    \* resolveHistory of each reader
  outdatedFor,  \* history: since when `entries` is not the controller's version
  unmappedFor,  \* history: since when the controller has tables for each topic
  failedFor     \* history: since when no load failed

refreshing == <<entries, fetchedFor, refreshedFor, missedFor, load>>
mapped     == <<mappings, outdatedFor, unmappedFor, failedFor>>
mappingVars == <<refreshing, mapped, resolving>>

Selected(v, t) == IF v = 0 THEN <<>> ELSE MappingOf[v][t]
Expired  == fetchedFor >= Ttl
NoLoad   == [on |-> FALSE, age |-> 0, seen |-> 0]
Quiet    == [is |-> "none", found |-> <<>>]
Found(t) == [is |-> "found", found |-> Selected(entries, t)]
FailureLimit == Cooldown
OutdatedLimit == Ttl + LoadTimeout + 1
UnmappedLimit == Cooldown + LoadTimeout + 1

\* refresh(load, miss) does nothing while its own cooldown lasts, unless it joins.
Cooling(miss) == ~load.on /\ (IF miss THEN missedFor ELSE refreshedFor) < Cooldown

\* refresh(load, miss) for a reader that then waits as w.
Refresh(x, miss, w) ==
  /\ ~Cooling(miss)
  /\ resolving' = [resolving EXCEPT ![x] = [is |-> w, found |-> <<>>]]
  /\ IF load.on THEN UNCHANGED <<load, refreshedFor, missedFor>>
     ELSE /\ load' = [NoLoad EXCEPT !.on = TRUE]
          /\ refreshedFor' = 0
          /\ missedFor' = IF miss THEN 0 ELSE missedFor
  /\ UNCHANGED <<entries, fetchedFor>>

\* Mutant: a miss that waits for its cooldown starts it again.
MissedAgain(x, t) ==
  /\ missedFor' = 0 /\ resolving' = [resolving EXCEPT ![x] = Found(t)]
  /\ UNCHANGED <<entries, fetchedFor, refreshedFor, load>>

\* A miss within its cooldown is believed.
MissBelieved(x, t) == /\ resolving' = [resolving EXCEPT ![x] = Found(t)]
                      /\ UNCHANGED refreshing

\* The first look after an ordinary refresh: a miss was then checked with it.
Looks(x, t) ==
  /\ resolving' = [resolving EXCEPT ![x] = Found(t)]
  /\ missedFor' = IF Selected(entries, t) = <<>> THEN refreshedFor ELSE missedFor
  /\ UNCHANGED <<entries, fetchedFor, refreshedFor, load>>

\* Reader x asks for topic t.
resolveHistory(x, t) ==
  /\ \/ Expired /\ Refresh(x, FALSE, "ordinary")
     \/ Expired /\ Cooling(FALSE) /\ Looks(x, t)
     \/ /\ ~Expired /\ Selected(entries, t) # <<>>
        /\ resolving' = [resolving EXCEPT ![x] = Found(t)] /\ UNCHANGED refreshing
     \/ ~Expired /\ Selected(entries, t) = <<>> /\ Refresh(x, TRUE, "miss")
     \/ ~Expired /\ Selected(entries, t) = <<>> /\ Cooling(TRUE) /\ MissBelieved(x, t)
  /\ UNCHANGED mapped

\* The refresh that x waits for is over.
ResolveResumes(x, t) ==
  /\ \/ resolving[x].is = "ordinary, over" /\ Looks(x, t)
     \/ resolving[x].is = "miss, over" /\ MissBelieved(x, t)
  /\ UNCHANGED mapped

\* Mutant: only those that missed are resumed.
ResumedMisses == [x \in Reader |->
  IF resolving[x].is = "miss" THEN [resolving[x] EXCEPT !.is = "miss, over"] ELSE resolving[x]]

\* Those that wait for the load go on.
Resumed == [x \in Reader |->
  CASE resolving[x].is = "ordinary" -> [resolving[x] EXCEPT !.is = "ordinary, over"]
    [] resolving[x].is = "miss"     -> [resolving[x] EXCEPT !.is = "miss, over"]
    [] OTHER                        -> resolving[x]]

LoadReads == /\ load.on /\ load.seen = 0 /\ load' = [load EXCEPT !.seen = mappings]
             /\ UNCHANGED <<entries, fetchedFor, refreshedFor, missedFor, mapped, resolving>>

LoadArrives ==
  /\ load.on /\ load.seen # 0
  /\ entries' = load.seen /\ fetchedFor' = 0 /\ load' = NoLoad /\ resolving' = Resumed
  /\ outdatedFor' = IF load.seen = mappings THEN 0 ELSE load.age
  /\ UNCHANGED <<refreshedFor, missedFor, mappings, unmappedFor, failedFor>>

\* It fails: the last list is kept.
LoadFails ==
  /\ load.on /\ missedFor' = refreshedFor /\ load' = NoLoad /\ resolving' = Resumed
  /\ failedFor' = 0
  /\ UNCHANGED <<entries, fetchedFor, refreshedFor, mappings, outdatedFor, unmappedFor>>

\* The controller's mappings change.
Remap ==
  /\ mappings < Cardinality(Versions) /\ mappings' = mappings + 1
  /\ outdatedFor' = IF entries = mappings THEN 0 ELSE outdatedFor
  /\ unmappedFor' = [t \in Topic |-> IF <<>> \in {MappingOf[mappings][t], MappingOf[mappings + 1][t]}
                                     THEN 0 ELSE unmappedFor[t]]
  /\ UNCHANGED <<refreshing, resolving, failedFor>>

MappingTick ==
  /\ load.age < LoadTimeout
  /\ \A x \in Reader : resolving[x].is \notin {"ordinary, over", "miss, over"}
  /\ fetchedFor' = Older(fetchedFor, Ttl) /\ refreshedFor' = Older(refreshedFor, Cooldown)
  /\ missedFor' = Older(missedFor, Cooldown) /\ failedFor' = Older(failedFor, FailureLimit)
  /\ load' = IF load.on THEN [load EXCEPT !.age = @ + 1] ELSE load
  /\ outdatedFor' = IF entries = mappings THEN 0 ELSE Older(outdatedFor, OutdatedLimit)
  /\ unmappedFor' = [t \in Topic |-> IF MappingOf[mappings][t] = <<>> THEN 0
                                     ELSE Older(unmappedFor[t], UnmappedLimit)]
  /\ UNCHANGED <<mappings, entries, resolving>>

MappingInit ==
  /\ mappings \in Versions /\ entries = 0 /\ fetchedFor = Ttl
  /\ refreshedFor = Cooldown /\ missedFor = Cooldown /\ load = NoLoad
  /\ resolving = [x \in Reader |-> Quiet] /\ outdatedFor = OutdatedLimit
  /\ unmappedFor = [t \in Topic |-> IF MappingOf[mappings][t] = <<>> THEN 0 ELSE UnmappedLimit]
  /\ failedFor = FailureLimit

=============================================================================
