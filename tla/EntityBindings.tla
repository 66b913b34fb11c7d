--------------------------- MODULE EntityBindings ---------------------------
(***************************************************************************)
(* Which topics an entity was bound to (listIntervals of                   *)
(* src/src/entity-binding-client.ts, as src/src/entity-query-planner.ts    *)
(* uses it).                                                               *)
(*                                                                         *)
(* Answers are cached per entity and range.  A caller that does not insist *)
(* on the current bindings takes a fresh entry, and an older one when the  *)
(* controller fails; fetches of one key run side by side, and each stores  *)
(* its answer when it comes.  A request for the value now asks for a range *)
(* of its own, around the instant of the request: its entry is never found *)
(* again.  The controller reads its bindings at one moment of a fetch.     *)
(*                                                                         *)
(* A fetch begins with the access token: the token's own call is outside   *)
(* timeoutMs (340, 352) and is taken to end.  The entities of one request  *)
(* are fetched side by side; they are one fetch here.                      *)
(***************************************************************************)
EXTENDS RequestClock

CONSTANTS
  MaxBindings,    \* bound: versions of the controller's bindings
  CacheTtl,       \* cacheTtlMs, in ticks
  StaleIfError,   \* staleIfErrorMs, in ticks
  FetchTimeout    \* timeoutMs, in ticks, with the time the access token takes

ASSUME BindingsAssumption ==
  /\ MaxBindings \in Nat \ {0} /\ CacheTtl \in Nat /\ StaleIfError \in Nat
  /\ CacheTtl <= StaleIfError /\ FetchTimeout \in Nat \ {0}

VARIABLES
  bindings,      \* external: the version of the controller's bindings
  replacedFor,   \* external: how long ago each version was replaced
  intervalCache, \* intervalCache: the entry of the shared range
  fetching,      \* listIntervals of each request
  planned        \* its result: a version, or "failed"

bindingVars == <<bindings, replacedFor, intervalCache, fetching, planned>>

Failed        == 0
NoEntry       == [version |-> 0, age |-> 0]
NoFetch       == [on |-> FALSE, age |-> 0, seen |-> 0, cached |-> NoEntry]
ReplacedLimit == StaleIfError + FetchTimeout + 1
Planned(r, v) == planned' = [planned EXCEPT ![r] = v]

\* Request r asks for the bindings of its range, which no other has if own.
listIntervals(r, requireCurrent, own) ==
  LET cached == IF own THEN NoEntry ELSE intervalCache
  IN /\ IF ~requireCurrent /\ cached # NoEntry /\ cached.age <= CacheTtl
        THEN Planned(r, cached.version) /\ UNCHANGED fetching
        ELSE /\ fetching' = [fetching EXCEPT ![r] =
                   [on |-> TRUE, age |-> 0, seen |-> 0,
                    cached |-> IF requireCurrent \/ cached.age > StaleIfError
                               THEN NoEntry ELSE cached]]
             /\ UNCHANGED planned
     /\ UNCHANGED <<bindings, replacedFor, intervalCache>>

BindingsRead(r) ==
  /\ fetching[r].on /\ fetching[r].seen = 0
  /\ fetching' = [fetching EXCEPT ![r].seen = bindings]
  /\ UNCHANGED <<bindings, replacedFor, intervalCache, planned>>

\* Mutant: an entry counts from its arrival.
StoredLate(r) == [version |-> fetching[r].seen, age |-> 0]

\* An entry is as old as its fetch.
Stored(r) == [version |-> fetching[r].seen, age |-> fetching[r].age]

\* The answer comes, or the fetch fails and a stale entry, read before it, serves.
Fetched(r, own) ==
  /\ fetching[r].on /\ fetching' = [fetching EXCEPT ![r] = NoFetch]
  /\ \/ /\ fetching[r].seen # 0 /\ Planned(r, fetching[r].seen)
        /\ intervalCache' = IF own THEN intervalCache ELSE Stored(r)
     \/ /\ Planned(r, fetching[r].cached.version) /\ UNCHANGED intervalCache
  /\ UNCHANGED <<bindings, replacedFor>>

Rebind ==
  /\ bindings < MaxBindings /\ bindings' = bindings + 1
  /\ replacedFor' = [replacedFor EXCEPT ![bindings] = 0]
  /\ UNCHANGED <<intervalCache, fetching, planned>>

BindingsTick ==
  /\ \A r \in Request : fetching[r].age < FetchTimeout
  /\ replacedFor' = [v \in 1..MaxBindings |->
                       IF v < bindings THEN Older(replacedFor[v], ReplacedLimit) ELSE 0]
  /\ intervalCache' = IF intervalCache = NoEntry THEN NoEntry
                      ELSE [intervalCache EXCEPT !.age = Older(@, StaleIfError + 1)]
  /\ fetching' = [r \in Request |-> IF fetching[r].on THEN [fetching[r] EXCEPT !.age = @ + 1]
                                    ELSE NoFetch]
  /\ UNCHANGED <<bindings, planned>>

BindingsInit ==
  /\ bindings = 1 /\ replacedFor = [v \in 1..MaxBindings |-> 0] /\ intervalCache = NoEntry
  /\ fetching = [r \in Request |-> NoFetch] /\ planned = [r \in Request |-> Failed]
=============================================================================
