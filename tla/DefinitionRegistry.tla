-------------------------- MODULE DefinitionRegistry --------------------------
(***************************************************************************)
(* A registry of automation definitions (src/src/captures/registry.ts and, *)
(* line by line the same, src/src/triggers/registry.ts) with its health    *)
(* (src/src/controller-registry-health.ts).                                *)
(*                                                                         *)
(* A refresh asks for a token, asks the controller, reads the body and     *)
(* applies the rows; every one of these is an await, during which the      *)
(* registry may be paused for a handover, stopped or started again.  A     *)
(* pause begins a new generation, and what an old one brings home must not *)
(* be applied.  A definition is used while the health allows it: as long   *)
(* as the credential lasts and the last check is recent, by a clock that   *)
(* may also be set back.                                                   *)
(***************************************************************************)
EXTENDS Integers, FiniteSets

CONSTANTS
  MaxStale,        \* maxStaleMs
  MaxClock,        \* bound: readings of the clock
  MaxVersion,      \* bound: states of the controller's definitions
  MaxGeneration,   \* bound: pauses and stops
  Slot             \* bound: refreshes that run at the same time

None == 0
Time == 0..MaxClock
Never == MaxClock + 1        \* expiry of a token without one
Expiry == 0..Never
Version == 1..MaxVersion
NoRows == 0

ASSUME RegistryAssumption ==
  /\ MaxStale \in Nat \ {0} /\ MaxClock \in Nat /\ MaxVersion \in Nat \ {0} /\ MaxGeneration \in Nat
  /\ Slot \subseteq Nat \ {None}

VARIABLES
  clock,
  version,         \* the definitions that the controller has
  started,
  starting,        \* the refresh that a call of start awaits
  armed,           \* intervals that run
  refreshTimer,    \* the registry has the handle of one of them
  generation,
  refreshPromise,  \* the refresh that others join
  refresh,         \* the refreshes under way
  accepted, checkedAt, expiresAt, healthy,   \* the health
  byId,            \* the definitions that are cached, by their version
  newest           \* history: the newest version that was ever cached

health == <<accepted, checkedAt, expiresAt, healthy>>
calls  == <<started, starting, armed, refreshTimer, generation>>
cached == <<byId, newest>>
vars   == <<clock, version, calls, refreshPromise, refresh, health, cached>>

Idle == [phase |-> "idle", generation |-> 0, expiry |-> 0, rows |-> NoRows]

Init ==
  /\ clock \in Time /\ version = 1
  /\ started = FALSE /\ starting = None
  /\ armed = 0 /\ refreshTimer = FALSE
  /\ generation = 0 /\ refreshPromise = None
  /\ refresh = [i \in Slot |-> Idle]
  /\ accepted = FALSE /\ checkedAt = 0 /\ expiresAt = Never /\ healthy = FALSE
  /\ byId = NoRows /\ newest = NoRows

-----------------------------------------------------------------------------
(* The health.                                                             *)

tokenExpired(expiry) == expiry <= clock

Valid == /\ accepted
         /\ clock < expiresAt
         /\ checkedAt <= clock /\ clock - checkedAt < MaxStale

success(expiry) ==
  accepted' = TRUE /\ checkedAt' = clock /\ expiresAt' = expiry /\ healthy' = TRUE

authorizationFailure ==
  accepted' = FALSE /\ healthy' = FALSE /\ UNCHANGED <<checkedAt, expiresAt>>

cacheRows(rows) ==
  byId' = rows /\ newest' = IF rows > newest THEN rows ELSE newest

\* Every getter asks first; a check that fails is final until the next success.
executionAllowed ==
  /\ accepted' = Valid
  /\ healthy' = IF accepted /\ ~Valid THEN FALSE ELSE healthy
  /\ cacheRows(IF Valid THEN byId ELSE NoRows)
  /\ UNCHANGED <<checkedAt, expiresAt>>

transportFailure ==
  /\ accepted' = Valid /\ healthy' = FALSE
  /\ cacheRows(IF Valid THEN byId ELSE NoRows)
  /\ UNCHANGED <<checkedAt, expiresAt>>

\* What a getter returns.
Usable == Valid /\ byId # NoRows

-----------------------------------------------------------------------------
(* refresh.                                                                *)

\* A caller that finds a refresh under way joins it.
Begins(i) ==
  /\ refreshPromise = None /\ refresh[i] = Idle
  /\ refresh' = [refresh EXCEPT ![i] = [Idle EXCEPT !.phase = "token", !.generation = generation]]
  /\ refreshPromise' = i

In(i, phase)    == refresh[i].phase = phase
Goes(i, record) == refresh' = [refresh EXCEPT ![i] = record] /\ UNCHANGED refreshPromise

\* Mutant: a late answer counts.
CurrentAlways(i) == TRUE
Current(i)       == refresh[i].generation = generation

Finished == [Idle EXCEPT !.phase = "finished"]

\* Mutant: a refresh that has settled is joined for ever.
EndsKept(i) ==
  /\ refresh' = [refresh EXCEPT ![i] = IF starting = i THEN Finished ELSE Idle]
  /\ UNCHANGED refreshPromise

\* The promise settles; a start that awaits it is about to resume.
Ends(i) ==
  /\ refresh' = [refresh EXCEPT ![i] = IF starting = i THEN Finished ELSE Idle]
  /\ refreshPromise' = IF refreshPromise = i THEN None ELSE refreshPromise

\* The rows are dropped, and the listeners are awaited.
Refused(i) ==
  /\ authorizationFailure /\ cacheRows(NoRows)
  /\ Goes(i, [refresh[i] EXCEPT !.phase = "listeners"])

Fails(i) == transportFailure /\ Ends(i)

\* A step of the old generation only gives back what it holds.
Late(i) ==
  /\ \E phase \in {"token", "controller", "body"} : In(i, phase)
  /\ ~Current(i)
  /\ Ends(i)
  /\ UNCHANGED <<clock, version, calls, health, cached>>

\* No token, or none in time, or one that has expired.  What is awaited then are
\* the listeners, and the release of a body that nobody reads.
NoToken(i) ==
  /\ In(i, "token") /\ Current(i)
  /\ Refused(i)
  /\ UNCHANGED <<clock, version, calls>>

Token(i, expiry) ==
  /\ In(i, "token") /\ Current(i) /\ ~tokenExpired(expiry)
  /\ Goes(i, [refresh[i] EXCEPT !.phase = "controller", !.expiry = expiry, !.rows = version])
  /\ UNCHANGED <<clock, version, calls, health, cached>>

\* 401 or 403.
Unauthorized(i) ==
  /\ In(i, "controller") /\ Current(i)
  /\ Refused(i)
  /\ UNCHANGED <<clock, version, calls>>

\* The transport fails or the request times out, another status, or a body that
\* does not come in time or is not what it should be.
Unavailable(i) ==
  /\ In(i, "controller") \/ In(i, "body")
  /\ Current(i)
  /\ Fails(i)
  /\ UNCHANGED <<clock, version, calls>>

\* The answer has the definitions of some time since the request.
Answer(i, rows) ==
  /\ In(i, "controller") /\ Current(i)
  /\ rows \in refresh[i].rows..version
  /\ Goes(i, [refresh[i] EXCEPT !.phase = "body", !.rows = rows])
  /\ UNCHANGED <<clock, version, calls, health, cached>>

\* The credential may have expired while the body was read.
\* Mutant: it is not looked at again.
OutlivedNever(i) == FALSE
Outlived(i)      == tokenExpired(refresh[i].expiry)

ExpiredBody(i) ==
  /\ In(i, "body") /\ Current(i) /\ Outlived(i)
  /\ Refused(i)
  /\ UNCHANGED <<clock, version, calls>>

Body(i) ==
  /\ In(i, "body") /\ Current(i) /\ ~Outlived(i)
  /\ success(refresh[i].expiry) /\ cacheRows(refresh[i].rows)
  /\ Goes(i, [refresh[i] EXCEPT !.phase = "listeners"])
  /\ UNCHANGED <<clock, version, calls>>

\* The listeners' promises settle; a registry of triggers has none.
ListenersDone(i) ==
  /\ In(i, "listeners")
  /\ Ends(i)
  /\ UNCHANGED <<clock, version, calls, health, cached>>

-----------------------------------------------------------------------------
(* start, pauseForHandover, stop and the interval.                         *)

\* A process is activated again only when its earlier activation has returned.
start ==
  /\ ~started /\ starting = None
  /\ started' = TRUE
  /\ \/ /\ refreshPromise # None
        /\ starting' = refreshPromise /\ UNCHANGED <<refresh, refreshPromise>>
     \/ \E i \in Slot : Begins(i) /\ starting' = i
  /\ UNCHANGED <<clock, version, armed, refreshTimer, generation, health, cached>>

\* Mutant: the flag is not read again.
StillStartedAlways == TRUE
StillStarted       == started

StartReturns ==
  /\ starting # None /\ In(starting, "finished")
  /\ starting' = None
  /\ IF StillStarted THEN armed' = armed + 1 /\ refreshTimer' = TRUE
                     ELSE UNCHANGED <<armed, refreshTimer>>
  /\ refresh' = [refresh EXCEPT ![starting] = Idle]
  /\ UNCHANGED <<clock, version, started, generation, refreshPromise, health, cached>>

\* The interval calls refresh, which joins the one under way if there is one.
Interval ==
  /\ armed > 0
  /\ \E i \in Slot : Begins(i)
  /\ UNCHANGED <<clock, version, calls, health, cached>>

Forgets == refreshPromise' = None

Halts ==
  /\ generation < MaxGeneration
  /\ armed' = IF refreshTimer THEN armed - 1 ELSE armed
  /\ refreshTimer' = FALSE
  /\ started' = FALSE
  /\ generation' = generation + 1
  /\ Forgets
  /\ UNCHANGED <<clock, version, starting, refresh>>

pauseForHandover == Halts /\ UNCHANGED <<health, cached>>

stop == Halts /\ authorizationFailure /\ cacheRows(NoRows)

-----------------------------------------------------------------------------
(* The surroundings.                                                       *)

\* A message, a trigger or an inspection reads the definitions.
Use ==
  /\ executionAllowed
  /\ UNCHANGED <<clock, version, calls, refreshPromise, refresh>>

\* The wall clock, which may be set back.
Clock(now) ==
  /\ now # clock
  /\ clock' = now
  /\ UNCHANGED <<version, calls, refreshPromise, refresh, health, cached>>

Edited ==
  /\ version < MaxVersion
  /\ version' = version + 1
  /\ UNCHANGED <<clock, calls, refreshPromise, refresh, health, cached>>

Refreshing(i) ==
  \/ Late(i) \/ NoToken(i) \/ Unauthorized(i) \/ Unavailable(i)
  \/ ExpiredBody(i) \/ Body(i) \/ ListenersDone(i)
  \/ \E expiry \in Expiry : Token(i, expiry)
  \/ \E rows \in Version : Answer(i, rows)

Next ==
  \/ start \/ StartReturns \/ Interval \/ pauseForHandover \/ stop
  \/ \E i \in Slot : Refreshing(i)
  \/ Use \/ Edited
  \/ \E now \in Time : Clock(now)

Spec == Init /\ [][Next]_vars

\* Every await settles, within its timeout; the interval fires; a controller
\* that is asked for ever answers again and again, in time and to a credential
\* that outlasts the request.
Fairness ==
  /\ WF_vars(StartReturns) /\ WF_vars(Interval)
  /\ \A i \in Slot :
       /\ WF_vars(Refreshing(i))
       /\ SF_vars(Token(i, Never))
       /\ SF_vars(refresh[i].expiry = Never /\ \E rows \in Version : Answer(i, rows))
       /\ SF_vars(refresh[i].expiry = Never /\ Body(i))

FairSpec == Spec /\ Fairness

-----------------------------------------------------------------------------
(* Properties.                                                             *)

\* Types; what is joined is under way, in this generation; and a definition is
\* never cached without a check that allowed it.
TypeOK ==
  /\ clock \in Time /\ version \in Version
  /\ started \in BOOLEAN /\ starting \in Slot \cup {None}
  /\ armed \in Nat /\ refreshTimer \in BOOLEAN
  /\ generation \in 0..MaxGeneration
  /\ refreshPromise \in Slot \cup {None}
  /\ refresh \in [Slot -> [phase : {"idle", "token", "controller", "body", "listeners", "finished"},
                           generation : 0..MaxGeneration, expiry : Expiry, rows : 0..MaxVersion]]
  /\ accepted \in BOOLEAN /\ healthy \in BOOLEAN
  /\ checkedAt \in Time /\ expiresAt \in Expiry
  /\ byId \in 0..MaxVersion /\ newest \in 0..MaxVersion
  /\ refreshPromise # None => Current(refreshPromise) /\ ~In(refreshPromise, "idle")
  /\ byId # NoRows => accepted

\* Whatever order the answers, pauses and starts come in, the registry never
\* goes back to definitions older than some it had: an answer that comes after
\* a pause, or to a refresh that another one overtook, is not applied.
NeverOlder == byId # NoRows => byId = newest

\* An interval runs exactly while the registry is started and its start has
\* returned: none survives a pause that came while start was waiting, and none
\* is lost.
OneInterval ==
  /\ armed = (IF refreshTimer THEN 1 ELSE 0)
  /\ refreshTimer <=> started /\ starting = None

\* Health is reported only together with definitions that may be used: a slow
\* body, a refusal, a grace period that ends or a clock that is set back never
\* leave a getter with a healthy registry and no authority for what it has.
HealthyMeansUsable ==
  [][healthy' /\ (Use \/ ~healthy) => Usable']_vars

\* A registry that stays started becomes healthy again and again, whatever
\* failed, was refused or was paused before.
Recovers == []<>(healthy \/ ~started)

\* For its users the registry is a view of the controller's definitions: whatever
\* overlaps, fails, is refused or paused, it shows a version that the controller had,
\* never one older than it has shown, or none (registry.ts).
View == INSTANCE ControllerView WITH truth <- version, seen <- newest, view <- byId
ShowsController == View!Spec
=============================================================================
