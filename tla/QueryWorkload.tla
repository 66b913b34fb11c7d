---------------------------- MODULE QueryWorkload ----------------------------
(***************************************************************************)
(* Admission of database reads (src/src/query-diagnostics.ts).             *)
(*                                                                         *)
(* A call of query joins an identical read that is in flight, or takes one *)
(* of maxConcurrent slots, or waits in a bounded queue, from which every   *)
(* released slot is handed over by priority.  A call of a cancellable      *)
(* owner shares only with calls of the same owner; the calls of a latest-  *)
(* value lookup share the lookup's admission object, so a caller that      *)
(* joins the lookup raises the priority of what it has queued already.     *)
(* After a dependency failure a cooldown refuses new and queued reads.     *)
(*                                                                         *)
(* The database is external: a read ends with a value, an ordinary failure,*)
(* a dependency failure or, once its owner cancelled, a cancellation.      *)
(***************************************************************************)
EXTENDS Integers, FiniteSets, SequencesExt, Filtering

CONSTANTS
  Call,          \* callers of query, each with one call at a time
  Sql,           \* statements, with the database they go to
  Owner,         \* abort signals
  Lookup,        \* those of the latest-value lookups
  NoSql,         \* no call
  NoOwner,       \* the call has no signal
  Traffic,       \* bound: the workloads of the requests considered
  MaxConcurrent, \* options.maxConcurrent
  MaxQueued      \* options.maxQueued

Workload == {"interactive", "latest-recovery", "background"}
priority == [w \in Workload |-> IF w = "interactive" THEN 0
                                ELSE IF w = "latest-recovery" THEN 1 ELSE 2]

ASSUME WorkloadAssumption ==
  /\ MaxConcurrent \in Nat \ {0} /\ MaxQueued \in Nat
  /\ Lookup \subseteq Owner /\ NoOwner \notin Owner /\ NoSql \notin Sql
  /\ Traffic \subseteq Workload
  /\ IsFiniteSet(Call) /\ Call \cap Owner = {}

VARIABLES
  phase,       \* where each call is
  sql, scope,  \* its statement and its signal
  joined,      \* the calls that share a call's result
  outcome,     \* how it ended, until it returns
  workload,    \* admission.workload, of each call and of each lookup
  recoveries,  \* recoveries: the lookups that run, ran or did not yet
  aborted,     \* the signals that are aborted
  inFlight,    \* the calls that own an entry of inFlight
  queue, active, interactiveStreak, coalescedWaiters,
  cooling      \* now < cooldownUntil

calls   == <<sql, scope, joined>>
owners  == <<recoveries, aborted>>
slots   == <<queue, active, interactiveStreak>>
sharing == <<inFlight, coalescedWaiters>>
vars    == <<phase, calls, outcome, workload, owners, sharing, slots, cooling>>

Init ==
  /\ phase = [q \in Call |-> "returned"]
  /\ sql = [q \in Call |-> NoSql]
  /\ scope = [q \in Call |-> NoOwner]
  /\ joined = [q \in Call |-> {}]
  /\ outcome = [q \in Call |-> "none"]
  /\ workload = [a \in Call \cup Lookup |-> "background"]
  /\ recoveries = [l \in Lookup |-> "none"]
  /\ aborted = {} /\ inFlight = {}
  /\ queue = <<>> /\ active = 0 /\ interactiveStreak = 0 /\ coalescedWaiters = 0
  /\ cooling = FALSE

-----------------------------------------------------------------------------
(* The queue.                                                              *)

\* The object whose workload ranks a call: its lookup's, or its own.
admission(q) == IF scope[q] \in Lookup THEN scope[q] ELSE q
Class(q)     == workload[admission(q)]
Waiting(w)   == {i \in DOMAIN queue : Class(queue[i]) = w}
First(S)     == CHOOSE i \in S : \A j \in S : i <= j

\* The first of the most urgent class that waits.
MostUrgent ==
  First({i \in DOMAIN queue :
           \A j \in DOMAIN queue : priority[Class(queue[i])] <= priority[Class(queue[j])]})

\* Mutant: no recovery is let through.
SelectedByClass == MostUrgent

\* After two interactive admissions a waiting recovery goes first.
Selected ==
  IF Waiting("latest-recovery") # {} /\ interactiveStreak >= 2
  THEN First(Waiting("latest-recovery")) ELSE MostUrgent

Uncapped(n)     == n  \* Mutant: the streak counts on.
FewerThanTwo(n) == IF n < 2 THEN n ELSE 2

\* Call q gives up its slot: release hands it to the next one or frees it.
release(q) ==
  \/ /\ queue # <<>>
     /\ phase' = [phase EXCEPT ![q] = "settled", ![queue[Selected]] = "granted"]
     /\ queue' = RemoveAt(queue, Selected)
     /\ interactiveStreak' = IF Class(queue[Selected]) = "interactive"
                             THEN FewerThanTwo(interactiveStreak + 1) ELSE 0
     /\ UNCHANGED active
  \/ /\ queue = <<>>
     /\ phase' = [phase EXCEPT ![q] = "settled"]
     /\ active' = active - 1 /\ interactiveStreak' = 0
     /\ UNCHANGED queue

\* Mutant: only the queue is bounded.
QueueFull == Len(queue) >= MaxQueued

Full == Len(queue) + coalescedWaiters >= MaxQueued

-----------------------------------------------------------------------------
(* query and acquire.                                                      *)

\* Mutants: only a read that executes is shared; owners share with each other.
SharedLate(p, k, o)   == p \in inFlight /\ sql[p] = k /\ scope[p] = o /\ phase[p] # "queued"
SharedAcross(p, k, o) == p \in inFlight /\ sql[p] = k

\* inFlight.get(key): the key is the statement and the owner of the signal.
Existing(p, k, o) == p \in inFlight /\ sql[p] = k /\ scope[p] = o

MoreUrgent(w, v) == IF priority[w] < priority[v] THEN w ELSE v

\* Mutant: the owner of the read keeps its rank.
promoteNot(ranks, a, w) == ranks

\* "A foreground caller [...] must not inherit a background owner's low priority."
promote(ranks, a, w) == [ranks EXCEPT ![a] = MoreUrgent(w, @)]

Issues(q, k, o) ==
  /\ phase[q] = "returned"
  /\ o \in Lookup => recoveries[o] = "running"
  /\ sql' = [sql EXCEPT ![q] = k] /\ scope' = [scope EXCEPT ![q] = o]

\* A call of a lookup has the lookup's rank, another one its request's.
Ranked(q, o, w) == IF o \in Lookup THEN workload ELSE [workload EXCEPT ![q] = w]

\* One that may not wait any more is refused and leaves no trace.
QueryJoins(q, k, o, w) ==
  /\ Issues(q, k, o) /\ ~Full
  /\ \E p \in Call :
       /\ Existing(p, k, o)
       /\ joined' = [joined EXCEPT ![p] = @ \cup {q}]
       /\ workload' = promote(Ranked(q, o, w), admission(p), w)
  /\ phase' = [phase EXCEPT ![q] = "joined"]
  /\ coalescedWaiters' = coalescedWaiters + 1
  /\ UNCHANGED <<outcome, owners, inFlight, slots, cooling>>

\* A call that owns a new read, for the others to join.
Owns(q, k, o, w, next, result) ==
  /\ Issues(q, k, o)
  /\ \A p \in Call : ~Existing(p, k, o)
  /\ inFlight' = inFlight \cup {q}
  /\ phase' = [phase EXCEPT ![q] = next]
  /\ outcome' = [outcome EXCEPT ![q] = result]
  /\ workload' = Ranked(q, o, w)
  /\ UNCHANGED <<joined, owners, coalescedWaiters, interactiveStreak, cooling>>

QueryRefused(q, k, o, w) ==
  \E reason \in {"cooldown", "cancelled", "queue-full"} :
    /\ reason = "cooldown" <=> cooling
    /\ reason = "cancelled" <=> ~cooling /\ o \in aborted
    /\ reason = "queue-full" => active >= MaxConcurrent /\ Full
    /\ Owns(q, k, o, w, "settled", reason)
    /\ UNCHANGED <<queue, active>>

QueryAdmitted(q, k, o, w) ==
  /\ ~cooling /\ o \notin aborted /\ active < MaxConcurrent
  /\ Owns(q, k, o, w, "granted", "none")
  /\ active' = active + 1
  /\ UNCHANGED queue

QueryQueued(q, k, o, w) ==
  /\ ~cooling /\ o \notin aborted /\ active >= MaxConcurrent /\ ~Full
  /\ Owns(q, k, o, w, "queued", "none")
  /\ queue' = Append(queue, q)
  /\ UNCHANGED active

\* The timer of a queue entry.
QueueTimeout(q) ==
  /\ phase[q] = "queued"
  /\ queue' = Filter(queue, Call \ {q})
  /\ phase' = [phase EXCEPT ![q] = "settled"]
  /\ outcome' = [outcome EXCEPT ![q] = "queue-timeout"]
  /\ UNCHANGED <<calls, workload, owners, sharing, active, interactiveStreak, cooling>>

\* run, once it holds a slot.
ExecutionStarts(q) ==
  /\ phase[q] = "granted" /\ scope[q] \notin aborted /\ ~cooling
  /\ phase' = [phase EXCEPT ![q] = "executing"]
  /\ UNCHANGED <<calls, outcome, workload, owners, sharing, slots, cooling>>

\* Mutant: a refused call keeps the slot it was granted.
GrantKept(q) ==
  /\ phase[q] = "granted" /\ (scope[q] \in aborted \/ cooling)
  /\ phase' = [phase EXCEPT ![q] = "settled"]
  /\ outcome' = [outcome EXCEPT ![q] = "cooldown"]
  /\ UNCHANGED <<calls, workload, owners, sharing, slots, cooling>>

\* It was cancelled, or a dependency failed while it waited.
GrantRefused(q) ==
  /\ phase[q] = "granted" /\ (scope[q] \in aborted \/ cooling)
  /\ outcome' = [outcome EXCEPT ![q] = IF scope[q] \in aborted THEN "cancelled" ELSE "cooldown"]
  /\ release(q)
  /\ UNCHANGED <<calls, workload, owners, sharing, cooling>>

\* The read ends; a timeout, a lost connection or a 5xx starts the cooldown.
ExecutionEnds(q) ==
  /\ phase[q] = "executing"
  /\ \E result \in {"ok", "failed", "cancelled"}, unavailable \in BOOLEAN :
       /\ result = "cancelled" => scope[q] \in aborted
       /\ unavailable => result = "failed"
       /\ outcome' = [outcome EXCEPT ![q] = result]
       /\ cooling' = (cooling \/ unavailable)
  /\ release(q)
  /\ UNCHANGED <<calls, workload, owners, sharing>>

CooldownEnds ==
  /\ cooling
  /\ cooling' = FALSE
  /\ UNCHANGED <<phase, calls, outcome, workload, owners, sharing, slots>>

\* A call that returned leaves nothing behind.
Forget(q) ==
  /\ sql' = [sql EXCEPT ![q] = NoSql] /\ scope' = [scope EXCEPT ![q] = NoOwner]
  /\ workload' = [workload EXCEPT ![q] = "background"]

\* The promise of a read settles: its owner deletes it and returns, ...
OwnerReturns(q) ==
  /\ phase[q] = "settled"
  /\ Forget(q)
  /\ inFlight' = inFlight \ {q}
  /\ phase' = [p \in Call |-> IF p = q THEN "returned"
                              ELSE IF p \in joined[q] THEN "resolved" ELSE phase[p]]
  /\ outcome' = [p \in Call |-> IF p = q THEN "none"
                                ELSE IF p \in joined[q] THEN outcome[q] ELSE outcome[p]]
  /\ joined' = [joined EXCEPT ![q] = {}]
  /\ UNCHANGED <<owners, coalescedWaiters, slots, cooling>>

\* ... and then each of its followers.
FollowerReturns(q) ==
  /\ phase[q] = "resolved"
  /\ Forget(q)
  /\ phase' = [phase EXCEPT ![q] = "returned"] /\ outcome' = [outcome EXCEPT ![q] = "none"]
  /\ coalescedWaiters' = coalescedWaiters - 1
  /\ UNCHANGED <<joined, owners, inFlight, slots, cooling>>

-----------------------------------------------------------------------------
(* Owners: latest-value lookups, and aborted signals.                      *)

runRecovery(l, w) ==
  /\ recoveries[l] = "none"
  /\ recoveries' = [recoveries EXCEPT ![l] = "running"]
  /\ workload' = [workload EXCEPT ![l] = w]
  /\ UNCHANGED <<phase, calls, outcome, aborted, sharing, slots, cooling>>

joinRecovery(l, w) ==
  /\ recoveries[l] = "running"
  /\ workload' = promote(workload, l, w)
  /\ UNCHANGED <<phase, calls, outcome, owners, sharing, slots, cooling>>

RecoveryEnds(l) ==
  /\ recoveries[l] = "running"
  /\ recoveries' = [recoveries EXCEPT ![l] = "over"]
  /\ UNCHANGED <<phase, calls, outcome, workload, aborted, sharing, slots, cooling>>

\* The abort listeners of what the owner has in the queue.
Abort(o) ==
  /\ o \notin aborted
  /\ aborted' = aborted \cup {o}
  /\ queue' = Filter(queue, {q \in Call : scope[q] # o})
  /\ phase' = [q \in Call |-> IF phase[q] = "queued" /\ scope[q] = o
                              THEN "settled" ELSE phase[q]]
  /\ outcome' = [q \in Call |-> IF phase[q] = "queued" /\ scope[q] = o
                                THEN "cancelled" ELSE outcome[q]]
  /\ UNCHANGED <<calls, workload, recoveries, sharing, active, interactiveStreak, cooling>>

-----------------------------------------------------------------------------
Query(q) ==
  \E k \in Sql, o \in Owner \cup {NoOwner} :
    \E w \in IF o \in Lookup THEN {workload[o]} ELSE Traffic :
      \/ QueryJoins(q, k, o, w) \/ QueryRefused(q, k, o, w)
      \/ QueryAdmitted(q, k, o, w) \/ QueryQueued(q, k, o, w)

\* What the event loop runs at once.
Continues(q) ==
  ExecutionStarts(q) \/ GrantRefused(q) \/ OwnerReturns(q) \/ FollowerReturns(q)

Next ==
  \/ \E q \in Call : Query(q) \/ QueueTimeout(q) \/ Continues(q) \/ ExecutionEnds(q)
  \/ CooldownEnds
  \/ \E l \in Lookup : RecoveryEnds(l) \/ \E w \in Traffic : runRecovery(l, w) \/ joinRecovery(l, w)
  \/ \E o \in Owner : Abort(o)

Spec == Init /\ [][Next]_vars

\* Promises settle and every read ends by its statement timeout; the deadline
\* of a queued read is not counted on.
Fairness == \A q \in Call : WF_vars(Continues(q)) /\ WF_vars(ExecutionEnds(q))

FairSpec == Spec /\ Fairness

-----------------------------------------------------------------------------
Reading == {"queued", "granted", "executing"}

TypeOK ==
  /\ phase \in [Call -> {"returned", "joined", "resolved", "queued", "granted",
                         "executing", "settled"}]
  /\ sql \in [Call -> Sql \cup {NoSql}] /\ scope \in [Call -> Owner \cup {NoOwner}]
  /\ joined \in [Call -> SUBSET Call]
  /\ outcome \in [Call -> {"none", "ok", "failed", "queue-full", "queue-timeout",
                           "cooldown", "cancelled"}]
  /\ workload \in [Call \cup Lookup -> Workload]
  /\ recoveries \in [Lookup -> {"none", "running", "over"}]
  /\ aborted \subseteq Owner /\ inFlight \subseteq Call
  /\ queue \in Seq(Call) /\ active \in Nat /\ interactiveStreak \in 0..2
  /\ coalescedWaiters \in Nat /\ cooling \in BOOLEAN

\* Slots are neither leaked nor overbooked by any order of timeouts, aborts,
\* cooldowns and hand-overs, and no read waits while a slot is free (acquire
\* 312-344, release 345-376, the early returns of run).
SlotsExact ==
  /\ TypeOK
  /\ active = Cardinality({q \in Call : phase[q] \in {"granted", "executing"}})
  /\ active <= MaxConcurrent
  /\ queue # <<>> => active = MaxConcurrent

\* "SQL queue and SQL followers share the configurable waiting bound".
WaitingBounded ==
  /\ Len(queue) + Cardinality({q \in Call : phase[q] \in {"joined", "resolved"}}) <= MaxQueued
  /\ coalescedWaiters <= MaxQueued

\* "Never duplicate the database read": no two calls of one owner have the same
\* statement queued or executing (query 388-440).
OneRead ==
  \A p, q \in Call :
    phase[p] \in Reading /\ phase[q] \in Reading /\ sql[p] = sql[q] /\ scope[p] = scope[q]
      => p = q

\* "Cancelling it must never abort another lookup or an ordinary history
\* request with identical SQL": only a call of an aborted owner is cancelled.
CancelIsOwn == \A q \in Call : outcome[q] = "cancelled" => scope[q] \in aborted

\* A read that waits ranks at least as high as every call that joined it, also
\* when the rank of the caller's lookup rises later (query 437-440, 265-274).
JoinedNotDelayed ==
  \A p \in Call : \A q \in joined[p] :
    phase[p] = "queued" => priority[Class(p)] <= priority[Class(q)]

\* "Do not let cache recovery fan-out put every interactive read behind it",
\* "a long batch cannot starve ordinary cache misses": a foreground read leaves
\* the queue without its deadline, however much traffic of either class keeps
\* coming (release 345-376).
ForegroundAdmitted ==
  \A q \in Call : phase[q] = "queued" /\ Class(q) # "background" ~> phase[q] # "queued"

=============================================================================
