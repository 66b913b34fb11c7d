-------------------------- MODULE TriggerEvaluation --------------------------
(***************************************************************************)
(* One trigger: what a message on a watched topic does                     *)
(* (src/src/triggers/evaluator.ts, src/src/triggers/service.ts), on top of *)
(* the cache of last values that the message has just updated              *)
(* (src/src/index.ts).                                                     *)
(*                                                                         *)
(* A message is handled in one step of the event loop.  What makes a fire  *)
(* right or wrong is what happened between two messages: the evaluator's   *)
(* remembered state survives edits of the definition, the cache loses and  *)
(* recovers entries, a restart forgets both, a handover carries both over. *)
(***************************************************************************)
EXTENDS Integers

CONSTANTS
  Topic,
  Number,        \* readings that coerceNumber accepts
  Word,          \* readings that are text, but not a number
  Definitions,   \* what the registry may return for the trigger
  StaleTtl,      \* age above which the cache evicts an entry
  MaxWallClock   \* bound: the wall clock

Null     == -1    \* no usable value: null, blank text, a table
WallTime == 0..MaxWallClock
Reading  == Number \cup Word \cup {Null}
Entry    == [value : Reading, receivedAt : WallTime]
Absent   == [value |-> Null, receivedAt |-> Null]

\* A definition has every field; its kind says which of them it uses.
Definition == [kind : {"high", "low", "event", "compare", "string", "composite"},
               cooldown : Nat \cup {Null}, source : Topic, threshold : Int,
               match : SUBSET Reading, peer : Topic, operator : STRING,
               snapshots : SUBSET Topic, staleAfter : Nat,
               conditions : SUBSET [topic : Topic, predicate : STRING, value : Reading],
               join : {"and", "or"}]

ASSUME TriggerAssumption ==
  /\ Number \subseteq Nat /\ Word \subseteq Int /\ \A w \in Word : w < Null
  /\ \A d \in Definitions : d \in Definition
  /\ StaleTtl \in Nat /\ MaxWallClock \in Nat

VARIABLES
  wallClock,
  cache,        \* lastValueMap
  trigger,      \* the definition that the registry returned last
  enabled,      \* the registry has the trigger
  state,        \* the trigger's TriggerRuntimeState
  outcome,      \* what the last step was: a fire, a suppressed evaluation, or else
  level,        \* history: what the last message that could tell said of the condition
  heard,        \* history: the last number told to a trigger on a threshold
  lastFire      \* history: when this process or one it took over from fired

triggerVars == <<wallClock, cache, trigger, enabled, state, outcome, level, heard, lastFire>>

FRESH_STATE == [seen |-> Null, firedAt |-> Null, comparison |-> "none", composite |-> FALSE]

-----------------------------------------------------------------------------
(* Readings.                                                               *)

coerceNumber(r) == IF r \in Number THEN r ELSE Null

applyOperator(op, left, right) ==
  CASE op = "gt"  -> left > right
    [] op = "lt"  -> left < right
    [] op = "gte" -> left >= right
    [] op = "lte" -> left <= right
    [] op = "eq"  -> left = right
    [] op = "neq" -> left # right

lookupNumber(c, t) == coerceNumber(c[t].value)

-----------------------------------------------------------------------------
(* The evaluators: the state to commit, and whether the trigger would fire *)
(* but for its cooldown.                                                   *)

Keep(st)         == [next |-> st, edge |-> FALSE]
Judged(st, edge) == [next |-> st, edge |-> edge]

evaluateHigh(d, in, st) ==
  LET before == coerceNumber(st.seen)
  IN IF coerceNumber(in) = Null THEN Keep(st)
     ELSE Judged([st EXCEPT !.seen = in],
                 before # Null /\ before <= d.threshold /\ in > d.threshold)

evaluateLow(d, in, st) ==
  LET before == coerceNumber(st.seen)
  IN IF coerceNumber(in) = Null THEN Keep(st)
     ELSE Judged([st EXCEPT !.seen = in],
                 before # Null /\ before >= d.threshold /\ in < d.threshold)

\* The same test opens evaluateString.
evaluateEvent(d, in, st) ==
  IF in = Null THEN Keep(st)
  ELSE Judged([st EXCEPT !.seen = in],
              /\ st.seen \notin {Null, in}
              /\ d.match # {} => in \in d.match)

\* source and peer are the operands leftTopic and rightTopic; the cache has the
\* one that did not just arrive.
Compared(d, t, in, c) ==
  LET left  == IF t = d.source THEN coerceNumber(in) ELSE lookupNumber(c, d.source)
      right == IF t = d.source THEN lookupNumber(c, d.peer) ELSE coerceNumber(in)
  IN IF Null \in {left, right} THEN "none"
     ELSE IF applyOperator(d.operator, left, right) THEN "true" ELSE "false"

\* Mutant: only a comparison that holds is remembered.
evaluateCompareForgets(d, t, in, st, c) ==
  LET result == Compared(d, t, in, c)
      seen   == [st EXCEPT !.seen = in]
  IN IF coerceNumber(in) = Null THEN Keep(st)
     ELSE IF result # "true" THEN Keep(seen)
     ELSE Judged([seen EXCEPT !.comparison = result], st.comparison = "false")

evaluateCompare(d, t, in, st, c) ==
  LET result == Compared(d, t, in, c)
      seen   == [st EXCEPT !.seen = in]
  IN IF coerceNumber(in) = Null THEN Keep(st)
     ELSE IF result = "none" THEN Keep(seen)
     ELSE Judged([seen EXCEPT !.comparison = result],
                 st.comparison = "false" /\ result = "true")

\* A topic without an entry is false for every predicate; an entry that is not
\* the number it is compared with differs from it.
evaluateCondition(cond, c) ==
  /\ c[cond.topic] # Absent
  /\ LET cached == c[cond.topic].value
     IN IF cond.predicate \in {"eq", "neq"}
        THEN applyOperator(cond.predicate, cached, cond.value)
        ELSE /\ coerceNumber(cached) # Null
             /\ applyOperator(cond.predicate, cached, cond.value)

Joined(d, c) ==
  IF d.join = "or" THEN \E cond \in d.conditions : evaluateCondition(cond, c)
                   ELSE \A cond \in d.conditions : evaluateCondition(cond, c)

evaluateComposite(d, st, c) ==
  IF d.conditions = {} THEN Keep(st)
  ELSE Judged([st EXCEPT !.composite = Joined(d, c)], ~st.composite /\ Joined(d, c))

Evaluated(d, t, in, st, c) ==
  CASE d.kind = "high"                -> evaluateHigh(d, in, st)
    [] d.kind = "low"                 -> evaluateLow(d, in, st)
    [] d.kind \in {"event", "string"} -> evaluateEvent(d, in, st)
    [] d.kind = "compare"             -> evaluateCompare(d, t, in, st, c)
    [] d.kind = "composite"           -> evaluateComposite(d, st, c)

CooledDown(d, firedAt, now) ==
  d.cooldown = Null \/ firedAt = Null \/ now - firedAt >= d.cooldown

gatherSnapshots(d, now, c) ==
  \A t \in d.snapshots : c[t] # Absent /\ now - c[t].receivedAt <= d.staleAfter

Fires(d, e, now, c) ==
  /\ e.edge
  /\ CooledDown(d, e.next.firedAt, now)
  /\ d.kind = "string" => gatherSnapshots(d, now, c)

-----------------------------------------------------------------------------
(* What a definition asks for, stated of the cache alone.                  *)

Threshold(d) == d.kind \in {"high", "low"}
Levelled(d)  == Threshold(d) \/ d.kind \in {"compare", "composite"}

\* The values needed to tell are there.
Decided(d, c) ==
  CASE Threshold(d)       -> lookupNumber(c, d.source) # Null
    [] d.kind = "compare" -> lookupNumber(c, d.source) # Null /\ lookupNumber(c, d.peer) # Null
    [] OTHER              -> d.kind = "composite" /\ d.conditions # {}

Beyond(d, r) == IF d.kind = "high" THEN r > d.threshold ELSE r < d.threshold

Holds(d, c) ==
  CASE Threshold(d)         -> Beyond(d, c[d.source].value)
    [] d.kind = "compare"   -> applyOperator(d.operator, c[d.source].value, c[d.peer].value)
    [] d.kind = "composite" -> Joined(d, c)

Level(d, c) ==
  IF ~Decided(d, c) THEN level ELSE IF Holds(d, c) THEN "above" ELSE "below"

\* What the messages said of the condition that an edit puts in place: the last
\* number is judged by the new threshold; a condition that stays as it was keeps
\* what was said of it; of any other, nothing is known.
LevelUnder(d) ==
  CASE Threshold(trigger) /\ Threshold(d) /\ d.source = trigger.source ->
         IF heard = Null THEN level ELSE IF Beyond(d, heard) THEN "above" ELSE "below"
    [] d.kind = "compare" /\ trigger.kind = "compare"
         /\ <<d.source, d.peer, d.operator>>
              = <<trigger.source, trigger.peer, trigger.operator>> -> level
    [] d.kind = "composite" /\ trigger.kind = "composite"
         /\ <<d.conditions, d.join>> = <<trigger.conditions, trigger.join>> -> level
    [] OTHER -> "redefined"

HeardUnder(d) ==
  IF Threshold(trigger) /\ Threshold(d) /\ d.source = trigger.source THEN heard ELSE Null

-----------------------------------------------------------------------------
(* Steps.                                                                  *)

TriggerInit ==
  /\ wallClock = 0
  /\ cache = [t \in Topic |-> Absent]
  /\ trigger \in Definitions /\ enabled = TRUE
  /\ state = FRESH_STATE
  /\ outcome = "none"
  /\ level = "unknown" /\ heard = Null
  /\ lastFire = Null

\* The registry's index (getTriggersForTopic).
Watched(d) ==
  CASE d.kind = "compare"   -> {d.source, d.peer}
    [] d.kind = "composite" -> {cond.topic : cond \in d.conditions}
    [] OTHER                -> {d.source}

FiredAt(st, now) == [st EXCEPT !.firedAt = now]

evaluateOne(t, in) ==
  LET e == Evaluated(trigger, t, in, state, cache')
      fired == Fires(trigger, e, wallClock, cache')
  IN /\ state' = IF fired THEN FiredAt(e.next, wallClock) ELSE e.next
     /\ outcome' = IF fired THEN "fired" ELSE "suppressed"
     /\ lastFire' = IF fired THEN wallClock ELSE lastFire
     /\ level' = Level(trigger, cache')
     /\ heard' = IF Threshold(trigger) /\ in \in Number THEN in ELSE heard

onMessage(t) ==
  IF enabled /\ t \in Watched(trigger) /\ cache'[t] # Absent
  THEN evaluateOne(t, cache'[t].value)
  ELSE outcome' = "none" /\ UNCHANGED <<state, lastFire, level, heard>>

\* updateLastValue, then the trigger with the entry that is cached.
Input(t, r) ==
  /\ cache' = [cache EXCEPT ![t] = [value |-> r, receivedAt |-> wallClock]]
  /\ onMessage(t)
  /\ UNCHANGED <<wallClock, trigger, enabled>>

\* A packet that cannot be parsed, or has no columns, leaves the entry, and the
\* trigger is evaluated with that one.
BadInput(t) ==
  /\ UNCHANGED cache
  /\ onMessage(t)
  /\ UNCHANGED <<wallClock, trigger, enabled>>

\* The seed or a request recovers the value of a topic that has no entry; its
\* time is the time at which it was measured.
Recover(t, r, at) ==
  /\ cache[t] = Absent /\ at <= wallClock
  /\ cache' = [cache EXCEPT ![t] = [value |-> r, receivedAt |-> at]]
  /\ outcome' = "none"
  /\ UNCHANGED <<wallClock, trigger, enabled, state, level, heard, lastFire>>

Stale(t) == cache[t] # Absent /\ cache[t].receivedAt < wallClock - StaleTtl

Evict ==
  /\ \E t \in Topic : Stale(t)
  /\ cache' = [t \in Topic |-> IF Stale(t) THEN Absent ELSE cache[t]]
  /\ outcome' = "none"
  /\ UNCHANGED <<wallClock, trigger, enabled, state, level, heard, lastFire>>

Tick ==
  /\ wallClock < MaxWallClock
  /\ wallClock' = wallClock + 1
  /\ outcome' = "none"
  /\ UNCHANGED <<cache, trigger, enabled, state, level, heard, lastFire>>

\* A refresh of the registry changes the definition; the state is kept by id.
Redefine(d) ==
  /\ enabled /\ d # trigger
  /\ trigger' = d
  /\ level' = LevelUnder(d) /\ heard' = HeardUnder(d)
  /\ outcome' = "none"
  /\ UNCHANGED <<wallClock, cache, enabled, state, lastFire>>

Toggle ==
  /\ enabled' = ~enabled
  /\ outcome' = "none"
  /\ UNCHANGED <<wallClock, cache, trigger, state, level, heard, lastFire>>

Restart ==
  /\ cache' = [t \in Topic |-> Absent]
  /\ state' = FRESH_STATE
  /\ level' = "unknown" /\ heard' = Null
  /\ lastFire' = Null
  /\ outcome' = "none"
  /\ UNCHANGED <<wallClock, trigger, enabled>>

automationCacheTopics(d) == Watched(d) \cup {d.source, d.peer} \cup d.snapshots

\* The state is parsed and copied field by field.
\* Mutant: the cooldown does not survive the handover.
importWithoutFire(st) == [st EXCEPT !.firedAt = Null]

\* Mutant: the results of the previous evaluation do not survive it.
importWithoutResults(st) == [st EXCEPT !.composite = FALSE]

importMigrationState(st) == st

\* The successor has the same definitions, or it refuses; it takes the entries
\* of their topics, and is warm or cold elsewhere (Recover).
Handover ==
  /\ state' = importMigrationState(state)
  /\ cache' = [t \in Topic |->
                 IF enabled /\ t \in automationCacheTopics(trigger) THEN cache[t] ELSE Absent]
  /\ outcome' = "none"
  /\ UNCHANGED <<wallClock, trigger, enabled, level, heard, lastFire>>

TriggerNext ==
  \/ \E t \in Topic, r \in Reading : Input(t, r)
  \/ \E t \in Topic : BadInput(t)
  \/ \E t \in Topic, r \in Reading, at \in WallTime : Recover(t, r, at)
  \/ \E d \in Definitions : Redefine(d)
  \/ Evict \/ Tick \/ Toggle \/ Restart \/ Handover

TriggerSpec == TriggerInit /\ [][TriggerNext]_triggerVars

-----------------------------------------------------------------------------
(* Properties.                                                             *)

\* Types; a fire is never dated in the future.
TriggerTypeOK ==
  /\ wallClock \in WallTime
  /\ cache \in [Topic -> Entry \cup {Absent}]
  /\ trigger \in Definitions /\ enabled \in BOOLEAN
  /\ state \in [seen : Reading, firedAt : 0..wallClock \cup {Null},
                comparison : {"none", "true", "false"}, composite : BOOLEAN]
  /\ outcome \in {"none", "fired", "suppressed"}
  /\ level \in {"unknown", "redefined", "below", "above"}
  /\ heard \in Number \cup {Null}
  /\ lastFire \in 0..wallClock \cup {Null}

\* A trigger on a level fires only while its condition holds of the cached
\* values, and never when the last message that could tell said so already.  A
\* threshold or a comparison fires only if that message said that it did not
\* hold: the first message of a process only arms it, and no restart, handover,
\* eviction, disabled period or edit of the cooldown makes one excursion fire
\* twice; a new threshold is held against the last number.  Of a condition whose
\* kind, source, operands or operator are edited nothing is known, and the
\* remembered state of the old one may make it fire at once.  A composite counts
\* what is not cached as false: its first message after a restart, or an operand
\* that was evicted when a message came, may fire the same excursion again.
\* A string trigger fires with all of its snapshots, each recent enough.
FiresOnRise ==
  [][outcome' = "fired" =>
       /\ Levelled(trigger) =>
            /\ Decided(trigger, cache') /\ Holds(trigger, cache')
            /\ level # "above"
            /\ level = "unknown" => trigger.kind = "composite"
       /\ trigger.kind = "string" =>
            \A t \in trigger.snapshots :
              wallClock - cache'[t].receivedAt <= trigger.staleAfter]_triggerVars

Armed == level = "below" \/ (level = "unknown" /\ trigger.kind = "composite")

\* No rise is lost: if the condition did not hold at the last message that
\* could tell (a composite: or none came), and holds now, and no fire is
\* recent, then the message fires.
RiseFires ==
  [][/\ outcome' # "none" /\ Levelled(trigger)
     /\ Armed /\ Decided(trigger, cache') /\ Holds(trigger, cache')
     /\ CooledDown(trigger, lastFire, wallClock)
     => outcome' = "fired"]_triggerVars

\* Fires of one trigger are a cooldown apart, whatever edits, disabled periods
\* and handovers came between them; only a restart forgets.
CooldownKept ==
  [][outcome' = "fired" => CooledDown(trigger, lastFire, wallClock)]_triggerVars
=============================================================================
