---------------------------- MODULE EntityValues ----------------------------
(***************************************************************************)
(* The last values of entities (src/src/entity-last-value-cache.ts and its *)
(* use by updateLastValue and handleBatchLast of src/src/index.ts).        *)
(*                                                                         *)
(* A selector's value is that of the topic bound to it, whose packets may  *)
(* come out of order; the bindings of a selector are replaced by every     *)
(* request for it, with the plan that this request was given.              *)
(***************************************************************************)
EXTENDS Integers, FiniteSets, SequencesExt

CONSTANTS
  Signal,       \* topics of live packets
  Selector,
  BindingsOf,   \* BindingsOf[v][s]: a version's bindings [topic, revision, from, to] in order
  MaxTime       \* bound: timestamps of packets; a binding to MaxTime + 1 is open

ASSUME ValuesAssumption ==
  /\ IsFiniteSet(Signal) /\ MaxTime \in Nat
  /\ \A v \in DOMAIN BindingsOf : BindingsOf[v] \in
       [Selector -> Seq([topic : Signal, revision : Nat, from : Nat, to : Nat])]

VARIABLES
  latest,             \* lastValueMap: the timestamp of each signal's entry
  bindingsBySelector, \* bindingsBySelector
  selectorsByTopic,   \* selectorsByTopic
  entityValues        \* values: [topic, revision, at]

valueVars == <<latest, bindingsBySelector, selectorsByTopic, entityValues>>

None     == -1
NoValue  == [topic |-> "none", revision |-> 0, at |-> None]
Within(b, at)   == b.from <= at /\ at < b.to
SameBinding(b, e) == b.topic = e.topic /\ b.revision = e.revision

\* Mutant: a value stays if its binding does, however that was shortened.
KeptShortened(e, next) == \E b \in next : SameBinding(b, e)

\* A value stays if its binding does and it is within it.
Kept(e, next) == \E b \in next : SameBinding(b, e) /\ Within(b, e.at)

\* The bindings of selector s are replaced by the set next.
replaceBindings(s, next) ==
  /\ bindingsBySelector' = [bindingsBySelector EXCEPT ![s] = next]
  /\ selectorsByTopic' = [t \in Signal |->
       IF \E b \in next : b.topic = t THEN selectorsByTopic[t] \cup {s}
       ELSE IF \E b \in bindingsBySelector[s] : b.topic = t THEN selectorsByTopic[t] \ {s}
       ELSE selectorsByTopic[t]]
  /\ entityValues' = [entityValues EXCEPT ![s] = IF Kept(@, next) THEN @ ELSE NoValue]
  /\ UNCHANGED latest

\* The binding of s to t with the highest revision.
Bound(s, t) == {b \in bindingsBySelector[s] :
  /\ b.topic = t
  /\ \A c \in bindingsBySelector[s] : c.topic = t => c.revision <= b.revision}

\* The values after an entry of topic t with timestamp at.
updateTopic(values, t, at) == [s \in Selector |->
  LET b == Bound(s, t)
  IN IF s \in selectorsByTopic[t] /\ (\E c \in b : Within(c, at)) /\ values[s].at <= at
     THEN [topic |-> t, revision |-> (CHOOSE c \in b : TRUE).revision, at |-> at]
     ELSE values[s]]

\* A live packet of t, or an entry that was recovered.
Publish(t, at) ==
  /\ latest' = [latest EXCEPT ![t] = at]
  /\ entityValues' = updateTopic(entityValues, t, at)
  /\ UNCHANGED <<bindingsBySelector, selectorsByTopic>>

\* The values after a request for the topics of plan, a sequence of bindings, brought
\* them up to date.
Refreshed(plan, entry) ==
  LET After[i \in 0 .. Len(plan)] ==
        IF i = 0 THEN entityValues
        ELSE LET t == plan[i].topic
             IN IF entry[t] = None THEN After[i - 1] ELSE updateTopic(After[i - 1], t, entry[t])
  IN After[Len(plan)]

ValuesInit ==
  /\ latest = [t \in Signal |-> None]
  /\ bindingsBySelector = [s \in Selector |-> {}]
  /\ selectorsByTopic = [t \in Signal |-> {}]
  /\ entityValues = [s \in Selector |-> NoValue]
=============================================================================
