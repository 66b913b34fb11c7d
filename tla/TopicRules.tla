----------------------------- MODULE TopicRules -----------------------------
(***************************************************************************)
(* Which topics a rule covers (src/src/topic-matcher.ts, the access rules  *)
(* of src/src/catchall-helpers.ts) and which tables hold a topic's history *)
(* (selectMappedHistory of src/src/questdb-mapping-cache.ts).  A topic and *)
(* a filter are sequences of their levels.                                 *)
(***************************************************************************)
EXTENDS Naturals, Sequences, SequencesExt, FiniteSetsExt

CONSTANTS
  TextLength   \* the number of characters of each level that is no wildcard

Wildcard == {"+", "#"}
Hashes(filter) == {i \in DOMAIN filter : filter[i] = "#"}

matchesTopic(filter, topic) ==
  LET fixed == IF Hashes(filter) = {} THEN Len(filter) ELSE Min(Hashes(filter)) - 1
  IN  /\ \A i \in 1 .. fixed : i <= Len(topic) /\ filter[i] \in {"+", topic[i]}
      /\ Hashes(filter) = {} => Len(filter) = Len(topic)

\* The first source that covers a topic decides, also when it denies.
findDataSource(dataSources, topic) ==
  SelectInSeq(dataSources, LAMBDA source : matchesTopic(source.topic, topic))
isHistoryAllowed(dataSources, topic) ==
  LET i == findDataSource(dataSources, topic) IN i # 0 /\ dataSources[i].history
isCacheAllowed(dataSources, topic) ==
  LET i == findDataSource(dataSources, topic) IN i # 0 /\ dataSources[i].cache
getCacheTopicFilters(dataSources) == {s.topic : s \in {t \in ToSet(dataSources) : t.cache}}

\* External: the matcher of the SDK, which follows the same rules.
UnsTopicMatches(rule, topic) == matchesTopic(rule, topic)
isTopicAllowedByAccessRules(topic, rules) ==
  Len(topic) > 0 /\ \E rule \in rules : UnsTopicMatches(rule, topic)

-----------------------------------------------------------------------------
(* A mapping: its prefix, its table and the columns' suffix, retired or not. *)

WellFormed(mapping) ==
  Len(mapping.prefix) > 0 /\ \A i \in Hashes(mapping.prefix) : i = Len(mapping.prefix)

Covers(prefix, topic) ==
  IF ToSet(prefix) \cap Wildcard = {} THEN IsPrefix(prefix, topic)
  ELSE /\ \A i \in DOMAIN prefix :
            prefix[i] = "#" \/ (i <= Len(topic) /\ prefix[i] \in {"+", topic[i]})
       /\ Last(prefix) = "#" \/ Len(prefix) = Len(topic)

\* The levels a rule pins.
Literal(prefix) == {i \in DOMAIN prefix : prefix[i] \notin Wildcard}

\* The length of their texts joined by "/".  Mutant: every level counts.
AllLevels(prefix) == Len(prefix)
LiteralLength(prefix) == SumFunction([i \in Literal(prefix) |-> TextLength[prefix[i]]])
                           + Max({0, Cardinality(Literal(prefix)) - 1})

\* The same parent and attribute with another object.
Sibling(prefix, topic) ==
  /\ Len(topic) >= 3 /\ Len(prefix) = Len(topic)
  /\ \A i \in DOMAIN topic : i # Len(topic) - 1 => prefix[i] = topic[i]
  /\ ToSet(prefix) \cap Wildcard = {}

selectMappedHistory(topic, mappings) ==
  LET candidates == {m \in mappings : WellFormed(m)}
      direct     == {m \in candidates : Covers(m.prefix, topic)}
      score      == Max({LiteralLength(m.prefix) : m \in direct})
  IN  IF direct # {} THEN {m \in direct : LiteralLength(m.prefix) = score}
      ELSE {m \in candidates : Sibling(m.prefix, topic)}
=============================================================================
