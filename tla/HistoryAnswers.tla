--------------------------- MODULE HistoryAnswers ---------------------------
(***************************************************************************)
(* What the history reads answer, compared with what was recorded.  A step *)
(* answers one question about given tables and bindings; the interleavings *)
(* of a read are the subject of HistoryRequest and LatestLookup.           *)
(***************************************************************************)
EXTENDS EntityHistory, ArchivedLatest, CounterDelta

CONSTANTS
  EntityWorlds, EntityQuestions,      \* tables with bindings, and range reads of an entity
  CounterRows, CounterQuestions,      \* samples of a counter, and reads of its rise
  ArchiveRows, ExportQuestions,       \* rows of a topic in several tables, and exports
  LatestQuestions,                    \* recoveries of its newest value
  MappingSets, MappedTopics,          \* registered mappings, and topics to look up
  MaxLookback, DefaultLookback, Now

\* A topic has finitely many mappings.  A rule that pins one level only pins a text:
\* an empty one, as in "+//+", would be as long as none.
RulesFit ==
  /\ \A level \in DOMAIN TextLength : TextLength[level] \in Nat
  /\ \A S \in MappingSets : IsFiniteSet(S)
  /\ \A S \in MappingSets : \A m \in S :
       /\ m.prefix \in Seq(DOMAIN TextLength \cup Wildcard)
       /\ \A i \in DOMAIN m.prefix : Literal(m.prefix) = {i} => TextLength[m.prefix[i]] > 0
ASSUME RuleAssumption == RulesFit

\* The times that order the rows are numbers or absent, the place of a table is a number.
Times(r, columns) == {r.at[c] : c \in columns} \subseteq Int \cup {Null}
RowsFit ==
  /\ TieRows \in Nat /\ Null \notin Int
  /\ \A rows \in ArchiveRows : rows \in Seq(ToSet(rows))
  /\ \A rows \in ArchiveRows, q \in LatestQuestions : \A r \in ToSet(rows) :
       LET temporal == resolveTemporalStrategy(q.columns, "auto")
       IN  Times(r, {temporal.fromColumn, temporal.toColumn})
  /\ \A rows \in ArchiveRows : \A r \in ToSet(rows) : r.table \in Int
  /\ \A rows \in ArchiveRows, q \in ExportQuestions : \A r \in ToSet(rows) :
       Times(r, {resolvePointTimeColumn(q.columns)} \ {Null})
  /\ \A q \in ExportQuestions : q.limit \in Nat /\ {q.from, q.middle, q.to} \subseteq Int
ASSUME ArchiveAssumption == RowsFit

\* Samples are numbers or absent; Scale is a multiple of every gap between two of them.
SamplesFit ==
  /\ Scale \in Nat
  /\ \A rows \in CounterRows : rows \in Seq([time : Int, value : Int \cup {Null}])
  /\ \A rows \in CounterRows : \A r, s \in ToSet(rows) :
       r.time < s.time /\ Null \notin {r.value, s.value} => Scale % (s.time - r.time) = 0
  /\ \A q \in CounterQuestions : /\ q.bucket \in Nat \ {0} /\ {q.from, q.to} \subseteq Int
                                 /\ q.policy \in {"new-value", "null"}
ASSUME CounterAssumption == SamplesFit

\* An entity has finitely many bindings, topics and rules are lists; a point time is
\* never absent; the times of a request are not before the epoch.
EntitiesFit ==
  /\ NoEnd \notin Int
  /\ \A w \in EntityWorlds :
       /\ w.rows \in Seq(ToSet(w.rows)) /\ IsFiniteSet(w.intervals)
       /\ \A i \in w.intervals : /\ i.validFrom \in Int /\ i.validTo \in Int \cup {NoEnd}
                                 /\ i.topic \in Seq(ToSet(i.topic)) /\ TopicRank[i.topic] \in Int
       /\ \A rule \in w.rules : rule \in Seq(ToSet(rule))
       /\ \A r \in ToSet(w.rows) : /\ Times(r, w.columns \cap Interval)
                                   /\ {r.at[c] : c \in w.columns \cap {"time", "timestamp"}} \subseteq Int
                                   /\ r.value \in Int \cup {Null}
  /\ \A q \in EntityQuestions : /\ q.from \in Nat /\ q.to \in Nat
                                /\ q.limit \in Nat \ {0} /\ q.bucket \in Nat \ {0} /\ q.points \in Nat
                                /\ q.aggregate \in {"raw", "avg", "sum", "min", "max", "count", "last"}
ASSUME EntityAssumption == EntitiesFit

ASSUME RangeAssumption == MaxLookback \in Nat /\ DefaultLookback \in Nat /\ Now \in Nat

VARIABLES asked, answer

answerVars == <<asked, answer>>

Idle == [kind |-> "none"]

-----------------------------------------------------------------------------

\* One entity selector of handleBatchRange.
\* Mutant: every part is divided on its own.
PartRange(plan, k, q) == [from |-> plan[k].from, to |-> plan[k].to]
SampleRange(plan, k, q) == IF Len(plan) > 1 THEN [from |-> q.from, to |-> q.to]
                           ELSE [from |-> plan[k].from, to |-> plan[k].to]

entityResult(w, q) ==
  LET plan     == planEntityHistoryBindings(w.intervals, w.attributePath, q.from, q.to)
      temporal == resolveTemporalStrategy(w.columns, q.timeField)
      bucket(k) == IF q.points = 0 THEN q.bucket
                   ELSE LET r == SampleRange(plan, k, q) IN deriveBucketMs(r.from, r.to, q.points)
      source(k) == buildEntitySourceSql(w.rows, w.entity, plan[k], q.dedupe, w.columns, temporal)
      grouped(k) == buildEntityBucketPartialSql(source(k), bucket(k), temporal)
      lines(k)   == buildEntityDataSql(w.rows, w.entity, plan[k], q.limit, q.dedupe,
                                       w.columns, temporal)
  IN  IF plan = Refused THEN [status |-> "failed"]
      ELSE IF ~ assessEntityPlanAccess(plan, w.rules, w.dataSources) THEN [status |-> "denied"]
      ELSE IF plan = <<>> THEN [status |-> "not-found"]
      ELSE IF temporal = Refused THEN [status |-> "failed"]
      ELSE IF q.aggregate = "raw"
      THEN [status |-> "resolved",
            data |-> mergeEntityHistoryRows([k \in DOMAIN plan |-> lines(k)], q.limit, w.columns)]
      ELSE IF Len(plan) > 1
      THEN [status |-> "resolved",
            data |-> mergeEntityBucketRows([k \in DOMAIN plan |-> grouped(k)], q.aggregate)]
      ELSE [status |-> "resolved",
            data |-> buildBucketSql(source(1), q.aggregate, bucket(1), temporal)]

ReadEntity(w, q) ==
  /\ asked' = [kind |-> "entity", world |-> w, question |-> q]
  /\ answer' = entityResult(w, q)

\* transform=delta of the GET handler, in buckets and undivided.
ReadCounter(rows, q) ==
  /\ asked' = [kind |-> "counter", rows |-> rows, question |-> q]
  /\ answer' = [buckets |-> CounterBuckets(rows, q.from, q.to, q.bucket, q.policy),
                rises |-> buildCounterDeltaSourceSql(
                            sourceRows(rows, [from |-> q.from, to |-> q.to]), q.policy)]

\* An export of [from, middle) and one of [middle, to).
ExportRows(rows, q) ==
  LET page(from, to) == ExportPage(rows, q.topic, from, to, q.limit, q.dedupe, q.columns, MaxLookback)
  IN  /\ asked' = [kind |-> "export", rows |-> rows, question |-> q]
      /\ answer' = <<page(q.from, q.middle), page(q.middle, q.to)>>

\* tryQuestDbLastRowFallback, without its awaits.
RecoverLatest(rows, q) ==
  /\ asked' = [kind |-> "latest", rows |-> rows, question |-> q]
  /\ answer' = latestArchived(rows, q.topic, resolveTemporalStrategy(q.columns, "auto"))

ResolveTables(mappings, topic) ==
  /\ asked' = [kind |-> "tables", mappings |-> mappings, topic |-> topic]
  /\ answer' = selectMappedHistory(topic, mappings)

\* The range a request with or without from and to is read for.
NormalizeRange(from, to) ==
  /\ asked' = [kind |-> "range", from |-> from, to |-> to]
  /\ answer' = normalizeRange(from, to, Now, DefaultLookback, MaxLookback)

Done == asked # Idle /\ asked' = Idle /\ answer' = Idle

AnswersInit == asked = Idle /\ answer = Idle

Ask ==
  \/ \E w \in EntityWorlds, q \in EntityQuestions : ReadEntity(w, q)
  \/ \E rows \in CounterRows, q \in CounterQuestions : ReadCounter(rows, q)
  \/ \E rows \in ArchiveRows, q \in ExportQuestions : ExportRows(rows, q)
  \/ \E rows \in ArchiveRows, q \in LatestQuestions : RecoverLatest(rows, q)
  \/ \E mappings \in MappingSets, topic \in MappedTopics : ResolveTables(mappings, topic)
  \/ \E from, to \in {Null} \cup (0 .. Now) : NormalizeRange(from, to)

AnswersNext == (asked = Idle /\ Ask) \/ Done

AnswersSpec == AnswersInit /\ [][AnswersNext]_answerVars
-----------------------------------------------------------------------------
(* Properties: entities. *)

\* The first and last instant of a row, by the columns the read filters on.
First(row, q, w) == row.at[resolveTemporalStrategy(w.columns, q.timeField).fromColumn]
Final(row, q, w) == row.at[resolveTemporalStrategy(w.columns, q.timeField).toColumn]

\* A binding of the attribute that is in force within the range; one that begins with
\* the last instant of the range is not read.
InForce(i, q, w) ==
  /\ IsSuffix(w.attributePath, i.topic)
  /\ i.validFrom < q.to
  /\ i.validTo # NoEnd => q.from < i.validTo /\ i.validFrom < i.validTo
\* The rows that were recorded for the entity's attribute while its topic was bound.
BoundTo(i, row, q, w) ==
  /\ InForce(i, q, w) /\ i.topic = row.topic
  /\ Final(row, q, w) >= i.validFrom
  /\ i.validTo # NoEnd => First(row, q, w) < i.validTo
Recorded(w, q) ==
  {k \in DOMAIN w.rows :
     LET row == w.rows[k] IN
     /\ row.stable = Null \/ (row.stable = w.entity /\ row.resolved)
     /\ Null \notin {First(row, q, w), Final(row, q, w)}
     /\ First(row, q, w) <= q.to /\ Final(row, q, w) >= q.from
     /\ \E i \in w.intervals : BoundTo(i, row, q, w)}

\* The planned topics, by the definition of a binding.
Visited(w, q) == {i.topic : i \in {j \in w.intervals : InForce(j, q, w)}}

\* The bindings of one topic follow each other.
EndsBefore(i, j) == i.validTo # NoEnd /\ i.validTo <= j.validFrom
Consecutive(w) == \A i, j \in w.intervals :
                    i.topic = j.topic => i = j \/ EndsBefore(i, j) \/ EndsBefore(j, i)

RowsExact(w, q) ==
  LET recorded == {Payload(w.rows[k], w.columns) : k \in Recorded(w, q)}
      answered == {Payload(answer.data[k], w.columns) : k \in DOMAIN answer.data}
      distinct == \A k, l \in DOMAIN w.rows : k # l =>
                    Payload(w.rows[k], w.columns) # Payload(w.rows[l], w.columns)
      OneTime  == resolveTemporalStrategy(w.columns, q.timeField).fromColumn = MergeTime(w.columns)
  IN  /\ answered \subseteq recorded
      /\ Cardinality(answered) = Len(answer.data)
      /\ Consecutive(w) =>
           /\ Len(w.rows) <= q.limit /\ ~ q.dedupe => answered = recorded
           /\ ~ q.dedupe /\ distinct =>
                /\ Len(answer.data) = Min({q.limit, Cardinality(recorded)})
                /\ OneTime => \A p \in answered, o \in recorded \ answered :
                                p[1][MergeTime(w.columns)] >= o[1][MergeTime(w.columns)]
           /\ recorded # {} => answered # {}

ValueOver(rows, members, aggregate, time) ==
  LET valued == {k \in members : rows[k].value # Null}
      sum    == SumFunction([k \in valued |-> rows[k].value])
  IN  CASE aggregate = "count" -> {Cardinality(members)}
        [] aggregate = "last"  ->
             {rows[k].value : k \in {m \in members : \A n \in members : time[n] <= time[m]}}
        [] aggregate = "avg" /\ valued # {} -> {<<sum, Cardinality(valued)>>}
        [] aggregate = "sum" /\ valued # {} -> {sum}
        [] aggregate = "min" /\ valued # {} -> {Min({rows[k].value : k \in valued})}
        [] aggregate = "max" /\ valued # {} -> {Max({rows[k].value : k \in valued})}
        [] OTHER -> {Null}

\* Rows that have an instant of their own fall into one part and one bucket.
Instants(w, q) ==
  LET temporal == resolveTemporalStrategy(w.columns, q.timeField)
  IN  temporal.fromColumn = temporal.toColumn

\* Buckets have the width that was asked, or one derived from the number of points.
Widths(q) == IF q.points = 0 THEN {q.bucket} ELSE 1 .. (q.to + 1)

\* A part of a bucket without any value counts as 0 in min and max.
BucketsExact(w, q) ==
  LET recorded == Recorded(w, q)
      time     == [k \in DOMAIN w.rows |-> First(w.rows[k], q, w)]
      bucket(k, b)  == (time[k] \div b) * b
      members(d, b) == {k \in recorded : bucket(k, b) = d.bucket}
      Hollow(d, b)  == \E i \in w.intervals :
        LET own == {k \in members(d, b) : BoundTo(i, w.rows[k], q, w)}
        IN  own # {} /\ \A k \in own : w.rows[k].value = Null
  IN  \E b \in Widths(q) :
        /\ {d.bucket : d \in answer.data} = {bucket(k, b) : k \in recorded}
        /\ \A d \in answer.data :
             \/ d.value \in ValueOver(w.rows, members(d, b), q.aggregate, time)
             \/ q.aggregate \in {"min", "max"} /\ Hollow(d, b)

\* A rule allows the topics that its levels match, all of them or those before a "#".
AllowedBy(rules, topic) ==
  \E rule \in rules : \E n \in 0 .. Len(topic) :
    /\ n <= Len(rule) /\ \A i \in 1 .. n : rule[i] \in {"+", topic[i]}
    /\ IF n = Len(rule) THEN n = Len(topic) ELSE rule[n + 1] = "#"

\* An entity's rows are those that were recorded at each of its topics while it
\* was bound to it: none is lost at a handover, none is read twice, none is
\* another entity's; a limited answer holds the newest; buckets over several
\* topics have the value that all their rows have together, and never more
\* points than asked.  A topic the caller may not read denies the whole answer.
\* (planIntervals, buildEntitySourceSql, mergeEntityHistoryRows,
\* mergeEntityBucketRows.)
EntityReadExact ==
  asked.kind = "entity" =>
    LET w == asked.world
        q == asked.question
        open == \A t \in Visited(w, q) : AllowedBy(w.rules, t)
    IN  /\ answer.status = "resolved" => open /\ Visited(w, q) # {}
        /\ answer.status = "not-found" => Visited(w, q) = {}
        /\ answer.status = "resolved" =>
             IF q.aggregate = "raw" THEN RowsExact(w, q)
             ELSE Instants(w, q) => /\ q.points # 0 => Cardinality(answer.data) <= q.points
                                    /\ ~ q.dedupe /\ Consecutive(w) => BucketsExact(w, q)

-----------------------------------------------------------------------------
(* Properties: counters. *)

\* How much of a rise between two instants falls into [a, b), in 1 / Scale.
Share(before, after, a, b, rise) ==
  LET overlap == Max({0, Min({after, b}) - Max({before, a})})
  IN  (Scale \div (after - before)) * rise * overlap

\* The rise of a row over the row with a value before it.
Rise(rows, k, policy) ==
  LET before == {l \in DOMAIN rows : rows[l].value # Null /\ Sooner(rows, l, k)}
      last   == CHOOSE l \in before : \A m \in before : m = l \/ Sooner(rows, m, l)
  IN  IF rows[k].value = Null \/ before = {} THEN 0
      ELSE IF rows[k].value >= rows[last].value THEN rows[k].value - rows[last].value
      ELSE IF policy = "new-value" THEN rows[k].value ELSE 0

Rises(rows, S, policy) == SumFunction([k \in S |-> Rise(rows, k, policy)])

\* A bucket of a counter has the rise of all the samples there are, also of those
\* that the read left out, whenever it is answered, but is never negative; it is
\* answered when both its edges have samples within two buckets of the range; and
\* the undivided rises of samples with values add up to what the samples rose.
\* (counterBoundarySourceRange, buildCounterBoundarySamples,
\* interpolateCounterValue, buildCounterDeltaSourceSql.)
CounterExact ==
  asked.kind = "counter" =>
    LET rows  == asked.rows
        q     == asked.question
        times == {rows[k].time : k \in {l \in DOMAIN rows : rows[l].value # Null}}
        before(t) == Max({u \in times : u < t})
        later == {t \in times : \E u \in times : u < t}
        rise(t) == Rises(rows, {k \in DOMAIN rows : rows[k].time = t}, q.policy)
        whole(a, b) == SumFunction([t \in later |-> Share(before(t), t, a, b, rise(t))])
        known(k) == /\ \E t \in times : t \in (k - 2 * q.bucket) .. k
                    /\ \E t \in times : t \in (k + q.bucket) .. (k + 3 * q.bucket)
        inside == {k \in DOMAIN rows : rows[k].time \in q.from .. q.to}
    IN  /\ \A d \in answer.buckets : /\ d.delta = Max({0, whole(d.bucket, d.bucket + q.bucket)})
                                     /\ d.bucket >= q.from /\ d.bucket + q.bucket <= q.to
        /\ \A k \in q.from .. (q.to - q.bucket) :
             k % q.bucket = 0 /\ known(k) => \E d \in answer.buckets : d.bucket = k
        /\ (\A k \in inside : rows[k].value # Null) =>
             SumFunction([r \in answer.rises |-> r.delta])
               = Rises(rows, {k \in inside : \E l \in inside : Sooner(rows, l, k)}, q.policy)

-----------------------------------------------------------------------------
(* Properties: archives and mappings. *)

\* An export divided at any instant holds every row of its range exactly once,
\* when no part was cut off; and every accepted range is in order and no longer
\* than permitted.  (rawExportRange, completeRawExportPage, normalizeRange.)
ExportExact ==
  /\ asked.kind = "export" /\ Refused \notin ToSet(answer) =>
       LET q == asked.question
           point == resolvePointTimeColumn(q.columns)
           own   == {k \in DOMAIN asked.rows :
                       /\ asked.rows[k].topic = q.topic
                       /\ asked.rows[k].at[point] \in q.from .. (q.to - 1)}
           data  == answer[1].data \o answer[2].data
       IN  ~ answer[1].truncated /\ ~ answer[2].truncated =>
             \A r \in ToSet(asked.rows) \cup ToSet(data) :
               Cardinality({k \in own : asked.rows[k] = r})
                 = Cardinality({k \in DOMAIN data : data[k] = r})
  /\ asked.kind = "range" /\ answer # Refused =>
       answer.from <= answer.to /\ answer.to - answer.from <= MaxLookback

\* The value that is recovered is the one that every row of the newest instant
\* has, of all the rows of the topic, in whichever table and order they are;
\* different values, or too many rows to tell, are refused.
\* (buildLatestHistorySql, selectArchivedLatest.)
LatestExact ==
  asked.kind = "latest" =>
    LET q == asked.question
        temporal == resolveTemporalStrategy(q.columns, "auto")
        from(k) == asked.rows[k].at[temporal.fromColumn]
        to(k)   == asked.rows[k].at[temporal.toColumn]
        own     == {k \in DOMAIN asked.rows : /\ asked.rows[k].topic = q.topic
                                             /\ Null \notin {from(k), to(k)}}
        newest  == {k \in own : \A l \in own :
                      from(l) < from(k) \/ (from(l) = from(k) /\ to(l) <= to(k))}
        values  == {asked.rows[k].value : k \in newest}
    IN  IF Cardinality(newest) > TieRows \/ Cardinality(values) > 1 THEN answer = Conflict
        ELSE IF values \in {{}, {Null}} THEN answer = NothingArchived
        ELSE /\ {answer.value} = values
             /\ {answer.timestamp} = {from(k) : k \in newest}
             /\ answer.selectedTables = {asked.rows[k].table : k \in newest}

\* A rule that pins every level another one pins, and one more.
Refines(m, n) ==
  LET pins(rule) == {<<i, rule.prefix[i]>> : i \in Literal(rule.prefix)}
  IN  pins(n) \subseteq pins(m) /\ pins(m) # pins(n)

\* The tables of a topic are those of a rule that no other matching rule refines,
\* and of all its mappings; a table of another object is taken only when no rule
\* covers the topic.  (selectMappedHistory.)
MostSpecific ==
  asked.kind = "tables" =>
    LET topic  == asked.topic
        direct == {m \in asked.mappings : WellFormed(m) /\ Covers(m.prefix, topic)}
    IN  /\ direct # {} => answer # {} /\ answer \subseteq direct
        /\ \A m \in answer, n \in direct : ~ Refines(n, m)
        /\ \A m \in answer, n \in asked.mappings : n.prefix = m.prefix => n \in answer
=============================================================================
