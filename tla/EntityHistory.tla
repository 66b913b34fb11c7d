--------------------------- MODULE EntityHistory ----------------------------
(***************************************************************************)
(* The history of an entity's attribute that was recorded at one topic     *)
(* after the other: planned from the intervals of its bindings, read topic *)
(* by topic, and merged (src/src/entity-query-planner.ts, the statements   *)
(* of src/src/catchall-helpers.ts, handleBatchRange of src/src/index.ts).  *)
(* Every table of one read has the same columns.                           *)
(***************************************************************************)
EXTENDS HistorySql, TopicRules

CONSTANTS
  NoEnd,      \* the end of a binding that is still valid
  TopicRank   \* the place of each topic among all topics

intervalMatchesAttribute(interval, attributePath) == IsSuffix(attributePath, interval.topic)

minTime(end, to) == IF end = NoEnd THEN to ELSE Min({end, to})

\* The last instant of a binding belongs to the next one.
EndsExclusive(interval, to) == interval.validTo # NoEnd /\ interval.validTo <= to

\* What is read at the topic of an interval.
Clipped(i, from, to) ==
  [topic |-> i.topic, from |-> Max({i.validFrom, from}), to |-> minTime(i.validTo, to),
   toExclusive |-> EndsExclusive(i, to)]

\* Of parts that differ only in whether they include their end, one is read.
SameKey(p, q) == p.topic = q.topic /\ p.from = q.from /\ p.to = q.to
NonEmpty(intervals, attributePath, from, to) ==
  LET clipped == {Clipped(i, from, to) : i \in {j \in intervals : intervalMatchesAttribute(j, attributePath)}}
  IN  {p \in clipped : p.from < p.to}

\* The parts in their order.
Precedes(parts, i, j) ==
  LET p == parts[i]  q == parts[j] IN
  \/ p.from < q.from
  \/ p.from = q.from /\ TopicRank[p.topic] < TopicRank[q.topic]
  \/ p.from = q.from /\ TopicRank[p.topic] = TopicRank[q.topic] /\ i < j
planIntervals(intervals, attributePath, from, to) ==
  LET planned == NonEmpty(intervals, attributePath, from, to)
      parts   == SetToSeq({CHOOSE q \in planned : SameKey(p, q) : p \in planned})
  IN  Ordered(parts, {p \in (DOMAIN parts) \X (DOMAIN parts) : Precedes(parts, p[1], p[2])})

planEntityHistoryBindings(intervals, attributePath, from, to) ==
  IF from >= to THEN Refused ELSE planIntervals(intervals, attributePath, from, to)

assessEntityPlanAccess(plan, rules, dataSources) ==
  \A k \in DOMAIN plan : /\ isTopicAllowedByAccessRules(plan[k].topic, rules)
                         /\ isHistoryAllowed(dataSources, plan[k].topic)

-----------------------------------------------------------------------------

\* Rows that say they are the entity's, and rows that say nothing, at its topic.
OwnRow(row, stableEntityId, topic) ==
  /\ row.topic = topic
  /\ (row.stable = stableEntityId /\ row.resolved) \/ row.stable = Null

buildEntitySourceSql(rows, stableEntityId, part, dedupe, columns, temporal) ==
  Deduped(Filter(rows, {r \in ToSet(rows) : /\ OwnRow(r, stableEntityId, part.topic)
                                            /\ Overlaps(r, part, temporal)}),
          dedupe, columns)

buildEntityDataSql(rows, stableEntityId, part, limit, dedupe, columns, temporal) ==
  Limited(Newest(buildEntitySourceSql(rows, stableEntityId, part, dedupe, columns, temporal),
                 temporal), limit)

\* What distinguishes two rows of a merge: not the identity, and the topic only
\* in tables with the full topic.
Payload(row, columns) ==
  <<row.at, row.value, IF "fullTopic" \in columns THEN row.topic ELSE <<>> >>
Score(row) == IF row.stable = Null THEN 0 ELSE 1

\* The first of the richest rows stands for its payload, at the place of the first.
Representative(all, i, columns) ==
  CHOOSE j \in DOMAIN all :
    /\ Payload(all[j], columns) = Payload(all[i], columns)
    /\ \A k \in DOMAIN all : Payload(all[k], columns) = Payload(all[i], columns) =>
         Score(all[k]) < Score(all[j]) \/ (Score(all[k]) = Score(all[j]) /\ j <= k)
MergeTime(columns) == IF resolvePointTimeColumn(columns) = Null THEN "intervalStart"
                      ELSE resolvePointTimeColumn(columns)
mergeEntityHistoryRows(segments, limit, columns) ==
  LET all    == FlattenSeq(segments)
      firsts == {i \in DOMAIN all : ~ \E j \in 1 .. (i - 1) :
                                      Payload(all[j], columns) = Payload(all[i], columns)}
      unique == Picked([i \in DOMAIN all |-> all[Representative(all, i, columns)]], firsts)
  IN  Limited(Newest(unique, [orderBy |-> <<MergeTime(columns)>>]), limit)

-----------------------------------------------------------------------------
(* Buckets: each part is grouped by the database and the groups are merged. *)

BucketOf(row, b, temporal) == (row.at[temporal.fromColumn] \div b) * b
Group(rows, k, b, temporal) == Filter(rows, {r \in ToSet(rows) : BucketOf(r, b, temporal) = k})
Valued(rows) == Filter(rows, {r \in ToSet(rows) : r.value # Null})
SumOf(rows)  == LET valued == Valued(rows) IN SumFunction([i \in DOMAIN valued |-> valued[i].value])
Values(rows) == {r.value : r \in ToSet(Valued(rows))}

\* Of the rows of the latest instant the last.
LastOf(rows, temporal) == Newest(Reverse(rows), temporal)[1]

\* finiteNumber: a group without a value counts as 0.
Smallest(values) == IF values = {} THEN 0 ELSE Min(values)
Largest(values)  == IF values = {} THEN 0 ELSE Max(values)

buildEntityBucketPartialSql(source, b, temporal) ==
  LET group(k) == Group(source, k, b, temporal)
      last(k)  == LastOf(group(k), temporal)
  IN  {[bucket |-> k, rowCount |-> Len(group(k)), valueCount |-> Len(Valued(group(k))),
        sum |-> SumOf(group(k)), min |-> Smallest(Values(group(k))),
        max |-> Largest(Values(group(k))), last |-> last(k).value,
        lastTime |-> last(k).at[temporal.fromColumn]] :
          k \in {BucketOf(r, b, temporal) : r \in ToSet(source)}}

\* The last of the groups of a bucket with the latest time.
LatestGroup(groups, parts) ==
  Max({k \in parts : \A l \in parts : groups[l].lastTime <= groups[k].lastTime})

mergeEntityBucketRows(segments, aggregate) ==
  LET buckets  == UNION {{g.bucket : g \in segments[k]} : k \in DOMAIN segments}
      group(k, bucket) == CHOOSE g \in segments[k] : g.bucket = bucket
      parts(bucket)    == {k \in DOMAIN segments : \E g \in segments[k] : g.bucket = bucket}
      total(bucket, field) == SumFunction([k \in parts(bucket) |-> group(k, bucket)[field]])
      value(bucket) ==
        CASE aggregate = "avg"   -> IF total(bucket, "valueCount") = 0 THEN Null
                                    ELSE <<total(bucket, "sum"), total(bucket, "valueCount")>>
          [] aggregate = "sum"   -> IF total(bucket, "valueCount") = 0 THEN Null
                                    ELSE total(bucket, "sum")
          [] aggregate = "min"   -> Min({group(k, bucket).min : k \in parts(bucket)})
          [] aggregate = "max"   -> Max({group(k, bucket).max : k \in parts(bucket)})
          [] aggregate = "count" -> total(bucket, "rowCount")
          [] aggregate = "last"  ->
               group(LatestGroup([k \in parts(bucket) |-> group(k, bucket)], parts(bucket)),
                     bucket).last
  IN  {[bucket |-> bucket, value |-> value(bucket)] : bucket \in buckets}

\* One part alone is grouped and answered by the database.
buildBucketSql(source, aggregate, b, temporal) ==
  LET group(k) == Group(source, k, b, temporal)
      value(k) ==
        IF aggregate = "count" THEN Len(group(k))
        ELSE IF aggregate = "last" THEN LastOf(group(k), temporal).value
        ELSE IF Values(group(k)) = {} THEN Null
        ELSE CASE aggregate = "avg" -> <<SumOf(group(k)), Len(Valued(group(k)))>>
               [] aggregate = "sum" -> SumOf(group(k))
               [] aggregate = "min" -> Min(Values(group(k)))
               [] aggregate = "max" -> Max(Values(group(k)))
  IN  {[bucket |-> k, value |-> value(k)] : k \in {BucketOf(r, b, temporal) : r \in ToSet(source)}}
=============================================================================
