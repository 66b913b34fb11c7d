----------------------------- MODULE HistorySql -----------------------------
(***************************************************************************)
(* What the statements that the history reads build ask of the database    *)
(* (src/src/catchall-helpers.ts, the copies of it in src/src/index.ts, and *)
(* src/src/raw-export-window.ts).                                          *)
(*                                                                         *)
(* A table is the sequence of its rows in the order they were written.  A  *)
(* statement is the sequence of rows it selects; its text is left out.  A  *)
(* row has a function `at' from its time columns to instants, the topic it *)
(* was recorded at, a value or Null, and the identity it was resolved to.  *)
(***************************************************************************)
EXTENDS Integers, Sequences, SequencesExt, FiniteSetsExt, Filtering

CONSTANTS Null, Refused   \* an absent value, and the answer 400

Interval == {"intervalStart", "intervalEnd"}

resolvePointTimeColumn(columns) ==
  IF "time" \in columns THEN "time"
  ELSE IF "timestamp" \in columns THEN "timestamp" ELSE Null

\* Mutant: an interval table is read by its intervals whatever was asked.
IntervalChosenAlways(columns, preference) == Interval \subseteq columns
IntervalChosen(columns, preference) ==
  /\ Interval \subseteq columns
  /\ \/ preference = "interval"
     \/ preference = "auto" /\ resolvePointTimeColumn(columns) = Null

resolveTemporalStrategy(columns, preference) ==
  LET point == resolvePointTimeColumn(columns) IN
  IF \/ preference = "interval" /\ ~ Interval \subseteq columns
     \/ preference = "timestamp" /\ point = Null
  THEN Refused
  ELSE IF IntervalChosen(columns, preference)
  THEN [fromColumn |-> "intervalStart", toColumn |-> "intervalEnd",
        orderBy |-> <<"intervalStart">> \o (IF point = Null THEN <<>> ELSE <<point>>)]
  ELSE IF point = Null THEN Refused
  ELSE [fromColumn |-> point, toColumn |-> point, orderBy |-> <<point>>]

\* The range of a request: from and to are instants or Null.
normalizeRange(from, to, now, defaultLookback, maxLookback) ==
  LET end   == IF to = Null THEN now ELSE to
      start == IF from = Null THEN end - defaultLookback ELSE from
      first == Min({start, end})
      last  == Max({start, end})
  IN  IF last - first <= maxLookback THEN [from |-> first, to |-> last, toExclusive |-> FALSE]
      ELSE IF from # Null \/ to # Null THEN Refused
      ELSE [from |-> last - maxLookback, to |-> last, toExclusive |-> FALSE]

estimateBucketCount(from, to, bucket) == to \div bucket - from \div bucket + 1

\* The first width of a bucket that gives no more than so many points.
firstEstimate(from, to, points) == Max({1, (to - from + points) \div points})
deriveBucketMs(from, to, points) ==
  CHOOSE b \in firstEstimate(from, to, points) .. (to + 1) :
    /\ estimateBucketCount(from, to, b) <= points
    /\ \A c \in firstEstimate(from, to, points) .. (b - 1) :
         estimateBucketCount(from, to, c) > points

\* The range part of buildWhere: rows that overlap it.
Timed(row, temporal) == Null \notin {row.at[temporal.fromColumn], row.at[temporal.toColumn]}
Overlaps(row, range, temporal) ==
  /\ Timed(row, temporal)
  /\ row.at[temporal.toColumn] >= range.from
  /\ IF range.toExclusive THEN row.at[temporal.fromColumn] < range.to
                          ELSE row.at[temporal.fromColumn] <= range.to

buildWhere(rows, topic, range, temporal) ==
  Filter(rows, {r \in ToSet(rows) : r.topic = topic /\ Overlaps(r, range, temporal)})

canApplyDedupe(requested, columns) == requested /\ resolvePointTimeColumn(columns) # Null

\* The rows at some places, in their order.
Picked(rows, places) ==
  LET order == Filter([i \in DOMAIN rows |-> i], places) IN [k \in DOMAIN order |-> rows[order[k]]]

\* LATEST ON the point time, one row for each topic and interval.
SamePartition(r, s, columns) ==
  r.topic = s.topic /\ \A c \in Interval \cap columns : r.at[c] = s.at[c]
LatestOn(rows, columns) ==
  LET point == resolvePointTimeColumn(columns) IN
  Picked(rows, {i \in DOMAIN rows : ~ \E j \in DOMAIN rows :
    /\ SamePartition(rows[i], rows[j], columns)
    /\ \/ rows[j].at[point] > rows[i].at[point]
       \/ rows[j].at[point] = rows[i].at[point] /\ j > i})

Deduped(rows, requested, columns) ==
  IF canApplyDedupe(requested, columns) THEN LatestOn(rows, columns) ELSE rows

buildSourceSql(rows, topic, range, dedupe, columns, temporal) ==
  Deduped(buildWhere(rows, topic, range, temporal), dedupe, columns)

Limited(seq, limit) == SubSeq(seq, 1, Min({limit, Len(seq)}))

\* The columns of orderBy, newest first; equal rows as they were written.
Before(rows, i, j, orderBy) ==
  \/ \E k \in DOMAIN orderBy :
       /\ rows[i].at[orderBy[k]] > rows[j].at[orderBy[k]]
       /\ \A l \in 1 .. (k - 1) : rows[i].at[orderBy[l]] = rows[j].at[orderBy[l]]
  \/ /\ \A k \in DOMAIN orderBy : rows[i].at[orderBy[k]] = rows[j].at[orderBy[k]]
     /\ i < j
Newest(rows, temporal) ==
  Ordered(rows, {p \in (DOMAIN rows) \X (DOMAIN rows) : Before(rows, p[1], p[2], temporal.orderBy)})

buildDataSql(rows, topic, range, limit, dedupe, columns, temporal) ==
  Limited(Newest(buildSourceSql(rows, topic, range, dedupe, columns, temporal), temporal), limit)

\* A raw export: half-open, and only of undeduplicated rows by their point time.
rawExportRange(from, to, dedupe, maxLookback) ==
  IF dedupe \/ from >= to \/ to - from > maxLookback THEN Refused
  ELSE [from |-> from, to |-> to, toExclusive |-> TRUE]

\* (A count of the database above the rows it returned also means truncated; here the
\* database returns the rows it counts.)
completeRawExportPage(rows, limit) ==
  [data |-> Limited(rows, limit), truncated |-> Len(rows) > limit]

\* The export branch of the GET handler.
ExportPage(rows, topic, from, to, limit, dedupe, columns, maxLookback) ==
  LET range    == rawExportRange(from, to, dedupe, maxLookback)
      temporal == resolveTemporalStrategy(columns, "timestamp")
  IN  IF Refused \in {range, temporal} THEN Refused
      ELSE completeRawExportPage(
             buildDataSql(rows, topic, range, limit + 1, dedupe, columns, temporal),
             limit)
=============================================================================
