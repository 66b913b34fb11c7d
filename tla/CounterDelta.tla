---------------------------- MODULE CounterDelta ----------------------------
(***************************************************************************)
(* How much a counter rose in each bucket of a range: the rows around the  *)
(* range are read, a counter that started anew is joined to what it had    *)
(* reached, and its value at the edges of a bucket is interpolated         *)
(* (src/src/catchall-helpers.ts).  Instants are whole numbers; a value     *)
(* between two samples is kept as an integer multiple of 1 / Scale.        *)
(***************************************************************************)
EXTENDS HistorySql

CONSTANT Scale   \* a multiple of every gap of samples

Ceiling(t, b) == ((t + b - 1) \div b) * b
Floor(t, b)   == (t \div b) * b

\* Two buckets more on either side, so that the edges have neighbours.
counterBoundarySourceRange(from, to, b) ==
  IF to <= from \/ Floor(to, b) <= Ceiling(from, b) THEN [from |-> from, to |-> to]
  ELSE [from |-> Ceiling(from, b) - 2 * b, to |-> Floor(to, b) + 2 * b]

\* Rows have one time; the end of an interval is not compared, nor is a limit applied.
sourceRows(rows, range) ==
  Filter(rows, {r \in ToSet(rows) : r.time >= range.from /\ r.time <= range.to})

\* Rows of one instant stay in their order.
Sooner(rows, i, j) == \/ rows[i].time < rows[j].time
                      \/ rows[i].time = rows[j].time /\ i < j
ByTime(rows) == Ordered(rows, {p \in (DOMAIN rows) \X (DOMAIN rows) : Sooner(rows, p[1], p[2])})

\* What is added to a value that is less than the one before it.
\* Mutant: what was reached before the last restart is forgotten.
RestartForgets(previous, reached, value, policy) ==
  IF policy = "new-value" THEN previous ELSE reached - value
Restart(previous, reached, value, policy) ==
  IF policy = "new-value" THEN reached ELSE reached - value

\* samples: one for each instant, the last of its rows.
Joined(samples, sample) ==
  IF samples # <<>> /\ samples[Len(samples)].time = sample.time
  THEN [samples EXCEPT ![Len(samples)] = sample] ELSE Append(samples, sample)
Unwrapped(state, row, policy) ==
  LET offset  == IF state.raw # Null /\ row.value < state.raw
                 THEN Restart(state.raw, state.reached, row.value, policy) ELSE state.offset
      reached == row.value + offset
  IN  [samples |-> Joined(state.samples, [time |-> row.time, value |-> reached]),
       raw |-> row.value, reached |-> reached, offset |-> offset]

buildCounterBoundarySamples(rows, policy) ==
  LET inOrder == ByTime(Filter(rows, {r \in ToSet(rows) : r.value # Null}))
      After[k \in 0 .. Len(inOrder)] ==
        IF k = 0 THEN [samples |-> <<>>, raw |-> Null, reached |-> Null, offset |-> 0]
        ELSE Unwrapped(After[k - 1], inOrder[k], policy)
  IN  After[Len(inOrder)].samples

\* In multiples of 1 / Scale; Null outside of the samples.
interpolateCounterValue(samples, t) ==
  IF samples = <<>> \/ t < samples[1].time \/ t > samples[Len(samples)].time THEN Null
  ELSE LET lo == Max({i \in DOMAIN samples : samples[i].time <= t}) IN
       IF samples[lo].time = t THEN Scale * samples[lo].value
       ELSE LET gap  == samples[lo + 1].time - samples[lo].time
                rise == samples[lo + 1].value - samples[lo].value
            IN  Scale * samples[lo].value + (Scale \div gap) * rise * (t - samples[lo].time)

\* The whole buckets of the range whose two edges are known.
BucketsOf(from, to, b) == {k \in Ceiling(from, b) .. to : k % b = 0 /\ k + b <= to}
buildBoundaryCounterDeltaResponse(rows, from, to, b, policy) ==
  LET samples == buildCounterBoundarySamples(rows, policy)
      At(t)   == interpolateCounterValue(samples, t)
  IN  {[bucket |-> k, delta |-> Max({0, At(k + b) - At(k)})] :
         k \in {c \in BucketsOf(from, to, b) : At(c) # Null /\ At(c + b) # Null}}

CounterBuckets(rows, from, to, b, policy) ==
  buildBoundaryCounterDeltaResponse(
    sourceRows(rows, counterBoundarySourceRange(from, to, b)), from, to, b, policy)

-----------------------------------------------------------------------------
(* The undivided read: the rise from each row to the next, by the database. *)

\* A row is dropped when it or the row before it has no value.
buildCounterDeltaSourceSql(rows, policy) ==
  LET inOrder == ByTime(rows)
      rises(i) == inOrder[i].value >= inOrder[i - 1].value
      kept    == {i \in 2 .. Len(inOrder) :
                    /\ Null \notin {inOrder[i].value, inOrder[i - 1].value}
                    /\ policy = "null" => rises(i)}
  IN  {[row |-> i, time |-> inOrder[i].time,
        delta |-> IF rises(i) THEN inOrder[i].value - inOrder[i - 1].value
                  ELSE inOrder[i].value] : i \in kept}
=============================================================================
