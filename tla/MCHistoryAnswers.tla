-------------------------- MODULE MCHistoryAnswers --------------------------
(* Small tables, bindings and questions for TLC. *)
EXTENDS HistoryAnswers

CONSTANTS e, f   \* the asked entity and another one

A == <<"a", "v">>
B == <<"b", "v">>
Other == <<"a", "w">>
MCTopicRank == (A :> 1) @@ (Other :> 2) @@ (B :> 3)
MCTextLength == ("a" :> 1) @@ ("b" :> 4) @@ ("v" :> 1) @@ ("w" :> 1) @@ ("c" :> 1)

Bound(t, a, b) == [topic |-> t, validFrom |-> a, validTo |-> b]
\* At one topic, moved, moved after a time at both, there and back, at both from
\* then on, twice to one topic, not yet bound.
Bindings ==
  {{Bound(A, 0, NoEnd), Bound(Other, 0, NoEnd)},
   {Bound(A, 0, 2), Bound(B, 2, NoEnd)},
   {Bound(A, 0, 3), Bound(B, 2, NoEnd), Bound(Other, 2, NoEnd)},
   {Bound(A, 0, 2), Bound(B, 2, 3), Bound(A, 3, NoEnd)},
   {Bound(A, 0, NoEnd), Bound(B, 2, NoEnd)},
   {Bound(A, 0, 3), Bound(A, 1, NoEnd)},
   {Bound(B, 4, NoEnd)}}

Row(t, n, v, s) == [topic |-> t, at |-> [time |-> n], value |-> v, stable |-> s, resolved |-> s # Null]
Span(t, n, m, s) == [topic |-> t, at |-> [time |-> m, intervalStart |-> n, intervalEnd |-> m],
                     value |-> n, stable |-> s, resolved |-> s # Null]

UpTo2(S) == {{}} \cup {{x, y} : x, y \in S}
UpTo3(S) == {{}} \cup {{x, y, z} : x, y, z \in S}

PointRows == {Row(t, n, v, s) : t \in {A, B}, n \in 1 .. 3, v \in {2, Null}, s \in {e, Null}}
             \cup {Row(A, 2, 1, f), Row(Other, 2, 1, e)}
SpanRows  == {Span(t, n, m, e) : t \in {A, B}, n \in 1 .. 2, m \in 2 .. 3}

World(rows, bindings, columns) ==
  [rows |-> SetToSeq(rows), intervals |-> bindings, entity |-> e, attributePath |-> <<"v">>,
   columns |-> columns, rules |-> {<<"+", "v">>},
   dataSources |-> <<[topic |-> <<"#">>, history |-> TRUE, cache |-> TRUE]>>]

MCEntityWorlds ==
  {World(rows, b, {"time"}) : rows \in UpTo3(PointRows), b \in Bindings}
  \cup {World(rows, b, {"time", "fullTopic"} \cup Interval) : rows \in UpTo2(SpanRows), b \in Bindings}
  \cup {[World({Row(A, 1, 2, e), Row(B, 2, 2, e)}, b, {"time"}) EXCEPT !.rules = r, !.dataSources = d] :
          b \in Bindings, r \in {{<<"a", "#">>}, {<<"b", "v">>, <<"a", "+">>}, {<<"v">>}},
          d \in {<<[topic |-> <<"b", "#">>, history |-> h, cache |-> TRUE],
                   [topic |-> <<"+", "v">>, history |-> TRUE, cache |-> FALSE]>> : h \in BOOLEAN}}

Question(a, b, l, d, field, agg, n, p) ==
  [from |-> a, to |-> b, limit |-> l, dedupe |-> d, timeField |-> field, aggregate |-> agg,
   bucket |-> n, points |-> p]
MCEntityQuestions ==
  {Question(0, 4, 9, d, field, "raw", 1, 0) : d \in BOOLEAN, field \in {"auto", "interval"}}
  \cup {Question(1, 3, 2, FALSE, "auto", "raw", 1, 0), Question(2, 3, 1, FALSE, "auto", "raw", 1, 0),
        Question(2, 3, 1, FALSE, "interval", "raw", 1, 0), Question(0, 1, 9, FALSE, "interval", "raw", 1, 0)}
  \cup {Question(1, 3, 9, FALSE, "timestamp", agg, 2, 0) : agg \in {"avg", "last", "min", "sum"}}
  \cup {Question(1, 4, 9, FALSE, "timestamp", agg, 1, 2) : agg \in {"avg", "count"}}
  \cup {Question(1, 4, 9, TRUE, "timestamp", "max", 1, 2)}

\* Two samples in any order, or three, rising, falling, missing, or at one instant.
Sample(n, v) == [time |-> n, value |-> v]
Samples(n, V) == {s \in [1 .. n -> {Sample(t, v) : t \in 0 .. 8, v \in V}] :
                    \A k \in 1 .. (n - 1) : s[k].time <= s[k + 1].time}
MCCounterRows == [1 .. 2 -> {Sample(t, v) : t \in 0 .. 8, v \in {1, 3, Null}}] \cup Samples(3, {0, 1, 3})
MCCounterQuestions ==
  {[from |-> a, to |-> b, bucket |-> n, policy |-> p] :
     a \in {2, 3}, b \in {4, 6}, n \in {1, 2}, p \in {"new-value", "null"}}

Archived(n, m, v, t) == [topic |-> A, table |-> t, value |-> v,
                         at |-> [time |-> m, intervalStart |-> n, intervalEnd |-> m]]
MCArchiveRows ==
  {SetToSeq(S) : S \in UpTo3({Archived(n, m, v, t) : n \in {1, 2, Null}, m \in {1, 2}, v \in {1, 2}, t \in {1, 2}}
                             \cup {Archived(n, 2, Null, 1) : n \in {1, 2}})}
Columns == {{"time"}, Interval, {"time"} \cup Interval}
MCExportQuestions ==
  {[topic |-> A, from |-> 1, middle |-> m, to |-> 3, limit |-> l, dedupe |-> d, columns |-> c] :
     m \in {1, 2}, l \in {1, 2}, d \in BOOLEAN, c \in Columns}
MCLatestQuestions == {[topic |-> t, columns |-> c] : t \in {A, B}, c \in Columns}

Mapping(p, t) == [prefix |-> p, table |-> t]
MCMappingSets ==
  UpTo3({Mapping(p, t) : p \in {<<"a">>, <<"#">>, <<"a", "+">>, <<"+", "v">>, <<"a", "b", "v">>, <<"a", "+", "v">>,
                                  <<"+", "b", "#">>, <<"a", "#", "v">>, <<"a", "c", "v">>}, t \in {1, 2}})
MCMappedTopics == {<<"a">>, A, <<"a", "b", "v">>, <<"a", "c", "w">>, <<"c", "b", "v">>}
=============================================================================
