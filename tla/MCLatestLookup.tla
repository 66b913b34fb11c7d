--------------------------- MODULE MCLatestLookup ---------------------------
(* Small instances of LatestLookup for TLC. *)
EXTENDS LatestLookup

CONSTANTS t1, t2, t3, r1, r2

\* A stateful process whose request may try both topics at once, one of them sparse;
\* one without a stateful handover that tries one of three topics and looks up one at
\* a time, while other lists come but no packets; the same the other way round, with
\* a topic without history and one that comes twice; two requests and the seed for one
\* topic.
MCConfig ==
  {[stateful |-> TRUE,  moves |-> TRUE, churn |-> FALSE, budget |-> 2,
    maxPending |-> 2, topics |-> <<t1, t2>>, requests |-> {r1},
    cacheOnly |-> {}, published |-> {t2}],
   [stateful |-> FALSE, moves |-> FALSE, churn |-> TRUE, budget |-> 1,
    maxPending |-> 1, topics |-> <<t1, t2, t3>>, requests |-> {r1},
    cacheOnly |-> {t3}, published |-> {}],
   [stateful |-> FALSE, moves |-> TRUE, churn |-> FALSE, budget |-> 1,
    maxPending |-> 1, topics |-> <<t2, t1, t1>>, requests |-> {r1},
    cacheOnly |-> {t2}, published |-> {t1}],
   [stateful |-> FALSE, moves |-> FALSE, churn |-> FALSE, budget |-> 1,
    maxPending |-> 1, topics |-> <<t1>>, requests |-> {r1, r2},
    cacheOnly |-> {}, published |-> {t1}]}
=============================================================================
