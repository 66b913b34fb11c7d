-------------------------- MODULE MCHistoryRequest --------------------------
(* Small instances of HistoryRequest for TLC. *)
EXTENDS HistoryRequest

CONSTANTS r1, r2, k1, k2, x, y, s1, old, new

MCBearer == (r1 :> k1) @@ (r2 :> k2)

\* x has no table, then one, then a new one beside the old one.
Old == [table |-> old, retired |-> FALSE]
Tables(seq) == (x :> seq) @@ (y :> <<>>)
MCMappingOf == <<Tables(<<>>), Tables(<<Old>>),
                 Tables(<<[table |-> new, retired |-> FALSE], [Old EXCEPT !.retired = TRUE]>>)>>

\* An entity moves from x to y; then it is also read back to the time at x.
MCTopicsOf == <<<<x>>, <<x, y>>>>
Bind(t, n, a, b) == [topic |-> t, revision |-> n, from |-> a, to |-> b]
MCBindingsOf ==
  <<s1 :> <<Bind(x, 1, 0, 3)>>, s1 :> <<Bind(x, 1, 0, 1), Bind(y, 2, 1, 3)>>>>

Kind(k, a) == [kind |-> k, asks |-> [r \in Request |-> a], authority |-> FALSE,
               override |-> TRUE, current |-> {}, timed |-> "none", partial |-> FALSE,
               drops |-> FALSE, version |-> 2]

\* One configuration for each cache, with the others at rest.
MCConfig ==
  {[Kind("get", x) EXCEPT !.authority = TRUE, !.timed = "authorization",
                     !.override = FALSE, !.version = 1],
   [Kind("entities", x) EXCEPT !.timed = "bindings", !.current = {r1}],
   [Kind("get", x) EXCEPT !.timed = "mapping", !.version = 1],
   [Kind("get", x) EXCEPT !.override = FALSE, !.partial = TRUE, !.drops = TRUE,
                     !.version = 3],
   Kind("last", s1)}
=============================================================================
