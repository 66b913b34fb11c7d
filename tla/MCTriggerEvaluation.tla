------------------------- MODULE MCTriggerEvaluation -------------------------
(* Triggers of each kind for TLC. *)
EXTENDS TriggerEvaluation

High == [kind |-> "high", cooldown |-> 2, source |-> "a", threshold |-> 0, match |-> {},
         peer |-> "a", operator |-> "gt", snapshots |-> {}, staleAfter |-> 0,
         conditions |-> {}, join |-> "and"]
Quicker   == [High EXCEPT !.cooldown = Null]
Low       == [High EXCEPT !.kind = "low", !.threshold = 1, !.cooldown = Null]
Changed   == [High EXCEPT !.kind = "event", !.match = {1}]
Compare   == [High EXCEPT !.kind = "compare", !.peer = "b", !.cooldown = 1]
Snapshots == [High EXCEPT !.kind = "string", !.snapshots = {"b"}, !.staleAfter = 1]
Condition(t, p, v) == [topic |-> t, predicate |-> p, value |-> v]
Both   == [High EXCEPT !.kind = "composite",
             !.conditions = {Condition("a", "gte", 1), Condition("b", "neq", -2)}]
Either == [Both EXCEPT !.join = "or", !.cooldown = Null]

Triggers == {High, Quicker, Low, Changed, Compare, Snapshots, Both, Either}
Words    == {-2}
=============================================================================
