--------------------------- MODULE ControllerView ---------------------------
(***************************************************************************)
(* What a cache of controller data promises: it shows a version that the   *)
(* controller has or had, never one older than it has shown before, or     *)
(* nothing.  DefinitionRegistry implements it.                             *)
(***************************************************************************)
EXTENDS Integers

VARIABLES
  truth,  \* the controller's version, from 1 on
  seen,   \* the newest version that was shown
  view    \* the version that is shown, or Nothing

Nothing == 0

Init == truth \in Nat \ {0} /\ seen = Nothing /\ view = Nothing

Edit == truth' = truth + 1 /\ UNCHANGED <<seen, view>>

Show == /\ \E v \in seen..truth : v # Nothing /\ view' = v /\ seen' = v
        /\ UNCHANGED truth

Hide == view' = Nothing /\ UNCHANGED <<truth, seen>>

Next == Edit \/ Show \/ Hide

Spec == Init /\ [][Next]_<<truth, seen, view>>
=============================================================================
