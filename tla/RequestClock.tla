---------------------------- MODULE RequestClock ----------------------------
(***************************************************************************)
(* What the parts of a history request share: the requests, the reads that *)
(* a request makes side by side, and time.  Time is counted in ticks.  The *)
(* program keeps instants and compares their distance from now with one    *)
(* limit; here the distance itself, the age, is kept up to that limit.     *)
(***************************************************************************)
EXTENDS Integers, FiniteSets, SequencesExt

CONSTANTS
  Request,      \* requests that may be under way at once
  MaxSegments   \* bound: reads that one request makes

ASSUME RequestAssumption == IsFiniteSet(Request) /\ MaxSegments \in Nat \ {0}

Reader == Request \X (1..MaxSegments)

\* An age one tick later; from the limit on it says no more than that it is reached.
Older(age, limit) == IF age < limit THEN age + 1 ELSE limit
=============================================================================
