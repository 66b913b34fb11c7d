----------------------------- MODULE AuditLedger -----------------------------
(***************************************************************************)
(* What an outbox of audit evidence promises, whatever crashes, fails,     *)
(* repeats itself or arrives late: a session's evidence only grows, is     *)
(* made up of what was reported, is told as it was kept, and is given up   *)
(* only when the controller has all of it.  AuditOutbox implements it.     *)
(*                                                                         *)
(* Evidence is the kind of a session's latest event, with a row count.     *)
(***************************************************************************)
EXTENDS Integers

CONSTANT Session

VARIABLES
  up,        \* the process accepts reports
  reported,  \* what the callers reported of each session
  kept,      \* for each session, the evidence of which a restart finds one
  promised,  \* what the callers were told is kept
  told,      \* messages on their way to the controller
  shown      \* what the controller shows

vars == <<up, reported, kept, promised, told, shown>>

Nothing  == [kind |-> "none", rows |-> 0]
Evidence == [kind : {"started", "closed"}, rows : Nat]

Larger(m, n) == IF m >= n THEN m ELSE n

\* A session that is closed stays closed, and the greatest row count counts.
Upsert(row, e) == [kind |-> IF row.kind = "closed" THEN "closed" ELSE e.kind,
                   rows |-> Larger(row.rows, e.rows)]

Covers(e, c) == /\ e.rows >= c.rows
                /\ c.kind # "none" => e.kind # "none"
                /\ c.kind = "closed" => e.kind = "closed"

\* The controller has the session's close and all rows of e.
Delivered(k, e) == shown[k].kind = "closed" /\ shown[k].rows >= e.rows

Had(k) == {[kind |-> "closed", rows |-> n] :
             n \in {m \in 0 .. shown[k].rows : shown[k].kind = "closed"}}

\* One of what was kept remains of each session.
Settled == /\ DOMAIN kept' = Session
           /\ \A k \in Session : \E c \in kept[k] : kept'[k] = {c}

Init ==
  /\ up = FALSE
  /\ reported = [k \in Session |-> {}] /\ kept = [k \in Session |-> {Nothing}]
  /\ promised = [k \in Session |-> Nothing]
  /\ told = {} /\ shown = [k \in Session |-> Nothing]

-----------------------------------------------------------------------------

Begin == /\ ~up /\ up' = TRUE
         /\ UNCHANGED <<reported, kept, promised, told, shown>>

\* By itself or by a crash.
End == /\ up' = FALSE
       /\ told' \subseteq told
       /\ Settled \/ UNCHANGED kept
       /\ UNCHANGED <<reported, promised, shown>>

Report(k) ==
  /\ up
  /\ \E e \in reported'[k] \cap Evidence : reported' = [reported EXCEPT ![k] = @ \cup {e}]
  /\ UNCHANGED <<up, kept, promised, told, shown>>

Add(k, e) == /\ \A c \in kept[k] : Covers(e, c)
             /\ kept' = [kept EXCEPT ![k] = @ \cup {e}]
             /\ UNCHANGED <<up, reported, promised, told, shown>>

\* What is kept has the kind of one report and the rows of one.
Keep(k) == up /\ \E r, s \in reported[k] : Add(k, [kind |-> r.kind, rows |-> s.rows])

\* A session that was open when the process ended is closed with the rows it had.
Interrupt(k) == ~up /\ \E c \in kept[k] : /\ c.kind = "started"
                                          /\ Add(k, [kind |-> "closed", rows |-> c.rows])

Settle == Settled /\ UNCHANGED <<up, reported, promised, told, shown>>

Promise(k) ==
  /\ up
  /\ Settled
  /\ \E e \in kept'[k] : promised' = [promised EXCEPT ![k] = Upsert(@, e)]
  /\ UNCHANGED <<up, reported, told, shown>>

\* What is kept is told; what the controller has may be told again.
Tell(k) ==
  /\ up
  /\ \E e \in (kept[k] \ {Nothing}) \cup Had(k) :
       told' = told \cup {[key |-> k, kind |-> e.kind, rows |-> e.rows]}
  /\ Settled \/ UNCHANGED kept
  /\ UNCHANGED <<up, reported, promised, shown>>

Lose == told' \subseteq told /\ UNCHANGED <<up, reported, kept, promised, shown>>

\* A message arrives, perhaps not for the last time.
Show == \E m \in told :
          /\ shown' = [shown EXCEPT ![m.key] = Upsert(@, m)]
          /\ told' \in {told, told \ {m}}
          /\ UNCHANGED <<up, reported, kept, promised>>

Forget(k) ==
  /\ up
  /\ \A c \in kept[k] : Delivered(k, c)
  /\ kept' = [kept EXCEPT ![k] = @ \cup {Nothing}]
  /\ UNCHANGED <<up, reported, promised, told, shown>>

Next ==
  \/ Begin \/ End \/ Settle \/ Lose \/ Show
  \/ \E k \in Session : \/ Report(k) \/ Keep(k) \/ Interrupt(k) \/ Promise(k)
                        \/ Tell(k) \/ Forget(k)

Spec == Init /\ [][Next]_vars
=============================================================================
