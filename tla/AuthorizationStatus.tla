------------------------ MODULE AuthorizationStatus ------------------------
(***************************************************************************)
(* Whether a verified token is still active                                *)
(* (src/src/authorization-status.ts).                                      *)
(*                                                                         *)
(* check asks a small cache, joins the probe of the same token, or probes  *)
(* the controller.  A token may be revoked, and restored, at any time; the *)
(* controller looks at it at one moment of the probe, and its answer comes *)
(* at a later one, or not before the probe's timeout.                      *)
(***************************************************************************)
EXTENDS RequestClock, Filtering

CONSTANTS
  Token,
  Bearer,         \* the token of each request
  CacheMs,        \* options.cacheMs, in ticks
  ProbeTimeout,   \* the request's timeout of 1500 ms, in ticks
  QuietMs,        \* how long checks fail after one, 1000 ms, in ticks
  MaxChecks,      \* probes at once: 4
  MaxEntries      \* size of the cache: 1024

ASSUME AuthorizationAssumption ==
  /\ Bearer \in [Request -> Token]
  /\ {CacheMs, ProbeTimeout, QuietMs, MaxChecks, MaxEntries} \subseteq Nat \ {0}

VARIABLES
  active,       \* external: the active tokens
  inactiveFor,  \* external: how long each token has been inactive
  statuses,     \* cache, in the order of insertion, with the age of its probe
  probes,       \* pending
  quietFor,     \* how long ago a probe failed: cooldownUntil
  verdict       \* what check answers each request

authorization == <<active, inactiveFor, statuses, probes, quietFor, verdict>>

NoProbe   == [on |-> FALSE, age |-> 0, seen |-> "none"]
Probing   == {t \in Token : probes[t].on}
Fresh(t)  == {e \in Range(statuses) : e.token = t /\ e.age < CacheMs}

\* Those that await the probe of t get its result.
Told(t, v) == [r \in Request |-> IF verdict[r] = "waiting" /\ Bearer[r] = t
                                 THEN v ELSE verdict[r]]

\* Mutant: the status counts from its arrival.
rememberLate(t, s) ==
  Append(IF Len(statuses) >= MaxEntries THEN Tail(statuses) ELSE statuses,
         [token |-> t, status |-> s, age |-> 0])

\* The cache with the status s of t, which is as old as its probe.
remember(t, s) ==
  Append(IF Len(statuses) >= MaxEntries THEN Tail(statuses) ELSE statuses,
         [token |-> t, status |-> s, age |-> probes[t].age])

\* Request r has its token checked.
check(r) ==
  LET t == Bearer[r]
  IN \/ \E e \in Fresh(t) :
          /\ verdict' = [verdict EXCEPT ![r] = IF e.status = "active" THEN "admitted"
                                               ELSE "denied"]
          /\ UNCHANGED <<active, inactiveFor, statuses, probes, quietFor>>
     \/ /\ Fresh(t) = {}
        /\ statuses' = Filter(statuses, {e \in Range(statuses) : e.token # t})
        /\ \/ /\ t \in Probing
              /\ verdict' = [verdict EXCEPT ![r] = "waiting"]
              /\ UNCHANGED probes
           \/ /\ t \notin Probing /\ (quietFor < QuietMs \/ Cardinality(Probing) >= MaxChecks)
              /\ verdict' = [verdict EXCEPT ![r] = "unavailable"]
              /\ UNCHANGED probes
           \/ /\ t \notin Probing /\ quietFor >= QuietMs /\ Cardinality(Probing) < MaxChecks
              /\ verdict' = [verdict EXCEPT ![r] = "waiting"]
              /\ probes' = [probes EXCEPT ![t] = [NoProbe EXCEPT !.on = TRUE]]
        /\ UNCHANGED <<active, inactiveFor, quietFor>>

\* The controller looks at the token of a probe.
Judge(t) ==
  /\ t \in Probing /\ probes[t].seen = "none"
  /\ probes' = [probes EXCEPT ![t].seen = IF t \in active THEN "active" ELSE "denied"]
  /\ UNCHANGED <<active, inactiveFor, statuses, quietFor, verdict>>

\* An answer that says "active" must come while it would still be cached.
Believed(t) == \/ probes[t].seen = "denied"
               \/ probes[t].seen = "active" /\ probes[t].age < CacheMs

\* A probe ends.
Settle(t) ==
  /\ t \in Probing
  /\ probes' = [probes EXCEPT ![t] = NoProbe]
  /\ \/ /\ Believed(t)
        /\ statuses' = remember(t, probes[t].seen)
        /\ verdict' = Told(t, IF probes[t].seen = "active" THEN "admitted" ELSE "denied")
        /\ UNCHANGED quietFor
     \/ /\ verdict' = Told(t, "unavailable")     \* or it failed
        /\ quietFor' = 0 /\ UNCHANGED statuses
  /\ UNCHANGED <<active, inactiveFor>>

Revoke(t) == /\ t \in active /\ active' = active \ {t}
             /\ inactiveFor' = [inactiveFor EXCEPT ![t] = 0]
             /\ UNCHANGED <<statuses, probes, quietFor, verdict>>
Restore(t) == /\ t \notin active /\ active' = active \cup {t}
              /\ UNCHANGED <<inactiveFor, statuses, probes, quietFor, verdict>>

AuthorizationTick ==
  /\ \A t \in Probing : probes[t].age < ProbeTimeout
  /\ inactiveFor' = [t \in Token |-> IF t \in active THEN 0 ELSE Older(inactiveFor[t], CacheMs)]
  /\ statuses' = [i \in DOMAIN statuses |-> [statuses[i] EXCEPT !.age = Older(@, CacheMs)]]
  /\ probes' = [t \in Token |-> IF t \in Probing THEN [probes[t] EXCEPT !.age = @ + 1]
                                ELSE NoProbe]
  /\ quietFor' = Older(quietFor, QuietMs)
  /\ UNCHANGED <<active, verdict>>

AuthorizationInit ==
  /\ active = Token /\ inactiveFor = [t \in Token |-> 0] /\ statuses = <<>>
  /\ probes = [t \in Token |-> NoProbe] /\ quietFor = QuietMs
  /\ verdict = [r \in Request |-> "none"]

AuthorizationTypeOK ==
  /\ active \subseteq Token /\ inactiveFor \in [Token -> 0..CacheMs]
  /\ statuses \in Seq([token : Token, status : {"active", "denied"}, age : Nat])
  /\ Len(statuses) <= MaxEntries /\ Cardinality(Probing) <= MaxChecks
  /\ \A i, j \in DOMAIN statuses : statuses[i].token = statuses[j].token => i = j
  /\ probes \in [Token -> [on : BOOLEAN, age : 0..ProbeTimeout,
                           seen : {"none", "active", "denied"}]]
  /\ quietFor \in 0..QuietMs
  /\ verdict \in [Request -> {"none", "waiting", "admitted", "denied", "unavailable"}]
=============================================================================
