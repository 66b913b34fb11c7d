------------------------ MODULE HistoryRequestProofs ------------------------
(***************************************************************************)
(* How old a token, a plan and a mapping may be when a request uses them,  *)
(* which tables an answer has, and that cached values are within their     *)
(* bindings: for every number of requests, tokens, topics and versions.    *)
(*                                                                         *)
(* Each cache keeps an invariant of its own, which the steps of the others *)
(* leave alone.                                                            *)
(***************************************************************************)
EXTENDS HistoryRequest, FilteringProofs

-----------------------------------------------------------------------------
(* Authorization.                                                          *)

\* A status that says "active" is at least as old as the token is inactive; so is a
\* probe that has seen it active.  A token that is probed has no status.
StatusAge(e, on, since) == e.status = "active" => e.token \in on \/ since[e.token] <= e.age
ProbeAge(t)  == probes[t].on /\ probes[t].seen = "active"
                  => t \in active \/ inactiveFor[t] <= probes[t].age

Status == [token : Token, status : {"active", "denied"}, age : Nat]

AuthorizationFits ==
  /\ AuthorizationTypeOK /\ IsFiniteSet(Probing)
  /\ \A e \in Range(statuses) : StatusAge(e, active, inactiveFor) /\ e.token \notin Probing
  /\ \A t \in Token : ProbeAge(t)

LEMMA OlderIs ==
  ASSUME NEW a \in Nat, NEW l \in Nat
  PROVE  /\ Older(a, l) \in 0 .. l
         /\ a < l => Older(a, l) = a + 1
         /\ a >= l => Older(a, l) = l
BY DEF Older

\* Those that are told the verdict on t.
LEMMA ToldIs ==
  ASSUME verdict \in [Request -> {"none", "waiting", "admitted", "denied", "unavailable"}],
         NEW t \in Token, NEW v \in {"admitted", "denied", "unavailable"}, verdict' = Told(t, v)
  PROVE  /\ verdict' \in [Request -> {"none", "waiting", "admitted", "denied", "unavailable"}]
         /\ \A r \in Request : Admits(r) => v = "admitted" /\ Bearer[r] = t
BY DEF Told, Admits

\* The statuses of the tokens that pass a test, at most one of each.
LEMMA StatusesFiltered ==
  ASSUME AuthorizationTypeOK, NEW S, NEW s, s = Filter(statuses, S)
  PROVE  /\ s \in Seq(Status) /\ Len(s) <= MaxEntries
         /\ Range(s) = Range(statuses) \cap S
         /\ \A i, j \in DOMAIN s : s[i].token = s[j].token => i = j
<1>1. statuses \in Seq(Status) /\ Len(statuses) <= MaxEntries /\ MaxEntries \in Nat
  BY AuthorizationAssumption DEF AuthorizationTypeOK, Status
<1>2. \A i, j \in DOMAIN statuses : statuses[i].token = statuses[j].token => i = j
  BY DEF AuthorizationTypeOK
<1>3. Distinct(statuses)
  BY <1>2 DEF Distinct
<1>4. /\ s \in Seq(Status) /\ Range(s) = Range(statuses) \cap S /\ Distinct(s)
      /\ Len(s) <= Len(statuses)
  BY <1>1, <1>3, FilterRange
<1>5. ASSUME NEW i \in DOMAIN s, NEW j \in DOMAIN s, s[i].token = s[j].token PROVE i = j
  <2>1. s[i] \in Range(statuses) /\ s[j] \in Range(statuses)
    BY <1>4 DEF Range
  <2>2. s[i] = s[j]
    BY <2>1, <1>2, <1>5 DEF Range
  <2> QED
    BY <2>2, <1>4 DEF Distinct
<1>6. Len(s) \in Nat /\ Len(statuses) \in Nat
  BY <1>1, <1>4
<1> QED
  BY <1>1, <1>4, <1>5, <1>6

\* check: a fresh status admits, and the forgotten ones are those of the token.
LEMMA Checks ==
  ASSUME AuthorizationFits, NEW r \in Request, check(r)
  PROVE  /\ AuthorizationFits'
         /\ \A q \in Request : Admits(q) =>
              Bearer[q] \in active' \/ inactiveFor'[Bearer[q]] < CacheMs
<1> DEFINE t == Bearer[r]
<1>0. /\ t \in Token /\ CacheMs \in Nat /\ MaxChecks \in Nat /\ ProbeTimeout \in Nat /\ QuietMs \in Nat
      /\ AuthorizationTypeOK /\ IsFiniteSet(Probing)
  BY AuthorizationAssumption DEF AuthorizationFits
<1>1. CASE Fresh(t) # {} /\ UNCHANGED <<active, inactiveFor, statuses, probes, quietFor>>
           /\ \E e \in Fresh(t) : verdict' = [verdict EXCEPT ![r] = IF e.status = "active" THEN "admitted" ELSE "denied"]
  <2>1. PICK e \in Fresh(t) : verdict' = [verdict EXCEPT ![r] = IF e.status = "active" THEN "admitted" ELSE "denied"]
    BY <1>1
  <2>2. AuthorizationFits'
    BY <1>1, <2>1 DEF AuthorizationFits, AuthorizationTypeOK, StatusAge, ProbeAge, Probing
  <2>3. e \in Range(statuses) /\ e.token = t /\ e.age < CacheMs /\ StatusAge(e, active, inactiveFor)
    BY <2>1 DEF Fresh, AuthorizationFits
  <2>4. ASSUME NEW q \in Request, Admits(q) PROVE q = r /\ e.status = "active"
    BY <2>1, <2>4 DEF Admits, AuthorizationFits, AuthorizationTypeOK
  <2>5. inactiveFor[t] \in Nat /\ e.age \in Nat
    <3>1. inactiveFor \in [Token -> 0..CacheMs] /\ statuses \in Seq(Status)
      BY <1>0 DEF AuthorizationTypeOK, Status
    <3>2. e \in Status
      BY <2>3, <3>1 DEF Range
    <3> QED
      BY <3>1, <3>2, <1>0 DEF Status
  <2> QED
    BY <2>2, <2>3, <2>4, <2>5, <1>0, <1>1 DEF StatusAge
<1>2. CASE Fresh(t) = {} /\ statuses' = Filter(statuses, {e \in Range(statuses) : e.token # t})
           /\ UNCHANGED <<active, inactiveFor, quietFor>>
  <2>1. /\ statuses' \in Seq(Status) /\ Len(statuses') <= MaxEntries
        /\ Range(statuses') = Range(statuses) \cap {e \in Range(statuses) : e.token # t}
        /\ \A i, j \in DOMAIN statuses' : statuses'[i].token = statuses'[j].token => i = j
    BY <1>0, <1>2, StatusesFiltered
  <2>2. CASE \E v \in {"waiting", "unavailable"} : verdict' = [verdict EXCEPT ![r] = v] /\ UNCHANGED probes
    <3>1. \A q \in Request : ~Admits(q)
      BY <2>2, <1>0 DEF Admits, AuthorizationTypeOK
    <3>2. AuthorizationTypeOK' /\ IsFiniteSet(Probing)'
      BY <1>0, <1>2, <2>1, <2>2 DEF AuthorizationTypeOK, Probing, Status
    <3>3. (\A e \in Range(statuses) : StatusAge(e, active, inactiveFor) /\ e.token \notin Probing)'
      BY <1>2, <2>1, <2>2 DEF AuthorizationFits, StatusAge, Probing
    <3> QED
      BY <3>1, <3>2, <3>3, <1>2, <2>2 DEF AuthorizationFits, ProbeAge
  <2>3. CASE /\ t \notin Probing /\ Cardinality(Probing) < MaxChecks
             /\ verdict' = [verdict EXCEPT ![r] = "waiting"]
             /\ probes' = [probes EXCEPT ![t] = [NoProbe EXCEPT !.on = TRUE]]
    <3>1. \A q \in Request : ~Admits(q)
      BY <2>3, <1>0 DEF Admits, AuthorizationTypeOK
    <3>2. Probing' = Probing \cup {t}
      BY <1>0, <2>3 DEF Probing, NoProbe, AuthorizationTypeOK
    <3>3. IsFiniteSet(Probing)' /\ Cardinality(Probing') = Cardinality(Probing) + 1
      BY <3>2, <1>0, <2>3, FS_AddElement
    <3>4. Cardinality(Probing) \in Nat
      BY <1>0, FS_CardinalityType
    <3>5. probes' \in [Token -> [on : BOOLEAN, age : 0..ProbeTimeout, seen : {"none", "active", "denied"}]]
      <4>3. 0 \in 0..ProbeTimeout
        BY <1>0
      <4>1. [NoProbe EXCEPT !.on = TRUE] \in [on : BOOLEAN, age : 0..ProbeTimeout, seen : {"none", "active", "denied"}]
        BY <4>3 DEF NoProbe
      <4>2. probes \in [Token -> [on : BOOLEAN, age : 0..ProbeTimeout, seen : {"none", "active", "denied"}]]
        BY <1>0 DEF AuthorizationTypeOK
      <4> QED
        BY <4>1, <4>2, <2>3
    <3>6. AuthorizationTypeOK'
      <4>1. Cardinality(Probing') <= MaxChecks
        BY <1>0, <2>3, <3>3, <3>4
      <4>2. verdict' \in [Request -> {"none", "waiting", "admitted", "denied", "unavailable"}]
        BY <1>0, <2>3 DEF AuthorizationTypeOK
      <4> QED
        BY <1>0, <1>2, <2>1, <3>5, <4>1, <4>2 DEF AuthorizationTypeOK, Status
    <3>7. (\A e \in Range(statuses) : StatusAge(e, active, inactiveFor) /\ e.token \notin Probing)'
      BY <1>2, <2>1, <3>2 DEF AuthorizationFits, StatusAge
    <3>8. (\A u \in Token : ProbeAge(u))'
      BY <1>0, <1>2, <2>3 DEF AuthorizationFits, ProbeAge, NoProbe, AuthorizationTypeOK
    <3> QED
      BY <3>1, <3>3, <3>6, <3>7, <3>8 DEF AuthorizationFits
  <2> QED
    BY <1>2, <2>2, <2>3 DEF check
<1> QED
  BY <1>1, <1>2 DEF check

LEMMA AuthorizationStarts == ASSUME AuthorizationInit PROVE AuthorizationFits
<1>0. CacheMs \in Nat /\ QuietMs \in Nat /\ MaxEntries \in Nat /\ MaxChecks \in Nat /\ ProbeTimeout \in Nat
  BY AuthorizationAssumption
<1>1. Probing = {} /\ Range(statuses) = {}
  BY DEF AuthorizationInit, Probing, NoProbe, Range
<1>2. IsFiniteSet(Probing) /\ Cardinality(Probing) = 0
  BY <1>1, FS_EmptySet
<1>3. probes \in [Token -> [on : BOOLEAN, age : 0..ProbeTimeout, seen : {"none", "active", "denied"}]]
  <2>1. 0 \in 0..ProbeTimeout
    BY <1>0
  <2> QED
    BY <2>1 DEF AuthorizationInit, NoProbe
<1>4. AuthorizationTypeOK
  BY <1>0, <1>2, <1>3 DEF AuthorizationInit, AuthorizationTypeOK
<1>5. \A t \in Token : ProbeAge(t)
  BY DEF AuthorizationInit, ProbeAge
<1> QED
  BY <1>1, <1>2, <1>4, <1>5 DEF AuthorizationFits

\* Nothing but what the requests were told changes, and nobody is admitted.
LEMMA Hears ==
  ASSUME AuthorizationFits, NEW r \in Request, Heard(r)
  PROVE  AuthorizationFits' /\ \A q \in Request : ~Admits(q)
<1>1. \A q \in Request : ~Admits(q)
  BY DEF AuthorizationFits, AuthorizationTypeOK, Heard, Admits
<1>2. AuthorizationTypeOK'
  BY DEF AuthorizationFits, AuthorizationTypeOK, Heard, Probing
<1>3. /\ \A e : StatusAge(e, active', inactiveFor') = StatusAge(e, active, inactiveFor)
      /\ \A t \in Token : ProbeAge(t)' = ProbeAge(t)
      /\ Probing' = Probing /\ statuses' = statuses
  BY DEF Heard, StatusAge, ProbeAge, Probing
<1> QED
  BY <1>1, <1>2, <1>3 DEF AuthorizationFits

\* The controller's side: only the tokens and what a probe has seen change.
LEMMA Judges ==
  ASSUME AuthorizationFits, NEW t \in Token, Judge(t)
  PROVE  AuthorizationFits' /\ \A q \in Request : ~Admits(q)
<1>1. \A q \in Request : ~Admits(q)
  BY DEF Judge, Admits
<1>2. Probing' = Probing
  BY DEF Judge, Probing, AuthorizationFits, AuthorizationTypeOK
<1>3. probes' \in [Token -> [on : BOOLEAN, age : 0..ProbeTimeout, seen : {"none", "active", "denied"}]]
  BY DEF Judge, AuthorizationFits, AuthorizationTypeOK
<1>4. AuthorizationTypeOK'
  BY <1>2, <1>3 DEF Judge, AuthorizationFits, AuthorizationTypeOK
<1>5. \A e : StatusAge(e, active', inactiveFor') = StatusAge(e, active, inactiveFor)
  BY DEF Judge, StatusAge
<1>6. \A u \in Token : ProbeAge(u)'
  <2> SUFFICES ASSUME NEW u \in Token PROVE ProbeAge(u)'
    OBVIOUS
  <2>1. CASE u = t
    BY <2>1 DEF Judge, ProbeAge, AuthorizationFits, AuthorizationTypeOK
  <2>2. CASE u # t
    BY <2>2 DEF Judge, ProbeAge, AuthorizationFits, AuthorizationTypeOK
  <2> QED
    BY <2>1, <2>2
<1>7. statuses' = statuses
  BY DEF Judge
<1> QED
  BY <1>1, <1>2, <1>4, <1>5, <1>6, <1>7 DEF AuthorizationFits

LEMMA Revokes ==
  ASSUME AuthorizationFits, NEW t \in Token, Revoke(t) \/ Restore(t)
  PROVE  AuthorizationFits' /\ \A q \in Request : ~Admits(q)
<1>0. /\ CacheMs \in Nat /\ ProbeTimeout \in Nat /\ inactiveFor \in [Token -> 0..CacheMs] /\ statuses \in Seq(Status)
      /\ probes \in [Token -> [on : BOOLEAN, age : 0..ProbeTimeout, seen : {"none", "active", "denied"}]]
      /\ active \subseteq Token
  BY AuthorizationAssumption DEF AuthorizationFits, AuthorizationTypeOK, Status
<1>1. \A q \in Request : ~Admits(q)
  BY DEF Revoke, Restore, Admits
<1>2. UNCHANGED <<statuses, probes, quietFor, verdict>> /\ Probing' = Probing
  BY DEF Revoke, Restore, Probing
<1>3. inactiveFor' \in [Token -> 0..CacheMs]
  <2>1. 0 \in 0..CacheMs
    BY <1>0
  <2> QED
    BY <2>1, <1>0 DEF Revoke, Restore
<1>4. \A u \in Token : u \in active' \/ inactiveFor'[u] = 0 \/ (u \notin active /\ inactiveFor'[u] = inactiveFor[u])
  BY <1>0 DEF Revoke, Restore
<1>5. AuthorizationTypeOK'
  BY <1>0, <1>2, <1>3 DEF AuthorizationFits, AuthorizationTypeOK, Revoke, Restore
<1>6. \A e \in Range(statuses) : StatusAge(e, active', inactiveFor')
  <2> SUFFICES ASSUME NEW e \in Range(statuses) PROVE StatusAge(e, active', inactiveFor')
    OBVIOUS
  <2>1. e \in Status /\ StatusAge(e, active, inactiveFor)
    BY <1>0 DEF AuthorizationFits, Range
  <2>2. e.age \in Nat /\ e.token \in Token
    BY <2>1 DEF Status
  <2>3. e.token \in active' \/ inactiveFor'[e.token] = 0
          \/ (e.token \notin active /\ inactiveFor'[e.token] = inactiveFor[e.token])
    BY <2>2, <1>4
  <2>4. e.status = "active" => e.token \in active \/ inactiveFor[e.token] <= e.age
    BY <2>1 DEF StatusAge
  <2>5. e.status = "active" => e.token \in active' \/ inactiveFor'[e.token] <= e.age
    BY <2>2, <2>3, <2>4
  <2> QED
    BY <2>5 DEF StatusAge
<1>7. \A u \in Token : ProbeAge(u)'
  <2> SUFFICES ASSUME NEW u \in Token PROVE ProbeAge(u)'
    OBVIOUS
  <2>1. ProbeAge(u) /\ probes[u].age \in Nat
    BY <1>0 DEF AuthorizationFits
  <2> QED
    BY <2>1, <1>0, <1>2, <1>4 DEF ProbeAge
<1> QED
  BY <1>1, <1>2, <1>5, <1>6, <1>7 DEF AuthorizationFits

\* A probe ends, and its status, if it had an answer, is as old as the probe.
LEMMA Settles ==
  ASSUME AuthorizationFits, NEW t \in Token, Settle(t)
  PROVE  /\ AuthorizationFits'
         /\ \A q \in Request : Admits(q) =>
              Bearer[q] \in active' \/ inactiveFor'[Bearer[q]] < CacheMs
<1> DEFINE Probes == [on : BOOLEAN, age : 0..ProbeTimeout, seen : {"none", "active", "denied"}]
<1>0. /\ CacheMs \in Nat /\ ProbeTimeout \in Nat /\ QuietMs \in Nat /\ MaxEntries \in Nat \ {0} /\ MaxChecks \in Nat
      /\ inactiveFor \in [Token -> 0..CacheMs] /\ statuses \in Seq(Status) /\ Len(statuses) <= MaxEntries
      /\ probes \in [Token -> Probes] /\ IsFiniteSet(Probing) /\ Cardinality(Probing) <= MaxChecks
      /\ \A i, j \in DOMAIN statuses : statuses[i].token = statuses[j].token => i = j
      /\ verdict \in [Request -> {"none", "waiting", "admitted", "denied", "unavailable"}]
      /\ active \subseteq Token /\ quietFor \in 0..QuietMs
  BY AuthorizationAssumption DEF AuthorizationFits, AuthorizationTypeOK, Status
<1>1. /\ t \in Probing /\ probes' = [probes EXCEPT ![t] = NoProbe] /\ UNCHANGED <<active, inactiveFor>>
  BY DEF Settle
<1>2. probes' \in [Token -> Probes]
  <2>1. 0 \in 0..ProbeTimeout
    BY <1>0
  <2>2. NoProbe \in Probes
    BY <2>1 DEF NoProbe
  <2> QED
    BY <2>2, <1>0, <1>1
<1>3. Probing' = Probing \ {t}
  BY <1>0, <1>1 DEF Probing, NoProbe
<1>4. IsFiniteSet(Probing') /\ Cardinality(Probing') <= MaxChecks
  <2>1. IsFiniteSet(Probing') /\ Cardinality(Probing') = Cardinality(Probing) - 1
    BY <1>0, <1>1, <1>3, FS_RemoveElement
  <2>2. Cardinality(Probing) \in Nat /\ Cardinality(Probing') \in Nat
    BY <1>0, <2>1, FS_CardinalityType
  <2> QED
    BY <1>0, <2>1, <2>2
<1>5. \A u \in Token : ProbeAge(u)'
  <2> SUFFICES ASSUME NEW u \in Token PROVE ProbeAge(u)'
    OBVIOUS
  <2>1. probes'[u].on => probes'[u] = probes[u]
    BY <1>0, <1>1 DEF NoProbe
  <2> QED
    BY <2>1, <1>1 DEF ProbeAge, AuthorizationFits
<1>6. ASSUME NEW v \in {"admitted", "denied", "unavailable"}, verdict' = Told(t, v)
      PROVE  /\ verdict' \in [Request -> {"none", "waiting", "admitted", "denied", "unavailable"}]
             /\ \A q \in Request : Admits(q) => v = "admitted" /\ Bearer[q] = t
  BY <1>0, <1>6, ToldIs
<1>7. CASE /\ Believed(t) /\ statuses' = remember(t, probes[t].seen) /\ UNCHANGED quietFor
           /\ verdict' = Told(t, IF probes[t].seen = "active" THEN "admitted" ELSE "denied")
  <2> DEFINE e == [token |-> t, status |-> probes[t].seen, age |-> probes[t].age]
             old == IF Len(statuses) >= MaxEntries THEN Tail(statuses) ELSE statuses
  <2>1. probes[t].seen \in {"active", "denied"} /\ probes[t].age \in Nat
        /\ (probes[t].seen = "active" => probes[t].age < CacheMs) /\ probes[t].on
    BY <1>0, <1>1, <1>7 DEF Believed, Probing
  <2>2. e \in Status
    BY <2>1 DEF Status
  <2>3. StatusAge(e, active', inactiveFor')
    BY <2>1, <1>1 DEF StatusAge, AuthorizationFits, ProbeAge
  <2>4. /\ old \in Seq(Status) /\ Len(old) \in Nat /\ Len(old) < MaxEntries /\ DOMAIN old = 1..Len(old)
        /\ \A i \in DOMAIN old : old[i] \in Range(statuses)
        /\ \A i, j \in DOMAIN old : old[i].token = old[j].token => i = j
    <3>1. CASE Len(statuses) >= MaxEntries
      <4>1. statuses # <<>> /\ old = Tail(statuses) /\ Len(statuses) \in Nat /\ DOMAIN statuses = 1..Len(statuses)
        BY <3>1, <1>0
      <4> HIDE DEF old
      <4>2. old \in Seq(Status) /\ Len(old) = Len(statuses) - 1
        BY <4>1, <1>0
      <4>3. \A i \in 1..Len(old) : old[i] = statuses[i + 1]
        BY <4>1, <4>2, <1>0
      <4>4. \A i \in 1..Len(old) : i + 1 \in DOMAIN statuses
        BY <4>1, <4>2
      <4>5. Len(old) \in Nat /\ Len(old) < MaxEntries /\ DOMAIN old = 1..Len(old)
        BY <4>1, <4>2, <1>0
      <4>6. \A i \in DOMAIN old : old[i] \in Range(statuses)
        BY <4>3, <4>4, <4>5 DEF Range
      <4>7. ASSUME NEW i \in DOMAIN old, NEW j \in DOMAIN old, old[i].token = old[j].token PROVE i = j
        <5>1. statuses[i + 1].token = statuses[j + 1].token /\ i + 1 \in DOMAIN statuses /\ j + 1 \in DOMAIN statuses
          BY <4>3, <4>4, <4>5, <4>7
        <5>2. i + 1 = j + 1 /\ i \in Nat /\ j \in Nat
          BY <5>1, <4>5, <1>0
        <5> QED
          BY <5>2
      <4> QED
        BY <4>2, <4>5, <4>6, <4>7
    <3>2. CASE ~(Len(statuses) >= MaxEntries)
      BY <3>2, <1>0 DEF Range
    <3> QED
      BY <3>1, <3>2
  <2>5. statuses' = Append(old, e)
    BY <1>7 DEF remember
  <2> HIDE DEF old, e
  <2>6. /\ statuses' \in Seq(Status) /\ Len(statuses') = Len(old) + 1 /\ DOMAIN statuses' = 1..(Len(old) + 1)
        /\ \A i \in DOMAIN statuses' : statuses'[i] = IF i = Len(old) + 1 THEN e ELSE old[i]
    BY <2>2, <2>4, <2>5
  <2>7. \A i \in DOMAIN old : old[i].token # t /\ StatusAge(old[i], active', inactiveFor')
    BY <2>4, <1>1 DEF AuthorizationFits, StatusAge
  <2>8. e.token = t
    BY DEF e
  <2>9. \A i, j \in DOMAIN statuses' : statuses'[i].token = statuses'[j].token => i = j
    BY <2>4, <2>6, <2>7, <2>8
  <2>10. \A f \in Range(statuses') : StatusAge(f, active', inactiveFor') /\ f.token \notin Probing'
    <3> SUFFICES ASSUME NEW i \in DOMAIN statuses' PROVE StatusAge(statuses'[i], active', inactiveFor') /\ statuses'[i].token \notin Probing'
      BY DEF Range
    <3>1. CASE i = Len(old) + 1
      BY <3>1, <2>3, <2>6, <2>8, <1>3 DEF e
    <3>2. CASE i # Len(old) + 1
      BY <3>2, <2>4, <2>6, <2>7, <1>3 DEF AuthorizationFits
    <3> QED
      BY <3>1, <3>2
  <2>11. AuthorizationTypeOK'
    <3>1. statuses' \in Seq(Status) /\ Len(statuses') <= MaxEntries
      BY <1>0, <2>4, <2>6
    <3>2. verdict' \in [Request -> {"none", "waiting", "admitted", "denied", "unavailable"}]
      BY <1>6, <1>7
    <3> QED
      BY <1>0, <1>1, <1>2, <1>4, <1>7, <2>9, <3>1, <3>2 DEF AuthorizationTypeOK, Status
  <2>12. \A q \in Request : Admits(q) => Bearer[q] = t /\ probes[t].seen = "active"
    BY <1>6, <1>7
  <2>13. probes[t].seen = "active" => t \in active' \/ inactiveFor'[t] < CacheMs
    BY <2>1, <1>0, <1>1 DEF AuthorizationFits, ProbeAge
  <2> QED
    BY <1>4, <1>5, <2>10, <2>11, <2>12, <2>13 DEF AuthorizationFits
<1>8. CASE verdict' = Told(t, "unavailable") /\ quietFor' = 0 /\ UNCHANGED statuses
  <2>1. AuthorizationTypeOK'
    BY <1>0, <1>1, <1>2, <1>4, <1>6, <1>8 DEF AuthorizationTypeOK, Status
  <2>2. \A e \in Range(statuses') : StatusAge(e, active', inactiveFor') /\ e.token \notin Probing'
    BY <1>1, <1>3, <1>8 DEF AuthorizationFits, StatusAge
  <2>3. \A q \in Request : ~Admits(q)
    BY <1>6, <1>8
  <2> QED
    BY <1>4, <1>5, <2>1, <2>2, <2>3 DEF AuthorizationFits
<1> QED
  BY <1>7, <1>8 DEF Settle

\* Time passes for a status, a probe and the revocation alike.
LEMMA AuthorizationAges ==
  ASSUME AuthorizationFits, AuthorizationTick
  PROVE  AuthorizationFits' /\ \A q \in Request : ~Admits(q)
<1> DEFINE Probes == [on : BOOLEAN, age : 0..ProbeTimeout, seen : {"none", "active", "denied"}]
<1>0. /\ CacheMs \in Nat /\ ProbeTimeout \in Nat /\ QuietMs \in Nat /\ MaxEntries \in Nat \ {0} /\ MaxChecks \in Nat
      /\ inactiveFor \in [Token -> 0..CacheMs] /\ statuses \in Seq(Status) /\ Len(statuses) <= MaxEntries
      /\ probes \in [Token -> Probes] /\ IsFiniteSet(Probing) /\ Cardinality(Probing) <= MaxChecks
      /\ \A i, j \in DOMAIN statuses : statuses[i].token = statuses[j].token => i = j
      /\ active \subseteq Token /\ quietFor \in 0..QuietMs
  BY AuthorizationAssumption DEF AuthorizationFits, AuthorizationTypeOK, Status
<1>1. UNCHANGED <<active, verdict>>
  BY DEF AuthorizationTick
<1>2. /\ inactiveFor' \in [Token -> 0..CacheMs]
      /\ \A t \in Token \ active : inactiveFor'[t] = Older(inactiveFor[t], CacheMs)
  <2>1. \A t \in Token : Older(inactiveFor[t], CacheMs) \in 0..CacheMs /\ 0 \in 0..CacheMs
    <3>1. \A t \in Token : inactiveFor[t] \in Nat
      BY <1>0
    <3>2. 0 \in 0..CacheMs /\ CacheMs \in Nat
      BY <1>0
    <3>3. \A t \in Token : Older(inactiveFor[t], CacheMs) \in 0..CacheMs
      BY <3>1, <3>2, OlderIs
    <3> QED
      BY <3>2, <3>3
  <2> QED
    BY <2>1 DEF AuthorizationTick
<1>3. /\ probes' \in [Token -> Probes]
      /\ \A t \in Token : probes'[t].on = probes[t].on
      /\ \A t \in Token : probes[t].on => probes'[t].seen = probes[t].seen /\ probes'[t].age = probes[t].age + 1
  <2>1. ASSUME NEW t \in Token, t \in Probing
        PROVE  /\ probes'[t] = [probes[t] EXCEPT !.age = @ + 1] /\ probes[t].age + 1 \in 0..ProbeTimeout
    BY <2>1, <1>0 DEF AuthorizationTick
  <2>2. ASSUME NEW t \in Token, t \notin Probing PROVE probes'[t] = NoProbe /\ ~probes[t].on
    BY <2>2, <1>0 DEF AuthorizationTick, Probing
  <2>3. NoProbe \in Probes /\ ~NoProbe.on
    <3>1. 0 \in 0..ProbeTimeout
      BY <1>0
    <3> QED
      BY <3>1 DEF NoProbe
  <2>4. ASSUME NEW t \in Token, t \in Probing
        PROVE  probes'[t] \in Probes /\ probes'[t].on = probes[t].on /\ probes'[t].seen = probes[t].seen
               /\ probes'[t].age = probes[t].age + 1
    <3>1. probes[t] \in Probes /\ probes[t].on
      BY <1>0, <2>4 DEF Probing
    <3>2. /\ probes'[t] = [probes[t] EXCEPT !.age = probes[t].age + 1]
          /\ probes[t].age + 1 \in 0..ProbeTimeout
      BY <2>1, <2>4
    <3> QED
      BY <3>1, <3>2
  <2>5. probes' = [t \in Token |-> probes'[t]]
    BY DEF AuthorizationTick
  <2>6. \A t \in Token : probes[t].on => t \in Probing
    BY DEF Probing
  <2> HIDE DEF Probes
  <2>7. \A t \in Token : probes'[t] \in Probes
    BY <2>2, <2>3, <2>4
  <2>8. probes' \in [Token -> Probes]
    BY <2>5, <2>7
  <2>9. \A t \in Token : probes'[t].on = probes[t].on
    <3> SUFFICES ASSUME NEW t \in Token PROVE probes'[t].on = probes[t].on
      OBVIOUS
    <3>1. probes[t].on \in BOOLEAN /\ NoProbe.on = FALSE
      BY <1>0 DEF Probes, NoProbe
    <3>2. CASE t \in Probing
      BY <3>2, <2>4
    <3>3. CASE t \notin Probing
      BY <3>1, <3>3, <2>2
    <3> QED
      BY <3>2, <3>3
  <2> QED
    BY <2>4, <2>6, <2>8, <2>9
<1>4. Probing' = Probing
  BY <1>3 DEF Probing
<1>5. /\ statuses' \in Seq(Status) /\ Len(statuses') = Len(statuses) /\ DOMAIN statuses' = DOMAIN statuses
      /\ \A i \in DOMAIN statuses : /\ statuses'[i].token = statuses[i].token /\ statuses'[i].status = statuses[i].status
                                    /\ statuses'[i].age = Older(statuses[i].age, CacheMs)
  <2>1. DOMAIN statuses = 1..Len(statuses) /\ Len(statuses) \in Nat
        /\ statuses' = [i \in DOMAIN statuses |-> [statuses[i] EXCEPT !.age = Older(@, CacheMs)]]
    BY <1>0 DEF AuthorizationTick
  <2>2. ASSUME NEW i \in DOMAIN statuses
        PROVE  /\ statuses'[i] \in Status
               /\ statuses'[i].token = statuses[i].token /\ statuses'[i].status = statuses[i].status
               /\ statuses'[i].age = Older(statuses[i].age, CacheMs)
    <3>1. statuses[i] \in Status /\ statuses'[i] = [statuses[i] EXCEPT !.age = Older(statuses[i].age, CacheMs)]
      BY <1>0, <2>1
    <3>2. Older(statuses[i].age, CacheMs) \in Nat
      BY <3>1, <1>0, OlderIs DEF Status
    <3> QED
      BY <3>1, <3>2 DEF Status
  <2>3. \A i \in 1..Len(statuses) : statuses'[i] \in Status
    BY <2>1, <2>2
  <2>4. statuses' = [i \in 1..Len(statuses) |-> statuses'[i]]
    BY <2>1
  <2>5. statuses' \in Seq(Status) /\ Len(statuses') = Len(statuses) /\ DOMAIN statuses' = DOMAIN statuses
    BY <2>1, <2>3, <2>4
  <2> QED
    BY <2>2, <2>5
<1>6. AuthorizationTypeOK'
  <2>1. quietFor' \in 0..QuietMs
    BY <1>0, OlderIs DEF AuthorizationTick
  <2> QED
    BY <1>0, <1>1, <1>2, <1>3, <1>4, <1>5, <2>1 DEF AuthorizationTypeOK, AuthorizationFits, Status
<1>7. \A e \in Range(statuses') : StatusAge(e, active', inactiveFor') /\ e.token \notin Probing'
  <2> SUFFICES ASSUME NEW i \in DOMAIN statuses PROVE StatusAge(statuses'[i], active', inactiveFor') /\ statuses'[i].token \notin Probing'
    BY <1>5 DEF Range
  <2>1. StatusAge(statuses[i], active, inactiveFor) /\ statuses[i].token \notin Probing /\ statuses[i] \in Status
    BY <1>0 DEF AuthorizationFits, Range
  <2>2. /\ statuses[i].age \in Nat /\ statuses[i].token \in Token /\ inactiveFor[statuses[i].token] \in 0..CacheMs
    BY <2>1, <1>0 DEF Status
  <2>3. inactiveFor[statuses[i].token] <= statuses[i].age
          => Older(inactiveFor[statuses[i].token], CacheMs) <= Older(statuses[i].age, CacheMs)
    BY <2>2, <1>0 DEF Older
  <2>4. statuses'[i].status = "active" => statuses'[i].token \in active' \/ inactiveFor'[statuses'[i].token] <= statuses'[i].age
    BY <2>1, <2>2, <2>3, <1>1, <1>2, <1>5 DEF StatusAge
  <2> QED
    BY <2>1, <2>4, <1>4, <1>5 DEF StatusAge
<1>8. \A t \in Token : ProbeAge(t)'
  <2> SUFFICES ASSUME NEW t \in Token PROVE ProbeAge(t)'
    OBVIOUS
  <2>1. ProbeAge(t) /\ probes[t].age \in Nat /\ inactiveFor[t] \in 0..CacheMs
    BY <1>0 DEF AuthorizationFits
  <2>2. inactiveFor[t] <= probes[t].age => Older(inactiveFor[t], CacheMs) <= probes[t].age + 1
    BY <2>1, <1>0 DEF Older
  <2> QED
    BY <2>1, <2>2, <1>1, <1>2, <1>3 DEF ProbeAge
<1>9. \A q \in Request : ~Admits(q)
  BY <1>1 DEF Admits
<1> QED
  BY <1>4, <1>6, <1>7, <1>8, <1>9 DEF AuthorizationFits

-----------------------------------------------------------------------------
(* Bindings.                                                               *)

Entry == [version : 0..MaxBindings, age : Nat]
Fetch == [on : BOOLEAN, age : 0..FetchTimeout, seen : 0..MaxBindings, cached : Entry]

BindingsTypeOK ==
  /\ bindings \in 1..MaxBindings /\ replacedFor \in [1..MaxBindings -> Nat]
  /\ intervalCache \in Entry /\ intervalCache.version <= bindings
  /\ intervalCache.version = 0 => intervalCache = NoEntry
  /\ fetching \in [Request -> Fetch] /\ planned \in [Request -> 0..MaxBindings]
  /\ \A r \in Request : /\ fetching[r].seen <= bindings /\ fetching[r].cached.version <= bindings
                        /\ planned[r] <= bindings

\* An entry that may still be used is at least as old as its version is replaced, and
\* so is what a fetch has seen; what it falls back to was that old when it began.
EntryAge == intervalCache.version # 0 /\ intervalCache.age <= StaleIfError
              => replacedFor[intervalCache.version] <= intervalCache.age

FetchAge(r) == fetching[r].on =>
  /\ fetching[r].seen # 0 => replacedFor[fetching[r].seen] <= fetching[r].age
  /\ fetching[r].cached.version # 0 =>
       /\ replacedFor[fetching[r].cached.version] <= fetching[r].cached.age + fetching[r].age
       /\ fetching[r].cached.age <= StaleIfError
  /\ r \in config.current => fetching[r].cached.version = 0

BindingsFit ==
  /\ BindingsTypeOK /\ EntryAge
  /\ \A v \in 1..MaxBindings : v >= bindings => replacedFor[v] = 0
  /\ \A r \in Request : FetchAge(r)

\* The plan that a request has just learnt is recent.
LearntPlan(r) == Learns(r) => replacedFor[planned'[r]] <=
                   fetching[r].age + (IF r \in config.current THEN 0 ELSE StaleIfError)

LEMMA BindingsStart == ASSUME BindingsInit PROVE BindingsFit
<1>0. MaxBindings \in Nat \ {0} /\ FetchTimeout \in Nat
  BY BindingsAssumption
<1>1. NoEntry \in Entry /\ 1 \in 1..MaxBindings /\ 0 \in 0..MaxBindings /\ 0 \in 0..FetchTimeout
  BY <1>0 DEF NoEntry, Entry
<1>2. NoFetch \in Fetch /\ ~NoFetch.on /\ NoFetch.seen = 0 /\ NoFetch.cached.version = 0
  BY <1>1 DEF NoFetch, Fetch, NoEntry
<1>3. BindingsTypeOK
  BY <1>0, <1>1, <1>2 DEF BindingsInit, BindingsTypeOK, NoEntry, Failed
<1> QED
  BY <1>2, <1>3 DEF BindingsInit, BindingsFit, EntryAge, FetchAge, NoEntry

\* A request asks: a fresh entry answers at once, an older one is kept for a failure.
LEMMA IntervalsListed ==
  ASSUME BindingsFit, NEW r \in Request, NEW own \in BOOLEAN, UNCHANGED config,
         listIntervals(r, r \in config.current, own), \A q \in Request \ {r} : stage'[q] = stage[q]
  PROVE  BindingsFit' /\ \A q \in Request : LearntPlan(q)
<1> DEFINE cached == IF own THEN NoEntry ELSE intervalCache
           kept == IF r \in config.current \/ cached.age > StaleIfError THEN NoEntry ELSE cached
           new == [on |-> TRUE, age |-> 0, seen |-> 0, cached |-> kept]
<1>0. /\ MaxBindings \in Nat \ {0} /\ FetchTimeout \in Nat /\ CacheTtl \in Nat /\ StaleIfError \in Nat
      /\ CacheTtl <= StaleIfError /\ BindingsTypeOK
  BY BindingsAssumption DEF BindingsFit
<1>1. UNCHANGED <<bindings, replacedFor, intervalCache>>
  BY DEF listIntervals
<1>2. cached \in Entry /\ cached.version <= bindings /\ (cached.version = 0 => cached = NoEntry)
      /\ (cached.version # 0 /\ cached.age <= StaleIfError => replacedFor[cached.version] <= cached.age)
  BY <1>0 DEF BindingsTypeOK, BindingsFit, EntryAge, NoEntry, Entry
<1>3. CASE r \notin config.current /\ cached # NoEntry /\ cached.age <= CacheTtl
           /\ Planned(r, cached.version) /\ UNCHANGED fetching
  <2>1. BindingsTypeOK'
    BY <1>0, <1>1, <1>2, <1>3 DEF BindingsTypeOK, Planned, Entry
  <2>2. BindingsFit'
    BY <2>1, <1>1, <1>3 DEF BindingsFit, EntryAge, FetchAge
  <2>3. ASSUME NEW q \in Request, Learns(q) PROVE LearntPlan(q)
    <3>1. fetching[q].age \in Nat
      BY <1>0 DEF BindingsTypeOK, Fetch
    <3>2. CASE q = r
      <4>1. planned'[r] = cached.version /\ cached.version # 0 /\ cached.age \in Nat
        BY <1>0, <1>2, <1>3 DEF Planned, BindingsTypeOK, Entry
      <4>2. replacedFor[cached.version] \in Nat
        BY <4>1, <1>0, <1>2 DEF BindingsTypeOK, Entry
      <4> HIDE DEF cached
      <4>3. replacedFor[cached.version] <= fetching[r].age + StaleIfError
        BY <4>1, <4>2, <3>1, <3>2, <1>0, <1>2, <1>3
      <4> QED
        BY <4>1, <4>3, <3>2, <1>3 DEF LearntPlan
    <3>3. CASE q # r
      BY <3>3, <2>3, <1>0, <1>3 DEF Learns, Planned, BindingsTypeOK
    <3> QED
      BY <3>2, <3>3
  <2> QED
    BY <2>2, <2>3 DEF LearntPlan
<1>4. CASE fetching' = [fetching EXCEPT ![r] = new] /\ UNCHANGED planned
  <2>1. /\ kept \in Entry /\ kept.version <= bindings /\ (r \in config.current => kept.version = 0)
        /\ kept.version # 0 => replacedFor[kept.version] <= kept.age /\ kept.age <= StaleIfError
    <3>1. NoEntry \in Entry /\ NoEntry.version = 0 /\ 0 <= bindings
      BY <1>0 DEF NoEntry, Entry, BindingsTypeOK
    <3>2. cached.age \in Nat
      BY <1>2 DEF Entry
    <3> HIDE DEF cached
    <3> QED
      BY <3>1, <3>2, <1>0, <1>2
  <2> HIDE DEF kept
  <2>2. new \in Fetch /\ 0 <= bindings
    BY <2>1, <1>0 DEF Fetch, BindingsTypeOK
  <2>3. /\ new.on /\ new.seen = 0 /\ new.age = 0 /\ new.cached = kept
    OBVIOUS
  <2> HIDE DEF new
  <2>4. /\ fetching' \in [Request -> Fetch] /\ fetching'[r] = new
        /\ \A q \in Request : q # r => fetching'[q] = fetching[q]
    BY <2>2, <1>0, <1>4 DEF BindingsTypeOK
  <2>5. BindingsTypeOK'
    BY <1>0, <1>1, <1>4, <2>1, <2>2, <2>3, <2>4 DEF BindingsTypeOK
  <2>6. \A q \in Request : FetchAge(q)'
    <3> SUFFICES ASSUME NEW q \in Request PROVE FetchAge(q)'
      OBVIOUS
    <3>1. CASE q = r
      <4>1. kept.version # 0 => replacedFor[kept.version] <= kept.age + 0
        BY <2>1 DEF Entry
      <4> QED
        BY <4>1, <3>1, <2>1, <2>3, <2>4, <1>1 DEF FetchAge
    <3>2. CASE q # r
      BY <3>2, <2>4, <1>1 DEF FetchAge, BindingsFit
    <3> QED
      BY <3>1, <3>2
  <2>7. \A q \in Request : ~Learns(q)
    BY <2>3, <2>4, <1>4 DEF Learns, Planned
  <2> QED
    BY <2>5, <2>6, <2>7, <1>1 DEF BindingsFit, EntryAge, LearntPlan
<1> QED
  BY <1>3, <1>4 DEF listIntervals

LEMMA BindingsSeen ==
  ASSUME BindingsFit, NEW r \in Request, BindingsRead(r), UNCHANGED requestVars
  PROVE  BindingsFit' /\ \A q \in Request : LearntPlan(q)
<1>0. bindings \in 1..MaxBindings /\ MaxBindings \in Nat /\ fetching \in [Request -> Fetch] /\ BindingsTypeOK
  BY BindingsAssumption DEF BindingsFit, BindingsTypeOK
<1>1. /\ UNCHANGED <<bindings, replacedFor, intervalCache, planned, config, stage>>
      /\ fetching' = [fetching EXCEPT ![r].seen = bindings] /\ fetching[r].on
  BY DEF BindingsRead, requestVars
<1>2. fetching'[r] = [fetching[r] EXCEPT !.seen = bindings] /\ fetching[r] \in Fetch
      /\ \A q \in Request : q # r => fetching'[q] = fetching[q]
  BY <1>0, <1>1
<1>3. fetching' \in [Request -> Fetch]
  BY <1>0, <1>1 DEF Fetch
<1>4. /\ fetching'[r].on /\ fetching'[r].seen = bindings /\ fetching'[r].age = fetching[r].age
      /\ fetching'[r].cached = fetching[r].cached /\ fetching[r].age \in Nat
  BY <1>1, <1>2 DEF Fetch
<1>5. BindingsTypeOK'
  BY <1>0, <1>1, <1>2, <1>3, <1>4 DEF BindingsTypeOK
<1>6. replacedFor[bindings] = 0
  BY <1>0 DEF BindingsFit
<1>7. \A q \in Request : FetchAge(q)'
  <2> SUFFICES ASSUME NEW q \in Request PROVE FetchAge(q)'
    OBVIOUS
  <2>1. FetchAge(q)
    BY DEF BindingsFit
  <2>2. CASE q = r
    BY <2>1, <2>2, <1>1, <1>4, <1>6 DEF FetchAge
  <2>3. CASE q # r
    BY <2>1, <2>3, <1>1, <1>2 DEF FetchAge
  <2> QED
    BY <2>2, <2>3
<1>8. \A q \in Request : ~Learns(q)
  BY <1>1, <1>2, <1>4 DEF Learns
<1> QED
  BY <1>1, <1>5, <1>7, <1>8 DEF BindingsFit, EntryAge, LearntPlan

LEMMA BindingsFetched ==
  ASSUME BindingsFit, NEW r \in Request, NEW own \in BOOLEAN, Fetched(r, own), UNCHANGED requestVars
  PROVE  BindingsFit' /\ \A q \in Request : LearntPlan(q)
<1>0. /\ MaxBindings \in Nat \ {0} /\ FetchTimeout \in Nat /\ StaleIfError \in Nat /\ BindingsTypeOK
      /\ replacedFor \in [1..MaxBindings -> Nat] /\ FetchAge(r)
  BY BindingsAssumption DEF BindingsFit, BindingsTypeOK
<1>1. /\ UNCHANGED <<bindings, replacedFor, config, stage>> /\ fetching[r].on
      /\ fetching' = [fetching EXCEPT ![r] = NoFetch]
  BY DEF Fetched, requestVars
<1>2. fetching[r] \in Fetch
  BY <1>0 DEF BindingsTypeOK
<1> DEFINE f == fetching[r]
<1>3. f.seen \in 0..MaxBindings /\ f.age \in 0..FetchTimeout /\ f.cached \in Entry
  BY <1>2 DEF Fetch
<1>4. f.cached.version \in 0..MaxBindings /\ f.cached.age \in Nat
  BY <1>3 DEF Entry
<1>5. /\ fetching' \in [Request -> Fetch] /\ fetching'[r] = NoFetch
      /\ \A q \in Request : q # r => fetching'[q] = fetching[q]
  <2>1. 0 \in 0..MaxBindings /\ 0 \in 0..FetchTimeout
    BY <1>0
  <2>2. NoFetch \in Fetch
    BY <2>1 DEF NoFetch, Fetch, Entry, NoEntry
  <2> QED
    BY <2>2, <1>0, <1>1 DEF BindingsTypeOK
<1>6. /\ \A q \in Request : fetching'[q].seen <= bindings /\ fetching'[q].cached.version <= bindings
      /\ \A q \in Request : FetchAge(q)'
  <2>1. NoFetch.seen = 0 /\ NoFetch.cached.version = 0 /\ ~NoFetch.on /\ 0 <= bindings
    BY <1>0 DEF NoFetch, NoEntry, BindingsTypeOK
  <2> QED
    BY <2>1, <1>0, <1>1, <1>5 DEF BindingsTypeOK, BindingsFit, FetchAge
<1>7. ASSUME NEW v \in 0..MaxBindings, v <= bindings, Planned(r, v)
      PROVE  /\ planned' \in [Request -> 0..MaxBindings] /\ \A q \in Request : planned'[q] <= bindings
             /\ planned'[r] = v /\ \A q \in Request : q # r => planned'[q] = planned[q]
  BY <1>0, <1>7 DEF Planned, BindingsTypeOK
<1>8. \A q \in Request : q # r => ~Learns(q)
  BY <1>1, <1>5 DEF Learns
<1>9. CASE f.seen # 0 /\ Planned(r, f.seen) /\ intervalCache' = IF own THEN intervalCache ELSE Stored(r)
  <2>1. replacedFor[f.seen] <= f.age /\ f.seen <= bindings
    BY <1>0, <1>1, <1>9 DEF FetchAge, BindingsTypeOK
  <2>2. /\ Stored(r).version = f.seen /\ Stored(r).age = f.age /\ Stored(r) \in Entry
    BY <1>3 DEF Stored, Entry
  <2>3. intervalCache' \in Entry /\ intervalCache'.version <= bindings /\ EntryAge'
        /\ (intervalCache'.version = 0 => intervalCache' = NoEntry)
    BY <1>0, <1>1, <1>9, <2>1, <2>2 DEF EntryAge, BindingsTypeOK, BindingsFit
  <2>4. BindingsFit'
    BY <1>0, <1>1, <1>3, <1>5, <1>6, <1>7, <1>9, <2>1, <2>3 DEF BindingsFit, BindingsTypeOK
  <2>5. LearntPlan(r)
    <3>1. replacedFor[f.seen] \in Nat
      BY <1>0, <1>3, <1>9
    <3>2. planned'[r] = f.seen
      BY <1>3, <1>7, <1>9, <2>1
    <3>3. replacedFor[f.seen] <= f.age + StaleIfError /\ replacedFor[f.seen] <= f.age + 0
      BY <3>1, <2>1, <1>0, <1>3
    <3> QED
      BY <3>2, <3>3 DEF LearntPlan
  <2> QED
    BY <2>4, <2>5, <1>8 DEF LearntPlan
<1>10. CASE Planned(r, f.cached.version) /\ UNCHANGED intervalCache
  <2>1. f.cached.version <= bindings
    BY <1>0 DEF BindingsTypeOK
  <2>2. BindingsFit'
    BY <1>0, <1>1, <1>4, <1>5, <1>6, <1>7, <1>10, <2>1 DEF BindingsFit, BindingsTypeOK, EntryAge
  <2>3. ASSUME Learns(r) PROVE LearntPlan(r)
    <3>1. planned'[r] = f.cached.version /\ f.cached.version # 0
      BY <1>4, <1>7, <1>10, <2>1, <2>3 DEF Learns, Failed
    <3>2. /\ replacedFor[f.cached.version] <= f.cached.age + f.age /\ f.cached.age <= StaleIfError
          /\ r \notin config.current /\ replacedFor[f.cached.version] \in Nat
      BY <3>1, <1>0, <1>1, <1>4 DEF FetchAge
    <3>3. replacedFor[f.cached.version] <= f.age + StaleIfError
      BY <3>2, <1>0, <1>3, <1>4, SMTT(20)
    <3> QED
      BY <3>1, <3>2, <3>3 DEF LearntPlan
  <2> QED
    BY <2>2, <2>3, <1>8 DEF LearntPlan
<1> QED
  BY <1>9, <1>10 DEF Fetched

\* The result is used.
LEMMA PlansUsed ==
  ASSUME BindingsFit, NEW r \in Request, PlanUsed(r), UNCHANGED config, stage'[r] # "planning",
         \A q \in Request \ {r} : stage'[q] = stage[q]
  PROVE  BindingsFit' /\ \A q \in Request : LearntPlan(q)
<1>0. /\ UNCHANGED <<bindings, replacedFor, intervalCache, fetching>> /\ planned' = [planned EXCEPT ![r] = 0]
  BY DEF PlanUsed, Planned, Failed
<1>1. MaxBindings \in Nat \ {0} /\ BindingsTypeOK
  BY BindingsAssumption DEF BindingsFit
<1>2. BindingsTypeOK'
  BY <1>0, <1>1 DEF BindingsTypeOK
<1>3. \A q \in Request : ~Learns(q)
  BY <1>0, <1>1 DEF Learns, BindingsTypeOK
<1> QED
  BY <1>0, <1>2, <1>3 DEF BindingsFit, EntryAge, FetchAge, LearntPlan

LEMMA Rebinds ==
  ASSUME BindingsFit, Rebind, UNCHANGED requestVars
  PROVE  BindingsFit' /\ \A q \in Request : LearntPlan(q)
<1>0. MaxBindings \in Nat \ {0} /\ BindingsTypeOK /\ bindings \in 1..MaxBindings /\ replacedFor \in [1..MaxBindings -> Nat]
  BY BindingsAssumption DEF BindingsFit, BindingsTypeOK
<1>1. /\ bindings' = bindings + 1 /\ bindings < MaxBindings /\ replacedFor' = [replacedFor EXCEPT ![bindings] = 0]
      /\ UNCHANGED <<intervalCache, fetching, planned, config, stage>>
  BY DEF Rebind, requestVars
<1>2. \A v \in 1..MaxBindings : replacedFor'[v] = IF v = bindings THEN 0 ELSE replacedFor[v]
  BY <1>0, <1>1
<1>3. BindingsTypeOK'
  <2>1. \A q \in Request : /\ fetching[q].seen \in Nat /\ fetching[q].cached.version \in Nat /\ planned[q] \in Nat
    BY <1>0 DEF BindingsTypeOK, Fetch, Entry
  <2>2. intervalCache.version \in Nat
    BY <1>0 DEF BindingsTypeOK, Entry
  <2>3. \A n \in Nat : n <= bindings => n <= bindings'
    BY <1>0, <1>1
  <2>4. bindings' \in 1..MaxBindings /\ replacedFor' \in [1..MaxBindings -> Nat]
    BY <1>0, <1>1
  <2> QED
    BY <2>1, <2>2, <2>3, <2>4, <1>0, <1>1 DEF BindingsTypeOK
<1>4. \A v \in 1..MaxBindings : v >= bindings' => replacedFor'[v] = 0
  BY <1>0, <1>1, <1>2 DEF BindingsFit
<1>5. \A v \in 0..MaxBindings : v # 0 => /\ replacedFor'[v] \in Nat /\ replacedFor[v] \in Nat
                                         /\ replacedFor'[v] <= replacedFor[v]
  BY <1>0, <1>2
<1>6. EntryAge'
  <2>1. intervalCache.version \in 0..MaxBindings /\ intervalCache.age \in Nat
    BY <1>0 DEF BindingsTypeOK, Entry
  <2> QED
    BY <2>1, <1>1, <1>5 DEF EntryAge, BindingsFit
<1>7. \A q \in Request : FetchAge(q)'
  <2> SUFFICES ASSUME NEW q \in Request PROVE FetchAge(q)'
    OBVIOUS
  <2>1. /\ fetching[q].seen \in 0..MaxBindings /\ fetching[q].cached.version \in 0..MaxBindings
        /\ fetching[q].age \in Nat /\ fetching[q].cached.age \in Nat /\ FetchAge(q)
    BY <1>0 DEF BindingsTypeOK, BindingsFit, Fetch, Entry
  <2>2. \A n \in Nat, v \in 0..MaxBindings : v # 0 /\ replacedFor[v] <= n => replacedFor'[v] <= n
    BY <1>5
  <2>3. fetching[q].cached.age + fetching[q].age \in Nat
    BY <2>1
  <2> QED
    BY <2>1, <2>2, <2>3, <1>1 DEF FetchAge
<1>8. \A q \in Request : ~Learns(q)
  BY <1>1 DEF Learns
<1> QED
  BY <1>3, <1>4, <1>6, <1>7, <1>8 DEF BindingsFit, LearntPlan

LEMMA BindingsAge ==
  ASSUME BindingsFit, BindingsTick, UNCHANGED requestVars
  PROVE  BindingsFit' /\ \A q \in Request : LearntPlan(q)
<1>0. /\ MaxBindings \in Nat \ {0} /\ FetchTimeout \in Nat /\ StaleIfError \in Nat /\ ReplacedLimit \in Nat
      /\ BindingsTypeOK /\ bindings \in 1..MaxBindings /\ replacedFor \in [1..MaxBindings -> Nat]
      /\ fetching \in [Request -> Fetch]
  BY BindingsAssumption DEF BindingsFit, BindingsTypeOK, ReplacedLimit
<1>1. UNCHANGED <<bindings, planned, config, stage>>
  BY DEF BindingsTick, requestVars
<1>2. /\ replacedFor' \in [1..MaxBindings -> Nat]
      /\ \A v \in 1..MaxBindings : replacedFor'[v] <= replacedFor[v] + 1 /\ (v >= bindings => replacedFor'[v] = 0)
  <2>1. replacedFor' = [v \in 1..MaxBindings |-> IF v < bindings THEN Older(replacedFor[v], ReplacedLimit) ELSE 0]
    BY DEF BindingsTick
  <2>2. \A v \in 1..MaxBindings : Older(replacedFor[v], ReplacedLimit) \in Nat
                                  /\ Older(replacedFor[v], ReplacedLimit) <= replacedFor[v] + 1
    BY <1>0 DEF Older
  <2> QED
    BY <2>1, <2>2, <1>0
<1>3. /\ fetching' \in [Request -> Fetch]
      /\ \A q \in Request : /\ fetching'[q].on = fetching[q].on
                            /\ fetching[q].on => /\ fetching'[q].seen = fetching[q].seen
                                                 /\ fetching'[q].cached = fetching[q].cached
                                                 /\ fetching'[q].age = fetching[q].age + 1
                            /\ ~fetching[q].on => fetching'[q] = NoFetch
  <2>1. fetching' = [q \in Request |-> IF fetching[q].on THEN [fetching[q] EXCEPT !.age = @ + 1] ELSE NoFetch]
        /\ \A q \in Request : fetching[q].age < FetchTimeout
    BY DEF BindingsTick
  <2>2. NoFetch \in Fetch /\ NoFetch.on = FALSE
    <3>1. 0 \in 0..MaxBindings /\ 0 \in 0..FetchTimeout
      BY <1>0
    <3> QED
      BY <3>1 DEF NoFetch, NoEntry, Fetch, Entry
  <2>3. ASSUME NEW q \in Request, fetching[q].on
        PROVE  /\ fetching'[q] \in Fetch /\ fetching'[q].on = fetching[q].on
               /\ fetching'[q].seen = fetching[q].seen /\ fetching'[q].cached = fetching[q].cached
               /\ fetching'[q].age = fetching[q].age + 1
    <3>1. fetching[q] \in Fetch /\ fetching[q].age + 1 \in 0..FetchTimeout
      BY <1>0, <2>1 DEF Fetch
    <3>2. fetching'[q] = [fetching[q] EXCEPT !.age = fetching[q].age + 1]
      BY <2>1, <2>3
    <3> QED
      BY <3>1, <3>2 DEF Fetch
  <2>4. ASSUME NEW q \in Request, ~fetching[q].on
        PROVE  fetching'[q] = NoFetch /\ fetching'[q].on = fetching[q].on
    <3>1. fetching[q].on \in BOOLEAN
      BY <1>0 DEF Fetch
    <3> QED
      BY <3>1, <2>1, <2>2, <2>4
  <2>5. \A q \in Request : fetching'[q] \in Fetch
    BY <2>2, <2>3, <2>4
  <2> QED
    BY <2>1, <2>3, <2>4, <2>5
<1>4. /\ intervalCache' \in Entry /\ intervalCache'.version = intervalCache.version
      /\ intervalCache'.version = 0 => intervalCache' = NoEntry
      /\ intervalCache'.version # 0 /\ intervalCache'.age <= StaleIfError
           => intervalCache.age <= StaleIfError /\ intervalCache'.age = intervalCache.age + 1
  <2>1. intervalCache \in Entry /\ intervalCache.age \in Nat /\ (intervalCache.version = 0 => intervalCache = NoEntry)
    BY <1>0 DEF BindingsTypeOK, Entry
  <2>2. CASE intervalCache = NoEntry
    BY <2>1, <2>2 DEF BindingsTick, NoEntry
  <2>3. CASE intervalCache # NoEntry
    <3>1. intervalCache' = [intervalCache EXCEPT !.age = Older(intervalCache.age, StaleIfError + 1)]
      BY <2>3 DEF BindingsTick
    <3>2. Older(intervalCache.age, StaleIfError + 1) \in Nat
          /\ (Older(intervalCache.age, StaleIfError + 1) <= StaleIfError
                => intervalCache.age <= StaleIfError /\ Older(intervalCache.age, StaleIfError + 1) = intervalCache.age + 1)
      BY <2>1, <1>0 DEF Older
    <3>3. /\ intervalCache'.version = intervalCache.version /\ intervalCache' \in Entry
          /\ intervalCache'.age = Older(intervalCache.age, StaleIfError + 1)
      BY <3>1, <3>2, <2>1 DEF Entry
    <3> QED
      BY <3>2, <3>3, <2>1, <2>3
  <2> QED
    BY <2>2, <2>3
<1>5. BindingsTypeOK'
  <2>1. NoFetch.seen = 0 /\ NoFetch.cached.version = 0 /\ 0 <= bindings
    BY <1>0 DEF NoFetch, NoEntry
  <2>2. \A q \in Request : fetching'[q].seen <= bindings /\ fetching'[q].cached.version <= bindings
    BY <2>1, <1>0, <1>3 DEF BindingsTypeOK
  <2> QED
    BY <2>2, <1>0, <1>1, <1>2, <1>3, <1>4 DEF BindingsTypeOK
<1>6. EntryAge'
  <2>1. intervalCache.version \in 0..MaxBindings /\ intervalCache.age \in Nat /\ EntryAge
    BY <1>0 DEF BindingsTypeOK, BindingsFit, Entry
  <2>2. ASSUME intervalCache'.version # 0, intervalCache'.age <= StaleIfError
        PROVE  replacedFor'[intervalCache'.version] <= intervalCache'.age
    <3>1. intervalCache.version \in 1..MaxBindings
      BY <2>1, <2>2, <1>4, <1>0
    <3>2. /\ replacedFor[intervalCache.version] <= intervalCache.age
          /\ replacedFor'[intervalCache.version] <= replacedFor[intervalCache.version] + 1
          /\ replacedFor[intervalCache.version] \in Nat /\ replacedFor'[intervalCache.version] \in Nat
          /\ intervalCache'.age = intervalCache.age + 1
      BY <3>1, <2>1, <2>2, <1>0, <1>2, <1>4 DEF EntryAge
    <3> QED
      BY <3>2, <2>1, <1>4
  <2> QED
    BY <2>2 DEF EntryAge
<1>7. \A q \in Request : FetchAge(q)'
  <2> SUFFICES ASSUME NEW q \in Request, fetching[q].on PROVE FetchAge(q)'
    BY <1>3 DEF FetchAge
  <2>1. /\ fetching[q].seen \in 0..MaxBindings /\ fetching[q].cached.version \in 0..MaxBindings
        /\ fetching[q].age \in Nat /\ fetching[q].cached.age \in Nat /\ FetchAge(q)
    BY <1>0 DEF BindingsFit, Fetch, Entry
  <2>2. \A n \in Nat, v \in 0..MaxBindings : v # 0 /\ replacedFor[v] <= n => replacedFor'[v] <= n + 1
    <3> SUFFICES ASSUME NEW n \in Nat, NEW v \in 1..MaxBindings, replacedFor[v] <= n PROVE replacedFor'[v] <= n + 1
      OBVIOUS
    <3>1. replacedFor[v] \in Nat /\ replacedFor'[v] \in Nat /\ replacedFor'[v] <= replacedFor[v] + 1
      BY <1>0, <1>2
    <3> QED
      BY <3>1
  <2>3. /\ fetching[q].cached.age + fetching[q].age \in Nat
        /\ fetching[q].cached.age + (fetching[q].age + 1) = (fetching[q].cached.age + fetching[q].age) + 1
    BY <2>1
  <2>4. fetching[q].seen # 0 => replacedFor'[fetching[q].seen] <= fetching[q].age + 1
    BY <2>1, <2>2 DEF FetchAge
  <2>5. fetching[q].cached.version # 0 =>
          /\ replacedFor'[fetching[q].cached.version] <= (fetching[q].cached.age + fetching[q].age) + 1
          /\ fetching[q].cached.age <= StaleIfError
    BY <2>1, <2>2, <2>3 DEF FetchAge
  <2>6. q \in config.current => fetching[q].cached.version = 0
    BY <2>1 DEF FetchAge
  <2> QED
    BY <2>3, <2>4, <2>5, <2>6, <1>1, <1>3 DEF FetchAge
<1>8. \A q \in Request : ~Learns(q)
  BY <1>1, <1>3 DEF Learns
<1> QED
  BY <1>1, <1>2, <1>5, <1>6, <1>7, <1>8 DEF BindingsFit, LearntPlan

-----------------------------------------------------------------------------
(* Mappings.                                                               *)

\* Tables of a topic, each once.
Lists == {l \in Seq([table : Table, retired : BOOLEAN]) :
            \A i, j \in DOMAIN l : l[i].table = l[j].table => i = j}

Unmapped(v, t) == Selected(v, t) = <<>>
ReadOver(x)    == resolving[x].is \in {"ordinary, over", "miss, over"}

MappingTypeOK ==
  /\ mappings \in Versions /\ entries \in 0..mappings
  /\ fetchedFor \in Nat /\ refreshedFor \in Nat /\ missedFor \in Nat /\ failedFor \in Nat
  /\ load \in [on : BOOLEAN, age : 0..LoadTimeout, seen : 0..mappings]
  /\ outdatedFor \in Nat /\ unmappedFor \in [Topic -> Nat]
  /\ resolving \in [Reader -> [is : {"none", "ordinary", "miss", "ordinary, over", "miss, over", "found"},
                               found : Lists]]

\* The load that an attempt of age a began has ended, well or not, since.
Ended(a) == ~load.on /\ a < Cooldown => failedFor <= a \/ fetchedFor <= a

\* What the list in use says was true at most a load before it came; what a load has
\* read was true since it began; those that wait for a load go on when it ends.
MappingFits ==
  /\ MappingTypeOK
  /\ entries = 0 => fetchedFor >= Ttl
  /\ Ended(refreshedFor) /\ Ended(missedFor)
  /\ \A x \in Reader : ReadOver(x) => failedFor = 0 \/ fetchedFor = 0
  /\ fetchedFor < Ttl =>
       /\ outdatedFor <= fetchedFor + LoadTimeout
       /\ \A t \in Topic : Unmapped(entries, t) => unmappedFor[t] <= fetchedFor + LoadTimeout
  /\ \A t \in Topic : Unmapped(mappings, t) => unmappedFor[t] = 0
  /\ load.seen # 0 => \A t \in Topic : Unmapped(load.seen, t) => unmappedFor[t] <= load.age
  /\ ~load.on => load.seen = 0

\* What a reader has just been told of a topic is recent.
RecentTables(x, t) ==
  Resolves(x) /\ failedFor >= Cooldown =>
    IF resolving'[x].found = <<>> THEN unmappedFor[t] <= Cooldown + LoadTimeout
    ELSE outdatedFor <= Ttl + LoadTimeout

LEMMA MappingBounds ==
  /\ Ttl \in Nat /\ Cooldown \in Nat /\ LoadTimeout \in Nat /\ Ttl > 0 /\ Cooldown > 0 /\ LoadTimeout > 0 /\ Cooldown <= Ttl
  /\ Versions \subseteq Nat \ {0} /\ Cardinality(Versions) \in Nat /\ Versions = 1..Cardinality(Versions)
<1>1. Cardinality(Versions) \in Nat
  BY MappingAssumption, FS_CardinalityType
<1> QED
  BY <1>1, MappingAssumption

LEMMA VersionsAreNat ==
  ASSUME mappings \in Versions
  PROVE  mappings \in Nat /\ 0 \in 0..mappings /\ mappings \in 0..mappings /\ 0 \in 0..LoadTimeout
<1>1. mappings \in Nat /\ LoadTimeout \in Nat
  BY MappingBounds
<1> QED
  BY <1>1

LEMMA SelectedIsList ==
  ASSUME NEW t \in Topic, NEW v \in 0..mappings, mappings \in Versions
  PROVE  Selected(v, t) \in Lists
<1>1. <<>> \in Lists
  BY DEF Lists
<1>2. v # 0 => v \in Versions
  BY MappingBounds
<1>3. ASSUME NEW w \in Versions PROVE MappingOf[w][t] \in Lists
  BY HistoryAssumption DEF Lists
<1> QED
  BY <1>1, <1>2, <1>3 DEF Selected

LEMMA MappingStarts == ASSUME MappingInit PROVE MappingFits
<1>0. <<>> \in Lists /\ Quiet.is = "none" /\ Quiet.found = <<>>
  BY DEF Lists, Quiet
<1>1. OutdatedLimit \in Nat /\ UnmappedLimit \in Nat /\ FailureLimit \in Nat /\ 0 \in 0..LoadTimeout
      /\ mappings \in Nat /\ 0 \in 0..mappings
  BY MappingBounds DEF OutdatedLimit, UnmappedLimit, FailureLimit, MappingInit
<1>2. MappingTypeOK
  BY <1>0, <1>1, MappingBounds DEF MappingInit, MappingTypeOK, NoLoad, Quiet
<1>3. \A t \in Topic : Unmapped(mappings, t) => unmappedFor[t] = 0
  BY <1>1, MappingBounds DEF MappingInit, Unmapped, Selected
<1>4. Ended(refreshedFor) /\ Ended(missedFor)
  BY MappingBounds DEF MappingInit, Ended
<1>5. \A x \in Reader : ~ReadOver(x)
  BY DEF MappingInit, ReadOver, Quiet
<1>6. load.seen = 0 /\ fetchedFor = Ttl
  BY DEF MappingInit, NoLoad
<1> QED
  BY <1>2, <1>3, <1>4, <1>5, <1>6, MappingBounds DEF MappingFits

\* What the list in use says of t is recent, unless a load failed a moment ago.
Recent(t) == failedFor >= Cooldown =>
               IF Unmapped(entries, t) THEN unmappedFor[t] <= Cooldown + LoadTimeout
               ELSE outdatedFor <= Ttl + LoadTimeout

LEMMA RecentWhen ==
  ASSUME MappingFits, NEW t \in Topic
  PROVE  /\ fetchedFor < Cooldown => Recent(t)
         /\ fetchedFor < Ttl /\ ~Unmapped(entries, t) => Recent(t)
         /\ ~load.on /\ refreshedFor < Cooldown => Recent(t)
         /\ ~load.on /\ missedFor < Cooldown => Recent(t)
         /\ \A x \in Reader : ReadOver(x) => Recent(t)
<1>0. /\ fetchedFor \in Nat /\ refreshedFor \in Nat /\ missedFor \in Nat /\ failedFor \in Nat /\ outdatedFor \in Nat
      /\ unmappedFor[t] \in Nat
      /\ Ttl \in Nat /\ Cooldown \in Nat /\ LoadTimeout \in Nat /\ Cooldown > 0 /\ Cooldown <= Ttl
  BY MappingBounds DEF MappingFits, MappingTypeOK
<1>1. fetchedFor < Ttl => /\ outdatedFor <= fetchedFor + LoadTimeout
                          /\ Unmapped(entries, t) => unmappedFor[t] <= fetchedFor + LoadTimeout
  BY DEF MappingFits
<1>2. fetchedFor < Cooldown => Recent(t)
  BY <1>0, <1>1 DEF Recent
<1>3. fetchedFor < Ttl /\ ~Unmapped(entries, t) => Recent(t)
  BY <1>0, <1>1 DEF Recent
<1>4. failedFor < Cooldown => Recent(t)
  BY <1>0 DEF Recent
<1>5. ASSUME NEW a \in Nat, Ended(a), ~load.on, a < Cooldown PROVE Recent(t)
  BY <1>0, <1>2, <1>4, <1>5 DEF Ended
<1>6. \A x \in Reader : ReadOver(x) => failedFor < Cooldown \/ fetchedFor < Cooldown
  BY <1>0 DEF MappingFits
<1> QED
  BY <1>0, <1>2, <1>3, <1>4, <1>5, <1>6 DEF MappingFits

\* A reader is told what the list says of t.
LEMMA ReaderTold ==
  ASSUME MappingFits, NEW x \in Reader, NEW t \in Topic, Recent(t),
         resolving' = [resolving EXCEPT ![x] = Found(t)],
         UNCHANGED <<mapped, entries, fetchedFor, refreshedFor, load>>,
         missedFor' \in {missedFor, refreshedFor}
  PROVE  /\ MappingFits' /\ RecentTables(x, t)
         /\ \A y \in Reader \ {x} : ~Resolves(y)
<1>0. MappingTypeOK /\ UNCHANGED <<mappings, outdatedFor, unmappedFor, failedFor>>
  BY DEF MappingFits, mapped
<1>1. Selected(entries, t) \in Lists
  BY <1>0, SelectedIsList DEF MappingTypeOK
<1>2. /\ resolving'[x].is = "found" /\ resolving'[x].found = Selected(entries, t)
      /\ \A y \in Reader : y # x => resolving'[y] = resolving[y]
  BY <1>0 DEF MappingTypeOK, Found
<1>3. MappingTypeOK'
  BY <1>0, <1>1 DEF MappingTypeOK, Found
<1>4. \A y \in Reader : ReadOver(y)' => ReadOver(y)
  BY <1>2 DEF ReadOver
<1>5. Ended(refreshedFor)' /\ Ended(missedFor)'
  BY <1>0 DEF MappingFits, Ended
<1>6. MappingFits'
  BY <1>0, <1>3, <1>4, <1>5 DEF MappingFits, Unmapped, Selected
<1>7. RecentTables(x, t)
  BY <1>2 DEF RecentTables, Recent, Unmapped
<1>8. \A y \in Reader \ {x} : ~Resolves(y)
  BY <1>2 DEF Resolves
<1> QED
  BY <1>6, <1>7, <1>8

\* A reader waits for a load that it joins or begins.
LEMMA ReaderWaits ==
  ASSUME MappingFits, NEW x \in Reader, NEW m \in BOOLEAN, NEW w \in {"ordinary", "miss"},
         Refresh(x, m, w), UNCHANGED mapped
  PROVE  MappingFits' /\ \A y \in Reader : ~Resolves(y)
<1>0. MappingTypeOK /\ UNCHANGED <<mappings, outdatedFor, unmappedFor, failedFor, entries, fetchedFor>>
  BY DEF MappingFits, mapped, Refresh
<1>1. <<>> \in Lists
  BY DEF Lists
<1>2. /\ resolving' = [resolving EXCEPT ![x] = [is |-> w, found |-> <<>>]]
      /\ resolving'[x].is = w /\ \A y \in Reader : y # x => resolving'[y] = resolving[y]
  BY <1>0 DEF MappingTypeOK, Refresh
<1>3. /\ resolving' \in [Reader -> [is : {"none", "ordinary", "miss", "ordinary, over", "miss, over", "found"},
                                    found : Lists]]
      /\ \A y \in Reader : (ReadOver(y)' => ReadOver(y)) /\ ~Resolves(y)
  BY <1>0, <1>1, <1>2 DEF MappingTypeOK, ReadOver, Resolves
<1>4. CASE load.on /\ UNCHANGED <<load, refreshedFor, missedFor>>
  <2>1. MappingTypeOK'
    BY <1>0, <1>3, <1>4 DEF MappingTypeOK
  <2> QED
    BY <2>1, <1>0, <1>3, <1>4 DEF MappingFits, Ended, Unmapped, Selected
<1>5. CASE ~load.on /\ load' = [NoLoad EXCEPT !.on = TRUE] /\ refreshedFor' = 0
           /\ missedFor' = IF m THEN 0 ELSE missedFor
  <2>1. 0 \in 0..LoadTimeout /\ 0 \in 0..mappings
    <3>1. mappings \in Versions
      BY <1>0 DEF MappingTypeOK
    <3> QED
      BY <3>1, VersionsAreNat
  <2>2. load' = [on |-> TRUE, age |-> 0, seen |-> 0]
    BY <1>5 DEF NoLoad
  <2>3. load' \in [on : BOOLEAN, age : 0..LoadTimeout, seen : 0..mappings] /\ load'.on /\ load'.seen = 0
    BY <2>1, <2>2
  <2>4. MappingTypeOK'
    BY <1>0, <1>3, <1>5, <2>3 DEF MappingTypeOK
  <2> QED
    BY <2>3, <2>4, <1>0, <1>3 DEF MappingFits, Ended, Unmapped, Selected
<1> QED
  BY <1>4, <1>5 DEF Refresh

LEMMA ReaderAsks ==
  ASSUME MappingFits, NEW x \in Reader, NEW t \in Topic, resolveHistory(x, t)
  PROVE  /\ MappingFits' /\ RecentTables(x, t)
         /\ \A y \in Reader \ {x} : ~Resolves(y)
<1>0. UNCHANGED mapped
  BY DEF resolveHistory
<1>1. CASE \E m \in BOOLEAN, w \in {"ordinary", "miss"} : Refresh(x, m, w)
  BY <1>0, <1>1, ReaderWaits DEF RecentTables
<1>2. CASE Cooling(FALSE) /\ Looks(x, t)
  <2>1. ~load.on /\ refreshedFor < Cooldown
    BY <1>2 DEF Cooling
  <2>2. Recent(t)
    BY <2>1, RecentWhen
  <2> QED
    BY <2>2, <1>0, <1>2, ReaderTold DEF Looks
<1>3. CASE ~Expired /\ ~Unmapped(entries, t) /\ resolving' = [resolving EXCEPT ![x] = Found(t)] /\ UNCHANGED refreshing
  <2>1. fetchedFor \in Nat /\ Ttl \in Nat
    BY MappingBounds DEF MappingFits, MappingTypeOK
  <2>2. fetchedFor < Ttl
    BY <2>1, <1>3 DEF Expired
  <2>3. Recent(t)
    BY <2>2, <1>3, RecentWhen
  <2> QED
    BY <2>3, <1>0, <1>3, ReaderTold DEF refreshing
<1>4. CASE Cooling(TRUE) /\ MissBelieved(x, t)
  <2>1. ~load.on /\ missedFor < Cooldown
    BY <1>4 DEF Cooling
  <2>2. Recent(t)
    BY <2>1, RecentWhen
  <2> QED
    BY <2>2, <1>0, <1>4, ReaderTold DEF MissBelieved, refreshing
<1> QED
  BY <1>1, <1>2, <1>3, <1>4 DEF resolveHistory, Unmapped

LEMMA ReaderResumes ==
  ASSUME MappingFits, NEW x \in Reader, NEW t \in Topic, ResolveResumes(x, t)
  PROVE  /\ MappingFits' /\ RecentTables(x, t)
         /\ \A y \in Reader \ {x} : ~Resolves(y)
<1>0. UNCHANGED mapped /\ ReadOver(x)
  BY DEF ResolveResumes, ReadOver
<1>1. Recent(t)
  BY <1>0, RecentWhen
<1>2. CASE Looks(x, t)
  BY <1>0, <1>1, <1>2, ReaderTold DEF Looks
<1>3. CASE MissBelieved(x, t)
  BY <1>0, <1>1, <1>3, ReaderTold DEF MissBelieved, refreshing
<1> QED
  BY <1>2, <1>3 DEF ResolveResumes

\* A reader goes on to its tables.
LEMMA ReaderDone ==
  ASSUME MappingFits, NEW x \in Reader, resolving' = [resolving EXCEPT ![x] = Quiet],
         UNCHANGED <<refreshing, mapped>>
  PROVE  MappingFits' /\ \A y \in Reader : ~Resolves(y)
<1>0. MappingTypeOK /\ UNCHANGED <<mappings, outdatedFor, unmappedFor, failedFor, entries, fetchedFor, refreshedFor, missedFor, load>>
  BY DEF MappingFits, mapped, refreshing
<1>1. Quiet \in [is : {"none", "ordinary", "miss", "ordinary, over", "miss, over", "found"}, found : Lists]
      /\ Quiet.is = "none"
  BY DEF Quiet, Lists
<1>2. /\ resolving'[x] = Quiet /\ \A y \in Reader : y # x => resolving'[y] = resolving[y]
  BY <1>0 DEF MappingTypeOK
<1>3. MappingTypeOK'
  BY <1>0, <1>1 DEF MappingTypeOK
<1>4. \A y \in Reader : (ReadOver(y)' => ReadOver(y)) /\ ~Resolves(y)
  BY <1>1, <1>2 DEF ReadOver, Resolves
<1> QED
  BY <1>0, <1>3, <1>4 DEF MappingFits, Ended, Unmapped, Selected

LEMMA LoadSees ==
  ASSUME MappingFits, LoadReads
  PROVE  MappingFits' /\ \A y \in Reader : ~Resolves(y)
<1>0. /\ MappingTypeOK /\ load' = [load EXCEPT !.seen = mappings] /\ load.on
      /\ UNCHANGED <<mappings, outdatedFor, unmappedFor, failedFor, entries, fetchedFor, refreshedFor, missedFor, resolving>>
  BY DEF MappingFits, mapped, LoadReads
<1>1. mappings \in Versions
  BY <1>0 DEF MappingTypeOK
<1>1a. mappings \in Nat /\ mappings \in 0..mappings /\ LoadTimeout \in Nat
  BY <1>1, VersionsAreNat, MappingBounds
<1>1b. load \in [on : BOOLEAN, age : 0..LoadTimeout, seen : 0..mappings]
  BY <1>0 DEF MappingTypeOK
<1>2. /\ load' \in [on : BOOLEAN, age : 0..LoadTimeout, seen : 0..mappings]
      /\ load'.on /\ load'.seen = mappings /\ load'.age \in Nat
  BY <1>0, <1>1a, <1>1b
<1>3. MappingTypeOK'
  BY <1>0, <1>2 DEF MappingTypeOK
<1>4. \A t \in Topic : Unmapped(mappings, t) => unmappedFor[t] <= load'.age
  BY <1>2 DEF MappingFits
<1> QED
  BY <1>0, <1>2, <1>3, <1>4 DEF MappingFits, Ended, ReadOver, Resolves, Unmapped, Selected

\* Those that wait go on.
LEMMA Resumes ==
  ASSUME MappingTypeOK, resolving' = Resumed
  PROVE  /\ resolving' \in [Reader -> [is : {"none", "ordinary", "miss", "ordinary, over", "miss, over", "found"},
                                       found : Lists]]
         /\ \A y \in Reader : ~Resolves(y)
<1>1. ASSUME NEW y \in Reader
      PROVE  /\ resolving'[y] \in [is : {"none", "ordinary", "miss", "ordinary, over", "miss, over", "found"},
                                   found : Lists]
             /\ resolving'[y].is = "found" => resolving[y].is = "found"
  <2>1. resolving[y] \in [is : {"none", "ordinary", "miss", "ordinary, over", "miss, over", "found"}, found : Lists]
    BY DEF MappingTypeOK
  <2>2. CASE resolving[y].is = "ordinary"
    BY <2>1, <2>2 DEF Resumed
  <2>3. CASE resolving[y].is = "miss"
    BY <2>1, <2>3 DEF Resumed
  <2>4. CASE resolving[y].is \notin {"ordinary", "miss"}
    BY <2>1, <2>4 DEF Resumed
  <2> QED
    BY <2>2, <2>3, <2>4
<1>2. resolving' = [y \in Reader |-> resolving'[y]]
  BY DEF Resumed
<1> QED
  BY <1>1, <1>2 DEF Resolves

LEMMA LoadEnds ==
  ASSUME MappingFits, LoadArrives \/ LoadFails
  PROVE  MappingFits' /\ \A y \in Reader : ~Resolves(y)
<1>0. /\ MappingTypeOK /\ load' = NoLoad /\ resolving' = Resumed
      /\ UNCHANGED <<mappings, unmappedFor, refreshedFor>>
  BY DEF MappingFits, LoadArrives, LoadFails
<1>1. /\ load.age \in 0..LoadTimeout /\ load.seen \in 0..mappings /\ load.age \in Nat /\ LoadTimeout \in Nat
      /\ Cooldown \in Nat /\ Ttl \in Nat /\ Ttl > 0 /\ mappings \in Nat
  <2>1. mappings \in Versions /\ load.age \in 0..LoadTimeout /\ load.seen \in 0..mappings
    BY <1>0 DEF MappingTypeOK
  <2> QED
    BY <2>1, VersionsAreNat, MappingBounds
<1>2. /\ load' \in [on : BOOLEAN, age : 0..LoadTimeout, seen : 0..mappings] /\ ~load'.on /\ load'.seen = 0
  <2>1. 0 \in 0..LoadTimeout /\ 0 \in 0..mappings
    BY <1>1
  <2> QED
    BY <2>1, <1>0 DEF NoLoad
<1>3. CASE LoadArrives
  <2>1. /\ entries' = load.seen /\ fetchedFor' = 0 /\ load.seen # 0
        /\ UNCHANGED <<missedFor, failedFor>>
        /\ outdatedFor' = IF load.seen = mappings THEN 0 ELSE load.age
    BY <1>3 DEF LoadArrives
  <2>2. MappingTypeOK'
    BY <1>0, <1>1, <1>2, <2>1, Resumes DEF MappingTypeOK
  <2>3. \A t \in Topic : Unmapped(load.seen, t) => unmappedFor[t] <= 0 + LoadTimeout
    <3> SUFFICES ASSUME NEW t \in Topic, Unmapped(load.seen, t) PROVE unmappedFor[t] <= 0 + LoadTimeout
      OBVIOUS
    <3>1. unmappedFor[t] <= load.age /\ unmappedFor[t] \in Nat
      BY <2>1, <1>0 DEF MappingFits, MappingTypeOK
    <3> QED
      BY <3>1, <1>1
  <2>4. outdatedFor' <= 0 + LoadTimeout
    BY <2>1, <1>1
  <2>5. Ended(refreshedFor)' /\ Ended(missedFor)'
    <3>1. refreshedFor' \in Nat /\ missedFor' \in Nat
      BY <2>2 DEF MappingTypeOK
    <3> QED
      BY <3>1, <2>1 DEF Ended
  <2> QED
    BY <1>0, <1>2, <2>1, <2>2, <2>3, <2>4, <2>5, Resumes DEF MappingFits, ReadOver, Unmapped, Selected
<1>4. CASE LoadFails
  <2>1. /\ missedFor' = refreshedFor /\ failedFor' = 0
        /\ UNCHANGED <<entries, fetchedFor, outdatedFor>>
    BY <1>4 DEF LoadFails
  <2>2. MappingTypeOK'
    BY <1>0, <1>1, <1>2, <2>1, Resumes DEF MappingTypeOK
  <2>3. Ended(refreshedFor)' /\ Ended(missedFor)'
    <3>1. refreshedFor' \in Nat /\ missedFor' \in Nat
      BY <2>2 DEF MappingTypeOK
    <3> QED
      BY <3>1, <2>1 DEF Ended
  <2> QED
    BY <1>0, <1>2, <2>1, <2>2, <2>3, Resumes DEF MappingFits, ReadOver, Unmapped, Selected
<1> QED
  BY <1>3, <1>4

LEMMA Remaps ==
  ASSUME MappingFits, Remap
  PROVE  MappingFits' /\ \A y \in Reader : ~Resolves(y)
<1>0. /\ MappingTypeOK /\ mappings' = mappings + 1 /\ mappings < Cardinality(Versions)
      /\ UNCHANGED <<entries, fetchedFor, refreshedFor, missedFor, load, resolving, failedFor>>
      /\ outdatedFor' = IF entries = mappings THEN 0 ELSE outdatedFor
      /\ unmappedFor' = [t \in Topic |-> IF <<>> \in {MappingOf[mappings][t], MappingOf[mappings + 1][t]}
                                         THEN 0 ELSE unmappedFor[t]]
  BY DEF MappingFits, Remap, refreshing
<1>1. mappings \in Versions /\ entries \in 0..mappings /\ unmappedFor \in [Topic -> Nat]
      /\ load \in [on : BOOLEAN, age : 0..LoadTimeout, seen : 0..mappings]
      /\ outdatedFor \in Nat /\ fetchedFor \in Nat
  BY <1>0 DEF MappingTypeOK
<1>2. mappings \in Nat /\ Cardinality(Versions) \in Nat /\ Versions = 1..Cardinality(Versions)
      /\ LoadTimeout \in Nat
  BY <1>1, VersionsAreNat, MappingBounds
<1>3. mappings' \in Versions /\ entries' \in 0..mappings'
  BY <1>0, <1>1, <1>2
<1>4. load' \in [on : BOOLEAN, age : 0..LoadTimeout, seen : 0..mappings']
  <2>1. 0..mappings \subseteq 0..mappings'
    BY <1>0, <1>2
  <2> QED
    BY <2>1, <1>0, <1>1
<1>5. unmappedFor' \in [Topic -> Nat] /\ outdatedFor' \in Nat
  BY <1>0, <1>1
<1>6. MappingTypeOK'
  BY <1>0, <1>3, <1>4, <1>5 DEF MappingTypeOK
<1>7. \A t \in Topic : unmappedFor[t] \in Nat /\ (unmappedFor'[t] = 0 \/ unmappedFor'[t] = unmappedFor[t])
  BY <1>0, <1>1
<1>8. \A t \in Topic : Unmapped(mappings', t) => unmappedFor'[t] = 0
  BY <1>0, <1>2 DEF Unmapped, Selected
<1>9. outdatedFor' = 0 \/ outdatedFor' = outdatedFor
  BY <1>0
<1>10. fetchedFor' < Ttl =>
         /\ outdatedFor' <= fetchedFor' + LoadTimeout
         /\ \A t \in Topic : Unmapped(entries', t) => unmappedFor'[t] <= fetchedFor' + LoadTimeout
  <2>1. SUFFICES ASSUME fetchedFor < Ttl
                 PROVE  /\ outdatedFor' <= fetchedFor + LoadTimeout
                        /\ \A t \in Topic : Unmapped(entries, t) => unmappedFor'[t] <= fetchedFor + LoadTimeout
    BY <1>0
  <2>2. /\ outdatedFor <= fetchedFor + LoadTimeout
        /\ \A t \in Topic : Unmapped(entries, t) => unmappedFor[t] <= fetchedFor + LoadTimeout
    BY <2>1 DEF MappingFits
  <2>3. 0 <= fetchedFor + LoadTimeout
    BY <1>1, <1>2
  <2> QED
    BY <2>2, <2>3, <1>7, <1>9
<1>11. load'.seen # 0 => \A t \in Topic : Unmapped(load'.seen, t) => unmappedFor'[t] <= load'.age
  <2>1. SUFFICES ASSUME load.seen # 0, NEW t \in Topic, Unmapped(load.seen, t) PROVE unmappedFor'[t] <= load.age
    BY <1>0
  <2>2. unmappedFor[t] <= load.age /\ load.age \in Nat
    BY <2>1, <1>1, <1>2 DEF MappingFits
  <2> QED
    BY <2>2, <1>7
<1>12. Ended(refreshedFor)' /\ Ended(missedFor)' /\ \A y \in Reader : ReadOver(y)' = ReadOver(y) /\ ~Resolves(y)
  BY <1>0 DEF MappingFits, Ended, ReadOver, Resolves
<1> QED
  BY <1>0, <1>6, <1>8, <1>10, <1>11, <1>12 DEF MappingFits, Unmapped, Selected

LEMMA MappingsAge ==
  ASSUME MappingFits, MappingTick
  PROVE  MappingFits' /\ \A y \in Reader : ~Resolves(y)
<1>0. /\ MappingTypeOK /\ load.age < LoadTimeout /\ UNCHANGED <<mappings, entries, resolving>>
      /\ \A y \in Reader : ~ReadOver(y)
      /\ fetchedFor' = Older(fetchedFor, Ttl) /\ refreshedFor' = Older(refreshedFor, Cooldown)
      /\ missedFor' = Older(missedFor, Cooldown) /\ failedFor' = Older(failedFor, FailureLimit)
      /\ load' = IF load.on THEN [load EXCEPT !.age = @ + 1] ELSE load
      /\ outdatedFor' = IF entries = mappings THEN 0 ELSE Older(outdatedFor, OutdatedLimit)
      /\ unmappedFor' = [t \in Topic |-> IF MappingOf[mappings][t] = <<>> THEN 0
                                         ELSE Older(unmappedFor[t], UnmappedLimit)]
  BY DEF MappingFits, MappingTick, ReadOver
<1>1. /\ mappings \in Versions /\ entries \in 0..mappings /\ unmappedFor \in [Topic -> Nat]
      /\ load \in [on : BOOLEAN, age : 0..LoadTimeout, seen : 0..mappings]
      /\ outdatedFor \in Nat /\ fetchedFor \in Nat /\ refreshedFor \in Nat /\ missedFor \in Nat /\ failedFor \in Nat
  BY <1>0 DEF MappingTypeOK
<1>2. /\ mappings \in Nat /\ LoadTimeout \in Nat /\ Ttl \in Nat /\ Cooldown \in Nat /\ FailureLimit \in Nat
      /\ OutdatedLimit \in Nat /\ UnmappedLimit \in Nat
  BY <1>1, VersionsAreNat, MappingBounds DEF OutdatedLimit, UnmappedLimit, FailureLimit
<1>3. /\ fetchedFor' \in Nat /\ (fetchedFor' < Ttl => fetchedFor < Ttl /\ fetchedFor' = fetchedFor + 1)
      /\ fetchedFor >= Ttl => fetchedFor' >= Ttl
      /\ fetchedFor' <= fetchedFor + 1
  BY <1>0, <1>1, <1>2, SMTT(20) DEF Older
<1>4. /\ refreshedFor' \in Nat
      /\ refreshedFor' < Cooldown => refreshedFor < Cooldown /\ refreshedFor' = refreshedFor + 1
  BY <1>0, <1>1, <1>2, SMTT(20) DEF Older
<1>5. /\ missedFor' \in Nat
      /\ missedFor' < Cooldown => missedFor < Cooldown /\ missedFor' = missedFor + 1
  BY <1>0, <1>1, <1>2, SMTT(20) DEF Older
<1>6. failedFor' \in Nat /\ failedFor' <= failedFor + 1
  BY <1>0, <1>1, <1>2, SMTT(20) DEF Older
<1>7. outdatedFor' \in Nat /\ outdatedFor' <= outdatedFor + 1
  BY <1>0, <1>1, <1>2 DEF Older
<1>8. /\ unmappedFor' \in [Topic -> Nat]
      /\ \A t \in Topic : /\ unmappedFor[t] \in Nat /\ unmappedFor'[t] \in Nat
                          /\ unmappedFor'[t] <= unmappedFor[t] + 1
                          /\ Unmapped(mappings, t) => unmappedFor'[t] = 0
  <2>1. ASSUME NEW t \in Topic
        PROVE  /\ unmappedFor[t] \in Nat /\ unmappedFor'[t] \in Nat /\ unmappedFor'[t] <= unmappedFor[t] + 1
               /\ Unmapped(mappings, t) => unmappedFor'[t] = 0
    <3>1. unmappedFor'[t] = IF MappingOf[mappings][t] = <<>> THEN 0 ELSE Older(unmappedFor[t], UnmappedLimit)
      BY <1>0
    <3>2. unmappedFor[t] \in Nat
      BY <1>1
    <3>3. Older(unmappedFor[t], UnmappedLimit) \in Nat /\ Older(unmappedFor[t], UnmappedLimit) <= unmappedFor[t] + 1
      BY <3>2, <1>2 DEF Older
    <3>4. mappings # 0
      BY <1>1, MappingBounds
    <3> QED
      BY <3>1, <3>2, <3>3, <3>4 DEF Unmapped, Selected
  <2> QED
    BY <2>1, <1>0
<1>9. /\ load' \in [on : BOOLEAN, age : 0..LoadTimeout, seen : 0..mappings]
      /\ load'.on = load.on /\ load'.seen = load.seen
      /\ load.on => load'.age = load.age + 1
  <2>1. load.age + 1 \in 0..LoadTimeout
    BY <1>0, <1>1, <1>2
  <2>2. CASE load.on
    <3>1. load' = [load EXCEPT !.age = load.age + 1]
      BY <1>0, <2>2
    <3> QED
      BY <3>1, <2>1, <1>1
  <2>3. CASE ~load.on
    BY <2>3, <1>0, <1>1
  <2> QED
    BY <2>2, <2>3
<1>10. MappingTypeOK'
  BY <1>0, <1>1, <1>3, <1>4, <1>5, <1>6, <1>7, <1>8, <1>9 DEF MappingTypeOK
<1>11. Ended(refreshedFor)'
  <2>1. Ended(refreshedFor)
    BY DEF MappingFits
  <2> QED
    BY <2>1, <1>1, <1>3, <1>4, <1>6, <1>9 DEF Ended
<1>12. Ended(missedFor)'
  <2>1. Ended(missedFor)
    BY DEF MappingFits
  <2> QED
    BY <2>1, <1>1, <1>3, <1>5, <1>6, <1>9 DEF Ended
<1>13. ASSUME fetchedFor' < Ttl
       PROVE  /\ outdatedFor' <= fetchedFor' + LoadTimeout
              /\ \A t \in Topic : Unmapped(entries, t) => unmappedFor'[t] <= fetchedFor' + LoadTimeout
  <2>1. /\ outdatedFor <= fetchedFor + LoadTimeout /\ fetchedFor' = fetchedFor + 1
        /\ \A t \in Topic : Unmapped(entries, t) => unmappedFor[t] <= fetchedFor + LoadTimeout
    BY <1>3, <1>13 DEF MappingFits
  <2>2. outdatedFor' <= fetchedFor' + LoadTimeout
    BY <2>1, <1>1, <1>2, <1>7
  <2>3. ASSUME NEW t \in Topic, Unmapped(entries, t) PROVE unmappedFor'[t] <= fetchedFor' + LoadTimeout
    <3>1. unmappedFor[t] <= fetchedFor + LoadTimeout /\ unmappedFor[t] \in Nat /\ unmappedFor'[t] \in Nat
          /\ unmappedFor'[t] <= unmappedFor[t] + 1
      BY <2>1, <2>3, <1>8
    <3> QED
      BY <3>1, <2>1, <1>1, <1>2
  <2> QED
    BY <2>2, <2>3
<1>14. ASSUME load'.seen # 0, NEW t \in Topic, Unmapped(load.seen, t) PROVE unmappedFor'[t] <= load'.age
  <2>1. load.seen # 0 /\ load.on
    BY <1>9, <1>14 DEF MappingFits
  <2>2. unmappedFor[t] <= load.age /\ load'.age = load.age + 1 /\ load.age \in Nat
    BY <2>1, <1>1, <1>9, <1>14 DEF MappingFits
  <2>3. unmappedFor[t] \in Nat /\ unmappedFor'[t] \in Nat /\ unmappedFor'[t] <= unmappedFor[t] + 1
    BY <1>8
  <2> QED
    BY <2>2, <2>3
<1>15. \A y \in Reader : ~ReadOver(y)' /\ ~Resolves(y)
  BY <1>0 DEF ReadOver, Resolves
<1>16. entries = 0 => fetchedFor' >= Ttl
  BY <1>3 DEF MappingFits
<1>17. ~load'.on => load'.seen = 0
  BY <1>9 DEF MappingFits
<1>18. \A t \in Topic : Unmapped(mappings, t) => unmappedFor'[t] = 0
  BY <1>8
<1>19. UNCHANGED <<mappings, entries>>
  BY <1>0
<1> QED
  BY <1>9, <1>10, <1>11, <1>12, <1>13, <1>14, <1>15, <1>16, <1>17, <1>18, <1>19 DEF MappingFits, Unmapped, Selected

-----------------------------------------------------------------------------
(* The reads.                                                              *)

ReadType == [stage : {"none", "waiting", "resolving", "schema", "query", "ok", "failed"},
             topic : Topic \cup {"none"}, mapped : Lists, partial : BOOLEAN,
             tables : Seq(Table), missing : SUBSET Table, known : Nat]

Sources(l)        == {m.table : m \in Range(l)}
RetiredSources(l) == {m.table : m \in {n \in Range(l) : n.retired}}

\* A read has nothing before its tables are resolved; then it has every table of its
\* list except retired ones that were found missing.
ReadFits(i, present) ==
  /\ i \in ReadType
  /\ i.known <= Len(i.tables) /\ (i.stage = "schema" => i.known < Len(i.tables))
  /\ i.stage \in {"waiting", "resolving"} => i.topic \in Topic
  /\ i.stage \in {"none", "waiting", "resolving"} => i.tables = <<>> /\ i.missing = {} /\ i.known = 0
  /\ i.stage \in {"schema", "query", "ok"} =>
       /\ Distinct(i.tables) /\ Range(i.tables) \cup i.missing = Sources(i.mapped)
       /\ i.missing \subseteq RetiredSources(i.mapped) \ present

ReadsFit == item \in [Reader -> ReadType] /\ \A x \in Reader : ReadFits(item[x], existing)

LEMMA NoReadFits == ReadFits(NoRead, existing)
<1>1. <<>> \in Lists /\ <<>> \in Seq(Table) /\ Len(<<>>) = 0
  BY DEF Lists
<1>2. NoRead \in ReadType
  BY <1>1 DEF NoRead, ReadType
<1> QED
  BY <1>1, <1>2 DEF NoRead, ReadFits

LEMMA SourcesStart == ASSUME SourcesInit PROVE ReadsFit
<1>1. NoRead \in ReadType
  BY NoReadFits DEF ReadFits
<1> QED
  BY <1>1, NoReadFits DEF SourcesInit, ReadsFit

\* One read changes.
LEMMA ReadChanges ==
  ASSUME ReadsFit, NEW x \in Reader, NEW i, item' = [item EXCEPT ![x] = i],
         UNCHANGED existing, ReadFits(i, existing)
  PROVE  ReadsFit' /\ item'[x] = i /\ \A y \in Reader \ {x} : item'[y] = item[y]
<1>1. i \in ReadType /\ item \in [Reader -> ReadType]
  BY DEF ReadFits, ReadsFit
<1>2. item'[x] = i /\ \A y \in Reader \ {x} : item'[y] = item[y]
  BY <1>1
<1>3. \A y \in Reader : ReadFits(item'[y], existing')
  BY <1>2 DEF ReadsFit
<1> QED
  BY <1>1, <1>2, <1>3 DEF ReadsFit

LEMMA ReadEnds ==
  ASSUME ReadsFit, NEW x \in Reader, NEW s \in {"ok", "failed"}, Ends(x, s), UNCHANGED existing,
         s = "ok" => item[x].stage = "query"
  PROVE  ReadsFit'
<1>1. item[x] \in ReadType /\ ReadFits(item[x], existing)
  BY DEF ReadsFit
<1> DEFINE i == [item[x] EXCEPT !.stage = s]
<1>2. /\ i \in ReadType /\ i.stage = s /\ i.topic = item[x].topic /\ i.mapped = item[x].mapped
      /\ i.tables = item[x].tables /\ i.missing = item[x].missing /\ i.known = item[x].known
  BY <1>1 DEF ReadType
<1>3. item' = [item EXCEPT ![x] = i]
  BY DEF Ends
<1> HIDE DEF i
<1>4. ReadFits(i, existing)
  BY <1>1, <1>2 DEF ReadFits
<1> QED
  BY <1>3, <1>4, ReadChanges

\* A read begins with its list.
LEMMA ReadStarts ==
  ASSUME ReadsFit, NEW x \in Reader, item[x].stage = "resolving", NEW l \in Lists, NEW p \in BOOLEAN,
         ReadBegins(x, l, p)
  PROVE  ReadsFit'
<1>0. UNCHANGED existing
  BY DEF ReadBegins
<1>1. item[x] \in ReadType /\ ReadFits(item[x], existing)
  BY DEF ReadsFit
<1>2. CASE l = <<>>
  BY <1>0, <1>2, ReadEnds DEF ReadBegins
<1>3. CASE l # <<>>
  <2> DEFINE names == [k \in DOMAIN l |-> l[k].table]
             i == [item[x] EXCEPT !.stage = "schema", !.mapped = l, !.partial = p, !.tables = names]
  <2>1. /\ l \in Seq([table : Table, retired : BOOLEAN]) /\ DOMAIN l = 1..Len(l) /\ Len(l) \in Nat /\ Len(l) > 0
        /\ \A j, k \in DOMAIN l : l[j].table = l[k].table => j = k
    BY <1>3 DEF Lists
  <2>2. names \in [1..Len(l) -> Table]
    <3> DEFINE S == [table : Table, retired : BOOLEAN]
    <3>0. l \in Seq(S)
      BY <2>1
    <3>1. \A k \in DOMAIN l : l[k] \in S
      <4> HIDE DEF S
      <4> QED
        BY <3>0
    <3>2. \A k \in DOMAIN l : l[k].table \in Table
      BY <3>1
    <3> QED
      BY <3>2, <2>1
  <2>3. names \in Seq(Table) /\ Len(names) = Len(l) /\ DOMAIN names = 1..Len(l)
    BY <2>1, <2>2
  <2>4. Distinct(names)
    BY <2>1, <2>3 DEF Distinct
  <2>5. Range(names) = Sources(l)
    BY <2>1 DEF Range, Sources
  <2> HIDE DEF names
  <2>6. /\ i \in ReadType /\ i.stage = "schema" /\ i.topic = item[x].topic /\ i.mapped = l
        /\ i.tables = names /\ i.missing = item[x].missing /\ i.known = item[x].known
    BY <1>1, <2>3 DEF ReadType
  <2>7. item' = [item EXCEPT ![x] = i]
    BY <1>3 DEF ReadBegins, names
  <2> HIDE DEF i
  <2>8. i.missing = {} /\ i.known = 0
    BY <1>1, <2>6 DEF ReadFits
  <2>9. ReadFits(i, existing)
    BY <2>1, <2>3, <2>4, <2>5, <2>6, <2>8 DEF ReadFits
  <2> QED
    BY <1>0, <2>7, <2>9, ReadChanges
<1> QED
  BY <1>2, <1>3

\* A table that does not exist is left out, or fails the read.
LEMMA TableMissed ==
  ASSUME ReadsFit, NEW x \in Reader, item[x].stage \in {"schema", "query"},
         NEW t \in Range(item[x].tables) \ existing, Misses(x, t), UNCHANGED existing
  PROVE  ReadsFit'
<1>1. item[x] \in ReadType /\ ReadFits(item[x], existing)
  BY DEF ReadsFit
<1>2. CASE ~LeftOut(x, t)
  BY <1>2, ReadEnds DEF Misses
<1>3. CASE LeftOut(x, t)
  <2> DEFINE kept == Filter(item[x].tables, Range(item[x].tables) \ {t})
             i == [item[x] EXCEPT !.stage = "schema", !.known = 0,
                                  !.missing = item[x].missing \cup {t}, !.tables = kept]
  <2>1. item[x].tables \in Seq(Table) /\ item[x].missing \subseteq Table /\ item[x].mapped \in Lists
        /\ Len(item[x].tables) > 1 /\ Len(item[x].tables) \in Nat
    BY <1>1, <1>3 DEF ReadType, LeftOut
  <2>2. /\ Distinct(item[x].tables)
        /\ Range(item[x].tables) \cup item[x].missing = Sources(item[x].mapped)
        /\ item[x].missing \subseteq RetiredSources(item[x].mapped) \ existing
    BY <1>1 DEF ReadFits
  <2>3. /\ kept \in Seq(Table) /\ Distinct(kept)
        /\ Range(kept) = Range(item[x].tables) \cap (Range(item[x].tables) \ {t})
    BY <2>1, <2>2, FilterRange
  <2>4. Range(kept) = Range(item[x].tables) \ {t}
    BY <2>3
  <2>5. t \in Table
    BY <2>1 DEF Range
  <2>6. Len(kept) > 0 /\ Len(kept) \in Nat
    <3>1. 1 \in 1..Len(item[x].tables) /\ 2 \in 1..Len(item[x].tables) /\ DOMAIN item[x].tables = 1..Len(item[x].tables)
      BY <2>1
    <3>2. item[x].tables[1] # item[x].tables[2]
      BY <3>1, <2>2 DEF Distinct
    <3>3. Range(kept) # {}
      BY <3>1, <3>2, <2>4 DEF Range
    <3>4. DOMAIN kept = 1..Len(kept) /\ Len(kept) \in Nat
      BY <2>3
    <3> QED
      BY <3>3, <3>4 DEF Range
  <2>7. item' = [item EXCEPT ![x] = i]
    BY <1>3 DEF Misses
  <2>8. t \in RetiredSources(item[x].mapped)
    BY <1>3 DEF LeftOut, Retired, RetiredSources
  <2> HIDE DEF kept
  <2>9. /\ i \in ReadType /\ i.stage = "schema" /\ i.topic = item[x].topic /\ i.mapped = item[x].mapped
        /\ i.tables = kept /\ i.missing = item[x].missing \cup {t} /\ i.known = 0
    BY <1>1, <2>1, <2>3, <2>5 DEF ReadType
  <2> HIDE DEF i
  <2>10. ReadFits(i, existing)
    BY <2>2, <2>3, <2>4, <2>6, <2>8, <2>9 DEF ReadFits
  <2> QED
    BY <2>7, <2>10, ReadChanges
<1> QED
  BY <1>2, <1>3

LEMMA ReadProceeds ==
  ASSUME ReadsFit, NEW x \in Reader, SchemaRead(x) \/ Queried(x)
  PROVE  ReadsFit'
<1>0. item[x] \in ReadType /\ ReadFits(item[x], existing) /\ UNCHANGED existing
  BY DEF ReadsFit, SchemaRead, Queried
<1>1. CASE SchemaRead(x)
  <2> DEFINE t == item[x].tables[item[x].known + 1]
             next == IF item[x].known + 1 = Len(item[x].tables) THEN "query" ELSE "schema"
             i == [item[x] EXCEPT !.known = item[x].known + 1, !.stage = next]
  <2>1. /\ item[x].stage = "schema" /\ item[x].known \in Nat /\ Len(item[x].tables) \in Nat
        /\ DOMAIN item[x].tables = 1..Len(item[x].tables) /\ item[x].known < Len(item[x].tables)
    BY <1>0, <1>1 DEF SchemaRead, ReadFits, ReadType
  <2>2. t \in Range(item[x].tables)
    <3>1. item[x].known + 1 \in 1..Len(item[x].tables)
      BY <2>1
    <3> QED
      BY <3>1, <2>1 DEF Range
  <2> HIDE DEF t
  <2>3. CASE item' = [item EXCEPT ![x] = i]
    <3>2. /\ next \in {"query", "schema"} /\ item[x].known + 1 <= Len(item[x].tables)
          /\ next = "schema" => item[x].known + 1 < Len(item[x].tables)
          /\ item[x].known + 1 \in Nat
      BY <2>1
    <3> HIDE DEF next
    <3>1. /\ i \in ReadType /\ i.stage = next /\ i.topic = item[x].topic /\ i.mapped = item[x].mapped
          /\ i.tables = item[x].tables /\ i.missing = item[x].missing /\ i.known = item[x].known + 1
      BY <1>0, <3>2 DEF ReadType
    <3> HIDE DEF i, next
    <3>3. ReadFits(i, existing)
      BY <1>0, <2>1, <3>1, <3>2 DEF ReadFits
    <3> QED
      BY <1>0, <2>3, <3>3, ReadChanges
  <2>4. CASE t \notin existing /\ Misses(x, t)
    BY <1>0, <2>1, <2>2, <2>4, TableMissed
  <2>5. CASE Ends(x, "failed")
    BY <1>0, <2>5, ReadEnds
  <2> QED
    BY <1>1, <2>3, <2>4, <2>5 DEF SchemaRead, t
<1>2. CASE Queried(x)
  <2>1. item[x].stage = "query"
    BY <1>2 DEF Queried
  <2>2. CASE Ends(x, "ok") \/ Ends(x, "failed")
    BY <1>0, <2>1, <2>2, ReadEnds
  <2>3. CASE \E t \in Range(item[x].tables) \ existing : Misses(x, t)
    BY <1>0, <2>1, <2>3, TableMissed
  <2> QED
    BY <1>2, <2>2, <2>3 DEF Queried
<1> QED
  BY <1>1, <1>2

\* A table goes, from the database or from the cache of columns.
LEMMA TableGoes ==
  ASSUME ReadsFit, NEW t \in Table, Drop(t) \/ SchemaExpires(t)
  PROVE  ReadsFit'
<1>1. existing' \subseteq existing /\ UNCHANGED item
  BY DEF Drop, SchemaExpires
<1> QED
  BY <1>1 DEF ReadsFit, ReadFits

\* A request begins its reads, or forgets them.
LEMMA ReadsBegin ==
  ASSUME ReadsFit, NEW r \in Request, NEW topics \in Seq(Topic), item' = Reads(r, topics), UNCHANGED existing
  PROVE  ReadsFit'
<1>1. \A x \in Reader : item'[x] = IF x[1] # r THEN item[x]
                                   ELSE IF x[2] \in DOMAIN topics
                                        THEN [NoRead EXCEPT !.stage = "waiting", !.topic = topics[x[2]]]
                                        ELSE NoRead
  BY DEF Reads
<1>2. ASSUME NEW t \in Topic PROVE ReadFits([NoRead EXCEPT !.stage = "waiting", !.topic = t], existing)
  <2> DEFINE i == [NoRead EXCEPT !.stage = "waiting", !.topic = t]
  <2>1. NoRead \in ReadType
    BY NoReadFits DEF ReadFits
  <2>2. /\ i \in ReadType /\ i.stage = "waiting" /\ i.topic = t /\ i.tables = <<>> /\ i.missing = {} /\ i.known = 0
    BY <2>1 DEF NoRead, ReadType
  <2> HIDE DEF i
  <2>3. i.known <= Len(i.tables)
    BY <2>2
  <2>4. i.stage \notin {"schema", "query", "ok"}
    BY <2>2
  <2>5. i.stage # "schema"
    BY <2>2
  <2>6. ReadFits(i, existing)
    BY <2>2, <2>3, <2>4, <2>5 DEF ReadFits
  <2> QED
    BY <2>6 DEF i
<1>3. \A k \in DOMAIN topics : topics[k] \in Topic
  OBVIOUS
<1>4. \A x \in Reader : ReadFits(item'[x], existing)
  BY <1>1, <1>2, <1>3, NoReadFits DEF ReadsFit
<1>5. item' = [x \in Reader |-> item'[x]]
  BY DEF Reads
<1>6. \A x \in Reader : item'[x] \in ReadType
  BY <1>4 DEF ReadFits
<1> QED
  BY <1>4, <1>5, <1>6 DEF ReadsFit

\* The next read asks for its tables.
LEMMA ReadResolves ==
  ASSUME ReadsFit, NEW x \in Reader, item[x].stage = "waiting", UNCHANGED existing,
         item' = [item EXCEPT ![x].stage = "resolving"]
  PROVE  ReadsFit'
<1>1. item[x] \in ReadType /\ ReadFits(item[x], existing)
  BY DEF ReadsFit
<1> DEFINE i == [item[x] EXCEPT !.stage = "resolving"]
<1>2. /\ i \in ReadType /\ i.stage = "resolving" /\ i.topic = item[x].topic /\ i.mapped = item[x].mapped
      /\ i.tables = item[x].tables /\ i.missing = item[x].missing /\ i.known = item[x].known
  BY <1>1 DEF ReadType
<1>3. item' = [item EXCEPT ![x] = i]
  OBVIOUS
<1> HIDE DEF i
<1>4. ReadFits(i, existing)
  BY <1>1, <1>2 DEF ReadFits
<1> QED
  BY <1>3, <1>4, ReadChanges

-----------------------------------------------------------------------------
(* The values of entities.                                                 *)

Binding == [topic : Signal, revision : Nat, from : Nat, to : Nat]
Value   == [topic : Signal \cup {"none"}, revision : Nat, at : Int]

ValueBound(e, bound) == e # NoValue => \E b \in bound : SameBinding(b, e) /\ Within(b, e.at)
ValuesBound(values, bound) ==
  /\ values \in [Selector -> Value]
  /\ \A s \in Selector : ValueBound(values[s], bound[s])

ValuesFit ==
  /\ latest \in [Signal -> Int] /\ bindingsBySelector \in [Selector -> SUBSET Binding]
  /\ selectorsByTopic \in [Signal -> SUBSET Selector]
  /\ ValuesBound(entityValues, bindingsBySelector)
  /\ \A t \in Signal, s \in Selector :
       s \in selectorsByTopic[t] <=> \E b \in bindingsBySelector[s] : b.topic = t

LEMMA NoValueIs == NoValue \in Value
BY DEF NoValue, Value, None

LEMMA ValuesStart == ASSUME ValuesInit PROVE ValuesFit
<1>1. ValuesBound(entityValues, bindingsBySelector)
  BY NoValueIs DEF ValuesInit, ValuesBound, ValueBound
<1>2. latest \in [Signal -> Int]
  BY DEF ValuesInit, None
<1> QED
  BY <1>1, <1>2 DEF ValuesInit, ValuesFit

\* A new entry of a topic is taken for a selector only if its newest binding to the
\* topic has it, and then as the value of that binding.
LEMMA TopicUpdated ==
  ASSUME ValuesFit, NEW values, ValuesBound(values, bindingsBySelector), NEW t \in Signal, NEW at \in Int
  PROVE  ValuesBound(updateTopic(values, t, at), bindingsBySelector)
<1> DEFINE next == updateTopic(values, t, at)
<1>1. ASSUME NEW s \in Selector
      PROVE  next[s] \in Value /\ ValueBound(next[s], bindingsBySelector[s])
  <2>1. values[s] \in Value /\ ValueBound(values[s], bindingsBySelector[s])
        /\ bindingsBySelector[s] \subseteq Binding
    BY DEF ValuesBound, ValuesFit
  <2>2. CASE next[s] = values[s]
    BY <2>1, <2>2
  <2>3. CASE next[s] # values[s]
    <3> DEFINE chosen == CHOOSE c \in Bound(s, t) : TRUE
    <3>1. /\ \E c \in Bound(s, t) : Within(c, at)
          /\ next[s] = [topic |-> t, revision |-> chosen.revision, at |-> at]
      BY <2>3 DEF updateTopic
    <3>2. PICK c \in Bound(s, t) : Within(c, at)
      BY <3>1
    <3>3. chosen \in Bound(s, t)
      BY <3>2
    <3> HIDE DEF chosen
    <3>4. /\ c \in bindingsBySelector[s] /\ chosen \in bindingsBySelector[s] /\ c.topic = t /\ chosen.topic = t
          /\ c.revision <= chosen.revision /\ chosen.revision <= c.revision
      BY <3>2, <3>3 DEF Bound
    <3>5. c.revision \in Nat /\ chosen.revision \in Nat
      BY <2>1, <3>4 DEF Binding
    <3>6. c.revision = chosen.revision
      BY <3>4, <3>5
    <3>7. next[s] \in Value
      BY <3>1, <3>5 DEF Value
    <3>8. SameBinding(c, next[s]) /\ Within(c, next[s].at)
      BY <3>1, <3>2, <3>4, <3>6 DEF SameBinding
    <3> QED
      BY <3>4, <3>7, <3>8 DEF ValueBound
  <2> QED
    BY <2>2, <2>3
<1>2. next = [s \in Selector |-> next[s]]
  BY DEF updateTopic
<1> QED
  BY <1>1, <1>2 DEF ValuesBound

\* One step of the loop over a plan.
RefreshedAt(A, plan, entry, i) ==
  IF i = 0 THEN entityValues
  ELSE IF entry[plan[i].topic] = None THEN A[i - 1]
  ELSE updateTopic(A[i - 1], plan[i].topic, entry[plan[i].topic])

LEMMA RefreshedExists ==
  ASSUME NEW plan, NEW entry, NEW n \in Nat
  PROVE  \E A : A = [i \in 0 .. n |-> RefreshedAt(A, plan, entry, i)]
<1> DEFINE N == {m \in Nat : \E A : A = [i \in 0 .. m |-> RefreshedAt(A, plan, entry, i)]}
<1>1. 0 \in N
  <2>1. [i \in 0 .. 0 |-> entityValues]
          = [i \in 0 .. 0 |-> RefreshedAt([j \in 0 .. 0 |-> entityValues], plan, entry, i)]
    BY DEF RefreshedAt
  <2> QED
    BY <2>1
<1>2. ASSUME NEW m \in Nat, m \in N PROVE m + 1 \in N
  <2>1. PICK A : A = [i \in 0 .. m |-> RefreshedAt(A, plan, entry, i)]
    BY <1>2
  <2> DEFINE B == [i \in 0 .. m + 1 |-> IF i <= m THEN A[i] ELSE RefreshedAt(A, plan, entry, m + 1)]
  <2>2. B = [i \in 0 .. m + 1 |-> RefreshedAt(B, plan, entry, i)]
    <3> SUFFICES ASSUME NEW i \in 0 .. m + 1 PROVE B[i] = RefreshedAt(B, plan, entry, i)
      OBVIOUS
    <3>1. CASE i <= m
      <4>1. B[i] = RefreshedAt(A, plan, entry, i)
        BY <2>1, <3>1
      <4>2. i # 0 => B[i - 1] = A[i - 1]
        BY <3>1
      <4> HIDE DEF B
      <4> QED
        BY <4>1, <4>2 DEF RefreshedAt
    <3>2. CASE i = m + 1
      <4>1. B[i] = RefreshedAt(A, plan, entry, m + 1)
        BY <3>2
      <4>2. B[m] = A[m] /\ i - 1 = m /\ i # 0
        BY <3>2
      <4> HIDE DEF B
      <4> QED
        BY <3>2, <4>1, <4>2 DEF RefreshedAt
    <3> QED
      BY <3>1, <3>2
  <2> HIDE DEF B
  <2> QED
    BY <2>2
<1>3. Nat \subseteq N
  <2> HIDE DEF N
  <2> QED
    BY <1>1, <1>2, SetInduction
<1> QED
  BY <1>3

LEMMA RefreshedUnfolds ==
  ASSUME NEW plan, NEW entry, Len(plan) \in Nat
  PROVE  \E A : /\ A = [i \in 0 .. Len(plan) |-> RefreshedAt(A, plan, entry, i)]
                /\ Refreshed(plan, entry) = A[Len(plan)]
<1> DEFINE A == CHOOSE f : f = [i \in 0 .. Len(plan) |-> RefreshedAt(f, plan, entry, i)]
<1>1. Refreshed(plan, entry) = A[Len(plan)]
  BY DEF Refreshed, RefreshedAt
<1>2. A = [i \in 0 .. Len(plan) |-> RefreshedAt(A, plan, entry, i)]
  BY RefreshedExists
<1> QED
  BY <1>1, <1>2

\* The values stay within their bindings when a request offers every entry again.
LEMMA RefreshedBound ==
  ASSUME ValuesFit, NEW plan \in Seq(Binding), NEW entry \in [Signal -> Int]
  PROVE  ValuesBound(Refreshed(plan, entry), bindingsBySelector)
<1>0. Len(plan) \in Nat /\ \A i \in 1..Len(plan) : plan[i] \in Binding
  OBVIOUS
<1>1. PICK A : /\ A = [i \in 0 .. Len(plan) |-> RefreshedAt(A, plan, entry, i)]
               /\ Refreshed(plan, entry) = A[Len(plan)]
  BY <1>0, RefreshedUnfolds
<1>2. A = [i \in 0 .. Len(plan) |-> RefreshedAt(A, plan, entry, i)]
  BY <1>1
<1> DEFINE N == {n \in Nat : n <= Len(plan) => ValuesBound(A[n], bindingsBySelector)}
<1>3. 0 \in N
  <2>1. A[0] = entityValues
    BY <1>0, <1>2 DEF RefreshedAt
  <2> QED
    BY <2>1 DEF ValuesFit
<1>4. ASSUME NEW n \in Nat, n \in N PROVE n + 1 \in N
  <2> SUFFICES ASSUME n + 1 <= Len(plan) PROVE ValuesBound(A[n + 1], bindingsBySelector)
    OBVIOUS
  <2> DEFINE t == plan[n + 1].topic
  <2>1. ValuesBound(A[n], bindingsBySelector)
    BY <1>0, <1>4
  <2>2. A[n + 1] = IF entry[t] = None THEN A[n] ELSE updateTopic(A[n], t, entry[t])
    <3>1. n + 1 \in 0 .. Len(plan) /\ n + 1 # 0 /\ (n + 1) - 1 = n
      BY <1>0
    <3>2. A[n + 1] = RefreshedAt(A, plan, entry, n + 1)
      BY <1>2, <3>1
    <3> QED
      BY <3>1, <3>2 DEF RefreshedAt
  <2>3. t \in Signal
    <3>1. plan[n + 1] \in Binding
      BY <1>0
    <3> QED
      BY <3>1 DEF Binding
  <2> HIDE DEF t
  <2>4. entry[t] \in Int
    BY <2>3
  <2> QED
    BY <2>1, <2>2, <2>3, <2>4, TopicUpdated
<1>5. Nat \subseteq N
  <2> HIDE DEF N
  <2> QED
    BY <1>3, <1>4, SetInduction
<1> QED
  BY <1>0, <1>1, <1>5

\* A packet.
LEMMA Publishes ==
  ASSUME ValuesFit, NEW t \in Signal, NEW at \in 0..MaxTime, Publish(t, at)
  PROVE  ValuesFit'
<1>0. UNCHANGED <<bindingsBySelector, selectorsByTopic>> /\ latest' = [latest EXCEPT ![t] = at]
      /\ entityValues' = updateTopic(entityValues, t, at)
  BY DEF Publish
<1>1. at \in Int
  BY ValuesAssumption
<1>2. ValuesBound(entityValues', bindingsBySelector)
  BY <1>0, <1>1, TopicUpdated DEF ValuesFit
<1> QED
  BY <1>0, <1>1, <1>2 DEF ValuesFit

\* A request's plan replaces the bindings of its selector.
LEMMA BindingsReplaced ==
  ASSUME ValuesFit, NEW s \in Selector, NEW next \in SUBSET Binding, replaceBindings(s, next)
  PROVE  ValuesFit'
<1>0. /\ UNCHANGED latest
      /\ bindingsBySelector' = [bindingsBySelector EXCEPT ![s] = next]
      /\ selectorsByTopic' = [t \in Signal |->
           IF \E b \in next : b.topic = t THEN selectorsByTopic[t] \cup {s}
           ELSE IF \E b \in bindingsBySelector[s] : b.topic = t THEN selectorsByTopic[t] \ {s}
           ELSE selectorsByTopic[t]]
      /\ entityValues' = [entityValues EXCEPT ![s] = IF Kept(entityValues[s], next) THEN entityValues[s] ELSE NoValue]
  BY DEF replaceBindings
<1>1. /\ bindingsBySelector \in [Selector -> SUBSET Binding] /\ selectorsByTopic \in [Signal -> SUBSET Selector]
      /\ entityValues \in [Selector -> Value]
  BY DEF ValuesFit, ValuesBound
<1>2. /\ bindingsBySelector' \in [Selector -> SUBSET Binding]
      /\ bindingsBySelector'[s] = next /\ \A q \in Selector : q # s => bindingsBySelector'[q] = bindingsBySelector[q]
  BY <1>0, <1>1
<1>3. /\ entityValues' \in [Selector -> Value]
      /\ entityValues'[s] = IF Kept(entityValues[s], next) THEN entityValues[s] ELSE NoValue
      /\ \A q \in Selector : q # s => entityValues'[q] = entityValues[q]
  BY <1>0, <1>1, NoValueIs
<1>4. ASSUME NEW q \in Selector PROVE ValueBound(entityValues'[q], bindingsBySelector'[q])
  <2>1. CASE q = s
    BY <1>2, <1>3, <2>1 DEF ValueBound, Kept
  <2>2. CASE q # s
    BY <1>2, <1>3, <2>2 DEF ValuesFit, ValuesBound
  <2> QED
    BY <2>1, <2>2
<1>5. ASSUME NEW t \in Signal
      PROVE  /\ selectorsByTopic'[t] \subseteq Selector
             /\ \A q \in Selector : q \in selectorsByTopic'[t] <=> \E b \in bindingsBySelector'[q] : b.topic = t
  <2>1. selectorsByTopic'[t] = IF \E b \in next : b.topic = t THEN selectorsByTopic[t] \cup {s}
                               ELSE IF \E b \in bindingsBySelector[s] : b.topic = t THEN selectorsByTopic[t] \ {s}
                               ELSE selectorsByTopic[t]
    BY <1>0
  <2>2. \A q \in Selector : q \in selectorsByTopic[t] <=> \E b \in bindingsBySelector[q] : b.topic = t
    BY DEF ValuesFit
  <2>3. selectorsByTopic[t] \subseteq Selector
    BY <1>1
  <2>4. ASSUME NEW q \in Selector
        PROVE  q \in selectorsByTopic'[t] <=> \E b \in bindingsBySelector'[q] : b.topic = t
    <3>1. CASE q = s
      BY <2>1, <2>2, <1>2, <3>1
    <3>2. CASE q # s
      <4>1. q \in selectorsByTopic'[t] <=> q \in selectorsByTopic[t]
        BY <2>1, <3>2
      <4> QED
        BY <4>1, <2>2, <1>2, <3>2
    <3> QED
      BY <3>1, <3>2
  <2> QED
    BY <2>1, <2>3, <2>4
<1>6. selectorsByTopic' \in [Signal -> SUBSET Selector]
  BY <1>0, <1>5
<1>7. ValuesBound(entityValues, bindingsBySelector)'
  BY <1>3, <1>4 DEF ValuesBound
<1> QED
  BY <1>0, <1>2, <1>5, <1>6, <1>7 DEF ValuesFit

-----------------------------------------------------------------------------
(* The requests: what each step does to each part.                         *)

Stages == {"idle", "authorizing", "authorized", "planning", "reading", "recovering", "answered", "failed"}

\* A request that recovers values has a plan and asks for no other.
StageFits ==
  /\ config \in Config /\ stage \in [Request -> Stages]
  /\ \A r \in Request : stage[r] = "recovering" =>
       config.kind = "last" /\ planned[r] # Failed /\ ~fetching[r].on

HistoryInv == AuthorizationFits /\ BindingsFit /\ MappingFits /\ ReadsFit /\ ValuesFit /\ StageFits

AuthorizationStep ==
  /\ AuthorizationFits'
  /\ \A q \in Request : Admits(q) => Bearer[q] \in active' \/ inactiveFor'[Bearer[q]] < CacheMs
BindingsStep == BindingsFit' /\ \A q \in Request : LearntPlan(q)
MappingStep  == MappingFits' /\ \A y \in Reader : RecentTables(y, item[y].topic)
HistoryStep  == AuthorizationStep /\ BindingsStep /\ MappingStep /\ ReadsFit' /\ ValuesFit' /\ StageFits'

\* What a step leaves alone stays as it is.
LEMMA AuthorizationRests == ASSUME AuthorizationFits, UNCHANGED authorization PROVE AuthorizationStep
<1>1. UNCHANGED <<active, inactiveFor, statuses, probes, quietFor, verdict>>
  BY DEF authorization
<1>2. AuthorizationFits'
  BY <1>1 DEF AuthorizationFits, AuthorizationTypeOK, StatusAge, ProbeAge, Probing
<1> QED
  BY <1>1, <1>2 DEF AuthorizationStep, Admits

LEMMA BindingsRest ==
  ASSUME BindingsFit, UNCHANGED <<bindingVars, config>>,
         \A q \in Request : stage'[q] = "planning" => stage[q] = "planning"
  PROVE  BindingsStep
<1>1. UNCHANGED <<bindings, replacedFor, intervalCache, fetching, planned, config>>
  BY DEF bindingVars
<1>2. BindingsFit'
  BY <1>1 DEF BindingsFit, BindingsTypeOK, EntryAge, FetchAge
<1>3. \A q \in Request : ~Learns(q)
  BY <1>1 DEF Learns
<1> QED
  BY <1>2, <1>3 DEF BindingsStep, LearntPlan

LEMMA MappingRests == ASSUME MappingFits, UNCHANGED mappingVars PROVE MappingStep
<1>1. UNCHANGED <<mappings, entries, fetchedFor, refreshedFor, missedFor, load, resolving, outdatedFor, unmappedFor, failedFor>>
  BY DEF mappingVars, refreshing, mapped
<1>2. MappingFits'
  BY <1>1 DEF MappingFits, MappingTypeOK, Ended, ReadOver, Unmapped, Selected
<1>3. \A y \in Reader : ~Resolves(y)
  BY <1>1 DEF Resolves
<1> QED
  BY <1>2, <1>3 DEF MappingStep, RecentTables

LEMMA ReadsRest == ASSUME ReadsFit, UNCHANGED <<existing, item>> PROVE ReadsFit'
BY DEF ReadsFit, ReadFits

LEMMA ValuesRest == ASSUME ValuesFit, UNCHANGED valueVars PROVE ValuesFit'
BY DEF ValuesFit, ValuesBound, valueVars

\* The steps of the parts without an answer to a request.
LEMMA NobodyAdmitted ==
  ASSUME AuthorizationFits', \A q \in Request : ~Admits(q) PROVE AuthorizationStep
BY DEF AuthorizationStep

LEMMA NobodyResolves ==
  ASSUME MappingFits', \A y \in Reader : ~Resolves(y) PROVE MappingStep
BY DEF MappingStep, RecentTables

\* A request goes on to another stage.
LEMMA StageChanges ==
  ASSUME StageFits, NEW r \in Request, NEW s \in Stages \ {"recovering"}, Stage(r, s), UNCHANGED config,
         \A q \in Request \ {r} : planned'[q] = planned[q] /\ fetching'[q] = fetching[q]
  PROVE  /\ StageFits' /\ stage'[r] = s
         /\ \A q \in Request \ {r} : stage'[q] = stage[q]
<1>1. /\ stage' \in [Request -> Stages] /\ stage'[r] = s
      /\ \A q \in Request \ {r} : stage'[q] = stage[q]
  BY DEF StageFits, Stage
<1> QED
  BY <1>1 DEF StageFits

\* No stage changes.
LEMMA StagesRest ==
  ASSUME StageFits, UNCHANGED requestVars,
         \A q \in Request : stage[q] = "recovering" => planned'[q] = planned[q] /\ fetching'[q].on = fetching[q].on
  PROVE  StageFits' /\ UNCHANGED <<config, stage>>
BY DEF StageFits, requestVars

LEMMA StagesKept ==
  ASSUME StageFits, UNCHANGED <<bindingVars, requestVars>>
  PROVE  StageFits' /\ UNCHANGED <<config, stage>>
BY StagesRest DEF bindingVars

-----------------------------------------------------------------------------
LEMMA Starts == ASSUME Init PROVE HistoryInv
<1>1. /\ config \in Config /\ stage = [r \in Request |-> "idle"]
      /\ AuthorizationInit /\ BindingsInit /\ MappingInit /\ SourcesInit /\ ValuesInit
  BY DEF Init, RequestInit
<1>2. StageFits
  BY <1>1 DEF StageFits, Stages
<1> QED
  BY <1>1, <1>2, AuthorizationStarts, BindingsStart, MappingStarts, SourcesStart, ValuesStart DEF HistoryInv

LEMMA ArriveStep == ASSUME HistoryInv, NEW r \in Request, Arrive(r) PROVE HistoryStep
<1>0. UNCHANGED <<bindingVars, mappingVars, sourceVars, valueVars, config>>
  BY DEF Arrive
<1>1. PICK s \in {"authorizing", "authorized"} : Stage(r, s)
  BY DEF Arrive
<1>2. s \in Stages \ {"recovering"} /\ UNCHANGED <<planned, fetching>>
  BY <1>0 DEF Stages, bindingVars
<1>3. StageFits' /\ stage'[r] = s /\ \A q \in Request \ {r} : stage'[q] = stage[q]
  BY <1>0, <1>1, <1>2, StageChanges DEF HistoryInv
<1>4. AuthorizationStep
  <2>1. CASE check(r)
    BY <2>1, Checks DEF HistoryInv, AuthorizationStep
  <2>2. CASE UNCHANGED authorization
    BY <2>2, AuthorizationRests DEF HistoryInv
  <2> QED
    BY <2>1, <2>2 DEF Arrive
<1>5. BindingsStep
  BY <1>0, <1>3, BindingsRest DEF HistoryInv
<1>6. MappingStep /\ ReadsFit' /\ ValuesFit'
  BY <1>0, MappingRests, ReadsRest, ValuesRest DEF HistoryInv, sourceVars
<1> QED
  BY <1>3, <1>4, <1>5, <1>6 DEF HistoryStep

LEMMA TurnedAwayStep == ASSUME HistoryInv, NEW r \in Request, TurnedAway(r) PROVE HistoryStep
<1>0. UNCHANGED <<bindingVars, mappingVars, sourceVars, valueVars, config>> /\ Stage(r, "failed") /\ Heard(r)
  BY DEF TurnedAway
<1>2. "failed" \in Stages \ {"recovering"} /\ UNCHANGED <<planned, fetching>>
  BY <1>0 DEF Stages, bindingVars
<1>3. StageFits' /\ stage'[r] = "failed" /\ \A q \in Request \ {r} : stage'[q] = stage[q]
  BY <1>0, <1>2, StageChanges DEF HistoryInv
<1>4. AuthorizationStep
  BY <1>0, Hears, NobodyAdmitted DEF HistoryInv
<1>5. BindingsStep
  BY <1>0, <1>3, BindingsRest DEF HistoryInv
<1>6. MappingStep /\ ReadsFit' /\ ValuesFit'
  BY <1>0, MappingRests, ReadsRest, ValuesRest DEF HistoryInv, sourceVars
<1> QED
  BY <1>3, <1>4, <1>5, <1>6 DEF HistoryStep

LEMMA ReadsTopicStep == ASSUME HistoryInv, NEW r \in Request, ReadsTopic(r) PROVE HistoryStep
<1>0. /\ UNCHANGED <<bindingVars, mappingVars, existing, valueVars, config>> /\ Stage(r, "reading") /\ Heard(r)
      /\ config.kind = "get" /\ item' = Reads(r, <<config.asks[r]>>)
  BY DEF ReadsTopic
<1>2. "reading" \in Stages \ {"recovering"} /\ UNCHANGED <<planned, fetching>>
  BY <1>0 DEF Stages, bindingVars
<1>3. StageFits' /\ stage'[r] = "reading" /\ \A q \in Request \ {r} : stage'[q] = stage[q]
  BY <1>0, <1>2, StageChanges DEF HistoryInv
<1>4. AuthorizationStep
  BY <1>0, Hears, NobodyAdmitted DEF HistoryInv
<1>5. BindingsStep
  BY <1>0, <1>3, BindingsRest DEF HistoryInv
<1>6. MappingStep /\ ValuesFit'
  BY <1>0, MappingRests, ValuesRest DEF HistoryInv
<1>7. <<config.asks[r]>> \in Seq(Topic)
  <2>1. config.asks[r] \in Topic
    BY <1>0, HistoryAssumption DEF HistoryInv, StageFits
  <2> QED
    BY <2>1
<1>8. ReadsFit'
  BY <1>0, <1>7, ReadsBegin DEF HistoryInv
<1> QED
  BY <1>3, <1>4, <1>5, <1>6, <1>8 DEF HistoryStep

LEMMA PlansStep == ASSUME HistoryInv, NEW r \in Request, Plans(r) PROVE HistoryStep
<1> DEFINE own == config.kind = "last"
<1>0. /\ UNCHANGED <<mappingVars, sourceVars, valueVars, config>> /\ Stage(r, "planning") /\ Heard(r)
      /\ listIntervals(r, r \in config.current, own)
  BY DEF Plans
<1>1. own \in BOOLEAN
  OBVIOUS
<1> HIDE DEF own
<1>2. "planning" \in Stages \ {"recovering"}
  BY DEF Stages
<1>2a. \A q \in Request \ {r} : planned'[q] = planned[q] /\ fetching'[q] = fetching[q]
  BY <1>0 DEF listIntervals, Planned, HistoryInv, BindingsFit, BindingsTypeOK
<1>3. StageFits' /\ stage'[r] = "planning" /\ \A q \in Request \ {r} : stage'[q] = stage[q]
  BY <1>0, <1>2, <1>2a, StageChanges DEF HistoryInv
<1>4. AuthorizationStep
  BY <1>0, Hears, NobodyAdmitted DEF HistoryInv
<1>5. BindingsStep
  BY <1>0, <1>1, <1>3, IntervalsListed DEF HistoryInv, BindingsStep
<1>6. MappingStep /\ ReadsFit' /\ ValuesFit'
  BY <1>0, MappingRests, ReadsRest, ValuesRest DEF HistoryInv, sourceVars
<1> QED
  BY <1>3, <1>4, <1>5, <1>6 DEF HistoryStep

LEMMA PlanEndsStep == ASSUME HistoryInv, NEW r \in Request, PlanEnds(r) PROVE HistoryStep
<1> DEFINE own == config.kind = "last"
<1>0. UNCHANGED <<authorization, mappingVars, sourceVars, valueVars, requestVars>> /\ Fetched(r, own)
  BY DEF PlanEnds
<1>1. own \in BOOLEAN
  OBVIOUS
<1> HIDE DEF own
<1>2. /\ \A q \in Request \ {r} : planned'[q] = planned[q] /\ fetching'[q] = fetching[q]
      /\ fetching[r].on
  BY <1>0 DEF Fetched, Planned, HistoryInv, BindingsFit, BindingsTypeOK
<1>3. StageFits'
  <2>1. stage[r] # "recovering"
    BY <1>2 DEF HistoryInv, StageFits
  <2> QED
    BY <2>1, <1>0, <1>2, StagesRest DEF HistoryInv
<1>4. AuthorizationStep
  BY <1>0, AuthorizationRests DEF HistoryInv
<1>5. BindingsStep
  BY <1>0, <1>1, BindingsFetched DEF HistoryInv, BindingsStep
<1>6. MappingStep /\ ReadsFit' /\ ValuesFit'
  BY <1>0, MappingRests, ReadsRest, ValuesRest DEF HistoryInv, sourceVars
<1> QED
  BY <1>3, <1>4, <1>5, <1>6 DEF HistoryStep

\* A request uses its plan and goes on to the stage s.
LEMMA PlanUsedStep ==
  ASSUME HistoryInv, NEW r \in Request, NEW s \in Stages \ {"recovering", "planning"},
         PlanUsed(r), Stage(r, s), UNCHANGED <<authorization, mappingVars, config>>
  PROVE  AuthorizationStep /\ BindingsStep /\ MappingStep /\ StageFits'
<1>1. \A q \in Request \ {r} : planned'[q] = planned[q] /\ fetching'[q] = fetching[q]
  BY DEF PlanUsed, Planned, HistoryInv, BindingsFit, BindingsTypeOK
<1>3. StageFits' /\ stage'[r] = s /\ \A q \in Request \ {r} : stage'[q] = stage[q]
  BY <1>1, StageChanges DEF HistoryInv
<1>4. AuthorizationStep /\ MappingStep
  BY AuthorizationRests, MappingRests DEF HistoryInv
<1>5. BindingsStep
  BY <1>3, PlansUsed DEF HistoryInv, BindingsStep
<1> QED
  BY <1>3, <1>4, <1>5

LEMMA PlanFailsStep == ASSUME HistoryInv, NEW r \in Request, PlanFails(r) PROVE HistoryStep
<1>0. /\ UNCHANGED <<authorization, mappingVars, sourceVars, valueVars, config>> /\ Stage(r, "failed") /\ PlanUsed(r)
      /\ "failed" \in Stages \ {"recovering", "planning"}
  BY DEF PlanFails, Stages
<1>1. AuthorizationStep /\ BindingsStep /\ MappingStep /\ StageFits'
  BY <1>0, PlanUsedStep
<1>2. ReadsFit' /\ ValuesFit'
  BY <1>0, ReadsRest, ValuesRest DEF HistoryInv, sourceVars
<1> QED
  BY <1>1, <1>2 DEF HistoryStep

\* A plan that was learnt is a version of the bindings.
LEMMA PlanIsVersion ==
  ASSUME HistoryInv, NEW r \in Request, planned[r] # Failed
  PROVE  planned[r] \in 1..MaxBindings
<1>1. planned[r] \in 0..MaxBindings /\ planned[r] # 0 /\ MaxBindings \in Nat
  BY BindingsAssumption DEF HistoryInv, BindingsFit, BindingsTypeOK, Failed
<1> QED
  BY <1>1

LEMMA ReadsEntityStep == ASSUME HistoryInv, NEW r \in Request, ReadsEntity(r) PROVE HistoryStep
<1>0. /\ UNCHANGED <<authorization, mappingVars, existing, valueVars, config>> /\ Stage(r, "reading") /\ PlanUsed(r)
      /\ "reading" \in Stages \ {"recovering", "planning"} /\ planned[r] # Failed
      /\ item' = Reads(r, TopicsOf[planned[r]])
  BY DEF ReadsEntity, Stages
<1>1. AuthorizationStep /\ BindingsStep /\ MappingStep /\ StageFits'
  BY <1>0, PlanUsedStep
<1>2. ValuesFit'
  BY <1>0, ValuesRest DEF HistoryInv
<1>3. TopicsOf[planned[r]] \in Seq(Topic)
  BY <1>0, PlanIsVersion, HistoryAssumption
<1>4. ReadsFit'
  BY <1>0, <1>3, ReadsBegin DEF HistoryInv
<1> QED
  BY <1>1, <1>2, <1>4 DEF HistoryStep

\* The step of a read: authorization, bindings and values are left alone.
LEMMA ReadSteps ==
  ASSUME HistoryInv, UNCHANGED <<authorization, bindingVars, valueVars, requestVars>>, MappingStep, ReadsFit'
  PROVE  HistoryStep
<1>1. StageFits' /\ UNCHANGED <<config, stage>>
  BY StagesKept DEF HistoryInv
<1>2. AuthorizationStep /\ BindingsStep /\ ValuesFit'
  BY <1>1, AuthorizationRests, BindingsRest, ValuesRest DEF HistoryInv
<1> QED
  BY <1>1, <1>2 DEF HistoryStep

\* What one reader is told, when it was looking for the topic of its read.
LEMMA ReaderStep ==
  ASSUME NEW x \in Reader, MappingFits', RecentTables(x, item[x].topic), \A y \in Reader \ {x} : ~Resolves(y)
  PROVE  MappingStep
BY DEF MappingStep, RecentTables

LEMMA ResolvesTablesStep == ASSUME HistoryInv, NEW r \in Request, ResolvesTables(r) PROVE HistoryStep
<1>1. PICK x \in Waiting(r) : /\ item' = [item EXCEPT ![x].stage = "resolving"]
                              /\ resolveHistory(x, item[x].topic)
                              /\ UNCHANGED <<authorization, bindingVars, existing, schemas, valueVars, requestVars>>
  BY DEF ResolvesTables
<1>2. x \in Reader /\ item[x].stage = "waiting"
  BY DEF Waiting, Items
<1>3. item[x].topic \in Topic
  BY <1>2 DEF HistoryInv, ReadsFit, ReadFits
<1>4. MappingStep
  BY <1>1, <1>2, <1>3, ReaderAsks, ReaderStep DEF HistoryInv
<1>5. ReadsFit'
  BY <1>1, <1>2, ReadResolves DEF HistoryInv
<1> QED
  BY <1>1, <1>4, <1>5, ReadSteps

LEMMA TablesResumeStep == ASSUME HistoryInv, NEW x \in Reader, TablesResume(x) PROVE HistoryStep
<1>1. /\ item[x].stage = "resolving" /\ ResolveResumes(x, item[x].topic)
      /\ UNCHANGED <<authorization, bindingVars, sourceVars, valueVars, requestVars>>
  BY DEF TablesResume
<1>2. item[x].topic \in Topic
  BY <1>1 DEF HistoryInv, ReadsFit, ReadFits
<1>3. MappingStep
  BY <1>1, <1>2, ReaderResumes, ReaderStep DEF HistoryInv
<1>4. ReadsFit'
  BY <1>1, ReadsRest DEF HistoryInv, sourceVars
<1> QED
  BY <1>1, <1>3, <1>4, ReadSteps

LEMMA TablesKnownStep == ASSUME HistoryInv, NEW x \in Reader, TablesKnown(x) PROVE HistoryStep
<1>1. /\ item[x].stage = "resolving" /\ resolving' = [resolving EXCEPT ![x] = Quiet]
      /\ UNCHANGED <<authorization, bindingVars, refreshing, mapped, valueVars, requestVars>>
  BY DEF TablesKnown
<1>2. MappingStep
  BY <1>1, ReaderDone, NobodyResolves DEF HistoryInv
<1>3. resolving[x].found \in Lists /\ config.partial \in BOOLEAN
  BY HistoryAssumption DEF HistoryInv, MappingFits, MappingTypeOK, StageFits
<1>4. <<[table |-> Configured, retired |-> FALSE]>> \in Lists
  <2> DEFINE e == [table |-> Configured, retired |-> FALSE]
             S == [table : Table, retired : BOOLEAN]
  <2>1. e \in S
    BY HistoryAssumption
  <2> HIDE DEF e, S
  <2>2. <<e>> \in Seq(S) /\ \A i, j \in DOMAIN <<e>> : <<e>>[i].table = <<e>>[j].table => i = j
    BY <2>1
  <2> QED
    BY <2>2 DEF e, S, Lists
<1>5. ReadsFit'
  <2>1. CASE ReadBegins(x, <<[table |-> Configured, retired |-> FALSE]>>, FALSE)
    BY <1>1, <1>4, <2>1, ReadStarts DEF HistoryInv
  <2>2. CASE ReadBegins(x, resolving[x].found, config.partial)
    BY <1>1, <1>3, <2>2, ReadStarts DEF HistoryInv
  <2> QED
    BY <2>1, <2>2 DEF TablesKnown
<1> QED
  BY <1>1, <1>2, <1>5, ReadSteps

LEMMA ReadGoesOnStep == ASSUME HistoryInv, NEW x \in Reader, ReadGoesOn(x) PROVE HistoryStep
<1>1. /\ SchemaRead(x) \/ Queried(x)
      /\ UNCHANGED <<authorization, bindingVars, mappingVars, valueVars, requestVars>>
  BY DEF ReadGoesOn
<1> QED
  BY <1>1, MappingRests, ReadProceeds, ReadSteps DEF HistoryInv

LEMMA TableLostStep == ASSUME HistoryInv, NEW t \in Table, TableLost(t) PROVE HistoryStep
<1>1. /\ Drop(t) \/ SchemaExpires(t)
      /\ UNCHANGED <<authorization, bindingVars, mappingVars, valueVars, requestVars>>
  BY DEF TableLost
<1> QED
  BY <1>1, MappingRests, TableGoes, ReadSteps DEF HistoryInv

LEMMA AnswersStep == ASSUME HistoryInv, NEW r \in Request, Answers(r) PROVE HistoryStep
<1>0. UNCHANGED <<authorization, bindingVars, mappingVars, existing, schemas, valueVars, config>>
      /\ item' = Reads(r, <<>>)
  BY DEF Answers
<1>1. PICK s \in {"answered", "failed"} : Stage(r, s)
  BY DEF Answers
<1>2. s \in Stages \ {"recovering"} /\ UNCHANGED <<planned, fetching>>
  BY <1>0 DEF Stages, bindingVars
<1>3. StageFits' /\ stage'[r] = s /\ \A q \in Request \ {r} : stage'[q] = stage[q]
  BY <1>0, <1>1, <1>2, StageChanges DEF HistoryInv
<1>4. AuthorizationStep /\ MappingStep /\ ValuesFit'
  BY <1>0, AuthorizationRests, MappingRests, ValuesRest DEF HistoryInv
<1>5. BindingsStep
  BY <1>0, <1>3, BindingsRest DEF HistoryInv
<1>6. <<>> \in Seq(Topic)
  OBVIOUS
<1>7. ReadsFit'
  BY <1>0, <1>6, ReadsBegin DEF HistoryInv
<1> QED
  BY <1>3, <1>4, <1>5, <1>7 DEF HistoryStep

-----------------------------------------------------------------------------
\* The plan of a request for a value is a sequence of bindings.
LEMMA PlanIsBindings ==
  ASSUME HistoryInv, NEW r \in Request, config.kind = "last", planned[r] # Failed
  PROVE  /\ config.asks[r] \in Selector /\ PlanOf(r) \in Seq(Binding)
         /\ Range(PlanOf(r)) \in SUBSET Binding
<1>1. config.asks[r] \in Selector
  BY HistoryAssumption DEF HistoryInv, StageFits
<1>2. planned[r] \in DOMAIN BindingsOf
  BY PlanIsVersion, HistoryAssumption
<1>3. BindingsOf[planned[r]] \in [Selector -> Seq(Binding)]
  BY <1>2, ValuesAssumption DEF Binding
<1>4. PlanOf(r) \in Seq(Binding)
  BY <1>1, <1>3 DEF PlanOf
<1>5. ASSUME NEW l \in Seq(Binding) PROVE Range(l) \in SUBSET Binding
  <2> QED
    BY DEF Range
<1> QED
  BY <1>1, <1>4, <1>5

LEMMA ReplacesBindingsStep == ASSUME HistoryInv, NEW r \in Request, ReplacesBindings(r) PROVE HistoryStep
<1>0. /\ UNCHANGED <<authorization, bindingVars, mappingVars, sourceVars, config>> /\ Stage(r, "recovering")
      /\ config.kind = "last" /\ planned[r] # Failed /\ ~fetching[r].on
      /\ replaceBindings(config.asks[r], Range(PlanOf(r)))
  BY DEF ReplacesBindings, Planning
<1>1. UNCHANGED <<planned, fetching>>
  BY <1>0 DEF bindingVars
<1>2. /\ stage' \in [Request -> Stages] /\ stage'[r] = "recovering"
      /\ \A q \in Request \ {r} : stage'[q] = stage[q]
  BY <1>0 DEF HistoryInv, StageFits, Stage, Stages
<1>3. StageFits'
  BY <1>0, <1>1, <1>2 DEF HistoryInv, StageFits
<1>4. AuthorizationStep /\ MappingStep /\ ReadsFit'
  BY <1>0, AuthorizationRests, MappingRests, ReadsRest DEF HistoryInv, sourceVars
<1>5. BindingsStep
  BY <1>0, <1>2, BindingsRest DEF HistoryInv
<1>6. ValuesFit'
  BY <1>0, PlanIsBindings, BindingsReplaced DEF HistoryInv
<1> QED
  BY <1>3, <1>4, <1>5, <1>6 DEF HistoryStep

\* A recovered entry is offered to the cache of entities as a packet is.
LEMMA TopicFoundStep ==
  ASSUME HistoryInv, NEW r \in Request, NEW t \in Signal, TopicFound(r, t) PROVE HistoryStep
<1>0. /\ UNCHANGED <<authorization, bindingVars, mappingVars, sourceVars, config, stage>>
      /\ UNCHANGED valueVars \/ \E at \in 0..MaxTime : Publish(t, at)
  BY DEF TopicFound
<1>1. StageFits'
  BY <1>0 DEF HistoryInv, StageFits, bindingVars
<1>2. AuthorizationStep /\ BindingsStep /\ MappingStep /\ ReadsFit'
  BY <1>0, AuthorizationRests, BindingsRest, MappingRests, ReadsRest DEF HistoryInv, sourceVars
<1>3. ValuesFit'
  BY <1>0, Publishes, ValuesRest DEF HistoryInv
<1> QED
  BY <1>1, <1>2, <1>3 DEF HistoryStep

LEMMA AnswersLastStep == ASSUME HistoryInv, NEW r \in Request, AnswersLast(r) PROVE HistoryStep
<1>0. /\ UNCHANGED <<authorization, mappingVars, sourceVars, bindingsBySelector, selectorsByTopic>>
      /\ UNCHANGED <<latest, config>>
      /\ stage[r] = "recovering" /\ Stage(r, "answered") /\ PlanUsed(r)
      /\ "answered" \in Stages \ {"recovering", "planning"}
      /\ entityValues' = Refreshed(PlanOf(r), latest)
  BY DEF AnswersLast, Stages
<1>1. AuthorizationStep /\ BindingsStep /\ MappingStep /\ StageFits'
  BY <1>0, PlanUsedStep
<1>2. ReadsFit'
  BY <1>0, ReadsRest DEF HistoryInv, sourceVars
<1>3. latest \in [Signal -> Int]
  BY DEF HistoryInv, ValuesFit
<1>4. PlanOf(r) \in Seq(Binding)
  BY <1>0, PlanIsBindings DEF HistoryInv, StageFits
<1>5. ValuesBound(entityValues', bindingsBySelector)
  BY <1>0, <1>3, <1>4, RefreshedBound DEF HistoryInv
<1>6. ValuesFit'
  BY <1>0, <1>3, <1>5 DEF HistoryInv, ValuesFit
<1> QED
  BY <1>1, <1>2, <1>6 DEF HistoryStep

LEMMA PacketStep ==
  ASSUME HistoryInv, NEW t \in Signal, NEW at \in 0..MaxTime, Packet(t, at)
  PROVE  HistoryStep
<1>0. UNCHANGED <<authorization, bindingVars, mappingVars, sourceVars, requestVars>> /\ Publish(t, at)
  BY DEF Packet
<1>1. StageFits' /\ UNCHANGED <<config, stage>>
  BY <1>0, StagesKept DEF HistoryInv
<1>2. AuthorizationStep /\ BindingsStep /\ MappingStep /\ ReadsFit'
  BY <1>0, <1>1, AuthorizationRests, BindingsRest, MappingRests, ReadsRest DEF HistoryInv, sourceVars
<1>3. ValuesFit'
  BY <1>0, Publishes DEF HistoryInv
<1> QED
  BY <1>1, <1>2, <1>3 DEF HistoryStep

-----------------------------------------------------------------------------
\* A step of one of the caches, with the others at rest.
LEMMA AuthorizationAlone ==
  ASSUME HistoryInv, AuthorizationStep,
         UNCHANGED <<bindingVars, mappingVars, sourceVars, valueVars, requestVars>>
  PROVE  HistoryStep
<1>1. StageFits' /\ UNCHANGED <<config, stage>>
  BY StagesKept DEF HistoryInv
<1> QED
  BY <1>1, BindingsRest, MappingRests, ReadsRest, ValuesRest DEF HistoryInv, HistoryStep, sourceVars

LEMMA BindingsAlone ==
  ASSUME HistoryInv, BindingsFit', \A q \in Request : LearntPlan(q), StageFits',
         UNCHANGED <<authorization, mappingVars, sourceVars, valueVars, requestVars>>
  PROVE  HistoryStep
BY AuthorizationRests, MappingRests, ReadsRest, ValuesRest DEF HistoryInv, HistoryStep, BindingsStep, sourceVars

LEMMA MappingAlone ==
  ASSUME HistoryInv, MappingStep,
         UNCHANGED <<authorization, bindingVars, sourceVars, valueVars, requestVars>>
  PROVE  HistoryStep
BY ReadsRest, ReadSteps DEF HistoryInv, sourceVars

LEMMA ProbeStep == ASSUME HistoryInv, NEW t \in Token, Probe(t) PROVE HistoryStep
<1>1. AuthorizationStep
  <2>1. CASE Judge(t)
    BY <2>1, Judges, NobodyAdmitted DEF HistoryInv
  <2>2. CASE Settle(t)
    BY <2>2, Settles DEF HistoryInv, AuthorizationStep
  <2> QED
    BY <2>1, <2>2 DEF Probe
<1> QED
  BY <1>1, AuthorizationAlone DEF Probe

LEMMA TokenEditStep == ASSUME HistoryInv, NEW t \in Token, TokenEdit(t) PROVE HistoryStep
<1>1. AuthorizationStep
  BY Revokes, NobodyAdmitted DEF TokenEdit, HistoryInv
<1> QED
  BY <1>1, AuthorizationAlone DEF TokenEdit

LEMMA BindingsComeBackStep == ASSUME HistoryInv, NEW r \in Request, BindingsComeBack(r) PROVE HistoryStep
<1>0. BindingsRead(r) /\ UNCHANGED <<authorization, mappingVars, sourceVars, valueVars, requestVars>>
  BY DEF BindingsComeBack
<1>1. /\ UNCHANGED planned /\ \A q \in Request : fetching'[q].on = fetching[q].on
  <2>1. fetching \in [Request -> Fetch] /\ fetching' = [fetching EXCEPT ![r].seen = bindings] /\ UNCHANGED planned
    BY <1>0 DEF BindingsRead, HistoryInv, BindingsFit, BindingsTypeOK
  <2>2. fetching[r] \in Fetch
    BY <2>1
  <2>3. fetching'[r] = [fetching[r] EXCEPT !.seen = bindings] /\ \A q \in Request \ {r} : fetching'[q] = fetching[q]
    BY <2>1
  <2> QED
    BY <2>1, <2>2, <2>3 DEF Fetch
<1>2. StageFits'
  BY <1>0, <1>1, StagesRest DEF HistoryInv, StageFits, requestVars
<1> QED
  BY <1>0, <1>2, BindingsSeen, BindingsAlone DEF HistoryInv

LEMMA LoadComesBackStep == ASSUME HistoryInv, LoadComesBack PROVE HistoryStep
<1>1. MappingStep
  BY LoadSees, LoadEnds, NobodyResolves DEF LoadComesBack, HistoryInv
<1> QED
  BY <1>1, MappingAlone DEF LoadComesBack

LEMMA EditStep == ASSUME HistoryInv, Edit PROVE HistoryStep
<1>1. CASE Rebind /\ UNCHANGED <<authorization, mappingVars, sourceVars, valueVars, requestVars>>
  <2>1. UNCHANGED <<planned, fetching>>
    BY <1>1 DEF Rebind
  <2>2. StageFits'
    BY <1>1, <2>1, StagesRest DEF HistoryInv
  <2> QED
    BY <1>1, <2>2, Rebinds, BindingsAlone DEF HistoryInv
<1>2. CASE Remap /\ UNCHANGED <<authorization, bindingVars, sourceVars, valueVars, requestVars>>
  BY <1>2, Remaps, NobodyResolves, MappingAlone DEF HistoryInv
<1> QED
  BY <1>1, <1>2 DEF Edit

LEMMA TickStep == ASSUME HistoryInv, Tick PROVE HistoryStep
<1>1. CASE AuthorizationTick /\ UNCHANGED <<bindingVars, mappingVars, sourceVars, valueVars, requestVars>>
  BY <1>1, AuthorizationAges, NobodyAdmitted, AuthorizationAlone DEF HistoryInv
<1>2. CASE BindingsTick /\ UNCHANGED <<authorization, mappingVars, sourceVars, valueVars, requestVars>>
  <2>1. UNCHANGED <<planned, config, stage>>
    BY <1>2 DEF BindingsTick, requestVars
  <2>2. \A q \in Request : ~fetching[q].on => ~fetching'[q].on
    BY <1>2 DEF BindingsTick, NoFetch
  <2>3. StageFits'
    BY <2>1, <2>2 DEF HistoryInv, StageFits
  <2> QED
    BY <1>2, <2>3, BindingsAge, BindingsAlone DEF HistoryInv
<1>3. CASE MappingTick /\ UNCHANGED <<authorization, bindingVars, sourceVars, valueVars, requestVars>>
  BY <1>3, MappingsAge, NobodyResolves, MappingAlone DEF HistoryInv
<1> QED
  BY <1>1, <1>2, <1>3 DEF Tick

-----------------------------------------------------------------------------
LEMMA ProceedsStep == ASSUME HistoryInv, NEW r \in Request, Proceeds(r) PROVE HistoryStep
<1>1. ASSUME NEW x \in Items(r) PROVE x \in Reader
  BY DEF Items
<1>2. CASE TurnedAway(r) \/ ReadsTopic(r) \/ Plans(r) \/ PlanFails(r) \/ ReadsEntity(r)
  BY <1>2, TurnedAwayStep, ReadsTopicStep, PlansStep, PlanFailsStep, ReadsEntityStep
<1>3. CASE ResolvesTables(r) \/ Answers(r) \/ ReplacesBindings(r) \/ AnswersLast(r)
  BY <1>3, ResolvesTablesStep, AnswersStep, ReplacesBindingsStep, AnswersLastStep
<1>4. CASE \E x \in Items(r) : TablesResume(x) \/ TablesKnown(x)
  BY <1>1, <1>4, TablesResumeStep, TablesKnownStep
<1>5. CASE \E t \in Signal : TopicFound(r, t)
  BY <1>5, TopicFoundStep
<1> QED
  BY <1>2, <1>3, <1>4, <1>5 DEF Proceeds

LEMMA EveryStep == ASSUME HistoryInv, [Next]_vars PROVE HistoryStep
<1>1. CASE \E r \in Request : Arrive(r) \/ Proceeds(r) \/ PlanEnds(r)
  BY <1>1, ArriveStep, ProceedsStep, PlanEndsStep
<1>2. CASE \E x \in Reader : ReadGoesOn(x)
  BY <1>2, ReadGoesOnStep
<1>3. CASE Outside
  BY <1>3, ProbeStep, BindingsComeBackStep, LoadComesBackStep DEF Outside
<1>4. CASE Edit \/ Tick
  BY <1>4, EditStep, TickStep
<1>5. CASE \E t \in Token : TokenEdit(t)
  BY <1>5, TokenEditStep
<1>6. CASE \E t \in Table : TableLost(t)
  BY <1>6, TableLostStep
<1>7. CASE \E t \in Signal, at \in 0..MaxTime : Packet(t, at)
  BY <1>7, PacketStep
<1>8. CASE UNCHANGED vars
  BY <1>8, AuthorizationRests, AuthorizationAlone DEF HistoryInv, vars
<1> QED
  BY <1>1, <1>2, <1>3, <1>4, <1>5, <1>6, <1>7, <1>8 DEF Next

LEMMA HistoryInvariant == Spec => []HistoryInv
<1>1. HistoryInv /\ [Next]_vars => HistoryInv'
  BY EveryStep DEF HistoryInv, HistoryStep, AuthorizationStep, BindingsStep, MappingStep
<1> QED
  BY <1>1, Starts, PTL DEF Spec

\* Whatever is cached, joined or late, a request is let in only if its token was active
\* less than cacheMs ago (authorization-status.ts).
THEOREM AdmittedAlwaysRecently == Spec => AdmittedRecently
<1>1. HistoryInv /\ [Next]_vars =>
        [\A r \in Request : Admits(r) => Bearer[r] \in active' \/ inactiveFor'[Bearer[r]] < CacheMs]_vars
  BY EveryStep DEF HistoryStep, AuthorizationStep
<1> QED
  BY <1>1, HistoryInvariant, PTL DEF Spec, AdmittedRecently

\* Bindings that a request reads from were in force at most staleIfErrorMs before it
\* asked for them, and since it asked if it insists on current ones
\* (entity-binding-client.ts).
THEOREM PlanAlwaysRecent == Spec => PlanRecent
<1>1. HistoryInv /\ [Next]_vars =>
        [\A r \in Request : Learns(r) =>
           replacedFor[planned'[r]] <= fetching[r].age + (IF r \in config.current THEN 0 ELSE StaleIfError)]_vars
  BY EveryStep DEF HistoryStep, BindingsStep, LearntPlan
<1> QED
  BY <1>1, HistoryInvariant, PTL DEF Spec, PlanRecent

\* The tables that a topic is read from were the controller's at most ttlMs and a load
\* ago, and that it has none was so a cooldown and a load ago, unless a load failed a
\* moment ago (questdb-mapping-cache.ts).
THEOREM MappingAlwaysRecent == Spec => MappingRecent
<1>1. HistoryInv /\ [Next]_vars =>
        [\A x \in Reader : Resolves(x) /\ failedFor >= Cooldown =>
           IF resolving'[x].found = <<>> THEN unmappedFor[item[x].topic] <= Cooldown + LoadTimeout
           ELSE outdatedFor <= Ttl + LoadTimeout]_vars
  BY EveryStep DEF HistoryStep, MappingStep, RecentTables
<1> QED
  BY <1>1, HistoryInvariant, PTL DEF Spec, MappingRecent

\* An answer has the rows of every table of its topic but retired ones that do not
\* exist, which it reports (history-table-source.ts); and every variable has its type.
THEOREM AnswerAlwaysComplete == Spec => []AnswerComplete
<1>1. HistoryInv => AnswerComplete
  <2> SUFFICES ASSUME HistoryInv PROVE AnswerComplete
    OBVIOUS
  <2>1. AuthorizationTypeOK
    BY DEF HistoryInv, AuthorizationFits
  <2>2. entries \in Versions \cup {0} /\ entries <= mappings /\ load.seen <= mappings
    <3>1. mappings \in Versions /\ entries \in 0..mappings /\ load.seen \in 0..mappings
      BY DEF HistoryInv, MappingFits, MappingTypeOK
    <3>2. mappings \in 1..Cardinality(Versions) /\ Cardinality(Versions) \in Nat /\ Versions = 1..Cardinality(Versions)
      BY <3>1, MappingBounds
    <3> QED
      BY <3>1, <3>2
  <2>3. \A r \in Request : planned[r] <= bindings /\ fetching[r].seen <= bindings
    BY DEF HistoryInv, BindingsFit, BindingsTypeOK
  <2>4. stage \in [Request -> Stages]
    BY DEF HistoryInv, StageFits
  <2>5. \A x \in Reader : item[x].known <= Len(item[x].tables)
    BY DEF HistoryInv, ReadsFit, ReadFits
  <2>6. HistoryTypeOK
    BY <2>1, <2>2, <2>3, <2>4, <2>5 DEF HistoryTypeOK, Stages
  <2>7. ASSUME NEW x \in Reader, item[x].stage = "ok"
        PROVE  /\ Range(item[x].tables) \cup item[x].missing = Mapped(x)
               /\ item[x].missing \subseteq Retired(x) \ existing
               /\ Mapped(x) \ Retired(x) \subseteq Range(item[x].tables)
    <3>1. /\ Range(item[x].tables) \cup item[x].missing = Sources(item[x].mapped)
          /\ item[x].missing \subseteq RetiredSources(item[x].mapped) \ existing
      BY <2>7 DEF HistoryInv, ReadsFit, ReadFits
    <3>2. Sources(item[x].mapped) = Mapped(x) /\ RetiredSources(item[x].mapped) = Retired(x)
      BY DEF Sources, RetiredSources, Mapped, Retired
    <3> QED
      BY <3>1, <3>2
  <2> QED
    BY <2>6, <2>7 DEF AnswerComplete
<1> QED
  BY <1>1, HistoryInvariant, PTL

\* The cached value of an entity is within a binding of the newest plan for it, and a
\* packet finds exactly the selectors bound to its topic (entity-last-value-cache.ts):
\* this is the cache, not yet what a request answers with it (NotReassigned).
THEOREM EntityValueAlwaysBound == Spec => []EntityValueBound
<1>1. HistoryInv => EntityValueBound
  BY DEF HistoryInv, ValuesFit, ValuesBound, ValueBound, EntityValueBound
<1> QED
  BY <1>1, HistoryInvariant, PTL
=============================================================================
