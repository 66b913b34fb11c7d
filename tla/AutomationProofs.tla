-------------------------- MODULE AutomationProofs ---------------------------
(***************************************************************************)
(* Theorems about the definitions a process has and the triggers it        *)
(* evaluates with them.                                                    *)
(*                                                                         *)
(* DefinitionRegistry, for every number of refreshes, versions,            *)
(* generations and readings of the clock.  TriggerEvaluation, for every    *)
(* set of topics, readings and definitions: the remembered state agrees    *)
(* with what the messages said of the condition, so each rise fires once,  *)
(* and cooldowns are kept.                                                 *)
(***************************************************************************)
EXTENDS DefinitionRegistry, TriggerEvaluation, TLAPS

Asking(i) == In(i, "token") \/ In(i, "controller") \/ In(i, "body")

\* Of the refreshes of this generation only the one that others join is under
\* way, and what it asks for is at least as new as what was cached.
OneCurrent ==
  /\ refreshPromise # None => ~In(refreshPromise, "finished")
  /\ \A i \in Slot :
       /\ refresh[i].generation <= generation
       /\ Asking(i) /\ Current(i) => refreshPromise = i

AsksNewer ==
  /\ newest <= version
  /\ \A i \in Slot : (In(i, "controller") \/ In(i, "body")) /\ Current(i) =>
       refresh[i].rows \in newest..version /\ refresh[i].rows # NoRows

HealthHasRows == healthy => accepted /\ byId # NoRows

IInv == /\ TypeOK /\ OneCurrent /\ AsksNewer /\ NeverOlder
        /\ OneInterval /\ HealthHasRows

Record == [phase : {"idle", "token", "controller", "body", "listeners", "finished"},
           generation : 0..MaxGeneration, expiry : Expiry, rows : 0..MaxVersion]

LEMMA Constants ==
  /\ MaxStale \in Nat \ {0} /\ MaxClock \in Nat /\ MaxVersion \in Nat \ {0} /\ MaxGeneration \in Nat
  /\ None \notin Slot /\ 0 \in Expiry /\ Never \in Expiry /\ 1 \in Version
  /\ Version \subseteq 0..MaxVersion /\ 0 \in 0..MaxVersion /\ 0 \in 0..MaxGeneration
  /\ Time \subseteq Int /\ Expiry \subseteq Int /\ 0 \in Time
  BY RegistryAssumption DEF None, Expiry, Never, Version, Time

LEMMA Records == Idle \in Record /\ Finished \in Record /\ Idle.phase = "idle"
                 /\ Finished.phase = "finished" /\ Idle.generation = 0
                 /\ Finished.generation = 0
  BY Constants DEF Idle, Finished, Record, NoRows

LEMMA Initially == Init => IInv
<1> SUFFICES ASSUME Init PROVE IInv
  OBVIOUS
<1>1. refresh \in [Slot -> Record] /\ \A i \in Slot : refresh[i] = Idle
  BY Records DEF Init
<1>2. TypeOK
  BY <1>1, Constants DEF Init, TypeOK, Record, NoRows
<1> QED
  BY <1>1, <1>2, Records, Constants
     DEF Init, IInv, OneCurrent, AsksNewer, NeverOlder, OneInterval, HealthHasRows,
         Asking, In, NoRows, Version

-----------------------------------------------------------------------------
(* What the health says, before a step and after one that leaves it alone. *)

Sound == /\ accepted \in BOOLEAN /\ healthy \in BOOLEAN
         /\ checkedAt \in Time /\ expiresAt \in Expiry
         /\ byId # NoRows => accepted
         /\ healthy => accepted /\ byId # NoRows

LEMMA SoundHealth == IInv => Sound
  BY DEF IInv, TypeOK, HealthHasRows, Sound

LEMMA SameHealth ==
  ASSUME IInv, UNCHANGED health, UNCHANGED cached
  PROVE  /\ Sound' /\ UNCHANGED <<checkedAt, expiresAt>>
         /\ byId' = byId /\ newest' = newest
<1>1. UNCHANGED <<accepted, checkedAt, expiresAt, healthy, byId, newest>>
  BY DEF health, cached
<1> QED
  BY <1>1, SoundHealth, Zenon DEF Sound

LEMMA RefusalKeeps ==
  ASSUME IInv, authorizationFailure, cacheRows(NoRows)
  PROVE  /\ Sound' /\ UNCHANGED <<checkedAt, expiresAt>>
         /\ byId' = NoRows /\ newest' = newest
<1>1. Sound /\ newest \in 0..MaxVersion
  BY SoundHealth DEF IInv, TypeOK
<1>2. accepted' = FALSE /\ healthy' = FALSE /\ UNCHANGED <<checkedAt, expiresAt>>
  BY DEF authorizationFailure
<1>3. byId' = NoRows /\ newest' = newest
  BY <1>1, Constants DEF cacheRows, NoRows
<1> QED
  BY <1>1, <1>2, <1>3, Zenon DEF Sound

(* The grace: what fails for want of authority is gone, the rest stays.    *)
LEMMA GraceKeeps ==
  ASSUME IInv, cacheRows(IF Valid THEN byId ELSE NoRows), accepted' = Valid
  PROVE  /\ byId' = byId \/ byId' = NoRows
         /\ newest' = newest
         /\ byId' # NoRows => accepted'
         /\ Valid => byId' = byId
<1>1. byId \in 0..MaxVersion /\ newest \in 0..MaxVersion /\ (byId # NoRows => byId = newest)
  BY DEF IInv, TypeOK, NeverOlder
<1>2. CASE Valid
  <2>1. (IF Valid THEN byId ELSE NoRows) = byId
    BY <1>2, Zenon
  <2>2. byId' = byId /\ newest' = (IF byId > newest THEN byId ELSE newest)
    BY <2>1, Zenon DEF cacheRows
  <2>3. newest' = newest
    BY <1>1, <2>2, Constants DEF NoRows
  <2> QED
    BY <1>2, <2>2, <2>3, Zenon
<1>3. CASE ~Valid
  <2>1. (IF Valid THEN byId ELSE NoRows) = NoRows
    BY <1>3, Zenon
  <2>2. byId' = NoRows /\ newest' = (IF NoRows > newest THEN NoRows ELSE newest)
    BY <2>1, Zenon DEF cacheRows
  <2>3. newest' = newest
    BY <1>1, <2>2, Constants DEF NoRows
  <2> QED
    BY <1>3, <2>2, <2>3, Zenon
<1> QED
  BY <1>2, <1>3

LEMMA TransportKeeps ==
  ASSUME IInv, transportFailure
  PROVE  /\ Sound' /\ UNCHANGED <<checkedAt, expiresAt>>
         /\ byId' = byId \/ byId' = NoRows
         /\ newest' = newest
<1>1. Sound
  BY SoundHealth
<1>2. /\ accepted' = Valid /\ healthy' = FALSE /\ UNCHANGED <<checkedAt, expiresAt>>
      /\ cacheRows(IF Valid THEN byId ELSE NoRows)
  BY DEF transportFailure
<1>3. /\ byId' = byId \/ byId' = NoRows
      /\ newest' = newest
      /\ byId' # NoRows => accepted'
  BY <1>2, GraceKeeps
<1>4. Valid \in BOOLEAN
  BY DEF Valid
<1> QED
  BY <1>1, <1>2, <1>3, <1>4, Zenon DEF Sound

-----------------------------------------------------------------------------
(* What a refresh becomes.                                                 *)

LEMMA Becomes ==
  ASSUME NEW i \in Slot, NEW record \in Record, refresh \in [Slot -> Record],
         refresh' = [refresh EXCEPT ![i] = record]
  PROVE  /\ refresh' \in [Slot -> Record] /\ refresh'[i] = record
         /\ \A j \in Slot : j # i => refresh'[j] = refresh[j]
  OBVIOUS

LEMMA Settles ==
  ASSUME TypeOK, NEW i \in Slot, Ends(i)
  PROVE  /\ refresh' \in [Slot -> Record]
         /\ refresh'[i] \in {Idle, Finished}
         /\ \A j \in Slot : j # i => refresh'[j] = refresh[j]
         /\ refreshPromise' = IF refreshPromise = i THEN None ELSE refreshPromise
<1> DEFINE record == IF starting = i THEN Finished ELSE Idle
<1>1. record \in Record /\ record \in {Idle, Finished}
  BY Records
<1>2. refresh \in [Slot -> Record] /\ refresh' = [refresh EXCEPT ![i] = record]
  BY DEF TypeOK, Record, Ends
<1> QED
  BY <1>1, <1>2, Becomes DEF Ends

LEMMA Starting ==
  ASSUME TypeOK, NEW i \in Slot, Begins(i)
  PROVE  /\ refresh' \in [Slot -> Record]
         /\ refresh'[i].phase = "token" /\ refresh'[i].generation = generation
         /\ \A j \in Slot : j # i => refresh'[j] = refresh[j]
         /\ refreshPromise = None /\ refreshPromise' = i
<1> DEFINE record == [Idle EXCEPT !.phase = "token", !.generation = generation]
<1>1. record \in Record /\ record.phase = "token" /\ record.generation = generation
  BY Constants DEF TypeOK, Idle, Record, NoRows
<1>2. refresh \in [Slot -> Record] /\ refresh' = [refresh EXCEPT ![i] = record]
  BY DEF TypeOK, Record, Begins
<1> QED
  BY <1>1, <1>2, Becomes DEF Begins

(* A refresh that begins is the only one of its generation.                *)
LEMMA BeginningKeeps ==
  ASSUME IInv, NEW i \in Slot, Begins(i), Sound',
         UNCHANGED <<clock, version, armed, refreshTimer, generation, checkedAt, expiresAt, byId, newest>>,
         starting' \in Slot \cup {None}, started' \in BOOLEAN
  PROVE  TypeOK' /\ OneCurrent' /\ AsksNewer'
<1>1. /\ refresh' \in [Slot -> Record]
      /\ refresh'[i].phase = "token" /\ refresh'[i].generation = generation
      /\ \A j \in Slot : j # i => refresh'[j] = refresh[j]
      /\ refreshPromise = None /\ refreshPromise' = i
  BY Starting DEF IInv
<1>2. \A j \in Slot : ~(Asking(j) /\ Current(j))
  BY <1>1, Constants DEF IInv, OneCurrent
<1>3. TypeOK'
  BY <1>1, Constants DEF IInv, TypeOK, Sound, Record, Current, In
<1>4. OneCurrent'
  BY <1>1, <1>2, RegistryAssumption DEF IInv, TypeOK, OneCurrent, Current, In, Asking
<1>5. AsksNewer'
  BY <1>1, <1>2 DEF IInv, AsksNewer, Current, In, Asking
<1> QED
  BY <1>3, <1>4, <1>5

(* A refresh that settles disturbs nothing but itself.                     *)
LEMMA SettledKeeps ==
  ASSUME IInv, NEW i \in Slot, ~In(i, "idle"), ~In(i, "finished"), Ends(i), UNCHANGED <<clock, version, calls>>,
         Sound', UNCHANGED <<checkedAt, expiresAt>>,
         byId' = byId \/ byId' = NoRows, newest' = newest
  PROVE  IInv'
<1>1. /\ refresh' \in [Slot -> Record]
      /\ refresh'[i] \in {Idle, Finished}
      /\ \A j \in Slot : j # i => refresh'[j] = refresh[j]
      /\ refreshPromise' = IF refreshPromise = i THEN None ELSE refreshPromise
  BY Settles DEF IInv
<1>2. TypeOK'
  BY <1>1, Constants DEF IInv, TypeOK, calls, Record, Current, In, NoRows, Sound
<1>3. OneCurrent'
  BY <1>1, Records, Constants DEF IInv, TypeOK, OneCurrent, calls, Record, Current, In, Asking
<1>4. AsksNewer'
  BY <1>1, Records, Constants DEF IInv, AsksNewer, calls, Current, In
<1>5. NeverOlder' /\ OneInterval' /\ HealthHasRows'
  BY DEF IInv, NeverOlder, OneInterval, HealthHasRows, calls, Sound
<1> QED
  BY <1>2, <1>3, <1>4, <1>5 DEF IInv

(* A refresh that goes on keeps its place.                                 *)
LEMMA GoesKeeps ==
  ASSUME IInv, NEW i \in Slot, NEW record \in Record, Asking(i), Current(i), Goes(i, record),
         record.generation = refresh[i].generation,
         record.phase \in {"controller", "body", "listeners"},
         record.phase # "listeners" => record.rows \in newest..version /\ record.rows # NoRows,
         UNCHANGED <<clock, version, calls>>,
         Sound',
         \/ byId' = NoRows /\ newest' = newest
         \/ byId' = byId /\ newest' = newest
         \/ byId' \in Version /\ byId' = newest' /\ newest' <= version /\ record.phase = "listeners"
  PROVE  IInv'
<1>1. /\ refresh' \in [Slot -> Record] /\ refresh'[i] = record
      /\ \A j \in Slot : j # i => refresh'[j] = refresh[j]
      /\ refreshPromise' = refreshPromise
  BY Becomes DEF IInv, TypeOK, Record, Goes
<1>2. refreshPromise = i /\ \A j \in Slot : Asking(j) /\ Current(j) => j = i
  BY DEF IInv, OneCurrent
<1>3. TypeOK'
  BY <1>1, <1>2, Constants DEF IInv, TypeOK, calls, Record, Current, In, NoRows, Sound
<1>4. OneCurrent'
  BY <1>1, <1>2, Constants DEF IInv, TypeOK, OneCurrent, calls, Record, Current, In, Asking
<1>5. AsksNewer'
  <2>1. newest' <= version'
    BY DEF IInv, AsksNewer, calls
  <2>2. ASSUME NEW j \in Slot, (In(j, "controller") \/ In(j, "body"))', Current(j)'
        PROVE  refresh'[j].rows \in newest'..version' /\ refresh'[j].rows # NoRows
    <3>1. j = i
      BY <1>1, <1>2, <2>2 DEF In, Current, Asking, calls
    <3> QED
      BY <1>1, <2>2, <3>1 DEF In
  <2> QED
    BY <2>1, <2>2 DEF AsksNewer, In, Current, Version
<1>6. NeverOlder' /\ OneInterval' /\ HealthHasRows'
  BY DEF IInv, NeverOlder, OneInterval, HealthHasRows, calls, Sound
<1> QED
  BY <1>3, <1>4, <1>5, <1>6 DEF IInv

-----------------------------------------------------------------------------
(* The steps of a refresh.                                                 *)

LEMMA RefreshingStep == ASSUME IInv, NEW i \in Slot, Refreshing(i) PROVE IInv'
<1>0. /\ refresh[i] \in Record /\ byId \in 0..MaxVersion /\ newest \in 0..MaxVersion
      /\ clock \in Time /\ version \in Version /\ newest <= version
      /\ byId # NoRows => byId = newest
  BY DEF IInv, TypeOK, Record, AsksNewer, NeverOlder
<1>1. CASE Late(i)
  <2>1. ~In(i, "idle") /\ ~In(i, "finished") /\ Ends(i)
        /\ UNCHANGED <<clock, version, calls>>
    BY <1>1 DEF Late, In
  <2>2. Sound' /\ UNCHANGED <<checkedAt, expiresAt>> /\ byId' = byId /\ newest' = newest
    BY <1>1, SameHealth DEF Late
  <2> QED
    BY <1>0, <2>1, <2>2, SettledKeeps
<1>2. CASE ListenersDone(i)
  <2>1. ~In(i, "idle") /\ ~In(i, "finished") /\ Ends(i)
        /\ UNCHANGED <<clock, version, calls>>
    BY <1>2 DEF ListenersDone, In
  <2>2. Sound' /\ UNCHANGED <<checkedAt, expiresAt>> /\ byId' = byId /\ newest' = newest
    BY <1>2, SameHealth DEF ListenersDone
  <2> QED
    BY <1>0, <2>1, <2>2, SettledKeeps
<1>3. CASE Unavailable(i)
  <2>1. ~In(i, "idle") /\ ~In(i, "finished") /\ Ends(i)
        /\ UNCHANGED <<clock, version, calls>>
    BY <1>3 DEF Unavailable, Fails, In
  <2>2. transportFailure
    BY <1>3 DEF Unavailable, Fails
  <2> QED
    BY <2>1, <2>2, TransportKeeps, SettledKeeps
<1>4. CASE NoToken(i) \/ Unauthorized(i) \/ ExpiredBody(i)
  <2> DEFINE record == [refresh[i] EXCEPT !.phase = "listeners"]
  <2>1. /\ record \in Record /\ record.generation = refresh[i].generation
        /\ record.phase = "listeners"
    BY <1>0 DEF Record
  <2>2. /\ Asking(i) /\ Current(i) /\ Refused(i)
        /\ UNCHANGED <<clock, version, calls>>
    BY <1>4 DEF NoToken, Unauthorized, ExpiredBody, Asking
  <2>3. authorizationFailure /\ cacheRows(NoRows) /\ Goes(i, record)
    BY <2>2 DEF Refused
  <2> QED
    BY <2>1, <2>2, <2>3, RefusalKeeps, GoesKeeps
<1>5. ASSUME NEW expiry \in Expiry, Token(i, expiry)
      PROVE  IInv'
  <2> DEFINE record == [refresh[i] EXCEPT !.phase = "controller", !.expiry = expiry, !.rows = version]
  <2>1. /\ record \in Record /\ record.generation = refresh[i].generation
        /\ record.phase = "controller" /\ record.rows = version
    BY <1>0, Constants DEF Record
  <2>2. /\ Asking(i) /\ Current(i) /\ Goes(i, record)
        /\ UNCHANGED <<clock, version, calls>>
        /\ Sound' /\ byId' = byId /\ newest' = newest
    BY <1>5, SameHealth DEF Token, Asking
  <2>3. version \in newest..version /\ version # NoRows
    BY <1>0, RegistryAssumption DEF Version, NoRows
  <2> QED
    BY <1>0, <2>1, <2>2, <2>3, GoesKeeps
<1>6. ASSUME NEW rows \in Version, Answer(i, rows)
      PROVE  IInv'
  <2> DEFINE record == [refresh[i] EXCEPT !.phase = "body", !.rows = rows]
  <2>1. /\ record \in Record /\ record.generation = refresh[i].generation
        /\ record.phase = "body" /\ record.rows = rows
    BY <1>0, Constants DEF Record
  <2>2. /\ Asking(i) /\ Current(i) /\ Goes(i, record) /\ rows \in refresh[i].rows..version
        /\ UNCHANGED <<clock, version, calls>>
        /\ Sound' /\ byId' = byId /\ newest' = newest
    BY <1>6, SameHealth DEF Answer, Asking
  <2>3. rows \in newest..version /\ rows # NoRows
    BY <1>0, <1>6, <2>2 DEF IInv, AsksNewer, Answer, Record, Version, NoRows
  <2> QED
    BY <1>0, <2>1, <2>2, <2>3, GoesKeeps
<1>7. CASE Body(i)
  <2> DEFINE record == [refresh[i] EXCEPT !.phase = "listeners"]
  <2>1. /\ record \in Record /\ record.generation = refresh[i].generation
        /\ record.phase = "listeners"
    BY <1>0 DEF Record
  <2>2. /\ Asking(i) /\ Current(i) /\ Goes(i, record) /\ success(refresh[i].expiry)
        /\ cacheRows(refresh[i].rows) /\ UNCHANGED <<clock, version, calls>>
    BY <1>7 DEF Body, Asking
  <2>3. /\ refresh[i].rows \in newest..version /\ refresh[i].rows # NoRows
        /\ refresh[i].rows \in Version /\ refresh[i].expiry \in Expiry
    BY <1>0, <1>7 DEF IInv, AsksNewer, Body, Record, Version, NoRows
  <2>4. /\ byId' = refresh[i].rows /\ newest' = refresh[i].rows
    BY <1>0, <2>2, <2>3 DEF cacheRows, Version
  <2>5. Sound'
    <3>1. accepted' = TRUE /\ healthy' = TRUE /\ checkedAt' \in Time /\ expiresAt' \in Expiry
      BY <1>0, <2>2, <2>3 DEF success
    <3>2. byId' # NoRows
      BY <2>3, <2>4
    <3> QED
      BY <3>1, <3>2, Zenon DEF Sound
  <2>6. byId' \in Version /\ byId' = newest' /\ newest' <= version
    BY <1>0, <2>3, <2>4
  <2> QED
    BY <2>1, <2>2, <2>5, <2>6, GoesKeeps
<1> QED
  BY <1>1, <1>2, <1>3, <1>4, <1>5, <1>6, <1>7 DEF Refreshing

-----------------------------------------------------------------------------
(* The registry's own operations.                                          *)

LEMMA StartStep == ASSUME IInv, start PROVE IInv'
<1>1. Sound' /\ UNCHANGED <<clock, version, armed, refreshTimer, generation, checkedAt, expiresAt, byId, newest>>
      /\ ~started /\ starting = None /\ started' = TRUE
  BY SameHealth DEF start
<1>2. refreshTimer = FALSE
  BY <1>1 DEF IInv, OneInterval
<1>3. CASE refreshPromise # None /\ starting' = refreshPromise /\ UNCHANGED <<refresh, refreshPromise>>
  <2>1. TypeOK'
    BY <1>1, <1>3 DEF IInv, TypeOK, Sound, Current, In
  <2>2. OneCurrent' /\ AsksNewer'
    BY <1>1, <1>3 DEF IInv, OneCurrent, AsksNewer, Current, In, Asking
  <2>3. NeverOlder' /\ OneInterval' /\ HealthHasRows'
    BY <1>1, <1>2, <1>3 DEF IInv, NeverOlder, OneInterval, HealthHasRows, Sound
  <2> QED
    BY <2>1, <2>2, <2>3 DEF IInv
<1>4. ASSUME NEW i \in Slot, Begins(i), starting' = i
      PROVE  IInv'
  <2>1. TypeOK' /\ OneCurrent' /\ AsksNewer'
    BY <1>1, <1>4, BeginningKeeps
  <2>2. NeverOlder' /\ OneInterval' /\ HealthHasRows'
    BY <1>1, <1>2, <1>4, Constants DEF IInv, NeverOlder, OneInterval, HealthHasRows, Sound
  <2> QED
    BY <2>1, <2>2 DEF IInv
<1> QED
  BY <1>3, <1>4 DEF start

LEMMA IntervalStep == ASSUME IInv, Interval PROVE IInv'
<1>1. Sound' /\ UNCHANGED <<clock, version, checkedAt, expiresAt, byId, newest>>
      /\ UNCHANGED <<started, starting, armed, refreshTimer, generation>>
  BY SameHealth DEF Interval, calls
<1>2. PICK i \in Slot : Begins(i)
  BY DEF Interval
<1>3. starting' \in Slot \cup {None} /\ started' \in BOOLEAN
  BY <1>1, Zenon DEF IInv, TypeOK
<1>4. TypeOK' /\ OneCurrent' /\ AsksNewer'
  BY <1>1, <1>2, <1>3, BeginningKeeps
<1>5. NeverOlder' /\ OneInterval' /\ HealthHasRows'
  BY <1>1 DEF IInv, NeverOlder, OneInterval, HealthHasRows, Sound
<1> QED
  BY <1>4, <1>5 DEF IInv

LEMMA StartReturnsStep == ASSUME IInv, StartReturns PROVE IInv'
<1>1. Sound' /\ UNCHANGED <<clock, version, started, generation, refreshPromise, checkedAt, expiresAt, byId, newest>>
      /\ starting \in Slot /\ In(starting, "finished") /\ starting' = None
  BY SameHealth DEF StartReturns, IInv, TypeOK
<1>2. refreshTimer = FALSE /\ armed = 0
  BY <1>1, Constants DEF IInv, OneInterval
<1>3. \/ started' = TRUE /\ refreshTimer' = TRUE /\ armed' = 1
      \/ started' = FALSE /\ refreshTimer' = FALSE /\ armed' = 0
  <2>1. started = TRUE \/ started = FALSE
    BY DEF IInv, TypeOK
  <2>2. CASE started = TRUE
    BY <1>1, <1>2, <2>2 DEF StartReturns, StillStarted
  <2>3. CASE started = FALSE
    BY <1>1, <1>2, <2>3 DEF StartReturns, StillStarted
  <2> QED
    BY <2>1, <2>2, <2>3
<1>4. /\ refresh' \in [Slot -> Record] /\ refresh'[starting] = Idle
      /\ \A j \in Slot : j # starting => refresh'[j] = refresh[j]
  BY <1>1, Records, Becomes DEF StartReturns, IInv, TypeOK, Record
<1>5. refreshPromise # starting \/ refreshPromise = None
  BY <1>1 DEF IInv, OneCurrent, In
<1>6. refreshPromise' # None => Current(refreshPromise)' /\ ~In(refreshPromise, "idle")'
  BY <1>1, <1>4, <1>5 DEF IInv, TypeOK, Current, In
<1>7. TypeOK'
  <2>1. refreshTimer' \in BOOLEAN /\ started' \in BOOLEAN
    BY <1>3, Zenon
  <2>2. armed' \in Nat
    BY <1>3
  <2> QED
    BY <1>1, <1>4, <1>6, <2>1, <2>2 DEF IInv, TypeOK, Record, Sound
<1>8. OneCurrent' /\ AsksNewer'
  BY <1>1, <1>4, <1>5, Records, Constants
     DEF IInv, TypeOK, OneCurrent, AsksNewer, Current, In, Asking
<1>9. NeverOlder' /\ OneInterval' /\ HealthHasRows'
  BY <1>1, <1>3 DEF IInv, NeverOlder, OneInterval, HealthHasRows, Sound
<1> QED
  BY <1>7, <1>8, <1>9 DEF IInv

LEMMA HaltsStep ==
  ASSUME IInv, Halts, Sound', UNCHANGED <<checkedAt, expiresAt>>,
         byId' = byId \/ byId' = NoRows, newest' = newest
  PROVE  IInv'
<1>1. /\ UNCHANGED <<clock, version, starting, refresh>> /\ refreshPromise' = None
      /\ generation' = generation + 1 /\ generation' \in 0..MaxGeneration
      /\ started' = FALSE /\ refreshTimer' = FALSE
  BY RegistryAssumption DEF Halts, Forgets, IInv, TypeOK
<1>2. armed' = 0
  BY DEF Halts, IInv, TypeOK, OneInterval
<1>3. \A i \in Slot : refresh'[i].generation < generation'
  BY <1>1, RegistryAssumption DEF IInv, TypeOK, OneCurrent
<1>4. \A i \in Slot : ~Current(i)'
  BY <1>1, <1>3, RegistryAssumption DEF IInv, TypeOK, Current
<1>5. TypeOK'
  BY <1>1, <1>2, Constants DEF IInv, TypeOK, Sound, NoRows
<1>6. OneCurrent' /\ AsksNewer'
  BY <1>1, <1>3, <1>4, RegistryAssumption DEF IInv, TypeOK, OneCurrent, AsksNewer
<1>7. NeverOlder' /\ OneInterval' /\ HealthHasRows'
  BY <1>1, <1>2 DEF IInv, NeverOlder, OneInterval, HealthHasRows, Sound
<1> QED
  BY <1>5, <1>6, <1>7 DEF IInv

(* What changes no more than the health, the clock or the controller.      *)
LEMMA OutsideKeeps ==
  ASSUME IInv, UNCHANGED <<calls, refreshPromise, refresh>>, Sound',
         clock' \in Time, version' \in Version, version <= version',
         UNCHANGED <<checkedAt, expiresAt>>,
         byId' = byId \/ byId' = NoRows, newest' = newest
  PROVE  IInv'
<1>1. TypeOK'
  BY Constants DEF IInv, TypeOK, Sound, calls, Current, In, NoRows
<1>2. OneCurrent'
  BY DEF IInv, OneCurrent, calls, Current, In, Asking
<1>3. AsksNewer'
  BY RegistryAssumption DEF IInv, TypeOK, AsksNewer, calls, Current, In, Version
<1>4. NeverOlder' /\ OneInterval' /\ HealthHasRows'
  BY DEF IInv, NeverOlder, OneInterval, HealthHasRows, Sound, calls
<1> QED
  BY <1>1, <1>2, <1>3, <1>4 DEF IInv

LEMMA UseKeeps ==
  ASSUME IInv, executionAllowed
  PROVE  /\ Sound' /\ UNCHANGED <<checkedAt, expiresAt>>
         /\ byId' = byId \/ byId' = NoRows
         /\ newest' = newest
         /\ healthy' => Valid /\ byId' = byId /\ byId # NoRows
<1>1. Sound
  BY SoundHealth
<1>2. /\ accepted' = Valid /\ healthy' = (IF accepted /\ ~Valid THEN FALSE ELSE healthy)
      /\ UNCHANGED <<checkedAt, expiresAt>>
      /\ cacheRows(IF Valid THEN byId ELSE NoRows)
  BY DEF executionAllowed
<1>3. /\ byId' = byId \/ byId' = NoRows
      /\ newest' = newest
      /\ byId' # NoRows => accepted'
      /\ Valid => byId' = byId
  BY <1>2, GraceKeeps
<1>4. Valid \in BOOLEAN
  BY DEF Valid
<1>5. healthy' => Valid /\ byId # NoRows
  <2>1. CASE accepted /\ ~Valid
    BY <1>2, <2>1, Zenon
  <2>2. CASE ~(accepted /\ ~Valid)
    <3>1. healthy' = healthy
      BY <1>2, <2>2, Zenon
    <3> QED
      BY <1>1, <2>2, <3>1, Zenon DEF Sound
  <2> QED
    BY <2>1, <2>2
<1>6. Sound'
  <2>1. accepted' \in BOOLEAN /\ healthy' \in BOOLEAN
    BY <1>1, <1>2, <1>4, Zenon DEF Sound
  <2>2. healthy' => accepted' /\ byId' # NoRows
    BY <1>2, <1>3, <1>5, Zenon
  <2> QED
    BY <1>1, <1>2, <1>3, <2>1, <2>2, Zenon DEF Sound
<1> QED
  BY <1>2, <1>3, <1>5, <1>6, Zenon

LEMMA Step == IInv /\ [Next]_vars => IInv'
<1> SUFFICES ASSUME IInv, [Next]_vars PROVE IInv'
  OBVIOUS
<1>0. clock \in Time /\ version \in Version /\ version <= version
  BY RegistryAssumption DEF IInv, TypeOK, Version
<1>1. CASE start
  BY <1>1, StartStep
<1>2. CASE StartReturns
  BY <1>2, StartReturnsStep
<1>3. CASE Interval
  BY <1>3, IntervalStep
<1>4. CASE pauseForHandover
  <2>1. Halts /\ UNCHANGED health /\ UNCHANGED cached
    BY <1>4 DEF pauseForHandover
  <2> QED
    BY <2>1, SameHealth, HaltsStep
<1>5. CASE stop
  <2>1. Halts /\ authorizationFailure /\ cacheRows(NoRows)
    BY <1>5 DEF stop
  <2> QED
    BY <2>1, RefusalKeeps, HaltsStep
<1>6. ASSUME NEW i \in Slot, Refreshing(i)
      PROVE  IInv'
  BY <1>6, RefreshingStep
<1>7. CASE Use
  <2>1. executionAllowed /\ UNCHANGED <<clock, version, calls, refreshPromise, refresh>>
    BY <1>7 DEF Use
  <2> QED
    BY <1>0, <2>1, UseKeeps, OutsideKeeps
<1>8. CASE Edited
  <2>1. /\ UNCHANGED <<clock, calls, refreshPromise, refresh>> /\ UNCHANGED health /\ UNCHANGED cached
        /\ version' \in Version /\ version <= version'
    BY <1>0, <1>8, RegistryAssumption DEF Edited, Version
  <2> QED
    BY <1>0, <2>1, SameHealth, OutsideKeeps
<1>9. ASSUME NEW now \in Time, Clock(now)
      PROVE  IInv'
  <2>1. /\ UNCHANGED <<version, calls, refreshPromise, refresh>> /\ UNCHANGED health /\ UNCHANGED cached
        /\ clock' \in Time
    BY <1>9 DEF Clock
  <2> QED
    BY <1>0, <2>1, SameHealth, OutsideKeeps
<1>10. CASE UNCHANGED vars
  <2>1. UNCHANGED <<clock, version, calls, refreshPromise, refresh>> /\ UNCHANGED health /\ UNCHANGED cached
    BY <1>10 DEF vars
  <2> QED
    BY <1>0, <2>1, SameHealth, OutsideKeeps
<1> QED
  BY <1>1, <1>2, <1>3, <1>4, <1>5, <1>6, <1>7, <1>8, <1>9, <1>10 DEF Next

LEMMA Invariant == Spec => []IInv
  BY Initially, Step, PTL DEF Spec

-----------------------------------------------------------------------------

\* What is joined is a refresh of this generation that has not settled, and no
\* definition is cached without a check that allowed it.
THEOREM RegistryTypeCorrect == Spec => []TypeOK
<1>1. IInv => TypeOK
  BY DEF IInv
<1> QED
  BY <1>1, Invariant, PTL

\* However many refreshes overlap, and however often the registry is paused, an
\* answer that is late never brings back older definitions (refreshOnce).
THEOREM NoOlderDefinitions == Spec => []NeverOlder
<1>1. IInv => NeverOlder
  BY DEF IInv
<1> QED
  BY <1>1, Invariant, PTL

\* The registry has the handle of the only interval that runs, so that a pause
\* ends all (start, pauseForHandover, stop).
THEOREM IntervalOwned == Spec => []OneInterval
<1>1. IInv => OneInterval
  BY DEF IInv
<1> QED
  BY <1>1, Invariant, PTL

(* What was checked is what the credential and the clock still allow.      *)
LEMMA BodyUsable == ASSUME IInv, NEW i \in Slot, Body(i) PROVE Usable'
<1>1. /\ accepted' = TRUE /\ checkedAt' = clock /\ expiresAt' = refresh[i].expiry
      /\ byId' = refresh[i].rows /\ clock' = clock /\ ~(refresh[i].expiry <= clock)
  BY DEF Body, success, cacheRows, Outlived, tokenExpired
<1>2. clock \in Int /\ refresh[i].expiry \in Int /\ refresh[i].rows # NoRows
  BY Constants DEF IInv, TypeOK, AsksNewer, Body
<1>3. clock' < expiresAt' /\ checkedAt' <= clock' /\ clock' - checkedAt' < MaxStale
  BY <1>1, <1>2, RegistryAssumption
<1> QED
  BY <1>1, <1>2, <1>3 DEF Usable, Valid

LEMMA UseUsable == ASSUME IInv, Use, healthy' PROVE Usable'
<1>1. Valid /\ byId' = byId /\ byId # NoRows /\ UNCHANGED <<checkedAt, expiresAt>>
  BY UseKeeps DEF Use
<1>2. accepted' = Valid /\ clock' = clock
  BY DEF Use, executionAllowed
<1>3. accepted'
  BY <1>1, <1>2, Zenon
<1>4. Valid'
  BY <1>1, <1>2, <1>3 DEF Valid
<1> QED
  BY <1>1, <1>4 DEF Usable

LEMMA OnlyBodyHeals == ASSUME IInv, Next, ~healthy, healthy' PROVE \E i \in Slot : Body(i)
<1>0. Sound
  BY SoundHealth
<1>1. ASSUME healthy' = healthy PROVE FALSE
  BY <1>1, Zenon
<1>2. ASSUME healthy' = FALSE PROVE FALSE
  BY <1>2, Zenon
<1>3. ASSUME UNCHANGED health PROVE FALSE
  BY <1>1, <1>3 DEF health
<1>4. ASSUME NEW i \in Slot, Refreshing(i), ~Body(i) PROVE FALSE
  <2>1. \/ UNCHANGED health \/ authorizationFailure \/ transportFailure
    BY <1>4 DEF Refreshing, Late, NoToken, Unauthorized, Unavailable, ExpiredBody, ListenersDone,
                Token, Answer, Refused, Fails
  <2> QED
    BY <1>2, <1>3, <2>1 DEF authorizationFailure, transportFailure
<1>5. CASE Use
  <2>1. healthy' = (IF accepted /\ ~Valid THEN FALSE ELSE healthy)
    BY <1>5 DEF Use, executionAllowed
  <2>2. healthy' = FALSE \/ healthy' = healthy
    BY <2>1, Zenon
  <2> QED
    BY <1>1, <1>2, <2>2
<1>6. CASE stop
  BY <1>2, <1>6 DEF stop, authorizationFailure
<1>7. CASE start \/ StartReturns \/ Interval \/ pauseForHandover \/ Edited
  BY <1>3, <1>7 DEF start, StartReturns, Interval, pauseForHandover, Edited
<1>8. ASSUME NEW now \in Time, Clock(now) PROVE FALSE
  BY <1>3, <1>8 DEF Clock
<1> QED
  BY <1>4, <1>5, <1>6, <1>7, <1>8 DEF Next

\* The registry reports itself healthy only with definitions that its credential
\* and its last check still allow, by the clock of that moment (getHealth, get).
THEOREM HealthTruthful == Spec => HealthyMeansUsable
<1>1. IInv /\ [Next]_vars => [healthy' /\ (Use \/ ~healthy) => Usable']_vars
  <2> SUFFICES ASSUME IInv, Next, healthy', Use \/ ~healthy PROVE Usable'
    OBVIOUS
  <2>1. CASE Use
    BY <2>1, UseUsable
  <2>2. CASE ~healthy
    BY <2>2, OnlyBodyHeals, BodyUsable
  <2> QED
    BY <2>1, <2>2
<1> QED
  BY <1>1, Invariant, PTL DEF Spec, HealthyMeansUsable

-----------------------------------------------------------------------------
(* What users see of a step.                                               *)

\* What is shown after the step is what was shown before, or nothing.
ShowsNoMore == version' = version /\ newest' = newest /\ (byId' = byId \/ byId' = NoRows)

LEMMA NoMoreShown == ASSUME ShowsNoMore PROVE [View!Next]_<<version, newest, byId>>
  BY DEF ShowsNoMore, View!Next, View!Hide, View!Nothing, NoRows

LEMMA BodyShows == ASSUME IInv, NEW i \in Slot, Body(i) PROVE View!Next
<1>1. /\ refresh[i].rows \in newest..version /\ refresh[i].rows # NoRows
      /\ newest \in 0..MaxVersion /\ version \in Version
  BY DEF IInv, TypeOK, AsksNewer, Body
<1>2. byId' = refresh[i].rows /\ newest' = refresh[i].rows /\ version' = version
  BY <1>1, Constants DEF Body, cacheRows, Version
<1> QED
  BY <1>1, <1>2 DEF View!Next, View!Show, View!Nothing, NoRows

LEMMA RefreshingShows ==
  ASSUME IInv, NEW i \in Slot, Refreshing(i)
  PROVE  Body(i) \/ ShowsNoMore
<1>1. CASE Late(i) \/ ListenersDone(i)
  BY <1>1 DEF Late, ListenersDone, cached, ShowsNoMore
<1>2. CASE NoToken(i) \/ Unauthorized(i) \/ ExpiredBody(i)
  <2>1. authorizationFailure /\ cacheRows(NoRows) /\ version' = version
    BY <1>2 DEF NoToken, Unauthorized, ExpiredBody, Refused
  <2> QED
    BY <2>1, RefusalKeeps DEF ShowsNoMore
<1>3. CASE Unavailable(i)
  <2>1. transportFailure /\ version' = version
    BY <1>3 DEF Unavailable, Fails
  <2> QED
    BY <2>1, TransportKeeps DEF ShowsNoMore
<1>4. ASSUME NEW expiry \in Expiry, Token(i, expiry) PROVE ShowsNoMore
  BY <1>4 DEF Token, cached, ShowsNoMore
<1>5. ASSUME NEW rows \in Version, Answer(i, rows) PROVE ShowsNoMore
  BY <1>5 DEF Answer, cached, ShowsNoMore
<1> QED
  BY <1>1, <1>2, <1>3, <1>4, <1>5 DEF Refreshing

LEMMA StepShows == IInv /\ [Next]_vars => [View!Next]_<<version, newest, byId>>
<1> SUFFICES ASSUME IInv, [Next]_vars PROVE [View!Next]_<<version, newest, byId>>
  OBVIOUS
<1>1. CASE start \/ StartReturns \/ Interval \/ pauseForHandover \/ UNCHANGED vars
  <2>1. UNCHANGED cached /\ version' = version
    BY <1>1 DEF start, StartReturns, Interval, pauseForHandover, Halts, vars
  <2> QED
    BY <2>1 DEF cached
<1>2. CASE stop
  <2>1. authorizationFailure /\ cacheRows(NoRows) /\ version' = version
    BY <1>2 DEF stop, Halts
  <2> QED
    BY <2>1, RefusalKeeps, NoMoreShown DEF ShowsNoMore
<1>3. ASSUME NEW i \in Slot, Refreshing(i) PROVE [View!Next]_<<version, newest, byId>>
  BY <1>3, RefreshingShows, BodyShows, NoMoreShown
<1>4. CASE Use
  <2>1. executionAllowed /\ version' = version
    BY <1>4 DEF Use
  <2> QED
    BY <2>1, UseKeeps, NoMoreShown DEF ShowsNoMore
<1>5. CASE Edited
  BY <1>5 DEF Edited, cached, View!Next, View!Edit
<1>6. ASSUME NEW now \in Time, Clock(now) PROVE [View!Next]_<<version, newest, byId>>
  BY <1>6 DEF Clock, cached
<1> QED
  BY <1>1, <1>2, <1>3, <1>4, <1>5, <1>6 DEF Next

\* The registry implements the view of the controller: whatever overlaps, fails, is
\* refused or paused, each step shows what was shown, nothing, or definitions of the
\* controller that are not older than any shown before (refreshOnce).
THEOREM RegistryShowsController == Spec => ShowsController
<1>1. Init => View!Init
  BY RegistryAssumption DEF Init, View!Init, View!Nothing, NoRows
<1> QED
  BY <1>1, StepShows, Invariant, PTL DEF Spec, ShowsController, View!Spec

-----------------------------------------------------------------------------
(* Triggers.                                                               *)

\* What the remembered state of a trigger on a level says of the condition.
Means(d, st, l) ==
  /\ d.kind \in {"high", "low"} =>
       /\ l = "unknown" => coerceNumber(st.seen) = Null
       /\ l \in {"below", "above"} => st.seen \in Number
  /\ d.kind = "high" => /\ l = "below" => st.seen <= d.threshold
                        /\ l = "above" => st.seen > d.threshold
  /\ d.kind = "low" => /\ l = "below" => st.seen >= d.threshold
                       /\ l = "above" => st.seen < d.threshold
  /\ d.kind = "compare" => /\ l = "unknown" => st.comparison = "none"
                           /\ l = "below" => st.comparison = "false"
                           /\ l = "above" => st.comparison = "true"
  /\ d.kind = "composite" => /\ l \in {"unknown", "below"} => ~st.composite
                             /\ l = "above" => st.composite

TriggerIInv ==
  /\ TriggerTypeOK
  /\ state.firedAt = lastFire
  /\ Means(trigger, state, level)
  /\ heard # Null => Threshold(trigger) /\ state.seen = heard
  /\ Threshold(trigger) /\ level \in {"below", "above"} => heard # Null

\* What an evaluation commits, apart from the time of a fire.
Commits(d, st, e, c) ==
  /\ e.next \in [seen : Reading, firedAt : {st.firedAt},
                 comparison : {"none", "true", "false"}, composite : BOOLEAN]
  /\ Means(d, e.next, Level(d, c))
  /\ e.edge /\ Levelled(d) =>
       Decided(d, c) /\ Holds(d, c) /\ level # "above" /\ (level = "unknown" => d.kind = "composite")
  /\ Levelled(d) /\ (level = "below" \/ (level = "unknown" /\ d.kind = "composite"))
       /\ Decided(d, c) /\ Holds(d, c) => e.edge
  /\ Threshold(d) => e.next.seen = IF Decided(d, c) THEN c[d.source].value ELSE st.seen

Caches == [Topic -> Entry \cup {Absent}]

LEMMA Numbers == /\ Null \in Reading /\ Null \notin Number /\ Null \notin Nat /\ Null = -1
                 /\ \A r \in Number : r \in Int /\ r \in Nat
                 /\ \A r : coerceNumber(r) = Null <=> r \notin Number
                 /\ \A r \in Number : coerceNumber(r) = r
  BY TriggerAssumption DEF Null, coerceNumber, Reading

LEMMA Cached ==
  ASSUME NEW c \in Caches, NEW t \in Topic
  PROVE  c[t].value \in Reading
<1>1. CASE c[t] = Absent
  BY <1>1, Numbers DEF Absent
<1>2. CASE c[t] \in Entry
  BY <1>2 DEF Entry
<1> QED
  BY <1>1, <1>2 DEF Caches

LEMMA Defined ==
  ASSUME TriggerTypeOK
  PROVE  /\ trigger \in Definition
         /\ trigger.kind \in {"high", "low", "event", "compare", "string", "composite"}
         /\ trigger.source \in Topic /\ trigger.peer \in Topic
         /\ trigger.threshold \in Int
         /\ trigger.conditions \in SUBSET [topic : Topic, predicate : STRING, value : Reading]
<1>1. trigger \in Definition
  BY TriggerAssumption DEF TriggerTypeOK
<1> QED
  BY <1>1 DEF Definition

\* The source decides a trigger on a threshold.
LEMMA ThresholdCommits ==
  ASSUME TriggerIInv, trigger.kind \in {"high", "low"}, NEW c \in Caches
  PROVE  LET in == c[trigger.source].value
         IN /\ trigger.kind = "high" => Commits(trigger, state, evaluateHigh(trigger, in, state), c)
            /\ trigger.kind = "low" => Commits(trigger, state, evaluateLow(trigger, in, state), c)
<1> DEFINE in == c[trigger.source].value
<1>1. in \in Reading
  BY Cached, Defined DEF TriggerIInv
<1>2. state \in [seen : Reading, firedAt : 0..wallClock \cup {Null},
                 comparison : {"none", "true", "false"}, composite : BOOLEAN]
  BY DEF TriggerIInv, TriggerTypeOK
<1>3. level \in {"unknown", "redefined", "below", "above"}
  BY DEF TriggerIInv, TriggerTypeOK
<1>4. Means(trigger, state, level) /\ trigger.threshold \in Int
  BY Defined DEF TriggerIInv
<1>5. /\ Threshold(trigger) /\ (Decided(trigger, c) <=> in \in Number)
      /\ Holds(trigger, c) <=> Beyond(trigger, in)
  BY Numbers DEF Decided, Holds, Threshold, lookupNumber
<1>6. CASE in \notin Number
  <2>1. Level(trigger, c) = level
    BY <1>5, <1>6 DEF Level
  <2>2. /\ evaluateHigh(trigger, in, state) = Keep(state)
        /\ evaluateLow(trigger, in, state) = Keep(state)
    BY <1>6, Numbers DEF evaluateHigh, evaluateLow
  <2> QED
    BY <1>2, <1>4, <1>5, <1>6, <2>1, <2>2 DEF Commits, Keep
<1>7. CASE in \in Number
  <2> DEFINE next == [state EXCEPT !.seen = in]
  <2>1. /\ next \in [seen : Reading, firedAt : {state.firedAt},
                     comparison : {"none", "true", "false"}, composite : BOOLEAN]
        /\ next.seen = in
    BY <1>1, <1>2
  <2>2. /\ evaluateHigh(trigger, in, state) =
             Judged(next, /\ coerceNumber(state.seen) # Null
                          /\ coerceNumber(state.seen) <= trigger.threshold
                          /\ in > trigger.threshold)
        /\ evaluateLow(trigger, in, state) =
             Judged(next, /\ coerceNumber(state.seen) # Null
                          /\ coerceNumber(state.seen) >= trigger.threshold
                          /\ in < trigger.threshold)
    BY <1>7, Numbers DEF evaluateHigh, evaluateLow
  <2>3. in \in Int /\ (state.seen \in Number => state.seen \in Int)
    BY <1>7, Numbers
  <2>4. CASE trigger.kind = "high"
    <3>1. Holds(trigger, c) <=> in > trigger.threshold
      BY <1>5, <2>4 DEF Beyond
    <3>2. Level(trigger, c) = IF in > trigger.threshold THEN "above" ELSE "below"
      BY <1>5, <1>7, <3>1 DEF Level
    <3>3. Means(trigger, next, Level(trigger, c))
      BY <1>4, <1>7, <2>1, <2>3, <2>4, <3>2 DEF Means
    <3>4. /\ coerceNumber(state.seen) # Null /\ coerceNumber(state.seen) <= trigger.threshold
             => level \in {"below", "redefined"}
          /\ level = "below" => /\ coerceNumber(state.seen) # Null
                                /\ coerceNumber(state.seen) <= trigger.threshold
      BY <1>3, <1>4, <2>3, <2>4, Numbers DEF Means
    <3> QED
      BY <1>5, <1>7, <2>1, <2>2, <2>4, <3>1, <3>3, <3>4 DEF Commits, Judged
  <2>5. CASE trigger.kind = "low"
    <3>1. Holds(trigger, c) <=> in < trigger.threshold
      BY <1>5, <2>5 DEF Beyond
    <3>2. Level(trigger, c) = IF in < trigger.threshold THEN "above" ELSE "below"
      BY <1>5, <1>7, <3>1 DEF Level
    <3>3. Means(trigger, next, Level(trigger, c))
      BY <1>4, <1>7, <2>1, <2>3, <2>5, <3>2 DEF Means
    <3>4. /\ coerceNumber(state.seen) # Null /\ coerceNumber(state.seen) >= trigger.threshold
             => level \in {"below", "redefined"}
          /\ level = "below" => /\ coerceNumber(state.seen) # Null
                                /\ coerceNumber(state.seen) >= trigger.threshold
      BY <1>3, <1>4, <2>3, <2>5, Numbers DEF Means
    <3> QED
      BY <1>5, <1>7, <2>1, <2>2, <2>5, <3>1, <3>3, <3>4 DEF Commits, Judged
  <2> QED
    BY <2>4, <2>5
<1> QED
  BY <1>6, <1>7

LEMMA EventCommits ==
  ASSUME TriggerIInv, trigger.kind \in {"event", "string"}, NEW c \in Caches, NEW in \in Reading
  PROVE  Commits(trigger, state, evaluateEvent(trigger, in, state), c)
<1>1. state \in [seen : Reading, firedAt : 0..wallClock \cup {Null},
                 comparison : {"none", "true", "false"}, composite : BOOLEAN]
  BY DEF TriggerIInv, TriggerTypeOK
<1>2. evaluateEvent(trigger, in, state).next \in
        [seen : Reading, firedAt : {state.firedAt},
         comparison : {"none", "true", "false"}, composite : BOOLEAN]
  BY <1>1 DEF evaluateEvent, Keep, Judged
<1> QED
  BY <1>2 DEF Commits, Means, Levelled, Threshold

\* The incoming value is cached already, so both operands are the cache's.
LEMMA CompareCommits ==
  ASSUME TriggerIInv, trigger.kind = "compare", NEW c \in Caches,
         NEW t \in {trigger.source, trigger.peer}
  PROVE  Commits(trigger, state, evaluateCompare(trigger, t, c[t].value, state, c), c)
<1> DEFINE result == Compared(trigger, t, c[t].value, c)
           seen   == [state EXCEPT !.seen = c[t].value]
           e      == evaluateCompare(trigger, t, c[t].value, state, c)
<1>1. t \in Topic /\ c[t].value \in Reading
  BY Cached, Defined DEF TriggerIInv
<1>2. state \in [seen : Reading, firedAt : 0..wallClock \cup {Null},
                 comparison : {"none", "true", "false"}, composite : BOOLEAN]
  BY DEF TriggerIInv, TriggerTypeOK
<1>3. /\ level \in {"unknown", "redefined", "below", "above"}
      /\ Means(trigger, state, level)
  BY DEF TriggerIInv, TriggerTypeOK
<1>4. result = IF ~Decided(trigger, c) THEN "none"
               ELSE IF Holds(trigger, c) THEN "true" ELSE "false"
  <2> DEFINE left  == lookupNumber(c, trigger.source)
             right == lookupNumber(c, trigger.peer)
  <2>1. result = IF Null \in {left, right} THEN "none"
                 ELSE IF applyOperator(trigger.operator, left, right) THEN "true" ELSE "false"
    BY DEF Compared, lookupNumber
  <2>2. Decided(trigger, c) <=> left # Null /\ right # Null
    BY DEF Decided, Threshold
  <2>3. left # Null /\ right # Null =>
          left = c[trigger.source].value /\ right = c[trigger.peer].value
    BY Numbers DEF lookupNumber, coerceNumber
  <2>4. Holds(trigger, c) =
          applyOperator(trigger.operator, c[trigger.source].value, c[trigger.peer].value)
    BY DEF Holds, Threshold
  <2> HIDE DEF left, right
  <2> QED
    BY <2>1, <2>2, <2>3, <2>4
<1>5. coerceNumber(c[t].value) = Null => ~Decided(trigger, c)
  BY DEF Decided, Threshold, lookupNumber
<1>6. seen \in [seen : Reading, firedAt : {state.firedAt},
                comparison : {"none", "true", "false"}, composite : BOOLEAN]
  BY <1>1, <1>2
<1>7. CASE ~Decided(trigger, c)
  <2>1. Level(trigger, c) = level
    BY <1>7 DEF Level
  <2>2. e = Keep(state) \/ e = Keep(seen)
    BY <1>4, <1>7 DEF evaluateCompare
  <2>3. Means(trigger, seen, level)
    BY <1>2, <1>3 DEF Means
  <2> QED
    BY <1>2, <1>3, <1>6, <1>7, <2>1, <2>2, <2>3 DEF Commits, Keep, Threshold
<1>8. CASE Decided(trigger, c)
  <2> DEFINE next == [seen EXCEPT !.comparison = result]
  <2>1. e = Judged(next, state.comparison = "false" /\ result = "true")
    BY <1>4, <1>5, <1>8 DEF evaluateCompare
  <2>2. /\ next \in [seen : Reading, firedAt : {state.firedAt},
                     comparison : {"none", "true", "false"}, composite : BOOLEAN]
        /\ next.comparison = result
    BY <1>4, <1>6
  <2>3. Level(trigger, c) = IF Holds(trigger, c) THEN "above" ELSE "below"
    BY <1>8 DEF Level
  <2>4. Means(trigger, next, Level(trigger, c))
    BY <1>4, <1>8, <2>2, <2>3 DEF Means
  <2>5. /\ state.comparison = "false" => level \in {"below", "redefined"}
        /\ level = "below" => state.comparison = "false"
    BY <1>3 DEF Means
  <2> SUFFICES Commits(trigger, state, e, c)
    OBVIOUS
  <2> HIDE DEF e, next, result
  <2>6. e.next = next /\ e.edge = (state.comparison = "false" /\ result = "true")
    BY <2>1 DEF Judged
  <2> QED
    BY <1>4, <1>8, <2>2, <2>4, <2>5, <2>6 DEF Commits, Threshold
<1> QED
  BY <1>7, <1>8

LEMMA CompositeCommits ==
  ASSUME TriggerIInv, trigger.kind = "composite", NEW c \in Caches
  PROVE  Commits(trigger, state, evaluateComposite(trigger, state, c), c)
<1> DEFINE e == evaluateComposite(trigger, state, c)
<1>1. state \in [seen : Reading, firedAt : 0..wallClock \cup {Null},
                 comparison : {"none", "true", "false"}, composite : BOOLEAN]
  BY DEF TriggerIInv, TriggerTypeOK
<1>2. /\ level \in {"unknown", "redefined", "below", "above"}
      /\ Means(trigger, state, level)
  BY DEF TriggerIInv, TriggerTypeOK
<1>3. /\ Decided(trigger, c) <=> trigger.conditions # {}
      /\ Holds(trigger, c) = Joined(trigger, c)
  BY DEF Decided, Holds, Threshold
<1>4. CASE trigger.conditions = {}
  <2>1. Level(trigger, c) = level
    BY <1>3, <1>4 DEF Level
  <2>2. e = Keep(state)
    BY <1>4 DEF evaluateComposite
  <2> QED
    BY <1>1, <1>2, <1>3, <1>4, <2>1, <2>2 DEF Commits, Keep, Threshold
<1>5. CASE trigger.conditions # {}
  <2> DEFINE next == [state EXCEPT !.composite = Joined(trigger, c)]
  <2>1. e.next = next /\ e.edge = (~state.composite /\ Joined(trigger, c))
    BY <1>5 DEF evaluateComposite, Judged
  <2>2. Joined(trigger, c) \in BOOLEAN
    BY DEF Joined
  <2>3. /\ next \in [seen : Reading, firedAt : {state.firedAt},
                     comparison : {"none", "true", "false"}, composite : BOOLEAN]
        /\ next.composite = Joined(trigger, c)
    BY <1>1, <2>2
  <2>4. Level(trigger, c) = IF Joined(trigger, c) THEN "above" ELSE "below"
    BY <1>3, <1>5 DEF Level
  <2>5. Means(trigger, next, Level(trigger, c))
    BY <2>3, <2>4 DEF Means
  <2>6. /\ ~state.composite => level # "above"
        /\ level \in {"unknown", "below"} => ~state.composite
    BY <1>2 DEF Means
  <2> SUFFICES Commits(trigger, state, e, c)
    OBVIOUS
  <2> HIDE DEF e, next
  <2> QED
    BY <1>3, <1>5, <2>1, <2>3, <2>5, <2>6 DEF Commits, Threshold
<1> QED
  BY <1>4, <1>5

LEMMA EvaluationCommits ==
  ASSUME TriggerIInv, NEW c \in Caches, NEW t \in Watched(trigger)
  PROVE  Commits(trigger, state, Evaluated(trigger, t, c[t].value, state, c), c)
<1>1. CASE trigger.kind \in {"high", "low"}
  <2>1. t = trigger.source
    BY <1>1 DEF Watched
  <2> QED
    BY <1>1, <2>1, ThresholdCommits DEF Evaluated
<1>2. CASE trigger.kind \in {"event", "string"}
  <2>1. t = trigger.source /\ t \in Topic
    BY <1>2, Defined DEF Watched, TriggerIInv
  <2> QED
    BY <1>2, <2>1, Cached, EventCommits DEF Evaluated
<1>3. CASE trigger.kind = "compare"
  <2>1. t \in {trigger.source, trigger.peer}
    BY <1>3 DEF Watched
  <2> QED
    BY <1>3, <2>1, CompareCommits DEF Evaluated
<1>4. CASE trigger.kind = "composite"
  BY <1>4, CompositeCommits DEF Evaluated
<1> QED
  BY <1>1, <1>2, <1>3, <1>4, Defined DEF TriggerIInv

-----------------------------------------------------------------------------
(* The invariant.                                                          *)

LEMMA TriggersInitially == TriggerInit => TriggerIInv
<1> SUFFICES ASSUME TriggerInit PROVE TriggerIInv
  OBVIOUS
<1>1. /\ wallClock = 0 /\ 0 \in WallTime
      /\ trigger \in Definitions
      /\ level = "unknown" /\ heard = Null
  BY TriggerAssumption DEF TriggerInit, WallTime
<1>2. state \in [seen : Reading, firedAt : 0..wallClock \cup {Null},
                 comparison : {"none", "true", "false"}, composite : BOOLEAN]
  BY Numbers DEF TriggerInit, FRESH_STATE
<1>3. TriggerTypeOK
  BY <1>1, <1>2 DEF TriggerInit, TriggerTypeOK
<1>4. Means(trigger, state, level)
  BY Numbers DEF TriggerInit, FRESH_STATE, Means
<1> QED
  BY <1>1, <1>3, <1>4 DEF TriggerInit, FRESH_STATE, TriggerIInv

\* An evaluation, with the entries the message left in the cache.
LEMMA MessageStep ==
  ASSUME TriggerIInv, NEW t \in Topic, cache' \in Caches, onMessage(t),
         UNCHANGED <<wallClock, trigger, enabled>>
  PROVE  /\ TriggerIInv'
         /\ outcome' = "fired" =>
              /\ CooledDown(trigger, lastFire, wallClock)
              /\ Levelled(trigger) => /\ Decided(trigger, cache') /\ Holds(trigger, cache')
                                      /\ level # "above"
                                      /\ level = "unknown" => trigger.kind = "composite"
              /\ trigger.kind = "string" => gatherSnapshots(trigger, wallClock, cache')
         /\ outcome' # "none" /\ Levelled(trigger) /\ Armed
              /\ Decided(trigger, cache') /\ Holds(trigger, cache')
              /\ CooledDown(trigger, lastFire, wallClock) => outcome' = "fired"
<1> DEFINE e     == Evaluated(trigger, t, cache'[t].value, state, cache')
           fired == Fires(trigger, e, wallClock, cache')
<1>1. CASE ~(enabled /\ t \in Watched(trigger) /\ cache'[t] # Absent)
  <2>1. outcome' = "none" /\ UNCHANGED <<state, lastFire, level, heard>>
    BY <1>1 DEF onMessage
  <2>2. TriggerIInv'
    BY <2>1 DEF TriggerIInv, TriggerTypeOK, Means, Caches
  <2> QED
    BY <2>1, <2>2
<1>2. CASE enabled /\ t \in Watched(trigger) /\ cache'[t] # Absent
  <2>1. /\ state' = IF fired THEN FiredAt(e.next, wallClock) ELSE e.next
        /\ outcome' = IF fired THEN "fired" ELSE "suppressed"
        /\ lastFire' = IF fired THEN wallClock ELSE lastFire
        /\ level' = Level(trigger, cache')
        /\ heard' = IF Threshold(trigger) /\ cache'[t].value \in Number
                    THEN cache'[t].value ELSE heard
    BY <1>2 DEF onMessage, evaluateOne
  <2>2. Commits(trigger, state, e, cache')
    BY <1>2, EvaluationCommits
  <2> HIDE DEF e
  <2>3. /\ e.next \in [seen : Reading, firedAt : {state.firedAt},
                       comparison : {"none", "true", "false"}, composite : BOOLEAN]
        /\ Means(trigger, e.next, level')
    BY <2>1, <2>2 DEF Commits
  <2>4. state.firedAt = lastFire /\ lastFire \in 0..wallClock \cup {Null} /\ wallClock \in Int
        /\ 0 <= wallClock
    BY DEF TriggerIInv, TriggerTypeOK, WallTime
  <2>5. fired <=> /\ e.edge /\ CooledDown(trigger, lastFire, wallClock)
                  /\ trigger.kind = "string" => gatherSnapshots(trigger, wallClock, cache')
    BY <2>3, <2>4 DEF Fires
  <2> HIDE DEF fired
  <2>6. /\ state' \in [seen : Reading, firedAt : 0..wallClock \cup {Null},
                       comparison : {"none", "true", "false"}, composite : BOOLEAN]
        /\ state'.firedAt = lastFire'
        /\ state'.seen = e.next.seen /\ state'.comparison = e.next.comparison
        /\ state'.composite = e.next.composite
    <3>1. CASE fired
      BY <2>1, <2>3, <2>4, <3>1 DEF FiredAt
    <3>2. CASE ~fired
      BY <2>1, <2>3, <2>4, <3>2
    <3> QED
      BY <3>1, <3>2
  <2>7. Means(trigger, state', level')
    BY <2>3, <2>6 DEF Means
  <2>8. level' \in {"unknown", "redefined", "below", "above"}
    BY <2>1 DEF Level, TriggerIInv, TriggerTypeOK
  <2>9. TriggerTypeOK'
    BY <2>1, <2>4, <2>6, <2>8 DEF TriggerIInv, TriggerTypeOK, Caches
  <2>10. Threshold(trigger) =>
           /\ Decided(trigger, cache') <=> cache'[t].value \in Number
           /\ e.next.seen = IF Decided(trigger, cache') THEN cache'[t].value ELSE state.seen
    BY <1>2, <2>2, Numbers DEF Commits, Decided, Threshold, Watched, lookupNumber
  <2>11. /\ heard' # Null => Threshold(trigger) /\ state'.seen = heard'
         /\ Threshold(trigger) /\ level' \in {"below", "above"} => heard' # Null
    <3>1. CASE Threshold(trigger) /\ cache'[t].value \in Number
      BY <2>1, <2>6, <2>10, <3>1, Numbers
    <3>2. CASE ~(Threshold(trigger) /\ cache'[t].value \in Number)
      BY <2>1, <2>6, <2>10, <3>2 DEF TriggerIInv, Level
    <3> QED
      BY <3>1, <3>2
  <2>12. TriggerIInv'
    BY <2>6, <2>7, <2>9, <2>11 DEF TriggerIInv, Threshold
  <2>13. Levelled(trigger) => trigger.kind # "string"
    BY DEF Levelled, Threshold
  <2> QED
    BY <2>1, <2>2, <2>5, <2>12, <2>13 DEF Commits, Armed
<1> QED
  BY <1>1, <1>2

LEMMA InputStep ==
  ASSUME TriggerIInv, NEW t \in Topic, NEW r \in Reading, Input(t, r)
  PROVE  cache' \in Caches /\ onMessage(t) /\ UNCHANGED <<wallClock, trigger, enabled>>
<1>1. [value |-> r, receivedAt |-> wallClock] \in Entry
  BY DEF TriggerIInv, TriggerTypeOK, Entry
<1> QED
  BY <1>1 DEF Input, TriggerIInv, TriggerTypeOK, Caches

LEMMA BadInputStep ==
  ASSUME TriggerIInv, NEW t \in Topic, BadInput(t)
  PROVE  cache' \in Caches /\ onMessage(t) /\ UNCHANGED <<wallClock, trigger, enabled>>
  BY DEF BadInput, TriggerIInv, TriggerTypeOK, Caches

\* An edit: the last number is what the state has seen.
LEMMA EditStep ==
  ASSUME TriggerIInv, NEW d \in Definitions, Redefine(d)
  PROVE  TriggerIInv' /\ outcome' = "none"
<1>1. /\ trigger' = d /\ level' = LevelUnder(d) /\ heard' = HeardUnder(d) /\ outcome' = "none"
      /\ UNCHANGED <<wallClock, cache, enabled, state, lastFire>>
  BY DEF Redefine
<1>2. /\ level \in {"unknown", "redefined", "below", "above"} /\ heard \in Number \cup {Null}
      /\ Means(trigger, state, level)
      /\ heard # Null => Threshold(trigger) /\ state.seen = heard
      /\ Threshold(trigger) /\ level \in {"below", "above"} => heard # Null
  BY DEF TriggerIInv, TriggerTypeOK
<1>3. d.threshold \in Int /\ (heard # Null => heard \in Int /\ heard \in Number)
  BY <1>2, TriggerAssumption, Numbers DEF Definition
<1>4. /\ level' \in {"unknown", "redefined", "below", "above"} /\ heard' \in Number \cup {Null}
      /\ Means(d, state, level')
      /\ heard' # Null => Threshold(d) /\ state.seen = heard'
      /\ Threshold(d) /\ level' \in {"below", "above"} => heard' # Null
  <2>1. CASE Threshold(trigger) /\ Threshold(d) /\ d.source = trigger.source
    <3>1. /\ heard' = heard
          /\ level' = IF heard = Null THEN level ELSE IF Beyond(d, heard) THEN "above" ELSE "below"
      BY <1>1, <2>1 DEF LevelUnder, HeardUnder, Threshold
    <3>2. CASE heard = Null
      BY <1>2, <2>1, <3>1, <3>2 DEF Means, Threshold
    <3>3. CASE heard # Null
      BY <1>2, <1>3, <2>1, <3>1, <3>3 DEF Means, Threshold, Beyond
    <3> QED
      BY <3>2, <3>3
  <2>2. CASE ~(Threshold(trigger) /\ Threshold(d) /\ d.source = trigger.source)
    <3>1. /\ heard' = Null
          /\ level' = "redefined" \/ (/\ level' = level /\ d.kind = trigger.kind
                                       /\ d.kind \in {"compare", "composite"})
      BY <1>1, <2>2 DEF LevelUnder, HeardUnder
    <3> QED
      BY <1>2, <3>1 DEF Means, Threshold
  <2> QED
    BY <2>1, <2>2
<1>5. TriggerTypeOK'
  BY <1>1, <1>4 DEF TriggerIInv, TriggerTypeOK
<1> QED
  BY <1>1, <1>4, <1>5 DEF TriggerIInv, Threshold

\* Between messages, nothing that the trigger remembers changes unnoticed.
LEMMA QuietStep ==
  ASSUME TriggerIInv, [TriggerNext]_triggerVars,
         ~\E t \in Topic : BadInput(t) \/ \E r \in Reading : Input(t, r)
  PROVE  TriggerIInv' /\ (outcome' = "none" \/ UNCHANGED triggerVars)
<1> USE DEF TriggerIInv, TriggerTypeOK
<1>1. CASE \E t \in Topic, r \in Reading, at \in WallTime : Recover(t, r, at)
  <2> PICK t \in Topic, r \in Reading, at \in WallTime : Recover(t, r, at)
    BY <1>1
  <2>1. [value |-> r, receivedAt |-> at] \in Entry
    BY DEF Entry
  <2>2. TriggerTypeOK'
    BY <2>1 DEF Recover
  <2> QED
    BY <2>2 DEF Recover, Means
<1>2. CASE \E d \in Definitions : Redefine(d)
  BY <1>2, EditStep
<1>3. CASE Evict
  <2>1. cache' \in [Topic -> Entry \cup {Absent}]
    BY <1>3 DEF Evict
  <2>2. UNCHANGED <<wallClock, trigger, enabled, state, level, heard, lastFire>> /\ outcome' = "none"
    BY <1>3 DEF Evict
  <2> QED
    BY <2>1, <2>2 DEF Means
<1>4. CASE Tick
  <2>1. wallClock' \in WallTime /\ 0..wallClock \subseteq 0..wallClock'
    BY <1>4, TriggerAssumption DEF Tick, WallTime
  <2>2. state \in [seen : Reading, firedAt : 0..wallClock' \cup {Null},
                   comparison : {"none", "true", "false"}, composite : BOOLEAN]
    BY <2>1
  <2> QED
    BY <1>4, <2>1, <2>2 DEF Tick, Means
<1>5. CASE Toggle
  BY <1>5 DEF Toggle, Means
<1>6. CASE Restart
  <2>1. /\ state' = FRESH_STATE /\ level' = "unknown" /\ heard' = Null /\ trigger' = trigger
        /\ lastFire' = Null /\ outcome' = "none" /\ wallClock' = wallClock /\ enabled' = enabled
        /\ cache' = [t \in Topic |-> Absent]
    BY <1>6 DEF Restart
  <2>2. FRESH_STATE \in [seen : Reading, firedAt : 0..wallClock \cup {Null},
                         comparison : {"none", "true", "false"}, composite : BOOLEAN]
    BY Numbers DEF FRESH_STATE
  <2>3. Means(trigger', state', level')
    BY <2>1, Numbers DEF FRESH_STATE, Means
  <2>4. TriggerTypeOK'
    BY <2>1, <2>2, <2>3
  <2> QED
    BY <2>1, <2>3, <2>4 DEF FRESH_STATE
<1>7. CASE Handover
  <2>1. cache' \in [Topic -> Entry \cup {Absent}]
    BY <1>7 DEF Handover
  <2>2. UNCHANGED <<wallClock, trigger, enabled, state, level, heard, lastFire>> /\ outcome' = "none"
    BY <1>7 DEF Handover, importMigrationState
  <2> QED
    BY <2>1, <2>2 DEF Means
<1>8. CASE UNCHANGED triggerVars
  BY <1>8 DEF triggerVars, Means
<1> QED
  BY <1>1, <1>2, <1>3, <1>4, <1>5, <1>6, <1>7, <1>8 DEF TriggerNext

LEMMA TriggerStep == TriggerIInv /\ [TriggerNext]_triggerVars => TriggerIInv'
<1> SUFFICES ASSUME TriggerIInv, [TriggerNext]_triggerVars PROVE TriggerIInv'
  OBVIOUS
<1>1. CASE \E t \in Topic : BadInput(t) \/ \E r \in Reading : Input(t, r)
  BY <1>1, InputStep, BadInputStep, MessageStep
<1> QED
  BY <1>1, QuietStep

LEMMA TriggerInvariant == TriggerSpec => []TriggerIInv
<1> QED
  BY TriggersInitially, TriggerStep, PTL DEF TriggerSpec

\* Every variable has its type, and no fire is dated in the future.
THEOREM TriggerTypeCorrect == TriggerSpec => []TriggerTypeOK
<1>1. TriggerIInv => TriggerTypeOK
  BY DEF TriggerIInv
<1> QED
  BY <1>1, TriggerInvariant, PTL

\* Where the messages said that a condition holds, none fires it again: evictions,
\* recoveries, handovers, disabled periods and edits of the cooldown or of a
\* threshold cannot make the remembered state (service.ts, evaluator.ts) disagree
\* with what was last said.  A restart leaves thresholds and comparisons to be
\* armed first, and a composite free to fire.
THEOREM OneFirePerRise == TriggerSpec => FiresOnRise
<1> DEFINE A == outcome' = "fired" =>
       /\ Levelled(trigger) => /\ Decided(trigger, cache') /\ Holds(trigger, cache')
                               /\ level # "above"
                               /\ level = "unknown" => trigger.kind = "composite"
       /\ trigger.kind = "string" =>
            \A t \in trigger.snapshots : wallClock - cache'[t].receivedAt <= trigger.staleAfter
<1>1. TriggerIInv /\ [TriggerNext]_triggerVars => [A]_triggerVars
  <2> SUFFICES ASSUME TriggerIInv, [TriggerNext]_triggerVars PROVE A \/ UNCHANGED triggerVars
    OBVIOUS
  <2>1. CASE \E t \in Topic : BadInput(t) \/ \E r \in Reading : Input(t, r)
    BY <2>1, InputStep, BadInputStep, MessageStep DEF gatherSnapshots
  <2> QED
    BY <2>1, QuietStep
<1> QED
  BY <1>1, TriggerInvariant, PTL DEF TriggerSpec, FiresOnRise

\* And it does fire, unless the cooldown of an earlier fire is not over.
THEOREM EveryRiseFires == TriggerSpec => RiseFires
<1> DEFINE A == /\ outcome' # "none" /\ Levelled(trigger)
                /\ Armed /\ Decided(trigger, cache') /\ Holds(trigger, cache')
                /\ CooledDown(trigger, lastFire, wallClock)
                => outcome' = "fired"
<1>1. TriggerIInv /\ [TriggerNext]_triggerVars => [A]_triggerVars
  <2> SUFFICES ASSUME TriggerIInv, [TriggerNext]_triggerVars PROVE A \/ UNCHANGED triggerVars
    OBVIOUS
  <2>1. CASE \E t \in Topic : BadInput(t) \/ \E r \in Reading : Input(t, r)
    BY <2>1, InputStep, BadInputStep, MessageStep
  <2> QED
    BY <2>1, QuietStep
<1> QED
  BY <1>1, TriggerInvariant, PTL DEF TriggerSpec, RiseFires

\* Two fires are a cooldown apart, whatever came between them but a restart.
THEOREM CooldownAlwaysKept == TriggerSpec => CooldownKept
<1> DEFINE A == outcome' = "fired" => CooledDown(trigger, lastFire, wallClock)
<1>1. TriggerIInv /\ [TriggerNext]_triggerVars => [A]_triggerVars
  <2> SUFFICES ASSUME TriggerIInv, [TriggerNext]_triggerVars PROVE A \/ UNCHANGED triggerVars
    OBVIOUS
  <2>1. CASE \E t \in Topic : BadInput(t) \/ \E r \in Reading : Input(t, r)
    BY <2>1, InputStep, BadInputStep, MessageStep
  <2> QED
    BY <2>1, QuietStep
<1> QED
  BY <1>1, TriggerInvariant, PTL DEF TriggerSpec, CooldownKept
=============================================================================
