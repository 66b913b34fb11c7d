------------------------- MODULE QueryWorkloadProofs -------------------------
(***************************************************************************)
(* Theorems about QueryWorkload, for any number of calls, statements,      *)
(* owners, slots and waiting reads.                                        *)
(***************************************************************************)
EXTENDS QueryWorkload, FilteringProofs

Phase     == {"returned", "joined", "resolved", "queued", "granted", "executing", "settled"}
Holding   == {q \in Call : phase[q] \in {"granted", "executing"}}
Followers == {q \in Call : phase[q] \in {"joined", "resolved"}}
Queued    == {q \in Call : phase[q] = "queued"}
Rank(q)   == priority[Class(q)]

\* The queue holds each queued call once.
QueueFits == Distinct(queue) /\ Range(queue) = Queued

\* active counts the calls that hold a slot; nobody waits for a free one.
SlotsFit == /\ active = Cardinality(Holding) /\ active <= MaxConcurrent
            /\ queue # <<>> => active = MaxConcurrent

\* coalescedWaiters counts the followers, and the bound is kept.
WaitersFit == coalescedWaiters = Cardinality(Followers) /\ Len(queue) + coalescedWaiters <= MaxQueued

\* A read has one entry until its owner returns.
EntriesFit ==
  /\ inFlight = {q \in Call : phase[q] \in Reading \cup {"settled"}}
  /\ \A p, q \in inFlight : sql[p] = sql[q] /\ scope[p] = scope[q] => p = q

\* A call follows one read, of its own owner, that ranks at least as high.
FollowersFit ==
  \A p \in Call : \A q \in joined[p] :
    /\ phase[q] = "joined" /\ p \in inFlight /\ scope[q] = scope[p]
    /\ Rank(p) <= Rank(q)
    /\ \A o \in Call : q \in joined[o] => o = p

\* A call has an outcome once its read is over.
OutcomesFit ==
  /\ \A q \in Call : phase[q] \notin {"settled", "resolved"} => outcome[q] = "none"
  /\ CancelIsOwn

IInv == /\ TypeOK /\ QueueFits /\ SlotsFit /\ WaitersFit /\ EntriesFit /\ FollowersFit
        /\ OutcomesFit

-----------------------------------------------------------------------------
(* Facts about the queue and the ranks.                                    *)

LEMMA Ranks ==
  /\ \A v \in Workload : priority[v] \in 0..2
  /\ \A v, w \in Workload : /\ MoreUrgent(w, v) \in Workload
                            /\ priority[MoreUrgent(w, v)] <= priority[w]
                            /\ priority[MoreUrgent(w, v)] <= priority[v]
  BY DEF Workload, priority, MoreUrgent

LEMMA Finite == ASSUME NEW S \in SUBSET Call
                PROVE  IsFiniteSet(S) /\ Cardinality(S) \in Nat
  BY WorkloadAssumption, FS_Subset, FS_CardinalityType

\* First picks an element of a non-empty set of places.
LEMMA FirstIsIn == ASSUME NEW S \in SUBSET Nat, S # {} PROVE First(S) \in S
<1>1. \E i \in S : \A j \in S : i <= j
  BY LeastElement
<1> QED
  BY <1>1 DEF First

LEMMA ClassType == ASSUME TypeOK, NEW q \in Call PROVE Class(q) \in Workload /\ Rank(q) \in 0..2
  BY Ranks DEF TypeOK, Class, admission, Rank

\* release finds somebody who waits.
LEMMA SelectedIsIn == ASSUME TypeOK, queue # <<>> PROVE Selected \in DOMAIN queue
<1>1. DOMAIN queue = 1 .. Len(queue) /\ Len(queue) \in Nat /\ DOMAIN queue # {}
      /\ \A i \in DOMAIN queue : queue[i] \in Call
  <2>1. queue \in Seq(Call)
    BY DEF TypeOK
  <2>2. Len(queue) # 0
    BY <2>1
  <2>3. Len(queue) \in Nat /\ DOMAIN queue = 1 .. Len(queue)
        /\ \A i \in DOMAIN queue : queue[i] \in Call
    BY <2>1
  <2>4. 1 \in DOMAIN queue
    BY <2>2, <2>3
  <2> QED
    BY <2>3, <2>4
<1>2. CASE Waiting("latest-recovery") # {} /\ interactiveStreak >= 2
  <2>1. Waiting("latest-recovery") \in SUBSET Nat /\ Waiting("latest-recovery") \subseteq DOMAIN queue
    BY <1>1 DEF Waiting
  <2> QED
    BY <1>2, <2>1, FirstIsIn DEF Selected
<1>3. CASE ~(Waiting("latest-recovery") # {} /\ interactiveStreak >= 2)
  <2> DEFINE U == {i \in DOMAIN queue :
                     \A j \in DOMAIN queue : priority[Class(queue[i])] <= priority[Class(queue[j])]}
             R == {priority[Class(queue[i])] : i \in DOMAIN queue}
  <2>1. R \in SUBSET Nat /\ R # {}
    BY <1>1, ClassType DEF Rank
  <2>2. PICK m \in R : \A n \in R : m <= n
    <3> HIDE DEF R
    <3> QED
      BY <2>1, LeastElement
  <2>3. U # {} /\ U \in SUBSET Nat /\ U \subseteq DOMAIN queue
    BY <1>1, <2>2, SMTT(20)
  <2>4. First(U) \in U
    <3> HIDE DEF U
    <3> QED
      BY <2>3, FirstIsIn
  <2> QED
    BY <1>3, <2>3, <2>4 DEF Selected, MostUrgent
<1> QED
  BY <1>2, <1>3

\* Taking one call out of the queue.
LEMMA RemovedAt ==
  ASSUME TypeOK, QueueFits, NEW i \in DOMAIN queue
  PROVE  /\ RemoveAt(queue, i) \in Seq(Call) /\ Distinct(RemoveAt(queue, i))
         /\ Range(RemoveAt(queue, i)) = Queued \ {queue[i]}
         /\ Len(RemoveAt(queue, i)) = Len(queue) - 1
<1> DEFINE n == Len(queue)
           r == RemoveAt(queue, i)
<1>1. n \in Nat /\ i \in 1 .. n /\ queue \in Seq(Call) /\ \A j \in 1 .. n : queue[j] \in Call
  BY DEF TypeOK
<1>2. /\ SubSeq(queue, 1, i - 1) \in Seq(Call) /\ Len(SubSeq(queue, 1, i - 1)) = i - 1
      /\ \A j \in 1 .. i - 1 : SubSeq(queue, 1, i - 1)[j] = queue[j]
  BY <1>1
<1>3. /\ SubSeq(queue, i + 1, n) \in Seq(Call) /\ Len(SubSeq(queue, i + 1, n)) = n - i
      /\ \A j \in 1 .. n - i : SubSeq(queue, i + 1, n)[j] = queue[i + j]
  BY <1>1
<1> HIDE DEF n
<1>4. /\ r \in Seq(Call) /\ Len(r) = n - 1 /\ DOMAIN r = 1 .. n - 1
      /\ \A j \in 1 .. n - 1 : r[j] = IF j < i THEN queue[j] ELSE queue[j + 1]
  <2> DEFINE a == SubSeq(queue, 1, i - 1)
             b == SubSeq(queue, i + 1, n)
  <2>1. r = a \o b
    BY DEF RemoveAt, n
  <2>2. a \in Seq(Call) /\ b \in Seq(Call) /\ Len(a) = i - 1 /\ Len(b) = n - i
    BY <1>2, <1>3
  <2> HIDE DEF a, b, r
  <2>3. /\ r \in Seq(Call) /\ Len(r) = n - 1
        /\ \A j \in 1 .. n - 1 : r[j] = IF j <= i - 1 THEN a[j] ELSE b[j - (i - 1)]
    BY <1>1, <2>1, <2>2
  <2>4. \A j \in 1 .. n - 1 : r[j] = IF j < i THEN queue[j] ELSE queue[j + 1]
    <3> SUFFICES ASSUME NEW j \in 1 .. n - 1
                 PROVE  r[j] = IF j < i THEN queue[j] ELSE queue[j + 1]
      OBVIOUS
    <3>1. CASE j < i
      BY <3>1, <1>1, <1>2, <2>3 DEF a
    <3>2. CASE ~(j < i)
      <4>1. j - (i - 1) \in 1 .. n - i /\ i + (j - (i - 1)) = j + 1
        BY <3>2, <1>1
      <4>2. b[j - (i - 1)] = queue[j + 1]
        BY <4>1, <1>3 DEF b
      <4> QED
        BY <3>2, <4>2, <1>1, <2>3
    <3> QED
      BY <3>1, <3>2
  <2> QED
    BY <2>3, <2>4
<1> HIDE DEF r
<1>5. DOMAIN queue = 1 .. n
  BY <1>1 DEF n
<1>6. \A j, k \in 1 .. n : queue[j] = queue[k] => j = k
  BY <1>5 DEF QueueFits, Distinct
<1>7. Distinct(r)
  <2> SUFFICES ASSUME NEW j \in 1 .. n - 1, NEW k \in 1 .. n - 1, r[j] = r[k] PROVE j = k
    BY <1>4 DEF Distinct
  <2> DEFINE f(x) == IF x < i THEN x ELSE x + 1
  <2>1. f(j) \in 1 .. n /\ f(k) \in 1 .. n /\ (f(j) = f(k) => j = k)
    BY <1>1
  <2>2. r[j] = queue[f(j)] /\ r[k] = queue[f(k)]
    BY <1>1, <1>4
  <2> HIDE DEF f
  <2> QED
    BY <2>1, <2>2, <1>6
<1>8. Range(r) = Range(queue) \ {queue[i]}
  <2>1. ASSUME NEW x \in Range(r) PROVE x \in Range(queue) \ {queue[i]}
    <3>1. PICK j \in 1 .. n - 1 : x = r[j]
      BY <1>4 DEF Range
    <3>2. PICK k \in 1 .. n : k # i /\ x = queue[k]
      <4>1. CASE j < i
        BY <4>1, <3>1, <1>1, <1>4
      <4>2. CASE ~(j < i)
        <5>1. j + 1 \in 1 .. n /\ j + 1 # i /\ x = queue[j + 1]
          BY <4>2, <3>1, <1>1, <1>4
        <5> QED
          BY <5>1
      <4> QED
        BY <4>1, <4>2
    <3> QED
      BY <3>2, <1>1, <1>5, <1>6 DEF Range
  <2>2. ASSUME NEW x \in Range(queue) \ {queue[i]} PROVE x \in Range(r)
    <3>1. PICK j \in 1 .. n : x = queue[j]
      BY <1>5 DEF Range
    <3>2. CASE j < i
      <4>1. j \in 1 .. n - 1 /\ r[j] = x
        BY <3>1, <3>2, <1>1, <1>4
      <4> QED
        BY <4>1, <1>4 DEF Range
    <3>3. CASE j > i
      <4>1. j - 1 \in 1 .. n - 1 /\ r[j - 1] = x
        BY <3>1, <3>3, <1>1, <1>4
      <4> QED
        BY <4>1, <1>4 DEF Range
    <3> QED
      BY <3>1, <3>2, <3>3, <1>1
  <2> QED
    BY <2>1, <2>2
<1> QED
  BY <1>4, <1>7, <1>8 DEF r, n, QueueFits

-----------------------------------------------------------------------------
(* The invariant holds initially.                                          *)

LEMMA Initially == Init => IInv
<1> SUFFICES ASSUME Init PROVE IInv
  OBVIOUS
<1> USE WorkloadAssumption DEF Init
<1>1. TypeOK
  <2>1. /\ phase \in [Call -> {"returned", "joined", "resolved", "queued", "granted",
                              "executing", "settled"}]
        /\ outcome \in [Call -> {"none", "ok", "failed", "queue-full", "queue-timeout",
                                "cooldown", "cancelled"}]
    OBVIOUS
  <2>2. /\ workload \in [Call \cup Lookup -> Workload]
        /\ recoveries \in [Lookup -> {"none", "running", "over"}]
    BY DEF Workload
  <2>3. /\ sql \in [Call -> Sql \cup {NoSql}] /\ scope \in [Call -> Owner \cup {NoOwner}]
        /\ joined \in [Call -> SUBSET Call]
    OBVIOUS
  <2>4. aborted \subseteq Owner /\ inFlight \subseteq Call /\ cooling \in BOOLEAN
    BY Zenon
  <2>6. active \in Nat /\ interactiveStreak \in 0..2 /\ coalescedWaiters \in Nat
    OBVIOUS
  <2>5. queue \in Seq(Call)
    OBVIOUS
  <2> QED
    BY <2>1, <2>2, <2>3, <2>4, <2>5, <2>6 DEF TypeOK
<1>2. Holding = {} /\ Followers = {} /\ Queued = {} /\ Len(queue) = 0 /\ Range(queue) = {}
  BY DEF Holding, Followers, Queued, Range
<1>3. QueueFits /\ SlotsFit /\ WaitersFit
  BY <1>2, FS_EmptySet DEF QueueFits, Distinct, SlotsFit, WaitersFit
<1>4. EntriesFit /\ FollowersFit /\ OutcomesFit
  BY DEF EntriesFit, FollowersFit, OutcomesFit, CancelIsOwn, Reading
<1> QED
  BY <1>1, <1>3, <1>4 DEF IInv

-----------------------------------------------------------------------------
(* What several actions do.                                                *)

LEMMA Counts ==
  ASSUME NEW S \in SUBSET Call, NEW q \in Call
  PROVE  /\ q \notin S => Cardinality(S \cup {q}) = Cardinality(S) + 1
         /\ q \in S => Cardinality(S \ {q}) = Cardinality(S) - 1
  BY Finite, FS_AddElement, FS_RemoveElement

\* The sets of calls when one call changes its phase.
LEMMA Moves ==
  ASSUME TypeOK, NEW q \in Call, NEW f \in Phase, phase' = [phase EXCEPT ![q] = f]
  PROVE  /\ phase' \in [Call -> Phase]
         /\ Holding' = IF f \in {"granted", "executing"} THEN Holding \cup {q} ELSE Holding \ {q}
         /\ Followers' = IF f \in {"joined", "resolved"} THEN Followers \cup {q}
                                                        ELSE Followers \ {q}
         /\ Queued' = IF f = "queued" THEN Queued \cup {q} ELSE Queued \ {q}
  BY DEF TypeOK, Phase, Holding, Followers, Queued

\* Reads that go on or settle change no entry and no follower.
LEMMA ReadsGoOn ==
  ASSUME IInv, UNCHANGED <<calls, workload, sharing>>,
         \A p \in Call : \/ phase'[p] = phase[p]
                         \/ phase[p] \in Reading /\ phase'[p] \in Reading \cup {"settled"}
  PROVE  EntriesFit' /\ FollowersFit' /\ Followers' = Followers
<1> USE DEF IInv, TypeOK, calls, sharing
<1>1. EntriesFit'
  BY DEF EntriesFit, Reading
<1>2. \A p \in Call : Rank(p)' = Rank(p)
  BY DEF Rank, Class, admission
<1>3. FollowersFit'
  <2> SUFFICES ASSUME NEW p \in Call, NEW q \in joined[p]
               PROVE  /\ phase'[q] = "joined" /\ p \in inFlight /\ scope[q] = scope[p]
                      /\ Rank(p)' <= Rank(q)'
                      /\ \A o \in Call : q \in joined[o] => o = p
    BY DEF FollowersFit
  <2>1. q \in Call /\ phase[q] = "joined"
    BY DEF FollowersFit
  <2> QED
    BY <1>2, <2>1 DEF FollowersFit, Reading
<1>4. Followers' = Followers
  BY DEF Followers, Reading
<1> QED
  BY <1>1, <1>3, <1>4

\* release keeps the queue and the slots right.
LEMMA Releases ==
  ASSUME IInv, NEW q \in Call, phase[q] \in {"granted", "executing"}, release(q)
  PROVE  /\ phase' \in [Call -> Phase] /\ phase'[q] = "settled"
         /\ queue' \in Seq(Call) /\ active' \in Nat /\ interactiveStreak' \in 0..2
         /\ QueueFits' /\ SlotsFit' /\ Len(queue') <= Len(queue)
         /\ \A p \in Call \ {q} : \/ phase'[p] = phase[p]
                                  \/ phase[p] = "queued" /\ phase'[p] = "granted"
<1> DEFINE s == queue[Selected]
<1>0. TypeOK /\ QueueFits /\ SlotsFit
  BY DEF IInv
<1>1. Len(queue) \in Nat /\ phase \in [Call -> Phase] /\ active \in Nat /\ interactiveStreak \in 0..2
  BY <1>0 DEF TypeOK, Phase
<1>2. CASE queue # <<>>
  <2>1. /\ phase' = [phase EXCEPT ![q] = "settled", ![s] = "granted"]
        /\ queue' = RemoveAt(queue, Selected)
        /\ interactiveStreak' = IF Class(s) = "interactive"
                                THEN FewerThanTwo(interactiveStreak + 1) ELSE 0
        /\ active' = active
    BY <1>2 DEF release
  <2>2. Selected \in DOMAIN queue
    BY <1>0, <1>2, SelectedIsIn
  <2>3. s \in Range(queue)
    BY <2>2 DEF Range
  <2> HIDE DEF s
  <2>4. s \in Call /\ phase[s] = "queued" /\ s # q
    BY <1>0, <2>3 DEF QueueFits, Queued
  <2>5. /\ queue' \in Seq(Call) /\ Distinct(queue') /\ Range(queue') = Queued \ {s}
        /\ Len(queue') = Len(queue) - 1
    BY <1>0, <2>1, <2>2, RemovedAt DEF s
  <2>6. phase' \in [Call -> Phase] /\ phase'[q] = "settled" /\ phase'[s] = "granted"
        /\ \A p \in Call \ {q, s} : phase'[p] = phase[p]
    BY <1>1, <2>1, <2>4 DEF Phase
  <2>7. Queued' = Queued \ {s}
    BY <2>4, <2>6 DEF Queued
  <2>8. Holding' = (Holding \ {q}) \cup {s} /\ q \in Holding /\ s \notin Holding
    BY <2>4, <2>6 DEF Holding
  <2>9. Cardinality(Holding') = Cardinality(Holding)
    <3>1. Cardinality(Holding \ {q}) = Cardinality(Holding) - 1
      BY <2>8, Counts DEF Holding
    <3>2. Cardinality((Holding \ {q}) \cup {s}) = Cardinality(Holding \ {q}) + 1
      BY <2>4, <2>8, Counts DEF Holding
    <3>3. Cardinality(Holding) \in Nat
      BY Finite DEF Holding
    <3> QED
      BY <2>8, <3>1, <3>2, <3>3
  <2>10. SlotsFit'
    BY <1>0, <1>2, <2>1, <2>9 DEF SlotsFit
  <2>11. interactiveStreak' \in 0..2
    BY <1>1, <2>1 DEF FewerThanTwo
  <2> QED
    BY <1>1, <2>1, <2>4, <2>5, <2>6, <2>7, <2>10, <2>11 DEF QueueFits
<1>3. CASE queue = <<>>
  <2>1. /\ phase' = [phase EXCEPT ![q] = "settled"] /\ queue' = queue
        /\ active' = active - 1 /\ interactiveStreak' = 0
    BY <1>3 DEF release
  <2>2. phase' \in [Call -> Phase] /\ phase'[q] = "settled"
        /\ \A p \in Call \ {q} : phase'[p] = phase[p]
    BY <1>1, <2>1 DEF Phase
  <2>3. Queued' = Queued /\ Holding' = Holding \ {q} /\ q \in Holding
    BY <2>2 DEF Queued, Holding
  <2>4. Cardinality(Holding') = Cardinality(Holding) - 1
    BY <2>3, Counts DEF Holding
  <2>5. Cardinality(Holding') \in Nat
    BY Finite, <2>3 DEF Holding
  <2>6. active' = Cardinality(Holding') /\ active' <= active
    BY <1>0, <1>1, <2>1, <2>4 DEF SlotsFit
  <2>7. SlotsFit'
    BY <1>0, <1>1, <1>3, <2>1, <2>5, <2>6, WorkloadAssumption DEF SlotsFit
  <2>8. QueueFits'
    BY <1>0, <2>1, <2>3 DEF QueueFits
  <2> QED
    BY <1>0, <1>1, <2>1, <2>2, <2>5, <2>6, <2>7, <2>8 DEF TypeOK
<1> QED
  BY <1>2, <1>3

-----------------------------------------------------------------------------
(* One lemma per action.                                                   *)

LEMMA Starts == ASSUME IInv, NEW q \in Call, ExecutionStarts(q) PROVE IInv'
<1> USE DEF ExecutionStarts, calls, owners, sharing, slots
<1>0. TypeOK /\ phase[q] = "granted" /\ phase' = [phase EXCEPT ![q] = "executing"]
  BY DEF IInv
<1>1. Holding' = Holding /\ Queued' = Queued /\ Followers' = Followers /\ phase' \in [Call -> Phase]
  BY <1>0, Moves DEF Phase, Holding, Queued, Followers
<1>2. TypeOK'
  BY <1>0, <1>1 DEF TypeOK, Phase, Workload
<1>3. QueueFits' /\ SlotsFit' /\ WaitersFit'
  BY <1>1 DEF IInv, QueueFits, SlotsFit, WaitersFit
<1>4. \A p \in Call : \/ phase'[p] = phase[p]
                      \/ phase[p] \in Reading /\ phase'[p] \in Reading \cup {"settled"}
  BY <1>0 DEF TypeOK, Reading
<1>5. EntriesFit' /\ FollowersFit'
  BY <1>4, ReadsGoOn
<1>6. OutcomesFit'
  BY <1>0 DEF IInv, TypeOK, OutcomesFit, CancelIsOwn
<1> QED
  BY <1>2, <1>3, <1>5, <1>6 DEF IInv

\* A read that settles with a result and gives up its slot.
LEMMA SettlesAndReleases ==
  ASSUME IInv, NEW q \in Call, phase[q] \in {"granted", "executing"}, release(q),
         UNCHANGED <<calls, workload, owners, sharing>>, cooling' \in BOOLEAN,
         NEW r \in {"ok", "failed", "cooldown", "cancelled"},
         outcome' = [outcome EXCEPT ![q] = r], r = "cancelled" => scope[q] \in aborted
  PROVE  IInv'
<1> USE DEF calls, owners, sharing
<1>0. TypeOK
  BY DEF IInv
<1>1. /\ phase' \in [Call -> Phase] /\ phase'[q] = "settled"
      /\ queue' \in Seq(Call) /\ active' \in Nat /\ interactiveStreak' \in 0..2
      /\ QueueFits' /\ SlotsFit' /\ Len(queue') <= Len(queue)
      /\ \A p \in Call \ {q} : \/ phase'[p] = phase[p]
                               \/ phase[p] = "queued" /\ phase'[p] = "granted"
  BY Releases
<1>2. outcome' \in [Call -> {"none", "ok", "failed", "queue-full", "queue-timeout",
                             "cooldown", "cancelled"}]
  BY <1>0 DEF TypeOK
<1>3. TypeOK'
  BY <1>0, <1>1, <1>2 DEF TypeOK, Phase, Workload
<1>4. EntriesFit' /\ FollowersFit' /\ Followers' = Followers
  <2>1. \A p \in Call : \/ phase'[p] = phase[p]
                        \/ phase[p] \in Reading /\ phase'[p] \in Reading \cup {"settled"}
    BY <1>1 DEF Reading
  <2> QED
    BY <2>1, ReadsGoOn
<1>5. WaitersFit'
  <2>1. Len(queue) \in Nat /\ Len(queue') \in Nat /\ coalescedWaiters \in Nat
    BY <1>0, <1>1 DEF TypeOK
  <2>2. coalescedWaiters = Cardinality(Followers) /\ Len(queue) + coalescedWaiters <= MaxQueued
    BY DEF IInv, WaitersFit
  <2> QED
    BY <1>1, <1>4, <2>1, <2>2, WorkloadAssumption DEF WaitersFit
<1>6. OutcomesFit'
  <2>1. \A p \in Call \ {q} : outcome'[p] = outcome[p]
    BY <1>0 DEF TypeOK
  <2>2. outcome'[q] = r
    BY <1>0 DEF TypeOK
  <2>3. ASSUME NEW p \in Call, phase'[p] \notin {"settled", "resolved"} PROVE outcome'[p] = "none"
    BY <1>1, <2>1, <2>3 DEF IInv, OutcomesFit
  <2>4. CancelIsOwn'
    BY <2>1, <2>2 DEF IInv, OutcomesFit, CancelIsOwn
  <2> QED
    BY <2>3, <2>4 DEF OutcomesFit
<1> QED
  BY <1>1, <1>3, <1>4, <1>5, <1>6 DEF IInv

LEMMA Refuses == ASSUME IInv, NEW q \in Call, GrantRefused(q) PROVE IInv'
<1> DEFINE r == IF scope[q] \in aborted THEN "cancelled" ELSE "cooldown"
<1>1. r \in {"ok", "failed", "cooldown", "cancelled"} /\ (r = "cancelled" => scope[q] \in aborted)
  OBVIOUS
<1>2. cooling' \in BOOLEAN
  BY DEF GrantRefused, IInv, TypeOK
<1> QED
  BY <1>1, <1>2, SettlesAndReleases DEF GrantRefused

LEMMA Ends == ASSUME IInv, NEW q \in Call, ExecutionEnds(q) PROVE IInv'
<1>1. PICK r \in {"ok", "failed", "cancelled"}, u \in BOOLEAN :
        /\ r = "cancelled" => scope[q] \in aborted
        /\ outcome' = [outcome EXCEPT ![q] = r]
        /\ cooling' = (cooling \/ u)
  BY DEF ExecutionEnds
<1>2. cooling' \in BOOLEAN
  BY <1>1 DEF IInv, TypeOK
<1> QED
  BY <1>1, <1>2, SettlesAndReleases DEF ExecutionEnds

LEMMA Cools == ASSUME IInv, CooldownEnds PROVE IInv'
<1>1. cooling' \in BOOLEAN /\ UNCHANGED <<phase, calls, outcome, workload, owners, sharing, slots>>
  BY DEF CooldownEnds
<1>2. TypeOK' /\ QueueFits' /\ SlotsFit' /\ WaitersFit'
  BY <1>1 DEF IInv, calls, owners, sharing, slots, TypeOK, QueueFits, SlotsFit, WaitersFit,
              Queued, Holding, Followers, Rank, Class, admission
<1>3. EntriesFit' /\ FollowersFit' /\ OutcomesFit' /\ CancelIsOwn'
  BY <1>1 DEF IInv, calls, owners, sharing, slots, EntriesFit, FollowersFit, OutcomesFit,
              CancelIsOwn, Queued, Holding, Followers, Rank, Class, admission
<1> QED
  BY <1>2, <1>3 DEF IInv

\* Some calls leave the queue, each with a result.
LEMMA LeaveQueue ==
  ASSUME IInv, NEW G \in SUBSET Queued,
         UNCHANGED <<calls, workload, recoveries, sharing, active, interactiveStreak, cooling>>,
         queue' = Filter(queue, Call \ G), aborted \subseteq aborted', aborted' \subseteq Owner,
         phase' = [p \in Call |-> IF p \in G THEN "settled" ELSE phase[p]],
         NEW r \in {"queue-timeout", "cancelled"},
         outcome' = [p \in Call |-> IF p \in G THEN r ELSE outcome[p]],
         r = "cancelled" => \A p \in G : scope[p] \in aborted'
  PROVE  IInv'
<1> USE DEF calls, sharing
<1>0. TypeOK /\ QueueFits
  BY DEF IInv
<1>1. queue \in Seq(Call) /\ Distinct(queue) /\ Range(queue) = Queued /\ G \subseteq Call
  BY <1>0 DEF TypeOK, QueueFits, Queued
<1>2. /\ queue' \in Seq(Call) /\ Range(queue') = Queued \ G /\ Distinct(queue')
      /\ Len(queue') <= Len(queue)
  <2>1. Queued \cap (Call \ G) = Queued \ G
    BY DEF Queued
  <2> QED
    BY <1>1, <2>1, FilterRange
<1>3. /\ Queued' = Queued \ G /\ Holding' = Holding
      /\ phase' \in [Call -> Phase]
  BY <1>0 DEF Queued, Holding, TypeOK, Phase
<1>4. TypeOK'
  <2>1. outcome' \in [Call -> {"none", "ok", "failed", "queue-full", "queue-timeout",
                               "cooldown", "cancelled"}]
    BY <1>0 DEF TypeOK
  <2> QED
    BY <1>0, <1>2, <1>3, <2>1 DEF TypeOK, Phase, Workload
<1>5. QueueFits'
  BY <1>2, <1>3 DEF QueueFits
<1>6. SlotsFit'
  <2>1. queue' # <<>> => queue # <<>>
    <3>1. Len(queue) \in Nat /\ Len(queue') \in Nat
      BY <1>1, <1>2
    <3> QED
      BY <3>1, <1>1, <1>2
  <2> QED
    BY <1>3, <2>1 DEF IInv, SlotsFit
<1>7. EntriesFit' /\ FollowersFit' /\ Followers' = Followers
  <2>1. \A p \in Call : \/ phase'[p] = phase[p]
                        \/ phase[p] \in Reading /\ phase'[p] \in Reading \cup {"settled"}
    BY DEF Reading, Queued
  <2> QED
    BY <2>1, ReadsGoOn
<1>8. WaitersFit'
  <2>1. Len(queue) \in Nat /\ Len(queue') \in Nat /\ coalescedWaiters \in Nat
    BY <1>0, <1>1, <1>2 DEF TypeOK
  <2>2. coalescedWaiters = Cardinality(Followers) /\ Len(queue) + coalescedWaiters <= MaxQueued
    BY DEF IInv, WaitersFit
  <2> QED
    BY <1>2, <1>7, <2>1, <2>2, WorkloadAssumption DEF WaitersFit
<1>9. OutcomesFit'
  BY DEF IInv, OutcomesFit, CancelIsOwn
<1> QED
  BY <1>4, <1>5, <1>6, <1>7, <1>8, <1>9 DEF IInv

LEMMA TimesOut == ASSUME IInv, NEW q \in Call, QueueTimeout(q) PROVE IInv'
<1> USE DEF QueueTimeout, owners
<1>1. {q} \in SUBSET Queued
  BY DEF Queued
<1>2. /\ phase' = [p \in Call |-> IF p \in {q} THEN "settled" ELSE phase[p]]
      /\ outcome' = [p \in Call |-> IF p \in {q} THEN "queue-timeout" ELSE outcome[p]]
  BY DEF IInv, TypeOK
<1>3. aborted \subseteq aborted' /\ aborted' \subseteq Owner
  BY DEF IInv, TypeOK
<1> QED
  BY <1>1, <1>2, <1>3, LeaveQueue

LEMMA Aborts == ASSUME IInv, NEW o \in Owner, Abort(o) PROVE IInv'
<1> DEFINE G == {p \in Queued : scope[p] = o}
<1>1. /\ phase' = [p \in Call |-> IF p \in G THEN "settled" ELSE phase[p]]
      /\ outcome' = [p \in Call |-> IF p \in G THEN "cancelled" ELSE outcome[p]]
  BY DEF Abort, Queued
<1>2. Filter(queue, {p \in Call : scope[p] # o}) = Filter(queue, Call \ G)
  <2>1. queue \in Seq(Call) /\ Range(queue) = Queued
    BY DEF IInv, TypeOK, QueueFits
  <2>2. \A p \in Range(queue) : p \in {x \in Call : scope[x] # o} <=> p \in Call \ G
    BY <2>1 DEF Queued
  <2> QED
    BY <2>1, <2>2, FilterSame
<1>3. aborted \subseteq aborted' /\ aborted' \subseteq Owner /\ \A p \in G : scope[p] \in aborted'
  BY DEF Abort, IInv, TypeOK
<1> QED
  BY <1>1, <1>2, <1>3, LeaveQueue DEF Abort

LEMMA OwnersReturn == ASSUME IInv, NEW q \in Call, OwnerReturns(q) PROVE IInv'
<1> USE DEF OwnerReturns, Forget, owners, slots
<1>0. TypeOK /\ phase[q] = "settled" /\ q \in inFlight
  BY DEF IInv, EntriesFit
<1>a. Call \cap Lookup = {}
  BY WorkloadAssumption
<1>1. TypeOK'
  <2>1. phase' \in [Call -> Phase]
    BY <1>0 DEF TypeOK, Phase
  <2>2. outcome' \in [Call -> {"none", "ok", "failed", "queue-full", "queue-timeout",
                               "cooldown", "cancelled"}]
    BY <1>0 DEF TypeOK
  <2>3. workload' \in [Call \cup Lookup -> Workload]
    BY <1>0 DEF TypeOK, Workload
  <2>4. sql' \in [Call -> Sql \cup {NoSql}] /\ scope' \in [Call -> Owner \cup {NoOwner}]
        /\ joined' \in [Call -> SUBSET Call]
    BY <1>0 DEF TypeOK
  <2> QED
    BY <1>0, <2>1, <2>2, <2>3, <2>4 DEF TypeOK, Phase
<1>2. \A p \in joined[q] : phase[p] = "joined" /\ p \in Call /\ scope[p] = scope[q] /\ p # q
  BY <1>0 DEF IInv, FollowersFit, TypeOK
<1>3. Holding' = Holding /\ Queued' = Queued /\ Followers' = Followers
  BY <1>0, <1>2 DEF Holding, Queued, Followers
<1>4. QueueFits' /\ SlotsFit' /\ WaitersFit'
  BY <1>3 DEF IInv, QueueFits, SlotsFit, WaitersFit
<1>5. EntriesFit'
  <2>1. inFlight' = {p \in Call : phase'[p] \in Reading \cup {"settled"}}
    BY <1>2 DEF IInv, EntriesFit, Reading
  <2>2. \A p \in Call \ {q} : sql'[p] = sql[p] /\ scope'[p] = scope[p]
    BY <1>0 DEF TypeOK
  <2>3. inFlight' \subseteq Call \ {q}
    BY <1>0 DEF TypeOK
  <2> QED
    BY <2>1, <2>2, <2>3 DEF IInv, EntriesFit
<1>6. FollowersFit'
  <2> SUFFICES ASSUME NEW p \in Call, NEW f \in joined'[p]
               PROVE  /\ phase'[f] = "joined" /\ p \in inFlight' /\ scope'[f] = scope'[p]
                      /\ Rank(p)' <= Rank(f)'
                      /\ \A o \in Call : f \in joined'[o] => o = p
    BY DEF FollowersFit
  <2>1. p # q /\ f \in joined[p] /\ \A o \in Call : f \in joined'[o] => f \in joined[o]
    BY <1>0 DEF TypeOK
  <2>2. /\ f \in Call /\ phase[f] = "joined" /\ p \in inFlight /\ scope[f] = scope[p]
        /\ Rank(p) <= Rank(f) /\ \A o \in Call : f \in joined[o] => o = p
    BY <1>0, <2>1 DEF IInv, FollowersFit, TypeOK
  <2>3. f # q /\ f \notin joined[q]
    BY <1>0, <2>1, <2>2
  <2>4. \A x \in Call \ {q} : scope'[x] = scope[x] /\ Rank(x)' = Rank(x)
    <3> SUFFICES ASSUME NEW x \in Call \ {q} PROVE scope'[x] = scope[x] /\ Rank(x)' = Rank(x)
      OBVIOUS
    <3>1. scope'[x] = scope[x]
      BY <1>0 DEF TypeOK
    <3>2. admission(x) \in (Call \cup Lookup) \ {q}
      BY <1>a DEF admission
    <3>3. workload'[admission(x)] = workload[admission(x)]
      BY <1>0, <3>2 DEF TypeOK
    <3> QED
      BY <3>1, <3>3 DEF Rank, Class, admission
  <2> QED
    BY <2>1, <2>2, <2>3, <2>4
<1>7. OutcomesFit'
  <2>1. ASSUME NEW p \in Call, phase'[p] \notin {"settled", "resolved"} PROVE outcome'[p] = "none"
    BY <2>1 DEF IInv, OutcomesFit
  <2>2. CancelIsOwn'
    <3> SUFFICES ASSUME NEW p \in Call, outcome'[p] = "cancelled" PROVE scope'[p] \in aborted'
      BY DEF CancelIsOwn
    <3>1. p # q
      OBVIOUS
    <3>2. scope'[p] = scope[p]
      BY <1>0, <3>1 DEF TypeOK
    <3> QED
      BY <1>0, <1>2, <3>1, <3>2 DEF IInv, OutcomesFit, CancelIsOwn
  <2> QED
    BY <2>1, <2>2 DEF OutcomesFit
<1> QED
  BY <1>1, <1>4, <1>5, <1>6, <1>7 DEF IInv

LEMMA FollowersReturn == ASSUME IInv, NEW q \in Call, FollowerReturns(q) PROVE IInv'
<1> USE DEF FollowerReturns, Forget, owners, slots
<1>0. /\ TypeOK /\ phase[q] = "resolved" /\ q \notin inFlight /\ \A p \in Call : q \notin joined[p]
      /\ phase' = [phase EXCEPT ![q] = "returned"]
  BY DEF IInv, EntriesFit, Reading, FollowersFit
<1>a. Call \cap Lookup = {}
  BY WorkloadAssumption
<1>1. /\ phase' \in [Call -> Phase] /\ Holding' = Holding /\ Queued' = Queued
      /\ Followers' = Followers \ {q} /\ q \in Followers
  BY <1>0, Moves DEF Phase, Holding, Queued, Followers
<1>2. /\ Cardinality(Followers') = Cardinality(Followers) - 1
      /\ Cardinality(Followers) \in Nat /\ Cardinality(Followers') \in Nat
  BY <1>1, Counts, Finite DEF Followers
<1>3. /\ coalescedWaiters' = Cardinality(Followers') /\ coalescedWaiters' \in Nat
      /\ coalescedWaiters' <= coalescedWaiters
  BY <1>2 DEF IInv, WaitersFit
<1>4. TypeOK'
  <2>2. outcome' \in [Call -> {"none", "ok", "failed", "queue-full", "queue-timeout",
                               "cooldown", "cancelled"}]
    BY <1>0 DEF TypeOK
  <2>3. workload' \in [Call \cup Lookup -> Workload]
    BY <1>0 DEF TypeOK, Workload
  <2>4. sql' \in [Call -> Sql \cup {NoSql}] /\ scope' \in [Call -> Owner \cup {NoOwner}]
    BY <1>0 DEF TypeOK
  <2> QED
    BY <1>0, <1>1, <1>3, <2>2, <2>3, <2>4 DEF TypeOK, Phase
<1>5. QueueFits' /\ SlotsFit'
  BY <1>1 DEF IInv, QueueFits, SlotsFit
<1>6. WaitersFit'
  <2>1. Len(queue) \in Nat /\ coalescedWaiters \in Nat /\ queue' = queue
    BY <1>0 DEF TypeOK
  <2> QED
    BY <1>3, <2>1, WorkloadAssumption DEF IInv, WaitersFit
<1>7. \A p \in Call \ {q} : sql'[p] = sql[p] /\ scope'[p] = scope[p] /\ Rank(p)' = Rank(p)
  <2> SUFFICES ASSUME NEW p \in Call \ {q}
               PROVE  sql'[p] = sql[p] /\ scope'[p] = scope[p] /\ Rank(p)' = Rank(p)
    OBVIOUS
  <2>1. sql'[p] = sql[p] /\ scope'[p] = scope[p]
    BY <1>0 DEF TypeOK
  <2>2. admission(p) \in (Call \cup Lookup) \ {q}
    BY <1>a DEF admission
  <2>3. workload'[admission(p)] = workload[admission(p)]
    BY <1>0, <2>2 DEF TypeOK
  <2> QED
    BY <2>1, <2>3 DEF Rank, Class, admission
<1>8. EntriesFit'
  <2>1. inFlight' = {p \in Call : phase'[p] \in Reading \cup {"settled"}}
    BY <1>0 DEF IInv, EntriesFit, Reading, TypeOK
  <2> QED
    BY <1>0, <1>7, <2>1 DEF IInv, EntriesFit, TypeOK
<1>9. FollowersFit'
  <2> SUFFICES ASSUME NEW p \in Call, NEW f \in joined[p]
               PROVE  /\ phase'[f] = "joined" /\ p \in inFlight /\ scope'[f] = scope'[p]
                      /\ Rank(p)' <= Rank(f)'
                      /\ \A o \in Call : f \in joined[o] => o = p
    BY DEF FollowersFit
  <2>1. /\ f \in Call /\ phase[f] = "joined" /\ p \in inFlight /\ scope[f] = scope[p]
        /\ Rank(p) <= Rank(f) /\ \A o \in Call : f \in joined[o] => o = p
    BY <1>0 DEF IInv, FollowersFit, TypeOK
  <2>2. f # q /\ p # q
    BY <1>0, <2>1
  <2>3. phase'[f] = "joined"
    BY <1>0, <2>1, <2>2 DEF TypeOK
  <2> QED
    BY <1>7, <2>1, <2>2, <2>3
<1>10. OutcomesFit'
  <2>1. \A p \in Call \ {q} : outcome'[p] = outcome[p] /\ phase'[p] = phase[p]
    BY <1>0 DEF TypeOK
  <2>2. outcome'[q] = "none"
    BY <1>0 DEF TypeOK
  <2> QED
    BY <1>7, <2>1, <2>2 DEF IInv, OutcomesFit, CancelIsOwn
<1> QED
  BY <1>4, <1>5, <1>6, <1>8, <1>9, <1>10 DEF IInv

\* A call that is issued: its statement and its signal, ...
LEMMA Issued ==
  ASSUME IInv, NEW q \in Call, NEW k \in Sql, NEW o \in Owner \cup {NoOwner}, Issues(q, k, o)
  PROVE  /\ phase[q] = "returned" /\ q \notin inFlight /\ joined[q] = {}
         /\ \A p \in Call : q \notin joined[p]
         /\ sql' \in [Call -> Sql \cup {NoSql}] /\ scope' \in [Call -> Owner \cup {NoOwner}]
         /\ sql'[q] = k /\ scope'[q] = o
         /\ \A p \in Call \ {q} : sql'[p] = sql[p] /\ scope'[p] = scope[p]
<1>0. TypeOK /\ phase[q] = "returned"
  BY DEF IInv, Issues
<1>1. q \notin inFlight /\ \A p \in Call : q \notin joined[p]
  BY <1>0 DEF IInv, EntriesFit, Reading, FollowersFit
<1>2. joined[q] = {}
  BY <1>1 DEF IInv, FollowersFit
<1>3. /\ sql' \in [Call -> Sql \cup {NoSql}] /\ scope' \in [Call -> Owner \cup {NoOwner}]
      /\ sql'[q] = k /\ scope'[q] = o
      /\ \A p \in Call \ {q} : sql'[p] = sql[p] /\ scope'[p] = scope[p]
  BY <1>0 DEF Issues, TypeOK
<1> QED
  BY <1>0, <1>1, <1>2, <1>3

\* ... and its rank.
LEMMA RankedAt ==
  ASSUME TypeOK, NEW q \in Call, NEW o \in Owner \cup {NoOwner}, NEW w \in Workload
  PROVE  /\ Ranked(q, o, w) \in [Call \cup Lookup -> Workload]
         /\ o \notin Lookup => Ranked(q, o, w)[q] = w
         /\ \A a \in (Call \cup Lookup) \ {q} : Ranked(q, o, w)[a] = workload[a]
  BY DEF Ranked, TypeOK

\* A new read, refused, admitted or queued.
LEMMA Owned ==
  ASSUME IInv, NEW q \in Call, NEW k \in Sql, NEW o \in Owner \cup {NoOwner}, NEW w \in Workload,
         NEW next \in {"settled", "granted", "queued"},
         NEW r \in {"none", "cooldown", "cancelled", "queue-full"},
         next # "settled" => r = "none", r = "cancelled" => o \in aborted,
         Owns(q, k, o, w, next, r),
         queue' \in Seq(Call), active' \in Nat, QueueFits', SlotsFit',
         Len(queue') + coalescedWaiters <= MaxQueued
  PROVE  IInv'
<1> USE DEF Owns, owners
<1>0. TypeOK /\ Issues(q, k, o) /\ phase' = [phase EXCEPT ![q] = next]
  BY DEF IInv
<1>1. /\ phase[q] = "returned" /\ q \notin inFlight /\ joined[q] = {}
      /\ \A p \in Call : q \notin joined[p]
      /\ sql' \in [Call -> Sql \cup {NoSql}] /\ scope' \in [Call -> Owner \cup {NoOwner}]
      /\ sql'[q] = k /\ scope'[q] = o
      /\ \A p \in Call \ {q} : sql'[p] = sql[p] /\ scope'[p] = scope[p]
      /\ workload' \in [Call \cup Lookup -> Workload]
      /\ \A a \in (Call \cup Lookup) \ {q} : workload'[a] = workload[a]
  <2>1. workload' = Ranked(q, o, w)
    OBVIOUS
  <2> HIDE DEF Owns
  <2>2. /\ phase[q] = "returned" /\ q \notin inFlight /\ joined[q] = {}
        /\ \A p \in Call : q \notin joined[p]
        /\ sql' \in [Call -> Sql \cup {NoSql}] /\ scope' \in [Call -> Owner \cup {NoOwner}]
        /\ sql'[q] = k /\ scope'[q] = o
        /\ \A p \in Call \ {q} : sql'[p] = sql[p] /\ scope'[p] = scope[p]
    BY <1>0, Issued
  <2>3. /\ workload' \in [Call \cup Lookup -> Workload]
        /\ \A a \in (Call \cup Lookup) \ {q} : workload'[a] = workload[a]
    BY <1>0, <2>1, RankedAt
  <2> QED
    BY <2>2, <2>3
<1>2. Call \cap Lookup = {}
  BY WorkloadAssumption
<1>3. phase' \in [Call -> Phase] /\ Followers' = Followers
  BY <1>0, <1>1, Moves DEF Phase, Followers
<1>4. TypeOK'
  <2>1. outcome' \in [Call -> {"none", "ok", "failed", "queue-full", "queue-timeout",
                               "cooldown", "cancelled"}]
    BY <1>0 DEF TypeOK
  <2> QED
    BY <1>0, <1>1, <1>3, <2>1 DEF TypeOK, Phase
<1>5. WaitersFit'
  BY <1>3 DEF IInv, WaitersFit
<1>6. EntriesFit'
  <2>1. inFlight' = {p \in Call : phase'[p] \in Reading \cup {"settled"}}
    BY <1>0 DEF IInv, EntriesFit, Reading, TypeOK
  <2>2. ASSUME NEW p \in inFlight PROVE ~(sql[p] = k /\ scope[p] = o)
    BY <1>0 DEF Existing, TypeOK
  <2> QED
    BY <1>0, <1>1, <2>1, <2>2 DEF IInv, EntriesFit, TypeOK
<1>7. FollowersFit'
  <2> SUFFICES ASSUME NEW p \in Call, NEW f \in joined[p]
               PROVE  /\ phase'[f] = "joined" /\ p \in inFlight' /\ scope'[f] = scope'[p]
                      /\ Rank(p)' <= Rank(f)'
                      /\ \A x \in Call : f \in joined[x] => x = p
    BY DEF FollowersFit
  <2>1. /\ f \in Call /\ phase[f] = "joined" /\ p \in inFlight /\ scope[f] = scope[p]
        /\ Rank(p) <= Rank(f) /\ \A x \in Call : f \in joined[x] => x = p
    BY <1>0 DEF IInv, FollowersFit, TypeOK
  <2>2. f # q /\ p # q
    BY <1>1, <2>1
  <2>3. phase'[f] = "joined"
    BY <1>0, <2>1, <2>2 DEF TypeOK
  <2>4. \A x \in Call \ {q} : scope'[x] = scope[x] /\ Rank(x)' = Rank(x)
    <3> SUFFICES ASSUME NEW x \in Call \ {q} PROVE scope'[x] = scope[x] /\ Rank(x)' = Rank(x)
      OBVIOUS
    <3>1. scope'[x] = scope[x]
      BY <1>1
    <3>2. admission(x) \in (Call \cup Lookup) \ {q}
      BY <1>2 DEF admission
    <3>3. workload'[admission(x)] = workload[admission(x)]
      BY <1>1, <3>2
    <3> QED
      BY <3>1, <3>3 DEF Rank, Class, admission
  <2> QED
    BY <2>1, <2>2, <2>3, <2>4
<1>8. OutcomesFit'
  <2>1. \A p \in Call \ {q} : outcome'[p] = outcome[p] /\ phase'[p] = phase[p]
    BY <1>0 DEF TypeOK
  <2>2. outcome'[q] = r /\ phase'[q] = next
    BY <1>0 DEF TypeOK
  <2> QED
    BY <1>1, <2>1, <2>2 DEF IInv, OutcomesFit, CancelIsOwn
<1> QED
  BY <1>4, <1>5, <1>6, <1>7, <1>8 DEF IInv

LEMMA IsRefused ==
  ASSUME IInv, NEW q \in Call, NEW k \in Sql, NEW o \in Owner \cup {NoOwner}, NEW w \in Workload,
         QueryRefused(q, k, o, w)
  PROVE  IInv'
<1>1. PICK r \in {"cooldown", "cancelled", "queue-full"} :
        /\ r = "cancelled" => o \in aborted
        /\ Owns(q, k, o, w, "settled", r) /\ queue' = queue /\ active' = active
  BY DEF QueryRefused
<1>2. phase[q] = "returned" /\ phase' = [phase EXCEPT ![q] = "settled"] /\ TypeOK
  BY <1>1 DEF Owns, Issues, IInv
<1>3. Holding' = Holding /\ Queued' = Queued
  BY <1>2, Moves DEF Phase, Holding, Queued
<1>4. QueueFits' /\ SlotsFit'
  BY <1>1, <1>3 DEF IInv, QueueFits, SlotsFit
<1>5. queue' \in Seq(Call) /\ active' \in Nat /\ Len(queue') + coalescedWaiters <= MaxQueued
  BY <1>1 DEF IInv, TypeOK, WaitersFit
<1> QED
  BY <1>1, <1>4, <1>5, Owned

LEMMA IsAdmitted ==
  ASSUME IInv, NEW q \in Call, NEW k \in Sql, NEW o \in Owner \cup {NoOwner}, NEW w \in Workload,
         QueryAdmitted(q, k, o, w)
  PROVE  IInv'
<1>1. /\ active < MaxConcurrent /\ Owns(q, k, o, w, "granted", "none")
      /\ active' = active + 1 /\ queue' = queue
  BY DEF QueryAdmitted
<1>2. phase[q] = "returned" /\ phase' = [phase EXCEPT ![q] = "granted"] /\ TypeOK
  BY <1>1 DEF Owns, Issues, IInv
<1>3. Holding' = Holding \cup {q} /\ q \notin Holding /\ Queued' = Queued
  BY <1>2, Moves DEF Phase, Holding, Queued
<1>4. Cardinality(Holding') = Cardinality(Holding) + 1
  BY <1>3, Counts DEF Holding
<1>5. QueueFits' /\ SlotsFit'
  BY <1>1, <1>2, <1>3, <1>4, WorkloadAssumption DEF IInv, QueueFits, SlotsFit, TypeOK
<1>6. queue' \in Seq(Call) /\ active' \in Nat /\ Len(queue') + coalescedWaiters <= MaxQueued
  BY <1>1 DEF IInv, TypeOK, WaitersFit
<1> QED
  BY <1>1, <1>5, <1>6, Owned

LEMMA IsQueued ==
  ASSUME IInv, NEW q \in Call, NEW k \in Sql, NEW o \in Owner \cup {NoOwner}, NEW w \in Workload,
         QueryQueued(q, k, o, w)
  PROVE  IInv'
<1>1. /\ active >= MaxConcurrent /\ ~Full /\ Owns(q, k, o, w, "queued", "none")
      /\ active' = active /\ queue' = Append(queue, q)
  BY DEF QueryQueued
<1>2. phase[q] = "returned" /\ phase' = [phase EXCEPT ![q] = "queued"] /\ TypeOK
  BY <1>1 DEF Owns, Issues, IInv
<1>3. Holding' = Holding /\ Queued' = Queued \cup {q} /\ q \notin Queued
  BY <1>2, Moves DEF Phase, Holding, Queued
<1>4. /\ queue \in Seq(Call) /\ Len(queue) \in Nat /\ DOMAIN queue = 1 .. Len(queue)
      /\ queue' \in Seq(Call) /\ Len(queue') = Len(queue) + 1
      /\ DOMAIN queue' = 1 .. Len(queue) + 1 /\ queue'[Len(queue) + 1] = q
      /\ \A i \in 1 .. Len(queue) : queue'[i] = queue[i]
  BY <1>1, <1>2 DEF TypeOK
<1>5. QueueFits'
  <2>1. \A i \in 1 .. Len(queue) : queue[i] # q
    BY <1>3, <1>4 DEF IInv, QueueFits, Range
  <2>2. Distinct(queue')
    BY <1>4, <2>1 DEF IInv, QueueFits, Distinct
  <2>3. Range(queue') = Range(queue) \cup {q}
    BY <1>4 DEF Range
  <2> QED
    BY <1>3, <2>2, <2>3 DEF IInv, QueueFits
<1>6. SlotsFit'
  BY <1>1, <1>2, <1>3, WorkloadAssumption DEF IInv, SlotsFit, TypeOK
<1>7. active' \in Nat /\ Len(queue') + coalescedWaiters <= MaxQueued
  BY <1>1, <1>2, <1>4, WorkloadAssumption DEF TypeOK, Full
<1> QED
  BY <1>1, <1>4, <1>5, <1>6, <1>7, Owned

LEMMA IsJoined ==
  ASSUME IInv, NEW q \in Call, NEW k \in Sql, NEW o \in Owner \cup {NoOwner}, NEW w \in Workload,
         o \in Lookup => w = workload[o], QueryJoins(q, k, o, w)
  PROVE  IInv'
<1> USE DEF owners, slots
<1>1. PICK p \in Call : /\ Existing(p, k, o)
                        /\ joined' = [joined EXCEPT ![p] = @ \cup {q}]
                        /\ workload' = promote(Ranked(q, o, w), admission(p), w)
  BY DEF QueryJoins
<1>2. /\ TypeOK /\ Issues(q, k, o) /\ ~Full /\ phase' = [phase EXCEPT ![q] = "joined"]
      /\ coalescedWaiters' = coalescedWaiters + 1
      /\ UNCHANGED <<outcome, recoveries, aborted, inFlight, queue, active, interactiveStreak, cooling>>
  BY DEF QueryJoins, IInv
<1>3. /\ phase[q] = "returned" /\ q \notin inFlight /\ joined[q] = {}
      /\ \A x \in Call : q \notin joined[x]
      /\ sql' \in [Call -> Sql \cup {NoSql}] /\ scope' \in [Call -> Owner \cup {NoOwner}]
      /\ sql'[q] = k /\ scope'[q] = o
      /\ \A x \in Call \ {q} : sql'[x] = sql[x] /\ scope'[x] = scope[x]
  BY <1>2, Issued
<1>a. /\ Ranked(q, o, w) \in [Call \cup Lookup -> Workload]
      /\ o \notin Lookup => Ranked(q, o, w)[q] = w
      /\ \A a \in (Call \cup Lookup) \ {q} : Ranked(q, o, w)[a] = workload[a]
  BY <1>2, RankedAt
<1>4. p \in inFlight /\ sql[p] = k /\ scope[p] = o /\ p # q
  BY <1>1, <1>3 DEF Existing
<1>5. Call \cap Lookup = {}
  BY WorkloadAssumption
<1>6. /\ Holding' = Holding /\ Queued' = Queued /\ phase' \in [Call -> Phase]
      /\ Followers' = Followers \cup {q} /\ q \notin Followers
  BY <1>2, <1>3, Moves DEF Phase, Holding, Queued, Followers
<1>7. QueueFits' /\ SlotsFit'
  BY <1>2, <1>6 DEF IInv, QueueFits, SlotsFit
<1>8. coalescedWaiters' = Cardinality(Followers') /\ coalescedWaiters' \in Nat
      /\ Len(queue') + coalescedWaiters' <= MaxQueued
  <2>1. Cardinality(Followers') = Cardinality(Followers) + 1
    BY <1>6, Counts DEF Followers
  <2>2. Len(queue) \in Nat /\ coalescedWaiters \in Nat /\ coalescedWaiters = Cardinality(Followers)
    BY <1>2 DEF IInv, TypeOK, WaitersFit
  <2>3. Len(queue) + coalescedWaiters < MaxQueued
    BY <1>2, <2>2, WorkloadAssumption DEF Full
  <2> QED
    BY <1>2, <2>1, <2>2, <2>3, WorkloadAssumption
<1>9. admission(p) = IF o \in Lookup THEN o ELSE p
  BY <1>4 DEF admission
<1>10. /\ workload' \in [Call \cup Lookup -> Workload]
       /\ \A a \in (Call \cup Lookup) \ {q, p} : workload'[a] = workload[a]
       /\ workload'[p] = IF o \in Lookup THEN workload[p] ELSE MoreUrgent(w, workload[p])
       /\ o \notin Lookup => workload'[q] = w
  <2> DEFINE R == Ranked(q, o, w)
             a == admission(p)
  <2>1. workload' = [R EXCEPT ![a] = MoreUrgent(w, R[a])]
    BY <1>1 DEF promote
  <2>2. a \in Call \cup Lookup /\ a # q
    BY <1>4, <1>5, <1>9
  <2>3. R \in [Call \cup Lookup -> Workload] /\ R[a] = workload[a] /\ R[p] = workload[p]
    BY <1>a, <1>4, <2>2
  <2>4. o \in Lookup => MoreUrgent(w, workload[a]) = workload[a]
    BY <1>9 DEF MoreUrgent
  <2>5. MoreUrgent(w, R[a]) \in Workload
    BY <2>2, <2>3 DEF MoreUrgent
  <2>6. a = IF o \in Lookup THEN o ELSE p
    BY <1>9
  <2>7. \A x \in (Call \cup Lookup) \ {q} : R[x] = workload[x]
    BY <1>a
  <2>8. o \notin Lookup => R[q] = w
    BY <1>a
  <2> HIDE DEF R, a
  <2>9. workload' \in [Call \cup Lookup -> Workload]
    BY <2>1, <2>3, <2>5
  <2>10. \A x \in (Call \cup Lookup) \ {q, p} : workload'[x] = workload[x]
    BY <2>1, <2>2, <2>3, <2>4, <2>6, <2>7
  <2>11. workload'[p] = IF o \in Lookup THEN workload[p] ELSE MoreUrgent(w, workload[p])
    BY <1>5, <2>1, <2>3, <2>6
  <2>12. o \notin Lookup => workload'[q] = w
    BY <1>4, <2>1, <2>3, <2>6, <2>8
  <2> QED
    BY <2>9, <2>10, <2>11, <2>12
<1>11. TypeOK'
  <2>1. joined' \in [Call -> SUBSET Call]
    BY <1>1, <1>2 DEF TypeOK
  <2> QED
    BY <1>2, <1>3, <1>6, <1>8, <1>10, <2>1 DEF TypeOK, Phase
<1>12. EntriesFit'
  <2>1. inFlight' = {x \in Call : phase'[x] \in Reading \cup {"settled"}}
    BY <1>2, <1>3 DEF IInv, EntriesFit, Reading, TypeOK
  <2> QED
    BY <1>2, <1>3, <2>1 DEF IInv, EntriesFit, TypeOK
<1>13. FollowersFit'
  <2>1. Rank(p)' <= Rank(q)' /\ Rank(p)' <= Rank(p)
    <3>1. scope'[p] = o /\ scope[p] = o /\ scope'[q] = o
      BY <1>3, <1>4
    <3>2. CASE o \in Lookup
      <4>1. workload'[o] = workload[o] /\ workload[o] \in Workload
        BY <1>2, <1>5, <1>10, <3>2 DEF TypeOK
      <4>2. Rank(p)' = priority[workload'[o]] /\ Rank(q)' = priority[workload'[o]]
            /\ Rank(p) = priority[workload[o]]
        BY <3>1, <3>2 DEF Rank, Class, admission
      <4> QED
        BY <4>1, <4>2, Ranks
    <3>3. CASE o \notin Lookup
      <4>1. Rank(p)' = priority[MoreUrgent(w, workload[p])] /\ Rank(q)' = priority[w]
            /\ Rank(p) = priority[workload[p]]
        BY <1>10, <3>1, <3>3 DEF Rank, Class, admission
      <4>2. workload[p] \in Workload
        BY <1>2 DEF TypeOK
      <4> QED
        BY <4>1, <4>2, Ranks
    <3> QED
      BY <3>2, <3>3
  <2>2. \A x \in Call \ {q, p} : Rank(x)' = Rank(x)
    <3> SUFFICES ASSUME NEW x \in Call \ {q, p} PROVE Rank(x)' = Rank(x)
      OBVIOUS
    <3>1. admission(x)' = admission(x)
      BY <1>3 DEF admission
    <3>2. admission(x) \in (Call \cup Lookup) \ {q, p}
      BY <1>5 DEF admission
    <3>3. workload'[admission(x)] = workload[admission(x)]
      BY <1>10, <3>2
    <3> QED
      BY <3>1, <3>3 DEF Rank, Class
  <2>3. \A x \in Call : Rank(x) \in 0..2 /\ (Rank(x)' \in 0..2)
    <3>1. \A x \in Call : Rank(x) \in 0..2
      BY <1>2, ClassType
    <3>2. TypeOK' => \A x \in Call : Rank(x)' \in 0..2
      <4> SUFFICES ASSUME TypeOK', NEW x \in Call PROVE Rank(x)' \in 0..2
        OBVIOUS
      <4>1. workload'[admission(x)'] \in Workload
        BY DEF TypeOK, admission
      <4> QED
        BY <4>1, Ranks DEF Rank, Class
    <3> QED
      BY <1>11, <3>1, <3>2
  <2>4. p \notin joined[p] /\ \A x \in Call : p \notin joined[x]
    BY <1>4 DEF IInv, EntriesFit, FollowersFit, Reading
  <2> SUFFICES ASSUME NEW x \in Call, NEW f \in joined'[x]
               PROVE  /\ phase'[f] = "joined" /\ x \in inFlight /\ scope'[f] = scope'[x]
                      /\ Rank(x)' <= Rank(f)'
                      /\ \A y \in Call : f \in joined'[y] => y = x
    BY <1>2 DEF FollowersFit
  <2>5. \A y \in Call : joined'[y] = IF y = p THEN joined[p] \cup {q} ELSE joined[y]
    BY <1>1, <1>2 DEF TypeOK
  <2>6. CASE f = q
    <3>1. \A y \in Call : f \in joined'[y] <=> y = p
      BY <1>3, <2>5, <2>6
    <3>2. x = p
      BY <3>1
    <3> QED
      BY <1>2, <1>3, <1>4, <2>1, <2>6, <3>1, <3>2 DEF TypeOK
  <2>7. CASE f # q
    <3>1. f \in joined[x] /\ \A y \in Call : f \in joined'[y] => f \in joined[y]
      BY <2>5, <2>7
    <3>2. /\ f \in Call /\ phase[f] = "joined" /\ x \in inFlight /\ scope[f] = scope[x]
          /\ Rank(x) <= Rank(f) /\ \A y \in Call : f \in joined[y] => y = x
      BY <1>2, <3>1 DEF IInv, FollowersFit, TypeOK
    <3>3. f # p /\ x # q
      BY <1>3, <2>4, <3>1, <3>2
    <3>4. phase'[f] = "joined"
      BY <1>2, <2>7, <3>2 DEF TypeOK
    <3>5. scope'[f] = scope'[x]
      BY <1>3, <2>7, <3>2, <3>3
    <3>6. Rank(f)' = Rank(f) /\ Rank(x)' <= Rank(x)
      BY <2>1, <2>2, <2>3, <2>7, <3>2, <3>3
    <3>7. Rank(x)' <= Rank(f)'
      BY <2>3, <3>2, <3>6
    <3> QED
      BY <3>1, <3>2, <3>4, <3>5, <3>7
  <2> QED
    BY <2>6, <2>7
<1>14. OutcomesFit'
  <2>1. outcome[q] = "none"
    BY <1>3 DEF IInv, OutcomesFit
  <2> QED
    BY <1>2, <1>3, <2>1 DEF IInv, OutcomesFit, CancelIsOwn, TypeOK
<1> QED
  BY <1>7, <1>8, <1>11, <1>12, <1>13, <1>14 DEF IInv, WaitersFit

\* The rank of a lookup is the rank of all its calls.
LEMMA LookupMoves ==
  ASSUME IInv, NEW l \in Lookup, NEW v \in Workload, workload' = [workload EXCEPT ![l] = v],
         recoveries' \in [Lookup -> {"none", "running", "over"}],
         UNCHANGED <<phase, calls, outcome, aborted, sharing, slots, cooling>>
  PROVE  IInv'
<1> USE DEF calls, sharing, slots
<1>0. TypeOK /\ Call \cap Lookup = {}
  BY WorkloadAssumption DEF IInv
<1>1. workload' \in [Call \cup Lookup -> Workload]
  BY <1>0 DEF TypeOK
<1>2. TypeOK'
  BY <1>0, <1>1 DEF TypeOK
<1>3. QueueFits' /\ SlotsFit' /\ WaitersFit' /\ EntriesFit' /\ OutcomesFit'
  BY DEF IInv, QueueFits, SlotsFit, WaitersFit, EntriesFit, OutcomesFit, CancelIsOwn, Queued,
         Holding, Followers
<1>4. \A x \in Call : Rank(x)' = IF scope[x] = l THEN priority[v] ELSE Rank(x)
  <2> SUFFICES ASSUME NEW x \in Call
               PROVE  Rank(x)' = IF scope[x] = l THEN priority[v] ELSE Rank(x)
    OBVIOUS
  <2>1. admission(x)' = admission(x) /\ admission(x) \in Call \cup Lookup
        /\ (admission(x) = l <=> scope[x] = l)
    BY <1>0 DEF admission
  <2>2. workload'[admission(x)] = IF scope[x] = l THEN v ELSE workload[admission(x)]
    BY <1>0, <2>1 DEF TypeOK
  <2> QED
    BY <2>1, <2>2 DEF Rank, Class
<1>5. FollowersFit'
  <2> SUFFICES ASSUME NEW p \in Call, NEW q \in joined[p]
               PROVE  /\ phase[q] = "joined" /\ p \in inFlight /\ scope[q] = scope[p]
                      /\ Rank(p)' <= Rank(q)'
                      /\ \A o \in Call : q \in joined[o] => o = p
    BY DEF FollowersFit
  <2>1. /\ q \in Call /\ phase[q] = "joined" /\ p \in inFlight /\ scope[q] = scope[p]
        /\ Rank(p) <= Rank(q) /\ \A o \in Call : q \in joined[o] => o = p
    BY <1>0 DEF IInv, FollowersFit, TypeOK
  <2>2. priority[v] <= priority[v]
    BY Ranks
  <2> QED
    BY <1>4, <2>1, <2>2
<1> QED
  BY <1>2, <1>3, <1>5 DEF IInv

LEMMA Lookups ==
  ASSUME IInv, NEW l \in Lookup,
         RecoveryEnds(l) \/ \E w \in Traffic : runRecovery(l, w) \/ joinRecovery(l, w)
  PROVE  IInv'
<1>0. TypeOK /\ Traffic \subseteq Workload /\ l \in Call \cup Lookup
  BY WorkloadAssumption DEF IInv
<1>a. workload[l] \in Workload
  BY <1>0 DEF TypeOK
<1>1. CASE RecoveryEnds(l)
  <2>1. workload' = [workload EXCEPT ![l] = workload[l]]
    BY <1>0, <1>1 DEF RecoveryEnds, TypeOK
  <2>2. recoveries' \in [Lookup -> {"none", "running", "over"}]
    BY <1>0, <1>1 DEF RecoveryEnds, TypeOK
  <2> QED
    BY <1>1, <1>a, <2>1, <2>2, LookupMoves DEF RecoveryEnds
<1>2. CASE \E w \in Traffic : runRecovery(l, w)
  <2>1. PICK w \in Traffic : runRecovery(l, w)
    BY <1>2
  <2>2. recoveries' \in [Lookup -> {"none", "running", "over"}]
    BY <1>0, <2>1 DEF runRecovery, TypeOK
  <2> QED
    BY <1>0, <2>1, <2>2, LookupMoves DEF runRecovery
<1>3. CASE \E w \in Traffic : joinRecovery(l, w)
  <2>1. PICK w \in Traffic : joinRecovery(l, w)
    BY <1>3
  <2>2. recoveries' \in [Lookup -> {"none", "running", "over"}]
    BY <1>0, <2>1 DEF joinRecovery, owners, TypeOK
  <2>3. MoreUrgent(w, workload[l]) \in Workload
    BY <1>0, <1>a DEF MoreUrgent
  <2>4. workload' = [workload EXCEPT ![l] = MoreUrgent(w, workload[l])]
    BY <2>1 DEF joinRecovery, promote
  <2> QED
    BY <2>1, <2>2, <2>3, <2>4, LookupMoves DEF joinRecovery, owners
<1> QED
  BY <1>1, <1>2, <1>3

-----------------------------------------------------------------------------
LEMMA Step == IInv /\ [Next]_vars => IInv'
<1> SUFFICES ASSUME IInv, [Next]_vars PROVE IInv'
  OBVIOUS
<1>1. ASSUME NEW q \in Call, Query(q) PROVE IInv'
  <2>1. PICK k \in Sql, o \in Owner \cup {NoOwner} :
          \E w \in IF o \in Lookup THEN {workload[o]} ELSE Traffic :
            \/ QueryJoins(q, k, o, w) \/ QueryRefused(q, k, o, w)
            \/ QueryAdmitted(q, k, o, w) \/ QueryQueued(q, k, o, w)
    BY <1>1 DEF Query
  <2>2. PICK w \in IF o \in Lookup THEN {workload[o]} ELSE Traffic :
            \/ QueryJoins(q, k, o, w) \/ QueryRefused(q, k, o, w)
            \/ QueryAdmitted(q, k, o, w) \/ QueryQueued(q, k, o, w)
    BY <2>1
  <2>3. w \in Workload /\ (o \in Lookup => w = workload[o])
    BY WorkloadAssumption DEF IInv, TypeOK
  <2> QED
    BY <2>2, <2>3, IsJoined, IsRefused, IsAdmitted, IsQueued
<1>2. ASSUME NEW q \in Call, Continues(q) PROVE IInv'
  BY <1>2, Starts, Refuses, OwnersReturn, FollowersReturn DEF Continues
<1>3. CASE UNCHANGED vars
  BY <1>3 DEF IInv, vars, calls, owners, sharing, slots, TypeOK, QueueFits, SlotsFit, WaitersFit,
         EntriesFit, FollowersFit, OutcomesFit, CancelIsOwn, Queued, Holding, Followers, Rank,
         Class, admission
<1> QED
  BY <1>1, <1>2, <1>3, TimesOut, Ends, Cools, Lookups, Aborts DEF Next

THEOREM Invariant == Spec => []IInv
<1>1. IInv /\ UNCHANGED vars => IInv'
  BY Step
<1> QED
  BY Initially, Step, PTL DEF Spec

\* Whatever the traffic, the timeouts, the aborts and the failures: a slot is
\* neither leaked nor overbooked, and no read waits for a free one.
THEOREM Slots == Spec => []SlotsExact
<1>1. IInv => SlotsExact
  BY DEF IInv, SlotsFit, SlotsExact, Holding
<1> QED
  BY <1>1, Invariant, PTL

\* The queue and the followers of reads share one bound, of any size.
THEOREM Bounded == Spec => []WaitingBounded
<1>1. IInv => WaitingBounded
  <2> SUFFICES ASSUME IInv PROVE WaitingBounded
    OBVIOUS
  <2>1. Len(queue) \in Nat /\ coalescedWaiters \in Nat
    BY DEF IInv, TypeOK
  <2> QED
    BY <2>1, WorkloadAssumption DEF IInv, WaitersFit, WaitingBounded, Followers
<1> QED
  BY <1>1, Invariant, PTL

\* No read is made twice at a time for one owner.
THEOREM Once == Spec => []OneRead
<1>1. IInv => OneRead
  BY DEF IInv, EntriesFit, OneRead
<1> QED
  BY <1>1, Invariant, PTL

\* Cancelling an owner cancels no call of another one.
THEOREM Cancels == Spec => []CancelIsOwn
<1>1. IInv => CancelIsOwn
  BY DEF IInv, OutcomesFit
<1> QED
  BY <1>1, Invariant, PTL

\* A caller that joins a read waits at its own rank at least.
THEOREM NotDelayed == Spec => []JoinedNotDelayed
<1>1. IInv => JoinedNotDelayed
  BY DEF IInv, FollowersFit, JoinedNotDelayed, Rank
<1> QED
  BY <1>1, Invariant, PTL
=============================================================================
