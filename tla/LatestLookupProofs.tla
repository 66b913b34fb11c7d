--------------------------- MODULE LatestLookupProofs ---------------------------
(***************************************************************************)
(* Theorems about LatestLookup, for every set of configurations, topics    *)
(* and requests and every value of the bounds.                             *)
(***************************************************************************)
EXTENDS LatestLookup, FilteringProofs

Passive == {"passive", "importing", "imported"}
Doing   == [role : {"none", "eligible", "own", "owner", "joined", "answered"},
            got : Result \cup {"none", "waiting", "cache", "questdb", "miss", "failed"}]

\* As far as the arguments need them.
Types ==
  /\ phase \in Passive \cup {"active", "released"}
  /\ cache \in [Topic -> {"none", "archived", "operand", "live"}]
  /\ authority \in [Topic -> {"free", "none", "archived", "operand", "live"}]
  /\ item \in [Caller -> [Place -> Doing]]
  /\ DOMAIN queue = Caller

\* A process that was not active yet has no requests, ...
NoRequests == phase \in Passive => \A c \in Request : queue[c] = <<>> /\ Underway(c) = {}

\* ... the seed works only during its cycle, which is over when operands are imported,
\* and a process that was released takes nothing from it.
SeedFits ==
  /\ Underway(Seed) # {} => seeding
  /\ phase = "imported" => ~seeding
  /\ phase = "released" => ~accepting

\* The absence of an operand is owed only until the activation.
AbsenceFits == \A t \in Topic : authority[t] = "none" => phase = "imported"

IInv == Types /\ NoRequests /\ SeedFits /\ AbsenceFits /\ AuthorityKept

-----------------------------------------------------------------------------
LEMMA Callers == Request \subseteq Caller /\ Seed \in Caller /\ Seed \notin Request
  BY ConfigurationAssumption DEF Caller

LEMMA Initially == Init => IInv
<1> SUFFICES ASSUME Init PROVE IInv
  OBVIOUS
<1>1. Types
  BY DEF Init, Types, Passive, Doing, NoItem, Result
<1>2. \A c \in Caller : Underway(c) = {}
  BY DEF Init, Underway, NoItem
<1>3. NoRequests /\ SeedFits
  BY <1>2, Callers DEF Init, NoRequests, SeedFits
<1>4. AbsenceFits /\ AuthorityKept
  BY DEF Init, AbsenceFits, AuthorityKept
<1> QED
  BY <1>1, <1>3, <1>4 DEF IInv

\* Steps that touch only what callers do.
LEMMA WorkKeeps ==
  ASSUME IInv, UNCHANGED <<config, phase, cache, authority, seeding, accepting>>,
         item' \in [Caller -> [Place -> Doing]], DOMAIN queue' = Caller,
         phase \in Passive => \A c \in Request : queue'[c] = <<>> /\ Underway(c)' = {},
         Underway(Seed)' # {} => Underway(Seed) # {} \/ seeding
  PROVE  IInv'
<1>1. Types' /\ NoRequests'
  BY DEF IInv, Types, NoRequests, Place
<1>2. SeedFits'
  BY Zenon DEF IInv, SeedFits
<1>3. AbsenceFits' /\ AuthorityKept'
  BY DEF IInv, AbsenceFits, AuthorityKept
<1> QED
  BY <1>1, <1>2, <1>3, Zenon DEF IInv

\* How a call of run changes what its caller does.
LEMMA RunItem ==
  ASSUME NEW c, NEW i, Run(c, i)
  PROVE  \E x \in Doing : item' = [item EXCEPT ![c][i] = x]
  BY DEF Run, Outcome, Doing, Result

LEMMA AskKeeps == ASSUME IInv, NEW c \in Request, Ask(c) PROVE IInv'
<1>1. c \in Caller /\ c # Seed /\ Seed \in Caller
  BY Callers
<1>2. phase = "active" /\ UNCHANGED <<config, phase, cache, authority, seeding, accepting>>
  BY DEF Ask, process, values, seed
<1>3. /\ DOMAIN queue' = Caller /\ item' \in [Caller -> [Place -> Doing]]
      /\ item'[Seed] = item[Seed]
  <2> DEFINE x == [i \in Place |-> IF Cached(topic(i)) THEN Answer("cache")
                                   ELSE IF i \in Range(select(Misses))
                                        THEN [role |-> "eligible", got |-> "none"]
                                   ELSE Answer("miss")]
  <2>1. x \in [Place -> Doing]
    BY DEF NoItem, Answer, Doing, Result
  <2>2. item' = [item EXCEPT ![c] = x] /\ DOMAIN queue' = DOMAIN queue
    BY DEF Ask
  <2> HIDE DEF x
  <2> QED
    BY <1>1, <2>1, <2>2 DEF IInv, Types
<1>4. Underway(Seed)' = Underway(Seed)
  BY <1>1, <1>2, <1>3 DEF Underway, Place
<1> QED
  BY <1>2, <1>3, <1>4, WorkKeeps DEF Passive

LEMMA BeginKeeps == ASSUME IInv, NEW c \in Request, Begin(c) PROVE IInv'
<1>1. c \in Caller /\ c # Seed /\ Seed \in Caller
  BY Callers
<1>2. UNCHANGED <<config, phase, cache, authority, seeding, accepting>>
  BY DEF Begin, process, values, seed
<1>3. phase \notin Passive /\ DOMAIN queue' = Caller
  BY DEF Begin, IInv, NoRequests, Types
<1>4. item' \in [Caller -> [Place -> Doing]] /\ item'[Seed] = item[Seed]
  <2> DEFINE i == Head(queue[c])
  <2>1. CASE Cached(topic(i))
    <3>1. item' = [item EXCEPT ![c][i] = Answer("cache")]
      BY <2>1 DEF Begin
    <3>2. Answer("cache") \in Doing
      BY DEF Answer, Doing, Result
    <3> HIDE DEF i
    <3> QED
      BY <1>1, <3>1, <3>2 DEF IInv, Types
  <2>2. CASE ~Cached(topic(i))
    <3>1. Run(c, i)
      BY <2>2 DEF Begin
    <3>2. PICK x \in Doing : item' = [item EXCEPT ![c][i] = x]
      BY <3>1, RunItem
    <3> HIDE DEF i
    <3> QED
      BY <1>1, <3>2 DEF IInv, Types
  <2> QED
    BY <2>1, <2>2
<1>5. Underway(Seed)' = Underway(Seed)
  BY <1>2, <1>4 DEF Underway, Place
<1> QED
  BY <1>2, <1>3, <1>4, <1>5, WorkKeeps

LEMMA SeedNextKeeps == ASSUME IInv, SeedNext PROVE IInv'
<1>1. UNCHANGED <<config, phase, cache, authority, seeding, accepting>> /\ seeding
  BY DEF SeedNext, process, values, seed
<1>2. DOMAIN queue' = Caller /\ \A c \in Request : queue'[c] = queue[c]
  BY Callers DEF SeedNext, IInv, Types
<1>3. /\ item' \in [Caller -> [Place -> Doing]]
      /\ \A c \in Request : item'[c] = item[c]
  <2> DEFINE i == Head(queue[Seed])
  <2>1. CASE Cached(topic(i))
    BY <2>1 DEF SeedNext, IInv, Types
  <2>2. CASE ~Cached(topic(i))
    <3>1. Run(Seed, i)
      BY <2>2 DEF SeedNext
    <3>2. PICK x \in Doing : item' = [item EXCEPT ![Seed][i] = x]
      BY <3>1, RunItem
    <3> HIDE DEF i
    <3> QED
      BY <3>2, Callers DEF IInv, Types
  <2> QED
    BY <2>1, <2>2
<1>4. \A c \in Request : Underway(c)' = Underway(c)
  BY <1>1, <1>2, <1>3 DEF Underway, Place
<1> QED
  BY <1>1, <1>2, <1>3, <1>4, WorkKeeps DEF IInv, NoRequests

\* A lookup that ends changes nobody's role.
LEMMA DeliveredKeeps ==
  ASSUME IInv, NEW t \in Topic, NEW r \in Result, item' = Delivered(t, r),
         UNCHANGED <<process, values, queue, seed>>
  PROVE  IInv'
<1>1. UNCHANGED <<config, phase, cache, authority, seeding, accepting>>
  BY DEF process, values, seed
<1>2. /\ item' \in [Caller -> [Place -> Doing]]
      /\ \A c \in Caller, i \in Place : item'[c][i].role = item[c][i].role
  <2>1. ASSUME NEW c \in Caller, NEW i \in Place
        PROVE  item'[c][i] \in Doing /\ item'[c][i].role = item[c][i].role
    <3>1. item[c][i] \in Doing
      BY DEF IInv, Types
    <3>2. item'[c][i] = item[c][i] \/ item'[c][i] = [item[c][i] EXCEPT !.got = r]
      BY DEF Delivered
    <3> QED
      BY <3>1, <3>2 DEF Doing
  <2>2. item' = [c \in Caller |-> [i \in Place |-> item'[c][i]]]
    BY DEF Delivered
  <2> QED
    BY <2>1, <2>2
<1>3. \A c \in Caller : Underway(c)' = Underway(c)
  BY <1>1, <1>2 DEF Underway, Place
<1> QED
  BY <1>1, <1>2, <1>3, Callers, WorkKeeps DEF IInv, Types, NoRequests

LEMMA LookupKeeps == ASSUME IInv, NEW t \in Topic, Lookup(t) \/ Timeout(t) PROVE IInv'
<1>1. CASE Timeout(t)
  BY <1>1, DeliveredKeeps DEF Timeout, Result
<1>2. ASSUME NEW r \in {"value", "null", "error", "busy"}, Settle(t, r) PROVE IInv'
  BY <1>2, DeliveredKeeps DEF Settle, Result
<1> QED
  BY <1>1, <1>2 DEF Lookup

LEMMA ReplyKeeps == ASSUME IInv, NEW c \in Request, Reply(c) PROVE IInv'
<1>1. UNCHANGED <<config, phase, cache, authority, seeding, accepting>>
  BY DEF Reply, process, values, seed
<1>2. /\ item' \in [Caller -> [Place -> Doing]] /\ DOMAIN queue' = Caller
      /\ \A d \in Caller : d # c => item'[d] = item[d] /\ queue'[d] = queue[d]
      /\ queue'[c] = <<>> /\ \A i \in Place : item'[c][i] = NoItem
  BY Callers DEF Reply, IInv, Types, NoItem, Doing
<1>3. Underway(c)' = {} /\ \A d \in Caller : d # c => Underway(d)' = Underway(d)
  BY <1>1, <1>2 DEF Underway, NoItem, Place
<1> QED
  BY <1>1, <1>2, <1>3, Callers, WorkKeeps DEF IInv, NoRequests

LEMMA SeedEndsKeeps == ASSUME IInv, SeedEnds PROVE IInv'
<1>1. UNCHANGED <<config, phase, cache, authority, item, accepting>> /\ Underway(Seed) = {} /\ ~seeding'
  BY DEF SeedEnds, process, values
<1>2. DOMAIN queue' = Caller /\ \A c \in Request : queue'[c] = queue[c]
  BY Callers DEF SeedEnds, IInv, Types
<1>3. \A c \in Caller : Underway(c)' = Underway(c)
  BY <1>1 DEF Underway, Place
<1>4. Types' /\ NoRequests' /\ AbsenceFits' /\ AuthorityKept'
  BY <1>1, <1>2, <1>3, Callers DEF IInv, Types, NoRequests, AbsenceFits, AuthorityKept, Place
<1>5. SeedFits'
  BY <1>1, <1>3, Callers, Zenon DEF IInv, SeedFits
<1> QED
  BY <1>4, <1>5, Zenon DEF IInv

-----------------------------------------------------------------------------
(* What changes the cache.                                                 *)

\* A fill needs an absent value of which nothing is owed.
LEMMA FillKeeps ==
  ASSUME IInv, NEW t, phase # "imported", cache' \in {cache, [cache EXCEPT ![t] = "archived"]},
         cache' # cache => insertsArchived(t), UNCHANGED <<config, phase, authority, seeding, accepting>>,
         item' \in [Caller -> [Place -> Doing]], UNCHANGED queue,
         \A c \in Caller : Underway(c)' \subseteq Underway(c)
  PROVE  IInv'
<1>1. Types' /\ NoRequests'
  BY Callers DEF IInv, Types, NoRequests, Place
<1>2. SeedFits'
  <2>1. Underway(Seed)' # {} => Underway(Seed) # {}
    BY Callers
  <2> QED
    BY <2>1, Zenon DEF IInv, SeedFits
<1>3. AbsenceFits' /\ AuthorityKept'
  BY DEF IInv, Types, AbsenceFits, AuthorityKept, insertsArchived, Cached
<1> QED
  BY <1>1, <1>2, <1>3, Zenon DEF IInv

LEMMA ResumeKeeps == ASSUME IInv, NEW c \in Request, NEW i \in Place, Resume(c, i) PROVE IInv'
<1>1. /\ phase # "imported" /\ UNCHANGED <<config, phase, authority, seeding, accepting, queue>>
      /\ cache' \in {cache, [cache EXCEPT ![topic(i)] = "archived"]}
      /\ (cache' # cache => insertsArchived(topic(i)))
  BY DEF Resume, process, seed, IInv, NoRequests, Passive
<1>2. PICK a \in Doing : a.role = "answered" /\ item' = [item EXCEPT ![c][i] = a]
  BY DEF Resume, Answer, AnsweredCached, Doing, Result
<1>3. item' \in [Caller -> [Place -> Doing]]
      /\ \A d \in Caller, u \in Place : item'[d][u] = item[d][u] \/ item'[d][u].role = "answered"
  BY <1>2, Callers DEF IInv, Types
<1>4. \A d \in Caller : Underway(d)' \subseteq Underway(d)
  BY <1>1, <1>2, <1>3 DEF Underway, Place
<1> QED
  BY <1>1, <1>3, <1>4, FillKeeps

LEMMA SeedResumeKeeps == ASSUME IInv, NEW i \in Place, SeedResume(i) PROVE IInv'
<1>1. /\ UNCHANGED <<config, phase, authority, seeding, accepting, queue>> /\ Underway(Seed) # {}
      /\ cache' \in {cache, [cache EXCEPT ![topic(i)] = "archived"]}
      /\ (cache' # cache => insertsArchived(topic(i)))
  BY DEF SeedResume, process, seed
<1>2. phase # "imported"
  BY <1>1, Zenon DEF IInv, SeedFits
<1>3. item' \in [Caller -> [Place -> Doing]]
      /\ \A d \in Caller, u \in Place : item'[d][u] = item[d][u] \/ item'[d][u].role = "none"
  BY Callers DEF SeedResume, NoItem, Doing, IInv, Types
<1>4. \A d \in Caller : Underway(d)' \subseteq Underway(d)
  BY <1>1, <1>2, <1>3 DEF Underway, Place
<1> QED
  BY <1>1, <1>2, <1>3, <1>4, FillKeeps

\* A packet or an eviction settles what the topic owes.
LEMMA OutsideKeeps ==
  ASSUME IInv, NEW t \in Topic, NEW v \in {"none", "live"}, cache' = [cache EXCEPT ![t] = v],
         authority' = [authority EXCEPT ![t] = IF v = "none" THEN "free" ELSE v],
         UNCHANGED <<process, work, seed>>
  PROVE  IInv'
<1>1. UNCHANGED <<config, phase, queue, item, seeding, accepting>>
  BY DEF process, work, seed
<1>2. \A c \in Caller : Underway(c)' = Underway(c)
  BY <1>1 DEF Underway, Place
<1>3. Types' /\ NoRequests' /\ AbsenceFits' /\ AuthorityKept'
  BY <1>1, <1>2, Callers DEF IInv, Types, NoRequests, AbsenceFits, AuthorityKept, Place
<1>4. SeedFits'
  BY <1>1, <1>2, Callers, Zenon DEF IInv, SeedFits
<1> QED
  BY <1>3, <1>4, Zenon DEF IInv

-----------------------------------------------------------------------------
(* The handover hooks.                                                     *)

LEMMA ActivateKeeps == ASSUME IInv, Activate PROVE IInv'
<1>1. phase' = "active" /\ UNCHANGED <<config, cache, item>> /\ StartsSeed
      /\ authority' = [t \in Topic |-> IF authority[t] = "none" THEN "free" ELSE authority[t]]
  BY DEF Activate
<1>2. \A c \in Caller : Underway(c)' = Underway(c)
  BY <1>1 DEF Underway, Place
<1>3. DOMAIN queue' = Caller
  BY <1>1 DEF StartsSeed, seed, IInv, Types
<1>4. Types' /\ NoRequests' /\ AbsenceFits' /\ AuthorityKept'
  BY <1>1, <1>3 DEF IInv, Types, NoRequests, Passive, AbsenceFits, AuthorityKept, Place
<1>5. seeding => seeding'
  BY <1>1, Zenon DEF StartsSeed, seed
<1>6. SeedFits'
  <2>1. phase' # "imported" /\ phase' # "released"
    BY <1>1
  <2> QED
    BY <2>1, <1>2, <1>5, Callers, Zenon DEF IInv, SeedFits
<1> QED
  BY <1>4, <1>6, Zenon DEF IInv

LEMMA ReleaseKeeps == ASSUME IInv, Release PROVE IInv'
<1>1. phase' = "released" /\ UNCHANGED <<config, cache, authority, item, queue, seeding>> /\ ~accepting'
      /\ phase = "active"
  BY DEF Release, PausesSeed, values, work
<1>2. \A c \in Caller : Underway(c)' = Underway(c)
  BY <1>1 DEF Underway, Place
<1>3. Types' /\ NoRequests' /\ AbsenceFits' /\ AuthorityKept'
  BY <1>1 DEF IInv, Types, NoRequests, Passive, AbsenceFits, AuthorityKept, Place
<1>4. SeedFits'
  <2>1. phase' # "imported"
    BY <1>1
  <2> QED
    BY <2>1, <1>1, <1>2, Callers, Zenon DEF IInv, SeedFits
<1> QED
  BY <1>3, <1>4, Zenon DEF IInv

LEMMA ImportKeeps ==
  ASSUME IInv, ImportStarts \/ \E S \in SUBSET config.published : \E V \in SUBSET S : Imported(S, V)
  PROVE  IInv'
<1>1. CASE ImportStarts
  <2>1. phase' = "importing" /\ UNCHANGED <<config, cache, authority, item, queue, seeding>>
        /\ phase = "passive"
    BY <1>1 DEF ImportStarts, PausesSeed, values, work
  <2>2. \A c \in Caller : Underway(c)' = Underway(c)
    BY <2>1 DEF Underway, Place
  <2>3. Types' /\ NoRequests' /\ AbsenceFits' /\ AuthorityKept'
    BY <2>1, <2>2, Callers DEF IInv, Types, NoRequests, Passive, AbsenceFits, AuthorityKept, Place
  <2>4. SeedFits'
    <3>1. phase' # "imported" /\ phase' # "released"
      BY <2>1
    <3> QED
      BY <3>1, <2>1, <2>2, Callers, Zenon DEF IInv, SeedFits
  <2> QED
    BY <2>3, <2>4, Zenon DEF IInv
<1>2. ASSUME NEW S, NEW V \in SUBSET S, Imported(S, V) PROVE IInv'
  <2>1. /\ phase = "importing" /\ phase' = "imported"
        /\ cache' = [t \in Topic |-> IF t \in V THEN "operand"
                                       ELSE IF t \in S THEN "none" ELSE cache[t]]
        /\ authority' = [t \in Topic |-> IF t \in S THEN cache'[t] ELSE authority[t]]
        /\ UNCHANGED <<config, item, queue>>
    BY <1>2 DEF Imported, work
  <2>2. ~seeding /\ ~seeding'
    BY <1>2, Zenon DEF Imported, seed
  <2>3. \A c \in Caller : Underway(c)' = Underway(c)
    BY <2>1 DEF Underway, Place
  <2>4. Types'
    BY <2>1 DEF IInv, Types, Passive, Place
  <2>5. NoRequests' /\ AbsenceFits'
    BY <2>1, <2>3, Callers DEF IInv, NoRequests, Passive, AbsenceFits
  <2>6. AuthorityKept'
    <3> SUFFICES ASSUME NEW t \in Topic, authority'[t] # "free" PROVE cache'[t] = authority'[t]
      BY DEF AuthorityKept
    <3>1. CASE t \in S
      BY <2>1, <3>1
    <3>2. CASE t \notin S
      <4>1. authority[t] # "free" /\ cache[t] = authority[t] /\ authority'[t] = authority[t]
        BY <2>1, <3>2 DEF IInv, AuthorityKept
      <4> QED
        BY <2>1, <3>2, <4>1 DEF IInv, Types
    <3> QED
      BY <3>1, <3>2
  <2>7. SeedFits'
    <3>1. phase' # "released" /\ phase # "imported"
      BY <2>1
    <3>2. Underway(Seed)' = {}
      BY <2>2, <2>3, Callers, Zenon DEF IInv, SeedFits
    <3> QED
      BY <2>2, <3>1, <3>2, Zenon DEF SeedFits
  <2> QED
    BY <2>4, <2>5, <2>6, <2>7, Zenon DEF IInv
<1> QED
  BY <1>1, <1>2

-----------------------------------------------------------------------------
LEMMA Quiet ==
  ASSUME IInv, UNCHANGED <<process, values, work, seed>> PROVE IInv'
<1>1. UNCHANGED <<config, phase, cache, authority, seeding, accepting, item, queue>>
  BY DEF process, values, work, seed
<1>2. \A c \in Caller : Underway(c)' = Underway(c)
  BY <1>1 DEF Underway, Place
<1> QED
  BY <1>1, <1>2, Callers, WorkKeeps DEF IInv, Types, NoRequests

LEMMA Step == IInv /\ [Next]_vars => IInv'
<1> SUFFICES ASSUME IInv, [Next]_vars PROVE IInv'
  OBVIOUS
<1>1. ASSUME NEW c \in Request, Ask(c) \/ Proceeds(c) \/ Abort(c) PROVE IInv'
  <2>1. CASE Abort(c)
    BY <2>1, Quiet DEF Abort
  <2> QED
    BY <1>1, <2>1, AskKeeps, BeginKeeps, ReplyKeeps, ResumeKeeps DEF Proceeds
<1>2. CASE SeedNext \/ SeedEnds
  BY <1>2, SeedNextKeeps, SeedEndsKeeps
<1>3. ASSUME NEW t \in Topic, Lookup(t) \/ Timeout(t) PROVE IInv'
  BY <1>3, LookupKeeps
<1>9. ASSUME NEW i \in Place, SeedResume(i) PROVE IInv'
  BY <1>9, SeedResumeKeeps
<1>4. ASSUME NEW t \in Topic, Live(t) PROVE IInv'
  BY <1>4, OutsideKeeps DEF Live
<1>5. ASSUME NEW t \in Topic, Evict(t) PROVE IInv'
  BY <1>5, OutsideKeeps DEF Evict
<1>6. CASE Tick \/ AskElsewhere
  BY <1>6, Quiet DEF Tick, AskElsewhere
<1>7. CASE Handover
  BY <1>7, ActivateKeeps, ReleaseKeeps, ImportKeeps DEF Handover
<1>8. CASE UNCHANGED vars
  BY <1>8, Quiet DEF vars
<1> QED
  BY <1>1, <1>2, <1>3, <1>4, <1>5, <1>6, <1>7, <1>8, <1>9 DEF Next

LEMMA Invariant == Spec => []IInv
  BY Initially, Step, PTL DEF Spec

\* For every number of topics, requests and lookups, what a live packet or an imported
\* operand put into lastValueMap stays there until the next packet or the eviction: no
\* lookup, timeout, seed or late request replaces it (preserveConcurrentCacheValue,
\* BackgroundCacheSeed, importState and onActivate of index.ts).
THEOREM AuthorityAlwaysKept == Spec => []AuthorityKept
<1>1. IInv => AuthorityKept
  BY DEF IInv
<1> QED
  BY <1>1, Invariant, PTL

\* Once the admitted requests of a released process are answered, only live packets
\* change lastValueMap, also while lookups of the paused seed are still under way.
THEOREM ReleasedIsQuiet == Spec => SeedQuiet
<1>1. IInv /\ [Next]_vars =>
        [phase = "released" /\ (\A c \in Request : ~Busy(c)) =>
           \A t \in Topic : cache'[t] \in {cache[t], "live"}]_vars
  <2> SUFFICES ASSUME IInv, Next, phase = "released", \A c \in Request : ~Busy(c),
                      NEW u \in Topic
               PROVE  cache'[u] \in {cache[u], "live"}
    OBVIOUS
  <2>1. ASSUME NEW c \in Request, Ask(c) \/ Proceeds(c) \/ Abort(c) PROVE cache'[u] = cache[u]
    <3>1. ASSUME NEW i \in Place, Resume(c, i) PROVE FALSE
      <4>1. item[c][i].role \in {"own", "owner", "joined"}
        BY <3>1 DEF Resume, Underway
      <4>2. item[c][i] # NoItem
        BY <4>1 DEF NoItem
      <4> QED
        BY <4>2 DEF Busy
    <3> QED
      BY <2>1, <3>1 DEF Ask, Abort, Proceeds, Begin, Reply, values
  <2>2. CASE SeedNext \/ SeedEnds \/ Tick \/ AskElsewhere
    BY <2>2 DEF SeedNext, SeedEnds, Tick, AskElsewhere, values
  <2>3. ASSUME NEW i \in Place, SeedResume(i) PROVE cache'[u] = cache[u]
    <3>1. ~accepting
      BY Zenon DEF IInv, SeedFits
    <3>2. cache' = cache
      BY <2>3, <3>1 DEF SeedResume, Applies
    <3> QED
      BY <3>2
  <2>4. ASSUME NEW t \in Topic, Lookup(t) \/ Timeout(t) \/ Live(t) \/ Evict(t)
        PROVE  cache'[u] \in {cache[u], "live"}
    BY <2>4 DEF Lookup, Settle, Timeout, Live, Evict, values, IInv, Types
  <2>5. CASE Handover
    BY <2>5 DEF Handover, Activate, Release, ImportStarts, Imported
  <2> QED
    BY <2>1, <2>2, <2>3, <2>4, <2>5 DEF Next
<1> QED
  BY <1>1, Invariant, PTL DEF Spec, SeedQuiet

-----------------------------------------------------------------------------
(* The books of the coordinator.                                           *)

Joined == {ci \in Caller \X Place : item[ci[1]][ci[2]].role = "joined"}

\* Each pending lookup has an owner that waits, and only for it anybody waits; the
\* waiters are those that joined.
Ledger ==
  /\ IsFiniteSet(pending) /\ Cardinality(pending) <= config.maxPending
  /\ IsFiniteSet(Joined) /\ waiters = Cardinality(Joined) /\ waiters <= MaxWaiters
  /\ \A t \in pending : \E c \in Caller, i \in Place : Awaits(c, i, t) /\ item[c][i].role = "owner"
  /\ \A c \in Caller, i \in Place : item[c][i].got = "waiting" => topic(i) \in pending

\* A request begins each eligible place once.
QueuesFit ==
  \A c \in Request : Distinct(queue[c]) /\ \A i \in Range(queue[c]) : item[c][i].role = "eligible"

LEMMA ConfigFacts ==
  ASSUME config \in Config
  PROVE  /\ config.budget \in Nat \ {0} /\ config.maxPending \in Nat \ {0}
         /\ config.topics \in Seq(Topic) /\ Place = 1 .. Len(config.topics)
         /\ Len(config.topics) \in Nat /\ \A i \in Place : topic(i) \in Topic
         /\ Places \in Seq(Place) /\ Range(Places) = Place /\ Distinct(Places)
<1>1. /\ config.budget \in Nat \ {0} /\ config.maxPending \in Nat \ {0}
      /\ config.topics \in Seq(Topic)
  BY ConfigurationAssumption
<1>2. /\ Place = 1 .. Len(config.topics) /\ Len(config.topics) \in Nat
      /\ \A i \in Place : topic(i) \in Topic
  BY <1>1 DEF Place, topic
<1>3. Places \in Seq(Place)
  BY <1>2 DEF Places
<1>4. Range(Places) = Place /\ Distinct(Places)
  BY DEF Places, Range, Distinct
<1> QED
  BY <1>1, <1>2, <1>3, <1>4

\* An item that awaits something has joined or owns a lookup.
LEMMA ItemFacts ==
  ASSUME LookupTypeOK, NEW c \in Caller, NEW i \in Place
  PROVE  /\ item[c][i] \in Item
         /\ item[c][i].got = "waiting" => item[c][i].role \in {"owner", "joined"}
         /\ item[c][i] = NoItem => item[c][i].role = "none" /\ item[c][i].got = "none"
<1>1. item[c][i] \in Item
  BY DEF LookupTypeOK
<1> QED
  BY <1>1 DEF Item, Result, NoItem

\* Replacing one item.
LEMMA ItemSet ==
  ASSUME LookupTypeOK, NEW c \in Caller, NEW i \in Place, NEW x \in Item,
         item' = [item EXCEPT ![c][i] = x], config' = config
  PROVE  /\ item' \in [Caller -> [Place -> Item]] /\ item'[c][i] = x
         /\ \A d \in Caller, j \in Place : d # c \/ j # i => item'[d][j] = item[d][j]
<1>1. item \in [Caller -> [Place -> Item]] /\ Place' = Place
  BY DEF LookupTypeOK, Place
<1> QED
  BY <1>1

LEMMA JoinedSet ==
  ASSUME LookupTypeOK, NEW c \in Caller, NEW i \in Place, NEW x \in Item,
         item' = [item EXCEPT ![c][i] = x], config' = config
  PROVE  /\ x.role = "joined" => Joined' = Joined \cup {<<c, i>>}
         /\ x.role # "joined" => Joined' = Joined \ {<<c, i>>}
<1>1. item \in [Caller -> [Place -> Item]] /\ Place' = Place
  BY DEF LookupTypeOK, Place
<1>2. item'[c][i] = x /\ \A d \in Caller, j \in Place : d # c \/ j # i => item'[d][j] = item[d][j]
  BY <1>1
<1>3. \A ci \in Caller \X Place : item'[ci[1]][ci[2]] = IF ci = <<c, i>> THEN x
                                                      ELSE item[ci[1]][ci[2]]
  BY <1>2
<1> QED
  BY <1>1, <1>3 DEF Joined

\* An item that does not wait gets a new role in which it does not wait either.
LEMMA AnswerKeeps ==
  ASSUME LookupTypeOK, Ledger, NEW c \in Caller, NEW i \in Place, NEW x \in Item,
         item' = [item EXCEPT ![c][i] = x], item[c][i].got # "waiting",
         x.got # "waiting", x.role # "joined", Leaves(c, i), UNCHANGED <<config, pending>>
  PROVE  Ledger' /\ waiters' \in Nat
<1>1. /\ item' \in [Caller -> [Place -> Item]] /\ item'[c][i] = x
      /\ \A d \in Caller, j \in Place : d # c \/ j # i => item'[d][j] = item[d][j]
      /\ Joined' = Joined \ {<<c, i>>} /\ Place' = Place
  <2>1. Place' = Place /\ config' = config
    BY DEF Place
  <2>2. Joined' = Joined \ {<<c, i>>}
    BY <2>1, JoinedSet
  <2>3. /\ item' \in [Caller -> [Place -> Item]] /\ item'[c][i] = x
        /\ \A d \in Caller, j \in Place : d # c \/ j # i => item'[d][j] = item[d][j]
    BY <2>1, ItemSet, ZenonT(30)
  <2> QED
    BY <2>1, <2>2, <2>3
<1>2. \A d \in Caller, j \in Place, t \in pending : Awaits(d, j, t) /\ item[d][j].role = "owner" =>
        Awaits(d, j, t)' /\ item'[d][j].role = "owner"
  BY <1>1 DEF Awaits, topic
<1>3. \A t \in pending' : \E d \in Caller, j \in Place' :
        Awaits(d, j, t)' /\ item'[d][j].role = "owner"
  BY <1>1, <1>2 DEF Ledger
<1>4. \A d \in Caller, j \in Place' : item'[d][j].got = "waiting" => topic(j)' \in pending'
  BY <1>1 DEF Ledger, topic
<1>5. IsFiniteSet(Joined') /\ waiters' = Cardinality(Joined') /\ waiters' <= MaxWaiters /\ waiters' \in Nat
  <2>1. waiters \in Nat /\ IsFiniteSet(Joined) /\ waiters = Cardinality(Joined) /\ waiters <= MaxWaiters
    BY DEF Ledger, LookupTypeOK
  <2>2. <<c, i>> \in Joined <=> item[c][i].role = "joined"
    BY DEF Joined
  <2>3. CASE item[c][i].role = "joined"
    <3>1. IsFiniteSet(Joined') /\ Cardinality(Joined') = Cardinality(Joined) - 1
      BY <1>1, <2>1, <2>2, <2>3, FS_RemoveElement
    <3>2. Cardinality(Joined') \in Nat
      BY <3>1, FS_CardinalityType
    <3> QED
      BY <2>1, <2>3, <3>1, <3>2, ConfigurationAssumption DEF Leaves
  <2>4. CASE item[c][i].role # "joined"
    <3>1. Joined' = Joined /\ waiters' = waiters
      BY <1>1, <2>2, <2>4 DEF Leaves
    <3> QED
      BY <2>1, <3>1
  <2> QED
    BY <2>3, <2>4
<1> QED
  BY <1>1, <1>3, <1>4, <1>5 DEF Ledger

\* A call of run.
LEMMA RunKeeps ==
  ASSUME LookupTypeOK, Ledger, NEW c \in Caller, NEW i \in Place, Run(c, i),
         item[c][i].got # "waiting", item[c][i].role # "joined", UNCHANGED config
  PROVE  /\ Ledger' /\ waiters' \in Nat /\ pending' \subseteq Topic
         /\ item' \in [Caller -> [Place -> Item]]
         /\ \A d \in Caller, j \in Place : d # c \/ j # i => item'[d][j] = item[d][j]
         /\ pending \subseteq pending' /\ \A t \in pending' \ pending : Starts(t)
<1>0. topic(i) \in Topic /\ Place' = Place
  BY ConfigFacts DEF LookupTypeOK, Place
<1>w. waiters \in Nat /\ IsFiniteSet(Joined) /\ waiters = Cardinality(Joined) /\ waiters <= MaxWaiters
  BY DEF Ledger, LookupTypeOK
<1>1. ASSUME NEW r \in {"null", "error"}, item' = [item EXCEPT ![c][i] = Outcome(r)],
             UNCHANGED <<pending, waiters>>
      PROVE  /\ Ledger' /\ waiters' \in Nat /\ pending' \subseteq Topic
             /\ item' \in [Caller -> [Place -> Item]]
             /\ \A d \in Caller, j \in Place : d # c \/ j # i => item'[d][j] = item[d][j]
             /\ pending \subseteq pending' /\ \A t \in pending' \ pending : Starts(t)
  <2>1. Outcome(r) \in Item /\ Outcome(r).got # "waiting" /\ Outcome(r).role # "joined"
    BY DEF Outcome, Item
  <2>2. Leaves(c, i)
    BY <1>1 DEF Leaves
  <2>3. Ledger' /\ waiters' \in Nat
    BY <1>1, <2>1, <2>2, AnswerKeeps
  <2> QED
    BY <1>1, <2>1, <2>3, ItemSet DEF LookupTypeOK
<1> DEFINE joins == [role |-> "joined", got |-> "waiting"]
           owns  == [role |-> "owner", got |-> "waiting"]
<1>2. joins \in Item /\ owns \in Item /\ joins.got = "waiting" /\ owns.got = "waiting"
      /\ joins.role = "joined" /\ owns.role = "owner"
  BY DEF Item, Result
<1>3. ASSUME Joins(topic(i)), item' = [item EXCEPT ![c][i] = joins], waiters' = waiters + 1,
             UNCHANGED pending
      PROVE  /\ Ledger' /\ waiters' \in Nat /\ pending' \subseteq Topic
             /\ item' \in [Caller -> [Place -> Item]]
             /\ \A d \in Caller, j \in Place : d # c \/ j # i => item'[d][j] = item[d][j]
             /\ pending \subseteq pending' /\ \A t \in pending' \ pending : Starts(t)
  <2> HIDE DEF joins, owns
  <2>1. /\ item' \in [Caller -> [Place -> Item]] /\ item'[c][i] = joins
        /\ \A d \in Caller, j \in Place : d # c \/ j # i => item'[d][j] = item[d][j]
        /\ Joined' = Joined \cup {<<c, i>>} /\ <<c, i>> \notin Joined
    <3>1. <<c, i>> \notin Joined
      BY DEF Joined
    <3>2. Joined' = Joined \cup {<<c, i>>}
      BY <1>2, <1>3, JoinedSet
    <3>3. /\ item' \in [Caller -> [Place -> Item]] /\ item'[c][i] = joins
          /\ \A d \in Caller, j \in Place : d # c \/ j # i => item'[d][j] = item[d][j]
      BY <1>2, <1>3, ItemSet, Zenon
    <3> QED
      BY <3>1, <3>2, <3>3
  <2>2. topic(i) \in pending /\ waiters < MaxWaiters
    BY <1>3 DEF Joins
  <2>3. IsFiniteSet(Joined') /\ Cardinality(Joined') = Cardinality(Joined) + 1
    BY <2>1, <1>w, FS_AddElement
  <2>4. \A t \in pending' : \E d \in Caller, j \in Place' :
          Awaits(d, j, t)' /\ item'[d][j].role = "owner"
    <3>1. \A d \in Caller, j \in Place, t \in pending : Awaits(d, j, t) /\ item[d][j].role = "owner" =>
            Awaits(d, j, t)' /\ item'[d][j].role = "owner"
      BY <2>1 DEF Awaits, topic
    <3> QED
      BY <1>0, <1>3, <3>1 DEF Ledger
  <2>5. \A d \in Caller, j \in Place' : item'[d][j].got = "waiting" => topic(j)' \in pending'
    BY <1>0, <1>3, <2>1, <2>2 DEF Ledger, topic
  <2>6. waiters' = Cardinality(Joined') /\ waiters' <= MaxWaiters /\ waiters' \in Nat
    BY <1>3, <1>w, <2>2, <2>3, ConfigurationAssumption
  <2>7. Ledger'
    BY <1>3, <2>3, <2>4, <2>5, <2>6 DEF Ledger
  <2> QED
    BY <1>3, <2>1, <2>6, <2>7 DEF LookupTypeOK
<1>4. ASSUME Starts(topic(i)), item' = [item EXCEPT ![c][i] = owns],
             pending' = pending \cup {topic(i)}, UNCHANGED waiters
      PROVE  /\ Ledger' /\ waiters' \in Nat /\ pending' \subseteq Topic
             /\ item' \in [Caller -> [Place -> Item]]
             /\ \A d \in Caller, j \in Place : d # c \/ j # i => item'[d][j] = item[d][j]
             /\ pending \subseteq pending' /\ \A t \in pending' \ pending : Starts(t)
  <2> HIDE DEF joins, owns
  <2>1. /\ item' \in [Caller -> [Place -> Item]] /\ item'[c][i] = owns
        /\ \A d \in Caller, j \in Place : d # c \/ j # i => item'[d][j] = item[d][j]
        /\ Joined' = Joined
    <3>1. <<c, i>> \notin Joined
      BY DEF Joined
    <3>2. Joined \ {<<c, i>>} = Joined
      BY <3>1
    <3>3. Joined' = Joined \ {<<c, i>>}
      BY <1>2, <1>4, JoinedSet
    <3>4. /\ item' \in [Caller -> [Place -> Item]] /\ item'[c][i] = owns
          /\ \A d \in Caller, j \in Place : d # c \/ j # i => item'[d][j] = item[d][j]
      BY <1>2, <1>4, ItemSet, Zenon
    <3> QED
      BY <3>2, <3>3, <3>4
  <2>2. topic(i) \notin pending /\ Cardinality(pending) < config.maxPending
    BY <1>4 DEF Starts
  <2>3. IsFiniteSet(pending') /\ Cardinality(pending') <= config'.maxPending
    <3>1. IsFiniteSet(pending') /\ Cardinality(pending') = Cardinality(pending) + 1
      BY <1>4, <2>2, FS_AddElement DEF Ledger
    <3>2. Cardinality(pending) \in Nat /\ config.maxPending \in Nat
      BY FS_CardinalityType, ConfigFacts DEF Ledger, LookupTypeOK
    <3> QED
      BY <2>2, <3>1, <3>2
  <2>4. \A t \in pending' : \E d \in Caller, j \in Place' :
          Awaits(d, j, t)' /\ item'[d][j].role = "owner"
    <3>1. \A d \in Caller, j \in Place, t \in pending : Awaits(d, j, t) /\ item[d][j].role = "owner" =>
            Awaits(d, j, t)' /\ item'[d][j].role = "owner"
      BY <2>1 DEF Awaits, topic
    <3>2. Awaits(c, i, topic(i))' /\ item'[c][i].role = "owner"
      BY <1>2, <2>1 DEF Awaits, topic
    <3>3. ASSUME NEW t \in pending
          PROVE  \E d \in Caller, j \in Place' : Awaits(d, j, t)' /\ item'[d][j].role = "owner"
      BY <1>0, <3>1 DEF Ledger
    <3>4. ASSUME NEW t, t = topic(i)
          PROVE  \E d \in Caller, j \in Place' : Awaits(d, j, t)' /\ item'[d][j].role = "owner"
      <4>1. topic(i)' = topic(i)
        BY DEF topic
      <4>2. Awaits(c, i, t)'
        BY <1>2, <2>1, <3>4, <4>1 DEF Awaits
      <4> QED
        BY <1>0, <3>2, <4>2
    <3> QED
      BY <1>4, <3>3, <3>4
  <2>5. \A d \in Caller, j \in Place' : item'[d][j].got = "waiting" => topic(j)' \in pending'
    BY <1>0, <1>4, <2>1 DEF Ledger, topic
  <2>6. Ledger'
    BY <1>4, <1>w, <2>1, <2>3, <2>4, <2>5 DEF Ledger
  <2> QED
    BY <1>0, <1>4, <1>w, <2>1, <2>6 DEF LookupTypeOK
<1> QED
  BY <1>1, <1>3, <1>4 DEF Run

\* A caller that awaits nothing begins or forgets all its items.
LEMMA RowKeeps ==
  ASSUME LookupTypeOK, Ledger, NEW c \in Caller, NEW x \in [Place -> Item],
         item' = [item EXCEPT ![c] = x], UNCHANGED <<config, pending, waiters>>,
         \A i \in Place : /\ item[c][i].role # "joined" /\ item[c][i].got # "waiting"
                          /\ x[i].role # "joined" /\ x[i].got # "waiting"
  PROVE  Ledger' /\ item' \in [Caller -> [Place -> Item]] /\ item'[c] = x
         /\ \A d \in Caller \ {c} : item'[d] = item[d]
<1>1. /\ item' \in [Caller -> [Place -> Item]] /\ item'[c] = x
      /\ \A d \in Caller \ {c} : item'[d] = item[d]
  BY DEF LookupTypeOK
<1>2. Place' = Place /\ \A i : topic(i)' = topic(i)
  BY DEF Place, topic
<1>3. Joined' = Joined
  <2>1. \A d \in Caller, i \in Place : item'[d][i].role = "joined" <=> item[d][i].role = "joined"
    BY <1>1
  <2> QED
    BY <1>2, <2>1 DEF Joined
<1>4. \A d \in Caller, i \in Place : item'[d][i].got = "waiting" => item[d][i].got = "waiting"
  BY <1>1
<1>5. \A d \in Caller, i \in Place, t \in pending : Awaits(d, i, t) /\ item[d][i].role = "owner" =>
        Awaits(d, i, t)' /\ item'[d][i].role = "owner"
  BY <1>1, <1>2 DEF Awaits
<1>6. \A t \in pending' : \E d \in Caller, i \in Place' :
        Awaits(d, i, t)' /\ item'[d][i].role = "owner"
  BY <1>2, <1>5 DEF Ledger
<1> QED
  BY <1>1, <1>2, <1>3, <1>4, <1>6 DEF Ledger

\* A lookup that ends leaves nobody waiting for it.
LEMMA DeliveredLedger ==
  ASSUME LookupTypeOK, Ledger, NEW t \in pending, pending' = pending \ {t}, NEW r \in Result,
         item' = Delivered(t, r), UNCHANGED <<config, waiters>>
  PROVE  /\ Ledger' /\ item' \in [Caller -> [Place -> Item]]
         /\ \A c \in Caller, i \in Place : item'[c][i].role = item[c][i].role
<1>1. Place' = Place /\ \A i : topic(i)' = topic(i)
  BY DEF Place, topic
<1>2. ASSUME NEW c \in Caller, NEW i \in Place
      PROVE  /\ item'[c][i] \in Item /\ item'[c][i].role = item[c][i].role
             /\ Awaits(c, i, t) => item'[c][i].got = r
             /\ ~Awaits(c, i, t) => item'[c][i] = item[c][i]
  <2>1. item'[c][i] = IF Awaits(c, i, t) THEN [item[c][i] EXCEPT !.got = r] ELSE item[c][i]
    BY DEF Delivered
  <2>2. item[c][i] \in Item /\ (item[c][i].got = "waiting" => item[c][i].role \in {"owner", "joined"})
    BY ItemFacts
  <2>3. ASSUME Awaits(c, i, t)
        PROVE  /\ [item[c][i] EXCEPT !.got = r] \in Item
               /\ [item[c][i] EXCEPT !.got = r].role = item[c][i].role
               /\ [item[c][i] EXCEPT !.got = r].got = r
    BY <2>2, <2>3 DEF Awaits, Item
  <2> QED
    BY <2>1, <2>2, <2>3
<1>3. item' \in [Caller -> [Place -> Item]]
  <2>1. item' = [c \in Caller |-> [i \in Place |-> item'[c][i]]]
    BY DEF Delivered
  <2> QED
    BY <1>2, <2>1
<1>4. Joined' = Joined
  BY <1>1, <1>2 DEF Joined
<1>5. \A u \in pending' : \E c \in Caller, i \in Place' :
        Awaits(c, i, u)' /\ item'[c][i].role = "owner"
  <2> SUFFICES ASSUME NEW u \in pending'
               PROVE  \E c \in Caller, i \in Place' : Awaits(c, i, u)' /\ item'[c][i].role = "owner"
    OBVIOUS
  <2>1. PICK c \in Caller, i \in Place : Awaits(c, i, u) /\ item[c][i].role = "owner"
    BY DEF Ledger
  <2>2. ~Awaits(c, i, t)
    BY <2>1 DEF Awaits
  <2> QED
    BY <1>1, <1>2, <2>1, <2>2 DEF Awaits
<1>6. \A c \in Caller, i \in Place' : item'[c][i].got = "waiting" => topic(i)' \in pending'
  <2> SUFFICES ASSUME NEW c \in Caller, NEW i \in Place, item'[c][i].got = "waiting"
               PROVE  topic(i) \in pending'
    BY <1>1
  <2>1. ~Awaits(c, i, t)
    BY <1>2 DEF Result
  <2>2. item[c][i].got = "waiting"
    BY <1>2, <2>1
  <2> QED
    BY <2>1, <2>2 DEF Awaits, Ledger
<1>7. IsFiniteSet(pending') /\ Cardinality(pending') <= config'.maxPending
  <2>1. IsFiniteSet(pending') /\ Cardinality(pending') = Cardinality(pending) - 1
    BY FS_RemoveElement DEF Ledger
  <2>2. Cardinality(pending) \in Nat /\ config.maxPending \in Nat
    BY FS_CardinalityType, ConfigFacts DEF Ledger, LookupTypeOK
  <2> QED
    BY <2>1, <2>2 DEF Ledger
<1> QED
  BY <1>2, <1>3, <1>4, <1>5, <1>6, <1>7 DEF Ledger

LEMMA SameLedger ==
  ASSUME Ledger, UNCHANGED <<config, item, pending, waiters>> PROVE Ledger'
<1>1. Joined' = Joined /\ Place' = Place
  BY DEF Joined, Place
<1>2. \A c, i, t : Awaits(c, i, t)' = Awaits(c, i, t) /\ topic(i)' = topic(i)
  BY DEF Awaits, topic
<1> QED
  BY <1>1, <1>2 DEF Ledger

-----------------------------------------------------------------------------
(* The failures that are remembered.                                       *)

Failure == [topic : Topic, age : 0 .. Cooldown, error : BOOLEAN]

\* Oldest first, one per topic, and of a topic that was looked up again none that is
\* recent; a recent failure is in the map unless the map is full of later ones.
Remembered ==
  /\ Len(failures) <= MaxFailures
  /\ \A i, j \in DOMAIN failures : failures[i].topic = failures[j].topic => i = j
  /\ \A i, j \in DOMAIN failures : i <= j => failures[i].age >= failures[j].age
  /\ \A i \in DOMAIN failures : /\ failures[i].age = quiet[failures[i].topic]
                                /\ failures[i].age < Cooldown => failures[i].topic \notin pending
  /\ \A t \in Topic : quiet[t] < Cooldown =>
       \/ \E i \in DOMAIN failures : failures[i].topic = t
       \/ Len(failures) = MaxFailures /\ \A i \in DOMAIN failures : failures[i].age <= quiet[t]

LEMMA FailuresFacts ==
  ASSUME failures \in Seq(Failure)
  PROVE  /\ Len(failures) \in Nat /\ DOMAIN failures = 1 .. Len(failures)
         /\ \A i \in DOMAIN failures : /\ failures[i] \in Failure /\ failures[i].topic \in Topic
                                       /\ failures[i].age \in 0 .. Cooldown
<1>1. /\ Len(failures) \in Nat /\ DOMAIN failures = 1 .. Len(failures)
      /\ \A i \in DOMAIN failures : failures[i] \in Failure
  OBVIOUS
<1> QED
  BY <1>1 DEF Failure

\* No new lookup of what failed recently.
LEMMA SameFailures ==
  ASSUME Remembered, UNCHANGED <<failures, quiet>>,
         \A t \in pending' \ pending : Starts(t)
  PROVE  Remembered'
<1>1. \A i \in DOMAIN failures : failures[i].age < Cooldown => failures[i].topic \notin pending'
  BY DEF Remembered, Starts, Cooling
<1> QED
  BY <1>1 DEF Remembered

\* The failures without those of t.
LEMMA WithoutFacts ==
  ASSUME failures \in Seq(Failure), Remembered, NEW t \in Topic
  PROVE  /\ Without(t) \in Seq(Failure) /\ Len(Without(t)) <= Len(failures)
         /\ (\A i \in 1 .. Len(failures) : failures[i].topic # t) => Len(Without(t)) = Len(failures)
         /\ \A i \in DOMAIN Without(t) :
              Without(t)[i].topic # t /\ \E k \in 1 .. Len(failures) : failures[k] = Without(t)[i]
         /\ \A k \in 1 .. Len(failures) : failures[k].topic # t =>
              \E i \in DOMAIN Without(t) : failures[k] = Without(t)[i]
         /\ \A i, j \in DOMAIN Without(t) :
              /\ Without(t)[i].topic = Without(t)[j].topic => i = j
              /\ i <= j => Without(t)[i].age >= Without(t)[j].age
<1> DEFINE S == {f \in Range(failures) : f.topic # t}
           W == Without(t)
           n == Len(failures)
<1>1. n \in Nat /\ DOMAIN failures = 1 .. n
      /\ \A k \in 1 .. n : failures[k] \in S <=> failures[k].topic # t
  BY FailuresFacts DEF Range
<1>2. PICK at : W \in Seq(Failure) /\ Keeps(W, at, failures, S, n)
  BY FilterKeeps DEF Without
<1>3. Len(W) <= n
  BY FilterRange DEF Without
<1> DEFINE m == Len(W)
<1>4. m \in Nat /\ DOMAIN W = 1 .. m
  BY <1>2
<1>5. \A k \in 1 .. n : \A l \in 1 .. n : failures[k].topic = failures[l].topic => k = l
  BY <1>1 DEF Remembered
<1>6. \A k, l \in 1 .. n : k <= l => failures[k].age >= failures[l].age
  BY <1>1 DEF Remembered
<1>7. Distinct(failures)
  BY <1>1, <1>5 DEF Distinct
<1>8. (\A i \in 1 .. n : failures[i].topic # t) => m = n
  <2> SUFFICES ASSUME \A i \in 1 .. n : failures[i].topic # t PROVE m = n
    OBVIOUS
  <2>1. Range(W) = Range(failures) \cap S /\ Distinct(W)
    BY <1>7, FilterRange DEF Without
  <2>2. Range(failures) \cap S = Range(failures)
    BY <1>1 DEF Range
  <2> HIDE DEF S, W
  <2>3. Cardinality(Range(W)) = m /\ Cardinality(Range(failures)) = n
    BY <1>2, <1>7, <2>1, DistinctLength
  <2> QED
    BY <2>1, <2>2, <2>3
<1> HIDE DEF S, W, n, m
<1>9. \A i \in 1 .. m : at[i] \in 1 .. n /\ W[i] = failures[at[i]] /\ W[i] \in S
  BY <1>2 DEF Keeps, m
<1>10. \A i, j \in 1 .. m : i < j => at[i] < at[j]
  BY <1>2 DEF Keeps, m
<1>11. \A k \in 1 .. n : failures[k] \in S => \E i \in 1 .. m : at[i] = k
  BY <1>2 DEF Keeps, m
<1>12. \A i, j \in 1 .. m : /\ W[i].topic = W[j].topic => i = j
                            /\ i <= j => W[i].age >= W[j].age
  <2> SUFFICES ASSUME NEW i \in 1 .. m, NEW j \in 1 .. m
               PROVE  /\ W[i].topic = W[j].topic => i = j
                      /\ i <= j => W[i].age >= W[j].age
    OBVIOUS
  <2>1. at[i] \in 1 .. n /\ at[j] \in 1 .. n
    BY <1>9
  <2>2. W[i].topic = W[j].topic => i = j
    <3> SUFFICES ASSUME W[i].topic = W[j].topic PROVE i = j
      OBVIOUS
    <3>1. at[i] = at[j]
      BY <1>5, <1>9, <2>1
    <3> QED
      BY <1>1, <1>4, <1>10, <2>1, <3>1
  <2>3. i <= j => at[i] <= at[j]
    BY <1>1, <1>4, <1>10, <2>1
  <2> QED
    BY <1>6, <1>9, <2>1, <2>2, <2>3
<1>13. \A k \in 1 .. n : failures[k].topic # t => \E i \in 1 .. m : failures[k] = W[i]
  BY <1>1, <1>9, <1>11
<1>14. \A i \in 1 .. m : W[i].topic # t /\ \E k \in 1 .. n : failures[k] = W[i]
  BY <1>1, <1>9
<1> QED
  BY <1>1, <1>2, <1>3, <1>4, <1>8, <1>12, <1>13, <1>14 DEF m, n, W

LEMMA Suffix ==
  ASSUME NEW S, NEW s \in Seq(S), NEW k \in Nat, k <= Len(s)
  PROVE  /\ SubSeq(s, Len(s) - k + 1, Len(s)) \in Seq(S)
         /\ Len(SubSeq(s, Len(s) - k + 1, Len(s))) = k
         /\ \A i \in 1 .. k : SubSeq(s, Len(s) - k + 1, Len(s))[i] = s[Len(s) - k + i]
  OBVIOUS

\* The last elements of a sequence, as many as m allows.
Latest(s, m) == SubSeq(s, Len(s) - Capped(Len(s), m) + 1, Len(s))

LEMMA Newest ==
  ASSUME NEW S, NEW s \in Seq(S), NEW m \in Nat
  PROVE  /\ Capped(Len(s), m) \in Nat /\ Capped(Len(s), m) <= Len(s) /\ Capped(Len(s), m) <= m
         /\ Capped(Len(s), m) < Len(s) => Capped(Len(s), m) = m
         /\ Latest(s, m) \in Seq(S) /\ Len(Latest(s, m)) = Capped(Len(s), m)
         /\ \A i \in 1 .. Capped(Len(s), m) : Latest(s, m)[i] = s[Len(s) - Capped(Len(s), m) + i]
<1> DEFINE k == Capped(Len(s), m)
           q == SubSeq(s, Len(s) - k + 1, Len(s))
<1>1. Len(s) \in Nat /\ k \in Nat /\ k <= Len(s) /\ k <= m /\ (k < Len(s) => k = m)
  BY DEF Capped
<1> HIDE DEF k
<1>2. q \in Seq(S) /\ Len(q) = k /\ \A i \in 1 .. k : q[i] = s[Len(s) - k + i]
  BY <1>1, Suffix, Zenon
<1>3. Latest(s, m) = q
  BY DEF Latest, k
<1> HIDE DEF q
<1> QED
  BY <1>1, <1>2, <1>3 DEF k

LEMMA IsSequence ==
  ASSUME NEW S, NEW n \in Nat, NEW g \in [1 .. n -> S]
  PROVE  g \in Seq(S) /\ Len(g) = n /\ DOMAIN g = 1 .. n
  OBVIOUS

LEMMA RememberedNext ==
  ASSUME NEW n, DOMAIN failures' = 1 .. n, Len(failures') = n, n <= MaxFailures,
         \A i, j \in 1 .. n : /\ failures'[i].topic = failures'[j].topic => i = j
                              /\ i <= j => failures'[i].age >= failures'[j].age,
         \A i \in 1 .. n : /\ failures'[i].age = quiet'[failures'[i].topic]
                           /\ failures'[i].age < Cooldown => failures'[i].topic \notin pending',
         \A t \in Topic : quiet'[t] < Cooldown =>
           \/ \E i \in 1 .. n : failures'[i].topic = t
           \/ n = MaxFailures /\ \A i \in 1 .. n : failures'[i].age <= quiet'[t]
  PROVE  Remembered'
  BY DEF Remembered

\* A lookup that failed.
LEMMA Remembers ==
  ASSUME failures \in Seq(Failure), quiet \in [Topic -> 0 .. Cooldown], Remembered,
         pending \subseteq Topic, NEW t \in pending, NEW e \in BOOLEAN,
         failures' = remember(t, e), quiet' = [quiet EXCEPT ![t] = 0], pending' = pending \ {t}
  PROVE  failures' \in Seq(Failure) /\ Remembered'
<1> DEFINE W   == Without(t)
           f   == [topic |-> t, age |-> 0, error |-> e]
           all == Append(W, f)
           l   == Len(W)
           k   == Capped(l + 1, MaxFailures)
           n   == Len(failures)
<1>0. Cooldown \in Nat /\ MaxFailures \in Nat /\ Cooldown > 0
  BY ConfigurationAssumption
<1>1. /\ n \in Nat /\ DOMAIN failures = 1 .. n
      /\ \A i \in 1 .. n : /\ failures[i] \in Failure /\ failures[i].topic \in Topic
                           /\ failures[i].age \in 0 .. Cooldown
  BY FailuresFacts
<1>2. /\ W \in Seq(Failure) /\ l <= n /\ ((\A i \in 1 .. n : failures[i].topic # t) => l = n)
      /\ \A i \in DOMAIN W : W[i].topic # t /\ \E j \in 1 .. n : failures[j] = W[i]
      /\ \A j \in 1 .. n : failures[j].topic # t => \E i \in DOMAIN W : failures[j] = W[i]
      /\ \A i, j \in DOMAIN W : /\ W[i].topic = W[j].topic => i = j
                                /\ i <= j => W[i].age >= W[j].age
  BY WithoutFacts
<1>3. f \in Failure /\ f.topic = t /\ f.age = 0
  BY <1>0 DEF Failure
<1>4. l \in Nat /\ DOMAIN W = 1 .. l
  BY <1>2
<1>5. /\ all \in Seq(Failure) /\ Len(all) = l + 1 /\ all[l + 1] = f
      /\ \A i \in 1 .. l : all[i] = W[i]
  BY <1>2, <1>3
<1>6. /\ k \in Nat /\ k <= l + 1 /\ k <= MaxFailures /\ (k < l + 1 => k = MaxFailures)
      /\ failures' \in Seq(Failure) /\ Len(failures') = k /\ DOMAIN failures' = 1 .. k
      /\ \A i \in 1 .. k : failures'[i] = all[l + 1 - k + i]
  <2>1. failures' = Latest(all, MaxFailures)
    BY DEF remember, Latest
  <2>2. all \in Seq(Failure) /\ Len(all) = l + 1
    BY <1>5
  <2> HIDE DEF all, l
  <2> DEFINE r == Latest(all, MaxFailures)
             c == Capped(Len(all), MaxFailures)
  <2>6. /\ c \in Nat /\ c <= Len(all) /\ c <= MaxFailures /\ (c < Len(all) => c = MaxFailures)
        /\ r \in Seq(Failure) /\ Len(r) = c /\ \A i \in 1 .. c : r[i] = all[Len(all) - c + i]
    BY <1>0, <2>2, Newest
  <2>7. c = k
    BY <2>2
  <2>8. failures' = r
    BY <2>1
  <2> HIDE DEF r, c
  <2>3. /\ k \in Nat /\ k <= l + 1 /\ k <= MaxFailures /\ (k < l + 1 => k = MaxFailures)
        /\ failures' \in Seq(Failure) /\ Len(failures') = k
        /\ \A i \in 1 .. k : failures'[i] = all[l + 1 - k + i]
    <3> HIDE DEF k
    <3>1. k \in Nat /\ k <= l + 1 /\ k <= MaxFailures /\ (k < l + 1 => k = MaxFailures)
      BY <2>6, <2>7, <2>2
    <3>2. failures' \in Seq(Failure) /\ Len(failures') = k
      BY <2>6, <2>7, <2>8
    <3>3. \A i \in 1 .. k : failures'[i] = all[(l + 1) - k + i]
      BY <2>6, <2>7, <2>8, <2>2, Zenon
    <3> QED
      BY <1>4, <3>1, <3>2, <3>3
  <2> HIDE DEF k
  <2>4. DOMAIN failures' = 1 .. k
    BY <2>3
  <2> QED
    BY <2>3, <2>4, Zenon
<1> DEFINE R == failures'
           d == l + 1 - k
<1> HIDE DEF W, f, all, l, k, n
<1>8. /\ R \in Seq(Failure) /\ Len(R) = k /\ DOMAIN R = 1 .. k
      /\ \A i \in 1 .. k : R[i] = all[d + i]
  BY <1>6
<1> HIDE DEF R
<1>9. d \in Nat /\ \A i \in 1 .. k : d + i \in 1 .. l + 1
  BY <1>4, <1>6
<1>7. \A i \in 1 .. l : all[i].topic # t
  <2>1. \A i \in 1 .. l : W[i].topic # t
    BY <1>2, <1>4
  <2> QED
    BY <2>1, <1>5
\* What holds of every element of the whole sequence.
<1>10. \A i \in 1 .. l + 1 :
         /\ all[i].topic \in Topic /\ all[i].age \in 0 .. Cooldown
         /\ all[i].age = quiet'[all[i].topic]
         /\ all[i].age < Cooldown => all[i].topic \notin pending'
  <2> SUFFICES ASSUME NEW i \in 1 .. l + 1
               PROVE  /\ all[i].topic \in Topic /\ all[i].age \in 0 .. Cooldown
                      /\ all[i].age = quiet'[all[i].topic]
                      /\ all[i].age < Cooldown => all[i].topic \notin pending'
    OBVIOUS
  <2>1. CASE i = l + 1
    BY <2>1, <1>0, <1>3, <1>5
  <2>2. CASE i # l + 1
    <3>1. i \in 1 .. l /\ all[i] = W[i]
      BY <2>2, <1>4, <1>5
    <3>2. PICK j \in 1 .. n : failures[j] = all[i] /\ all[i].topic # t
      BY <3>1, <1>2, <1>4
    <3>3. /\ failures[j].age = quiet[failures[j].topic]
          /\ failures[j].age < Cooldown => failures[j].topic \notin pending
      BY <1>1 DEF Remembered
    <3> QED
      BY <3>2, <3>3, <1>1
  <2> QED
    BY <2>1, <2>2
<1>11. \A i, j \in 1 .. l + 1 : /\ all[i].topic = all[j].topic => i = j
                                /\ i <= j => all[i].age >= all[j].age
  <2> SUFFICES ASSUME NEW i \in 1 .. l + 1, NEW j \in 1 .. l + 1
               PROVE  /\ all[i].topic = all[j].topic => i = j
                      /\ i <= j => all[i].age >= all[j].age
    OBVIOUS
  <2>1. all[i].age \in Nat
    BY <1>10, <1>0
  <2>2. CASE i \in 1 .. l /\ j \in 1 .. l
    BY <2>2, <1>2, <1>4, <1>5
  <2>3. CASE i = l + 1
    <3>1. j # l + 1 => j \in 1 .. l /\ all[j].topic # t
      BY <1>4, <1>7
    <3> QED
      BY <2>1, <2>3, <3>1, <1>3, <1>4, <1>5
  <2>4. CASE i # l + 1 /\ j = l + 1
    <3>1. i \in 1 .. l /\ all[i].topic # t
      BY <2>4, <1>4, <1>7
    <3> QED
      BY <2>1, <2>4, <3>1, <1>3, <1>4, <1>5
  <2> QED
    BY <2>2, <2>3, <2>4, <1>4
<1>12. \A u \in Topic : quiet'[u] < Cooldown =>
         \/ \E i \in 1 .. k : R[i].topic = u
         \/ k = MaxFailures /\ \A i \in 1 .. k : R[i].age <= quiet'[u]
  <2> SUFFICES ASSUME NEW u \in Topic, quiet'[u] < Cooldown,
                      \A i \in 1 .. k : R[i].topic # u
               PROVE  k = MaxFailures /\ \A i \in 1 .. k : R[i].age <= quiet'[u]
    OBVIOUS
  <2>1. CASE u = t
    <3>1. k = 0
      <4>1. k # 0 => d + k = l + 1 /\ k \in 1 .. k
        BY <1>4, <1>6
      <4> QED
        BY <2>1, <4>1, <1>3, <1>5, <1>8
    <3> QED
      BY <3>1, <1>4, <1>6
  <2>2. CASE u # t
    <3>1. quiet'[u] = quiet[u] /\ quiet[u] \in 0 .. Cooldown
      BY <2>2
    <3>2. CASE \E j \in 1 .. n : failures[j].topic = u
      <4>1. PICK i \in 1 .. l : W[i].topic = u
        BY <2>2, <3>2, <1>2, <1>4
      <4>2. all[i].topic = u /\ all[i].age = quiet'[u]
        <5>1. i \in 1 .. l + 1 /\ all[i] = W[i]
          BY <1>4, <1>5
        <5> QED
          BY <4>1, <5>1, <1>10
      <4>3. i <= d
        <5>1. ~(i <= d) => i - d \in 1 .. k /\ d + (i - d) = i
          BY <1>4, <1>6
        <5> QED
          BY <4>2, <5>1, <1>8
      <4>4. k = MaxFailures
        BY <4>3, <1>4, <1>6
      <4>5. \A j \in 1 .. k : i <= d + j /\ i \in 1 .. l + 1
        BY <4>3, <1>4, <1>6
      <4>6. \A j \in 1 .. k : R[j].age <= all[i].age
        BY <4>5, <1>8, <1>9, <1>10, <1>11
      <4> QED
        BY <4>2, <4>4, <4>6
    <3>3. CASE ~ \E j \in 1 .. n : failures[j].topic = u
      <4>1. n = MaxFailures /\ \A j \in 1 .. n : failures[j].age <= quiet[u]
        BY <3>1, <3>3, <1>1 DEF Remembered, n
      <4>2. \A j \in 1 .. n : failures[j].age < Cooldown
        BY <3>1, <4>1, <1>0, <1>1
      <4>3. \A j \in 1 .. n : failures[j].topic # t
        BY <4>2, <1>1 DEF Remembered
      <4>4. l = MaxFailures /\ k = MaxFailures
        BY <4>1, <4>3, <1>0, <1>2, <1>4, <1>6 DEF Capped, k
      <4>5. \A i \in 1 .. l + 1 : all[i].age <= quiet[u]
        <5> SUFFICES ASSUME NEW i \in 1 .. l + 1 PROVE all[i].age <= quiet[u]
          OBVIOUS
        <5>1. CASE i = l + 1
          BY <5>1, <3>1, <1>0, <1>3, <1>5
        <5>2. CASE i # l + 1
          <6>1. i \in 1 .. l /\ all[i] = W[i]
            BY <5>2, <1>4, <1>5
          <6>2. PICK j \in 1 .. n : failures[j] = all[i]
            BY <6>1, <1>2, <1>4
          <6> QED
            BY <4>1, <6>2
        <5> QED
          BY <5>1, <5>2
      <4> QED
        BY <3>1, <4>4, <4>5, <1>8, <1>9
    <3> QED
      BY <3>2, <3>3
  <2> QED
    BY <2>1, <2>2
<1>13. \A i \in 1 .. k : /\ R[i].age = quiet'[R[i].topic]
                         /\ R[i].age < Cooldown => R[i].topic \notin pending'
  BY <1>8, <1>9, <1>10
<1>14. \A i, j \in 1 .. k : /\ R[i].topic = R[j].topic => i = j
                            /\ i <= j => R[i].age >= R[j].age
  <2> SUFFICES ASSUME NEW i \in 1 .. k, NEW j \in 1 .. k
               PROVE  /\ R[i].topic = R[j].topic => i = j
                      /\ i <= j => R[i].age >= R[j].age
    OBVIOUS
  <2>1. d + i \in 1 .. l + 1 /\ d + j \in 1 .. l + 1 /\ (d + i = d + j => i = j)
        /\ (i <= j => d + i <= d + j)
    BY <1>6, <1>9
  <2> QED
    BY <2>1, <1>8, <1>11
<1> QED
  BY <1>6, <1>8, <1>12, <1>13, <1>14 DEF Remembered, R

\* A lookup that brought a value.
LEMMA Forgets ==
  ASSUME failures \in Seq(Failure), quiet \in [Topic -> 0 .. Cooldown], Remembered,
         pending \subseteq Topic, NEW t \in pending,
         failures' = Without(t), quiet' = [quiet EXCEPT ![t] = Cooldown], pending' = pending \ {t}
  PROVE  failures' \in Seq(Failure) /\ Remembered'
<1> DEFINE W == Without(t)
           n == Len(failures)
<1>0. Cooldown \in Nat /\ MaxFailures \in Nat /\ n <= MaxFailures
  BY ConfigurationAssumption DEF Remembered
<1>1. /\ n \in Nat /\ DOMAIN failures = 1 .. n
      /\ \A i \in 1 .. n : /\ failures[i] \in Failure /\ failures[i].topic \in Topic
                           /\ failures[i].age \in 0 .. Cooldown
  BY FailuresFacts
<1>2. /\ W \in Seq(Failure) /\ Len(W) <= n
      /\ ((\A i \in 1 .. n : failures[i].topic # t) => Len(W) = n)
      /\ \A i \in DOMAIN W : W[i].topic # t /\ \E j \in 1 .. n : failures[j] = W[i]
      /\ \A j \in 1 .. n : failures[j].topic # t => \E i \in DOMAIN W : failures[j] = W[i]
      /\ \A i, j \in DOMAIN W : /\ W[i].topic = W[j].topic => i = j
                                /\ i <= j => W[i].age >= W[j].age
  BY WithoutFacts
<1>3. failures' = W /\ Len(W) \in Nat
  BY <1>2
<1> HIDE DEF W, n
<1>4. Len(W) <= MaxFailures
  BY <1>0, <1>1, <1>2, <1>3
<1>5. \A i \in DOMAIN W : /\ W[i].age = quiet'[W[i].topic]
                          /\ W[i].age < Cooldown => W[i].topic \notin pending'
  <2> SUFFICES ASSUME NEW i \in DOMAIN W
               PROVE  /\ W[i].age = quiet'[W[i].topic]
                      /\ W[i].age < Cooldown => W[i].topic \notin pending'
    OBVIOUS
  <2>1. PICK j \in 1 .. n : failures[j] = W[i] /\ W[i].topic # t
    BY <1>2
  <2>2. /\ failures[j].age = quiet[failures[j].topic]
        /\ failures[j].age < Cooldown => failures[j].topic \notin pending
    BY <1>1 DEF Remembered
  <2> QED
    BY <2>1, <2>2, <1>1
<1>6. \A u \in Topic : quiet'[u] < Cooldown =>
        \/ \E i \in DOMAIN W : W[i].topic = u
        \/ Len(W) = MaxFailures /\ \A i \in DOMAIN W : W[i].age <= quiet'[u]
  <2> SUFFICES ASSUME NEW u \in Topic, quiet'[u] < Cooldown, \A i \in DOMAIN W : W[i].topic # u
               PROVE  Len(W) = MaxFailures /\ \A i \in DOMAIN W : W[i].age <= quiet'[u]
    OBVIOUS
  <2>1. u # t /\ quiet'[u] = quiet[u] /\ quiet[u] \in 0 .. Cooldown
    BY <1>0
  <2>2. \A j \in 1 .. n : failures[j].topic # u
    BY <2>1, <1>2
  <2>3. n = MaxFailures /\ \A j \in 1 .. n : failures[j].age <= quiet[u]
    BY <2>1, <2>2, <1>1 DEF Remembered, n
  <2>4. \A j \in 1 .. n : failures[j].age < Cooldown
    BY <2>1, <2>3, <1>0, <1>1
  <2>5. \A j \in 1 .. n : failures[j].topic # t
    BY <2>4, <1>1 DEF Remembered
  <2> QED
    BY <2>1, <2>3, <2>5, <1>2
<1> QED
  BY <1>2, <1>3, <1>4, <1>5, <1>6 DEF Remembered

\* Time passes for all failures alike.
LEMMA Ages ==
  ASSUME failures \in Seq(Failure), quiet \in [Topic -> 0 .. Cooldown], Remembered,
         failures' = [i \in DOMAIN failures |-> [failures[i] EXCEPT !.age = Capped(@ + 1, Cooldown)]],
         quiet' = [t \in Topic |-> Capped(quiet[t] + 1, Cooldown)], UNCHANGED pending
  PROVE  failures' \in Seq(Failure) /\ quiet' \in [Topic -> 0 .. Cooldown] /\ Remembered'
<1> DEFINE n == Len(failures)
<1>0. Cooldown \in Nat
  BY ConfigurationAssumption
<1>1. /\ n \in Nat /\ DOMAIN failures = 1 .. n
      /\ \A i \in 1 .. n : /\ failures[i] \in Failure /\ failures[i].topic \in Topic
                           /\ failures[i].age \in 0 .. Cooldown
  BY FailuresFacts
<1>2. \A a \in 0 .. Cooldown : Capped(a + 1, Cooldown) \in 0 .. Cooldown
  BY <1>0 DEF Capped
<1>3. \A i \in 1 .. n : /\ failures'[i] \in Failure /\ failures'[i].topic = failures[i].topic
                        /\ failures'[i].age = Capped(failures[i].age + 1, Cooldown)
  BY <1>1, <1>2 DEF Failure
<1>4. failures' \in Seq(Failure) /\ Len(failures') = n /\ DOMAIN failures' = 1 .. n
  <2>1. failures' \in [1 .. n -> Failure]
    <3>1. DOMAIN failures' = 1 .. n /\ failures' = [i \in 1 .. n |-> failures'[i]]
      BY <1>1
    <3> QED
      BY <1>3, <3>1
  <2> QED
    BY <1>1, <2>1, IsSequence
<1>5. quiet' \in [Topic -> 0 .. Cooldown]
  BY <1>2
<1>6. \A a, b \in 0 .. Cooldown :
        /\ a <= b => Capped(a + 1, Cooldown) <= Capped(b + 1, Cooldown)
        /\ Capped(a + 1, Cooldown) < Cooldown => a < Cooldown
  BY <1>0 DEF Capped
<1> HIDE DEF n
<1>7. \A i \in 1 .. n : /\ failures'[i].age = quiet'[failures'[i].topic]
                        /\ failures'[i].age < Cooldown => failures'[i].topic \notin pending
  BY <1>1, <1>3, <1>6 DEF Remembered
<1>8. \A i, j \in 1 .. n : /\ failures'[i].topic = failures'[j].topic => i = j
                           /\ i <= j => failures'[i].age >= failures'[j].age
  <2> SUFFICES ASSUME NEW i \in 1 .. n, NEW j \in 1 .. n
               PROVE  /\ failures'[i].topic = failures'[j].topic => i = j
                      /\ i <= j => failures'[i].age >= failures'[j].age
    OBVIOUS
  <2>1. /\ failures[i].topic = failures[j].topic => i = j
        /\ i <= j => failures[j].age <= failures[i].age
    BY <1>1 DEF Remembered
  <2>2. /\ failures[j].age <= failures[i].age =>
             Capped(failures[j].age + 1, Cooldown) <= Capped(failures[i].age + 1, Cooldown)
        /\ Capped(failures[i].age + 1, Cooldown) \in Nat /\ Capped(failures[j].age + 1, Cooldown) \in Nat
    BY <1>0, <1>1, <1>2, <1>6
  <2> QED
    BY <1>3, <2>1, <2>2
<1>9. \A t \in Topic : quiet'[t] < Cooldown =>
        \/ \E i \in 1 .. n : failures'[i].topic = t
        \/ n = MaxFailures /\ \A i \in 1 .. n : failures'[i].age <= quiet'[t]
  <2> SUFFICES ASSUME NEW t \in Topic, quiet'[t] < Cooldown, \A i \in 1 .. n : failures'[i].topic # t
               PROVE  n = MaxFailures /\ \A i \in 1 .. n : failures'[i].age <= quiet'[t]
    OBVIOUS
  <2>1. quiet[t] \in 0 .. Cooldown /\ quiet[t] < Cooldown
    BY <1>6
  <2>2. n = MaxFailures /\ \A i \in 1 .. n : failures[i].age <= quiet[t]
    <3>1. \A i \in DOMAIN failures : failures[i].topic # t
      BY <1>1, <1>3
    <3> QED
      BY <2>1, <3>1, <1>1 DEF Remembered, n
  <2>3. ASSUME NEW i \in 1 .. n PROVE failures'[i].age <= quiet'[t]
    <3>1. failures[i].age \in 0 .. Cooldown /\ failures[i].age <= quiet[t]
      BY <2>2, <1>1
    <3>2. Capped(failures[i].age + 1, Cooldown) <= Capped(quiet[t] + 1, Cooldown)
      BY <2>1, <3>1, <1>6
    <3> QED
      BY <3>2, <1>3
  <2> QED
    BY <2>2, <2>3
<1>10. n <= MaxFailures
  BY DEF Remembered, n
<1>11. \A i \in 1 .. n : /\ failures'[i].age = quiet'[failures'[i].topic]
                         /\ failures'[i].age < Cooldown => failures'[i].topic \notin pending'
  BY <1>7
<1>12. Remembered'
  BY <1>4, <1>8, <1>9, <1>10, <1>11, RememberedNext, ZenonT(30)
<1> QED
  BY <1>4, <1>5, <1>12

-----------------------------------------------------------------------------
(* The rotation.                                                           *)

\* How many of a list of n come after the c-th place, around the list, before the p-th.
Ahead(p, c, n) == IF p > c THEN p - 1 - c ELSE p - 1 - c + n

\* The i-th place after c around a list of n.
At(c, i, n) == ((c + i - 1) % n) + 1

\* How many misses the next request passes before the one at place p of the list.
Offset(p) == Ahead(p, cursor, Len(missed))

\* Each request that passes a miss over has come closer to it by its budget.
TurnFits ==
  /\ missed # <<>> => cursor < Len(missed)
  /\ \A p \in 1 .. Len(missed) : skipped[missed[p]] * config.budget + Offset(p) < Len(missed)
  /\ \A i \in Place : skipped[i] > 0 => \E p \in 1 .. Len(missed) : missed[p] = i

LEMMA SameTurn ==
  ASSUME TurnFits, UNCHANGED <<config, rotation>> PROVE TurnFits'
<1>1. UNCHANGED <<config, cursor, missed, skipped>>
  BY DEF rotation
<1>2. Place' = Place /\ \A p : Offset(p)' = Offset(p)
  BY <1>1 DEF Place, Offset
<1> QED
  BY <1>1, <1>2 DEF TurnFits

\* A cursor that goes k places further, around a list of n.
LEMMA Turn ==
  ASSUME NEW n \in Nat, NEW c \in 0 .. n - 1, NEW k \in 1 .. n, NEW p \in 1 .. n,
         NEW d, d = (c + k) % n
  PROVE  /\ Ahead(p, c, n) \in 0 .. n - 1 /\ At(c, Ahead(p, c, n) + 1, n) = p
         /\ d \in 0 .. n - 1 /\ Ahead(p, d, n) \in 0 .. n - 1
         /\ Ahead(p, c, n) >= k => Ahead(p, d, n) = Ahead(p, c, n) - k
<1> DEFINE o == Ahead(p, c, n)
<1>1. o \in 0 .. n - 1 /\ ((c + o) % n) + 1 = p
  BY DEF Ahead
<1>2. d = IF c + k < n THEN c + k ELSE c + k - n
  OBVIOUS
<1>3. At(c, o + 1, n) = p
  <2> HIDE DEF o
  <2>1. c + (o + 1) - 1 = c + o
    BY <1>1
  <2> QED
    BY <1>1, <2>1 DEF At
<1> QED
  BY <1>1, <1>2, <1>3 DEF Ahead

LEMMA Around ==
  ASSUME NEW n \in Nat, NEW c \in 0 .. n - 1, NEW i \in 1 .. n, NEW j \in 1 .. n
  PROVE  /\ At(c, i, n) \in 1 .. n
         /\ At(c, i, n) = At(c, j, n) => i = j
<1>1. \A e \in 0 .. n - 1 : (c + e) % n = IF c + e < n THEN c + e ELSE c + e - n
  OBVIOUS
<1>2. c + i - 1 = c + (i - 1) /\ i - 1 \in 0 .. n - 1 /\ c + j - 1 = c + (j - 1) /\ j - 1 \in 0 .. n - 1
  OBVIOUS
<1> QED
  BY <1>1, <1>2 DEF At

LEMMA CappedFacts ==
  ASSUME NEW n \in Nat, NEW m \in Nat
  PROVE  /\ Capped(n, m) \in 0 .. n /\ Capped(n, m) <= m /\ (Capped(n, m) < n => Capped(n, m) = m)
         /\ m > 0 /\ n > 0 => Capped(n, m) > 0
  BY DEF Capped

\* The misses, in the order in which they are asked for.
LEMMA MissesFacts ==
  ASSUME config \in Config
  PROVE  Misses \in Seq(Place) /\ Distinct(Misses) /\ \A i \in Range(Misses) : i \in Place /\ ~Cached(topic(i))
<1>1. Places \in Seq(Place) /\ Range(Places) = Place /\ Distinct(Places)
  BY ConfigFacts
<1> QED
  BY <1>1, FilterRange DEF Misses

\* select chooses different misses, as many as the budget allows, beginning at the cursor.
LEMMA Selected ==
  ASSUME config \in Config, cursor \in Nat,
         NEW misses \in Seq(Place), Distinct(misses), NEW n, n = Len(misses), n # 0,
         NEW k, k = Capped(n, config.budget), NEW c, c = cursor % n
  PROVE  /\ n \in Nat /\ c \in 0 .. n - 1 /\ k \in 1 .. n /\ k <= config.budget
         /\ k < n => k = config.budget
         /\ select(misses) \in Seq(Range(misses)) /\ Len(select(misses)) = k /\ DOMAIN select(misses) = 1 .. k
         /\ Distinct(select(misses))
         /\ \A i \in 1 .. k : select(misses)[i] = misses[At(c, i, n)]
<1>1. n \in Nat /\ DOMAIN misses = 1 .. n /\ config.budget \in Nat \ {0}
  BY ConfigFacts
<1>2. k \in 1 .. n /\ k <= config.budget /\ (k < n => k = config.budget)
  <2> DEFINE b == config.budget
  <2>1. b \in Nat /\ b > 0 /\ n \in Nat /\ n > 0
    BY <1>1
  <2> HIDE DEF b
  <2>2. k = Capped(n, b)
    BY DEF b
  <2>3. /\ k \in 0 .. n /\ k <= b /\ (k < n => k = b)
        /\ b > 0 /\ n > 0 => k > 0
    BY <2>1, <2>2, CappedFacts, Zenon
  <2> QED
    BY <2>1, <2>3 DEF b
<1>3. c \in 0 .. n - 1
  BY <1>1
<1> DEFINE s == select(misses)
<1>4. s = [i \in 1 .. k |-> misses[At(c, i, n)]]
  BY DEF select, At
<1> HIDE DEF s
<1>5. \A i \in 1 .. k : i \in 1 .. n
  BY <1>1, <1>2
<1>6. \A i, j \in 1 .. k : /\ At(c, i, n) \in 1 .. n
                           /\ At(c, i, n) = At(c, j, n) => i = j
  BY <1>1, <1>3, <1>5, Around, SMTT(30)
<1>7. \A i \in 1 .. k : s[i] \in Range(misses)
  BY <1>1, <1>4, <1>6 DEF Range
<1>8. s \in [1 .. k -> Range(misses)]
  BY <1>4, <1>7
<1>9. k \in Nat
  BY <1>1, <1>2
<1>10. s \in Seq(Range(misses)) /\ Len(s) = k /\ DOMAIN s = 1 .. k
  BY <1>8, <1>9, IsSequence
<1>11. Distinct(s)
  <2> SUFFICES ASSUME NEW i \in 1 .. k, NEW j \in 1 .. k, s[i] = s[j] PROVE i = j
    BY <1>10 DEF Distinct
  <2> DEFINE a == At(c, i, n)
             b == At(c, j, n)
  <2>1. a \in 1 .. n /\ b \in 1 .. n /\ (a = b => i = j)
    BY <1>6
  <2>2. s[i] = misses[a] /\ s[j] = misses[b]
    BY <1>4
  <2> HIDE DEF a, b
  <2> QED
    BY <2>1, <2>2, <1>1 DEF Distinct
<1> QED
  BY <1>1, <1>2, <1>3, <1>4, <1>10, <1>11 DEF s

\* A request moves the cursor past what it tries.
LEMMA AskTurns ==
  ASSUME LookupTypeOK, TurnFits, NEW c \in Request, Ask(c)
  PROVE  TurnFits' /\ cursor' \in Nat /\ missed' \in Seq(Place) /\ skipped' \in [Place -> Nat]
<1> DEFINE m == Misses
           n == Len(m)
           b == config.budget
           k == Capped(n, b)
           z == cursor % n
           e == select(m)
<1>0. config \in Config /\ cursor \in Nat /\ skipped \in [Place -> Nat] /\ b \in Nat \ {0}
  BY ConfigFacts DEF LookupTypeOK
<1>1. /\ missed' = m /\ config' = config /\ Place' = Place
      /\ cursor' = IF m = <<>> THEN cursor ELSE (z + Len(e)) % n
      /\ skipped' = [i \in Place |-> IF i \notin Range(m) \ Range(e) THEN 0
                                     ELSE IF missed = m THEN skipped[i] + 1 ELSE 1]
  BY DEF Ask, process, Place
<1>2. /\ m \in Seq(Place) /\ Distinct(m) /\ n \in Nat /\ DOMAIN m = 1 .. n
      /\ Range(m) \subseteq Place /\ (n = 0 <=> m = <<>>)
  <2>1. m \in Seq(Place) /\ Distinct(m) /\ Range(m) \subseteq Place
    BY <1>0, MissesFacts
  <2> HIDE DEF m
  <2> QED
    BY <2>1
<1>3. n # 0 =>
        /\ z \in 0 .. n - 1 /\ k \in 1 .. n /\ (k < n => k = b)
        /\ Len(e) = k /\ DOMAIN e = 1 .. k
        /\ \A i \in 1 .. k : e[i] = m[At(z, i, n)]
  <2> SUFFICES ASSUME n # 0
               PROVE  /\ z \in 0 .. n - 1 /\ k \in 1 .. n /\ (k < n => k = b)
                      /\ Len(e) = k /\ DOMAIN e = 1 .. k
                      /\ \A i \in 1 .. k : e[i] = m[At(z, i, n)]
    OBVIOUS
  <2>1. m \in Seq(Place) /\ Distinct(m) /\ config \in Config /\ cursor \in Nat
    BY <1>0, <1>2
  <2> HIDE DEF m
  <2>2. z \in 0 .. n - 1 /\ k \in 1 .. n /\ (k < n => k = b)
    BY <2>1, Selected
  <2>3. Len(e) = k /\ DOMAIN e = 1 .. k /\ \A i \in 1 .. k : e[i] = m[At(z, i, n)]
    BY <2>1, Selected
  <2> QED
    BY <2>2, <2>3
<1> HIDE DEF m, n, b, k, z, e
<1>4. skipped' \in [Place -> Nat]
  BY <1>0, <1>1
<1>5. \A i \in Place : skipped'[i] > 0 => i \in Range(m)
  BY <1>0, <1>1
<1>6. CASE n = 0
  <2>1. missed' = <<>> /\ cursor' = cursor
    BY <1>1, <1>2, <1>6
  <2>2. Range(m) = {}
    BY <1>2, <1>6 DEF Range
  <2> QED
    BY <2>1, <2>2, <1>0, <1>1, <1>4, <1>5 DEF TurnFits
<1>7. CASE n # 0
  <2>1. cursor' = (z + k) % n
    BY <1>1, <1>2, <1>3, <1>7
  <2>2. \A i \in Place : skipped'[i] > 0 => \E p \in 1 .. n : m[p] = i
    BY <1>2, <1>5 DEF Range
  <2>3. ASSUME NEW p \in 1 .. n
        PROVE  cursor' \in 0 .. n - 1 /\ skipped'[m[p]] * b + Offset(p)' < n
    <3> DEFINE o == Ahead(p, z, n)
               q == Ahead(p, cursor', n)
    <3>1. Offset(p)' = q
      BY <1>1 DEF Offset, n
    <3>2. /\ o \in 0 .. n - 1 /\ At(z, o + 1, n) = p
          /\ cursor' \in 0 .. n - 1 /\ q \in 0 .. n - 1
          /\ o >= k => q = o - k
      <4>1. n \in Nat /\ z \in 0 .. n - 1 /\ k \in 1 .. n
        BY <1>2, <1>3, <1>7
      <4> QED
        BY <2>1, <4>1, Turn, ZenonT(30)
    <3> HIDE DEF o, q
    <3>3. m[p] \in Place /\ m[p] \in Range(m)
      BY <1>2 DEF Range
    <3>4. CASE m[p] \in Range(e)
      <4>1. skipped'[m[p]] = 0
        BY <3>3, <3>4, <1>1
      <4>2. 0 * b = 0
        BY <1>0
      <4> QED
        BY <4>1, <4>2, <3>1, <3>2, <1>2
    <3>5. CASE m[p] \notin Range(e)
      <4>1. o >= k
        <5> SUFFICES ASSUME o < k PROVE FALSE
          BY <3>2, <1>3, <1>7
        <5>1. o + 1 \in 1 .. k
          BY <3>2, <1>2, <1>3, <1>7
        <5>2. e[o + 1] = m[p]
          BY <5>1, <3>2, <1>3, <1>7
        <5> QED
          BY <3>5, <5>1, <5>2, <1>3, <1>7 DEF Range
      <4>2. k = b /\ q = o - b
        BY <4>1, <3>2, <1>2, <1>3, <1>7
      <4>3. CASE missed = m
        <5>1. skipped'[m[p]] = skipped[m[p]] + 1 /\ skipped[m[p]] \in Nat
          BY <3>3, <3>5, <4>3, <1>0, <1>1
        <5>2. cursor < n
          BY <4>3, <1>2, <1>7 DEF TurnFits, n
        <5>3. z = cursor
          BY <5>2, <1>0, <1>2 DEF z
        <5>4. Offset(p) = o
          BY <4>3, <5>3 DEF Offset, n, o
        <5>5. skipped[m[p]] * b + o < n
          BY <4>3, <5>4 DEF TurnFits, n, b
        <5>6. \A s \in Nat : (s + 1) * b = s * b + b
          BY <1>0
        <5> DEFINE w == skipped[m[p]] * b
        <5>7. w \in Nat /\ skipped'[m[p]] * b = w + b
          BY <5>1, <5>6, <1>0
        <5> HIDE DEF w
        <5>8. w + o < n
          BY <5>5 DEF w
        <5> QED
          BY <3>1, <3>2, <4>2, <5>7, <5>8, <1>0, <1>2
      <4>4. CASE missed # m
        <5>1. skipped'[m[p]] = 1
          BY <3>3, <3>5, <4>4, <1>1
        <5>2. 1 * b = b
          BY <1>0
        <5> QED
          BY <3>1, <3>2, <4>2, <5>1, <5>2, <1>0, <1>2
      <4> QED
        BY <4>3, <4>4
    <3> QED
      BY <3>2, <3>4, <3>5
  <2>4. cursor' \in 0 .. n - 1
    <3>1. 1 \in 1 .. n
      BY <1>2, <1>7
    <3> QED
      BY <2>3, <3>1
  <2>5. TurnFits'
    <3>1. Len(missed)' = n /\ config'.budget = b /\ Place' = Place
      BY <1>1 DEF n, b
    <3>2. \A p \in 1 .. Len(missed') : skipped'[missed'[p]] * config'.budget + Offset(p)' < Len(missed')
      BY <2>3, <3>1, <1>1
    <3>3. cursor' < Len(missed')
      BY <2>4, <3>1, <1>2
    <3>4. \A i \in Place' : skipped'[i] > 0 => \E p \in 1 .. Len(missed') : missed'[p] = i
      BY <2>2, <3>1, <1>1
    <3> QED
      BY <3>2, <3>3, <3>4 DEF TurnFits
  <2> QED
    BY <2>4, <2>5, <1>1, <1>2, <1>4
<1> QED
  BY <1>6, <1>7

-----------------------------------------------------------------------------
(* The coordinator and the rotation together.                              *)

BooksInv == LookupTypeOK /\ Ledger /\ QueuesFit /\ Remembered /\ TurnFits

\* What the books do not depend on.
Others ==
  /\ phase \in {"passive", "importing", "imported", "active", "released"}
  /\ timers \in BOOLEAN /\ seeding \in BOOLEAN /\ accepting \in BOOLEAN
  /\ cache \in [Topic -> {"none", "archived", "operand", "live"}]
  /\ authority \in [Topic -> {"free", "none", "archived", "operand", "live"}]
  /\ aborted \subseteq Request

LEMMA TypesNext ==
  ASSUME LookupTypeOK, config' = config, Others', queue' \in [Caller -> Seq(Place)],
         item' \in [Caller -> [Place -> Item]], pending' \subseteq Topic, waiters' \in Nat,
         failures' \in Seq(Failure), quiet' \in [Topic -> 0 .. Cooldown], cursor' \in Nat,
         others' \in 0 .. MaxCursors, missed' \in Seq(Place), skipped' \in [Place -> Nat]
  PROVE  LookupTypeOK'
<1>1. Place' = Place
  BY DEF Place
<1> QED
  BY <1>1 DEF LookupTypeOK, Others, Failure

LEMMA SameOthers ==
  ASSUME LookupTypeOK, UNCHANGED <<process, values, seed, aborted>>
  PROVE  Others' /\ config' = config
<1>1. UNCHANGED <<config, phase, timers, cache, authority, seeding, accepting, aborted>>
  BY DEF process, values, seed
<1> QED
  BY <1>1 DEF LookupTypeOK, Others

LEMMA BooksInitially == Init => BooksInv
<1> SUFFICES ASSUME Init PROVE BooksInv
  OBVIOUS
<1>0. config \in Config /\ Seed \notin Request /\ Cooldown \in Nat /\ MaxWaiters \in Nat /\ MaxFailures \in Nat
  BY ConfigurationAssumption DEF Init
<1>1. Places \in Seq(Place) /\ config.maxPending \in Nat
  BY <1>0, ConfigFacts
<1>2. item = [c \in Caller |-> [i \in Place |-> NoItem]] /\ NoItem \in Item
      /\ NoItem.role = "none" /\ NoItem.got = "none"
  BY DEF Init, NoItem, Item
<1>3. LookupTypeOK
  <2>1. queue \in [Caller -> Seq(Place)]
    BY <1>1 DEF Init
  <2>2. item \in [Caller -> [Place -> Item]]
    BY <1>2
  <2>3. seeding \in BOOLEAN /\ accepting \in BOOLEAN /\ timers \in BOOLEAN
    BY <1>0, ConfigurationAssumption DEF Init
  <2>4. cache \in [Topic -> {"none", "archived", "operand", "live"}]
        /\ authority \in [Topic -> {"free", "none", "archived", "operand", "live"}]
        /\ phase \in {"passive", "importing", "imported", "active", "released"}
        /\ quiet \in [Topic -> 0 .. Cooldown] /\ skipped \in [Place -> Nat]
    BY <1>0 DEF Init
  <2>5. pending \subseteq Topic /\ aborted \subseteq Request /\ waiters \in Nat /\ cursor \in Nat
        /\ others \in 0 .. MaxCursors /\ missed \in Seq(Place) /\ failures \in Seq([topic : Topic, age : 0 .. Cooldown, error : BOOLEAN])
    BY ConfigurationAssumption DEF Init
  <2> QED
    BY <1>0, <2>1, <2>2, <2>3, <2>4, <2>5 DEF LookupTypeOK
<1>4. Ledger
  <2>1. Joined = {}
    BY <1>2 DEF Joined
  <2>2. pending = {} /\ waiters = 0
    BY DEF Init
  <2>3. \A c \in Caller, i \in Place : item[c][i].got # "waiting"
    BY <1>2
  <2> QED
    BY <1>0, <1>1, <2>1, <2>2, <2>3, FS_EmptySet DEF Ledger
<1>5. QueuesFit
  <2>1. \A c \in Request : queue[c] = <<>>
    BY <1>0 DEF Init, Caller
  <2> QED
    BY <2>1 DEF QueuesFit, Distinct, Range
<1>6. Remembered
  BY <1>0 DEF Init, Remembered
<1>7. TurnFits
  BY DEF Init, TurnFits
<1> QED
  BY <1>3, <1>4, <1>5, <1>6, <1>7 DEF BooksInv

\* What leaves the coordinator and the rotation alone.
LEMMA Elsewhere ==
  ASSUME BooksInv, UNCHANGED <<config, item, coordinator, rotation>>, Others',
         queue' \in [Caller -> Seq(Place)], \A c \in Request : queue'[c] = queue[c]
  PROVE  BooksInv'
<1>1. UNCHANGED <<config, item, pending, waiters, failures, quiet, cursor, others, missed, skipped>>
  BY DEF coordinator, rotation
<1>2. LookupTypeOK'
  <2>1. /\ item' \in [Caller -> [Place -> Item]] /\ pending' \subseteq Topic /\ waiters' \in Nat
        /\ failures' \in Seq(Failure) /\ quiet' \in [Topic -> 0 .. Cooldown] /\ cursor' \in Nat
        /\ others' \in 0 .. MaxCursors /\ missed' \in Seq(Place) /\ skipped' \in [Place -> Nat]
    BY <1>1 DEF BooksInv, LookupTypeOK, Failure
  <2> QED
    BY <1>1, <2>1, TypesNext DEF BooksInv
<1>3. Ledger'
  BY <1>1, SameLedger DEF BooksInv
<1>4. QueuesFit'
  BY <1>1 DEF BooksInv, QueuesFit
<1>5. Remembered'
  BY <1>1, SameFailures DEF BooksInv
<1>6. TurnFits'
  BY <1>1, SameTurn DEF BooksInv, rotation
<1> QED
  BY <1>2, <1>3, <1>4, <1>5, <1>6 DEF BooksInv

\* Steps of callers: what is left to show.
LEMMA CallerSteps ==
  ASSUME BooksInv, UNCHANGED <<process, seed, failures, quiet, rotation>>, Others',
         queue' \in [Caller -> Seq(Place)], item' \in [Caller -> [Place -> Item]],
         pending' \subseteq Topic, waiters' \in Nat, Ledger', QueuesFit',
         \A t \in pending' \ pending : Starts(t)
  PROVE  BooksInv'
<1>1. UNCHANGED <<config, failures, quiet, cursor, others, missed, skipped>>
  BY DEF process, rotation
<1>2. LookupTypeOK'
  <2>1. /\ failures' \in Seq(Failure) /\ quiet' \in [Topic -> 0 .. Cooldown] /\ cursor' \in Nat
        /\ others' \in 0 .. MaxCursors /\ missed' \in Seq(Place) /\ skipped' \in [Place -> Nat]
    BY <1>1 DEF BooksInv, LookupTypeOK, Failure
  <2> QED
    BY <1>1, <2>1, TypesNext DEF BooksInv
<1>3. Remembered'
  BY <1>1, SameFailures DEF BooksInv
<1>4. TurnFits'
  BY <1>1, SameTurn DEF BooksInv, rotation
<1> QED
  BY <1>2, <1>3, <1>4 DEF BooksInv

LEMMA AskBooks == ASSUME BooksInv, NEW c \in Request, Ask(c) PROVE BooksInv'
<1> DEFINE e == select(Misses)
           x == [i \in Place |-> IF Cached(topic(i)) THEN Answer("cache")
                                 ELSE IF i \in Range(e) THEN [role |-> "eligible", got |-> "none"]
                                 ELSE Answer("miss")]
<1>0. /\ c \in Caller /\ config \in Config /\ cursor \in Nat /\ LookupTypeOK /\ queue \in [Caller -> Seq(Place)]
  BY Callers DEF BooksInv, LookupTypeOK
<1>1. /\ UNCHANGED <<process, values, seed, aborted>> /\ UNCHANGED <<config, pending, waiters, failures, quiet>>
      /\ item' = [item EXCEPT ![c] = x] /\ queue' = [queue EXCEPT ![c] = e]
      /\ \A i \in Place : item[c][i] = NoItem
  BY DEF Ask, Busy, process, coordinator
<1>2. /\ e \in Seq(Place) /\ Distinct(e) /\ Range(e) \subseteq Range(Misses)
      /\ \A i \in Range(Misses) : i \in Place /\ ~Cached(topic(i))
  <2> DEFINE m == Misses
             n == Len(m)
             k == Capped(n, config.budget)
             z == cursor % n
  <2>1. m \in Seq(Place) /\ Distinct(m) /\ \A i \in Range(m) : i \in Place /\ ~Cached(topic(i))
    BY <1>0, MissesFacts
  <2> HIDE DEF m
  <2>2. CASE n = 0
    <3>1. k = 0
      BY <2>2, <1>0, ConfigFacts DEF Capped
    <3>2. select(m) = [i \in 1 .. 0 |-> m[(((cursor % n) + i - 1) % n) + 1]]
      BY <3>1 DEF select
    <3>3. DOMAIN select(m) = {} /\ select(m) \in [1 .. 0 -> Place]
      BY <3>2
    <3>4. select(m) \in Seq(Place)
      BY <3>3, IsSequence
    <3> QED
      BY <2>1, <3>3, <3>4 DEF Distinct, Range, m
  <2>3. CASE n # 0
    <3>1. select(m) \in Seq(Range(m)) /\ Distinct(select(m))
      BY <2>1, <2>3, <1>0, Selected
    <3>2. Range(select(m)) \subseteq Range(m)
      BY <3>1 DEF Range
    <3>3. Range(m) \subseteq Place
      BY <2>1
    <3>4. \A r : r \in Seq(Range(m)) => r \in Seq(Place)
      <4> DEFINE R == Range(m)
      <4> HIDE DEF R
      <4>1. R \subseteq Place => \A r : r \in Seq(R) => r \in Seq(Place)
        OBVIOUS
      <4> QED
        BY <3>3, <4>1 DEF R
    <3> QED
      BY <2>1, <3>1, <3>2, <3>4 DEF m
  <2> QED
    BY <2>2, <2>3
<1> HIDE DEF e
<1>3. /\ x \in [Place -> Item] /\ \A i \in Place : x[i].role # "joined" /\ x[i].got # "waiting"
      /\ \A i \in Range(e) : x[i].role = "eligible"
  <2>1. /\ Answer("cache") \in Item /\ Answer("miss") \in Item /\ [role |-> "eligible", got |-> "none"] \in Item
        /\ Answer("cache").role = "answered" /\ Answer("miss").role = "answered"
        /\ Answer("cache").got = "cache" /\ Answer("miss").got = "miss"
    BY DEF Answer, Item
  <2> QED
    BY <1>2, <2>1
<1> HIDE DEF x
<1>4. \A i \in Place : item[c][i].role # "joined" /\ item[c][i].got # "waiting"
  BY <1>0, <1>1, ItemFacts
<1>5. Ledger' /\ item' \in [Caller -> [Place -> Item]] /\ item'[c] = x /\ \A d \in Caller \ {c} : item'[d] = item[d]
  BY <1>0, <1>1, <1>3, <1>4, RowKeeps DEF BooksInv
<1>6. queue' \in [Caller -> Seq(Place)]
  BY <1>0, <1>1, <1>2
<1>7. QueuesFit'
  BY <1>0, <1>1, <1>2, <1>3, <1>5, Callers DEF BooksInv, QueuesFit
<1>8. TurnFits' /\ cursor' \in Nat /\ missed' \in Seq(Place) /\ skipped' \in [Place -> Nat]
  BY AskTurns DEF BooksInv
<1>9. Remembered'
  BY <1>1, SameFailures DEF BooksInv
<1>10. LookupTypeOK'
  <2>1. /\ failures' \in Seq(Failure) /\ quiet' \in [Topic -> 0 .. Cooldown]
        /\ pending' \subseteq Topic /\ waiters' \in Nat
    BY <1>1 DEF BooksInv, LookupTypeOK, Failure
  <2>2. Others'
    BY <1>0, <1>1, SameOthers
  <2>3. others' \in 0 .. MaxCursors
    <3>1. others \in 0 .. MaxCursors /\ (others' = others \/ others' = 0) /\ MaxCursors \in Nat
      BY <1>0, ConfigurationAssumption DEF Ask, LookupTypeOK
    <3> QED
      BY <3>1
  <2> QED
    BY <1>0, <1>1, <1>5, <1>6, <1>8, <2>1, <2>2, <2>3, TypesNext
<1> QED
  BY <1>5, <1>7, <1>8, <1>9, <1>10 DEF BooksInv

\* Other lists leave the cursor where it is, or evict it together with its history.
LEMMA ElsewhereBooks == ASSUME BooksInv, AskElsewhere PROVE BooksInv'
<1>0. LookupTypeOK /\ others \in 0 .. MaxCursors /\ MaxCursors \in Nat
  BY ConfigurationAssumption DEF BooksInv, LookupTypeOK
<1>1. /\ UNCHANGED <<process, values, seed, aborted>>
      /\ UNCHANGED <<config, queue, item, pending, waiters, failures, quiet>>
      /\ others < MaxCursors /\ others' = others + 1
  BY DEF AskElsewhere, process, work, coordinator
<1>2. /\ TurnFits' /\ cursor' \in Nat /\ missed' \in Seq(Place) /\ skipped' \in [Place -> Nat]
      /\ others' \in 0 .. MaxCursors
  <2>1. others' \in 0 .. MaxCursors
    BY <1>0, <1>1
  <2>2. CASE UNCHANGED <<cursor, missed, skipped>>
    <3>1. Place' = Place /\ \A p : Offset(p)' = Offset(p)
      BY <1>1, <2>2 DEF Place, Offset
    <3>2. TurnFits'
      BY <1>1, <2>2, <3>1 DEF BooksInv, TurnFits
    <3> QED
      BY <1>0, <2>1, <2>2, <3>2 DEF LookupTypeOK
  <2>3. CASE cursor' = 0 /\ missed' = <<>> /\ skipped' = [i \in Place |-> 0]
    <3>1. Place' = Place
      BY <1>1 DEF Place
    <3>2. TurnFits'
      BY <2>3, <3>1 DEF TurnFits
    <3> QED
      BY <2>1, <2>3, <3>2
  <2> QED
    BY <2>2, <2>3 DEF AskElsewhere
<1>3. Ledger'
  BY <1>1, SameLedger DEF BooksInv
<1>4. QueuesFit'
  BY <1>1 DEF BooksInv, QueuesFit
<1>5. Remembered'
  BY <1>1, SameFailures DEF BooksInv
<1>6. LookupTypeOK'
  <2>1. Others'
    BY <1>0, <1>1, SameOthers
  <2>2. /\ queue' \in [Caller -> Seq(Place)] /\ item' \in [Caller -> [Place -> Item]]
        /\ pending' \subseteq Topic /\ waiters' \in Nat
        /\ failures' \in Seq(Failure) /\ quiet' \in [Topic -> 0 .. Cooldown]
    BY <1>0, <1>1 DEF LookupTypeOK, Failure
  <2> QED
    BY <1>0, <1>1, <1>2, <2>1, <2>2, TypesNext
<1> QED
  BY <1>2, <1>3, <1>4, <1>5, <1>6 DEF BooksInv

LEMMA BeginBooks == ASSUME BooksInv, NEW c \in Request, Begin(c) PROVE BooksInv'
<1> DEFINE i == Head(queue[c])
<1>0. /\ c \in Caller /\ LookupTypeOK /\ queue \in [Caller -> Seq(Place)] /\ Ledger /\ queue[c] # <<>>
  BY Callers DEF BooksInv, LookupTypeOK, Begin
<1>1. /\ UNCHANGED <<process, values, seed, aborted>> /\ UNCHANGED <<config, failures, quiet, rotation>>
      /\ queue' = [queue EXCEPT ![c] = Tail(queue[c])]
  BY DEF Begin, process
<1>2. queue[c] \in Seq(Place) /\ Distinct(queue[c]) /\ \A j \in Range(queue[c]) : item[c][j].role = "eligible"
  BY <1>0 DEF BooksInv, QueuesFit
<1>3. /\ i \in Place /\ i \in Range(queue[c]) /\ Tail(queue[c]) \in Seq(Place) /\ Distinct(Tail(queue[c]))
      /\ \A j \in Range(Tail(queue[c])) : j \in Range(queue[c]) /\ j # i /\ j \in Place
  <2> DEFINE s == queue[c]
  <2>0. s \in Seq(Place) /\ Distinct(s) /\ s # <<>>
    BY <1>0, <1>2
  <2> HIDE DEF s
  <2>1. /\ Head(s) = s[1] /\ Len(s) \in Nat /\ Len(s) >= 1 /\ DOMAIN s = 1 .. Len(s)
        /\ Tail(s) \in Seq(Place) /\ Len(Tail(s)) = Len(s) - 1 /\ \A j \in 1 .. Len(s) - 1 : Tail(s)[j] = s[j + 1]
    BY <2>0
  <2>2. DOMAIN Tail(s) = 1 .. Len(s) - 1
    BY <2>1
  <2> DEFINE t == Tail(s)
             n == Len(s)
  <2> HIDE DEF t, n
  <2>3. /\ n \in Nat /\ n >= 1 /\ DOMAIN s = 1 .. n /\ DOMAIN t = 1 .. n - 1
        /\ \A j \in 1 .. n - 1 : t[j] = s[j + 1]
    BY <2>1, <2>2 DEF t, n
  <2>4. \A j, k \in 1 .. n : s[j] = s[k] => j = k
    BY <2>0, <2>3 DEF Distinct
  <2>5. Distinct(t)
    <3> SUFFICES ASSUME NEW j \in 1 .. n - 1, NEW k \in 1 .. n - 1, t[j] = t[k] PROVE j = k
      BY <2>3 DEF Distinct
    <3>1. j + 1 \in 1 .. n /\ k + 1 \in 1 .. n /\ s[j + 1] = s[k + 1]
      BY <2>3
    <3>2. j + 1 = k + 1
      BY <2>4, <3>1
    <3> QED
      BY <3>2
  <2>6. \A j \in 1 .. n - 1 : /\ t[j] # s[1] /\ \E k \in 1 .. n : t[j] = s[k]
    <3> SUFFICES ASSUME NEW j \in 1 .. n - 1 PROVE t[j] # s[1] /\ \E k \in 1 .. n : t[j] = s[k]
      OBVIOUS
    <3>1. j + 1 \in 1 .. n /\ 1 \in 1 .. n /\ j + 1 # 1 /\ t[j] = s[j + 1]
      BY <2>3
    <3> QED
      BY <2>4, <3>1
  <2>7. \A j \in Range(t) : j \in Range(s) /\ j # s[1]
    <3> SUFFICES ASSUME NEW j \in Range(t) PROVE j \in Range(s) /\ j # s[1]
      OBVIOUS
    <3>1. PICK a \in 1 .. n - 1 : t[a] = j
      BY <2>3 DEF Range
    <3>2. PICK k \in 1 .. n : t[a] = s[k] /\ t[a] # s[1]
      BY <2>6
    <3> QED
      BY <2>3, <3>1, <3>2 DEF Range
  <2>8. s[1] \in Range(s) /\ \A j \in Range(s) : j \in Place
    BY <2>0, <2>3 DEF Range
  <2> QED
    BY <2>1, <2>5, <2>7, <2>8 DEF s, t
<1> HIDE DEF i
<1>4. item[c][i].role = "eligible" /\ item[c][i].got # "waiting"
  BY <1>0, <1>2, <1>3, ItemFacts
<1>5. /\ Ledger' /\ waiters' \in Nat /\ pending' \subseteq Topic /\ item' \in [Caller -> [Place -> Item]]
      /\ \A d \in Caller, j \in Place : d # c \/ j # i => item'[d][j] = item[d][j]
      /\ \A t \in pending' \ pending : Starts(t)
  <2>1. CASE Cached(topic(i))
    <3>1. item' = [item EXCEPT ![c][i] = Answer("cache")] /\ UNCHANGED <<config, pending, waiters>>
      BY <1>1, <2>1 DEF Begin, i
    <3>2. Answer("cache") \in Item /\ Answer("cache").got = "cache" /\ Answer("cache").role = "answered"
      BY DEF Answer, Item
    <3>3. Leaves(c, i)
      BY <1>4, <3>1 DEF Leaves
    <3>4. Ledger' /\ waiters' \in Nat
      BY <1>0, <1>3, <1>4, <3>1, <3>2, <3>3, AnswerKeeps
    <3>5. pending' \subseteq Topic
      BY <1>0, <3>1 DEF LookupTypeOK
    <3>6. /\ item' \in [Caller -> [Place -> Item]]
          /\ \A d \in Caller, j \in Place : d # c \/ j # i => item'[d][j] = item[d][j]
      <4>1. LookupTypeOK /\ c \in Caller /\ i \in Place /\ Answer("cache") \in Item /\ config' = config
        BY <1>0, <1>3, <3>1, <3>2
      <4> QED
        BY <3>1, <4>1, ItemSet, Zenon
    <3> QED
      BY <3>1, <3>4, <3>5, <3>6
  <2>2. CASE ~Cached(topic(i))
    <3>1. Run(c, i)
      BY <2>2 DEF Begin, i
    <3>2. item[c][i].role # "joined" /\ UNCHANGED config
      BY <1>1, <1>4
    <3> QED
      BY <1>0, <1>3, <1>4, <3>1, <3>2, RunKeeps
  <2> QED
    BY <2>1, <2>2
<1>6. queue' \in [Caller -> Seq(Place)]
  BY <1>0, <1>1, <1>3
<1>7. QueuesFit'
  <2> SUFFICES ASSUME NEW d \in Request
               PROVE  Distinct(queue'[d]) /\ \A j \in Range(queue'[d]) : item'[d][j].role = "eligible"
    BY DEF QueuesFit
  <2>1. CASE d = c
    <3>1. queue'[c] = Tail(queue[c])
      BY <1>0, <1>1
    <3> QED
      BY <2>1, <3>1, <1>0, <1>2, <1>3, <1>5
  <2>2. CASE d # c
    <3>1. queue'[d] = queue[d] /\ queue[d] \in Seq(Place) /\ d \in Caller
      BY <2>2, <1>0, <1>1, Callers
    <3>2. Range(queue[d]) \subseteq Place
      BY <3>1 DEF Range
    <3> QED
      BY <2>2, <3>1, <3>2, <1>5 DEF BooksInv, QueuesFit
  <2> QED
    BY <2>1, <2>2
<1>8. Others'
  BY <1>0, <1>1, SameOthers
<1> QED
  BY <1>1, <1>5, <1>6, <1>7, <1>8, CallerSteps

LEMMA SeedNextBooks == ASSUME BooksInv, SeedNext PROVE BooksInv'
<1> DEFINE i == Head(queue[Seed])
<1>0. /\ Seed \in Caller /\ LookupTypeOK /\ queue \in [Caller -> Seq(Place)] /\ Ledger /\ queue[Seed] # <<>>
  BY Callers DEF BooksInv, LookupTypeOK, SeedNext
<1>1. /\ UNCHANGED <<process, values, seed, aborted>> /\ UNCHANGED <<config, failures, quiet, rotation>>
      /\ queue' = [queue EXCEPT ![Seed] = Tail(queue[Seed])] /\ Underway(Seed) = {}
  BY DEF SeedNext, process
<1>2. i \in Place /\ Tail(queue[Seed]) \in Seq(Place)
  <2> DEFINE s == queue[Seed]
  <2>1. s \in Seq(Place) /\ s # <<>>
    BY <1>0
  <2> HIDE DEF s
  <2>2. Head(s) \in Place /\ Tail(s) \in Seq(Place)
    BY <2>1
  <2> QED
    BY <2>2 DEF s
<1> HIDE DEF i
<1>3. item[Seed][i].role \notin {"own", "owner", "joined"}
  BY <1>1, <1>2 DEF Underway
<1>4. item[Seed][i].got # "waiting" /\ item[Seed][i].role # "joined"
  BY <1>0, <1>2, <1>3, ItemFacts
<1>5. /\ Ledger' /\ waiters' \in Nat /\ pending' \subseteq Topic /\ item' \in [Caller -> [Place -> Item]]
      /\ \A d \in Caller, j \in Place : d # Seed => item'[d][j] = item[d][j]
      /\ \A t \in pending' \ pending : Starts(t)
  <2>1. CASE Cached(topic(i))
    <3>1. UNCHANGED <<config, item, pending, waiters>>
      BY <1>1, <2>1 DEF SeedNext, i
    <3>2. Ledger'
      BY <1>0, <3>1, SameLedger
    <3>3. Place' = Place
      BY <3>1 DEF Place
    <3> QED
      BY <1>0, <3>1, <3>2, <3>3 DEF LookupTypeOK
  <2>2. CASE ~Cached(topic(i))
    <3>1. Run(Seed, i)
      BY <2>2 DEF SeedNext, i
    <3>2. UNCHANGED config
      BY <1>1
    <3> QED
      BY <1>0, <1>2, <1>4, <3>1, <3>2, RunKeeps
  <2> QED
    BY <2>1, <2>2
<1>6. queue' \in [Caller -> Seq(Place)] /\ \A d \in Request : queue'[d] = queue[d]
  BY <1>0, <1>1, <1>2, Callers
<1>7. QueuesFit'
  <2> SUFFICES ASSUME NEW d \in Request
               PROVE  Distinct(queue'[d]) /\ \A j \in Range(queue'[d]) : item'[d][j].role = "eligible"
    BY DEF QueuesFit
  <2>1. queue'[d] = queue[d] /\ queue[d] \in Seq(Place) /\ d \in Caller /\ d # Seed
    BY <1>0, <1>6, Callers
  <2>2. Range(queue[d]) \subseteq Place
    BY <2>1 DEF Range
  <2> QED
    BY <2>1, <2>2, <1>5 DEF BooksInv, QueuesFit
<1>8. Others'
  BY <1>0, <1>1, SameOthers
<1> QED
  BY <1>1, <1>5, <1>6, <1>7, <1>8, CallerSteps

\* The item that a caller resumes from is not one that it still has to begin.
LEMMA ResumeFits ==
  ASSUME BooksInv, NEW c \in Caller, NEW i \in Place, NEW x \in Item,
         item' = [item EXCEPT ![c][i] = x], item[c][i].role \in {"own", "owner", "joined"},
         item[c][i].got # "waiting", Leaves(c, i), x.got # "waiting", x.role # "joined",
         UNCHANGED <<process, seed, queue, pending, failures, quiet, rotation>>, Others'
  PROVE  BooksInv'
<1>1. UNCHANGED <<config, queue, pending>> /\ config' = config /\ Place' = Place
  BY DEF process, Place
<1>2. LookupTypeOK /\ Ledger /\ QueuesFit
  BY DEF BooksInv
<1>3. Ledger' /\ waiters' \in Nat
  BY <1>1, <1>2, AnswerKeeps
<1>4. /\ item' \in [Caller -> [Place -> Item]] /\ item'[c][i] = x
      /\ \A d \in Caller, j \in Place : d # c \/ j # i => item'[d][j] = item[d][j]
  <2>1. LookupTypeOK /\ config' = config
    BY <1>1, <1>2
  <2> QED
    BY <2>1, ItemSet, ZenonT(30)
<1>5. QueuesFit'
  <2> SUFFICES ASSUME NEW d \in Request
               PROVE  Distinct(queue'[d]) /\ \A j \in Range(queue'[d]) : item'[d][j].role = "eligible"
    BY DEF QueuesFit
  <2>1. queue'[d] = queue[d] /\ queue[d] \in Seq(Place) /\ d \in Caller
    BY <1>1, <1>2, Callers DEF LookupTypeOK
  <2>2. Range(queue[d]) \subseteq Place
    BY <2>1 DEF Range
  <2>3. \A j \in Range(queue[d]) : d # c \/ j # i
    BY <1>2 DEF QueuesFit
  <2> QED
    BY <2>1, <2>2, <2>3, <1>2, <1>4 DEF QueuesFit
<1>6. queue' \in [Caller -> Seq(Place)] /\ pending' \subseteq Topic
  BY <1>1, <1>2 DEF LookupTypeOK
<1> QED
  BY <1>1, <1>3, <1>4, <1>5, <1>6, CallerSteps

LEMMA ResumeBooks == ASSUME BooksInv, NEW c \in Request, NEW i \in Place, Resume(c, i) PROVE BooksInv'
<1>0. c \in Caller /\ config \in Config
  BY Callers DEF BooksInv, LookupTypeOK
<1>1. PICK a \in {"cache", "questdb", "miss", "failed"} : item' = [item EXCEPT ![c][i] = Answer(a)]
  BY DEF Resume, AnsweredCached
<1>2. Answer(a) \in Item /\ Answer(a).got # "waiting" /\ Answer(a).role # "joined"
  BY DEF Answer, Item
<1>3. /\ item[c][i].role \in {"own", "owner", "joined"} /\ item[c][i].got # "waiting" /\ Leaves(c, i)
      /\ UNCHANGED <<process, seed, queue, pending, failures, quiet, rotation, authority, aborted>>
      /\ cache' \in {cache, [cache EXCEPT ![topic(i)] = "archived"]}
  BY DEF Resume, Underway
<1>4. Others'
  BY <1>3 DEF process, seed, BooksInv, LookupTypeOK, Others
<1> QED
  BY <1>0, <1>1, <1>2, <1>3, <1>4, ResumeFits

LEMMA SeedResumeBooks == ASSUME BooksInv, NEW i \in Place, SeedResume(i) PROVE BooksInv'
<1>1. item' = [item EXCEPT ![Seed][i] = NoItem] /\ Seed \in Caller
  BY Callers DEF SeedResume
<1>2. NoItem \in Item /\ NoItem.got # "waiting" /\ NoItem.role # "joined"
  BY DEF NoItem, Item
<1>3. /\ item[Seed][i].role \in {"own", "owner", "joined"} /\ item[Seed][i].got # "waiting" /\ Leaves(Seed, i)
      /\ UNCHANGED <<process, seed, queue, pending, failures, quiet, rotation, authority, aborted>>
      /\ cache' \in {cache, [cache EXCEPT ![topic(i)] = "archived"]}
  BY DEF SeedResume, Underway
<1>4. Others'
  BY <1>3 DEF process, seed, BooksInv, LookupTypeOK, Others
<1> QED
  BY <1>1, <1>2, <1>3, <1>4, ResumeFits

LEMMA ReplyBooks == ASSUME BooksInv, NEW c \in Request, Reply(c) PROVE BooksInv'
<1> DEFINE x == [i \in Place |-> NoItem]
<1>0. c \in Caller /\ LookupTypeOK /\ Ledger /\ queue \in [Caller -> Seq(Place)]
  BY Callers DEF BooksInv, LookupTypeOK
<1>1. /\ UNCHANGED <<process, values, coordinator, rotation, seed>> /\ Underway(c) = {}
      /\ UNCHANGED <<config, pending, waiters, failures, quiet>>
      /\ item' = [item EXCEPT ![c] = x] /\ queue' = [queue EXCEPT ![c] = <<>>] /\ aborted' = aborted \ {c}
  BY DEF Reply, process, coordinator
<1>2. NoItem \in Item /\ NoItem.role = "none" /\ NoItem.got = "none"
  BY DEF NoItem, Item
<1>3. x \in [Place -> Item] /\ \A i \in Place : x[i].role # "joined" /\ x[i].got # "waiting"
  BY <1>2
<1> HIDE DEF x
<1>4. \A i \in Place : item[c][i].role # "joined" /\ item[c][i].got # "waiting"
  <2> SUFFICES ASSUME NEW i \in Place PROVE item[c][i].role # "joined" /\ item[c][i].got # "waiting"
    OBVIOUS
  <2>1. item[c][i].role \notin {"own", "owner", "joined"}
    BY <1>1 DEF Underway
  <2> QED
    BY <2>1, <1>0, ItemFacts
<1>5. Ledger' /\ item' \in [Caller -> [Place -> Item]] /\ item'[c] = x /\ \A d \in Caller \ {c} : item'[d] = item[d]
  BY <1>0, <1>1, <1>3, <1>4, RowKeeps
<1>6. queue' \in [Caller -> Seq(Place)]
  BY <1>0, <1>1
<1>7. QueuesFit'
  <2>1. queue'[c] = <<>> /\ \A d \in Caller \ {c} : queue'[d] = queue[d]
    BY <1>0, <1>1
  <2> QED
    BY <2>1, <1>5, Callers DEF BooksInv, QueuesFit, Distinct, Range
<1>8. Others' /\ pending' \subseteq Topic /\ waiters' \in Nat
  BY <1>1 DEF process, values, seed, BooksInv, LookupTypeOK, Others
<1> QED
  BY <1>1, <1>5, <1>6, <1>7, <1>8, CallerSteps

\* The end of a lookup, of which the failures are remembered.
LEMMA EndBooks ==
  ASSUME BooksInv, NEW t \in pending, pending' = pending \ {t}, NEW r \in Result,
         item' = Delivered(t, r), UNCHANGED <<process, values, queue, waiters, rotation, seed, aborted>>,
         failures' \in Seq(Failure), quiet' \in [Topic -> 0 .. Cooldown], Remembered'
  PROVE  BooksInv'
<1>0. LookupTypeOK /\ Ledger /\ QueuesFit /\ UNCHANGED <<config, queue, waiters, cursor, others, missed, skipped>>
  BY DEF BooksInv, process, rotation
<1>1. /\ Ledger' /\ item' \in [Caller -> [Place -> Item]]
      /\ \A c \in Caller, i \in Place : item'[c][i].role = item[c][i].role
  BY <1>0, DeliveredLedger
<1>2. QueuesFit'
  <2> SUFFICES ASSUME NEW d \in Request
               PROVE  Distinct(queue'[d]) /\ \A j \in Range(queue'[d]) : item'[d][j].role = "eligible"
    BY DEF QueuesFit
  <2>1. queue'[d] = queue[d] /\ queue[d] \in Seq(Place) /\ d \in Caller
    BY <1>0, Callers DEF LookupTypeOK
  <2>2. Range(queue[d]) \subseteq Place
    BY <2>1 DEF Range
  <2> QED
    BY <2>1, <2>2, <1>0, <1>1 DEF QueuesFit
<1>3. Others'
  BY <1>0, SameOthers
<1>4. LookupTypeOK'
  <2>1. /\ queue' \in [Caller -> Seq(Place)] /\ pending' \subseteq Topic /\ waiters' \in Nat
        /\ cursor' \in Nat /\ others' \in 0 .. MaxCursors /\ missed' \in Seq(Place) /\ skipped' \in [Place -> Nat]
    BY <1>0 DEF LookupTypeOK
  <2> QED
    BY <1>0, <1>1, <1>3, <2>1, TypesNext
<1>5. TurnFits'
  BY <1>0, SameTurn DEF BooksInv
<1> QED
  BY <1>1, <1>2, <1>4, <1>5 DEF BooksInv

LEMMA LookupBooks == ASSUME BooksInv, NEW t \in Topic, Lookup(t) \/ Timeout(t) PROVE BooksInv'
<1>0. /\ failures \in Seq(Failure) /\ quiet \in [Topic -> 0 .. Cooldown] /\ Remembered
      /\ pending \subseteq Topic /\ Cooldown \in Nat
  BY ConfigurationAssumption DEF BooksInv, LookupTypeOK, Failure
<1>1. CASE Timeout(t)
  <2>1. /\ t \in pending /\ pending' = pending \ {t} /\ item' = Delivered(t, "error")
        /\ failures' = remember(t, TRUE) /\ quiet' = [quiet EXCEPT ![t] = 0]
        /\ UNCHANGED <<process, values, queue, waiters, rotation, seed, aborted>>
    BY <1>1 DEF Timeout
  <2>2. failures' \in Seq(Failure) /\ Remembered'
    BY <1>0, <2>1, Remembers
  <2>3. quiet' \in [Topic -> 0 .. Cooldown] /\ "error" \in Result
    BY <1>0, <2>1 DEF Result
  <2> QED
    BY <2>1, <2>2, <2>3, EndBooks
<1>2. ASSUME NEW r \in {"value", "null", "error", "busy"}, Settle(t, r) PROVE BooksInv'
  <2> DEFINE q == IF r = "busy" THEN "error" ELSE r
  <2>1. /\ t \in pending /\ pending' = pending \ {t} /\ item' = Delivered(t, q)
        /\ UNCHANGED <<process, values, queue, waiters, rotation, seed, aborted>>
    BY <1>2 DEF Settle
  <2>2. q \in Result
    BY DEF Result
  <2> HIDE DEF q
  <2>3. failures' \in Seq(Failure) /\ quiet' \in [Topic -> 0 .. Cooldown] /\ Remembered'
    <3>1. CASE r = "value"
      <4>1. failures' = Without(t) /\ quiet' = [quiet EXCEPT ![t] = Cooldown]
        BY <1>2, <3>1 DEF Settle
      <4>2. failures' \in Seq(Failure) /\ Remembered'
        BY <1>0, <2>1, <4>1, Forgets
      <4> QED
        BY <1>0, <4>1, <4>2
    <3>2. CASE r = "busy"
      <4>1. UNCHANGED <<failures, quiet>>
        BY <1>2, <3>2 DEF Settle
      <4> QED
        BY <1>0, <2>1, <4>1, SameFailures
    <3>3. CASE r \notin {"value", "busy"}
      <4> DEFINE e == r = "error"
      <4>1. failures' = remember(t, e) /\ quiet' = [quiet EXCEPT ![t] = 0]
        BY <1>2, <3>3 DEF Settle
      <4>2. e \in BOOLEAN
        OBVIOUS
      <4> HIDE DEF e
      <4>3. failures' \in Seq(Failure) /\ Remembered'
        BY <1>0, <2>1, <4>1, <4>2, Remembers
      <4> QED
        BY <1>0, <4>1, <4>3
    <3> QED
      BY <3>1, <3>2, <3>3
  <2> QED
    BY <2>1, <2>2, <2>3, EndBooks
<1> QED
  BY <1>1, <1>2 DEF Lookup

LEMMA TickBooks == ASSUME BooksInv, Tick PROVE BooksInv'
<1>0. /\ failures \in Seq(Failure) /\ quiet \in [Topic -> 0 .. Cooldown] /\ LookupTypeOK
  BY DEF BooksInv, LookupTypeOK, Failure
<1>1. /\ failures' = [i \in DOMAIN failures |-> [failures[i] EXCEPT !.age = Capped(@ + 1, Cooldown)]]
      /\ quiet' = [t \in Topic |-> Capped(quiet[t] + 1, Cooldown)]
      /\ UNCHANGED <<process, values, work, pending, waiters, rotation, seed, aborted>>
      /\ UNCHANGED <<config, queue, item, pending, waiters, cursor, others, missed, skipped>>
  BY DEF Tick, process, work, rotation
<1>2. failures' \in Seq(Failure) /\ quiet' \in [Topic -> 0 .. Cooldown] /\ Remembered'
  BY <1>0, <1>1, Ages DEF BooksInv
<1>3. Ledger'
  BY <1>1, SameLedger DEF BooksInv
<1>4. QueuesFit'
  BY <1>1 DEF BooksInv, QueuesFit
<1>5. TurnFits'
  BY <1>1, SameTurn DEF BooksInv
<1>6. Others'
  BY <1>0, <1>1, SameOthers
<1>7. LookupTypeOK'
  <2>1. /\ queue' \in [Caller -> Seq(Place)] /\ item' \in [Caller -> [Place -> Item]]
        /\ pending' \subseteq Topic /\ waiters' \in Nat
        /\ cursor' \in Nat /\ others' \in 0 .. MaxCursors /\ missed' \in Seq(Place) /\ skipped' \in [Place -> Nat]
    BY <1>0, <1>1 DEF LookupTypeOK
  <2> QED
    BY <1>0, <1>1, <1>2, <1>6, <2>1, TypesNext
<1> QED
  BY <1>2, <1>3, <1>4, <1>5, <1>7 DEF BooksInv

LEMMA OutsideBooks ==
  ASSUME BooksInv, NEW t \in Topic, Live(t) \/ Evict(t) PROVE BooksInv'
<1>0. LookupTypeOK
  BY DEF BooksInv
<1>1. UNCHANGED <<process, work, coordinator, rotation, seed, aborted>>
      /\ UNCHANGED <<config, item, queue>>
  BY DEF Live, Evict, process, work
<1>2. Others'
  BY <1>0, <1>1 DEF Live, Evict, process, seed, LookupTypeOK, Others
<1>3. queue' \in [Caller -> Seq(Place)]
  BY <1>0, <1>1 DEF LookupTypeOK
<1> QED
  BY <1>1, <1>2, <1>3, Elsewhere

LEMMA SeedBooks == ASSUME BooksInv, SeedEnds \/ Activate \/ Release \/ ImportStarts PROVE BooksInv'
<1>0. LookupTypeOK /\ config \in Config
  BY DEF BooksInv, LookupTypeOK
<1>1. UNCHANGED <<config, item, coordinator, rotation, aborted>>
  BY DEF SeedEnds, Activate, Release, ImportStarts, process, values, work
<1>2. queue' = queue \/ \E s \in {<<>>, Places} : queue' = [queue EXCEPT ![Seed] = s]
  BY DEF SeedEnds, Activate, StartsSeed, Release, ImportStarts, seed, work
<1>3. Places \in Seq(Place) /\ <<>> \in Seq(Place)
  BY <1>0, ConfigFacts
<1>4. queue' \in [Caller -> Seq(Place)] /\ \A c \in Request : queue'[c] = queue[c]
  <2>1. queue \in [Caller -> Seq(Place)]
    BY <1>0 DEF LookupTypeOK
  <2>2. ASSUME NEW s \in Seq(Place), queue' = [queue EXCEPT ![Seed] = s]
        PROVE  queue' \in [Caller -> Seq(Place)] /\ \A c \in Request : queue'[c] = queue[c]
    BY <2>1, <2>2, Callers
  <2> QED
    BY <2>1, <2>2, <1>2, <1>3
<1>5. seeding' \in BOOLEAN /\ accepting' \in BOOLEAN
  <2>1. seeding \in BOOLEAN /\ accepting \in BOOLEAN
    BY <1>0 DEF LookupTypeOK
  <2>2. seeding' \in {seeding, TRUE, FALSE} /\ accepting' \in {accepting, TRUE, FALSE}
    BY Zenon DEF SeedEnds, Activate, StartsSeed, Release, ImportStarts, PausesSeed, seed
  <2> QED
    BY <2>1, <2>2
<1>6. timers' \in BOOLEAN /\ phase' \in {"passive", "importing", "imported", "active", "released"}
      /\ cache' \in [Topic -> {"none", "archived", "operand", "live"}]
      /\ authority' \in [Topic -> {"free", "none", "archived", "operand", "live"}]
  <2>1. /\ timers \in BOOLEAN /\ phase \in {"passive", "importing", "imported", "active", "released"}
        /\ cache \in [Topic -> {"none", "archived", "operand", "live"}]
        /\ authority \in [Topic -> {"free", "none", "archived", "operand", "live"}]
    BY <1>0 DEF LookupTypeOK
  <2>2. timers' \in {timers, FALSE} /\ phase' \in {phase, "active", "released", "importing"}
    BY Zenon DEF SeedEnds, Activate, Release, ImportStarts, process
  <2>3. cache' = cache
        /\ \/ authority' = authority
           \/ authority' = [t \in Topic |-> IF authority[t] = "none" THEN "free" ELSE authority[t]]
    BY DEF SeedEnds, Activate, Release, ImportStarts, values
  <2> QED
    BY <2>1, <2>2, <2>3
<1>7. Others'
  BY <1>0, <1>1, <1>5, <1>6 DEF Others, LookupTypeOK
<1> QED
  BY <1>1, <1>4, <1>7, Elsewhere

LEMMA ImportedBooks ==
  ASSUME BooksInv, NEW S \in SUBSET config.published, NEW V \in SUBSET S, Imported(S, V) PROVE BooksInv'
<1>0. LookupTypeOK
  BY DEF BooksInv
<1>1. UNCHANGED <<config, item, queue, coordinator, rotation, seed, aborted, timers>> /\ phase' = "imported"
  BY DEF Imported, work
<1>2. cache' \in [Topic -> {"none", "archived", "operand", "live"}]
  BY <1>0 DEF Imported, LookupTypeOK
<1>3. authority' \in [Topic -> {"free", "none", "archived", "operand", "live"}]
  BY <1>0, <1>2 DEF Imported, LookupTypeOK
<1>4. Others'
  BY <1>0, <1>1, <1>2, <1>3 DEF Others, LookupTypeOK, seed
<1>5. queue' \in [Caller -> Seq(Place)]
  BY <1>0, <1>1 DEF LookupTypeOK
<1> QED
  BY <1>1, <1>4, <1>5, Elsewhere

LEMMA BooksStep == BooksInv /\ [Next]_vars => BooksInv'
<1> SUFFICES ASSUME BooksInv, [Next]_vars PROVE BooksInv'
  OBVIOUS
<1>0. LookupTypeOK
  BY DEF BooksInv
<1>1. ASSUME UNCHANGED <<process, values, work, coordinator, rotation, seed>>, aborted' \subseteq Request
      PROVE  BooksInv'
  <2>1. UNCHANGED <<config, item, queue, coordinator, rotation>>
    BY <1>1 DEF process, work
  <2>2. Others'
    BY <1>0, <1>1 DEF process, values, seed, LookupTypeOK, Others
  <2>3. queue' \in [Caller -> Seq(Place)]
    BY <1>0, <2>1 DEF LookupTypeOK
  <2> QED
    BY <2>1, <2>2, <2>3, Elsewhere
<1>2. ASSUME NEW c \in Request, Ask(c) \/ Proceeds(c) \/ Abort(c) PROVE BooksInv'
  <2>1. CASE Abort(c)
    <3>1. aborted' \subseteq Request
      BY <1>0, <2>1 DEF Abort, LookupTypeOK
    <3> QED
      BY <1>1, <2>1, <3>1 DEF Abort
  <2> QED
    BY <1>2, <2>1, AskBooks, BeginBooks, ReplyBooks, ResumeBooks DEF Proceeds
<1>3. CASE SeedNext \/ SeedEnds
  BY <1>3, SeedNextBooks, SeedBooks
<1>4. ASSUME NEW i \in Place, SeedResume(i) PROVE BooksInv'
  BY <1>4, SeedResumeBooks
<1>5. ASSUME NEW t \in Topic, Lookup(t) \/ Timeout(t) PROVE BooksInv'
  BY <1>5, LookupBooks
<1>6. ASSUME NEW t \in Topic, Live(t) \/ Evict(t) PROVE BooksInv'
  BY <1>6, OutsideBooks
<1>7. CASE Tick
  BY <1>7, TickBooks
<1>8. CASE Handover
  BY <1>8, SeedBooks, ImportedBooks DEF Handover
<1>9. CASE UNCHANGED vars
  BY <1>0, <1>1, <1>9 DEF vars, LookupTypeOK
<1> QED
  BY <1>2, <1>3, <1>4, <1>5, <1>6, <1>7, <1>8, <1>9, ElsewhereBooks DEF Next

LEMMA BooksInvariant == Spec => []BooksInv
  BY BooksInitially, BooksStep, PTL DEF Spec

\* For every number of topics, requests and lookups: each pending lookup has an owner
\* that waits for it, nobody waits for another one, the waiters are exactly those that
\* joined, and the bounds of the coordinator hold (LatestLookupCoordinator.run).
THEOREM WaitersAlwaysExact == Spec => []WaitersExact
<1>1. BooksInv => WaitersExact
  <2> SUFFICES ASSUME BooksInv PROVE WaitersExact
    OBVIOUS
  <2>1. LookupTypeOK /\ Ledger /\ Len(failures) <= MaxFailures
    BY DEF BooksInv, Remembered
  <2>2. \A t \in Topic :
          /\ t \in pending => \E c \in Caller, i \in Place : Awaits(c, i, t) /\ item[c][i].role = "owner"
          /\ (\E c \in Caller, i \in Place : Awaits(c, i, t)) => t \in pending
    BY <2>1 DEF Ledger, Awaits
  <2>3. waiters = Cardinality({ci \in Caller \X Place : item[ci[1]][ci[2]].role = "joined"})
    BY <2>1 DEF Ledger, Joined
  <2>4. waiters <= MaxWaiters /\ Cardinality(pending) <= config.maxPending
    BY <2>1 DEF Ledger
  <2> QED
    BY <2>1, <2>2, <2>3, <2>4 DEF WaitersExact
<1> QED
  BY <1>1, BooksInvariant, PTL

\* While the misses of the requests stay the same and fewer other lists come between
\* than evict the cursor, none is passed over by more requests in a row than it takes to
\* try the others, whatever the budget, the capacity and the length of the list
\* (BudgetedFallbackRotation.select).
THEOREM TurnAlwaysKept == Spec => []TurnKept
<1>1. BooksInv => TurnKept
  <2> SUFFICES ASSUME BooksInv, NEW i \in Place, skipped[i] > 0
               PROVE  skipped[i] * config.budget < Len(missed)
    BY DEF TurnKept
  <2>1. /\ missed \in Seq(Place) /\ cursor \in Nat /\ skipped \in [Place -> Nat]
        /\ config.budget \in Nat
    BY ConfigFacts DEF BooksInv, LookupTypeOK
  <2>2. PICK p \in 1 .. Len(missed) : missed[p] = i
    BY DEF BooksInv, TurnFits
  <2>3. skipped[i] * config.budget + Offset(p) < Len(missed)
    BY <2>2 DEF BooksInv, TurnFits
  <2>4. cursor < Len(missed)
    BY <2>1, <2>2 DEF BooksInv, TurnFits
  <2>5. Len(missed) \in Nat /\ skipped[i] * config.budget \in Nat
    BY <2>1
  <2>6. Offset(p) \in Nat
    BY <2>1, <2>2, <2>4, <2>5 DEF Offset, Ahead
  <2> QED
    BY <2>3, <2>5, <2>6
<1> QED
  BY <1>1, BooksInvariant, PTL

\* Only a call of run that finds no recent failure begins a lookup.
LEMMA Begins == ASSUME BooksInv, Next, NEW t \in pending' \ pending PROVE Starts(t) /\ t \in Topic
<1>0. LookupTypeOK /\ Ledger
  BY DEF BooksInv
<1>1. ASSUME NEW c \in Request, Ask(c) \/ Proceeds(c) \/ Abort(c) PROVE Starts(t)
  <2>1. Begin(c)
    BY <1>1 DEF Ask, Proceeds, Abort, Reply, Resume, coordinator
  <2> DEFINE i == Head(queue[c])
  <2>2. Run(c, i)
    BY <2>1 DEF Begin
  <2>3. Starts(topic(i)) /\ pending' = pending \cup {topic(i)}
    BY <2>2 DEF Run
  <2> QED
    BY <2>3
<1>2. ASSUME SeedNext \/ SeedEnds PROVE Starts(t)
  <2>1. SeedNext
    BY <1>2 DEF SeedEnds, coordinator
  <2> DEFINE i == Head(queue[Seed])
  <2>2. Run(Seed, i)
    BY <2>1 DEF SeedNext
  <2>3. Starts(topic(i)) /\ pending' = pending \cup {topic(i)}
    BY <2>2 DEF Run
  <2> QED
    BY <2>3
<1>3. ASSUME NEW i \in Place, SeedResume(i) PROVE FALSE
  BY <1>3 DEF SeedResume
<1>4. ASSUME NEW u \in Topic, Lookup(u) \/ Timeout(u) \/ Live(u) \/ Evict(u) PROVE FALSE
  BY <1>4 DEF Lookup, Settle, Timeout, Live, Evict, coordinator
<1>5. ~Tick
  BY DEF Tick
<1>6. ~Handover
  BY DEF Handover, Activate, Release, ImportStarts, Imported, coordinator
<1>7. ~AskElsewhere
  BY DEF AskElsewhere, coordinator
<1>8. Starts(t)
  BY <1>1, <1>2, <1>3, <1>4, <1>5, <1>6, <1>7 DEF Next
<1>9. BooksInv'
  BY BooksStep
<1> QED
  BY <1>8, <1>9 DEF BooksInv, LookupTypeOK

\* After a miss or a failure a topic is not read again within the cooldown, unless the
\* bounded map is full of the failures of others (the negative cache of run, remember).
THEOREM QuietAlways == Spec => QuietAfterFailure
<1>1. BooksInv /\ [Next]_vars =>
        [\A t \in Topic : t \in pending' \ pending /\ quiet[t] < Cooldown =>
           Cardinality({f.topic : f \in Range(failures)} \ {t}) = MaxFailures]_vars
  <2> SUFFICES ASSUME BooksInv, Next, NEW t \in Topic, t \in pending' \ pending, quiet[t] < Cooldown
               PROVE  Cardinality({f.topic : f \in Range(failures)} \ {t}) = MaxFailures
    OBVIOUS
  <2> DEFINE n == Len(failures)
             s == [i \in 1 .. n |-> failures[i].topic]
  <2>1. /\ n \in Nat /\ DOMAIN failures = 1 .. n
        /\ \A i \in 1 .. n : failures[i].topic \in Topic
    BY FailuresFacts DEF BooksInv, LookupTypeOK, Failure
  <2>2. Cooling(t) = {}
    BY Begins DEF Starts
  <2>3. \A i \in 1 .. n : failures[i].topic # t
    <3> SUFFICES ASSUME NEW i \in 1 .. n, failures[i].topic = t PROVE FALSE
      OBVIOUS
    <3>1. failures[i].age < Cooldown
      BY <2>1 DEF BooksInv, Remembered
    <3> QED
      BY <2>1, <2>2, <3>1 DEF Cooling
  <2>4. n = MaxFailures
    BY <2>1, <2>3 DEF BooksInv, Remembered
  <2>5. \A i, j \in 1 .. n : failures[i].topic = failures[j].topic => i = j
    BY <2>1 DEF BooksInv, Remembered
  <2> HIDE DEF n
  <2>6. s \in [1 .. n -> Topic]
    BY <2>1
  <2>7. s \in Seq(Topic) /\ Len(s) = n /\ DOMAIN s = 1 .. n
    BY <2>1, <2>6, IsSequence
  <2>8. Distinct(s)
    BY <2>5, <2>7 DEF Distinct
  <2>9. Cardinality(Range(s)) = Len(s)
    <3> HIDE DEF s
    <3> QED
      BY <2>7, <2>8, DistinctLength
  <2>10. Range(s) = {f.topic : f \in Range(failures)} \ {t}
    BY <2>1, <2>3 DEF Range
  <2> QED
    BY <2>4, <2>7, <2>9, <2>10
<1> QED
  BY <1>1, BooksInvariant, PTL DEF Spec, QuietAfterFailure
=============================================================================
