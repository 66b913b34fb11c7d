------------------------- MODULE CaptureSessionProofs -------------------------
(***************************************************************************)
(* Theorems about CaptureSession, for every set of definitions and every   *)
(* value of the bounds.                                                    *)
(***************************************************************************)
EXTENDS CaptureSession, TLAPS

Audit == [session : Session, kind : {"started", "closed"}, rows : Nat,
          waiter : {"open", "withdraw", "row", "close", "nobody"}]

\* A session is put into activeSessions once, stays there until it is deleted, and
\* keeps its books: rows that are published, rows that are counted, the ledger.
SessionFits(s) ==
  /\ s \in accepted => s <= used /\ ledger[s].kind # "none"
  /\ s \notin accepted => /\ closer[s] = "none" /\ chain[s] = <<>> /\ timers[s] = {}
                          /\ published[s] = 0
  /\ s > used => ledger[s].kind = "none"
  /\ s \in accepted /\ life # "stopped" /\ closer[s] \in {"none", "draining", "summing"} =>
       active = s
  /\ timers[s] # {} =>
       s \in rearmed \/ (active = s /\ closer[s] = "none" /\ ~handoverPaused)
  /\ closer[s] \in {"auditing", "done"} => chain[s] = <<>>
  /\ rowStep[s] # "waiting" => chain[s] # <<>>
  /\ rowCount[s] <= published[s] /\ (~rejected[s] => rowCount[s] = published[s])
  /\ ledger[s].rows <= rowCount[s]
  /\ ledger[s].kind = "closed" /\ life # "stopped" =>
       /\ ledger[s].rows = rowCount[s]
       /\ s \in accepted => closer[s] \in {"auditing", "done"}

\* What an event on its way to the outbox says is still true, and its waiter waits.
EventFits(e) ==
  /\ e.session <= used /\ e.rows <= rowCount[e.session]
  /\ e.kind = "closed" /\ life # "stopped" => e.rows = rowCount[e.session]
  /\ e.waiter = "open" =>
       /\ e.session = opening /\ e.session \notin accepted /\ active = None
       /\ e.kind = "started" /\ ledger[e.session].kind = "none"
  /\ e.waiter = "withdraw" => /\ e.session = opening /\ e.session \notin accepted
                              /\ e.kind = "closed"
  /\ e.waiter = "row" => /\ e.session \in accepted /\ rowStep[e.session] = "auditing"
                         /\ e.kind = "started"
  /\ e.waiter = "close" => /\ e.session \in accepted /\ closer[e.session] = "auditing"
                           /\ e.kind = "closed"
  /\ e.waiter = "nobody" => life = "stopped" /\ e.session \in accepted

\* Events that are never on their way together: two of an opening, two of the rows
\* or closes of one session, and an opening with another of its session.
Clash(d, e) ==
  \/ d.waiter \in {"open", "withdraw"} /\ e.waiter \in {"open", "withdraw"}
  \/ d.session = e.session /\ (d.waiter = "open" \/ e.waiter = "open")
  \/ d.session = e.session /\ d.waiter \in {"row", "close"} /\ e.waiter = d.waiter

Apart(q) == \A i, j \in 1..Len(q) : i # j => ~Clash(q[i], q[j])

FitEvents == {e \in Audit : EventFits(e)}

EventsFit == \A i \in 1..Len(audits) : audits[i] \in FitEvents

ActiveFits == active # None => active \in accepted /\ life # "stopped"

\* The types of what surrounds the sessions, and of the sessions.
Outer ==
  /\ capture \in Definitions
  /\ life \in {"prepared", "starting", "running", "released", "settling", "drained", "stopped"}
  /\ registered \in BOOLEAN /\ healthy \in BOOLEAN /\ canRecord \in BOOLEAN
  /\ value \subseteq {"start", "stop"} /\ wasFalse \subseteq {"start", "stop"}
  /\ backlog \in 0..MaxBacklog
Inner ==
  /\ opening \in Session \cup {None} /\ active \in Session \cup {None}
  /\ used \in 0..MaxSessions
  /\ closer \in [Session -> {"none", "draining", "summing", "auditing", "done"}]
  /\ summary \in [Session -> BOOLEAN]
  /\ timers \in [Session -> SUBSET {"interval", "timeout"}] /\ rearmed \subseteq Session
  /\ chain \in [Session -> Seq({"row", "summary"})]
  /\ rowStep \in [Session -> {"waiting", "publishing", "auditing"}]
  /\ rowCount \in [Session -> Nat] /\ published \in [Session -> Nat]
  /\ rejected \in [Session -> BOOLEAN]
  /\ audits \in Seq(Audit)
  /\ ledger \in [Session -> [kind : {"none", "started", "closed"}, rows : Nat]]
  /\ accepted \in SUBSET Session

Core == /\ Inner /\ ActiveFits /\ EventsFit /\ Apart(audits)
        /\ \A s \in Session : SessionFits(s)

IInv == Outer /\ Core

-----------------------------------------------------------------------------
LEMMA Constants ==
  /\ MaxSessions \in Nat /\ MaxRows \in Nat /\ MaxBacklog \in Nat
  /\ Session \subseteq Nat /\ None \notin Session /\ None \in Nat
  /\ \A s \in Session : s >= 1 /\ s <= MaxSessions
  BY CaptureAssumption DEF Session, None

LEMMA Initially == Init => IInv
<1> SUFFICES ASSUME Init PROVE IInv
  OBVIOUS
<1>1. audits = <<>> /\ accepted = {} /\ active = None /\ used = 0
  BY DEF Init
<1>2. Outer /\ Inner
  BY CaptureAssumption DEF Init, Outer, Inner, Session, None, Values, NoCheckpoint
<1>3. \A s \in Session : SessionFits(s)
  BY Constants DEF Init, SessionFits, NoCheckpoint
<1> QED
  BY <1>1, <1>2, <1>3 DEF IInv, Core, ActiveFits, EventsFit, Apart

-----------------------------------------------------------------------------
(* The outbox's queue.                                                     *)

LEMMA AuditsAppended ==
  ASSUME IInv, NEW e \in FitEvents', e \in Audit, audits' = Append(audits, e),
         FitEvents \subseteq FitEvents', \A d \in FitEvents : ~Clash(d, e)
  PROVE  audits' \in Seq(Audit) /\ EventsFit' /\ Apart(audits)'
<1>1. /\ audits \in Seq(Audit) /\ audits' \in Seq(Audit) /\ Len(audits) \in Nat
      /\ Len(audits') = Len(audits) + 1 /\ audits'[Len(audits) + 1] = e
      /\ \A i \in 1..Len(audits) : audits'[i] = audits[i]
  BY DEF IInv, Core, Inner, Audit
<1>2. EventsFit'
  BY <1>1 DEF IInv, Core, EventsFit
<1>3. \A d : Clash(d, e) <=> Clash(e, d)
  BY DEF Clash
<1>4. \A i \in 1..Len(audits) : ~Clash(audits[i], e) /\ ~Clash(e, audits[i])
  BY <1>3 DEF IInv, Core, EventsFit
<1>5. Apart(audits)'
  BY <1>1, <1>4 DEF IInv, Core, Apart
<1> QED
  BY <1>1, <1>2, <1>5

LEMMA Appended ==
  ASSUME NEW S, NEW q \in Seq(S), NEW x \in S
  PROVE  Append(q, x) \in Seq(S) /\ Append(q, x) # <<>>
<1>1. Append(q, x) \in Seq(S) /\ Len(Append(q, x)) = Len(q) + 1 /\ Len(q) \in Nat
  OBVIOUS
<1>2. Len(<<>>) = 0
  OBVIOUS
<1> QED
  BY <1>1, <1>2

LEMMA HeadTail ==
  ASSUME NEW S, NEW q \in Seq(S), q # <<>>
  PROVE  /\ Head(q) \in S /\ Tail(q) \in Seq(S)
         /\ Len(q) \in Nat \ {0} /\ Len(Tail(q)) = Len(q) - 1
         /\ Head(q) = q[1]
         /\ \A i \in 1..Len(Tail(q)) : Tail(q)[i] = q[i + 1]
  OBVIOUS

LEMMA Leading ==
  ASSUME IInv, audits # <<>>
  PROVE  /\ event \in Audit /\ event \in FitEvents
         /\ Tail(audits) \in Seq(Audit) /\ Len(Tail(audits)) \in Nat
         /\ \A i \in 1..Len(Tail(audits)) :
              Tail(audits)[i] \in FitEvents /\ ~Clash(event, Tail(audits)[i])
         /\ Apart(Tail(audits))
<1>1. /\ audits \in Seq(Audit) /\ Len(audits) \in Nat \ {0} /\ event = audits[1] /\ event \in Audit
      /\ Tail(audits) \in Seq(Audit) /\ Len(Tail(audits)) = Len(audits) - 1
      /\ \A i \in 1..Len(Tail(audits)) : Tail(audits)[i] = audits[i + 1]
  <2>1. audits \in Seq(Audit)
    BY DEF IInv, Core, Inner, Audit
  <2> QED
    BY <2>1, HeadTail DEF event
<1>2. \A i \in 1..Len(Tail(audits)) : i + 1 \in 1..Len(audits) /\ i + 1 # 1
  BY <1>1
<1>3. event \in FitEvents
  BY <1>1 DEF IInv, Core, EventsFit
<1>4. \A i \in 1..Len(Tail(audits)) :
        Tail(audits)[i] \in FitEvents /\ ~Clash(event, Tail(audits)[i])
  BY <1>1, <1>2 DEF IInv, Core, EventsFit, Apart
<1>5. Apart(Tail(audits))
  BY <1>1, <1>2 DEF IInv, Core, Apart
<1> QED
  BY <1>1, <1>3, <1>4, <1>5

LEMMA AuditsSettled ==
  ASSUME IInv, audits # <<>>, audits' = Tail(audits),
         \A d \in FitEvents : ~Clash(event, d) => d \in FitEvents'
  PROVE  audits' \in Seq(Audit) /\ EventsFit' /\ Apart(audits)'
  BY Leading DEF EventsFit, Apart

LEMMA AuditsReplaced ==
  ASSUME IInv, audits # <<>>, NEW e \in FitEvents', e \in Audit, audits' = Append(Tail(audits), e),
         \A d \in FitEvents : ~Clash(event, d) => d \in FitEvents' /\ ~Clash(d, e)
  PROVE  audits' \in Seq(Audit) /\ EventsFit' /\ Apart(audits)'
<1> DEFINE q == Tail(audits)
<1>1. /\ q \in Seq(Audit) /\ Len(q) \in Nat
      /\ \A i \in 1..Len(q) : q[i] \in FitEvents /\ ~Clash(event, q[i])
      /\ Apart(q)
  BY Leading
<1>2. /\ audits' \in Seq(Audit) /\ Len(audits') = Len(q) + 1 /\ audits'[Len(q) + 1] = e
      /\ \A i \in 1..Len(q) : audits'[i] = q[i]
  BY <1>1
<1>3. \A d : Clash(d, e) <=> Clash(e, d)
  BY DEF Clash
<1> HIDE DEF q
<1>4. \A i \in 1..Len(q) : ~Clash(q[i], e) /\ ~Clash(e, q[i]) /\ q[i] \in FitEvents'
  BY <1>1, <1>3
<1>5. EventsFit' /\ Apart(audits)'
  BY <1>1, <1>2, <1>4 DEF EventsFit, Apart
<1> QED
  BY <1>2, <1>5

-----------------------------------------------------------------------------
(* Steps that change no session but its timers, and may begin to close one. *)

LEMMA QuietKeeps ==
  ASSUME IInv, UNCHANGED <<opens, active, rows, outbox, accepted>>,
         life' = "stopped" <=> life = "stopped",
         timers' \in [Session -> SUBSET {"interval", "timeout"}], rearmed' \subseteq Session,
         summary' \in [Session -> BOOLEAN],
         \A s \in Session : timers'[s] \subseteq timers[s],
         rearmed \subseteq rearmed' \/ \A s \in Session : timers'[s] = {},
         handoverPaused' => handoverPaused \/ \A s \in Session : timers'[s] # {} => s \in rearmed,
         \/ closer' = closer
         \/ /\ active # None /\ closer[active] = "none"
            /\ closer' = [closer EXCEPT ![active] = "draining"]
            /\ timers'[active] # {} => active \in rearmed
  PROVE  Core'
<1>1. Inner'
  BY DEF IInv, Core, Inner, opens, rows, tally, outbox
<1>2. ActiveFits'
  BY DEF IInv, Core, ActiveFits
<1>3. FitEvents \subseteq FitEvents'
  <2> SUFFICES ASSUME NEW e \in Audit, EventFits(e) PROVE EventFits(e)'
    BY DEF FitEvents
  <2>1. e.session \in Session
    BY DEF Audit
  <2>2. closer[e.session] = "auditing" => closer'[e.session] = "auditing"
    BY <2>1 DEF IInv, Core, Inner
  <2>3. /\ UNCHANGED <<opening, used, active, rowStep, rowCount, ledger, accepted>>
    BY DEF opens, rows, tally, outbox
  <2> QED
    BY <2>1, <2>2, <2>3 DEF EventFits
<1>4. EventsFit' /\ Apart(audits)'
  BY <1>3 DEF IInv, Core, EventsFit, Apart, outbox
<1>5. \A s \in Session : SessionFits(s)'
  BY Constants DEF IInv, Core, Inner, ActiveFits, SessionFits, opens, rows, tally, outbox
<1> QED
  BY <1>1, <1>2, <1>4, <1>5 DEF Core

-----------------------------------------------------------------------------
(* A session that is opened.                                               *)

Opens ==
  /\ opening = None /\ active = None /\ used < MaxSessions
  /\ opening' = used + 1 /\ used' = used + 1
  /\ audits' = Append(audits, Event(used + 1, "started", 0, "open"))
  /\ UNCHANGED <<ledger, accepted>>

LEMMA OpenSessionOpens ==
  ASSUME NEW eligible \in BOOLEAN, OpenSession(eligible)
  PROVE  Opens \/ UNCHANGED <<opens, outbox, accepted>>
  BY Zenon DEF OpenSession, MayOpen, emitSessionAudit, Opens

LEMMA OpensKeeps ==
  ASSUME IInv, Opens, UNCHANGED <<active, closings, rows>>, life' = "stopped" <=> life = "stopped",
         handoverPaused' => handoverPaused
  PROVE  Core'
<1>a. PICK new : new = used + 1
  OBVIOUS
<1>b. PICK e : e = Event(new, "started", 0, "open")
  OBVIOUS
<1>0. /\ new \in Session /\ new > used /\ new # None /\ new \in Nat /\ used \in Nat
      /\ e \in Audit /\ e.session = new /\ e.rows = 0 /\ e.waiter = "open" /\ e.kind = "started"
      /\ opening' = new /\ used' = new /\ opening = None /\ active = None
      /\ audits' = Append(audits, e)
  BY <1>a, <1>b, Constants DEF IInv, Core, Inner, Opens, Event, Audit, Session, None
<1>1. SessionFits(new) /\ new \notin accepted /\ ledger[new].kind = "none" /\ rowCount[new] \in Nat
  BY <1>0 DEF IInv, Core, Inner, SessionFits
<1>2. UNCHANGED <<active, closer, summary, timers, rearmed, chain, rowStep, rowCount, published, rejected,
                  ledger, accepted>>
  BY DEF Opens, closings, rows, tally
<1>3. \A d \in FitEvents : d.session # new /\ d.waiter \notin {"open", "withdraw"}
  <2> SUFFICES ASSUME NEW d \in Audit, EventFits(d)
               PROVE  d.session # new /\ d.waiter \notin {"open", "withdraw"}
    BY DEF FitEvents
  <2>1. d.session \in Session /\ d.session <= used /\ d.session # None
    BY Constants DEF Audit, EventFits
  <2> QED
    BY <1>0, <2>1, Constants DEF EventFits
<1>4. FitEvents \subseteq FitEvents'
  <2> SUFFICES ASSUME NEW d \in FitEvents PROVE EventFits(d)'
    BY DEF FitEvents
  <2>1. d \in Audit /\ EventFits(d) /\ d.waiter \notin {"open", "withdraw"}
    BY <1>3 DEF FitEvents
  <2>2. d.session <= used'
    <3>1. d.session \in Nat /\ d.session <= used
      BY <2>1, Constants DEF EventFits, Audit
    <3> QED
      BY <1>0, <3>1
  <2> QED
    BY <1>2, <2>1, <2>2 DEF EventFits
<1>5. e \in FitEvents'
  <2>1. EventFits(e)'
    BY <1>0, <1>1, <1>2 DEF EventFits
  <2> QED
    BY <1>0, <2>1 DEF FitEvents
<1>6. \A d \in FitEvents : ~Clash(d, e)
  BY <1>0, <1>3 DEF Clash
<1>7. audits' \in Seq(Audit) /\ EventsFit' /\ Apart(audits)'
  BY <1>0, <1>4, <1>5, <1>6, AuditsAppended
<1>8. Inner'
  <2>1. used' \in 0..MaxSessions /\ opening' \in Session
    BY <1>0, Constants
  <2> QED
    BY <1>2, <1>7, <2>1 DEF IInv, Core, Inner
<1>9. ActiveFits'
  BY <1>2 DEF IInv, Core, ActiveFits
<1>10. \A s \in Session : SessionFits(s)'
  <2> SUFFICES ASSUME NEW s \in Session PROVE SessionFits(s)'
    OBVIOUS
  <2>1. SessionFits(s) /\ s \in Nat
    BY Constants DEF IInv, Core
  <2> QED
    BY <1>0, <1>2, <2>1 DEF SessionFits
<1> QED
  BY <1>7, <1>8, <1>9, <1>10 DEF Core

-----------------------------------------------------------------------------
(* The rows of a session.                                                  *)

LEMMA AcceptRowKeeps ==
  ASSUME IInv, active # None, AcceptRow(active),
         UNCHANGED <<life, opens, active, closings, outbox, accepted>>
  PROVE  Core'
<1>1. active \in Session /\ active \in accepted
  BY DEF IInv, Core, Inner, ActiveFits
<1>2. /\ UNCHANGED <<life, opening, used, active, closer, summary, timers, rearmed, audits, ledger, accepted>>
      /\ UNCHANGED <<rowStep, rowCount, published, rejected>>
  BY DEF AcceptRow, opens, closings, outbox, rows, tally
<1>3. /\ chain' \in [Session -> Seq({"row", "summary"})]
      /\ \A s \in Session : \/ chain'[s] = chain[s]
                            \/ s = active /\ closer[s] = "none" /\ chain'[s] # <<>>
  <2>1. CASE chain' = chain
    BY <2>1 DEF IInv, Core, Inner
  <2>2. CASE closer[active] = "none" /\ chain' = [chain EXCEPT ![active] = Append(@, "row")]
    <3>1. chain[active] \in Seq({"row", "summary"}) /\ "row" \in {"row", "summary"}
      BY <1>1 DEF IInv, Core, Inner
    <3>2. /\ Append(chain[active], "row") \in Seq({"row", "summary"})
          /\ Append(chain[active], "row") # <<>>
      BY <3>1, Appended
    <3> QED
      BY <1>1, <2>2, <3>2 DEF IInv, Core, Inner
  <2> QED
    BY <2>1, <2>2 DEF AcceptRow, rows
<1>4. Inner'
  BY <1>2, <1>3 DEF IInv, Core, Inner
<1>5. ActiveFits' /\ EventsFit' /\ Apart(audits)'
  BY <1>2 DEF IInv, Core, ActiveFits, EventsFit, Apart, FitEvents, EventFits
<1>6. \A s \in Session : SessionFits(s)'
  <2> SUFFICES ASSUME NEW s \in Session PROVE SessionFits(s)'
    OBVIOUS
  <2>1. SessionFits(s) /\ handoverPaused' = handoverPaused /\ UNCHANGED <<rejected, rowStep>>
    BY <1>2 DEF IInv, Core, handoverPaused
  <2>2. CASE chain'[s] = chain[s]
    BY <1>2, <2>1, <2>2 DEF SessionFits
  <2>3. CASE s = active /\ closer[s] = "none" /\ chain'[s] # <<>>
    BY <1>1, <1>2, <2>1, <2>3 DEF SessionFits
  <2> QED
    BY <1>3, <2>2, <2>3
<1> QED
  BY <1>4, <1>5, <1>6 DEF Core

LEMMA NextRowKeeps ==
  ASSUME IInv, NEW s \in Session, Row(s), NextRow(s)
  PROVE  /\ chain' \in [Session -> Seq({"row", "summary"})]
         /\ rowStep' \in [Session -> {"waiting", "publishing", "auditing"}]
         /\ rowStep'[s] = "waiting"
         /\ \A t \in Session : t # s => chain'[t] = chain[t] /\ rowStep'[t] = rowStep[t]
<1>1. chain[s] \in Seq({"row", "summary"}) /\ chain[s] # <<>>
  BY DEF IInv, Core, Inner, Row
<1>2. Tail(chain[s]) \in Seq({"row", "summary"})
  BY <1>1, HeadTail
<1> QED
  BY <1>2 DEF IInv, Core, Inner, NextRow

\* A session with a row on its chain is in use, and its close is not recorded.
LEMMA RowFits ==
  ASSUME IInv, NEW s \in Session, Row(s)
  PROVE  /\ s \in accepted /\ closer[s] \notin {"auditing", "done"}
         /\ ledger[s].kind = "closed" => life = "stopped"
         /\ \A d \in FitEvents : d.session = s => d.waiter # "open" /\ d.waiter # "withdraw"
                                                  /\ d.waiter # "close"
                                                  /\ (d.kind = "closed" => life = "stopped")
<1>1. SessionFits(s) /\ chain[s] # <<>>
  BY DEF IInv, Core, Row
<1>2. s \in accepted /\ closer[s] \notin {"auditing", "done"}
      /\ (ledger[s].kind = "closed" => life = "stopped")
  BY <1>1 DEF SessionFits
<1>3. ASSUME NEW d \in FitEvents, d.session = s
      PROVE  /\ d.waiter # "open" /\ d.waiter # "withdraw" /\ d.waiter # "close"
             /\ d.kind = "closed" => life = "stopped"
  <2>1. EventFits(d) /\ d.waiter \in {"open", "withdraw", "row", "close", "nobody"}
    BY DEF FitEvents, Audit
  <2> QED
    BY <1>2, <1>3, <2>1 DEF EventFits
<1> QED
  BY <1>2, <1>3

\* What a row step may do to its session.
RowStep(s) ==
  /\ chain' \in [Session -> Seq({"row", "summary"})]
  /\ rowStep' \in [Session -> {"waiting", "publishing", "auditing"}]
  /\ rowCount' \in [Session -> Nat] /\ published' \in [Session -> Nat]
  /\ rejected' \in [Session -> BOOLEAN]
  /\ rowStep'[s] # "waiting" => chain'[s] # <<>>
  /\ rowCount[s] <= rowCount'[s] /\ rowCount'[s] <= published'[s]
  /\ ~rejected'[s] => rowCount'[s] = published'[s]
  /\ \A t \in Session : t # s =>
       /\ chain'[t] = chain[t] /\ rowStep'[t] = rowStep[t] /\ rowCount'[t] = rowCount[t]
       /\ published'[t] = published[t] /\ rejected'[t] = rejected[t]

LEMMA RowStepKeeps ==
  ASSUME IInv, NEW s \in Session, Row(s), RowStep(s),
         UNCHANGED <<life, opens, active, closings, ledger, accepted>>,
         audits' \in Seq(Audit), EventsFit', Apart(audits)'
  PROVE  Core'
<1>1. UNCHANGED <<life, opening, used, active, closer, summary, timers, rearmed, ledger, accepted>>
  BY DEF opens, closings
<1>2. Inner'
  BY <1>1 DEF IInv, Core, Inner, RowStep
<1>3. ActiveFits'
  BY <1>1 DEF IInv, Core, ActiveFits
<1>4. ASSUME NEW t \in Session PROVE SessionFits(t)'
  <2>0. SessionFits(t) /\ handoverPaused' = handoverPaused
    BY <1>1 DEF IInv, Core, handoverPaused
  <2>1. CASE t = s
    <3>1. s \in accepted /\ closer[s] \notin {"auditing", "done"}
          /\ (ledger[s].kind = "closed" => life = "stopped")
      BY RowFits
    <3>2. ledger[s].rows \in Nat /\ rowCount[s] \in Nat /\ rowCount'[s] \in Nat
      BY DEF IInv, Core, Inner, RowStep
    <3> QED
      BY <1>1, <2>0, <2>1, <3>1, <3>2 DEF SessionFits, RowStep
  <2>2. CASE t # s
    BY <1>1, <2>0, <2>2 DEF SessionFits, RowStep
  <2> QED
    BY <2>1, <2>2
<1> QED
  BY <1>2, <1>3, <1>4 DEF Core

\* A step of a row that is not waiting for its checkpoint disturbs no event.
LEMMA RowStepEvents ==
  ASSUME IInv, NEW s \in Session, Row(s), RowStep(s), rowStep[s] # "auditing",
         UNCHANGED <<life, opens, active, closings, ledger, accepted>>
  PROVE  FitEvents \subseteq FitEvents'
<1>1. UNCHANGED <<life, opening, used, active, closer, ledger, accepted>>
  BY DEF opens, closings
<1> SUFFICES ASSUME NEW d \in FitEvents PROVE EventFits(d)'
  BY DEF FitEvents
<1>2. d \in Audit /\ EventFits(d) /\ d.session \in Session /\ d.rows \in Nat
  BY DEF FitEvents, Audit
<1>3. CASE d.session # s
  BY <1>1, <1>2, <1>3 DEF EventFits, RowStep
<1>4. CASE d.session = s
  <2>1. /\ d.waiter # "open" /\ d.waiter # "withdraw" /\ d.waiter # "close" /\ d.waiter # "row"
        /\ d.kind = "closed" => life = "stopped"
    BY <1>2, <1>4, RowFits DEF EventFits
  <2>2. d.rows <= rowCount'[s]
    BY <1>2, <1>4 DEF EventFits, RowStep, IInv, Core, Inner
  <2> QED
    BY <1>1, <1>2, <1>4, <2>1, <2>2 DEF EventFits
<1> QED
  BY <1>3, <1>4

LEMMA RowsStep == ASSUME IInv, NEW s \in Session, Rows(s) PROVE Core'
<1>0. /\ rowCount[s] \in Nat /\ published[s] \in Nat /\ rowCount[s] <= published[s]
      /\ ~rejected[s] => rowCount[s] = published[s]
      /\ Row(s)
  BY DEF IInv, Core, Inner, SessionFits, Rows, RowSkipped, RowStarts, RowRejected, RowCounted
<1>1. CASE RowSkipped(s)
  <2>1. /\ NextRow(s) /\ rowStep[s] # "auditing"
        /\ UNCHANGED <<life, opens, active, closings, audits, ledger, accepted>>
        /\ UNCHANGED <<rowCount, published, rejected>>
    BY <1>1 DEF RowSkipped, given, tally, outbox
  <2>2. RowStep(s)
    BY <1>0, <2>1, NextRowKeeps, SMTT(20) DEF IInv, Core, Inner, RowStep
  <2>3. audits' \in Seq(Audit) /\ EventsFit' /\ Apart(audits)'
    BY <1>0, <2>1, <2>2, RowStepEvents DEF IInv, Core, Inner, EventsFit, Apart
  <2> QED
    BY <1>0, <2>1, <2>2, <2>3, RowStepKeeps
<1>2. CASE RowStarts(s)
  <2>1. /\ rowStep[s] # "auditing" /\ rowStep' = [rowStep EXCEPT ![s] = "publishing"]
        /\ UNCHANGED <<life, opens, active, closings, audits, ledger, accepted, chain>>
        /\ UNCHANGED <<rowCount, published, rejected>>
    BY <1>2 DEF RowStarts, given, tally, outbox
  <2>2. RowStep(s)
    BY <1>0, <2>1 DEF IInv, Core, Inner, RowStep, Row
  <2>3. audits' \in Seq(Audit) /\ EventsFit' /\ Apart(audits)'
    BY <1>0, <2>1, <2>2, RowStepEvents DEF IInv, Core, Inner, EventsFit, Apart
  <2> QED
    BY <1>0, <2>1, <2>2, <2>3, RowStepKeeps
<1>3. CASE RowRejected(s)
  <2>1. /\ rowStep[s] # "auditing" /\ NextRow(s)
        /\ UNCHANGED <<life, opens, active, closings, audits, ledger, accepted, rowCount>>
        /\ rejected' = [rejected EXCEPT ![s] = TRUE]
    BY <1>3 DEF RowRejected, given, outbox
  <2>2. PICK got \in {0, 1} : published' = [published EXCEPT ![s] = @ + got]
    BY <1>3 DEF RowRejected
  <2>3. /\ rejected' \in [Session -> BOOLEAN] /\ rejected'[s] = TRUE
        /\ \A t \in Session : t # s => rejected'[t] = rejected[t]
    <3>1. rejected \in [Session -> BOOLEAN]
      BY DEF IInv, Core, Inner
    <3> QED
      BY <2>1, <3>1
  <2>4. RowStep(s)
    <3>1. /\ published \in [Session -> Nat] /\ rowCount \in [Session -> Nat]
          /\ got \in Nat /\ rowCount' = rowCount
      BY <2>1 DEF IInv, Core, Inner
    <3>2. /\ published' \in [Session -> Nat] /\ rowCount[s] <= published'[s]
          /\ \A t \in Session : t # s => published'[t] = published[t]
      BY <1>0, <2>2, <3>1
    <3>3. /\ chain' \in [Session -> Seq({"row", "summary"})]
          /\ rowStep' \in [Session -> {"waiting", "publishing", "auditing"}]
          /\ rowStep'[s] = "waiting"
          /\ \A t \in Session : t # s => chain'[t] = chain[t] /\ rowStep'[t] = rowStep[t]
      BY <1>0, <2>1, NextRowKeeps
    <3> QED
      BY <2>3, <3>1, <3>2, <3>3 DEF RowStep
  <2>5. audits' \in Seq(Audit) /\ EventsFit' /\ Apart(audits)'
    BY <1>0, <2>1, <2>4, RowStepEvents DEF IInv, Core, Inner, EventsFit, Apart
  <2> QED
    BY <1>0, <2>1, <2>4, <2>5, RowStepKeeps
<1>4. CASE RowCounted(s)
  <2>a. PICK e : e = Event(s, "started", rowCount'[s], "row")
    OBVIOUS
  <2>1. /\ rowStep[s] = "publishing" /\ rowStep' = [rowStep EXCEPT ![s] = "auditing"]
        /\ rowCount' = [rowCount EXCEPT ![s] = @ + 1]
        /\ published' = [published EXCEPT ![s] = @ + 1]
        /\ UNCHANGED <<life, opens, active, closings, ledger, accepted, chain, rejected>>
        /\ audits' = Append(audits, e)
    BY <1>4, <2>a DEF RowCounted, given, emitSessionAudit
  <2>2. RowStep(s) /\ rowCount'[s] = rowCount[s] + 1
    BY <1>0, <2>1 DEF IInv, Core, Inner, RowStep, Row
  <2>3. /\ e \in Audit /\ e.session = s /\ e.kind = "started" /\ e.waiter = "row"
        /\ e.rows = rowCount'[s]
    BY <2>a, <2>2 DEF Event, Audit, RowStep
  <2>4. FitEvents \subseteq FitEvents'
    BY <1>0, <2>1, <2>2, RowStepEvents
  <2>5. s \in accepted /\ s <= used /\ UNCHANGED <<accepted, used>>
    BY <1>0, <2>1, RowFits DEF IInv, Core, SessionFits, opens
  <2>6. e \in FitEvents'
    <3>1. EventFits(e)'
      BY <2>1, <2>2, <2>3, <2>5 DEF EventFits, IInv, Core, Inner
    <3> QED
      BY <2>3, <3>1 DEF FitEvents
  <2>7. \A d \in FitEvents : ~Clash(d, e)
    BY <1>0, <2>1, <2>3, RowFits DEF Clash, FitEvents, EventFits
  <2>8. audits' \in Seq(Audit) /\ EventsFit' /\ Apart(audits)'
    BY <2>1, <2>3, <2>4, <2>6, <2>7, AuditsAppended
  <2> QED
    BY <1>0, <2>1, <2>2, <2>8, RowStepKeeps
<1> QED
  BY <1>1, <1>2, <1>3, <1>4 DEF Rows

-----------------------------------------------------------------------------
(* closeSession after its awaits, and stop.                                *)

LEMMA SummaryAcceptedKeeps == ASSUME IInv, NEW s \in Session, SummaryAccepted(s) PROVE Core'
<1>1. /\ closer[s] = "draining" /\ chain[s] = <<>>
      /\ UNCHANGED <<life, opening, used, active, summary, timers, rearmed, rowStep, rowCount, published,
                     rejected, audits, ledger, accepted>>
      /\ chain' = [chain EXCEPT ![s] = Append(@, "summary")]
      /\ closer' = [closer EXCEPT ![s] = "summing"]
  BY DEF SummaryAccepted, Settled, given, opens, tally, outbox
<1>2. chain[s] \in Seq({"row", "summary"}) /\ "summary" \in {"row", "summary"}
  BY DEF IInv, Core, Inner
<1>3. Append(chain[s], "summary") \in Seq({"row", "summary"}) /\ Append(chain[s], "summary") # <<>>
  BY <1>2, Appended
<1>4. Inner'
  BY <1>1, <1>3 DEF IInv, Core, Inner
<1>5. ActiveFits' /\ Apart(audits)'
  BY <1>1 DEF IInv, Core, ActiveFits, Apart
<1>6. EventsFit'
  <2>1. ASSUME NEW d \in Audit, EventFits(d) PROVE EventFits(d)'
    <3>1. d.session \in Session /\ (closer[d.session] = "auditing" => closer'[d.session] = "auditing")
      BY <1>1 DEF Audit, IInv, Core, Inner
    <3> QED
      BY <1>1, <2>1, <3>1 DEF EventFits
  <2> QED
    BY <1>1, <2>1 DEF IInv, Core, EventsFit, FitEvents
<1>7. ASSUME NEW t \in Session PROVE SessionFits(t)'
  <2>0. SessionFits(t) /\ handoverPaused' = handoverPaused
    BY <1>1 DEF IInv, Core, handoverPaused
  <2>1. CASE t # s
    <3>1. chain'[t] = chain[t] /\ closer'[t] = closer[t]
      BY <1>1, <2>1 DEF IInv, Core, Inner
    <3> QED
      BY <1>1, <2>0, <3>1 DEF SessionFits
  <2>2. CASE t = s
    <3>1. chain'[s] # <<>> /\ closer'[s] = "summing"
      BY <1>1, <1>3 DEF IInv, Core, Inner
    <3> QED
      BY <1>1, <2>0, <2>2, <3>1 DEF SessionFits
  <2> QED
    BY <2>1, <2>2
<1> QED
  BY <1>4, <1>5, <1>6, <1>7 DEF Core

LEMMA SessionDeletedKeeps == ASSUME IInv, NEW s \in Session, SessionDeleted(s) PROVE Core'
<1>a. PICK e : e = Event(s, "closed", rowCount[s], "close")
  OBVIOUS
<1>1. /\ closer[s] \in {"draining", "summing"} /\ chain[s] = <<>>
      /\ UNCHANGED <<life, opening, used, summary, timers, rearmed, chain, rowStep, rowCount, published,
                     rejected, ledger, accepted>>
      /\ active' = None /\ closer' = [closer EXCEPT ![s] = "auditing"]
      /\ audits' = Append(audits, e)
  BY <1>a DEF SessionDeleted, Settled, given, opens, rows, tally, emitSessionAudit
<1>2. s \in accepted /\ s <= used /\ (life # "stopped" => active = s)
  BY <1>1 DEF IInv, Core, SessionFits
<1>3. /\ e \in Audit /\ e.session = s /\ e.kind = "closed" /\ e.waiter = "close"
      /\ e.rows = rowCount[s] /\ rowCount[s] \in Nat
  BY <1>a DEF Event, Audit, IInv, Core, Inner
<1>4. FitEvents \subseteq FitEvents'
  <2> SUFFICES ASSUME NEW d \in FitEvents PROVE EventFits(d)'
    BY DEF FitEvents
  <2>1. d \in Audit /\ EventFits(d) /\ d.session \in Session
    BY DEF FitEvents, Audit
  <2>2. closer[d.session] = "auditing" => closer'[d.session] = "auditing"
    BY <1>1, <2>1 DEF IInv, Core, Inner
  <2> QED
    BY <1>1, <2>1, <2>2 DEF EventFits
<1>5. e \in FitEvents'
  <2>1. closer'[s] = "auditing"
    BY <1>1 DEF IInv, Core, Inner
  <2>2. EventFits(e)'
    BY <1>1, <1>2, <1>3, <2>1 DEF EventFits
  <2> QED
    BY <1>3, <2>2 DEF FitEvents
<1>6. \A d \in FitEvents : ~Clash(d, e)
  BY <1>1, <1>2, <1>3 DEF Clash, FitEvents, EventFits
<1>7. audits' \in Seq(Audit) /\ EventsFit' /\ Apart(audits)'
  BY <1>1, <1>3, <1>4, <1>5, <1>6, AuditsAppended
<1>8. Inner' /\ ActiveFits'
  BY <1>1, <1>7 DEF IInv, Core, Inner, ActiveFits
<1>9. ASSUME NEW t \in Session PROVE SessionFits(t)'
  <2>0. SessionFits(t) /\ handoverPaused' = handoverPaused
    BY <1>1 DEF IInv, Core, handoverPaused
  <2>1. CASE t # s
    <3>1. closer'[t] = closer[t] /\ active # t
      BY <1>1, <1>2, <2>1, Constants DEF IInv, Core, Inner, ActiveFits
    <3> QED
      BY <1>1, <2>0, <3>1 DEF SessionFits
  <2>2. CASE t = s
    <3>1. closer'[s] = "auditing"
      BY <1>1 DEF IInv, Core, Inner
    <3> QED
      BY <1>1, <1>2, <2>0, <2>2, <3>1 DEF SessionFits
  <2> QED
    BY <2>1, <2>2
<1> QED
  BY <1>7, <1>8, <1>9 DEF Core

LEMMA StopKeeps == ASSUME IInv, Stop PROVE Core'
<1>1. /\ life' = "stopped"
      /\ UNCHANGED <<opening, used, closer, summary, rearmed, chain, rowStep, rowCount, published,
                     rejected, ledger, accepted>>
      /\ active' = None
  BY DEF Stop, closings, opens, outbox, rows, tally
<1>2. /\ timers' \in [Session -> SUBSET {"interval", "timeout"}]
      /\ \A t \in Session : timers'[t] \subseteq timers[t] /\ (t = active => timers'[t] = {})
  <2>1. CASE active # None
    BY <2>1 DEF Stop, clearSessionTimers, IInv, Core, Inner
  <2>2. CASE active = None
    BY <2>2, Constants DEF Stop, closings, IInv, Core, Inner
  <2> QED
    BY <2>1, <2>2
<1>3. FitEvents \subseteq FitEvents'
  BY <1>1 DEF FitEvents, EventFits
<1>4. audits' \in Seq(Audit) /\ EventsFit' /\ Apart(audits)'
  <2>1. CASE active # None
    <3>a. PICK e : e = Event(active, "closed", rowCount[active], "nobody")
      OBVIOUS
    <3>1. /\ active \in accepted /\ active \in Session /\ active <= used
          /\ e \in Audit /\ e.session = active /\ e.kind = "closed" /\ e.waiter = "nobody"
          /\ e.rows = rowCount[active] /\ rowCount[active] \in Nat
          /\ audits' = Append(audits, e)
      BY <2>1, <3>a DEF Stop, emitSessionAudit, Event, Audit, IInv, Core, Inner, ActiveFits, SessionFits
    <3>2. e \in FitEvents'
      BY <1>1, <3>1 DEF FitEvents, EventFits
    <3>3. \A d \in FitEvents : ~Clash(d, e)
      BY <3>1 DEF Clash, FitEvents, EventFits
    <3> QED
      BY <1>3, <3>1, <3>2, <3>3, AuditsAppended
  <2>2. CASE active = None
    <3>1. audits' = audits
      BY <2>2 DEF Stop, outbox
    <3> QED
      BY <1>3, <3>1 DEF IInv, Core, Inner, EventsFit, Apart
  <2> QED
    BY <2>1, <2>2
<1>5. Inner' /\ ActiveFits'
  BY <1>1, <1>2, <1>4 DEF IInv, Core, Inner, ActiveFits
<1>6. \A t \in Session : SessionFits(t)'
  BY <1>1, <1>2 DEF IInv, Core, SessionFits
<1> QED
  BY <1>4, <1>5, <1>6 DEF Core

-----------------------------------------------------------------------------
(* The outbox settles an event.                                            *)

\* What settling the first event may do to the ledger.
LedgerStep ==
  /\ ledger' \in [Session -> [kind : {"none", "started", "closed"}, rows : Nat]]
  /\ \A t \in Session : t # event.session => ledger'[t] = ledger[t]
  /\ ledger[event.session].kind # "none" => ledger'[event.session].kind # "none"
  /\ ledger'[event.session].rows <= rowCount[event.session]
  /\ ledger'[event.session].kind = "closed" /\ life # "stopped" =>
       /\ ledger'[event.session].rows = rowCount[event.session]
       /\ ledger[event.session].kind = "closed" \/ event.kind = "closed"

LEMMA KeptStep ==
  ASSUME IInv, audits # <<>>, Kept
  PROVE  LedgerStep /\ ledger'[event.session].kind # "none"
         /\ (event.kind = "started" /\ ledger[event.session].kind # "closed" =>
               ledger'[event.session].kind = "started")
<1>1. /\ event \in Audit /\ EventFits(event) /\ event.session \in Session
      /\ event.rows \in Nat /\ event.kind \in {"started", "closed"}
  BY Leading DEF FitEvents, Audit
<1> DEFINE s == event.session
           old == ledger[s]
           m == Merge(old, event)
<1>2. /\ old \in [kind : {"none", "started", "closed"}, rows : Nat] /\ rowCount[s] \in Nat
      /\ old.rows <= rowCount[s]
      /\ old.kind = "closed" /\ life # "stopped" => old.rows = rowCount[s]
  BY <1>1 DEF IInv, Core, Inner, SessionFits
<1>3. /\ event.rows <= rowCount[s]
      /\ event.kind = "closed" /\ life # "stopped" => event.rows = rowCount[s]
  BY <1>1 DEF EventFits
<1>4. ledger' = [ledger EXCEPT ![s] = m] /\ ledger'[s] = m
      /\ \A t \in Session : t # s => ledger'[t] = ledger[t]
  BY <1>1 DEF Kept, IInv, Core, Inner
<1>5. /\ m \in [kind : {"none", "started", "closed"}, rows : Nat]
      /\ m.kind # "none" /\ m.rows <= rowCount[s]
      /\ m.kind = "closed" /\ life # "stopped" =>
           m.rows = rowCount[s] /\ (old.kind = "closed" \/ event.kind = "closed")
      /\ event.kind = "started" /\ old.kind # "closed" => m.kind = "started"
  <2>1. CASE old.kind = "closed" /\ event.kind = "started"
    <3>1. m = old
      BY <2>1 DEF Merge
    <3> QED
      BY <1>2, <2>1, <3>1
  <2>2. CASE ~(old.kind = "closed" /\ event.kind = "started")
    <3>1. m = [kind |-> event.kind, rows |-> IF old.rows > event.rows THEN old.rows ELSE event.rows]
      BY <2>2, Zenon DEF Merge
    <3> QED
      BY <1>1, <1>2, <1>3, <2>2, <3>1
  <2> QED
    BY <2>1, <2>2
<1>6. ledger' \in [Session -> [kind : {"none", "started", "closed"}, rows : Nat]]
  BY <1>4, <1>5 DEF IInv, Core, Inner
<1> QED
  BY <1>4, <1>5, <1>6 DEF LedgerStep

LEMMA SettlesStep ==
  ASSUME IInv, audits # <<>>, Settles
  PROVE  LedgerStep /\ audits' = Tail(audits)
<1>1. event \in Audit /\ event.session \in Session
  BY Leading DEF Audit
<1>2. CASE Kept
  BY <1>2, KeptStep DEF Settles
<1>3. CASE UNCHANGED ledger
  BY <1>1, <1>3 DEF Settles, LedgerStep, IInv, Core, Inner, SessionFits
<1> QED
  BY <1>2, <1>3 DEF Settles

\* The first event is settled and its waiter goes on.
LEMMA SettledKeeps ==
  ASSUME IInv, audits # <<>>, Settles,
         UNCHANGED <<life, used, active, summary, timers, rearmed, rowCount, published, rejected, accepted>>,
         \/ opening' = opening
         \/ opening' = None /\ (event.waiter \in {"open", "withdraw"} \/ opening \in accepted),
         \/ closer' = closer
         \/ event.waiter = "close" /\ closer' = [closer EXCEPT ![event.session] = "done"],
         \/ UNCHANGED <<chain, rowStep>>
         \/ event.waiter = "row" /\ NextRow(event.session)
  PROVE  Core'
<1>1. /\ event \in Audit /\ event \in FitEvents /\ EventFits(event) /\ event.session \in Session
      /\ event.kind \in {"started", "closed"}
      /\ event.waiter \in {"open", "withdraw", "row", "close", "nobody"}
  BY Leading DEF FitEvents, Audit
<1>2. LedgerStep /\ audits' = Tail(audits)
  BY SettlesStep
<1>3. /\ chain' \in [Session -> Seq({"row", "summary"})]
      /\ rowStep' \in [Session -> {"waiting", "publishing", "auditing"}]
      /\ \A t \in Session : rowStep'[t] # "waiting" => chain'[t] # <<>>
      /\ \A t \in Session : ~(event.waiter = "row" /\ t = event.session) =>
                              chain'[t] = chain[t] /\ rowStep'[t] = rowStep[t]
      /\ \A t \in Session : chain'[t] # chain[t] => t = event.session /\ event.waiter = "row"
  <2>1. \A t \in Session : rowStep[t] # "waiting" => chain[t] # <<>>
    BY DEF IInv, Core, SessionFits
  <2>2. CASE UNCHANGED <<chain, rowStep>>
    BY <2>1, <2>2 DEF IInv, Core, Inner
  <2>3. CASE event.waiter = "row" /\ NextRow(event.session)
    <3>1. Row(event.session)
      BY <1>1, <2>1, <2>3 DEF EventFits, Row
    <3> QED
      BY <1>1, <2>1, <2>3, <3>1, NextRowKeeps
  <2> QED
    BY <2>2, <2>3
<1>4. /\ closer' \in [Session -> {"none", "draining", "summing", "auditing", "done"}]
      /\ \A t \in Session : \/ closer'[t] = closer[t]
                            \/ /\ t = event.session /\ event.waiter = "close"
                               /\ closer[t] = "auditing" /\ closer'[t] = "done"
  BY <1>1 DEF EventFits, IInv, Core, Inner
<1>5. \A d \in FitEvents : ~Clash(event, d) => d \in FitEvents'
  <2> SUFFICES ASSUME NEW d \in Audit, EventFits(d), ~Clash(event, d) PROVE EventFits(d)'
    BY DEF FitEvents
  <2>1. d.session \in Session /\ d.waiter \in {"open", "withdraw", "row", "close", "nobody"}
    BY DEF Audit
  <2>2. CASE d.waiter \in {"open", "withdraw"}
    <3>1. opening' = opening
      BY <2>2 DEF Clash, EventFits
    <3>2. d.waiter = "open" => ledger'[d.session] = ledger[d.session]
      BY <1>2, <2>1, <2>2 DEF Clash, LedgerStep
    <3> QED
      BY <2>2, <3>1, <3>2 DEF EventFits
  <2>3. CASE d.waiter = "row"
    <3>1. rowStep'[d.session] = rowStep[d.session]
      BY <1>3, <2>1, <2>3 DEF Clash
    <3> QED
      BY <2>3, <3>1 DEF EventFits
  <2>4. CASE d.waiter = "close"
    <3>1. closer'[d.session] = closer[d.session]
      BY <1>4, <2>1, <2>4 DEF Clash
    <3> QED
      BY <2>4, <3>1 DEF EventFits
  <2>5. CASE d.waiter = "nobody"
    BY <2>5 DEF EventFits
  <2> QED
    BY <2>1, <2>2, <2>3, <2>4, <2>5
<1>6. audits' \in Seq(Audit) /\ EventsFit' /\ Apart(audits)'
  BY <1>2, <1>5, AuditsSettled
<1>7. Inner'
  BY <1>2, <1>3, <1>4, <1>6 DEF IInv, Core, Inner, LedgerStep
<1>8. ActiveFits'
  BY DEF IInv, Core, ActiveFits
<1>9. ASSUME NEW t \in Session PROVE SessionFits(t)'
  <2>0. SessionFits(t) /\ handoverPaused' = handoverPaused
    BY DEF IInv, Core, handoverPaused
  <2>1. /\ ledger[t].kind # "none" => ledger'[t].kind # "none"
        /\ t > used => ledger'[t].kind = "none"
        /\ ledger'[t].rows <= rowCount[t]
        /\ ledger'[t].kind = "closed" /\ life # "stopped" =>
             ledger'[t].rows = rowCount[t] /\ (t \in accepted => closer'[t] \in {"auditing", "done"})
    <3>1. CASE t # event.session
      BY <1>2, <1>4, <2>0, <3>1 DEF LedgerStep, SessionFits
    <3>2. CASE t = event.session
      <4>1. ~(t > used)
        BY <1>1, <3>2, Constants DEF EventFits, IInv, Core, Inner
      <4>2. event.kind = "closed" /\ life # "stopped" /\ t \in accepted => closer[t] = "auditing"
        BY <1>1, <3>2 DEF EventFits
      <4> QED
        BY <1>2, <1>4, <2>0, <3>2, <4>1, <4>2 DEF LedgerStep, SessionFits
    <3> QED
      BY <3>1, <3>2
  <2>2. chain'[t] # chain[t] => t \in accepted /\ closer'[t] \notin {"auditing", "done"}
    <3> SUFFICES ASSUME chain'[t] # chain[t]
                 PROVE  t \in accepted /\ closer'[t] \notin {"auditing", "done"}
      OBVIOUS
    <3>1. t = event.session /\ event.waiter = "row"
      BY <1>3
    <3>2. t \in accepted /\ rowStep[t] = "auditing"
      BY <1>1, <3>1 DEF EventFits
    <3>3. closer'[t] = closer[t]
      BY <1>4, <3>1
    <3> QED
      BY <2>0, <3>2, <3>3 DEF SessionFits
  <2>3. /\ closer[t] \in {"none", "draining", "summing"} <=> closer'[t] \in {"none", "draining", "summing"}
        /\ closer[t] = "none" <=> closer'[t] = "none"
        /\ closer'[t] \in {"auditing", "done"} => closer[t] \in {"auditing", "done"}
    BY <1>4
  <2> QED
    BY <1>3, <2>0, <2>1, <2>2, <2>3 DEF SessionFits
<1> QED
  BY <1>6, <1>7, <1>8, <1>9 DEF Core

\* The opening that the first event belongs to.
LEMMA OpeningEvent ==
  ASSUME IInv, Waiting("open")
  PROVE  /\ audits # <<>> /\ event \in FitEvents /\ event \in Audit /\ event.session \in Session
         /\ event.session = opening /\ event.session \notin accepted /\ active = None
         /\ event.session <= used /\ event.kind = "started"
         /\ ledger[event.session].kind = "none"
         /\ rowCount[event.session] = 0 /\ published[event.session] = 0
         /\ closer[event.session] = "none" /\ chain[event.session] = <<>>
         /\ timers[event.session] = {}
         /\ \A d \in FitEvents : ~Clash(event, d) =>
              d.waiter \in {"row", "close", "nobody"} /\ d.session # event.session
<1>1. audits # <<>> /\ event.waiter = "open"
  BY DEF Waiting
<1>2. event \in FitEvents /\ event \in Audit /\ EventFits(event) /\ event.session \in Session
  BY <1>1, Leading DEF FitEvents, Audit
<1>3. /\ event.session = opening /\ event.session \notin accepted /\ active = None
      /\ event.session <= used /\ event.kind = "started" /\ ledger[event.session].kind = "none"
  BY <1>1, <1>2 DEF EventFits
<1>4. /\ closer[event.session] = "none" /\ chain[event.session] = <<>>
      /\ timers[event.session] = {} /\ published[event.session] = 0
      /\ rowCount[event.session] = 0
  BY <1>2, <1>3 DEF IInv, Core, Inner, SessionFits
<1>5. \A d \in FitEvents : ~Clash(event, d) =>
        d.waiter \in {"row", "close", "nobody"} /\ d.session # event.session
  BY <1>1 DEF Clash, FitEvents, Audit
<1> QED
  BY <1>1, <1>2, <1>3, <1>4, <1>5

LEMMA SessionWithdrawnKeeps == ASSUME IInv, SessionWithdrawn PROVE Core'
<1>a. PICK e : e = Event(event.session, "closed", 0, "withdraw")
  OBVIOUS
<1>b. PICK s : s = event.session
  OBVIOUS
<1>1. /\ Waiting("open") /\ Kept /\ audits' = Append(Tail(audits), e)
      /\ UNCHANGED <<life, opening, used, active, closer, summary, timers, rearmed, chain, rowStep, rowCount,
                     published, rejected, accepted>>
  BY <1>a DEF SessionWithdrawn, given, opens, closings, rows, tally
<1>2. /\ audits # <<>> /\ s \in Session /\ s = opening /\ s \notin accepted /\ active = None
      /\ s <= used /\ event.kind = "started" /\ ledger[s].kind = "none"
      /\ rowCount[s] = 0 /\ published[s] = 0 /\ event \in FitEvents
      /\ \A d \in FitEvents : ~Clash(event, d) =>
           d.waiter \in {"row", "close", "nobody"} /\ d.session # s
  BY <1>1, <1>b, OpeningEvent
<1>3. LedgerStep /\ ledger'[s].kind = "started"
  BY <1>1, <1>2, <1>b, KeptStep
<1>4. e \in Audit /\ e.session = s /\ e.kind = "closed" /\ e.rows = 0 /\ e.waiter = "withdraw"
  BY <1>a, <1>b, <1>2 DEF Event, Audit
<1>5. e \in FitEvents'
  <2>1. EventFits(e)'
    BY <1>1, <1>2, <1>4 DEF EventFits
  <2> QED
    BY <1>4, <2>1 DEF FitEvents
<1>6. \A d \in FitEvents : ~Clash(event, d) => d \in FitEvents' /\ ~Clash(d, e)
  <2> SUFFICES ASSUME NEW d \in Audit, EventFits(d), d \in FitEvents, ~Clash(event, d)
               PROVE  EventFits(d)' /\ ~Clash(d, e)
    BY DEF FitEvents
  <2>1. d.waiter \in {"row", "close", "nobody"} /\ d.session # s
    BY <1>2
  <2>2. EventFits(d)'
    BY <1>1, <2>1 DEF EventFits
  <2> QED
    BY <1>4, <2>1, <2>2 DEF Clash
<1>7. audits' \in Seq(Audit) /\ EventsFit' /\ Apart(audits)'
  BY <1>1, <1>2, <1>4, <1>5, <1>6, AuditsReplaced
<1>8. Inner' /\ ActiveFits'
  BY <1>1, <1>3, <1>7 DEF IInv, Core, Inner, ActiveFits, LedgerStep
<1>9. ASSUME NEW t \in Session PROVE SessionFits(t)'
  <2>0. SessionFits(t) /\ handoverPaused' = handoverPaused
    BY <1>1 DEF IInv, Core, handoverPaused
  <2>1. CASE t # s
    <3>1. ledger'[t] = ledger[t]
      BY <1>3, <1>b, <2>1 DEF LedgerStep
    <3> QED
      BY <1>1, <2>0, <3>1 DEF SessionFits
  <2>2. CASE t = s
    <3>1. ledger'[t].rows <= rowCount[t] /\ ~(t > used)
      BY <1>2, <1>3, <1>b, <2>2, Constants DEF LedgerStep, IInv, Core, Inner
    <3> QED
      BY <1>1, <1>2, <1>3, <2>0, <2>2, <3>1 DEF SessionFits
  <2> QED
    BY <2>1, <2>2
<1> QED
  BY <1>7, <1>8, <1>9 DEF Core

LEMMA SessionActivatedKeeps == ASSUME IInv, SessionActivated PROVE Core'
<1>b. PICK s : s = event.session
  OBVIOUS
<1>1. /\ Waiting("open") /\ Kept /\ audits' = Tail(audits) /\ ~stopped
      /\ active' = s /\ accepted' = accepted \cup {s}
      /\ UNCHANGED <<life, used, rearmed, chain, rowStep, rowCount, published, rejected>>
  BY <1>b DEF SessionActivated, given, rows, tally
<1>2. /\ audits # <<>> /\ s \in Session /\ s = opening /\ s \notin accepted /\ active = None
      /\ s <= used /\ event.kind = "started" /\ ledger[s].kind = "none"
      /\ rowCount[s] = 0 /\ published[s] = 0 /\ closer[s] = "none" /\ chain[s] = <<>>
      /\ timers[s] = {} /\ life # "stopped"
      /\ \A d \in FitEvents : ~Clash(event, d) =>
           d.waiter \in {"row", "close", "nobody"} /\ d.session # s
  BY <1>1, <1>b, OpeningEvent DEF stopped
<1>3. LedgerStep /\ ledger'[s].kind = "started"
  BY <1>1, <1>2, <1>b, KeptStep
<1>4. /\ closer' \in [Session -> {"none", "draining", "summing", "auditing", "done"}]
      /\ summary' \in [Session -> BOOLEAN]
      /\ timers' \in [Session -> SUBSET {"interval", "timeout"}]
      /\ opening' \in {opening, None}
      /\ closer'[s] \in {"none", "draining"}
      /\ timers'[s] # {} => ~handoverPaused /\ closer'[s] = "none"
      /\ \A t \in Session : t # s => closer'[t] = closer[t] /\ timers'[t] = timers[t]
  <2>1. CASE hasMode("singleShot")
    <3>1. /\ opening' = opening /\ timers' = timers
          /\ closer' = [closer EXCEPT ![s] = "draining"]
          /\ summary' = [summary EXCEPT ![s] = TRUE]
      BY <1>b, <2>1, Zenon DEF SessionActivated
    <3> QED
      BY <1>2, <3>1 DEF IInv, Core, Inner
  <2>2. CASE ~hasMode("singleShot")
    <3>1. /\ opening' = None /\ closer' = closer /\ summary' = summary
          /\ timers' = armSessionTimers(s)
      BY <1>b, <2>2, Zenon DEF SessionActivated
    <3>2. Configured \in SUBSET {"interval", "timeout"}
      BY DEF Configured
    <3>3. timers' \in [Session -> SUBSET {"interval", "timeout"}]
          /\ (timers'[s] # {} => ~handoverPaused)
          /\ \A t \in Session : t # s => timers'[t] = timers[t]
      BY <1>2, <3>1, <3>2 DEF armSessionTimers, IInv, Core, Inner
    <3> QED
      BY <1>2, <3>1, <3>3 DEF IInv, Core, Inner
  <2> QED
    BY <2>1, <2>2
<1>5. \A d \in FitEvents : ~Clash(event, d) => d \in FitEvents'
  <2> SUFFICES ASSUME NEW d \in Audit, EventFits(d), d \in FitEvents, ~Clash(event, d)
               PROVE  EventFits(d)'
    BY DEF FitEvents
  <2>1. d.waiter \in {"row", "close", "nobody"} /\ d.session # s /\ d.session \in Session
    BY <1>2 DEF Audit
  <2>2. closer'[d.session] = closer[d.session]
    BY <1>4, <2>1
  <2> QED
    BY <1>1, <2>1, <2>2 DEF EventFits
<1>6. audits' \in Seq(Audit) /\ EventsFit' /\ Apart(audits)'
  BY <1>1, <1>2, <1>5, AuditsSettled
<1>7. Inner' /\ ActiveFits'
  BY <1>1, <1>2, <1>3, <1>4, <1>6 DEF IInv, Core, Inner, ActiveFits, LedgerStep
<1>8. ASSUME NEW t \in Session PROVE SessionFits(t)'
  <2>0. SessionFits(t) /\ handoverPaused' = handoverPaused
    BY <1>1 DEF IInv, Core, handoverPaused
  <2>1. CASE t # s
    <3>1. ledger'[t] = ledger[t] /\ closer'[t] = closer[t] /\ timers'[t] = timers[t]
      BY <1>3, <1>4, <1>b, <2>1 DEF LedgerStep
    <3>2. t # active
      BY <1>2, Constants
    <3> QED
      BY <1>1, <1>2, <2>0, <2>1, <3>1, <3>2 DEF SessionFits
  <2>2. CASE t = s
    <3>1. ledger'[t].rows <= rowCount[t] /\ ~(t > used)
      BY <1>2, <1>3, <1>b, <2>2, Constants DEF LedgerStep, IInv, Core, Inner
    <3> QED
      BY <1>1, <1>2, <1>3, <1>4, <2>0, <2>2, <3>1 DEF SessionFits
  <2> QED
    BY <2>1, <2>2
<1> QED
  BY <1>6, <1>7, <1>8 DEF Core

LEMMA AuditsStep == ASSUME IInv, Audits PROVE Core'
<1>1. CASE SessionWithdrawn
  BY <1>1, SessionWithdrawnKeeps
<1>2. CASE SessionActivated
  BY <1>2, SessionActivatedKeeps
<1>3. CASE WithdrawalEnds \/ OpeningFails
  BY <1>3, SettledKeeps DEF WithdrawalEnds, OpeningFails, Waiting, given, closings, rows, tally
<1>4. CASE RowAudited
  BY <1>4, SettledKeeps DEF RowAudited, Waiting, given, opens, closings, tally
<1>5. CASE StopAudited
  BY <1>5, SettledKeeps DEF StopAudited, Waiting, given, opens, closings, rows, tally
<1>6. CASE CloseAudited
  <2>1. /\ audits # <<>> /\ event.waiter = "close" /\ Settles
        /\ closer' = [closer EXCEPT ![event.session] = "done"]
        /\ opening' = IF opening = event.session THEN None ELSE opening
        /\ UNCHANGED <<life, used, active, summary, timers, rearmed, rowCount, published, rejected, accepted,
                       chain, rowStep>>
    BY <1>6 DEF CloseAudited, Waiting, given, rows, tally
  <2>2. event.session \in accepted
    BY <2>1, Leading DEF FitEvents, EventFits
  <2>3. opening' = opening \/ (opening' = None /\ opening \in accepted)
    BY <2>1, <2>2
  <2> QED
    BY <2>1, <2>3, SettledKeeps
<1> QED
  BY <1>1, <1>2, <1>3, <1>4, <1>5, <1>6 DEF Audits

-----------------------------------------------------------------------------
(* The steps that begin a close, open a session, or touch only the timers. *)

Armed == [Session -> SUBSET {"interval", "timeout"}]

LEMMA CloseSessionKeeps ==
  ASSUME IInv, active # None, NEW publishSummary \in BOOLEAN, NEW armed \in Armed,
         \A s \in Session : armed[s] \subseteq timers[s],
         CloseSession(active, publishSummary, armed),
         UNCHANGED <<life, opens, active, rows, outbox>>
  PROVE  Core'
<1>1. active \in Session /\ timers \in Armed /\ summary \in [Session -> BOOLEAN]
  BY DEF IInv, Core, Inner, Armed
<1>2. /\ handoverPaused' = handoverPaused /\ accepted' = accepted
      /\ rearmed' = rearmed /\ rearmed \subseteq Session
  BY DEF handoverPaused, CloseSession, IInv, Core, Inner
<1>3. CASE /\ closer[active] = "none"
           /\ closer' = [closer EXCEPT ![active] = "draining"]
           /\ summary' = [summary EXCEPT ![active] = publishSummary]
           /\ timers' = clearSessionTimers(armed, active)
  <2>1. timers' \in Armed /\ summary' \in [Session -> BOOLEAN]
        /\ timers'[active] = {} /\ \A s \in Session : timers'[s] \subseteq timers[s]
    BY <1>1, <1>3 DEF clearSessionTimers, Armed
  <2> QED
    BY <1>2, <1>3, <2>1, QuietKeeps DEF Armed
<1>4. CASE timers' = armed /\ closer' = closer /\ summary' = summary
  BY <1>1, <1>2, <1>4, QuietKeeps DEF Armed
<1> QED
  BY <1>3, <1>4, Zenon DEF CloseSession

\* A step that leaves the sessions alone, whatever surrounds them.
LEMMA SessionsKept ==
  ASSUME IInv, UNCHANGED <<opens, active, closings, rows, outbox, accepted>>,
         life' = "stopped" <=> life = "stopped", handoverPaused' => handoverPaused
  PROVE  Core'
<1>1. /\ timers' \in [Session -> SUBSET {"interval", "timeout"}] /\ summary' \in [Session -> BOOLEAN]
      /\ closer' = closer /\ timers' = timers /\ rearmed' = rearmed /\ rearmed \subseteq Session
  BY DEF IInv, Core, Inner, closings
<1> QED
  BY <1>1, QuietKeeps

\* A session that is opened, if it may be.
LEMMA OpenSessionKeeps ==
  ASSUME IInv, NEW eligible \in BOOLEAN, OpenSession(eligible), UNCHANGED <<active, closings, rows>>,
         life' = "stopped" <=> life = "stopped", handoverPaused' => handoverPaused
  PROVE  Core'
<1>1. Opens \/ UNCHANGED <<opens, outbox, accepted>>
  BY OpenSessionOpens
<1>2. CASE Opens
  BY <1>2, OpensKeeps
<1>3. CASE UNCHANGED <<opens, outbox, accepted>>
  BY <1>3, SessionsKept
<1> QED
  BY <1>1, <1>2, <1>3

LEMMA StartedKeeps == ASSUME IInv, Started PROVE Core'
<1>1. /\ life = "starting" /\ life' = "running"
      /\ timers' = IF active = None THEN timers ELSE armSessionTimers(active)
      /\ rearmed' = rearmed \cup {s \in Session : active = s /\ closer[s] # "none"}
      /\ UNCHANGED <<active, closer, summary, rows>>
      /\ OpenSession(registered /\ capture.alwaysOn /\ "stop" \notin value)
  BY DEF Started, OpenAlwaysOn
<1>2. ~handoverPaused /\ ~handoverPaused'
  BY <1>1 DEF handoverPaused
<1>3. CASE active = None
  <2>1. UNCHANGED <<active, closings, rows>>
    BY <1>1, <1>3, Constants DEF closings
  <2>2. (registered /\ capture.alwaysOn /\ "stop" \notin value) \in BOOLEAN
    BY Zenon
  <2> QED
    BY <1>1, <1>2, <2>1, <2>2, OpenSessionKeeps
<1>4. CASE active # None
  <2>1. UNCHANGED <<opens, outbox, accepted>>
    BY <1>1, <1>4, Zenon DEF OpenSession, MayOpen
  <2>2. UNCHANGED <<opening, used, active, closer, summary, chain, rowStep, rowCount, published,
                    rejected, audits, ledger, accepted>>
    BY <1>1, <2>1 DEF opens, outbox, rows, tally
  <2>3. active \in Session /\ active \in accepted /\ active <= used
    BY <1>4 DEF IInv, Core, Inner, ActiveFits, SessionFits
  <2>4. Configured \in SUBSET {"interval", "timeout"}
    BY DEF Configured
  <2>5. /\ timers' \in [Session -> SUBSET {"interval", "timeout"}]
        /\ rearmed' \subseteq Session /\ rearmed \subseteq rearmed'
        /\ closer[active] # "none" => active \in rearmed'
        /\ \A s \in Session : s # active => timers'[s] = timers[s]
    BY <1>1, <1>4, <2>3, <2>4 DEF armSessionTimers, IInv, Core, Inner
  <2>6. Inner'
    BY <2>2, <2>5 DEF IInv, Core, Inner
  <2>7. ActiveFits' /\ EventsFit' /\ Apart(audits)'
    BY <1>1, <2>2 DEF IInv, Core, ActiveFits, EventsFit, Apart, FitEvents, EventFits
  <2>8. ASSUME NEW s \in Session PROVE SessionFits(s)'
    <3>1. SessionFits(s)
      BY DEF IInv, Core
    <3>2. CASE s = active
      BY <1>1, <1>2, <2>2, <2>3, <2>5, <3>1, <3>2 DEF SessionFits
    <3>3. CASE s # active
      BY <1>1, <1>2, <2>2, <2>5, <3>1, <3>3 DEF SessionFits
    <3> QED
      BY <3>2, <3>3
  <2> QED
    BY <2>6, <2>7, <2>8 DEF Core
<1> QED
  BY <1>3, <1>4

LEMMA ControlsStep == ASSUME IInv, Controls PROVE Core'
<1>1. CASE Start
  BY <1>1, SessionsKept DEF Start, sessions, handoverPaused
<1>2. CASE Started
  BY <1>2, StartedKeeps
<1>3. CASE Stop
  BY <1>3, StopKeeps
<1>4. CASE PauseForHandover
  <2>1. /\ life = "running" /\ life' = "released"
        /\ UNCHANGED <<opens, active, closer, summary, rearmed, rows, outbox, accepted>>
        /\ \/ active # None /\ timers' = clearSessionTimers(timers, active)
           \/ active = None /\ UNCHANGED timers
    BY <1>4 DEF PauseForHandover
  <2>2. /\ timers' \in [Session -> SUBSET {"interval", "timeout"}]
        /\ summary' \in [Session -> BOOLEAN] /\ rearmed' = rearmed /\ rearmed \subseteq Session
        /\ \A s \in Session : timers'[s] \subseteq timers[s]
    BY <2>1 DEF clearSessionTimers, IInv, Core, Inner
  <2>3. \A s \in Session : timers'[s] # {} => s \in rearmed
    <3> SUFFICES ASSUME NEW s \in Session, s \notin rearmed, timers'[s] # {} PROVE FALSE
      OBVIOUS
    <3>1. timers[s] # {} /\ SessionFits(s) /\ s # None
      BY <2>2, Constants DEF IInv, Core
    <3>2. active = s
      BY <3>1 DEF SessionFits
    <3> QED
      BY <2>1, <3>1, <3>2 DEF clearSessionTimers, IInv, Core, Inner
  <2> QED
    BY <2>1, <2>2, <2>3, QuietKeeps
<1>5. CASE WorkDrained \/ Drained
  BY <1>5, SessionsKept DEF WorkDrained, Drained, sessions, handoverPaused
<1>6. CASE Handover
  <2>1. /\ life = "drained" /\ life' = "prepared" /\ timers' = [s \in Session |-> {}]
        /\ rearmed' = {}
        /\ UNCHANGED <<opens, active, closer, summary, rows, outbox, accepted>>
    BY <1>6 DEF Handover
  <2>2. /\ timers' \in [Session -> SUBSET {"interval", "timeout"}]
        /\ summary' \in [Session -> BOOLEAN] /\ rearmed' \subseteq Session
        /\ \A s \in Session : timers'[s] = {}
    BY <2>1 DEF IInv, Core, Inner
  <2> QED
    BY <2>1, <2>2, QuietKeeps
<1> QED
  BY <1>1, <1>2, <1>3, <1>4, <1>5, <1>6 DEF Controls

LEMMA UnregisteredKeeps ==
  ASSUME IInv, NEW publishSummary \in BOOLEAN, Unregistered(publishSummary)
  PROVE  Core'
<1>1. UNCHANGED <<life, opens, active, rows, outbox>>
  BY DEF Unregistered
<1>2. CASE active # None /\ CloseSession(active, publishSummary, timers)
  <2>1. timers \in Armed /\ \A s \in Session : timers[s] \subseteq timers[s]
    BY DEF IInv, Core, Inner, Armed
  <2> QED
    BY <1>1, <1>2, <2>1, CloseSessionKeeps
<1>3. CASE active = None /\ UNCHANGED <<closings, accepted>>
  BY <1>1, <1>3, SessionsKept DEF handoverPaused
<1> QED
  BY <1>2, <1>3 DEF Unregistered

LEMMA RegistryStep == ASSUME IInv, Registry PROVE Core'
<1>1. CASE RefreshEnabled
  <2>1. UNCHANGED <<life, active, closings, rows>>
        /\ OpenSession(TRUE /\ capture.alwaysOn /\ "stop" \notin value)
    BY <1>1 DEF RefreshEnabled, OpenAlwaysOn
  <2>2. (TRUE /\ capture.alwaysOn /\ "stop" \notin value) \in BOOLEAN
    BY Zenon
  <2> QED
    BY <2>1, <2>2, OpenSessionKeeps DEF handoverPaused
<1>2. CASE RefreshDisabled
  <2>1. hasMode("summary") \in BOOLEAN
    BY DEF hasMode
  <2> QED
    BY <1>2, <2>1, UnregisteredKeeps DEF RefreshDisabled
<1>3. CASE AuthorizationLost
  BY <1>3, UnregisteredKeeps DEF AuthorizationLost
<1>4. CASE RefreshFails
  BY <1>4, SessionsKept DEF RefreshFails, sessions, handoverPaused
<1> QED
  BY <1>1, <1>2, <1>3, <1>4 DEF Registry

LEMMA EvaluateKeeps == ASSUME IInv, Evaluate PROVE Core'
<1>1. UNCHANGED <<life, active>> /\ handoverPaused' = handoverPaused
  BY DEF Evaluate, handoverPaused
<1>2. CASE EvaluateCloses
  <2>1. hasMode("summary") \in BOOLEAN
    BY DEF hasMode
  <2>2. timers \in Armed /\ \A s \in Session : timers[s] \subseteq timers[s]
    BY DEF IInv, Core, Inner, Armed
  <2>3. /\ active # None /\ CloseSession(active, hasMode("summary"), timers)
        /\ UNCHANGED <<opens, rows, outbox>>
    BY <1>2 DEF EvaluateCloses
  <2> QED
    BY <1>1, <2>1, <2>2, <2>3, CloseSessionKeeps
<1>3. CASE EvaluateOpens
  <2> DEFINE eligible == /\ ~stopped /\ registered
                         /\ StartRise \/ (capture.alwaysOn /\ "stop" \notin value)
  <2>1. eligible \in BOOLEAN
    BY Zenon
  <2>2. OpenSession(eligible) /\ UNCHANGED <<rows, closings>>
    BY <1>3 DEF EvaluateOpens
  <2> QED
    BY <1>1, <2>1, <2>2, OpenSessionKeeps
<1>4. CASE EvaluateRow
  <2>1. active # None /\ UNCHANGED <<opens, outbox, closings, accepted>>
        /\ (AcceptRow(active) \/ UNCHANGED rows)
    BY <1>4 DEF EvaluateRow
  <2>2. AcceptRow(active)
    BY <2>1 DEF AcceptRow
  <2> QED
    BY <1>1, <2>1, <2>2, AcceptRowKeeps
<1> QED
  BY <1>2, <1>3, <1>4 DEF Evaluate

LEMMA InputsStep == ASSUME IInv, Inputs PROVE Core'
<1>1. CASE \E v \in Values : Message(v)
  <2>1. UNCHANGED <<life, opens, active, closings, rows, outbox, accepted>>
    BY <1>1 DEF Message
  <2> QED
    BY <2>1, SessionsKept DEF handoverPaused
<1>2. CASE Evaluate
  BY <1>2, EvaluateKeeps
<1>3. CASE TriggerStops
  <2>1. hasMode("summary") \in BOOLEAN
    BY DEF hasMode
  <2>2. timers \in Armed /\ \A s \in Session : timers[s] \subseteq timers[s]
    BY DEF IInv, Core, Inner, Armed
  <2>3. /\ active # None /\ CloseSession(active, hasMode("summary"), timers)
        /\ UNCHANGED <<life, opens, active, rows, outbox>>
    BY <1>3 DEF TriggerStops, given
  <2> QED
    BY <2>1, <2>2, <2>3, CloseSessionKeeps
<1>4. CASE TriggerStarts
  <2>1. OpenSession(~stopped) /\ UNCHANGED <<life, active, closings, rows>>
    BY <1>4 DEF TriggerStarts, given
  <2>2. (~stopped) \in BOOLEAN
    BY Zenon
  <2> QED
    BY <2>1, <2>2, OpenSessionKeeps DEF handoverPaused
<1>5. ASSUME NEW s \in Session, IntervalFires(s) PROVE Core'
  <2>1. /\ active # None /\ AcceptRow(active)
        /\ UNCHANGED <<life, opens, active, closings, outbox, accepted>>
    BY <1>5 DEF IntervalFires, given
  <2> QED
    BY <2>1, AcceptRowKeeps
<1>6. ASSUME NEW s \in Session, TimeoutFires(s) PROVE Core'
  <2>1. /\ UNCHANGED <<life, opens, active, rows, outbox>>
        /\ \/ active # None /\ CloseSession(active, hasMode("summary"), Fired(s))
           \/ active = None /\ timers' = Fired(s) /\ UNCHANGED <<closer, summary, rearmed, accepted>>
    BY <1>6 DEF TimeoutFires, given
  <2>2. Fired(s) \in Armed /\ \A t \in Session : Fired(s)[t] \subseteq timers[t]
    BY DEF Fired, Armed, IInv, Core, Inner
  <2>3. CASE active # None /\ CloseSession(active, hasMode("summary"), Fired(s))
    <3>1. hasMode("summary") \in BOOLEAN
      BY DEF hasMode
    <3> QED
      BY <2>1, <2>2, <2>3, <3>1, CloseSessionKeeps
  <2>4. CASE active = None /\ timers' = Fired(s) /\ UNCHANGED <<closer, summary, rearmed, accepted>>
    <3>1. /\ handoverPaused' = handoverPaused /\ summary' \in [Session -> BOOLEAN]
          /\ rearmed' = rearmed /\ rearmed \subseteq Session
      BY <2>1, <2>4 DEF handoverPaused, IInv, Core, Inner
    <3> QED
      BY <2>1, <2>2, <2>4, <3>1, QuietKeeps DEF Armed
  <2> QED
    BY <2>1, <2>3, <2>4
<1> QED
  BY <1>1, <1>2, <1>3, <1>4, <1>5, <1>6 DEF Inputs

LEMMA CoreStep == ASSUME IInv, [Next]_vars PROVE Core'
<1>1. CASE Controls
  BY <1>1, ControlsStep
<1>2. CASE Registry
  BY <1>2, RegistryStep
<1>3. CASE StorageChanges
  BY <1>3, SessionsKept DEF StorageChanges, sessions, handoverPaused
<1>4. CASE Inputs
  BY <1>4, InputsStep
<1>5. ASSUME NEW s \in Session, Rows(s) \/ Closing(s) PROVE Core'
  BY <1>5, RowsStep, SummaryAcceptedKeeps, SessionDeletedKeeps DEF Closing
<1>6. CASE Audits
  BY <1>6, AuditsStep
<1>7. CASE UNCHANGED vars
  BY <1>7, SessionsKept DEF vars, given, handoverPaused
<1> QED
  BY <1>1, <1>2, <1>3, <1>4, <1>5, <1>6, <1>7 DEF Next

-----------------------------------------------------------------------------
(* What surrounds the sessions keeps its types.                            *)

Life == {"prepared", "starting", "running", "released", "settling", "drained", "stopped"}

LEMMA OuterKept ==
  ASSUME IInv, UNCHANGED capture, life' \in Life,
         registered' \in BOOLEAN, healthy' \in BOOLEAN, canRecord' \in BOOLEAN,
         value' \subseteq {"start", "stop"}, wasFalse' \subseteq {"start", "stop"},
         backlog' \in 0..MaxBacklog
  PROVE  Outer'
  BY DEF IInv, Outer, Life

LEMMA OuterNow ==
  ASSUME IInv
  PROVE  /\ life \in Life /\ registered \in BOOLEAN /\ healthy \in BOOLEAN /\ canRecord \in BOOLEAN
         /\ value \subseteq {"start", "stop"} /\ wasFalse \subseteq {"start", "stop"}
         /\ backlog \in 0..MaxBacklog
  BY DEF IInv, Outer, Life

LEMMA Unaffected == ASSUME IInv, UNCHANGED given PROVE Outer'
  BY OuterKept, OuterNow DEF given, outside, inputs

LEMMA ControlsOuter == ASSUME IInv, Controls PROVE Outer'
<1>1. CASE Start \/ Started \/ PauseForHandover \/ WorkDrained \/ Drained
  <2>1. UNCHANGED <<capture, outside, inputs>> /\ life' \in Life
    BY <1>1 DEF Start, Started, PauseForHandover, WorkDrained, Drained, sessions, Life
  <2> QED
    BY <2>1, OuterKept, OuterNow DEF outside, inputs
<1>2. CASE Stop
  <2>1. UNCHANGED <<capture, healthy, canRecord, inputs>> /\ life' \in Life /\ registered' \in BOOLEAN
    BY <1>2 DEF Stop, Life
  <2> QED
    BY <2>1, OuterKept, OuterNow DEF inputs
<1>3. CASE Handover
  <2>1. /\ UNCHANGED <<capture, registered, inputs>> /\ life' \in Life
        /\ healthy' \in BOOLEAN /\ canRecord' \in BOOLEAN
    BY <1>3 DEF Handover, Life
  <2> QED
    BY <2>1, OuterKept, OuterNow DEF inputs
<1> QED
  BY <1>1, <1>2, <1>3 DEF Controls

LEMMA RegistryOuter == ASSUME IInv, Registry PROVE Outer'
<1>1. CASE RefreshEnabled
  <2>1. /\ UNCHANGED <<capture, life, canRecord, inputs>>
        /\ registered' \in BOOLEAN /\ healthy' \in BOOLEAN
    BY <1>1 DEF RefreshEnabled
  <2> QED
    BY <2>1, OuterKept, OuterNow DEF inputs
<1>2. CASE RefreshDisabled \/ AuthorizationLost
  <2>1. /\ UNCHANGED <<capture, life, canRecord, inputs>>
        /\ registered' \in BOOLEAN /\ healthy' \in BOOLEAN
    BY <1>2 DEF RefreshDisabled, AuthorizationLost, Unregistered
  <2> QED
    BY <2>1, OuterKept, OuterNow DEF inputs
<1>3. CASE RefreshFails
  <2>1. UNCHANGED <<capture, life, registered, canRecord, inputs>> /\ healthy' \in BOOLEAN
    BY <1>3 DEF RefreshFails, sessions
  <2> QED
    BY <2>1, OuterKept, OuterNow DEF inputs
<1> QED
  BY <1>1, <1>2, <1>3 DEF Registry

LEMMA InputsOuter == ASSUME IInv, Inputs PROVE Outer'
<1>1. ASSUME NEW v \in Values, Message(v) PROVE Outer'
  <2>1. UNCHANGED <<capture, life, outside, wasFalse>> /\ value' \subseteq {"start", "stop"}
    BY <1>1 DEF Message, Values
  <2>2. backlog' \in 0..MaxBacklog
    <3>1. backlog \in 0..MaxBacklog /\ (backlog' = backlog \/ (backlog < MaxBacklog /\ backlog' = backlog + 1))
      BY <1>1, OuterNow DEF Message
    <3> QED
      BY <3>1, Constants
  <2> QED
    BY <2>1, <2>2, OuterKept, OuterNow DEF outside
<1>2. CASE Evaluate
  <2>1. UNCHANGED <<capture, life, outside, value>> /\ wasFalse' \subseteq {"start", "stop"}
    BY <1>2 DEF Evaluate
  <2>2. backlog' \in 0..MaxBacklog
    BY <1>2, OuterNow, Constants DEF Evaluate
  <2> QED
    BY <2>1, <2>2, OuterKept, OuterNow DEF outside
<1>3. CASE TriggerStops \/ TriggerStarts \/ \E s \in Session : IntervalFires(s) \/ TimeoutFires(s)
  BY <1>3, Unaffected DEF TriggerStops, TriggerStarts, IntervalFires, TimeoutFires
<1> QED
  BY <1>1, <1>2, <1>3 DEF Inputs

LEMMA OuterStep == ASSUME IInv, [Next]_vars PROVE Outer'
<1>1. CASE Controls \/ Registry \/ Inputs
  BY <1>1, ControlsOuter, RegistryOuter, InputsOuter
<1>2. CASE StorageChanges
  <2>1. UNCHANGED <<capture, life, registered, healthy, inputs>> /\ canRecord' \in BOOLEAN
    BY <1>2 DEF StorageChanges, sessions
  <2> QED
    BY <2>1, OuterKept, OuterNow DEF inputs
<1>3. ASSUME NEW s \in Session, Rows(s) \/ Closing(s) PROVE Outer'
  BY <1>3, Unaffected DEF Rows, RowSkipped, RowStarts, RowRejected, RowCounted,
     Closing, SummaryAccepted, SessionDeleted
<1>4. CASE Audits
  BY <1>4, Unaffected DEF Audits, SessionWithdrawn, WithdrawalEnds, SessionActivated, OpeningFails,
     RowAudited, CloseAudited, StopAudited
<1>5. CASE UNCHANGED vars
  BY <1>5, Unaffected DEF vars
<1> QED
  BY <1>1, <1>2, <1>3, <1>4, <1>5 DEF Next

-----------------------------------------------------------------------------
(* The invariant, and what follows from it.                                *)

LEMMA Step == IInv /\ [Next]_vars => IInv'
<1> SUFFICES ASSUME IInv, [Next]_vars PROVE IInv'
  OBVIOUS
<1>1. Core'
  BY CoreStep
<1>2. Outer'
  BY OuterStep
<1> QED
  BY <1>1, <1>2, Zenon DEF IInv

\* For every set of definitions and every bound, the session table and the outbox keep
\* their books: see IInv.
THEOREM Invariant == Spec => []IInv
<1> QED
  BY Initially, Step, PTL DEF Spec

\* A session that was put into activeSessions stays there until its close deletes it
\* (openSession 377-386, openSessionOnce 389-410, closeSession 480), whatever opens,
\* closes, refreshes and handovers are interleaved with its awaits.
THEOREM SessionStaysReachable == Spec => []SessionReachable
<1>1. IInv => SessionReachable
  <2> SUFFICES ASSUME IInv PROVE SessionReachable
    OBVIOUS
  <2>1. TypeOK
    BY Zenon DEF IInv, Outer, Core, Inner, TypeOK, Audit
  <2>2. \A s \in accepted : life # "stopped" /\ closer[s] = "none" => active = s
    BY DEF IInv, Core, Inner, SessionFits
  <2> QED
    BY <2>1, <2>2 DEF SessionReachable
<1> QED
  BY <1>1, Invariant, PTL

\* Whatever a session published or has on its chain, its opening checkpoint is in the
\* outbox (openSessionOnce 404-410).
THEOREM OutputIsRecorded == Spec => []OutputRecorded
<1>1. IInv => OutputRecorded
  BY DEF IInv, Core, Inner, SessionFits, OutputRecorded
<1> QED
  BY <1>1, Invariant, PTL

\* A closing checkpoint counts the rows the broker has, with any number of rows and any
\* interleaving of their publications with the close (closeSession 470-497, publishRow
\* 556-577).
THEOREM CloseIsExact == Spec => []CloseExact
<1>1. IInv => CloseExact
  BY DEF IInv, Core, Inner, SessionFits, CloseExact
<1> QED
  BY <1>1, Invariant, PTL

\* A session loses its timers when its close begins and when a handover releases the
\* process, and gets none again but by a start that finds it closing (armSessionTimers
\* 427-431, closeSession 466, pauseForHandover 143-147, start 222-224).
THEOREM TimersAreOwned == Spec => []TimersOwned
<1>1. IInv => TimersOwned
  BY DEF IInv, Core, SessionFits, TimersOwned
<1> QED
  BY <1>1, Invariant, PTL
=============================================================================
