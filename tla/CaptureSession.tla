---------------------------- MODULE CaptureSession ----------------------------
(***************************************************************************)
(* The sessions of one capture definition (src/src/captures/service.ts).   *)
(*                                                                         *)
(* Messages, trigger fires, timers and registry refreshes each run a       *)
(* handler that works on the capture's one entry in activeSessions and     *)
(* awaits audits, publications and other handlers on the way: opening a    *)
(* session awaits its opening checkpoint, rows of a session are published  *)
(* one after the other on its promise chain, and closing it awaits that    *)
(* chain, then the summary row, then the closing checkpoint.               *)
(*                                                                         *)
(* A handler runs up to its next await as one step.  The audit outbox is   *)
(* the queue of enqueued events and the entries it made of them (module    *)
(* AuditOutbox has its files, crashes and delivery); the registry and the  *)
(* broker are what the service sees of them.                               *)
(***************************************************************************)
EXTENDS Integers, Sequences

CONSTANTS
  Definitions,   \* the capture definitions considered
  MaxSessions,   \* bound: sessions opened
  MaxRows,       \* bound: rows published or waiting, per session
  MaxBacklog     \* bound: messages whose evaluation is not reached yet

Session == 1..MaxSessions
None    == 0     \* no session

Mode       == {"onChange", "interval", "summary", "singleShot"}
Definition == [alwaysOn : BOOLEAN, modes : SUBSET Mode, timeout : BOOLEAN,
               triggerStart : BOOLEAN, triggerStop : BOOLEAN]

ASSUME CaptureAssumption ==
  /\ Definitions \subseteq Definition
  /\ MaxSessions \in Nat /\ MaxRows \in Nat /\ MaxBacklog \in Nat

VARIABLES
  capture,      \* the definition; it never changes
  life,         \* the flags stopped and handoverPaused
  registered,   \* registry.list() has the capture
  healthy,      \* registry.getHealth().healthy
  canRecord,    \* the outbox can record
  value,        \* the conditions that evaluateCondition finds true now
  backlog,      \* messages whose onMessage has not reached the capture yet
  wasFalse,     \* conditionState: those the last evaluation found false
  opening,      \* the session whose opening is pending, if any
  active,       \* the session in activeSessions, if any
  used,         \* how many sessions were created
  closer,       \* where closeSession is; "none" while the session is not closing
  summary,      \* closeSession is to publish a summary row
  timers,       \* the timers that are armed for a session
  rearmed,      \* history: sessions whose timers start armed during their close
  chain,        \* publishQueue: the rows accepted and not settled
  rowStep,      \* how far the first of them got
  rowCount,
  published, rejected,  \* rows the broker has, and whether publishing one failed
  audits,       \* events on their way through the outbox, with their waiter
  ledger,       \* the outbox's entry of each session
  accepted      \* history: the sessions that were put into activeSessions

outside  == <<registered, healthy, canRecord>>
inputs   == <<value, backlog, wasFalse>>
given    == <<capture, life, outside, inputs>>
opens    == <<opening, used>>
closings == <<closer, summary, timers, rearmed>>
tally    == <<rowCount, published, rejected>>
rows     == <<chain, rowStep, tally>>
outbox   == <<audits, ledger>>
sessions == <<inputs, opens, active, closings, rows, outbox, accepted>>
vars     == <<given, opens, active, closings, rows, outbox, accepted>>

NoCheckpoint == [kind |-> "none", rows |-> 0]

stopped        == life \in {"prepared", "drained", "stopped"}
handoverPaused == life \in {"prepared", "released", "settling", "drained"}
running        == life \in {"starting", "running"}

\* A condition that waits for a trigger evaluates to false (776-809).
Values == {v \in SUBSET {"start", "stop"} :
             /\ capture.triggerStart => "start" \notin v
             /\ capture.triggerStop => "stop" \notin v}

Init ==
  /\ capture \in Definitions
  /\ life = "prepared"
  /\ registered \in BOOLEAN /\ healthy = TRUE /\ canRecord = TRUE
  /\ value \in Values
  /\ backlog = 0 /\ wasFalse = {}
  /\ opening = None /\ active = None /\ used = 0
  /\ closer = [s \in Session |-> "none"]
  /\ summary = [s \in Session |-> FALSE]
  /\ timers = [s \in Session |-> {}] /\ rearmed = {}
  /\ chain = [s \in Session |-> <<>>]
  /\ rowStep = [s \in Session |-> "waiting"]
  /\ rowCount = [s \in Session |-> 0]
  /\ published = [s \in Session |-> 0]
  /\ rejected = [s \in Session |-> FALSE]
  /\ audits = <<>>
  /\ ledger = [s \in Session |-> NoCheckpoint]
  /\ accepted = {}

-----------------------------------------------------------------------------
(* Parts of the handlers.                                                  *)

hasMode(mode) == mode \in capture.modes

Event(s, kind, n, waiter) == [session |-> s, kind |-> kind, rows |-> n, waiter |-> waiter]

emitSessionAudit(e) == audits' = Append(audits, e)

\* Mutant: a second handler opens a session while the first one awaits.
MayOpenTwice(eligible) == active = None /\ canRecord /\ eligible

\* openSession joins a pending opening; openSessionOnce's first return.
MayOpen(eligible) == opening = None /\ active = None /\ canRecord /\ eligible

\* openSession up to the await of the opening checkpoint.
OpenSession(eligible) ==
  \/ /\ MayOpen(eligible) /\ used < MaxSessions
     /\ opening' = used + 1 /\ used' = used + 1
     /\ emitSessionAudit(Event(used + 1, "started", 0, "open"))
     /\ UNCHANGED <<ledger, accepted>>
  \/ ~MayOpen(eligible) /\ UNCHANGED <<opens, outbox, accepted>>

\* openAlwaysOnSessions.
OpenAlwaysOn(eligible) ==
  OpenSession(eligible /\ capture.alwaysOn /\ "stop" \notin value)

\* Mutant: a close or a release does not clear the timers.
keepTimers(armed, s) == armed

clearSessionTimers(armed, s) == [armed EXCEPT ![s] = {}]

Configured == ({"interval"} \cap capture.modes) \cup {t \in {"timeout"} : capture.timeout}

armSessionTimers(s) == [timers EXCEPT ![s] = IF handoverPaused THEN {} ELSE Configured]

\* closeSession up to the await of the session's rows; it runs once a session.
CloseSession(s, publishSummary, armed) ==
  \/ /\ closer[s] = "none"
     /\ closer' = [closer EXCEPT ![s] = "draining"]
     /\ summary' = [summary EXCEPT ![s] = publishSummary]
     /\ timers' = clearSessionTimers(armed, s)
     /\ UNCHANGED <<rearmed, accepted>>
  \/ closer[s] # "none" /\ timers' = armed /\ UNCHANGED <<closer, summary, rearmed, accepted>>

\* publishRow up to the row's turn on the chain: a closing session takes no
\* more rows, and a row may lack a required value.
AcceptRow(s) ==
  \/ /\ closer[s] = "none" /\ published[s] + Len(chain[s]) < MaxRows
     /\ chain' = [chain EXCEPT ![s] = Append(@, "row")]
     /\ UNCHANGED <<rowStep, rowCount, published, rejected>>
  \/ UNCHANGED rows

-----------------------------------------------------------------------------
(* start, stop, pauseForHandover; the registry's refreshes.                *)

\* The flags are reset and the registry refreshes, ...
Start ==
  /\ life = "prepared"
  /\ life' = "starting"
  /\ UNCHANGED <<capture, outside, sessions>>

\* ... then the timers of the entry are armed anew, whatever became of its
\* session meanwhile, and sessions that are always on are opened.
Started ==
  /\ life = "starting"
  /\ life' = "running"
  /\ timers' = IF active = None THEN timers ELSE armSessionTimers(active)
  /\ rearmed' = rearmed \cup {s \in Session : active = s /\ closer[s] # "none"}
  /\ OpenAlwaysOn(registered)
  /\ UNCHANGED <<capture, outside, inputs, active, closer, summary, rows>>

Stop ==
  /\ life \in {"running", "released", "settling", "drained"}
  /\ life' = "stopped"
  /\ \/ /\ active # None
        /\ active' = None
        /\ timers' = clearSessionTimers(timers, active)
        /\ emitSessionAudit(Event(active, "closed", rowCount[active], "nobody"))
        /\ UNCHANGED <<closer, summary, rearmed, ledger>>
     \/ active = None /\ UNCHANGED <<active, closings, outbox>>
  /\ registered' = FALSE
  /\ UNCHANGED <<capture, healthy, canRecord, inputs, opens, rows, accepted>>

PauseForHandover ==
  /\ life = "running"
  /\ life' = "released"
  /\ \/ active # None /\ timers' = clearSessionTimers(timers, active)
     \/ active = None /\ UNCHANGED timers
  /\ UNCHANGED <<capture, outside, inputs, opens, active, closer, summary, rearmed, rows, outbox,
                 accepted>>

\* The drain awaits the messages accepted so far, the pending opening and what the
\* timers began; a session may open meanwhile and after, and a close that a refresh
\* began is not awaited, ...
WorkDrained ==
  /\ life = "released"
  /\ backlog = 0 /\ opening = None
  /\ life' = "settling"
  /\ UNCHANGED <<capture, outside, sessions>>

\* ... then the rows of the session that is open, and stops.
Drained ==
  /\ life = "settling"
  /\ active # None => chain[active] = <<>>
  /\ life' = "drained"
  /\ UNCHANGED <<capture, outside, sessions>>

\* With its outbox delivered, the process exports what it has and the prepared
\* successor imports it, if the definitions are the same; a session that is closing
\* is refused.  The ledger is what the two outboxes have together.
Handover ==
  /\ life = "drained"
  /\ backlog = 0 /\ audits = <<>>
  /\ \A s \in Session : closer[s] \in {"none", "done"} /\ chain[s] = <<>>
  /\ active # None => registered
  /\ life' = "prepared"
  /\ healthy' \in BOOLEAN /\ canRecord' \in BOOLEAN
  /\ timers' = [s \in Session |-> {}] /\ rearmed' = {}
  /\ UNCHANGED <<capture, registered, inputs, opens, active, closer, summary, rows, outbox, accepted>>

\* handleRegistryRefresh: the capture is in the authenticated snapshot, ...
RefreshEnabled ==
  /\ running
  /\ registered' = TRUE /\ healthy' = TRUE
  /\ OpenAlwaysOn(TRUE)
  /\ UNCHANGED <<capture, life, canRecord, inputs, active, closings, rows>>

Unregistered(publishSummary) ==
  /\ registered' = FALSE
  /\ \/ active # None /\ CloseSession(active, publishSummary, timers)
     \/ active = None /\ UNCHANGED <<closings, accepted>>
  /\ UNCHANGED <<capture, life, canRecord, inputs, opens, active, rows, outbox>>

\* ... it was disabled, ...
RefreshDisabled == running /\ healthy' = TRUE /\ Unregistered(hasMode("summary"))

\* ... or the credential was refused or the snapshot grew too old.
AuthorizationLost == (running \/ life \in {"released", "settling", "drained"}) /\ healthy' = FALSE /\ Unregistered(FALSE)

\* A failed refresh keeps the snapshot but not the health.
RefreshFails ==
  /\ healthy' = FALSE
  /\ UNCHANGED <<capture, life, registered, canRecord, sessions>>

\* The outbox's storage fails or recovers.
StorageChanges ==
  /\ canRecord' = ~canRecord
  /\ UNCHANGED <<capture, life, registered, healthy, sessions>>

-----------------------------------------------------------------------------
(* onMessage, onTriggerFire and the timers.                                *)

\* A message sets a last value at once; its onMessage may have to evaluate
\* other captures, and await what they publish, before it reaches this one.
Message(v) ==
  /\ value' = v
  /\ \/ registered /\ backlog < MaxBacklog /\ backlog' = backlog + 1
     \/ ~registered /\ UNCHANGED backlog
  /\ UNCHANGED <<capture, life, outside, wasFalse, opens, active, closings, rows, outbox, accepted>>

StopRise  == "stop" \in value \cap wasFalse
StartRise == "start" \in value \cap wasFalse

\* evaluateOne, up to its await: a stop edge closes, ...
EvaluateCloses ==
  /\ active # None /\ StopRise
  /\ CloseSession(active, hasMode("summary"), timers)
  /\ UNCHANGED <<opens, rows, outbox>>

\* ... without a session, a start edge or an open window opens one, ...
EvaluateOpens ==
  /\ active = None
  /\ OpenSession(/\ ~stopped /\ registered
                 /\ StartRise \/ (capture.alwaysOn /\ "stop" \notin value))
  /\ UNCHANGED <<rows, closings>>

\* ... and with a session, the message may be a driver of a row.
EvaluateRow ==
  /\ active # None /\ ~StopRise
  /\ \/ hasMode("onChange") /\ AcceptRow(active)
     \/ UNCHANGED rows
  /\ UNCHANGED <<opens, outbox, closings, accepted>>

Evaluate ==
  /\ backlog > 0
  /\ backlog' = backlog - 1
  /\ wasFalse' = {"start", "stop"} \ value
  /\ EvaluateCloses \/ EvaluateOpens \/ EvaluateRow
  /\ UNCHANGED <<capture, life, outside, value, active>>

\* evaluateTriggerFire, for a trigger of the stop condition ...
TriggerStops ==
  /\ registered /\ capture.triggerStop /\ active # None
  /\ CloseSession(active, hasMode("summary"), timers)
  /\ UNCHANGED <<given, opens, active, rows, outbox>>

\* ... and of the start condition.
TriggerStarts ==
  /\ registered /\ capture.triggerStart /\ active = None
  /\ OpenSession(~stopped)
  /\ UNCHANGED <<given, active, closings, rows>>

\* The callbacks look the session up again.
IntervalFires(s) ==
  /\ "interval" \in timers[s] /\ active # None
  /\ AcceptRow(active)
  /\ UNCHANGED <<given, opens, active, closings, outbox, accepted>>

Fired(s) == [timers EXCEPT ![s] = @ \ {"timeout"}]

TimeoutFires(s) ==
  /\ "timeout" \in timers[s]
  /\ \/ active # None /\ CloseSession(active, hasMode("summary"), Fired(s))
     \/ active = None /\ timers' = Fired(s) /\ UNCHANGED <<closer, summary, rearmed, accepted>>
  /\ UNCHANGED <<given, opens, active, rows, outbox>>

-----------------------------------------------------------------------------
(* The rows of a session, one after the other on its chain.                *)

\* A row rechecks, at its turn, whether output is still allowed; only the
\* summary of an authenticated close may come after the registration.
MayPublish(row) ==
  /\ ~stopped /\ canRecord
  /\ registered \/ (row = "summary" /\ healthy)

Row(s) == chain[s] # <<>>
NextRow(s) ==
  /\ chain' = [chain EXCEPT ![s] = Tail(@)]
  /\ rowStep' = [rowStep EXCEPT ![s] = "waiting"]

RowSkipped(s) ==
  /\ Row(s) /\ rowStep[s] = "waiting" /\ ~MayPublish(Head(chain[s]))
  /\ NextRow(s)
  /\ UNCHANGED <<given, opens, active, closings, tally, outbox, accepted>>

RowStarts(s) ==
  /\ Row(s) /\ rowStep[s] = "waiting" /\ MayPublish(Head(chain[s]))
  /\ rowStep' = [rowStep EXCEPT ![s] = "publishing"]
  /\ UNCHANGED <<given, opens, active, closings, chain, tally, outbox, accepted>>

\* Mutant: a row that was rejected holds up the chain.
RowPoisons(s) ==
  /\ Row(s) /\ rowStep[s] = "publishing"
  /\ rowStep' = [rowStep EXCEPT ![s] = "rejected"]
  /\ UNCHANGED <<given, opens, active, closings, chain, tally, outbox, accepted>>

\* Publishing failed, though the broker may have the row; or it is counted.
RowRejected(s) ==
  /\ Row(s) /\ rowStep[s] = "publishing"
  /\ \E got \in {0, 1} : published' = [published EXCEPT ![s] = @ + got]
  /\ rejected' = [rejected EXCEPT ![s] = TRUE]
  /\ NextRow(s)
  /\ UNCHANGED <<given, opens, active, closings, rowCount, outbox, accepted>>

RowCounted(s) ==
  /\ Row(s) /\ rowStep[s] = "publishing"
  /\ published' = [published EXCEPT ![s] = @ + 1]
  /\ rowCount' = [rowCount EXCEPT ![s] = @ + 1]
  /\ rowStep' = [rowStep EXCEPT ![s] = "auditing"]
  /\ emitSessionAudit(Event(s, "started", rowCount'[s], "row"))
  /\ UNCHANGED <<given, opens, active, closings, chain, rejected, ledger, accepted>>

-----------------------------------------------------------------------------
(* closeSession after its awaits.                                          *)

\* Mutant: the rows accepted before the close are not awaited.
SettledAlways(s) == TRUE

\* The rows accepted so far are settled.
Settled(s) == chain[s] = <<>>

SummaryAccepted(s) ==
  /\ closer[s] = "draining" /\ Settled(s) /\ summary[s]
  /\ chain' = [chain EXCEPT ![s] = Append(@, "summary")]
  /\ closer' = [closer EXCEPT ![s] = "summing"]
  /\ UNCHANGED <<given, opens, active, summary, timers, rearmed, rowStep, tally, outbox, accepted>>

\* No summary is due or lacks a required value, or it is settled: the capture's
\* entry is deleted, whichever session it has.
SessionDeleted(s) ==
  /\ closer[s] \in {"draining", "summing"} /\ Settled(s)
  /\ active' = None
  /\ closer' = [closer EXCEPT ![s] = "auditing"]
  /\ emitSessionAudit(Event(s, "closed", rowCount[s], "close"))
  /\ UNCHANGED <<given, opens, summary, timers, rearmed, rows, ledger, accepted>>

-----------------------------------------------------------------------------
(* The outbox settles an event and its waiter goes on.  A close is kept,   *)
(* the greatest row count wins; an event that could not be written may be  *)
(* kept in memory nevertheless, for a later write.                         *)

event == Head(audits)

Merge(old, e) ==
  IF old.kind = "closed" /\ e.kind = "started" THEN old ELSE
  [kind |-> e.kind, rows |-> IF old.rows > e.rows THEN old.rows ELSE e.rows]

Waiting(waiter) == audits # <<>> /\ event.waiter = waiter
Kept            == ledger' = [ledger EXCEPT ![event.session] = Merge(@, event)]
Settles         == audits' = Tail(audits) /\ (Kept \/ UNCHANGED ledger)

\* openSessionOnce after its await: output is no longer allowed, ...
SessionWithdrawn ==
  /\ Waiting("open")
  /\ stopped \/ ~canRecord \/ ~registered
  /\ Kept
  /\ audits' = Append(Tail(audits), Event(event.session, "closed", 0, "withdraw"))
  /\ UNCHANGED <<given, opens, active, closings, rows, accepted>>

WithdrawalEnds ==
  /\ Waiting("withdraw")
  /\ Settles
  /\ opening' = None
  /\ UNCHANGED <<given, used, active, closings, rows, accepted>>

\* ... or the session is active; a single shot closes at once.
SessionActivated ==
  /\ Waiting("open")
  /\ ~stopped /\ canRecord /\ registered
  /\ Kept
  /\ audits' = Tail(audits)
  /\ active' = event.session
  /\ accepted' = accepted \cup {event.session}
  /\ \/ /\ hasMode("singleShot")
        /\ UNCHANGED opening
        /\ closer' = [closer EXCEPT ![event.session] = "draining"]
        /\ summary' = [summary EXCEPT ![event.session] = TRUE]
        /\ UNCHANGED timers
     \/ /\ ~hasMode("singleShot")
        /\ opening' = None
        /\ timers' = armSessionTimers(event.session)
        /\ UNCHANGED <<closer, summary>>
  /\ UNCHANGED <<given, used, rearmed, rows>>

\* Mutant: the session is activated though its checkpoint failed.
OpeningContinues ==
  /\ Waiting("open")
  /\ Settles
  /\ opening' = None /\ active' = event.session
  /\ accepted' = accepted \cup {event.session}
  /\ UNCHANGED <<given, used, closings, rows>>

\* Without its opening checkpoint no session starts.
OpeningFails ==
  /\ Waiting("open")
  /\ Settles
  /\ opening' = None
  /\ UNCHANGED <<given, used, active, closings, rows, accepted>>

RowAudited ==
  /\ Waiting("row")
  /\ Settles
  /\ NextRow(event.session)
  /\ UNCHANGED <<given, opens, active, closings, tally, accepted>>

CloseAudited ==
  /\ Waiting("close")
  /\ Settles
  /\ closer' = [closer EXCEPT ![event.session] = "done"]
  /\ opening' = IF opening = event.session THEN None ELSE opening
  /\ UNCHANGED <<given, used, active, summary, timers, rearmed, rows, accepted>>

StopAudited ==
  /\ Waiting("nobody")
  /\ Settles
  /\ UNCHANGED <<given, opens, active, closings, rows, accepted>>

-----------------------------------------------------------------------------
Controls == Start \/ Started \/ Stop \/ PauseForHandover
            \/ WorkDrained \/ Drained \/ Handover
Registry == RefreshEnabled \/ RefreshDisabled \/ AuthorizationLost \/ RefreshFails
Inputs   ==
  \/ (\E v \in Values : Message(v)) \/ Evaluate
  \/ TriggerStops \/ TriggerStarts
  \/ (\E s \in Session : IntervalFires(s) \/ TimeoutFires(s))
Rows(s)  == RowSkipped(s) \/ RowStarts(s) \/ RowRejected(s) \/ RowCounted(s)
Closing(s) == SummaryAccepted(s) \/ SessionDeleted(s)
Audits   ==
  \/ SessionWithdrawn \/ WithdrawalEnds \/ SessionActivated \/ OpeningFails
  \/ RowAudited \/ CloseAudited \/ StopAudited

Next ==
  \/ Controls \/ Registry \/ StorageChanges \/ Inputs
  \/ (\E s \in Session : Rows(s) \/ Closing(s)) \/ Audits

Spec == Init /\ [][Next]_vars

\* Publications and audits settle, one way or the other, armed timers fire,
\* and the event loop runs what they resume.
Fairness ==
  /\ WF_vars(Audits)
  /\ \A s \in Session :
       WF_vars(Rows(s)) /\ WF_vars(Closing(s)) /\ WF_vars(TimeoutFires(s))

FairSpec == Spec /\ Fairness

-----------------------------------------------------------------------------
TypeOK ==
  /\ capture \in Definitions
  /\ life \in {"prepared", "starting", "running", "released", "settling", "drained", "stopped"}
  /\ registered \in BOOLEAN /\ healthy \in BOOLEAN /\ canRecord \in BOOLEAN
  /\ value \subseteq {"start", "stop"} /\ wasFalse \subseteq {"start", "stop"}
  /\ backlog \in 0..MaxBacklog
  /\ opening \in Session \cup {None} /\ active \in Session \cup {None}
  /\ used \in 0..MaxSessions
  /\ closer \in [Session -> {"none", "draining", "summing", "auditing", "done"}]
  /\ summary \in [Session -> BOOLEAN]
  /\ timers \in [Session -> SUBSET {"interval", "timeout"}] /\ rearmed \subseteq Session
  /\ chain \in [Session -> Seq({"row", "summary"})]
  /\ rowStep \in [Session -> {"waiting", "publishing", "auditing"}]
  /\ rowCount \in [Session -> Nat] /\ published \in [Session -> Nat]
  /\ rejected \in [Session -> BOOLEAN]
  /\ audits \in Seq([session : Session, kind : {"started", "closed"}, rows : Nat,
                     waiter : {"open", "withdraw", "row", "close", "nobody"}])
  /\ ledger \in [Session -> [kind : {"none", "started", "closed"}, rows : Nat]]
  /\ accepted \in SUBSET Session

\* An accepted session stays reachable until something closes it: nothing
\* replaces it in activeSessions, or nobody would ever close it (openSession
\* 377-386, openSessionOnce 389-410, closeSession 480).
SessionReachable ==
  /\ TypeOK
  /\ \A s \in accepted : life # "stopped" /\ closer[s] = "none" => active = s

\* "Persist the opening checkpoint before this session accepts output"
\* (404-410): a session with output has an entry in the outbox, so a restart
\* can close it.
OutputRecorded ==
  \A s \in Session : published[s] > 0 \/ chain[s] # <<>> => ledger[s].kind # "none"

\* "Audit the complete session, including changes accepted before its close"
\* (470-497, 556-577): a closed session's checkpoint counts every row the
\* broker got, and none comes later; only rows whose publication failed may be
\* missing from the count.
CloseExact ==
  \A s \in Session :
    ledger[s].kind = "closed" =>
      /\ ledger[s].rows <= published[s]
      /\ life # "stopped" /\ ~rejected[s] => ledger[s].rows = published[s]

\* A timer acts on whatever session it finds: a session has timers only while it
\* is the open one, from its activation until its close begins, and never while a
\* handover releases the process, even if it opens meanwhile (armSessionTimers
\* 427-431, openSessionOnce 411-424, clearSessionTimers, pauseForHandover 143-147).
\* The exception are the sessions that start found closing and armed (222-224).
TimersOwned ==
  \A s \in Session :
    timers[s] # {} => s \in rearmed \/ (active = s /\ closer[s] = "none" /\ ~handoverPaused)

\* "closes on [...] timeout" (5, 444-454): an open session of a definition with a
\* maximum duration begins to close; and a close that began ends, whatever fails,
\* "rather than leave a permanently closing session" (471-498).
SessionEnds ==
  \A s \in Session :
    /\ capture.timeout /\ active = s /\ life = "running" ~> active # s \/ life # "running"
    /\ closer[s] # "none" ~> closer[s] = "done"
=============================================================================
