----------------------------- MODULE AuditOutbox -----------------------------
(***************************************************************************)
(* The durable outbox of capture-session audit checkpoints                 *)
(* (src/src/captures/audit-outbox.ts, sent by captures/audit-transport.ts).*)
(*                                                                         *)
(* Every audit event of a session goes through enqueue: it is merged into  *)
(* the session's one in-memory entry and written to one file (temporary    *)
(* file, fsync, rename, fsync of the directory).  A coalesced background   *)
(* flush sends the entries to the controller one by one and removes a file *)
(* only when the controller acknowledged the session's final close.  All   *)
(* file operations run one after the other on a promise chain, while the   *)
(* sends run outside of it, so any enqueue can run during a send.          *)
(*                                                                         *)
(* The file system and the controller are external.  A crash may undo any  *)
(* rename or unlink that no directory fsync has followed.                  *)
(***************************************************************************)
EXTENDS Integers, Sequences, FiniteSets, FiniteSetsExt

CONSTANTS
  Session,      \* checkpoint keys: sha256 of (captureId, sessionId)
  NoSession,    \* no key
  MaxSessions,  \* options.maxSessions
  MaxBytes,     \* options.maxBytes
  Size,         \* bytes of an encoded checkpoint, by event type
  MaxRows,      \* bound: row counts reported by the callers
  MaxQueue,     \* bound: enqueues waiting on the promise chain
  MaxCalls,     \* bound: calls of enqueue
  MaxCrash      \* bound: crashes of the host

Kind == {"started", "closed"}

ASSUME OutboxAssumption ==
  /\ MaxSessions \in Nat /\ MaxBytes \in Nat /\ Size \in [Kind -> Nat]
  /\ MaxRows \in Nat /\ MaxQueue \in Nat /\ MaxCalls \in Nat /\ MaxCrash \in Nat
  /\ NoSession \notin Session

VARIABLES
  status,         \* the flags initialized and stopped, and the process itself
  mem,            \* entries: the latest checkpoint of each session
  queue,          \* operations chained on `writes`, the running one first
  step,           \* how far the running operation got in its file operation
  flush,          \* where the running flushOnce is, "off" if there is none
  ahead,          \* entries its loop has not visited yet
  sending,        \* the entry it visits, as captured before the send
  timer,          \* a flush timer is set
  storageFailed, deliveryFailed,
  disk,           \* the checkpoint files as the process sees them
  survivors,      \* what a crash may leave of each file
  controller,     \* the audit rows at the controller
  wire,           \* requests given up on that may still reach the controller
  reported,       \* history: the events that enqueue was called with
  confirmed,      \* history: what enqueue told its callers is persisted
  calls, crashes  \* how often enqueue was called, how often the host crashed

chain   == <<queue, step>>
loop    == <<flush, ahead, sending>>
flags   == <<storageFailed, deliveryFailed>>
files   == <<disk, survivors>>
remote  == <<controller, wire>>
history == <<reported, confirmed, calls, crashes>>
vars    == <<status, mem, chain, loop, timer, flags, files, remote, history>>

-----------------------------------------------------------------------------
(* Data.  A checkpoint keeps the event type, the row count and the version; *)
(* kind "none" is an absent entry, file or controller row.                  *)

NoCkpt    == [kind |-> "none", rows |-> 0, version |-> 0]
NoEntry   == [kind |-> "none", rows |-> 0, version |-> 0,
              durable |-> FALSE, acknowledged |-> FALSE]
NoRow     == [kind |-> "none", rows |-> 0]
NoSending == [key |-> NoSession, kind |-> "none", rows |-> 0, version |-> 0]

Ckpt  == [kind : Kind, rows : Nat, version : Nat] \cup {NoCkpt}
Entry == [kind : Kind, rows : Nat, version : Nat,
          durable : BOOLEAN, acknowledged : BOOLEAN] \cup {NoEntry}
Row   == [kind : Kind, rows : Nat] \cup {NoRow}

Operation == [name : {"convert", "enqueue", "persist", "settle"}, key : Session,
              kind : Kind \cup {"none"}, rows : Nat]

encode(e) == [kind |-> e.kind, rows |-> e.rows, version |-> e.version]
decode(c) == [kind |-> c.kind, rows |-> c.rows, version |-> c.version,
              durable |-> c.kind # "none", acknowledged |-> FALSE]

Larger(m, n) == IF m >= n THEN m ELSE n

\* The controller's upsert: closed is kept, the greatest row count wins.
Upsert(row, event) ==
  [kind |-> IF row.kind = "closed" THEN "closed" ELSE event.kind,
   rows |-> Larger(row.rows, event.rows)]

\* What load makes of the checkpoint of a session that was still open.
interrupted(e) ==
  [kind |-> "closed", rows |-> e.rows, version |-> e.version + 1,
   durable |-> FALSE, acknowledged |-> e.acknowledged]

\* The entry that replaces old when event e arrives.
merged(old, e) ==
  [kind |-> e.kind, rows |-> Larger(old.rows, e.rows), version |-> old.version + 1,
   durable |-> FALSE, acknowledged |-> FALSE]

Tracked == {k \in Session : mem[k].kind # "none"}
Pending == {k \in Tracked : ~mem[k].acknowledged}

initialized == status \in {"running", "stopped"}
stopped     == status = "stopped"
canRecord   == initialized /\ ~storageFailed /\ ~stopped

bytes(ckpts) == MapThenSumSet(LAMBDA k : Size[ckpts[k].kind],
                              {k \in Session : ckpts[k].kind # "none"})

OverCapacity(k, kind) ==
  \/ k \notin Tracked /\ Cardinality(Tracked) >= MaxSessions
  \/ bytes([mem EXCEPT ![k].kind = kind]) > MaxBytes

Init ==
  /\ status = "down"
  /\ mem = [k \in Session |-> NoEntry]
  /\ queue = <<>> /\ step = "idle"
  /\ flush = "off" /\ ahead = {} /\ sending = NoSending
  /\ timer = FALSE /\ storageFailed = FALSE /\ deliveryFailed = FALSE
  /\ disk = [k \in Session |-> NoCkpt]
  /\ survivors = [k \in Session |-> {NoCkpt}]
  /\ controller = [k \in Session |-> NoRow] /\ wire = {}
  /\ reported = [k \in Session |-> {}]
  /\ confirmed = [k \in Session |-> NoRow] /\ calls = 0 /\ crashes = 0

-----------------------------------------------------------------------------
(* The promise chain `writes` and the file operations that run on it.      *)

Running(name) == queue # <<>> /\ Head(queue).name = name
key           == Head(queue).key
Op(name, k)   == [name |-> name, key |-> k, kind |-> "none", rows |-> 0]
Chain(op)     == queue' = Append(queue, op) /\ UNCHANGED step
Finish        == queue' = Tail(queue) /\ step' = "idle"

\* Mutant: no timer is set for a checkpoint made while a flush runs.
scheduleUnlessFlushing == timer' = (timer \/ (initialized /\ ~stopped /\ flush = "off"))

\* schedule: does nothing while stopped, uninitialised or already set.
schedule == timer' = (timer \/ (initialized /\ ~stopped))

\* write: the rename makes the new checkpoint visible ...
Rename ==
  /\ step = "writing"
  /\ disk' = [disk EXCEPT ![key] = encode(mem[key])]
  /\ survivors' = [survivors EXCEPT ![key] = @ \cup {encode(mem[key])}]
  /\ step' = "renamed"
  /\ UNCHANGED <<status, mem, queue, loop, timer, flags, remote, history>>

\* Mutant: the directory is not synced.
syncNothing == UNCHANGED survivors /\ UNCHANGED disk

\* ... and the fsync of the directory makes every change in it permanent.
syncDirectory == survivors' = [k \in Session |-> {disk[k]}] /\ UNCHANGED disk

Written ==
  /\ step = "renamed"
  /\ syncDirectory
  /\ mem' = [mem EXCEPT ![key].durable = TRUE]
  /\ Finish

WriteThrows == step \in {"writing", "renamed"} /\ Finish /\ UNCHANGED files

-----------------------------------------------------------------------------
(* start and load.                                                         *)

\* What load accepts of the directory.
checkCapacity ==
  /\ Cardinality({k \in Session : disk[k].kind # "none"}) <= MaxSessions
  /\ bytes(disk) <= MaxBytes

Load ==
  /\ status = "down"
  /\ checkCapacity
  /\ mem' = [k \in Session |-> decode(disk[k])]
  /\ status' = "loading"
  /\ UNCHANGED <<chain, loop, timer, flags, files, remote, history>>

\* An unreadable or invalid file, or too much of them: recording stays paused.
LoadThrows ==
  /\ status = "down"
  /\ status' = "failed" /\ storageFailed' = TRUE
  /\ UNCHANGED <<mem, chain, loop, timer, deliveryFailed, files, remote, history>>

\* "A prior open session cannot resume across a runtime restart": close it.
CloseInterrupted(k) ==
  /\ status = "loading" /\ queue = <<>>
  /\ mem[k].kind = "started"
  /\ mem' = [mem EXCEPT ![k] = interrupted(@)]
  /\ queue' = <<Op("convert", k)>> /\ step' = "writing"
  /\ UNCHANGED <<status, loop, timer, flags, files, remote, history>>

InterruptedClosed ==
  /\ Running("convert")
  /\ Written
  /\ UNCHANGED <<status, loop, timer, flags, remote, history>>

CloseInterruptedThrows ==
  /\ Running("convert")
  /\ WriteThrows
  /\ status' = "failed" /\ storageFailed' = TRUE
  /\ UNCHANGED <<mem, loop, timer, deliveryFailed, remote, history>>

Loaded ==
  /\ status = "loading" /\ queue = <<>>
  /\ \A k \in Session : mem[k].kind # "started"
  /\ status' = "running"
  /\ timer' = TRUE
  /\ UNCHANGED <<mem, chain, loop, flags, files, remote, history>>

-----------------------------------------------------------------------------
(* enqueue.                                                                *)

Enqueue(k, kind, rows) ==
  /\ initialized /\ ~stopped
  /\ Len(queue) < MaxQueue /\ calls < MaxCalls
  /\ Chain([name |-> "enqueue", key |-> k, kind |-> kind, rows |-> rows])
  /\ reported' = [reported EXCEPT ![k] = @ \cup {[kind |-> kind, rows |-> rows]}]
  /\ calls' = calls + 1
  /\ UNCHANGED <<status, mem, loop, timer, flags, files, remote, confirmed, crashes>>

event               == Head(queue)
ClosedAlreadyMissed == FALSE  \* Mutant: the check of an earlier close is gone.
ClosedAlready       == mem[key].kind = "closed" /\ event.kind # "closed"

EnqueueIgnored ==
  /\ Running("enqueue") /\ step = "idle"
  /\ ClosedAlready
  /\ Finish
  /\ UNCHANGED <<status, mem, loop, timer, flags, files, remote, history>>

EnqueueRefused ==
  /\ Running("enqueue") /\ step = "idle"
  /\ ~ClosedAlready /\ OverCapacity(key, event.kind)
  /\ storageFailed' = TRUE
  /\ Finish
  /\ UNCHANGED <<status, mem, loop, timer, deliveryFailed, files, remote, history>>

\* entries.set; a new key joins the live iteration of a running flush.
EnqueueMerged ==
  /\ Running("enqueue") /\ step = "idle"
  /\ ~ClosedAlready /\ ~OverCapacity(key, event.kind)
  /\ mem' = [mem EXCEPT ![key] = merged(@, event)]
  /\ ahead' = IF flush # "off" /\ key \notin Tracked THEN ahead \cup {key} ELSE ahead
  /\ step' = "writing"
  /\ UNCHANGED <<status, queue, flush, sending, timer, flags, files, remote, history>>

EnqueuePersisted ==
  /\ Running("enqueue")
  /\ Written
  /\ storageFailed' = FALSE
  /\ schedule
  /\ confirmed' = [confirmed EXCEPT ![key] = Upsert(@, mem[key])]
  /\ UNCHANGED <<status, loop, deliveryFailed, remote, reported, calls, crashes>>

EnqueueThrows ==
  /\ Running("enqueue")
  /\ WriteThrows
  /\ storageFailed' = TRUE
  /\ schedule
  /\ UNCHANGED <<status, mem, loop, deliveryFailed, remote, history>>

-----------------------------------------------------------------------------
(* flush and flushOnce.                                                    *)

StartFlush ==
  /\ flush = "off"
  /\ flush' = "next" /\ ahead' = Tracked /\ UNCHANGED sending

\* The timer's callback; it joins a flush that is already running.
TimerFires ==
  /\ timer
  /\ timer' = FALSE
  /\ StartFlush \/ (flush # "off" /\ UNCHANGED loop)
  /\ UNCHANGED <<status, mem, chain, flags, files, remote, history>>

\* The handover drain's own call of flush (index.ts drain).
FlushCalled ==
  /\ status = "running"
  /\ StartFlush
  /\ timer' = FALSE
  /\ UNCHANGED <<status, mem, chain, flags, files, remote, history>>

Continue == flush' = "next" /\ sending' = NoSending /\ UNCHANGED ahead

\* The end of flushOnce: come back while anything is unconfirmed.
retryNever == UNCHANGED timer  \* Mutant: only enqueue sets the timer.
retry      == IF Pending # {} THEN schedule ELSE UNCHANGED timer

\* Its catch: the loop is left, the entry it was at is kept.
Aborted ==
  /\ flush' = "off" /\ ahead' = {} /\ sending' = NoSending
  /\ deliveryFailed' = TRUE
  /\ retry

Visit(k) ==
  /\ flush = "next" /\ k \in ahead
  /\ flush' = "persisting" /\ ahead' = ahead \ {k}
  /\ sending' = [NoSending EXCEPT !.key = k]
  /\ Chain(Op("persist", k))
  /\ UNCHANGED <<status, mem, timer, flags, files, remote, history>>

\* The entry as the serialised callback left it: sent, or skipped.
Captured(e) ==
  \/ /\ e.kind # "none" /\ ~e.acknowledged
     /\ flush' = "sending"
     /\ sending' = [key |-> key, kind |-> e.kind, rows |-> e.rows, version |-> e.version]
     /\ UNCHANGED ahead
  \/ (e.kind = "none" \/ e.acknowledged) /\ Continue

PersistSkipped ==
  /\ Running("persist") /\ step = "idle"
  /\ key \notin Tracked \/ mem[key].durable
  /\ Captured(mem[key])
  /\ Finish
  /\ UNCHANGED <<status, mem, timer, flags, files, remote, history>>

PersistStarts ==
  /\ Running("persist") /\ step = "idle"
  /\ key \in Tracked /\ ~mem[key].durable
  /\ step' = "writing"
  /\ UNCHANGED <<status, mem, queue, loop, timer, flags, files, remote, history>>

Persisted ==
  /\ Running("persist")
  /\ Written
  /\ Captured(mem[key])
  /\ UNCHANGED <<status, timer, flags, remote, history>>

PersistThrows ==
  /\ Running("persist")
  /\ WriteThrows
  /\ Aborted
  /\ UNCHANGED <<status, mem, storageFailed, remote, history>>

\* send: the controller upserted the event and its {ok, id} came back in time.
SendAcknowledged ==
  /\ flush = "sending"
  /\ controller' = [controller EXCEPT ![sending.key] = Upsert(@, sending)]
  /\ flush' = "settling" /\ UNCHANGED <<ahead, sending>>
  /\ Chain(Op("settle", sending.key))
  /\ UNCHANGED <<status, mem, timer, flags, files, wire, history>>

\* An error, a false acknowledgement or the deadline; the request may be lost,
\* processed without an answer, or reach the controller long after.
SendThrows ==
  /\ flush = "sending"
  /\ \/ UNCHANGED wire
     \/ wire' = wire \cup {[key |-> sending.key, kind |-> sending.kind, rows |-> sending.rows]}
  /\ Aborted
  /\ UNCHANGED <<status, mem, chain, storageFailed, files, controller, history>>

LateArrival ==
  \E m \in wire :
    /\ controller' = [controller EXCEPT ![m.key] = Upsert(@, m)]
    /\ wire' = wire \ {m}
    /\ UNCHANGED <<status, mem, chain, loop, timer, flags, files, history>>

\* Mutant: the version is not compared.
SupersededMissed == FALSE

\* A newer checkpoint replaced the acknowledged one during the send.
Superseded == mem[key].version # sending.version
Final      == sending.kind = "closed"

SettleStale ==
  /\ Running("settle") /\ step = "idle"
  /\ Superseded
  /\ Continue
  /\ Finish
  /\ UNCHANGED <<status, mem, timer, flags, files, remote, history>>

\* "Retain acknowledged open checkpoints until close."
SettleOpen ==
  /\ Running("settle") /\ step = "idle"
  /\ ~Superseded /\ ~Final
  /\ mem' = [mem EXCEPT ![key].acknowledged = TRUE]
  /\ Continue
  /\ Finish
  /\ UNCHANGED <<status, timer, flags, files, remote, history>>

SettleClosed ==
  /\ Running("settle") /\ step = "idle"
  /\ ~Superseded /\ Final
  /\ step' = "removing"
  /\ UNCHANGED <<status, mem, queue, loop, timer, flags, files, remote, history>>

FileRemoved ==
  /\ step = "removing"
  /\ disk' = [disk EXCEPT ![key] = NoCkpt]
  /\ survivors' = [survivors EXCEPT ![key] = @ \cup {NoCkpt}]
  /\ step' = "removed"
  /\ UNCHANGED <<status, mem, queue, loop, timer, flags, remote, history>>

Removed ==
  /\ step = "removed"
  /\ syncDirectory
  /\ mem' = [mem EXCEPT ![key] = NoEntry]
  /\ Continue
  /\ Finish
  /\ UNCHANGED <<status, timer, flags, remote, history>>

RemoveThrows ==
  /\ step \in {"removing", "removed"}
  /\ Aborted
  /\ Finish
  /\ UNCHANGED <<status, mem, storageFailed, files, remote, history>>

FlushEnds ==
  /\ flush = "next" /\ ahead = {}
  /\ flush' = "off" /\ UNCHANGED <<ahead, sending>>
  /\ storageFailed' = FALSE /\ deliveryFailed' = FALSE
  /\ retry
  /\ UNCHANGED <<status, mem, chain, files, remote, history>>

-----------------------------------------------------------------------------
(* The end of the process.                                                 *)

\* drain (index.ts): flush, refuse while anything is unconfirmed, then stop.
Stop ==
  /\ status = "running"
  /\ flush = "off" /\ Pending = {}
  /\ status' = "stopped"
  /\ timer' = FALSE
  /\ UNCHANGED <<mem, chain, loop, flags, files, remote, history>>

MemoryLost ==
  /\ status' = "down"
  /\ mem' = [k \in Session |-> NoEntry]
  /\ queue' = <<>> /\ step' = "idle"
  /\ flush' = "off" /\ ahead' = {} /\ sending' = NoSending
  /\ timer' = FALSE /\ storageFailed' = FALSE /\ deliveryFailed' = FALSE

\* The runtime exits by itself, its files stay; it is started again later.
Exit ==
  /\ status = "failed" \/ (status = "stopped" /\ queue = <<>> /\ flush = "off")
  /\ MemoryLost
  /\ UNCHANGED <<files, remote, history>>

Crash ==
  /\ status # "down" /\ crashes < MaxCrash
  /\ MemoryLost
  /\ disk' \in [Session -> UNION {survivors[k] : k \in Session}]
  /\ \A k \in Session : disk'[k] \in survivors[k]
  /\ survivors' = [k \in Session |-> {disk'[k]}]
  /\ crashes' = crashes + 1
  /\ UNCHANGED <<remote, reported, confirmed, calls>>

-----------------------------------------------------------------------------
Loading ==
  \/ Load \/ LoadThrows \/ (\E k \in Session : CloseInterrupted(k))
  \/ InterruptedClosed \/ CloseInterruptedThrows \/ Loaded

Enqueuing ==
  \/ \E k \in Session, kind \in Kind, rows \in 0..MaxRows : Enqueue(k, kind, rows)
  \/ EnqueueIgnored \/ EnqueueRefused \/ EnqueueMerged
  \/ EnqueuePersisted \/ EnqueueThrows

Flushing ==
  \/ TimerFires \/ FlushCalled \/ (\E k \in Session : Visit(k))
  \/ PersistSkipped \/ PersistStarts \/ Persisted \/ PersistThrows
  \/ SendAcknowledged \/ SendThrows
  \/ SettleStale \/ SettleOpen \/ SettleClosed
  \/ FileRemoved \/ Removed \/ RemoveThrows \/ FlushEnds

Next ==
  Loading \/ Enqueuing \/ Flushing \/ Rename \/ LateArrival \/ Stop \/ Exit \/ Crash

Spec == Init /\ [][Next]_vars

\* What the event loop runs without waiting for the disk or the network.
Ready ==
  \/ (\E k \in Session : CloseInterrupted(k)) \/ Loaded
  \/ EnqueueIgnored \/ EnqueueRefused \/ EnqueueMerged
  \/ TimerFires \/ (\E k \in Session : Visit(k)) \/ FlushEnds
  \/ PersistSkipped \/ PersistStarts \/ SettleStale \/ SettleOpen \/ SettleClosed
  \/ Exit

\* The event loop runs what is ready, a runtime that exits is started again,
\* and neither the storage nor the controller fails every single time.
Fairness ==
  /\ WF_vars(Ready)
  /\ SF_vars(Load)
  /\ SF_vars(Rename \/ FileRemoved)
  /\ SF_vars(InterruptedClosed \/ EnqueuePersisted \/ Persisted \/ Removed)
  /\ SF_vars(SendAcknowledged)

FairSpec == Spec /\ Fairness

-----------------------------------------------------------------------------
TypeOK ==
  /\ status \in {"down", "loading", "running", "stopped", "failed"}
  /\ mem \in [Session -> Entry]
  /\ queue \in Seq(Operation)
  /\ step \in {"idle", "writing", "renamed", "removing", "removed"}
  /\ flush \in {"off", "next", "persisting", "sending", "settling"}
  /\ ahead \in SUBSET Session
  /\ sending \in [key : Session \cup {NoSession}, kind : Kind \cup {"none"},
                  rows : Nat, version : Nat]
  /\ timer \in BOOLEAN /\ storageFailed \in BOOLEAN /\ deliveryFailed \in BOOLEAN
  /\ disk \in [Session -> Ckpt]
  /\ survivors \in [Session -> SUBSET Ckpt]
  /\ controller \in [Session -> Row]
  /\ wire \in SUBSET [key : Session, kind : Kind, rows : Nat]
  /\ reported \in [Session -> SUBSET [kind : Kind, rows : Nat]]
  /\ confirmed \in [Session -> Row]
  /\ calls \in Nat /\ crashes \in Nat

\* What enqueue confirmed is never lost (write 287-308, flushOnce 212-227): at
\* any moment, a crash included, a session's file still holds its rows and its
\* close, or the controller has them; and while the controller has no close,
\* the file is there for a restart to close the session.
RowsRetained(k) ==
  \/ controller[k].rows >= confirmed[k].rows
  \/ \A c \in survivors[k] : c.rows >= confirmed[k].rows
CloseRetained(k) ==
  confirmed[k].kind = "closed" =>
    \/ controller[k].kind = "closed"
    \/ \A c \in survivors[k] : c.kind = "closed"
OpenRetained(k) ==
  confirmed[k].kind # "none" =>
    \/ controller[k].kind = "closed"
    \/ \A c \in survivors[k] : c.kind # "none"

EvidenceRetained ==
  \A k \in Session : RowsRetained(k) /\ CloseRetained(k) /\ OpenRetained(k)

\* "A late response for an older version cannot delete newer evidence": while
\* the process runs, an entry disappears only when the controller holds the
\* session's close and at least the rows of the entry (flushOnce 216-226).
ForgetsOnlyDelivered ==
  [][\A k \in Session :
       mem[k].kind # "none" /\ mem'[k].kind = "none" /\ status' # "down" =>
         /\ mem[k].kind = "closed" /\ controller[k].kind = "closed"
         /\ controller[k].rows >= mem[k].rows]_vars

\* A session whose close is permanently on disk is never open on disk again,
\* whatever arrives late and whatever a crash leaves, until the file is gone
\* (enqueue 149-150, load 110-123).
ClosePermanent ==
  [][\A k \in Session :
       (\A c \in survivors[k] : c.kind = "closed") =>
       (\A c \in survivors'[k] : c.kind # "started")]_vars

\* The timer is never lost: while anything is unconfirmed and the process runs,
\* a flush is running, or a timer is set, or an operation that will set one is
\* still on the chain (schedule 243-250, flushOnce 241, enqueue 176-188).
FlushComes ==
  status = "running" /\ Pending # {} => timer \/ flush # "off" \/ Running("enqueue")

\* A process that load refuses: several sessions were open when the last one
\* died, and their conversion made the checkpoints longer than maxBytes.  Every
\* later start refuses the directory too, until someone repairs it by hand.
Refused == status \in {"down", "failed"} /\ ~checkCapacity

\* The controller has the rows that were confirmed, and the close that was
\* confirmed or that load gave the session.
Delivered(k) ==
  /\ controller[k].rows >= confirmed[k].rows
  /\ \/ controller[k].kind = "closed"
     \/ confirmed[k].kind # "closed" /\ \E c \in survivors[k] : c.kind # "closed"

\* Every row count and every close that is safely on disk reaches the controller,
\* whatever crashes and failures come before; or load refuses the directory, for
\* ever, because the conversion of open checkpoints on an earlier start outgrew
\* maxBytes (flushOnce 199-242, schedule 243-250, load 107-123).
DeliveryComes == []<>(Refused \/ \A k \in Session : Delivered(k))

-----------------------------------------------------------------------------
(* The evidence of a session, seen from outside: the row a checkpoint or a  *)
(* request stands for, and the requests that may still reach the controller. *)

RowOf(e)  == [kind |-> e.kind, rows |-> e.rows]
OnTheWay  == wire \cup IF flush # "sending" THEN {}
                       ELSE {[key |-> sending.key, kind |-> sending.kind, rows |-> sending.rows]}

evidence  == [k \in Session |-> {RowOf(c) : c \in survivors[k]}]

Ledger == INSTANCE AuditLedger WITH
  up <- initialized, kept <- evidence, promised <- confirmed, told <- OnTheWay, shown <- controller

\* The outbox implements the ledger: evidence is what callers reported, only
\* grows, on disk and at the controller, is sent as it was written, and its file
\* goes only when the controller has all of it (enqueue, load, flushOnce, write).
KeepsLedger == Ledger!Spec

-----------------------------------------------------------------------------
(* A statement of the documentation and of a test that the code does not   *)
(* keep; its run expects the violation.                                    *)

\* "Storage failure pauses new recording" (docs/automations-runtime-recovery.md),
\* "storage failure pauses recording until recovery" (a test's title): the pause
\* ends by a write that succeeds or with every checkpoint on disk.
\* flushOnce 229 clears storageFailed even when a write failed during its sends.
PausedUntilRecovery ==
  [][storageFailed /\ ~storageFailed' /\ status' # "down" =>
       \/ step = "renamed"
       \/ \A k \in Tracked : mem[k].durable \/ (queue # <<>> /\ k = key)]_vars

=============================================================================
