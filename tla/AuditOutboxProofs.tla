-------------------------- MODULE AuditOutboxProofs --------------------------
(***************************************************************************)
(* Theorems about AuditOutbox, for every set of sessions and every value   *)
(* of the bounds.                                                          *)
(***************************************************************************)
EXTENDS AuditOutbox, TLAPS

LEMMA HeadTail ==
  ASSUME NEW S, NEW q \in Seq(S), q # <<>>
  PROVE  /\ Head(q) \in S /\ Tail(q) \in Seq(S)
         /\ Len(q) \in Nat \ {0} /\ Len(Tail(q)) = Len(q) - 1
         /\ Head(q) = q[1]
         /\ \A i \in 1..Len(Tail(q)) : Tail(q)[i] = q[i + 1]
  OBVIOUS

LEMMA KeyType == TypeOK /\ queue # <<>> => Head(queue) \in Operation /\ key \in Session
<1> SUFFICES ASSUME TypeOK, queue # <<>>
             PROVE  Head(queue) \in Operation /\ key \in Session
  OBVIOUS
<1>1. Head(queue) \in Operation
  BY HeadTail DEF TypeOK
<1> QED
  BY <1>1 DEF Operation, key

LEMMA Absent ==
  /\ NoEntry \in Entry /\ NoCkpt \in Ckpt /\ NoRow \in Row
  /\ NoEntry.kind = "none" /\ NoCkpt.kind = "none" /\ NoRow.kind = "none"
  /\ NoCkpt.rows = 0 /\ NoRow.rows = 0
  BY DEF NoEntry, NoCkpt, NoRow, Entry, Ckpt, Row

LEMMA TypeInit == Init => TypeOK
<1> SUFFICES ASSUME Init PROVE TypeOK
  OBVIOUS
<1>1. queue \in Seq(Operation)
  BY DEF Init
<1>2. /\ mem \in [Session -> Entry] /\ disk \in [Session -> Ckpt]
      /\ survivors \in [Session -> SUBSET Ckpt]
      /\ controller \in [Session -> Row] /\ confirmed \in [Session -> Row]
  BY Absent DEF Init
<1>3. sending \in [key : Session \cup {NoSession}, kind : Kind \cup {"none"},
                   rows : Nat, version : Nat]
  BY DEF Init, NoSending
<1> QED
  BY <1>1, <1>2, <1>3 DEF Init, TypeOK

LEMMA UpsertType ==
  ASSUME NEW r \in Row, NEW e, e.kind \in Kind, e.rows \in Nat
  PROVE  /\ Upsert(r, e) \in Row
         /\ Upsert(r, e).rows >= r.rows /\ Upsert(r, e).rows >= e.rows
         /\ Upsert(r, e).rows = r.rows \/ Upsert(r, e).rows = e.rows
         /\ r.kind = "closed" => Upsert(r, e).kind = "closed"
         /\ Upsert(r, e).kind # "none"
         /\ e.kind = "closed" => Upsert(r, e).kind = "closed"
         /\ Upsert(r, e).kind = "closed" => r.kind = "closed" \/ e.kind = "closed"
  BY DEF Upsert, Row, NoRow, Kind, Larger

LEMMA EncodeType ==
  ASSUME NEW e \in Entry
  PROVE  encode(e) \in Ckpt /\ encode(e).kind = e.kind /\ encode(e).rows = e.rows
  BY DEF Entry, Ckpt, encode, NoEntry, NoCkpt

LEMMA DecodeType ==
  ASSUME NEW c \in Ckpt
  PROVE  decode(c) \in Entry /\ decode(c).kind = c.kind /\ decode(c).rows = c.rows
<1>1. CASE c = NoCkpt
  <2>1. decode(c) = NoEntry
    BY <1>1 DEF decode, NoEntry, NoCkpt
  <2> QED
    BY <2>1, <1>1, Absent DEF NoEntry, NoCkpt
<1>2. CASE c \in [kind : Kind, rows : Nat, version : Nat]
  <2>1. c.kind \in Kind /\ (c.kind # "none") = TRUE
    BY <1>2 DEF Kind
  <2>2. decode(c) = [kind |-> c.kind, rows |-> c.rows, version |-> c.version,
                     durable |-> TRUE, acknowledged |-> FALSE]
    BY <2>1 DEF decode
  <2> QED
    BY <2>1, <2>2, <1>2 DEF Entry
<1> QED
  BY <1>1, <1>2 DEF Ckpt

LEMMA MergedType ==
  ASSUME NEW e \in Entry, NEW o \in Operation, o.kind \in Kind
  PROVE  /\ merged(e, o) \in Entry
         /\ merged(e, o).kind = o.kind /\ merged(e, o).version = e.version + 1
         /\ merged(e, o).rows >= e.rows
  BY DEF Entry, merged, NoEntry, Larger, Operation, Kind

-----------------------------------------------------------------------------
(* Type correctness.  It needs the shape of the promise chain: which        *)
(* operation may run while the flush is where it is.                        *)

FlushOp(o) == o.name \in {"persist", "settle"}

Fits(o) ==
  /\ o.name = "enqueue" => o.kind \in Kind
  /\ o.name = "convert" => status = "loading"
  /\ o.name = "persist" => flush = "persisting" /\ o.key = sending.key
  /\ o.name = "settle" => flush = "settling" /\ o.key = sending.key

ChainFits ==
  /\ \A i \in 1..Len(queue) : Fits(queue[i])
  /\ \A i, j \in 1..Len(queue) : FlushOp(queue[i]) /\ FlushOp(queue[j]) => i = j

StepFits ==
  /\ step # "idle" => queue # <<>>
  /\ step \in {"writing", "renamed"} =>
       /\ Head(queue).name \in {"convert", "enqueue", "persist"}
       /\ mem[key].kind # "none" /\ ~mem[key].durable
  /\ step \in {"removing", "removed"} => Head(queue).name = "settle"

\* The entry being sent is tracked; it is the one captured, or a newer one.
SnapshotOf(e) ==
  /\ e.kind # "none" /\ e.version >= sending.version
  /\ e.version = sending.version => e.kind = sending.kind /\ e.rows = sending.rows

FlushFits ==
  /\ flush \in {"persisting", "sending", "settling"} => sending.key \in Session
  /\ flush \in {"sending", "settling"} =>
       sending.kind \in Kind /\ SnapshotOf(mem[sending.key])

StatusFits ==
  /\ status \in {"down", "failed"} => queue = <<>>
  /\ status \in {"down", "loading", "failed"} => flush = "off" /\ Len(queue) <= 1
  /\ timer => status = "running"

Shape == TypeOK /\ ChainFits /\ StepFits /\ FlushFits /\ StatusFits

LEMMA Chained ==
  ASSUME TypeOK, NEW o \in Operation, Chain(o)
  PROVE  /\ queue' \in Seq(Operation) /\ queue' # <<>> /\ step' = step
         /\ Len(queue') = Len(queue) + 1
         /\ \A i \in 1..Len(queue) : queue'[i] = queue[i]
         /\ queue'[Len(queue')] = o
         /\ queue # <<>> => Head(queue') = Head(queue)
         /\ queue = <<>> => Head(queue') = o
  BY DEF TypeOK, Chain

LEMMA Finished ==
  ASSUME TypeOK, queue # <<>>, Finish
  PROVE  /\ queue' \in Seq(Operation) /\ step' = "idle"
         /\ Len(queue') = Len(queue) - 1
         /\ \A i \in 1..Len(queue') : queue'[i] = queue[i + 1] /\ i + 1 \in 1..Len(queue)
         /\ 1 \in 1..Len(queue) /\ Head(queue) = queue[1]
         /\ Len(queue) = 1 => queue' = <<>>
  BY HeadTail DEF TypeOK, Finish

LEMMA EntryFields ==
  ASSUME NEW e \in Entry
  PROVE  /\ e.kind \in Kind \cup {"none"} /\ e.rows \in Nat /\ e.version \in Nat
         /\ e.kind = "none" => e = NoEntry
  BY DEF Entry, NoEntry, Kind

LEMMA EntryEdits ==
  ASSUME NEW e \in Entry, e.kind # "none"
  PROVE  /\ [e EXCEPT !.durable = TRUE] \in Entry
         /\ [e EXCEPT !.durable = TRUE].kind = e.kind
         /\ [e EXCEPT !.durable = TRUE].rows = e.rows
         /\ [e EXCEPT !.durable = TRUE].version = e.version
         /\ [e EXCEPT !.acknowledged = TRUE] \in Entry
         /\ interrupted(e) \in Entry /\ interrupted(e).kind = "closed"
<1> DEFINE R == [kind : Kind, rows : Nat, version : Nat,
                 durable : BOOLEAN, acknowledged : BOOLEAN]
<1>1. e \in R
  BY DEF Entry, NoEntry
<1>2. [e EXCEPT !.durable = TRUE] \in R
  BY <1>1 DEF Kind
<1>3. [e EXCEPT !.acknowledged = TRUE] \in R
  BY <1>1 DEF Kind
<1>4. interrupted(e) \in R /\ interrupted(e).kind = "closed"
  BY <1>1 DEF Kind, interrupted
<1>5. /\ [e EXCEPT !.durable = TRUE].kind = e.kind
      /\ [e EXCEPT !.durable = TRUE].rows = e.rows
      /\ [e EXCEPT !.durable = TRUE].version = e.version
  BY <1>1
<1> QED
  BY <1>2, <1>3, <1>4, <1>5 DEF Entry

LEMMA OpType ==
  \A name \in {"convert", "enqueue", "persist", "settle"}, k \in Session :
    Op(name, k) \in Operation /\ <<Op(name, k)>> \in Seq(Operation)
  BY DEF Op, Operation

LEMMA MemType ==
  ASSUME TypeOK, NEW k \in Session
  PROVE  /\ mem[k] \in Entry
         /\ \A e \in Entry : [mem EXCEPT ![k] = e] \in [Session -> Entry]
         /\ mem[k].kind # "none" =>
              /\ [mem EXCEPT ![k].durable = TRUE] \in [Session -> Entry]
              /\ [mem EXCEPT ![k].acknowledged = TRUE] \in [Session -> Entry]
<1>1. mem[k] \in Entry /\ \A e \in Entry : [mem EXCEPT ![k] = e] \in [Session -> Entry]
  BY DEF TypeOK
<1>2. ASSUME mem[k].kind # "none"
      PROVE  /\ [mem EXCEPT ![k].durable = TRUE] \in [Session -> Entry]
             /\ [mem EXCEPT ![k].acknowledged = TRUE] \in [Session -> Entry]
  <2>1. [mem[k] EXCEPT !.durable = TRUE] \in Entry /\ [mem[k] EXCEPT !.acknowledged = TRUE] \in Entry
    BY <1>1, <1>2, EntryEdits
  <2> QED
    BY <2>1, <1>1
<1> QED
  BY <1>1, <1>2

\* Finishing the running operation: what waits still fits, for a flush that
\* moved on had its only operation at the head.
LEMMA FinishFits ==
  ASSUME Shape, queue # <<>>, Finish,
         FlushOp(Head(queue)) \/ UNCHANGED <<flush, sending>>
  PROVE  ChainFits'
<1> USE DEF Shape
<1>1. ASSUME NEW i \in 1..Len(queue')
      PROVE  Fits(queue[i])'
  <2>1. i + 1 \in 1..Len(queue) /\ queue'[i] = queue[i + 1] /\ i + 1 # 1
    BY Finished
  <2>2. Fits(queue[i + 1])
    BY <2>1 DEF ChainFits
  <2>3. queue[i + 1].name # "convert"
    <3>1. Len(queue) > 1
      BY <2>1, Finished
    <3> QED
      BY <3>1, <2>2 DEF Fits, StatusFits
  <2>4. CASE UNCHANGED <<flush, sending>>
    BY <2>1, <2>2, <2>3, <2>4 DEF Fits
  <2>5. CASE FlushOp(Head(queue))
    <3>1. FlushOp(queue[1]) /\ 1 \in 1..Len(queue)
      BY <2>5, Finished
    <3>2. ~FlushOp(queue[i + 1])
      BY <2>1, <3>1 DEF ChainFits
    <3> QED
      BY <2>1, <2>2, <2>3, <3>2 DEF Fits, FlushOp
  <2> QED
    BY <2>4, <2>5
<1>2. ASSUME NEW i \in 1..Len(queue'), NEW j \in 1..Len(queue'),
             FlushOp(queue'[i]), FlushOp(queue'[j])
      PROVE  i = j
  <2>1. /\ i + 1 \in 1..Len(queue) /\ queue'[i] = queue[i + 1]
        /\ j + 1 \in 1..Len(queue) /\ queue'[j] = queue[j + 1]
    BY Finished
  <2>2. i + 1 = j + 1
    BY <2>1, <1>2 DEF ChainFits
  <2> QED
    BY <2>2
<1> QED
  BY <1>1, <1>2 DEF ChainFits, FlushOp

LEMMA FinishStep ==
  ASSUME Shape, queue # <<>>, Finish, status' = status,
         flush' = flush \/ flush # "off", timer' => timer \/ status = "running"
  PROVE  StepFits' /\ StatusFits'
  BY Finished DEF StepFits, StatusFits, Shape

\* Chaining an operation: it is the last one, and the only one of the flush.
LEMMA ChainedFits ==
  ASSUME Shape, NEW o \in Operation, Chain(o), Fits(o)', status' = status,
         \/ UNCHANGED <<flush, sending>> /\ ~FlushOp(o)
         \/ flush \notin {"persisting", "settling"}
  PROVE  ChainFits'
<1> USE DEF Shape
<1>1. ASSUME NEW i \in 1..Len(queue')
      PROVE  /\ Fits(queue[i])'
             /\ i = Len(queue') \/ (i \in 1..Len(queue) /\ queue'[i] = queue[i])
             /\ FlushOp(queue'[i]) => i = Len(queue') \/ UNCHANGED <<flush, sending>>
  <2>1. CASE i = Len(queue')
    BY <2>1, Chained
  <2>2. CASE i # Len(queue')
    <3>1. i \in 1..Len(queue) /\ queue'[i] = queue[i]
      BY <2>2, Chained
    <3>2. Fits(queue[i])
      BY <3>1 DEF ChainFits
    <3> QED
      BY <3>1, <3>2 DEF Fits, FlushOp
  <2> QED
    BY <2>1, <2>2
<1>2. ASSUME NEW i \in 1..Len(queue'), NEW j \in 1..Len(queue'),
             FlushOp(queue'[i]), FlushOp(queue'[j])
      PROVE  i = j
  <2>1. CASE i \in 1..Len(queue) /\ j \in 1..Len(queue)
    BY <2>1, <1>2, Chained DEF ChainFits
  <2>2. ASSUME NEW n \in 1..Len(queue'), FlushOp(queue'[n]), n \in 1..Len(queue)
        PROVE  ~FlushOp(queue'[Len(queue')])
    <3>1. queue'[n] = queue[n] /\ Fits(queue[n]) /\ queue'[Len(queue')] = o
      BY <2>2, Chained DEF ChainFits
    <3> QED
      BY <3>1, <2>2 DEF Fits, FlushOp
  <2>3. Len(queue') = Len(queue) + 1 /\ Len(queue) \in Nat
    BY Chained DEF TypeOK
  <2> QED
    BY <1>2, <2>1, <2>2, <2>3
<1> QED
  BY <1>1, <1>2 DEF ChainFits, FlushOp

LEMMA ChainedStep ==
  ASSUME Shape, NEW o \in Operation, Chain(o), status' = status, mem' = mem,
         timer' = timer, status \in {"running", "stopped"}
  PROVE  StepFits' /\ StatusFits'
  BY Chained DEF StepFits, StatusFits, Shape, key

LEMMA SyncType ==
  ASSUME TypeOK, syncDirectory
  PROVE  /\ disk' = disk /\ disk' \in [Session -> Ckpt]
         /\ survivors' \in [Session -> SUBSET Ckpt]
         /\ \A k \in Session : survivors'[k] = {disk[k]}
  BY DEF TypeOK, syncDirectory

LEMMA WrittenType ==
  ASSUME Shape, Written
  PROVE  /\ queue # <<>> /\ Finish /\ queue' \in Seq(Operation) /\ step' = "idle"
         /\ key \in Session /\ mem[key].kind # "none" /\ mem[key].kind \in Kind
         /\ Head(queue).name \in {"convert", "enqueue", "persist"}
         /\ mem' \in [Session -> Entry]
         /\ \A k \in Session : mem'[k] = IF k = key THEN [mem[k] EXCEPT !.durable = TRUE] ELSE mem[k]
         /\ \A k \in Session : /\ mem'[k].kind = mem[k].kind /\ mem'[k].rows = mem[k].rows
                               /\ mem'[k].version = mem[k].version
         /\ disk' = disk /\ disk' \in [Session -> Ckpt]
         /\ survivors' \in [Session -> SUBSET Ckpt]
         /\ \A k \in Session : survivors'[k] = {disk[k]}
<1>1. /\ queue # <<>> /\ Finish /\ mem[key].kind # "none"
      /\ Head(queue).name \in {"convert", "enqueue", "persist"}
  BY DEF Written, Shape, StepFits
<1>2. key \in Session /\ queue' \in Seq(Operation) /\ step' = "idle"
  BY <1>1, KeyType, Finished DEF Shape
<1>3. mem[key] \in Entry /\ mem[key].kind \in Kind
  BY <1>1, <1>2 DEF Shape, TypeOK, Entry, NoEntry
<1>4. /\ mem' \in [Session -> Entry]
      /\ \A k \in Session : mem'[k] = IF k = key THEN [mem[k] EXCEPT !.durable = TRUE] ELSE mem[k]
  BY <1>1, <1>2, MemType DEF Shape, TypeOK, Written
<1>5. \A k \in Session : /\ mem'[k].kind = mem[k].kind /\ mem'[k].rows = mem[k].rows
                         /\ mem'[k].version = mem[k].version
  BY <1>1, <1>2, <1>3, <1>4, EntryEdits
<1> QED
  BY <1>1, <1>2, <1>3, <1>4, <1>5, SyncType DEF Written, Shape

LEMMA ShapeInit == Init => Shape
  BY TypeInit DEF Init, Shape, ChainFits, StepFits, FlushFits, SnapshotOf, StatusFits

LEMMA ShapeLoading == Shape /\ Loading => Shape'
<1> SUFFICES ASSUME Shape, Loading PROVE Shape'
  OBVIOUS
<1> USE DEF Shape, vars, chain, loop, flags, files, remote, history
<1>1. CASE Load
  <2>1. mem' \in [Session -> Entry]
    BY <1>1, DecodeType DEF Load, TypeOK
  <2>2. TypeOK'
    BY <1>1, <2>1 DEF Load, TypeOK
  <2> QED
    BY <1>1, <2>2 DEF Load, ChainFits, StepFits, FlushFits, SnapshotOf, StatusFits, Fits, FlushOp
<1>2. CASE LoadThrows
  <2>1. TypeOK'
    BY <1>2 DEF LoadThrows, TypeOK
  <2> QED
    BY <1>2, <2>1 DEF LoadThrows, ChainFits, StepFits, FlushFits, SnapshotOf, StatusFits, Fits, FlushOp, key
<1>3. ASSUME NEW k \in Session, CloseInterrupted(k) PROVE Shape'
  <2>1. mem' \in [Session -> Entry] /\ mem'[k] = interrupted(mem[k])
    BY <1>3, MemType, EntryEdits DEF CloseInterrupted, TypeOK
  <2>2. queue' \in Seq(Operation) /\ Len(queue') = 1 /\ queue'[1] = Op("convert", k)
    BY <1>3, OpType DEF CloseInterrupted
  <2>3. TypeOK'
    BY <1>3, <2>1, <2>2 DEF CloseInterrupted, TypeOK
  <2>4. ChainFits'
    BY <1>3, <2>2 DEF CloseInterrupted, ChainFits, Fits, FlushOp, Op
  <2>5. StepFits'
    BY <1>3, <2>1, <2>2 DEF CloseInterrupted, StepFits, key, Op, interrupted
  <2> QED
    BY <1>3, <2>2, <2>3, <2>4, <2>5 DEF CloseInterrupted, FlushFits, SnapshotOf, StatusFits
<1>4. CASE InterruptedClosed
  <2>1. TypeOK'
    BY <1>4, WrittenType DEF InterruptedClosed, TypeOK
  <2>2. ChainFits'
    BY <1>4, FinishFits DEF InterruptedClosed, Written, Running
  <2> QED
    BY <1>4, <2>1, <2>2, FinishStep, WrittenType DEF InterruptedClosed, Written, Running, FlushFits, SnapshotOf
<1>5. CASE CloseInterruptedThrows
  <2>1. queue # <<>> /\ Finish /\ Head(queue).name = "convert"
    BY <1>5 DEF CloseInterruptedThrows, Running, WriteThrows
  <2>2. status = "loading" /\ queue' = <<>>
    BY <2>1, Finished DEF ChainFits, Fits, StatusFits
  <2>3. TypeOK'
    BY <1>5, <2>1, Finished DEF CloseInterruptedThrows, WriteThrows, TypeOK
  <2> QED
    BY <1>5, <2>1, <2>2, <2>3 DEF CloseInterruptedThrows, WriteThrows, Finish,
       ChainFits, StepFits, FlushFits, SnapshotOf, StatusFits
<1>6. CASE Loaded
  <2>1. TypeOK'
    BY <1>6 DEF Loaded, TypeOK
  <2> QED
    BY <1>6, <2>1 DEF Loaded, ChainFits, StepFits, FlushFits, SnapshotOf, StatusFits, Fits, FlushOp, key
<1> QED
  BY <1>1, <1>2, <1>3, <1>4, <1>5, <1>6 DEF Loading

LEMMA ShapeEnqueuing == Shape /\ Enqueuing => Shape'
<1> SUFFICES ASSUME Shape, Enqueuing PROVE Shape'
  OBVIOUS
<1> USE DEF Shape, vars, chain, loop, flags, files, remote, history
<1>1. ASSUME NEW k \in Session, NEW kind \in Kind, NEW rows \in 0..MaxRows,
             Enqueue(k, kind, rows)
      PROVE  Shape'
  <2> DEFINE o == [name |-> "enqueue", key |-> k, kind |-> kind, rows |-> rows]
  <2>1. o \in Operation /\ Chain(o) /\ ~FlushOp(o) /\ Fits(o)'
    BY <1>1, OutboxAssumption DEF Enqueue, Operation, Kind, FlushOp, Fits
  <2>2. status \in {"running", "stopped"} /\ UNCHANGED <<status, mem, flush, sending, timer>>
    BY <1>1 DEF Enqueue, initialized
  <2> HIDE DEF o
  <2>3. TypeOK'
    BY <1>1, <2>1, Chained DEF Enqueue, TypeOK
  <2>4. ChainFits'
    BY <2>1, <2>2, ChainedFits
  <2> QED
    BY <2>1, <2>2, <2>3, <2>4, ChainedStep DEF FlushFits, SnapshotOf
<1>2. CASE EnqueueIgnored
  <2>1. TypeOK'
    BY <1>2, Finished DEF EnqueueIgnored, Running, TypeOK
  <2> QED
    BY <1>2, <2>1, FinishFits, FinishStep DEF EnqueueIgnored, Running, FlushFits, SnapshotOf
<1>3. CASE EnqueueRefused
  <2>1. TypeOK'
    BY <1>3, Finished DEF EnqueueRefused, Running, TypeOK
  <2> QED
    BY <1>3, <2>1, FinishFits, FinishStep DEF EnqueueRefused, Running, FlushFits, SnapshotOf
<1>4. CASE EnqueueMerged
  <2>1. queue # <<>> /\ key \in Session /\ event \in Operation /\ Head(queue) = queue[1] /\ 1 \in 1..Len(queue)
    BY <1>4, KeyType, HeadTail DEF EnqueueMerged, Running, event, TypeOK
  <2>2. event.kind \in Kind /\ Head(queue).name = "enqueue"
    BY <1>4, <2>1 DEF EnqueueMerged, Running, ChainFits, Fits, event
  <2>3. mem' \in [Session -> Entry] /\ mem'[key] = merged(mem[key], event)
    BY <1>4, <2>1, <2>2, MemType, MergedType DEF EnqueueMerged, TypeOK
  <2>4. ahead' \in SUBSET Session
    BY <1>4, <2>1 DEF EnqueueMerged, TypeOK
  <2>5. TypeOK'
    BY <1>4, <2>3, <2>4 DEF EnqueueMerged, TypeOK
  <2>6. mem'[key].kind # "none" /\ ~mem'[key].durable /\ key' = key
    BY <1>4, <2>2, <2>3 DEF merged, Kind, key, EnqueueMerged
  <2>7. ChainFits'
    BY <1>4 DEF EnqueueMerged, ChainFits, Fits, FlushOp
  <2>8. StepFits'
    BY <1>4, <2>1, <2>2, <2>6 DEF EnqueueMerged, StepFits
  <2>9. FlushFits'
    <3>1. mem'[key].version = mem[key].version + 1 /\ mem[key].version \in Nat
      <4>1. mem[key] \in Entry /\ mem[key].version \in Nat
        BY <2>1, MemType, EntryFields
      <4>2. mem'[key].version = mem[key].version + 1
        BY <2>1, <2>2, <2>3, <4>1, MergedType
      <4> QED
        BY <4>1, <4>2
    <3>2. \A k \in Session : k # key => mem'[k] = mem[k]
      BY <1>4, <2>1 DEF EnqueueMerged, TypeOK
    <3>3. ASSUME flush \in {"sending", "settling"}
          PROVE  SnapshotOf(mem[sending.key])'
      <4>1. sending.key \in Session /\ SnapshotOf(mem[sending.key]) /\ sending.version \in Nat
        BY <3>3 DEF FlushFits, TypeOK
      <4> QED
        <5>1. sending' = sending
          BY <1>4 DEF EnqueueMerged
        <5>2. CASE sending.key = key
          BY <2>6, <3>1, <4>1, <5>1, <5>2, MemType, <2>1 DEF SnapshotOf
        <5>3. CASE sending.key # key
          BY <3>2, <4>1, <5>1, <5>3 DEF SnapshotOf
        <5> QED
          BY <5>2, <5>3
    <3> QED
      BY <1>4, <3>3 DEF EnqueueMerged, FlushFits
  <2> QED
    BY <1>4, <2>5, <2>7, <2>8, <2>9 DEF EnqueueMerged, StatusFits
<1>5. CASE EnqueuePersisted
  <2>1. Written /\ UNCHANGED <<status, flush, ahead, sending>> /\ Head(queue).name = "enqueue"
    BY <1>5 DEF EnqueuePersisted, Running
  <2>2. confirmed' \in [Session -> Row]
    <3>1. mem[key].rows \in Nat /\ confirmed[key] \in Row
      BY <2>1, WrittenType, MemType DEF TypeOK, Entry, NoEntry
    <3>2. Upsert(confirmed[key], mem[key]) \in Row
      BY <2>1, <3>1, WrittenType, UpsertType
    <3> QED
      BY <1>5, <3>2 DEF EnqueuePersisted, TypeOK
  <2>3. TypeOK'
    BY <1>5, <2>1, <2>2, WrittenType DEF EnqueuePersisted, TypeOK, schedule, initialized, stopped
  <2> QED
    BY <1>5, <2>1, <2>3, WrittenType, FinishFits, FinishStep
       DEF FlushFits, SnapshotOf, EnqueuePersisted, schedule, initialized, stopped
<1>6. CASE EnqueueThrows
  <2>1. TypeOK'
    BY <1>6, Finished DEF EnqueueThrows, WriteThrows, Running, TypeOK, schedule, initialized, stopped
  <2> QED
    BY <1>6, <2>1, FinishFits, FinishStep
       DEF EnqueueThrows, WriteThrows, Running, FlushFits, SnapshotOf, schedule, initialized, stopped
<1> QED
  BY <1>1, <1>2, <1>3, <1>4, <1>5, <1>6 DEF Enqueuing

\* The three ways flushOnce moves on keep the types and need no chain.
LEMMA LoopMoves ==
  ASSUME Shape, Continue \/ Aborted \/ StartFlush
  PROVE  /\ flush' \in {"off", "next"} /\ ahead' \in SUBSET Session
         /\ sending' \in [key : Session \cup {NoSession}, kind : Kind \cup {"none"},
                          rows : Nat, version : Nat]
         /\ Continue => flush' = "next"
         /\ Aborted => /\ timer' \in BOOLEAN /\ deliveryFailed' = TRUE
                       /\ timer' => timer \/ status = "running"
<1> USE DEF Shape
<1>1. NoSending \in [key : Session \cup {NoSession}, kind : Kind \cup {"none"},
                     rows : Nat, version : Nat]
  BY DEF NoSending
<1>2. CASE Continue
  BY <1>1, <1>2 DEF Continue, Aborted, TypeOK
<1>3. CASE StartFlush
  BY <1>3 DEF StartFlush, Tracked, TypeOK, Aborted, Continue
<1>4. CASE Aborted
  <2>1. timer' \in BOOLEAN /\ (timer' => timer \/ status = "running")
    BY <1>4 DEF Aborted, retry, schedule, initialized, stopped, TypeOK
  <2> QED
    BY <1>1, <1>4, <2>1 DEF Aborted, Continue
<1> QED
  BY <1>2, <1>3, <1>4

LEMMA CapturedMoves ==
  ASSUME Shape, key \in Session, Captured(mem[key]), mem'[key].kind = mem[key].kind,
         mem'[key].rows = mem[key].rows, mem'[key].version = mem[key].version
  PROVE  /\ flush' \in {"next", "sending"} /\ ahead' \in SUBSET Session
         /\ sending' \in [key : Session \cup {NoSession}, kind : Kind \cup {"none"},
                          rows : Nat, version : Nat]
         /\ FlushFits'
<1> USE DEF Shape
<1>1. mem[key] \in Entry
  BY MemType
<1>2. CASE mem[key].kind = "none" \/ mem[key].acknowledged
  BY <1>2, LoopMoves DEF Captured, FlushFits, SnapshotOf, Continue
<1>3. CASE ~(mem[key].kind = "none" \/ mem[key].acknowledged)
  <2>1. /\ flush' = "sending" /\ ahead' = ahead
        /\ sending' = [key |-> key, kind |-> mem[key].kind, rows |-> mem[key].rows,
                       version |-> mem[key].version]
    BY <1>3 DEF Captured
  <2>2. mem[key].kind \in Kind /\ mem[key].rows \in Nat /\ mem[key].version \in Nat
    BY <1>1, <1>3 DEF Entry, NoEntry
  <2> QED
    BY <2>1, <2>2, <1>1, <1>3 DEF FlushFits, SnapshotOf, TypeOK, Kind
<1> QED
  BY <1>2, <1>3

LEMMA ShapeFlushStarts == Shape /\ (TimerFires \/ FlushCalled \/ FlushEnds) => Shape'
<1> SUFFICES ASSUME Shape, TimerFires \/ FlushCalled \/ FlushEnds PROVE Shape'
  OBVIOUS
<1> USE DEF Shape, vars, chain, loop, flags, files, remote, history
<1>1. TypeOK'
  <2>1. CASE TimerFires
    BY <2>1, LoopMoves DEF TimerFires, TypeOK
  <2>2. CASE FlushCalled
    BY <2>2, LoopMoves DEF FlushCalled, TypeOK
  <2>3. CASE FlushEnds
    <3>1. timer' \in BOOLEAN
      BY <2>3 DEF FlushEnds, TypeOK, retry, schedule, initialized, stopped
    <3> QED
      BY <2>3, <3>1 DEF FlushEnds, TypeOK
  <2> QED
    BY <2>1, <2>2, <2>3
<1>2. ChainFits' /\ StepFits' /\ FlushFits'
  BY DEF TimerFires, FlushCalled, FlushEnds, StartFlush, ChainFits, StepFits, FlushFits, SnapshotOf, Fits, FlushOp, key
<1>3. StatusFits'
  BY DEF TimerFires, FlushCalled, FlushEnds, StartFlush, StatusFits, retry, schedule,
         initialized, stopped
<1> QED
  BY <1>1, <1>2, <1>3

LEMMA ShapeVisit == ASSUME Shape, NEW k \in Session, Visit(k) PROVE Shape'
<1> USE DEF Shape, vars, chain, loop, flags, files, remote, history
<1> DEFINE o == Op("persist", k)
<1>1. o \in Operation /\ Chain(o) /\ Fits(o)' /\ flush \notin {"persisting", "settling"}
  BY OpType DEF Visit, Op, Fits, NoSending
<1>2. status \in {"running", "stopped"} /\ UNCHANGED <<status, mem, timer>>
  BY DEF Visit, StatusFits, TypeOK
<1> HIDE DEF o
<1>3. TypeOK'
  BY <1>1, Chained DEF Visit, TypeOK, NoSending
<1>4. ChainFits'
  BY <1>1, <1>2, ChainedFits
<1>5. FlushFits'
  BY DEF Visit, FlushFits, SnapshotOf, NoSending
<1> QED
  BY <1>1, <1>2, <1>3, <1>4, <1>5, ChainedStep

LEMMA ShapeSending ==
  Shape /\ (SendAcknowledged \/ SendThrows \/ LateArrival) => Shape'
<1> SUFFICES ASSUME Shape, SendAcknowledged \/ SendThrows \/ LateArrival PROVE Shape'
  OBVIOUS
<1> USE DEF Shape, vars, chain, loop, flags, files, remote, history
<1>1. CASE SendAcknowledged
  <2>0. PICK s \in Session : s = sending.key
    BY <1>1 DEF SendAcknowledged, FlushFits, SnapshotOf
  <2> DEFINE o == Op("settle", s)
  <2>1. o \in Operation /\ Chain(o) /\ Fits(o)' /\ flush \notin {"persisting", "settling"}
    BY <1>1, <2>0, OpType DEF SendAcknowledged, Op, Fits
  <2>2. status \in {"running", "stopped"} /\ UNCHANGED <<status, mem, timer>>
    BY <1>1 DEF SendAcknowledged, StatusFits, TypeOK
  <2>3. controller' \in [Session -> Row]
    <3>1. sending.key \in Session /\ sending.kind \in Kind /\ sending.rows \in Nat
      BY <1>1 DEF SendAcknowledged, FlushFits, SnapshotOf, TypeOK
    <3>2. Upsert(controller[sending.key], sending) \in Row
      BY <3>1, UpsertType DEF TypeOK
    <3> QED
      BY <1>1, <3>1, <3>2 DEF SendAcknowledged, TypeOK
  <2> HIDE DEF o
  <2>4. TypeOK'
    BY <1>1, <2>1, <2>3, Chained DEF SendAcknowledged, TypeOK
  <2>5. ChainFits'
    BY <2>1, <2>2, ChainedFits
  <2> QED
    BY <1>1, <2>1, <2>2, <2>4, <2>5, ChainedStep DEF FlushFits, SnapshotOf, SendAcknowledged
<1>2. CASE SendThrows
  <2>1. wire' \in SUBSET [key : Session, kind : Kind, rows : Nat]
    BY <1>2 DEF SendThrows, FlushFits, SnapshotOf, TypeOK
  <2>2. TypeOK'
    BY <1>2, <2>1, LoopMoves DEF SendThrows, TypeOK
  <2> QED
    BY <1>2, <2>2, LoopMoves DEF SendThrows, Aborted, ChainFits, StepFits, FlushFits, SnapshotOf, StatusFits, Fits, FlushOp, key
<1>3. CASE LateArrival
  <2>1. controller' \in [Session -> Row]
    <3>1. PICK m \in wire : controller' = [controller EXCEPT ![m.key] = Upsert(@, m)]
      BY <1>3 DEF LateArrival
    <3>2. m.key \in Session /\ m.kind \in Kind /\ m.rows \in Nat
      BY <3>1 DEF TypeOK
    <3>3. Upsert(controller[m.key], m) \in Row
      BY <3>2, UpsertType DEF TypeOK
    <3> QED
      BY <3>1, <3>2, <3>3 DEF TypeOK
  <2>2. TypeOK'
    BY <1>3, <2>1 DEF LateArrival, TypeOK
  <2> QED
    BY <1>3, <2>2 DEF LateArrival, ChainFits, StepFits, FlushFits, SnapshotOf, StatusFits, Fits, FlushOp, key
<1> QED
  BY <1>1, <1>2, <1>3

LEMMA ShapePersist ==
  Shape /\ (PersistSkipped \/ PersistStarts \/ Persisted \/ PersistThrows) => Shape'
<1> SUFFICES ASSUME Shape, PersistSkipped \/ PersistStarts \/ Persisted \/ PersistThrows
             PROVE  Shape'
  OBVIOUS
<1> USE DEF Shape, vars, chain, loop, flags, files, remote, history
<1>1. queue # <<>> /\ key \in Session /\ Head(queue) = queue[1] /\ 1 \in 1..Len(queue) /\ Head(queue).name = "persist"
  BY KeyType, HeadTail DEF PersistSkipped, PersistStarts, Persisted, PersistThrows, Running, TypeOK
<1>2. FlushOp(Head(queue)) /\ flush = "persisting"
  BY <1>1 DEF ChainFits, Fits, FlushOp
<1>3. CASE PersistSkipped
  <2>1. TypeOK'
    BY <1>1, <1>3, Finished, CapturedMoves DEF PersistSkipped, TypeOK
  <2> QED
    BY <1>1, <1>2, <1>3, <2>1, FinishFits, FinishStep, CapturedMoves DEF PersistSkipped
<1>4. CASE PersistStarts
  <2>1. TypeOK'
    BY <1>4 DEF PersistStarts, TypeOK
  <2> QED
    BY <1>1, <1>4, <2>1 DEF PersistStarts, ChainFits, StepFits, FlushFits, SnapshotOf, StatusFits,
       Fits, FlushOp, Tracked, key
<1>5. CASE Persisted
  <2>0. /\ mem'[key].kind = mem[key].kind /\ mem'[key].rows = mem[key].rows
        /\ mem'[key].version = mem[key].version
    BY <1>5, WrittenType, EntryEdits, MemType DEF Persisted
  <2>1. TypeOK'
    BY <1>1, <1>5, <2>0, WrittenType, CapturedMoves DEF Persisted, TypeOK
  <2> QED
    BY <1>1, <1>2, <1>5, <2>0, <2>1, WrittenType, FinishFits, FinishStep, CapturedMoves DEF Persisted
<1>6. CASE PersistThrows
  <2>1. TypeOK'
    BY <1>1, <1>6, Finished, LoopMoves DEF PersistThrows, WriteThrows, TypeOK
  <2>2. FlushFits'
    BY <1>6, LoopMoves DEF PersistThrows, FlushFits, SnapshotOf
  <2> QED
    BY <1>1, <1>2, <1>6, <2>1, <2>2, FinishFits, FinishStep, LoopMoves DEF PersistThrows, WriteThrows
<1> QED
  BY <1>3, <1>4, <1>5, <1>6

LEMMA ShapeSettle ==
  Shape /\ (SettleStale \/ SettleOpen \/ SettleClosed \/ FileRemoved \/ Removed \/ RemoveThrows)
    => Shape'
<1> SUFFICES ASSUME Shape,
                    \/ SettleStale \/ SettleOpen \/ SettleClosed
                    \/ FileRemoved \/ Removed \/ RemoveThrows
             PROVE  Shape'
  OBVIOUS
<1> USE DEF Shape, vars, chain, loop, flags, files, remote, history
<1>1. /\ queue # <<>> /\ key \in Session /\ Head(queue) = queue[1] /\ 1 \in 1..Len(queue)
      /\ Head(queue).name = "settle"
  BY KeyType, HeadTail
     DEF SettleStale, SettleOpen, SettleClosed, FileRemoved, Removed, RemoveThrows,
         Running, TypeOK, StepFits
<1>2. FlushOp(Head(queue)) /\ flush = "settling" /\ key = sending.key
  BY <1>1 DEF ChainFits, Fits, FlushOp, key
<1>3. CASE SettleStale
  <2>1. TypeOK'
    BY <1>1, <1>3, Finished, LoopMoves DEF SettleStale, TypeOK
  <2> QED
    BY <1>1, <1>2, <1>3, <2>1, FinishFits, FinishStep DEF SettleStale, Continue, FlushFits, SnapshotOf
<1>4. CASE SettleOpen
  <2>1. mem[key].kind # "none"
    BY <1>2 DEF FlushFits, SnapshotOf
  <2>2. mem' \in [Session -> Entry]
    BY <1>1, <1>4, <2>1, MemType DEF SettleOpen
  <2>3. TypeOK'
    BY <1>1, <1>4, <2>2, Finished, LoopMoves DEF SettleOpen, TypeOK
  <2> QED
    BY <1>1, <1>2, <1>4, <2>3, FinishFits, FinishStep DEF SettleOpen, Continue, FlushFits, SnapshotOf
<1>5. CASE SettleClosed
  <2>1. TypeOK'
    BY <1>5 DEF SettleClosed, TypeOK
  <2> QED
    BY <1>1, <1>5, <2>1 DEF SettleClosed, ChainFits, StepFits, FlushFits, SnapshotOf, StatusFits, Fits, FlushOp
<1>6. CASE FileRemoved
  <2>1. TypeOK'
    BY <1>1, <1>6, Absent DEF FileRemoved, TypeOK
  <2> QED
    BY <1>1, <1>6, <2>1 DEF FileRemoved, ChainFits, StepFits, FlushFits, SnapshotOf, StatusFits, Fits, FlushOp
<1>7. CASE Removed
  <2>1. mem' \in [Session -> Entry]
    BY <1>1, <1>7, MemType, Absent DEF Removed
  <2>2. TypeOK'
    BY <1>1, <1>7, <2>1, Finished, LoopMoves, SyncType DEF Removed, TypeOK
  <2> QED
    BY <1>1, <1>2, <1>7, <2>2, FinishFits, FinishStep DEF Removed, Continue, FlushFits, SnapshotOf
<1>8. CASE RemoveThrows
  <2>1. TypeOK'
    BY <1>1, <1>8, Finished, LoopMoves DEF RemoveThrows, TypeOK
  <2> QED
    BY <1>1, <1>2, <1>8, <2>1, FinishFits, FinishStep, LoopMoves DEF RemoveThrows, FlushFits, SnapshotOf
<1> QED
  BY <1>3, <1>4, <1>5, <1>6, <1>7, <1>8

LEMMA ShapeRename == Shape /\ Rename => Shape'
<1> SUFFICES ASSUME Shape, Rename PROVE Shape'
  OBVIOUS
<1> USE DEF Shape, vars, chain, loop, flags, files, remote, history
<1>1. queue # <<>> /\ key \in Session /\ encode(mem[key]) \in Ckpt
  BY KeyType, MemType, EncodeType DEF Rename, StepFits
<1>2. TypeOK'
  BY <1>1 DEF Rename, TypeOK
<1> QED
  BY <1>1, <1>2 DEF Rename, ChainFits, StepFits, FlushFits, SnapshotOf, StatusFits, Fits, FlushOp, key

LEMMA ShapeEnds == Shape /\ (Stop \/ Exit \/ Crash) => Shape'
<1> SUFFICES ASSUME Shape, Stop \/ Exit \/ Crash PROVE Shape'
  OBVIOUS
<1> USE DEF Shape, vars, chain, loop, flags, files, remote, history
<1>1. CASE Stop
  <2>1. TypeOK'
    BY <1>1 DEF Stop, TypeOK
  <2> QED
    BY <1>1, <2>1 DEF Stop, ChainFits, StepFits, FlushFits, SnapshotOf, StatusFits, Fits, FlushOp, key
<1>2. ASSUME MemoryLost
      PROVE  /\ status' \in {"down"} /\ mem' \in [Session -> Entry] /\ queue' \in Seq(Operation)
             /\ queue' = <<>> /\ step' = "idle" /\ flush' = "off" /\ ahead' = {}
             /\ sending' \in [key : Session \cup {NoSession}, kind : Kind \cup {"none"},
                              rows : Nat, version : Nat]
             /\ timer' = FALSE /\ storageFailed' = FALSE /\ deliveryFailed' = FALSE
             /\ ChainFits' /\ StepFits' /\ FlushFits' /\ StatusFits'
  BY <1>2, Absent DEF MemoryLost, NoSending, ChainFits, StepFits, FlushFits, SnapshotOf, StatusFits
<1>3. CASE Exit
  <2>1. TypeOK'
    BY <1>2, <1>3 DEF Exit, TypeOK
  <2> QED
    BY <1>2, <1>3, <2>1 DEF Exit
<1>4. CASE Crash
  <2>1. disk' \in [Session -> Ckpt] /\ survivors' \in [Session -> SUBSET Ckpt]
    BY <1>4 DEF Crash, TypeOK
  <2>2. TypeOK'
    BY <1>2, <1>4, <2>1 DEF Crash, TypeOK
  <2> QED
    BY <1>2, <1>4, <2>2 DEF Crash
<1> QED
  BY <1>1, <1>3, <1>4

LEMMA ShapeStutter == Shape /\ UNCHANGED vars => Shape'
  BY DEF Shape, vars, chain, loop, flags, files, remote, history, TypeOK, ChainFits,
         StepFits, FlushFits, SnapshotOf, StatusFits, Fits, FlushOp, key

LEMMA ShapeStep == Shape /\ [Next]_vars => Shape'
  BY ShapeLoading, ShapeEnqueuing, ShapeFlushStarts, ShapeVisit, ShapePersist,
     ShapeSending, ShapeSettle, ShapeRename, ShapeEnds, ShapeStutter
     DEF Next, Flushing

\* The state always has the types of TypeOK, however the handlers interleave.
THEOREM TypeCorrect == Spec => []TypeOK
<1>1. Shape => TypeOK
  BY DEF Shape
<1> QED
  BY <1>1, ShapeInit, ShapeStep, PTL DEF Spec

-----------------------------------------------------------------------------
(* No evidence is lost.  EvidenceRetained speaks of the files only.  It is  *)
(* inductive together with what memory still knows of every confirmed       *)
(* checkpoint (the next write comes from there) and with what the           *)
(* controller already has when a file is about to be removed.               *)

InProcess == status \in {"loading", "running", "stopped"}

Kept(k) == RowsRetained(k) /\ CloseRetained(k) /\ OpenRetained(k)

InMemory(k) ==
  InProcess =>
    /\ mem[k].rows >= confirmed[k].rows \/ controller[k].rows >= confirmed[k].rows
    /\ confirmed[k].kind = "closed" => mem[k].kind = "closed" \/ controller[k].kind = "closed"
    /\ confirmed[k].kind # "none" => mem[k].kind # "none" \/ controller[k].kind = "closed"
    /\ disk[k].kind = "closed" => mem[k].kind = "closed"

Visible(k) == disk[k] \in survivors[k]

StepMeans ==
  /\ step = "renamed" => disk[key] = encode(mem[key])
  /\ step \in {"removing", "removed"} =>
       mem[key].version = sending.version /\ sending.kind = "closed"
  /\ step = "removed" => disk[key] = NoCkpt

SendMeans ==
  flush = "settling" =>
    /\ controller[sending.key].rows >= sending.rows
    /\ sending.kind = "closed" => controller[sending.key].kind = "closed"

IInv ==
  /\ Shape /\ StepMeans /\ SendMeans
  /\ \A k \in Session : Kept(k) /\ InMemory(k) /\ Visible(k)

LEMMA Fields ==
  ASSUME TypeOK, NEW k \in Session
  PROVE  /\ mem[k] \in Entry /\ mem[k].rows \in Nat /\ mem[k].version \in Nat
         /\ disk[k] \in Ckpt /\ disk[k].rows \in Nat
         /\ \A c \in survivors[k] : c \in Ckpt /\ c.rows \in Nat
         /\ controller[k] \in Row /\ controller[k].rows \in Nat
         /\ confirmed[k] \in Row /\ confirmed[k].rows \in Nat
<1>1. /\ mem[k] \in Entry /\ disk[k] \in Ckpt /\ \A c \in survivors[k] : c \in Ckpt
      /\ controller[k] \in Row /\ confirmed[k] \in Row
  BY DEF TypeOK
<1>2. \A e \in Entry : e.rows \in Nat /\ e.version \in Nat
  BY EntryFields
<1>3. \A c \in Ckpt : c.rows \in Nat
  BY DEF Ckpt, NoCkpt
<1>4. \A r \in Row : r.rows \in Nat
  BY DEF Row, NoRow
<1> QED
  BY <1>1, <1>2, <1>3, <1>4

\* A write that is under way runs in a live process.
LEMMA Writing ==
  ASSUME IInv, step # "idle"
  PROVE  queue # <<>> /\ key \in Session /\ InProcess
<1>1. queue # <<>>
  BY DEF IInv, Shape, StepFits
<1> QED
  BY <1>1, KeyType DEF IInv, Shape, StatusFits, TypeOK, InProcess

\* When a file is being removed, the controller has all of it.
LEMMA Removing ==
  ASSUME IInv, step \in {"removing", "removed"}
  PROVE  /\ flush = "settling" /\ key = sending.key /\ key \in Session
         /\ mem[key].kind = "closed" /\ controller[key].kind = "closed"
         /\ controller[key].rows >= mem[key].rows
         /\ controller[key].rows >= confirmed[key].rows
<1>1. queue # <<>> /\ key \in Session /\ InProcess /\ Head(queue).name = "settle"
  BY Writing DEF IInv, Shape, StepFits
<1>2. flush = "settling" /\ key = sending.key
  <2>1. 1 \in 1..Len(queue) /\ Head(queue) = queue[1]
    BY <1>1, HeadTail DEF IInv, Shape, TypeOK
  <2> QED
    BY <1>1, <2>1 DEF IInv, Shape, ChainFits, Fits, key
<1>3. mem[key].kind = "closed" /\ mem[key].rows = sending.rows
  BY <1>2 DEF IInv, Shape, FlushFits, SnapshotOf, StepMeans
<1>4. controller[key].kind = "closed" /\ controller[key].rows >= mem[key].rows
  BY <1>2, <1>3 DEF IInv, StepMeans, SendMeans
<1>5. controller[key].rows >= confirmed[key].rows
  BY <1>1, <1>4, Fields DEF IInv, Shape, InMemory
<1> QED
  BY <1>1, <1>2, <1>3, <1>4, <1>5

\* Steps that leave the files alone, of which memory and the controller only
\* learn more, keep a session's evidence.
LEMMA Stays ==
  ASSUME IInv, TypeOK', NEW k \in Session, UNCHANGED <<disk, survivors, confirmed>>,
         controller'[k].rows >= controller[k].rows,
         controller[k].kind = "closed" => controller'[k].kind = "closed",
         InProcess' => /\ InProcess
                       /\ mem'[k].rows >= mem[k].rows
                       /\ mem[k].kind = "closed" => mem'[k].kind = "closed"
                       /\ mem[k].kind # "none" => mem'[k].kind # "none"
  PROVE  Kept(k)' /\ InMemory(k)' /\ Visible(k)'
<1>0. controller'[k] \in Row /\ mem'[k] \in Entry
  BY DEF TypeOK
<1> /\ mem[k].rows \in Nat /\ controller[k].rows \in Nat /\ confirmed[k].rows \in Nat
    /\ controller'[k].rows \in Nat /\ mem'[k].rows \in Nat
    /\ \A c \in survivors[k] : c.rows \in Nat
  BY <1>0, Fields, EntryFields DEF IInv, Shape, Row, NoRow
<1>1. Kept(k)' /\ Visible(k)'
  BY DEF IInv, Kept, Visible, RowsRetained, CloseRetained, OpenRetained
<1>2. InMemory(k)'
  BY DEF IInv, InMemory
<1> QED
  BY <1>1, <1>2

\* The operation under way and the entry being settled are the same as before.
LEMMA MeansStay ==
  ASSUME IInv, TypeOK',
         step' # "idle" =>
           /\ step' = step /\ queue # <<>> /\ Head(queue') = Head(queue)
           /\ mem'[key] = mem[key] /\ disk' = disk,
         step' \in {"removing", "removed"} => sending' = sending,
         flush' = "settling" => flush = "settling" /\ sending' = sending,
         \A k \in Session :
           /\ controller'[k].rows >= controller[k].rows
           /\ controller[k].kind = "closed" => controller'[k].kind = "closed"
  PROVE  StepMeans' /\ SendMeans'
<1>1. StepMeans'
  BY DEF IInv, StepMeans, key
<1>2. ASSUME flush = "settling", flush' = "settling"
      PROVE  SendMeans'
  <2>1. PICK k \in Session : k = sending.key
    BY <1>2 DEF IInv, Shape, FlushFits
  <2>2. controller[k].rows \in Nat /\ controller'[k] \in Row /\ sending.rows \in Nat
    BY Fields DEF IInv, Shape, TypeOK
  <2>3. controller'[k].rows \in Nat
    BY <2>2 DEF Row, NoRow
  <2> QED
    BY <1>2, <2>1, <2>2, <2>3 DEF IInv, SendMeans
<1> QED
  BY <1>1, <1>2 DEF SendMeans

LEMMA KeptInit == Init => IInv
<1> SUFFICES ASSUME Init PROVE IInv
  OBVIOUS
<1>1. Shape
  BY ShapeInit
<1>2. StepMeans /\ SendMeans
  BY DEF Init, StepMeans, SendMeans
<1>3. \A k \in Session : Kept(k) /\ InMemory(k) /\ Visible(k)
  BY Absent DEF Init, Kept, RowsRetained, CloseRetained, OpenRetained, InMemory, InProcess, Visible
<1> QED
  BY <1>1, <1>2, <1>3 DEF IInv

Evidence == \A k \in Session : Kept(k) /\ InMemory(k) /\ Visible(k)

\* The sync after a rename: only the file that is now visible survives a crash.
LEMMA KeptWritten ==
  ASSUME IInv, TypeOK', Written, UNCHANGED <<status, remote, confirmed>>,
         flush' = "settling" => flush = "settling" /\ sending' = sending
  PROVE  Evidence' /\ StepMeans' /\ SendMeans'
<1> USE DEF remote
<1>1. ASSUME NEW k \in Session PROVE Kept(k)' /\ InMemory(k)' /\ Visible(k)'
  <2>1. /\ mem'[k].kind = mem[k].kind /\ mem'[k].rows = mem[k].rows
        /\ disk' = disk /\ survivors'[k] = {disk[k]}
    BY WrittenType DEF IInv
  <2>2. Kept(k) /\ Visible(k) /\ InMemory(k)
    BY DEF IInv
  <2>3. Kept(k)' /\ Visible(k)'
    BY <2>1, <2>2 DEF Kept, RowsRetained, CloseRetained, OpenRetained, Visible
  <2>4. InMemory(k)'
    BY <2>1, <2>2 DEF InMemory, InProcess
  <2> QED
    BY <2>3, <2>4
<1>2. step' = "idle" /\ \A k \in Session : controller[k].rows \in Nat
  BY WrittenType, Fields DEF IInv, Shape
<1> QED
  BY <1>1, <1>2, MeansStay DEF Evidence

LEMMA KeptLoading == IInv /\ TypeOK' /\ Loading => Evidence' /\ StepMeans' /\ SendMeans'
<1> SUFFICES ASSUME IInv, TypeOK', Loading PROVE Evidence' /\ StepMeans' /\ SendMeans'
  OBVIOUS
<1> USE DEF vars, chain, loop, flags, files, remote, history
<1>0. /\ \A k \in Session : /\ mem[k].rows \in Nat /\ controller[k].rows \in Nat
                            /\ confirmed[k].rows \in Nat /\ disk[k] \in Ckpt
      /\ step # "idle" => queue # <<>>
      /\ TypeOK
  BY Fields DEF IInv, Shape, StepFits
<1>1. CASE Load
  <2>1. StepMeans' /\ SendMeans'
    BY <1>0, <1>1 DEF Load, IInv, Shape, StatusFits, StepMeans, SendMeans, StepFits
  <2>2. ASSUME NEW k \in Session PROVE Kept(k)' /\ InMemory(k)' /\ Visible(k)'
    <3>1. Kept(k) /\ Visible(k) /\ UNCHANGED <<disk, survivors, controller, confirmed>>
      BY <1>1 DEF Load, IInv
    <3>2. mem'[k].kind = disk[k].kind /\ mem'[k].rows = disk[k].rows
      BY <1>0, <1>1, DecodeType DEF Load
    <3> QED
      BY <3>1, <3>2 DEF Kept, RowsRetained, CloseRetained, OpenRetained, InMemory, Visible
  <2> QED
    BY <2>1, <2>2 DEF Evidence
<1>2. CASE LoadThrows \/ Loaded
  <2>1. /\ UNCHANGED <<mem, chain, loop, files, remote, confirmed>>
        /\ InProcess' => InProcess
    BY <1>2 DEF LoadThrows, Loaded, InProcess
  <2> QED
    BY <1>0, <2>1, Stays, MeansStay DEF Evidence
<1>3. ASSUME NEW k \in Session, CloseInterrupted(k)
      PROVE  Evidence' /\ StepMeans' /\ SendMeans'
  <2>1. /\ UNCHANGED <<files, remote, confirmed, loop, status>> /\ InProcess
        /\ \A j \in Session : mem'[j] = IF j = k THEN interrupted(mem[k]) ELSE mem[j]
    BY <1>0, <1>3 DEF CloseInterrupted, InProcess, TypeOK
  <2>2. \A j \in Session : mem'[j].rows = mem[j].rows /\ (mem[j].kind = "closed" => mem'[j].kind = "closed") /\ (mem[j].kind # "none" => mem'[j].kind # "none")
    BY <1>3, <2>1 DEF interrupted, CloseInterrupted
  <2>3. StepMeans' /\ SendMeans'
    BY <1>3 DEF CloseInterrupted, IInv, StepMeans, SendMeans, Shape, StatusFits
  <2> QED
    BY <1>0, <2>1, <2>2, <2>3, Stays DEF Evidence
<1>4. CASE InterruptedClosed
  BY <1>4, KeptWritten DEF InterruptedClosed
<1>5. CASE CloseInterruptedThrows
  <2>1. /\ UNCHANGED <<mem, loop, files, remote, confirmed>> /\ step' = "idle" /\ ~InProcess'
    BY <1>5 DEF CloseInterruptedThrows, WriteThrows, Finish, InProcess
  <2> QED
    BY <1>0, <2>1, Stays, MeansStay DEF Evidence
<1> QED
  BY <1>1, <1>2, <1>3, <1>4, <1>5 DEF Loading

LEMMA KeptEnqueuing == IInv /\ TypeOK' /\ Enqueuing => Evidence' /\ StepMeans' /\ SendMeans'
<1> SUFFICES ASSUME IInv, TypeOK', Enqueuing PROVE Evidence' /\ StepMeans' /\ SendMeans'
  OBVIOUS
<1> USE DEF vars, chain, loop, flags, files, remote, history
<1>0. /\ \A k \in Session : /\ mem[k].rows \in Nat /\ controller[k].rows \in Nat
                            /\ confirmed[k].rows \in Nat /\ mem[k] \in Entry
      /\ step # "idle" => queue # <<>>
      /\ TypeOK
  BY Fields DEF IInv, Shape, StepFits
<1>1. ASSUME NEW k \in Session, NEW kind \in Kind, NEW rows \in 0..MaxRows, Enqueue(k, kind, rows)
      PROVE  Evidence' /\ StepMeans' /\ SendMeans'
  <2>1. [name |-> "enqueue", key |-> k, kind |-> kind, rows |-> rows] \in Operation
    BY DEF Operation
  <2>2. /\ step' = step /\ (queue # <<>> => Head(queue') = Head(queue))
        /\ UNCHANGED <<mem, loop, files, remote, confirmed, status>>
    BY <1>0, <1>1, <2>1, Chained DEF Enqueue
  <2> QED
    BY <1>0, <2>2, Stays, MeansStay DEF Evidence, InProcess
<1>2. CASE EnqueueIgnored \/ EnqueueRefused \/ EnqueueThrows
  <2>1. /\ UNCHANGED <<mem, loop, files, remote, confirmed, status>> /\ step' = "idle"
    BY <1>2 DEF EnqueueIgnored, EnqueueRefused, EnqueueThrows, WriteThrows, Finish
  <2> QED
    BY <1>0, <2>1, Stays, MeansStay DEF Evidence, InProcess
<1>3. CASE EnqueueMerged
  <2>1. key \in Session /\ Head(queue) \in Operation /\ event.kind \in Kind
    <3>1. queue # <<>> /\ Head(queue).name = "enqueue"
      BY <1>3 DEF EnqueueMerged, Running
    <3>2. Head(queue) \in Operation /\ key \in Session /\ 1 \in 1..Len(queue) /\ Head(queue) = queue[1]
      BY <1>0, <3>1, KeyType, HeadTail DEF TypeOK
    <3> QED
      BY <3>1, <3>2 DEF IInv, Shape, ChainFits, Fits, event
  <2>2. ASSUME NEW k \in Session
        PROVE  /\ mem'[k].rows >= mem[k].rows
               /\ mem[k].kind = "closed" => mem'[k].kind = "closed"
               /\ mem'[k].kind = "none" => mem[k].kind = "none"
    <3>1. mem'[k] = IF k = key THEN merged(mem[k], event) ELSE mem[k]
      BY <1>0, <1>3, <2>1 DEF EnqueueMerged, TypeOK
    <3>2. CASE k = key
      <4>1. merged(mem[k], event).kind = event.kind /\ merged(mem[k], event).rows >= mem[k].rows
        BY <1>0, <2>1, MergedType DEF event
      <4> QED
        BY <1>3, <2>1, <3>1, <3>2, <4>1 DEF EnqueueMerged, ClosedAlready, Kind
    <3> QED
      BY <1>0, <3>1, <3>2
  <2>3. /\ UNCHANGED <<flush, sending, files, remote, confirmed, status>> /\ step' = "writing"
    BY <1>3 DEF EnqueueMerged
  <2>4. StepMeans' /\ SendMeans'
    BY <2>3 DEF StepMeans, SendMeans, IInv
  <2> QED
    BY <1>0, <2>2, <2>3, <2>4, Stays DEF Evidence, InProcess
<1>4. CASE EnqueuePersisted
  <2>1. /\ Written /\ UNCHANGED <<status, loop, remote>> /\ key \in Session
        /\ confirmed' = [confirmed EXCEPT ![key] = Upsert(@, mem[key])]
        /\ step = "renamed"
    BY <1>4, WrittenType DEF EnqueuePersisted, Written, IInv
  <2>2. ASSUME NEW k \in Session PROVE Kept(k)' /\ InMemory(k)' /\ Visible(k)'
    <3>1. /\ mem'[k].kind = mem[k].kind /\ mem'[k].rows = mem[k].rows
          /\ disk' = disk /\ survivors'[k] = {disk[k]}
      BY <2>1, WrittenType DEF IInv
    <3>2. Kept(k) /\ Visible(k) /\ InMemory(k)
      BY DEF IInv
    <3>3. CASE k # key
      <4>1. confirmed'[k] = confirmed[k]
        BY <1>0, <2>1, <3>3 DEF TypeOK
      <4>2. Kept(k)' /\ Visible(k)'
        BY <2>1, <3>1, <3>2, <4>1 DEF Kept, RowsRetained, CloseRetained, OpenRetained, Visible
      <4>3. InMemory(k)'
        BY <2>1, <3>1, <3>2, <4>1 DEF InMemory, InProcess
      <4> QED
        BY <4>2, <4>3
    <3>4. CASE k = key
      <4>1. confirmed'[k] = Upsert(confirmed[k], mem[k])
        BY <1>0, <2>1, <3>4 DEF TypeOK
      <4>2. mem[k].kind \in Kind /\ disk[k].kind = mem[k].kind /\ disk[k].rows = mem[k].rows
        BY <2>1, <3>4, WrittenType, EncodeType, <1>0 DEF IInv, StepMeans
      <4>3. /\ Upsert(confirmed[k], mem[k]).rows \in {confirmed[k].rows, mem[k].rows}
            /\ Upsert(confirmed[k], mem[k]).kind = "closed" =>
                 confirmed[k].kind = "closed" \/ mem[k].kind = "closed"
        BY <1>0, <4>2, UpsertType, SMTT(20) DEF TypeOK
      <4>4. Kept(k)'
        <5>1. controller' = controller /\ \A c \in survivors'[k] : c = disk[k]
          BY <2>1, <3>1
        <5>2. RowsRetained(k)'
          BY <1>0, <3>2, <4>1, <4>2, <4>3, <5>1 DEF Kept, RowsRetained, Visible
        <5>3. CloseRetained(k)'
          BY <3>2, <4>1, <4>2, <4>3, <5>1 DEF Kept, CloseRetained, Visible
        <5>4. OpenRetained(k)'
          BY <4>2, <5>1 DEF OpenRetained, Kind
        <5> QED
          BY <5>2, <5>3, <5>4 DEF Kept
      <4>5. InMemory(k)' /\ Visible(k)'
        BY <1>0, <2>1, <3>1, <3>2, <4>1, <4>2, <4>3 DEF InMemory, InProcess, Visible, Kind
      <4> QED
        BY <4>4, <4>5
    <3> QED
      BY <3>3, <3>4
  <2>3. StepMeans' /\ SendMeans'
    BY <1>0, <2>1, WrittenType, MeansStay DEF IInv
  <2> QED
    BY <2>2, <2>3 DEF Evidence
<1> QED
  BY <1>1, <1>2, <1>3, <1>4 DEF Enqueuing

\* The actions of the flush that change no entry, no file and no report.
LEMMA LoopStays ==
  ASSUME IInv, TypeOK', UNCHANGED <<files, controller, mem, confirmed, status>>,
         \/ step' \in {"idle", "writing"}
         \/ step' = step /\ queue # <<>> /\ Head(queue') = Head(queue),
         flush' # "settling" \/ UNCHANGED <<flush, sending>>,
         step' \in {"removing", "removed"} => UNCHANGED sending
  PROVE  Evidence' /\ StepMeans' /\ SendMeans'
<1> USE DEF files
<1>0. \A k \in Session : /\ mem[k].rows \in Nat /\ controller[k].rows \in Nat
                         /\ confirmed[k].rows \in Nat
  BY Fields DEF IInv, Shape
<1>1. Evidence'
  BY <1>0, Stays DEF Evidence, InProcess
<1>2. SendMeans'
  BY DEF IInv, SendMeans
<1>3. StepMeans'
  <2>1. CASE step' \in {"idle", "writing"}
    BY <2>1 DEF StepMeans
  <2>2. CASE step' = step /\ queue # <<>> /\ Head(queue') = Head(queue)
    BY <2>2 DEF IInv, StepMeans, key
  <2> QED
    BY <2>1, <2>2
<1> QED
  BY <1>1, <1>2, <1>3

LEMMA KeptLoop ==
  /\ IInv /\ TypeOK'
  /\ \/ TimerFires \/ FlushCalled \/ FlushEnds \/ (\E k \in Session : Visit(k))
     \/ PersistSkipped \/ PersistStarts \/ Persisted \/ PersistThrows \/ SendThrows
  => Evidence' /\ StepMeans' /\ SendMeans'
<1> SUFFICES ASSUME IInv, TypeOK',
                    \/ TimerFires \/ FlushCalled \/ FlushEnds \/ (\E k \in Session : Visit(k))
                    \/ PersistSkipped \/ PersistStarts \/ Persisted \/ PersistThrows \/ SendThrows
             PROVE  Evidence' /\ StepMeans' /\ SendMeans'
  OBVIOUS
<1> USE DEF vars, chain, loop, flags, files, remote, history
<1>0. /\ step # "idle" => queue # <<>>
      /\ step \in {"removing", "removed"} => flush = "settling"
      /\ step \in {"idle", "writing", "renamed", "removing", "removed"}
      /\ TypeOK
  BY Removing DEF IInv, Shape, StepFits, TypeOK
<1>1. CASE TimerFires \/ FlushCalled \/ FlushEnds
  <2>1. /\ UNCHANGED <<files, controller, mem, confirmed, status, chain, sending>>
        /\ flush' # "settling" \/ flush' = flush
    BY <1>1 DEF TimerFires, FlushCalled, FlushEnds, StartFlush
  <2> QED
    BY <1>0, <2>1, LoopStays
<1>2. ASSUME NEW k \in Session, Visit(k) PROVE Evidence' /\ StepMeans' /\ SendMeans'
  <2>1. /\ UNCHANGED <<files, controller, mem, confirmed, status>>
        /\ flush = "next" /\ flush' = "persisting"
        /\ step' = step /\ (queue # <<>> => Head(queue') = Head(queue))
    BY <1>0, <1>2, OpType, Chained DEF Visit
  <2> QED
    BY <1>0, <2>1, LoopStays
<1>3. CASE PersistSkipped \/ PersistStarts \/ PersistThrows
  <2>1. /\ UNCHANGED <<files, controller, mem, confirmed, status>> /\ step' \in {"idle", "writing"}
    BY <1>3 DEF PersistSkipped, PersistStarts, PersistThrows, WriteThrows, Finish
  <2>2. flush' # "settling" \/ UNCHANGED <<flush, sending>>
    BY <1>3 DEF PersistSkipped, PersistStarts, PersistThrows, Captured, Aborted, Continue
  <2> QED
    BY <2>1, <2>2, LoopStays
<1>4. CASE SendThrows
  <2>1. /\ UNCHANGED <<files, controller, mem, confirmed, status, chain>>
        /\ flush = "sending" /\ flush' = "off"
    BY <1>4 DEF SendThrows, Aborted
  <2> QED
    BY <1>0, <2>1, LoopStays
<1>5. CASE Persisted
  <2>1. flush' # "settling" /\ Written
    BY <1>5 DEF Persisted, Captured, Continue
  <2> QED
    BY <1>5, <2>1, KeptWritten DEF Persisted
<1> QED
  BY <1>1, <1>2, <1>3, <1>4, <1>5

LEMMA KeptReports ==
  IInv /\ TypeOK' /\ (SendAcknowledged \/ LateArrival) => Evidence' /\ StepMeans' /\ SendMeans'
<1> SUFFICES ASSUME IInv, TypeOK', SendAcknowledged \/ LateArrival
             PROVE  Evidence' /\ StepMeans' /\ SendMeans'
  OBVIOUS
<1> USE DEF vars, chain, loop, flags, files, remote, history
<1>0. /\ \A k \in Session : /\ mem[k].rows \in Nat /\ controller[k].rows \in Nat
                            /\ confirmed[k].rows \in Nat /\ controller[k] \in Row
      /\ step # "idle" => queue # <<>>
      /\ step \in {"removing", "removed"} => flush = "settling"
      /\ TypeOK /\ Shape
  BY Fields, Removing DEF IInv, Shape, StepFits
<1>1. ASSUME NEW m, m.key \in Session, m.kind \in Kind, m.rows \in Nat,
             controller' = [controller EXCEPT ![m.key] = Upsert(@, m)]
      PROVE  \A k \in Session :
               /\ controller'[k].rows >= controller[k].rows
               /\ controller[k].kind = "closed" => controller'[k].kind = "closed"
               /\ k = m.key => /\ controller'[k].rows >= m.rows
                               /\ m.kind = "closed" => controller'[k].kind = "closed"
  <2>1. /\ Upsert(controller[m.key], m).rows >= controller[m.key].rows
        /\ Upsert(controller[m.key], m).rows >= m.rows
        /\ controller[m.key].kind = "closed" \/ m.kind = "closed" =>
             Upsert(controller[m.key], m).kind = "closed"
    BY <1>0, <1>1, UpsertType
  <2>2. \A k \in Session :
          controller'[k] = IF k = m.key THEN Upsert(controller[k], m) ELSE controller[k]
    BY <1>0, <1>1 DEF TypeOK
  <2> QED
    BY <1>0, <1>1, <2>1, <2>2
<1>2. CASE SendAcknowledged
  <2>1. sending.key \in Session /\ sending.kind \in Kind /\ sending.rows \in Nat
    BY <1>0, <1>2 DEF SendAcknowledged, Shape, FlushFits, TypeOK
  <2>2. \A k \in Session :
          /\ controller'[k].rows >= controller[k].rows
          /\ controller[k].kind = "closed" => controller'[k].kind = "closed"
          /\ k = sending.key => /\ controller'[k].rows >= sending.rows
                                /\ sending.kind = "closed" => controller'[k].kind = "closed"
    BY <1>1, <1>2, <2>1 DEF SendAcknowledged
  <2>3. /\ UNCHANGED <<files, mem, confirmed, status, sending>> /\ flush = "sending"
        /\ step' = step /\ (queue # <<>> => Head(queue') = Head(queue))
    BY <1>0, <1>2, <2>1, OpType, Chained DEF SendAcknowledged
  <2>4. Evidence'
    BY <1>0, <2>2, <2>3, Stays DEF Evidence, InProcess
  <2>5. StepMeans'
    BY <1>0, <2>3 DEF IInv, StepMeans, key
  <2>6. SendMeans'
    BY <2>1, <2>2, <2>3 DEF SendMeans
  <2> QED
    BY <2>4, <2>5, <2>6
<1>3. CASE LateArrival
  <2>1. PICK m \in wire : controller' = [controller EXCEPT ![m.key] = Upsert(@, m)]
    BY <1>3 DEF LateArrival
  <2>2. m.key \in Session /\ m.kind \in Kind /\ m.rows \in Nat
    BY <1>0, <2>1 DEF TypeOK
  <2>3. \A k \in Session :
          /\ controller'[k].rows >= controller[k].rows
          /\ controller[k].kind = "closed" => controller'[k].kind = "closed"
    BY <1>1, <2>1, <2>2
  <2>4. UNCHANGED <<files, mem, confirmed, status, chain, loop>>
    BY <1>3 DEF LateArrival
  <2>5. Evidence'
    BY <1>0, <2>3, <2>4, Stays DEF Evidence, InProcess
  <2> QED
    BY <1>0, <2>3, <2>4, <2>5, MeansStay
<1> QED
  BY <1>2, <1>3

LEMMA KeptSettle ==
  /\ IInv /\ TypeOK'
  /\ SettleStale \/ SettleOpen \/ SettleClosed \/ FileRemoved \/ Removed \/ RemoveThrows
  => Evidence' /\ StepMeans' /\ SendMeans'
<1> SUFFICES ASSUME IInv, TypeOK',
                    \/ SettleStale \/ SettleOpen \/ SettleClosed
                    \/ FileRemoved \/ Removed \/ RemoveThrows
             PROVE  Evidence' /\ StepMeans' /\ SendMeans'
  OBVIOUS
<1> USE DEF vars, chain, loop, flags, files, remote, history
<1>0. /\ \A k \in Session : /\ mem[k].rows \in Nat /\ controller[k].rows \in Nat
                            /\ confirmed[k].rows \in Nat /\ mem[k] \in Entry
      /\ step # "idle" => queue # <<>>
      /\ TypeOK
  BY Fields DEF IInv, Shape, StepFits
<1>1. CASE SettleStale \/ RemoveThrows
  <2>1. /\ UNCHANGED <<files, controller, mem, confirmed, status>> /\ step' = "idle"
        /\ flush' # "settling"
    BY <1>1 DEF SettleStale, RemoveThrows, Continue, Aborted, Finish
  <2> QED
    BY <2>1, LoopStays
<1>2. CASE SettleOpen
  <2>1. /\ UNCHANGED <<files, remote, confirmed, status>> /\ step' = "idle" /\ flush' = "next"
        /\ mem' = [mem EXCEPT ![key].acknowledged = TRUE]
    BY <1>2 DEF SettleOpen, Continue, Finish
  <2>2. key \in Session
    BY <1>0, <1>2, KeyType DEF SettleOpen, Running
  <2>3. mem[key].kind # "none"
    <3>1. 1 \in 1..Len(queue) /\ Head(queue) = queue[1] /\ Head(queue).name = "settle"
      BY <1>0, <1>2, HeadTail DEF SettleOpen, Running, TypeOK
    <3>2. flush = "settling" /\ key = sending.key
      BY <3>1 DEF IInv, Shape, ChainFits, Fits, key
    <3> QED
      BY <3>2 DEF IInv, Shape, FlushFits, SnapshotOf
  <2>4. \A k \in Session : mem'[k].kind = mem[k].kind /\ mem'[k].rows = mem[k].rows
    <3>1. mem[key] \in [kind : Kind, rows : Nat, version : Nat,
                        durable : BOOLEAN, acknowledged : BOOLEAN]
      BY <1>0, <2>2, <2>3 DEF Entry, NoEntry
    <3>2. /\ [mem[key] EXCEPT !.acknowledged = TRUE].kind = mem[key].kind
          /\ [mem[key] EXCEPT !.acknowledged = TRUE].rows = mem[key].rows
      BY <3>1
    <3> QED
      BY <1>0, <2>1, <2>2, <3>2 DEF TypeOK
  <2>5. Evidence'
    BY <1>0, <2>1, <2>4, Stays DEF Evidence, InProcess
  <2> QED
    BY <2>1, <2>5 DEF StepMeans, SendMeans
<1>3. CASE SettleClosed
  <2>1. UNCHANGED <<files, controller, mem, confirmed, status, loop, queue>> /\ step' = "removing"
    BY <1>3 DEF SettleClosed
  <2>2. Evidence'
    BY <1>0, <2>1, Stays DEF Evidence, InProcess
  <2>3. StepMeans' /\ SendMeans'
    BY <1>3, <2>1 DEF SettleClosed, Superseded, Final, IInv, StepMeans, SendMeans, key
  <2> QED
    BY <2>2, <2>3
<1>4. CASE FileRemoved
  <2>1. /\ key \in Session /\ controller[key].kind = "closed"
        /\ controller[key].rows >= confirmed[key].rows
        /\ mem[key].kind = "closed"
    BY <1>4, Removing DEF FileRemoved
  <2>2. ASSUME NEW k \in Session PROVE Kept(k)' /\ InMemory(k)' /\ Visible(k)'
    <3>1. /\ disk'[k] = IF k = key THEN NoCkpt ELSE disk[k]
          /\ survivors'[k] = IF k = key THEN survivors[k] \cup {NoCkpt} ELSE survivors[k]
          /\ UNCHANGED <<mem, controller, confirmed, status>>
      BY <1>0, <1>4, <2>1 DEF FileRemoved, TypeOK
    <3>2. Kept(k) /\ InMemory(k) /\ Visible(k)
      BY DEF IInv
    <3>3. Kept(k)'
      BY <2>1, <3>1, <3>2 DEF Kept, RowsRetained, CloseRetained, OpenRetained
    <3>4. InMemory(k)' /\ Visible(k)'
      BY <3>1, <3>2, Absent DEF InMemory, InProcess, Visible
    <3> QED
      BY <3>3, <3>4
  <2>3. StepMeans' /\ SendMeans'
    BY <1>0, <1>4, <2>1 DEF FileRemoved, IInv, StepMeans, SendMeans, key, TypeOK
  <2> QED
    BY <2>2, <2>3 DEF Evidence
<1>5. CASE Removed
  <2>1. /\ key \in Session /\ controller[key].kind = "closed"
        /\ controller[key].rows >= confirmed[key].rows
        /\ disk[key] = NoCkpt
    BY <1>5, Removing DEF Removed, IInv, StepMeans
  <2>2. ASSUME NEW k \in Session PROVE Kept(k)' /\ InMemory(k)' /\ Visible(k)'
    <3>1. /\ disk' = disk /\ survivors'[k] = {disk[k]}
          /\ mem'[k] = IF k = key THEN NoEntry ELSE mem[k]
          /\ UNCHANGED <<controller, confirmed, status>>
      BY <1>0, <1>5, <2>1, SyncType DEF Removed, TypeOK
    <3>2. Kept(k) /\ InMemory(k) /\ Visible(k)
      BY DEF IInv
    <3>3. Kept(k)' /\ Visible(k)'
      BY <3>1, <3>2 DEF Kept, RowsRetained, CloseRetained, OpenRetained, Visible
    <3>4. InMemory(k)'
      BY <2>1, <3>1, <3>2, Absent DEF InMemory, InProcess
    <3> QED
      BY <3>3, <3>4
  <2>3. StepMeans' /\ SendMeans'
    BY <1>5 DEF Removed, Finish, Continue, StepMeans, SendMeans
  <2> QED
    BY <2>2, <2>3 DEF Evidence
<1> QED
  BY <1>1, <1>2, <1>3, <1>4, <1>5

LEMMA KeptRename == IInv /\ TypeOK' /\ Rename => Evidence' /\ StepMeans' /\ SendMeans'
<1> SUFFICES ASSUME IInv, TypeOK', Rename PROVE Evidence' /\ StepMeans' /\ SendMeans'
  OBVIOUS
<1> USE DEF vars, chain, loop, flags, files, remote, history
<1>1. /\ key \in Session /\ InProcess /\ queue # <<>> /\ TypeOK
      /\ step' = "renamed" /\ UNCHANGED <<mem, queue, loop, controller, confirmed, status>>
  BY Writing DEF Rename, IInv, Shape
<1>2. ASSUME NEW k \in Session PROVE Kept(k)' /\ InMemory(k)' /\ Visible(k)'
  <2>1. /\ disk'[k] = IF k = key THEN encode(mem[k]) ELSE disk[k]
        /\ survivors'[k] = IF k = key THEN survivors[k] \cup {encode(mem[k])} ELSE survivors[k]
        /\ encode(mem[k]).kind = mem[k].kind /\ encode(mem[k]).rows = mem[k].rows
    BY <1>1, EncodeType, Fields DEF Rename, TypeOK
  <2>2. Kept(k) /\ InMemory(k) /\ Visible(k)
    BY DEF IInv
  <2>3. Kept(k)'
    BY <1>1, <2>1, <2>2 DEF Kept, RowsRetained, CloseRetained, OpenRetained, InMemory
  <2>4. InMemory(k)' /\ Visible(k)'
    BY <1>1, <2>1, <2>2 DEF InMemory, InProcess, Visible
  <2> QED
    BY <2>3, <2>4
<1>3. StepMeans'
  BY <1>1 DEF Rename, StepMeans, key, TypeOK
<1>4. SendMeans'
  BY <1>1 DEF IInv, SendMeans
<1> QED
  BY <1>2, <1>3, <1>4 DEF Evidence

LEMMA KeptEnds == IInv /\ TypeOK' /\ (Stop \/ Exit \/ Crash) => Evidence' /\ StepMeans' /\ SendMeans'
<1> SUFFICES ASSUME IInv, TypeOK', Stop \/ Exit \/ Crash
             PROVE  Evidence' /\ StepMeans' /\ SendMeans'
  OBVIOUS
<1> USE DEF vars, chain, loop, flags, files, remote, history
<1>0. /\ \A k \in Session : /\ mem[k].rows \in Nat /\ controller[k].rows \in Nat
      /\ step # "idle" => queue # <<>>
  BY Fields DEF IInv, Shape, StepFits
<1>1. CASE Stop
  <2>1. UNCHANGED <<files, controller, mem, confirmed, chain, loop>> /\ InProcess
    BY <1>1 DEF Stop, InProcess
  <2> QED
    BY <1>0, <2>1, Stays, MeansStay DEF Evidence
<1>2. ASSUME MemoryLost
      PROVE  StepMeans' /\ SendMeans' /\ \A k \in Session : InMemory(k)'
  BY <1>2 DEF MemoryLost, StepMeans, SendMeans, InMemory, InProcess
<1>3. CASE Exit
  <2>1. UNCHANGED <<files, controller, confirmed>> /\ ~InProcess'
    BY <1>3 DEF Exit, MemoryLost, InProcess
  <2> QED
    BY <1>0, <1>2, <1>3, <2>1, Stays DEF Evidence, Exit
<1>4. CASE Crash
  <2>1. ASSUME NEW k \in Session PROVE Kept(k)' /\ Visible(k)'
    <3>1. /\ disk'[k] \in survivors[k] /\ survivors'[k] = {disk'[k]}
          /\ UNCHANGED <<controller, confirmed>>
      BY <1>4 DEF Crash
    <3> QED
      BY <3>1 DEF IInv, Kept, RowsRetained, CloseRetained, OpenRetained, Visible
  <2> QED
    BY <1>2, <1>4, <2>1 DEF Evidence, Crash
<1> QED
  BY <1>1, <1>3, <1>4

LEMMA KeptStep == IInv /\ [Next]_vars => IInv'
<1> SUFFICES ASSUME IInv, [Next]_vars PROVE IInv'
  OBVIOUS
<1>1. Shape'
  BY ShapeStep DEF IInv
<1>2. TypeOK'
  BY <1>1 DEF Shape
<1>3. CASE UNCHANGED vars
  <2>1. UNCHANGED <<mem, queue, step, flush, sending, disk, survivors, controller, confirmed, status>>
    BY <1>3 DEF vars, chain, loop, flags, files, remote, history
  <2> QED
    BY <1>1, <2>1 DEF IInv, StepMeans, SendMeans, Kept, InMemory, InProcess, Visible, key,
       RowsRetained, CloseRetained, OpenRetained
<1>4. CASE Next
  <2>1. Evidence' /\ StepMeans' /\ SendMeans'
    BY <1>2, <1>4, KeptLoading, KeptEnqueuing, KeptLoop, KeptReports, KeptSettle,
       KeptRename, KeptEnds DEF Next, Flushing
  <2> QED
    BY <1>1, <2>1 DEF IInv, Evidence
<1> QED
  BY <1>3, <1>4

\* What enqueue confirmed is never lost, for any number of sessions, crashes
\* and failures (write 287-308, flushOnce 212-227).
THEOREM NoEvidenceLost == Spec => []EvidenceRetained
<1>1. IInv => EvidenceRetained
  BY DEF IInv, Kept, EvidenceRetained
<1> QED
  BY <1>1, KeptInit, KeptStep, PTL DEF Spec

\* A process that is not running remembers no entry.
Blank == status = "down" => \A k \in Session : mem[k].kind = "none"

LEMMA BlankStep == IInv /\ Blank /\ [Next]_vars => Blank'
<1> SUFFICES ASSUME IInv, Blank, [Next]_vars, status' = "down"
             PROVE  \A k \in Session : mem'[k].kind = "none"
  BY DEF Blank
<1> USE DEF vars, chain, loop, flags, files, remote, history
<1>1. CASE MemoryLost
  BY <1>1, Absent DEF MemoryLost
<1>2. CASE UNCHANGED <<status, mem>>
  BY <1>2 DEF Blank
<1>3. ASSUME ~MemoryLost, ~UNCHANGED <<status, mem>> PROVE FALSE
  <2>1. queue # <<>> \/ step # "idle" => status # "down"
    BY Writing DEF IInv, Shape, StatusFits
  <2>2. CASE Loading
    BY <1>3, <2>1, <2>2 DEF Loading, Load, LoadThrows, CloseInterrupted, InterruptedClosed,
       CloseInterruptedThrows, Loaded, Running
  <2>3. CASE Enqueuing
    BY <1>3, <2>1, <2>3 DEF Enqueuing, Enqueue, EnqueueIgnored, EnqueueRefused, EnqueueMerged,
       EnqueuePersisted, EnqueueThrows, Running
  <2>4. CASE Flushing
    BY <1>3, <2>1, <2>4 DEF Flushing, TimerFires, FlushCalled, Visit, PersistSkipped, PersistStarts,
       Persisted, PersistThrows, SendAcknowledged, SendThrows, SettleStale, SettleOpen,
       SettleClosed, FileRemoved, Removed, RemoveThrows, FlushEnds, Running
  <2>5. CASE Rename \/ LateArrival \/ Stop \/ Exit \/ Crash
    BY <1>3, <2>5 DEF Rename, LateArrival, Stop, Exit, Crash
  <2> QED
    BY <1>3, <2>2, <2>3, <2>4, <2>5 DEF Next
<1> QED
  BY <1>1, <1>2, <1>3

\* The entries stay or become a checkpoint, but for the removal and the exits.
LEMMA Forgotten ==
  ASSUME IInv, Blank, Next, NEW k \in Session,
         mem[k].kind # "none", mem'[k].kind = "none", status' # "down"
  PROVE  Removed /\ k = key
<1> USE DEF vars, chain, loop, flags, files, remote, history
<1>0. status # "down" /\ mem \in [Session -> Entry] /\ TypeOK
  BY DEF Blank, IInv, Shape, TypeOK
<1>1. CASE Written
  BY <1>1, WrittenType DEF IInv
<1>2. CASE UNCHANGED mem
  BY <1>2
<1>3. ASSUME ~Written, ~UNCHANGED mem PROVE Removed
  <2>1. CASE Loading
    <3>1. PICK j \in Session : CloseInterrupted(j)
      BY <1>0, <1>3, <2>1 DEF Loading, Load, LoadThrows, InterruptedClosed,
         CloseInterruptedThrows, Loaded
    <3> QED
      BY <1>0, <3>1 DEF CloseInterrupted, interrupted
  <2>2. CASE Enqueuing
    <3>1. EnqueueMerged
      BY <1>3, <2>2 DEF Enqueuing, Enqueue, EnqueueIgnored, EnqueueRefused,
         EnqueuePersisted, EnqueueThrows
    <3>2. 1 \in 1..Len(queue) /\ Head(queue) = queue[1] /\ Head(queue).name = "enqueue"
      BY <1>0, <3>1, HeadTail DEF EnqueueMerged, Running, TypeOK
    <3>3. event.kind \in Kind
      BY <3>2 DEF IInv, Shape, ChainFits, Fits, event
    <3> QED
      BY <1>0, <3>1, <3>3 DEF EnqueueMerged, merged, Kind
  <2>3. CASE Flushing
    <3>1. SettleOpen \/ Removed
      BY <1>3, <2>3 DEF Flushing, TimerFires, FlushCalled, Visit, PersistSkipped,
         PersistStarts, Persisted, PersistThrows, SendAcknowledged, SendThrows, SettleStale,
         SettleClosed, FileRemoved, RemoveThrows, FlushEnds
    <3>2. CASE SettleOpen
      <4>1. mem' = [mem EXCEPT ![key].acknowledged = TRUE]
        BY <3>2 DEF SettleOpen
      <4>2. mem[k] \in [kind : Kind, rows : Nat, version : Nat,
                        durable : BOOLEAN, acknowledged : BOOLEAN]
        BY <1>0 DEF Entry, NoEntry
      <4> QED
        BY <1>0, <4>1, <4>2
    <3> QED
      BY <3>1, <3>2
  <2>4. CASE Rename \/ LateArrival \/ Stop \/ Exit \/ Crash
    BY <1>3, <2>4 DEF Rename, LateArrival, Stop, Exit, Crash, MemoryLost
  <2> QED
    BY <2>1, <2>2, <2>3, <2>4 DEF Next
<1>4. Removed
  BY <1>1, <1>2, <1>3
<1> QED
  BY <1>0, <1>4, Removing DEF Removed, IInv

\* "A late response for an older version cannot delete newer evidence": the
\* entry that disappears is all at the controller (flushOnce 216-226).
THEOREM OldReportsDeleteNothing == Spec => ForgetsOnlyDelivered
<1>1. IInv /\ Blank /\ [Next]_vars =>
        [\A k \in Session :
           mem[k].kind # "none" /\ mem'[k].kind = "none" /\ status' # "down" =>
             /\ mem[k].kind = "closed" /\ controller[k].kind = "closed"
             /\ controller[k].rows >= mem[k].rows]_vars
  <2> SUFFICES ASSUME IInv, Blank, Next, NEW k \in Session,
                      mem[k].kind # "none", mem'[k].kind = "none", status' # "down"
               PROVE  /\ mem[k].kind = "closed" /\ controller[k].kind = "closed"
                      /\ controller[k].rows >= mem[k].rows
    OBVIOUS
  <2> QED
    BY Forgotten, Removing DEF Removed
<1>2. Init => Blank
  BY Absent DEF Init, Blank
<1> QED
  BY <1>1, <1>2, KeptInit, KeptStep, BlankStep, PTL DEF Spec, ForgetsOnlyDelivered

\* The files change by a rename, a removal, a sync and a crash only.
LEMMA FilesChange ==
  IInv /\ Next /\ ~(Rename \/ Written \/ FileRemoved \/ Removed \/ Crash) => UNCHANGED survivors
  BY DEF vars, chain, loop, flags, files, remote, history, Next, Loading, Enqueuing, Flushing,
         Load, LoadThrows, CloseInterrupted, InterruptedClosed, CloseInterruptedThrows, Loaded,
         Enqueue, EnqueueIgnored, EnqueueRefused, EnqueueMerged, EnqueuePersisted, EnqueueThrows,
         TimerFires, FlushCalled, Visit, PersistSkipped, PersistStarts, Persisted, PersistThrows,
         WriteThrows, SendAcknowledged, SendThrows, SettleStale, SettleOpen, SettleClosed,
         RemoveThrows, FlushEnds, LateArrival, Stop, Exit

\* A close that is permanently on disk is never replaced by an open checkpoint,
\* whatever arrives late and whatever a crash leaves (enqueue 149-150).
THEOREM ClosedStaysClosed == Spec => ClosePermanent
<1>1. IInv /\ [Next]_vars =>
        [\A k \in Session :
           (\A c \in survivors[k] : c.kind = "closed") =>
           (\A c \in survivors'[k] : c.kind # "started")]_vars
  <2> SUFFICES ASSUME IInv, Next, NEW k \in Session,
                      \A c \in survivors[k] : c.kind = "closed"
               PROVE  \A c \in survivors'[k] : c.kind # "started"
    OBVIOUS
  <2>1. disk[k].kind = "closed" /\ survivors \in [Session -> SUBSET Ckpt]
    BY DEF IInv, Visible, Shape, TypeOK
  <2>2. CASE Rename
    <3>1. InProcess /\ mem[k].kind = "closed" /\ encode(mem[k]).kind = "closed"
      BY <2>1, <2>2, Writing, Fields, EncodeType DEF Rename, IInv, InMemory, Shape
    <3>2. survivors'[k] \in {survivors[k], survivors[k] \cup {encode(mem[k])}}
      BY <2>1, <2>2 DEF Rename
    <3> QED
      BY <3>1, <3>2
  <2>3. CASE Written \/ Removed
    <3>1. survivors'[k] = {disk[k]}
      BY <2>3, SyncType DEF Written, Removed, IInv, Shape
    <3> QED
      BY <2>1, <3>1
  <2>4. CASE FileRemoved
    <3>1. survivors'[k] \in {survivors[k], survivors[k] \cup {NoCkpt}}
      BY <2>1, <2>4 DEF FileRemoved
    <3> QED
      BY <3>1, Absent
  <2>5. CASE Crash
    BY <2>5 DEF Crash
  <2> QED
    BY <2>2, <2>3, <2>4, <2>5, FilesChange
<1> QED
  BY <1>1, KeptInit, KeptStep, PTL DEF Spec, ClosePermanent

-----------------------------------------------------------------------------
(* The timer.  FlushComes counts on an enqueue that waits on the chain; it  *)
(* is inductive when only one that has merged its event counts, since one   *)
(* that is ignored or refused sets no timer.                                *)

Merged == Running("enqueue") /\ step \in {"writing", "renamed"}
Woken  == status = "running" /\ Pending # {} => timer \/ flush # "off" \/ Merged

\* Entries and process as they were, and no sign of a flush to come lost.
LEMMA WokenStays ==
  ASSUME Woken, UNCHANGED <<status, mem>>, timer => timer', flush # "off" => flush' # "off",
         Merged => Merged'
  PROVE  Woken'
<1>1. Pending' = Pending
  BY DEF Pending, Tracked
<1> QED
  BY <1>1, Zenon DEF Woken

LEMMA WokenLoading == Shape /\ Loading => Woken'
<1> SUFFICES ASSUME Shape, Loading PROVE Woken'
  OBVIOUS
<1>1. ASSUME queue # <<>>, Running("convert") PROVE status = "loading"
  <2>1. Fits(queue[1]) /\ Head(queue) = queue[1]
    BY <1>1, HeadTail DEF Shape, ChainFits, TypeOK
  <2> QED
    BY <1>1, <2>1 DEF Fits, Running
<1>2. InterruptedClosed => status' # "running"
  BY <1>1 DEF InterruptedClosed, Running
<1>3. ~InterruptedClosed => status' # "running" \/ timer'
  BY DEF Loading, Load, LoadThrows, CloseInterrupted, CloseInterruptedThrows, Loaded
<1> QED
  BY <1>2, <1>3, Zenon DEF Woken

LEMMA WokenEnqueuing == Shape /\ Woken /\ Enqueuing => Woken'
<1> SUFFICES ASSUME Shape, Woken, Enqueuing PROVE Woken'
  OBVIOUS
<1>1. ASSUME NEW k \in Session, NEW kind \in Kind, NEW rows \in 0 .. MaxRows, Enqueue(k, kind, rows)
      PROVE  Woken'
  <2> DEFINE op == [name |-> "enqueue", key |-> k, kind |-> kind, rows |-> rows]
  <2>1. UNCHANGED <<status, mem, timer, flush, step>> /\ Chain(op)
    BY <1>1 DEF Enqueue, loop, Chain
  <2>2. op \in Operation /\ TypeOK
    <3>1. rows \in Nat
      BY OutboxAssumption
    <3> QED
      BY <3>1 DEF Operation, Shape
  <2>3. Merged => Merged'
    <3>1. queue # <<>> => Head(queue') = Head(queue) /\ queue' # <<>>
      BY <2>1, <2>2, Chained
    <3> QED
      BY <2>1, <3>1 DEF Merged, Running
  <2> QED
    BY <2>1, <2>3, WokenStays
<1>2. CASE EnqueueIgnored \/ EnqueueRefused
  <2>1. UNCHANGED <<status, mem, timer, flush>> /\ ~Merged
    BY <1>2 DEF EnqueueIgnored, EnqueueRefused, loop, Merged
  <2> QED
    BY <2>1, WokenStays
<1>3. CASE EnqueueMerged
  <2>1. Merged'
    BY <1>3 DEF EnqueueMerged, Merged, Running
  <2> QED
    BY <2>1 DEF Woken
<1>4. CASE EnqueuePersisted \/ EnqueueThrows
  <2>1. status' = status /\ schedule
    BY <1>4 DEF EnqueuePersisted, EnqueueThrows
  <2>2. status = "running" => initialized /\ ~stopped
    BY DEF initialized, stopped
  <2>3. status' = "running" => timer'
    BY <2>1, <2>2, Zenon DEF schedule
  <2> QED
    BY <2>3, Zenon DEF Woken
<1> QED
  BY <1>1, <1>2, <1>3, <1>4 DEF Enqueuing

\* A flush that is left sets the timer while anything is unconfirmed.
LEMMA WokenRetry ==
  ASSUME UNCHANGED <<status, mem>>, retry PROVE Woken'
<1>1. Pending' = Pending
  BY DEF Pending, Tracked
<1>2. status = "running" => initialized /\ ~stopped
  BY DEF initialized, stopped
<1>3. status' = "running" /\ Pending' # {} => timer'
  BY <1>1, <1>2, Zenon DEF retry, schedule
<1> QED
  BY <1>3, Zenon DEF Woken

LEMMA WokenFlushing == Shape /\ Woken /\ Flushing => Woken'
<1> SUFFICES ASSUME Shape, Woken, Flushing PROVE Woken'
  OBVIOUS
<1>1. CASE TimerFires \/ FlushCalled
  <2>1. flush' # "off"
    BY <1>1 DEF TimerFires, FlushCalled, StartFlush, loop
  <2> QED
    BY <2>1 DEF Woken
<1>2. CASE (\E k \in Session : Visit(k)) \/ PersistSkipped \/ Persisted \/ SendAcknowledged
           \/ SettleStale \/ SettleOpen \/ Removed
  <2>1. flush' # "off"
    BY <1>2 DEF Visit, PersistSkipped, Persisted, SendAcknowledged, SettleStale, SettleOpen,
                Removed, Captured, Continue
  <2> QED
    BY <2>1 DEF Woken
<1>3. CASE PersistThrows \/ SendThrows \/ RemoveThrows \/ FlushEnds
  <2>1. UNCHANGED <<status, mem>> /\ retry
    BY <1>3 DEF PersistThrows, SendThrows, RemoveThrows, FlushEnds, Aborted
  <2> QED
    BY <2>1, WokenRetry
<1>4. CASE PersistStarts \/ SettleClosed \/ FileRemoved
  <2>1. UNCHANGED <<status, mem, timer, flush>> /\ ~Merged
    BY <1>4 DEF PersistStarts, SettleClosed, FileRemoved, loop, Merged
  <2> QED
    BY <2>1, WokenStays
<1> QED
  BY <1>1, <1>2, <1>3, <1>4 DEF Flushing

LEMMA WokenStep == Shape /\ Woken /\ [Next]_vars => Woken'
<1> SUFFICES ASSUME Shape, Woken, [Next]_vars PROVE Woken'
  OBVIOUS
<1>1. CASE Rename
  <2>1. UNCHANGED <<status, mem, timer, flush>> /\ (Merged => Merged')
    BY <1>1 DEF Rename, loop, Merged, Running
  <2> QED
    BY <2>1, WokenStays
<1>2. CASE LateArrival \/ UNCHANGED vars
  <2>1. UNCHANGED <<status, mem, timer, flush, queue, step>>
    BY <1>2 DEF LateArrival, loop, chain, vars
  <2>2. Merged => Merged'
    BY <2>1 DEF Merged, Running
  <2> QED
    BY <2>1, <2>2, WokenStays
<1>3. CASE Stop \/ Exit \/ Crash
  <2>1. status' # "running"
    BY <1>3 DEF Stop, Exit, Crash, MemoryLost
  <2> QED
    BY <2>1 DEF Woken
<1> QED
  BY <1>1, <1>2, <1>3, WokenLoading, WokenEnqueuing, WokenFlushing DEF Next

\* Nothing unconfirmed is forgotten by the timer: while the process runs a flush is
\* running, or a timer is set, or an enqueue that will set one is on the chain
\* (schedule 243-250, flushOnce 241, enqueue 176-188).
THEOREM FlushAlwaysComes == Spec => []FlushComes
<1>1. Woken => FlushComes
  BY DEF Woken, FlushComes, Merged
<1>2. Init => Woken
  BY DEF Init, Woken
<1> QED
  BY <1>1, <1>2, ShapeInit, ShapeStep, WokenStep, PTL DEF Spec

-----------------------------------------------------------------------------
(* The ledger.  That a checkpoint on disk covers all that a crash may find  *)
(* in its place takes what memory and the disk know of each other: memory   *)
(* covers every survivor, and what is on disk does so as well, but for a    *)
(* closed session whose file is being removed.                              *)

Newest(k) ==
  /\ InProcess => \A c \in survivors[k] : Ledger!Covers(mem[k], c)
  /\ \/ \A c \in survivors[k] : Ledger!Covers(disk[k], c)
     \/ status = "running" /\ mem[k].kind = "closed"

\* Only open checkpoints are acknowledged, and only a conversion writes while loading.
Unsettled(k) ==
  /\ mem[k].kind = "closed" => ~mem[k].acknowledged
  /\ status = "loading" =>
       /\ ~mem[k].acknowledged
       /\ mem[k].kind # "none" /\ ~mem[k].durable =>
            queue # <<>> /\ key = k /\ mem[k].kind = "closed"

Had(k, e) == e.kind = "closed" /\ controller[k].kind = "closed" /\ controller[k].rows >= e.rows

\* A durable entry is as it is on disk, unless its file was removed after delivery.
OnDisk(k) ==
  InProcess /\ mem[k].kind # "none" /\ mem[k].durable =>
    RowOf(mem[k]) = RowOf(disk[k]) \/ Had(k, mem[k])

HasRows(k, e) == e.kind # "none" => \E r \in reported[k] : r.rows = e.rows
Founded(k) ==
  /\ HasRows(k, mem[k]) /\ \A c \in survivors[k] : HasRows(k, c)
  /\ initialized /\ mem[k].kind # "none" /\ ~mem[k].durable =>
       \E r \in reported[k] : r.kind = mem[k].kind

Grounded(k) == Newest(k) /\ Unsettled(k) /\ OnDisk(k) /\ Founded(k)

EnqueueFits ==
  \A i \in 1..Len(queue) : queue[i].name = "enqueue" =>
    initialized /\ RowOf(queue[i]) \in reported[queue[i].key]

FlushRuns == flush # "off" => status = "running"

Converts ==
  queue # <<>> /\ Head(queue).name = "convert" /\ step = "writing" =>
    mem[key].kind = "closed" /\ disk[key].kind = "started" /\ disk[key].rows = mem[key].rows

LInv == IInv /\ EnqueueFits /\ FlushRuns /\ Converts /\ \A k \in Session : Grounded(k)

LEMMA LedgerInit == Init => LInv
<1> SUFFICES ASSUME Init PROVE LInv
  OBVIOUS
<1>1. \A k \in Session : Grounded(k)
  BY Absent DEF Init, Grounded, Newest, Unsettled, OnDisk, Founded, HasRows, InProcess, Ledger!Covers,
     initialized
<1> QED
  BY <1>1, KeptInit DEF Init, LInv, EnqueueFits, FlushRuns, Converts

\* The operation at the head says which state the process is in.
LEMMA HeadMeans ==
  ASSUME LInv, queue # <<>>
  PROVE  /\ Head(queue) \in Operation /\ key \in Session
         /\ Head(queue).name = "convert" => status = "loading"
         /\ Head(queue).name = "enqueue" =>
              /\ initialized /\ RowOf(Head(queue)) \in reported[key] /\ Head(queue).kind \in Kind
         /\ Head(queue).name \in {"persist", "settle"} => status = "running" /\ key = sending.key
         /\ Head(queue).name = "persist" => flush = "persisting"
         /\ Head(queue).name = "settle" => flush = "settling"
<1>1. 1 \in 1..Len(queue) /\ Head(queue) = queue[1]
  BY HeadTail DEF LInv, IInv, Shape, TypeOK
<1>2. Fits(queue[1])
  BY <1>1 DEF LInv, IInv, Shape, ChainFits
<1> QED
  BY <1>1, <1>2, KeyType DEF LInv, IInv, Shape, Fits, FlushRuns, EnqueueFits, key

LEMMA QueueFits ==
  ASSUME LInv, initialized => initialized', \A k \in Session : reported[k] \subseteq reported'[k],
         \/ queue' = queue
         \/ queue # <<>> /\ Finish
         \/ \E o \in Operation : Chain(o) /\ o.name # "enqueue"
  PROVE  EnqueueFits'
<1> SUFFICES ASSUME NEW i \in 1..Len(queue'), queue'[i].name = "enqueue"
             PROVE  \E j \in 1..Len(queue) : queue'[i] = queue[j]
  <2>1. ASSUME NEW j \in 1..Len(queue) PROVE queue[j] \in Operation /\ queue[j].key \in Session
    <3>1. queue \in Seq(Operation)
      BY DEF LInv, IInv, Shape, TypeOK
    <3>2. queue[j] \in Operation
      BY <3>1
    <3> QED
      BY <3>2 DEF Operation
  <2> QED
    BY <2>1 DEF LInv, EnqueueFits
<1>1. TypeOK /\ queue \in Seq(Operation)
  BY DEF LInv, IInv, Shape, TypeOK
<1>2. CASE queue' = queue
  BY <1>2
<1>3. CASE queue # <<>> /\ Finish
  BY <1>1, <1>3, Finished
<1>4. ASSUME NEW o \in Operation, Chain(o), o.name # "enqueue"
      PROVE  \E j \in 1..Len(queue) : queue'[i] = queue[j]
  BY <1>1, <1>4, Chained
<1> QED
  BY <1>2, <1>3, <1>4

\* Steps that leave the entries and the files alone.
LEMMA LedgerQuiet ==
  ASSUME LInv, IInv', UNCHANGED <<mem, files, status>>,
         status = "loading" => UNCHANGED chain,
         \A k \in Session : /\ reported[k] \subseteq reported'[k]
                            /\ controller'[k].rows >= controller[k].rows
                            /\ controller[k].kind = "closed" => controller'[k].kind = "closed",
         EnqueueFits', FlushRuns'
  PROVE  LInv'
<1>1. Converts'
  <2>1. CASE UNCHANGED chain
    BY <2>1 DEF LInv, Converts, chain, files, key
  <2>2. ASSUME status # "loading", queue' # <<>> PROVE Head(queue').name # "convert"
    <3>1. queue' \in Seq(Operation)
      BY DEF IInv, Shape, TypeOK
    <3>2. 1 \in 1..Len(queue') /\ Head(queue') = queue'[1]
      BY <2>2, <3>1, HeadTail
    <3> QED
      BY <2>2, <3>2 DEF IInv, Shape, ChainFits, Fits
  <2> QED
    BY <2>1, <2>2 DEF Converts
<1>2. ASSUME NEW k \in Session PROVE Grounded(k)'
  <2>1. /\ Grounded(k) /\ mem[k].rows \in Nat /\ controller[k].rows \in Nat
        /\ controller'[k].rows \in Nat
    <3>1. controller'[k] \in Row
      BY DEF IInv, Shape, TypeOK
    <3> QED
      BY <3>1, Fields DEF LInv, IInv, Shape, Row, NoRow
  <2>2. Newest(k)' /\ Unsettled(k)'
    BY <2>1 DEF Grounded, Newest, Unsettled, InProcess, files, chain, key, Ledger!Covers
  <2>3. OnDisk(k)'
    BY <2>1 DEF Grounded, OnDisk, Had, InProcess, files
  <2>4. Founded(k)'
    BY <2>1 DEF Grounded, Founded, HasRows, initialized, files
  <2> QED
    BY <2>2, <2>3, <2>4 DEF Grounded
<1> QED
  BY <1>1, <1>2 DEF LInv

\* A session that a step does not touch, but for the sync of the directory.
LEMMA LedgerOthers ==
  ASSUME LInv, NEW k \in Session, UNCHANGED <<status, controller, reported>>,
         mem'[k] = mem[k], disk'[k] = disk[k], survivors'[k] \in {survivors[k], {disk[k]}},
         status = "loading" => queue' = queue \/ queue = <<>>
  PROVE  Grounded(k)'
<1>1. Grounded(k) /\ disk[k] \in survivors[k] /\ disk[k].rows \in Nat
  BY Fields DEF LInv, IInv, Shape, Visible
<1>2. disk'[k] \in survivors'[k] /\ \A c \in survivors'[k] : c \in survivors[k]
  BY <1>1
<1>3. Newest(k)'
  <2>1. InProcess' => \A c \in survivors'[k] : Ledger!Covers(mem[k], c)
    BY <1>1, <1>2 DEF Grounded, Newest, InProcess
  <2>2. CASE survivors'[k] = survivors[k]
    BY <1>1, <2>1, <2>2 DEF Grounded, Newest, Ledger!Covers
  <2>3. CASE survivors'[k] = {disk[k]}
    BY <1>1, <2>1, <2>3 DEF Newest, Ledger!Covers
  <2> QED
    BY <2>2, <2>3
<1>4. Unsettled(k)'
  BY <1>1 DEF Grounded, Unsettled, key
<1>5. OnDisk(k)'
  BY <1>1 DEF Grounded, OnDisk, Had, InProcess
<1>6. Founded(k)'
  BY <1>1, <1>2 DEF Grounded, Founded, HasRows, initialized
<1> QED
  BY <1>3, <1>4, <1>5, <1>6 DEF Grounded

LEMMA LedgerWritten ==
  ASSUME LInv, Written, UNCHANGED <<status, controller, reported>>, FlushRuns'
  PROVE  EnqueueFits' /\ FlushRuns' /\ Converts' /\ \A k \in Session : Grounded(k)'
<1>1. /\ queue # <<>> /\ Finish /\ step' = "idle" /\ key \in Session
      /\ mem[key].kind # "none" /\ disk' = disk
      /\ \A k \in Session : /\ mem'[k] = IF k = key THEN [mem[k] EXCEPT !.durable = TRUE] ELSE mem[k]
                            /\ mem'[k].kind = mem[k].kind /\ mem'[k].rows = mem[k].rows
                            /\ survivors'[k] = {disk[k]}
  BY WrittenType DEF LInv, IInv
<1>2. EnqueueFits' /\ Converts'
  BY <1>1, QueueFits DEF Converts, initialized
<1>3. status = "loading" => queue' = <<>>
  BY <1>1, Finished DEF LInv, IInv, Shape, StatusFits, TypeOK
<1>4. ASSUME NEW k \in Session, k # key PROVE Grounded(k)'
  <2>1. mem'[k] = mem[k]
    BY <1>1, <1>4
  <2>2. status = "loading" => mem[k].kind = "none" \/ mem[k].durable
    BY <1>4 DEF LInv, Grounded, Unsettled
  <2>3. Grounded(k) /\ disk[k] \in survivors[k] /\ disk[k].rows \in Nat
    BY Fields DEF LInv, IInv, Shape, Visible
  <2>4. Newest(k)'
    <3>1. survivors'[k] \subseteq survivors[k] /\ disk'[k] = disk[k] /\ status' = status
      BY <1>1, <2>3
    <3>2. Newest(k)
      BY <2>3 DEF Grounded
    <3> QED
      BY <2>1, <3>1, <3>2 DEF Newest, InProcess
  <2>5. Unsettled(k)'
    BY <2>1, <2>2, <2>3 DEF Grounded, Unsettled
  <2>6. OnDisk(k)' /\ Founded(k)'
    BY <1>1, <2>1, <2>3, ZenonT(20) DEF Grounded, OnDisk, Had, InProcess, Founded, HasRows, initialized
  <2> QED
    BY <2>4, <2>5, <2>6 DEF Grounded
<1>5. ASSUME NEW k \in Session, k = key PROVE Grounded(k)'
  <2>1. /\ mem'[k].kind = mem[k].kind /\ mem'[k].rows = mem[k].rows /\ mem'[k].durable
        /\ mem'[k].acknowledged = mem[k].acknowledged
    <3>1. mem[k] \in Entry /\ mem'[k] = [mem[k] EXCEPT !.durable = TRUE]
      BY <1>1, <1>5, Fields DEF LInv, IInv, Shape
    <3> QED
      BY <1>1, <1>5, <3>1 DEF Entry, NoEntry
  <2>2. Grounded(k) /\ disk[k] \in survivors[k] /\ disk[k].rows \in Nat
    BY Fields DEF LInv, IInv, Shape, Visible
  <2>3. disk[k].kind = mem[k].kind /\ disk[k].rows = mem[k].rows
    BY <1>5, Fields, EncodeType DEF LInv, IInv, Shape, StepMeans, Written
  <2>4. Newest(k)'
    <3>1. survivors'[k] \subseteq survivors[k] /\ disk'[k] = disk[k] /\ status' = status
      BY <1>1, <2>2
    <3>2. Ledger!Covers(disk[k], disk[k])
      BY <2>2 DEF Ledger!Covers
    <3>3. \A c \in survivors[k] : Ledger!Covers(mem[k], c) <=> Ledger!Covers(mem'[k], c)
      BY <2>1 DEF Ledger!Covers
    <3>4. InProcess => \A c \in survivors[k] : Ledger!Covers(mem'[k], c)
      BY <2>2, <3>3 DEF Grounded, Newest
    <3>5. \A c \in survivors'[k] : Ledger!Covers(disk'[k], c)
      BY <1>1, <3>1, <3>2
    <3>6. InProcess' <=> InProcess
      BY <3>1 DEF InProcess
    <3>7. InProcess' => \A c \in survivors'[k] : Ledger!Covers(mem'[k], c)
      BY <3>1, <3>4, <3>6
    <3> QED
      BY <3>5, <3>7 DEF Newest, Ledger!Covers
  <2>5. Unsettled(k)'
    BY <2>1, <2>2 DEF Grounded, Unsettled
  <2>6. OnDisk(k)'
    BY <1>1, <2>1, <2>3 DEF OnDisk, RowOf
  <2>7. Founded(k)'
    <3>1. HasRows(k, mem[k]) /\ HasRows(k, disk[k]) /\ reported' = reported
      BY <2>2 DEF Grounded, Founded
    <3>2. HasRows(k, mem[k])'
      BY <2>1, <3>1 DEF HasRows
    <3>3. \A c \in survivors'[k] : c = disk[k]
      BY <1>1
    <3>4. \A c \in survivors'[k] : HasRows(k, c)'
      BY <3>1, <3>3 DEF HasRows
    <3> QED
      BY <2>1, <3>2, <3>4 DEF Founded
  <2> QED
    BY <2>4, <2>5, <2>6, <2>7 DEF Grounded
<1> QED
  BY <1>2, <1>4, <1>5

LEMMA LedgerLoading == LInv /\ IInv' /\ Loading => LInv'
<1> SUFFICES ASSUME LInv, IInv', Loading PROVE LInv'
  OBVIOUS
<1> USE DEF vars, chain, loop, flags, files, remote, history
<1>0. TypeOK /\ Shape /\ \A k \in Session : Grounded(k) /\ disk[k] \in Ckpt /\ mem[k] \in Entry
  BY Fields DEF LInv, IInv, Shape
<1>1. CASE Load
  <2>1. UNCHANGED <<queue, step, flush, files, controller, reported>> /\ queue = <<>> /\ flush = "off"
    BY <1>0, <1>1 DEF Load, Shape, StatusFits
  <2>2. EnqueueFits' /\ FlushRuns' /\ Converts'
    BY <2>1 DEF EnqueueFits, FlushRuns, Converts
  <2>3. ASSUME NEW k \in Session PROVE Grounded(k)'
    <3>1. mem'[k] = decode(disk[k]) /\ status' = "loading" /\ status = "down"
      BY <1>1 DEF Load
    <3>2. mem'[k].kind = disk[k].kind /\ mem'[k].rows = disk[k].rows /\ ~mem'[k].acknowledged
          /\ (mem'[k].kind # "none" => mem'[k].durable)
      <4>1. /\ mem'[k].kind = disk[k].kind /\ mem'[k].rows = disk[k].rows
            /\ mem'[k].acknowledged = FALSE
        BY <1>0, <3>1, DecodeType DEF decode
      <4>2. ASSUME disk[k].kind # "none" PROVE mem'[k].durable
        <5>1. (disk[k].kind # "none") = TRUE
          BY <4>2
        <5>2. mem'[k] = [kind |-> disk[k].kind, rows |-> disk[k].rows, version |-> disk[k].version,
                         durable |-> TRUE, acknowledged |-> FALSE]
          BY <3>1, <5>1 DEF decode
        <5> QED
          BY <5>2
      <4> QED
        BY <4>1, <4>2
    <3>3. Newest(k)'
      BY <1>0, <2>1, <3>1, <3>2 DEF Grounded, Newest, Ledger!Covers
    <3>4. Unsettled(k)'
      BY <3>2 DEF Unsettled
    <3>5. OnDisk(k)'
      BY <2>1, <3>2 DEF OnDisk, RowOf
    <3>6. disk[k] \in survivors[k]
      BY DEF LInv, IInv, Visible
    <3>7. Founded(k)'
      BY <1>0, <2>1, <3>1, <3>2, <3>6 DEF Grounded, Founded, HasRows, initialized
    <3> QED
      BY <3>3, <3>4, <3>5, <3>7 DEF Grounded
  <2> QED
    BY <2>2, <2>3 DEF LInv
<1>2. CASE LoadThrows \/ CloseInterruptedThrows
  <2>1. /\ UNCHANGED <<mem, files, controller, reported, flush>> /\ queue' = <<>> /\ flush = "off"
        /\ status' = "failed" /\ status \in {"down", "loading"}
    <3>1. CASE LoadThrows
      BY <1>0, <3>1 DEF LoadThrows, Shape, StatusFits
    <3>2. CASE CloseInterruptedThrows
      <4>1. queue # <<>> /\ Finish /\ Head(queue).name = "convert"
        BY <3>2 DEF CloseInterruptedThrows, Running, WriteThrows
      <4>2. status = "loading"
        BY <4>1, HeadMeans
      <4>3. Len(queue) = 1
        <5>1. queue \in Seq(Operation) /\ queue # <<>> /\ Len(queue) <= 1
          BY <1>0, <4>1, <4>2 DEF Shape, StatusFits, TypeOK
        <5>2. PICK n \in Nat \ {0} : n = Len(queue)
          BY <5>1, HeadTail
        <5>3. n <= 1
          BY <5>1, <5>2
        <5> QED
          BY <5>2, <5>3
      <4> QED
        BY <1>0, <3>2, <4>1, <4>2, <4>3, Finished DEF CloseInterruptedThrows, WriteThrows, Shape, StatusFits
    <3> QED
      BY <1>2, <3>1, <3>2
  <2>2. EnqueueFits' /\ FlushRuns' /\ Converts'
    BY <2>1 DEF EnqueueFits, FlushRuns, Converts
  <2>3. ASSUME NEW k \in Session PROVE Grounded(k)'
    BY <1>0, <2>1 DEF Grounded, Newest, Unsettled, OnDisk, Founded, InProcess, HasRows, initialized,
       Ledger!Covers
  <2> QED
    BY <2>2, <2>3 DEF LInv
<1>3. ASSUME NEW k \in Session, CloseInterrupted(k) PROVE LInv'
  <2>1. /\ UNCHANGED <<status, disk, survivors, controller, reported, flush>> /\ status = "loading"
        /\ queue = <<>> /\ queue' = <<Op("convert", k)>>
        /\ mem[k].kind = "started"
    BY <1>3 DEF CloseInterrupted
  <2>2. /\ mem'[k] = interrupted(mem[k])
        /\ \A j \in Session : j # k => mem'[j] = mem[j]
    BY <1>0, <1>3 DEF CloseInterrupted, TypeOK
  <2>3. /\ mem'[k].kind = "closed" /\ mem'[k].rows = mem[k].rows /\ ~mem'[k].durable
        /\ mem'[k].acknowledged = mem[k].acknowledged
    BY <2>2 DEF interrupted
  <2>4. Head(queue') = Op("convert", k) /\ Len(queue') = 1 /\ queue'[1] = Op("convert", k)
        /\ Head(queue').key = k /\ Op("convert", k).name = "convert" /\ queue' # <<>>
    BY <2>1 DEF Op
  <2>5. EnqueueFits' /\ FlushRuns'
    BY <1>0, <2>1, <2>4 DEF EnqueueFits, FlushRuns, Shape, StatusFits
  <2>6. ~mem[k].acknowledged /\ mem[k].durable
    BY <1>0, <2>1 DEF Grounded, Unsettled
  <2>7. disk[k].kind = "started" /\ disk[k].rows = mem[k].rows
    <3>1. RowOf(mem[k]) = RowOf(disk[k])
      BY <1>0, <2>1, <2>6 DEF Grounded, OnDisk, InProcess, Had
    <3> QED
      BY <2>1, <3>1 DEF RowOf
  <2>8. Converts'
    BY <2>1, <2>3, <2>4, <2>7 DEF Converts, key
  <2>9. Grounded(k)'
    <3>1. Newest(k)'
      BY <1>0, <2>1, <2>3 DEF Grounded, Newest, InProcess, Ledger!Covers
    <3>2. Unsettled(k)'
      BY <2>3, <2>4, <2>6 DEF Unsettled, key
    <3>3. OnDisk(k)'
      BY <2>3 DEF OnDisk
    <3>4. Founded(k)'
      BY <1>0, <2>1, <2>3 DEF Grounded, Founded, HasRows, initialized
    <3> QED
      BY <3>1, <3>2, <3>3, <3>4 DEF Grounded
  <2>10. \A j \in Session : j # k => Grounded(j)'
    BY <2>1, <2>2, LedgerOthers
  <2> QED
    BY <2>5, <2>8, <2>9, <2>10 DEF LInv
<1>4. CASE InterruptedClosed
  <2>1. FlushRuns'
    BY <1>4 DEF InterruptedClosed, FlushRuns, LInv
  <2> QED
    BY <1>4, <2>1, LedgerWritten DEF InterruptedClosed, LInv
<1>5. CASE Loaded
  <2>1. /\ UNCHANGED <<mem, files, controller, reported, flush, queue>> /\ queue = <<>>
        /\ status' = "running" /\ status = "loading" /\ flush = "off"
    BY <1>0, <1>5 DEF Loaded, Shape, StatusFits
  <2>2. EnqueueFits' /\ FlushRuns' /\ Converts'
    BY <2>1 DEF EnqueueFits, FlushRuns, Converts
  <2>3. ASSUME NEW k \in Session PROVE Grounded(k)'
    <3>1. Newest(k)' /\ Unsettled(k)' /\ OnDisk(k)'
      BY <1>0, <2>1 DEF Grounded, Newest, Unsettled, OnDisk, InProcess, Had, Ledger!Covers
    <3>2. Founded(k)'
      BY <1>0, <2>1 DEF Grounded, Unsettled, Founded, HasRows
    <3> QED
      BY <3>1, <3>2 DEF Grounded
  <2> QED
    BY <2>2, <2>3 DEF LInv
<1> QED
  BY <1>1, <1>2, <1>3, <1>4, <1>5 DEF Loading

\* Of the others, those that finish or chain an operation and change no report.
LEMMA LedgerSame ==
  ASSUME LInv, IInv', UNCHANGED <<mem, files, status, controller, reported>>, status # "loading",
         FlushRuns',
         \/ queue' = queue
         \/ queue # <<>> /\ Finish
         \/ \E o \in Operation : Chain(o) /\ o.name # "enqueue"
  PROVE  LInv'
<1>1. EnqueueFits'
  BY QueueFits DEF initialized
<1>2. \A k \in Session : controller[k].rows \in Nat
  BY Fields DEF LInv, IInv, Shape
<1> QED
  BY <1>1, <1>2, LedgerQuiet

LEMMA LedgerEnqueuing == LInv /\ IInv' /\ Enqueuing => LInv'
<1> SUFFICES ASSUME LInv, IInv', Enqueuing PROVE LInv'
  OBVIOUS
<1> USE DEF vars, chain, loop, flags, files, remote, history
<1>0. TypeOK /\ FlushRuns /\ EnqueueFits /\ IInv
      /\ \A k \in Session : Grounded(k) /\ mem[k] \in Entry /\ controller[k].rows \in Nat
  BY Fields DEF LInv, IInv, Shape
<1>1. ASSUME NEW k \in Session, NEW kind \in Kind, NEW rows \in 0..MaxRows, Enqueue(k, kind, rows)
      PROVE  LInv'
  <2> DEFINE o == [name |-> "enqueue", key |-> k, kind |-> kind, rows |-> rows]
  <2>1. o \in Operation
    BY DEF Operation
  <2>2. Chain(o) /\ UNCHANGED <<mem, loop, files, controller, status>> /\ initialized
    BY <1>1 DEF Enqueue
  <2>3. /\ \A j \in Session : reported[j] \subseteq reported'[j]
        /\ RowOf(o) \in reported'[k]
    <3>1. RowOf(o) = [kind |-> kind, rows |-> rows]
      BY DEF RowOf
    <3>2. reported' = [reported EXCEPT ![k] = @ \cup {[kind |-> kind, rows |-> rows]}]
      BY <1>1 DEF Enqueue
    <3> QED
      BY <1>0, <3>1, <3>2 DEF TypeOK
  <2>4. ASSUME NEW i \in 1..Len(queue'), queue'[i].name = "enqueue"
        PROVE  initialized' /\ RowOf(queue'[i]) \in reported'[queue'[i].key]
    <3>1. initialized' /\ Len(queue') = Len(queue) + 1 /\ Len(queue) \in Nat
          /\ queue'[Len(queue')] = o /\ \A j \in 1..Len(queue) : queue'[j] = queue[j]
      BY <1>0, <2>1, <2>2, Chained DEF initialized, TypeOK
    <3>2. CASE i = Len(queue')
      BY <2>3, <3>1, <3>2
    <3>3. CASE i # Len(queue')
      <4>1. i \in 1..Len(queue) /\ queue'[i] = queue[i]
        BY <3>1, <3>3
      <4>2. queue[i] \in Operation
        BY <1>0, <4>1 DEF TypeOK
      <4>3. queue[i].key \in Session
        BY <4>2 DEF Operation
      <4> QED
        BY <1>0, <2>3, <2>4, <3>1, <4>1, <4>3 DEF EnqueueFits
    <3> QED
      BY <3>2, <3>3
  <2>5. EnqueueFits' /\ FlushRuns'
    BY <1>0, <2>2, <2>4 DEF EnqueueFits, FlushRuns
  <2>6. status # "loading"
    BY <2>2 DEF initialized
  <2> QED
    BY <1>0, <2>2, <2>3, <2>5, <2>6, LedgerQuiet
<1>2. CASE EnqueueIgnored \/ EnqueueRefused \/ EnqueueThrows
  <2>1. UNCHANGED <<mem, flush, files, controller, reported, status>> /\ queue # <<>> /\ Finish
        /\ Head(queue).name = "enqueue"
    BY <1>2 DEF EnqueueIgnored, EnqueueRefused, EnqueueThrows, WriteThrows, Running
  <2>2. status # "loading"
    BY <2>1, HeadMeans DEF initialized
  <2>3. FlushRuns'
    BY <1>0, <2>1 DEF FlushRuns
  <2> QED
    BY <2>1, <2>2, <2>3, LedgerSame
<1>3. CASE EnqueueMerged
  <2>1. /\ queue # <<>> /\ key \in Session /\ Head(queue) \in Operation /\ event.kind \in Kind
        /\ initialized /\ RowOf(event) \in reported[key] /\ event.rows \in Nat
        /\ Head(queue).name = "enqueue"
    <3>1. queue # <<>> /\ Head(queue).name = "enqueue"
      BY <1>3 DEF EnqueueMerged, Running
    <3> QED
      BY <3>1, HeadMeans DEF event, Operation
  <2>2. /\ UNCHANGED <<queue, status, flush, disk, survivors, controller, reported>>
        /\ step' = "writing" /\ ~ClosedAlready
        /\ \A k \in Session : mem'[k] = IF k = key THEN merged(mem[k], event) ELSE mem[k]
    BY <1>0, <1>3, <2>1 DEF EnqueueMerged, TypeOK
  <2>3. status # "loading" /\ status # "down" /\ status # "failed"
    BY <2>1 DEF initialized
  <2>4. EnqueueFits' /\ FlushRuns' /\ Converts'
    BY <1>0, <2>1, <2>2 DEF EnqueueFits, FlushRuns, Converts, initialized
  <2>5. \A k \in Session : k # key => Grounded(k)'
    BY <2>2, <2>3, LedgerOthers
  <2>6. ASSUME NEW k \in Session, k = key PROVE Grounded(k)'
    <3>1. mem'[k] = merged(mem[k], event)
      BY <2>2, <2>6
    <3>2. /\ mem'[k].kind = event.kind /\ mem'[k].rows = Larger(mem[k].rows, event.rows)
          /\ ~mem'[k].durable /\ ~mem'[k].acknowledged
      BY <3>1 DEF merged
    <3>3. mem[k].rows \in Nat /\ mem'[k].rows \in Nat /\ mem'[k].rows >= mem[k].rows /\ mem'[k].rows \in {mem[k].rows, event.rows}
      BY <1>0, <2>1, <3>2, Fields DEF Larger
    <3>4. /\ mem[k].kind = "closed" => event.kind = "closed"
          /\ event.kind # "none"
      BY <2>1, <2>2, <2>6 DEF ClosedAlready, Kind
    <3>5. \A c \in survivors[k] : c.rows \in Nat
      BY <1>0, Fields
    <3>6. ASSUME NEW c \in survivors[k] PROVE Ledger!Covers(mem'[k], c)
      <4>1. Ledger!Covers(mem[k], c)
        BY <1>0, <2>3 DEF Grounded, Newest, InProcess, TypeOK
      <4> QED
        BY <3>2, <3>3, <3>4, <3>5, <4>1 DEF Ledger!Covers
    <3>7. Newest(k)'
      <4>1. CASE \A c \in survivors[k] : Ledger!Covers(disk[k], c)
        BY <2>2, <3>6, <4>1 DEF Newest
      <4>2. CASE status = "running" /\ mem[k].kind = "closed"
        BY <2>2, <3>2, <3>4, <3>6, <4>2 DEF Newest
      <4> QED
        BY <1>0, <4>1, <4>2 DEF Grounded, Newest
    <3>8. Unsettled(k)'
      BY <2>2, <2>3, <3>2 DEF Unsettled
    <3>9. OnDisk(k)'
      BY <3>2 DEF OnDisk
    <3>10. RowOf(event) \in reported[k] /\ RowOf(event).kind = event.kind /\ RowOf(event).rows = event.rows
      BY <2>1, <2>6 DEF RowOf
    <3>11. \E r \in reported[k] : r.rows = mem'[k].rows
      <4>1. CASE mem'[k].rows = event.rows
        BY <3>10, <4>1
      <4>2. CASE mem'[k].rows = mem[k].rows /\ mem[k].kind # "none"
        BY <1>0, <4>2 DEF Grounded, Founded, HasRows
      <4>3. CASE mem'[k].rows = mem[k].rows /\ mem[k].kind = "none"
        <5>1. mem[k].rows = 0
          BY <1>0, <4>3, EntryFields DEF NoEntry
        <5>2. mem'[k].rows = event.rows
          BY <2>1, <3>2, <4>3, <5>1 DEF Larger
        <5> QED
          BY <3>10, <5>2
      <4> QED
        BY <3>3, <4>1, <4>2, <4>3
    <3>12. Founded(k)'
      BY <1>0, <2>2, <3>2, <3>10, <3>11 DEF Grounded, Founded, HasRows
    <3> QED
      BY <3>7, <3>8, <3>9, <3>12 DEF Grounded
  <2> QED
    BY <2>4, <2>5, <2>6 DEF LInv
<1>4. CASE EnqueuePersisted
  <2>1. FlushRuns'
    BY <1>0, <1>4 DEF EnqueuePersisted, FlushRuns
  <2> QED
    BY <1>4, <2>1, LedgerWritten DEF EnqueuePersisted, LInv
<1> QED
  BY <1>1, <1>2, <1>3, <1>4 DEF Enqueuing

\* An upsert takes nothing from what the controller shows.
LEMMA ControllerGrows ==
  ASSUME TypeOK, NEW k \in Session, NEW e, e.kind \in Kind, e.rows \in Nat,
         controller' = [controller EXCEPT ![k] = Upsert(@, e)]
  PROVE  \A j \in Session : /\ controller'[j].rows >= controller[j].rows
                            /\ controller[j].kind = "closed" => controller'[j].kind = "closed"
<1> SUFFICES ASSUME NEW j \in Session
             PROVE  /\ controller'[j].rows >= controller[j].rows
                    /\ controller[j].kind = "closed" => controller'[j].kind = "closed"
  OBVIOUS
<1>1. controller'[j] = IF j = k THEN Upsert(controller[j], e) ELSE controller[j]
  BY DEF TypeOK
<1>2. controller[j] \in Row /\ controller[j].rows \in Nat
  BY Fields
<1>3. Upsert(controller[j], e).rows >= controller[j].rows
      /\ (controller[j].kind = "closed" => Upsert(controller[j], e).kind = "closed")
  BY <1>2, UpsertType
<1> QED
  BY <1>1, <1>2, <1>3

LEMMA LedgerFlushing == LInv /\ IInv' /\ Flushing => LInv'
<1> SUFFICES ASSUME LInv, IInv', Flushing PROVE LInv'
  OBVIOUS
<1> USE DEF vars, chain, loop, flags, files, remote, history
<1>0. TypeOK /\ FlushRuns /\ EnqueueFits /\ Converts /\ IInv
      /\ \A k \in Session : Grounded(k) /\ mem[k] \in Entry /\ controller[k].rows \in Nat
  BY Fields DEF LInv, IInv, Shape
<1>1. CASE TimerFires \/ FlushCalled \/ FlushEnds
  <2>1. UNCHANGED <<mem, files, status, controller, reported, queue>> /\ status = "running"
    BY <1>0, <1>1 DEF TimerFires, FlushCalled, FlushEnds, IInv, Shape, StatusFits, FlushRuns
  <2> QED
    BY <2>1, LedgerSame DEF FlushRuns
<1>2. ASSUME NEW k \in Session, Visit(k) PROVE LInv'
  <2>1. /\ UNCHANGED <<mem, files, status, controller, reported>> /\ status = "running"
        /\ Chain(Op("persist", k))
    BY <1>0, <1>2 DEF Visit, FlushRuns
  <2>2. Op("persist", k) \in Operation /\ Op("persist", k).name # "enqueue"
    BY OpType DEF Op
  <2> QED
    BY <2>1, <2>2, LedgerSame DEF FlushRuns
<1>3. CASE PersistSkipped \/ PersistThrows \/ SettleStale \/ RemoveThrows
  <2>1. UNCHANGED <<mem, files, status, controller, reported>> /\ queue # <<>> /\ Finish
        /\ Head(queue).name \in {"persist", "settle"}
    BY <1>0, <1>3 DEF PersistSkipped, PersistThrows, SettleStale, RemoveThrows, Running, WriteThrows,
       IInv, Shape, StepFits
  <2>2. status = "running"
    BY <2>1, HeadMeans
  <2> QED
    BY <2>1, <2>2, LedgerSame DEF FlushRuns
<1>4. CASE PersistStarts \/ SettleClosed
  <2>1. UNCHANGED <<mem, files, status, controller, reported, queue>> /\ queue # <<>>
        /\ Head(queue).name \in {"persist", "settle"}
    BY <1>4 DEF PersistStarts, SettleClosed, Running
  <2>2. status = "running"
    BY <2>1, HeadMeans
  <2> QED
    BY <2>1, <2>2, LedgerSame DEF FlushRuns
<1>5. CASE Persisted
  <2>1. status' = status /\ status = "running" /\ UNCHANGED <<controller, reported>> /\ Written
    BY <1>5, HeadMeans DEF Persisted, Running
  <2> QED
    BY <2>1, LedgerWritten DEF FlushRuns, LInv
<1>6. CASE SendThrows
  <2>1. UNCHANGED <<mem, files, status, controller, reported, queue>> /\ status = "running"
    BY <1>0, <1>6 DEF SendThrows, FlushRuns
  <2> QED
    BY <2>1, LedgerSame DEF FlushRuns
<1>7. CASE SendAcknowledged
  <2>1. /\ UNCHANGED <<mem, files, status, reported>> /\ status = "running"
        /\ sending.key \in Session /\ sending.kind \in Kind /\ sending.rows \in Nat
        /\ Chain(Op("settle", sending.key))
        /\ controller' = [controller EXCEPT ![sending.key] = Upsert(@, sending)]
    BY <1>0, <1>7 DEF SendAcknowledged, FlushRuns, IInv, Shape, FlushFits, TypeOK
  <2>2. Op("settle", sending.key) \in Operation /\ Op("settle", sending.key).name # "enqueue"
    BY <2>1, OpType DEF Op
  <2>3. EnqueueFits' /\ FlushRuns'
    BY <2>1, <2>2, QueueFits DEF FlushRuns, initialized
  <2> QED
    BY <1>0, <2>1, <2>3, ControllerGrows, LedgerQuiet
<1>8. CASE SettleOpen
  <2>1. /\ queue # <<>> /\ Finish /\ Head(queue).name = "settle"
        /\ UNCHANGED <<files, status, controller, reported>> /\ ~Superseded /\ ~Final
        /\ mem' = [mem EXCEPT ![key].acknowledged = TRUE]
    BY <1>8 DEF SettleOpen, Running
  <2>2. /\ status = "running" /\ key \in Session /\ key = sending.key /\ flush = "settling"
    BY <2>1, HeadMeans
  <2>3. mem[key].kind = sending.kind /\ sending.kind = "started"
    BY <1>0, <2>1, <2>2 DEF IInv, Shape, FlushFits, SnapshotOf, Superseded, Final, Kind
  <2>4. EnqueueFits' /\ FlushRuns' /\ Converts'
    <3>1. step' = "idle"
      BY <2>1 DEF Finish
    <3> QED
      BY <2>1, <2>2, <3>1, QueueFits DEF FlushRuns, Converts, initialized
  <2>5. \A k \in Session : k # key => Grounded(k)'
    <3>1. \A k \in Session : k # key => mem'[k] = mem[k]
      BY <1>0, <2>1, <2>2 DEF TypeOK
    <3> QED
      BY <2>1, <2>2, <3>1, LedgerOthers
  <2>6. ASSUME NEW k \in Session, k = key PROVE Grounded(k)'
    <3>1. /\ mem'[k].kind = "started" /\ mem[k].kind = "started"
          /\ mem'[k].rows = mem[k].rows /\ mem'[k].durable = mem[k].durable
      <4>1. mem[k] \in [kind : Kind, rows : Nat, version : Nat,
                        durable : BOOLEAN, acknowledged : BOOLEAN]
        BY <1>0, <2>3, <2>6 DEF Entry, NoEntry
      <4>2. mem'[k] = [mem[k] EXCEPT !.acknowledged = TRUE]
        BY <1>0, <2>1, <2>6 DEF TypeOK
      <4> QED
        BY <2>3, <2>6, <4>1, <4>2
    <3>2. Newest(k)' /\ Unsettled(k)'
      BY <1>0, <2>1, <2>2, <3>1 DEF Grounded, Newest, Unsettled, InProcess, Ledger!Covers
    <3>3. OnDisk(k)' /\ Founded(k)'
      BY <1>0, <2>1, <2>2, <3>1 DEF Grounded, OnDisk, Had, Founded, HasRows, InProcess, RowOf, initialized
    <3> QED
      BY <3>2, <3>3 DEF Grounded
  <2> QED
    BY <2>4, <2>5, <2>6 DEF LInv
<1>9. CASE FileRemoved
  <2>1. /\ key \in Session /\ mem[key].kind = "closed" /\ controller[key].kind = "closed"
        /\ controller[key].rows >= mem[key].rows /\ status = "running" /\ queue # <<>>
    <3>1. queue # <<>> /\ Head(queue).name = "settle"
      BY <1>0, <1>9 DEF FileRemoved, IInv, Shape, StepFits
    <3> QED
      BY <1>0, <1>9, <3>1, HeadMeans, Removing DEF FileRemoved
  <2>2. /\ UNCHANGED <<queue, status, mem, flush, controller, reported>> /\ step' = "removed"
        /\ \A k \in Session :
             /\ disk'[k] = IF k = key THEN NoCkpt ELSE disk[k]
             /\ survivors'[k] = IF k = key THEN survivors[k] \cup {NoCkpt} ELSE survivors[k]
    BY <1>0, <1>9, <2>1 DEF FileRemoved, TypeOK
  <2>3. EnqueueFits' /\ FlushRuns' /\ Converts'
    BY <1>0, <2>1, <2>2 DEF EnqueueFits, FlushRuns, Converts, initialized
  <2>4. \A k \in Session : k # key => Grounded(k)'
    BY <2>1, <2>2, LedgerOthers
  <2>5. ASSUME NEW k \in Session, k = key PROVE Grounded(k)'
    <3>1. Newest(k)'
      <4>1. Ledger!Covers(mem[k], NoCkpt)
        BY <1>0, Absent, Fields DEF Ledger!Covers
      <4> QED
        BY <1>0, <2>1, <2>2, <2>5, <4>1 DEF Grounded, Newest, InProcess
    <3>2. Unsettled(k)' /\ OnDisk(k)'
      BY <1>0, <2>1, <2>2, <2>5 DEF Grounded, Unsettled, OnDisk, Had
    <3>3. Founded(k)'
      BY <1>0, <2>2, Absent DEF Grounded, Founded, HasRows, initialized
    <3> QED
      BY <3>1, <3>2, <3>3 DEF Grounded
  <2> QED
    BY <2>3, <2>4, <2>5 DEF LInv
<1>10. CASE Removed
  <2>1. /\ key \in Session /\ status = "running" /\ queue # <<>> /\ disk[key] = NoCkpt
    <3>1. queue # <<>> /\ Head(queue).name = "settle"
      BY <1>0, <1>10 DEF Removed, IInv, Shape, StepFits
    <3> QED
      BY <1>0, <1>10, <3>1, HeadMeans DEF Removed, IInv, StepMeans
  <2>2. /\ UNCHANGED <<status, controller, reported>> /\ Finish /\ step' = "idle"
        /\ disk' = disk /\ \A k \in Session : survivors'[k] = {disk[k]}
        /\ \A k \in Session : mem'[k] = IF k = key THEN NoEntry ELSE mem[k]
    BY <1>0, <1>10, <2>1, SyncType DEF Removed, TypeOK, Finish
  <2>3. EnqueueFits' /\ FlushRuns' /\ Converts'
    BY <2>1, <2>2, QueueFits DEF FlushRuns, Converts, initialized
  <2>4. \A k \in Session : k # key => Grounded(k)'
    BY <2>1, <2>2, LedgerOthers
  <2>5. ASSUME NEW k \in Session, k = key PROVE Grounded(k)'
    <3>1. mem'[k] = NoEntry /\ survivors'[k] = {NoCkpt} /\ disk'[k] = NoCkpt
      BY <2>1, <2>2, <2>5
    <3>2. Newest(k)' /\ Unsettled(k)'
      BY <2>1, <2>2, <3>1 DEF Newest, Unsettled, Ledger!Covers, NoEntry, NoCkpt
    <3>3. OnDisk(k)' /\ Founded(k)'
      BY <3>1, Absent DEF OnDisk, Founded, HasRows
    <3> QED
      BY <3>2, <3>3 DEF Grounded
  <2> QED
    BY <2>3, <2>4, <2>5 DEF LInv
<1> QED
  BY <1>1, <1>2, <1>3, <1>4, <1>5, <1>6, <1>7, <1>8, <1>9, <1>10 DEF Flushing

LEMMA LedgerRename == LInv /\ IInv' /\ Rename => LInv'
<1> SUFFICES ASSUME LInv, IInv', Rename PROVE LInv'
  OBVIOUS
<1> USE DEF loop, flags, remote, history
<1>0. TypeOK /\ IInv /\ FlushRuns /\ EnqueueFits
      /\ \A k \in Session : Grounded(k) /\ mem[k] \in Entry
  BY Fields DEF LInv, IInv, Shape
<1>1. /\ key \in Session /\ InProcess /\ queue # <<>> /\ ~mem[key].durable /\ step' = "renamed"
      /\ UNCHANGED <<mem, queue, status, flush, controller, reported>>
      /\ \A k \in Session :
           /\ disk'[k] = IF k = key THEN encode(mem[k]) ELSE disk[k]
           /\ survivors'[k] = IF k = key THEN survivors[k] \cup {encode(mem[k])} ELSE survivors[k]
  <2>1. key \in Session /\ InProcess /\ queue # <<>> /\ ~mem[key].durable
    BY <1>0, Writing DEF Rename, IInv, Shape, StepFits
  <2> QED
    BY <1>0, <2>1 DEF Rename, TypeOK
<1>2. EnqueueFits' /\ FlushRuns' /\ Converts'
  BY <1>0, <1>1 DEF EnqueueFits, FlushRuns, Converts, initialized
<1>3. \A k \in Session : k # key => Grounded(k)'
  BY <1>1, LedgerOthers
<1>4. ASSUME NEW k \in Session, k = key PROVE Grounded(k)'
  <2>1. encode(mem[k]).kind = mem[k].kind /\ encode(mem[k]).rows = mem[k].rows /\ mem[k].rows \in Nat
    BY <1>0, EncodeType, Fields
  <2>2. disk'[k] = encode(mem[k]) /\ survivors'[k] = survivors[k] \cup {encode(mem[k])}
    BY <1>1, <1>4
  <2>3. \A c \in survivors'[k] : Ledger!Covers(mem[k], c) /\ Ledger!Covers(encode(mem[k]), c)
    BY <1>0, <1>1, <2>1, <2>2 DEF Grounded, Newest, Ledger!Covers
  <2>4. Newest(k)'
    BY <1>1, <2>2, <2>3 DEF Newest
  <2>5. Unsettled(k)' /\ OnDisk(k)'
    BY <1>0, <1>1, <1>4 DEF Grounded, Unsettled, OnDisk, key
  <2>6. Founded(k)'
    BY <1>0, <1>1, <2>1, <2>2 DEF Grounded, Founded, HasRows, initialized
  <2> QED
    BY <2>4, <2>5, <2>6 DEF Grounded
<1> QED
  BY <1>2, <1>3, <1>4 DEF LInv

LEMMA LedgerArrives == LInv /\ IInv' /\ LateArrival => LInv'
<1> SUFFICES ASSUME LInv, IInv', NEW m \in wire,
                    controller' = [controller EXCEPT ![m.key] = Upsert(@, m)],
                    UNCHANGED <<status, mem, chain, loop, files, reported>>
             PROVE  LInv'
  BY DEF LateArrival, history
<1>1. TypeOK /\ m.key \in Session /\ m.kind \in Kind /\ m.rows \in Nat
  BY DEF LInv, IInv, Shape, TypeOK
<1>2. EnqueueFits' /\ FlushRuns'
  BY DEF LInv, EnqueueFits, FlushRuns, chain, loop, initialized
<1> QED
  BY <1>1, <1>2, ControllerGrows, LedgerQuiet

LEMMA LedgerEnds == LInv /\ IInv' /\ (Stop \/ Exit \/ Crash) => LInv'
<1> SUFFICES ASSUME LInv, IInv', Stop \/ Exit \/ Crash PROVE LInv'
  OBVIOUS
<1> USE DEF chain, loop, files, remote, history
<1>0. TypeOK /\ IInv /\ EnqueueFits /\ Converts /\ \A k \in Session : Grounded(k)
  BY DEF LInv, IInv, Shape
<1>1. CASE Stop
  <2>1. /\ UNCHANGED <<mem, queue, step, flush, disk, survivors, controller, reported>>
        /\ status = "running" /\ status' = "stopped" /\ flush = "off" /\ Pending = {}
    BY <1>1 DEF Stop
  <2>2. EnqueueFits' /\ FlushRuns' /\ Converts'
    BY <1>0, <2>1 DEF EnqueueFits, FlushRuns, Converts, initialized, key
  <2>3. ASSUME NEW k \in Session PROVE Grounded(k)'
    <3>1. mem[k].kind # "closed"
      BY <1>0, <2>1 DEF Grounded, Unsettled, Pending, Tracked
    <3>2. Newest(k)' /\ Unsettled(k)'
      BY <1>0, <2>1, <3>1 DEF Grounded, Newest, Unsettled, InProcess, Ledger!Covers
    <3>3. OnDisk(k)' /\ Founded(k)'
      BY <1>0, <2>1 DEF Grounded, OnDisk, Had, Founded, HasRows, InProcess, initialized
    <3> QED
      BY <3>2, <3>3 DEF Grounded
  <2> QED
    BY <2>2, <2>3 DEF LInv
<1>2. CASE Exit \/ Crash
  <2>1. MemoryLost /\ UNCHANGED <<controller, reported>>
    BY <1>2 DEF Exit, Crash
  <2>2. EnqueueFits' /\ FlushRuns' /\ Converts'
    BY <2>1 DEF MemoryLost, EnqueueFits, FlushRuns, Converts
  <2>3. ASSUME NEW k \in Session PROVE Grounded(k)'
    <3>1. status' = "down" /\ mem'[k] = NoEntry
      BY <2>1 DEF MemoryLost
    <3>2. \A c \in survivors'[k] : c \in survivors[k] /\ Ledger!Covers(disk'[k], c)
      <4>1. CASE Exit
        <5>1. status # "running"
          BY <4>1 DEF Exit
        <5> QED
          BY <1>0, <4>1, <5>1 DEF Exit, Grounded, Newest
      <4>2. CASE Crash
        <5>1. survivors'[k] = {disk'[k]} /\ disk'[k] \in survivors[k]
          BY <4>2 DEF Crash
        <5>2. disk'[k].rows \in Nat
          BY <1>0, <5>1, Fields
        <5> QED
          BY <5>1, <5>2 DEF Ledger!Covers
      <4> QED
        BY <1>2, <4>1, <4>2
    <3>3. Newest(k)' /\ Unsettled(k)' /\ OnDisk(k)'
      BY <3>1, <3>2, Absent DEF Newest, Unsettled, OnDisk, InProcess
    <3>4. Founded(k)'
      BY <1>0, <2>1, <3>1, <3>2, Absent DEF Grounded, Founded, HasRows
    <3> QED
      BY <3>3, <3>4 DEF Grounded
  <2> QED
    BY <2>2, <2>3 DEF LInv
<1> QED
  BY <1>1, <1>2

LEMMA LedgerStep == LInv /\ [Next]_vars => LInv'
<1> SUFFICES ASSUME LInv, [Next]_vars PROVE LInv'
  OBVIOUS
<1>1. IInv'
  BY KeptStep DEF LInv
<1>2. CASE Next
  BY <1>1, <1>2, LedgerLoading, LedgerEnqueuing, LedgerFlushing, LedgerRename, LedgerArrives,
     LedgerEnds DEF Next
<1>3. CASE UNCHANGED vars
  <2>1. UNCHANGED <<status, mem, queue, step, flush, files, controller, reported>>
    BY <1>3 DEF vars, chain, loop, remote, history
  <2>2. EnqueueFits' /\ FlushRuns' /\ \A k \in Session : controller[k].rows \in Nat
    BY <2>1, Fields DEF LInv, IInv, Shape, EnqueueFits, FlushRuns, initialized
  <2> QED
    BY <1>1, <2>1, <2>2, LedgerQuiet DEF chain
<1> QED
  BY <1>2, <1>3

-----------------------------------------------------------------------------
(* Every step of the outbox is a step of the ledger, or none that it sees. *)

LEMMA Unseen ==
  ASSUME UNCHANGED <<survivors, reported, confirmed, controller, wire>>,
         initialized' = initialized,
         UNCHANGED <<flush, sending>> \/ (flush # "sending" /\ flush' # "sending")
  PROVE  UNCHANGED Ledger!vars
<1>1. OnTheWay' = OnTheWay
  BY DEF OnTheWay
<1>2. evidence' = evidence
  BY DEF evidence
<1> QED
  BY <1>1, <1>2 DEF Ledger!vars

LEMMA EvidenceOf ==
  ASSUME NEW k \in Session
  PROVE  /\ evidence[k] = {RowOf(c) : c \in survivors[k]}
         /\ \A c \in survivors[k] : RowOf(c) \in evidence[k]
         /\ \A r \in evidence[k] : \E c \in survivors[k] : r = RowOf(c)
  BY DEF evidence

\* A sync leaves of each session one of what there was, the checkpoint on disk.
LEMMA SyncSettles ==
  ASSUME IInv, syncDirectory
  PROVE  /\ Ledger!Settled /\ \A k \in Session : RowOf(disk[k]) \in evidence'[k]
         /\ \A k \in Session : RowOf(disk[k]) \in evidence[k]
<1>1. DOMAIN evidence' = Session
  BY DEF evidence
<1>2. ASSUME NEW k \in Session
      PROVE  RowOf(disk[k]) \in evidence[k] /\ evidence'[k] = {RowOf(disk[k])}
  <2>1. disk[k] \in survivors[k]
    BY DEF IInv, Visible
  <2>2. survivors'[k] = {disk[k]}
    BY DEF syncDirectory
  <2>3. evidence'[k] = {RowOf(c) : c \in survivors'[k]}
    BY DEF evidence
  <2> QED
    BY <2>1, <2>2, <2>3, EvidenceOf
<1> QED
  BY <1>1, <1>2 DEF Ledger!Settled

\* One checkpoint more that a crash may find.
LEMMA EvidenceGrows ==
  ASSUME TypeOK, NEW k \in Session, NEW c,
         survivors' = [survivors EXCEPT ![k] = @ \cup {c}]
  PROVE  evidence' = [evidence EXCEPT ![k] = @ \cup {RowOf(c)}]
<1>1. \A j \in Session : survivors'[j] = IF j = k THEN survivors[j] \cup {c} ELSE survivors[j]
  BY DEF TypeOK
<1>2. \A j \in Session : {RowOf(d) : d \in survivors'[j]} =
        IF j = k THEN {RowOf(d) : d \in survivors[j]} \cup {RowOf(c)} ELSE {RowOf(d) : d \in survivors[j]}
  BY <1>1
<1> QED
  BY <1>2 DEF evidence

LEMMA LoadingShows == LInv /\ Loading => [Ledger!Next]_Ledger!vars
<1> SUFFICES ASSUME LInv, Loading PROVE [Ledger!Next]_Ledger!vars
  OBVIOUS
<1> USE DEF chain, loop, files, remote, history
<1>1. CASE Load \/ LoadThrows \/ \E k \in Session : CloseInterrupted(k)
  <2>1. UNCHANGED <<survivors, reported, confirmed, controller, wire, flush, sending>>
        /\ initialized' = initialized
    BY <1>1 DEF Load, LoadThrows, CloseInterrupted, initialized
  <2> QED
    BY <2>1, Unseen
<1>2. CASE InterruptedClosed
  <2>1. UNCHANGED <<reported, confirmed, controller, wire, flush, sending, status>> /\ syncDirectory
    BY <1>2 DEF InterruptedClosed, Written
  <2>2. OnTheWay' = OnTheWay /\ initialized' = initialized
    BY <2>1 DEF OnTheWay, initialized
  <2> QED
    BY <2>1, <2>2, SyncSettles DEF LInv, Ledger!Settle, Ledger!Next
<1>3. CASE CloseInterruptedThrows
  <2>1. queue # <<>> /\ Head(queue).name = "convert"
    BY <1>3 DEF CloseInterruptedThrows, Running
  <2>2. status = "loading"
    BY <2>1, HeadMeans
  <2>3. UNCHANGED <<survivors, reported, confirmed, controller, wire, flush, sending>>
        /\ initialized' = initialized
    BY <1>3, <2>2 DEF CloseInterruptedThrows, WriteThrows, initialized
  <2> QED
    BY <2>3, Unseen
<1>4. CASE Loaded
  <2>1. UNCHANGED <<survivors, reported, confirmed, controller, wire, flush, sending>>
        /\ ~initialized /\ initialized'
    BY <1>4 DEF Loaded, initialized
  <2>2. OnTheWay' = OnTheWay /\ evidence' = evidence
    BY <2>1 DEF OnTheWay, evidence
  <2> QED
    BY <2>1, <2>2 DEF Ledger!Begin, Ledger!Next
<1> QED
  BY <1>1, <1>2, <1>3, <1>4 DEF Loading

LEMMA EnqueuingShows == LInv /\ Enqueuing => [Ledger!Next]_Ledger!vars
<1> SUFFICES ASSUME LInv, Enqueuing PROVE [Ledger!Next]_Ledger!vars
  OBVIOUS
<1> USE DEF chain, loop, files, remote, history
<1>0. TypeOK /\ IInv
  BY DEF LInv, IInv, Shape
<1>1. ASSUME NEW k \in Session, NEW kind \in Kind, NEW rows \in 0..MaxRows, Enqueue(k, kind, rows)
      PROVE  Ledger!Report(k)
  <2>1. UNCHANGED <<survivors, confirmed, controller, wire, flush, sending, status>> /\ initialized
        /\ reported' = [reported EXCEPT ![k] = @ \cup {[kind |-> kind, rows |-> rows]}]
    BY <1>1 DEF Enqueue
  <2>2. OnTheWay' = OnTheWay /\ evidence' = evidence /\ initialized' = initialized
    BY <2>1 DEF OnTheWay, evidence, initialized
  <2>3. [kind |-> kind, rows |-> rows] \in reported'[k] \cap Ledger!Evidence
    BY <1>0, <2>1 DEF TypeOK, Ledger!Evidence, Kind
  <2> QED
    BY <2>1, <2>2, <2>3 DEF Ledger!Report
<1>2. CASE EnqueueIgnored \/ EnqueueRefused \/ EnqueueMerged \/ EnqueueThrows
  <2>1. UNCHANGED <<survivors, reported, confirmed, controller, wire, flush, sending, status>>
    BY <1>2 DEF EnqueueIgnored, EnqueueRefused, EnqueueMerged, EnqueueThrows, WriteThrows
  <2> QED
    BY <2>1, Unseen DEF initialized
<1>3. CASE EnqueuePersisted
  <2>1. /\ UNCHANGED <<status, reported, flush, sending, controller, wire>>
        /\ confirmed' = [confirmed EXCEPT ![key] = Upsert(@, mem[key])]
        /\ Written /\ queue # <<>> /\ Head(queue).name = "enqueue"
    BY <1>3 DEF EnqueuePersisted, Running
  <2>2. key \in Session /\ initialized /\ initialized' = initialized
    BY <2>1, HeadMeans DEF initialized
  <2>3. RowOf(disk[key]) = RowOf(mem[key])
    BY <1>0, <2>1, <2>2, EncodeType, Fields DEF Written, IInv, StepMeans, RowOf
  <2>4. Ledger!Settled /\ RowOf(mem[key]) \in evidence'[key]
    BY <1>0, <2>1, <2>2, <2>3, SyncSettles DEF Written
  <2>5. Upsert(confirmed[key], mem[key]) = Ledger!Upsert(confirmed[key], RowOf(mem[key]))
    BY DEF Upsert, Larger, Ledger!Upsert, Ledger!Larger, RowOf
  <2>6. confirmed' = [confirmed EXCEPT ![key] = Ledger!Upsert(@, RowOf(mem[key]))]
    BY <2>1, <2>5
  <2>7. OnTheWay' = OnTheWay
    BY <2>1 DEF OnTheWay
  <2>8. Ledger!Promise(key)
    BY <2>1, <2>2, <2>4, <2>6, <2>7 DEF Ledger!Promise
  <2> QED
    BY <2>2, <2>8 DEF Ledger!Next
<1> QED
  BY <1>1, <1>2, <1>3 DEF Enqueuing, Ledger!Next

\* What is captured for a send is on disk, or the controller has it.
LEMMA CapturedTold ==
  ASSUME LInv, Running("persist"), Captured(mem[key]), mem[key].durable \/ RowOf(mem[key]) = RowOf(disk[key]),
         UNCHANGED <<status, reported, confirmed, controller, wire>>,
         flush' = "sending", Ledger!Settled \/ UNCHANGED evidence
  PROVE  Ledger!Tell(key) /\ key \in Session
<1>1. key \in Session /\ status = "running" /\ flush = "persisting"
  BY HeadMeans DEF Running
<1>2. /\ mem[key].kind # "none"
      /\ sending' = [key |-> key, kind |-> mem[key].kind, rows |-> mem[key].rows,
                     version |-> mem[key].version]
  BY DEF Captured, Continue
<1>3. initialized /\ initialized' = initialized
  BY <1>1 DEF initialized
<1>4. OnTheWay' = OnTheWay \cup {[key |-> key, kind |-> RowOf(mem[key]).kind, rows |-> RowOf(mem[key]).rows]}
  BY <1>1, <1>2 DEF OnTheWay, RowOf
<1>5. RowOf(mem[key]) \in (evidence[key] \ {Ledger!Nothing}) \cup Ledger!Had(key)
  <2>1. CASE RowOf(mem[key]) = RowOf(disk[key])
    <3>1. RowOf(disk[key]) \in evidence[key]
      BY <1>1, EvidenceOf DEF LInv, IInv, Visible
    <3> QED
      BY <1>2, <2>1, <3>1 DEF Ledger!Nothing, RowOf
  <2>2. CASE Had(key, mem[key])
    <3>1. mem[key].rows \in 0 .. controller[key].rows
      BY <1>1, <2>2, Fields DEF LInv, IInv, Shape, Had
    <3>2. RowOf(mem[key]) = [kind |-> "closed", rows |-> mem[key].rows]
      BY <2>2 DEF Had, RowOf
    <3> QED
      BY <2>2, <3>1, <3>2 DEF Had, Ledger!Had
  <2> QED
    BY <1>1, <1>2, <2>1, <2>2 DEF LInv, Grounded, OnDisk, InProcess
<1> QED
  BY <1>1, <1>3, <1>4, <1>5 DEF Ledger!Tell

\* What arrives at the controller was on its way.
LEMMA Arrives ==
  ASSUME NEW m, m \in OnTheWay, UNCHANGED <<survivors, reported, confirmed>>,
         initialized' = initialized,
         controller' = [controller EXCEPT ![m.key] = Upsert(@, m)],
         OnTheWay' \in {OnTheWay, OnTheWay \ {m}}
  PROVE  Ledger!Show
<1>1. evidence' = evidence
  BY DEF evidence
<1>2. Upsert(controller[m.key], m) = Ledger!Upsert(controller[m.key], m)
  BY DEF Upsert, Larger, Ledger!Upsert, Ledger!Larger
<1> QED
  BY <1>1, <1>2 DEF Ledger!Show

LEMMA FlushingShows == LInv /\ Flushing => [Ledger!Next]_Ledger!vars
<1> SUFFICES ASSUME LInv, Flushing PROVE [Ledger!Next]_Ledger!vars
  OBVIOUS
<1> USE DEF chain, loop, files, remote, history
<1>0. TypeOK /\ IInv /\ FlushRuns
  BY DEF LInv, IInv, Shape
<1>1. CASE TimerFires \/ FlushCalled \/ FlushEnds \/ (\E k \in Session : Visit(k)) \/ PersistStarts
           \/ SettleClosed
  <2>1. UNCHANGED <<survivors, reported, confirmed, controller, wire, status>>
        /\ (UNCHANGED <<flush, sending>> \/ (flush # "sending" /\ flush' # "sending"))
    BY <1>1 DEF TimerFires, FlushCalled, FlushEnds, Visit, PersistStarts, SettleClosed, StartFlush
  <2> QED
    BY <2>1, Unseen DEF initialized
<1>2. CASE SettleStale \/ SettleOpen \/ RemoveThrows \/ PersistThrows
  <2>1. /\ UNCHANGED <<survivors, reported, confirmed, controller, wire, status>>
        /\ flush' # "sending" /\ queue # <<>> /\ Head(queue).name \in {"persist", "settle"}
    BY <1>0, <1>2 DEF SettleStale, SettleOpen, RemoveThrows, PersistThrows, WriteThrows, Running, Continue,
       Aborted, IInv, Shape, StepFits
  <2>2. flush # "sending"
    BY <2>1, HeadMeans
  <2> QED
    BY <2>1, <2>2, Unseen DEF initialized
<1>3. CASE PersistSkipped
  <2>1. /\ UNCHANGED <<survivors, reported, confirmed, controller, wire, status>>
        /\ Running("persist") /\ Captured(mem[key]) /\ (key \notin Tracked \/ mem[key].durable)
    BY <1>3 DEF PersistSkipped
  <2>2. flush = "persisting" /\ key \in Session /\ evidence' = evidence
    BY <2>1, HeadMeans DEF Running, evidence
  <2>3. CASE flush' = "sending"
    <3>1. mem[key].durable
      BY <2>1, <2>2, <2>3 DEF Captured, Continue, Tracked
    <3>2. Ledger!Tell(key)
      BY <2>1, <2>2, <2>3, <3>1, CapturedTold
    <3> QED
      BY <2>2, <3>2 DEF Ledger!Next
  <2>4. CASE flush' # "sending"
    BY <2>1, <2>2, <2>4, Unseen DEF initialized
  <2> QED
    BY <2>3, <2>4
<1>4. CASE Persisted
  <2>1. /\ UNCHANGED <<reported, confirmed, controller, wire, status>>
        /\ Running("persist") /\ Captured(mem[key]) /\ Written
    BY <1>4 DEF Persisted
  <2>2. flush = "persisting" /\ key \in Session /\ Ledger!Settled
    BY <1>0, <2>1, HeadMeans, SyncSettles DEF Running, Written
  <2>3. CASE flush' = "sending"
    <3>1. RowOf(mem[key]) = RowOf(disk[key])
      BY <1>0, <2>1, <2>2, EncodeType, Fields DEF Written, IInv, StepMeans, RowOf
    <3>2. Ledger!Tell(key)
      BY <2>1, <2>2, <2>3, <3>1, CapturedTold
    <3> QED
      BY <2>2, <3>2 DEF Ledger!Next
  <2>4. CASE flush' # "sending"
    <3>1. OnTheWay' = OnTheWay /\ initialized' = initialized
      BY <2>1, <2>2, <2>4 DEF OnTheWay, initialized
    <3> QED
      BY <2>1, <2>2, <3>1 DEF Ledger!Settle, Ledger!Next
  <2> QED
    BY <2>3, <2>4
<1> DEFINE m == [key |-> sending.key, kind |-> sending.kind, rows |-> sending.rows]
<1>5. CASE SendAcknowledged
  <2>1. /\ UNCHANGED <<survivors, reported, confirmed, wire, status>>
        /\ controller' = [controller EXCEPT ![sending.key] = Upsert(@, sending)]
        /\ flush = "sending" /\ flush' = "settling"
    BY <1>5 DEF SendAcknowledged
  <2>2. m \in OnTheWay /\ OnTheWay' \in {OnTheWay, OnTheWay \ {m}}
    BY <2>1 DEF OnTheWay
  <2>3. controller' = [controller EXCEPT ![m.key] = Upsert(@, m)]
    BY <2>1 DEF Upsert
  <2>4. Ledger!Show
    BY <2>1, <2>2, <2>3, Arrives DEF initialized
  <2> QED
    BY <2>4 DEF Ledger!Next
<1>6. CASE SendThrows
  <2>1. /\ UNCHANGED <<survivors, reported, confirmed, controller, status>>
        /\ flush = "sending" /\ flush' = "off" /\ wire' \subseteq wire \cup {m}
    BY <1>6 DEF SendThrows, Aborted
  <2>2. OnTheWay' \subseteq OnTheWay /\ evidence' = evidence
    BY <2>1 DEF OnTheWay, evidence
  <2> QED
    BY <2>1, <2>2 DEF Ledger!Lose, Ledger!Next, initialized
<1>7. CASE FileRemoved
  <2>1. /\ UNCHANGED <<status, flush, sending, reported, confirmed, controller, wire>>
        /\ survivors' = [survivors EXCEPT ![key] = @ \cup {NoCkpt}]
    BY <1>7 DEF FileRemoved
  <2>2. /\ key \in Session /\ status = "running" /\ controller[key].kind = "closed"
        /\ controller[key].rows >= mem[key].rows
    <3>1. flush # "off"
      BY <1>0, <1>7, Removing DEF FileRemoved
    <3> QED
      BY <1>0, <1>7, <3>1, Removing DEF FileRemoved, FlushRuns
  <2>3. ASSUME NEW r \in evidence[key] PROVE Ledger!Delivered(key, r)
    <3>1. PICK c \in survivors[key] : r = RowOf(c)
      BY <2>2, EvidenceOf
    <3>2. mem[key].rows >= c.rows
      BY <2>2 DEF LInv, Grounded, Newest, InProcess, Ledger!Covers
    <3>3. mem[key].rows \in Nat /\ c.rows \in Nat /\ controller[key].rows \in Nat
      BY <1>0, <2>2, Fields
    <3> QED
      BY <2>2, <3>1, <3>2, <3>3 DEF Ledger!Delivered, RowOf
  <2>4. RowOf(NoCkpt) = Ledger!Nothing
    BY DEF RowOf, NoCkpt, Ledger!Nothing
  <2>5. evidence' = [evidence EXCEPT ![key] = @ \cup {Ledger!Nothing}]
    BY <1>0, <2>1, <2>2, <2>4, EvidenceGrows
  <2>6. OnTheWay' = OnTheWay /\ initialized /\ initialized' = initialized
    BY <2>1, <2>2 DEF OnTheWay, initialized
  <2>7. Ledger!Forget(key)
    BY <2>1, <2>3, <2>5, <2>6 DEF Ledger!Forget
  <2> QED
    BY <2>2, <2>7 DEF Ledger!Next
<1>8. CASE Removed
  <2>1. /\ UNCHANGED <<status, reported, confirmed, controller, wire>> /\ syncDirectory
        /\ flush' = "next" /\ flush = "settling"
    BY <1>0, <1>8, Removing DEF Removed, Continue
  <2>2. OnTheWay' = OnTheWay /\ initialized' = initialized
    BY <2>1 DEF OnTheWay, initialized
  <2> QED
    BY <1>0, <2>1, <2>2, SyncSettles DEF Ledger!Settle, Ledger!Next
<1> QED
  BY <1>1, <1>2, <1>3, <1>4, <1>5, <1>6, <1>7, <1>8 DEF Flushing

LEMMA RenameShows == LInv /\ Rename => [Ledger!Next]_Ledger!vars
<1> SUFFICES ASSUME LInv, Rename PROVE [Ledger!Next]_Ledger!vars
  OBVIOUS
<1> USE DEF loop, remote, history
<1>0. TypeOK /\ IInv /\ Converts
  BY DEF LInv, IInv, Shape
<1>1. /\ UNCHANGED <<status, flush, sending, reported, confirmed, controller, wire>>
      /\ survivors' = [survivors EXCEPT ![key] = @ \cup {encode(mem[key])}]
      /\ step = "writing"
  BY <1>0 DEF Rename
<1>2. /\ key \in Session /\ InProcess /\ queue # <<>> /\ ~mem[key].durable
      /\ mem[key].kind # "none" /\ Head(queue).name \in {"convert", "enqueue", "persist"}
      /\ Grounded(key)
  BY <1>0, <1>1, Writing DEF IInv, Shape, StepFits, LInv
<1>3. RowOf(encode(mem[key])) = RowOf(mem[key])
  BY <1>0, <1>2, EncodeType, Fields DEF RowOf
<1>4. evidence' = [evidence EXCEPT ![key] = @ \cup {RowOf(mem[key])}]
  BY <1>0, <1>1, <1>2, <1>3, EvidenceGrows
<1>5. ASSUME NEW r \in evidence[key] PROVE Ledger!Covers(RowOf(mem[key]), r)
  <2>1. PICK c \in survivors[key] : r = RowOf(c)
    BY <1>2, EvidenceOf
  <2> QED
    BY <1>2, <2>1 DEF Grounded, Newest, Ledger!Covers, RowOf
<1>6. OnTheWay' = OnTheWay /\ initialized' = initialized
  BY <1>1 DEF OnTheWay, initialized
<1>7. Ledger!Add(key, RowOf(mem[key]))
  BY <1>1, <1>4, <1>5, <1>6 DEF Ledger!Add
<1>8. CASE Head(queue).name \in {"enqueue", "persist"}
  <2>1. initialized
    BY <1>2, <1>8, HeadMeans DEF initialized
  <2>2. PICK r \in reported[key] : r.kind = mem[key].kind
    BY <1>2, <2>1 DEF Grounded, Founded
  <2>3. PICK s \in reported[key] : s.rows = mem[key].rows
    BY <1>2 DEF Grounded, Founded, HasRows
  <2>4. RowOf(mem[key]) = [kind |-> r.kind, rows |-> s.rows]
    BY <2>2, <2>3 DEF RowOf
  <2>5. Ledger!Keep(key)
    BY <1>7, <2>1, <2>4 DEF Ledger!Keep
  <2> QED
    BY <1>2, <2>5 DEF Ledger!Next
<1>9. CASE Head(queue).name = "convert"
  <2>1. /\ ~initialized /\ mem[key].kind = "closed" /\ disk[key].kind = "started"
        /\ disk[key].rows = mem[key].rows
    BY <1>0, <1>1, <1>2, <1>9, HeadMeans DEF initialized, Converts
  <2>2. RowOf(disk[key]) \in evidence[key]
    BY <1>0, <1>2, EvidenceOf DEF IInv, Visible
  <2>3. RowOf(disk[key]).kind = "started"
        /\ RowOf(mem[key]) = [kind |-> "closed", rows |-> RowOf(disk[key]).rows]
    BY <2>1 DEF RowOf
  <2>4. Ledger!Interrupt(key)
    BY <1>7, <2>1, <2>2, <2>3 DEF Ledger!Interrupt
  <2> QED
    BY <1>2, <2>4 DEF Ledger!Next
<1> QED
  BY <1>2, <1>8, <1>9

LEMMA OthersShow == LInv /\ (LateArrival \/ Stop \/ Exit \/ Crash) => [Ledger!Next]_Ledger!vars
<1> SUFFICES ASSUME LInv, LateArrival \/ Stop \/ Exit \/ Crash PROVE [Ledger!Next]_Ledger!vars
  OBVIOUS
<1> USE DEF chain, loop, files, remote, history
<1>1. CASE LateArrival
  <2>1. PICK m \in wire :
          /\ controller' = [controller EXCEPT ![m.key] = Upsert(@, m)]
          /\ wire' = wire \ {m}
          /\ UNCHANGED <<survivors, flush, sending, status, reported, confirmed>>
    BY <1>1 DEF LateArrival
  <2>2. m \in OnTheWay /\ OnTheWay' \in {OnTheWay, OnTheWay \ {m}}
    BY <2>1 DEF OnTheWay
  <2>3. Ledger!Show
    BY <2>1, <2>2, Arrives DEF initialized
  <2> QED
    BY <2>3 DEF Ledger!Next
<1>2. CASE Stop
  <2>1. UNCHANGED <<survivors, reported, confirmed, controller, wire, flush, sending>>
        /\ initialized' = initialized
    BY <1>2 DEF Stop, initialized
  <2> QED
    BY <2>1, Unseen
<1>3. CASE Exit \/ Crash
  <2>1. MemoryLost /\ UNCHANGED <<reported, confirmed, controller, wire>>
    BY <1>3 DEF Exit, Crash
  <2>2. initialized' = FALSE /\ OnTheWay' \subseteq OnTheWay
    BY <2>1 DEF MemoryLost, initialized, OnTheWay
  <2>3. CASE Exit
    BY <2>1, <2>2, <2>3 DEF Exit, evidence, Ledger!End, Ledger!Next
  <2>4. CASE Crash
    <3>1. DOMAIN evidence' = Session
      BY DEF evidence
    <3>2. ASSUME NEW k \in Session PROVE \E r \in evidence[k] : evidence'[k] = {r}
      <4>1. disk'[k] \in survivors[k] /\ survivors'[k] = {disk'[k]}
        BY <2>4 DEF Crash
      <4>2. evidence'[k] = {RowOf(c) : c \in survivors'[k]}
        BY DEF evidence
      <4>3. evidence'[k] = {RowOf(disk'[k])} /\ RowOf(disk'[k]) \in evidence[k]
        BY <4>1, <4>2, EvidenceOf
      <4> QED
        BY <4>3
    <3>3. Ledger!Settled
      BY <3>1, <3>2 DEF Ledger!Settled
    <3> QED
      BY <2>1, <2>2, <3>3 DEF Ledger!End, Ledger!Next
  <2> QED
    BY <1>3, <2>3, <2>4
<1> QED
  BY <1>1, <1>2, <1>3

\* The outbox implements AuditLedger, for any number of sessions, crashes and
\* failures: evidence only grows, on disk and at the controller, is made of what
\* callers reported and sent as it was written, and a file goes only when the
\* controller has all of it (enqueue 145-188, load 110-123, flushOnce 199-241).
THEOREM ImplementsLedger == Spec => KeepsLedger
<1>1. Init => Ledger!Init
  <2> SUFFICES ASSUME Init PROVE Ledger!Init
    OBVIOUS
  <2>1. evidence = [k \in Session |-> {Ledger!Nothing}]
    <3>1. \A k \in Session : {RowOf(c) : c \in survivors[k]} = {Ledger!Nothing}
      BY DEF Init, RowOf, NoCkpt, Ledger!Nothing
    <3> QED
      BY <3>1 DEF evidence
  <2>2. OnTheWay = {}
    BY DEF Init, OnTheWay
  <2>3. NoRow = Ledger!Nothing
    BY DEF NoRow, Ledger!Nothing
  <2> QED
    BY <2>1, <2>2, <2>3 DEF Init, initialized, Ledger!Init
<1>2. LInv /\ [Next]_vars => [Ledger!Next]_Ledger!vars
  <2>1. LInv /\ UNCHANGED vars => UNCHANGED Ledger!vars
    BY Unseen DEF vars, chain, loop, files, remote, history, initialized
  <2> QED
    BY <2>1, LoadingShows, EnqueuingShows, FlushingShows, RenameShows, OthersShow DEF Next
<1> QED
  BY <1>1, <1>2, LedgerInit, LedgerStep, PTL DEF Spec, KeepsLedger, Ledger!Spec
=============================================================================
