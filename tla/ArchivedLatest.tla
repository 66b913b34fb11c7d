--------------------------- MODULE ArchivedLatest ---------------------------
(***************************************************************************)
(* The newest archived value of a topic (buildLatestHistorySql and         *)
(* selectArchivedLatest of src/src/latest-value-history.ts).  The read     *)
(* asks for one row more than may share the newest instant, over all the   *)
(* tables of the topic, and an answer is given only when those rows agree. *)
(***************************************************************************)
EXTENDS HistorySql

CONSTANTS TieRows   \* LATEST_TIE_ROWS

\* ORDER BY the times, newest first, and then by the table.
LatestOrder(rows, i, j, temporal) ==
  LET key == <<temporal.fromColumn, temporal.toColumn>> IN
  \/ \E k \in 1 .. 2 :
       /\ rows[i].at[key[k]] > rows[j].at[key[k]]
       /\ \A l \in 1 .. (k - 1) : rows[i].at[key[l]] = rows[j].at[key[l]]
  \/ /\ \A k \in 1 .. 2 : rows[i].at[key[k]] = rows[j].at[key[k]]
     /\ \/ rows[i].table < rows[j].table
        \/ rows[i].table = rows[j].table /\ i < j

\* Mutant: the page has no room for one row too many.
TiesOnly == TieRows
PageRows == TieRows + 1

buildLatestHistorySql(rows, topic, temporal) ==
  LET timed == Filter(rows, {r \in ToSet(rows) : r.topic = topic /\ Timed(r, temporal)})
      order == {p \in (DOMAIN timed) \X (DOMAIN timed) : LatestOrder(timed, p[1], p[2], temporal)}
  IN  Limited(Ordered(timed, order), PageRows)

SameInstant(r, s, temporal) ==
  /\ r.at[temporal.fromColumn] = s.at[temporal.fromColumn]
  /\ r.at[temporal.toColumn] = s.at[temporal.toColumn]

\* Nothing is archived, or the sources contradict each other.
NothingArchived == [kind |-> "none"]
Conflict == [kind |-> "conflict"]
selectArchivedLatest(page, temporal) ==
  IF page = <<>> THEN NothingArchived
  ELSE LET newest == CHOOSE i \in DOMAIN page :
                       \A j \in DOMAIN page \ {i} : LatestOrder(page, i, j, temporal)
           ties   == {i \in DOMAIN page : SameInstant(page[i], page[newest], temporal)}
       IN  IF Cardinality(ties) > TieRows THEN Conflict
           ELSE IF \E i \in ties : page[i].value # page[newest].value THEN Conflict
           ELSE IF page[newest].value = Null THEN NothingArchived
           ELSE [kind |-> "value", value |-> page[newest].value,
                 timestamp |-> page[newest].at[temporal.fromColumn],
                 selectedTables |-> {page[i].table : i \in ties}]

latestArchived(rows, topic, temporal) ==
  selectArchivedLatest(buildLatestHistorySql(rows, topic, temporal), temporal)
=============================================================================
