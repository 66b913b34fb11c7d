--------------------------- MODULE HistorySources ---------------------------
(***************************************************************************)
(* One read of a topic's history from its tables (readAvailableHistory and *)
(* combineHistorySchemas of src/src/history-table-source.ts, readHistory   *)
(* of src/src/history-source-diagnostics.ts, getTableSchema and the reads  *)
(* in the handlers of src/src/index.ts).                                   *)
(*                                                                         *)
(* A read learns the columns of each table, from a cache or the database,  *)
(* and then queries all tables at once.  When the database says that one   *)
(* of them does not exist, and it may be left out, the read starts again   *)
(* without it and reports it as missing.  Tables are dropped at any time.  *)
(***************************************************************************)
EXTENDS RequestClock, Filtering

CONSTANTS Table

VARIABLES
  existing,   \* external: the tables of the database
  schemas,    \* tableSchemaCache: tables with columns that are not yet too old
  item        \* the read of each reader

sourceVars == <<existing, schemas, item>>

NoRead == [stage |-> "none", topic |-> "none", mapped |-> <<>>, partial |-> FALSE,
           tables |-> <<>>, missing |-> {}, known |-> 0]

Retired(x) == {m.table : m \in {n \in Range(item[x].mapped) : n.retired}}
Mapped(x)  == {m.table : m \in Range(item[x].mapped)}

Ends(x, outcome) == item' = [item EXCEPT ![x].stage = outcome]

\* Reader x begins with the tables of the sequence sources; partial: retired tables
\* may be missing.
ReadBegins(x, sources, partial) ==
  /\ IF sources = <<>> THEN Ends(x, "failed")       \* no mapping found
     ELSE item' = [item EXCEPT ![x] = [@ EXCEPT
            !.stage = "schema", !.mapped = sources, !.partial = partial,
            !.tables = [i \in DOMAIN sources |-> sources[i].table]]]
  /\ UNCHANGED <<existing, schemas>>

\* Mutant: any registered table may be left out.
LeftOutAny(x, t) == /\ item[x].partial /\ Len(item[x].tables) > 1
                    /\ t \in Range(item[x].tables) /\ t \in Mapped(x)

\* The database says that t does not exist.
LeftOut(x, t) == /\ item[x].partial /\ Len(item[x].tables) > 1
                 /\ t \in Range(item[x].tables) /\ t \in Retired(x)

Misses(x, t) ==
  IF LeftOut(x, t)
  THEN item' = [item EXCEPT ![x] = [item[x] EXCEPT
         !.stage = "schema", !.known = 0, !.missing = item[x].missing \cup {t},
         !.tables = Filter(item[x].tables, Range(item[x].tables) \ {t})]]
  ELSE Ends(x, "failed")

\* The columns of the next table are learnt.
SchemaRead(x) ==
  LET t == item[x].tables[item[x].known + 1]
  IN /\ item[x].stage = "schema"
     /\ \/ /\ t \in schemas \/ t \in existing
           /\ schemas' = schemas \cup {t}
           /\ item' = [item EXCEPT ![x] = [item[x] EXCEPT !.known = item[x].known + 1,
                !.stage = IF item[x].known + 1 = Len(item[x].tables) THEN "query" ELSE "schema"]]
        \/ t \notin schemas /\ t \notin existing /\ Misses(x, t) /\ UNCHANGED schemas
        \/ t \notin schemas /\ Ends(x, "failed") /\ UNCHANGED schemas
     /\ UNCHANGED existing

\* The query ends.  The columns may not fit together, too much may have been scanned.
Queried(x) ==
  /\ item[x].stage = "query"
  /\ \/ Range(item[x].tables) \subseteq existing /\ Ends(x, "ok")
     \/ \E t \in Range(item[x].tables) \ existing : Misses(x, t)
     \/ Ends(x, "failed")
  /\ UNCHANGED <<existing, schemas>>

Drop(t) == /\ t \in existing /\ existing' = existing \ {t} /\ UNCHANGED <<schemas, item>>

\* An entry of the schema cache is too old.
SchemaExpires(t) ==
  /\ t \in schemas /\ schemas' = schemas \ {t} /\ UNCHANGED <<existing, item>>

SourcesInit ==
  /\ existing = Table /\ schemas = {} /\ item = [x \in Reader |-> NoRead]
=============================================================================
