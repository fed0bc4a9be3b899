------------------------------- MODULE Schema -------------------------------
(***************************************************************************)
(* MySqlManager::Init: at every start the server connects, looks for its   *)
(* database, and makes each of its tables or brings it up to date, column  *)
(* by column.  It finds whatever an earlier version or an interrupted      *)
(* start has left.  One SQL statement is one step and may fail; the server *)
(* may crash between two.  A result is read row by row (QueryResult).      *)
(*                                                                         *)
(* History variable: clean.                                                *)
(***************************************************************************)
EXTENDS Integers, FiniteSets

CONSTANTS
  Tables,      \* 1 .. n: m_mapTable, in the order of the map
  Declared,    \* the columns each sTableInfo::mapField declares
  Foreign,     \* columns it does not declare
  MaxSqlErrors \* bound: statements that fail, and crashes

AllColumns == Declared \cup Foreign
NoTable == [made |-> FALSE, col |-> [c \in AllColumns |-> "none"]]

VARIABLES
  hasDb,     \* the database exists
  tables,    \* the tables: made, and the definition of each column
  boot,      \* where Init is
  at,        \* the table it works on
  unread,    \* rows of desc that NextRow has not reached
  rest,      \* declared columns desc has not shown
  change,    \* columns to be modified
  sqlErrors, \* faults so far
  clean      \* history: no statement has failed since the server was started

schemaVars == <<hasDb, tables, boot, at, unread, rest, change, sqlErrors, clean>>
lists == <<unread, rest, change>>

\* Databases earlier runs can have left: a table made by CreateTable of some
\* version, with columns missing or defined otherwise.
Earlier ==
  {NoTable} \cup
  {t \in [made : {TRUE}, col : [AllColumns -> {"none", "old", "declared"}]] :
     \A c \in Foreign : t.col[c] # "declared"}

Init ==
  /\ hasDb \in BOOLEAN
  /\ tables \in [Tables -> Earlier]
  /\ ~ hasDb => \A t \in Tables : tables[t] = NoTable
  /\ boot = "down" /\ at = 0
  /\ unread = {} /\ rest = {} /\ change = {}
  /\ sqlErrors = 0 /\ clean = TRUE

-----------------------------------------------------------------------------
(* Statements *)

Fault == sqlErrors < MaxSqlErrors /\ sqlErrors' = sqlErrors + 1

\* A statement fails and Init goes on at pc.
Fails(pc) == Fault /\ clean' = FALSE /\ boot' = pc /\ UNCHANGED <<hasDb, tables, at, lists>>

Ok == UNCHANGED <<sqlErrors, clean>>

\* The loop over m_mapTable goes on with the next table, or Init returns true.
NextTable ==
  IF at + 1 \in Tables THEN at' = at + 1 /\ boot' = "desc"
  ELSE at' = 0 /\ boot' = "serving"

\* Init returns false and main returns.
GiveUp == boot' = "down" /\ at' = 0 /\ UNCHANGED <<hasDb, tables, lists>>

-----------------------------------------------------------------------------
(* The start *)

\* mysql_real_connect names the database and fails when there is none.
Connect ==
  /\ boot = "down" /\ hasDb
  /\ boot' = "databases" /\ clean' = TRUE
  /\ UNCHANGED <<hasDb, tables, at, lists, sqlErrors>>

\* CheckDatabase finds the name among the rows of show databases.
CheckDatabase ==
  /\ boot = "databases"
  /\ \/ hasDb /\ at' = 1 /\ boot' = "desc" /\ Ok /\ UNCHANGED <<hasDb, tables, lists>>
     \/ Fails("createdb")

\* CreateDatabase, reached when show databases failed: the database is there.
CreateDatabase ==
  /\ boot = "createdb"
  /\ hasDb
  /\ GiveUp /\ Ok

-----------------------------------------------------------------------------
(* CheckTable *)

\* desc: the rows, or NULL for a table that is not there.
Desc ==
  /\ boot = "desc"
  /\ \/ /\ tables[at].made
        /\ unread' = {c \in AllColumns : tables[at].col[c] # "none"}
        /\ rest' = Declared /\ change' = {}
        /\ boot' = "rows" /\ Ok
        /\ UNCHANGED <<hasDb, tables, at>>
     \/ /\ ~ tables[at].made
        /\ boot' = "create" /\ Ok
        /\ UNCHANGED <<hasDb, tables, at, lists>>
     \/ Fails("create")

\* One row.  sType holds the whole definition and never equals the type desc
\* prints, so every declared column is put on the list of changes.
Row ==
  /\ boot = "rows" /\ unread # {}
  /\ LET c == CHOOSE x \in unread : TRUE
     IN /\ unread' = unread \ {c}
        /\ rest' = rest \ {c}
        /\ change' = IF c \in Declared THEN change \cup {c} ELSE change
  /\ Ok
  /\ UNCHANGED <<hasDb, tables, boot, at>>

\* NextRow returned false: EndQuery.
EndQuery ==
  /\ boot = "rows" /\ unread = {}
  /\ boot' = "add" /\ Ok
  /\ UNCHANGED <<hasDb, tables, at, lists>>

Altered(c) == [tables EXCEPT ![at].col[c] = "declared"]

\* ALTER TABLE ADD COLUMN for one that is missing; a failure ends CheckTable.
AddColumn ==
  /\ boot = "add" /\ rest # {}
  /\ LET c == CHOOSE x \in rest : TRUE
     IN \/ /\ tables' = Altered(c) /\ rest' = rest \ {c} /\ Ok
           /\ UNCHANGED <<hasDb, boot, at, unread, change>>
        \/ Fails("create2")

\* ALTER TABLE MODIFY COLUMN.
ModifyColumn ==
  /\ boot = "add" /\ rest = {} /\ change # {}
  /\ LET c == CHOOSE x \in change : TRUE
     IN \/ /\ tables' = Altered(c) /\ change' = change \ {c} /\ Ok
           /\ UNCHANGED <<hasDb, boot, at, unread, rest>>
        \/ Fails("create2")

Checked ==
  /\ boot = "add" /\ rest = {} /\ change = {}
  /\ NextTable /\ Ok
  /\ UNCHANGED <<hasDb, tables, lists>>

\* Mutant: CreateTable leaves out the last column.
Full_Short == [made |-> TRUE,
               col |-> [c \in AllColumns |->
                          IF c \in Declared \ {CHOOSE x \in Declared : TRUE}
                          THEN "declared" ELSE "none"]]

\* A table as CREATE TABLE makes it.
Full == [made |-> TRUE,
         col |-> [c \in AllColumns |-> IF c \in Declared THEN "declared" ELSE "none"]]

\* CREATE TABLE IF NOT EXISTS: in CheckTable when desc gave NULL, and again in
\* Init when CheckTable returned false for whatever reason.
CreateTable ==
  /\ boot \in {"create", "create2"}
  /\ \/ /\ tables' = IF tables[at].made THEN tables ELSE [tables EXCEPT ![at] = Full]
        /\ NextTable /\ Ok
        /\ UNCHANGED <<hasDb, lists>>
     \/ boot = "create" /\ Fails("create2")
     \/ boot = "create2" /\ Fault /\ clean' = FALSE /\ GiveUp

-----------------------------------------------------------------------------

\* The process ends, at any time.
Crash ==
  /\ boot # "down" /\ Fault
  /\ boot' = "down" /\ at' = 0
  /\ UNCHANGED <<hasDb, tables, lists, clean>>

\* Somebody makes the database by hand.
MakeDatabase ==
  /\ ~ hasDb /\ hasDb' = TRUE
  /\ UNCHANGED <<tables, boot, at, lists, sqlErrors, clean>>

InitStep ==
  \/ CheckDatabase \/ CreateDatabase \/ Desc \/ Row \/ EndQuery \/ AddColumn \/ ModifyColumn
  \/ Checked \/ CreateTable

Next == Connect \/ InitStep \/ Crash \/ MakeDatabase

Fairness == WF_schemaVars(InitStep)

Spec == Init /\ [][Next]_schemaVars /\ Fairness

-----------------------------------------------------------------------------
(* Properties *)

\* A server that came up without a failed statement has every declared column
\* of every table as declared, whatever an older version, a crash in the
\* middle of an earlier start or a failed statement had left.  (A failed ALTER
\* does not keep the server from starting: CreateTable's IF NOT EXISTS turns
\* CheckTable's false into a success.)
SchemaReady ==
  boot = "serving" /\ clean =>
    \A t \in Tables : tables[t].made /\ \A c \in Declared : tables[t].col[c] = "declared"

\* Init ends: it serves or gives up, however many columns it has to look at.
StartEnds == boot # "down" ~> boot \in {"serving", "down"}
=============================================================================
