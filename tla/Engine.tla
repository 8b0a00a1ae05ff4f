------------------------------- MODULE Engine -------------------------------
(***************************************************************************)
(* The engines of the program and the client one of them makes             *)
(* (src/src/engines.cc, mysql-client.cc, pg-client.cc).                    *)
(*                                                                         *)
(* Before main() the engines enter themselves into a table, in the order   *)
(* the linker gives their constructors.  The client made for the engine    *)
(* chosen then runs queries, and is left with a result to get rid of: on   *)
(* its connection (mysql_store_result() not called yet), or at Pg_client's *)
(* pointer res.  What the server answers is up to it; what a freed result  *)
(* or a MYSQL never initialised do is undefined.                           *)
(***************************************************************************)
EXTENDS Integers, FiniteSets

CONSTANTS
  Built,        \* the handles of the engines compiled in
  OtherHandles, \* handles of none
  MAX_ENGINES,
  Queries,
  QueryKinds    \* of each query, whether the server answers with rows, and what
                \* its has_result_set says

NONE == "none"

\* configure refuses to build without an engine, and the last slot is out of
\* new_client(int)'s reach.
ASSUME EngineAssumption ==
  /\ Built \subseteq {"mysql", "pg"} /\ Built # {} /\ OtherHandles \cap Built = {}
  /\ NONE \notin OtherHandles
  /\ MAX_ENGINES \in Nat /\ Cardinality(Built) < MAX_ENGINES
  /\ QueryKinds \in [Queries -> [rows : BOOLEAN, has_result_set : BOOLEAN]]

VARIABLES
  phase,       \* "static", "options", "main", "died" or "undefined"
  engines, initialized,  \* the table: slot id - 1 holds the handle, or NONE
  registered,  \* the engines whose constructor has run
  db_type,     \* an id
  asked,       \* the last -d, or NONE
  engine,      \* the engine of the client
  con,         \* "raw" (never connected), "open" or "closed"
  result,      \* NONE, "unread" on the connection, "kept" at res, or "freed" at res
  live,        \* how many PGresults have not been freed
  last,        \* the last query that ran, and by what
  why          \* what ended the process

registry_vars == <<engines, initialized, registered, db_type, asked, engine>>
client_vars   == <<con, result, live, last>>
vars == <<phase, registry_vars, client_vars, why>>

-----------------------------------------------------------------------------
(***************************************************************************)
(* The table.                                                              *)
(***************************************************************************)
Slots == 0..(MAX_ENGINES - 1)
EmptyTable == [s \in Slots |-> NONE]

First(S) == CHOOSE s \in S : \A u \in S : s <= u

Enter(table, h) ==
  LET free == {s \in Slots : table[s] = NONE}
  IN  IF free = {} THEN table ELSE [table EXCEPT ![First(free)] = h]

\* Mutant of Register: the table is cleared by every constructor.
RegisterClears(h) ==
  /\ phase = "static" /\ h \in Built \ registered
  /\ engines' = Enter(EmptyTable, h)
  /\ initialized' = 1 /\ registered' = registered \cup {h}
  /\ UNCHANGED <<phase, db_type, asked, engine, client_vars, why>>

\* Only the first constructor clears the table.  The table's own, which may run
\* before or after, is empty.
Register(h) ==
  /\ phase = "static" /\ h \in Built \ registered
  /\ engines' = Enter(IF initialized = 0 THEN EmptyTable ELSE engines, h)
  /\ initialized' = 1 /\ registered' = registered \cup {h}
  /\ UNCHANGED <<phase, db_type, asked, engine, client_vars, why>>

MainStarts ==
  /\ phase = "static" /\ registered = Built
  /\ phase' = "options"
  /\ UNCHANGED <<registry_vars, client_vars, why>>

\* engine_id(): 0 if no engine has the handle.
engine_id(h) ==
  LET of == {s \in Slots : engines[s] = h} IN IF of = {} THEN 0 ELSE First(of) + 1

SetDbType(h) ==
  /\ phase = "options"
  /\ db_type' = engine_id(h) /\ asked' = h
  /\ IF engine_id(h) = 0
     THEN phase' = "died" /\ why' = "unknown engine"
     ELSE UNCHANGED <<phase, why>>
  /\ UNCHANGED <<engines, initialized, registered, engine, client_vars>>

\* new_client(int) leaves the last id out.
HasEngine(id) == id > 0 /\ id < MAX_ENGINES /\ engines[id - 1] # NONE

\* A table section may have used the client already, and disconnected it: if the
\* table had to be loaded, res keeps the result of the last command.
MakeClient ==
  /\ phase = "options"
  /\ IF HasEngine(db_type)
     THEN /\ phase' = "main" /\ engine' = engines[db_type - 1] /\ UNCHANGED why
          /\ \/ con' = "raw" /\ UNCHANGED <<result, live>>
             \/ con' = "closed" /\ UNCHANGED <<result, live>>
             \/ con' = "closed" /\ engine' = "pg" /\ result' = "kept" /\ live' = live + 1
     ELSE phase' = "undefined" /\ why' = "null client" /\ UNCHANGED <<engine, con, result, live>>
  /\ UNCHANGED <<engines, initialized, registered, db_type, asked, last>>

-----------------------------------------------------------------------------
(***************************************************************************)
(* The client.                                                             *)
(***************************************************************************)
\* What may become of a query, before it is known what the server says.
Fates ==
  CASE engine = "mysql" /\ con = "raw"                        -> {"uninitialised MYSQL"}
    [] engine = "mysql" /\ con = "closed"                     -> {"no connection"}
    [] engine = "mysql" /\ con = "open" /\ result = "unread"  -> {"out of sync"}
    [] engine = "pg" /\ result = "freed"                      -> {"freed twice"}
    [] engine = "pg" /\ result # "freed" /\ con # "open"      -> {"no connection"}
    [] OTHER                                                  -> {"answered", "refused"}

Undefined == {"uninitialised MYSQL", "freed twice"}

\* Pg_client::safe_query() frees the result it holds before the query.
Freed == IF result = "kept" THEN live - 1 ELSE live

\* A query that was answered leaves its result on the connection, if it has
\* rows, or at res.
Left(q) == IF engine = "pg" THEN "kept" ELSE IF QueryKinds[q].rows THEN "unread" ELSE NONE

Ran(q, by) ==
  /\ phase = "main" /\ "answered" \in Fates
  /\ last' = [query |-> q, by |-> by]
  /\ UNCHANGED <<phase, registry_vars, con, why>>

\* Nobody asks for the result.
Leave(q) ==
  /\ result' = Left(q)
  /\ live' = IF engine = "pg" THEN Freed + 1 ELSE live

\* Mutants of LoseResult: res is not set to 0; PQclear() is forgotten.
LoseResultDangles == result' = (IF engine = "pg" THEN "freed" ELSE NONE) /\ live' = Freed
LoseResultForgets ==
  result' = NONE /\ live' = IF engine = "pg" THEN Freed + 1 ELSE live

\* The rows are fetched and freed, whichever engine.
LoseResult == result' = NONE /\ live' = Freed

\* Pg_client::dump_result() frees the result as well, but leaves res as it is.
DumpResult == result' = (IF engine = "pg" THEN "freed" ELSE NONE) /\ live' = Freed

\* query()
Query(q) == Ran(q, "query") /\ Leave(q)

\* run_save_result() dumps only what has_result_set says there is.
SaveResult(q) ==
  /\ Ran(q, "save")
  /\ IF QueryKinds[q].has_result_set THEN DumpResult ELSE Leave(q)

\* One shot of the query barrel.
Shot(q) ==
  /\ Ran(q, "shot")
  /\ IF QueryKinds[q].has_result_set THEN LoseResult ELSE Leave(q)

\* die(), or worse. Pg_client frees its result before and after.
QueryFails ==
  /\ phase = "main"
  /\ \E fate \in Fates \ {"answered"} :
       /\ why' = fate
       /\ phase' = IF fate \in Undefined THEN "undefined" ELSE "died"
  /\ result' = IF engine = "pg" THEN NONE ELSE result
  /\ live' = Freed
  /\ UNCHANGED <<registry_vars, con, last>>

\* "could not open dump file": the result is still at hand.
DumpFails(q) ==
  /\ phase = "main" /\ "answered" \in Fates /\ QueryKinds[q].has_result_set
  /\ phase' = "died" /\ why' = "dump file"
  /\ last' = [query |-> q, by |-> "save"]
  /\ Leave(q)
  /\ UNCHANGED <<registry_vars, con>>

\* A second connection leaves the first one behind, with its unread result.
Connect ==
  /\ phase = "main"
  /\ con' = "open"
  /\ result' = IF engine = "mysql" THEN NONE ELSE result
  /\ UNCHANGED <<phase, registry_vars, live, last, why>>

ConnectFails ==
  /\ phase = "main"
  /\ phase' = "died" /\ why' = "connect"
  /\ UNCHANGED <<registry_vars, client_vars>>

\* Pg_client keeps its result, and nothing is closed twice.
Disconnect ==
  /\ phase = "main"
  /\ con' = IF con = "open" THEN "closed" ELSE con
  /\ result' = IF engine = "mysql" THEN NONE ELSE result
  /\ UNCHANGED <<phase, registry_vars, live, last, why>>

-----------------------------------------------------------------------------
Init ==
  /\ phase = "static"
  /\ engines = EmptyTable /\ initialized = 0 /\ registered = {}
  /\ db_type = 1 /\ asked = NONE /\ engine = NONE
  /\ con = "raw" /\ result = NONE /\ live = 0
  /\ last = [query |-> NONE, by |-> NONE] /\ why = NONE

Starting ==
  \/ \E h \in Built : Register(h)
  \/ MainStarts
  \/ \E h \in Built \cup OtherHandles : SetDbType(h)
  \/ MakeClient

\* The lines of the main section that end in the engine.
Line ==
  \/ Connect \/ ConnectFails \/ Disconnect
  \/ \E q \in Queries : Query(q) \/ SaveResult(q) \/ DumpFails(q)
  \/ QueryFails

Next == Starting \/ Line \/ \E q \in Queries : Shot(q)

Spec == Init /\ [][Next]_vars

-----------------------------------------------------------------------------
\* In whatever order the constructors ran, every engine built can be chosen by
\* its name, the client made is of the engine chosen, and without a choice it
\* is of one that was built.
ChosenEngine ==
  /\ phase = "main" => engine \in Built /\ (asked # NONE => engine = asked)
  /\ why = "unknown engine" => asked \notin Built
  /\ why # "null client"

\* At most one result is kept, and none is lost: neither by a shot nor by a
\* dump, nor when a query fails or a connection is closed.
NoResultLeaks ==
  phase \in {"main", "died"} => live = IF result = "kept" THEN 1 ELSE 0

\* The last query left rows on the connection: nobody asked for them.
RowsLeft ==
  /\ last.by # NONE /\ QueryKinds[last.query].rows
  /\ last.by = "query" \/ ~QueryKinds[last.query].has_result_set

\* What a process that ended in the engine's hands had done before.  Under MySQL
\* the library calls a query on an open connection out of sync only after rows
\* nobody asked for, and a MYSQL never initialised is used only by a query that
\* no connect and no other query came before; under PostgreSQL a result is freed
\* twice only after one that was saved.  Only a query without an open connection
\* fails for the lack of one, and only one with it is refused, or answered and
\* then not dumped.  There is no other end.
FailuresHaveTheirCause ==
  /\ why = "out of sync" => engine = "mysql" /\ con = "open" /\ RowsLeft
  /\ why = "freed twice" =>
       engine = "pg" /\ last.by = "save" /\ QueryKinds[last.query].has_result_set
  /\ why = "uninitialised MYSQL" => engine = "mysql" /\ con = "raw" /\ last.by = NONE
  /\ why = "no connection" => con # "open" /\ (engine = "mysql" => con = "closed")
  /\ why \in {"refused", "dump file"} => con = "open"
  /\ phase \in {"died", "undefined"} =>
       why \in {"out of sync", "freed twice", "uninitialised MYSQL", "no connection",
                "refused", "dump file", "connect", "unknown engine"}
=============================================================================
