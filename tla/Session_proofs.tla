---------------------------- MODULE Session_proofs ----------------------------
(***************************************************************************)
(* Safety properties of Engine, for either or both engines and any size of *)
(* their table, any queries, and any number of lines and shots; of Barrel, *)
(* for any text and any numbers of shots, rounds and calls; and that       *)
(* Session is both at once.                                                *)
(***************************************************************************)
EXTENDS Session, FiniteSetTheorems, SequenceTheorems, WellFoundedInduction, TLAPS

\* The table is filled from its first slot on, each engine once, and the
\* constructors that ran are those in it.
TableInv ==
  /\ engines \in [Slots -> Built \cup {NONE}]
  /\ registered \subseteq Built
  /\ initialized = 0 => registered = {}
  /\ \A s \in Slots : engines[s] # NONE <=> s < Cardinality(registered)
  /\ \A h \in registered : \E s \in Slots : engines[s] = h
  /\ \A s, u \in Slots : engines[s] # NONE /\ engines[s] = engines[u] => s = u
  /\ \A s \in Slots : engines[s] # NONE => engines[s] \in registered
  /\ phase # "static" => registered = Built

LEMMA BuiltFacts ==
  /\ IsFiniteSet(Built) /\ Cardinality(Built) \in Nat /\ Cardinality(Built) > 0
  /\ NONE \notin Built /\ Cardinality(Built) < MAX_ENGINES /\ MAX_ENGINES \in Nat
<1>1. IsFiniteSet({"mysql", "pg"})
  <2>1. IsFiniteSet({"mysql"})
    BY FS_Singleton
  <2> QED
    BY <2>1, FS_AddElement
<1>2. IsFiniteSet(Built)
  BY <1>1, FS_Subset, EngineAssumption DEF EngineAssumption
<1>3. Cardinality(Built) \in Nat /\ Cardinality(Built) # 0
  BY <1>2, FS_CardinalityType, FS_EmptySet, EngineAssumption DEF EngineAssumption
<1> QED
  BY <1>2, <1>3, EngineAssumption DEF EngineAssumption, NONE

\* Fewer constructors have run than the table has slots but one.
LEMMA RegisteredFacts ==
  ASSUME registered \subseteq Built
  PROVE  /\ IsFiniteSet(registered) /\ Cardinality(registered) \in Nat
         /\ Cardinality(registered) < MAX_ENGINES
BY BuiltFacts, FS_Subset, FS_CardinalityType

\* The first element of a set that has a least one.
LEMMA FirstIsLeast ==
  ASSUME NEW S, S \subseteq Nat, NEW n \in S, \A u \in S : n <= u
  PROVE  First(S) = n
<1>1. \A s \in S : (\A u \in S : s <= u) => s = n
  OBVIOUS
<1>2. First(S) \in S /\ \A u \in S : First(S) <= u
  BY DEF First
<1> QED
  BY <1>1, <1>2

\* What a constructor adds, it adds in the first free slot.
LEMMA RegisterStep ==
  ASSUME TableInv, NEW h \in Built, Register(h)
  PROVE  TableInv'
<1> DEFINE n == Cardinality(registered)
           table == IF initialized = 0 THEN EmptyTable ELSE engines
<1>1. n \in Slots /\ n \in Nat
  BY RegisteredFacts, BuiltFacts DEF TableInv, Slots
<1>2. /\ table \in [Slots -> Built \cup {NONE}]
      /\ \A s \in Slots : table[s] # NONE <=> s < n
      /\ \A g \in registered : \E s \in Slots : table[s] = g
      /\ \A s, u \in Slots : table[s] # NONE /\ table[s] = table[u] => s = u
      /\ \A s \in Slots : table[s] # NONE => table[s] \in registered
  <2>1. CASE initialized = 0
    <3>1. n = 0
      BY <2>1, FS_EmptySet DEF TableInv
    <3> QED
      BY <2>1, <3>1, BuiltFacts DEF TableInv, EmptyTable, Slots
  <2>2. CASE initialized # 0
    BY <2>2 DEF TableInv
  <2> QED
    BY <2>1, <2>2
<1> DEFINE free == {s \in Slots : table[s] = NONE}
<1>3. n \in free /\ free \subseteq Nat /\ \A u \in free : n <= u
  BY <1>1, <1>2, BuiltFacts DEF Slots
<1>4. First(free) = n
  <2> HIDE DEF free
  <2> QED
    BY <1>3, FirstIsLeast
<1>5. engines' = [table EXCEPT ![n] = h]
  BY <1>3, <1>4 DEF Register, Enter
<1>6. /\ registered' = registered \cup {h} /\ h \notin registered
      /\ initialized' = 1 /\ phase' = "static"
  BY DEF Register
<1>7. Cardinality(registered') = n + 1
  BY <1>6, FS_AddElement, RegisteredFacts DEF TableInv
<1>8. engines' \in [Slots -> Built \cup {NONE}]
  BY <1>2, <1>5
<1> HIDE DEF n, table, free
<1>9. \A s \in Slots : engines'[s] = IF s = n THEN h ELSE table[s]
  BY <1>2, <1>5
<1>10. h # NONE
  BY BuiltFacts
<1>11. \A s \in Slots : engines'[s] # NONE <=> s < n + 1
  BY <1>1, <1>2, <1>9, <1>10, BuiltFacts DEF Slots
<1>12. \A g \in registered' : \E s \in Slots : engines'[s] = g
  <2> TAKE g \in registered'
  <2>1. CASE g = h
    BY <2>1, <1>1, <1>9
  <2>2. CASE g # h
    <3>1. PICK s \in Slots : table[s] = g
      BY <2>2, <1>2, <1>6
    <3>2. s # n
      BY <3>1, <1>2, <1>1, <1>6, <2>2, BuiltFacts DEF TableInv
    <3> QED
      BY <3>1, <3>2, <1>9
  <2> QED
    BY <2>1, <2>2
<1>13. \A s \in Slots : engines'[s] # NONE => engines'[s] \in registered'
  BY <1>2, <1>6, <1>9
<1>14. \A s, u \in Slots : engines'[s] # NONE /\ engines'[s] = engines'[u] => s = u
  BY <1>2, <1>6, <1>9
<1>15. registered' \subseteq Built
  BY <1>6 DEF TableInv
<1> QED
  BY <1>6, <1>7, <1>8, <1>11, <1>12, <1>13, <1>14, <1>15 DEF TableInv

-----------------------------------------------------------------------------
\* What the choice of an engine rests on, from the options to the client.
ChoiceInv ==
  /\ phase \in {"static", "options", "main"} => why = NONE
  /\ phase = "static" => asked = NONE
  /\ asked = NONE => db_type = 1
  /\ asked # NONE /\ phase = "options" =>
       /\ asked \in Built /\ db_type \in 1..(MAX_ENGINES - 1)
       /\ engines[db_type - 1] = asked
  /\ ChosenEngine

\* What is at hand of the last query.
ResultInv ==
  /\ phase \in {"static", "options"} =>
       engine = NONE /\ con = "raw" /\ result = NONE /\ live = 0 /\ last.by = NONE
  /\ phase = "main" => engine \in {"mysql", "pg"}
  /\ engine = "mysql" => result \in {NONE, "unread"}
  /\ engine # "mysql" => result # "unread"
  /\ result \in {NONE, "unread", "kept", "freed"} /\ live \in Int
  /\ con \in {"raw", "open", "closed"} /\ (con = "raw" => last.by = NONE)
  /\ phase # "undefined" => live = IF result = "kept" THEN 1 ELSE 0
  /\ phase = "main" /\ result = "unread" => RowsLeft
  /\ phase = "main" /\ result = "freed" =>
       last.by = "save" /\ QueryKinds[last.query].has_result_set
  /\ FailuresHaveTheirCause

\* The inductive invariant.
EngineInv == TableInv /\ ChoiceInv /\ ResultInv

LEMMA InitInv == Init => EngineInv
<1> SUFFICES ASSUME Init PROVE EngineInv
  OBVIOUS
<1>1. Cardinality(registered) = 0
  BY FS_EmptySet DEF Init
<1>2. TableInv
  BY <1>1, BuiltFacts DEF Init, TableInv, EmptyTable, Slots
<1>3. ChoiceInv
  BY DEF Init, ChoiceInv, ChosenEngine, NONE
<1>4. ResultInv
  BY DEF Init, ResultInv, FailuresHaveTheirCause, RowsLeft, NONE
<1> QED
  BY <1>2, <1>3, <1>4 DEF EngineInv

\* The engine a handle names is found where it is.
LEMMA IdFacts ==
  ASSUME TableInv, phase # "static", NEW h \in Built
  PROVE  engine_id(h) \in 1..(MAX_ENGINES - 1) /\ engines[engine_id(h) - 1] = h
<1>1. PICK s \in Slots : engines[s] = h
  BY DEF TableInv
<1>2. s < MAX_ENGINES - 1 /\ s \in Nat
  <2>1. engines[s] # NONE
    BY <1>1, BuiltFacts
  <2>2. s < Cardinality(Built)
    BY <2>1 DEF TableInv
  <2> QED
    BY <2>2, BuiltFacts DEF Slots
<1> DEFINE of == {u \in Slots : engines[u] = h}
<1>3. of = {s}
  BY <1>1, BuiltFacts DEF TableInv
<1>4. First(of) = s
  <2> HIDE DEF of
  <2> QED
    BY <1>2, <1>3, FirstIsLeast
<1>5. engine_id(h) = s + 1
  BY <1>3, <1>4 DEF engine_id
<1>6. engine_id(h) - 1 = s
  BY <1>2, <1>5
<1>7. engine_id(h) \in 1..(MAX_ENGINES - 1)
  BY <1>2, <1>5, BuiltFacts
<1> QED
  BY <1>1, <1>6, <1>7

LEMMA NobodysId ==
  ASSUME TableInv, NEW h \in OtherHandles
  PROVE  engine_id(h) = 0
<1>1. {s \in Slots : engines[s] = h} = {}
  BY EngineAssumption DEF EngineAssumption, TableInv
<1> QED
  BY <1>1 DEF engine_id

\* The first slot is an engine's, once the constructors have run.
LEMMA DefaultFacts ==
  ASSUME TableInv, phase # "static"
  PROVE  HasEngine(1) /\ engines[0] \in Built
<1>1. 0 \in Slots /\ engines[0] # NONE /\ MAX_ENGINES > 1
  BY BuiltFacts DEF TableInv, Slots
<1> QED
  BY <1>1 DEF HasEngine, TableInv

\* What may become of a query tells what went before.
LEMMA FateFacts ==
  ASSUME engine \in {"mysql", "pg"}, con \in {"raw", "open", "closed"},
         engine = "mysql" => result # "freed"
  PROVE  /\ "answered" \in Fates =>
              con = "open" /\ result # "freed" /\ (engine = "mysql" => result # "unread")
         /\ "out of sync" \in Fates => engine = "mysql" /\ con = "open" /\ result = "unread"
         /\ "freed twice" \in Fates => engine = "pg" /\ result = "freed"
         /\ "uninitialised MYSQL" \in Fates => engine = "mysql" /\ con = "raw"
         /\ "no connection" \in Fates => con # "open" /\ (engine = "mysql" => con = "closed")
         /\ "refused" \in Fates => con = "open"
         /\ Fates \subseteq {"answered", "refused", "no connection", "out of sync",
                            "freed twice", "uninitialised MYSQL"}
<1>1. CASE engine = "mysql" /\ con = "raw"
  BY <1>1 DEF Fates
<1>2. CASE engine = "mysql" /\ con = "closed"
  BY <1>2 DEF Fates
<1>3. CASE engine = "mysql" /\ con = "open" /\ result = "unread"
  BY <1>3 DEF Fates
<1>4. CASE engine = "pg" /\ result = "freed"
  BY <1>4 DEF Fates
<1>5. CASE engine = "pg" /\ result # "freed" /\ con # "open"
  BY <1>5 DEF Fates
<1>6. CASE con = "open" /\ result # "freed" /\ ~(engine = "mysql" /\ result = "unread")
  <2>1. Fates = {"answered", "refused"}
    BY <1>6 DEF Fates
  <2> QED
    BY <1>6, <2>1
<1> QED
  BY <1>1, <1>2, <1>3, <1>4, <1>5, <1>6

-----------------------------------------------------------------------------
\* The constructors, and main() once they have all run.
LEMMA StaticStep ==
  ASSUME EngineInv, (\E h \in Built : Register(h)) \/ MainStarts
  PROVE  EngineInv'
<1>1. ASSUME NEW h \in Built, Register(h) PROVE EngineInv'
  <2>1. TableInv'
    BY <1>1, RegisterStep DEF EngineInv
  <2>2. /\ phase = "static" /\ phase' = "static"
        /\ UNCHANGED <<db_type, asked, engine, con, result, live, last, why>>
    BY <1>1 DEF Register, client_vars
  <2>3. ChoiceInv'
    BY <2>2 DEF EngineInv, ChoiceInv, ChosenEngine
  <2>4. ResultInv'
    BY <2>2 DEF EngineInv, ResultInv, RowsLeft, FailuresHaveTheirCause
  <2> QED
    BY <2>1, <2>3, <2>4 DEF EngineInv
<1>2. CASE MainStarts
  <2>1. /\ phase = "static" /\ phase' = "options" /\ registered = Built
        /\ UNCHANGED <<engines, initialized, registered, db_type, asked, engine,
                       con, result, live, last, why>>
    BY <1>2 DEF MainStarts, registry_vars, client_vars
  <2>2. TableInv'
    BY <2>1 DEF EngineInv, TableInv
  <2>3. ChoiceInv'
    BY <2>1 DEF EngineInv, ChoiceInv, ChosenEngine
  <2>4. ResultInv'
    BY <2>1 DEF EngineInv, ResultInv, RowsLeft, FailuresHaveTheirCause
  <2> QED
    BY <2>2, <2>3, <2>4 DEF EngineInv
<1> QED
  BY <1>1, <1>2

\* -d: an id that makes the engine named, or the end.
LEMMA OptionStep ==
  ASSUME EngineInv, NEW h \in Built \cup OtherHandles, SetDbType(h)
  PROVE  EngineInv'
<1>1. /\ phase = "options" /\ db_type' = engine_id(h) /\ asked' = h
      /\ UNCHANGED <<engines, initialized, registered, engine, con, result, live, last>>
  BY DEF SetDbType, client_vars
<1>2. TableInv /\ TableInv'
  BY <1>1 DEF EngineInv, TableInv, SetDbType
<1>3. h # NONE
  BY BuiltFacts, EngineAssumption DEF EngineAssumption
<1>4. CASE h \in Built
  <2>1. engine_id(h) \in 1..(MAX_ENGINES - 1) /\ engines[engine_id(h) - 1] = h
    BY <1>1, <1>2, <1>4, IdFacts
  <2>5. engine_id(h) # 0
    BY <2>1, BuiltFacts
  <2>2. phase' = phase /\ why' = why
    BY <2>5 DEF SetDbType
  <2>6. /\ db_type' \in 1..(MAX_ENGINES - 1) /\ engines'[db_type' - 1] = asked'
        /\ asked' \in Built /\ asked' # NONE
    BY <1>1, <1>3, <1>4, <2>1
  <2>3. ChoiceInv'
    BY <1>1, <2>2, <2>6 DEF EngineInv, ChoiceInv, ChosenEngine, NONE
  <2>4. ResultInv'
    BY <1>1, <2>2 DEF EngineInv, ResultInv, RowsLeft, FailuresHaveTheirCause
  <2> QED
    BY <1>2, <2>3, <2>4 DEF EngineInv
<1>5. CASE h \notin Built
  <2>1. phase' = "died" /\ why' = "unknown engine"
    BY <1>2, <1>5, NobodysId DEF SetDbType
  <2>2. ChoiceInv'
    BY <1>1, <1>3, <1>5, <2>1 DEF EngineInv, ChoiceInv, ChosenEngine
  <2>3. ResultInv'
    BY <1>1, <2>1 DEF EngineInv, ResultInv, RowsLeft, FailuresHaveTheirCause
  <2> QED
    BY <1>2, <2>2, <2>3 DEF EngineInv
<1> QED
  BY <1>4, <1>5

\* The client is of the engine chosen, or of the first one.
LEMMA MakeStep ==
  ASSUME EngineInv, MakeClient
  PROVE  EngineInv'
<1>1. phase = "options" /\ UNCHANGED <<engines, initialized, registered, db_type, asked, last>>
  BY DEF MakeClient
<1>2. TableInv /\ ChoiceInv /\ ResultInv
  BY DEF EngineInv
<1>3. HasEngine(db_type) /\ engines[db_type - 1] \in Built
       /\ (asked # NONE => engines[db_type - 1] = asked)
  <2>1. CASE asked = NONE
    BY <1>1, <1>2, <2>1, DefaultFacts DEF ChoiceInv
  <2>2. CASE asked # NONE
    BY <1>1, <1>2, <2>2, BuiltFacts DEF ChoiceInv, HasEngine
  <2> QED
    BY <2>1, <2>2
<1>4. /\ phase' = "main" /\ engine' = engines[db_type - 1] /\ why' = why
      /\ \/ con' = "raw" /\ result' = result /\ live' = live
         \/ con' = "closed" /\ result' = result /\ live' = live
         \/ con' = "closed" /\ engine' = "pg" /\ result' = "kept" /\ live' = live + 1
  BY <1>3 DEF MakeClient
<1>5. TableInv'
  BY <1>1, <1>2, <1>4 DEF TableInv
<1>6. ChoiceInv'
  BY <1>1, <1>2, <1>3, <1>4 DEF ChoiceInv, ChosenEngine
<1>7. engine' \in {"mysql", "pg"}
  BY <1>3, <1>4, EngineAssumption DEF EngineAssumption
<1>8. result = NONE /\ live = 0 /\ why = NONE /\ last.by = NONE
  BY <1>1, <1>2 DEF ChoiceInv, ResultInv
<1>9. ResultInv'
  BY <1>1, <1>2, <1>4, <1>7, <1>8
     DEF ResultInv, RowsLeft, FailuresHaveTheirCause, NONE
<1> QED
  BY <1>5, <1>6, <1>9 DEF EngineInv

-----------------------------------------------------------------------------
\* What a line or a shot leaves alone.
Untouched == UNCHANGED <<engines, initialized, registered, db_type, asked, engine>>

\* The lines have no part in the choice of the engine.
LEMMA ChoiceKept ==
  ASSUME TableInv, ChoiceInv, phase = "main", Untouched, phase' \in {"main", "died", "undefined"},
         phase' = "main" => why' = why, why' \notin {"unknown engine", "null client"}
  PROVE  TableInv' /\ ChoiceInv'
<1>1. TableInv'
  BY DEF TableInv, Untouched
<1>2. ChoiceInv'
  BY DEF ChoiceInv, ChosenEngine, Untouched
<1> QED
  BY <1>1, <1>2

\* A query that was answered, whatever becomes of its result.
LEMMA AnsweredStep ==
  ASSUME EngineInv, NEW q \in Queries, NEW by \in {"query", "save", "shot"}, Ran(q, by),
         \/ Leave(q) /\ (by = "query" \/ ~QueryKinds[q].has_result_set)
         \/ LoseResult
         \/ DumpResult /\ by = "save" /\ QueryKinds[q].has_result_set
  PROVE  EngineInv'
<1> DEFINE rows == QueryKinds[q].rows
           shown == QueryKinds[q].has_result_set
<1>1. /\ phase = "main" /\ phase' = "main" /\ Untouched /\ UNCHANGED <<con, why>>
      /\ last'.query = q /\ last'.by = by /\ "answered" \in Fates
  BY DEF Ran, registry_vars, Untouched
<1>2. TableInv /\ ChoiceInv /\ ResultInv
  BY DEF EngineInv
<1>3. why = NONE /\ engine \in {"mysql", "pg"} /\ engine' = engine
  BY <1>1, <1>2 DEF ChoiceInv, ResultInv, Untouched
<1>4. con = "open" /\ result # "freed" /\ (engine = "mysql" => result # "unread")
  BY <1>2, <1>3, <1>1, FateFacts DEF ResultInv, NONE
<1>5. TableInv' /\ ChoiceInv'
  BY <1>1, <1>2, <1>3, ChoiceKept DEF NONE
<1>6. Freed = 0
  BY <1>1, <1>2 DEF ResultInv, Freed
<1>7. CASE engine = "mysql"
  <2>1. live = 0
    BY <1>1, <1>2, <1>7 DEF ResultInv, NONE
  <2>2. live' = 0 /\ result' \in {NONE, "unread"}
    BY <1>6, <1>7, <2>1 DEF Leave, Left, LoseResult, DumpResult
  <2>3. result' = "unread" => rows /\ (by = "query" \/ ~shown)
    BY <1>7 DEF Leave, Left, LoseResult, DumpResult, NONE
  <2>4. result' = "unread" => RowsLeft'
    BY <2>3, <1>1 DEF RowsLeft, NONE
  <2> QED
    BY <1>1, <1>2, <1>3, <1>4, <1>5, <1>7, <2>2, <2>4
       DEF EngineInv, ResultInv, FailuresHaveTheirCause, NONE
<1>8. CASE engine = "pg"
  <2>1. \/ result' = "kept" /\ live' = 1
        \/ result' = NONE /\ live' = 0
        \/ result' = "freed" /\ live' = 0 /\ by = "save" /\ shown
    BY <1>6, <1>8 DEF Leave, Left, LoseResult, DumpResult
  <2> QED
    BY <1>1, <1>2, <1>3, <1>4, <1>5, <1>8, <2>1
       DEF EngineInv, ResultInv, FailuresHaveTheirCause, NONE
<1> QED
  BY <1>3, <1>7, <1>8

\* A query that fails ends the process, and says why.
LEMMA FailStep ==
  ASSUME EngineInv, QueryFails
  PROVE  EngineInv'
<1>1. PICK fate \in Fates \ {"answered"} :
         why' = fate /\ phase' = IF fate \in Undefined THEN "undefined" ELSE "died"
  BY DEF QueryFails
<1>2. /\ phase = "main" /\ Untouched /\ UNCHANGED <<con, last>> /\ live' = Freed
      /\ result' = IF engine = "pg" THEN NONE ELSE result
  BY DEF QueryFails, registry_vars, Untouched
<1>3. TableInv /\ ChoiceInv /\ ResultInv
  BY DEF EngineInv
<1>4. engine \in {"mysql", "pg"} /\ engine' = engine
  BY <1>2, <1>3 DEF ResultInv, Untouched
<1>5. /\ fate = "out of sync" => engine = "mysql" /\ con = "open" /\ result = "unread"
      /\ fate = "freed twice" => engine = "pg" /\ result = "freed"
      /\ fate = "uninitialised MYSQL" => engine = "mysql" /\ con = "raw"
      /\ fate = "no connection" => con # "open" /\ (engine = "mysql" => con = "closed")
      /\ fate = "refused" => con = "open"
      /\ fate \in {"refused", "no connection", "out of sync", "freed twice",
                    "uninitialised MYSQL"}
  BY <1>1, <1>3, <1>4, FateFacts DEF ResultInv, NONE
<1>6. TableInv' /\ ChoiceInv'
  BY <1>1, <1>2, <1>3, <1>5, ChoiceKept
<1>7. Freed = 0
  BY <1>2, <1>3 DEF ResultInv, Freed
<1>8. FailuresHaveTheirCause'
  BY <1>1, <1>2, <1>3, <1>4, <1>5 DEF ResultInv, FailuresHaveTheirCause, RowsLeft
<1>9. result' \in {NONE, "unread"} /\ (engine # "mysql" => result' = NONE)
  BY <1>2, <1>3, <1>4 DEF ResultInv
<1>10. phase' \in {"died", "undefined"}
  BY <1>1
<1> QED
  BY <1>2, <1>3, <1>4, <1>6, <1>7, <1>8, <1>9, <1>10 DEF EngineInv, ResultInv, NONE

\* The other lines.
LEMMA LineStep ==
  ASSUME EngineInv,
         Connect \/ ConnectFails \/ Disconnect \/ \E q \in Queries : DumpFails(q)
  PROVE  EngineInv'
<1>1. phase = "main" /\ TableInv /\ ChoiceInv /\ ResultInv /\ Untouched
  BY DEF EngineInv, Connect, ConnectFails, Disconnect, DumpFails, registry_vars, Untouched
<1>2. engine \in {"mysql", "pg"} /\ engine' = engine /\ why = NONE
  BY <1>1 DEF ResultInv, ChoiceInv, Untouched
<1>3. CASE Connect \/ Disconnect
  <2>1. /\ phase' = phase /\ why' = why /\ last' = last /\ live' = live
        /\ result' = (IF engine = "mysql" THEN NONE ELSE result)
        /\ con' \in {"raw", "open", "closed"} /\ (con' = "raw" => con = "raw")
    BY <1>1, <1>3 DEF Connect, Disconnect, ResultInv
  <2>2. TableInv' /\ ChoiceInv'
    BY <1>1, <1>2, <2>1, ChoiceKept DEF NONE
  <2>3. FailuresHaveTheirCause'
    BY <1>1, <1>2, <2>1 DEF FailuresHaveTheirCause, NONE
  <2>4. engine = "mysql" => result' # "kept" /\ result # "kept"
    BY <1>1, <2>1 DEF ResultInv, NONE
  <2>5. engine # "mysql" => result' = result
    BY <2>1
  <2> QED
    BY <1>1, <1>2, <2>1, <2>2, <2>3, <2>4, <2>5 DEF EngineInv, ResultInv, RowsLeft, NONE
<1>4. CASE ConnectFails
  <2>1. phase' = "died" /\ why' = "connect" /\ UNCHANGED <<con, result, live, last>>
    BY <1>4 DEF ConnectFails, client_vars
  <2>2. TableInv' /\ ChoiceInv'
    BY <1>1, <2>1, ChoiceKept
  <2> QED
    BY <1>1, <1>2, <2>1, <2>2 DEF EngineInv, ResultInv, FailuresHaveTheirCause, RowsLeft
<1>5. CASE \E q \in Queries : DumpFails(q)
  <2>1. PICK q \in Queries : DumpFails(q)
    BY <1>5
  <2>2. /\ phase' = "died" /\ why' = "dump file" /\ con' = con /\ last'.by = "save"
        /\ "answered" \in Fates /\ Leave(q)
    BY <2>1 DEF DumpFails
  <2>3. TableInv' /\ ChoiceInv'
    BY <1>1, <2>2, ChoiceKept
  <2>4. con = "open" /\ con' = "open"
    BY <1>1, <1>2, <2>2, FateFacts DEF ResultInv, NONE
  <2>5. Freed = 0
    BY <1>1 DEF ResultInv, Freed
  <2>6. FailuresHaveTheirCause'
    BY <2>2, <2>4 DEF FailuresHaveTheirCause
  <2>7. CASE engine = "mysql"
    <3>1. live = 0
      BY <1>1, <2>7 DEF ResultInv, NONE
    <3>2. result' \in {NONE, "unread"} /\ live' = 0
      BY <2>2, <2>7, <3>1 DEF Leave, Left
    <3> QED
      BY <1>1, <1>2, <2>2, <2>3, <2>4, <2>6, <2>7, <3>2 DEF EngineInv, ResultInv, NONE
  <2>8. CASE engine = "pg"
    <3>1. result' = "kept"
      BY <2>2, <2>8 DEF Leave, Left
    <3>2. live' = Freed + 1
      BY <2>2, <2>8 DEF Leave
    <3>3. live' = 1
      BY <2>5, <3>2
    <3>4. last'.by # NONE /\ phase' = "died" /\ engine' = "pg"
      BY <1>2, <2>2, <2>8 DEF NONE
    <3> QED
      BY <2>3, <2>4, <2>6, <3>1, <3>3, <3>4 DEF EngineInv, ResultInv
  <2> QED
    BY <1>2, <2>7, <2>8
<1> QED
  BY <1>3, <1>4, <1>5

\* Every step keeps the invariant.
LEMMA EngineStep == EngineInv /\ [Next]_vars => EngineInv'
<1> SUFFICES ASSUME EngineInv, [Next]_vars PROVE EngineInv'
  OBVIOUS
<1>1. CASE Starting
  BY <1>1, StaticStep, OptionStep, MakeStep DEF Starting
<1>2. ASSUME NEW q \in Queries, Query(q) PROVE EngineInv'
  BY <1>2, AnsweredStep DEF Query
<1>3. ASSUME NEW q \in Queries, SaveResult(q) PROVE EngineInv'
  <2>1. CASE QueryKinds[q].has_result_set
    BY <1>3, <2>1, AnsweredStep DEF SaveResult
  <2>2. CASE ~QueryKinds[q].has_result_set
    BY <1>3, <2>2, AnsweredStep DEF SaveResult
  <2> QED
    BY <2>1, <2>2
<1>4. ASSUME NEW q \in Queries, Shot(q) PROVE EngineInv'
  <2>1. CASE QueryKinds[q].has_result_set
    BY <1>4, <2>1, AnsweredStep DEF Shot
  <2>2. CASE ~QueryKinds[q].has_result_set
    BY <1>4, <2>2, AnsweredStep DEF Shot
  <2> QED
    BY <2>1, <2>2
<1>5. CASE QueryFails
  BY <1>5, FailStep
<1>6. CASE Connect \/ ConnectFails \/ Disconnect \/ \E q \in Queries : DumpFails(q)
  BY <1>6, LineStep
<1>7. CASE UNCHANGED vars
  <2> USE <1>7 DEF vars, registry_vars, client_vars
  <2>1. TableInv => TableInv'
    BY DEF TableInv
  <2>2. ChoiceInv => ChoiceInv'
    BY DEF ChoiceInv, ChosenEngine
  <2>3. FailuresHaveTheirCause => FailuresHaveTheirCause'
    BY DEF FailuresHaveTheirCause, RowsLeft
  <2>4. ResultInv => ResultInv'
    BY <2>3 DEF ResultInv, RowsLeft
  <2> QED
    BY <2>1, <2>2, <2>4 DEF EngineInv
<1> QED
  BY <1>1, <1>2, <1>3, <1>4, <1>5, <1>6, <1>7 DEF Next, Line

\* The invariant, from the steps above.
LEMMA InvHolds == Spec => []EngineInv
BY InitInv, EngineStep, PTL DEF Spec

\* engines.cc keeps every engine, in whatever order the linker has their
\* constructors run, and super-smack.cc's -d makes a client of the one named.
THEOREM ChosenEngineTheorem == Spec => []ChosenEngine
<1>1. EngineInv => ChosenEngine
  BY DEF EngineInv, ChoiceInv
<1> QED
  BY InvHolds, <1>1, PTL

\* Nothing the lines or the barrel do with a client leaks a PGresult.
THEOREM NoLeakTheorem == Spec => []NoResultLeaks
<1>1. EngineInv => NoResultLeaks
  BY DEF EngineInv, ResultInv, NoResultLeaks
<1> QED
  BY InvHolds, <1>1, PTL

\* A query fails in the engine's hands for the causes named only, after any
\* sequence of lines and shots, under either engine.
THEOREM CauseTheorem == Spec => []FailuresHaveTheirCause
<1>1. EngineInv => FailuresHaveTheirCause
  BY DEF EngineInv, ResultInv
<1> QED
  BY InvHolds, <1>1, PTL

-----------------------------------------------------------------------------
(***************************************************************************)
(* Induction over the natural numbers, as a fact about sets of them.       *)
(***************************************************************************)
\* A set of natural numbers has a least one.
LEMMA LeastNat ==
  ASSUME NEW T \in SUBSET Nat, T # {}
  PROVE  \E m \in T : \A n \in T : m <= n
<1> DEFINE R == {ss \in Nat \X Nat : ss[1] < ss[2]}
<1>1. IsWellFoundedOn(R, Nat)
  BY NatLessThanWellFounded DEF OpToRel
<1>2. \A m, n \in Nat : n < m => <<n, m>> \in R
  OBVIOUS
<1>3. PICK m \in T : \A n \in T : ~(<<n, m>> \in R)
  <2> HIDE DEF R
  <2> QED BY <1>1, WFMin, Zenon
<1> HIDE DEF R
<1>4. \A n \in T : ~(n < m)
  BY <1>2, <1>3
<1> QED BY <1>4

\* What 0 is in, and n + 1 with n, is in every one.
LEMMA Upward ==
  ASSUME NEW T, 0 \in T, \A n \in Nat : n \in T => n + 1 \in T
  PROVE  Nat \subseteq T
<1> SUFFICES ASSUME Nat \ T # {} PROVE FALSE
  OBVIOUS
<1>1. PICK m \in Nat \ T : \A n \in Nat \ T : m <= n
  BY LeastNat
<1>2. m # 0 /\ m - 1 \in Nat
  BY <1>1
<1>3. m - 1 \in T
  BY <1>1, <1>2
<1> QED BY <1>1, <1>2, <1>3

-----------------------------------------------------------------------------
(***************************************************************************)
(* FlattenSeq() of the first n elements.                                   *)
(***************************************************************************)
\* What the recursion of FlattenSeq defines, and that of sequences over S.
Flattens(f, s, n) == \A m \in 1..n : f[m] = IF m = 1 THEN s[m] ELSE f[m - 1] \o s[m]

IsFlat(f, s, n, S) == f \in [1..n -> Seq(S)] /\ Flattens(f, s, n)

\* It reaches every element.
LEMMA FlatExists ==
  ASSUME NEW S, NEW s, NEW n \in Nat, \A m \in 1..n : s[m] \in Seq(S)
  PROVE  \E f : IsFlat(f, s, n, S)
<1> DEFINE T == {m \in Nat : m <= n => \E f : IsFlat(f, s, m, S)}
<1>1. 0 \in T
  <2>1. IsFlat([m \in 1..0 |-> <<>>], s, 0, S)
    BY DEF IsFlat, Flattens
  <2> QED BY <2>1
<1>2. ASSUME NEW m \in Nat, m \in T PROVE m + 1 \in T
  <2> SUFFICES ASSUME m + 1 <= n PROVE \E f : IsFlat(f, s, m + 1, S)
    OBVIOUS
  <2>1. PICK f : IsFlat(f, s, m, S)
    BY <1>2
  <2> DEFINE e == IF m + 1 = 1 THEN s[m + 1] ELSE f[m] \o s[m + 1]
             g == [x \in 1..(m + 1) |-> IF x = m + 1 THEN e ELSE f[x]]
  <2>2. e \in Seq(S)
    <3>1. s[m + 1] \in Seq(S)
      OBVIOUS
    <3>2. CASE m = 0
      BY <3>1, <3>2
    <3>3. CASE m # 0
      <4>1. m \in 1..m /\ m + 1 # 1
        BY <3>3
      <4>2. f[m] \in Seq(S)
        BY <2>1, <4>1 DEF IsFlat, Flattens
      <4> QED BY <3>1, <4>1, <4>2, ConcatProperties
    <3> QED BY <3>2, <3>3
  <2>3. g \in [1..(m + 1) -> Seq(S)]
    <3> HIDE DEF e
    <3>1. \A x \in 1..(m + 1) : x # m + 1 => x \in 1..m
      OBVIOUS
    <3> QED BY <2>1, <2>2, <3>1 DEF IsFlat, Flattens
  <2>4. ASSUME NEW x \in 1..(m + 1)
        PROVE  g[x] = IF x = 1 THEN s[x] ELSE g[x - 1] \o s[x]
    <3>1. CASE x = m + 1
      <4>1. g[x] = e
        <5> HIDE DEF e
        <5> QED BY <3>1
      <4>2. x # 1 => g[x - 1] = f[m]
        <5> HIDE DEF e
        <5> QED BY <3>1
      <4> HIDE DEF g
      <4> QED BY <3>1, <4>1, <4>2
    <3>2. CASE x # m + 1
      <4>1. x \in 1..m
        BY <3>2
      <4>2. g[x] = f[x]
        <5> HIDE DEF e
        <5> QED BY <3>2
      <4>3. x # 1 => g[x - 1] = f[x - 1]
        <5> HIDE DEF e
        <5> QED BY <3>2
      <4> HIDE DEF g
      <4> QED BY <2>1, <4>1, <4>2, <4>3 DEF IsFlat, Flattens
    <3> QED BY <3>1, <3>2
  <2> HIDE DEF g
  <2>5. IsFlat(g, s, m + 1, S)
    BY <2>3, <2>4 DEF IsFlat, Flattens
  <2> QED BY <2>5
<1> HIDE DEF T
<1>3. n \in T
  BY <1>1, <1>2, Upward
<1> QED BY <1>3 DEF T

\* There is one such function.
LEMMA FlatUnique ==
  ASSUME NEW s, NEW n \in Nat, NEW f, NEW g, Flattens(f, s, n), Flattens(g, s, n)
  PROVE  \A m \in 1..n : f[m] = g[m]
<1> DEFINE T == {m \in Nat : m \in 1..n => f[m] = g[m]}
<1>1. 0 \in T
  OBVIOUS
<1>2. ASSUME NEW m \in Nat, m \in T PROVE m + 1 \in T
  <2> SUFFICES ASSUME m + 1 \in 1..n PROVE f[m + 1] = g[m + 1]
    OBVIOUS
  <2>1. CASE m = 0
    BY <2>1 DEF Flattens
  <2>2. CASE m # 0
    <3>1. m \in 1..n /\ (m + 1) - 1 = m /\ m + 1 # 1
      BY <2>2
    <3>2. f[m] = g[m]
      BY <1>2, <3>1
    <3> QED BY <3>1, <3>2 DEF Flattens
  <2> QED BY <2>1, <2>2
<1> HIDE DEF T
<1>3. \A m \in Nat : m \in T
  BY <1>1, <1>2, Upward
<1> QED BY <1>3 DEF T

\* The first n elements of s.
FirstOf(s, n) == [m \in 1..n |-> s[m]]

Flat(s, n) == B!FlattenSeq(FirstOf(s, n))

\* The last value of the function is the flat sequence.
LEMMA FlatIs ==
  ASSUME NEW S, NEW s, NEW n \in Nat \ {0}, NEW f, IsFlat(f, s, n, S)
  PROVE  Flat(s, n) = f[n]
<1> DEFINE t == FirstOf(s, n)
           Def(h) == [m \in 1..Len(t) |-> IF m = 1 THEN t[m] ELSE h[m - 1] \o t[m]]
           b == CHOOSE h : h = Def(h)
<1>1. Len(t) = n /\ \A m \in 1..n : t[m] = s[m]
  BY DEF FirstOf
<1> HIDE DEF t
<1>2. B!FlattenSeq(t) = b[n]
  BY <1>1 DEF B!FlattenSeq
<1>3. f = Def(f)
  <2>1. f = [m \in 1..n |-> f[m]]
    BY DEF IsFlat, Flattens
  <2>2. \A m \in 1..n : f[m] = IF m = 1 THEN t[m] ELSE f[m - 1] \o t[m]
    BY <1>1 DEF IsFlat, Flattens
  <2> QED BY <1>1, <2>1, <2>2
<1>4. b = Def(b)
  <2> HIDE DEF Def
  <2> QED BY <1>3
<1> HIDE DEF b
<1>5. \A m \in 1..n : b[m] = IF m = 1 THEN s[m] ELSE b[m - 1] \o s[m]
  <2> TAKE m \in 1..n
  <2>1. Def(b)[m] = IF m = 1 THEN s[m] ELSE b[m - 1] \o s[m]
    BY <1>1
  <2> HIDE DEF Def
  <2> QED BY <1>4, <2>1
<1>6. b[n] = f[n]
  <2>1. n \in 1..n
    OBVIOUS
  <2>2. Flattens(f, s, n) /\ Flattens(b, s, n) /\ n \in Nat
    BY <1>5 DEF IsFlat, Flattens
  <2>4. \A m \in 1..n : b[m] = f[m]
    BY <2>2, FlatUnique
  <2> QED BY <2>1, <2>4
<1> QED BY <1>2, <1>6 DEF Flat, t

\* Nothing flattened is nothing; one element more goes behind.
LEMMA FlatUp ==
  ASSUME NEW S, NEW s, NEW n \in Nat
  PROVE  /\ Flat(s, 0) = <<>>
         /\ (\A m \in 1..n : s[m] \in Seq(S)) => Flat(s, n) \in Seq(S)
         /\ (\A m \in 1..(n + 1) : s[m] \in Seq(S)) =>
              Flat(s, n + 1) = Flat(s, n) \o s[n + 1]
<1>1. Flat(s, 0) = <<>>
  <2>1. FirstOf(s, 0) = <<>>
    BY DEF FirstOf
  <2> QED BY <2>1 DEF Flat, B!FlattenSeq
<1>2. ASSUME \A m \in 1..n : s[m] \in Seq(S) PROVE Flat(s, n) \in Seq(S)
  <2>1. CASE n = 0
    <3>1. Flat(s, n) = <<>>
      BY <1>1, <2>1, Zenon
    <3> QED BY <3>1
  <2>2. CASE n # 0
    <3>1. PICK f : IsFlat(f, s, n, S)
      BY <1>2, FlatExists
    <3>2. Flat(s, n) = f[n] /\ n \in 1..n
      BY <2>2, <3>1, FlatIs
    <3> QED BY <3>1, <3>2 DEF IsFlat, Flattens
  <2> QED BY <2>1, <2>2
<1>3. ASSUME \A m \in 1..(n + 1) : s[m] \in Seq(S)
      PROVE  Flat(s, n + 1) = Flat(s, n) \o s[n + 1]
  <2>1. PICK f : IsFlat(f, s, n + 1, S)
    BY <1>3, FlatExists
  <2>2. Flat(s, n + 1) = f[n + 1]
    <3>1. n + 1 \in Nat \ {0}
      OBVIOUS
    <3> QED BY <2>1, <3>1, FlatIs
  <2>3. n + 1 \in 1..(n + 1)
    OBVIOUS
  <2>4. CASE n = 0
    <3>1. s[1] \in Seq(S) /\ f[1] = s[1]
      BY <1>3, <2>1, <2>3, <2>4 DEF IsFlat, Flattens
    <3> QED BY <1>1, <2>2, <2>4, <3>1, ConcatEmptySeq
  <2>5. CASE n # 0
    <3> DEFINE g == [m \in 1..n |-> f[m]]
    <3>1. \A m \in 1..n : m \in 1..(n + 1) /\ g[m] = f[m] /\ (m # 1 => g[m - 1] = f[m - 1])
      OBVIOUS
    <3>2. g \in [1..n -> Seq(S)]
      BY <2>1, <3>1 DEF IsFlat, Flattens
    <3> HIDE DEF g
    <3>3. IsFlat(g, s, n, S)
      BY <2>1, <3>1, <3>2 DEF IsFlat, Flattens
    <3>4. Flat(s, n) = f[n]
      BY <2>5, <3>1, <3>3, FlatIs
    <3>5. f[n + 1] = f[n] \o s[n + 1]
      <4>1. n + 1 # 1 /\ (n + 1) - 1 = n
        BY <2>5
      <4>2. f[n + 1] = IF n + 1 = 1 THEN s[n + 1] ELSE f[(n + 1) - 1] \o s[n + 1]
        BY <2>1, <2>3, Zenon DEF IsFlat, Flattens
      <4> QED BY <4>1, <4>2
    <3> QED BY <2>2, <3>4, <3>5
  <2> QED BY <2>4, <2>5
<1> QED BY <1>1, <1>2, <1>3

-----------------------------------------------------------------------------
(***************************************************************************)
(* Beginnings of sequences.                                                *)
(***************************************************************************)
\* a is a beginning of b, both over S.
Begins(a, b, S) == a \in Seq(S) /\ \E u \in Seq(S) : b = a \o u

LEMMA BeginsFacts ==
  ASSUME NEW S, NEW a, NEW b
  PROVE  /\ a \in Seq(S) => Begins(a, a, S) /\ Begins(<<>>, a, S)
         /\ \A c : Begins(a, b, S) /\ Begins(b, c, S) => Begins(a, c, S)
         /\ \A c \in Seq(S) : Begins(a, b, S) => Begins(c \o a, c \o b, S)
         /\ Begins(a, b, S) => b \in Seq(S) /\ B!IsPrefix(a, b)
<1>1. ASSUME a \in Seq(S) PROVE Begins(a, a, S) /\ Begins(<<>>, a, S)
  <2>1. a = a \o <<>> /\ a = <<>> \o a /\ <<>> \in Seq(S)
    BY <1>1, ConcatEmptySeq
  <2> QED BY <1>1, <2>1 DEF Begins
<1>3. ASSUME NEW c, Begins(a, b, S), Begins(b, c, S) PROVE Begins(a, c, S)
  <2>1. PICK u \in Seq(S) : b = a \o u
    BY <1>3 DEF Begins
  <2>2. PICK w \in Seq(S) : c = b \o w
    BY <1>3 DEF Begins
  <2>3. a \in Seq(S)
    BY <1>3 DEF Begins
  <2>4. u \o w \in Seq(S)
    BY ConcatProperties
  <2>5. (a \o u) \o w = a \o (u \o w)
    BY <2>3, ConcatAssociative
  <2> QED BY <2>1, <2>2, <2>3, <2>4, <2>5 DEF Begins
<1>4. ASSUME NEW c \in Seq(S), Begins(a, b, S) PROVE Begins(c \o a, c \o b, S)
  <2>1. PICK u \in Seq(S) : b = a \o u
    BY <1>4 DEF Begins
  <2>2. a \in Seq(S)
    BY <1>4 DEF Begins
  <2>3. c \o a \in Seq(S)
    BY <2>2, ConcatProperties
  <2>4. (c \o a) \o u = c \o (a \o u)
    BY <2>2, ConcatAssociative
  <2> QED BY <2>1, <2>3, <2>4 DEF Begins
<1>5. ASSUME Begins(a, b, S) PROVE b \in Seq(S) /\ B!IsPrefix(a, b)
  <2>1. PICK u \in Seq(S) : b = a \o u
    BY <1>5 DEF Begins
  <2>2. a \in Seq(S)
    BY <1>5 DEF Begins
  <2>3. b \in Seq(S) /\ Len(a) <= Len(b) /\ Len(a) \in Nat
    BY <2>1, <2>2, ConcatProperties
  <2>4. SubSeq(b, 1, Len(a)) = a
    BY <2>1, <2>2, SubSeqOfConcat1, SubSeqFull
  <2>5. SubSeq(a, 1, Len(a)) = a
    BY <2>2, SubSeqFull
  <2> QED BY <2>3, <2>4, <2>5 DEF B!IsPrefix
<1> QED BY <1>1, <1>3, <1>4, <1>5

\* The first elements of s, flattened, begin what more of them make.
LEMMA FlatBegins ==
  ASSUME NEW S, NEW s, NEW n \in Nat, NEW m \in 0..n, \A x \in 1..n : s[x] \in Seq(S)
  PROVE  Begins(Flat(s, m), Flat(s, n), S)
<1> DEFINE T == {x \in Nat : m <= x /\ x <= n => Begins(Flat(s, m), Flat(s, x), S)}
<1>1. \A x \in 0..n : Flat(s, x) \in Seq(S)
  BY FlatUp
<1>2. 0 \in T
  <2> SUFFICES ASSUME m = 0 PROVE Begins(Flat(s, m), Flat(s, 0), S)
    OBVIOUS
  <2> QED BY <1>1, BeginsFacts
<1>3. ASSUME NEW x \in Nat, x \in T PROVE x + 1 \in T
  <2> SUFFICES ASSUME m <= x + 1, x + 1 <= n PROVE Begins(Flat(s, m), Flat(s, x + 1), S)
    OBVIOUS
  <2>1. CASE m = x + 1
    BY <1>1, <2>1, BeginsFacts
  <2>2. CASE m # x + 1
    <3>1. Begins(Flat(s, m), Flat(s, x), S) /\ Flat(s, x) \in Seq(S)
      BY <1>1, <1>3, <2>2
    <3>2. Flat(s, x + 1) = Flat(s, x) \o s[x + 1] /\ s[x + 1] \in Seq(S)
      BY FlatUp
    <3>3. Begins(Flat(s, x), Flat(s, x + 1), S)
      BY <3>1, <3>2 DEF Begins
    <3> QED BY <3>1, <3>3, BeginsFacts
  <2> QED BY <2>1, <2>2
<1> HIDE DEF T
<1>4. n \in T
  BY <1>2, <1>3, Upward
<1> QED BY <1>4 DEF T

-----------------------------------------------------------------------------
(***************************************************************************)
(* The barrel: values of its variables.                                    *)
(***************************************************************************)
Charges == {B!Charge(q, n) : q \in Queries, n \in Nat} \cup {B!Sleep(z) : z \in Sleeps}

\* What is fired: queries and sleeps.
Shootable == {B!Name(q) : q \in Queries} \cup {B!Sleep(z) : z \in Sleeps}

BarrelTypes ==
  /\ text \in Seq(B!Tokens) /\ trailing \in BOOLEAN
  /\ pc \in {"parse", "ready", "unload", "died", "stopped"}
  /\ k \in 0..Len(text)
  /\ parse_state \in {"NUM_SHOTS", "QUERY_NAME"} /\ num_shots \in Nat
  /\ actions \in Seq(Charges) /\ num_rounds \in Int
  /\ i \in Nat /\ j \in 0..Len(actions) /\ shot \in Nat
  /\ fired \in Seq(Shootable) /\ unloads \in Seq(Int)

\* A token is a number, a name or a sleep.
LEMMA TokenFacts ==
  ASSUME NEW e \in B!Tokens
  PROVE  /\ e[1] \in {"number", "name", "sleep"}
         /\ e[1] = "number" => e[2] \in Nat
         /\ e[1] = "name" => e = B!Name(e[2])
         /\ e[1] = "sleep" => e \in Charges /\ e \in Shootable
<1>1. CASE \E n \in Numbers : e = B!Number(n)
  BY <1>1, SessionAssumption DEF B!BarrelAssumption, B!Number
<1>2. CASE \E q \in Queries \cup Unknown : e = B!Name(q)
  BY <1>2 DEF B!Name
<1>3. CASE \E z \in Sleeps : e = B!Sleep(z)
  BY <1>3 DEF B!Sleep, Charges, Shootable
<1> QED BY <1>1, <1>2, <1>3 DEF B!Tokens

\* An action is a query with its shots, or a sleep.
LEMMA ActionFacts ==
  ASSUME NEW a \in Charges
  PROVE  /\ a[1] \in {"fire", "sleep"}
         /\ a[1] = "fire" => /\ a[2] \in Queries /\ a[3] \in Nat
                             /\ B!Name(a[2]) \in Shootable
         /\ a[1] = "sleep" => a \in Shootable
<1>1. CASE \E q \in Queries, n \in Nat : a = B!Charge(q, n)
  BY <1>1 DEF B!Charge, Shootable
<1>2. CASE \E z \in Sleeps : a = B!Sleep(z)
  BY <1>2 DEF B!Sleep, Shootable
<1> QED BY <1>1, <1>2 DEF Charges

LEMMA InitTypes == B!Init => BarrelTypes
<1> SUFFICES ASSUME B!Init PROVE BarrelTypes
  OBVIOUS
<1>1. PICK n \in 0..MaxTokens : text \in [1..n -> B!Tokens]
  BY DEF B!Init
<1>2. n \in Nat
  BY <1>1, SessionAssumption DEF B!BarrelAssumption
<1>3. text \in Seq(B!Tokens)
  BY <1>1, <1>2
<1>4. Len(text) \in Nat /\ 0 \in 0..Len(text)
  BY <1>3
<1> QED BY <1>3, <1>4 DEF B!Init, BarrelTypes

\* The next token, and the action at hand.
LEMMA NextToken ==
  ASSUME BarrelTypes
  PROVE  /\ (B!BeforeSpace \/ B!AfterLoop) =>
              /\ k + 1 \in 1..Len(text) /\ B!Token = text[k + 1] /\ B!Token \in B!Tokens
         /\ B!Firing =>
              j + 1 \in 1..Len(actions) /\ B!Action = actions[j + 1] /\ B!Action \in Charges
<1>1. text \in Seq(B!Tokens) /\ k \in 0..Len(text) /\ actions \in Seq(Charges) /\ j \in 0..Len(actions)
  BY DEF BarrelTypes
<1>2. Len(text) \in Nat /\ Len(actions) \in Nat
  BY <1>1
<1>3. (B!BeforeSpace \/ B!AfterLoop) => k + 1 \in 1..Len(text)
  BY <1>1, <1>2 DEF B!BeforeSpace, B!AfterLoop
<1>4. B!Firing => j + 1 \in 1..Len(actions)
  BY <1>1, <1>2 DEF B!Firing
<1> QED BY <1>1, <1>3, <1>4 DEF B!Token, B!Action

\* An action at the end of the barrel.
LEMMA AppendTyped ==
  ASSUME NEW S, NEW s \in Seq(S), NEW e \in S
  PROVE  /\ Append(s, e) \in Seq(S) /\ Len(Append(s, e)) = Len(s) + 1
         /\ Append(s, e)[Len(s) + 1] = e /\ Append(s, e) = s \o <<e>>
         /\ \A m \in 1..Len(s) : Append(s, e)[m] = s[m]
  BY AppendProperties, AppendIsConcat

LEMMA ParseTypes == ASSUME BarrelTypes, B!Parse PROVE BarrelTypes'
<1> USE DEF BarrelTypes
<1>0. Len(actions) \in Nat /\ Len(text) \in Nat
  OBVIOUS
<1>1. CASE B!NumShotsSleep
  <2>1. B!Token \in Charges /\ k + 1 \in 0..Len(text)
    BY <1>1, NextToken, TokenFacts DEF B!NumShotsSleep
  <2>2. actions' \in Seq(Charges) /\ j \in 0..Len(actions')
    BY <1>0, <1>1, <2>1, AppendTyped DEF B!NumShotsSleep
  <2> QED BY <1>1, <2>1, <2>2 DEF B!NumShotsSleep, B!Read, B!unload_vars
<1>2. CASE B!NumShots
  <2>1. B!Token[1] = "number" => B!Token[2] \in Nat
    BY <1>2, NextToken, TokenFacts DEF B!NumShots
  <2>2. k + 1 \in 0..Len(text)
    BY <1>2, NextToken DEF B!NumShots
  <2> QED BY <1>2, <2>1, <2>2 DEF B!NumShots, B!Read, B!unload_vars
<1>3. CASE B!QueryName
  <2>1. B!Charge(B!Token[2], num_shots) \in Charges /\ k + 1 \in 0..Len(text)
    BY <1>3, NextToken DEF B!QueryName, B!IsQuery, Charges
  <2>2. actions' \in Seq(Charges) /\ j \in 0..Len(actions')
    BY <1>0, <1>3, <2>1, AppendTyped DEF B!QueryName
  <2> QED BY <1>3, <2>1, <2>2 DEF B!QueryName, B!Read, B!unload_vars
<1>4. CASE B!LastQuery
  <2>1. B!Charge(B!Token[2], num_shots) \in Charges /\ k + 1 \in 0..Len(text)
    BY <1>4, NextToken DEF B!LastQuery, B!IsQuery, Charges
  <2>2. actions' \in Seq(Charges) /\ j \in 0..Len(actions')
    BY <1>0, <1>4, <2>1, AppendTyped DEF B!LastQuery
  <2> QED BY <1>4, <2>1, <2>2 DEF B!LastQuery, B!Read, B!unload_vars
<1>5. CASE B!LastSleep
  <2>1. B!Token \in Charges /\ k + 1 \in 0..Len(text)
    BY <1>5, NextToken, TokenFacts DEF B!LastSleep
  <2>2. actions' \in Seq(Charges) /\ j \in 0..Len(actions')
    BY <1>0, <1>5, <2>1, AppendTyped DEF B!LastSleep
  <2> QED BY <1>5, <2>1, <2>2 DEF B!LastSleep, B!Read, B!unload_vars
<1>6. CASE B!NotDefined \/ B!TextEnds
  BY <1>6 DEF B!NotDefined, B!TextEnds, B!parse_vars, B!unload_vars
<1> QED BY <1>1, <1>2, <1>3, <1>4, <1>5, <1>6 DEF B!Parse

LEMMA LoopTypes ==
  ASSUME BarrelTypes, (\E n \in Rounds : B!SetNumRounds(n)) \/ B!Unload \/ B!Fire
  PROVE  BarrelTypes'
<1> USE DEF BarrelTypes
<1>0. Len(actions) \in Nat
  OBVIOUS
<1>1. CASE \E n \in Rounds : B!SetNumRounds(n)
  BY <1>1, SessionAssumption DEF B!SetNumRounds, B!parse_vars, B!unload_vars, B!BarrelAssumption
<1>2. CASE B!Unload
  <2>1. unloads' \in Seq(Int)
    BY <1>2 DEF B!Unload
  <2>2. UNCHANGED <<text, trailing, k, parse_state, num_shots, actions, num_rounds, fired>>
    BY <1>2 DEF B!Unload, B!parse_vars
  <2> QED BY <1>0, <1>2, <2>1, <2>2 DEF B!Unload
<1>3. CASE B!FireSleep
  <2>1. B!Action \in Shootable /\ j + 1 \in 0..Len(actions)
    BY <1>3, NextToken, ActionFacts DEF B!FireSleep
  <2>2. fired' \in Seq(Shootable)
    BY <1>3, <2>1, AppendTyped DEF B!FireSleep
  <2> QED BY <1>3, <2>1, <2>2 DEF B!FireSleep, B!NextAction, B!parse_vars
<1>4. CASE B!FireShot
  <2>1. B!Name(B!Action[2]) \in Shootable
    BY <1>4, NextToken, ActionFacts DEF B!FireShot
  <2>2. fired' \in Seq(Shootable)
    BY <1>4, <2>1, AppendTyped DEF B!FireShot
  <2> QED BY <1>4, <2>2 DEF B!FireShot, B!parse_vars
<1>5. CASE B!FireEnds
  <2>1. j + 1 \in 0..Len(actions)
    BY <1>5, NextToken DEF B!FireEnds
  <2> QED BY <1>5, <2>1 DEF B!FireEnds, B!NextAction, B!parse_vars
<1>6. CASE B!QueryFails
  BY <1>6 DEF B!QueryFails, B!parse_vars, B!unload_vars
<1>7. CASE B!RoundEnds
  BY <1>0, <1>7 DEF B!RoundEnds, B!parse_vars
<1>8. CASE B!Unloaded
  BY <1>8 DEF B!Unloaded, B!parse_vars, B!unload_vars
<1> QED BY <1>1, <1>2, <1>3, <1>4, <1>5, <1>6, <1>7, <1>8 DEF B!Fire

LEMMA StillTypes == ASSUME BarrelTypes, UNCHANGED B!vars PROVE BarrelTypes'
  BY DEF BarrelTypes, B!vars, B!parse_vars, B!unload_vars

-----------------------------------------------------------------------------
(***************************************************************************)
(* The actions follow the text.                                            *)
(***************************************************************************)
\* f says where in the first n tokens the actions s are named.
NamedAt(f, s, n) ==
  /\ f \in [1..Len(s) -> 1..n]
  /\ \A l, m \in 1..Len(s) : l < m => f[l] < f[m]
  /\ \A m \in 1..Len(s) : text[f[m]] = IF s[m][1] = "sleep" THEN s[m] ELSE B!Name(s[m][2])

\* They are named in what has been read.
FollowInv == \E f : NamedAt(f, actions, k)

\* An action more, named by the next token.
LEMMA NamedNext ==
  ASSUME BarrelTypes, FollowInv, k + 1 \in 1..Len(text), NEW a \in Charges,
         text[k + 1] = IF a[1] = "sleep" THEN a ELSE B!Name(a[2]),
         actions' = Append(actions, a), k' = k + 1, text' = text
  PROVE  FollowInv'
<1> DEFINE n == Len(actions)
<1>1. n \in Nat /\ k \in Nat /\ Len(actions') = n + 1 /\ actions'[n + 1] = a
      /\ \A m \in 1..n : actions'[m] = actions[m]
  BY AppendTyped DEF BarrelTypes
<1>2. PICK f : NamedAt(f, actions, k)
  BY DEF FollowInv
<1> DEFINE g == [m \in 1..(n + 1) |-> IF m = n + 1 THEN k + 1 ELSE f[m]]
<1> HIDE DEF n
<1>3. f \in [1..n -> 1..k] /\ \A l, m \in 1..n : l < m => f[l] < f[m]
  BY <1>2 DEF NamedAt, n
<1>4. \A m \in 1..n : text[f[m]] = IF actions[m][1] = "sleep" THEN actions[m] ELSE B!Name(actions[m][2])
  BY <1>2 DEF NamedAt, n
<1>5. g[n + 1] = k + 1 /\ \A m \in 1..n : m \in 1..(n + 1) /\ m # n + 1 /\ g[m] = f[m]
  BY <1>1
<1>6. \A m \in 1..(n + 1) : m = n + 1 \/ m \in 1..n
  BY <1>1
<1>7. g \in [1..(n + 1) -> 1..(k + 1)]
  BY <1>1, <1>3, <1>5, <1>6
<1> HIDE DEF g
<1>8. ASSUME NEW l \in 1..(n + 1), NEW m \in 1..(n + 1), l < m PROVE g[l] < g[m]
  <2>1. l \in 1..n
    BY <1>1, <1>8
  <2>2. f[l] \in 1..k
    BY <1>3, <2>1
  <2> QED BY <1>1, <1>3, <1>5, <1>6, <1>8, <2>1, <2>2
<1>9. ASSUME NEW m \in 1..(n + 1)
      PROVE  text'[g[m]] = IF actions'[m][1] = "sleep" THEN actions'[m] ELSE B!Name(actions'[m][2])
  <2>1. CASE m = n + 1
    BY <1>1, <1>5, <2>1
  <2>2. CASE m # n + 1
    <3>1. m \in 1..n
      BY <1>6, <2>2
    <3> QED BY <1>1, <1>4, <1>5, <3>1
  <2> QED BY <2>1, <2>2
<1>10. Len(actions') = n + 1
  BY <1>1
<1>11. PICK h : h = g
  OBVIOUS
<1>12. NamedAt(h, actions, k)'
  BY <1>7, <1>8, <1>9, <1>10, <1>11 DEF NamedAt
<1> QED BY <1>12 DEF FollowInv

LEMMA InitFollow == B!Init => FollowInv
<1> SUFFICES ASSUME B!Init PROVE FollowInv
  OBVIOUS
<1>1. actions = <<>> /\ k = 0
  BY DEF B!Init
<1>2. NamedAt([m \in 1..0 |-> 0], actions, k)
  BY <1>1 DEF NamedAt
<1> QED BY <1>2 DEF FollowInv

LEMMA ParseFollow == ASSUME BarrelTypes, FollowInv, B!Parse PROVE FollowInv'
<1>1. CASE B!NumShotsSleep \/ B!LastSleep
  <2>1. /\ k + 1 \in 1..Len(text) /\ B!Token = text[k + 1] /\ B!Token \in Charges
        /\ B!Token[1] = "sleep"
    BY <1>1, NextToken, TokenFacts DEF B!NumShotsSleep, B!LastSleep
  <2>2. actions' = Append(actions, B!Token) /\ k' = k + 1 /\ text' = text
    BY <1>1 DEF B!NumShotsSleep, B!LastSleep, B!Read
  <2> HIDE DEF B!Token
  <2>3. PICK a \in Charges : a = B!Token
    BY <2>1
  <2>4. text[k + 1] = IF a[1] = "sleep" THEN a ELSE B!Name(a[2])
    BY <2>1, <2>3
  <2> QED BY <2>1, <2>2, <2>3, <2>4, NamedNext
<1>2. CASE B!QueryName \/ B!LastQuery
  <2>1. /\ k + 1 \in 1..Len(text) /\ B!Token = text[k + 1] /\ B!Token = B!Name(B!Token[2])
        /\ B!Token[2] \in Queries
    BY <1>2, NextToken, TokenFacts DEF B!QueryName, B!LastQuery, B!IsQuery
  <2>2. actions' = Append(actions, B!Charge(B!Token[2], num_shots)) /\ k' = k + 1 /\ text' = text
    BY <1>2 DEF B!QueryName, B!LastQuery, B!Read
  <2> HIDE DEF B!Token
  <2>3. num_shots \in Nat
    BY DEF BarrelTypes
  <2>4. PICK a \in Charges : a = B!Charge(B!Token[2], num_shots)
    BY <2>1, <2>3 DEF Charges
  <2>5. text[k + 1] = IF a[1] = "sleep" THEN a ELSE B!Name(a[2])
    BY <2>1, <2>4 DEF B!Charge
  <2> QED BY <2>1, <2>2, <2>4, <2>5, NamedNext
<1>3. CASE B!NumShots
  <2>1. actions' = actions /\ k' = k + 1 /\ text' = text /\ k \in Nat
    BY <1>3 DEF B!NumShots, B!Read, BarrelTypes
  <2>2. PICK f : NamedAt(f, actions, k)
    BY DEF FollowInv
  <2>3. \A x \in 1..k : x \in 1..(k + 1)
    BY <2>1
  <2>4. NamedAt(f, actions, k)'
    BY <2>1, <2>2, <2>3 DEF NamedAt
  <2> QED BY <2>4 DEF FollowInv
<1>4. CASE B!NotDefined \/ B!TextEnds
  BY <1>4 DEF B!NotDefined, B!TextEnds, B!parse_vars, FollowInv, NamedAt
<1> QED BY <1>1, <1>2, <1>3, <1>4 DEF B!Parse

LEMMA Followed == ASSUME BarrelTypes, FollowInv PROVE ActionsFollowText
<1>1. k \in 0..Len(text) /\ Len(text) \in Nat
  BY DEF BarrelTypes
<1>2. PICK f : NamedAt(f, actions, k)
  BY DEF FollowInv
<1>3. \A x \in 1..k : x \in 1..Len(text)
  BY <1>1
<1>4. f \in [1..Len(actions) -> 1..Len(text)]
  BY <1>2, <1>3 DEF NamedAt
<1> QED BY <1>2, <1>4 DEF NamedAt, ActionsFollowText, B!ActionsFollowText

-----------------------------------------------------------------------------
(***************************************************************************)
(* What is fired.                                                          *)
(***************************************************************************)
\* The first n actions of a round of acts, all of them, n rounds, and the first
\* n calls of unload_query_barrel() of so many rounds each as u says.
InRound(acts, n) == Flat([m \in 1..Len(acts) |-> B!Shots(acts[m])], n)
RoundOf(acts) == InRound(acts, Len(acts))
TurnsOf(acts, n) == Flat([m \in Nat |-> RoundOf(acts)], n)
CallsOf(acts, u, n) == Flat([m \in 1..Len(u) |-> TurnsOf(acts, u[m])], n)

\* The first n shots of action a.
Begun(a, n) == [m \in 1..n |-> B!Name(a[2])]

LEMMA ShotsFacts ==
  ASSUME NEW a \in Charges
  PROVE  /\ B!Shots(a) \in Seq(Shootable)
         /\ a[1] = "sleep" => B!Shots(a) = <<a>>
         /\ a[1] = "fire" => B!Shots(a) = Begun(a, a[3])
<1>1. CASE a[1] = "sleep"
  BY <1>1, ActionFacts DEF B!Shots
<1>2. CASE a[1] = "fire"
  BY <1>2, ActionFacts DEF B!Shots, Begun
<1> QED BY <1>1, <1>2, ActionFacts

LEMMA BegunFacts ==
  ASSUME NEW a \in Charges, a[1] = "fire", NEW n \in Nat
  PROVE  /\ Begun(a, n) \in Seq(Shootable) /\ Begun(a, 0) = <<>>
         /\ Begun(a, n + 1) = Begun(a, n) \o <<B!Name(a[2])>>
         /\ n <= a[3] => Begins(Begun(a, n), B!Shots(a), Shootable)
<1> DEFINE e == B!Name(a[2])
<1>1. e \in Shootable /\ a[3] \in Nat
  BY ActionFacts
<1>0. \A m \in Nat : Begun(a, m) = [x \in 1..m |-> e]
  BY DEF Begun
<1>6. B!Shots(a) = Begun(a, a[3])
  BY ShotsFacts
<1> HIDE DEF e
<1>2. \A m \in Nat : [x \in 1..m |-> e] \in Seq(Shootable) /\ Len([x \in 1..m |-> e]) = m
  BY <1>1
<1>3. [x \in 1..(n + 1) |-> e] = [x \in 1..n |-> e] \o <<e>>
  OBVIOUS
<1>4. ASSUME n <= a[3] PROVE Begins([x \in 1..n |-> e], [x \in 1..a[3] |-> e], Shootable)
  <2> DEFINE u == [x \in 1..(a[3] - n) |-> e]
  <2>1. a[3] - n \in Nat
    BY <1>1, <1>4
  <2>2. u \in Seq(Shootable)
    BY <1>2, <2>1
  <2>3. [x \in 1..a[3] |-> e] = [x \in 1..n |-> e] \o u
    BY <1>1, <1>4, <2>1
  <2> HIDE DEF u
  <2> QED BY <1>2, <2>2, <2>3 DEF Begins
<1>5. [x \in 1..0 |-> e] = <<>>
  OBVIOUS
<1>7. Begun(a, n) = [x \in 1..n |-> e] /\ Begun(a, n + 1) = [x \in 1..(n + 1) |-> e]
      /\ Begun(a, 0) = [x \in 1..0 |-> e] /\ Begun(a, a[3]) = [x \in 1..a[3] |-> e]
  <2>1. n + 1 \in Nat /\ 0 \in Nat
    OBVIOUS
  <2> QED BY <1>0, <1>1, <2>1, Zenon
<1>8. Begun(a, n) \in Seq(Shootable) /\ Begun(a, 0) = <<>>
  BY <1>2, <1>5, <1>7
<1>9. Begun(a, n + 1) = Begun(a, n) \o <<e>>
  BY <1>3, <1>7
<1>10. n <= a[3] => Begins(Begun(a, n), B!Shots(a), Shootable)
  BY <1>4, <1>6, <1>7
<1> QED BY <1>8, <1>9, <1>10 DEF e

\* A round, action by action.
LEMMA RoundFacts ==
  ASSUME NEW acts \in Seq(Charges), NEW n \in 0..Len(acts)
  PROVE  /\ InRound(acts, 0) = <<>> /\ InRound(acts, n) \in Seq(Shootable)
         /\ n < Len(acts) =>
              InRound(acts, n + 1) = InRound(acts, n) \o B!Shots(acts[n + 1])
         /\ Begins(InRound(acts, n), RoundOf(acts), Shootable)
<1> DEFINE s == [m \in 1..Len(acts) |-> B!Shots(acts[m])]
<1>1. Len(acts) \in Nat /\ n \in Nat
  OBVIOUS
<1>2. \A m \in 1..Len(acts) : s[m] = B!Shots(acts[m]) /\ s[m] \in Seq(Shootable)
  BY ShotsFacts
<1>3. \A m : InRound(acts, m) = Flat(s, m)
  BY DEF InRound
<1> HIDE DEF s
<1>4. \A m \in 1..n : m \in 1..Len(acts)
  BY <1>1
<1>5. InRound(acts, 0) = <<>> /\ InRound(acts, n) \in Seq(Shootable)
  BY <1>1, <1>2, <1>3, <1>4, FlatUp
<1>6. ASSUME n < Len(acts) PROVE Flat(s, n + 1) = Flat(s, n) \o s[n + 1] /\ n + 1 \in 1..Len(acts)
  <2>1. \A m \in 1..(n + 1) : m \in 1..Len(acts)
    BY <1>1, <1>6
  <2>2. \A m \in 1..(n + 1) : s[m] \in Seq(Shootable)
    BY <1>2, <2>1
  <2> QED BY <1>1, <1>6, <2>2, FlatUp
<1>7. Begins(Flat(s, n), Flat(s, Len(acts)), Shootable)
  BY <1>1, <1>2, FlatBegins
<1> QED BY <1>2, <1>3, <1>5, <1>6, <1>7 DEF RoundOf

\* The rounds of one call, one after the other.
LEMMA TurnsFacts ==
  ASSUME NEW acts \in Seq(Charges), NEW n \in Int
  PROVE  /\ RoundOf(acts) \in Seq(Shootable)
         /\ TurnsOf(acts, n) \in Seq(Shootable)
         /\ n <= 0 => TurnsOf(acts, n) = <<>>
         /\ n >= 0 => TurnsOf(acts, n + 1) = TurnsOf(acts, n) \o RoundOf(acts)
         /\ \A m \in Nat : m <= n => Begins(TurnsOf(acts, m), TurnsOf(acts, n), Shootable)
<1> DEFINE s == [m \in Nat |-> RoundOf(acts)]
<1>1. RoundOf(acts) \in Seq(Shootable)
  <2>1. Len(acts) \in 0..Len(acts)
    OBVIOUS
  <2> QED BY <2>1, RoundFacts DEF RoundOf
<1>2. \A m \in Nat : s[m] = RoundOf(acts) /\ s[m] \in Seq(Shootable)
  BY <1>1
<1>3. \A m : TurnsOf(acts, m) = Flat(s, m)
  BY DEF TurnsOf
<1> HIDE DEF s
<1>4. ASSUME n <= 0 PROVE Flat(s, n) = <<>>
  <2>1. FirstOf(s, n) = FirstOf(s, 0)
    BY <1>4 DEF FirstOf
  <2>2. Flat(s, n) = Flat(s, 0)
    BY <2>1 DEF Flat
  <2> QED BY <2>2, FlatUp
<1>5. ASSUME n >= 0
      PROVE  /\ Flat(s, n) \in Seq(Shootable) /\ Flat(s, n + 1) = Flat(s, n) \o s[n + 1]
             /\ n + 1 \in Nat
             /\ \A m \in Nat : m <= n => Begins(Flat(s, m), Flat(s, n), Shootable)
  <2>1. n \in Nat /\ n + 1 \in Nat
    BY <1>5
  <2>2. (\A m \in 1..n : s[m] \in Seq(Shootable)) /\ (\A m \in 1..(n + 1) : s[m] \in Seq(Shootable))
    BY <1>2
  <2>3. \A m \in Nat : m <= n => m \in 0..n
    BY <2>1
  <2>4. Flat(s, n) \in Seq(Shootable) /\ Flat(s, n + 1) = Flat(s, n) \o s[n + 1]
    BY <2>1, <2>2, FlatUp
  <2> QED BY <2>1, <2>2, <2>3, <2>4, FlatBegins
<1>6. CASE n >= 0
  <2>1. n + 1 \in Nat
    BY <1>6
  <2> QED BY <1>1, <1>2, <1>3, <1>4, <1>5, <1>6, <2>1
<1>7. CASE n < 0
  <2>1. \A m \in Nat : ~(m <= n)
    BY <1>7
  <2>2. TurnsOf(acts, n) = <<>> /\ <<>> \in Seq(Shootable)
    BY <1>3, <1>4, <1>7
  <2>3. ~(n >= 0)
    BY <1>7
  <2> QED BY <1>1, <2>1, <2>2, <2>3
<1> QED BY <1>6, <1>7

\* The calls, one after the other.
LEMMA CallsFacts ==
  ASSUME NEW acts \in Seq(Charges), NEW u \in Seq(Int)
  PROVE  /\ CallsOf(acts, <<>>, 0) = <<>>
         /\ \A n \in 0..Len(u) : CallsOf(acts, u, n) \in Seq(Shootable)
         /\ Len(u) > 0 =>
              CallsOf(acts, u, Len(u)) =
                CallsOf(acts, u, Len(u) - 1) \o TurnsOf(acts, u[Len(u)])
         /\ \A x \in Int : CallsOf(acts, Append(u, x), Len(u)) = CallsOf(acts, u, Len(u))
<1> DEFINE s == [m \in 1..Len(u) |-> TurnsOf(acts, u[m])]
<1>1. Len(u) \in Nat /\ \A m \in 1..Len(u) : u[m] \in Int
  OBVIOUS
<1>2. \A m \in 1..Len(u) : s[m] = TurnsOf(acts, u[m]) /\ s[m] \in Seq(Shootable)
  BY <1>1, TurnsFacts
<1>3. \A m : CallsOf(acts, u, m) = Flat(s, m)
  BY DEF CallsOf
<1>4. CallsOf(acts, <<>>, 0) = <<>>
  BY FlatUp DEF CallsOf
<1>5. ASSUME NEW x \in Int
      PROVE  CallsOf(acts, Append(u, x), Len(u)) = CallsOf(acts, u, Len(u))
  <2> DEFINE w == Append(u, x)
             t == [m \in 1..Len(w) |-> TurnsOf(acts, w[m])]
  <2>1. Len(w) = Len(u) + 1 /\ \A m \in 1..Len(u) : m \in 1..Len(w) /\ w[m] = u[m]
    BY <1>1
  <2> HIDE DEF w
  <2>2. \A m \in 1..Len(u) : t[m] = s[m]
    BY <2>1
  <2> HIDE DEF t, s
  <2>3. FirstOf(t, Len(u)) = FirstOf(s, Len(u))
    BY <2>2 DEF FirstOf
  <2>4. Flat(t, Len(u)) = Flat(s, Len(u))
    BY <2>3 DEF Flat
  <2> QED BY <2>4 DEF CallsOf, w, t, s
<1> HIDE DEF s
<1>6. ASSUME NEW n \in 0..Len(u) PROVE Flat(s, n) \in Seq(Shootable)
  <2>1. \A m \in 1..n : m \in 1..Len(u)
    BY <1>1
  <2> QED BY <1>2, <2>1, FlatUp
<1>7. ASSUME Len(u) > 0
      PROVE  Flat(s, Len(u)) = Flat(s, Len(u) - 1) \o s[Len(u)]
  <2> DEFINE n == Len(u) - 1
  <2>1. n \in Nat /\ n + 1 = Len(u)
    BY <1>1, <1>7
  <2>2. Flat(s, n + 1) = Flat(s, n) \o s[n + 1]
    BY <1>2, <2>1, FlatUp
  <2> QED BY <2>1, <2>2
<1>8. Len(u) > 0 => Len(u) \in 1..Len(u)
  BY <1>1
<1> QED BY <1>2, <1>3, <1>4, <1>5, <1>6, <1>7, <1>8

\* x, then y: an operator that the provers need not look into.
Cat(x, y) == x \o y

LEMMA CatFacts ==
  ASSUME NEW S
  PROVE  /\ \A x, y \in Seq(S) : Cat(x, y) \in Seq(S)
         /\ \A x, y, z \in Seq(S) : Cat(Cat(x, y), z) = Cat(x, Cat(y, z))
         /\ \A x \in Seq(S) : Cat(x, <<>>) = x /\ Cat(<<>>, x) = x
         /\ <<>> \in Seq(S)
<1>1. ASSUME NEW x \in Seq(S), NEW y \in Seq(S) PROVE Cat(x, y) \in Seq(S)
  BY ConcatProperties DEF Cat
<1>2. ASSUME NEW x \in Seq(S), NEW y \in Seq(S), NEW z \in Seq(S)
      PROVE  Cat(Cat(x, y), z) = Cat(x, Cat(y, z))
  BY ConcatAssociative DEF Cat
<1>3. ASSUME NEW x \in Seq(S) PROVE Cat(x, <<>>) = x /\ Cat(<<>>, x) = x
  BY ConcatEmptySeq DEF Cat
<1>4. <<>> \in Seq(S)
  OBVIOUS
<1> QED BY <1>1, <1>2, <1>3, <1>4

\* While it unloads, the barrel has fired all earlier calls, the rounds before
\* this one, the actions before the one at hand, and so many shots of that.
FireInv ==
  /\ pc = "parse" => unloads = <<>> /\ fired = <<>>
  /\ pc = "ready" => fired = CallsOf(actions, unloads, Len(unloads))
  /\ pc \in {"unload", "stopped"} =>
       /\ Len(unloads) > 0 /\ unloads[Len(unloads)] = num_rounds
       /\ i = 0 \/ i <= num_rounds
       /\ j > 0 \/ shot > 0 => i < num_rounds
       /\ shot > 0 => j < Len(actions) /\ actions[j + 1][1] = "fire" /\ shot <= actions[j + 1][3]
       /\ fired = Cat(CallsOf(actions, unloads, Len(unloads) - 1),
                      Cat(TurnsOf(actions, i),
                          Cat(InRound(actions, j), Begun(actions[j + 1], shot))))

LEMMA InitFire == B!Init => FireInv
  BY DEF B!Init, FireInv

\* What is fired goes behind the four parts.
LEMMA FourParts ==
  ASSUME NEW S, NEW a \in Seq(S), NEW b \in Seq(S), NEW c \in Seq(S), NEW d \in Seq(S),
         NEW e \in Seq(S)
  PROVE  /\ Cat(Cat(a, Cat(b, Cat(c, d))), e) = Cat(a, Cat(b, Cat(c, Cat(d, e))))
         /\ Cat(a, Cat(b, Cat(c, Cat(<<>>, e)))) = Cat(a, Cat(b, Cat(Cat(c, e), <<>>)))
         /\ Cat(a, Cat(b, Cat(c, <<>>))) = Cat(a, Cat(Cat(b, c), Cat(<<>>, <<>>)))
<1>0. /\ \A x, y \in Seq(S) : Cat(x, y) \in Seq(S)
      /\ \A x, y, z \in Seq(S) : Cat(Cat(x, y), z) = Cat(x, Cat(y, z))
      /\ \A x \in Seq(S) : Cat(x, <<>>) = x /\ Cat(<<>>, x) = x
      /\ <<>> \in Seq(S)
  BY CatFacts
<1>1. Cat(c, d) \in Seq(S) /\ Cat(b, Cat(c, d)) \in Seq(S) /\ Cat(c, e) \in Seq(S) /\ Cat(b, c) \in Seq(S)
  BY <1>0
<1>2. Cat(Cat(a, Cat(b, Cat(c, d))), e) = Cat(a, Cat(b, Cat(c, Cat(d, e))))
  <2>1. Cat(Cat(a, Cat(b, Cat(c, d))), e) = Cat(a, Cat(Cat(b, Cat(c, d)), e))
    BY <1>0, <1>1
  <2>2. Cat(Cat(b, Cat(c, d)), e) = Cat(b, Cat(Cat(c, d), e))
    BY <1>0, <1>1
  <2>3. Cat(Cat(c, d), e) = Cat(c, Cat(d, e))
    BY <1>0
  <2> QED BY <2>1, <2>2, <2>3
<1>3. Cat(c, Cat(<<>>, e)) = Cat(Cat(c, e), <<>>)
  <2>1. Cat(<<>>, e) = e
    BY <1>0
  <2>2. Cat(Cat(c, e), <<>>) = Cat(c, e)
    BY <1>0, <1>1
  <2> QED BY <2>1, <2>2
<1>4. Cat(b, Cat(c, <<>>)) = Cat(Cat(b, c), Cat(<<>>, <<>>))
  <2>1. Cat(c, <<>>) = c /\ Cat(<<>>, <<>>) = <<>>
    BY <1>0
  <2>2. Cat(Cat(b, c), <<>>) = Cat(b, c)
    BY <1>0, <1>1
  <2> QED BY <2>1, <2>2
<1> QED BY <1>2, <1>3, <1>4

\* What the four parts are made of, in a loop that goes on.
LEMMA Parts ==
  ASSUME BarrelTypes, FireInv, pc \in {"unload", "stopped"}
  PROVE  /\ Len(unloads) - 1 \in 0..Len(unloads)
         /\ CallsOf(actions, unloads, Len(unloads) - 1) \in Seq(Shootable)
         /\ TurnsOf(actions, i) \in Seq(Shootable)
         /\ InRound(actions, j) \in Seq(Shootable)
         /\ Begun(actions[j + 1], shot) \in Seq(Shootable)
         /\ shot = 0 => Begun(actions[j + 1], shot) = <<>>
<1>1. actions \in Seq(Charges) /\ j \in 0..Len(actions) /\ unloads \in Seq(Int) /\ i \in Int
      /\ shot \in Nat /\ Len(unloads) \in Nat
  BY DEF BarrelTypes
<1>2. Len(unloads) > 0
  BY DEF FireInv
<1>3. Len(unloads) - 1 \in 0..Len(unloads)
  BY <1>1, <1>2
<1>4. CASE shot = 0
  <2>1. Begun(actions[j + 1], shot) = <<>> /\ <<>> \in Seq(Shootable)
    BY <1>4 DEF Begun
  <2> QED BY <1>1, <1>3, <2>1, CallsFacts, TurnsFacts, RoundFacts
<1>5. CASE shot > 0
  <2>1. j + 1 \in 1..Len(actions) /\ actions[j + 1][1] = "fire"
    BY <1>1, <1>5 DEF FireInv
  <2>2. actions[j + 1] \in Charges
    BY <1>1, <2>1
  <2>3. Begun(actions[j + 1], shot) \in Seq(Shootable)
    BY <1>1, <2>1, <2>2, BegunFacts
  <2> QED BY <1>1, <1>3, <1>5, <2>3, CallsFacts, TurnsFacts, RoundFacts
<1> QED BY <1>1, <1>4, <1>5

LEMMA SleepFire == ASSUME BarrelTypes, FireInv, B!FireSleep PROVE FireInv'
<1> DEFINE a == actions[j + 1]
           p == CallsOf(actions, unloads, Len(unloads) - 1)
           t == TurnsOf(actions, i)
           r == InRound(actions, j)
<1>1. /\ pc = "unload" /\ a[1] = "sleep" /\ i < num_rounds /\ a \in Charges
      /\ j \in 0..Len(actions) /\ j < Len(actions) /\ actions \in Seq(Charges)
  BY NextToken DEF B!FireSleep, B!Firing, B!Action, BarrelTypes
<1>2. /\ fired' = Append(fired, a) /\ j' = j + 1 /\ shot' = 0
      /\ UNCHANGED <<pc, actions, num_rounds, i, unloads>>
  BY DEF B!FireSleep, B!Action, B!NextAction, B!parse_vars
<1>3. shot = 0
  <2>1. ~(shot > 0)
    BY <1>1 DEF FireInv
  <2> QED BY <2>1 DEF BarrelTypes
<1>4. fired = Cat(p, Cat(t, Cat(r, <<>>))) /\ p \in Seq(Shootable) /\ t \in Seq(Shootable)
      /\ r \in Seq(Shootable) /\ fired \in Seq(Shootable)
  BY <1>1, <1>3, Parts DEF FireInv, BarrelTypes
<1>5. InRound(actions, j + 1) = Cat(r, <<a>>) /\ <<a>> \in Seq(Shootable) /\ fired' = Cat(fired, <<a>>)
  <2>1. B!Shots(a) = <<a>> /\ a \in Shootable
    BY <1>1, ShotsFacts, ActionFacts
  <2> HIDE DEF a
  <2>2. InRound(actions, j + 1) = Cat(r, B!Shots(a))
    BY <1>1, RoundFacts DEF a, Cat
  <2>3. fired' = Cat(fired, <<a>>)
    BY <1>2, <1>4, <2>1, AppendTyped DEF Cat
  <2> QED BY <2>1, <2>2, <2>3
<1>6. Begun(actions[j' + 1], 0) = <<>>
  BY DEF Begun
<1> HIDE DEF p, t, r, a
<1>7. fired' = Cat(p, Cat(t, Cat(Cat(r, <<a>>), <<>>)))
  <2> DEFINE z == <<a>>
             d == <<>>
  <2>1. /\ fired' = Cat(Cat(p, Cat(t, Cat(r, d))), z)
        /\ z \in Seq(Shootable) /\ d \in Seq(Shootable)
    BY <1>4, <1>5
  <2> HIDE DEF z, d
  <2>2. fired' = Cat(p, Cat(t, Cat(r, Cat(d, z))))
    BY <1>4, <2>1, FourParts
  <2>3. Cat(p, Cat(t, Cat(r, Cat(d, z)))) = Cat(p, Cat(t, Cat(Cat(r, z), d)))
    BY <1>4, <2>1, FourParts DEF d
  <2> QED BY <2>2, <2>3 DEF z, d
<1>8. fired' = Cat(CallsOf(actions', unloads', Len(unloads') - 1),
                   Cat(TurnsOf(actions', i'),
                       Cat(InRound(actions', j'), Begun(actions'[j' + 1], shot'))))
  BY <1>2, <1>5, <1>6, <1>7 DEF p, t, r
<1> QED BY <1>1, <1>2, <1>8 DEF FireInv

LEMMA ShotFire == ASSUME BarrelTypes, FireInv, B!FireShot PROVE FireInv'
<1> DEFINE a == actions[j + 1]
           e == B!Name(a[2])
           p == CallsOf(actions, unloads, Len(unloads) - 1)
           t == TurnsOf(actions, i)
           r == InRound(actions, j)
           b == Begun(a, shot)
<1>1. /\ pc = "unload" /\ a[1] = "fire" /\ i < num_rounds /\ a \in Charges /\ shot \in Nat
      /\ j < Len(actions) /\ shot < a[3]
  BY NextToken DEF B!FireShot, B!Firing, B!Action, B!ShotsLeft, BarrelTypes
<1>2. /\ fired' = Append(fired, e) /\ shot' = shot + 1
      /\ UNCHANGED <<pc, actions, num_rounds, i, j, unloads>>
  BY DEF B!FireShot, B!Action, B!parse_vars
<1>3. a[3] \in Nat /\ e \in Shootable
  BY <1>1, ActionFacts
<1>4. fired = Cat(p, Cat(t, Cat(r, b))) /\ p \in Seq(Shootable) /\ t \in Seq(Shootable)
      /\ r \in Seq(Shootable) /\ b \in Seq(Shootable) /\ fired \in Seq(Shootable)
  BY <1>1, Parts DEF FireInv, BarrelTypes
<1>5. Begun(a, shot + 1) = Cat(b, <<e>>)
  BY <1>1, BegunFacts DEF Cat
<1> HIDE DEF e, b
<1>6. fired' = Cat(fired, <<e>>) /\ <<e>> \in Seq(Shootable)
  <2>1. <<e>> \in Seq(Shootable)
    BY <1>3
  <2>2. Append(fired, e) = fired \o <<e>>
    BY <1>3, <1>4, AppendTyped
  <2> QED BY <1>2, <2>1, <2>2 DEF Cat
<1> HIDE DEF p, t, r
<1>7. fired' = Cat(p, Cat(t, Cat(r, Cat(b, <<e>>))))
  <2> DEFINE z == <<e>>
  <2>1. fired' = Cat(Cat(p, Cat(t, Cat(r, b))), z) /\ z \in Seq(Shootable)
    BY <1>4, <1>6
  <2> HIDE DEF z
  <2>2. fired' = Cat(p, Cat(t, Cat(r, Cat(b, z))))
    BY <1>4, <2>1, FourParts
  <2> QED BY <2>2 DEF z
<1>8. fired' = Cat(CallsOf(actions', unloads', Len(unloads') - 1),
                   Cat(TurnsOf(actions', i'),
                       Cat(InRound(actions', j'), Begun(actions'[j' + 1], shot'))))
  BY <1>2, <1>5, <1>7 DEF p, t, r
<1>9. shot' <= a[3]
  BY <1>1, <1>2, <1>3
<1> QED BY <1>1, <1>2, <1>8, <1>9 DEF FireInv

LEMMA EndsFire == ASSUME BarrelTypes, FireInv, B!FireEnds PROVE FireInv'
<1> DEFINE a == actions[j + 1]
           p == CallsOf(actions, unloads, Len(unloads) - 1)
           t == TurnsOf(actions, i)
           r == InRound(actions, j)
           b == Begun(a, shot)
<1>1. /\ pc = "unload" /\ a[1] = "fire" /\ i < num_rounds /\ a \in Charges /\ shot \in Nat
      /\ j \in 0..Len(actions) /\ j < Len(actions) /\ ~(shot < a[3]) /\ actions \in Seq(Charges)
  BY NextToken DEF B!FireEnds, B!Firing, B!Action, B!ShotsLeft, BarrelTypes
<1>2. /\ fired' = fired /\ shot' = 0 /\ j' = j + 1
      /\ UNCHANGED <<pc, actions, num_rounds, i, unloads>>
  BY DEF B!FireEnds, B!NextAction, B!parse_vars
<1>3. shot = a[3]
  <2>1. a[3] \in Nat
    BY <1>1, ActionFacts
  <2>2. shot > 0 => shot <= a[3]
    BY <1>1 DEF FireInv
  <2> QED BY <1>1, <2>1, <2>2
<1>4. fired = Cat(p, Cat(t, Cat(r, b))) /\ p \in Seq(Shootable) /\ t \in Seq(Shootable)
      /\ r \in Seq(Shootable) /\ b \in Seq(Shootable)
  BY <1>1, Parts DEF FireInv
<1>5. InRound(actions, j + 1) = Cat(r, b)
  <2>1. B!Shots(a) = b
    BY <1>1, <1>3, ShotsFacts
  <2> HIDE DEF b
  <2> QED BY <1>1, <2>1, RoundFacts DEF Cat
<1>6. Begun(actions[j' + 1], 0) = <<>>
  BY DEF Begun
<1> HIDE DEF p, t, r, b
<1>7. fired' = Cat(p, Cat(t, Cat(Cat(r, b), <<>>)))
  <2>1. Cat(r, b) = Cat(Cat(r, b), <<>>)
    BY <1>4, CatFacts
  <2> QED BY <1>2, <1>4, <2>1
<1>8. fired' = Cat(CallsOf(actions', unloads', Len(unloads') - 1),
                   Cat(TurnsOf(actions', i'),
                       Cat(InRound(actions', j'), Begun(actions'[j' + 1], shot'))))
  BY <1>2, <1>5, <1>6, <1>7 DEF p, t
<1> QED BY <1>1, <1>2, <1>8 DEF FireInv

LEMMA RoundFire == ASSUME BarrelTypes, FireInv, B!RoundEnds PROVE FireInv'
<1> DEFINE p == CallsOf(actions, unloads, Len(unloads) - 1)
           t == TurnsOf(actions, i)
           r == InRound(actions, j)
<1>1. /\ pc = "unload" /\ i < num_rounds /\ i \in Nat /\ num_rounds \in Int
      /\ j = Len(actions) /\ actions \in Seq(Charges) /\ shot \in Nat
  BY DEF B!RoundEnds, BarrelTypes
<1>2. /\ fired' = fired /\ shot' = shot /\ j' = 0 /\ i' = i + 1
      /\ UNCHANGED <<pc, actions, num_rounds, unloads>>
  BY DEF B!RoundEnds, B!parse_vars
<1>3. shot = 0
  <2>1. Len(actions) \in Nat
    BY <1>1
  <2> QED BY <1>1, <2>1 DEF FireInv
<1>4. fired = Cat(p, Cat(t, Cat(r, <<>>))) /\ p \in Seq(Shootable) /\ t \in Seq(Shootable)
      /\ r \in Seq(Shootable)
  BY <1>1, <1>3, Parts DEF FireInv
<1>5. TurnsOf(actions, i + 1) = Cat(t, r)
  <2>1. i \in Int /\ i >= 0 /\ RoundOf(actions) = r
    BY <1>1 DEF RoundOf
  <2>2. TurnsOf(actions, i + 1) = t \o RoundOf(actions)
    BY <1>1, <2>1, TurnsFacts
  <2> QED BY <2>1, <2>2 DEF Cat
<1>6. InRound(actions, 0) = <<>>
  <2>1. 0 \in 0..Len(actions)
    BY <1>1
  <2> QED BY <1>1, <2>1, RoundFacts
<1>7. Begun(actions[0 + 1], 0) = <<>>
  BY DEF Begun
<1> HIDE DEF p, t, r
<1>8. fired' = Cat(p, Cat(Cat(t, r), Cat(<<>>, <<>>)))
  BY <1>2, <1>4, FourParts
<1>9. fired' = Cat(CallsOf(actions', unloads', Len(unloads') - 1),
                   Cat(TurnsOf(actions', i'),
                       Cat(InRound(actions', j'), Begun(actions'[j' + 1], shot'))))
  BY <1>2, <1>3, <1>5, <1>6, <1>7, <1>8 DEF p
<1>10. i' <= num_rounds'
  BY <1>1, <1>2
<1> QED BY <1>1, <1>2, <1>3, <1>9, <1>10 DEF FireInv

LEMMA UnloadFire == ASSUME BarrelTypes, FireInv, B!Unload PROVE FireInv'
<1> DEFINE n == Len(unloads)
<1>1. /\ pc = "ready" /\ unloads \in Seq(Int) /\ num_rounds \in Int /\ actions \in Seq(Charges)
      /\ n \in Nat /\ fired = CallsOf(actions, unloads, n) /\ fired \in Seq(Shootable)
  BY DEF B!Unload, BarrelTypes, FireInv
<1>2. /\ unloads' = Append(unloads, num_rounds) /\ pc' = "unload" /\ i' = 0 /\ j' = 0 /\ shot' = 0
      /\ UNCHANGED <<actions, num_rounds, fired>>
  BY DEF B!Unload, B!parse_vars
<1>3. Len(unloads') = n + 1 /\ unloads'[n + 1] = num_rounds
  BY <1>1, <1>2, AppendTyped
<1>4. CallsOf(actions, unloads', n) = fired
  BY <1>1, <1>2, CallsFacts
<1>5. TurnsOf(actions, 0) = <<>> /\ InRound(actions, 0) = <<>> /\ Begun(actions[0 + 1], 0) = <<>>
  <2>1. 0 \in 0..Len(actions)
    BY <1>1
  <2> QED BY <1>1, <2>1, TurnsFacts, RoundFacts DEF Begun
<1>6. fired = Cat(fired, Cat(<<>>, Cat(<<>>, <<>>)))
  <2>1. \A x \in Seq(Shootable) : Cat(x, <<>>) = x
    BY CatFacts
  <2>2. Cat(<<>>, <<>>) = <<>>
    BY CatFacts
  <2> QED BY <1>1, <2>1, <2>2
<1>7. Len(unloads') - 1 = n /\ Len(unloads') > 0
  BY <1>1, <1>3
<1>8. fired' = Cat(CallsOf(actions', unloads', Len(unloads') - 1),
                   Cat(TurnsOf(actions', i'),
                       Cat(InRound(actions', j'), Begun(actions'[j' + 1], shot'))))
  BY <1>2, <1>4, <1>5, <1>6, <1>7
<1>9. unloads'[Len(unloads')] = num_rounds'
  BY <1>2, <1>3
<1> QED BY <1>2, <1>7, <1>8, <1>9 DEF FireInv

LEMMA UnloadedFire == ASSUME BarrelTypes, FireInv, B!Unloaded PROVE FireInv'
<1> DEFINE p == CallsOf(actions, unloads, Len(unloads) - 1)
           t == TurnsOf(actions, i)
<1>1. /\ pc = "unload" /\ i >= num_rounds /\ i \in Nat /\ num_rounds \in Int /\ shot \in Nat
      /\ j \in Nat /\ actions \in Seq(Charges) /\ unloads \in Seq(Int) /\ Len(unloads) > 0
      /\ unloads[Len(unloads)] = num_rounds
  BY DEF B!Unloaded, BarrelTypes, FireInv
<1>2. pc' = "ready" /\ UNCHANGED <<actions, unloads, fired>>
  BY DEF B!Unloaded, B!parse_vars, B!unload_vars
<1>3. j = 0 /\ shot = 0 /\ (i = 0 \/ i = num_rounds)
  BY <1>1 DEF FireInv
<1>4. t = TurnsOf(actions, num_rounds)
  <2>1. CASE i = num_rounds
    BY <2>1
  <2>2. CASE i = 0
    BY <1>1, <2>2, TurnsFacts
  <2> QED BY <1>3, <2>1, <2>2
<1>5. fired = Cat(p, Cat(t, Cat(InRound(actions, 0), <<>>))) /\ p \in Seq(Shootable)
      /\ t \in Seq(Shootable)
  BY <1>1, <1>3, Parts DEF FireInv
<1>6. InRound(actions, 0) = <<>>
  <2>1. 0 \in 0..Len(actions)
    BY <1>1
  <2> QED BY <1>1, <2>1, RoundFacts
<1>7. CallsOf(actions, unloads, Len(unloads)) = Cat(p, t)
  BY <1>1, <1>4, CallsFacts DEF Cat
<1> HIDE DEF p, t
<1>8. fired = Cat(p, t)
  <2>1. \A x \in Seq(Shootable) : Cat(x, <<>>) = x
    BY CatFacts
  <2>2. <<>> \in Seq(Shootable)
    OBVIOUS
  <2>3. Cat(<<>>, <<>>) = <<>> /\ Cat(t, <<>>) = t
    BY <1>5, <2>1, <2>2
  <2> QED BY <1>5, <1>6, <2>3
<1> QED BY <1>2, <1>7, <1>8 DEF FireInv

\* Parsing fires nothing.
LEMMA ParseFire == ASSUME BarrelTypes, FireInv, B!Parse PROVE FireInv'
<1>1. /\ pc = "parse" /\ pc' \in {"parse", "ready", "died"}
      /\ fired' = fired /\ unloads' = unloads
  BY DEF B!Parse, B!NumShotsSleep, B!NumShots, B!QueryName, B!LastQuery, B!LastSleep,
         B!NotDefined, B!TextEnds, B!BeforeSpace, B!AfterLoop, B!Read, B!unload_vars
<1>2. fired' = <<>> /\ unloads' = <<>>
  BY <1>1 DEF FireInv
<1>3. CallsOf(actions', <<>>, 0) = <<>>
  BY FlatUp DEF CallsOf
<1> QED BY <1>1, <1>2, <1>3 DEF FireInv

LEMMA NextFire == ASSUME BarrelTypes, FireInv, [B!Next]_(B!vars) PROVE FireInv'
<1>1. CASE \E n \in Rounds : B!SetNumRounds(n)
  BY <1>1 DEF B!SetNumRounds, B!parse_vars, B!unload_vars, FireInv
<1>2. CASE B!QueryFails
  BY <1>2 DEF B!QueryFails, B!Firing, B!parse_vars, B!unload_vars, FireInv
<1>3. CASE UNCHANGED B!vars
  BY <1>3 DEF B!vars, B!parse_vars, B!unload_vars, FireInv
<1> QED BY <1>1, <1>2, <1>3, ParseFire, UnloadFire, SleepFire, ShotFire, EndsFire, RoundFire,
           UnloadedFire DEF B!Next, B!Fire

\* The operators of the property are those of the invariant.
LEMMA ExpectedIs ==
  /\ B!OneRound = RoundOf(actions)
  /\ \A n : B!Times(n) = TurnsOf(actions, n)
  /\ B!Expected = CallsOf(actions, unloads, Len(unloads))
<1> DEFINE s == [m \in 1..Len(actions) |-> B!Shots(actions[m])]
<1>1. B!OneRound = RoundOf(actions)
  <2>1. FirstOf(s, Len(actions)) = s
    BY DEF FirstOf
  <2> QED BY <2>1 DEF B!OneRound, RoundOf, InRound, Flat
<1>2. ASSUME NEW n PROVE B!Times(n) = TurnsOf(actions, n)
  <2> DEFINE t == [m \in Nat |-> RoundOf(actions)]
  <2>1. FirstOf(t, n) = [m \in 1..n |-> B!OneRound]
    BY <1>1 DEF FirstOf
  <2> QED BY <2>1 DEF B!Times, TurnsOf, Flat
<1>3. B!Expected = CallsOf(actions, unloads, Len(unloads))
  <2> DEFINE t == [m \in 1..Len(unloads) |-> TurnsOf(actions, unloads[m])]
  <2>1. FirstOf(t, Len(unloads)) = [m \in 1..Len(unloads) |-> B!Times(unloads[m])]
    BY <1>2 DEF FirstOf
  <2> QED BY <2>1 DEF B!Expected, CallsOf, Flat
<1> QED BY <1>1, <1>2, <1>3

LEMMA Fired == ASSUME BarrelTypes, FireInv PROVE FiredAsMeant
<1> DEFINE all == CallsOf(actions, unloads, Len(unloads))
           p == CallsOf(actions, unloads, Len(unloads) - 1)
           t == TurnsOf(actions, i)
           r == InRound(actions, j)
           b == Begun(actions[j + 1], shot)
           z == TurnsOf(actions, num_rounds)
<1>1. /\ actions \in Seq(Charges) /\ num_rounds \in Int /\ i \in Nat /\ shot \in Nat
      /\ j \in 0..Len(actions) /\ unloads \in Seq(Int)
  BY DEF BarrelTypes
<1>2. ASSUME pc \in {"unload", "stopped"} PROVE B!IsPrefix(fired, all)
  <2>1. /\ fired = Cat(p, Cat(t, Cat(r, b))) /\ Len(unloads) > 0
        /\ unloads[Len(unloads)] = num_rounds /\ (i = 0 \/ i <= num_rounds)
        /\ (j > 0 \/ shot > 0 => i < num_rounds)
        /\ (shot > 0 => j < Len(actions) /\ actions[j + 1][1] = "fire" /\ shot <= actions[j + 1][3])
    BY <1>2 DEF FireInv
  <2>2. /\ p \in Seq(Shootable) /\ t \in Seq(Shootable) /\ r \in Seq(Shootable)
        /\ b \in Seq(Shootable) /\ (shot = 0 => b = <<>>)
    BY <1>2, Parts
  <2>3. all = Cat(p, z) /\ z \in Seq(Shootable)
    BY <1>1, <2>1, CallsFacts, TurnsFacts DEF Cat
  <2>4. Begins(Cat(r, b), RoundOf(actions), Shootable)
    <3>1. CASE shot = 0
      <4>1. Cat(r, b) = r
        BY <2>2, <3>1, CatFacts
      <4> QED BY <1>1, <4>1, RoundFacts
    <3>2. CASE shot > 0
      <4> DEFINE a == actions[j + 1]
      <4>1. j + 1 \in 0..Len(actions) /\ j + 1 \in 1..Len(actions)
        BY <1>1, <2>1, <3>2
      <4>2. a \in Charges /\ a[1] = "fire" /\ shot <= a[3]
        BY <1>1, <2>1, <3>2, <4>1
      <4>3. Begins(b, B!Shots(a), Shootable)
        BY <1>1, <4>2, BegunFacts
      <4>4. InRound(actions, j + 1) = Cat(r, B!Shots(a))
        BY <1>1, <2>1, <3>2, RoundFacts DEF Cat
      <4> HIDE DEF a, r, b
      <4>5. Begins(Cat(r, b), InRound(actions, j + 1), Shootable)
        BY <2>2, <4>3, <4>4, BeginsFacts DEF Cat
      <4>6. Begins(InRound(actions, j + 1), RoundOf(actions), Shootable)
        BY <1>1, <4>1, RoundFacts
      <4> QED BY <4>5, <4>6, BeginsFacts
    <3> QED BY <1>1, <3>1, <3>2
  <2>5. Begins(Cat(t, Cat(r, b)), z, Shootable)
    <3>1. CASE i < num_rounds
      <4>1. /\ TurnsOf(actions, i + 1) = Cat(t, RoundOf(actions))
            /\ Begins(TurnsOf(actions, i + 1), z, Shootable)
        <5>1. i \in Int /\ i >= 0 /\ i + 1 \in Nat /\ i + 1 <= num_rounds
          BY <1>1, <3>1
        <5>2. TurnsOf(actions, i + 1) = t \o RoundOf(actions)
          BY <1>1, <5>1, TurnsFacts
        <5>3. Begins(TurnsOf(actions, i + 1), z, Shootable)
          BY <1>1, <5>1, TurnsFacts
        <5> QED BY <5>2, <5>3 DEF Cat
      <4> HIDE DEF t, r, b, z
      <4>2. Begins(Cat(t, Cat(r, b)), Cat(t, RoundOf(actions)), Shootable)
        BY <2>2, <2>4, BeginsFacts DEF Cat
      <4> QED BY <4>1, <4>2, BeginsFacts
    <3>2. CASE ~(i < num_rounds)
      <4>1. j = 0 /\ shot = 0 /\ (i = num_rounds \/ (i = 0 /\ num_rounds <= 0))
        BY <1>1, <2>1, <3>2
      <4>2. r = <<>> /\ b = <<>>
        BY <1>1, <2>2, <4>1, RoundFacts
      <4>3. t = z
        <5>1. CASE i = num_rounds
          BY <5>1
        <5>2. CASE i = 0 /\ num_rounds <= 0
          <6>1. TurnsOf(actions, num_rounds) = <<>> /\ TurnsOf(actions, 0) = <<>>
            BY <1>1, <5>2, TurnsFacts
          <6> QED BY <5>2, <6>1
        <5> QED BY <4>1, <5>1, <5>2
      <4> HIDE DEF t, r, b, z
      <4>4. Cat(t, Cat(r, b)) = t
        BY <2>2, <4>2, CatFacts
      <4> QED BY <2>2, <4>3, <4>4, BeginsFacts
    <3> QED BY <3>1, <3>2
  <2> HIDE DEF p, t, r, b, z, all
  <2>6. Begins(Cat(p, Cat(t, Cat(r, b))), Cat(p, z), Shootable)
    BY <2>2, <2>5, BeginsFacts DEF Cat
  <2> QED BY <2>1, <2>3, <2>6, BeginsFacts
<1>3. pc = "ready" => fired = all
  BY DEF FireInv
<1> QED BY <1>2, <1>3, ExpectedIs DEF FiredAsMeant, B!FiredAsMeant

-----------------------------------------------------------------------------
(***************************************************************************)
(* A well-formed text.                                                     *)
(***************************************************************************)
\* What the recursion of Starts defines.
IsStarts(f, t, n) ==
  /\ f \in [0..n -> Seq(1..Len(t))] /\ f[0] = <<>>
  /\ \A m \in 1..n : f[m] = IF t[m][1] = "name" THEN f[m - 1] ELSE Append(f[m - 1], m)

\* It reaches every token.
LEMMA StartsExist ==
  ASSUME NEW t, Len(t) \in Nat, NEW n \in 0..Len(t)
  PROVE  \E f : IsStarts(f, t, n)
<1> DEFINE T == {m \in Nat : m <= Len(t) => \E f : IsStarts(f, t, m)}
<1>1. 0 \in T
  <2>1. IsStarts([m \in 0..0 |-> <<>>], t, 0)
    BY DEF IsStarts
  <2> QED BY <2>1
<1>2. ASSUME NEW m \in Nat, m \in T PROVE m + 1 \in T
  <2> SUFFICES ASSUME m + 1 <= Len(t) PROVE \E f : IsStarts(f, t, m + 1)
    OBVIOUS
  <2>1. PICK f : IsStarts(f, t, m)
    BY <1>2
  <2> DEFINE e == IF t[m + 1][1] = "name" THEN f[m] ELSE Append(f[m], m + 1)
             g == [x \in 0..(m + 1) |-> IF x = m + 1 THEN e ELSE f[x]]
  <2>2. e \in Seq(1..Len(t))
    <3>1. f[m] \in Seq(1..Len(t)) /\ m + 1 \in 1..Len(t)
      BY <2>1 DEF IsStarts
    <3> QED BY <3>1, AppendTyped
  <2>3. g \in [0..(m + 1) -> Seq(1..Len(t))] /\ g[0] = <<>>
    <3> HIDE DEF e
    <3>1. \A x \in 0..(m + 1) : x # m + 1 => x \in 0..m
      OBVIOUS
    <3> QED BY <2>1, <2>2, <3>1 DEF IsStarts
  <2>4. ASSUME NEW x \in 1..(m + 1)
        PROVE  g[x] = IF t[x][1] = "name" THEN g[x - 1] ELSE Append(g[x - 1], x)
    <3>1. CASE x = m + 1
      <4>1. g[x] = e /\ g[x - 1] = f[m]
        <5> HIDE DEF e
        <5> QED BY <3>1
      <4> HIDE DEF g
      <4> QED BY <3>1, <4>1
    <3>2. CASE x # m + 1
      <4>1. x \in 1..m /\ x - 1 \in 0..m
        BY <3>2
      <4>2. g[x] = f[x] /\ g[x - 1] = f[x - 1]
        <5> HIDE DEF e
        <5> QED BY <3>2, <4>1
      <4> HIDE DEF g
      <4> QED BY <2>1, <4>1, <4>2 DEF IsStarts
    <3> QED BY <3>1, <3>2
  <2> HIDE DEF g
  <2>5. IsStarts(g, t, m + 1)
    BY <2>3, <2>4 DEF IsStarts
  <2> QED BY <2>5
<1> HIDE DEF T
<1>3. n \in T
  BY <1>1, <1>2, Upward
<1> QED BY <1>3 DEF T

\* Starts satisfies its equation, and its values are places in the text.
LEMMA StartsAre ==
  ASSUME NEW t, Len(t) \in Nat
  PROVE  /\ B!Starts(t)[0] = <<>>
         /\ \A m \in 1..Len(t) :
              B!Starts(t)[m] = IF t[m][1] = "name" THEN B!Starts(t)[m - 1]
                               ELSE Append(B!Starts(t)[m - 1], m)
         /\ \A m \in 0..Len(t) : B!Starts(t)[m] \in Seq(1..m)
<1> DEFINE Def(f) == [m \in 0..Len(t) |->
                        IF m = 0 THEN <<>>
                        ELSE IF t[m][1] = "name" THEN f[m - 1] ELSE Append(f[m - 1], m)]
<1>1. B!Starts(t) = CHOOSE f : f = Def(f)
  BY DEF B!Starts
<1>2. Len(t) \in 0..Len(t)
  OBVIOUS
<1>3. PICK g : IsStarts(g, t, Len(t))
  BY <1>2, StartsExist
<1>4. g = Def(g)
  <2>1. g = [m \in 0..Len(t) |-> g[m]]
    BY <1>3 DEF IsStarts
  <2>2. ASSUME NEW m \in 0..Len(t) PROVE g[m] = Def(g)[m]
    <3>1. CASE m = 0
      BY <1>3, <3>1 DEF IsStarts
    <3>2. CASE m # 0
      <4>1. m \in 1..Len(t)
        BY <3>2
      <4> QED BY <1>3, <3>2, <4>1 DEF IsStarts
    <3> QED BY <3>1, <3>2
  <2> QED BY <2>1, <2>2
<1> DEFINE b == B!Starts(t)
<1>5. b = Def(b)
  <2> HIDE DEF Def
  <2> QED BY <1>1, <1>4
<1> HIDE DEF b
<1>6. b[0] = <<>>
  BY <1>2, <1>5
<1>7. ASSUME NEW m \in 1..Len(t)
      PROVE  b[m] = IF t[m][1] = "name" THEN b[m - 1] ELSE Append(b[m - 1], m)
  <2>1. m \in 0..Len(t) /\ m # 0
    OBVIOUS
  <2>2. Def(b)[m] = IF t[m][1] = "name" THEN b[m - 1] ELSE Append(b[m - 1], m)
    BY <2>1
  <2> HIDE DEF Def
  <2>3. b[m] = Def(b)[m]
    BY <1>5, Zenon
  <2> QED BY <2>2, <2>3, Zenon
<1> HIDE DEF Def
<1> DEFINE T == {m \in Nat : m <= Len(t) => b[m] \in Seq(1..m)}
<1>8. 0 \in T
  <2>1. <<>> \in Seq(1..0)
    OBVIOUS
  <2> QED BY <1>6, <2>1
<1>9. ASSUME NEW m \in Nat, m \in T PROVE m + 1 \in T
  <2> SUFFICES ASSUME m + 1 <= Len(t) PROVE b[m + 1] \in Seq(1..(m + 1))
    OBVIOUS
  <2>1. m + 1 \in 1..Len(t) /\ (m + 1) - 1 = m /\ b[m] \in Seq(1..m)
    BY <1>9
  <2>2. b[m] \in Seq(1..(m + 1)) /\ m + 1 \in 1..(m + 1)
    <3>1. 1..m \subseteq 1..(m + 1)
      OBVIOUS
    <3> QED BY <2>1, <3>1, SeqMonotonic
  <2>3. b[m + 1] = IF t[m + 1][1] = "name" THEN b[m] ELSE Append(b[m], m + 1)
    BY <1>7, <2>1
  <2>4. Append(b[m], m + 1) \in Seq(1..(m + 1))
    BY <2>2, AppendTyped
  <2> QED BY <2>2, <2>3, <2>4
<1>10. \A m \in Nat : m \in T
  <2> HIDE DEF T
  <2> QED BY <1>8, <1>9, Upward
<1> QED BY <1>6, <1>7, <1>10 DEF b

\* What starts at token n of t, and what starts among its first n tokens.
ActAt(t, n) == IF t[n][1] = "sleep" THEN t[n] ELSE B!Charge(t[n + 1][2], t[n][2])
MeaningTo(t, n) == [m \in 1..Len(B!Starts(t)[n]) |-> ActAt(t, B!Starts(t)[n][m])]

LEMMA MeaningGrows ==
  ASSUME NEW t, Len(t) \in Nat
  PROVE  /\ MeaningTo(t, 0) = <<>>
         /\ \A n \in 1..Len(t) :
              MeaningTo(t, n) = IF t[n][1] = "name" THEN MeaningTo(t, n - 1)
                                ELSE Append(MeaningTo(t, n - 1), ActAt(t, n))
         /\ B!Meaning(t) = MeaningTo(t, Len(t))
<1>1. MeaningTo(t, 0) = <<>>
  BY StartsAre DEF MeaningTo
<1>2. ASSUME NEW n \in 1..Len(t), t[n][1] = "name" PROVE MeaningTo(t, n) = MeaningTo(t, n - 1)
  BY <1>2, StartsAre DEF MeaningTo
<1>3. ASSUME NEW n \in 1..Len(t), t[n][1] # "name"
      PROVE  MeaningTo(t, n) = Append(MeaningTo(t, n - 1), ActAt(t, n))
  <2> DEFINE a == B!Starts(t)[n - 1]
             b == B!Starts(t)[n]
  <2>1. a \in Seq(1..(n - 1)) /\ b = Append(a, n)
    <3>1. n - 1 \in 0..Len(t)
      OBVIOUS
    <3> QED BY <1>3, <3>1, StartsAre
  <2> HIDE DEF a, b
  <2>2. Len(a) \in Nat /\ Len(b) = Len(a) + 1 /\ b[Len(a) + 1] = n
        /\ \A m \in 1..Len(a) : b[m] = a[m]
    BY <2>1
  <2> DEFINE w == [m \in 1..Len(a) |-> ActAt(t, a[m])]
             v == [m \in 1..Len(b) |-> ActAt(t, b[m])]
  <2>3. v = Append(w, ActAt(t, n))
    BY <2>2
  <2> QED BY <2>3 DEF MeaningTo, a, b
<1>4. B!Meaning(t) = MeaningTo(t, Len(t))
  BY DEF B!Meaning, MeaningTo, ActAt
<1> QED BY <1>1, <1>2, <1>3, <1>4

\* A well-formed text has been read up to k: the actions are those that start
\* there, but for the shots of a number whose query is the next token.
ParseInv ==
  B!WellFormed(text) =>
    /\ pc # "died"
    /\ pc = "parse" /\ parse_state = "NUM_SHOTS" =>
         actions = MeaningTo(text, k) /\ (k > 0 => text[k][1] # "number")
    /\ pc = "parse" /\ parse_state = "QUERY_NAME" =>
         /\ k > 0 /\ text[k][1] = "number" /\ num_shots = text[k][2]
         /\ actions = MeaningTo(text, k - 1)
    /\ pc \in {"ready", "unload", "stopped"} => actions = B!Meaning(text)

LEMMA InitParse == B!Init => ParseInv
<1> SUFFICES ASSUME B!Init PROVE ParseInv
  OBVIOUS
<1>1. Len(text) \in Nat
  BY InitTypes DEF BarrelTypes
<1> QED BY <1>1, MeaningGrows DEF B!Init, ParseInv

LEMMA NextParse == ASSUME BarrelTypes, ParseInv, [B!Next]_(B!vars) PROVE ParseInv'
<1>0. CASE text' = text /\ ~B!WellFormed(text)
  BY <1>0 DEF ParseInv, B!WellFormed
<1> SUFFICES ASSUME B!WellFormed(text) PROVE ParseInv'
  BY <1>0 DEF B!Next, B!Parse, B!Fire, B!NumShotsSleep, B!NumShots, B!QueryName, B!LastQuery, B!LastSleep,
         B!NotDefined, B!TextEnds, B!Read, B!SetNumRounds, B!Unload, B!FireSleep, B!FireShot,
         B!FireEnds, B!QueryFails, B!RoundEnds, B!Unloaded, B!NextAction, B!parse_vars, B!vars
<1>1. /\ Len(text) \in Nat /\ k \in 0..Len(text) /\ text \in Seq(B!Tokens)
      /\ parse_state \in {"NUM_SHOTS", "QUERY_NAME"}
  BY DEF BarrelTypes
<1>2. \A n \in 1..Len(text) :
        /\ text[n][1] = "number" =>
             n < Len(text) /\ text[n + 1][1] = "name" /\ text[n + 1][2] \in Queries
        /\ text[n][1] = "name" => n > 1 /\ text[n - 1][1] = "number"
  BY DEF B!WellFormed
\* The token after one that is no number is no name.
<1>3. ASSUME pc = "parse", k + 1 \in 1..Len(text)
      PROVE  /\ parse_state = "NUM_SHOTS" => text[k + 1][1] \in {"number", "sleep"}
             /\ parse_state = "QUERY_NAME" => text[k + 1][1] = "name" /\ text[k + 1][2] \in Queries
  <2>1. text[k + 1][1] \in {"number", "name", "sleep"}
    BY <1>1, <1>3, TokenFacts
  <2>2. (k + 1) - 1 = k
    BY <1>1
  <2>3. CASE parse_state = "NUM_SHOTS"
    <3>1. k > 0 => text[k][1] # "number"
      BY <1>3, <2>3 DEF ParseInv
    <3>2. text[k + 1][1] # "name"
      BY <1>1, <1>2, <1>3, <2>2, <3>1
    <3> QED BY <2>1, <2>3, <3>2
  <2>4. CASE parse_state = "QUERY_NAME"
    <3>1. k > 0 /\ text[k][1] = "number"
      BY <1>3, <2>4 DEF ParseInv
    <3>2. k \in 1..Len(text)
      BY <1>1, <3>1
    <3> QED BY <1>2, <2>4, <3>1, <3>2
  <2> QED BY <1>1, <2>3, <2>4
\* What the next token adds to the meaning.
<1>4. ASSUME k + 1 \in 1..Len(text)
      PROVE  MeaningTo(text, k + 1) = IF text[k + 1][1] = "name" THEN MeaningTo(text, k)
                                      ELSE Append(MeaningTo(text, k), ActAt(text, k + 1))
  <2>1. (k + 1) - 1 = k
    BY <1>1
  <2> QED BY <1>1, <1>4, <2>1, MeaningGrows
<1>5. ASSUME k > 0
      PROVE  MeaningTo(text, k) = IF text[k][1] = "name" THEN MeaningTo(text, k - 1)
                                  ELSE Append(MeaningTo(text, k - 1), ActAt(text, k))
  BY <1>1, <1>5, MeaningGrows
<1>6. (B!BeforeSpace \/ B!AfterLoop) =>
        k + 1 \in 1..Len(text) /\ B!Token = text[k + 1] /\ B!Token \in B!Tokens
  BY NextToken
<1>7. B!Meaning(text) = MeaningTo(text, Len(text))
  BY <1>1, MeaningGrows
<1>8. CASE B!NumShotsSleep
  <2>1. /\ pc = "parse" /\ parse_state = "NUM_SHOTS" /\ k + 1 \in 1..Len(text)
        /\ text[k + 1][1] = "sleep" /\ actions' = Append(actions, text[k + 1])
        /\ k' = k + 1 /\ UNCHANGED <<pc, text, parse_state>>
    BY <1>6, <1>8 DEF B!NumShotsSleep, B!BeforeSpace, B!Read
  <2>2. actions' = MeaningTo(text, k + 1)
    BY <1>4, <2>1 DEF ParseInv, ActAt
  <2> QED BY <2>1, <2>2 DEF ParseInv
<1>9. CASE B!NumShots
  <2>1. /\ pc = "parse" /\ parse_state = "NUM_SHOTS" /\ k + 1 \in 1..Len(text)
        /\ text[k + 1][1] # "sleep" /\ parse_state' = "QUERY_NAME"
        /\ num_shots' = (IF text[k + 1][1] = "number" THEN text[k + 1][2] ELSE 0)
        /\ k' = k + 1 /\ UNCHANGED <<pc, text, actions>>
    BY <1>6, <1>9 DEF B!NumShots, B!BeforeSpace, B!Read
  <2>2. text[k + 1][1] = "number" /\ (k + 1) - 1 = k /\ k + 1 > 0
    BY <1>1, <1>3, <2>1
  <2>3. actions' = MeaningTo(text, k' - 1)
    BY <2>1, <2>2 DEF ParseInv
  <2> QED BY <2>1, <2>2, <2>3 DEF ParseInv
<1>10. CASE B!QueryName
  <2>1. /\ pc = "parse" /\ parse_state = "QUERY_NAME" /\ k + 1 \in 1..Len(text)
        /\ actions' = Append(actions, B!Charge(text[k + 1][2], num_shots))
        /\ parse_state' = "NUM_SHOTS" /\ k' = k + 1 /\ UNCHANGED <<pc, text>>
    BY <1>6, <1>10 DEF B!QueryName, B!BeforeSpace, B!Read
  <2>2. actions' = MeaningTo(text, k + 1) /\ text[k + 1][1] = "name"
    BY <1>3, <1>4, <1>5, <2>1 DEF ParseInv, ActAt
  <2> QED BY <2>1, <2>2 DEF ParseInv
<1>11. CASE B!LastQuery
  <2>1. /\ pc = "parse" /\ k + 1 \in 1..Len(text) /\ k + 1 = Len(text)
        /\ text[k + 1][1] = "name"
        /\ actions' = Append(actions, B!Charge(text[k + 1][2], num_shots))
        /\ pc' = "ready" /\ UNCHANGED text
    BY <1>6, <1>11 DEF B!LastQuery, B!AfterLoop, B!IsQuery, B!Read
  <2>2. parse_state = "QUERY_NAME"
    BY <1>1, <1>3, <2>1
  <2>3. actions' = MeaningTo(text, k + 1)
    BY <1>3, <1>4, <1>5, <2>1, <2>2 DEF ParseInv, ActAt
  <2> QED BY <1>7, <2>1, <2>3 DEF ParseInv
<1>12. CASE B!LastSleep
  <2>1. /\ pc = "parse" /\ k + 1 \in 1..Len(text) /\ k + 1 = Len(text)
        /\ text[k + 1][1] = "sleep" /\ actions' = Append(actions, text[k + 1])
        /\ pc' = "ready" /\ UNCHANGED text
    BY <1>6, <1>12 DEF B!LastSleep, B!AfterLoop, B!Read
  <2>2. parse_state = "NUM_SHOTS"
    BY <1>1, <1>3, <2>1
  <2>3. actions' = MeaningTo(text, k + 1)
    BY <1>4, <2>1, <2>2 DEF ParseInv, ActAt
  <2> QED BY <1>7, <2>1, <2>3 DEF ParseInv
<1>13. ~B!NotDefined
  <2>1. ASSUME B!BeforeSpace, parse_state = "QUERY_NAME", ~B!IsQuery PROVE FALSE
    BY <1>3, <1>6, <2>1 DEF B!BeforeSpace, B!IsQuery
  <2>2. ASSUME B!AfterLoop, ~B!IsQuery, B!Token[1] # "sleep" PROVE FALSE
    <3>1. pc = "parse" /\ k + 1 \in 1..Len(text) /\ B!Token = text[k + 1] /\ k + 1 = Len(text)
      BY <1>6, <2>2 DEF B!AfterLoop
    <3>2. text[k + 1][1] # "number"
      BY <1>1, <1>2, <3>1
    <3>3. CASE parse_state = "QUERY_NAME"
      BY <1>3, <2>2, <3>1, <3>3 DEF B!IsQuery
    <3>4. CASE parse_state = "NUM_SHOTS"
      BY <1>3, <2>2, <3>1, <3>2, <3>4
    <3> QED BY <1>1, <3>3, <3>4
  <2> QED BY <2>1, <2>2 DEF B!NotDefined
<1>14. CASE B!TextEnds
  <2>1. pc = "parse" /\ k = Len(text) /\ pc' = "ready" /\ UNCHANGED <<text, actions>>
    BY <1>14 DEF B!TextEnds, B!parse_vars
  <2>2. parse_state = "NUM_SHOTS"
    <3> SUFFICES ASSUME parse_state = "QUERY_NAME" PROVE FALSE
      BY <1>1
    <3>1. k \in 1..Len(text) /\ text[k][1] = "number"
      BY <1>1, <2>1 DEF ParseInv
    <3> QED BY <1>1, <1>2, <2>1, <3>1
  <2>3. actions' = MeaningTo(text, k)
    BY <2>1, <2>2 DEF ParseInv
  <2> QED BY <1>7, <2>1, <2>3 DEF ParseInv
<1>15. CASE (\E n \in Rounds : B!SetNumRounds(n)) \/ B!Unload \/ B!Fire
  <2>1. /\ pc \in {"ready", "unload"} /\ pc' \in {"ready", "unload", "stopped"}
        /\ UNCHANGED <<text, actions>>
    BY <1>15 DEF B!Fire, B!SetNumRounds, B!Unload, B!FireSleep, B!FireShot, B!FireEnds,
         B!QueryFails, B!RoundEnds, B!Unloaded, B!Firing, B!NextAction, B!parse_vars
  <2> QED BY <2>1 DEF ParseInv
<1>16. CASE UNCHANGED B!vars
  BY <1>16 DEF B!vars, B!parse_vars, ParseInv
<1> QED BY <1>8, <1>9, <1>10, <1>11, <1>12, <1>13, <1>14, <1>15, <1>16 DEF B!Next, B!Parse

LEMMA Parsed == ASSUME BarrelTypes, ParseInv PROVE ParsedAsWritten
  BY DEF ParseInv, ParsedAsWritten, B!ParsedAsWritten

-----------------------------------------------------------------------------
(***************************************************************************)
(* The session.                                                            *)
(***************************************************************************)
\* What is invariant of the barrel.
BarrelInv == BarrelTypes /\ FollowInv /\ FireInv /\ ParseInv

LEMMA NextBarrel == ASSUME BarrelInv, [B!Next]_(B!vars) PROVE BarrelInv'
<1>1. BarrelTypes'
  BY ParseTypes, LoopTypes, StillTypes DEF BarrelInv, B!Next
<1>2. FollowInv'
  <2>1. CASE B!Parse
    BY <2>1, ParseFollow DEF BarrelInv
  <2>2. CASE UNCHANGED <<actions, k, text>>
    BY <2>2 DEF BarrelInv, FollowInv, NamedAt
  <2> QED
    BY <2>1, <2>2 DEF B!Next, B!Fire, B!SetNumRounds, B!Unload, B!FireSleep, B!FireShot,
       B!FireEnds, B!QueryFails, B!RoundEnds, B!Unloaded, B!NextAction, B!parse_vars, B!vars
<1> QED BY <1>1, <1>2, NextFire, NextParse DEF BarrelInv

\* Each step is one of the barrel or leaves it alone.
LEMMA BarrelSteps == [SessionNext]_<<vars, barrel_vars>> => [B!Next]_(B!vars)
  BY DEF SessionNext, BeforeFile, ParseBarrel, ClientSectionEnds, BarrelLine, EngineLine,
         BarrelShot, BarrelQueryFails, BarrelGoesOn, barrel_vars, B!Next, B!Fire, B!vars,
         B!parse_vars, B!unload_vars

\* Each step is one of the engine or leaves it alone: the queries of the barrel
\* are some of query_pool.
LEMMA EngineSteps == BarrelTypes /\ [SessionNext]_<<vars, barrel_vars>> => [Next]_vars
<1> SUFFICES ASSUME BarrelTypes, [SessionNext]_<<vars, barrel_vars>> PROVE [Next]_vars
  OBVIOUS
<1>1. CASE BarrelShot
  <2>1. B!Action[2] \in Queries
    BY <1>1, NextToken, ActionFacts DEF BarrelShot, B!FireShot
  <2> QED BY <1>1, <2>1 DEF BarrelShot, Next
<1> QED
  BY <1>1 DEF SessionNext, BeforeFile, ParseBarrel, ClientSectionEnds, BarrelLine, EngineLine,
     BarrelQueryFails, BarrelGoesOn, Next, Starting, Line

LEMMA BarrelHolds == SessionSpec => []BarrelInv
<1>1. SessionInit => BarrelInv
  BY InitTypes, InitFollow, InitFire, InitParse DEF SessionInit, BarrelInv
<1>2. BarrelInv /\ [SessionNext]_<<vars, barrel_vars>> => BarrelInv'
  BY NextBarrel, BarrelSteps
<1> QED BY <1>1, <1>2, PTL DEF SessionSpec

\* A client whose queries are those of its barrel, and of lines between calls of
\* unload_query_barrel(), behaves as the engine's client does: what is proved of
\* Engine holds in a session.
THEOREM SessionRunsEngine == SessionSpec => Spec
<1>1. SessionInit => Init
  BY DEF SessionInit
<1>2. BarrelInv /\ [SessionNext]_<<vars, barrel_vars>> => [Next]_vars
  BY EngineSteps DEF BarrelInv
<1> QED BY <1>1, <1>2, BarrelHolds, PTL DEF SessionSpec, Spec

\* parse.cc makes of a well-formed query_barrel, of any length, the actions it
\* means, with or without a space at its end.
THEOREM ReadAsWritten == SessionSpec => []ParsedAsWritten
<1>1. BarrelInv => ParsedAsWritten
  BY Parsed DEF BarrelInv
<1> QED BY <1>1, BarrelHolds, PTL

\* Of any other text too, parse.cc makes only actions named in it, in its order.
THEOREM FollowsText == SessionSpec => []ActionsFollowText
<1>1. BarrelInv => ActionsFollowText
  BY Followed DEF BarrelInv
<1> QED BY <1>1, BarrelHolds, PTL

\* unload_query_barrel() fires every action of every round of every call in its
\* order, for any barrel, any numbers of shots and rounds, and whatever lines
\* come between; a query that fails leaves a beginning of that.
THEOREM FiresEveryRound == SessionSpec => []FiredAsMeant
<1>1. BarrelInv => FiredAsMeant
  BY Fired DEF BarrelInv
<1> QED BY <1>1, BarrelHolds, PTL
=============================================================================
