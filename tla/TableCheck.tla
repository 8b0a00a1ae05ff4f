----------------------------- MODULE TableCheck -----------------------------
(***************************************************************************)
(* Table_def::validate_table(): before the test starts, every table        *)
(* section of the smack file is checked, and the table is created and      *)
(* loaded from a data file, which a shell command generates if it is not   *)
(* there (src/src/parse.cc, src/src/libsmack.cc).                          *)
(*                                                                         *)
(* Tables and data files outlive the program.  It may be killed at any     *)
(* point and run again, while a generator it had started still runs: that  *)
(* is a process of its own, and it writes where the next run looks.        *)
(***************************************************************************)
EXTENDS Integers, Sequences, FiniteSets

CONSTANTS
  Tables,     \* the table sections, in their order: a sequence of names
  min_rows,   \* the min_rows of each table
  FileRows,   \* how many rows gen_data_file generates
  MaxFaults,  \* bound: crashes, failed queries and failed commands
  DiskFills   \* whether the disk may be full under a generator

ABSENT == -1
NAMES  == {Tables[k] : k \in 1..Len(Tables)}

ASSUME TableCheckAssumption ==
  /\ Tables \in Seq(NAMES) /\ Tables # <<>>
  /\ FileRows \in Nat /\ MaxFaults \in Nat /\ DiskFills \in BOOLEAN
  /\ min_rows \in [NAMES -> 0..FileRows]

VARIABLES
  pc,         \* where super-smack is in validate_table(), "down" if it is not running
  section,    \* the number of the table section it is at
  num_rows,   \* Table::num_rows, or ABSENT when get_table_info() failed
  table,      \* the rows of each table in the database, or ABSENT
  file,       \* the rows of each data file, or ABSENT
  generator,  \* of each data file: "running", or how the last one ended:
              \* "idle" with status 0, "failed" with another
  loaded,     \* how many rows the file had when the table was last loaded
  faults

db_vars   == <<table, loaded>>
file_vars == <<file, generator>>
vars == <<pc, section, num_rows, db_vars, file_vars, faults>>

t == Tables[section]

Fault == faults < MaxFaults /\ faults' = faults + 1

\* die(), exit(1), or a signal: connections are closed, all else stays.
Ends == pc' = "down" /\ UNCHANGED <<section, num_rows>>

-----------------------------------------------------------------------------
\* Also after a test that ran: the tables are checked every time.
Start ==
  /\ pc \in {"down", "done"}
  /\ pc' = "connect"
  /\ section' = 1
  /\ UNCHANGED <<num_rows, db_vars, file_vars, faults>>

Connect ==
  /\ pc = "connect"
  /\ pc' = "get_table_info"
  /\ UNCHANGED <<section, num_rows, db_vars, file_vars, faults>>

\* select count(*); do_drop and do_create follow from what it says.
GetTableInfo ==
  /\ pc = "get_table_info"
  /\ num_rows' = table[t]
  /\ pc' = IF table[t] = ABSENT THEN "create"
           ELSE IF table[t] < min_rows[t] THEN "drop" ELSE "disconnect"
  /\ UNCHANGED <<section, db_vars, file_vars, faults>>

\* Mutant of GetTableInfoFails: what cannot be counted is dropped.
UncountedIsDropped ==
  /\ pc = "get_table_info" /\ Fault
  /\ num_rows' = ABSENT
  /\ pc' = "drop"
  /\ UNCHANGED <<section, db_vars, file_vars>>

\* Any error of the query is taken for a table that does not exist.
GetTableInfoFails ==
  /\ pc = "get_table_info" /\ Fault
  /\ num_rows' = ABSENT
  /\ pc' = "create"
  /\ UNCHANGED <<section, db_vars, file_vars>>

DropTable ==
  /\ pc = "drop"
  /\ table' = [table EXCEPT ![t] = ABSENT]
  /\ pc' = "create"
  /\ UNCHANGED <<section, num_rows, loaded, file_vars, faults>>

CreateTable ==
  /\ pc = "create" /\ table[t] = ABSENT
  /\ table' = [table EXCEPT ![t] = 0]
  /\ pc' = "stat"
  /\ UNCHANGED <<section, num_rows, loaded, file_vars, faults>>

\* "table already exists": safe_query() aborts.
CreateExists ==
  /\ pc = "create" /\ table[t] # ABSENT
  /\ Ends
  /\ UNCHANGED <<db_vars, file_vars, faults>>

\* Mutant of StatFinds: the file is not looked for.
StatFindsAny ==
  /\ pc = "stat"
  /\ pc' = "load"
  /\ UNCHANGED <<section, num_rows, db_vars, file_vars, faults>>

StatFinds ==
  /\ pc = "stat" /\ file[t] # ABSENT
  /\ pc' = "load"
  /\ UNCHANGED <<section, num_rows, db_vars, file_vars, faults>>

\* populate_data_file(): system("gen_data_file > data_file").
Populate ==
  /\ pc = "stat" /\ file[t] = ABSENT
  /\ file' = [file EXCEPT ![t] = 0]
  /\ generator' = [generator EXCEPT ![t] = "running"]
  /\ pc' = "system"
  /\ UNCHANGED <<section, num_rows, db_vars, faults>>

\* The command ended with status 0.
SystemReturns ==
  /\ pc = "system" /\ generator[t] = "idle"
  /\ pc' = "load"
  /\ UNCHANGED <<section, num_rows, db_vars, file_vars, faults>>

\* "Error generating data file"; the file stays.
SystemFails ==
  /\ pc = "system" /\ generator[t] = "failed"
  /\ Ends
  /\ UNCHANGED <<db_vars, file_vars, faults>>

\* Mutant of LoadTableData: a row is taken for a header.
LoadSkipsRow ==
  /\ pc = "load"
  /\ table' = [table EXCEPT ![t] = IF file[t] > 0 THEN file[t] - 1 ELSE 0]
  /\ loaded' = [loaded EXCEPT ![t] = file[t]]
  /\ pc' = "disconnect"
  /\ UNCHANGED <<section, num_rows, file_vars, faults>>

\* The database reads the file; validate_table() does not count again.
LoadTableData ==
  /\ pc = "load"
  /\ table' = [table EXCEPT ![t] = file[t]]
  /\ loaded' = [loaded EXCEPT ![t] = file[t]]
  /\ pc' = "disconnect"
  /\ UNCHANGED <<section, num_rows, file_vars, faults>>

\* A failed load may leave any part of the rows behind.
LoadFails ==
  /\ pc = "load" /\ Fault
  /\ \E n \in 0..file[t] : table' = [table EXCEPT ![t] = n]
  /\ loaded' = [loaded EXCEPT ![t] = file[t]]
  /\ Ends
  /\ UNCHANGED file_vars

Disconnect ==
  /\ pc = "disconnect"
  /\ IF section < Len(Tables)
     THEN pc' = "connect" /\ section' = section + 1
     ELSE pc' = "done" /\ UNCHANGED section
  /\ UNCHANGED <<num_rows, db_vars, file_vars, faults>>

\* A failed connect, drop or create; a kill.
Crash ==
  /\ pc \notin {"down", "done"} /\ Fault
  /\ Ends
  /\ UNCHANGED <<db_vars, file_vars>>

-----------------------------------------------------------------------------
(***************************************************************************)
(* The generators.                                                         *)
(***************************************************************************)
GenerateRow(f) ==
  /\ generator[f] = "running" /\ file[f] < FileRows
  /\ file' = [file EXCEPT ![f] = @ + 1]
  /\ UNCHANGED <<pc, section, num_rows, db_vars, generator, faults>>

GeneratorEnds(f) ==
  /\ generator[f] = "running" /\ file[f] = FileRows
  /\ generator' = [generator EXCEPT ![f] = "idle"]
  /\ UNCHANGED <<pc, section, num_rows, db_vars, file, faults>>

\* It is killed: the file stays as it is.
GeneratorFails(f) ==
  /\ generator[f] = "running" /\ Fault
  /\ generator' = [generator EXCEPT ![f] = "failed"]
  /\ UNCHANGED <<pc, section, num_rows, db_vars, file>>

\* gen-data does not look whether its output could be written.
DiskFull(f) ==
  /\ DiskFills /\ generator[f] = "running" /\ Fault
  /\ generator' = [generator EXCEPT ![f] = "idle"]
  /\ UNCHANGED <<pc, section, num_rows, db_vars, file>>

Init ==
  /\ pc = "down" /\ section = 1 /\ num_rows = ABSENT
  /\ table \in [NAMES -> {ABSENT, 0, FileRows}]
  /\ file \in [NAMES -> {ABSENT, FileRows}]
  /\ generator = [f \in NAMES |-> "idle"]
  /\ loaded = table /\ faults = 0

ValidateStep ==
  \/ Connect \/ GetTableInfo \/ GetTableInfoFails
  \/ DropTable \/ CreateTable \/ CreateExists
  \/ StatFinds \/ Populate \/ SystemReturns \/ SystemFails
  \/ LoadTableData \/ LoadFails \/ Disconnect

GeneratorStep(f) ==
  GenerateRow(f) \/ GeneratorEnds(f) \/ GeneratorFails(f) \/ DiskFull(f)

Next ==
  \/ Start \/ ValidateStep \/ Crash
  \/ \E f \in NAMES : GeneratorStep(f)

Spec == Init /\ [][Next]_vars

\* The user runs the program again and again; the database and the generators
\* answer sooner or later.
FairSpec ==
  /\ Spec
  /\ WF_vars(Start) /\ WF_vars(ValidateStep)
  /\ \A f \in NAMES : WF_vars(GeneratorStep(f))

-----------------------------------------------------------------------------
Meets(n) == table[n] >= min_rows[n]

\* A table that has its rows is never dropped nor emptied, whatever fails and
\* wherever the program is killed and run again.
GoodTableKept == [][\A n \in NAMES : Meets(n) => Meets(n)']_vars

\* When the test starts, the only tables with too few rows are those that were
\* loaded from a file that was not complete at that time.
OnlyShortFilesHurt ==
  pc = "done" => \A n \in NAMES : Meets(n) \/ loaded[n] < FileRows

\* Whatever was interrupted before, once the data files are absent or complete
\* and stay so, running the program again makes every table ready: one that was
\* created and not loaded, or loaded in part, is found and done again.
RecoversWithFiles ==
  <>[](\A n \in NAMES : file[n] \in {ABSENT, FileRows}) => <>[](\A n \in NAMES : Meets(n))

\* MANUAL: "Table section defines the pre-requisite table than needs to exist
\* before the test starts, and how to create it and populate it if it does not
\* exist or does not have the minimum number of rows."
TestHasItsRows == pc = "done" => \A n \in NAMES : Meets(n)
=============================================================================
