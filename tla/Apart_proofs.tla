--------------------------- MODULE Apart_proofs ---------------------------
(***************************************************************************)
(* The theorems of two components that stand apart from the clients of a   *)
(* run.                                                                    *)
(*                                                                         *)
(* TableCheck: no table that has its rows is lost, and only a short data   *)
(* file leaves one without them, for any number of tables, rows and        *)
(* faults. TcpClient: no alarm outlives its connect(), and the status is   *)
(* true, for any number of clients.                                        *)
(***************************************************************************)
EXTENDS TableCheck, TcpClient, TLAPS

Types ==
  /\ section \in 1..Len(Tables)
  /\ table \in [NAMES -> Int] /\ file \in [NAMES -> Nat \cup {ABSENT}]
  /\ generator \in [NAMES -> {"idle", "running", "failed"}]

\* What the program relies on at each place, whatever happened before: it
\* drops a table that was counted short, and fills one that it has created.
WhereItIs ==
  /\ pc = "drop" => table[t] < min_rows[t]
  /\ pc \in {"stat", "system", "load"} => table[t] = 0
  /\ pc \in {"system", "load"} => file[t] >= 0
  /\ \A f \in NAMES : generator[f] = "running" => file[f] >= 0

Inv == Types /\ WhereItIs

\* The section the program is at is that of a table.
LEMMA AtTable == ASSUME Types PROVE t \in NAMES
  BY TableCheckAssumption DEF Types, t, NAMES

\* Whoever starts finds tables and files, and no generator.
LEMMA InitInv == Init => Inv
  BY TableCheckAssumption DEF Init, Inv, Types, WhereItIs, ABSENT

\* A step of validate_table() keeps Inv.
LEMMA ValidateKeeps == ASSUME Inv, ValidateStep PROVE Inv'
<1> USE TableCheckAssumption DEF Inv
<1>t. t \in NAMES  BY AtTable
<1>1. CASE Connect
  BY <1>1 DEF Connect, Types, WhereItIs, t, db_vars, file_vars
<1>2. CASE GetTableInfo
  <2>1. /\ section' = section /\ table' = table /\ file' = file /\ generator' = generator
        /\ pc' = IF table[t] = ABSENT THEN "create"
                 ELSE IF table[t] < min_rows[t] THEN "drop" ELSE "disconnect"
    BY <1>2 DEF GetTableInfo, db_vars, file_vars
  <2>2. t' = t  BY <2>1 DEF t
  <2>3. QED  BY <2>1, <2>2 DEF Types, WhereItIs
<1>3. CASE GetTableInfoFails
  BY <1>3 DEF GetTableInfoFails, Types, WhereItIs, t, db_vars, file_vars
<1>4. CASE DropTable
  BY <1>4, <1>t DEF DropTable, Types, WhereItIs, t, file_vars, ABSENT
<1>5. CASE CreateTable
  <2>1. /\ section' = section /\ file' = file /\ generator' = generator
        /\ pc' = "stat" /\ table' = [table EXCEPT ![t] = 0]
    BY <1>5 DEF CreateTable, file_vars
  <2>2. t' = t  BY <2>1 DEF t
  <2>3. QED  BY <2>1, <2>2, <1>t DEF Types, WhereItIs
<1>6. CASE CreateExists \/ SystemFails
  BY <1>6 DEF CreateExists, SystemFails, Ends, Types, WhereItIs, t, db_vars, file_vars
<1>7. CASE StatFinds \/ Populate \/ SystemReturns
  <2>1. section' = section /\ table' = table /\ pc \in {"stat", "system"}
    BY <1>7 DEF StatFinds, Populate, SystemReturns, db_vars
  <2>2. t' = t /\ table[t] = 0  BY <2>1 DEF t, WhereItIs
  <2>3. CASE StatFinds
    <3>1. file' = file /\ generator' = generator /\ pc' = "load" /\ file[t] # ABSENT
      BY <2>3 DEF StatFinds, file_vars
    <3>2. file[t] >= 0  BY <3>1, <1>t DEF Types
    <3>3. QED  BY <2>1, <2>2, <3>1, <3>2 DEF Types, WhereItIs
  <2>4. CASE Populate
    BY <2>1, <2>2, <2>4, <1>t DEF Populate, Types, WhereItIs
  <2>5. CASE SystemReturns
    BY <2>1, <2>2, <2>5, <1>t DEF SystemReturns, Types, WhereItIs, file_vars
  <2>6. QED  BY <1>7, <2>3, <2>4, <2>5
<1>8. CASE LoadTableData
  <2>1. /\ pc' = "disconnect" /\ section' = section /\ file' = file
        /\ generator' = generator /\ table' = [table EXCEPT ![t] = file[t]]
    BY <1>8 DEF LoadTableData, file_vars
  <2>2. table' \in [NAMES -> Int]  BY <2>1, <1>t DEF Types, ABSENT
  <2>3. QED  BY <2>1, <2>2 DEF Types, WhereItIs
<1>9. CASE LoadFails
  BY <1>9, <1>t DEF LoadFails, Ends, Types, WhereItIs, t, file_vars
<1>10. CASE Disconnect
  BY <1>10 DEF Disconnect, Types, WhereItIs, db_vars, file_vars
<1>11. QED
  BY <1>1, <1>2, <1>3, <1>4, <1>5, <1>6, <1>7, <1>8, <1>9, <1>10 DEF ValidateStep

\* So do the rest of the steps: a start, a crash, and the generators.
LEMMA NextInv == ASSUME Inv, [Next]_vars PROVE Inv'
<1> USE TableCheckAssumption DEF Inv
<1>1. CASE ValidateStep
  BY <1>1, ValidateKeeps
<1>2. CASE Start
  BY <1>2 DEF Start, Types, WhereItIs, db_vars, file_vars
<1>3. CASE Crash
  BY <1>3 DEF Crash, Ends, Types, WhereItIs, db_vars, file_vars
<1>4. ASSUME NEW f \in NAMES, GeneratorStep(f) PROVE Inv'
  <2>1. UNCHANGED <<pc, section, table>>
    BY <1>4 DEF GeneratorStep, GenerateRow, GeneratorEnds, GeneratorFails, DiskFull, db_vars
  <2>2. t' = t /\ t \in NAMES  BY <2>1, AtTable DEF t
  <2>3. CASE GenerateRow(f)
    <3>1. /\ generator[f] = "running" /\ generator' = generator
          /\ file' = [file EXCEPT ![f] = @ + 1]
      BY <2>3 DEF GenerateRow
    <3>2. file[f] \in Nat  BY <3>1 DEF Types, WhereItIs, ABSENT
    <3>3. \A n \in NAMES : file'[n] \in Nat \cup {ABSENT} /\ (file[n] >= 0 => file'[n] >= 0)
      <4> TAKE n \in NAMES
      <4>1. CASE n = f
        <5>1. file'[n] = file[n] + 1
          BY <3>1, <4>1 DEF Types
        <5>2. file'[n] \in Nat /\ file'[n] >= 0
          BY <3>2, <4>1, <5>1
        <5>3. QED  BY <5>2
      <4>2. CASE n # f
        <5>1. file'[n] = file[n]
          BY <3>1, <4>2 DEF Types
        <5>2. QED  BY <5>1 DEF Types
      <4>3. QED  BY <4>1, <4>2
    <3>4. file' \in [NAMES -> Nat \cup {ABSENT}]
      BY <3>1, <3>3 DEF Types
    <3>5. Types'
      BY <2>1, <3>1, <3>4 DEF Types
    <3>6. \A n \in NAMES : generator'[n] = generator[n]
      BY <3>1
    <3>7. WhereItIs'
      BY <2>1, <2>2, <3>1, <3>3, <3>6 DEF WhereItIs
    <3>8. QED  BY <3>5, <3>7
  <2>4. CASE GeneratorEnds(f) \/ GeneratorFails(f) \/ DiskFull(f)
    <3>1. /\ file' = file
          /\ \E how \in {"idle", "failed"} : generator' = [generator EXCEPT ![f] = how]
      BY <2>4 DEF GeneratorEnds, GeneratorFails, DiskFull
    <3>2. generator' \in [NAMES -> {"idle", "running", "failed"}]
      BY <3>1 DEF Types
    <3>3. \A g \in NAMES : generator'[g] = "running" => generator[g] = "running"
      BY <3>1 DEF Types
    <3>4. QED  BY <2>1, <2>2, <3>1, <3>2, <3>3 DEF Types, WhereItIs
  <2>5. QED  BY <1>4, <2>3, <2>4 DEF GeneratorStep
<1>5. CASE UNCHANGED vars
  BY <1>5 DEF vars, db_vars, file_vars, Types, WhereItIs, t
<1>6. QED  BY <1>1, <1>2, <1>3, <1>4, <1>5 DEF Next

\* What each step that touches a table does to one that has its rows: nothing.
LEMMA StepKeepsGood ==
  ASSUME Inv, Next, NEW n \in NAMES, Meets(n)
  PROVE  Meets(n)'
<1> USE TableCheckAssumption DEF Inv, Meets
<1>t. t \in NAMES  BY AtTable
<1>1. CASE DropTable
  BY <1>1, <1>t DEF DropTable, Types, WhereItIs
<1>2. CASE CreateTable
  <2>1. table' = [table EXCEPT ![t] = 0] /\ table[t] = ABSENT  BY <1>2 DEF CreateTable
  <2>2. n # t  BY <2>1, <1>t DEF ABSENT
  <2>3. QED  BY <2>1, <2>2 DEF Types
<1>3. CASE LoadTableData \/ LoadFails
  <2>1. PICK m \in Nat : table' = [table EXCEPT ![t] = m]
    <3>1. file[t] \in Nat  BY <1>3, <1>t DEF LoadTableData, LoadFails, Types, WhereItIs, ABSENT
    <3>2. CASE LoadTableData  BY <3>1, <3>2 DEF LoadTableData
    <3>3. CASE LoadFails
      <4>1. PICK m \in 0..file[t] : table' = [table EXCEPT ![t] = m]  BY <3>3 DEF LoadFails
      <4>2. m \in Nat  BY <3>1, <4>1
      <4>3. QED  BY <4>1, <4>2
    <3>4. QED  BY <1>3, <3>2, <3>3
  <2>2. table[t] = 0  BY <1>3 DEF LoadTableData, LoadFails, WhereItIs
  <2>3. QED  BY <2>1, <2>2, <1>t DEF Types
<1>4. CASE table' = table
  BY <1>4
<1>5. QED
  BY <1>1, <1>2, <1>3, <1>4
  DEF Next, ValidateStep, Start, Crash, GeneratorStep, Connect, GetTableInfo,
      GetTableInfoFails, CreateExists, StatFinds, Populate, SystemReturns, SystemFails, Disconnect,
      GenerateRow, GeneratorEnds, GeneratorFails, DiskFull, db_vars

\* A table that has its rows keeps them, whatever fails and wherever the
\* program is killed and run again.
THEOREM GoodTablesStay == Spec => GoodTableKept
<1>1. (Init => Inv) /\ (Inv /\ [Next]_vars => Inv')
  BY InitInv, NextInv
<1>2. Inv /\ [Next]_vars => [\A n \in NAMES : Meets(n) => Meets(n)']_vars
  BY StepKeepsGood
<1>3. QED  BY <1>1, <1>2, PTL DEF Spec, GoodTableKept

-----------------------------------------------------------------------------
(***************************************************************************)
(* What is known of the sections that have been checked.                   *)
(***************************************************************************)
Settled(n) == Meets(n) \/ loaded[n] < FileRows

\* A run that goes on has settled the tables of the sections before.
SettledSoFar ==
  /\ loaded \in [NAMES -> Int]
  /\ pc # "down" => \A k \in 1..(section - 1) : Settled(Tables[k])
  /\ pc = "disconnect" => Settled(t)
  /\ pc = "done" => \A n \in NAMES : Settled(n)

\* Nothing unsettles a table but a load that fails, which ends the run.
LEMMA StaysSettled ==
  ASSUME Inv, SettledSoFar, Next, ~LoadFails, NEW n \in NAMES, Settled(n)
  PROVE  Settled(n)'
<1> USE TableCheckAssumption DEF Inv
<1>t. t \in NAMES  BY AtTable
<1>1. CASE Meets(n)
  BY <1>1, StepKeepsGood DEF Settled
<1>2. CASE ~Meets(n) /\ LoadTableData
  <2>1. /\ table' = [table EXCEPT ![t] = file[t]] /\ loaded' = [loaded EXCEPT ![t] = file[t]]
        /\ file[t] \in Nat
    BY <1>2, <1>t DEF LoadTableData, Types, WhereItIs, ABSENT
  <2>2. CASE n = t
    <3>1. table'[n] = file[t] /\ loaded'[n] = file[t]
      BY <1>t, <2>1, <2>2 DEF Types, SettledSoFar
    <3>2. min_rows[n] \in 0..FileRows  OBVIOUS
    <3>3. QED  BY <2>1, <3>1, <3>2 DEF Settled, Meets
  <2>3. CASE n # t
    <3>1. table'[n] = table[n] /\ loaded'[n] = loaded[n]
      BY <1>t, <2>1, <2>3 DEF Types, SettledSoFar
    <3>2. QED  BY <3>1 DEF Settled, Meets
  <2>4. QED  BY <2>2, <2>3
<1>3. CASE ~Meets(n) /\ ~LoadTableData
  <2>1. loaded' = loaded
    BY <1>3
    DEF Next, ValidateStep, Start, Crash, GeneratorStep, Connect, GetTableInfo,
        GetTableInfoFails, DropTable, CreateTable, CreateExists, StatFinds, Populate,
        SystemReturns, SystemFails, Disconnect, GenerateRow, GeneratorEnds, GeneratorFails,
        DiskFull, db_vars
  <2>2. QED  BY <1>3, <2>1 DEF Settled
<1>4. QED  BY <1>1, <1>2, <1>3

\* A table that was just loaded, from whatever file, is settled.
LEMMA LoadSettles == ASSUME Inv, SettledSoFar, LoadTableData PROVE Settled(t)'
<1> USE TableCheckAssumption DEF Inv
<1>1. t \in NAMES  BY AtTable
<1>2. /\ table' = [table EXCEPT ![t] = file[t]] /\ loaded' = [loaded EXCEPT ![t] = file[t]]
      /\ section' = section /\ file[t] \in Nat
  BY <1>1 DEF LoadTableData, Types, WhereItIs, ABSENT
<1>3. t' = t  BY <1>2 DEF t
<1>4. table'[t] = file[t] /\ loaded'[t] = file[t]  BY <1>1, <1>2 DEF Types, SettledSoFar
<1>5. min_rows[t] \in 0..FileRows  BY <1>1
<1>6. QED  BY <1>2, <1>3, <1>4, <1>5 DEF Settled, Meets

\* A step that stays in its section, or ends the run.
LEMMA SameSection ==
  ASSUME Inv, SettledSoFar, Next, ~LoadFails, section' = section,
         pc # "down", pc' \notin {"disconnect", "done"}
  PROVE  \A k \in 1..(section' - 1) : Settled(Tables[k])'
<1> SUFFICES ASSUME NEW k \in 1..(section - 1) PROVE Settled(Tables[k])'
  OBVIOUS
<1>1. Tables[k] \in NAMES  BY TableCheckAssumption DEF Inv, Types, NAMES
<1>2. QED  BY <1>1, StaysSettled DEF SettledSoFar

\* At first no run has begun.
LEMMA InitSettled == Init => SettledSoFar
  BY TableCheckAssumption DEF Init, SettledSoFar, ABSENT

\* Each step keeps what is settled, and a section is left settled.
LEMMA NextSettled == ASSUME Inv, SettledSoFar, [Next]_vars PROVE SettledSoFar'
<1> USE TableCheckAssumption DEF Inv
<1>t. t \in NAMES  BY AtTable
<1>0. loaded' \in [NAMES -> Int]
  <2>1. CASE LoadTableData \/ LoadFails
    <3>1. file[t] \in Int /\ loaded' = [loaded EXCEPT ![t] = file[t]]
      BY <1>t, <2>1 DEF LoadTableData, LoadFails, Types, ABSENT
    <3>2. QED  BY <1>t, <3>1 DEF SettledSoFar
  <2>2. CASE ~LoadTableData /\ ~LoadFails
    BY <2>2
    DEF SettledSoFar, Next, ValidateStep, Start, Crash, GeneratorStep, Connect, GetTableInfo,
        GetTableInfoFails, DropTable, CreateTable, CreateExists, StatFinds, Populate,
        SystemReturns, SystemFails, Disconnect, GenerateRow, GeneratorEnds, GeneratorFails,
        DiskFull, db_vars, vars
  <2>3. QED  BY <2>1, <2>2
<1>1. CASE UNCHANGED vars
  BY <1>1 DEF vars, db_vars, SettledSoFar, Settled, Meets, t
<1>2. CASE Start
  <2>1. pc' = "connect" /\ section' = 1  BY <1>2 DEF Start
  <2>2. QED  BY <1>0, <2>1 DEF SettledSoFar
<1>3. CASE Crash \/ LoadFails \/ CreateExists \/ SystemFails
  <2>1. pc' = "down"  BY <1>3 DEF Crash, LoadFails, CreateExists, SystemFails, Ends
  <2>2. QED  BY <1>0, <2>1 DEF SettledSoFar
<1>4. CASE \/ Connect \/ GetTableInfoFails \/ DropTable \/ CreateTable \/ StatFinds
           \/ Populate \/ SystemReturns
  <2>1. section' = section /\ pc # "down" /\ pc' \notin {"disconnect", "done"} /\ ~LoadFails
    BY <1>4 DEF Connect, GetTableInfoFails, DropTable, CreateTable, StatFinds, Populate,
       SystemReturns, LoadFails, Ends
  <2>2. Next  BY <1>4 DEF Next, ValidateStep
  <2>3. QED  BY <1>0, <2>1, <2>2, SameSection DEF SettledSoFar
<1>5. CASE GetTableInfo \/ LoadTableData
  <2>1. section' = section /\ pc # "down" /\ ~LoadFails /\ pc' # "done" /\ Next
    BY <1>5 DEF GetTableInfo, LoadTableData, LoadFails, Ends, Next, ValidateStep
  <2>2. \A k \in 1..(section - 1) : Settled(Tables[k])'
    <3> SUFFICES ASSUME NEW k \in 1..(section - 1) PROVE Settled(Tables[k])'
      OBVIOUS
    <3>1. Tables[k] \in NAMES  BY DEF Types, NAMES
    <3>2. QED  BY <2>1, <3>1, StaysSettled DEF SettledSoFar
  <2>3. pc' = "disconnect" => Settled(t)'
    <3>1. CASE LoadTableData  BY <3>1, LoadSettles
    <3>2. CASE GetTableInfo /\ pc' = "disconnect"
      <4>1. table' = table /\ section' = section /\ ~(table[t] < min_rows[t])
        BY <3>2 DEF GetTableInfo, db_vars
      <4>2. t' = t /\ Meets(t)  BY <1>t, <4>1 DEF t, Meets, Types
      <4>3. QED  BY <4>1, <4>2 DEF Settled, Meets
    <3>3. QED  BY <1>5, <3>1, <3>2
  <2>4. QED  BY <1>0, <2>1, <2>2, <2>3 DEF SettledSoFar
<1>6. CASE Disconnect
  <2>1. table' = table /\ loaded' = loaded /\ pc = "disconnect"
    BY <1>6 DEF Disconnect, db_vars
  <2>2. \A k \in 1..section : Settled(Tables[k])
    BY <2>1 DEF SettledSoFar, t, Types
  <2>3. CASE section < Len(Tables)
    <3>1. pc' = "connect" /\ section' = section + 1  BY <1>6, <2>3 DEF Disconnect
    <3>2. QED  BY <1>0, <2>1, <2>2, <3>1 DEF SettledSoFar, Settled, Meets, Types
  <2>4. CASE ~(section < Len(Tables))
    <3>1. pc' = "done" /\ section' = section /\ section = Len(Tables)
      BY <1>6, <2>4 DEF Disconnect, Types
    <3>2. \A n \in NAMES : Settled(n)  BY <2>2, <3>1 DEF NAMES
    <3>3. QED  BY <1>0, <2>1, <2>2, <3>1, <3>2 DEF SettledSoFar, Settled, Meets, Types
  <2>5. QED  BY <2>3, <2>4
<1>7. ASSUME NEW f \in NAMES, GeneratorStep(f) PROVE SettledSoFar'
  <2>1. UNCHANGED <<pc, section, table, loaded>>
    BY <1>7 DEF GeneratorStep, GenerateRow, GeneratorEnds, GeneratorFails, DiskFull, db_vars
  <2>2. QED  BY <2>1 DEF SettledSoFar, Settled, Meets, t
<1>8. QED  BY <1>1, <1>2, <1>3, <1>4, <1>5, <1>6, <1>7 DEF Next, ValidateStep

\* When the test starts, a table without its rows was loaded from a data file
\* that was not complete, whatever was killed and had failed before.
THEOREM OnlyShortFilesTheorem == Spec => []OnlyShortFilesHurt
<1> DEFINE I == Inv /\ SettledSoFar
<1>1. Init => I  BY InitInv, InitSettled
<1>2. I /\ [Next]_vars => I'  BY NextInv, NextSettled
<1>3. I => OnlyShortFilesHurt  BY DEF SettledSoFar, Settled, OnlyShortFilesHurt
<1>4. QED  BY <1>1, <1>2, <1>3, PTL DEF Spec

-----------------------------------------------------------------------------
(***************************************************************************)
(* The safety properties of TcpClient, a part that no other part calls,    *)
(* for any number of clients.                                              *)
(***************************************************************************)
\* Past sigsetjmp(), the alarm has this call to jump into.
JumpIsOurs == tcp_pc \in {"connecting", "connected"} /\ armed => jmp_env = c

\* The checks begin with the first client.
FirstIsNext == tcp_pc = "check" => c = 1

\* The inductive invariant.
TcpInv == TypeOK /\ NoLateJump /\ JumpIsOurs /\ StatusIsTrue /\ FirstIsNext

\* No client has been connected yet.
LEMMA TcpInitInv == TcpInit => TcpInv
<1> SUFFICES ASSUME TcpInit PROVE TcpInv
  OBVIOUS
<1>1. 1 \in Clients
  BY TcpAssumption DEF Clients
<1>2. TypeOK
  BY <1>1 DEF TcpInit, TypeOK, Places
<1>3. NoLateJump /\ StatusIsTrue /\ FirstIsNext
  BY DEF TcpInit, NoLateJump, StatusIsTrue, Over, FirstIsNext
<1>4. JumpIsOurs
  BY DEF TcpInit, JumpIsOurs
<1> QED
  BY <1>2, <1>3, <1>4 DEF TcpInv

\* Every step keeps the values in their sets.
LEMMA TypeStep == TypeOK /\ [TcpNext]_tcp_vars => TypeOK'
<1> SUFFICES ASSUME TypeOK, [TcpNext]_tcp_vars PROVE TypeOK'
  OBVIOUS
<1> USE DEF TypeOK, given, Places, InConnect, Clients, alarm_vars,
            server_vars
<1>1. CASE MakeClient
  BY <1>1, TcpAssumption DEF MakeClient, error
<1>2. CASE CheckMade
  BY <1>2 DEF CheckMade
<1>3. CASE ConnectBegins
  <2>1. /\ tcp_pc' \in {"armed", "connecting"} /\ armed' \in BOOLEAN
        /\ UNCHANGED <<given, c, status, said, masked, jmp_env, jumped_at,
                      server_vars>>
    BY <1>3 DEF ConnectBegins
  <2> QED
    BY <2>1
<1>4. CASE SetJmp
  BY <1>4 DEF SetJmp
<1>5. CASE ConnectReturns
  BY <1>5 DEF ConnectReturns, error
<1>6. CASE AlarmRings
  BY <1>6 DEF AlarmRings, error, MaskAfterJump
<1>7. CASE ConnectEnds
  <2>1. c' \in Clients
    BY <1>7, TcpAssumption DEF ConnectEnds, Returns
  <2>2. tcp_pc' \in Places
    BY <1>7 DEF ConnectEnds, Returns
  <2> QED
    BY <1>7, <2>1, <2>2 DEF ConnectEnds
<1>8. CASE ReceiveSome
  BY <1>8 DEF ReceiveSome
<1>9. CASE ReceiveNothing \/ ReceiveFails
  BY <1>9 DEF ReceiveNothing, ReceiveFails
<1>10. CASE ServerSends
  BY <1>10 DEF ServerSends
<1>12. CASE ServerCloses
  BY <1>12 DEF ServerCloses
<1>11. CASE UNCHANGED tcp_vars
  BY <1>11 DEF tcp_vars
<1> QED
  BY <1>1, <1>2, <1>3, <1>4, <1>5, <1>6, <1>7, <1>8, <1>9, <1>10, <1>11, <1>12
  DEF TcpNext, Step

\* An alarm is armed by connect() only, and taken back or gone off when it
\* returns; until then jmp_env is this call's, once it is set.
LEMMA JumpStep ==
  TypeOK /\ NoLateJump /\ JumpIsOurs /\ [TcpNext]_tcp_vars
    => (NoLateJump /\ JumpIsOurs)'
<1> SUFFICES ASSUME TypeOK, NoLateJump, JumpIsOurs, [TcpNext]_tcp_vars
             PROVE  (NoLateJump /\ JumpIsOurs)'
  OBVIOUS
<1> USE DEF NoLateJump, JumpIsOurs, InConnect, alarm_vars
<1>1. CASE MakeClient \/ CheckMade \/ ReceiveSome \/ ReceiveNothing \/ ReceiveFails
  BY <1>1 DEF MakeClient, CheckMade, ReceiveSome, ReceiveNothing, ReceiveFails
<1>2. CASE ConnectBegins \/ SetJmp \/ ConnectReturns
  BY <1>2 DEF ConnectBegins, SetJmp, ConnectReturns
<1>3. CASE AlarmRings
  <2>1. CASE tcp_pc = "armed"
    BY <1>3, <2>1 DEF AlarmRings
  <2>2. CASE tcp_pc # "armed"
    <3>1. tcp_pc \in {"connecting", "connected"} /\ jmp_env = c
      BY <1>3, <2>2 DEF AlarmRings
    <3> QED
      BY <1>3, <3>1 DEF AlarmRings
  <2> QED
    BY <2>1, <2>2
<1>4. CASE ConnectEnds
  BY <1>4 DEF ConnectEnds, Returns
<1>5. CASE ServerSends \/ ServerCloses
  BY <1>5 DEF ServerSends, ServerCloses
<1>6. CASE UNCHANGED tcp_vars
  BY <1>6 DEF tcp_vars
<1> QED
  BY <1>1, <1>2, <1>3, <1>4, <1>5, <1>6 DEF TcpNext, Step

\* A client whose connect() is over was told by ::connect() that it is
\* connected, or is not fine.
LEMMA StatusStep ==
  TypeOK /\ StatusIsTrue /\ FirstIsNext /\ [TcpNext]_tcp_vars
    => StatusIsTrue'
<1> SUFFICES ASSUME TypeOK, StatusIsTrue, FirstIsNext,
                    [TcpNext]_tcp_vars
             PROVE  StatusIsTrue'
  OBVIOUS
<1> USE DEF StatusIsTrue, Over
<1>1. CASE MakeClient
  BY <1>1 DEF MakeClient
<1>7. CASE CheckMade
  <2>1. tcp_pc' # "connect" \/ \A i \in Clients : ~(i < c')
    BY <1>7 DEF CheckMade, FirstIsNext, Clients
  <2> QED
    BY <1>7, <2>1 DEF CheckMade
<1>8. CASE ConnectBegins \/ SetJmp
  BY <1>8 DEF ConnectBegins, SetJmp
<1>2. CASE ConnectReturns
  <2> SUFFICES ASSUME NEW i \in Clients, i <= c, status'[i] = 1
               PROVE  said'[i] = "ok"
    BY <1>2 DEF ConnectReturns
  <2>1. CASE i = c
    BY <1>2, <2>1 DEF ConnectReturns, error, TypeOK
  <2>2. CASE i # c
    <3>1. i < c
      BY <2>2 DEF TypeOK, Clients
    <3>2. status'[i] = status[i] /\ said'[i] = said[i] /\ tcp_pc = "connecting"
      BY <1>2, <2>2 DEF ConnectReturns, error, TypeOK
    <3> QED
      BY <3>1, <3>2
  <2> QED
    BY <2>1, <2>2
<1>3. CASE AlarmRings
  <2> SUFFICES ASSUME NEW i \in Clients, i <= c, status'[i] = 1, tcp_pc' = "connected"
               PROVE  said'[i] = "ok"
    BY <1>3 DEF AlarmRings
  <2>1. status'[c] = 0
    BY <1>3 DEF AlarmRings, error, TypeOK
  <2>2. i # c
    BY <2>1
  <2>3. i < c
    BY <2>2 DEF TypeOK, Clients
  <2>4. tcp_pc \in {"connecting", "connected"} /\ status' = error(status, c) /\ said' = said
    BY <1>3 DEF AlarmRings
  <2>5. status[i] = 1
    BY <2>2, <2>4 DEF error, TypeOK
  <2>6. Over(i)
    BY <2>3, <2>4
  <2> QED
    BY <2>4, <2>5, <2>6
<1>4. CASE ConnectEnds
  <2>1. CASE c < Last
    BY <1>4, <2>1, TcpAssumption
    DEF ConnectEnds, Returns, TypeOK, Clients
  <2>2. CASE ~(c < Last)
    <3>1. \A i \in Clients : i <= c
      BY <2>2, TcpAssumption DEF TypeOK, Clients
    <3>2. tcp_pc = "connected" /\ tcp_pc' \in {"receive", "exit"} /\ UNCHANGED <<status, said>>
      BY <1>4, <2>2 DEF ConnectEnds, Returns
    <3> QED
      BY <3>1, <3>2
  <2> QED
    BY <2>1, <2>2
<1>5. CASE ReceiveSome \/ ReceiveNothing \/ ReceiveFails \/ ServerSends \/ ServerCloses
  BY <1>5 DEF ReceiveSome, ReceiveNothing, ReceiveFails, ServerSends, ServerCloses
<1>6. CASE UNCHANGED tcp_vars
  BY <1>6 DEF tcp_vars
<1> QED
  BY <1>1, <1>2, <1>3, <1>4, <1>5, <1>6, <1>7, <1>8 DEF TcpNext, Step

\* Whatever is done before the checks, they begin with the first client.
LEMMA FirstStep == TypeOK /\ FirstIsNext /\ [TcpNext]_tcp_vars => FirstIsNext'
<1> SUFFICES ASSUME TypeOK, FirstIsNext, [TcpNext]_tcp_vars, tcp_pc' = "check" PROVE c' = 1
  BY DEF FirstIsNext
<1> USE DEF FirstIsNext
<1>1. CASE MakeClient
  BY <1>1 DEF MakeClient
<1>2. CASE CheckMade \/ ConnectBegins \/ SetJmp \/ ConnectReturns
  BY <1>2 DEF CheckMade, ConnectBegins, SetJmp, ConnectReturns
<1>3. CASE AlarmRings \/ ConnectEnds
  BY <1>3 DEF AlarmRings, ConnectEnds, Returns
<1>4. CASE ReceiveSome \/ ReceiveNothing \/ ReceiveFails \/ ServerSends \/ ServerCloses
  BY <1>4 DEF ReceiveSome, ReceiveNothing, ReceiveFails, ServerSends, ServerCloses
<1>5. CASE UNCHANGED tcp_vars
  BY <1>5 DEF tcp_vars
<1> QED
  BY <1>1, <1>2, <1>3, <1>4, <1>5 DEF TcpNext, Step

\* The invariant, from the steps above.
LEMMA TcpInvHolds == TcpSpec => []TcpInv
<1>1. TcpInv /\ [TcpNext]_tcp_vars => TcpInv'
  BY TypeStep, JumpStep, StatusStep, FirstStep DEF TcpInv
<1> QED
  BY TcpInitInv, <1>1, PTL DEF TcpSpec

\* connect() (tcp_client.cc) takes its alarm back on every way out, so that no
\* later call is interrupted by it, however many clients there are.
THEOREM AlarmsEnd == TcpSpec => []NoLateJump
<1>1. TcpInv => NoLateJump
  BY DEF TcpInv
<1> QED
  BY TcpInvHolds, <1>1, PTL

\* status (tcp_client.h) tells the truth after connect().
THEOREM StatusTheorem == TcpSpec => []StatusIsTrue
<1>1. TcpInv => StatusIsTrue
  BY DEF TcpInv
<1> QED
  BY TcpInvHolds, <1>1, PTL
=============================================================================
