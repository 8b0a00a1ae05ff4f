--------------------------- MODULE PipeSem_proofs ---------------------------
(***************************************************************************)
(* The tokens of the shared semaphore, for any number of clients with any  *)
(* number of smackers, and whatever an earlier run left behind.            *)
(***************************************************************************)
EXTENDS PipeSem, FiniteSetTheorems, TLAPS

\* Everybody is in one of the places there are.
PcOK ==
  /\ pc \in [Procs -> ReporterLabels \cup SmackerLabels]
  /\ \A r \in Reporters : pc[r] \in ReporterLabels
  /\ \A s \in Smackers : pc[s] \in SmackerLabels

\* A reporter that has not set the semaphore has no kill_sem_id; one that has
\* keeps the id it set; and a reporter of Mysql_client that is gone before its
\* time went by die(), which leaves no semaphore of that id.
KillIdOK ==
  \A r \in Reporters :
    /\ pc[r] \in {"init", "create", "setval", "setup_failed"} => kill_id[r] = NONE
    /\ pc[r] \in {"run", "barrel", "wait", "done", "dead"} => kill_id[r] = sem_id[r]
    /\ engine = "mysql" /\ pc[r] = "dead" => sem = NONE \/ kill_id[r] # sem

\* A smacker's reporter has set its semaphore, is not done before the smacker
\* has ended, and is gone before its time if the smacker met SIGPIPE.
ParentOK ==
  \A s \in Smackers :
    /\ pc[s] # "unborn" => pc[ReporterOf[s]] \in {"barrel", "wait", "done", "dead"}
    /\ pc[ReporterOf[s]] = "done" => pc[s] \in Ended
    /\ pc[s] = "killed" => pc[ReporterOf[s]] = "dead"

Shape == TypeOK /\ PcOK /\ KillIdOK /\ ParentOK

\* The smackers that have taken a token and not given it back.
Takers == Holders \cup Stranded

\* What TokenNotLost rests on: no token disappears, it is at most kept.
NoneVanishes == Users # {} => val + Cardinality(Takers) >= 1

\* The inductive invariant.
SemInv == Shape /\ NoneVanishes /\ TokensBounded

\* Everybody who holds a token of the semaphore is a child of a user of it.
LEMMA HoldersHaveUsers ==
  ASSUME Shape, NEW s \in Holders, sem # NONE
  PROVE  ReporterOf[s] \in Users
<1>1. s \in Smackers /\ pc[s] \in {"write_time", "write_report", "unlock"}
      /\ sem_id[ReporterOf[s]] = sem
  BY DEF Holders, Sending, MyId
<1>2. ReporterOf[s] \in Reporters
  BY <1>1, PipeSemAssumption DEF PipeSemAssumption
<1>3. pc[ReporterOf[s]] \in {"barrel", "wait", "done", "dead"}
  BY <1>1 DEF Shape, ParentOK
<1>4. kill_id[ReporterOf[s]] = sem
  BY <1>1, <1>2, <1>3 DEF Shape, KillIdOK
<1> QED
  BY <1>2, <1>4 DEF Users

LEMMA FiniteSets ==
  /\ IsFiniteSet(Holders) /\ Cardinality(Holders) \in Nat
  /\ IsFiniteSet(Takers) /\ Cardinality(Takers) \in Nat
  /\ IsFiniteSet(Users) /\ Cardinality(Users) \in Nat
<1>1. /\ Holders \subseteq Smackers /\ Takers \subseteq Smackers
      /\ Users \subseteq Reporters
  BY DEF Holders, Stranded, Takers, Sending, Users
<1> QED
  BY <1>1, FS_Subset, FS_CardinalityType, PipeSemAssumption DEF PipeSemAssumption

\* Who has taken a token of the semaphore that exists now.
LEMMA WhoTakes ==
  ASSUME Shape
  PROVE  Takers = {s \in Smackers : /\ pc[s] \in {"write_time", "write_report", "unlock", "killed"}
                                    /\ MyId(s) = sem}
BY DEF Takers, Holders, Stranded, Sending

\* A step that changes neither the semaphore nor who uses it and has taken of
\* it, though it may end one that holds it.
LEMMA NothingMoves ==
  ASSUME NoneVanishes, TokensBounded, val \in Nat, val' = val,
         Holders' \subseteq Holders, Takers' = Takers, Users' = Users
  PROVE  NoneVanishes' /\ TokensBounded'
<1>1. Cardinality(Holders') \in Nat /\ Cardinality(Holders') <= Cardinality(Holders)
  BY FiniteSets, FS_Subset, FS_CardinalityType
<1> QED
  BY <1>1, FiniteSets DEF NoneVanishes, TokensBounded

\* Without a user there is nothing to say.
LEMMA NoUsers ==
  ASSUME Users' = {}
  PROVE  NoneVanishes' /\ TokensBounded'
BY DEF NoneVanishes, TokensBounded

\* No reporter has set a semaphore yet.
LEMMA InitInv == Init => SemInv
<1> SUFFICES ASSUME Init PROVE SemInv
  OBVIOUS
<1>1. TypeOK
  <2>1. sem_id \in [Reporters -> 0..ids] /\ kill_id \in [Reporters -> 0..ids]
    BY DEF Init, NONE
  <2>2. ids \in Nat /\ sem \in 0..ids /\ val \in Nat
    <3>1. CASE sem = NONE /\ val = 0 /\ ids = 0
      BY <3>1 DEF NONE
    <3>2. CASE sem = 1 /\ val \in Leftovers /\ ids = 1
      BY <3>2, PipeSemAssumption DEF PipeSemAssumption
    <3> QED
      BY <3>1, <3>2 DEF Init
  <2>3. engine \in {"mysql", "pg"}
    BY DEF Init
  <2> QED
    BY <2>1, <2>2, <2>3 DEF TypeOK
<1>2. PcOK
  BY PipeSemAssumption
     DEF PipeSemAssumption, Init, PcOK, Procs, ReporterLabels, SmackerLabels
<1>3. KillIdOK
  BY DEF Init, KillIdOK, Procs
<1>4. ParentOK
  BY PipeSemAssumption DEF PipeSemAssumption, Init, ParentOK, Procs
<1>5. Users = {}
  BY DEF Init, Users
<1>6. NoneVanishes /\ TokensBounded
  BY <1>5 DEF NoneVanishes, TokensBounded
<1> QED
  BY <1>1, <1>2, <1>3, <1>4, <1>6 DEF SemInv, Shape

-----------------------------------------------------------------------------
\* The steps of the reporters keep the shape.
LEMMA ReporterShape ==
  ASSUME Shape, NEW r \in Reporters, ReporterStep(r)
  PROVE  Shape'
<1> USE DEF Shape, TypeOK, PcOK, Goto, sem_vars, id_vars
<1>0. /\ r \in Procs /\ r \notin Smackers /\ NONE = 0
      /\ \A s \in Smackers : s \in Procs /\ s # r /\ s \notin Reporters
                             /\ ReporterOf[s] \in Reporters
      /\ \A q \in Reporters : q \in Procs
  BY PipeSemAssumption DEF PipeSemAssumption, Procs, NONE
<1>e. engine' = engine
  BY DEF ReporterStep
<1>1. CASE SemgetFinds(r) \/ SemgetFindsNone(r) \/ SemgetExclFails(r)
  <2>1. /\ UNCHANGED <<sem, val, ids, kill_id>> /\ pc[r] \in {"init", "create"}
        /\ \E l \in {"setval", "create", "setup_failed"} : pc' = [pc EXCEPT ![r] = l]
        /\ sem_id' = sem_id \/ sem_id' = [sem_id EXCEPT ![r] = sem]
    BY <1>1 DEF SemgetFinds, SemgetFindsNone, SemgetExclFails
  <2>2. TypeOK'
    BY <1>e, <2>1
  <2>3. PcOK'
    BY <1>0, <2>1 DEF ReporterLabels
  <2>4. KillIdOK'
    BY <1>e, <1>0, <2>1 DEF KillIdOK
  <2>5. ParentOK'
    BY <1>0, <2>1 DEF ParentOK
  <2> QED
    BY <2>2, <2>3, <2>4, <2>5
<1>2. CASE SemgetCreates(r)
  <2>1. /\ pc[r] = "create" /\ pc' = [pc EXCEPT ![r] = "setval"] /\ val' = 0
        /\ ids' = ids + 1 /\ sem' = ids + 1 /\ kill_id' = kill_id
        /\ sem_id' = [sem_id EXCEPT ![r] = ids + 1]
    BY <1>2 DEF SemgetCreates
  <2>2. TypeOK'
    <3>1. sem_id' \in [Reporters -> 0..(ids + 1)] /\ kill_id' \in [Reporters -> 0..(ids + 1)]
      BY <2>1
    <3> QED
      BY <1>e, <2>1, <3>1
  <2>3. PcOK'
    BY <1>0, <2>1 DEF ReporterLabels
  <2>4. KillIdOK'
    BY <1>e, <1>0, <2>1 DEF KillIdOK
  <2>5. ParentOK'
    BY <1>0, <2>1 DEF ParentOK
  <2> QED
    BY <2>2, <2>3, <2>4, <2>5
<1>3. CASE Setval(r)
  <2>1. /\ pc[r] = "setval" /\ pc' = [pc EXCEPT ![r] = "run"] /\ val' \in {1, val}
        /\ UNCHANGED <<sem, ids, sem_id>> /\ kill_id' = [kill_id EXCEPT ![r] = sem_id[r]]
    BY <1>3 DEF Setval
  <2>2. TypeOK'
    BY <1>e, <2>1
  <2>3. PcOK'
    BY <1>0, <2>1 DEF ReporterLabels
  <2>4. KillIdOK'
    BY <1>e, <1>0, <2>1 DEF KillIdOK
  <2>5. ParentOK'
    BY <1>0, <2>1 DEF ParentOK
  <2> QED
    BY <2>2, <2>3, <2>4, <2>5
<1>4. CASE CreateThreads(r)
  <2>1. /\ pc[r] = "run" /\ UNCHANGED <<sem, val, ids, sem_id, kill_id>>
        /\ pc' = [p \in Procs |-> IF p = r THEN "barrel"
                                  ELSE IF p \in ChildrenOf(r) THEN "barrel" ELSE pc[p]]
    BY <1>4 DEF CreateThreads
  <2>2. \A q \in Reporters : q # r => pc'[q] = pc[q]
    BY <1>0, <2>1 DEF ChildrenOf
  <2>3. pc'[r] = "barrel"
    BY <1>0, <2>1
  <2>4. \A s \in Smackers : pc'[s] = IF ReporterOf[s] = r THEN "barrel" ELSE pc[s]
    BY <1>0, <2>1 DEF ChildrenOf
  <2>5. PcOK'
    <3>1. pc' \in [Procs -> ReporterLabels \cup SmackerLabels]
      BY <2>1 DEF ReporterLabels
    <3> QED
      BY <3>1, <2>2, <2>3, <2>4 DEF ReporterLabels, SmackerLabels
  <2>6. KillIdOK'
    BY <1>e, <2>1, <2>2, <2>3 DEF KillIdOK
  <2>7. ParentOK'
    BY <1>0, <2>2, <2>3, <2>4 DEF ParentOK
  <2> QED
    BY <1>e, <2>1, <2>5, <2>6, <2>7
<1>5. CASE BarrelUnloaded(r) \/ CollectThreads(r)
  <2>1. /\ UNCHANGED <<sem, val, ids, sem_id, kill_id>>
        /\ \/ pc[r] = "barrel" /\ pc' = [pc EXCEPT ![r] = "wait"]
           \/ pc[r] = "wait" /\ pc' = [pc EXCEPT ![r] = "done"]
              /\ \A s \in ChildrenOf(r) : pc[s] \in Ended
    BY <1>5 DEF BarrelUnloaded, CollectThreads
  <2>2. PcOK'
    BY <1>0, <2>1 DEF ReporterLabels
  <2>3. KillIdOK'
    BY <1>e, <1>0, <2>1 DEF KillIdOK
  <2>4. ParentOK'
    BY <1>0, <2>1 DEF ParentOK, ChildrenOf
  <2> QED
    BY <1>e, <2>1, <2>2, <2>3, <2>4
<1>6. CASE ConnectFails(r) \/ QueryFails(r)
  <2>1. /\ pc[r] = "barrel" /\ pc' = [pc EXCEPT ![r] = "dead"]
        /\ UNCHANGED <<val, ids, sem_id, kill_id>>
        /\ \/ sem' = IF sem = kill_id[r] THEN NONE ELSE sem
           \/ engine # "mysql" /\ sem' = sem
    BY <1>6 DEF ConnectFails, QueryFails, Die, Owner
  <2>2. TypeOK'
    BY <1>0, <1>e, <2>1
  <2>3. PcOK'
    BY <1>0, <2>1 DEF ReporterLabels
  <2>4. KillIdOK'
    BY <1>0, <1>e, <2>1 DEF KillIdOK
  <2>5. ParentOK'
    BY <1>0, <2>1 DEF ParentOK
  <2> QED
    BY <2>2, <2>3, <2>4, <2>5
<1> QED
  BY <1>1, <1>2, <1>3, <1>4, <1>5, <1>6 DEF ReporterStep, SetupPipe

\* What a step of a smacker does to its own place and to the semaphore.
LEMMA SmackerFacts ==
  ASSUME Shape, NEW s \in Smackers, SmackerStep(s)
  PROVE  /\ UNCHANGED <<engine, ids, sem_id, kill_id>> /\ val' \in Int
         /\ pc'[s] = "killed" => pc[ReporterOf[s]] = "dead"
         /\ sem' = sem \/ (sem = kill_id[ReporterOf[s]] /\ sem' = NONE)
         /\ pc[s] \notin Ended \cup {"unborn"}
         /\ \E l \in SmackerLabels \ {"unborn"} : pc' = [pc EXCEPT ![s] = l]
         /\ val' = val \/ (LockPipeSem(s) /\ val' = val - 1) \/ (UnlockPipeSem(s) /\ val' = val + 1)
<1> USE DEF Shape, TypeOK, Goto, Ended, SmackerLabels, sem_vars, id_vars
<1>0. s \notin Reporters /\ s \in Procs /\ pc \in [Procs -> ReporterLabels \cup SmackerLabels]
  BY PipeSemAssumption DEF PipeSemAssumption, Procs, PcOK
<1>e. engine' = engine
  BY DEF SmackerStep
<1>1. CASE BarrelUnloaded(s)
  <2>1. pc[s] = "barrel" /\ pc' = [pc EXCEPT ![s] = "lock"]
        /\ UNCHANGED <<sem, val, ids, sem_id, kill_id>>
    BY <1>0, <1>1 DEF BarrelUnloaded
  <2>2. "lock" \in SmackerLabels \ {"unborn"} /\ pc[s] \notin Ended \cup {"unborn"}
    BY <2>1
  <2>3. val' \in Int /\ pc'[s] # "killed"
    BY <1>0, <2>1
  <2> QED
    BY <1>e, <2>1, <2>2, <2>3
<1>2. CASE ConnectFails(s) \/ QueryFails(s) \/ SemopFails(s)
  <2>1. /\ pc[s] \in {"barrel", "lock", "unlock"} /\ pc' = [pc EXCEPT ![s] = "dead"]
        /\ UNCHANGED <<val, ids, sem_id, kill_id>>
        /\ sem' = sem \/ (sem = kill_id[ReporterOf[s]] /\ sem' = NONE)
    BY <1>0, <1>2 DEF ConnectFails, QueryFails, SemopFails, Die, Owner
  <2>2. val' \in Int /\ pc'[s] # "killed"
    BY <1>0, <2>1
  <2> QED
    BY <1>e, <2>1, <2>2
<1>3. CASE LockPipeSem(s) \/ UnlockPipeSem(s)
  BY <1>0, <1>e, <1>3 DEF LockPipeSem, UnlockPipeSem
<1>4. CASE WriteConnectTime(s) \/ FdSend(s)
  BY <1>0, <1>e, <1>4 DEF WriteConnectTime, FdSend
<1>5. CASE SigPipe(s)
  <2>1. /\ pc[s] \in {"write_time", "write_report"} /\ pc' = [pc EXCEPT ![s] = "killed"]
        /\ pc[ReporterOf[s]] \in Ended /\ UNCHANGED <<sem, val, ids, sem_id, kill_id>>
    BY <1>5 DEF SigPipe, HasReader
  <2>2. pc[ReporterOf[s]] = "dead"
    BY <2>1 DEF ParentOK
  <2>3. "killed" \in SmackerLabels \ {"unborn"} /\ pc[s] \notin Ended \cup {"unborn"}
    BY <2>1
  <2>4. val' \in Int
    BY <2>1
  <2> QED
    BY <1>e, <2>1, <2>2, <2>3, <2>4
<1> QED
  BY <1>1, <1>2, <1>3, <1>4, <1>5 DEF SmackerStep

\* The steps of the smackers keep the shape.
LEMMA SmackerShape ==
  ASSUME Shape, NEW s \in Smackers, SmackerStep(s)
  PROVE  Shape'
<1> USE DEF Shape, TypeOK, PcOK
<1>0. /\ s \in Procs /\ NONE = 0 /\ ReporterOf[s] \in Reporters
      /\ \A r \in Reporters : r \in Procs /\ r # s
      /\ \A t \in Smackers : t \in Procs /\ ReporterOf[t] \in Reporters
  BY PipeSemAssumption DEF PipeSemAssumption, Procs, NONE
<1>1. PICK l \in SmackerLabels \ {"unborn"} : pc' = [pc EXCEPT ![s] = l]
  BY SmackerFacts
<1>2. /\ UNCHANGED <<engine, ids, sem_id, kill_id>> /\ sem' \in {sem, NONE}
      /\ pc[s] \notin Ended \cup {"unborn"}
      /\ pc'[s] = "killed" => pc[ReporterOf[s]] = "dead"
  BY SmackerFacts
<1>3. val' \in Nat
  <2>1. CASE LockPipeSem(s)
    BY <2>1 DEF LockPipeSem
  <2>2. CASE UnlockPipeSem(s)
    BY <2>2 DEF UnlockPipeSem
  <2> QED
    BY <2>1, <2>2, SmackerFacts
<1>4. TypeOK'
  BY <1>0, <1>2, <1>3
<1>5. PcOK'
  BY <1>0, <1>1
<1>6. \A r \in Reporters : pc'[r] = pc[r]
  BY <1>0, <1>1
<1>7. KillIdOK'
  BY <1>2, <1>6 DEF KillIdOK
<1>8. ParentOK'
  BY <1>0, <1>1, <1>2, <1>6 DEF ParentOK
<1> QED
  BY <1>4, <1>5, <1>7, <1>8

-----------------------------------------------------------------------------
\* The tokens, as the reporters go on: only a SETVAL changes them, and a new
\* semaphore or a removed one has no users.
LEMMA ReporterTokens ==
  ASSUME SemInv, NEW r \in Reporters, ReporterStep(r)
  PROVE  NoneVanishes' /\ TokensBounded'
<1> USE DEF SemInv, Shape, TypeOK, PcOK, Goto, sem_vars, id_vars
<1>0. /\ r \in Procs /\ r \notin Smackers /\ NONE = 0
      /\ \A s \in Smackers : s \in Procs /\ s # r /\ ReporterOf[s] \in Reporters
  BY PipeSemAssumption DEF PipeSemAssumption, Procs, NONE
<1>1. CASE SemgetFinds(r)
  <2>1. /\ pc[r] = "init" /\ pc' = [pc EXCEPT ![r] = "setval"]
        /\ UNCHANGED <<sem, val, ids, kill_id>> /\ sem_id' = [sem_id EXCEPT ![r] = sem]
    BY <1>1 DEF SemgetFinds
  <2>2. \A s \in Smackers : pc'[s] = pc[s] /\ (pc[s] # "unborn" => ReporterOf[s] # r)
    BY <1>0, <2>1 DEF ParentOK
  <2>3. Holders' = Holders /\ Takers' = Takers
    BY <1>0, <2>1, <2>2 DEF Takers, Stranded, Holders, Sending, MyId
  <2>4. Users' = Users
    BY <2>1 DEF Users
  <2> QED
    BY <2>1, <2>3, <2>4, NothingMoves
<1>2. CASE SemgetFindsNone(r) \/ SemgetExclFails(r) \/ BarrelUnloaded(r) \/ CollectThreads(r)
  <2>1. /\ UNCHANGED <<sem, val, ids, kill_id, sem_id>>
        /\ \E l \in ReporterLabels : pc' = [pc EXCEPT ![r] = l]
    <3>1. UNCHANGED <<sem, val, ids, kill_id, sem_id>>
      BY <1>2 DEF SemgetFindsNone, SemgetExclFails, BarrelUnloaded, CollectThreads
    <3>2. \E l \in {"create", "setup_failed", "wait", "done"} : pc' = [pc EXCEPT ![r] = l]
      BY <1>2 DEF SemgetFindsNone, SemgetExclFails, BarrelUnloaded, CollectThreads
    <3> QED
      BY <3>1, <3>2 DEF ReporterLabels
  <2>2. Holders' = Holders /\ Takers' = Takers
    BY <1>0, <2>1 DEF Takers, Stranded, Holders, Sending, MyId
  <2>3. Users' = Users
    BY <2>1 DEF Users
  <2> QED
    BY <2>1, <2>2, <2>3, NothingMoves
<1>3. CASE SemgetCreates(r)
  <2>1. sem' = ids + 1 /\ kill_id' = kill_id
    BY <1>3 DEF SemgetCreates
  <2>2. \A q \in Reporters : kill_id'[q] # sem'
    BY <2>1
  <2>3. Users' = {}
    BY <2>2 DEF Users
  <2> QED
    BY <2>3, NoUsers
<1>4. CASE Setval(r)
  <2>1. /\ pc[r] = "setval" /\ pc' = [pc EXCEPT ![r] = "run"] /\ UNCHANGED <<sem, sem_id>>
        /\ kill_id' = [kill_id EXCEPT ![r] = sem_id[r]]
        /\ val' = IF sem = sem_id[r] THEN 1 ELSE val
    BY <1>4 DEF Setval
  <2>2. Holders' = Holders /\ Takers' = Takers
    BY <1>0, <2>1 DEF Takers, Stranded, Holders, Sending, MyId
  <2>3. kill_id[r] = NONE
    BY <2>1 DEF KillIdOK
  <2>4. CASE sem = NONE
    <3>1. Users' = {}
      BY <2>1, <2>4 DEF Users
    <3> QED
      BY <3>1, NoUsers
  <2>5. CASE sem # NONE /\ sem # sem_id[r]
    <3>1. Users' = Users
      BY <2>1, <2>3, <2>5 DEF Users
    <3> QED
      BY <2>1, <2>2, <2>5, <3>1, NothingMoves
  <2>6. CASE sem # NONE /\ sem = sem_id[r]
    <3>1. Users' = Users \cup {r} /\ r \notin Users
      BY <2>1, <2>3, <2>6 DEF Users
    <3>2. Cardinality(Users') = Cardinality(Users) + 1
      BY <3>1, FiniteSets, FS_AddElement
    <3>3. Cardinality(Holders) <= Cardinality(Users)
      <4>1. CASE Users = {}
        <5>1. Holders = {}
          BY <2>6, <4>1, HoldersHaveUsers
        <5> QED
          BY <5>1, FiniteSets, FS_EmptySet
      <4>2. CASE Users # {}
        BY <4>2, FiniteSets DEF TokensBounded
      <4> QED
        BY <4>1, <4>2
    <3>4. val' = 1
      BY <2>1, <2>6
    <3> QED
      BY <2>2, <3>2, <3>3, <3>4, FiniteSets DEF NoneVanishes, TokensBounded
  <2> QED
    BY <2>4, <2>5, <2>6
<1>5. CASE CreateThreads(r)
  <2>1. /\ pc[r] = "run" /\ UNCHANGED <<sem, val, ids, sem_id, kill_id>>
        /\ pc' = [p \in Procs |-> IF p = r THEN "barrel"
                                  ELSE IF p \in ChildrenOf(r) THEN "barrel" ELSE pc[p]]
    BY <1>5 DEF CreateThreads
  <2>2. \A s \in Smackers : pc'[s] = IF ReporterOf[s] = r THEN "barrel" ELSE pc[s]
    BY <1>0, <2>1 DEF ChildrenOf
  <2>3. \A s \in Smackers : ReporterOf[s] = r => pc[s] = "unborn"
    BY <2>1 DEF ParentOK
  <2>4. Sending' = Sending /\ \A s \in Smackers : pc'[s] = "killed" <=> pc[s] = "killed"
    BY <2>2, <2>3 DEF Sending
  <2>5. Holders' = Holders /\ Takers' = Takers /\ Users' = Users
    BY <2>1, <2>4 DEF Takers, Stranded, Holders, MyId, Users
  <2> QED
    BY <2>1, <2>5, NothingMoves
<1>6. CASE ConnectFails(r) \/ QueryFails(r)
  <2>1. /\ pc' = [pc EXCEPT ![r] = "dead"] /\ UNCHANGED <<val, sem_id, kill_id>>
        /\ sem' = sem \/ (sem = kill_id[r] /\ sem' = NONE)
    BY <1>6 DEF ConnectFails, QueryFails, Die, Owner
  <2>2. CASE sem' = NONE
    <3>1. Users' = {}
      BY <2>1, <2>2 DEF Users
    <3> QED
      BY <3>1, NoUsers
  <2>3. CASE sem' = sem
    <3>1. Holders' = Holders /\ Takers' = Takers /\ Users' = Users
      BY <1>0, <2>1, <2>3 DEF Takers, Stranded, Holders, Sending, MyId, Users
    <3> QED
      BY <2>1, <3>1, NothingMoves
  <2> QED
    BY <2>1, <2>2, <2>3
<1> QED
  BY <1>1, <1>2, <1>3, <1>4, <1>5, <1>6 DEF ReporterStep, SetupPipe

\* The tokens, as the smackers go on: who takes one holds it, who holds one
\* gives it back, and nobody but SIGPIPE ends one who does.
LEMMA SmackerTokens ==
  ASSUME SemInv, NEW s \in Smackers, SmackerStep(s)
  PROVE  NoneVanishes' /\ TokensBounded'
<1> USE DEF SemInv, Shape, TypeOK, PcOK, Goto, sem_vars, id_vars
<1>0. /\ s \in Procs /\ s \notin Reporters /\ ReporterOf[s] \in Reporters
      /\ \A t \in Smackers : t \in Procs
      /\ Takers = {t \in Smackers : /\ pc[t] \in {"write_time", "write_report", "unlock", "killed"}
                                    /\ MyId(t) = sem}
  BY PipeSemAssumption, WhoTakes DEF PipeSemAssumption, Procs
<1>1. Users' \subseteq Users /\ (sem' = sem => Users' = Users)
  BY SmackerFacts DEF Users
<1>2. CASE sem' # sem
  <2>1. Users' = {}
    BY <1>2, SmackerFacts DEF Users
  <2> QED
    BY <2>1, NoUsers
<1>3. CASE sem' = sem /\ LockPipeSem(s)
  <2>1. /\ pc[s] = "lock" /\ pc' = [pc EXCEPT ![s] = "write_time"] /\ sem = MyId(s)
        /\ val' = val - 1 /\ UNCHANGED <<sem, sem_id>>
    BY <1>3 DEF LockPipeSem
  <2>2. /\ Holders' = Holders \cup {s} /\ s \notin Holders
        /\ Takers' = Takers \cup {s} /\ s \notin Takers
    BY <1>0, <2>1 DEF Takers, Stranded, Holders, Sending, MyId
  <2>3. /\ Cardinality(Holders') = Cardinality(Holders) + 1
        /\ Cardinality(Takers') = Cardinality(Takers) + 1
    BY <2>2, FiniteSets, FS_AddElement
  <2> QED
    BY <1>1, <1>3, <2>1, <2>3, FiniteSets DEF NoneVanishes, TokensBounded
<1>4. CASE sem' = sem /\ UnlockPipeSem(s)
  <2>1. /\ pc[s] = "unlock" /\ pc' = [pc EXCEPT ![s] = "exited"] /\ sem = MyId(s)
        /\ val' = val + 1 /\ UNCHANGED <<sem, sem_id>>
    BY <1>4 DEF UnlockPipeSem
  <2>2. /\ Holders' = Holders \ {s} /\ s \in Holders
        /\ Takers' = Takers \ {s} /\ s \in Takers
    BY <1>0, <2>1 DEF Takers, Stranded, Holders, Sending, MyId
  <2>3. /\ Cardinality(Holders') = Cardinality(Holders) - 1
        /\ Cardinality(Takers') = Cardinality(Takers) - 1
    BY <2>2, FiniteSets, FS_RemoveElement
  <2> QED
    BY <1>1, <1>4, <2>1, <2>3, FiniteSets DEF NoneVanishes, TokensBounded
<1>6. CASE sem' = NONE
  <2>1. Users' = {}
    BY <1>6 DEF Users
  <2> QED
    BY <2>1, NoUsers
<1>5. CASE sem' = sem /\ sem # NONE /\ ~LockPipeSem(s) /\ ~UnlockPipeSem(s)
  <2>1. val' = val /\ UNCHANGED <<sem, sem_id>>
    BY <1>5, SmackerFacts
  <2>2. Holders' \subseteq Holders /\ Takers' = Takers
    <3>1. CASE BarrelUnloaded(s) \/ ConnectFails(s) \/ QueryFails(s)
      <4>1. pc[s] = "barrel" /\ \E l \in {"lock", "dead"} : pc' = [pc EXCEPT ![s] = l]
        BY <1>0, <3>1 DEF BarrelUnloaded, ConnectFails, QueryFails, Die
      <4> QED
        BY <1>0, <2>1, <4>1 DEF Takers, Stranded, Holders, Sending, MyId
    <3>2. CASE SemopFails(s)
      <4>1. sem # MyId(s) /\ pc' = [pc EXCEPT ![s] = "dead"]
        BY <3>2 DEF SemopFails, Die
      <4> QED
        BY <1>0, <2>1, <4>1 DEF Takers, Stranded, Holders, Sending, MyId
    <3>3. CASE WriteConnectTime(s) \/ FdSend(s)
      <4>1. /\ pc[s] \in {"write_time", "write_report"}
            /\ \E l \in {"write_report", "unlock"} : pc' = [pc EXCEPT ![s] = l]
        BY <3>3 DEF WriteConnectTime, FdSend
      <4> QED
        BY <1>0, <2>1, <4>1 DEF Takers, Stranded, Holders, Sending, MyId
    <3>4. CASE SigPipe(s)
      <4>1. /\ pc[s] \in {"write_time", "write_report"} /\ pc' = [pc EXCEPT ![s] = "killed"]
        BY <3>4 DEF SigPipe
      <4> QED
        BY <1>0, <2>1, <4>1 DEF Takers, Stranded, Holders, Sending, MyId
    <3> QED
      BY <1>5, <3>1, <3>2, <3>3, <3>4 DEF SmackerStep
  <2> QED
    BY <1>1, <1>5, <2>1, <2>2, NothingMoves
<1> QED
  BY <1>2, <1>3, <1>4, <1>5, <1>6

\* The invariant, from the steps above.
LEMMA InvHolds == Spec => []SemInv
<1>1. SemInv /\ [Next]_vars => SemInv'
  <2> SUFFICES ASSUME SemInv, [Next]_vars PROVE SemInv'
    OBVIOUS
  <2>1. ASSUME NEW r \in Reporters, ReporterStep(r) PROVE SemInv'
    BY <2>1, ReporterShape, ReporterTokens DEF SemInv
  <2>2. ASSUME NEW s \in Smackers, SmackerStep(s) PROVE SemInv'
    BY <2>2, SmackerShape, SmackerTokens DEF SemInv
  <2>3. CASE Finished \/ UNCHANGED vars
    <3>1. UNCHANGED <<engine, pc, sem, val, ids, sem_id, kill_id>>
      BY <2>3 DEF Finished, vars, sem_vars, id_vars
    <3>2. Shape'
      BY <3>1 DEF SemInv, Shape, TypeOK, PcOK, KillIdOK, ParentOK
    <3>3. Holders' = Holders /\ Takers' = Takers /\ Users' = Users
      BY <3>1 DEF Users, Takers, Stranded, Holders, Sending, MyId
    <3>4. val \in Nat /\ val' = val
      BY <3>1 DEF SemInv, Shape, TypeOK
    <3> QED
      BY <3>2, <3>3, <3>4, NothingMoves DEF SemInv
  <2> QED
    BY <2>1, <2>2, <2>3 DEF Next
<1> QED
  BY InitInv, <1>1, PTL DEF Spec

\* However many clients set up the semaphore of setup_pipe() (client.cc), die
\* or wait, it is at 0 only while a smacker that will release it holds it, or,
\* under PostgreSQL, after SIGPIPE ended the one that held it.
THEOREM TokenTheorem == Spec => []TokenNotLost
<1>1. SemInv => TokenNotLost
  <2> SUFFICES ASSUME SemInv, Users # {}
               PROVE  val + Cardinality(Holders) >= 1 \/ (engine = "pg" /\ Stranded # {})
    BY DEF TokenNotLost
  <2>1. val + Cardinality(Takers) >= 1 /\ engine \in {"mysql", "pg"} /\ sem # NONE
    BY DEF SemInv, NoneVanishes, Shape, TypeOK, Users
  <2>2. CASE Stranded = {}
    BY <2>1, <2>2 DEF Takers
  <2>3. ASSUME NEW s \in Stranded PROVE engine = "pg"
    <3>1. s \in Smackers /\ pc[s] = "killed" /\ sem_id[ReporterOf[s]] = sem
      BY <2>3 DEF Stranded, MyId
    <3>2. pc[ReporterOf[s]] = "dead" /\ ReporterOf[s] \in Reporters
      BY <3>1, PipeSemAssumption DEF SemInv, Shape, ParentOK, PipeSemAssumption
    <3> QED
      BY <2>1, <3>1, <3>2 DEF SemInv, Shape, KillIdOK
  <2> QED
    BY <2>2, <2>3
<1> QED
  BY InvHolds, <1>1, PTL

\* Each SETVAL of setup_pipe() (client.cc) lets at most one smacker more in.
THEOREM BoundTheorem == Spec => []TokensBounded
<1>1. SemInv => TokensBounded
  BY DEF SemInv
<1> QED
  BY InvHolds, <1>1, PTL
=============================================================================
