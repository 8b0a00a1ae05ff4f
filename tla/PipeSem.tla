------------------------------ MODULE PipeSem ------------------------------
(***************************************************************************)
(* The System V semaphore shared by the clients of one smack file.  Each   *)
(* client's reporter runs setup_pipe(), which looks up the semaphore of    *)
(* ftok(".", 's'), creates it if there is none, and sets it to 1; each has *)
(* a pipe of its own, but the key is the same for all of them, and the     *)
(* semaphore outlives the program unless somebody calls die().             *)
(*                                                                         *)
(* Client has the collection itself in full, for one client; here a        *)
(* smacker only locks, writes twice and unlocks.  All clients of a run are *)
(* of one engine (-d), which says how a failed connect ends the process:   *)
(* Mysql_client calls die(), Pg_client calls exit(1) and the semaphore     *)
(* stays.                                                                  *)
(***************************************************************************)
EXTENDS Integers, Sequences, FiniteSets

CONSTANTS Reporters,   \* one per client of the smack file
          Smackers,    \* the children of all of them
          ReporterOf,  \* the parent of each smacker
          Leftovers    \* the values a semaphore left by an earlier run may have

NONE == 0              \* pipe_sem_id and kill_sem_id = -1

ASSUME PipeSemAssumption ==
  /\ IsFiniteSet(Reporters) /\ IsFiniteSet(Smackers)
  /\ Reporters \cap Smackers = {}
  /\ ReporterOf \in [Smackers -> Reporters]
  /\ Leftovers \subseteq Nat

VARIABLES
  engine,   \* db_type of the run: "mysql" or "pg"
  pc,
  sem,      \* the id of the semaphore the key leads to, or NONE
  val,      \* its value
  ids,      \* how many ids have been given out
  sem_id,   \* pipe_sem_id of each reporter, inherited by its smackers
  kill_id,  \* kill_sem_id of each reporter, inherited by its smackers
  pipe      \* who wrote what into each reporter's pipe

sem_vars == <<sem, val, ids>>
id_vars  == <<sem_id, kill_id>>
vars     == <<engine, pc, sem_vars, id_vars, pipe>>

Procs == Reporters \cup Smackers
Owner(p) == IF p \in Reporters THEN p ELSE ReporterOf[p]
ChildrenOf(r) == {s \in Smackers : ReporterOf[s] = r}
Ended == {"done", "dead", "exited", "killed", "setup_failed"}

Goto(p, label) == pc' = [pc EXCEPT ![p] = label]

\* semctl(IPC_RMID) and semctl(SETVAL) on an id that is gone fail unnoticed.
Die(p) ==
  /\ Goto(p, "dead")
  /\ sem' = IF sem = kill_id[Owner(p)] THEN NONE ELSE sem
  /\ UNCHANGED <<val, ids, id_vars, pipe>>

-----------------------------------------------------------------------------
(***************************************************************************)
(* setup_pipe().                                                           *)
(***************************************************************************)
SemgetFinds(r) ==
  /\ pc[r] = "init" /\ sem # NONE
  /\ sem_id' = [sem_id EXCEPT ![r] = sem]
  /\ Goto(r, "setval")
  /\ UNCHANGED <<sem_vars, kill_id, pipe>>

SemgetFindsNone(r) ==
  /\ pc[r] = "init" /\ sem = NONE
  /\ Goto(r, "create")
  /\ UNCHANGED <<sem_vars, id_vars, pipe>>

SemgetCreates(r) ==
  /\ pc[r] = "create" /\ sem = NONE
  /\ ids' = ids + 1 /\ sem' = ids' /\ val' = 0
  /\ sem_id' = [sem_id EXCEPT ![r] = ids']
  /\ Goto(r, "setval")
  /\ UNCHANGED <<kill_id, pipe>>

\* IPC_EXCL, and another client was faster: die(), with no kill_sem_id yet,
\* although the semaphore the client wants is there.
SemgetExclFails(r) ==
  /\ pc[r] = "create" /\ sem # NONE
  /\ Goto(r, "setup_failed")
  /\ UNCHANGED <<sem_vars, id_vars, pipe>>

\* Mutants of Setval: SETVAL is left out; a token is added to what is there.
SetvalForgotten(r) ==
  /\ pc[r] = "setval"
  /\ kill_id' = [kill_id EXCEPT ![r] = sem_id[r]]
  /\ Goto(r, "run")
  /\ UNCHANGED <<sem_vars, sem_id, pipe>>

SetvalAdds(r) ==
  /\ pc[r] = "setval"
  /\ val' = IF sem = sem_id[r] THEN val + 1 ELSE val
  /\ kill_id' = [kill_id EXCEPT ![r] = sem_id[r]]
  /\ Goto(r, "run")
  /\ UNCHANGED <<sem, ids, sem_id, pipe>>

Setval(r) ==
  /\ pc[r] = "setval"
  /\ val' = IF sem = sem_id[r] THEN 1 ELSE val
  /\ kill_id' = [kill_id EXCEPT ![r] = sem_id[r]]
  /\ Goto(r, "run")
  /\ UNCHANGED <<sem, ids, sem_id, pipe>>

-----------------------------------------------------------------------------
(***************************************************************************)
(* The life of a reporter and of its smackers.                             *)
(***************************************************************************)
CreateThreads(r) ==
  /\ pc[r] = "run"
  /\ pc' = [p \in Procs |-> IF p = r THEN "barrel"
                            ELSE IF p \in ChildrenOf(r) THEN "barrel" ELSE pc[p]]
  /\ UNCHANGED <<sem_vars, id_vars, pipe>>

BarrelUnloaded(p) ==
  /\ pc[p] = "barrel"
  /\ Goto(p, IF p \in Reporters THEN "wait" ELSE "lock")
  /\ UNCHANGED <<sem_vars, id_vars, pipe>>

\* A failed connect: die() under MySQL, exit(1) under PostgreSQL.
ConnectFails(p) ==
  /\ pc[p] = "barrel"
  /\ IF engine = "mysql"
     THEN Die(p)
     ELSE Goto(p, "dead") /\ UNCHANGED <<sem_vars, id_vars, pipe>>

\* A failed query: die() under both.
QueryFails(p) == pc[p] = "barrel" /\ Die(p)

\* thread_sync() in the reporter; neither it nor what follows removes the
\* semaphore: nobody calls clean_up().
CollectThreads(r) ==
  /\ pc[r] = "wait" /\ \A s \in ChildrenOf(r) : pc[s] \in Ended
  /\ Goto(r, "done")
  /\ UNCHANGED <<sem_vars, id_vars, pipe>>

MyId(s) == sem_id[ReporterOf[s]]
HasReader(s) == pc[ReporterOf[s]] \notin Ended

LockPipeSem(s) ==
  /\ pc[s] = "lock" /\ sem = MyId(s) /\ val > 0
  /\ val' = val - 1
  /\ Goto(s, "write_time")
  /\ UNCHANGED <<sem, ids, id_vars, pipe>>

UnlockPipeSem(s) ==
  /\ pc[s] = "unlock" /\ sem = MyId(s)
  /\ val' = val + 1
  /\ Goto(s, "exited")
  /\ UNCHANGED <<sem, ids, id_vars, pipe>>

\* semop() on a semaphore that was removed, while it waits too.
SemopFails(s) == pc[s] \in {"lock", "unlock"} /\ sem # MyId(s) /\ Die(s)

WriteMessage(s, kind) ==
  pipe' = [pipe EXCEPT ![ReporterOf[s]] = Append(@, <<kind, s>>)]

WriteConnectTime(s) ==
  /\ pc[s] = "write_time" /\ HasReader(s)
  /\ WriteMessage(s, "time")
  /\ Goto(s, "write_report")
  /\ UNCHANGED <<sem_vars, id_vars>>

FdSend(s) ==
  /\ pc[s] = "write_report" /\ HasReader(s)
  /\ WriteMessage(s, "report")
  /\ Goto(s, "unlock")
  /\ UNCHANGED <<sem_vars, id_vars>>

\* Ends the smacker without die(), as in Client: what it took is not given back.
SigPipe(s) ==
  /\ pc[s] \in {"write_time", "write_report"} /\ ~HasReader(s)
  /\ Goto(s, "killed")
  /\ UNCHANGED <<sem_vars, id_vars, pipe>>

-----------------------------------------------------------------------------
Init ==
  /\ engine \in {"mysql", "pg"}
  /\ pc = [p \in Procs |-> IF p \in Reporters THEN "init" ELSE "unborn"]
  /\ \/ sem = NONE /\ val = 0 /\ ids = 0
     \/ sem = 1 /\ val \in Leftovers /\ ids = 1
  /\ sem_id = [r \in Reporters |-> NONE]
  /\ kill_id = [r \in Reporters |-> NONE]
  /\ pipe = [r \in Reporters |-> <<>>]

SetupPipe(r) ==
  \/ SemgetFinds(r) \/ SemgetFindsNone(r) \/ SemgetCreates(r)
  \/ SemgetExclFails(r) \/ Setval(r)

ReporterStep(r) ==
  /\ UNCHANGED engine
  /\ \/ SetupPipe(r) \/ CreateThreads(r) \/ BarrelUnloaded(r)
     \/ ConnectFails(r) \/ QueryFails(r) \/ CollectThreads(r)

SmackerStep(s) ==
  /\ UNCHANGED engine
  /\ \/ BarrelUnloaded(s) \/ ConnectFails(s) \/ QueryFails(s)
     \/ LockPipeSem(s) \/ UnlockPipeSem(s) \/ SemopFails(s)
     \/ WriteConnectTime(s) \/ FdSend(s) \/ SigPipe(s)

AllEnded ==
  /\ \A r \in Reporters : pc[r] \in Ended
  /\ \A s \in Smackers : pc[s] \in Ended \cup {"unborn"}

Finished == AllEnded /\ UNCHANGED vars

Next ==
  \/ \E r \in Reporters : ReporterStep(r)
  \/ \E s \in Smackers : SmackerStep(s)
  \/ Finished

Spec == Init /\ [][Next]_vars

\* Every process keeps running.  A smacker locks once, so that it is enough
\* that semop() returns when it can.
FairSpec ==
  /\ Spec
  /\ \A r \in Reporters : WF_vars(ReporterStep(r))
  /\ \A s \in Smackers : WF_vars(SmackerStep(s))

-----------------------------------------------------------------------------
Sending == {s \in Smackers : pc[s] \in {"write_time", "write_report", "unlock"}}
Holders == {s \in Sending : MyId(s) = sem}

\* The smackers that SIGPIPE ended between their lock and their unlock of the
\* semaphore that exists now: Linux does not undo their semop().
Stranded == {s \in Smackers : pc[s] = "killed" /\ MyId(s) = sem}

\* The clients that have set the semaphore that exists now.
Users == {r \in Reporters : sem # NONE /\ kill_id[r] = sem}

\* Where reporters and smackers can be.
ReporterLabels == {"init", "create", "setval", "setup_failed", "run", "barrel", "wait",
                   "done", "dead"}
SmackerLabels  == {"unborn", "barrel", "lock", "write_time", "write_report", "unlock",
                   "exited", "dead", "killed"}

\* The semaphore's value and the ids are of the kinds the kernel hands out.
TypeOK ==
  /\ engine \in {"mysql", "pg"}
  /\ ids \in Nat /\ sem \in 0..ids /\ val \in Nat
  /\ sem_id \in [Reporters -> 0..ids] /\ kill_id \in [Reporters -> 0..ids]

\* Whatever SETVALs, deaths and removals come between, the semaphore that
\* exists is at 0 only while a smacker that will release it holds it, once a
\* client set it; under PostgreSQL alone, whose do_connect() keeps the
\* semaphore of a reporter that is gone, SIGPIPE may end the one that holds it.
TokenNotLost ==
  Users # {} => \/ val + Cardinality(Holders) >= 1
                \/ engine = "pg" /\ Stranded # {}

\* A second client's SETVAL lets one more smacker in, and no more than that:
\* there are at most as many tokens as clients that set the semaphore.
TokensBounded == Users # {} => val + Cardinality(Holders) <= Cardinality(Users)

\* The report of a smacker follows its connect time in the pipe.
PairsNotInterleaved ==
  \A r \in Reporters : \A i \in 1..Len(pipe[r]) :
    pipe[r][i][1] = "report" => i > 1 /\ pipe[r][i - 1] = <<"time", pipe[r][i][2]>>

\* Every client ends, with all its smackers; under PostgreSQL alone some may
\* stay in semop(), and then at a semaphore whose last token went with a
\* smacker that SIGPIPE ended.
StuckInSemop ==
  /\ engine = "pg" /\ val = 0 /\ Stranded # {}
  /\ \E s \in Smackers : pc[s] = "lock" /\ MyId(s) = sem

EveryoneEnds == <>[]AllEnded \/ <>[]StuckInSemop
=============================================================================
