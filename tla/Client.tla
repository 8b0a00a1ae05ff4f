------------------------------- MODULE Client -------------------------------
(***************************************************************************)
(* One client of a smack file, from create_threads() to the end of         *)
(* collect_threads() (src/src/client.cc, src/src/query.cc).                *)
(*                                                                         *)
(* The Reporter is the process that ran init(); it is a smacker itself.    *)
(* create_threads() forks the other Smackers.  Every process connects and  *)
(* unloads its query barrel.  Each smacker then sends its connect time and *)
(* its query report down one shared pipe, in two write()s, under a System V *)
(* semaphore; the Reporter reads one report for every child that wait4()   *)
(* returns.  die() removes the semaphore, so the failure of one process    *)
(* is felt by all of them.                                                 *)
(***************************************************************************)
EXTENDS Integers, Sequences, FiniteSets

CONSTANTS
  Reporter,          \* the process that called init() and create_threads()
  Smackers,          \* the children create_threads(1 + |Smackers|) tries to fork
  ConnectTimes,      \* the connect times do_connect() may take, in ms
  QueriesPerClient,  \* num_rounds times the shots of the barrel
  PipeSlots,         \* how many messages the pipe holds before write() blocks
  Setups             \* what may have been settled before create_threads()

MAX_REPORT_LEN == 1024

(***************************************************************************)
(* What a client brings from the sections before main:                     *)
(*   engine          "mysql": a failed connect calls die(); "pg": exit(1)  *)
(*   report_len      the bytes of a report: 1, and 13 + its name per type  *)
(*   table_connects  how often table sections connected it, in the process *)
(*                   that init() then forks, and                           *)
(*   table_time      how long that took them.                              *)
(***************************************************************************)
SetupType == [engine : {"mysql", "pg"}, report_len : Nat,
              table_connects : Nat, table_time : Nat]

(***************************************************************************)
(* A connect time (4 bytes) and a report (at most MAX_REPORT_LEN bytes)    *)
(* are each written atomically, because they are below PIPE_BUF, and the   *)
(* smallest pipe holds both: hence at least two slots.                     *)
(***************************************************************************)
ASSUME ClientAssumption ==
  /\ Reporter \notin Smackers
  /\ IsFiniteSet(Smackers)
  /\ ConnectTimes \subseteq Nat
  /\ QueriesPerClient \in Nat
  /\ PipeSlots \in Nat /\ PipeSlots >= 2
  /\ Setups \subseteq SetupType

Procs == {Reporter} \cup Smackers

VARIABLES
  setup,               \* one of Setups
  pc,                  \* where each process is
  unforked,            \* children that create_threads() has yet to fork
  sem_set,             \* the System V semaphore set: "exists" or "removed"
  sem_val,             \* the value of its one semaphore
  stream,              \* every message ever written to report_pipe[1]
  nread,               \* how many of them the Reporter has read
  connect_time,        \* Client::connect_time of each process, -1 before connect()
  num_queries,         \* the num_queries of each process's own query report
  num_reported_clients, total_connect_time, max_connect_time, min_connect_time

sem_vars    == <<sem_set, sem_val>>
pipe_vars   == <<stream, nread>>
report_vars == <<num_reported_clients, total_connect_time,
                 max_connect_time, min_connect_time>>
vars == <<setup, pc, unforked, sem_vars, pipe_vars, connect_time, num_queries, report_vars>>

ReporterPC == {"fork", "connect", "barrel", "wait", "select", "read_report",
               "done", "dead"}
SmackerPC  == {"unborn", "forked", "connect", "barrel", "select", "lock", "write_time",
               "write_report", "unlock", "exit", "exited", "dead", "reaped"}

ReportFits == setup.report_len <= MAX_REPORT_LEN

Messages == [kind : {"time", "report"}, from : Smackers, val : Nat]

-----------------------------------------------------------------------------
(***************************************************************************)
(* The pipe.  The kernel's queue is the part of stream not read yet.       *)
(***************************************************************************)
Unread == Len(stream) - nread
HasRoom == Unread < PipeSlots

\* The Reporter owns a read end, and so does a child that fork() has just made.
ReadEndOpen == \/ pc[Reporter] \notin {"done", "dead"}
               \/ \E c \in Smackers : pc[c] = "forked"

\* Past create_threads() only living children hold a write end.
WriteEndsClosed ==
  \A c \in Smackers : pc[c] \in {"unborn", "exited", "dead", "reaped"}

Write(c, kind, val) ==
  stream' = Append(stream, [kind |-> kind, from |-> c, val |-> val])

Goto(p, label) == pc' = [pc EXCEPT ![p] = label]

\* Mutant of Die: the process just exits, and leaves the semaphore behind.
DieLeavesSem(p) == Goto(p, "dead") /\ UNCHANGED sem_vars

\* die(): removes the semaphore, and exits.
Die(p) ==
  /\ Goto(p, "dead")
  /\ sem_set' = "removed"
  /\ UNCHANGED sem_val

-----------------------------------------------------------------------------
(***************************************************************************)
(* Every process: create_threads(), connect(), unload_query_barrel().      *)
(***************************************************************************)
Fork(c) ==
  /\ pc[Reporter] = "fork" /\ c \in unforked
  /\ unforked' = unforked \ {c}
  /\ Goto(c, "forked")
  /\ UNCHANGED <<sem_vars, pipe_vars, connect_time, num_queries, report_vars>>

\* The child closes the read end, and returns from create_threads().
ChildReturns(c) ==
  /\ pc[c] = "forked"
  /\ Goto(c, "connect")
  /\ UNCHANGED <<unforked, sem_vars, pipe_vars, connect_time, num_queries, report_vars>>

\* fork() = -1 is printed, and the loop goes on with one child less.
ForkFails(c) ==
  /\ pc[Reporter] = "fork" /\ c \in unforked
  /\ unforked' = unforked \ {c}
  /\ UNCHANGED <<pc, sem_vars, pipe_vars, connect_time, num_queries, report_vars>>

CreateThreadsReturns ==
  /\ pc[Reporter] = "fork" /\ unforked = {}
  /\ Goto(Reporter, "connect")
  /\ UNCHANGED <<unforked, sem_vars, pipe_vars, connect_time, num_queries, report_vars>>

\* Only parent_thread counts itself here, and it leaves max and min alone.
Connect(p) ==
  /\ pc[p] = "connect"
  /\ Goto(p, "barrel")
  /\ \E t \in ConnectTimes :
       /\ connect_time' = [connect_time EXCEPT ![p] = t]
       /\ IF p = Reporter
          THEN /\ num_reported_clients' = num_reported_clients + 1
               /\ total_connect_time' = total_connect_time + t
          ELSE UNCHANGED <<num_reported_clients, total_connect_time>>
  /\ UNCHANGED <<unforked, sem_vars, pipe_vars, num_queries,
                 max_connect_time, min_connect_time>>

\* Mysql_client aborts through die(); Pg_client leaves by exit(1), which
\* keeps the semaphore.
ConnectFails(p) ==
  /\ pc[p] = "connect"
  /\ IF setup.engine = "mysql"
     THEN Die(p)
     ELSE Goto(p, "dead") /\ UNCHANGED sem_vars
  /\ UNCHANGED <<unforked, pipe_vars, connect_time, num_queries, report_vars>>

\* One shot of Query_charge::fire(), with its update_report().
FireShot(p) ==
  /\ pc[p] = "barrel" /\ num_queries[p] < QueriesPerClient
  /\ num_queries' = [num_queries EXCEPT ![p] = @ + 1]
  /\ UNCHANGED <<pc, unforked, sem_vars, pipe_vars, connect_time, report_vars>>

\* safe_query() with abort_on_error: a failed query is fatal.
QueryFails(p) ==
  /\ pc[p] = "barrel" /\ num_queries[p] < QueriesPerClient
  /\ Die(p)
  /\ UNCHANGED <<unforked, pipe_vars, connect_time, num_queries, report_vars>>

BarrelUnloaded(p) ==
  /\ pc[p] = "barrel" /\ num_queries[p] = QueriesPerClient
  /\ Goto(p, IF p = Reporter THEN "wait" ELSE "select")
  /\ UNCHANGED <<unforked, sem_vars, pipe_vars, connect_time, num_queries, report_vars>>

-----------------------------------------------------------------------------
(***************************************************************************)
(* A smacker in thread_sync(): transfer_report_data(), disconnect(),       *)
(* close(), exit(0).                                                       *)
(***************************************************************************)
SelectWritable(c) ==
  /\ pc[c] = "select"
  /\ HasRoom \/ ~ReadEndOpen
  /\ Goto(c, "lock")
  /\ UNCHANGED <<unforked, sem_vars, pipe_vars, connect_time, num_queries, report_vars>>

\* Mutant of LockPipeSem: sem_op is 0 or the semaphore starts too high.
LockNeverBlocks(c) ==
  /\ pc[c] = "lock" /\ sem_set = "exists"
  /\ Goto(c, "write_time")
  /\ UNCHANGED <<unforked, sem_vars, pipe_vars, connect_time, num_queries, report_vars>>

LockPipeSem(c) ==
  /\ pc[c] = "lock" /\ sem_set = "exists" /\ sem_val > 0
  /\ sem_val' = sem_val - 1
  /\ Goto(c, "write_time")
  /\ UNCHANGED <<unforked, sem_set, pipe_vars, connect_time, num_queries, report_vars>>

LockFails(c) ==
  /\ pc[c] = "lock" /\ sem_set = "removed"
  /\ Die(c)
  /\ UNCHANGED <<unforked, pipe_vars, connect_time, num_queries, report_vars>>

WriteConnectTime(c) ==
  /\ pc[c] = "write_time" /\ ReadEndOpen /\ HasRoom
  /\ Write(c, "time", connect_time[c])
  /\ Goto(c, "write_report")
  /\ UNCHANGED <<unforked, sem_vars, nread, connect_time, num_queries, report_vars>>

FdSend(c) ==
  /\ pc[c] = "write_report" /\ ReportFits /\ ReadEndOpen /\ HasRoom
  /\ Write(c, "report", num_queries[c])
  /\ Goto(c, "unlock")
  /\ UNCHANGED <<unforked, sem_vars, nread, connect_time, num_queries, report_vars>>

\* Mutant of FdSendOverflows: the report is skipped, and the client goes on.
OverflowSkipsReport(c) ==
  /\ pc[c] = "write_report" /\ ~ReportFits
  /\ Goto(c, "unlock")
  /\ UNCHANGED <<unforked, sem_vars, pipe_vars, connect_time, num_queries, report_vars>>

\* "report buffer overflow -- too many query types"
FdSendOverflows(c) ==
  /\ pc[c] = "write_report" /\ ~ReportFits
  /\ Die(c)
  /\ UNCHANGED <<unforked, pipe_vars, connect_time, num_queries, report_vars>>

\* write() with no reader left: SIGPIPE, whose default action nobody changes,
\* ends the process without die(), and so without releasing the semaphore.
SigPipe(c) ==
  /\ ~ReadEndOpen
  /\ pc[c] = "write_time" \/ (pc[c] = "write_report" /\ ReportFits)
  /\ Goto(c, "dead")
  /\ UNCHANGED <<unforked, sem_vars, pipe_vars, connect_time, num_queries, report_vars>>

UnlockPipeSem(c) ==
  /\ pc[c] = "unlock" /\ sem_set = "exists"
  /\ sem_val' = sem_val + 1
  /\ Goto(c, "exit")
  /\ UNCHANGED <<unforked, sem_set, pipe_vars, connect_time, num_queries, report_vars>>

UnlockFails(c) ==
  /\ pc[c] = "unlock" /\ sem_set = "removed"
  /\ Die(c)
  /\ UNCHANGED <<unforked, pipe_vars, connect_time, num_queries, report_vars>>

SmackerExits(c) ==
  /\ pc[c] = "exit"
  /\ Goto(c, "exited")
  /\ UNCHANGED <<unforked, sem_vars, pipe_vars, connect_time, num_queries, report_vars>>

-----------------------------------------------------------------------------
(***************************************************************************)
(* The Reporter in thread_sync(): one transfer_report_data() per child.    *)
(***************************************************************************)
\* Mutant of Wait4: the exit status is looked at, and a child that died is
\* taken to have sent nothing.
Wait4SkipsDead(c) ==
  /\ pc[Reporter] = "wait" /\ pc[c] \in {"exited", "dead"}
  /\ pc' = [pc EXCEPT ![c] = "reaped",
                      ![Reporter] = IF pc[c] = "dead" THEN "wait" ELSE "select"]
  /\ UNCHANGED <<unforked, sem_vars, pipe_vars, connect_time, num_queries, report_vars>>

Wait4(c) ==
  /\ pc[Reporter] = "wait" /\ pc[c] \in {"exited", "dead"}
  /\ pc' = [pc EXCEPT ![c] = "reaped", ![Reporter] = "select"]
  /\ UNCHANGED <<unforked, sem_vars, pipe_vars, connect_time, num_queries, report_vars>>

\* ECHILD
Wait4NoChild ==
  /\ pc[Reporter] = "wait"
  /\ \A c \in Smackers : pc[c] \in {"unborn", "reaped"}
  /\ Goto(Reporter, "done")
  /\ UNCHANGED <<unforked, sem_vars, pipe_vars, connect_time, num_queries, report_vars>>

\* Mutant of ReadConnectTime: min_connect_time = -1 is not treated apart.
MinStaysUnset ==
  /\ pc[Reporter] = "select" /\ Unread > 0
  /\ LET t == stream[nread + 1].val IN
       /\ total_connect_time' = total_connect_time + t
       /\ num_reported_clients' = num_reported_clients + 1
       /\ max_connect_time' = IF max_connect_time < t THEN t ELSE max_connect_time
       /\ min_connect_time' = IF min_connect_time > t THEN t ELSE min_connect_time
  /\ nread' = nread + 1
  /\ Goto(Reporter, "read_report")
  /\ UNCHANGED <<unforked, sem_vars, stream, connect_time, num_queries>>

\* There is no guard on the kind of message: whatever comes next is read as
\* a connect time here, and as a report in UpdateFromFd.
ReadConnectTime ==
  /\ pc[Reporter] = "select" /\ Unread > 0
  /\ LET t == stream[nread + 1].val IN
       /\ total_connect_time' = total_connect_time + t
       /\ num_reported_clients' = num_reported_clients + 1
       /\ max_connect_time' = IF max_connect_time < t THEN t ELSE max_connect_time
       /\ min_connect_time' = IF min_connect_time > t \/ min_connect_time = -1
                              THEN t ELSE min_connect_time
  /\ nread' = nread + 1
  /\ Goto(Reporter, "read_report")
  /\ UNCHANGED <<unforked, sem_vars, stream, connect_time, num_queries>>

\* Mutant of UpdateFromFd: the counts are replaced instead of added.
UpdateOverwrites ==
  /\ pc[Reporter] = "read_report" /\ Unread > 0
  /\ num_queries' = [num_queries EXCEPT ![Reporter] = stream[nread + 1].val]
  /\ nread' = nread + 1
  /\ Goto(Reporter, "wait")
  /\ UNCHANGED <<unforked, sem_vars, stream, connect_time, report_vars>>

UpdateFromFd ==
  /\ pc[Reporter] = "read_report" /\ Unread > 0
  /\ num_queries' = [num_queries EXCEPT ![Reporter] = @ + stream[nread + 1].val]
  /\ nread' = nread + 1
  /\ Goto(Reporter, "wait")
  /\ UNCHANGED <<unforked, sem_vars, stream, connect_time, report_vars>>

\* Mutant of ReadEof: an empty read is tried again.
ReadEofRetries ==
  /\ pc[Reporter] \in {"select", "read_report"}
  /\ Unread = 0 /\ WriteEndsClosed
  /\ UNCHANGED vars

\* read() = 0: the pipe is empty and nobody can write to it any more.
ReadEof ==
  /\ pc[Reporter] \in {"select", "read_report"}
  /\ Unread = 0 /\ WriteEndsClosed
  /\ Goto(Reporter, "wait")
  /\ UNCHANGED <<unforked, sem_vars, pipe_vars, connect_time, num_queries, report_vars>>

-----------------------------------------------------------------------------
Init ==
  /\ setup \in Setups
  /\ pc = [p \in Procs |-> IF p = Reporter THEN "fork" ELSE "unborn"]
  /\ unforked = Smackers
  /\ sem_set = "exists" /\ sem_val = 1
  /\ stream = <<>> /\ nread = 0
  /\ connect_time = [p \in Procs |-> -1]
  /\ num_queries = [p \in Procs |-> 0]
  /\ num_reported_clients = setup.table_connects
  /\ total_connect_time = setup.table_time
  /\ max_connect_time = 0 /\ min_connect_time = -1

WorkStep(p) ==
  /\ UNCHANGED setup
  /\ \/ Connect(p) \/ ConnectFails(p) \/ FireShot(p) \/ QueryFails(p)
     \/ BarrelUnloaded(p)

SendStep(c) ==
  /\ UNCHANGED setup
  /\ \/ ChildReturns(c) \/ SelectWritable(c) \/ LockPipeSem(c) \/ LockFails(c)
     \/ WriteConnectTime(c) \/ FdSend(c) \/ FdSendOverflows(c) \/ SigPipe(c)
     \/ UnlockPipeSem(c) \/ UnlockFails(c) \/ SmackerExits(c)

CollectStep ==
  /\ UNCHANGED setup
  /\ \/ \E c \in Smackers : Wait4(c)
     \/ Wait4NoChild \/ ReadConnectTime \/ UpdateFromFd \/ ReadEof

ForkStep ==
  /\ UNCHANGED setup
  /\ \/ \E c \in Smackers : Fork(c) \/ ForkFails(c)
     \/ CreateThreadsReturns

\* Everybody has stopped: the only states that may have no other successor.
Finished ==
  /\ pc[Reporter] \in {"done", "dead"}
  /\ WriteEndsClosed
  /\ UNCHANGED vars

Next ==
  \/ ForkStep
  \/ \E p \in Procs : WorkStep(p)
  \/ \E c \in Smackers : SendStep(c)
  \/ CollectStep
  \/ Finished

Spec == Init /\ [][Next]_vars

(***************************************************************************)
(* Each process keeps being scheduled, and the database answers connects   *)
(* and queries sooner or later, one way or the other.  A smacker locks the *)
(* semaphore once only, so no stronger fairness is needed for the lock.    *)
(***************************************************************************)
Fairness ==
  /\ WF_vars(ForkStep)
  /\ WF_vars(CollectStep)
  /\ \A p \in Procs : WF_vars(WorkStep(p))
  /\ \A c \in Smackers : WF_vars(SendStep(c))

FairSpec == Spec /\ Fairness

-----------------------------------------------------------------------------
(***************************************************************************)
(* What has been sent, and how much of it the Reporter has merged.         *)
(***************************************************************************)
Reaped == {c \in Smackers : pc[c] = "reaped"}

Sending == {c \in Smackers : pc[c] \in {"write_time", "write_report", "unlock"}}

\* The smackers whose report is among the first n messages.
ReportedIn(n) == {stream[i].from : i \in {j \in 1..n : stream[j].kind = "report"}}

\* The connect times among the messages read.
MergedTimes == {stream[i].val : i \in {j \in 1..nread : stream[j].kind = "time"}}

\* The state of every variable, for each place a process can be in
\* (create_threads() to collect_threads()).
TypeOK ==
  /\ setup \in Setups
  /\ pc \in [Procs -> ReporterPC \cup SmackerPC]
  /\ pc[Reporter] \in ReporterPC
  /\ \A c \in Smackers : pc[c] \in SmackerPC
  /\ unforked \subseteq Smackers
  /\ sem_set \in {"exists", "removed"} /\ sem_val \in Int
  /\ stream \in Seq(Messages) /\ nread \in 0..Len(stream)
  /\ connect_time \in [Procs -> ConnectTimes \cup {-1}]
  /\ num_queries \in [Procs -> Nat]
  /\ num_reported_clients \in Nat /\ total_connect_time \in Nat
  /\ max_connect_time \in Nat /\ min_connect_time \in Nat \cup {-1}

\* lock_pipe_sem() .. unlock_pipe_sem(): two smackers never write at the same
\* time, whatever dies and whenever die() removes the semaphore under them.
MutualExclusion == \A c, d \in Sending : c = d

PairedAt(i) ==
  IF i % 2 = 1
  THEN stream[i].kind = "time"
       /\ \A j \in 1..(i - 1) : stream[j].from # stream[i].from
  ELSE stream[i].kind = "report" /\ stream[i].from = stream[i - 1].from

\* transfer_report_data() sends in two write()s and reads in two read()s that
\* trust the order: the pipe only ever holds a connect time followed by the
\* report of the same smacker, and nobody sends twice.
StreamPaired == \A i \in 1..Len(stream) : PairedAt(i)

\* The Reporter never takes a report for a connect time or the reverse: what
\* it is about to read is of the kind it expects.
ReaderAligned ==
  Unread > 0 =>
    /\ pc[Reporter] = "select"      => stream[nread + 1].kind = "time"
    /\ pc[Reporter] = "read_report" => stream[nread + 1].kind = "report"

\* thread_sync() reads once per child that ended, although a child that died
\* sent nothing and the report read need not be of the child reaped: still,
\* when wait4() says ECHILD no report is left in the pipe.
NoReportLost == pc[Reporter] = "done" => nread = Len(stream)

\* The printed "from N clients" and num_queries agree: as long as every report
\* fits fd_send()'s buffer, every client counted for its connect time is
\* counted with all its queries, whoever dies between its two write()s. The
\* connects of table sections are counted as clients that ran no query.
CountsAgree ==
  ReportFits /\ pc[Reporter] \in {"wait", "done"} =>
    num_queries[Reporter] =
      QueriesPerClient * (num_reported_clients - setup.table_connects)

\* The sum of the connect times among the first messages of s.
TimesOf(s) ==
  LET sum[n \in 0..Len(s)] ==
        IF n = 0 THEN 0
        ELSE sum[n - 1] + (IF s[n].kind = "time" THEN s[n].val ELSE 0)
  IN  sum

\* max_connect_time and min_connect_time end up the extremes of the connect
\* times of the smackers that reported; the average is of these and of the
\* connects of the Reporter and of the table sections, which the extremes leave
\* out (so that TUTORIAL:53 can show an average above the maximum).
ExtremesAreMeasured ==
  pc[Reporter] = "done" =>
    /\ IF MergedTimes = {} THEN max_connect_time = 0 /\ min_connect_time = -1
       ELSE /\ max_connect_time \in MergedTimes /\ min_connect_time \in MergedTimes
            /\ \A t \in MergedTimes : min_connect_time <= t /\ t <= max_connect_time
    /\ total_connect_time =
         setup.table_time + connect_time[Reporter] + TimesOf(stream)[nread]

\* collect_threads() returns, or the Reporter has died: no order of deaths,
\* forks that failed and full pipes leaves it in wait4(), select() or read().
ReporterFinishes == <>(pc[Reporter] \in {"done", "dead"})

\* Every smacker that was forked ends.
SmackersFinish == <>[](\A c \in Smackers : pc[c] \in {"unborn", "exited", "dead", "reaped"})

\* Every smacker that was forked ends, with the engine whose failures all go
\* through die().
MysqlSmackersFinish == setup.engine = "mysql" => SmackersFinish

-----------------------------------------------------------------------------
(***************************************************************************)
(* The inductive invariant: each part is preserved only with the others.   *)
(***************************************************************************)
Even(n) == n % 2 = 0

\* Past its first write(), or ended.
Past == {c \in Smackers : pc[c] \in {"write_report", "unlock", "exit",
                                     "exited", "dead", "reaped"}}

\* The semaphore is free only when nobody is between lock and unlock, and no
\* smacker has left half of its data in the pipe.
LockInv ==
  /\ sem_val \in {0, 1}
  /\ sem_set = "exists" /\ sem_val = 1 => Sending = {} /\ Even(Len(stream))
  /\ MutualExclusion

\* How the end of the stream relates to the smacker that is sending, and who
\* can have sent what it holds.
SendInv ==
  /\ StreamPaired
  /\ \A c \in Smackers :
       /\ pc[c] \in {"write_time", "unlock"} => Even(Len(stream))
       /\ pc[c] = "write_report" =>
            ~Even(Len(stream)) /\ stream[Len(stream)].from = c
  /\ \A i \in 1..Len(stream) : stream[i].from \in Past
  /\ Len(stream) <= 2 * Cardinality(Past)

\* At most two messages for every child reaped.
ReadsArePaced == nread <= 2 * Cardinality(Reaped)

\* One pair of messages has been read for each child reaped, or the stream has
\* ended and been read to its end.
AtEnd == WriteEndsClosed /\ nread = Len(stream)

ReadInv ==
  /\ pc[Reporter] \in {"fork", "connect", "barrel"} => nread = 0 /\ Reaped = {}
  /\ pc[Reporter] = "wait" => nread = 2 * Cardinality(Reaped) \/ AtEnd
  /\ pc[Reporter] = "select" => nread = 2 * Cardinality(Reaped) - 2 \/ AtEnd
  /\ pc[Reporter] = "read_report" => nread = 2 * Cardinality(Reaped) - 1
  /\ pc[Reporter] = "done" =>
       nread = Len(stream) /\ \A c \in Smackers : pc[c] \in {"unborn", "reaped"}
  /\ ReadsArePaced

\* Nobody is forked twice or late, and what a smacker sends has been measured.
ProgressInv ==
  /\ pc[Reporter] # "fork" => unforked = {}
  /\ \A c \in unforked : pc[c] = "unborn"
  /\ \A c \in Smackers :
       /\ pc[c] \in {"barrel", "select", "lock", "write_time"} =>
            connect_time[c] \in ConnectTimes
       /\ pc[c] \in {"select", "lock", "write_time", "write_report"} =>
            num_queries[c] = QueriesPerClient

\* What the reports in the pipe say, and who is in the middle of sending.
StreamCount ==
  /\ \A i \in 1..Len(stream) :
       stream[i].kind = "report" => stream[i].val = QueriesPerClient
  /\ ReportFits /\ pc[Reporter] # "dead" /\ ~Even(Len(stream)) =>
       \E c \in Smackers : pc[c] = "write_report"

\* What the Reporter has made of them.
ReporterCount ==
  /\ pc[Reporter] \in {"fork", "connect"} =>
       num_reported_clients = setup.table_connects /\ num_queries[Reporter] = 0
  /\ pc[Reporter] = "barrel" =>
       /\ num_reported_clients = setup.table_connects + 1
       /\ num_queries[Reporter] <= QueriesPerClient
  /\ pc[Reporter] \in {"wait", "select", "read_report", "done"} =>
       /\ num_reported_clients = setup.table_connects + 1 + ((nread + 1) \div 2)
       /\ num_queries[Reporter] = QueriesPerClient * (1 + (nread \div 2))

CountInv == StreamCount /\ ReporterCount

IInv == TypeOK /\ ProgressInv /\ LockInv /\ SendInv /\ ReadInv /\ CountInv

-----------------------------------------------------------------------------
(***************************************************************************)
(* The collection Client implements.                                       *)
(***************************************************************************)
Promise == INSTANCE Collection
  WITH Clients <- Smackers, Work <- QueriesPerClient,
       sent    <- ReportedIn(Len(stream)),
       merged  <- ReportedIn(nread),
       state   <- (IF pc[Reporter] = "done" THEN "finished"
                   ELSE IF pc[Reporter] = "dead" THEN "aborted" ELSE "collecting"),
       total   <- num_queries[Reporter]

\* Pipe, semaphore and wait4() together implement Collection: every step of
\* the code is a step of it, or invisible to it.
CollectsReports == Promise!Spec
=============================================================================
