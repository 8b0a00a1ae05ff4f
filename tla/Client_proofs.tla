---------------------------- MODULE Client_proofs ----------------------------
(***************************************************************************)
(* Proofs about Client, for every number of smackers, connect time, number *)
(* of queries, pipe size and setup.                                        *)
(***************************************************************************)
EXTENDS Client, FiniteSetTheorems, WellFoundedInduction, TLAPS

USE DEF Procs, ReporterPC, SmackerPC, Goto, Die,
        vars, sem_vars, pipe_vars, report_vars

-----------------------------------------------------------------------------
(***************************************************************************)
(* A write() appends one message, and a read() takes a well-formed one.    *)
(***************************************************************************)
\* A write() keeps what the pipe held, and adds its message at the end.
LEMMA WriteAppends ==
  ASSUME stream \in Seq(Messages), NEW c \in Smackers,
         NEW kind \in {"time", "report"}, NEW val \in Nat, Write(c, kind, val)
  PROVE  /\ stream' \in Seq(Messages)
         /\ Len(stream') = Len(stream) + 1
         /\ \A i \in 1..Len(stream) : stream'[i] = stream[i]
         /\ stream'[Len(stream')] = [kind |-> kind, from |-> c, val |-> val]
<1> DEFINE m == [kind |-> kind, from |-> c, val |-> val]
<1>1. m \in Messages  BY DEF Messages
<1>2. stream' = Append(stream, m)  BY DEF Write
<1> HIDE DEF m
<1>3. QED  BY <1>1, <1>2 DEF m

\* What the Reporter reads next is a message.
LEMMA ReadTyped ==
  ASSUME stream \in Seq(Messages), nread \in 0..Len(stream), Unread > 0
  PROVE  /\ nread + 1 \in 1..Len(stream)
         /\ stream[nread + 1].val \in Nat
<1>1. nread + 1 \in 1..Len(stream)  BY DEF Unread
<1>2. stream[nread + 1] \in Messages  BY <1>1
<1>3. QED  BY <1>1, <1>2 DEF Messages

-----------------------------------------------------------------------------
(***************************************************************************)
(* Types, and the progress of each process.                                *)
(***************************************************************************)
\* The initial state is well-typed, and nobody has been forked.
LEMMA InitTypeOK == Init => TypeOK /\ ProgressInv
<1> SUFFICES ASSUME Init PROVE TypeOK /\ ProgressInv
  OBVIOUS
<1>1. setup.table_connects \in Nat /\ setup.table_time \in Nat
  BY ClientAssumption DEF Init, SetupType
<1>2. QED  BY <1>1, ClientAssumption DEF Init, TypeOK, ProgressInv

\* Every step of every process keeps the types and ProgressInv.
LEMMA NextTypeOK ==
  ASSUME TypeOK, ProgressInv, [Next]_vars
  PROVE  TypeOK' /\ ProgressInv'
<1> USE ClientAssumption
<1>1. CASE UNCHANGED vars
  BY <1>1 DEF TypeOK, ProgressInv
<1>2. CASE ForkStep
  <2>1. CASE \E c \in Smackers : Fork(c)
    BY <1>2, <2>1 DEF ForkStep, Fork, TypeOK, ProgressInv
  <2>2. CASE \E c \in Smackers : ForkFails(c)
    BY <1>2, <2>2 DEF ForkStep, ForkFails, TypeOK, ProgressInv
  <2>3. CASE CreateThreadsReturns
    BY <1>2, <2>3 DEF ForkStep, CreateThreadsReturns, TypeOK, ProgressInv
  <2>4. QED  BY <1>2, <2>1, <2>2, <2>3 DEF ForkStep
<1>3. ASSUME NEW p \in Procs, WorkStep(p)
      PROVE  TypeOK' /\ ProgressInv'
  <2>0. setup' = setup  BY <1>3 DEF WorkStep
  <2> USE <2>0
  <2>1. CASE Connect(p)
    BY <2>1 DEF Connect, TypeOK, ProgressInv
  <2>2. CASE ConnectFails(p)
    BY <2>2 DEF ConnectFails, TypeOK, ProgressInv
  <2>3. CASE FireShot(p)
    BY <2>3 DEF FireShot, TypeOK, ProgressInv
  <2>4. CASE QueryFails(p)
    BY <2>4 DEF QueryFails, TypeOK, ProgressInv
  <2>5. CASE BarrelUnloaded(p)
    BY <2>5 DEF BarrelUnloaded, TypeOK, ProgressInv
  <2>6. QED  BY <1>3, <2>1, <2>2, <2>3, <2>4, <2>5 DEF WorkStep
<1>4. ASSUME NEW c \in Smackers, SendStep(c)
      PROVE  TypeOK' /\ ProgressInv'
  <2>0. setup' = setup  BY <1>4 DEF SendStep
  <2> USE <2>0
  <2>1. CASE WriteConnectTime(c)
    <3>1. connect_time[c] \in Nat  BY <2>1 DEF WriteConnectTime, ProgressInv
    <3>2. stream' \in Seq(Messages) /\ Len(stream') = Len(stream) + 1
      BY <2>1, <3>1, WriteAppends DEF WriteConnectTime, TypeOK
    <3>3. QED  BY <2>1, <3>2 DEF WriteConnectTime, TypeOK, ProgressInv
  <2>2. CASE FdSend(c)
    <3>1. num_queries[c] \in Nat  BY DEF TypeOK
    <3>2. stream' \in Seq(Messages) /\ Len(stream') = Len(stream) + 1
      BY <2>2, <3>1, WriteAppends DEF FdSend, ReportFits, TypeOK
    <3>3. QED  BY <2>2, <3>2 DEF FdSend, ReportFits, TypeOK, ProgressInv
  <2>3. CASE ChildReturns(c) \/ SelectWritable(c) \/ SmackerExits(c) \/ SigPipe(c)
    <3>1. CASE ChildReturns(c)
      BY <3>1 DEF ChildReturns, TypeOK, ProgressInv
    <3>2. CASE SelectWritable(c)
      BY <3>2 DEF SelectWritable, TypeOK, ProgressInv
    <3>3. CASE SmackerExits(c)
      BY <3>3 DEF SmackerExits, TypeOK, ProgressInv
    <3>4. CASE SigPipe(c)
      BY <3>4 DEF SigPipe, TypeOK, ProgressInv
    <3>5. QED  BY <2>3, <3>1, <3>2, <3>3, <3>4
  <2>4. CASE LockPipeSem(c)
    BY <2>4 DEF LockPipeSem, TypeOK, ProgressInv
  <2>7. CASE UnlockPipeSem(c)
    BY <2>7 DEF UnlockPipeSem, TypeOK, ProgressInv
  <2>5. CASE LockFails(c) \/ UnlockFails(c) \/ FdSendOverflows(c)
    BY <2>5 DEF LockFails, UnlockFails, FdSendOverflows, ReportFits, TypeOK, ProgressInv
  <2>6. QED  BY <1>4, <2>1, <2>2, <2>3, <2>4, <2>5, <2>7 DEF SendStep
<1>5. CASE CollectStep
  <2>0. setup' = setup  BY <1>5 DEF CollectStep
  <2> USE <2>0
  <2>1. CASE ReadConnectTime
    <3>1. nread + 1 \in 1..Len(stream) /\ stream[nread + 1].val \in Nat
      BY <2>1, ReadTyped DEF ReadConnectTime, TypeOK
    <3>2. /\ pc' = [pc EXCEPT ![Reporter] = "read_report"] /\ pc[Reporter] = "select"
          /\ nread' = nread + 1
          /\ UNCHANGED <<unforked, sem_vars, stream, connect_time, num_queries>>
      BY <2>1 DEF ReadConnectTime
    <3>3. /\ num_reported_clients' \in Nat /\ total_connect_time' \in Nat
          /\ max_connect_time' \in Nat /\ min_connect_time' \in Nat \cup {-1}
      BY <2>1, <3>1 DEF ReadConnectTime, TypeOK
    <3>4. nread' \in 0..Len(stream')  BY <3>1, <3>2 DEF TypeOK
    <3>5. ProgressInv'  BY <3>2 DEF ProgressInv, TypeOK
    <3>6. TypeOK'  BY <3>2, <3>3, <3>4 DEF TypeOK
    <3>7. QED  BY <3>5, <3>6
  <2>2. CASE UpdateFromFd
    <3>1. nread + 1 \in 1..Len(stream) /\ stream[nread + 1].val \in Nat
      BY <2>2, ReadTyped DEF UpdateFromFd, TypeOK
    <3>2. QED  BY <2>2, <3>1 DEF UpdateFromFd, TypeOK, ProgressInv
  <2>3. CASE Wait4NoChild \/ ReadEof
    BY <2>3 DEF Wait4NoChild, ReadEof, TypeOK, ProgressInv
  <2>4. CASE \E c \in Smackers : Wait4(c)
    BY <2>4 DEF Wait4, TypeOK, ProgressInv
  <2>5. QED  BY <1>5, <2>1, <2>2, <2>3, <2>4 DEF CollectStep
<1>6. CASE Finished
  BY <1>6 DEF Finished, TypeOK, ProgressInv
<1>7. QED  BY <1>1, <1>2, <1>3, <1>4, <1>5, <1>6 DEF Next

\* Every variable keeps to the values its field of Client, its process or its
\* kernel object can hold, whatever dies.
THEOREM TypeCorrect == Spec => []TypeOK
<1>1. Init => TypeOK /\ ProgressInv  BY InitTypeOK
<1>2. (TypeOK /\ ProgressInv) /\ [Next]_vars => (TypeOK /\ ProgressInv)'  BY NextTypeOK
<1>3. QED  BY <1>1, <1>2, PTL DEF Spec

-----------------------------------------------------------------------------
(***************************************************************************)
(* The lock, and what is in the pipe.                                      *)
(***************************************************************************)
\* One more message changes the parity of the stream.
LEMMA EvenFlips == \A n \in Int : Even(n + 1) <=> ~Even(n)
  BY DEF Even

\* The smackers that are past their first write() can be counted.
LEMMA PastFinite == IsFiniteSet(Past) /\ Cardinality(Past) \in Nat
  BY ClientAssumption, FS_Subset, FS_CardinalityType DEF Past

PastPC == {"write_report", "unlock", "exit", "exited", "dead", "reaped"}
SendingPC == {"write_time", "write_report", "unlock"}

\* A step that writes nothing, and moves no smacker into or within its
\* critical section, or back before its first write().
LEMMA QuietStep ==
  ASSUME TypeOK, LockInv, SendInv, stream' = stream, sem_val' = sem_val,
         sem_set' \in {sem_set, "removed"},
         \A c \in Smackers : /\ pc'[c] \in SendingPC => pc'[c] = pc[c]
                             /\ pc[c] \in PastPC => pc'[c] \in PastPC
  PROVE  LockInv' /\ SendInv'
<1>1. Sending' \subseteq Sending  BY DEF Sending, SendingPC
<1>2. LockInv'  BY <1>1 DEF LockInv, MutualExclusion
<1>3. Past \subseteq Past'  BY DEF Past, PastPC
<1>4. Cardinality(Past) <= Cardinality(Past')
  <2>1. IsFiniteSet(Past')  BY ClientAssumption, FS_Subset DEF Past
  <2>2. QED  BY <1>3, <2>1, FS_Subset
<1>5. Len(stream') <= 2 * Cardinality(Past')
  <2>1. Cardinality(Past') \in Nat
    BY ClientAssumption, FS_Subset, FS_CardinalityType DEF Past
  <2>2. QED  BY <1>4, <2>1, PastFinite DEF SendInv, TypeOK
<1>6. StreamPaired'  BY DEF SendInv, StreamPaired, PairedAt
<1>7. SendInv'  BY <1>3, <1>5, <1>6 DEF SendInv, SendingPC
<1>8. QED  BY <1>2, <1>7

\* At first the semaphore is free, and the pipe is empty.
LEMMA InitSend == Init => LockInv /\ SendInv
<1> SUFFICES ASSUME Init PROVE LockInv /\ SendInv
  OBVIOUS
<1>1. Len(stream) = 0 /\ Even(0)  BY DEF Init, Even
<1>2. Sending = {}  BY ClientAssumption DEF Init, Sending
<1>3. \A c \in Smackers : pc[c] = "unborn"  BY ClientAssumption DEF Init
<1>4. QED
  BY <1>1, <1>2, <1>3, PastFinite
  DEF Init, LockInv, MutualExclusion, SendInv, StreamPaired

\* What has been written stays paired.
LEMMA PrefixStaysPaired ==
  ASSUME StreamPaired, NEW n \in Nat, n = Len(stream),
         \A i \in 1..n : stream'[i] = stream[i], NEW i \in 1..n
  PROVE  PairedAt(i)'
<1>1. PairedAt(i)  BY DEF StreamPaired
<1>2. stream'[i] = stream[i]  OBVIOUS
<1>3. CASE i % 2 = 1
  <2>1. \A j \in 1..(i - 1) : stream'[j] = stream[j]  OBVIOUS
  <2>2. QED  BY <1>1, <1>2, <1>3, <2>1 DEF PairedAt
<1>4. CASE i % 2 # 1
  <2>1. i - 1 \in 1..n  BY <1>4
  <2>2. stream'[i - 1] = stream[i - 1]  BY <2>1
  <2>3. QED  BY <1>1, <1>2, <1>4, <2>2 DEF PairedAt
<1>5. QED  BY <1>3, <1>4

\* lock_pipe_sem() is entered only by one, between two pairs.
LEMMA LockKeeps ==
  ASSUME TypeOK, LockInv, SendInv, NEW c \in Smackers, LockPipeSem(c)
  PROVE  LockInv' /\ SendInv'
<1>1. sem_val = 1 /\ sem_set = "exists" /\ sem_val' = 0 /\ stream' = stream
  BY DEF LockPipeSem, LockInv
<1>2. Sending = {} /\ Even(Len(stream))  BY <1>1 DEF LockInv
<1>3. pc' = [pc EXCEPT ![c] = "write_time"] /\ pc[c] = "lock"  BY DEF LockPipeSem
<1>4. Sending' = {c}  BY <1>2, <1>3 DEF Sending, TypeOK
<1>5. Past' = Past  BY <1>3 DEF Past, TypeOK
<1>6. LockInv'  BY <1>1, <1>4 DEF LockInv, MutualExclusion
<1>7. StreamPaired'  BY <1>1 DEF SendInv, StreamPaired, PairedAt
<1>8. SendInv'  BY <1>1, <1>2, <1>3, <1>5, <1>7 DEF SendInv, TypeOK
<1>9. QED  BY <1>6, <1>8

\* unlock_pipe_sem() comes after a whole pair.
LEMMA UnlockKeeps ==
  ASSUME TypeOK, LockInv, SendInv, NEW c \in Smackers, UnlockPipeSem(c)
  PROVE  LockInv' /\ SendInv'
<1>1. pc' = [pc EXCEPT ![c] = "exit"] /\ pc[c] = "unlock" /\ stream' = stream
      /\ sem_set = "exists" /\ sem_set' = "exists" /\ sem_val' = sem_val + 1
  BY DEF UnlockPipeSem
<1>2. c \in Sending /\ Even(Len(stream))  BY <1>1 DEF Sending, SendInv
<1>3. sem_val' = 1  BY <1>1, <1>2 DEF LockInv
<1>4. Sending' = {}  BY <1>1, <1>2 DEF Sending, LockInv, MutualExclusion, TypeOK
<1>5. Past' = Past  BY <1>1 DEF Past, TypeOK
<1>6. LockInv'  BY <1>1, <1>2, <1>3, <1>4 DEF LockInv, MutualExclusion
<1>7. StreamPaired'  BY <1>1 DEF SendInv, StreamPaired, PairedAt
<1>8. SendInv'  BY <1>1, <1>2, <1>5, <1>7 DEF SendInv, TypeOK
<1>9. QED  BY <1>6, <1>8

\* A connect time begins a pair, of a smacker that has sent nothing yet.
LEMMA WriteTimeKeeps ==
  ASSUME TypeOK, ProgressInv, LockInv, SendInv, NEW c \in Smackers, WriteConnectTime(c)
  PROVE  LockInv' /\ SendInv'
<1> DEFINE n == Len(stream)
<1>1. pc' = [pc EXCEPT ![c] = "write_report"] /\ pc[c] = "write_time"
      /\ sem_set' = sem_set /\ sem_val' = sem_val
      /\ Write(c, "time", connect_time[c])
  BY DEF WriteConnectTime
<1>2. connect_time[c] \in Nat  BY <1>1, ClientAssumption DEF ProgressInv
<1>3. /\ stream' \in Seq(Messages) /\ Len(stream') = n + 1
      /\ \A i \in 1..n : stream'[i] = stream[i]
      /\ stream'[n + 1] = [kind |-> "time", from |-> c, val |-> connect_time[c]]
  BY <1>1, <1>2, WriteAppends DEF TypeOK
<1>4. n \in Nat /\ Even(n) /\ ~Even(n + 1)  BY <1>1, EvenFlips DEF SendInv, TypeOK
<1>5. c \in Sending /\ Sending' = Sending  BY <1>1 DEF Sending, TypeOK
<1>6. sem_set = "exists" => sem_val # 1  BY <1>5 DEF LockInv
<1>7. LockInv'  BY <1>1, <1>5, <1>6 DEF LockInv, MutualExclusion
<1>8. c \notin Past /\ Past' = Past \cup {c}  BY <1>1 DEF Past, TypeOK
<1>9. Cardinality(Past') = Cardinality(Past) + 1  BY <1>8, PastFinite, FS_AddElement
<1>10. \A i \in 1..n : stream[i].from # c  BY <1>8 DEF SendInv
<1>11. StreamPaired'
  <2> SUFFICES ASSUME NEW i \in 1..(n + 1) PROVE  PairedAt(i)'
    BY <1>3 DEF StreamPaired
  <2>1. CASE i = n + 1
    <3>1. i % 2 = 1  BY <2>1, <1>4 DEF Even
    <3>2. QED  BY <2>1, <3>1, <1>3, <1>4, <1>10 DEF PairedAt
  <2>2. CASE i \in 1..n
    BY <2>2, <1>3, <1>4, PrefixStaysPaired DEF SendInv
  <2>3. QED  BY <2>1, <2>2, <1>4
<1>12. \A i \in 1..(n + 1) : stream'[i].from \in Past'
  BY <1>3, <1>4, <1>8 DEF SendInv
<1>13. \A d \in Smackers : /\ pc'[d] \notin {"write_time", "unlock"}
                           /\ pc'[d] = "write_report" => d = c
  BY <1>1, <1>5 DEF Sending, LockInv, MutualExclusion, TypeOK
<1>14. n + 1 <= 2 * Cardinality(Past')  BY <1>4, <1>9, PastFinite DEF SendInv
<1>15. SendInv'  BY <1>3, <1>4, <1>11, <1>12, <1>13, <1>14 DEF SendInv
<1>16. QED  BY <1>7, <1>15

\* An odd number below an even one is not next to equal.
LEMMA OddBelowEven ==
  ASSUME NEW n \in Nat, NEW k \in Nat, ~Even(n), n <= 2 * k
  PROVE  n + 1 <= 2 * k
<1>1. (2 * k) % 2 = 0  OBVIOUS
<1>2. n # 2 * k  BY <1>1 DEF Even
<1>3. QED  BY <1>2

\* A report completes the pair its sender has begun.
LEMMA FdSendKeeps ==
  ASSUME TypeOK, LockInv, SendInv, NEW c \in Smackers, FdSend(c)
  PROVE  LockInv' /\ SendInv'
<1> DEFINE n == Len(stream)
<1>1. pc' = [pc EXCEPT ![c] = "unlock"] /\ pc[c] = "write_report"
      /\ sem_set' = sem_set /\ sem_val' = sem_val
      /\ Write(c, "report", num_queries[c])
  BY DEF FdSend
<1>2. num_queries[c] \in Nat  BY DEF TypeOK
<1>3. /\ stream' \in Seq(Messages) /\ Len(stream') = n + 1
      /\ \A i \in 1..n : stream'[i] = stream[i]
      /\ stream'[n + 1] = [kind |-> "report", from |-> c, val |-> num_queries[c]]
  BY <1>1, <1>2, WriteAppends DEF TypeOK
<1>4. n \in Nat /\ ~Even(n) /\ Even(n + 1) /\ n > 0 /\ stream[n].from = c
  <2>1. n \in Nat  BY DEF TypeOK
  <2>2. ~Even(n) /\ stream[n].from = c  BY <1>1 DEF SendInv
  <2>3. Even(n + 1)  BY <2>1, <2>2, EvenFlips
  <2>4. n # 0  BY <2>2 DEF Even
  <2>5. QED  BY <2>1, <2>2, <2>3, <2>4
<1>5. c \in Sending /\ Sending' = Sending  BY <1>1 DEF Sending, TypeOK
<1>6. sem_set = "exists" => sem_val # 1  BY <1>5 DEF LockInv
<1>7. LockInv'  BY <1>1, <1>5, <1>6 DEF LockInv, MutualExclusion
<1>8. Past' = Past /\ c \in Past  BY <1>1 DEF Past, TypeOK
<1>11. StreamPaired'
  <2> SUFFICES ASSUME NEW i \in 1..(n + 1) PROVE  PairedAt(i)'
    BY <1>3 DEF StreamPaired
  <2>1. CASE i = n + 1
    <3>1. i % 2 # 1  BY <2>1, <1>4 DEF Even
    <3>2. stream'[n] = stream[n]  BY <1>3, <1>4
    <3>3. QED  BY <2>1, <3>1, <3>2, <1>3, <1>4 DEF PairedAt
  <2>2. CASE i \in 1..n
    BY <2>2, <1>3, <1>4, PrefixStaysPaired DEF SendInv
  <2>3. QED  BY <2>1, <2>2, <1>4
<1>12. \A i \in 1..(n + 1) : stream'[i].from \in Past'
  BY <1>3, <1>4, <1>8 DEF SendInv
<1>13. \A d \in Smackers : pc'[d] \notin {"write_time", "write_report"}
  BY <1>1, <1>5 DEF Sending, LockInv, MutualExclusion, TypeOK
<1>14. n + 1 <= 2 * Cardinality(Past')
  <2>1. n <= 2 * Cardinality(Past) /\ Cardinality(Past) \in Nat  BY PastFinite DEF SendInv
  <2>2. n + 1 <= 2 * Cardinality(Past)  BY <1>4, <2>1, OddBelowEven
  <2>3. QED  BY <2>2, <1>8
<1>15. SendInv'  BY <1>3, <1>4, <1>11, <1>12, <1>13, <1>14 DEF SendInv
<1>16. QED  BY <1>7, <1>15

\* Every step keeps the lock and the pairs in the pipe.
LEMMA NextSend ==
  ASSUME TypeOK, TypeOK', ProgressInv, LockInv, SendInv, [Next]_vars
  PROVE  LockInv' /\ SendInv'
<1> USE ClientAssumption DEF PastPC, SendingPC
<1>1. CASE UNCHANGED vars \/ Finished
  BY <1>1, QuietStep DEF Finished
<1>2. CASE ForkStep
  <2>1. ASSUME NEW c \in Smackers, Fork(c)
        PROVE  LockInv' /\ SendInv'
    <3>1. pc[c] = "unborn"  BY <2>1 DEF Fork, ProgressInv
    <3>2. QED  BY <2>1, <3>1, QuietStep DEF Fork, TypeOK
  <2>2. ASSUME NEW c \in Smackers, ForkFails(c)
        PROVE  LockInv' /\ SendInv'
    BY <2>2, QuietStep DEF ForkFails
  <2>3. CASE CreateThreadsReturns
    BY <2>3, QuietStep DEF CreateThreadsReturns, TypeOK
  <2>4. QED  BY <1>2, <2>1, <2>2, <2>3 DEF ForkStep
<1>3. ASSUME NEW p \in Procs, WorkStep(p)
      PROVE  LockInv' /\ SendInv'
  <2>1. CASE Connect(p)
    BY <2>1, QuietStep DEF Connect, TypeOK
  <2>2. CASE ConnectFails(p)
    BY <2>2, QuietStep DEF ConnectFails, TypeOK
  <2>3. CASE FireShot(p)
    BY <2>3, QuietStep DEF FireShot, TypeOK
  <2>4. CASE QueryFails(p)
    BY <2>4, QuietStep DEF QueryFails, TypeOK
  <2>5. CASE BarrelUnloaded(p)
    BY <2>5, QuietStep DEF BarrelUnloaded, TypeOK
  <2>6. QED  BY <1>3, <2>1, <2>2, <2>3, <2>4, <2>5 DEF WorkStep
<1>4. ASSUME NEW c \in Smackers, SendStep(c)
      PROVE  LockInv' /\ SendInv'
  <2>1. CASE WriteConnectTime(c)  BY <2>1, WriteTimeKeeps
  <2>2. CASE FdSend(c)            BY <2>2, FdSendKeeps
  <2>3. CASE LockPipeSem(c)       BY <2>3, LockKeeps
  <2>4. CASE UnlockPipeSem(c)     BY <2>4, UnlockKeeps
  <2>5. CASE ChildReturns(c) \/ SelectWritable(c) \/ SmackerExits(c) \/ SigPipe(c)
    BY <2>5, QuietStep DEF ChildReturns, SelectWritable, SmackerExits, SigPipe, TypeOK
  <2>6. CASE LockFails(c) \/ UnlockFails(c) \/ FdSendOverflows(c)
    BY <2>6, QuietStep DEF LockFails, UnlockFails, FdSendOverflows, TypeOK
  <2>7. QED  BY <1>4, <2>1, <2>2, <2>3, <2>4, <2>5, <2>6 DEF SendStep
<1>5. CASE CollectStep
  <2>1. CASE ReadConnectTime
    BY <2>1, QuietStep DEF ReadConnectTime, TypeOK
  <2>2. CASE UpdateFromFd
    BY <2>2, QuietStep DEF UpdateFromFd, TypeOK
  <2>3. CASE Wait4NoChild \/ ReadEof
    BY <2>3, QuietStep DEF Wait4NoChild, ReadEof, TypeOK
  <2>4. ASSUME NEW c \in Smackers, Wait4(c)
        PROVE  LockInv' /\ SendInv'
    BY <2>4, QuietStep DEF Wait4, TypeOK
  <2>5. QED  BY <1>5, <2>1, <2>2, <2>3, <2>4 DEF CollectStep
<1>6. QED  BY <1>1, <1>2, <1>3, <1>4, <1>5 DEF Next

\* A smacker writes its two messages without another writing between them,
\* even while die() is removing the semaphore: nobody can lock what is gone.
THEOREM LockExcludes == Spec => []MutualExclusion
<1> DEFINE Inv == TypeOK /\ ProgressInv /\ LockInv /\ SendInv
<1>1. Init => Inv  BY InitTypeOK, InitSend
<1>2. Inv /\ [Next]_vars => Inv'  BY NextTypeOK, NextSend
<1>3. Inv => MutualExclusion  BY DEF LockInv
<1>4. QED  BY <1>1, <1>2, <1>3, PTL DEF Spec

\* The reader may trust the order of what it reads.
THEOREM PipeStaysPaired == Spec => []StreamPaired
<1> DEFINE Inv == TypeOK /\ ProgressInv /\ LockInv /\ SendInv
<1>1. Init => Inv  BY InitTypeOK, InitSend
<1>2. Inv /\ [Next]_vars => Inv'  BY NextTypeOK, NextSend
<1>3. Inv => StreamPaired  BY DEF SendInv
<1>4. QED  BY <1>1, <1>2, <1>3, PTL DEF Spec

-----------------------------------------------------------------------------
(***************************************************************************)
(* How far the Reporter has read.                                          *)
(***************************************************************************)
\* The children reaped can be counted.
LEMMA ReapedFinite == IsFiniteSet(Reaped) /\ Cardinality(Reaped) \in Nat
  BY ClientAssumption, FS_Subset, FS_CardinalityType DEF Reaped

\* At first nothing is read, and nobody reaped.
LEMMA InitRead == Init => ReadInv
<1> SUFFICES ASSUME Init PROVE ReadInv
  OBVIOUS
<1>1. Reaped = {}  BY ClientAssumption DEF Init, Reaped
<1>2. nread = 0 /\ pc[Reporter] = "fork"  BY DEF Init
<1>3. QED  BY <1>1, <1>2, ReapedFinite DEF ReadInv, ReadsArePaced

\* A smacker's own step: while there is one to take, neither has the stream
\* ended nor the Reporter been told ECHILD.
LEMMA SmackerStep ==
  ASSUME TypeOK, ReadInv, NEW c \in Smackers, NEW l, l # "reaped",
         pc' = [pc EXCEPT ![c] = l], nread' = nread,
         \/ pc[Reporter] = "fork" /\ pc[c] = "unborn"
         \/ pc[c] \notin {"unborn", "exited", "dead", "reaped"}
  PROVE  ReadInv'
<1> USE ClientAssumption
<1>1. pc'[Reporter] = pc[Reporter]  BY DEF TypeOK
<1>2. Reaped' = Reaped  BY DEF Reaped, TypeOK
<1>3. pc[Reporter] # "fork" => ~WriteEndsClosed  BY DEF WriteEndsClosed
<1>4. pc[Reporter] # "done"  BY DEF ReadInv
<1>5. QED  BY <1>1, <1>2, <1>3, <1>4 DEF ReadInv, ReadsArePaced, AtEnd

\* The Reporter's own step, before and in place of collecting.
LEMMA ReporterStep ==
  ASSUME TypeOK, ReadInv, NEW l \in {"connect", "barrel", "wait", "dead"},
         pc' = [pc EXCEPT ![Reporter] = l], nread' = nread,
         pc[Reporter] \in {"fork", "connect", "barrel"}
  PROVE  ReadInv'
<1> USE ClientAssumption
<1>1. pc'[Reporter] = l /\ nread' = 0  BY DEF TypeOK, ReadInv
<1>2. Reaped' = {}  BY DEF Reaped, TypeOK, ReadInv
<1>3. Cardinality(Reaped') = 0  BY <1>2, FS_EmptySet
<1>4. QED  BY <1>1, <1>2, <1>3 DEF ReadInv, ReadsArePaced

\* A child reaped lets the Reporter read one pair more.
LEMMA Wait4Keeps ==
  ASSUME TypeOK, ReadInv, NEW c \in Smackers, Wait4(c)
  PROVE  ReadInv'
<1> USE ClientAssumption
<1>1. /\ pc[Reporter] = "wait" /\ pc[c] \in {"exited", "dead"}
      /\ pc' = [pc EXCEPT ![c] = "reaped", ![Reporter] = "select"]
      /\ nread' = nread /\ stream' = stream
  BY DEF Wait4
<1>2. pc'[Reporter] = "select"  BY <1>1 DEF TypeOK
<1>3. Reaped' = Reaped \cup {c} /\ c \notin Reaped  BY <1>1 DEF Reaped, TypeOK
<1>4. Cardinality(Reaped') = Cardinality(Reaped) + 1
  BY <1>3, ReapedFinite, FS_AddElement
<1>5. AtEnd => AtEnd'  BY <1>1 DEF AtEnd, WriteEndsClosed, TypeOK
<1>6. nread = 2 * Cardinality(Reaped) \/ AtEnd  BY <1>1 DEF ReadInv
<1>7. QED
  BY <1>1, <1>2, <1>4, <1>5, <1>6, ReapedFinite DEF ReadInv, ReadsArePaced, TypeOK

\* ECHILD: everybody past a write() is reaped, so the stream is no longer than
\* the two messages per reaped child that have been read.
LEMMA NoChildKeeps ==
  ASSUME TypeOK, SendInv, ReadInv, Wait4NoChild
  PROVE  ReadInv'
<1> USE ClientAssumption
<1>1. /\ pc[Reporter] = "wait" /\ \A c \in Smackers : pc[c] \in {"unborn", "reaped"}
      /\ pc' = [pc EXCEPT ![Reporter] = "done"]
      /\ nread' = nread /\ stream' = stream
  BY DEF Wait4NoChild
<1>2. pc'[Reporter] = "done" /\ \A c \in Smackers : pc'[c] = pc[c]
  BY <1>1 DEF TypeOK
<1>3. Reaped' = Reaped /\ Past = Reaped  BY <1>1, <1>2 DEF Reaped, Past
<1>4. Len(stream) <= 2 * Cardinality(Reaped)  BY <1>3 DEF SendInv
<1>5. nread = 2 * Cardinality(Reaped) \/ nread = Len(stream)
  BY <1>1 DEF ReadInv, AtEnd
<1>6. nread = Len(stream)  BY <1>4, <1>5, ReapedFinite DEF TypeOK
<1>7. QED  BY <1>1, <1>2, <1>3, <1>6 DEF ReadInv, ReadsArePaced

\* A read brings the Reporter nearer to the pair of the child it reaped.
LEMMA ReadsKeep ==
  ASSUME TypeOK, ReadInv, ReadConnectTime \/ UpdateFromFd \/ ReadEof
  PROVE  ReadInv'
<1> USE ClientAssumption
<1> DEFINE K == Cardinality(Reaped)
<1>1. K \in Nat /\ nread \in Nat  BY ReapedFinite DEF TypeOK
<1>2. \A c \in Smackers : pc'[c] = pc[c]
  BY DEF ReadConnectTime, UpdateFromFd, ReadEof, TypeOK
<1>3. Reaped' = Reaped  BY <1>2 DEF Reaped
<1>4. CASE ReadConnectTime
  <2>1. nread' = nread + 1 /\ pc'[Reporter] = "read_report" /\ nread = 2 * K - 2
    BY <1>4 DEF ReadConnectTime, ReadInv, AtEnd, Unread, TypeOK
  <2>2. QED  BY <1>1, <1>3, <2>1 DEF ReadInv, ReadsArePaced
<1>5. CASE UpdateFromFd
  <2>1. nread' = nread + 1 /\ pc'[Reporter] = "wait" /\ nread = 2 * K - 1
    BY <1>5 DEF UpdateFromFd, ReadInv, TypeOK
  <2>2. QED  BY <1>1, <1>3, <2>1 DEF ReadInv, ReadsArePaced
<1>6. CASE ReadEof
  <2>1. nread' = nread /\ pc'[Reporter] = "wait" /\ stream' = stream
    BY <1>6 DEF ReadEof, TypeOK
  <2>2. AtEnd'
    BY <1>2, <1>6, <2>1 DEF ReadEof, AtEnd, WriteEndsClosed, Unread, TypeOK
  <2>3. QED  BY <1>3, <2>1, <2>2 DEF ReadInv, ReadsArePaced
<1>7. QED  BY <1>4, <1>5, <1>6

\* Every step keeps the number of reads and of children reaped in step.
LEMMA NextRead ==
  ASSUME TypeOK, ProgressInv, SendInv, ReadInv, [Next]_vars
  PROVE  ReadInv'
<1> USE ClientAssumption
<1>1. CASE UNCHANGED vars \/ Finished
  BY <1>1 DEF Finished, ReadInv, ReadsArePaced, Reaped, AtEnd, WriteEndsClosed
<1>2. CASE ForkStep
  <2>1. ASSUME NEW c \in Smackers, Fork(c)
        PROVE  ReadInv'
    <3>1. pc[c] = "unborn"  BY <2>1 DEF Fork, ProgressInv
    <3>2. QED  BY <2>1, <3>1, SmackerStep DEF Fork
  <2>2. ASSUME NEW c \in Smackers, ForkFails(c)
        PROVE  ReadInv'
    BY <2>2 DEF ForkFails, ReadInv, ReadsArePaced, Reaped, AtEnd, WriteEndsClosed
  <2>3. CASE CreateThreadsReturns
    BY <2>3, ReporterStep DEF CreateThreadsReturns
  <2>4. QED  BY <1>2, <2>1, <2>2, <2>3 DEF ForkStep
<1>3. ASSUME NEW c \in Smackers, WorkStep(c)
      PROVE  ReadInv'
  <2>1. CASE Connect(c)         BY <2>1, SmackerStep DEF Connect
  <2>2. CASE ConnectFails(c)    BY <2>2, SmackerStep DEF ConnectFails
  <2>3. CASE FireShot(c)
    BY <2>3 DEF FireShot, ReadInv, ReadsArePaced, Reaped, AtEnd, WriteEndsClosed
  <2>4. CASE QueryFails(c)      BY <2>4, SmackerStep DEF QueryFails
  <2>5. CASE BarrelUnloaded(c)  BY <2>5, SmackerStep DEF BarrelUnloaded
  <2>6. QED  BY <1>3, <2>1, <2>2, <2>3, <2>4, <2>5 DEF WorkStep
<1>4. CASE WorkStep(Reporter)
  <2>1. CASE Connect(Reporter)         BY <2>1, ReporterStep DEF Connect
  <2>2. CASE ConnectFails(Reporter)    BY <2>2, ReporterStep DEF ConnectFails
  <2>3. CASE FireShot(Reporter)
    BY <2>3 DEF FireShot, ReadInv, ReadsArePaced, Reaped, AtEnd, WriteEndsClosed
  <2>4. CASE QueryFails(Reporter)      BY <2>4, ReporterStep DEF QueryFails
  <2>5. CASE BarrelUnloaded(Reporter)  BY <2>5, ReporterStep DEF BarrelUnloaded
  <2>6. QED  BY <1>4, <2>1, <2>2, <2>3, <2>4, <2>5 DEF WorkStep
<1>5. ASSUME NEW c \in Smackers, SendStep(c)
      PROVE  ReadInv'
  <2>1. CASE ChildReturns(c) \/ SelectWritable(c) \/ LockPipeSem(c)
    BY <2>1, SmackerStep DEF ChildReturns, SelectWritable, LockPipeSem
  <2>2. CASE WriteConnectTime(c) \/ FdSend(c) \/ UnlockPipeSem(c) \/ SmackerExits(c)
    BY <2>2, SmackerStep DEF WriteConnectTime, FdSend, UnlockPipeSem, SmackerExits
  <2>3. CASE LockFails(c) \/ UnlockFails(c) \/ FdSendOverflows(c) \/ SigPipe(c)
    BY <2>3, SmackerStep DEF LockFails, UnlockFails, FdSendOverflows, SigPipe
  <2>4. QED  BY <1>5, <2>1, <2>2, <2>3 DEF SendStep
<1>6. CASE CollectStep
  BY <1>6, Wait4Keeps, NoChildKeeps, ReadsKeep DEF CollectStep
<1>7. QED  BY <1>1, <1>2, <1>3, <1>4, <1>5, <1>6 DEF Next

\* When wait4() says ECHILD, every report that was sent has been merged.
THEOREM EveryReportMerged == Spec => []NoReportLost
<1> DEFINE Inv == TypeOK /\ ProgressInv /\ LockInv /\ SendInv /\ ReadInv
<1>1. Init => Inv  BY InitTypeOK, InitSend, InitRead
<1>2. Inv /\ [Next]_vars => Inv'  BY NextTypeOK, NextSend, NextRead
<1>3. Inv => NoReportLost  BY DEF ReadInv, NoReportLost
<1>4. QED  BY <1>1, <1>2, <1>3, PTL DEF Spec

\* A message at an odd place is a connect time, and select() is for one.
LEMMA Aligned == ASSUME TypeOK, SendInv, ReadInv PROVE ReaderAligned
<1> SUFFICES ASSUME Unread > 0
             PROVE  /\ pc[Reporter] = "select"      => stream[nread + 1].kind = "time"
                    /\ pc[Reporter] = "read_report" => stream[nread + 1].kind = "report"
  BY DEF ReaderAligned
<1> DEFINE K == Cardinality(Reaped)
<1>1. K \in Nat /\ nread + 1 \in 1..Len(stream)
  BY ReapedFinite, ReadTyped DEF TypeOK
<1>2. PairedAt(nread + 1)  BY <1>1 DEF SendInv, StreamPaired
<1>3. ASSUME pc[Reporter] = "select" PROVE stream[nread + 1].kind = "time"
  <2>1. nread + 1 = 2 * K - 1
    <3>1. nread # Len(stream)  BY <1>1
    <3>2. nread = 2 * K - 2  BY <1>3, <3>1 DEF ReadInv, AtEnd
    <3>3. QED  BY <1>1, <3>2 DEF TypeOK
  <2>2. (nread + 1) % 2 = 1  BY <1>1, <2>1
  <2>3. QED  BY <1>2, <2>2 DEF PairedAt
<1>4. ASSUME pc[Reporter] = "read_report" PROVE stream[nread + 1].kind = "report"
  <2>1. nread + 1 = 2 * K  BY <1>1, <1>4 DEF ReadInv, TypeOK
  <2>2. (nread + 1) % 2 # 1  BY <1>1, <2>1
  <2>3. QED  BY <1>2, <2>2 DEF PairedAt
<1>5. QED  BY <1>3, <1>4

\* The Reporter takes each message for what it is.
THEOREM ReaderStaysAligned == Spec => []ReaderAligned
<1> DEFINE Inv == TypeOK /\ ProgressInv /\ LockInv /\ SendInv /\ ReadInv
<1>1. Init => Inv  BY InitTypeOK, InitSend, InitRead
<1>2. Inv /\ [Next]_vars => Inv'  BY NextTypeOK, NextSend, NextRead
<1>3. Inv => ReaderAligned  BY Aligned
<1>4. QED  BY <1>1, <1>2, <1>3, PTL DEF Spec

-----------------------------------------------------------------------------
(***************************************************************************)
(* What the Reporter has counted.                                          *)
(***************************************************************************)
\* Halves of the numbers of messages read.
LEMMA Halves ==
  ASSUME NEW k \in Nat
  PROVE  /\ (2 * k) \div 2 = k /\ (2 * k + 1) \div 2 = k /\ (2 * k + 2) \div 2 = k + 1
         /\ Even(2 * k) /\ ~Even(2 * k + 1)
  BY DEF Even

\* Half of an even number is that of its successor.
LEMMA EvenHalf ==
  ASSUME NEW n \in Nat, Even(n)
  PROVE  (n + 1) \div 2 = n \div 2
  BY DEF Even

\* One more report of q queries.
LEMMA OneMore == ASSUME NEW q \in Nat, NEW k \in Nat PROVE q * (1 + k) = q * (1 + (k - 1)) + q
<1>1. q * (1 + k) = q + q * k /\ q * (1 + (k - 1)) = q * k  BY SMT
<1>2. QED  BY <1>1

\* A step that writes nothing and moves no smacker out of the middle.
LEMMA QuietCount ==
  ASSUME StreamCount, stream' = stream, setup' = setup,
         pc[Reporter] = "dead" => pc'[Reporter] = "dead",
         \A c \in Smackers : pc[c] = "write_report" => pc'[c] = "write_report"
  PROVE  StreamCount'
  BY DEF StreamCount, ReportFits

\* The steps of the smackers that write, or give up in the middle.
LEMMA SendCount ==
  ASSUME TypeOK, ProgressInv, SendInv, ReadInv, StreamCount, NEW c \in Smackers, SendStep(c)
  PROVE  StreamCount'
<1> USE ClientAssumption
<1>0. setup' = setup  BY DEF SendStep
<1>1. CASE WriteConnectTime(c)
  <2>1. connect_time[c] \in Nat  BY <1>1 DEF WriteConnectTime, ProgressInv
  <2>2. /\ Len(stream') = Len(stream) + 1
        /\ \A i \in 1..Len(stream) : stream'[i] = stream[i]
        /\ stream'[Len(stream')].kind = "time"
    <3>1. Write(c, "time", connect_time[c])  BY <1>1 DEF WriteConnectTime
    <3>2. /\ Len(stream') = Len(stream) + 1
          /\ \A i \in 1..Len(stream) : stream'[i] = stream[i]
          /\ stream'[Len(stream')] = [kind |-> "time", from |-> c, val |-> connect_time[c]]
      BY <2>1, <3>1, WriteAppends DEF TypeOK
    <3>3. QED  BY <3>2
  <2>3. pc'[c] = "write_report"  BY <1>1 DEF WriteConnectTime, TypeOK
  <2>4. Len(stream) \in Nat  BY DEF TypeOK
  <2>5. \A i \in 1..Len(stream') : stream'[i].kind = "report" => stream'[i].val = QueriesPerClient
    BY <2>2, <2>4 DEF StreamCount
  <2>6. QED  BY <2>3, <2>5 DEF StreamCount
<1>2. CASE FdSend(c)
  <2>1. num_queries[c] \in Nat /\ num_queries[c] = QueriesPerClient
    BY <1>2 DEF FdSend, ProgressInv, TypeOK
  <2>2. /\ Len(stream') = Len(stream) + 1
        /\ \A i \in 1..Len(stream) : stream'[i] = stream[i]
        /\ stream'[Len(stream')].val = QueriesPerClient
    <3>1. Write(c, "report", num_queries[c])  BY <1>2 DEF FdSend
    <3>2. /\ Len(stream') = Len(stream) + 1
          /\ \A i \in 1..Len(stream) : stream'[i] = stream[i]
          /\ stream'[Len(stream')] = [kind |-> "report", from |-> c, val |-> num_queries[c]]
      BY <2>1, <3>1, WriteAppends DEF TypeOK
    <3>3. QED  BY <2>1, <3>2
  <2>3. Len(stream) \in Nat /\ ~Even(Len(stream))  BY <1>2 DEF FdSend, SendInv, TypeOK
  <2>4. Even(Len(stream'))  BY <2>2, <2>3, EvenFlips
  <2>5. \A i \in 1..Len(stream') : stream'[i].kind = "report" => stream'[i].val = QueriesPerClient
    BY <2>2, <2>3 DEF StreamCount
  <2>6. QED  BY <2>4, <2>5 DEF StreamCount
<1>3. CASE FdSendOverflows(c)
  BY <1>0, <1>3 DEF FdSendOverflows, StreamCount, ReportFits
<1>4. CASE SigPipe(c)
  <2>1. pc[Reporter] # "done"  BY <1>4 DEF SigPipe, ReadInv
  <2>2. pc[Reporter] = "dead" /\ pc'[Reporter] = "dead" /\ stream' = stream
    BY <1>4, <2>1 DEF SigPipe, ReadEndOpen, TypeOK
  <2>3. QED  BY <2>2 DEF StreamCount
<1>5. CASE ChildReturns(c) \/ SelectWritable(c) \/ LockPipeSem(c) \/ LockFails(c)
  BY <1>0, <1>5, QuietCount
  DEF ChildReturns, SelectWritable, LockPipeSem, LockFails, TypeOK
<1>6. CASE UnlockPipeSem(c) \/ UnlockFails(c) \/ SmackerExits(c)
  BY <1>0, <1>6, QuietCount DEF UnlockPipeSem, UnlockFails, SmackerExits, TypeOK
<1>7. QED  BY <1>1, <1>2, <1>3, <1>4, <1>5, <1>6 DEF SendStep

\* The two reads: a connect time counts one client, a report its queries.
LEMMA ReadsCount ==
  ASSUME TypeOK, SendInv, ReadInv, StreamCount, ReporterCount, setup' = setup,
         ReadConnectTime \/ UpdateFromFd
  PROVE  ReporterCount'
<1> USE ClientAssumption
<1> DEFINE K == Cardinality(Reaped)
<1>1. K \in Nat /\ nread \in Nat /\ setup.table_connects \in Nat
  BY ReapedFinite DEF TypeOK, SetupType
<1>2. CASE ReadConnectTime
  <2>1. /\ nread' = nread + 1 /\ pc[Reporter] = "select" /\ pc'[Reporter] = "read_report"
        /\ num_reported_clients' = num_reported_clients + 1 /\ num_queries' = num_queries
    BY <1>2 DEF ReadConnectTime, TypeOK
  <2>2. nread = 2 * K - 2  BY <1>2 DEF ReadConnectTime, ReadInv, AtEnd, Unread, TypeOK
  <2>3. PICK k \in Nat : k = K - 1 /\ nread = 2 * k  BY <1>1, <2>2
  <2>4. nread \div 2 = K - 1 /\ (nread + 1) \div 2 = K - 1 /\ (nread + 2) \div 2 = K
    <3>1. (2 * k) \div 2 = k /\ (2 * k + 1) \div 2 = k /\ (2 * k + 2) \div 2 = k + 1  BY Halves
    <3>2. QED  BY <1>1, <2>3, <3>1
  <2>5. nread' \div 2 = nread \div 2 /\ (nread' + 1) \div 2 = (nread + 1) \div 2 + 1
    BY <1>1, <2>1, <2>4
  <2>6. /\ num_reported_clients = setup.table_connects + 1 + ((nread + 1) \div 2)
        /\ num_queries[Reporter] = QueriesPerClient * (1 + (nread \div 2))
    BY <2>1 DEF ReporterCount
  <2>7. num_reported_clients' = setup.table_connects + 1 + ((nread' + 1) \div 2)
    BY <1>1, <2>1, <2>4, <2>5, <2>6
  <2>8. num_queries'[Reporter] = QueriesPerClient * (1 + (nread' \div 2))
    BY <2>1, <2>5, <2>6
  <2>9. QED  BY <2>1, <2>7, <2>8 DEF ReporterCount
<1>3. CASE UpdateFromFd
  <2>1. /\ nread' = nread + 1 /\ pc[Reporter] = "read_report" /\ pc'[Reporter] = "wait"
        /\ num_reported_clients' = num_reported_clients
        /\ num_queries'[Reporter] = num_queries[Reporter] + stream[nread + 1].val
    BY <1>3 DEF UpdateFromFd, TypeOK
  <2>2. nread = 2 * K - 1  BY <2>1 DEF ReadInv
  <2>3. PICK k \in Nat : k = K - 1 /\ nread = 2 * k + 1  BY <1>1, <2>2
  <2>4. nread \div 2 = K - 1 /\ (nread + 1) \div 2 = K /\ (nread + 2) \div 2 = K
    <3>1. (2 * k + 1) \div 2 = k /\ (2 * k + 2) \div 2 = k + 1  BY Halves
    <3>2. (2 * (k + 1)) \div 2 = k + 1 /\ (2 * (k + 1) + 1) \div 2 = k + 1  BY Halves
    <3>3. QED  BY <1>1, <2>3, <3>1, <3>2
  <2>5. stream[nread + 1].val = QueriesPerClient
    <3>1. nread + 1 \in 1..Len(stream)  BY <1>3, ReadTyped DEF UpdateFromFd, TypeOK
    <3>2. (nread + 1) % 2 # 1  BY <1>1, <2>3
    <3>3. stream[nread + 1].kind = "report"
      BY <3>1, <3>2 DEF SendInv, StreamPaired, PairedAt
    <3>4. QED  BY <3>1, <3>3 DEF StreamCount
  <2>6. /\ num_reported_clients = setup.table_connects + 1 + K
        /\ num_queries[Reporter] = QueriesPerClient * (1 + (K - 1))
    BY <2>1, <2>4 DEF ReporterCount
  <2>7. num_queries'[Reporter] = QueriesPerClient * (1 + K)
    BY <1>1, <2>1, <2>5, <2>6, OneMore
  <2>8. nread' \div 2 = K /\ (nread' + 1) \div 2 = K  BY <1>1, <2>1, <2>3, <2>4
  <2>9. QED  BY <2>1, <2>6, <2>7, <2>8 DEF ReporterCount
<1>4. QED  BY <1>2, <1>3

\* The steps before collecting.
LEMMA ReporterWorks ==
  ASSUME TypeOK, ReadInv, ReporterCount, setup' = setup, WorkStep(Reporter)
  PROVE  ReporterCount'
<1> USE ClientAssumption
<1>0. nread' = nread  BY DEF WorkStep, Connect, ConnectFails, FireShot, QueryFails, BarrelUnloaded
<1>1. CASE Connect(Reporter)
  BY <1>0, <1>1 DEF Connect, ReporterCount, TypeOK
<1>2. CASE ConnectFails(Reporter) \/ QueryFails(Reporter)
  <2>1. pc'[Reporter] = "dead"  BY <1>2 DEF ConnectFails, QueryFails, TypeOK
  <2>2. QED  BY <2>1 DEF ReporterCount
<1>3. CASE FireShot(Reporter)
  BY <1>0, <1>3 DEF FireShot, ReporterCount, TypeOK
<1>4. CASE BarrelUnloaded(Reporter)
  <2>1. /\ pc[Reporter] = "barrel" /\ pc'[Reporter] = "wait" /\ nread' = 0
        /\ num_queries' = num_queries /\ num_queries[Reporter] = QueriesPerClient
        /\ num_reported_clients' = num_reported_clients
    BY <1>0, <1>4 DEF BarrelUnloaded, ReadInv, TypeOK
  <2>2. num_reported_clients = setup.table_connects + 1  BY <2>1 DEF ReporterCount
  <2>3. 0 \div 2 = 0 /\ (0 + 1) \div 2 = 0  OBVIOUS
  <2>4. setup.table_connects \in Nat  BY DEF TypeOK, SetupType
  <2>5. QueriesPerClient * (1 + 0) = QueriesPerClient  BY SMT
  <2>6. QED  BY <2>1, <2>2, <2>3, <2>4, <2>5 DEF ReporterCount
<1>5. QED  BY <1>1, <1>2, <1>3, <1>4 DEF WorkStep

\* Every step keeps both counts.
LEMMA NextCount ==
  ASSUME TypeOK, ProgressInv, SendInv, ReadInv, CountInv, [Next]_vars
  PROVE  CountInv'
<1> USE ClientAssumption
<1>0. StreamCount /\ ReporterCount  BY DEF CountInv
<1>1. CASE UNCHANGED vars \/ Finished
  BY <1>1 DEF Finished, CountInv, StreamCount, ReporterCount, ReportFits
<1>2. CASE ForkStep
  <2>0. setup' = setup  BY <1>2 DEF ForkStep
  <2>1. ASSUME NEW c \in Smackers, Fork(c)
        PROVE  StreamCount' /\ ReporterCount'
    <3>1. pc[c] = "unborn"  BY <2>1 DEF Fork, ProgressInv
    <3>2. pc'[Reporter] = pc[Reporter]  BY <2>1 DEF Fork, TypeOK
    <3>3. StreamCount'  BY <1>0, <2>0, <2>1, <3>1, <3>2, QuietCount DEF Fork, TypeOK
    <3>4. QED  BY <1>0, <2>0, <2>1, <3>2, <3>3 DEF Fork, ReporterCount
  <2>2. ASSUME NEW c \in Smackers, ForkFails(c)
        PROVE  StreamCount' /\ ReporterCount'
    BY <1>0, <2>0, <2>2, QuietCount DEF ForkFails, ReporterCount
  <2>3. CASE CreateThreadsReturns
    <3>1. StreamCount'  BY <1>0, <2>0, <2>3, QuietCount DEF CreateThreadsReturns, TypeOK
    <3>2. QED  BY <1>0, <2>0, <2>3, <3>1 DEF CountInv, CreateThreadsReturns, ReporterCount, TypeOK
  <2>4. QED  BY <1>2, <2>1, <2>2, <2>3 DEF CountInv, ForkStep
<1>3. ASSUME NEW p \in Procs, WorkStep(p)
      PROVE  CountInv'
  <2>0. setup' = setup  BY <1>3 DEF WorkStep
  <2>1. StreamCount'
    BY <1>0, <1>3, <2>0, QuietCount
    DEF WorkStep, Connect, ConnectFails, FireShot, QueryFails, BarrelUnloaded, TypeOK
  <2>2. CASE p = Reporter  BY <1>0, <1>3, <2>0, <2>1, <2>2, ReporterWorks DEF CountInv
  <2>3. CASE p # Reporter
    <3>1. /\ pc'[Reporter] = pc[Reporter] /\ num_queries'[Reporter] = num_queries[Reporter]
          /\ num_reported_clients' = num_reported_clients /\ nread' = nread
      BY <1>3, <2>3
      DEF WorkStep, Connect, ConnectFails, FireShot, QueryFails, BarrelUnloaded, TypeOK
    <3>2. ReporterCount'  BY <1>0, <2>0, <3>1 DEF ReporterCount
    <3>3. QED  BY <2>1, <3>2 DEF CountInv
  <2>4. QED  BY <2>2, <2>3
<1>4. ASSUME NEW c \in Smackers, SendStep(c)
      PROVE  CountInv'
  <2>1. StreamCount'  BY <1>0, <1>4, SendCount
  <2>2. /\ pc'[Reporter] = pc[Reporter] /\ num_queries' = num_queries
        /\ num_reported_clients' = num_reported_clients /\ nread' = nread /\ setup' = setup
    BY <1>4 DEF SendStep, ChildReturns, SelectWritable, LockPipeSem, LockFails,
       WriteConnectTime, FdSend, FdSendOverflows, SigPipe, UnlockPipeSem, UnlockFails,
       SmackerExits, TypeOK
  <2>3. ReporterCount'  BY <1>0, <2>2 DEF ReporterCount
  <2>4. QED  BY <2>1, <2>3 DEF CountInv
<1>5. CASE CollectStep
  <2>0. setup' = setup  BY <1>5 DEF CollectStep
  <2>1. CASE ReadConnectTime \/ UpdateFromFd
    <3>1. StreamCount'
      BY <1>0, <2>0, <2>1, QuietCount DEF ReadConnectTime, UpdateFromFd, TypeOK
    <3>2. QED  BY <1>0, <2>0, <2>1, <3>1, ReadsCount DEF CountInv
  <2>2. CASE Wait4NoChild \/ ReadEof
    <3>1. StreamCount'  BY <1>0, <2>0, <2>2, QuietCount DEF Wait4NoChild, ReadEof, TypeOK
    <3>2. QED
      BY <1>0, <2>0, <2>2, <3>1 DEF CountInv, Wait4NoChild, ReadEof, ReporterCount, TypeOK
  <2>3. ASSUME NEW c \in Smackers, Wait4(c)
        PROVE  CountInv'
    <3>1. StreamCount'  BY <1>0, <2>0, <2>3, QuietCount DEF Wait4, TypeOK
    <3>2. QED  BY <1>0, <2>0, <2>3, <3>1 DEF CountInv, Wait4, ReporterCount, TypeOK
  <2>4. QED  BY <1>5, <2>1, <2>2, <2>3 DEF CollectStep
<1>6. QED  BY <1>1, <1>2, <1>3, <1>4, <1>5 DEF Next

\* At first only table sections have connected.
LEMMA InitCount == Init => CountInv
<1> SUFFICES ASSUME Init PROVE CountInv
  OBVIOUS
<1>1. Len(stream) = 0 /\ Even(0) /\ pc[Reporter] = "fork"  BY DEF Init, Even
<1>2. num_reported_clients = setup.table_connects /\ num_queries[Reporter] = 0  BY DEF Init
<1>3. QED  BY <1>1, <1>2 DEF CountInv, StreamCount, ReporterCount

\* "from N clients" and num_queries speak of the same clients, whoever dies.
THEOREM CountsStayTogether == Spec => []CountsAgree
<1> DEFINE Inv == TypeOK /\ ProgressInv /\ LockInv /\ SendInv /\ ReadInv /\ CountInv
<1>1. Init => Inv  BY InitTypeOK, InitSend, InitRead, InitCount
<1>2. Inv /\ [Next]_vars => Inv'  BY NextTypeOK, NextSend, NextRead, NextCount
<1>3. Inv => CountsAgree
  <2> SUFFICES ASSUME Inv, ReportFits, pc[Reporter] \in {"wait", "done"}
               PROVE  num_queries[Reporter] =
                        QueriesPerClient * (num_reported_clients - setup.table_connects)
    BY DEF CountsAgree
  <2>1. nread \in Nat /\ setup.table_connects \in Nat
    BY ClientAssumption DEF TypeOK, SetupType
  <2>2. Even(nread)
    <3>1. CASE nread = 2 * Cardinality(Reaped)  BY <3>1, ReapedFinite, Halves
    <3>2. CASE nread # 2 * Cardinality(Reaped)
      <4>1. nread = Len(stream) /\ \A c \in Smackers : pc[c] # "write_report"
        BY <3>2 DEF ReadInv, AtEnd, WriteEndsClosed
      <4>2. QED  BY <4>1 DEF CountInv, StreamCount
    <3>3. QED  BY <3>1, <3>2
  <2>3. (nread + 1) \div 2 = nread \div 2  BY <2>1, <2>2, EvenHalf
  <2>4. /\ num_reported_clients = setup.table_connects + 1 + ((nread + 1) \div 2)
        /\ num_queries[Reporter] = QueriesPerClient * (1 + (nread \div 2))
    BY DEF CountInv, ReporterCount
  <2>5. num_reported_clients - setup.table_connects = 1 + (nread \div 2)
    BY <2>1, <2>3, <2>4
  <2>6. QED  BY <2>4, <2>5
<1>4. QED  BY <1>1, <1>2, <1>3, PTL DEF Spec

-----------------------------------------------------------------------------
(***************************************************************************)
(* Client implements Collection.                                           *)
(***************************************************************************)
Reports(s, n) == {s[i].from : i \in {j \in 1..n : s[j].kind = "report"}}

\* The reports among the first messages depend on these only.
LEMMA SameReports ==
  ASSUME NEW s, NEW t, NEW n \in Nat, \A i \in 1..n : t[i] = s[i]
  PROVE  Reports(t, n) = Reports(s, n)
  BY DEF Reports

\* One message more is one report more, or none.
LEMMA OneMoreMessage ==
  ASSUME NEW s, NEW n \in Nat
  PROVE  /\ s[n + 1].kind = "report" => Reports(s, n + 1) = Reports(s, n) \cup {s[n + 1].from}
         /\ s[n + 1].kind # "report" => Reports(s, n + 1) = Reports(s, n)
<1>1. 1..(n + 1) = (1..n) \cup {n + 1}  OBVIOUS
<1>2. QED  BY <1>1 DEF Reports

\* Who has begun a pair has sent no report before it.
LEMMA NoReportBefore ==
  ASSUME StreamPaired, stream \in Seq(Messages), NEW n \in 1..Len(stream), ~Even(n)
  PROVE  stream[n].from \notin Reports(stream, n)
<1>1. n % 2 = 1  BY DEF Even
<1>2. stream[n].kind = "time" /\ \A j \in 1..(n - 1) : stream[j].from # stream[n].from
  BY <1>1 DEF StreamPaired, PairedAt
<1>3. QED  BY <1>2 DEF Reports

\* What the collection sees of the state.
SentNow   == Reports(stream, Len(stream))
MergedNow == Reports(stream, nread)
StateNow  == IF pc[Reporter] = "done" THEN "finished"
             ELSE IF pc[Reporter] = "dead" THEN "aborted" ELSE "collecting"
TotalNow  == num_queries[Reporter]

PromiseStep ==
  \/ /\ StateNow = "collecting" /\ TotalNow < QueriesPerClient /\ MergedNow = {}
     /\ TotalNow' = TotalNow + 1
     /\ UNCHANGED <<SentNow, MergedNow, StateNow>>
  \/ \E c \in Smackers :
       /\ StateNow # "finished" /\ c \notin SentNow
       /\ SentNow' = SentNow \cup {c}
       /\ UNCHANGED <<MergedNow, StateNow, TotalNow>>
  \/ \E c \in Smackers :
       /\ StateNow = "collecting" /\ c \in SentNow \ MergedNow /\ TotalNow >= QueriesPerClient
       /\ MergedNow' = MergedNow \cup {c}
       /\ TotalNow' = TotalNow + QueriesPerClient
       /\ UNCHANGED <<SentNow, StateNow>>
  \/ /\ StateNow = "collecting" /\ MergedNow = SentNow /\ TotalNow >= QueriesPerClient
     /\ StateNow' = "finished"
     /\ UNCHANGED <<SentNow, MergedNow, TotalNow>>
  \/ /\ StateNow = "collecting" /\ StateNow' = "aborted"
     /\ UNCHANGED <<SentNow, MergedNow, TotalNow>>

PromiseStutters == UNCHANGED <<SentNow, MergedNow, StateNow, TotalNow>>

\* These are the variables and the steps of Collection.
LEMMA PromiseMapped ==
  /\ PromiseStep => Promise!Next
  /\ PromiseStutters => UNCHANGED Promise!vars
  BY DEF PromiseStep, PromiseStutters, Promise!Next, Promise!OwnQuery, Promise!Send,
         Promise!Merge, Promise!Finish, Promise!Abort, Promise!vars,
         SentNow, MergedNow, StateNow, TotalNow, Reports, ReportedIn

\* A step that neither writes nor reads nor counts.
LEMMA Unseen ==
  ASSUME stream' = stream, nread' = nread, num_queries'[Reporter] = num_queries[Reporter],
         \/ pc'[Reporter] = pc[Reporter]
         \/ {pc[Reporter], pc'[Reporter]} \cap {"done", "dead"} = {}
  PROVE  PromiseStutters
  BY DEF PromiseStutters, SentNow, MergedNow, StateNow, TotalNow

\* create_threads(), connect() and the barrel: own queries, or an abort.
LEMMA WorkPromised ==
  ASSUME TypeOK, ReadInv, NEW p \in Procs, WorkStep(p)
  PROVE  PromiseStep \/ PromiseStutters
<1> USE ClientAssumption
<1>0. stream' = stream /\ nread' = nread
  BY DEF WorkStep, Connect, ConnectFails, FireShot, QueryFails, BarrelUnloaded
<1>1. CASE p # Reporter
  <2>1. pc'[Reporter] = pc[Reporter] /\ num_queries'[Reporter] = num_queries[Reporter]
    BY <1>1 DEF WorkStep, Connect, ConnectFails, FireShot, QueryFails, BarrelUnloaded, TypeOK
  <2>2. QED  BY <1>0, <2>1, Unseen
<1>2. CASE p = Reporter /\ (Connect(p) \/ BarrelUnloaded(p))
  <2>1. /\ num_queries'[Reporter] = num_queries[Reporter]
        /\ pc[Reporter] \in {"connect", "barrel"} /\ pc'[Reporter] \in {"barrel", "wait"}
    BY <1>2 DEF Connect, BarrelUnloaded, TypeOK
  <2>2. QED  BY <1>0, <2>1, Unseen
<1>3. CASE p = Reporter /\ FireShot(p)
  <2>1. /\ TotalNow < QueriesPerClient /\ TotalNow' = TotalNow + 1
        /\ pc[Reporter] = "barrel" /\ pc' = pc
    BY <1>3 DEF FireShot, TotalNow, TypeOK
  <2>2. MergedNow = {}
    <3>1. nread = 0  BY <2>1 DEF ReadInv
    <3>2. QED  BY <3>1 DEF MergedNow, Reports
  <2>3. UNCHANGED <<SentNow, MergedNow, StateNow>>
    BY <1>0, <2>1 DEF SentNow, MergedNow, StateNow
  <2>4. StateNow = "collecting"  BY <2>1 DEF StateNow
  <2>5. QED  BY <2>1, <2>2, <2>3, <2>4 DEF PromiseStep
<1>4. CASE p = Reporter /\ (ConnectFails(p) \/ QueryFails(p))
  <2>1. /\ pc[Reporter] \in {"connect", "barrel"} /\ pc'[Reporter] = "dead"
        /\ num_queries' = num_queries
    BY <1>4 DEF ConnectFails, QueryFails, TypeOK
  <2>2. StateNow = "collecting" /\ StateNow' = "aborted"  BY <2>1 DEF StateNow
  <2>3. UNCHANGED <<SentNow, MergedNow, TotalNow>>
    BY <1>0, <2>1 DEF SentNow, MergedNow, TotalNow
  <2>4. QED  BY <2>2, <2>3 DEF PromiseStep
<1>5. QED  BY <1>1, <1>2, <1>3, <1>4 DEF WorkStep

\* A connect time is no report yet.
LEMMA TimePromised ==
  ASSUME TypeOK, ProgressInv, NEW c \in Smackers, WriteConnectTime(c)
  PROVE  PromiseStutters
<1> USE ClientAssumption
<1> DEFINE n == Len(stream)
<1>0. n \in Nat /\ nread \in Nat /\ nread <= n  BY DEF TypeOK
<1>1. connect_time[c] \in Nat  BY DEF WriteConnectTime, ProgressInv
<1>2. Write(c, "time", connect_time[c])  BY DEF WriteConnectTime
<1>3. /\ Len(stream') = n + 1 /\ \A i \in 1..n : stream'[i] = stream[i]
      /\ stream'[Len(stream')] = [kind |-> "time", from |-> c, val |-> connect_time[c]]
  BY <1>1, <1>2, WriteAppends DEF TypeOK
<1>4. SentNow' = SentNow
  <2>1. stream'[n + 1].kind # "report"  BY <1>3
  <2>2. Reports(stream', n + 1) = Reports(stream', n)  BY <1>0, <2>1, OneMoreMessage
  <2>3. Reports(stream', n) = Reports(stream, n)  BY <1>0, <1>3, SameReports
  <2>4. QED  BY <1>3, <2>2, <2>3 DEF SentNow
<1>5. nread' = nread /\ num_queries' = num_queries /\ pc'[Reporter] = pc[Reporter]
  BY DEF WriteConnectTime, TypeOK
<1>6. MergedNow' = MergedNow
  <2>1. Reports(stream', nread) = Reports(stream, nread)  BY <1>0, <1>3, SameReports
  <2>2. QED  BY <1>5, <2>1 DEF MergedNow
<1>7. QED  BY <1>4, <1>5, <1>6 DEF PromiseStutters, StateNow, TotalNow

\* A report is handed in, by somebody who has not done so before.
LEMMA SendPromised ==
  ASSUME TypeOK, SendInv, ReadInv, NEW c \in Smackers, FdSend(c)
  PROVE  PromiseStep
<1> USE ClientAssumption
<1> DEFINE n == Len(stream)
<1>1. num_queries[c] \in Nat /\ n \in Nat /\ nread \in Nat /\ nread <= n  BY DEF TypeOK
<1>2. Write(c, "report", num_queries[c])  BY DEF FdSend
<1>3. /\ Len(stream') = n + 1 /\ \A i \in 1..n : stream'[i] = stream[i]
      /\ stream'[Len(stream')] = [kind |-> "report", from |-> c, val |-> num_queries[c]]
  BY <1>1, <1>2, WriteAppends DEF TypeOK
<1>4. c \notin SentNow
  <2>1. ~Even(n) /\ stream[n].from = c  BY DEF FdSend, SendInv
  <2>2. n # 0  BY <2>1 DEF Even
  <2>3. QED  BY <1>1, <2>1, <2>2, NoReportBefore DEF SendInv, SentNow, TypeOK
<1>5. SentNow' = SentNow \cup {c}
  <2>1. stream'[n + 1].kind = "report" /\ stream'[n + 1].from = c  BY <1>3
  <2>2. Reports(stream', n + 1) = Reports(stream', n) \cup {stream'[n + 1].from}
    BY <1>1, <2>1, OneMoreMessage
  <2>3. Reports(stream', n) = Reports(stream, n)  BY <1>1, <1>3, SameReports
  <2>4. QED  BY <1>3, <2>1, <2>2, <2>3 DEF SentNow
<1>6. nread' = nread /\ num_queries' = num_queries /\ pc'[Reporter] = pc[Reporter]
  BY DEF FdSend, TypeOK
<1>7. MergedNow' = MergedNow
  <2>1. Reports(stream', nread) = Reports(stream, nread)  BY <1>1, <1>3, SameReports
  <2>2. QED  BY <1>6, <2>1 DEF MergedNow
<1>8. StateNow # "finished" /\ StateNow' = StateNow /\ TotalNow' = TotalNow
  <2>1. pc[Reporter] # "done"  BY DEF FdSend, ReadInv
  <2>2. QED  BY <1>6, <2>1 DEF StateNow, TotalNow
<1>9. QED  BY <1>4, <1>5, <1>7, <1>8 DEF PromiseStep

\* The report read is one that has not been merged, with all its queries.
LEMMA MergePromised ==
  ASSUME TypeOK, SendInv, ReadInv, CountInv, UpdateFromFd
  PROVE  PromiseStep
<1> USE ClientAssumption
<1> DEFINE K == Cardinality(Reaped)
           c == stream[nread + 1].from
<1>1. /\ pc[Reporter] = "read_report" /\ pc'[Reporter] = "wait"
      /\ stream' = stream /\ nread' = nread + 1 /\ nread \in Nat
      /\ num_queries'[Reporter] = num_queries[Reporter] + stream[nread + 1].val
  BY DEF UpdateFromFd, TypeOK
<1>2. nread + 1 \in 1..Len(stream) /\ Len(stream) \in Nat
  BY ReadTyped DEF UpdateFromFd, TypeOK
<1>3. PICK k \in Nat : nread = 2 * k + 1
  <2>1. K \in Nat /\ nread = 2 * K - 1  BY <1>1, ReapedFinite DEF ReadInv
  <2>2. K - 1 \in Nat /\ nread = 2 * (K - 1) + 1  BY <1>1, <2>1
  <2>3. QED  BY <2>2
<1>4. ~Even(nread) /\ (nread + 1) % 2 # 1 /\ nread >= 1
  BY <1>3, Halves
<1>5. stream[nread + 1].kind = "report" /\ c = stream[nread].from
  <2>1. PairedAt(nread + 1)  BY <1>2 DEF SendInv, StreamPaired
  <2>2. nread + 1 - 1 = nread  BY <1>1
  <2>3. QED  BY <1>1, <1>4, <2>1, <2>2 DEF PairedAt
<1>6. c \notin MergedNow
  <2>1. nread \in 1..Len(stream)  BY <1>1, <1>2, <1>4
  <2>2. stream[nread].from \notin Reports(stream, nread)
    BY <1>4, <2>1, NoReportBefore DEF SendInv, TypeOK
  <2>3. QED  BY <1>5, <2>2 DEF MergedNow
<1>7. MergedNow' = MergedNow \cup {c}
  <2>1. Reports(stream, nread + 1) = Reports(stream, nread) \cup {c}
    BY <1>1, <1>5, OneMoreMessage
  <2>2. QED  BY <1>1, <2>1 DEF MergedNow
<1>8. c \in SentNow /\ c \in Smackers
  <2>1. c \in Reports(stream, Len(stream))  BY <1>2, <1>5 DEF Reports
  <2>2. stream[nread + 1] \in Messages  BY <1>2 DEF TypeOK
  <2>3. QED  BY <2>1, <2>2 DEF SentNow, Messages
<1>9. TotalNow' = TotalNow + QueriesPerClient
  <2>1. stream[nread + 1].val = QueriesPerClient
    BY <1>2, <1>5 DEF CountInv, StreamCount
  <2>2. QED  BY <1>1, <2>1 DEF TotalNow
<1>10. TotalNow >= QueriesPerClient
  <2>1. TotalNow = QueriesPerClient * (1 + (nread \div 2))
    BY <1>1 DEF CountInv, ReporterCount, TotalNow
  <2>2. nread \div 2 = k  BY <1>3, Halves
  <2>3. QueriesPerClient * (1 + k) = QueriesPerClient + QueriesPerClient * k
        /\ QueriesPerClient * k \in Nat
    BY <1>3, SMT
  <2>4. QED  BY <2>1, <2>2, <2>3
<1>11. StateNow = "collecting" /\ UNCHANGED <<SentNow, StateNow>>
  BY <1>1 DEF StateNow, SentNow
<1>12. QED  BY <1>6, <1>7, <1>8, <1>9, <1>10, <1>11 DEF PromiseStep

\* When there is no child any more, everything has been merged.
LEMMA FinishPromised ==
  ASSUME TypeOK, SendInv, ReadInv, CountInv, Wait4NoChild
  PROVE  PromiseStep
<1> USE ClientAssumption
<1>1. /\ pc[Reporter] = "wait" /\ pc'[Reporter] = "done"
      /\ stream' = stream /\ nread' = nread /\ num_queries' = num_queries
  BY DEF Wait4NoChild, TypeOK
<1>2. nread = Len(stream)
  <2>1. ReadInv'  BY NoChildKeeps
  <2>2. QED  BY <1>1, <2>1 DEF ReadInv
<1>3. MergedNow = SentNow  BY <1>2 DEF MergedNow, SentNow
<1>4. TotalNow >= QueriesPerClient
  <2>1. TotalNow = QueriesPerClient * (1 + (nread \div 2))
    BY <1>1 DEF CountInv, ReporterCount, TotalNow
  <2>2. nread \div 2 \in Nat  BY DEF TypeOK
  <2>3. \A k \in Nat : QueriesPerClient * (1 + k) = QueriesPerClient + QueriesPerClient * k
                       /\ QueriesPerClient * k \in Nat
    BY SMT
  <2>4. QED  BY <2>1, <2>2, <2>3
<1>5. StateNow = "collecting" /\ StateNow' = "finished"  BY <1>1 DEF StateNow
<1>6. UNCHANGED <<SentNow, MergedNow, TotalNow>>
  BY <1>1 DEF SentNow, MergedNow, TotalNow
<1>7. QED  BY <1>3, <1>4, <1>5, <1>6 DEF PromiseStep

\* Every step of the code is a step of the collection, or unseen by it.
LEMMA NextPromised ==
  ASSUME TypeOK, ProgressInv, SendInv, ReadInv, CountInv, [Next]_vars
  PROVE  PromiseStep \/ PromiseStutters
<1> USE ClientAssumption
<1>1. CASE UNCHANGED vars \/ Finished
  BY <1>1, Unseen DEF Finished
<1>2. CASE ForkStep
  <2>1. ASSUME NEW c \in Smackers, Fork(c) PROVE PromiseStutters
    BY <2>1, Unseen DEF Fork, TypeOK
  <2>2. ASSUME NEW c \in Smackers, ForkFails(c) PROVE PromiseStutters
    BY <2>2, Unseen DEF ForkFails
  <2>3. CASE CreateThreadsReturns
    <3>1. pc[Reporter] = "fork" /\ pc'[Reporter] = "connect"
      BY <2>3 DEF CreateThreadsReturns, TypeOK
    <3>2. QED  BY <2>3, <3>1, Unseen DEF CreateThreadsReturns
  <2>4. QED  BY <1>2, <2>1, <2>2, <2>3 DEF ForkStep
<1>3. ASSUME NEW p \in Procs, WorkStep(p) PROVE PromiseStep \/ PromiseStutters
  BY <1>3, WorkPromised
<1>4. ASSUME NEW c \in Smackers, SendStep(c) PROVE PromiseStep \/ PromiseStutters
  <2>1. CASE WriteConnectTime(c)  BY <2>1, TimePromised
  <2>2. CASE FdSend(c)            BY <2>2, SendPromised
  <2>3. CASE ~WriteConnectTime(c) /\ ~FdSend(c)
    <3>1. /\ pc'[Reporter] = pc[Reporter] /\ num_queries' = num_queries
          /\ stream' = stream /\ nread' = nread
      BY <1>4, <2>3 DEF SendStep, ChildReturns, SelectWritable, LockPipeSem, LockFails,
         FdSendOverflows, SigPipe, UnlockPipeSem, UnlockFails, SmackerExits, TypeOK
    <3>2. QED  BY <3>1, Unseen
  <2>4. QED  BY <2>1, <2>2, <2>3
<1>5. CASE CollectStep
  <2>1. ASSUME NEW c \in Smackers, Wait4(c) PROVE PromiseStutters
    <3>1. pc[Reporter] = "wait" /\ pc'[Reporter] = "select"  BY <2>1 DEF Wait4, TypeOK
    <3>2. QED  BY <2>1, <3>1, Unseen DEF Wait4
  <2>2. CASE ReadEof
    <3>1. pc[Reporter] \in {"select", "read_report"} /\ pc'[Reporter] = "wait"
      BY <2>2 DEF ReadEof, TypeOK
    <3>2. QED  BY <2>2, <3>1, Unseen DEF ReadEof
  <2>3. CASE ReadConnectTime
    <3>1. /\ pc[Reporter] = "select" /\ pc'[Reporter] = "read_report" /\ nread \in Nat
          /\ stream' = stream /\ nread' = nread + 1 /\ num_queries' = num_queries
      BY <2>3 DEF ReadConnectTime, TypeOK
    <3>2. stream[nread + 1].kind = "time"
      <4>1. nread + 1 \in 1..Len(stream)
        BY <2>3, ReadTyped DEF ReadConnectTime, TypeOK
      <4>2. Cardinality(Reaped) \in Nat /\ nread + 1 = 2 * Cardinality(Reaped) - 1
        BY <3>1, <4>1, ReapedFinite DEF ReadInv, AtEnd, TypeOK
      <4>3. (nread + 1) % 2 = 1  BY <3>1, <4>2
      <4>4. QED  BY <4>1, <4>3 DEF SendInv, StreamPaired, PairedAt
    <3>3. MergedNow' = MergedNow
      <4>1. Reports(stream, nread + 1) = Reports(stream, nread)
        BY <3>1, <3>2, OneMoreMessage
      <4>2. QED  BY <3>1, <4>1 DEF MergedNow
    <3>4. QED  BY <3>1, <3>3 DEF PromiseStutters, SentNow, StateNow, TotalNow
  <2>4. CASE UpdateFromFd  BY <2>4, MergePromised
  <2>5. CASE Wait4NoChild  BY <2>5, FinishPromised
  <2>6. QED  BY <1>5, <2>1, <2>2, <2>3, <2>4, <2>5 DEF CollectStep
<1>6. QED  BY <1>1, <1>2, <1>3, <1>4, <1>5 DEF Next

\* Pipe, semaphore and wait4() together keep the promise of Collection.
THEOREM ClientImplementsCollection == Spec => CollectsReports
<1> DEFINE Inv == TypeOK /\ ProgressInv /\ LockInv /\ SendInv /\ ReadInv /\ CountInv
<1>1. Init => Inv  BY InitTypeOK, InitSend, InitRead, InitCount
<1>2. Inv /\ [Next]_vars => Inv'  BY NextTypeOK, NextSend, NextRead, NextCount
<1>3. Init => Promise!Init
  BY ClientAssumption DEF Init, Promise!Init, ReportedIn
<1>4. Inv /\ [Next]_vars => [Promise!Next]_(Promise!vars)
  BY NextPromised, PromiseMapped
<1>5. QED  BY <1>1, <1>2, <1>3, <1>4, PTL DEF Spec, CollectsReports, Promise!Spec

-----------------------------------------------------------------------------
(***************************************************************************)
(* The total.                                                              *)
(***************************************************************************)
\* Reports are merged only after the Reporter's own queries are all counted.
TotalInv ==
  /\ SentNow \subseteq Smackers /\ MergedNow \subseteq SentNow
  /\ TotalNow \in Nat
  /\ TotalNow < QueriesPerClient => MergedNow = {}
  /\ TotalNow >= QueriesPerClient =>
       TotalNow = QueriesPerClient * (1 + Cardinality(MergedNow))
  /\ StateNow = "finished" => MergedNow = SentNow /\ TotalNow >= QueriesPerClient

\* The number of merged reports is a number.
LEMMA MergedCount ==
  ASSUME TotalInv PROVE IsFiniteSet(MergedNow) /\ Cardinality(MergedNow) \in Nat
  BY ClientAssumption, FS_Subset, FS_CardinalityType DEF ClientAssumption, TotalInv

\* Nothing is sent or merged at first, and nothing counted.
LEMMA InitTotal == Init => TotalInv
<1> SUFFICES ASSUME Init PROVE TotalInv
  OBVIOUS
<1>1. SentNow = {} /\ MergedNow = {}
  BY DEF Init, SentNow, MergedNow, Reports
<1>2. TotalNow = 0 /\ StateNow = "collecting"
  BY DEF Init, TotalNow, StateNow
<1>3. Cardinality({}) = 0
  BY FS_EmptySet
<1>4. QED  BY <1>1, <1>2, <1>3, ClientAssumption DEF ClientAssumption, TotalInv

\* A merge adds one report and its queries, and no other step of the
\* collection touches both.
LEMMA NextTotal ==
  ASSUME TotalInv, PromiseStep \/ PromiseStutters PROVE TotalInv'
<1> USE ClientAssumption DEF ClientAssumption
<1> DEFINE n == Cardinality(MergedNow)
<1>n. IsFiniteSet(MergedNow) /\ n \in Nat  BY MergedCount
<1>1. ASSUME UNCHANGED <<SentNow, MergedNow, StateNow>>, MergedNow = {}, StateNow = "collecting",
             TotalNow < QueriesPerClient, TotalNow' = TotalNow + 1
      PROVE  TotalInv'
  <2>1. n = 0  BY <1>1, FS_EmptySet
  <2>2. TotalNow + 1 >= QueriesPerClient => TotalNow + 1 = QueriesPerClient * (1 + n)
    BY <1>1, <2>1 DEF TotalInv
  <2>3. QED  BY <1>1, <2>2 DEF TotalInv
<1>2. ASSUME NEW c \in Smackers, SentNow' = SentNow \cup {c}, StateNow # "finished",
             UNCHANGED <<MergedNow, StateNow, TotalNow>>
      PROVE  TotalInv'
  BY <1>2 DEF TotalInv
<1>3. ASSUME NEW c \in Smackers, c \in SentNow \ MergedNow, StateNow = "collecting",
             TotalNow >= QueriesPerClient, MergedNow' = MergedNow \cup {c},
             TotalNow' = TotalNow + QueriesPerClient, UNCHANGED <<SentNow, StateNow>>
      PROVE  TotalInv'
  <2>1. Cardinality(MergedNow') = n + 1  BY <1>3, <1>n, FS_AddElement
  <2>2. TotalNow = QueriesPerClient * (1 + n)  BY <1>3 DEF TotalInv
  <2>3. QueriesPerClient * (1 + n) + QueriesPerClient = QueriesPerClient * (1 + (n + 1))
    BY <1>n, SMT
  <2>4. TotalNow' = QueriesPerClient * (1 + Cardinality(MergedNow'))
    BY <1>3, <2>1, <2>2, <2>3
  <2>5. TotalNow' \in Nat /\ TotalNow' >= QueriesPerClient
    BY <1>3 DEF TotalInv
  <2>6. MergedNow' \subseteq SentNow' /\ SentNow' \subseteq Smackers /\ StateNow' # "finished"
    BY <1>3 DEF TotalInv
  <2>7. QED  BY <2>4, <2>5, <2>6 DEF TotalInv
<1>4. ASSUME StateNow = "collecting", MergedNow = SentNow, TotalNow >= QueriesPerClient,
             StateNow' = "finished", UNCHANGED <<SentNow, MergedNow, TotalNow>>
      PROVE  TotalInv'
  BY <1>4 DEF TotalInv
<1>5. ASSUME StateNow = "collecting", StateNow' = "aborted",
             UNCHANGED <<SentNow, MergedNow, TotalNow>>
      PROVE  TotalInv'
  BY <1>5 DEF TotalInv
<1>6. CASE PromiseStutters
  BY <1>6 DEF PromiseStutters, TotalInv
<1>7. QED  BY <1>1, <1>2, <1>3, <1>4, <1>5, <1>6 DEF PromiseStep

\* What the code prints is what Collection promises: the report covers every
\* smacker that handed one in, and its total is what they and the Reporter
\* really ran (thread_sync(), update_from_fd()).
THEOREM TotalExact == Spec => []Promise!TotalIsExact
<1> DEFINE Inv == TypeOK /\ ProgressInv /\ LockInv /\ SendInv /\ ReadInv /\ CountInv
<1>1. Init => Inv /\ TotalInv
  BY InitTypeOK, InitSend, InitRead, InitCount, InitTotal
<1>2. Inv /\ TotalInv /\ [Next]_vars => (Inv /\ TotalInv)'
  BY NextTypeOK, NextSend, NextRead, NextCount, NextPromised, NextTotal
<1>3. TotalInv => Promise!TotalIsExact
  <2>1. SentNow = ReportedIn(Len(stream)) /\ MergedNow = ReportedIn(nread)
    BY DEF SentNow, MergedNow, Reports, ReportedIn
  <2>0. Promise!Cardinality(ReportedIn(nread)) = Cardinality(ReportedIn(nread))
    BY Zenon DEF Promise!Cardinality, Cardinality
  <2>2. Promise!TotalIsExact <=>
          (StateNow = "finished" =>
             MergedNow = SentNow
             /\ TotalNow = QueriesPerClient * (1 + Cardinality(MergedNow)))
    BY <2>0, <2>1 DEF Promise!TotalIsExact, StateNow, TotalNow
  <2>3. QED  BY <2>2 DEF TotalInv
<1>4. QED  BY <1>1, <1>2, <1>3, PTL DEF Spec

-----------------------------------------------------------------------------
(***************************************************************************)
(* Induction over the natural numbers, as a fact about sets of them.       *)
(***************************************************************************)
\* A set of natural numbers has a least one.
LEMMA LeastNat ==
  ASSUME NEW T \in SUBSET Nat, T # {}
  PROVE  \E m \in T : \A n \in T : m <= n
<1> DEFINE R == {ss \in Nat \X Nat : ss[1] < ss[2]}
<1>1. IsWellFoundedOn(R, Nat)
  BY NatLessThanWellFounded DEF OpToRel
<1>2. \A m, n \in Nat : n < m => <<n, m>> \in R
  OBVIOUS
<1>3. PICK m \in T : \A n \in T : ~(<<n, m>> \in R)
  <2> HIDE DEF R
  <2> QED BY <1>1, WFMin, Zenon
<1> HIDE DEF R
<1>4. \A n \in T : ~(n < m)
  BY <1>2, <1>3
<1> QED BY <1>4

\* What 0 is in, and n + 1 with n, is in every one.
LEMMA Upward ==
  ASSUME NEW T, 0 \in T, \A n \in Nat : n \in T => n + 1 \in T
  PROVE  Nat \subseteq T
<1> SUFFICES ASSUME Nat \ T # {} PROVE FALSE
  OBVIOUS
<1>1. PICK m \in Nat \ T : \A n \in Nat \ T : m <= n
  BY LeastNat
<1>2. m # 0 /\ m - 1 \in Nat
  BY <1>1
<1>3. m - 1 \in T
  BY <1>1, <1>2
<1> QED BY <1>1, <1>2, <1>3

-----------------------------------------------------------------------------
(***************************************************************************)
(* The connect times.                                                      *)
(***************************************************************************)
\* The connect time that a message carries.
TimeIn(m) == IF m.kind = "time" THEN m.val ELSE 0

LEMMA TimeInNat == \A m \in Messages : TimeIn(m) \in Nat
  BY DEF Messages, TimeIn

\* What the recursion of TimesOf defines.
IsTimes(f, s, n) ==
  /\ f \in [0..n -> Nat] /\ f[0] = 0
  /\ \A k \in 1..n : f[k] = f[k - 1] + TimeIn(s[k])

\* It reaches every message.
LEMMA TimesExist ==
  ASSUME NEW s \in Seq(Messages), NEW n \in 0..Len(s)
  PROVE  \E f : IsTimes(f, s, n)
<1> DEFINE T == {k \in Nat : k <= Len(s) => \E f : IsTimes(f, s, k)}
<1>1. 0 \in T
  <2>1. IsTimes([k \in 0..0 |-> 0], s, 0)
    BY DEF IsTimes
  <2> QED BY <2>1
<1>2. ASSUME NEW k \in Nat, k \in T PROVE k + 1 \in T
  <2> SUFFICES ASSUME k + 1 <= Len(s) PROVE \E f : IsTimes(f, s, k + 1)
    OBVIOUS
  <2>1. PICK f : IsTimes(f, s, k)
    BY <1>2
  <2> DEFINE e == f[k] + TimeIn(s[k + 1])
             g == [m \in 0..(k + 1) |-> IF m = k + 1 THEN e ELSE f[m]]
  <2>2. e \in Nat
    <3>1. s[k + 1] \in Messages /\ f[k] \in Nat
      BY <2>1 DEF IsTimes
    <3> QED BY <3>1, TimeInNat
  <2>3. g \in [0..(k + 1) -> Nat] /\ g[0] = 0
    <3> HIDE DEF e
    <3>1. \A m \in 0..(k + 1) : m # k + 1 => m \in 0..k
      OBVIOUS
    <3> QED BY <2>1, <2>2, <3>1 DEF IsTimes
  <2>4. ASSUME NEW m \in 1..(k + 1) PROVE g[m] = g[m - 1] + TimeIn(s[m])
    <3>1. CASE m = k + 1
      <4>1. g[m] = e /\ g[m - 1] = f[k]
        <5> HIDE DEF e
        <5> QED BY <3>1
      <4> HIDE DEF g
      <4> QED BY <3>1, <4>1
    <3>2. CASE m # k + 1
      <4>1. m \in 1..k /\ m - 1 \in 0..k
        BY <3>2
      <4>2. g[m] = f[m] /\ g[m - 1] = f[m - 1]
        <5> HIDE DEF e
        <5> QED BY <3>2, <4>1
      <4> HIDE DEF g
      <4> QED BY <2>1, <4>1, <4>2 DEF IsTimes
    <3> QED BY <3>1, <3>2
  <2> HIDE DEF g
  <2>5. IsTimes(g, s, k + 1)
    BY <2>3, <2>4 DEF IsTimes
  <2> QED BY <2>5
<1> HIDE DEF T
<1>3. n \in T
  BY <1>1, <1>2, Upward
<1> QED BY <1>3 DEF T

\* The sum grows with each connect time, and with nothing else.
LEMMA TimesAre ==
  ASSUME NEW s \in Seq(Messages)
  PROVE  IsTimes(TimesOf(s), s, Len(s))
<1> DEFINE Def(f) == [n \in 0..Len(s) |->
                        IF n = 0 THEN 0
                        ELSE f[n - 1] + (IF s[n].kind = "time" THEN s[n].val ELSE 0)]
<1>1. TimesOf(s) = CHOOSE f : f = Def(f)
  BY DEF TimesOf
<1>2. Len(s) \in 0..Len(s) /\ Len(s) \in Nat
  OBVIOUS
<1>3. PICK g : IsTimes(g, s, Len(s))
  BY <1>2, TimesExist
<1>4. g = Def(g)
  <2>1. g = [k \in 0..Len(s) |-> g[k]]
    BY <1>3 DEF IsTimes
  <2>2. ASSUME NEW k \in 0..Len(s) PROVE g[k] = Def(g)[k]
    <3>1. CASE k = 0
      BY <1>3, <3>1 DEF IsTimes
    <3>2. CASE k # 0
      <4>1. k \in 1..Len(s)
        BY <3>2
      <4> QED BY <1>3, <3>2, <4>1 DEF IsTimes, TimeIn
    <3> QED BY <3>1, <3>2
  <2> QED BY <2>1, <2>2
<1> DEFINE b == TimesOf(s)
<1>5. b = Def(b)
  <2> HIDE DEF Def
  <2> QED BY <1>1, <1>4
<1> HIDE DEF b
<1>6. b[0] = 0
  BY <1>2, <1>5
<1>7. ASSUME NEW k \in 1..Len(s) PROVE b[k] = b[k - 1] + TimeIn(s[k])
  <2>1. k \in 0..Len(s) /\ k # 0
    OBVIOUS
  <2>2. Def(b)[k] = b[k - 1] + TimeIn(s[k])
    BY <2>1 DEF TimeIn
  <2> QED BY <1>5, <2>2
<1>8. b = [k \in 0..Len(s) |-> b[k]]
  BY <1>5
<1> HIDE DEF Def
<1> DEFINE T == {k \in Nat : k <= Len(s) => b[k] = g[k]}
<1>9. 0 \in T
  BY <1>3, <1>6 DEF IsTimes
<1>10. ASSUME NEW k \in Nat, k \in T PROVE k + 1 \in T
  <2> SUFFICES ASSUME k + 1 <= Len(s) PROVE b[k + 1] = g[k + 1]
    OBVIOUS
  <2>1. k + 1 \in 1..Len(s) /\ (k + 1) - 1 = k /\ b[k] = g[k]
    BY <1>2, <1>10
  <2> QED BY <1>3, <1>7, <2>1 DEF IsTimes
<1>11. \A k \in Nat : k \in T
  <2> HIDE DEF T
  <2> QED BY <1>9, <1>10, Upward
<1>12. \A k \in 0..Len(s) : b[k] = g[k]
  BY <1>2, <1>11
<1>13. b = g
  <2>1. g = [k \in 0..Len(s) |-> g[k]]
    BY <1>3 DEF IsTimes
  <2> QED BY <1>8, <1>12, <2>1
<1> QED BY <1>3, <1>13 DEF b

\* What is written later does not change the sum of what has been read.
LEMMA TimesStay ==
  ASSUME NEW s \in Seq(Messages), NEW t \in Seq(Messages), Len(s) <= Len(t),
         \A k \in 1..Len(s) : t[k] = s[k]
  PROVE  \A k \in 0..Len(s) : TimesOf(t)[k] = TimesOf(s)[k]
<1> DEFINE a == TimesOf(s)
           b == TimesOf(t)
<1>1. IsTimes(a, s, Len(s)) /\ IsTimes(b, t, Len(t)) /\ Len(s) \in Nat /\ Len(t) \in Nat
  BY TimesAre
<1> HIDE DEF a, b
<1> DEFINE T == {k \in Nat : k <= Len(s) => b[k] = a[k]}
<1>2. 0 \in T
  BY <1>1 DEF IsTimes
<1>3. ASSUME NEW k \in Nat, k \in T PROVE k + 1 \in T
  <2> SUFFICES ASSUME k + 1 <= Len(s) PROVE b[k + 1] = a[k + 1]
    OBVIOUS
  <2>1. k + 1 \in 1..Len(s) /\ k + 1 \in 1..Len(t) /\ (k + 1) - 1 = k /\ b[k] = a[k]
    BY <1>1, <1>3
  <2>2. t[k + 1] = s[k + 1]
    BY <2>1
  <2>3. a[k + 1] = a[k] + TimeIn(s[k + 1]) /\ b[k + 1] = b[k] + TimeIn(t[k + 1])
    BY <1>1, <2>1 DEF IsTimes
  <2> QED BY <2>1, <2>2, <2>3
<1>4. \A k \in Nat : k \in T
  <2> HIDE DEF T
  <2> QED BY <1>2, <1>3, Upward
<1> QED BY <1>1, <1>4 DEF a, b

\* The Reporter has not connected yet.
Early == pc[Reporter] \in {"fork", "connect"}

\* The extremes are those of the connect times read so far, and the total is
\* their sum, with what the table sections and the Reporter itself took.
ExtremesSoFar ==
  IF MergedTimes = {} THEN max_connect_time = 0 /\ min_connect_time = -1
  ELSE /\ max_connect_time \in MergedTimes /\ min_connect_time \in MergedTimes
       /\ \A t \in MergedTimes : min_connect_time <= t /\ t <= max_connect_time

TotalSoFar ==
  pc[Reporter] # "dead" =>
    total_connect_time = setup.table_time + (IF Early THEN 0 ELSE connect_time[Reporter])
                         + TimesOf(stream)[nread]

TimesInv == ExtremesSoFar /\ TotalSoFar

\* At first there are only the connects of the table sections.
LEMMA InitTimes == Init => TimesInv
<1> SUFFICES ASSUME Init PROVE TimesInv
  OBVIOUS
<1>1. MergedTimes = {} /\ Early /\ stream = <<>> /\ nread = 0
  BY DEF Init, MergedTimes, Early
<1>2. <<>> \in Seq(Messages) /\ Len(<<>>) = 0
  OBVIOUS
<1>3. TimesOf(<<>>)[0] = 0
  BY <1>2, TimesAre DEF IsTimes
<1>4. setup.table_time \in Nat
  BY ClientAssumption DEF Init, SetupType
<1>5. total_connect_time = setup.table_time /\ max_connect_time = 0 /\ min_connect_time = -1
  BY DEF Init
<1>6. QED  BY <1>1, <1>3, <1>4, <1>5 DEF TimesInv, ExtremesSoFar, TotalSoFar

\* A step that reads nothing, and with which the Reporter does not connect.
LEMMA TimesQuiet ==
  ASSUME TypeOK, TypeOK', TimesInv, UNCHANGED <<setup, nread, report_vars>>,
         Len(stream) <= Len(stream'), \A k \in 1..Len(stream) : stream'[k] = stream[k],
         \/ pc'[Reporter] = "dead"
         \/ /\ pc[Reporter] # "dead" /\ (Early' <=> Early)
            /\ connect_time'[Reporter] = connect_time[Reporter]
         \/ pc'[Reporter] = pc[Reporter] /\ connect_time'[Reporter] = connect_time[Reporter]
  PROVE  TimesInv'
<1>1. /\ stream \in Seq(Messages) /\ stream' \in Seq(Messages) /\ nread \in 0..Len(stream)
      /\ Len(stream) \in Nat
  BY DEF TypeOK
<1>2. \A i \in 1..nread : stream'[i] = stream[i]
  BY <1>1
<1>3. MergedTimes' = MergedTimes
  BY <1>2 DEF MergedTimes
<1>4. TimesOf(stream')[nread] = TimesOf(stream)[nread]
  BY <1>1, TimesStay
<1>5. ExtremesSoFar'
  BY <1>3 DEF TimesInv, ExtremesSoFar
<1>6. TotalSoFar'
  BY <1>4 DEF TimesInv, TotalSoFar, Early
<1>7. QED  BY <1>5, <1>6 DEF TimesInv

\* The Reporter connects, which the extremes leave out.
LEMMA TimesConnect ==
  ASSUME TypeOK, TimesInv, setup' = setup, Connect(Reporter)
  PROVE  TimesInv'
<1>1. /\ pc[Reporter] = "connect" /\ pc'[Reporter] = "barrel"
      /\ UNCHANGED <<stream, nread, max_connect_time, min_connect_time>>
  BY DEF Connect, TypeOK
<1>2. PICK t \in ConnectTimes :
        /\ connect_time' = [connect_time EXCEPT ![Reporter] = t]
        /\ total_connect_time' = total_connect_time + t
  BY DEF Connect
<1>3. connect_time'[Reporter] = t /\ t \in Nat
  BY <1>2, ClientAssumption DEF TypeOK
<1>4. TimesOf(stream)[nread] \in Nat /\ setup.table_time \in Nat
  BY TimesAre, ClientAssumption DEF TypeOK, IsTimes, SetupType
<1>5. total_connect_time = setup.table_time + TimesOf(stream)[nread]
  BY <1>1, <1>4 DEF TimesInv, TotalSoFar, Early
<1>6. TotalSoFar'
  BY <1>1, <1>2, <1>3, <1>4, <1>5 DEF TotalSoFar, Early
<1>7. MergedTimes' = MergedTimes
  BY <1>1 DEF MergedTimes
<1>8. ExtremesSoFar'
  BY <1>1, <1>7 DEF TimesInv, ExtremesSoFar
<1>9. QED  BY <1>6, <1>8 DEF TimesInv

\* What select() was for is a connect time, and becomes one of the extremes
\* where it is one.
LEMMA TimesRead ==
  ASSUME TypeOK, ReaderAligned, TimesInv, setup' = setup, ReadConnectTime
  PROVE  TimesInv'
<1> DEFINE m == stream[nread + 1]
           t == m.val
<1>1. /\ pc[Reporter] = "select" /\ pc'[Reporter] = "read_report" /\ Unread > 0
      /\ UNCHANGED <<stream, connect_time>> /\ nread' = nread + 1
  BY DEF ReadConnectTime, TypeOK
<1>2. /\ total_connect_time' = total_connect_time + t
      /\ max_connect_time' = IF max_connect_time < t THEN t ELSE max_connect_time
      /\ min_connect_time' = IF min_connect_time > t \/ min_connect_time = -1
                             THEN t ELSE min_connect_time
  BY DEF ReadConnectTime
<1>3. stream \in Seq(Messages) /\ nread \in Nat /\ nread + 1 \in 1..Len(stream) /\ t \in Nat
  BY <1>1, ReadTyped DEF TypeOK
<1>4. m.kind = "time"
  BY <1>1 DEF ReaderAligned
<1>5. MergedTimes' = MergedTimes \cup {t}
  BY <1>1, <1>3, <1>4 DEF MergedTimes
<1>6. MergedTimes \subseteq Nat
  <2>1. \A i \in 1..nread : i \in 1..Len(stream)
    BY <1>3
  <2>2. \A i \in 1..Len(stream) : stream[i] \in Messages
    BY <1>3
  <2>3. \A msg \in Messages : msg.val \in Nat
    BY DEF Messages
  <2>4. QED  BY <2>1, <2>2, <2>3 DEF MergedTimes
<1>7. ExtremesSoFar'
  <2> HIDE DEF t
  <2>1. CASE MergedTimes = {}
    <3>1. max_connect_time' = t /\ min_connect_time' = t
      BY <1>2, <1>3, <2>1 DEF TimesInv, ExtremesSoFar
    <3>2. MergedTimes' = {t}
      BY <1>5, <2>1
    <3>3. QED  BY <1>3, <3>1, <3>2 DEF ExtremesSoFar
  <2>2. CASE MergedTimes # {}
    <3>1. /\ max_connect_time \in MergedTimes /\ min_connect_time \in MergedTimes
          /\ \A u \in MergedTimes : min_connect_time <= u /\ u <= max_connect_time
      BY <2>2 DEF TimesInv, ExtremesSoFar
    <3>2. /\ max_connect_time' \in MergedTimes' /\ min_connect_time' \in MergedTimes'
      BY <1>2, <1>5, <3>1
    <3>3. \A u \in MergedTimes' : min_connect_time' <= u /\ u <= max_connect_time'
      BY <1>2, <1>3, <1>5, <1>6, <3>1
    <3>4. QED  BY <1>5, <3>2, <3>3 DEF ExtremesSoFar
  <2>3. QED  BY <2>1, <2>2
<1>8. TotalSoFar'
  <2>1. IsTimes(TimesOf(stream), stream, Len(stream)) /\ Len(stream) \in Nat
    BY <1>3, TimesAre
  <2>2. /\ TimesOf(stream)[nread + 1] = TimesOf(stream)[nread] + t
        /\ TimesOf(stream)[nread] \in Nat
    BY <1>3, <1>4, <2>1 DEF IsTimes, TimeIn
  <2>3. total_connect_time = setup.table_time + connect_time[Reporter] + TimesOf(stream)[nread]
    BY <1>1 DEF TimesInv, TotalSoFar, Early
  <2>4. setup.table_time \in Nat /\ connect_time[Reporter] \in Int
    <3>1. connect_time[Reporter] \in ConnectTimes \cup {-1}
      BY DEF TypeOK
    <3>2. setup \in SetupType
      BY ClientAssumption DEF TypeOK
    <3>3. connect_time[Reporter] \in Int
      <4>1. ConnectTimes \subseteq Nat  BY ClientAssumption
      <4>2. ConnectTimes \cup {-1} \subseteq Int  BY <4>1
      <4>3. QED  BY <3>1, <4>2
    <3>4. \A s \in SetupType : s.table_time \in Nat
      BY DEF SetupType
    <3>5. QED  BY <3>2, <3>3, <3>4
  <2>5. total_connect_time' =
          setup.table_time + connect_time[Reporter] + TimesOf(stream)[nread + 1]
    <3> HIDE DEF t
    <3>1. QED  BY <1>2, <1>3, <2>2, <2>3, <2>4
  <2>6. QED  BY <1>1, <2>5 DEF TotalSoFar, Early
<1>9. QED  BY <1>7, <1>8 DEF TimesInv

\* The report that follows is not one.
LEMMA TimesReport ==
  ASSUME TypeOK, ReaderAligned, TimesInv, setup' = setup, UpdateFromFd
  PROVE  TimesInv'
<1>1. /\ pc[Reporter] = "read_report" /\ pc'[Reporter] = "wait" /\ Unread > 0
      /\ UNCHANGED <<stream, connect_time, report_vars>> /\ nread' = nread + 1
  BY DEF UpdateFromFd, TypeOK
<1>2. stream \in Seq(Messages) /\ nread \in Nat /\ nread + 1 \in 1..Len(stream)
  BY <1>1, ReadTyped DEF TypeOK
<1>3. stream[nread + 1].kind # "time"
  BY <1>1 DEF ReaderAligned
<1>4. MergedTimes' = MergedTimes
  BY <1>1, <1>2, <1>3 DEF MergedTimes
<1>5. TimesOf(stream)[nread + 1] = TimesOf(stream)[nread]
  <2>1. IsTimes(TimesOf(stream), stream, Len(stream)) /\ Len(stream) \in Nat
    BY <1>2, TimesAre
  <2>2. /\ TimesOf(stream)[nread + 1] = TimesOf(stream)[nread] + TimeIn(stream[nread + 1])
        /\ TimesOf(stream)[nread] \in Nat
    BY <1>2, <2>1 DEF IsTimes
  <2>3. TimeIn(stream[nread + 1]) = 0
    BY <1>3 DEF TimeIn
  <2>4. QED  BY <2>2, <2>3
<1>6. TotalSoFar'
  BY <1>1, <1>5 DEF TimesInv, TotalSoFar, Early
<1>7. ExtremesSoFar'
  BY <1>1, <1>4 DEF TimesInv, ExtremesSoFar
<1>8. QED  BY <1>6, <1>7 DEF TimesInv

\* Every step keeps the connect times.
LEMMA NextTimes ==
  ASSUME TypeOK, TypeOK', SendInv, ReadInv, TimesInv, [Next]_vars
  PROVE  TimesInv'
<1> USE ClientAssumption
<1>0. ReaderAligned  BY Aligned
<1>1. CASE UNCHANGED vars \/ Finished
  BY <1>1, TimesQuiet DEF Finished, TypeOK
<1>2. CASE ForkStep
  <2> DEFINE Kept == UNCHANGED <<setup, stream, nread, connect_time, report_vars>>
             Same == pc'[Reporter] = pc[Reporter]
             Moved == pc[Reporter] = "fork" /\ pc'[Reporter] = "connect"
  <2>1. Kept /\ (Same \/ Moved)
    <3>0. setup' = setup  BY <1>2 DEF ForkStep
    <3>1. ASSUME NEW c \in Smackers, Fork(c)
          PROVE  Kept /\ Same
      BY <3>0, <3>1 DEF Fork, TypeOK
    <3>2. ASSUME NEW c \in Smackers, ForkFails(c)
          PROVE  Kept /\ Same
      BY <3>0, <3>2 DEF ForkFails
    <3>3. ASSUME CreateThreadsReturns PROVE Kept /\ Moved
      BY <3>0, <3>3 DEF CreateThreadsReturns, TypeOK
    <3> HIDE DEF Kept, Same, Moved
    <3>4. QED  BY <1>2, <3>1, <3>2, <3>3 DEF ForkStep
  <2>2. (Early' <=> Early) /\ (pc'[Reporter] # "dead" \/ pc'[Reporter] = pc[Reporter])
    BY <2>1 DEF Early
  <2>3. QED  BY <2>1, <2>2, TimesQuiet DEF TypeOK
<1>3. CASE WorkStep(Reporter)
  <2>0. setup' = setup  BY <1>3 DEF WorkStep
  <2>1. CASE Connect(Reporter)  BY <2>0, <2>1, TimesConnect
  <2>2. CASE ConnectFails(Reporter) \/ QueryFails(Reporter)
    <3>1. pc'[Reporter] = "dead" /\ UNCHANGED <<stream, nread, report_vars>>
      BY <2>2 DEF ConnectFails, QueryFails, TypeOK
    <3>2. QED  BY <2>0, <3>1, TimesQuiet DEF TypeOK
  <2>3. CASE FireShot(Reporter)
    BY <2>0, <2>3, TimesQuiet DEF FireShot, TypeOK
  <2>4. CASE BarrelUnloaded(Reporter)
    <3>1. /\ pc[Reporter] = "barrel" /\ pc'[Reporter] = "wait"
          /\ UNCHANGED <<stream, nread, connect_time, report_vars>>
      BY <2>4 DEF BarrelUnloaded, TypeOK
    <3>2. Early' <=> Early  BY <3>1 DEF Early
    <3>3. QED  BY <2>0, <3>1, <3>2, TimesQuiet DEF TypeOK
  <2>5. QED  BY <1>3, <2>1, <2>2, <2>3, <2>4 DEF WorkStep
<1>4. ASSUME NEW c \in Smackers, WorkStep(c)
      PROVE  TimesInv'
  <2>1. /\ UNCHANGED <<setup, stream, nread, report_vars>>
        /\ pc'[Reporter] = pc[Reporter] /\ connect_time'[Reporter] = connect_time[Reporter]
    BY <1>4 DEF WorkStep, Connect, ConnectFails, FireShot, QueryFails, BarrelUnloaded, TypeOK
  <2>2. QED  BY <2>1, TimesQuiet DEF TypeOK
<1>5. ASSUME NEW c \in Smackers, SendStep(c)
      PROVE  TimesInv'
  <2>1. /\ UNCHANGED <<setup, nread, connect_time, report_vars>>
        /\ pc'[Reporter] = pc[Reporter]
    BY <1>5 DEF SendStep, ChildReturns, SelectWritable, LockPipeSem, LockFails,
       WriteConnectTime, FdSend, FdSendOverflows, SigPipe, UnlockPipeSem, UnlockFails,
       SmackerExits, TypeOK
  <2>2. stream' = stream \/ \E kind, val : Write(c, kind, val)
    BY <1>5 DEF SendStep, ChildReturns, SelectWritable, LockPipeSem, LockFails,
       WriteConnectTime, FdSend, FdSendOverflows, SigPipe, UnlockPipeSem, UnlockFails,
       SmackerExits
  <2>3. Len(stream) <= Len(stream') /\ \A k \in 1..Len(stream) : stream'[k] = stream[k]
    <3>1. Len(stream) \in Nat  BY DEF TypeOK
    <3>2. ASSUME NEW m, stream' = Append(stream, m)
          PROVE  Len(stream) <= Len(stream') /\ \A k \in 1..Len(stream) : stream'[k] = stream[k]
      <4>1. \A S, T : S \subseteq T /\ stream \in Seq(S) => stream \in Seq(T)
        OBVIOUS
      <4>2. stream \in Seq(Messages \cup {m}) /\ m \in Messages \cup {m}
        BY <4>1 DEF TypeOK
      <4>3. ASSUME NEW S, NEW s \in Seq(S), NEW e \in S
            PROVE  Len(Append(s, e)) = Len(s) + 1 /\ \A k \in 1..Len(s) : Append(s, e)[k] = s[k]
        OBVIOUS
      <4>4. /\ Len(stream') = Len(stream) + 1
            /\ \A k \in 1..Len(stream) : stream'[k] = stream[k]
        BY <3>2, <4>2, <4>3
      <4>5. QED  BY <3>1, <4>4
    <3>3. CASE stream' = stream  BY <3>1, <3>3
    <3>4. CASE \E kind, val : Write(c, kind, val)
      <4>1. PICK kind, val : Write(c, kind, val)  BY <3>4
      <4>2. stream' = Append(stream, [kind |-> kind, from |-> c, val |-> val])
        BY <4>1 DEF Write
      <4>3. QED  BY <3>2, <4>2
    <3>5. QED  BY <2>2, <3>3, <3>4
  <2>4. QED  BY <2>1, <2>3, TimesQuiet
<1>6. CASE CollectStep
  <2>0. setup' = setup  BY <1>6 DEF CollectStep
  <2>1. CASE ReadConnectTime  BY <1>0, <2>0, <2>1, TimesRead
  <2>2. CASE UpdateFromFd     BY <1>0, <2>0, <2>2, TimesReport
  <2>3. CASE Wait4NoChild \/ ReadEof \/ \E c \in Smackers : Wait4(c)
    <3>1. /\ pc[Reporter] \in {"wait", "select", "read_report"}
          /\ pc'[Reporter] \in {"wait", "select", "done"}
          /\ UNCHANGED <<stream, nread, connect_time, report_vars>>
      BY <2>3 DEF Wait4NoChild, ReadEof, Wait4, TypeOK
    <3>2. (Early' <=> Early) /\ pc[Reporter] # "dead"  BY <3>1 DEF Early
    <3>3. QED  BY <2>0, <3>1, <3>2, TimesQuiet DEF TypeOK
  <2>4. QED  BY <1>6, <2>1, <2>2, <2>3 DEF CollectStep
<1>7. QED  BY <1>1, <1>2, <1>3, <1>4, <1>5, <1>6 DEF Next

\* The connect times printed are those of the smackers that reported, and the
\* average has the connects of the Reporter and of the table sections too.
THEOREM TimesAreMeasured == Spec => []ExtremesAreMeasured
<1> DEFINE Inv == TypeOK /\ ProgressInv /\ LockInv /\ SendInv /\ ReadInv
<1>1. Init => Inv /\ TimesInv  BY InitTypeOK, InitSend, InitRead, InitTimes
<1>2. Inv /\ TimesInv /\ [Next]_vars => (Inv /\ TimesInv)'
  <2> SUFFICES ASSUME Inv, TimesInv, [Next]_vars PROVE (Inv /\ TimesInv)'
    OBVIOUS
  <2>1. Inv'  BY NextTypeOK, NextSend, NextRead
  <2>2. QED  BY <2>1, NextTimes
<1>3. TimesInv => ExtremesAreMeasured
  <2> SUFFICES ASSUME TimesInv, pc[Reporter] = "done" PROVE ExtremesAreMeasured
    BY DEF ExtremesAreMeasured
  <2>1. ExtremesSoFar
    BY DEF TimesInv
  <2>2. total_connect_time = setup.table_time + connect_time[Reporter] + TimesOf(stream)[nread]
    BY DEF TimesInv, TotalSoFar, Early
  <2>3. QED  BY <2>1, <2>2 DEF ExtremesAreMeasured, ExtremesSoFar
<1>4. QED  BY <1>1, <1>2, <1>3, PTL DEF Spec
=============================================================================
