---------------------------- MODULE QueryReport ----------------------------
(***************************************************************************)
(* The query report: every client keeps a Query_type_report per query      *)
(* type, updated at each shot; the reporter then merges the reports of its *)
(* smackers into its own, in the order they come down the pipe             *)
(* (src/src/query.cc, src/src/query.h).                                    *)
(***************************************************************************)
EXTENDS Integers, Sequences, FiniteSetsExt

CONSTANTS Reporter, Smackers,
          Types,     \* the query types of the barrel
          Times,     \* the times a query may take, in ms
          MaxShots   \* bound: how many shots one client fires

QueryReportAssumption ==
  /\ Reporter \notin Smackers
  /\ IsFiniteSet(Smackers) /\ IsFiniteSet(Types)
  /\ Times \subseteq Nat /\ MaxShots \in Nat

Clients == {Reporter} \cup Smackers

VARIABLES
  qr,      \* Query_report::type_reports of each client
  shots,   \* what really happened: the times of each client's shots, type by type
  pipe,    \* the smackers whose report is in the pipe
  merged   \* those whose report has been read

vars == <<qr, shots, pipe, merged>>

MinOf(a, b) == IF a > b THEN b ELSE a
MaxOf(a, b) == IF a < b THEN b ELSE a

\* Mutant of Update: the extremes also start from the time before.
UpdateAddsTimes(rep, q_time) ==
  [num_queries |-> rep.num_queries + 1,
   min_time    |-> rep.min_time + q_time,
   max_time    |-> rep.max_time + q_time]

\* Query_type_report::update(q_time), with the condition as it is written: from
\* the second shot on, the time of the last one stands for both extremes.
Update(rep, q_time) ==
  IF rep.num_queries # 0
  THEN [num_queries |-> rep.num_queries + 1, min_time |-> q_time, max_time |-> q_time]
  ELSE [num_queries |-> rep.num_queries + 1,
        min_time    |-> MinOf(rep.min_time, q_time),
        max_time    |-> MaxOf(rep.max_time, q_time)]

\* Mutant of Merge: num_queries is replaced.
MergeReplaces(rep, other) ==
  [num_queries |-> other.num_queries,
   min_time    |-> MinOf(rep.min_time, other.min_time),
   max_time    |-> MaxOf(rep.max_time, other.max_time)]

\* Mutant of Merge: fd_send()'s order of max and min is swapped.
MergeSwapsExtremes(rep, other) ==
  [num_queries |-> rep.num_queries + other.num_queries,
   min_time    |-> MinOf(rep.min_time, other.max_time),
   max_time    |-> MaxOf(rep.max_time, other.min_time)]

\* Query_type_report::update(num_queries, max_q_time, min_q_time).
Merge(rep, other) ==
  [num_queries |-> rep.num_queries + other.num_queries,
   min_time    |-> MinOf(rep.min_time, other.min_time),
   max_time    |-> MaxOf(rep.max_time, other.max_time)]

NoQueries == [num_queries |-> 0, min_time |-> 0, max_time |-> 0]

Init ==
  /\ qr = [c \in Clients |-> [t \in Types |-> NoQueries]]
  /\ shots = [c \in Clients |-> [t \in Types |-> <<>>]]
  /\ pipe = {} /\ merged = {}

\* One shot of Query_charge::fire().
Fire(c, type, q_time) ==
  /\ c \notin pipe \cup merged /\ (c = Reporter => merged = {})
  /\ MapThenSumSet(LAMBDA t : Len(shots[c][t]), Types) < MaxShots
  /\ qr' = [qr EXCEPT ![c][type] = Update(@, q_time)]
  /\ shots' = [shots EXCEPT ![c][type] = Append(@, q_time)]
  /\ UNCHANGED <<pipe, merged>>

FdSend(c) ==
  /\ c \notin pipe \cup merged
  /\ pipe' = pipe \cup {c}
  /\ UNCHANGED <<qr, shots, merged>>

\* All the records of the report of c, whose length the report says.
UpdateFromFd(c) ==
  /\ c \in pipe
  /\ qr' = [qr EXCEPT ![Reporter] = [t \in Types |-> Merge(@[t], qr[c][t])]]
  /\ pipe' = pipe \ {c} /\ merged' = merged \cup {c}
  /\ UNCHANGED shots

Next ==
  \/ \E c \in Clients, t \in Types, q \in Times : Fire(c, t, q)
  \/ \E c \in Smackers : FdSend(c) \/ UpdateFromFd(c)

Spec == Init /\ [][Next]_vars

-----------------------------------------------------------------------------
Counted == {Reporter} \cup merged

\* The times of the queries of a type that a set of clients ran.
TimesOf(cs, t) == UNION {{shots[c][t][i] : i \in 1..Len(shots[c][t])} : c \in cs}

\* How many queries of a type they ran.
NumShots(sh, cs, t) == MapThenSumSet(LAMBDA c : Len(sh[c][t]), cs)

\* num_queries, as the reporter prints it, is the number of queries of that
\* type that it and the smackers it has heard from really ran.
CountsAreExact ==
  \A t \in Types : qr[Reporter][t].num_queries = NumShots(shots, Counted, t)

\* What update(q_time) makes of the times of shots, in their order.
OwnReport(times) ==
  LET after[n \in 0..Len(times)] ==
        IF n = 0 THEN NoQueries ELSE Update(after[n - 1], times[n])
  IN  after[Len(times)]

\* In whatever order the reports come down the pipe, the merged extremes are
\* those of the reports merged: merging loses nothing more.
MergeIsOrderFree ==
  \A t \in Types :
    /\ qr[Reporter][t].max_time = Max({OwnReport(shots[c][t]).max_time : c \in Counted})
    /\ qr[Reporter][t].min_time = Min({OwnReport(shots[c][t]).min_time : c \in Counted})

\* max_time and min_time are times a query took (or the initial 0, which min_time
\* cannot leave before the second shot), and never
\* cross, although the first update() starts from 0 and later ones overwrite.
ExtremesWereObserved ==
  \A c \in Clients, t \in Types :
    LET seen == TimesOf({c} \cup (IF c = Reporter THEN merged ELSE {}), t) IN
      /\ qr[c][t].max_time \in seen \cup {0} /\ qr[c][t].min_time \in seen \cup {0}
      /\ qr[c][t].min_time <= qr[c][t].max_time
=============================================================================
