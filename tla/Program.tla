------------------------------- MODULE Program -------------------------------
(***************************************************************************)
(* The main section of a smack file.  Its lines are executed while they    *)
(* are parsed, and init() and create_threads() fork in the middle of that: *)
(* each process goes on with its copy of the text that is left             *)
(* (src/src/parse.cc, super-smack-yacc.yy, super-smack.cc).  The text is   *)
(* one the lexer has read into its buffer as a whole.                      *)
(*                                                                         *)
(* What happens inside connect(), unload_query_barrel() and                *)
(* collect_threads() is the business of Client and PipeSem; here a smacker *)
(* ends at collect_threads(), unless it stays in semop() for a token that  *)
(* is lost, and the reporter waits there for its smackers.                 *)
(***************************************************************************)
EXTENDS Integers, Sequences, SequencesExt, FiniteSets

CONSTANTS
  Clients,   \* the client sections
  Smackers,  \* how many smackers create_threads() asks for in each client
  Scripts    \* main sections: sequences of <<client, method>>

Methods == {"init", "create_threads", "collect_threads", "other"}

Main == <<"main", 0>>
Reporters == {<<c, 0>> : c \in Clients}
SmackersOf(c) == {<<c, k>> : k \in 1..Smackers}
Procs == {Main} \cup Reporters \cup UNION {SmackersOf(c) : c \in Clients}

\* As the MANUAL has it: init() and create_threads() once per client, and
\* collect_threads() after them.
ASSUME ProgramAssumption ==
  /\ IsFiniteSet(Clients) /\ "main" \notin Clients
  /\ Smackers \in Nat
  /\ \A s \in Scripts : /\ s \in Seq(Clients \X Methods)
                        /\ \A i, j \in 1..Len(s) :
                             s[i] = s[j] /\ s[i][2] \in {"init", "create_threads"} => i = j
                        /\ \A i, j \in 1..Len(s) :
                             s[i][1] = s[j][1] /\ s[i][2] = "create_threads"
                               /\ s[j][2] = "collect_threads" => i < j

VARIABLES
  script,          \* the lines of the main section
  next,            \* the line each process parses next
  current_client,  \* of each process
  state,           \* "unborn", "running", "ended", "dead" by die() or a
                   \* signal, or "exited" by the exit(1) of Pg_client
  log,             \* the lines each process, or those it came from, executed
  engine,          \* db_type: "mysql" or "pg"
  stranded         \* the semaphore is at 0, and SIGPIPE ended its holder

sem_vars == <<engine, stranded>>
vars == <<script, next, current_client, state, log, sem_vars>>

Alive(p) == state[p] = "running"

-----------------------------------------------------------------------------
Ends(p, how) == state' = [state EXCEPT ![p] = how]

\* The parser has reduced a main_line.
AtLine(p) == Alive(p) /\ next[p] <= Len(script)

Line(p) == script[next[p]]

\* Mutant of Mine: every line, once init() has been called.
MineOnceInit(p) == current_client[p] # "main"

\* Main_line::execute() looks at the client before the method.
Mine(p) == Line(p)[1] = current_client[p]

Advance(p) == next' = [next EXCEPT ![p] = @ + 1]

Executed(p) == Advance(p) /\ log' = [log EXCEPT ![p] = Append(@, next[p])]

\* A line of another client, or an init() outside the main process.
SkipLine(p) ==
  /\ AtLine(p)
  /\ IF Line(p)[2] = "init" THEN current_client[p] # "main" ELSE ~Mine(p)
  /\ Advance(p)
  /\ UNCHANGED <<script, current_client, state, log, sem_vars>>

\* init(): the reporter is forked, with the text that is left.
InitLine(p) ==
  /\ AtLine(p) /\ current_client[p] = "main" /\ Line(p)[2] = "init"
  /\ LET q == <<Line(p)[1], 0>> IN
       /\ state' = [state EXCEPT ![q] = "running"]
       /\ current_client' = [current_client EXCEPT ![q] = Line(p)[1]]
       /\ next' = [next EXCEPT ![p] = @ + 1, ![q] = next[p] + 1]
  /\ UNCHANGED <<script, log, sem_vars>>

\* die(1, "could not fork()").
InitCannotFork(p) ==
  /\ AtLine(p) /\ current_client[p] = "main" /\ Line(p)[2] = "init"
  /\ Ends(p, "dead")
  /\ UNCHANGED <<script, next, current_client, log, sem_vars>>

\* create_threads(): the smackers are forked in the same way, as many of them
\* as fork() has processes for.
CreateThreads(p) ==
  /\ AtLine(p) /\ Mine(p) /\ Line(p)[2] = "create_threads"
  /\ \E new \in SUBSET SmackersOf(p[1]) :
       LET copied(f, v) == [q \in Procs |-> IF q \in new \cup {p} THEN v ELSE f[q]]
       IN  /\ state' = copied(state, "running")
           /\ current_client' = copied(current_client, current_client[p])
           /\ next' = copied(next, next[p] + 1)
           /\ log' = copied(log, Append(log[p], next[p]))
  /\ UNCHANGED <<script, sem_vars>>

\* connect(), unload_query_barrel(), disconnect(), set_num_rounds(), ...
OtherLine(p) ==
  /\ AtLine(p) /\ Mine(p) /\ Line(p)[2] = "other"
  /\ Executed(p)
  /\ UNCHANGED <<script, current_client, state, sem_vars>>

\* A smacker has come to transfer_report_data(), and its lock_pipe_sem().
AtCollect(p) ==
  AtLine(p) /\ Mine(p) /\ Line(p)[2] = "collect_threads" /\ p[2] > 0

ReporterOf(p) == <<p[1], 0>>

\* A smacker reports, and exits.
CollectEndsSmacker(p) ==
  /\ AtCollect(p) /\ Alive(ReporterOf(p)) /\ ~stranded
  /\ Executed(p) /\ Ends(p, "ended")
  /\ UNCHANGED <<script, current_client, sem_vars>>

\* Nobody reads its report. The die() of its reporter has removed the
\* semaphore, and semop() fails; exit(1) has not, and SIGPIPE ends the smacker
\* while it holds the semaphore, if no die() has removed that since.
CollectCannotReport(p) ==
  /\ AtCollect(p)
  /\ \/ state[ReporterOf(p)] = "dead" /\ UNCHANGED stranded
     \/ state[ReporterOf(p)] = "exited" /\ ~stranded /\ stranded' \in BOOLEAN
  /\ Ends(p, "dead")
  /\ UNCHANGED <<script, next, current_client, log, engine>>

\* The SETVAL of another client's init(), or a die(), lets the smackers on that
\* wait in semop(); nobody has to come to it.
SemaphoreFreed(p) ==
  /\ stranded /\ p # Main /\ Alive(p) /\ ~AtCollect(p)
  /\ stranded' = FALSE
  /\ UNCHANGED <<script, next, current_client, state, log, engine>>

\* Mutants of CollectWaits: it waits for one child only; it waits for every
\* child to report.
CollectWaitsForOne(p) ==
  /\ AtLine(p) /\ Mine(p) /\ Line(p)[2] = "collect_threads" /\ p[2] = 0
  /\ \E q \in SmackersOf(p[1]) : ~Alive(q)
  /\ Executed(p)
  /\ UNCHANGED <<script, current_client, state, sem_vars>>

CollectWaitsForReports(p) ==
  /\ AtLine(p) /\ Mine(p) /\ Line(p)[2] = "collect_threads" /\ p[2] = 0
  /\ \A q \in SmackersOf(p[1]) : state[q] \in {"unborn", "ended"}
  /\ Executed(p)
  /\ UNCHANGED <<script, current_client, state, sem_vars>>

\* The reporter comes back when wait4() has no child left.
CollectWaits(p) ==
  /\ AtLine(p) /\ Mine(p) /\ Line(p)[2] = "collect_threads" /\ p[2] = 0
  /\ \A q \in SmackersOf(p[1]) : ~Alive(q)
  /\ Executed(p)
  /\ UNCHANGED <<script, current_client, state, sem_vars>>

\* die() in a line of the client, or in init() before them; not while it waits
\* in semop().
ClientDies(p) ==
  /\ AtLine(p) /\ p # Main /\ (Mine(p) \/ log[p] = <<>>)
  /\ ~(AtCollect(p) /\ stranded)
  /\ Ends(p, "dead")
  /\ UNCHANGED <<script, next, current_client, log, sem_vars>>

\* Pg_client::do_connect() fails.
ClientExits(p) ==
  /\ engine = "pg" /\ AtLine(p) /\ Mine(p) /\ Line(p)[2] = "other"
  /\ Ends(p, "exited")
  /\ UNCHANGED <<script, next, current_client, log, sem_vars>>

AtEnd(p) == Alive(p) /\ next[p] > Len(script)

\* yyparse() is done: a client returns from main() at once.
ClientEnds(p) ==
  /\ AtEnd(p) /\ current_client[p] # "main"
  /\ Ends(p, "ended")
  /\ UNCHANGED <<script, next, current_client, log, sem_vars>>

\* wait_for_client_threads(): the clients init() has forked.
MainEnds ==
  /\ AtEnd(Main)
  /\ \A q \in Reporters : ~Alive(q)
  /\ Ends(Main, "ended")
  /\ UNCHANGED <<script, next, current_client, log, sem_vars>>

-----------------------------------------------------------------------------
Init ==
  /\ script \in Scripts
  /\ next = [p \in Procs |-> 1]
  /\ current_client = [p \in Procs |-> "main"]
  /\ state = [p \in Procs |-> IF p = Main THEN "running" ELSE "unborn"]
  /\ log = [p \in Procs |-> <<>>]
  /\ engine \in {"mysql", "pg"} /\ stranded = FALSE

Step(p) ==
  \/ SkipLine(p) \/ InitLine(p) \/ CreateThreads(p) \/ OtherLine(p)
  \/ CollectEndsSmacker(p) \/ CollectCannotReport(p) \/ CollectWaits(p)
  \/ ClientEnds(p)

Fails(p) == InitCannotFork(p) \/ ClientDies(p) \/ ClientExits(p)

Finished == (\A p \in Procs : ~Alive(p)) /\ UNCHANGED vars

Next ==
  (\E p \in Procs : Step(p) \/ Fails(p) \/ SemaphoreFreed(p)) \/ MainEnds \/ Finished

Spec == Init /\ [][Next]_vars

\* Every process keeps running; nobody has to die, and nobody has to release a
\* semaphore whose holder is gone. That the others get their turn in semop() is
\* what EveryoneEnds of PipeSem shows.
FairSpec == Spec /\ WF_vars(MainEnds) /\ \A p \in Procs : WF_vars(Step(p))

-----------------------------------------------------------------------------
(***************************************************************************)
(* What the MANUAL promises each control thread, without a fork: the lines *)
(* of its client, in their order, from init() on; those of a smacker end   *)
(* with collect_threads().                                                 *)
(***************************************************************************)
LinesAfterInit(c) ==
  {i \in 1..Len(script) : /\ script[i][1] = c /\ script[i][2] # "init"
                          /\ \E j \in 1..(i - 1) : script[j] = <<c, "init">>}

LinesFor(p) ==
  {i \in LinesAfterInit(p[1]) :
     p[2] > 0 => ~\E j \in LinesAfterInit(p[1]) : j < i /\ script[j][2] = "collect_threads"}

\* MANUAL: "after you have called init() on a client, the parsing itself is
\* already multi-threaded, and each control thread will ingore the method calls
\* that do not belong to its client" (and execute those that do): each once, in
\* their order, all of them when it gets to the end, and those up to some point
\* while it runs or if it dies.
ExecutesItsLines ==
  \A p \in Procs \ {Main} :
    /\ \A m, n \in 1..Len(log[p]) : m < n => log[p][m] < log[p][n]
    /\ ToSet(log[p]) \subseteq LinesFor(p)
    /\ \A i \in LinesFor(p), j \in ToSet(log[p]) : i < j => i \in ToSet(log[p])
    /\ state[p] = "ended" => LinesFor(p) \subseteq ToSet(log[p])

\* super-smack returns to the shell after all the reporters; a smacker may be
\* left only of a reporter that did not come past its collect_threads(), since
\* it died or left by exit(1) before, or has no such line.
MainEndsLast ==
  state[Main] = "ended" =>
    \A r \in Reporters :
      /\ ~Alive(r)
      /\ (\E q \in SmackersOf(r[1]) : Alive(q)) =>
           /\ \A i \in ToSet(log[r]) : script[i] # <<r[1], "collect_threads">>
           /\ \/ state[r] \in {"dead", "exited"}
              \/ \A i \in LinesAfterInit(r[1]) : script[i][2] # "collect_threads"

\* Wherever somebody dies, the program and everything it forked ends; under
\* PostgreSQL alone, whose exit(1) keeps the semaphore, smackers may wait for
\* ever for the token of one that SIGPIPE ended.
SmackersWait == engine = "pg" /\ stranded /\ \E p \in Procs : AtCollect(p)

ProgramEnds == <>[](\A p \in Procs : ~Alive(p)) \/ <>[]SmackersWait
=============================================================================
