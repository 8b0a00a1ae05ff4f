# A TLA+ verification of Super Smack

Super Smack runs a benchmark described in a *smack file*: queries, dictionaries,
clients, tables, and a `main` section whose lines are executed while they are
parsed. Its difficult part is not SQL: a client forks smackers, every process
runs the same lines on its own copy of the program's memory, and the results
come back through one pipe that only a System V semaphore keeps in order, while
any process may call `die()` at any time and take that semaphore away.

## The system

| component | state | operations | what makes it correct |
|---|---|---|---|
| Client threads (`client.cc`, `client.h`, `die.cc`) | pipe, semaphore, connect times, role | `create_threads`, `connect`, `unload_query_barrel`, `thread_sync`, `die` | a report is read whole, once, and none is lost; every process ends |
| Pipe semaphore of several clients (`client.cc`, `parse.cc`) | one semaphore per `ftok(".", 's')` | `setup_pipe`, `lock_pipe_sem`, `unlock_pipe_sem`, `die` | under MySQL never left at 0 for ever; as many holders as clients set it |
| Query reports (`query.cc`, `query.h`) | a record per query type | `update` at a shot, `fd_send`, `update_from_fd` | counts exact, extremes observed ones, merge independent of order; the bytes say what the records do |
| Query text (`client.cc`) | buffer, variable name | `safe_parsed_query`, `escape_string` | inside its buffers; `$name` is the next word |
| Dictionaries (`dictionary.cc`) | words, position or id | `load_file`, `load_list`, `next_word` | words are those of the source; the position stays inside |
| Smack file execution (`parse.cc`, `super-smack.cc`, grammar) | pools, `current_client`, the text not read yet | `Main_line::execute`, fork of `init`, `wait_for_client_threads` | each process executes the lines of its client, in order |
| Table checks (`parse.cc`, `libsmack.cc`) | table, data file | `validate_table`, `populate_data_file` | after it, the table has its rows; a good table is left alone |
| Query barrel (`parse.cc`, `query.h`, `client.cc`) | parse state; actions, rounds | one pass over the text; `set_num_rounds`, `unload_query_barrel` | shots and sleeps as written, in every round |
| Engines (`mysql-client.cc`, `pg-client.cc`, `client.h`) | connection, last result | `do_connect`, `safe_query`, `lose_result`, `dump_result`, `disconnect` | a failure ends the client as the others expect; a result is freed once |
| Engine registry (`engines.cc`) | a table of `MAX_ENGINES` slots | the constructors, `engine_id`, `new_client` | every engine built can be chosen, and is the one that is made |
| TCP client (`tcp_client.cc`, `tcp_client.h`, `test_tcp_client.cc`) | status, alarm, `jmp_env` | `connect`, `receive`, `error` | no alarm outlives its call; status is true |
| Data generator (`gen-data.cc`) | format, row number | `print_row` | widths and characters in range |
| Oracle engine, lexer, grammar, small headers, build files | | | see "Not modelled" |

How they interact: the grammar's actions build the pools and run `validate_table`
at once; each `init()` line forks a *reporter* from the main process; the
reporter runs `create_threads(N)`, which forks N - 1 smackers (it is itself the
Nth client, although `MANUAL` speaks of one report thread and N smackers). All
run the same lines. At `collect_threads()` a smacker writes its connect time and
its report into the pipe between `lock_pipe_sem()` and `unlock_pipe_sem()`,
disconnects and exits; the reporter reads one connect time and one report for
every child that `wait4()` returns, until `ECHILD`. The semaphore is found by a
key that all clients of all runs in one directory share; whoever calls `die()`
removes it, which makes the `semop()` of everybody else fail.

Hard behaviours: two writes per report with other processes in between; deaths at
every point, with and without `die()`; a full pipe; the match of reads with
children that died; a semaphore set by another client or left by another run;
state that `fork()` copies, and state that it shares.

## Modules

| module | models | abstract or detailed |
|---|---|---|
| `Collection` | what create/collect promise: every report handed in is in the total, once | abstract |
| `Client` | one client from `create_threads()` to the end of `collect_threads()` | implements `Collection` |
| `PipeSem` | the life of the semaphore under several clients and earlier runs | |
| `QueryReport` | what the reports say and how they are merged, record by record | abstract |
| `ReportWire` | the bytes of a report in the pipe | implements `QueryReport` |
| `ParsedQuery` | `safe_parsed_query()`, character by character | |
| `Dictionary` | `make_dict()` and `next_word()`, in forked processes | |
| `Engine` | the table of engines, and the connection and result of the client one of them makes | |
| `Barrel` | the text of `query_barrel`, `set_num_rounds()`, `unload_query_barrel()` | |
| `Session` | one process from its options to its last line | composes `Engine` and `Barrel` |
| `Program` | the main section: who executes which line, and when the program ends | |
| `TableCheck` | `validate_table()`, the database, the data files and their generators | |
| `TcpClient` | `connect()` under an alarm, and the loop around `receive()` | |
| `MC*` | constants for the runs of the module they are named after | |
| `Client_proofs`, `PipeSem_proofs`, `ReportWire_proofs`, `ParsedQuery_proofs`, `Dictionary_proofs`, `Session_proofs`, `Program_proofs` | theorems of the module they are named after | |
| `Apart_proofs` | theorems of `TableCheck` and `TcpClient`, which share nothing with the rest | |

A part that another module has in full is a single step where it is not the
subject: `Program` takes `collect_threads()` as the step that waits for the
smackers, `Client` a barrel as a number of queries, `PipeSem` a report as two
writes.

**Client.** `pc[p]` is where process p is in the code: "fork" is the loop of
`create_threads()`, "connect" and "barrel" are `do_connect()` and
`unload_query_barrel()`, "select", "lock", "write_time", "write_report" and
"unlock" are the child branch of `transfer_report_data()`, "wait" is `wait4()` in
`thread_sync()`, and the reporter's "select" and "read_report" are the two reads
of the parent branch. There is an action for each of these, and one for each
way it fails. `stream` is everything ever written to the pipe and `nread` how
much of it was read, so that the kernel's queue is the rest; a message is a
connect time or a report, of which only the number of queries is kept. The end
of file is what the kernel computes: no unread data and no process with a
write end. `die()` changes `sem_set` to "removed". `SigPipe` is the write to a
pipe without readers, whose signal nobody handles. `setup` is what the sections
before `main` have settled: the engine, the length of a report, and how often and
how long table sections have connected this client in the process that `init()`
then forks, whose counters the reporter starts from.

**PipeSem.** The key leads to the semaphore `sem` (an id, never reused) of value
`val`. `pipe_sem_id` and `kill_sem_id` belong to a reporter and are inherited.
The engine decides how a failed connect ends a process (`ConnectFails`): by `die()`
under MySQL, by `exit(1)` under PostgreSQL, which keeps the semaphore. A smacker
that SIGPIPE ends (`SigPipe`) is "killed", and gives nothing back. `Stranded` are
those of them that took a token of the semaphore that is there now.
The three system calls of `setup_pipe()` are separate actions, so that clients
interleave in them. What a smacker does besides locking, writing twice and
unlocking is left to `Client`.

**QueryReport.** `qr[c][t]` is the `Query_type_report` of type t in client c,
`shots[c][t]` the history of what was really run of it. `Update` keeps the condition of
`query.cc:50` as it is written.

**ReportWire.** A cell of `wire` is a byte, but for an int, which is one cell.
`FdSend` lays out `buf` as the code does, with the length of a name and the number
of records modulo `ByteSize`, and dies where the bound on the buffer says so;
`ReadRecord` is one turn of the loop of `update_from_fd()`, with each way out of
it. `senders` is the order in which the reports were written, which is the set
`pipe` of `QueryReport`: that is the refinement mapping. What keeps reports apart
in the pipe is in `Client`.

**ParsedQuery.** The text is a sequence of characters, and what is built is a
sequence of pieces (a character, or an expanded dictionary) with its length in
bytes, because the properties tell apart only which pieces there are, in which
order and in how many bytes. A word of a dictionary is how many characters it
has and how many of them `escape_string()` doubles.

**Dictionary.** `load_list()` and `fix_template()` go character by character,
`load_file()` line by line with the stream's failbit; each process has its own
position or id, copied by `Fork`. `words[0]` of no words is undefined: the
process is killed or goes on with garbage.

**Barrel.** A token stands for the characters between two spaces; whether a space
follows the last one is part of the text, because the code reads a last token
without it after its loop. `i`, `j` and `shot` are the counters of the three
nested loops.

**Engine.** `Register` is one static constructor, in any order; `engines[s]` is
slot s, id s + 1. The client is a connection `con` and a `result`: "unread" rows
on a MySQL connection, "kept" at `Pg_client::res`, or "freed" while `res` still
points to it; `live` counts the results libpq has allocated. `Fates` says what can
become of a query in that state, and makes undefined behaviour a phase of its
own. The operations are those of a line of the main section and of a shot. What
the server says is free.

**Session.** Engine's lines between Barrel's calls: `BarrelShot` is a step of both.
Options come before the file, the file before the client, the client before the
lines.

**Program.** `next[p]` is the line process p parses next; a fork copies it with
`current_client`, which decides in `Main_line::execute()` whether a line is
skipped (`SkipLine`) or executed. `stranded` says that a holder of the semaphore
was ended by SIGPIPE and nobody has set or removed it since: it is set when a
smacker comes to report to a reporter that left by `exit(1)`
(`CollectCannotReport`), and while it lasts no smacker gets through
`lock_pipe_sem()` (`CollectEndsSmacker`). `SemaphoreFreed` is the SETVAL or the
`die()` of somebody else that may end it. `Fails` is apart from `Step`: nobody has to
die. The text is one the lexer has read as a whole before the first `init()`,
which is so for every smack file of the distribution.

**TableCheck.** `table` and `file` are numbers of rows, or ABSENT, and survive
`Crash`, as does the generator, which `system()` made a process of its own.
`pc` goes through `validate_table()`, once for each table section. `system()` hands
the status of the generator on: the program dies of one that was killed
(`GeneratorFails`, `SystemFails`) and loads after one that ended with 0
(`SystemReturns`). `gen-data` does not look whether its output was written, so that a
full disk is such an end (`DiskFull`); `tables` lets it happen (`DiskFills`),
`tables_short` does not, so that its counterexample needs no assumption about the disk.

**TcpClient.** The alarm may ring in any state in which it is armed and not blocked
(`AlarmRings`); the jump out of the handler leads to `done`, or nowhere if
`jmp_env` is not this call's. The server is the environment: it sends, closes, or
never answers. What is read is a number of pieces. `receive()` returns 0 at the end of
the stream, at a timeout and at an error of `select()`, and the loop of the test
program ends at any of them: `ReceiveNothing` and `ReceiveFails` lead to the same
place.

## Runs

| run | question | instance | result |
|---|---|---|---|
| `client` | safety, refinement and termination of one client | 3 smackers, 2 connect times, 1 query, a pipe of 3 messages; three setups: MySQL with a report that just fits and table sections before, PostgreSQL, PostgreSQL with a report of 1025 bytes; 526,009 states | holds |
| `client_pg_stuck` | does every smacker end under PostgreSQL? | 2 smackers, a pipe of 2 messages | violated: `pg-client.cc:68` |
| `pipesem_two` | two clients on one semaphore, left at 0 or 1 or absent | clients with 2 and 1 smackers, under either engine; 45,342 states | holds: under MySQL nobody stays in `semop()`; under PostgreSQL only behind a smacker that SIGPIPE ended |
| `pipesem_interleave` | is a report next to its connect time with two clients? | the same, no leftover | violated: `client.cc:322` |
| `report_wire` | do the bytes say what the records do, in every order of merging? | 3 clients, 2 types, 2 times, up to 2 shots each; 8 pairs of names, a byte of 4 values, a buffer of 15 cells | holds |
| `parsed_query` | bounds and expansion | every text up to 5 characters over a name alphabet of 2, space, `$` and backslash; buffer of 10 or twice the text, name buffer of 3 | holds |
| `dictionary` | what is loaded, and what processes draw from it | lists up to 3, templates up to 4 characters, files up to 3 lines, a line buffer of 4; 2 processes, 4 words | holds |
| `session` | is the barrel read and fired as it is meant, on the engine chosen, and are results freed once? | every text up to 4 tokens, two unloads, rounds of -1, 0 and 2; 2 engines, 3 slots, an unknown name; queries with rows that ask for them and that do not; 5,352,500 states | holds |
| `program` | does each process execute its lines, and the program end? | every mixture of 4 lines of one client with 2 of another; 2 smackers; either engine; 458,239 states | holds: with the same exception under PostgreSQL |
| `tables` | are good tables kept and bad ones mended, over runs that are killed? | 2 tables, files of 2 rows, 2 faults; 15,839 states | holds |
| `tables_short` | has each table its rows when the test starts? | the same, without a full disk | violated: `parse.cc:183` |
| `tcp_connect` | does an alarm stay in its call, is status true, and does every call end? | 3 clients, an answer of up to 3 pieces, every combination of log and timeouts; 5,972 states | holds |

*Bounds.* Three smackers are the fewest with one that holds the semaphore, one
that waits and one that dies. A message is atomic because it is shorter than
`PIPE_BUF`; a pipe of two or three messages is full long before all have
reported, and a larger one only blocks less. One query per client is enough,
because the code treats all of them alike; the theorems cover the rest. The
buffers of `parsed_query` are so small that words, characters and names do not
fit in many of the texts; 5 characters hold two references and what separates
them. A list of 3 characters has empty, last and escaped entries; a file of 3
lines with a buffer of 4 has lines that fit, just fit and do not, and a step over
some of them; 4 draws go round a dictionary and fork at every point of it. A
barrel of 4 tokens holds two shots, or a shot between sleeps, and every way to
break them; MySQL and PostgreSQL differ in the second query after one that leaves
rows, and in the second after a saved one, which both unloads and free lines
reach. The 8 pairs of names have lengths 1, 2, 3, 4 (0 in the byte) and 5 (1 in the
byte), so that a name fits, wraps to nothing and wraps to that of the other type,
and two of the pairs reach and pass the bound of the buffer. Three TCP clients
have one before and one after the one that times out. Two faults are the fewest for a run that is killed and a later one
that fails too; the second table shows that checks of one do not touch the
other.

*Fairness.* Weak fairness of every process: the scheduler runs a process that can
go on, and the database answers a connect or a query, well or badly; in `tables`
also the user, who runs the program again. Failures get no fairness by themselves:
in `Program` a process that waits is not helped by the chance to die. In
`TcpClient` the program's own steps and the alarm are fair, the network and the
server are not, and a failing call (`ReceiveFails`) has no fairness. In `Program` the
smacker that reports (`CollectEndsSmacker`) is one step with fairness: that
the smackers of a semaphore do get their turn in `semop()` is shown where the
semaphore is modelled, in `PipeSem` (`EveryoneEnds`) and for one client in `Client`
(`MysqlSmackersFinish`), and it has no fairness left where a holder was ended by
SIGPIPE. `SemaphoreFreed` is not fair: no other client has to come. Nothing
stronger is assumed of `semop()`, since a smacker locks once only. Finished
processes stutter (`Finished`), so that TLC's deadlock check means "somebody
waits for ever"; it is off where that happens in the code (under PostgreSQL:
`client`, `client_pg_stuck`, `pipesem_two`, `pipesem_interleave`, `program`) and where
the modelled computation simply ends (`ReportWire`, `ParsedQuery`, `Session`,
`TcpClient`, `Dictionary`).

## Proofs

All are for any number of smackers and any value of the constants that satisfies
the module's named assumption.

`Client_proofs` proves that `Client` is type correct (`TypeCorrect`), that two
smackers never hold the semaphore (`LockExcludes`), that the pipe holds pairs
(`PipeStaysPaired`), that the reporter reads what it expects
(`ReaderStaysAligned`), that nothing is left in the pipe when `wait4()` says
`ECHILD` (`EveryReportMerged`), that what it prints as the number of clients
and of queries belongs together (`CountsStayTogether`) and as connect times is
those measured (`TimesAreMeasured`), and that all this implements
`Collection` (`ClientImplementsCollection`), whose total is then exact (`TotalExact`).
None of the invariants is inductive.
The invariant is `TypeOK`, `LockInv`, `SendInv`, `ReadInv` and `CountInv`, in that
order of dependence:

* `LockInv`: while the semaphore exists, its value is 1 only if nobody is between
  lock and unlock *and* the stream has even length. `die()` in the holder leaves
  an odd stream behind, but removes the semaphore, so that nobody adds to it;
  SIGPIPE leaves an odd stream with the semaphore at 0.
* `SendInv`: the stream is pairs, each of a smacker that is past its first write,
  and there are at most two messages for each such smacker.
* `ReadInv`: in `wait4()` the reporter has read exactly two messages per child it
  has reaped, or has met the end of the stream. With `SendInv` this bounds what can
  be left when every child is reaped: nothing, although the report read after a
  `wait4()` need not be that of the child it returned.
* `CountInv`: every report in the stream is of all the queries of its smacker, and
  what the reporter has counted follows from how much it has read: a connect time
  per odd message, the queries of a smacker per even one, and what the table
  sections had counted before.
* `TimesInv` adds the times: the extremes are those of the connect times read so
  far, before the reporter's own connect and after it, and the total is their sum,
  with what the table sections and the reporter took. That the sum of a prefix does
  not change when the stream grows is an induction over it.

The refinement reads the state of `Collection` off the client's: what was sent is
what second writes have put into the pipe, what was merged is what the reporter has
read of that, and the collection is over when `wait4()` says `ECHILD`. One lemma per
kind of step says which step of `Collection` it is: a query of the reporter's own is
counted, a smacker's second write sends, `update_from_fd()` merges, the last `wait4()`
finishes, a fatal error of the reporter aborts; everything else stutters. Of the invariants, `SendInv` says that nobody sends twice, `ReadInv` that
what is read next is a report and that all are read at the end, and `CountInv` that a
report is of the smacker's work so far and the total of the reports merged.

`PipeSem_proofs` proves, for any number of clients and smackers and any semaphore
left by an earlier run, that a semaphore some client has set is at 0 only while
somebody holds it who will release it (`TokenTheorem`; the exception, under PostgreSQL
alone, is a holder that SIGPIPE has ended) and never has more tokens than clients
that set it (`BoundTheorem`). The invariant adds `Shape`: where each process can be, that a
smacker's ids are those of its reporter, and that `kill_sem_id` is known exactly
from SETVAL on; and that under MySQL a smacker is ended by SIGPIPE only when a
`die()` of its reporter has already removed the semaphore. The proof is the arithmetic of one sum, `val` plus the number of
holders, which lock and unlock keep, SETVAL raises by at most one together with
the number of users, and `die()` makes irrelevant.

`ReportWire_proofs` proves that the bytes implement `QueryReport` (`TransferTheorem`)
and that the report printed says what was run (`CountsTheorem`, `MergeTheorem`,
`ExtremesTheorem`), for any number of clients and types, any different names, any
times, and any size of byte and buffer that `ReportWireAssumption` allows. There is an
invariant for each level:

* `ReportInv`, of `QueryReport`: a client that has merged nothing has the report that
  its own shots make (`OwnReports`), and the reporter's counts and extremes are the
  sums, maxima and minima of those of the clients it counts (`SumsUp`). The second needs
  the first, since what is merged is a report and not a history. A shot adds to one
  (`FireReport`), a merge takes in one client more (`MergeReport`), so that a smacker
  must not be counted already.
* `WireInv` and `SendersInv`: the pipe holds the buffers of its senders one after the
  other, and each is that of the sender's report *as it is now*. This is what makes
  reading later than writing the same as reading at once, and it holds because a client
  fires no more once it has sent. Nobody sends twice, and who has been read is
  not in the pipe.

`Laid` says what it means that sequences lie one after the other, of the reports in the
pipe as of the records in a report. `ReadIs` is the loop of `update_from_fd()`: as long as
names are short, k turns have merged the first k records, each into its own type
(`Taken`), and what is left is the rest of the report and what follows it. At the first
long name the reporter dies, and the report it was reading changes nothing. `FewTypes` is why
the number of records, one byte, is right: a buffer that can be sent is shorter than
`4 * ByteSize`. Where a name is cut to that of another type nothing is claimed, as the
code then counts wrong.

`Session_proofs` proves of `Engine`, for any order of constructors, any table larger
than the number of engines, and any sequence of lines and shots:
`ChosenEngineTheorem`, `NoLeakTheorem` and `CauseTheorem`. `TableInv` says that the
table is filled from its first slot, each engine once; `ChoiceInv` ties `db_type` to
the engine asked for; `ResultInv` ties what a client holds to the last query and to
how it was run. `FateFacts` says what each end of a query tells of the connection and
the result at that moment, and `CauseTheorem` follows from the two. `SessionRunsEngine` carries this over to a session: each of its steps
is one of the engine's, since the queries the barrel fires are some of `query_pool`.
Of the barrel it proves, for texts of any length and any numbers of shots, rounds and
calls:

* `ReadAsWritten`, by `ParseInv`: of a well-formed text the actions are those that
  start in what has been read, but for a number that waits for its query; in state
  NUM_SHOTS the last token read was no number.
* `FollowsText`, by `FollowInv`, the property for what has been read.
* `FiresEveryRound`, by `FireInv`: `fired` is the earlier calls, then the `i` rounds
  that are over, the `j` actions of this round, and `shot` shots of the next. The two
  loops without a turn, a round count that is not positive and a query of 0 shots,
  are where `i` and `j` meet their bounds at once.

`ParsedQuery_proofs` proves that `safe_parsed_query()` stays inside both buffers
for every text, dictionary and buffer size of at least 1; its invariant is the
property itself. For every text in the regular form, of any length, it proves that
what is sent is the expansion (`ExpandsRegular`), or, if it does not fit, some of its
pieces, whole and in order (`TruncationIsWhole`): a word that does not fit is left out,
and what comes after it may still be sent. The invariant, `ScanInv`, says of each prefix read
what the property says of the whole: the pieces written are those of the prefix, and
while a name is being read, those and the word of that name, which the expansion
counts from its `$` on, and the code writes only at the character behind it.

`Program_proofs` proves, for any main section and any number of clients and smackers,
that each process executes the lines of its client, in order and once
(`ExecutesTheirLines`), and that the main process returns after every reporter, with
no smacker left but of a reporter that died or left before the end of its
`collect_threads()`, or never calls it (`MainReturnsLast`).
`Logged` says that the log of a process is exactly the lines of its own behind
`next`. It needs `Family`: a process starts behind the line that forked it, which its
parents have passed, so that a line it copies as passed is none of its own that it has
not executed. `Collected` keeps, behind `collect_threads()`, that the smackers of a
reporter are gone, and `MainLast` that the reporters are when the main process ends.

`Apart_proofs` proves of `TableCheck` that a table which has its rows keeps them
(`GoodTablesStay`), for any number of tables, rows and faults. Its invariant ties
`pc` to the table at hand: while it is about to be dropped it has too few rows,
while it is loaded it has just been created. On top of it, `OnlyShortFilesTheorem`
says that a table without its rows when the test starts was loaded from a file that
is not complete, after any failures and restarts. Its invariant is that the sections
before the one at hand are settled: their tables have the rows, or were loaded, to
the end, from such a file. A load that fails ends the run, so that the next one
starts over with the first section.

Of `TcpClient`, whose names `tcp_pc`, `TcpInit`, `TcpNext` and `TcpSpec` let one module
extend both, it proves for any number of clients and any answer: `AlarmsEnd` (no alarm
is pending outside `connect()`, and an undefined jump can only begin before
`sigsetjmp()`) and `StatusTheorem`. The invariant, `TcpInv`, adds that a jump from
`::connect()` on is into this call (`JumpIsOurs`).

`Dictionary_proofs` proves that the template `snprintf()` gets has one field at
most and no lone `%` at its end (`TemplateIsSafe`), whatever the user wrote. The
invariant adds that no `%` is copied before `saw_field` is set. It proves also that
every process gets the words in turn, from where its parent had come to
(`WordsTheorem`), for any dictionary and number of draws: the index of a process that
has drawn k of n words is k % n, of a `unique` one k, and nothing is drawn before the
dictionary is complete. What is loaded is proved for lists and files of any length.
`ListTheorem`: the words so far are what stands between the commas read, and
`word_buf` is what stands behind the last of them, where the last entry stays. `FileTheorem`: of the lines read
every `step`-th gave a word; `step` is never 0, and nothing is claimed of a file the
stream got stuck in.

*Recursion.* The prover cannot instantiate the induction theorems of its library, so
the inductions over sequences here (`TimesOf`, `Expansion`, `Bytes`, `Starts`,
`FlattenSeq`, `OwnReport`, `Buffer`, `Received`) are made of
first-order facts: a set of natural numbers that is not empty has a least one
(`LeastNat`, from the theorem that `<` is well founded on them), so that a set with 0,
and with n + 1 if with n, is all of them (`Upward`, `UpTo`). That a recursive function
satisfies its equations is proved first, from the existence of its prefixes
(`TimesExist`, `ExpansionExists`, `BytesExist`, `StartsExist`, `FlatExists`,
`StepsExist`). `NumShots` is a sum over a set of clients, whose definition takes them in
an order of its own: `SumExists` finds the function that adds in this order,
by induction over the size of the set, and `SumTakes` shows that any member may be
the first, so that one client more adds its shots.

Model-checked only: liveness under fairness (`ReporterFinishes`, `MysqlSmackersFinish`,
`EveryoneEnds`, `RecoversWithFiles`, `FileLoadEnds`, `ProgramEnds`, `TimeoutsWork`,
`ReceiveEnds`), which is out of the prover's reach. Every
invariant and every action property of a run that passes is a theorem.

## Disagreements found

Three are runs of their own, listed in `PROJECT.json` with the line of the code
and the words of the documentation: `exit(1)` in `Pg_client::do_connect()`; the
semaphore that all clients share, set to 1 by a client while another's smacker
holds it; a data file that was cut short and is taken as complete by the next run,
which asks `stat()` only whether it is there.

Others the models show as they are, without a run:

* `SemgetExclFails`: of two clients that find no semaphore, the one that creates
  it second dies instead of looking again (`client.cc:315`).
* `Update`: the condition of `query.cc:50` is inverted, so that the extremes of a
  client are those of its last query. `TUTORIAL:61-63` reads a minimum and maximum of
  0 as "each query took less than 1 ms". `ExtremesWereObserved` says only what is true
  of this: the extremes are times that were observed, or the first 0.
* `Regular`: a reference at the end of a query, or directly before another, is not
  expanded (`client.cc:217`).
* `OnlyLastEntryIsLost`: the last entry of a list is lost (`dictionary.cc:109`: a word is
  made at a comma and nowhere else). `MANUAL:81-82` calls the source "a comma-delimited
  list of entries", and `test-dictionary.cc:35` and 44 load lists whose last name has no
  comma behind it. The property states what the code does with such lists, with this
  loss in it: exactly the last entry is missing. A list of one entry is empty, and
  drawing from it divides by zero. The backslash does not escape a comma.
* `FileStuck`: a line of 512 characters or more keeps `load_file()` in its loop
  until memory runs out (`dictionary.cc:61`).
* `TextEnds`, `LastQuery`: "2 a b" fires b twice, "2 a b " does not.
* `Connect`: the connects of the reporter and of its table sections are in the count
  and the average that are printed, and not in `max` and `min`. `TUTORIAL:53` shows
  an average of 66 ms under a maximum of 62 ms.
* `BufferSizes`: an empty query gets a buffer of 0 bytes, and its terminating 0 is
  written behind it (`client.cc:258`); `InBounds` allows just that, and claims nothing
  of it.
* `Record`, `ReadRecord`: a name of 256 bytes or more is cut to its length modulo 256.
  Mostly the reporter dies of it; if what is left is the name of another type, its
  counts take the queries of the long one.
* `DumpResult`: `Pg_client::dump_result()` keeps the pointer it has cleared, so that
  any query after `run_save_result()` clears it again (`pg-client.cc:164`, 75).
  Dumping to "-" prints nothing there.
* `Fates`: under MySQL a query line, or a shot with `has_result_set` 0, whose rows
  nobody fetched makes the next query fail ("commands out of sync"), and a query
  before `connect()` uses a MYSQL never initialised.
* `HasEngine`: `new_client(int)` refuses the last id (`engines.cc:73`).
* `ReceiveFails`: an error of `select()` is returned as 0, which the test program takes for
  the end of the answer (`tcp_client.cc:106`).
* `SetJmp`: an alarm between `alarm()` and `sigsetjmp()` jumps to where an earlier
  call was, or nowhere (`tcp_client.cc:62`); a second is long enough in practice.

## Not modelled

* *Lexer and grammar.* Generated tables; their actions are one assignment or one
  call each, of what the other modules start from. One behaviour of the lexer
  matters to the processes: a main section longer than one read of it would be
  read by all of them at one shared offset of the file. `Program` assumes a text
  that fits, as every smack file of the distribution does, because how much is
  read at once is the generated scanner's and the stdio library's.
* *Data generator.* `TableCheck` has it row by row as a process that outlives its
  parent. What a field contains is drawn at random; the only state is the row number.
* *MySQL and PostgreSQL engines.* `compare_result()` is called from
  nowhere: a `run_check_result()` line does nothing. The loss of an open dump file when a query has no result
  (`mysql-client.cc`) is memory that the process gives back at its end.
* *Oracle engine.* `Ora_client` leaves pure virtual functions of `Client` undefined,
  so that no client of it can be made; its library is not in the repository.
* *Printing*, `Val`, the headers without code, and the build system.
