--------------------------- MODULE Program_proofs ---------------------------
(***************************************************************************)
(* Proofs about Program, for any number of clients and smackers and any    *)
(* main section that ProgramAssumption allows.                             *)
(***************************************************************************)
EXTENDS Program, TLAPS

-----------------------------------------------------------------------------
(***************************************************************************)
(* The processes.                                                          *)
(***************************************************************************)
\* The k-th process of client c is its reporter, or a smacker.
IsClient(p) == p[1] \in Clients /\ p[2] \in 0..Smackers /\ p = <<p[1], p[2]>>

\* A process is the main one, or one of a client.
LEMMA ProcsAre ==
  /\ Main \in Procs
  /\ \A c \in Clients, k \in 0..Smackers : <<c, k>> \in Procs /\ <<c, k>> # Main
  /\ \A p \in Procs \ {Main} : IsClient(p)
  /\ \A c \in Clients : SmackersOf(c) = {<<c, k>> : k \in 1..Smackers}
<1> USE ProgramAssumption DEF ProgramAssumption
<1>1. Main \in Procs
  BY DEF Procs
<1>2. ASSUME NEW c \in Clients, NEW k \in 0..Smackers
      PROVE  <<c, k>> \in Procs /\ <<c, k>> # Main
  <2>1. CASE k = 0
    BY <2>1 DEF Procs, Reporters, Main
  <2>2. CASE k # 0
    <3>1. k \in 1..Smackers
      BY <2>2
    <3>2. <<c, k>> \in SmackersOf(c)
      BY <3>1 DEF SmackersOf
    <3> QED
      BY <3>2 DEF Procs, Main
  <2> QED
    BY <2>1, <2>2
<1>3. ASSUME NEW p \in Procs \ {Main} PROVE IsClient(p)
  <2>1. CASE p \in Reporters
    BY <2>1 DEF Reporters, IsClient
  <2>2. CASE \E c \in Clients : p \in SmackersOf(c)
    BY <2>2 DEF SmackersOf, IsClient
  <2> QED
    BY <2>1, <2>2 DEF Procs
<1> QED
  BY <1>1, <1>2, <1>3 DEF SmackersOf

\* A reporter and its smackers are of one client.
LEMMA SmackersAre ==
  ASSUME NEW r \in Reporters
  PROVE  /\ r \in Procs /\ r # Main /\ r[1] \in Clients /\ r[2] = 0
         /\ \A q \in SmackersOf(r[1]) :
              q \in Procs /\ q # Main /\ q[1] = r[1] /\ q[2] > 0 /\ r = <<q[1], 0>>
<1>1. PICK c \in Clients : r = <<c, 0>>
  BY DEF Reporters
<1>2. \A q \in SmackersOf(c) : \E k \in 1..Smackers : q = <<c, k>>
  BY DEF SmackersOf
<1>3. 0 \in 0..Smackers /\ \A k \in 1..Smackers : k \in 0..Smackers
  BY ProgramAssumption DEF ProgramAssumption
<1> QED
  BY <1>1, <1>2, <1>3, ProcsAre

-----------------------------------------------------------------------------
(***************************************************************************)
(* The invariant.                                                          *)
(***************************************************************************)
Born(p) == state[p] # "unborn"

\* The values of every variable.
TypeOK ==
  /\ script \in Scripts
  /\ next \in [Procs -> Nat \ {0}]
  /\ current_client \in [Procs -> Clients \cup {"main"}]
  /\ state \in [Procs -> {"unborn", "running", "ended", "dead", "exited"}]
  /\ log \in [Procs -> Seq(Nat)]

\* The main process has forked the reporters whose init() it has come to, each
\* once; a reporter has forked smackers only if it has come to its
\* create_threads(); and each process started behind the line that forked it.
Family ==
  /\ Born(Main) /\ current_client[Main] = "main" /\ log[Main] = <<>>
  /\ \A p \in Procs \ {Main} :
       /\ ~Born(p) => log[p] = <<>> /\ next[p] = 1
       /\ Born(p) =>
            /\ current_client[p] = p[1]
            /\ \E j \in 1..Len(script) :
                 j < next[p] /\ j < next[Main] /\ script[j] = <<p[1], "init">>
            /\ p[2] > 0 =>
                 \E j \in 1..Len(script) :
                   /\ j < next[p] /\ j < next[<<p[1], 0>>]
                   /\ script[j] = <<p[1], "create_threads">>

\* The lines of p before line n.
Behind(p, n) == {i \in LinesFor(p) : i < n}

Increasing(l) == \A m, n \in 1..Len(l) : m < n => l[m] < l[n]

\* What state s of p says of the line n it parses next, and of its log l: it
\* has executed exactly the lines of its own behind it. A smacker that is past
\* its collect_threads() does not run.
LoggedAs(p, s, n, l) ==
  /\ Increasing(l)
  /\ s # "unborn" => ToSet(l) = Behind(p, n)
  /\ s = "running" /\ p[2] > 0 =>
       \A i \in LinesAfterInit(p[1]) : i < n => script[i][2] # "collect_threads"
  /\ s = "ended" => Behind(p, n) = LinesFor(p)

Logged == \A p \in Procs \ {Main} : LoggedAs(p, state[p], next[p], log[p])

\* Behind collect_threads() of a reporter none of its smackers is left.
Collected ==
  \A r \in Reporters : \A i \in ToSet(log[r]) :
    script[i] = <<r[1], "collect_threads">> => \A q \in SmackersOf(r[1]) : ~Alive(q)

\* The main process ends last.
MainLast == state[Main] = "ended" => \A r \in Reporters : ~Alive(r)

PInv == TypeOK /\ Family /\ Logged /\ Collected /\ MainLast

\* It holds when main() starts.
LEMMA InitPInv == Init => PInv
<1> SUFFICES ASSUME Init PROVE PInv
  OBVIOUS
<1>1. TypeOK
  BY DEF Init, TypeOK
<1>2. /\ \A p \in Procs : next[p] = 1 /\ log[p] = <<>> /\ current_client[p] = "main"
      /\ state[Main] = "running" /\ \A p \in Procs \ {Main} : state[p] = "unborn"
  BY ProcsAre DEF Init
<1>3. Family
  BY <1>2, ProcsAre DEF Family, Born
<1>4. Logged
  <2>1. Increasing(<<>>)
    BY DEF Increasing
  <2>2. ASSUME NEW p \in Procs \ {Main} PROVE LoggedAs(p, state[p], next[p], log[p])
    <3>1. log[p] = <<>> /\ state[p] = "unborn"
      BY <1>2
    <3> QED
      BY <2>1, <3>1 DEF LoggedAs
  <2> QED
    BY <2>2 DEF Logged
<1>5. \A r \in Reporters : r \in Procs /\ r # Main
  BY SmackersAre
<1>6. Collected /\ MainLast
  BY <1>2, <1>5 DEF Collected, MainLast, ToSet
<1> QED
  BY <1>1, <1>3, <1>4, <1>6 DEF PInv

-----------------------------------------------------------------------------
(***************************************************************************)
(* Lines.                                                                  *)
(***************************************************************************)
\* What a main section looks like.
LEMMA ScriptIs ==
  ASSUME script \in Scripts
  PROVE  /\ script \in Seq(Clients \X Methods) /\ Len(script) \in Nat
         /\ \A i \in 1..Len(script) :
              script[i][1] \in Clients /\ script[i] = <<script[i][1], script[i][2]>>
         /\ \A i, j \in 1..Len(script) :
              script[i] = script[j] /\ script[i][2] \in {"init", "create_threads"} => i = j
         /\ \A i, j \in 1..Len(script) :
              script[i][1] = script[j][1] /\ script[i][2] = "create_threads"
                /\ script[j][2] = "collect_threads" => i < j
  BY ProgramAssumption DEF ProgramAssumption

\* A process that parses for no client is the main one.
LEMMA MainOnly ==
  ASSUME PInv, NEW p \in Procs, Born(p)
  PROVE  (current_client[p] = "main") <=> (p = Main)
<1>1. CASE p = Main
  BY <1>1 DEF PInv, Family
<1>2. CASE p # Main
  <2>1. current_client[p] = p[1]
    BY <1>2 DEF PInv, Family
  <2>2. p[1] \in Clients
    BY <1>2, ProcsAre DEF IsClient
  <2> QED
    BY <1>2, <2>1, <2>2, ProgramAssumption DEF ProgramAssumption
<1> QED
  BY <1>1, <1>2

\* A line of its client that a process has come to, other than init(), is one
\* of its own, and those behind it are then one more.
LEMMA MineIsDue ==
  ASSUME PInv, NEW p \in Procs, AtLine(p), Mine(p), Line(p)[2] # "init"
  PROVE  /\ p # Main /\ IsClient(p) /\ next[p] \in LinesFor(p)
         /\ next[p] \in 1..Len(script) /\ script[next[p]] = <<p[1], Line(p)[2]>>
         /\ Behind(p, next[p] + 1) = Behind(p, next[p]) \cup {next[p]}
<1> DEFINE n == next[p]
<1>1. n \in 1..Len(script) /\ Born(p)
  BY ScriptIs DEF PInv, TypeOK, AtLine, Alive, Born
<1>2. p # Main
  BY <1>1, MainOnly, ScriptIs, ProgramAssumption
     DEF ProgramAssumption, PInv, TypeOK, Mine, Line, Family
<1>3. IsClient(p) /\ current_client[p] = p[1]
  BY <1>1, <1>2, ProcsAre DEF PInv, Family
<1>4. script[n] = <<p[1], Line(p)[2]>> /\ script[n][1] = p[1] /\ script[n][2] = Line(p)[2]
  BY <1>1, <1>3, ScriptIs DEF PInv, TypeOK, Mine, Line
<1>5. PICK j \in 1..Len(script) : j < n /\ script[j] = <<p[1], "init">>
  BY <1>1, <1>2 DEF PInv, Family
<1>6. n \in LinesAfterInit(p[1])
  BY <1>1, <1>4, <1>5 DEF LinesAfterInit
<1>7. p[2] > 0 => ~\E i \in LinesAfterInit(p[1]) : i < n /\ script[i][2] = "collect_threads"
  BY <1>2 DEF PInv, Logged, LoggedAs, AtLine, Alive
<1>8. n \in LinesFor(p)
  BY <1>6, <1>7 DEF LinesFor
<1>9. \A i \in LinesFor(p) : i \in Nat
  BY DEF LinesFor, LinesAfterInit
<1> QED
  BY <1>1, <1>2, <1>3, <1>4, <1>8, <1>9 DEF Behind

\* A line a process skips is not.
LEMMA OthersAreNot ==
  ASSUME PInv, NEW p \in Procs \ {Main}, SkipLine(p)
  PROVE  /\ Behind(p, next[p] + 1) = Behind(p, next[p])
         /\ next[p] \notin LinesAfterInit(p[1])
<1>1. next[p] \in 1..Len(script) /\ Born(p)
  BY ScriptIs DEF PInv, TypeOK, SkipLine, AtLine, Alive, Born
<1>2. current_client[p] = p[1]
  BY <1>1 DEF PInv, Family
<1>3. next[p] \notin LinesAfterInit(p[1])
  BY <1>2 DEF SkipLine, Mine, Line, LinesAfterInit
<1>4. \A i \in LinesFor(p) : i \in Nat /\ i # next[p]
  BY <1>3 DEF LinesFor, LinesAfterInit
<1> QED
  BY <1>1, <1>3, <1>4 DEF Behind

\* A log that gets the line its process has come to goes on increasing.
LEMMA LogGrows ==
  ASSUME NEW l \in Seq(Nat), NEW n \in Nat, Increasing(l), \A i \in ToSet(l) : i < n
  PROVE  /\ Append(l, n) \in Seq(Nat) /\ Increasing(Append(l, n))
         /\ ToSet(Append(l, n)) = ToSet(l) \cup {n}
<1> DEFINE a == Append(l, n)
<1>1. /\ a \in Seq(Nat) /\ Len(a) = Len(l) + 1 /\ Len(l) \in Nat /\ a[Len(l) + 1] = n
      /\ \A i \in 1..Len(l) : a[i] = l[i]
      /\ DOMAIN a = 1..(Len(l) + 1) /\ DOMAIN l = 1..Len(l)
  OBVIOUS
<1> HIDE DEF a
<1>len. Len(a) = Len(l) + 1 /\ Len(l) \in Nat
  BY <1>1
<1>2. \A i \in 1..Len(l) : l[i] < n
  BY <1>1 DEF ToSet
<1>3. Increasing(a)
  <2> SUFFICES ASSUME NEW m \in 1..Len(a), NEW k \in 1..Len(a), m < k PROVE a[m] < a[k]
    BY DEF Increasing
  <2>1. m \in 1..Len(l)
    BY <1>len
  <2>2. CASE k = Len(l) + 1
    BY <1>1, <1>2, <2>1, <2>2
  <2>3. CASE k # Len(l) + 1
    <3>1. k \in 1..Len(l)
      BY <1>len, <2>3
    <3>2. l[m] < l[k]
      BY <2>1, <3>1 DEF Increasing
    <3>3. a[m] = l[m] /\ a[k] = l[k]
      BY <1>1, <2>1, <3>1, Zenon
    <3> QED
      BY <3>2, <3>3
  <2> QED
    BY <2>2, <2>3
<1>4. ToSet(a) = ToSet(l) \cup {n}
  <2>1. DOMAIN a = DOMAIN l \cup {Len(l) + 1} /\ a[Len(l) + 1] = n
        /\ \A i \in DOMAIN l : a[i] = l[i]
    <3>1. DOMAIN a = DOMAIN l \cup {Len(l) + 1}
      BY <1>1, <1>len
    <3>2. \A i \in DOMAIN l : a[i] = l[i]
      BY <1>1, Zenon
    <3> QED
      BY <1>1, <3>1, <3>2
  <2>2. ToSet(a) = {a[i] : i \in DOMAIN a} /\ ToSet(l) = {l[i] : i \in DOMAIN l}
    BY DEF ToSet
  <2>3. {a[i] : i \in DOMAIN a} = {l[i] : i \in DOMAIN l} \cup {n}
    BY <2>1
  <2> QED
    BY <2>2, <2>3
<1> QED
  BY <1>1, <1>3, <1>4 DEF a

-----------------------------------------------------------------------------
(***************************************************************************)
(* A step in which one process goes on by itself.                          *)
(***************************************************************************)
\* Nobody goes back, and nobody comes back to be unborn.
Onward ==
  \A q \in Procs : next[q] <= next'[q] /\ (Born(q) => Born(q)')

\* What made a process part of the family stays so.
LEMMA FamilyStays ==
  ASSUME PInv, TypeOK', Onward, UNCHANGED script, NEW p \in Procs \ {Main}, Born(p)
  PROVE  /\ \E j \in 1..Len(script) :
              j < next'[p] /\ j < next'[Main] /\ script[j] = <<p[1], "init">>
         /\ p[2] > 0 =>
              \E j \in 1..Len(script) :
                /\ j < next'[p] /\ j < next'[<<p[1], 0>>]
                /\ script[j] = <<p[1], "create_threads">>
<1> DEFINE r == <<p[1], 0>>
<1>1. Main \in Procs /\ r \in Procs
  <2>1. p[1] \in Clients /\ 0 \in 0..Smackers
    BY ProcsAre, ProgramAssumption DEF ProgramAssumption, IsClient
  <2> QED
    BY <2>1, ProcsAre
<1>2. Len(script) \in Nat
  BY ScriptIs DEF PInv, TypeOK
<1>3. \A q \in Procs : next[q] \in Nat /\ next'[q] \in Nat /\ next[q] <= next'[q]
  BY DEF PInv, TypeOK, Onward
<1> HIDE DEF r
<1>4. \A j \in 1..Len(script), q \in Procs : j < next[q] => j < next'[q]
  BY <1>2, <1>3
<1>5. PICK j \in 1..Len(script) :
        j < next[p] /\ j < next[Main] /\ script[j] = <<p[1], "init">>
  BY DEF PInv, Family
<1>6. ASSUME p[2] > 0
      PROVE  \E i \in 1..Len(script) :
               i < next'[p] /\ i < next'[r] /\ script[i] = <<p[1], "create_threads">>
  <2>1. PICK i \in 1..Len(script) :
          i < next[p] /\ i < next[r] /\ script[i] = <<p[1], "create_threads">>
    BY <1>6 DEF PInv, Family, r
  <2> QED
    BY <1>1, <1>4, <2>1
<1> QED
  BY <1>1, <1>4, <1>5, <1>6 DEF r

\* The script does not change, and so neither do the lines of a process.
LEMMA LoggedStays ==
  ASSUME UNCHANGED script, NEW p \in Procs,
         LoggedAs(p, state'[p], next'[p], log'[p])
  PROVE  LoggedAs(p, state[p], next[p], log[p])'
<1>1. LinesAfterInit(p[1])' = LinesAfterInit(p[1])
  BY DEF LinesAfterInit
<1>2. LinesFor(p)' = LinesFor(p)
  BY <1>1 DEF LinesFor
<1>3. Behind(p, next[p])' = Behind(p, next'[p])
  BY <1>2 DEF Behind
<1>4. Increasing(log[p])' = Increasing(log'[p])
  BY DEF Increasing
<1> QED
  BY <1>1, <1>2, <1>3, <1>4 DEF LoggedAs

\* If a process goes on as LoggedAs allows it, all others staying where they
\* are, the invariant stays.
LEMMA OneGoesOn ==
  ASSUME PInv, NEW p \in Procs, Alive(p),
         NEW s \in {"running", "ended", "dead", "exited"}, NEW n \in Nat, NEW l \in Seq(Nat),
         n >= next[p],
         UNCHANGED <<script, current_client>>,
         state' = [state EXCEPT ![p] = s],
         next' = [next EXCEPT ![p] = n],
         log' = [log EXCEPT ![p] = l],
         p = Main => /\ l = log[p]
                     /\ s = "ended" => \A r \in Reporters : ~Alive(r),
         p # Main => LoggedAs(p, s, n, l),
         p \in Reporters =>
           \A i \in ToSet(l) :
             script[i] = <<p[1], "collect_threads">> =>
               i \in ToSet(log[p]) \/ \A q \in SmackersOf(p[1]) : ~Alive(q)
  PROVE  PInv'
<1>1. /\ state'[p] = s /\ next'[p] = n /\ log'[p] = l /\ state[p] = "running"
      /\ \A q \in Procs \ {p} :
           state'[q] = state[q] /\ next'[q] = next[q] /\ log'[q] = log[q]
  BY DEF PInv, TypeOK, Alive
<1>2. TypeOK'
  BY DEF PInv, TypeOK
<1>3. Onward /\ \A q \in Procs : Born(q)' = Born(q)
  BY <1>1 DEF Onward, Born, PInv, TypeOK
<1>4. Family'
  <2>1. (Born(Main) /\ current_client[Main] = "main" /\ log[Main] = <<>>)'
    BY <1>1, <1>3, ProcsAre DEF PInv, Family
  <2>2. ASSUME NEW q \in Procs \ {Main}, ~Born(q) PROVE log'[q] = <<>> /\ next'[q] = 1
    BY <1>1, <2>2 DEF PInv, Family, Born
  <2>3. ASSUME NEW q \in Procs \ {Main}, Born(q) PROVE current_client'[q] = q[1]
    BY <2>3 DEF PInv, Family
  <2> QED
    BY <1>2, <1>3, <2>1, <2>2, <2>3, FamilyStays DEF Family
<1>5. Logged'
  <2>1. ASSUME NEW q \in Procs \ {Main} PROVE LoggedAs(q, state'[q], next'[q], log'[q])
    BY <1>1 DEF PInv, Logged
  <2> QED
    BY <2>1, LoggedStays DEF Logged
<1>6. \A q \in Procs : Alive(q)' => Alive(q)
  BY <1>1 DEF Alive
<1>7. Collected'
  <2> SUFFICES ASSUME NEW r \in Reporters, NEW i \in ToSet(log'[r]),
                      script[i] = <<r[1], "collect_threads">>
               PROVE  \A q \in SmackersOf(r[1]) : ~Alive(q)
    <3>1. \A r \in Reporters : \A q \in SmackersOf(r[1]) : q \in Procs
      BY SmackersAre
    <3> QED
      BY <1>6, <3>1 DEF Collected
  <2>1. r \in Procs
    BY DEF Procs
  <2>2. CASE i \in ToSet(log[r])
    BY <2>2 DEF PInv, Collected
  <2>3. CASE i \notin ToSet(log[r])
    <3>1. r = p
      BY <1>1, <2>1, <2>3
    <3> QED
      BY <1>1, <2>3, <3>1
  <2> QED
    BY <2>2, <2>3
<1>8. MainLast'
  <2> SUFFICES ASSUME state'[Main] = "ended" PROVE \A r \in Reporters : ~Alive(r)
    <3>1. \A r \in Reporters : r \in Procs
      BY DEF Procs
    <3> QED
      BY <1>6, <3>1 DEF MainLast
  <2>1. CASE p = Main
    BY <1>1, <2>1
  <2>2. CASE p # Main
    BY <1>1, <2>2, ProcsAre DEF PInv, MainLast
  <2> QED
    BY <2>1, <2>2
<1> QED
  BY <1>2, <1>4, <1>5, <1>7, <1>8 DEF PInv

-----------------------------------------------------------------------------
(***************************************************************************)
(* Each step.                                                              *)
(***************************************************************************)
\* A process skips a line that is not its own.
LEMMA SkipKeeps == ASSUME PInv, NEW p \in Procs, SkipLine(p) PROVE PInv'
<1>1. Alive(p) /\ next[p] \in Nat /\ log[p] \in Seq(Nat)
  BY DEF SkipLine, AtLine, PInv, TypeOK
<1>2. /\ next' = [next EXCEPT ![p] = next[p] + 1] /\ UNCHANGED <<script, current_client>>
      /\ state' = [state EXCEPT ![p] = "running"] /\ log' = [log EXCEPT ![p] = log[p]]
  BY <1>1 DEF SkipLine, Advance, Alive, PInv, TypeOK
<1>3. p # Main => LoggedAs(p, "running", next[p] + 1, log[p])
  <2> SUFFICES ASSUME p # Main PROVE LoggedAs(p, "running", next[p] + 1, log[p])
    OBVIOUS
  <2>1. LoggedAs(p, "running", next[p], log[p])
    BY <1>1 DEF PInv, Logged, Alive
  <2>2. /\ Behind(p, next[p] + 1) = Behind(p, next[p])
        /\ next[p] \notin LinesAfterInit(p[1])
    BY OthersAreNot
  <2>3. \A i \in LinesAfterInit(p[1]) : i < next[p] + 1 => i < next[p]
    BY <1>1, <2>2 DEF LinesAfterInit
  <2> QED
    BY <2>1, <2>2, <2>3 DEF LoggedAs
<1>4. next[p] + 1 \in Nat /\ next[p] + 1 >= next[p]
  BY <1>1
<1> QED
  BY <1>1, <1>2, <1>3, <1>4, OneGoesOn, Zenon

\* A process executes a line of its own. It may go on behind it, unless it is
\* a smacker and the line collect_threads().
LEMMA ExecuteKeeps ==
  ASSUME PInv, NEW p \in Procs, AtLine(p), Mine(p), Line(p)[2] # "init",
         Executed(p), UNCHANGED <<script, current_client>>,
         NEW s \in {"running", "ended"}, state' = [state EXCEPT ![p] = s],
         s = "running" =>
           (p[2] > 0 => Line(p)[2] # "collect_threads"),
         s = "ended" => p[2] > 0 /\ Line(p)[2] = "collect_threads",
         Line(p)[2] = "collect_threads" /\ p \in Reporters =>
           \A q \in SmackersOf(p[1]) : ~Alive(q)
  PROVE  PInv'
<1> DEFINE n == next[p]
           l == Append(log[p], n)
<1>1. Alive(p) /\ n \in Nat /\ log[p] \in Seq(Nat)
  BY DEF AtLine, PInv, TypeOK
<1>2. next' = [next EXCEPT ![p] = n + 1] /\ log' = [log EXCEPT ![p] = l]
  BY DEF Executed, Advance
<1>3. /\ p # Main /\ IsClient(p) /\ n \in LinesFor(p)
      /\ n \in 1..Len(script) /\ script[n] = <<p[1], Line(p)[2]>>
      /\ Behind(p, n + 1) = Behind(p, n) \cup {n}
  BY MineIsDue
<1>4. LoggedAs(p, "running", n, log[p])
  BY <1>1, <1>3 DEF PInv, Logged, Alive
<1>5. \A i \in ToSet(log[p]) : i < n
  BY <1>4 DEF LoggedAs, Behind
<1>6. l \in Seq(Nat) /\ Increasing(l) /\ ToSet(l) = ToSet(log[p]) \cup {n}
  BY <1>1, <1>4, <1>5, LogGrows DEF LoggedAs
<1>7. ToSet(l) = Behind(p, n + 1)
  BY <1>3, <1>4, <1>6 DEF LoggedAs
<1>8. \A i \in LinesAfterInit(p[1]) : i < n + 1 => i < n \/ i = n
  BY <1>1 DEF LinesAfterInit
<1>9. s = "running" /\ p[2] > 0 =>
        \A i \in LinesAfterInit(p[1]) : i < n + 1 => script[i][2] # "collect_threads"
  BY <1>3, <1>4, <1>8 DEF LoggedAs
<1>10. s = "ended" => Behind(p, n + 1) = LinesFor(p)
  <2> SUFFICES ASSUME s = "ended", NEW i \in LinesFor(p) PROVE i < n + 1
    BY DEF Behind
  <2>1. n \in LinesAfterInit(p[1]) /\ script[n][2] = "collect_threads"
    BY <1>3 DEF LinesFor
  <2>2. ~(n < i) /\ i \in Nat
    BY <2>1 DEF LinesFor, LinesAfterInit
  <2> QED
    BY <1>1, <2>2
<1>11. LoggedAs(p, s, n + 1, l)
  BY <1>6, <1>7, <1>9, <1>10 DEF LoggedAs
<1>12. p \in Reporters =>
         \A i \in ToSet(l) :
           script[i] = <<p[1], "collect_threads">> =>
             i \in ToSet(log[p]) \/ \A q \in SmackersOf(p[1]) : ~Alive(q)
  BY <1>3, <1>6
<1>13. n + 1 \in Nat /\ n + 1 >= n /\ s \in {"running", "ended", "dead", "exited"}
  BY <1>1
<1> HIDE DEF l
<1> QED
  BY <1>1, <1>2, <1>3, <1>6, <1>11, <1>12, <1>13, OneGoesOn, Zenon

\* A process ends: by die(), exit(1) or a signal wherever it is, or behind the
\* last line; the main process only after the reporters.
LEMMA EndKeeps ==
  ASSUME PInv, NEW p \in Procs, Alive(p), NEW s \in {"ended", "dead", "exited"}, Ends(p, s),
         UNCHANGED <<script, next, current_client, log>>,
         s = "ended" => next[p] > Len(script),
         s = "ended" /\ p = Main => \A r \in Reporters : ~Alive(r)
  PROVE  PInv'
<1>1. next[p] \in Nat /\ log[p] \in Seq(Nat) /\ Len(script) \in Nat
  BY ScriptIs DEF PInv, TypeOK
<1>2. /\ state' = [state EXCEPT ![p] = s]
      /\ next' = [next EXCEPT ![p] = next[p]] /\ log' = [log EXCEPT ![p] = log[p]]
  BY DEF Ends, PInv, TypeOK
<1>3. p # Main => LoggedAs(p, s, next[p], log[p])
  <2> SUFFICES ASSUME p # Main PROVE LoggedAs(p, s, next[p], log[p])
    OBVIOUS
  <2>1. LoggedAs(p, "running", next[p], log[p])
    <3>1. state[p] = "running" /\ LoggedAs(p, state[p], next[p], log[p])
      BY DEF PInv, Logged, Alive
    <3> QED
      BY <3>1
  <2>2. s = "ended" => Behind(p, next[p]) = LinesFor(p)
    <3> SUFFICES ASSUME s = "ended", NEW i \in LinesFor(p) PROVE i < next[p]
      BY DEF Behind
    <3>1. i \in 1..Len(script)
      BY DEF LinesFor, LinesAfterInit
    <3> QED
      BY <1>1, <3>1
  <2>3. s # "unborn" /\ s # "running"
    OBVIOUS
  <2>4. Increasing(log[p]) /\ ToSet(log[p]) = Behind(p, next[p])
    BY <2>1 DEF LoggedAs
  <2> QED
    BY <2>2, <2>3, <2>4 DEF LoggedAs
<1>4. next[p] >= next[p] /\ s \in {"running", "ended", "dead", "exited"}
  BY <1>1
<1> QED
  BY <1>1, <1>2, <1>3, <1>4, OneGoesOn, Zenon

\* init() forks a reporter that was not there, which goes on behind that line.
LEMMA InitLineKeeps == ASSUME PInv, NEW p \in Procs, InitLine(p) PROVE PInv'
<1> DEFINE n == next[p]
           c == Line(p)[1]
           q == <<c, 0>>
<1>1. /\ Alive(p) /\ n \in 1..Len(script) /\ n \in Nat /\ Born(p)
      /\ c \in Clients /\ script[n] = <<c, "init">>
  BY ScriptIs DEF InitLine, AtLine, Line, Alive, Born, PInv, TypeOK
<1>2. p = Main
  BY <1>1, MainOnly DEF InitLine
<1>3. q \in Procs /\ q # Main /\ q[1] = c /\ q[2] = 0
  <2>1. 0 \in 0..Smackers
    BY ProgramAssumption DEF ProgramAssumption
  <2> QED
    BY <1>1, <2>1, ProcsAre
<1>4. /\ UNCHANGED <<script, log>>
      /\ state' = [state EXCEPT ![q] = "running"]
      /\ current_client' = [current_client EXCEPT ![q] = c]
      /\ next' = [next EXCEPT ![p] = n + 1, ![q] = n + 1]
  BY DEF InitLine
<1> HIDE DEF q, c
<1>5. /\ state'[q] = "running" /\ current_client'[q] = c /\ next'[q] = n + 1 /\ next'[p] = n + 1
      /\ \A r \in Procs \ {q} :
           state'[r] = state[r] /\ current_client'[r] = current_client[r]
           /\ (r # p => next'[r] = next[r])
  BY <1>2, <1>3, <1>4 DEF PInv, TypeOK
<1>once. \A j \in 1..Len(script) : script[j] = <<c, "init">> => j = n
  <2> SUFFICES ASSUME NEW j \in 1..Len(script), script[j] = <<c, "init">> PROVE j = n
    OBVIOUS
  <2>1. script[j] = script[n] /\ script[j][2] = "init"
    BY <1>1
  <2> QED
    BY <1>1, <2>1, ScriptIs DEF PInv, TypeOK
<1>6. ~Born(q)
  <2> SUFFICES ASSUME Born(q) PROVE FALSE
    OBVIOUS
  <2>1. PICK j \in 1..Len(script) : j < n /\ script[j] = <<c, "init">>
    BY <1>2, <1>3 DEF PInv, Family
  <2>2. j = n
    BY <1>once, <2>1
  <2> QED
    BY <1>1, <2>1, <2>2
<1>7. log[q] = <<>> /\ next[q] = 1
  BY <1>3, <1>6 DEF PInv, Family
<1>8. TypeOK'
  <2>1. n + 1 \in Nat \ {0}
    BY <1>1
  <2>2. next' \in [Procs -> Nat \ {0}]
    BY <1>4, <2>1 DEF PInv, TypeOK
  <2>3. state' \in [Procs -> {"unborn", "running", "ended", "dead", "exited"}]
    BY <1>4 DEF PInv, TypeOK
  <2>4. current_client' \in [Procs -> Clients \cup {"main"}]
    BY <1>1, <1>4 DEF PInv, TypeOK
  <2> QED
    BY <1>4, <2>2, <2>3, <2>4 DEF PInv, TypeOK
<1>9. Onward
  <2> SUFFICES ASSUME NEW r \in Procs PROVE next[r] <= next'[r] /\ (Born(r) => Born(r)')
    BY DEF Onward
  <2>1. next[r] \in Nat
    BY DEF PInv, TypeOK
  <2>2. CASE r = q
    BY <1>1, <1>5, <1>7, <2>2 DEF Born
  <2>3. CASE r # q
    BY <1>1, <1>5, <2>1, <2>3 DEF Born
  <2> QED
    BY <2>2, <2>3
<1>10. Family'
  <2>1. (Born(Main) /\ current_client[Main] = "main" /\ log[Main] = <<>>)'
    BY <1>3, <1>4, <1>5, ProcsAre DEF PInv, Family, Born
  <2>2. ASSUME NEW r \in Procs \ {Main}, ~Born(r)' PROVE log'[r] = <<>> /\ next'[r] = 1
    BY <1>2, <1>4, <1>5, <2>2 DEF PInv, Family, Born
  <2>3. ASSUME NEW r \in Procs \ {Main, q}, Born(r)'
        PROVE  current_client'[r] = r[1] /\ Born(r)
    BY <1>5, <2>3 DEF PInv, Family, Born
  <2>4. /\ current_client'[q] = q[1]
        /\ \E j \in 1..Len(script) :
             j < next'[q] /\ j < next'[Main] /\ script[j] = <<q[1], "init">>
    <3>1. n < next'[q] /\ n < next'[Main]
      BY <1>1, <1>2, <1>5
    <3> QED
      BY <1>1, <1>3, <1>5, <3>1
  <2> QED
    <3>1. ASSUME NEW r \in Procs \ {Main}, Born(r)'
          PROVE  /\ current_client'[r] = r[1]
                 /\ \E j \in 1..Len(script) :
                      j < next'[r] /\ j < next'[Main] /\ script[j] = <<r[1], "init">>
                 /\ r[2] > 0 =>
                      \E j \in 1..Len(script) :
                        /\ j < next'[r] /\ j < next'[<<r[1], 0>>]
                        /\ script[j] = <<r[1], "create_threads">>
      <4>1. CASE r = q
        BY <1>3, <2>4, <4>1
      <4>2. CASE r # q
        BY <1>4, <1>8, <1>9, <2>3, <3>1, <4>2, FamilyStays
      <4> QED
        BY <4>1, <4>2
    <3> QED
      BY <1>4, <2>1, <2>2, <3>1 DEF Family
<1>11. Logged'
  <2>1. LoggedAs(q, "running", n + 1, <<>>)
    <3>1. \A i \in LinesAfterInit(c) : ~(i < n + 1)
      <4> SUFFICES ASSUME NEW i \in LinesAfterInit(c), i < n + 1 PROVE FALSE
        OBVIOUS
      <4>1. PICK j \in 1..(i - 1) : script[j] = <<c, "init">>
        BY DEF LinesAfterInit
      <4>2. i \in 1..Len(script) /\ Len(script) \in Nat
        BY ScriptIs DEF LinesAfterInit, PInv, TypeOK
      <4>3. j \in 1..Len(script) /\ j < i
        BY <4>1, <4>2
      <4>4. j = n
        BY <1>once, <4>1, <4>3
      <4> QED
        BY <1>1, <4>2, <4>3, <4>4
    <3>2. Behind(q, n + 1) = {}
      BY <1>3, <3>1 DEF Behind, LinesFor
    <3>3. Increasing(<<>>) /\ ToSet(<<>>) = {}
      BY DEF Increasing, ToSet
    <3>4. ~(q[2] > 0)
      BY <1>3
    <3> QED
      BY <3>2, <3>3, <3>4 DEF LoggedAs
  <2>2. ASSUME NEW r \in Procs \ {Main} PROVE LoggedAs(r, state'[r], next'[r], log'[r])
    <3>1. CASE r = q
      BY <1>4, <1>5, <1>7, <2>1, <3>1
    <3>2. CASE r # q
      BY <1>2, <1>4, <1>5, <3>2 DEF PInv, Logged
    <3> QED
      BY <3>1, <3>2
  <2> QED
    BY <1>4, <2>2, LoggedStays DEF Logged
<1>12. Collected'
  <2> SUFFICES ASSUME NEW r \in Reporters, NEW i \in ToSet(log[r]),
                      script[i] = <<r[1], "collect_threads">>, NEW t \in SmackersOf(r[1])
               PROVE  ~Alive(t)'
    BY <1>4 DEF Collected
  <2>1. ~Alive(t)
    BY DEF PInv, Collected
  <2>2. t \in Procs /\ t # q
    BY <1>3, SmackersAre
  <2> QED
    BY <1>5, <2>1, <2>2 DEF Alive
<1>13. MainLast'
  BY <1>1, <1>2, <1>3, <1>5, ProcsAre DEF MainLast, Alive
<1> QED
  BY <1>8, <1>10, <1>11, <1>12, <1>13 DEF PInv

\* create_threads() forks smackers that were not there, which go on behind that
\* line with what their reporter has executed.
LEMMA CreateKeeps == ASSUME PInv, NEW p \in Procs, CreateThreads(p) PROVE PInv'
<1> DEFINE n == next[p]
           c == p[1]
           l == Append(log[p], n)
<1>1. /\ AtLine(p) /\ Mine(p) /\ Line(p)[2] = "create_threads" /\ Alive(p) /\ n \in Nat
      /\ log[p] \in Seq(Nat) /\ UNCHANGED script /\ Born(p)
  BY DEF CreateThreads, AtLine, Alive, Born, PInv, TypeOK
<1>2. /\ p # Main /\ IsClient(p) /\ n \in LinesFor(p)
      /\ n \in 1..Len(script) /\ script[n] = <<c, "create_threads">>
      /\ Behind(p, n + 1) = Behind(p, n) \cup {n}
  BY <1>1, MineIsDue
<1>once. \A j \in 1..Len(script) : script[j] = <<c, "create_threads">> => j = n
  <2> SUFFICES ASSUME NEW j \in 1..Len(script), script[j] = <<c, "create_threads">> PROVE j = n
    OBVIOUS
  <2>1. script[j] = script[n] /\ script[j][2] = "create_threads"
    BY <1>2
  <2> QED
    BY <1>2, <2>1, ScriptIs DEF PInv, TypeOK
<1>late. \A j \in 1..Len(script) :
           script[j][1] = c /\ script[j][2] = "collect_threads" => n < j
  <2> SUFFICES ASSUME NEW j \in 1..Len(script), script[j][1] = c,
                      script[j][2] = "collect_threads"
               PROVE  n < j
    OBVIOUS
  <2>1. script[n][1] = script[j][1] /\ script[n][2] = "create_threads"
    BY <1>2
  <2> QED
    BY <1>2, <2>1, ScriptIs DEF PInv, TypeOK
<1>3. p[2] = 0 /\ p = <<c, 0>> /\ p \in Reporters /\ current_client[p] = c
  <2>1. ~(p[2] > 0)
    <3> SUFFICES ASSUME p[2] > 0 PROVE FALSE
      OBVIOUS
    <3>1. PICK j \in 1..Len(script) : j < n /\ script[j] = <<c, "create_threads">>
      BY <1>1, <1>2 DEF PInv, Family
    <3> QED
      BY <1>1, <1>once, <3>1
  <2>2. p[2] \in Nat /\ c \in Clients /\ p = <<c, p[2]>>
    BY <1>2, ProgramAssumption DEF ProgramAssumption, IsClient
  <2> QED
    BY <1>1, <1>2, <2>1, <2>2 DEF Reporters, PInv, Family
<1>4. PICK new \in SUBSET SmackersOf(c) :
        /\ state' = [q \in Procs |-> IF q \in new \cup {p} THEN "running" ELSE state[q]]
        /\ current_client' =
             [q \in Procs |-> IF q \in new \cup {p} THEN current_client[p] ELSE current_client[q]]
        /\ next' = [q \in Procs |-> IF q \in new \cup {p} THEN n + 1 ELSE next[q]]
        /\ log' = [q \in Procs |-> IF q \in new \cup {p} THEN l ELSE log[q]]
  BY DEF CreateThreads
<1> HIDE DEF l, n
<1>5. \A q \in new : q \in Procs /\ q # Main /\ q[1] = c /\ q[2] > 0 /\ p = <<q[1], 0>>
  BY <1>3, SmackersAre
<1>6. /\ \A q \in new \cup {p} :
           q \in Procs /\ state'[q] = "running" /\ current_client'[q] = c
           /\ next'[q] = n + 1 /\ log'[q] = l
      /\ \A q \in Procs : q \notin new \cup {p} =>
           state'[q] = state[q] /\ current_client'[q] = current_client[q]
           /\ next'[q] = next[q] /\ log'[q] = log[q]
  BY <1>3, <1>4, <1>5
<1>7. \A q \in new : ~Born(q) /\ next[q] = 1
  <2> SUFFICES ASSUME NEW q \in new PROVE ~Born(q) /\ next[q] = 1
    OBVIOUS
  <2>1. ~Born(q)
    <3> SUFFICES ASSUME Born(q) PROVE FALSE
      OBVIOUS
    <3>1. PICK j \in 1..Len(script) : j < next[p] /\ script[j] = <<c, "create_threads">>
      BY <1>5 DEF PInv, Family
    <3> QED
      BY <1>1, <1>once, <3>1 DEF n
  <2> QED
    BY <1>5, <2>1 DEF PInv, Family
<1>8. LoggedAs(p, "running", n, log[p])
  BY <1>1, <1>2 DEF PInv, Logged, Alive, n
<1>9. \A i \in ToSet(log[p]) : i < n
  BY <1>8 DEF LoggedAs, Behind
<1>10. l \in Seq(Nat) /\ Increasing(l) /\ ToSet(l) = Behind(p, n + 1)
  <2>1. l \in Seq(Nat) /\ Increasing(l) /\ ToSet(l) = ToSet(log[p]) \cup {n}
    BY <1>1, <1>8, <1>9, LogGrows DEF LoggedAs, l
  <2> QED
    BY <1>2, <1>8, <2>1 DEF LoggedAs
<1>11. TypeOK'
  <2>1. current_client[p] \in Clients \cup {"main"}
    BY DEF PInv, TypeOK
  <2>2. n + 1 \in Nat \ {0}
    BY <1>1
  <2> QED
    BY <1>1, <1>4, <1>10, <2>1, <2>2 DEF PInv, TypeOK
<1>12. Onward
  <2> SUFFICES ASSUME NEW q \in Procs PROVE next[q] <= next'[q] /\ (Born(q) => Born(q)')
    BY DEF Onward
  <2>1. next[q] \in Nat
    BY DEF PInv, TypeOK
  <2>2. CASE q \in new
    BY <1>1, <1>6, <1>7, <2>2 DEF Born
  <2>3. CASE q = p
    BY <1>1, <1>6, <2>3 DEF Born, n
  <2>4. CASE q \notin new \cup {p}
    BY <1>6, <2>1, <2>4 DEF Born
  <2> QED
    BY <2>2, <2>3, <2>4
<1>13. Family'
  <2>1. Main \in Procs /\ Main \notin new \cup {p}
    BY <1>2, <1>5, ProcsAre
  <2>2. (Born(Main) /\ current_client[Main] = "main" /\ log[Main] = <<>>)'
    BY <1>6, <2>1 DEF PInv, Family, Born
  <2>3. ASSUME NEW q \in Procs \ {Main}, ~Born(q)' PROVE log'[q] = <<>> /\ next'[q] = 1
    BY <1>6, <2>3 DEF PInv, Family, Born
  <2>4. ASSUME NEW q \in Procs \ {Main}, Born(q)'
        PROVE  /\ current_client'[q] = q[1]
               /\ \E j \in 1..Len(script) :
                    j < next'[q] /\ j < next'[Main] /\ script[j] = <<q[1], "init">>
               /\ q[2] > 0 =>
                    \E j \in 1..Len(script) :
                      /\ j < next'[q] /\ j < next'[<<q[1], 0>>]
                      /\ script[j] = <<q[1], "create_threads">>
    <3>1. CASE q \in new
      <4>1. PICK j \in 1..Len(script) :
              j < next[p] /\ j < next[Main] /\ script[j] = <<c, "init">>
        BY <1>1, <1>2 DEF PInv, Family
      <4>2. Len(script) \in Nat
        BY ScriptIs DEF PInv, TypeOK
      <4>3. j < next'[q] /\ j < next'[Main]
        BY <1>1, <1>6, <2>1, <3>1, <4>1, <4>2 DEF n
      <4>4. n < next'[q] /\ n < next'[p]
        BY <1>1, <1>6, <3>1
      <4> QED
        BY <1>2, <1>5, <1>6, <3>1, <4>1, <4>3, <4>4 DEF n
    <3>2. CASE q \notin new
      <4>1. Born(q) /\ current_client'[q] = q[1]
        <5>1. CASE q = p
          BY <1>1, <1>3, <1>6, <5>1
        <5>2. CASE q # p
          <6>1. q \notin new \cup {p}
            BY <3>2, <5>2
          <6>2. state'[q] = state[q] /\ current_client'[q] = current_client[q]
            BY <1>6, <6>1
          <6>3. Born(q)
            BY <2>4, <6>2 DEF Born
          <6> QED
            BY <6>2, <6>3 DEF PInv, Family
        <5> QED
          BY <5>1, <5>2
      <4> QED
        BY <1>1, <1>11, <1>12, <4>1, FamilyStays
    <3> QED
      BY <3>1, <3>2
  <2> QED
    BY <1>1, <2>2, <2>3, <2>4 DEF Family
<1>14. \A i \in LinesAfterInit(c) : i < n + 1 => script[i][2] # "collect_threads"
  <2> SUFFICES ASSUME NEW i \in LinesAfterInit(c), script[i][2] = "collect_threads"
               PROVE  ~(i < n + 1)
    OBVIOUS
  <2>1. i \in 1..Len(script) /\ script[i][1] = c
    BY DEF LinesAfterInit
  <2>2. n < i /\ i \in Nat
    BY <1>late, <2>1 DEF n
  <2> QED
    BY <1>1, <2>2
<1>15. Logged'
  <2>1. LoggedAs(p, "running", n + 1, l)
    BY <1>3, <1>10 DEF LoggedAs
  <2>2. ASSUME NEW q \in new PROVE LoggedAs(q, "running", n + 1, l)
    <3>1. \A i \in LinesAfterInit(c) : i \in Nat
      BY DEF LinesAfterInit
    <3>2. ASSUME NEW i \in LinesAfterInit(c), i < n + 1, NEW j \in LinesAfterInit(c), j < i
          PROVE  script[j][2] # "collect_threads"
      BY <1>1, <1>14, <3>1, <3>2
    <3>3. Behind(q, n + 1) = {i \in LinesAfterInit(c) : i < n + 1}
      BY <1>5, <3>2 DEF Behind, LinesFor
    <3>4. Behind(p, n + 1) = {i \in LinesAfterInit(c) : i < n + 1}
      BY <1>3 DEF Behind, LinesFor
    <3> QED
      BY <1>5, <1>10, <1>14, <3>3, <3>4 DEF LoggedAs
  <2>3. ASSUME NEW q \in Procs \ {Main} PROVE LoggedAs(q, state'[q], next'[q], log'[q])
    BY <1>6, <2>1, <2>2 DEF PInv, Logged
  <2> QED
    BY <1>1, <2>3, LoggedStays DEF Logged
<1>16. Collected'
  <2> SUFFICES ASSUME NEW r \in Reporters, NEW i \in ToSet(log'[r]),
                      script[i] = <<r[1], "collect_threads">>, NEW t \in SmackersOf(r[1])
               PROVE  ~Alive(t)'
    BY <1>1 DEF Collected
  <2>1. r \in Procs /\ t \in Procs /\ r \notin new /\ t # p /\ r = <<t[1], 0>>
    BY <1>3, <1>5, SmackersAre
  <2>2. CASE r = p
    <3>1. i \in Behind(p, n + 1)
      BY <1>6, <1>10, <2>2
    <3>2. i \in LinesAfterInit(c) /\ i < n + 1
      BY <3>1 DEF Behind, LinesFor
    <3> QED
      BY <1>14, <3>2
  <2>3. CASE r # p
    <3>1. log'[r] = log[r] /\ t \notin new
      BY <1>5, <1>6, <2>1, <2>3
    <3>2. ~Alive(t)
      BY <3>1 DEF PInv, Collected
    <3> QED
      BY <1>6, <2>1, <3>1, <3>2 DEF Alive
  <2> QED
    BY <2>2, <2>3
<1>17. MainLast'
  <2>1. Main \in Procs /\ Main \notin new \cup {p}
    BY <1>2, <1>5, ProcsAre
  <2> SUFFICES ASSUME state[Main] = "ended", NEW r \in Reporters PROVE ~Alive(r)'
    BY <1>6, <2>1 DEF MainLast
  <2>2. ~Alive(r) /\ r \in Procs /\ r \notin new
    BY <1>5, SmackersAre DEF PInv, MainLast
  <2> QED
    BY <1>1, <1>6, <2>2 DEF Alive
<1> QED
  BY <1>11, <1>13, <1>15, <1>16, <1>17 DEF PInv

\* Every step of every process keeps the invariant.
LEMMA NextPInv == ASSUME PInv, [Next]_vars PROVE PInv'
<1>1. ASSUME NEW p \in Procs, Step(p) PROVE PInv'
  <2>0. state[p] = "running" => state = [state EXCEPT ![p] = "running"]
    BY DEF PInv, TypeOK
  <2>1. CASE SkipLine(p)       BY <2>1, SkipKeeps
  <2>2. CASE InitLine(p)       BY <2>2, InitLineKeeps
  <2>3. CASE CreateThreads(p)  BY <2>3, CreateKeeps
  <2>4. CASE OtherLine(p)
    <3>1. /\ AtLine(p) /\ Mine(p) /\ Line(p)[2] = "other" /\ Executed(p)
          /\ UNCHANGED <<script, current_client>>
          /\ state' = [state EXCEPT ![p] = "running"]
      BY <2>0, <2>4 DEF OtherLine, AtLine, Alive
    <3>2. "running" \in {"running", "ended"} /\ "running" # "ended"
      OBVIOUS
    <3>3. Line(p)[2] # "init" /\ Line(p)[2] # "collect_threads"
      BY <3>1
    <3> QED
      BY <3>1, <3>2, <3>3, ExecuteKeeps, Zenon
  <2>5. CASE CollectEndsSmacker(p)
    <3>1. /\ AtLine(p) /\ Mine(p) /\ Line(p)[2] = "collect_threads" /\ Executed(p)
          /\ UNCHANGED <<script, current_client>> /\ p[2] > 0
          /\ state' = [state EXCEPT ![p] = "ended"]
      BY <2>5 DEF CollectEndsSmacker, AtCollect, Ends
    <3>2. "ended" \in {"running", "ended"} /\ "running" # "ended"
      OBVIOUS
    <3>3. Line(p)[2] # "init"
      BY <3>1
    <3>4. p \notin Reporters
      <4> SUFFICES ASSUME p \in Reporters PROVE FALSE
        OBVIOUS
      <4>1. p[2] = 0
        BY SmackersAre
      <4> QED
        BY <3>1, <4>1
    <3> QED
      BY <3>1, <3>2, <3>3, <3>4, ExecuteKeeps, Zenon
  <2>6. CASE CollectWaits(p)
    <3>1. /\ AtLine(p) /\ Mine(p) /\ Line(p)[2] = "collect_threads" /\ Executed(p)
          /\ UNCHANGED <<script, current_client>> /\ p[2] = 0
          /\ state' = [state EXCEPT ![p] = "running"]
          /\ \A q \in SmackersOf(p[1]) : ~Alive(q)
      BY <2>0, <2>6 DEF CollectWaits, AtLine, Alive
    <3>2. "running" \in {"running", "ended"} /\ "running" # "ended"
      OBVIOUS
    <3>3. Line(p)[2] # "init" /\ ~(p[2] > 0)
      BY <3>1
    <3> QED
      BY <3>1, <3>2, <3>3, ExecuteKeeps, Zenon
  <2>7. CASE ClientEnds(p)
    <3>1. /\ Alive(p) /\ Ends(p, "ended") /\ next[p] > Len(script)
          /\ UNCHANGED <<script, next, current_client, log>>
          /\ current_client[p] # "main"
      BY <2>7 DEF ClientEnds, AtEnd
    <3>2. p # Main
      BY <3>1 DEF PInv, Family
    <3> QED
      BY <3>1, <3>2, EndKeeps
  <2>8. CASE CollectCannotReport(p)
    <3>1. /\ Alive(p) /\ Ends(p, "dead") /\ "dead" # "ended"
          /\ UNCHANGED <<script, next, current_client, log>>
      BY <2>8 DEF CollectCannotReport, AtCollect, AtLine
    <3> QED
      BY <3>1, EndKeeps
  <2> QED
    BY <1>1, <2>1, <2>2, <2>3, <2>4, <2>5, <2>6, <2>7, <2>8 DEF Step
<1>2. ASSUME NEW p \in Procs, Fails(p) PROVE PInv'
  <2>1. CASE InitCannotFork(p) \/ ClientDies(p)
    <3>1. /\ Alive(p) /\ Ends(p, "dead") /\ "dead" # "ended"
          /\ UNCHANGED <<script, next, current_client, log>>
      BY <2>1 DEF InitCannotFork, ClientDies, AtLine
    <3> QED
      BY <3>1, EndKeeps
  <2>2. CASE ClientExits(p)
    <3>1. /\ Alive(p) /\ Ends(p, "exited") /\ "exited" # "ended"
          /\ UNCHANGED <<script, next, current_client, log>>
      BY <2>2 DEF ClientExits, AtLine
    <3> QED
      BY <3>1, EndKeeps
  <2> QED
    BY <1>2, <2>1, <2>2 DEF Fails
<1>3. CASE MainEnds
  <2>1. /\ Alive(Main) /\ Ends(Main, "ended") /\ next[Main] > Len(script)
        /\ UNCHANGED <<script, next, current_client, log>>
        /\ \A q \in Reporters : ~Alive(q)
    BY <1>3 DEF MainEnds, AtEnd
  <2> QED
    BY <2>1, EndKeeps, ProcsAre
<1>4. CASE UNCHANGED vars \/ \E p \in Procs : SemaphoreFreed(p)
  <2>1. UNCHANGED <<script, next, current_client, state, log>>
    BY <1>4 DEF vars, SemaphoreFreed
  <2>2. ASSUME NEW p \in Procs \ {Main} PROVE LoggedAs(p, state[p], next[p], log[p])'
    BY <2>1, LoggedStays DEF PInv, Logged
  <2>3. Logged'
    BY <2>2 DEF Logged
  <2>4. TypeOK' /\ Family'
    BY <2>1 DEF PInv, TypeOK, Family, Born
  <2>5. Collected' /\ MainLast'
    BY <2>1 DEF PInv, Collected, MainLast, Alive
  <2> QED
    BY <2>3, <2>4, <2>5 DEF PInv
<1> QED
  BY <1>1, <1>2, <1>3, <1>4 DEF Next, Finished

-----------------------------------------------------------------------------
\* Each client executes the lines of its section that follow its init(), each
\* once and in their order, wherever the forks come in the text (Main_line::
\* execute(), create_threads()): for any main section and any number of
\* clients and smackers.
THEOREM ExecutesTheirLines == Spec => []ExecutesItsLines
<1>1. ASSUME PInv PROVE ExecutesItsLines
  <2> SUFFICES ASSUME NEW p \in Procs \ {Main}
               PROVE  /\ \A m, n \in 1..Len(log[p]) : m < n => log[p][m] < log[p][n]
                      /\ ToSet(log[p]) \subseteq LinesFor(p)
                      /\ \A i \in LinesFor(p), j \in ToSet(log[p]) :
                           i < j => i \in ToSet(log[p])
                      /\ state[p] = "ended" => LinesFor(p) \subseteq ToSet(log[p])
    BY DEF ExecutesItsLines
  <2>1. LoggedAs(p, state[p], next[p], log[p])
    BY <1>1 DEF PInv, Logged
  <2>2. CASE ~Born(p)
    <3>1. ToSet(log[p]) = {}
      <4>1. log[p] = <<>>
        BY <1>1, <2>2 DEF PInv, Family
      <4>2. ToSet(<<>>) = {}
        BY DEF ToSet
      <4> QED
        BY <4>1, <4>2
    <3> QED
      BY <2>1, <2>2, <3>1 DEF LoggedAs, Increasing, Born
  <2>3. CASE Born(p)
    <3>1. ToSet(log[p]) = Behind(p, next[p])
      BY <2>1, <2>3 DEF LoggedAs, Born
    <3>2. next[p] \in Nat /\ \A i \in LinesFor(p) : i \in Nat
      BY <1>1 DEF PInv, TypeOK, LinesFor, LinesAfterInit
    <3>3. \A i \in LinesFor(p), j \in Behind(p, next[p]) : i < j => i \in Behind(p, next[p])
      BY <3>2 DEF Behind
    <3>4. Behind(p, next[p]) \subseteq LinesFor(p)
      BY DEF Behind
    <3> QED
      BY <2>1, <3>1, <3>3, <3>4 DEF LoggedAs, Increasing
  <2> QED
    BY <2>2, <2>3
<1> QED
  BY <1>1, InitPInv, NextPInv, PTL DEF Spec

\* The shell gets its prompt back when no reporter is left, whoever dies; a
\* smacker may be left only of a reporter that died or left by exit(1) before
\* the end of its collect_threads(), or that never calls it
\* (wait_for_client_threads(), thread_sync()).
THEOREM MainReturnsLast == Spec => []MainEndsLast
<1>1. ASSUME PInv PROVE MainEndsLast
  <2> SUFFICES ASSUME state[Main] = "ended", NEW r \in Reporters
               PROVE  /\ ~Alive(r)
                      /\ \A q \in SmackersOf(r[1]) : Alive(q) =>
                           /\ \A i \in ToSet(log[r]) : script[i] # <<r[1], "collect_threads">>
                           /\ \/ state[r] \in {"dead", "exited"}
                              \/ \A i \in LinesAfterInit(r[1]) : script[i][2] # "collect_threads"
    BY DEF MainEndsLast
  <2>1. ~Alive(r) /\ r \in Procs /\ r # Main /\ r[2] = 0
    BY <1>1, SmackersAre DEF PInv, MainLast
  <2> SUFFICES ASSUME NEW q \in SmackersOf(r[1]), Alive(q)
               PROVE  /\ \A i \in ToSet(log[r]) : script[i] # <<r[1], "collect_threads">>
                      /\ \/ state[r] \in {"dead", "exited"}
                         \/ \A i \in LinesAfterInit(r[1]) : script[i][2] # "collect_threads"
    BY <2>1
  <2>2. \A i \in ToSet(log[r]) : script[i] # <<r[1], "collect_threads">>
    BY <1>1 DEF PInv, Collected
  <2>3. Born(r)
    <3>1. q \in Procs /\ q # Main /\ q[1] = r[1] /\ q[2] > 0 /\ r = <<q[1], 0>>
      BY SmackersAre
    <3>2. Born(q)
      BY DEF Alive, Born
    <3>3. PICK j \in 1..Len(script) : j < next[r]
      BY <1>1, <3>1, <3>2 DEF PInv, Family
    <3>4. next[r] # 1
      BY <1>1, <2>1, <3>3, ScriptIs DEF PInv, TypeOK
    <3> QED
      BY <1>1, <2>1, <3>4 DEF PInv, Family
  <2>4. state[r] \in {"ended", "dead", "exited"}
    BY <1>1, <2>1, <2>3 DEF PInv, TypeOK, Born, Alive
  <2>5. ASSUME state[r] = "ended", NEW i \in LinesAfterInit(r[1])
        PROVE  script[i][2] # "collect_threads"
    <3>1. i \in LinesFor(r)
      BY <2>1 DEF LinesFor
    <3>2. i \in ToSet(log[r])
      BY <1>1, <2>1, <2>5, <3>1 DEF PInv, Logged, LoggedAs
    <3>3. i \in 1..Len(script) /\ script[i][1] = r[1]
      BY DEF LinesAfterInit
    <3>4. script[i] = <<script[i][1], script[i][2]>>
      BY <1>1, <3>3, ScriptIs DEF PInv, TypeOK
    <3> QED
      BY <2>2, <3>2, <3>3, <3>4
  <2> QED
    BY <2>2, <2>4, <2>5
<1> QED
  BY <1>1, InitPInv, NextPInv, PTL DEF Spec
=============================================================================
