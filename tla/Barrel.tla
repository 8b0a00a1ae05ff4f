------------------------------- MODULE Barrel -------------------------------
(***************************************************************************)
(* The query barrel of a client: the one pass over its text in the client  *)
(* section (src/src/parse.cc), and unload_query_barrel(), which fires its  *)
(* actions round after round (src/src/client.cc, query.cc, query.h).       *)
(*                                                                         *)
(* The text is the sequence of what its spaces separate: a number, a name, *)
(* or a "-" and the time to sleep.                                         *)
(***************************************************************************)
EXTENDS Integers, Sequences, SequencesExt

CONSTANTS
  Queries,    \* the names in query_pool
  Unknown,    \* names that are not
  Numbers,    \* the numbers tried; one with a "-" is a sleep
  Sleeps,     \* the times slept
  MaxTokens,  \* bound: the length of the texts tried
  Rounds,     \* the arguments of set_num_rounds() tried
  MaxUnloads  \* bound: how often unload_query_barrel() is called

Number(n) == <<"number", n>>
Name(q)   == <<"name", q>>
Sleep(s)  == <<"sleep", s>>

Tokens == {Number(n) : n \in Numbers} \cup {Name(q) : q \in Queries \cup Unknown}
          \cup {Sleep(s) : s \in Sleeps}

BarrelAssumption ==
  /\ Queries \cap Unknown = {}
  /\ Numbers \subseteq Nat /\ Rounds \subseteq Int
  /\ MaxTokens \in Nat /\ MaxUnloads \in Nat

VARIABLES
  text, trailing,  \* the tokens, and whether a space follows the last one
  pc,              \* "parse", "ready", "unload", "died", or "stopped" by a failed query
  k,               \* how many tokens have been read
  parse_state, num_shots,
  actions,         \* Query_barrel::actions: <<query, shots>>, or a sleep
  num_rounds,
  i, j, shot,      \* the counters of the loops of unload_query_barrel() and fire()
  fired,           \* the queries run and the sleeps slept, in order
  unloads          \* the number of rounds of each call of unload_query_barrel()

parse_vars  == <<text, trailing, k, parse_state, num_shots, actions>>
unload_vars == <<i, j, shot, fired, unloads>>
vars == <<pc, parse_vars, num_rounds, unload_vars>>

Charge(q, n) == <<"fire", q, n>>

-----------------------------------------------------------------------------
(***************************************************************************)
(* Client_query_barrel_def_line::update_client_def().                      *)
(***************************************************************************)
Token == text[k + 1]

\* The last token without a space after it is dealt with after the loop.
BeforeSpace == pc = "parse" /\ k < Len(text) /\ (trailing \/ k + 1 < Len(text))
AfterLoop   == pc = "parse" /\ k + 1 = Len(text) /\ ~trailing

Read == k' = k + 1 /\ UNCHANGED <<text, trailing, num_rounds, unload_vars>>

NumShotsSleep ==
  /\ BeforeSpace /\ parse_state = "NUM_SHOTS" /\ Token[1] = "sleep"
  /\ actions' = Append(actions, Token)
  /\ Read /\ UNCHANGED <<pc, parse_state, num_shots>>

\* atoi() of a name is 0.
NumShots ==
  /\ BeforeSpace /\ parse_state = "NUM_SHOTS" /\ Token[1] # "sleep"
  /\ num_shots' = IF Token[1] = "number" THEN Token[2] ELSE 0
  /\ parse_state' = "QUERY_NAME"
  /\ Read /\ UNCHANGED <<pc, actions>>

IsQuery == Token[1] = "name" /\ Token[2] \in Queries

\* Mutant of QueryName: parse_state is left as it is.
QueryNameSticks ==
  /\ BeforeSpace /\ parse_state = "QUERY_NAME" /\ IsQuery
  /\ actions' = Append(actions, Charge(Token[2], num_shots))
  /\ Read /\ UNCHANGED <<pc, num_shots, parse_state>>

QueryName ==
  /\ BeforeSpace /\ parse_state = "QUERY_NAME" /\ IsQuery
  /\ actions' = Append(actions, Charge(Token[2], num_shots))
  /\ parse_state' = "NUM_SHOTS"
  /\ Read /\ UNCHANGED <<pc, num_shots>>

\* Mutant of LastQuery: it goes in front.
LastQueryFirst ==
  /\ AfterLoop /\ IsQuery
  /\ actions' = <<Charge(Token[2], num_shots)>> \o actions
  /\ pc' = "ready"
  /\ Read /\ UNCHANGED <<parse_state, num_shots>>

\* The last token is a query or a sleep, whatever parse_state says.
LastQuery ==
  /\ AfterLoop /\ IsQuery
  /\ actions' = Append(actions, Charge(Token[2], num_shots))
  /\ pc' = "ready"
  /\ Read /\ UNCHANGED <<parse_state, num_shots>>

LastSleep ==
  /\ AfterLoop /\ Token[1] = "sleep"
  /\ actions' = Append(actions, Token)
  /\ pc' = "ready"
  /\ Read /\ UNCHANGED <<parse_state, num_shots>>

\* die(): "query '%s' referenced on line %d has not been defined".
NotDefined ==
  /\ \/ BeforeSpace /\ parse_state = "QUERY_NAME" /\ ~IsQuery
     \/ AfterLoop /\ ~IsQuery /\ Token[1] # "sleep"
  /\ pc' = "died"
  /\ UNCHANGED <<parse_vars, num_rounds, unload_vars>>

\* Nothing after the last space: a number without a query is forgotten.
TextEnds ==
  /\ pc = "parse" /\ k = Len(text)
  /\ pc' = "ready"
  /\ UNCHANGED <<parse_vars, num_rounds, unload_vars>>

-----------------------------------------------------------------------------
(***************************************************************************)
(* set_num_rounds() and unload_query_barrel().                             *)
(***************************************************************************)
SetNumRounds(n) ==
  /\ pc = "ready"
  /\ num_rounds' = n
  /\ UNCHANGED <<pc, parse_vars, unload_vars>>

Unload ==
  /\ pc = "ready" /\ Len(unloads) < MaxUnloads
  /\ pc' = "unload" /\ i' = 0 /\ j' = 0 /\ shot' = 0
  /\ unloads' = Append(unloads, num_rounds)
  /\ UNCHANGED <<parse_vars, num_rounds, fired>>

Firing == pc = "unload" /\ i < num_rounds /\ j < Len(actions)
Action == actions[j + 1]

NextAction == j' = j + 1 /\ shot' = 0 /\ UNCHANGED <<pc, parse_vars, num_rounds, i, unloads>>

FireSleep ==
  /\ Firing /\ Action[1] = "sleep"
  /\ fired' = Append(fired, Action)
  /\ NextAction

\* Mutant of ShotsLeft: i <= num_shots.
OneShotMore == shot <= Action[3]

ShotsLeft == shot < Action[3]

FireShot ==
  /\ Firing /\ Action[1] = "fire" /\ ShotsLeft
  /\ fired' = Append(fired, Name(Action[2]))
  /\ shot' = shot + 1
  /\ UNCHANGED <<pc, parse_vars, num_rounds, i, j, unloads>>

FireEnds ==
  /\ Firing /\ Action[1] = "fire" /\ ~ShotsLeft
  /\ NextAction /\ UNCHANGED fired

\* safe_query() aborts.
QueryFails ==
  /\ Firing /\ Action[1] = "fire" /\ ShotsLeft
  /\ pc' = "stopped"
  /\ UNCHANGED <<parse_vars, num_rounds, unload_vars>>

RoundEnds ==
  /\ pc = "unload" /\ i < num_rounds /\ j = Len(actions)
  /\ i' = i + 1 /\ j' = 0
  /\ UNCHANGED <<pc, parse_vars, num_rounds, shot, fired, unloads>>

Unloaded ==
  /\ pc = "unload" /\ i >= num_rounds
  /\ pc' = "ready"
  /\ UNCHANGED <<parse_vars, num_rounds, unload_vars>>

-----------------------------------------------------------------------------
Init ==
  /\ text \in UNION {[1..n -> Tokens] : n \in 0..MaxTokens} /\ trailing \in BOOLEAN
  /\ pc = "parse" /\ k = 0 /\ parse_state = "NUM_SHOTS" /\ num_shots = 0 /\ actions = <<>>
  /\ num_rounds = 0 /\ i = 0 /\ j = 0 /\ shot = 0 /\ fired = <<>> /\ unloads = <<>>

Parse ==
  \/ NumShotsSleep \/ NumShots \/ QueryName \/ LastQuery \/ LastSleep
  \/ NotDefined \/ TextEnds

Fire == FireSleep \/ FireShot \/ FireEnds \/ QueryFails \/ RoundEnds \/ Unloaded

Next == Parse \/ (\E n \in Rounds : SetNumRounds(n)) \/ Unload \/ Fire

Spec == Init /\ [][Next]_vars

-----------------------------------------------------------------------------
(***************************************************************************)
(* MANUAL: "To specify the query shot you use the syntax of N query_name   *)
(* where N is the number of times to run the query in a shot, and to       *)
(* define the barrel you just concatenate the shots".                      *)
(***************************************************************************)
\* Where the actions of t start, in a text of shots and sleeps only: at the
\* tokens that are no names, among the first n of them.
Starts(t) ==
  LET among[n \in 0..Len(t)] ==
        IF n = 0 THEN <<>>
        ELSE IF t[n][1] = "name" THEN among[n - 1] ELSE Append(among[n - 1], n)
  IN  among

WellFormed(t) ==
  \A n \in 1..Len(t) :
    /\ t[n][1] = "number" => n < Len(t) /\ t[n + 1][1] = "name" /\ t[n + 1][2] \in Queries
    /\ t[n][1] = "name" => n > 1 /\ t[n - 1][1] = "number"

\* Each is a sleep, or as many shots as the number says of the query after it.
Meaning(t) ==
  LET starts == Starts(t)[Len(t)]
      act(n) == IF t[n][1] = "sleep" THEN t[n] ELSE Charge(t[n + 1][2], t[n][2])
  IN  [m \in 1..Len(starts) |-> act(starts[m])]

\* What one round is, and what any number of them are.
Shots(a) == IF a[1] = "sleep" THEN <<a>> ELSE [m \in 1..a[3] |-> Name(a[2])]
OneRound == FlattenSeq([m \in 1..Len(actions) |-> Shots(actions[m])])
Times(n) == FlattenSeq([m \in 1..n |-> OneRound])
Expected == FlattenSeq([m \in 1..Len(unloads) |-> Times(unloads[m])])

\* A well-formed text is read as it is meant, with or without a last space.
ParsedAsWritten ==
  pc \in {"ready", "unload", "died", "stopped"} /\ WellFormed(text) =>
    pc # "died" /\ actions = Meaning(text)

\* Of any other text too, what is fired is named in it, in its order.
ActionsFollowText ==
  \E f \in [1..Len(actions) -> 1..Len(text)] :
    /\ \A m, n \in 1..Len(actions) : m < n => f[m] < f[n]
    /\ \A m \in 1..Len(actions) :
         text[f[m]] = IF actions[m][1] = "sleep" THEN actions[m] ELSE Name(actions[m][2])

\* MANUAL: "the revolver will rotate num_rounds times as previously set by
\* set_num_rounds()": the queries run are those of all rounds of all calls, in
\* their order; until the end, or when one fails, a beginning of them.
FiredAsMeant ==
  /\ pc \in {"unload", "stopped"} => IsPrefix(fired, Expected)
  /\ pc = "ready" => fired = Expected
=============================================================================
