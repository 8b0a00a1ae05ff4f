------------------------------ MODULE MCProgram ------------------------------
(* Program with two clients: A forks smackers, B has a reporter only. *)
EXTENDS Program

\* Every way to mix the lines of two clients.
RECURSIVE Mixes(_, _)
Mixes(a, b) ==
  IF a = <<>> THEN {b} ELSE IF b = <<>> THEN {a}
  ELSE {<<Head(a)>> \o m : m \in Mixes(Tail(a), b)}
       \cup {<<Head(b)>> \o m : m \in Mixes(a, Tail(b))}

LinesOfA == <<<<"A", "init">>, <<"A", "create_threads">>, <<"A", "other">>,
              <<"A", "collect_threads">>>>
LinesOfB == <<<<"B", "init">>, <<"B", "other">>>>

\* Also a line before init(), which nobody executes, and one after
\* collect_threads(), which only the reporter does.
TwoClients == Mixes(LinesOfA, LinesOfB)
              \cup {<<<<"A", "other">>>> \o LinesOfA \o LinesOfB,
                    LinesOfA \o <<<<"A", "other">>>> \o LinesOfB}
=============================================================================
