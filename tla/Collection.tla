----------------------------- MODULE Collection -----------------------------
(***************************************************************************)
(* What create_threads() ... collect_threads() promise the user of a smack *)
(* file, with neither pipe nor semaphore: every client runs Work queries,  *)
(* those that finish hand in their report once, and the report printed is  *)
(* the sum of the reporter's own queries and of every report handed in, no *)
(* report lost and none counted twice.                                     *)
(***************************************************************************)
EXTENDS Integers, FiniteSets

CONSTANTS Clients,  \* the smackers
          Work      \* the queries each client runs

VARIABLES sent,    \* the smackers that handed in their report
          merged,  \* those whose report is part of the total
          state,   \* of the collection
          total    \* the queries reported

vars == <<sent, merged, state, total>>

Init == sent = {} /\ merged = {} /\ state = "collecting" /\ total = 0

OwnQuery ==
  /\ state = "collecting" /\ total < Work /\ merged = {}
  /\ total' = total + 1
  /\ UNCHANGED <<sent, merged, state>>

Send(c) ==
  /\ state # "finished" /\ c \notin sent
  /\ sent' = sent \cup {c}
  /\ UNCHANGED <<merged, state, total>>

Merge(c) ==
  /\ state = "collecting" /\ c \in sent \ merged /\ total >= Work
  /\ merged' = merged \cup {c}
  /\ total' = total + Work
  /\ UNCHANGED <<sent, state>>

\* Nobody sends any more, and everything sent has been merged.
Finish ==
  /\ state = "collecting" /\ merged = sent /\ total >= Work
  /\ state' = "finished"
  /\ UNCHANGED <<sent, merged, total>>

\* A fatal error in the reporter.
Abort ==
  /\ state = "collecting"
  /\ state' = "aborted"
  /\ UNCHANGED <<sent, merged, total>>

Next == OwnQuery \/ (\E c \in Clients : Send(c) \/ Merge(c)) \/ Finish \/ Abort

Spec == Init /\ [][Next]_vars

\* The total printed is what the clients that handed in a report, and the
\* reporter itself, have really run (thread_sync() and update_from_fd()).
TotalIsExact ==
  state = "finished" => merged = sent /\ total = Work * (1 + Cardinality(merged))
=============================================================================
