----------------------------- MODULE MCSession -----------------------------
(* Session over every text of up to MaxTokens tokens. *)
EXTENDS Session

SomeNumbers == {0, 2}
SomeRounds  == {-1, 2}

\* A query with rows and one without, and one whose rows nobody asks for.
Kind(rows, has_result_set) == [rows |-> rows, has_result_set |-> has_result_set]
SomeKinds == [q \in {"a", "b"} |-> IF q = "a" THEN Kind(TRUE, TRUE) ELSE Kind(TRUE, FALSE)]
=============================================================================
