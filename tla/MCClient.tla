------------------------------ MODULE MCClient ------------------------------
(* Client on small instances. *)
EXTENDS Client

CONSTANTS r, s1, s2, s3

TwoSmackers   == {s1, s2}
ThreeSmackers == {s1, s2, s3}

\* Both engines, a report too long for fd_send(), and tables of the client's own.
Setup(engine, len, connects, time) ==
  [engine |-> engine, report_len |-> len, table_connects |-> connects, table_time |-> time]

AllSetups == {Setup("mysql", 1024, 2, 3), Setup("pg", 30, 0, 0), Setup("pg", 1025, 1, 0)}
PgSetup   == {Setup("pg", 30, 0, 0)}
=============================================================================
