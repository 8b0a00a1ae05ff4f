----------------------------- MODULE TcpClient -----------------------------
(***************************************************************************)
(* TcpClient, whose connect() is given up by an alarm                      *)
(* (src/src/tcp_client.cc, tcp_client.h), in a program like                *)
(* test_tcp_client.cc: all clients are made, then connected in turn, and   *)
(* the first one reads an answer until receive() returns 0 or less.        *)
(*                                                                         *)
(* The alarm's handler jumps to wherever jmp_env was last set.  A jump     *)
(* before it is set, or into a connect() that has returned, is undefined.  *)
(***************************************************************************)
EXTENDS Integers

CONSTANTS
  Last,      \* the clients are 1..Last
  MaxChunks  \* bound: how much a server sends

ASSUME TcpAssumption == Last \in Nat \ {0} /\ MaxChunks \in Nat

Clients == 1..Last

VARIABLES
  log, sec_timeout, receive_timeout,  \* whether the program gives them; they never change
  tcp_pc,
  c,           \* the client at work
  status,      \* TcpClient::status, of each
  said,        \* what ::connect() returned, of each
  armed,       \* alarm() is pending
  masked,      \* SIGALRM is blocked
  jmp_env,     \* whose connect() set it, or 0
  jumped_at,   \* where the last jump began
  in_flight,   \* what the server has sent and receive() has not read
  chunks_sent, eof

given        == <<log, sec_timeout, receive_timeout>>
alarm_vars   == <<armed, masked, jmp_env, jumped_at>>
server_vars  == <<in_flight, chunks_sent, eof>>
tcp_vars == <<given, tcp_pc, c, status, said, alarm_vars, server_vars>>

\* alarm() called; sigsetjmp() done; ::connect() over, or the jump.
InConnect == {"armed", "connecting", "connected"}
\* connect() has been entered, or has returned.
Places == InConnect \cup {"make", "check", "connect", "receive", "end", "exit", "undefined"}

-----------------------------------------------------------------------------
\* Mutant of error: without a log, it returns before it clears status.
errorNeedsLog(st, i) == [st EXCEPT ![i] = IF log THEN 0 ELSE @]

\* error(): status is cleared, whether there is a log or not.
error(st, i) == [st EXCEPT ![i] = 0]

\* The constructors: log_init(), the host's name, and the socket.
MakeClient ==
  /\ tcp_pc = "make"
  /\ \/ status' = [status EXCEPT ![c] = 1]
     \/ status' = error(status, c)
  /\ IF c < Last THEN c' = c + 1 /\ UNCHANGED tcp_pc ELSE c' = 1 /\ tcp_pc' = "check"
  /\ UNCHANGED <<given, said, alarm_vars, server_vars>>

\* if(!client) exit(1), for all of them
CheckMade ==
  /\ tcp_pc = "check"
  /\ tcp_pc' = IF \A i \in Clients : status[i] = 1 THEN "connect" ELSE "exit"
  /\ UNCHANGED <<given, c, status, said, alarm_vars, server_vars>>

\* connect() is called; signal() and alarm(), if there is a timeout.
ConnectBegins ==
  /\ tcp_pc = "connect"
  /\ IF sec_timeout THEN tcp_pc' = "armed" /\ armed' = TRUE
                    ELSE tcp_pc' = "connecting" /\ UNCHANGED armed
  /\ UNCHANGED <<given, c, status, said, masked, jmp_env, jumped_at, server_vars>>

SetJmp ==
  /\ tcp_pc = "armed"
  /\ jmp_env' = c /\ tcp_pc' = "connecting"
  /\ UNCHANGED <<given, c, status, said, armed, masked, jumped_at, server_vars>>

\* ::connect(), as the network has it.
ConnectReturns ==
  /\ tcp_pc = "connecting"
  /\ \/ said' = [said EXCEPT ![c] = "ok"] /\ UNCHANGED status
     \/ said' = [said EXCEPT ![c] = "error"] /\ status' = error(status, c)
  /\ tcp_pc' = "connected"
  /\ UNCHANGED <<given, c, alarm_vars, server_vars>>

\* Mutant of MaskAfterJump: sigsetjmp(jmp_env, 0).
MaskIsKept == TRUE

\* The signal is blocked in its handler. The jump out of it brings back the
\* mask that sigsetjmp(jmp_env, 1) saved.
MaskAfterJump == FALSE

\* connect_alarm(), at any time: error() and goto done, if connect() is there
\* to jump into.
AlarmRings ==
  /\ armed /\ ~masked
  /\ armed' = FALSE /\ masked' = MaskAfterJump /\ jumped_at' = tcp_pc
  /\ IF tcp_pc \in {"connecting", "connected"} /\ jmp_env = c
     THEN tcp_pc' = "connected" /\ status' = error(status, c)
     ELSE tcp_pc' = "undefined" /\ UNCHANGED status
  /\ UNCHANGED <<given, c, said, jmp_env, server_vars>>

\* From connect() back to main(), which goes on with the next client.
Returns ==
  /\ tcp_pc = "connected"
  /\ IF c < Last
     THEN c' = c + 1 /\ tcp_pc' = "connect"
     ELSE c' = 1 /\ tcp_pc' = IF \A i \in Clients : status[i] = 1 THEN "receive" ELSE "exit"

\* Mutant of ConnectEnds: alarm(0) is left out.
ConnectEndsArmed ==
  /\ Returns
  /\ UNCHANGED <<given, status, said, alarm_vars, server_vars>>

\* done: alarm(0), which is harmless without a timeout.
ConnectEnds ==
  /\ Returns
  /\ armed' = FALSE
  /\ UNCHANGED <<given, status, said, masked, jmp_env, jumped_at, server_vars>>

-----------------------------------------------------------------------------
\* The server of the first client, once connected.
ServerSends ==
  /\ said[1] = "ok" /\ ~eof /\ chunks_sent < MaxChunks
  /\ chunks_sent' = chunks_sent + 1 /\ in_flight' = in_flight + 1
  /\ UNCHANGED <<given, tcp_pc, c, status, said, alarm_vars, eof>>

ServerCloses ==
  /\ said[1] = "ok" /\ ~eof
  /\ eof' = TRUE
  /\ UNCHANGED <<given, tcp_pc, c, status, said, alarm_vars, in_flight, chunks_sent>>

\* Mutant of TimesOut: select() never gets &tv.
TimesOutNever == FALSE

\* select() gets no time to wait for, if both timeouts are 0.
TimesOut == receive_timeout

\* receive(): main() goes on until it returns 0 or less.
ReceiveSome ==
  /\ tcp_pc = "receive" /\ in_flight > 0
  /\ \E n \in 1..in_flight : in_flight' = in_flight - n
  /\ UNCHANGED <<given, tcp_pc, c, status, said, alarm_vars, chunks_sent, eof>>

\* The end of the answer, or the timeout.
ReceiveNothing ==
  /\ tcp_pc = "receive" /\ in_flight = 0 /\ (eof \/ TimesOut)
  /\ tcp_pc' = "end"
  /\ UNCHANGED <<given, c, status, said, alarm_vars, server_vars>>

\* select() fails, which main() cannot tell from the end, or read() does.
ReceiveFails ==
  /\ tcp_pc = "receive"
  /\ tcp_pc' = "end"
  /\ UNCHANGED <<given, c, status, said, alarm_vars, server_vars>>

-----------------------------------------------------------------------------
TcpInit ==
  /\ log \in BOOLEAN /\ sec_timeout \in BOOLEAN /\ receive_timeout \in BOOLEAN
  /\ tcp_pc = "make" /\ c = 1
  /\ status = [i \in Clients |-> 0] /\ said = [i \in Clients |-> "nothing"]
  /\ armed = FALSE /\ masked = FALSE /\ jmp_env = 0 /\ jumped_at = "nowhere"
  /\ in_flight = 0 /\ chunks_sent = 0 /\ eof = FALSE

\* What the program does, when nothing keeps it waiting.
Step ==
  MakeClient \/ CheckMade \/ ConnectBegins \/ SetJmp \/ ConnectEnds
    \/ ReceiveSome \/ ReceiveNothing

TcpNext ==
  Step \/ ReceiveFails \/ ConnectReturns \/ AlarmRings \/ ServerSends \/ ServerCloses

TcpSpec == TcpInit /\ [][TcpNext]_tcp_vars

\* The program gets to run and the alarm rings when its time is up. No network
\* answers for sure, no server either, and no call has to fail.
TcpFairSpec == TcpSpec /\ WF_tcp_vars(Step) /\ WF_tcp_vars(AlarmRings)

-----------------------------------------------------------------------------
\* The values of every variable.
TypeOK ==
  /\ log \in BOOLEAN /\ sec_timeout \in BOOLEAN /\ receive_timeout \in BOOLEAN
  /\ tcp_pc \in Places /\ c \in Clients
  /\ status \in [Clients -> {0, 1}] /\ said \in [Clients -> {"nothing", "ok", "error"}]
  /\ armed \in BOOLEAN /\ masked \in BOOLEAN /\ jmp_env \in Clients \cup {0}
  /\ jumped_at \in Places \cup {"nowhere"}
  /\ in_flight \in Nat /\ chunks_sent \in Nat /\ eof \in BOOLEAN

\* The alarm does not outlive connect(), so that it cannot interrupt what
\* follows or jump into a call that is over: a jump is undefined only in the
\* moment between alarm() and sigsetjmp().
NoLateJump ==
  /\ armed => tcp_pc \in InConnect
  /\ tcp_pc = "undefined" => jumped_at = "armed"

\* The clients whose connect() is over.
Over(i) ==
  \/ tcp_pc \in {"connect", "armed", "connecting"} /\ i < c
  \/ tcp_pc = "connected" /\ i <= c
  \/ tcp_pc \in {"receive", "end"}

\* When connect() has returned, a client that says it is fine is connected,
\* whether it failed, timed out in whatever moment, or has no log to say so.
StatusIsTrue == \A i \in Clients : Over(i) /\ status[i] = 1 => said[i] = "ok"

\* With a timeout, no call of connect() waits forever: neither the first nor
\* one after a call that timed out.
TimeoutsWork ==
  sec_timeout => (tcp_pc \in {"armed", "connecting"} ~> tcp_pc \notin {"armed", "connecting"})

\* The loop around receive() comes to an end: with a timeout whatever the
\* server does, which may neither send nor close; without one if it closes. An
\* answer has an end, of at most MaxChunks.
ReceiveEnds ==
  (receive_timeout \/ <>eof) => (tcp_pc = "receive" ~> tcp_pc = "end")
=============================================================================
