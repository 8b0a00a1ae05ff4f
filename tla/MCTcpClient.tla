---------------------------- MODULE MCTcpClient ----------------------------
(* TcpClient with as many clients and as long an answer as the .cfg says. *)
EXTENDS TcpClient
=============================================================================
