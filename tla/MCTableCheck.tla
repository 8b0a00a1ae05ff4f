---------------------------- MODULE MCTableCheck ----------------------------
(* TableCheck with two tables, of which the second needs all its rows. *)
EXTENDS TableCheck, TLC

TwoTables   == <<"http_auth", "log">>
TwoMinRows  == ("http_auth" :> 1) @@ ("log" :> 2)
=============================================================================
