--------------------------- MODULE MCParsedQuery ---------------------------
(* ParsedQuery over every query of up to MaxLen characters. *)
EXTENDS ParsedQuery

SomeDicts == {<<"a">>, <<"a", "b">>}
SomeWords == {<<0, 0>>, <<1, 1>>, <<3, 0>>, <<0, 4>>}
=============================================================================
