---------------------------- MODULE MCDictionary ----------------------------
(* Dictionary over small texts of every kind, with two processes. *)
EXTENDS Dictionary

Texts(chars, n) == UNION {[1..m -> chars] : m \in 0..n}

SomeLists == Texts({"a", ",", "\\"}, 3)
SomeTemplates == Texts(TemplateChars, 4)

\* A field and a rest, no field, a line that just fits, and one that does not.
SomeLines == {<<"a", ";">>, <<>>, <<"a", "b", "c">>, <<"a", "b", "c", "d">>}
SomeFiles == Texts(SomeLines, 3)
=============================================================================
