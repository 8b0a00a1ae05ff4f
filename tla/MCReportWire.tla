---------------------------- MODULE MCReportWire ----------------------------
(* ReportWire on small instances. *)
EXTENDS ReportWire, TLC

CONSTANTS r, s1, s2, t1, t2

\* Two names that differ at once, or late; one of them a prefix of the other;
\* both together as long as the buffer allows, and longer; one whose length is
\* that of no character, and one that is cut to the name of the other type.
TwoNames ==
  {<< <<1>>, <<2>> >>,
   << <<1, 2>>, <<1, 2, 1>> >>,
   << <<1>>, <<1, 2, 1>> >>,
   << <<1, 2, 1>>, <<2, 2, 1>> >>,
   << <<1, 2, 1>>, <<2, 2, 1, 2>> >>,
   << <<2>>, <<1, 1, 1, 1>> >>,
   << <<1>>, <<1, 2, 1, 1, 1>> >>,
   << <<2>>, <<1, 2, 1, 1, 1>> >>}

MCNamings == {[t \in {t1, t2} |-> IF t = t1 THEN p[1] ELSE p[2]] : p \in TwoNames}

Symmetry == Permutations({s1, s2})
=============================================================================
