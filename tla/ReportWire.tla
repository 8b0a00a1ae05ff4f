----------------------------- MODULE ReportWire -----------------------------
(***************************************************************************)
(* The bytes of a report: fd_send() lays the records of a client out in a  *)
(* buffer and writes it, update_from_fd() reads it back byte by byte       *)
(* (src/src/query.cc), and so implements the transfer of QueryReport.      *)
(*                                                                         *)
(* A cell of the pipe is a byte, except that an int is one cell.  What is  *)
(* kept of its width is where it matters: the length of a name and the     *)
(* number of records are one byte each.                                    *)
(***************************************************************************)
EXTENDS Integers, Sequences, SequencesExt, FiniteSets

CONSTANTS
  Reporter, Smackers, Types, Times, MaxShots,   \* as in QueryReport
  Namings,    \* the names the types may have: functions to sequences of codes
  ByteSize,   \* the values of a byte (256)
  ReportLen   \* the cells of the buffer (MAX_REPORT_LEN)

\* Types have different names, and no character is 0.
\* A buffer never holds more records than a byte can count (1024 / 13 < 256).
ASSUME ReportWireAssumption ==
  /\ \A n \in Namings : /\ n \in [Types -> Seq(Nat \ {0})]
                        /\ IsInjective(n)
  /\ ByteSize \in Nat \ {0} /\ ReportLen \in Nat
  /\ ReportLen \div 4 < ByteSize

VARIABLES
  qr, shots, merged,   \* as in QueryReport
  name,      \* the names of the types: the keys of type_reports
  wire,      \* the cells in the pipe
  senders,   \* whose reports they are, in the order of writing
  dead       \* the clients that called die()

vars == <<qr, shots, merged, name, wire, senders, dead>>

QR == INSTANCE QueryReport WITH pipe <- ToSet(senders)

ASSUME QueryReportHolds == QR!QueryReportAssumption

-----------------------------------------------------------------------------
(***************************************************************************)
(* fd_send(): buf[0] is kept for the number of records.                    *)
(***************************************************************************)
\* Mutant of Record: min_time before max_time.
RecordMinFirst(nm, rep) ==
  <<Len(nm) % ByteSize>> \o nm \o <<rep.num_queries, rep.min_time, rep.max_time>>

Record(nm, rep) ==
  <<Len(nm) % ByteSize>> \o nm \o <<rep.num_queries, rep.max_time, rep.min_time>>

\* "p + str_len + 3 * sizeof(int) < p_end", before the length is written at p.
RecordFits(nm, buf) == Len(buf) + Len(nm) + 3 < ReportLen

\* The map gives the types in the order of their names; any order would do.
NamesInOrder == SetToSeq({name[t] : t \in Types})
TypeNamed(nm) == CHOOSE t \in Types : name[t] = nm

\* The buffer with the first i of a client's type_reports, and whether all fit.
Buffer(reports, i) ==
  LET buf[n \in 0..i] ==
        IF n = 0 THEN <<Cardinality(Types) % ByteSize>>
        ELSE buf[n - 1] \o Record(NamesInOrder[n], reports[TypeNamed(NamesInOrder[n])])
  IN  buf[i]

ReportFits(reports) ==
  \A i \in 1..Len(NamesInOrder) : RecordFits(NamesInOrder[i], Buffer(reports, i - 1))

CanSend(c) == c \notin ToSet(senders) \cup merged \cup dead

FdSend(c) ==
  /\ CanSend(c) /\ ReportFits(qr[c])
  /\ wire' = wire \o Buffer(qr[c], Cardinality(Types))
  /\ senders' = Append(senders, c)
  /\ UNCHANGED <<qr, shots, merged, name, dead>>

\* "report buffer overflow -- too many query types"
FdSendOverflows(c) ==
  /\ CanSend(c) /\ ~ReportFits(qr[c])
  /\ dead' = dead \cup {c}
  /\ UNCHANGED <<qr, shots, merged, name, wire, senders>>

-----------------------------------------------------------------------------
(***************************************************************************)
(* update_from_fd(), from what is in the pipe: in.rest is what is left of  *)
(* it, in.rep the reporter's type_reports, in.stop why it leaves the loop. *)
(***************************************************************************)
Stops(in, why) == [in EXCEPT !.stop = why]

\* read_q_type, which ends at its first 0; one is put after it.
CString(s) ==
  LET end == SelectInSeq(s, LAMBDA ch : ch = 0)
  IN  IF end = 0 THEN s ELSE SubSeq(s, 1, end - 1)

ReadRecord(in) ==
  LET q_type_len  == Head(in.rest) % ByteSize
      read_q_type == CString(SubSeq(in.rest, 2, q_type_len + 1))
      int(k)      == in.rest[q_type_len + 1 + k]
      other       == [num_queries |-> int(1), max_time |-> int(2), min_time |-> int(3)]
  IN  CASE in.stop # "no"                          -> in
        [] in.stop = "no" /\ in.rest = <<>>        -> Stops(in, "empty")
        [] in.stop = "no" /\ in.rest # <<>> /\ Len(in.rest) < q_type_len + 4
                                                   -> Stops(in, "incomplete read")
        [] OTHER ->
             IF \E t \in Types : name[t] = read_q_type
             THEN [rest |-> SubSeq(in.rest, q_type_len + 5, Len(in.rest)),
                   rep  |-> [in.rep EXCEPT ![TypeNamed(read_q_type)] = QR!Merge(@, other)],
                   stop |-> "no"]
             ELSE Stops(in, "invalid q_type")

Received ==
  LET in[n \in 0..Head(wire)] ==
        IF n = 0 THEN [rest |-> Tail(wire), rep |-> qr[Reporter], stop |-> "no"]
        ELSE ReadRecord(in[n - 1])
  IN  in[Head(wire)]

\* A read() of an empty pipe waits as long as somebody may still write.
CanRead ==
  /\ Reporter \notin dead /\ senders # <<>> /\ wire # <<>>
  /\ Received.stop = "empty" => \A c \in Smackers : ~CanSend(c)

UpdateFromFd ==
  /\ CanRead /\ Received.stop \in {"no", "empty"}
  /\ qr' = [qr EXCEPT ![Reporter] = Received.rep]
  /\ wire' = Received.rest
  /\ senders' = Tail(senders)
  /\ merged' = merged \cup {Head(senders)}
  /\ UNCHANGED <<shots, name, dead>>

UpdateFromFdDies ==
  /\ CanRead /\ Received.stop \notin {"no", "empty"}
  /\ dead' = dead \cup {Reporter}
  /\ UNCHANGED <<qr, shots, merged, name, wire, senders>>

\* One shot of a client that lives.
Fire(c) ==
  /\ c \notin dead
  /\ UNCHANGED <<name, wire, senders, dead>>
  /\ \E t \in Types, q_time \in Times : QR!Fire(c, t, q_time)

-----------------------------------------------------------------------------
Init ==
  /\ name \in Namings
  /\ wire = <<>> /\ senders = <<>> /\ dead = {}
  /\ QR!Init

Next ==
  \/ \E c \in QR!Clients : Fire(c)
  \/ \E c \in Smackers : FdSend(c) \/ FdSendOverflows(c)
  \/ UpdateFromFd \/ UpdateFromFdDies

Spec == Init /\ [][Next]_vars

-----------------------------------------------------------------------------
\* The length of every name fits in its byte.
ShortNames == \A t \in Types : Len(name[t]) < ByteSize

\* A name that the byte cuts down to that of another type.
CutToAnother ==
  \E t, u \in Types : /\ Len(name[t]) >= ByteSize
                      /\ name[u] = SubSeq(name[t], 1, Len(name[t]) % ByteSize)

\* With names below 256 characters, what comes out of the pipe is what QueryReport
\* says: all the records of one report, each of them merged into its own type.
ReportsArrive == QR!Init /\ [][ShortNames => QR!Next]_QR!vars

\* The counts printed are exact as long as the reporter lives. Its die() is all
\* that a longer name can do, unless the name is cut to that of another type.
CountsAreExact ==
  /\ ShortNames => Reporter \notin dead
  /\ CutToAnother \/ Reporter \in dead \/ QR!CountsAreExact

\* Merging in any order loses nothing more (see QueryReport).
MergeIsOrderFree == ShortNames => QR!MergeIsOrderFree

\* The extremes are times that a query took, and never cross (see QueryReport).
ExtremesWereObserved == ShortNames => QR!ExtremesWereObserved
=============================================================================
