---------------------------- MODULE ParsedQuery ----------------------------
(***************************************************************************)
(* Client::safe_parsed_query(): one pass over the text of a query that     *)
(* replaces each $dict_name by the next word of that dictionary, escaped,  *)
(* in a buffer of max_query bytes (src/src/client.cc).                     *)
(*                                                                         *)
(* Characters are one-letter strings; a word of a dictionary is what       *)
(* escape_string() sees of it: how many plain characters it has, and how   *)
(* many that need a backslash.  The output is kept as pieces: the          *)
(* characters copied, and the dictionaries expanded.                       *)
(***************************************************************************)
EXTENDS Integers, Sequences

CONSTANTS
  NameChars,    \* the characters c with isalnum(c) || c == '_'
  OtherChars,   \* other characters than those, '$' and backslash
  Dicts,        \* the names of the dictionaries, sequences of NameChars
  Words,        \* <<plain, special>> of the words next_word() may return
  MaxQuery,     \* MAX_QUERY
  MaxVarBuf,    \* MAX_VAR_BUF
  MaxLen        \* bound: the length of the queries tried

ASSUME ParsedQueryAssumption ==
  /\ "$" \notin NameChars /\ "\\" \notin NameChars
  /\ Words \subseteq Nat \X Nat
  /\ MaxQuery \in Nat /\ MaxQuery >= 1
  /\ MaxVarBuf \in Nat /\ MaxVarBuf >= 1
  /\ MaxLen \in Nat

Chars == NameChars \cup OtherChars \cup {"$", "\\"}

VARIABLES
  query,    \* the text, up to its terminating 0
  max_query,  \* the size of parsed_query
  i,        \* how much of it has been read
  in_var, escaped,
  var_buf,  \* the var_buf_offset characters of the name so far
  offset,   \* how much of parsed_query has been filled
  parsed,   \* with what
  dropped,  \* something did not fit
  result    \* "scanning", "sent" by safe_query(), or "died"

vars == <<query, max_query, i, in_var, escaped, var_buf, offset, parsed, dropped, result>>

\* Query_charge::fire() gives MAX_QUERY, and Client::safe_query(Query&), which
\* run_save_result() calls, twice the length of the text: 0 if it is empty.
BufferSizes == {MaxQuery, 2 * Len(query)}

Init ==
  /\ query \in UNION {[1..n -> Chars] : n \in 0..MaxLen}
  /\ max_query \in BufferSizes
  /\ i = 0
  /\ in_var = 0 /\ escaped = 0
  /\ var_buf = <<>>
  /\ offset = 0 /\ parsed = <<>> /\ dropped = FALSE
  /\ result = "scanning"

c == query[i + 1]

ReadChar == result = "scanning" /\ i < Len(query) /\ i' = i + 1

Backslash ==
  /\ ReadChar /\ in_var = 0 /\ escaped = 0 /\ c = "\\"
  /\ escaped' = 1
  /\ UNCHANGED <<query, max_query, in_var, var_buf, offset, parsed, dropped, result>>

StartVar ==
  /\ ReadChar /\ in_var = 0 /\ escaped = 0 /\ c = "$"
  /\ in_var' = 1 /\ var_buf' = <<>>
  /\ UNCHANGED <<query, max_query, escaped, offset, parsed, dropped, result>>

\* Nothing sets escaped back to 0.
CopyChar ==
  /\ ReadChar /\ in_var = 0 /\ (escaped = 1 \/ c \notin {"\\", "$"})
  /\ IF offset < max_query - 1
     THEN /\ offset' = offset + 1
          /\ parsed' = Append(parsed, <<"char", c>>)
          /\ UNCHANGED dropped
     ELSE dropped' = TRUE /\ UNCHANGED <<offset, parsed>>
  /\ UNCHANGED <<query, max_query, in_var, escaped, var_buf, result>>

NameChar ==
  /\ ReadChar /\ in_var = 1 /\ c \in NameChars
  /\ var_buf' = IF Len(var_buf) < MaxVarBuf - 1 THEN Append(var_buf, c) ELSE var_buf
  /\ UNCHANGED <<query, max_query, in_var, escaped, offset, parsed, dropped, result>>

\* The length escape_string() returns: one more byte per special character.
Escaped(w) == w[1] + 2 * w[2]
WordLen(w) == w[1] + w[2]

\* Mutant of Fits: no room is kept for the backslashes.
FitsUnescaped(w) == WordLen(w) + offset + 2 < max_query

Fits(w) == 2 * WordLen(w) + offset + 2 < max_query

\* Mutant of EndVar: the character goes in before the word.
EndVarSwaps ==
  /\ ReadChar /\ in_var = 1 /\ c \notin NameChars /\ var_buf \in Dicts
  /\ \E w \in Words :
       IF Fits(w)
       THEN /\ offset' = offset + 1 + Escaped(w)
            /\ parsed' = parsed \o <<<<"char", c>>, <<"word", var_buf>>>>
            /\ UNCHANGED dropped
       ELSE dropped' = TRUE /\ UNCHANGED <<offset, parsed>>
  /\ in_var' = 0 /\ var_buf' = <<>>
  /\ UNCHANGED <<query, max_query, escaped, result>>

\* The character after the name: the word goes in if even its worst escaping
\* would fit, the character itself if there is room for it.
EndVar ==
  /\ ReadChar /\ in_var = 1 /\ c \notin NameChars /\ var_buf \in Dicts
  /\ \E w \in Words :
       LET room == offset + (IF Fits(w) THEN Escaped(w) ELSE 0)
           with == IF Fits(w) THEN Append(parsed, <<"word", var_buf>>) ELSE parsed
       IN  /\ offset' = IF room < max_query - 1 THEN room + 1 ELSE room
           /\ parsed' = IF room < max_query - 1 THEN Append(with, <<"char", c>>) ELSE with
           /\ dropped' = (dropped \/ ~Fits(w) \/ room >= max_query - 1)
  /\ in_var' = 0 /\ var_buf' = <<>>
  /\ UNCHANGED <<query, max_query, escaped, result>>

\* die(): "The dictionary %s does not exist".
EndVarUnknown ==
  /\ ReadChar /\ in_var = 1 /\ c \notin NameChars /\ var_buf \notin Dicts
  /\ result' = "died"
  /\ UNCHANGED <<query, max_query, in_var, escaped, var_buf, offset, parsed, dropped>>

\* parsed_query[offset] = 0, and on to safe_query().
Send ==
  /\ result = "scanning" /\ i = Len(query)
  /\ result' = "sent"
  /\ UNCHANGED <<query, max_query, i, in_var, escaped, var_buf, offset, parsed, dropped>>

Next ==
  \/ Backslash \/ StartVar \/ CopyChar \/ NameChar
  \/ EndVar \/ EndVarUnknown \/ Send

Spec == Init /\ [][Next]_vars

-----------------------------------------------------------------------------
\* Every index the pass writes at, the terminating 0 included, is inside
\* parsed_query[max_query] and var_buf[MAX_VAR_BUF], for any query and words:
\* but for an empty text saved by run_save_result(), whose 0 has no place.
InBounds ==
  /\ offset <= max_query - 1 \/ (query = <<>> /\ max_query = 0 /\ offset = 0)
  /\ Len(var_buf) <= MaxVarBuf - 1

(***************************************************************************)
(* What MANUAL says: $dict_name, wherever it stands, is the dictionary.    *)
(* A "$" starts the longest run of name characters after it.               *)
(***************************************************************************)
NameAfter(q, p) ==
  CHOOSE n \in 0..(Len(q) - p) :
    /\ \A k \in 1..n : q[p + k] \in NameChars
    /\ p + n < Len(q) => q[p + n + 1] \notin NameChars

InName(q, p) == \E d \in 1..(p - 1) : q[d] = "$" /\ p <= d + NameAfter(q, d)

PieceAt(q, p) == IF q[p] = "$" THEN <<"word", SubSeq(q, p + 1, p + NameAfter(q, p))>>
                 ELSE <<"char", q[p]>>

\* The pieces of the first p characters that are not part of a name, in order.
Expansion(q) ==
  LET upto[p \in 0..Len(q)] ==
        IF p = 0 THEN <<>>
        ELSE IF InName(q, p) THEN upto[p - 1] ELSE Append(upto[p - 1], PieceAt(q, p))
  IN  upto

\* A reference short enough for var_buf, and followed by a character that is
\* neither a "$" nor a backslash: the form all the smack files use.  Any other
\* is not expanded (of "$a$b" only $a is, of "... $a" nothing), although the
\* MANUAL has no such limit.
Regular(q) ==
  \A p \in 1..Len(q) :
    /\ q[p] # "\\"
    /\ q[p] = "$" => LET n == NameAfter(q, p)
                     IN  p + n + 1 <= Len(q) /\ q[p + n + 1] # "$" /\ n < MaxVarBuf

\* s is e, with some of it left out.
IsPartOf(s, e) ==
  \E at \in [1..Len(s) -> 1..Len(e)] :
    /\ \A j, k \in 1..Len(s) : j < k => at[j] < at[k]
    /\ \A k \in 1..Len(s) : s[k] = e[at[k]]

\* For such a query the text sent is the expansion, whatever the words are, as
\* long as everything fits.
RegularExpands ==
  result = "sent" /\ Regular(query) /\ ~dropped =>
    parsed = Expansion(query)[Len(query)]

\* Truncation leaves whole pieces out: the rest is in order.
TruncatesWholePieces ==
  result = "sent" /\ Regular(query) => IsPartOf(parsed, Expansion(query)[Len(query)])
=============================================================================
