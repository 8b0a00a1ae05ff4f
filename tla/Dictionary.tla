----------------------------- MODULE Dictionary -----------------------------
(***************************************************************************)
(* A dictionary section: make_dict() loads a list, a file or a template,   *)
(* and each process draws words from its own copy of the result            *)
(* (src/src/dictionary.cc, make_dict() in src/src/parse.cc).               *)
(*                                                                         *)
(* Texts are sequences of one-letter strings; a file is a sequence of      *)
(* lines, the last of which may lack its newline.  A word of a unique      *)
(* dictionary is the id that goes into the template.                       *)
(***************************************************************************)
EXTENDS Integers, Sequences, FiniteSets, FiniteSetsExt

CONSTANTS
  Lists,          \* the lists tried: sequences of characters
  TemplateChars,  \* the characters of templates
  Templates,      \* the templates tried
  Files,          \* the files tried: sequences of lines
  Equivs,         \* the values of file_size_equiv, 0 if it is not given
  MAX_FILE_LINE,  \* the size of the line buffer
  MaxWords,       \* how many words fit in memory
  Procs,          \* the processes, 0 being the one that parses
  MaxDraws        \* bound: words drawn in one line of descent

COMMA == ","      \* what ends a word of a list
DELIM == ";"      \* the delimiter given for the fields of a line
GARBAGE == <<"?">>  \* what words[0] of no words may be

ASSUME DictionaryAssumption ==
  /\ MAX_FILE_LINE \in Nat /\ MAX_FILE_LINE > 1
  /\ Lists \subseteq Seq(STRING) /\ Files \subseteq Seq(Seq(STRING))
  /\ "%" \in TemplateChars /\ Templates \subseteq Seq(TemplateChars)
  /\ Equivs \subseteq Nat /\ MaxWords \in Nat /\ MaxDraws \in Nat
  /\ IsFiniteSet(Procs) /\ 0 \in Procs

VARIABLES
  kind, source_type,
  source,      \* the characters, or the lines
  ended,       \* the last line of the file has its newline
  equiv,       \* file_size_equiv
  pc,          \* "loading", "ready", "died" by die(), or "killed"
  i,           \* how many characters or lines have been read
  fail,        \* the stream's failbit
  word_buf,
  words,
  saw_field, last_percent,
  templ,
  state,       \* of each process: "unborn", "running" or "killed" by a signal
  ind,         \* cur_word_ind, or id, of each process
  drawn        \* the words each process, or those it came from, has drawn

source_vars == <<kind, source_type, source, ended, equiv>>
templ_vars  == <<saw_field, last_percent, templ>>
load_vars   == <<pc, i, fail, word_buf, words, templ_vars>>
draw_vars   == <<state, ind, drawn>>
vars        == <<source_vars, load_vars, draw_vars>>

-----------------------------------------------------------------------------
(***************************************************************************)
(* make_dict().                                                            *)
(***************************************************************************)
Loading(type) == pc = "loading" /\ source_type = type

\* A type or source type nobody knows; a template that is not of "unique".
MakeDictDies ==
  /\ pc = "loading" /\ i = 0
  /\ \/ kind \notin {"rand", "seq", "unique"}
     \/ source_type \notin {"file", "list", "template"}
     \/ source_type = "template" /\ kind # "unique"
  /\ pc' = "died"
  /\ UNCHANGED <<source_vars, i, fail, word_buf, words, templ_vars, draw_vars>>

CanMake == kind \in {"rand", "seq", "unique"} /\ (source_type = "template" => kind = "unique")

\* load_list(), one character.  The case of the backslash falls through to
\* the default: it is kept, and escaped is 0 again at once.
ListWordOpen ==
  /\ word_buf' = Append(word_buf, source[i + 1])
  /\ UNCHANGED words

\* Mutant of ListWordEnds: j is not set to 0.
ListKeepsBuf ==
  /\ words' = Append(words, word_buf)
  /\ UNCHANGED word_buf

ListWordEnds ==
  /\ words' = Append(words, word_buf)
  /\ word_buf' = <<>>

ListChar ==
  /\ Loading("list") /\ CanMake /\ i < Len(source)
  /\ IF source[i + 1] = COMMA THEN ListWordEnds ELSE ListWordOpen
  /\ i' = i + 1
  /\ UNCHANGED <<source_vars, pc, fail, templ_vars, draw_vars>>

Ready ==
  /\ pc' = "ready"
  /\ UNCHANGED <<source_vars, i, fail, word_buf, words, draw_vars>>

\* The last entry is left in word_buf, and does not become a word.
ListEnds ==
  /\ Loading("list") /\ CanMake /\ i = Len(source)
  /\ Ready /\ UNCHANGED templ_vars

-----------------------------------------------------------------------------
(***************************************************************************)
(* load_file(), one getline().                                             *)
(***************************************************************************)
\* The bytes of the first k lines, with their newlines.
Bytes(lines) ==
  LET upto[k \in 0..Len(lines)] == IF k = 0 THEN 0 ELSE upto[k - 1] + Len(lines[k]) + 1
  IN  upto

\* st_size
Size == Bytes(source)[Len(source)] - (IF ended \/ source = <<>> THEN 0 ELSE 1)

step == IF equiv = 0 \/ Size \div equiv = 0 THEN 1 ELSE Size \div equiv

\* Mutant of FitsBuf: a line that just fits is too long.
FitsBufTight(text) == Len(text) < MAX_FILE_LINE - 1

FitsBuf(text) == Len(text) <= MAX_FILE_LINE - 1

\* strchr(buf, delim)
Cut(text) ==
  IF \E k \in 1..Len(text) : text[k] = DELIM
  THEN SubSeq(text, 1, (CHOOSE k \in 1..Len(text) :
                          text[k] = DELIM /\ \A m \in 1..(k - 1) : text[m] # DELIM) - 1)
  ELSE text

\* Mutant of Chosen: lines are counted from 0.
ChosenFromZero(line) == (line - 1) % step = 0

Chosen(line) == line % step = 0

Insert(line, text) == words' = IF Chosen(line) THEN Append(words, Cut(text)) ELSE words

\* The last line comes with eof() unless its newline is there.
HasNewline(line) == line < Len(source) \/ ended

FileLine ==
  /\ Loading("file") /\ CanMake /\ ~fail /\ i < Len(source) /\ Len(words) < MaxWords
  /\ FitsBuf(source[i + 1]) /\ HasNewline(i + 1)
  /\ Insert(i + 1, source[i + 1])
  /\ i' = i + 1
  /\ UNCHANGED <<source_vars, pc, fail, word_buf, templ_vars, draw_vars>>

\* failbit, but not eof(): the line is cut off, and the stream is stuck.
FileLineTooLong ==
  /\ Loading("file") /\ CanMake /\ ~fail /\ i < Len(source) /\ Len(words) < MaxWords
  /\ ~FitsBuf(source[i + 1])
  /\ Insert(i + 1, SubSeq(source[i + 1], 1, MAX_FILE_LINE - 1))
  /\ i' = i + 1 /\ fail' = TRUE
  /\ UNCHANGED <<source_vars, pc, word_buf, templ_vars, draw_vars>>

\* From then on getline() gives empty lines, for ever.
FileStuck ==
  /\ Loading("file") /\ fail /\ Len(words) < MaxWords
  /\ Insert(i + 1, <<>>)
  /\ i' = i + 1
  /\ UNCHANGED <<source_vars, pc, fail, word_buf, templ_vars, draw_vars>>

OutOfMemory ==
  /\ Loading("file") /\ Len(words) = MaxWords
  /\ pc' = "killed"
  /\ UNCHANGED <<source_vars, i, fail, word_buf, words, templ_vars, draw_vars>>

\* Also of a file that is not there: make_dict() does not look at what
\* load_file() returns.
FileEof ==
  /\ Loading("file") /\ CanMake /\ ~fail
  /\ \/ i = Len(source)
     \/ i = Len(source) - 1 /\ ~ended /\ FitsBuf(source[i + 1])
  /\ Ready /\ UNCHANGED templ_vars

-----------------------------------------------------------------------------
(***************************************************************************)
(* fix_template(), one character.                                          *)
(***************************************************************************)
TemplatePercent ==
  /\ Loading("template") /\ CanMake /\ i < Len(source) /\ source[i + 1] = "%"
  /\ last_percent' = 1 /\ i' = i + 1
  /\ UNCHANGED <<source_vars, pc, fail, word_buf, words, saw_field, templ, draw_vars>>

\* Mutant of TemplateBreaks: a second field is copied like the first.
TemplateNeverBreaks == FALSE

\* A second field: the rest of the template is dropped.
TemplateBreaks == last_percent = 1 /\ saw_field = 1

TemplateChar ==
  /\ Loading("template") /\ CanMake /\ i < Len(source) /\ source[i + 1] # "%"
  /\ ~TemplateBreaks
  /\ templ' = IF last_percent = 1 THEN Append(Append(templ, "%"), source[i + 1])
              ELSE Append(templ, source[i + 1])
  /\ saw_field' = IF last_percent = 1 THEN 1 ELSE saw_field
  /\ last_percent' = 0 /\ i' = i + 1
  /\ UNCHANGED <<source_vars, pc, fail, word_buf, words, draw_vars>>

TemplateEnds ==
  /\ Loading("template") /\ CanMake
  /\ \/ i = Len(source)
     \/ i < Len(source) /\ source[i + 1] # "%" /\ TemplateBreaks
  /\ Ready /\ UNCHANGED templ_vars

-----------------------------------------------------------------------------
(***************************************************************************)
(* next_word() in the processes that fork() has made.                      *)
(***************************************************************************)
CanDraw(p) == pc = "ready" /\ state[p] = "running" /\ Len(drawn[p]) < MaxDraws

Draw(p, word) == drawn' = [drawn EXCEPT ![p] = Append(@, word)]

NextSeq(p) ==
  /\ CanDraw(p) /\ kind = "seq" /\ words # <<>>
  /\ Draw(p, words[ind[p] + 1])
  /\ ind' = [ind EXCEPT ![p] = IF @ + 1 = Len(words) THEN 0 ELSE @ + 1]
  /\ UNCHANGED <<source_vars, load_vars, state>>

NextRand(p) ==
  /\ CanDraw(p) /\ kind = "rand" /\ words # <<>>
  /\ \E k \in 1..Len(words) : Draw(p, words[k])
  /\ UNCHANGED <<source_vars, load_vars, state, ind>>

NextUnique(p) ==
  /\ CanDraw(p) /\ kind = "unique"
  /\ Draw(p, ind[p])
  /\ ind' = [ind EXCEPT ![p] = @ + 1]
  /\ UNCHANGED <<source_vars, load_vars, state>>

\* rand() % 0, or words[0] of no words.
NextOfNothingKills(p) ==
  /\ CanDraw(p) /\ kind \in {"rand", "seq"} /\ words = <<>>
  /\ state' = [state EXCEPT ![p] = "killed"]
  /\ UNCHANGED <<source_vars, load_vars, ind, drawn>>

\* words[0] may also be anything; the index never meets the size again.
NextOfNothing(p) ==
  /\ CanDraw(p) /\ kind = "seq" /\ words = <<>>
  /\ Draw(p, GARBAGE)
  /\ ind' = [ind EXCEPT ![p] = @ + 1]
  /\ UNCHANGED <<source_vars, load_vars, state>>

\* Mutant of Fork: the child starts from the first word again.
ForkStartsOver(p, q) ==
  /\ pc = "ready" /\ state[p] = "running" /\ state[q] = "unborn"
  /\ state' = [state EXCEPT ![q] = "running"]
  /\ ind' = [ind EXCEPT ![q] = 0]
  /\ drawn' = [drawn EXCEPT ![q] = drawn[p]]
  /\ UNCHANGED <<source_vars, load_vars>>

\* init() and create_threads(): the child has its parent's dictionaries.
Fork(p, q) ==
  /\ pc = "ready" /\ state[p] = "running" /\ state[q] = "unborn"
  /\ state' = [state EXCEPT ![q] = "running"]
  /\ ind' = [ind EXCEPT ![q] = ind[p]]
  /\ drawn' = [drawn EXCEPT ![q] = drawn[p]]
  /\ UNCHANGED <<source_vars, load_vars>>

-----------------------------------------------------------------------------
Init ==
  /\ kind \in {"rand", "seq", "unique", "other"}
  /\ \/ source_type = "list" /\ source \in Lists /\ ended = FALSE /\ equiv = 0
     \/ source_type = "template" /\ source \in Templates /\ ended = FALSE /\ equiv = 0
     \/ source_type = "file" /\ source \in Files /\ ended \in BOOLEAN /\ equiv \in Equivs
     \/ source_type = "other" /\ source = <<>> /\ ended = FALSE /\ equiv = 0
  /\ source = <<>> => ~ended
  /\ pc = "loading" /\ i = 0 /\ fail = FALSE /\ word_buf = <<>> /\ words = <<>>
  /\ saw_field = 0 /\ last_percent = 0 /\ templ = <<>>
  /\ state = [p \in Procs |-> IF p = 0 THEN "running" ELSE "unborn"]
  /\ ind = [p \in Procs |-> 0]
  /\ drawn = [p \in Procs |-> <<>>]

MakeDict ==
  \/ MakeDictDies \/ ListChar \/ ListEnds
  \/ FileLine \/ FileLineTooLong \/ FileStuck \/ OutOfMemory \/ FileEof
  \/ TemplatePercent \/ TemplateChar \/ TemplateEnds

NextWord(p) ==
  \/ NextSeq(p) \/ NextRand(p) \/ NextUnique(p)
  \/ NextOfNothingKills(p) \/ NextOfNothing(p)

Next ==
  \/ MakeDict
  \/ \E p \in Procs : NextWord(p) \/ \E q \in Procs : Fork(p, q)

Spec == Init /\ [][Next]_vars

\* The parser does not stop.
FairSpec == Spec /\ WF_vars(MakeDict)

-----------------------------------------------------------------------------
\* The MANUAL has "a comma-delimited list of entries", and test-dictionary.cc
\* loads "sasha,sarah,matt,monty,david" for five names: the last entry has no comma
\* behind it.  load_list() makes a word of an entry at its comma and nowhere else,
\* so against both of them the last entry never becomes one: it is left in
\* word_buf.  It is the only one lost: the others are words, whole and in order.
OnlyLastEntryIsLost ==
  pc = "ready" /\ source_type = "list" =>
    LET commas    == {k \in 1..Len(source) : source[k] = COMMA}
        upto(k)   == {m \in commas : m <= k}
        before(k) == Max({0} \cup {m \in commas : m < k})
        Entry(k)  == SubSeq(source, before(k) + 1, k - 1)   \* the entry before k
    IN  /\ Len(words) = Cardinality(commas)
        /\ \A k \in commas : words[Cardinality(upto(k))] = Entry(k)
        /\ word_buf = Entry(Len(source) + 1)

\* A file that load_file() comes to the end of gives the first field of every
\* step-th of its lines that have a newline.
FileGivesItsWords ==
  pc = "ready" /\ source_type = "file" =>
    LET lines == IF ended \/ source = <<>> THEN Len(source) ELSE Len(source) - 1
    IN  /\ Len(words) = lines \div step
        /\ \A k \in 1..Len(words) : words[k] = Cut(source[k * step])

\* MANUAL: the template is "a sprintf() format template", for one id: whatever
\* the user wrote, snprintf() finds at most one field to convert, and no lone %
\* at the end.
TemplateHasOneField ==
  pc = "ready" /\ source_type = "template" =>
    /\ \A k, m \in 1..Len(templ) : templ[k] = "%" /\ templ[m] = "%" => k = m
    /\ templ # <<>> => templ[Len(templ)] # "%"

\* MANUAL: "seq" words "are retrieved in the sequential order", over and over,
\* and the id of a "unique" one is "incremented by 1": also across a fork,
\* where a child goes on from the word its parent had come to.
WordsInTurn ==
  \A p \in Procs : \A k \in 1..Len(drawn[p]) :
    /\ kind = "seq" /\ words # <<>> => drawn[p][k] = words[((k - 1) % Len(words)) + 1]
    /\ kind = "unique" => drawn[p][k] = k - 1

\* load_file() comes to the end of every file whose lines fit the line buffer.
FileLoadEnds ==
  source_type = "file" /\ CanMake /\ (\A k \in 1..Len(source) : Len(source[k]) < MAX_FILE_LINE)
    => <>(pc = "ready")
=============================================================================
