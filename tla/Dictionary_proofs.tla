-------------------------- MODULE Dictionary_proofs --------------------------
(***************************************************************************)
(* That a list and a file give the words that they should, that the        *)
(* template a unique dictionary keeps has one field at most, and that      *)
(* words come in turn.                                                     *)
(***************************************************************************)
EXTENDS Dictionary, FiniteSetTheorems, SequenceTheorems, WellFoundedInduction, TLAPS

\* While fix_template() reads: a field is in templ only after saw_field is set,
\* and templ never ends with the % itself.
TemplInv ==
  /\ source_type = "template" => source \in Seq(TemplateChars)
  /\ i \in Nat
  /\ saw_field \in {0, 1}
  /\ templ \in Seq(TemplateChars)
  /\ saw_field = 0 => \A k \in 1..Len(templ) : templ[k] # "%"
  /\ \A k, m \in 1..Len(templ) : templ[k] = "%" /\ templ[m] = "%" => k = m
  /\ templ # <<>> => templ[Len(templ)] # "%"

\* It holds of the empty template fix_template() starts from.
LEMMA InitTempl == Init => TemplInv
  BY DictionaryAssumption DEF Init, TemplInv

\* A character that is not % is appended, after a % if one was read and no
\* field is there yet.
LEMMA CharTempl == TemplInv /\ TemplateChar => TemplInv'
<1> SUFFICES ASSUME TemplInv, TemplateChar PROVE TemplInv'
  OBVIOUS
<1> DEFINE ch == source[i + 1]
<1>1. /\ ch \in TemplateChars /\ ch # "%" /\ source' = source /\ source_type' = source_type
      /\ i' = i + 1
  BY DEF TemplInv, TemplateChar, Loading, source_vars
<1>2. CASE last_percent = 1
  <2>1. saw_field = 0 /\ saw_field' = 1
    BY <1>2 DEF TemplInv, TemplateChar, TemplateBreaks
  <2>2. templ' = Append(Append(templ, "%"), ch)
    BY <1>2 DEF TemplateChar
  <2>3. /\ templ' \in Seq(TemplateChars) /\ Len(templ') = Len(templ) + 2
        /\ \A k \in 1..Len(templ) : templ'[k] = templ[k]
        /\ templ'[Len(templ) + 1] = "%" /\ templ'[Len(templ) + 2] = ch
    BY <1>1, <2>2, DictionaryAssumption DEF TemplInv
  <2>4. \A k \in 1..Len(templ') : templ'[k] = "%" => k = Len(templ) + 1
    BY <1>1, <2>1, <2>3 DEF TemplInv
  <2>5. \A k, m \in 1..Len(templ') : templ'[k] = "%" /\ templ'[m] = "%" => k = m
    BY <2>4
  <2> QED BY <1>1, <2>1, <2>3, <2>5 DEF TemplInv
<1>3. CASE last_percent # 1
  <2>1. saw_field' = saw_field /\ templ' = Append(templ, ch)
    BY <1>3 DEF TemplateChar
  <2>2. /\ templ' \in Seq(TemplateChars) /\ Len(templ') = Len(templ) + 1
        /\ \A k \in 1..Len(templ) : templ'[k] = templ[k]
        /\ templ'[Len(templ) + 1] = ch
    BY <1>1, <2>1 DEF TemplInv
  <2>3. \A k \in 1..Len(templ') : templ'[k] = "%" => k \in 1..Len(templ) /\ templ[k] = "%"
    BY <1>1, <2>2 DEF TemplInv
  <2> QED BY <1>1, <2>1, <2>2, <2>3 DEF TemplInv
<1> QED BY <1>2, <1>3

\* All other steps leave the template alone.
LEMMA NextTempl == TemplInv /\ [Next]_vars => TemplInv'
<1> SUFFICES ASSUME TemplInv, [Next]_vars PROVE TemplInv'
  OBVIOUS
<1>1. CASE TemplateChar
  BY <1>1, CharTempl
<1>2. CASE TemplatePercent
  BY <1>2 DEF TemplInv, TemplatePercent, source_vars
<1>3. CASE MakeDictDies \/ ListChar \/ ListEnds
  <2>1. UNCHANGED <<source_vars, templ_vars>> /\ (i' = i \/ i' = i + 1)
    <3>1. CASE MakeDictDies
      BY <3>1 DEF MakeDictDies
    <3>2. CASE ListChar
      BY <3>2 DEF ListChar
    <3>3. CASE ListEnds
      BY <3>3 DEF ListEnds, Ready
    <3> QED BY <1>3, <3>1, <3>2, <3>3
  <2> QED BY <2>1 DEF TemplInv, source_vars, templ_vars
<1>4. CASE FileLine \/ FileLineTooLong \/ FileStuck \/ OutOfMemory \/ FileEof
  BY <1>4 DEF TemplInv, FileLine, FileLineTooLong, FileStuck, OutOfMemory, FileEof, Ready,
              source_vars, templ_vars
<1>5. CASE TemplateEnds
  BY <1>5 DEF TemplInv, TemplateEnds, Ready, source_vars, templ_vars
<1>6. CASE \E p \in Procs : NextWord(p)
  BY <1>6 DEF TemplInv, NextWord, NextSeq, NextRand, NextUnique, NextOfNothingKills,
              NextOfNothing, source_vars, load_vars, templ_vars
<1>7. CASE \E p, q \in Procs : Fork(p, q)
  BY <1>7 DEF TemplInv, Fork, source_vars, load_vars, templ_vars
<1>8. CASE UNCHANGED vars
  BY <1>8 DEF TemplInv, vars, source_vars, load_vars, templ_vars
<1> QED BY <1>1, <1>2, <1>3, <1>4, <1>5, <1>6, <1>7, <1>8 DEF Next, MakeDict

\* Whatever template the user writes, and however long it is, snprintf() is
\* called with one that has at most one field and does not end with a %.
THEOREM TemplateIsSafe == Spec => []TemplateHasOneField
<1>1. TemplInv => TemplateHasOneField
  BY DEF TemplInv, TemplateHasOneField
<1> QED BY <1>1, InitTempl, NextTempl, PTL DEF Spec

-----------------------------------------------------------------------------
\* There is one way to divide k by n.
LEMMA OneRemainder ==
  ASSUME NEW k \in Nat, NEW n \in Nat, n > 0,
         NEW q \in Nat, NEW r \in 0..(n - 1), k = n * q + r
  PROVE  r = k % n
BY SMTT(30)

\* What the index of a sequential dictionary is after k words: k % n, which
\* next_word() keeps by starting over when it has come to n.
LEMMA TurnsOver ==
  ASSUME NEW k \in Nat, NEW n \in Nat, n > 0
  PROVE  /\ k % n \in 0..(n - 1) /\ 0 % n = 0
         /\ (k + 1) % n = IF (k % n) + 1 = n THEN 0 ELSE (k % n) + 1
<1>1. k % n \in 0..(n - 1) /\ 0 % n = 0
  BY SMTT(30)
<1>2. k \div n \in Nat /\ k = n * (k \div n) + (k % n)
  BY SMTT(30)
<1> DEFINE k1 == k + 1
<1>3. \A q \in Nat : \A r \in 0..(n - 1) : k1 = n * q + r => r = k1 % n
  <2>1. k1 \in Nat
    OBVIOUS
  <2> HIDE DEF k1
  <2> QED BY <2>1, OneRemainder
<1> DEFINE q == k \div n
           r == k % n
<1>4. q \in Nat /\ r \in 0..(n - 1) /\ k = n * q + r
  BY <1>1, <1>2
<1> HIDE DEF q, r
<1>5. CASE r + 1 = n
  <2>1. k + 1 = n * (q + 1) + 0 /\ 0 \in 0..(n - 1)
    BY <1>4, <1>5
  <2>2. (k + 1) % n = 0
    BY <1>3, <1>4, <2>1
  <2> QED BY <1>1, <1>5, <2>2 DEF r
<1>6. CASE r + 1 # n
  <2>1. k + 1 = n * q + (r + 1) /\ r + 1 \in 0..(n - 1)
    BY <1>4, <1>6
  <2>2. (k + 1) % n = r + 1
    BY <1>3, <1>4, <2>1
  <2> QED BY <1>1, <1>6, <2>2 DEF r
<1> QED BY <1>5, <1>6

\* A sequence, of whatever it holds.
IsSeq(s) == s \in Seq({s[k] : k \in 1..Len(s)})

\* Appending leaves what is there.
LEMMA AppendIsSeq ==
  ASSUME NEW s, NEW e, IsSeq(s)
  PROVE  /\ IsSeq(Append(s, e)) /\ Len(Append(s, e)) = Len(s) + 1 /\ Len(s) \in Nat
         /\ \A k \in 1..Len(s) : Append(s, e)[k] = s[k]
         /\ Append(s, e)[Len(s) + 1] = e
<1> DEFINE S == {s[k] : k \in 1..Len(s)} \cup {e}
           a == Append(s, e)
<1>1. s \in Seq(S) /\ e \in S
  <2>1. s \in Seq({s[k] : k \in 1..Len(s)})
    BY DEF IsSeq
  <2>2. \A T, U : T \subseteq U /\ s \in Seq(T) => s \in Seq(U)
    OBVIOUS
  <2>3. {s[k] : k \in 1..Len(s)} \subseteq S
    OBVIOUS
  <2> QED BY <2>1, <2>2, <2>3
<1> HIDE DEF S
<1>2. /\ a \in Seq(S) /\ Len(a) = Len(s) + 1 /\ Len(s) \in Nat
      /\ \A k \in 1..Len(s) : a[k] = s[k]
      /\ a[Len(s) + 1] = e
  BY <1>1
<1> HIDE DEF a
<1>3. a \in Seq({a[k] : k \in 1..Len(a)})
  BY <1>2
<1> QED BY <1>2, <1>3 DEF a, IsSeq

\* Where a process that has drawn n words stands in its copy.
StandsAt(p) ==
  /\ kind = "unique" => ind[p] = Len(drawn[p])
  /\ kind = "seq" /\ words # <<>> => ind[p] = Len(drawn[p]) % Len(words)

\* No word is drawn before the dictionary is there, and it does not change
\* afterwards.
TurnInv ==
  /\ IsSeq(words)
  /\ ind \in [Procs -> Nat]
  /\ drawn = [p \in Procs |-> drawn[p]]
  /\ \A p \in Procs :
       /\ IsSeq(drawn[p])
       /\ pc # "ready" => drawn[p] = <<>> /\ ind[p] = 0
       /\ StandsAt(p)
  /\ WordsInTurn

\* Nothing is drawn, and every index is 0.
LEMMA InitTurn == Init => TurnInv
<1> SUFFICES ASSUME Init PROVE TurnInv
  OBVIOUS
<1>1. words = <<>> /\ drawn = [p \in Procs |-> <<>>] /\ ind = [p \in Procs |-> 0]
  BY DEF Init
<1>2. IsSeq(<<>>)
  BY DEF IsSeq
<1> QED BY <1>1, <1>2 DEF TurnInv, StandsAt, WordsInTurn

\* While the dictionary is loaded, only words grow.
LEMMA LoadingTurn ==
  ASSUME TurnInv, pc = "loading", UNCHANGED <<kind, ind, drawn>>,
         words' = words \/ \E e : words' = Append(words, e)
  PROVE  TurnInv'
<1>1. IsSeq(words')
  <2>1. IsSeq(words)
    BY DEF TurnInv
  <2>2. ASSUME NEW e, words' = Append(words, e) PROVE IsSeq(words')
    BY <2>1, <2>2, AppendIsSeq
  <2> QED BY <2>1, <2>2
<1>2. \A p \in Procs : drawn'[p] = <<>> /\ ind'[p] = 0
  BY DEF TurnInv
<1>3. words' # <<>> => Len(words') \in Nat /\ Len(words') > 0
  BY <1>1 DEF IsSeq
<1>4. \A p \in Procs : StandsAt(p)'
  BY <1>2, <1>3, TurnsOver DEF StandsAt
<1> QED BY <1>1, <1>2, <1>4 DEF TurnInv, WordsInTurn

\* A word drawn at the index is the next in turn.
LEMMA DrawTurn ==
  ASSUME TurnInv, NEW p \in Procs, NEW e,
         pc = "ready", UNCHANGED <<kind, pc, words>>,
         drawn' = [drawn EXCEPT ![p] = Append(@, e)],
         ind' \in [Procs -> Nat], \A q \in Procs \ {p} : ind'[q] = ind[q],
         kind = "unique" => e = ind[p] /\ ind'[p] = ind[p] + 1,
         kind = "seq" /\ words # <<>> =>
           /\ e = words[ind[p] + 1]
           /\ ind'[p] = IF ind[p] + 1 = Len(words) THEN 0 ELSE ind[p] + 1
  PROVE  TurnInv'
<1> DEFINE d == drawn[p]
<1>1. /\ drawn' = [q \in Procs |-> drawn'[q]]
      /\ drawn'[p] = Append(d, e) /\ \A q \in Procs \ {p} : drawn'[q] = drawn[q]
  BY DEF TurnInv
<1>2. /\ IsSeq(Append(d, e)) /\ Len(Append(d, e)) = Len(d) + 1 /\ Len(d) \in Nat
      /\ \A k \in 1..Len(d) : Append(d, e)[k] = d[k]
      /\ Append(d, e)[Len(d) + 1] = e
  BY AppendIsSeq DEF TurnInv
<1>3. words # <<>> => Len(words) \in Nat /\ Len(words) > 0
  BY DEF TurnInv, IsSeq
<1>4. StandsAt(p)'
  <2>1. CASE kind = "unique"
    BY <1>1, <1>2, <2>1 DEF TurnInv, StandsAt
  <2>2. CASE kind = "seq" /\ words # <<>>
    <3>1. ind[p] = Len(d) % Len(words)
      BY <2>2 DEF TurnInv, StandsAt
    <3> DEFINE next == IF ind[p] + 1 = Len(words) THEN 0 ELSE ind[p] + 1
    <3>2. (Len(d) + 1) % Len(words) = next
      <4> DEFINE m == Len(d)
                 n == Len(words)
      <4>1. m \in Nat /\ n \in Nat /\ n > 0
        BY <1>2, <1>3, <2>2
      <4> HIDE DEF m, n
      <4>2. (m + 1) % n = IF (m % n) + 1 = n THEN 0 ELSE (m % n) + 1
        BY <4>1, TurnsOver
      <4> QED BY <3>1, <4>2 DEF m, n
    <3>3. ind'[p] = (Len(d) + 1) % Len(words)
      <4>1. ind'[p] = next
        BY <2>2
      <4> HIDE DEF d, next
      <4> QED BY <3>2, <4>1
    <3>4. Len(drawn'[p]) = Len(d) + 1 /\ words' = words /\ kind' # "unique"
      <4>1. words' = words /\ kind' = kind
        OBVIOUS
      <4>2. Len(drawn'[p]) = Len(d) + 1
        <5> HIDE DEF d
        <5> QED BY <1>1, <1>2
      <4> QED BY <2>2, <4>1, <4>2
    <3>5. ind'[p] = Len(drawn'[p]) % Len(words')
      <4> HIDE DEF d
      <4> QED BY <3>3, <3>4
    <3> QED BY <3>4, <3>5 DEF StandsAt
  <2> QED BY <2>1, <2>2 DEF StandsAt
<1>5. \A q \in Procs \ {p} : StandsAt(q)'
  BY <1>1 DEF TurnInv, StandsAt
<1>6. ASSUME NEW q \in Procs, NEW k \in 1..Len(drawn'[q])
      PROVE  /\ kind = "seq" /\ words # <<>> => drawn'[q][k] = words[((k - 1) % Len(words)) + 1]
             /\ kind = "unique" => drawn'[q][k] = k - 1
  <2>1. CASE q = p /\ k = Len(d) + 1
    <3>1. drawn'[q][k] = e /\ k - 1 = Len(d)
      BY <1>1, <1>2, <2>1
    <3> QED BY <3>1 DEF TurnInv, StandsAt
  <2>2. CASE ~(q = p /\ k = Len(d) + 1)
    <3>1. k \in 1..Len(drawn[q]) /\ drawn'[q][k] = drawn[q][k]
      BY <1>1, <1>2, <2>2
    <3> QED BY <3>1 DEF TurnInv, WordsInTurn
  <2> QED BY <2>1, <2>2
<1>7. WordsInTurn'
  BY <1>6 DEF WordsInTurn
<1>8. \A q \in Procs : IsSeq(drawn'[q])
  BY <1>1, <1>2 DEF TurnInv
<1> QED BY <1>1, <1>4, <1>5, <1>7, <1>8 DEF TurnInv

\* A child stands where its parent does.
LEMMA ForkTurn ==
  ASSUME TurnInv, NEW p \in Procs, NEW q \in Procs, Fork(p, q)
  PROVE  TurnInv'
<1>1. /\ UNCHANGED <<kind, pc, words>>
      /\ ind' = [ind EXCEPT ![q] = ind[p]] /\ drawn' = [drawn EXCEPT ![q] = drawn[p]]
  BY DEF Fork, source_vars, load_vars
<1>2. \A r \in Procs : \E s \in Procs : ind'[r] = ind[s] /\ drawn'[r] = drawn[s]
  BY <1>1 DEF TurnInv
<1>3. ind' \in [Procs -> Nat] /\ drawn' = [r \in Procs |-> drawn'[r]]
  BY <1>1 DEF TurnInv
<1>4. ASSUME NEW r \in Procs
      PROVE  /\ IsSeq(drawn'[r])
             /\ pc' # "ready" => drawn'[r] = <<>> /\ ind'[r] = 0
             /\ StandsAt(r)'
  BY <1>1, <1>2 DEF TurnInv, StandsAt
<1>5. WordsInTurn'
  <2>1. ASSUME NEW r \in Procs, NEW k \in 1..Len(drawn'[r])
        PROVE  /\ kind = "seq" /\ words # <<>> => drawn'[r][k] = words[((k - 1) % Len(words)) + 1]
               /\ kind = "unique" => drawn'[r][k] = k - 1
    <3>1. PICK s \in Procs : drawn'[r] = drawn[s]
      BY <1>2
    <3> QED BY <3>1 DEF TurnInv, WordsInTurn
  <2> QED BY <1>1, <2>1 DEF WordsInTurn
<1> QED BY <1>1, <1>3, <1>4, <1>5 DEF TurnInv

\* Every step keeps the words in turn.
LEMMA NextTurn == TurnInv /\ [Next]_vars => TurnInv'
<1> SUFFICES ASSUME TurnInv, [Next]_vars PROVE TurnInv'
  OBVIOUS
<1>1. CASE MakeDict
  <2>1. pc = "loading" /\ UNCHANGED <<kind, ind, drawn>>
    BY <1>1 DEF MakeDict, MakeDictDies, ListChar, ListEnds, FileLine, FileLineTooLong, FileStuck,
         OutOfMemory, FileEof, TemplatePercent, TemplateChar, TemplateEnds, Ready, Loading,
         source_vars, draw_vars
  <2>2. words' = words \/ \E e : words' = Append(words, e)
    BY <1>1 DEF MakeDict, MakeDictDies, ListChar, ListWordEnds, ListWordOpen, ListEnds, FileLine,
         FileLineTooLong, FileStuck, OutOfMemory, FileEof, TemplatePercent, TemplateChar,
         TemplateEnds, Ready, Insert
  <2> QED BY <2>1, <2>2, LoadingTurn
<1>2. ASSUME NEW p \in Procs, NextWord(p) PROVE TurnInv'
  <2>1. CASE NextSeq(p)
    <3>1. ind[p] \in Nat /\ ind' \in [Procs -> Nat]
      BY <2>1 DEF NextSeq, TurnInv
    <3> QED BY <2>1, <3>1, DrawTurn
            DEF NextSeq, Draw, CanDraw, TurnInv, source_vars, load_vars
  <2>2. CASE NextRand(p)
    <3>1. PICK k \in 1..Len(words) : Draw(p, words[k])
      BY <2>2 DEF NextRand
    <3> QED BY <2>2, <3>1, DrawTurn
            DEF NextRand, Draw, CanDraw, TurnInv, source_vars, load_vars
  <2>3. CASE NextUnique(p)
    <3>1. ind[p] \in Nat /\ ind' \in [Procs -> Nat] /\ kind = "unique"
      BY <2>3 DEF NextUnique, TurnInv
    <3> QED BY <2>3, <3>1, DrawTurn
            DEF NextUnique, Draw, CanDraw, TurnInv, source_vars, load_vars
  <2>4. CASE NextOfNothingKills(p)
    BY <2>4 DEF NextOfNothingKills, TurnInv, StandsAt, WordsInTurn, source_vars, load_vars
  <2>5. CASE NextOfNothing(p)
    <3>1. ind[p] \in Nat /\ ind' \in [Procs -> Nat] /\ kind = "seq" /\ words = <<>>
      BY <2>5 DEF NextOfNothing, TurnInv
    <3> QED BY <2>5, <3>1, DrawTurn
            DEF NextOfNothing, Draw, CanDraw, TurnInv, source_vars, load_vars
  <2> QED BY <1>2, <2>1, <2>2, <2>3, <2>4, <2>5 DEF NextWord
<1>3. ASSUME NEW p \in Procs, NEW q \in Procs, Fork(p, q) PROVE TurnInv'
  BY <1>3, ForkTurn
<1>4. CASE UNCHANGED vars
  BY <1>4 DEF TurnInv, StandsAt, WordsInTurn, vars, source_vars, load_vars, draw_vars
<1> QED BY <1>1, <1>2, <1>3, <1>4 DEF Next

\* For any dictionary, number of processes and number of draws: a process gets
\* the words in turn, or ids one after the other, from where its parent was.
THEOREM WordsTheorem == Spec => []WordsInTurn
<1>1. TurnInv => WordsInTurn
  BY DEF TurnInv
<1> QED BY <1>1, InitTurn, NextTurn, PTL DEF Spec

-----------------------------------------------------------------------------
\* What make_dict() is given does not change.
LEMMA SourceStays == [Next]_vars => UNCHANGED source_vars
<1>1. MakeDict => UNCHANGED source_vars
  BY DEF MakeDict, MakeDictDies, ListChar, ListEnds, FileLine, FileLineTooLong, FileStuck,
         OutOfMemory, FileEof, TemplatePercent, TemplateChar, TemplateEnds, Ready
<1>2. \A p \in Procs : NextWord(p) => UNCHANGED source_vars
  BY DEF NextWord, NextSeq, NextRand, NextUnique, NextOfNothingKills, NextOfNothing
<1>3. \A p, q \in Procs : Fork(p, q) => UNCHANGED source_vars
  BY DEF Fork
<1> QED BY <1>1, <1>2, <1>3 DEF Next, vars

\* Drawing words and fork() leave the dictionary as it is.
LEMMA DrawingStays ==
  /\ \A p \in Procs : NextWord(p) => UNCHANGED <<source_vars, load_vars>>
  /\ \A p, q \in Procs : Fork(p, q) => UNCHANGED <<source_vars, load_vars>>
  BY DEF NextWord, NextSeq, NextRand, NextUnique, NextOfNothingKills, NextOfNothing, Fork

-----------------------------------------------------------------------------
(***************************************************************************)
(* The words of a list.                                                    *)
(***************************************************************************)
\* The characters of a list.
Letters == STRING

\* The commas among the first n characters.
Upto(s, n) == {m \in 1..n : s[m] = COMMA}

\* b is the last comma before k, or 0.
IsBefore(s, k, b) ==
  /\ b \in 0..(k - 1) /\ (b # 0 => s[b] = COMMA)
  /\ \A m \in (b + 1)..(k - 1) : s[m] # COMMA

\* What OnlyLastEntryIsLost calls before(k).
LEMMA BeforeIs ==
  ASSUME NEW s \in Seq(Letters), NEW k \in 1..(Len(s) + 1), NEW b, IsBefore(s, k, b)
  PROVE  Max({0} \cup {m \in {n \in 1..Len(s) : s[n] = COMMA} : m < k}) = b
<1> DEFINE S == {0} \cup {m \in {n \in 1..Len(s) : s[n] = COMMA} : m < k}
<1>1. Len(s) \in Nat /\ b \in Nat /\ b < k
  BY DEF IsBefore
<1>2. b \in S
  BY <1>1 DEF IsBefore
<1>3. \A m \in S : m \in Int /\ b >= m
  <2> SUFFICES ASSUME NEW m \in S, m # 0 PROVE m \in Int /\ b >= m
    BY <1>1
  <2>1. m \in 1..(k - 1) /\ s[m] = COMMA
    BY <1>1
  <2>2. ~(m \in (b + 1)..(k - 1))
    BY <2>1 DEF IsBefore
  <2> QED BY <1>1, <2>1, <2>2
<1> HIDE DEF S
<1>4. Max(S) = CHOOSE x \in S : \A y \in S : x >= y
  BY DEF Max
<1>5. \A x \in S : (\A y \in S : x >= y) => x = b
  BY <1>1, <1>2, <1>3
<1>6. Max(S) = b
  BY <1>2, <1>3, <1>4, <1>5
<1> QED BY <1>6 DEF S

\* One more comma is one more word.
LEMMA UptoIs ==
  ASSUME NEW s \in Seq(Letters), NEW n \in 0..Len(s)
  PROVE  /\ IsFiniteSet(Upto(s, n)) /\ Cardinality(Upto(s, n)) \in Nat
         /\ n < Len(s) =>
              Cardinality(Upto(s, n + 1)) =
                Cardinality(Upto(s, n)) + (IF s[n + 1] = COMMA THEN 1 ELSE 0)
         /\ \A k \in Upto(s, n) :
              Cardinality(Upto(s, k)) \in 1..Cardinality(Upto(s, n))
<1>1. Len(s) \in Nat /\ n \in Nat
  OBVIOUS
<1>2. \A m \in Nat : IsFiniteSet(Upto(s, m)) /\ Cardinality(Upto(s, m)) \in Nat
  <2> SUFFICES ASSUME NEW m \in Nat
               PROVE  IsFiniteSet(Upto(s, m)) /\ Cardinality(Upto(s, m)) \in Nat
    OBVIOUS
  <2>1. IsFiniteSet(1..m)
    BY FS_Interval
  <2>2. Upto(s, m) \in SUBSET (1..m)
    BY DEF Upto
  <2>3. IsFiniteSet(Upto(s, m))
    BY <2>1, <2>2, FS_Subset
  <2> QED BY <2>3, FS_CardinalityType
<1>3. ASSUME n < Len(s), s[n + 1] = COMMA
      PROVE  Cardinality(Upto(s, n + 1)) = Cardinality(Upto(s, n)) + 1
  <2>1. Upto(s, n + 1) = Upto(s, n) \cup {n + 1} /\ n + 1 \notin Upto(s, n)
    BY <1>1, <1>3 DEF Upto
  <2> QED BY <1>1, <1>2, <2>1, FS_AddElement
<1>4. ASSUME n < Len(s), s[n + 1] # COMMA PROVE Upto(s, n + 1) = Upto(s, n)
  BY <1>1, <1>4 DEF Upto
<1>5. ASSUME NEW k \in Upto(s, n)
      PROVE  Cardinality(Upto(s, k)) \in 1..Cardinality(Upto(s, n))
  <2>1. k \in Nat /\ k \in Upto(s, k) /\ Upto(s, k) \in SUBSET Upto(s, n)
    BY <1>1 DEF Upto
  <2>2. Cardinality(Upto(s, k)) <= Cardinality(Upto(s, n))
    BY <1>1, <1>2, <2>1, FS_Subset
  <2>3. Cardinality(Upto(s, k)) # 0
    BY <1>2, <2>1, FS_EmptySet
  <2>4. Cardinality(Upto(s, k)) \in Nat /\ Cardinality(Upto(s, n)) \in Nat
    BY <1>1, <1>2, <2>1
  <2> QED BY <2>2, <2>3, <2>4
<1>6. n < Len(s) =>
        Cardinality(Upto(s, n + 1)) = Cardinality(Upto(s, n)) + (IF s[n + 1] = COMMA THEN 1 ELSE 0)
  <2>1. Cardinality(Upto(s, n)) \in Nat
    BY <1>1, <1>2
  <2> QED BY <1>3, <1>4, <2>1
<1> QED BY <1>1, <1>2, <1>5, <1>6

\* The part of a text behind d that ends with the next character.
LEMMA SubSeqGrows ==
  ASSUME NEW q \in Seq(Letters), NEW d \in 0..Len(q), NEW n \in d..(Len(q) - 1)
  PROVE  /\ SubSeq(q, d + 1, n + 1) = Append(SubSeq(q, d + 1, n), q[n + 1])
         /\ SubSeq(q, d + 1, d) = <<>>
<1> DEFINE s == SubSeq(q, d + 1, n)
           t == SubSeq(q, d + 1, n + 1)
<1>1. Len(q) \in Nat /\ d + 1 \in 1..(Len(q) + 1) /\ n \in 0..Len(q) /\ n + 1 \in 1..Len(q)
      /\ d \in Nat
  OBVIOUS
<1>2. /\ s \in Seq(Letters) /\ Len(s) = IF d + 1 <= n THEN n - (d + 1) + 1 ELSE 0
      /\ \A k \in 1..(n - (d + 1) + 1) : s[k] = q[(d + 1) + k - 1]
  BY <1>1, SubSeqProperties
<1>3. /\ t \in Seq(Letters) /\ Len(t) = IF d + 1 <= n + 1 THEN (n + 1) - (d + 1) + 1 ELSE 0
      /\ \A k \in 1..((n + 1) - (d + 1) + 1) : t[k] = q[(d + 1) + k - 1]
  BY <1>1, SubSeqProperties
<1>4. SubSeq(q, d + 1, d) = <<>>
  BY <1>1, SubSeqEmpty
<1> HIDE DEF s, t
<1>5. /\ Len(s) = n - d /\ Len(t) = n + 1 - d
      /\ \A k \in 1..(n - d) : s[k] = q[d + k] /\ t[k] = q[d + k]
      /\ t[n + 1 - d] = q[n + 1]
  BY <1>1, <1>2, <1>3
<1>6. /\ Append(s, q[n + 1]) \in Seq(Letters) /\ Len(Append(s, q[n + 1])) = n + 1 - d
      /\ \A k \in 1..(n - d) : Append(s, q[n + 1])[k] = s[k]
      /\ Append(s, q[n + 1])[n + 1 - d] = q[n + 1]
  <2>1. q[n + 1] \in Letters /\ n - d \in Nat /\ n + 1 - d = (n - d) + 1
    BY <1>1
  <2>2. ASSUME NEW z \in Letters, NEW u \in Seq(Letters)
        PROVE  /\ Append(u, z) \in Seq(Letters) /\ Len(Append(u, z)) = Len(u) + 1
               /\ \A k \in 1..Len(u) : Append(u, z)[k] = u[k]
               /\ Append(u, z)[Len(u) + 1] = z
    OBVIOUS
  <2> DEFINE z == q[n + 1]
             a == Append(s, z)
  <2>3. /\ a \in Seq(Letters) /\ Len(a) = Len(s) + 1
        /\ \A k \in 1..Len(s) : a[k] = s[k]
        /\ a[Len(s) + 1] = z
    <3> HIDE DEF z
    <3> QED BY <1>2, <2>1, <2>2 DEF z
  <2> HIDE DEF a, z
  <2>4. Len(s) = n - d /\ Len(s) + 1 = n + 1 - d
    BY <1>5, <2>1
  <2> QED BY <2>3, <2>4 DEF a, z
<1>7. t = Append(s, q[n + 1])
  <2> DEFINE a == Append(s, q[n + 1])
  <2>1. a \in Seq(Letters) /\ Len(a) = Len(t)
    BY <1>5, <1>6
  <2>2. ASSUME NEW k \in 1..Len(t) PROVE t[k] = a[k]
    <3>1. CASE k = n + 1 - d
      BY <1>5, <1>6, <3>1
    <3>2. CASE k # n + 1 - d
      <4>1. k \in 1..(n - d)
        BY <1>1, <1>5, <3>2
      <4> QED BY <1>5, <1>6, <4>1
    <3> QED BY <3>1, <3>2
  <2> HIDE DEF a
  <2>3. t = a
    BY <1>3, <2>1, <2>2, SeqEqual
  <2> QED BY <2>3 DEF a
<1> QED BY <1>4, <1>7 DEF s, t

\* While load_list() reads: the words so far are what stands between the
\* commas so far, and word_buf is what stands behind the last of them.
ListLoaded ==
  /\ source \in Seq(Letters) /\ i \in 0..Len(source)
  /\ IsSeq(words)
  /\ Len(words) = Cardinality(Upto(source, i))
  /\ \A k \in Upto(source, i) : \E b :
       /\ IsBefore(source, k, b)
       /\ words[Cardinality(Upto(source, k))] = SubSeq(source, b + 1, k - 1)
  /\ \E b : IsBefore(source, i + 1, b) /\ word_buf = SubSeq(source, b + 1, i)
  /\ pc = "ready" => i = Len(source)

ListInv == source_type = "list" => ListLoaded

\* Nothing has been read.
LEMMA InitList == Init => ListInv
<1> SUFFICES ASSUME Init, source_type = "list" PROVE ListLoaded
  BY DEF ListInv
<1>1. source \in Lists /\ i = 0 /\ words = <<>> /\ word_buf = <<>> /\ pc = "loading"
  BY DEF Init
<1>2. source \in Seq(Letters)
  BY <1>1, DictionaryAssumption, Zenon DEF Letters
<1>3. Upto(source, 0) = {}
  BY DEF Upto
<1>4. Cardinality(Upto(source, 0)) = 0
  BY <1>3, FS_EmptySet
<1>5. IsSeq(<<>>) /\ Len(<<>>) = 0
  BY DEF IsSeq
<1>6. IsBefore(source, 0 + 1, 0)
  BY DEF IsBefore
<1>7. SubSeq(source, 0 + 1, 0) = <<>>
  BY SubSeqEmpty
<1>8. \E b : IsBefore(source, 0 + 1, b) /\ <<>> = SubSeq(source, b + 1, 0)
  BY <1>6, <1>7
<1> QED BY <1>1, <1>2, <1>3, <1>4, <1>5, <1>8 DEF ListLoaded

\* A comma ends a word, any other character is part of it.
LEMMA CharList == ListInv /\ ListChar => ListInv'
<1> SUFFICES ASSUME ListLoaded, ListChar PROVE ListLoaded'
  BY DEF ListInv, ListChar, Loading
<1> DEFINE s == source
           n == i + 1
<1>1. /\ source_type = "list" /\ s \in Seq(Letters) /\ i \in 0..Len(s) /\ i < Len(s)
      /\ source' = s /\ source_type' = source_type /\ i' = n /\ pc' # "ready"
  BY DEF ListLoaded, ListChar, Loading, source_vars
<1>2. n \in 1..Len(s) /\ n - 1 = i /\ Len(s) \in Nat /\ i \in Nat
  BY <1>1
<1>3. PICK b : IsBefore(s, n, b) /\ word_buf = SubSeq(s, b + 1, i)
  BY <1>1 DEF ListLoaded
<1>4. b \in 0..i
  BY <1>2, <1>3 DEF IsBefore
<1>5. /\ IsSeq(words) /\ Len(words) = Cardinality(Upto(s, i))
      /\ \A k \in Upto(s, i) : \E d :
           /\ IsBefore(s, k, d)
           /\ words[Cardinality(Upto(s, k))] = SubSeq(s, d + 1, k - 1)
  BY <1>1 DEF ListLoaded
<1>6. /\ Cardinality(Upto(s, i)) \in Nat
      /\ Cardinality(Upto(s, n)) = Cardinality(Upto(s, i)) + (IF s[n] = COMMA THEN 1 ELSE 0)
      /\ \A k \in Upto(s, i) : Cardinality(Upto(s, k)) \in 1..Cardinality(Upto(s, i))
  BY <1>1, UptoIs
<1>7. Upto(s, n) = IF s[n] = COMMA THEN Upto(s, i) \cup {n} ELSE Upto(s, i)
  BY <1>2 DEF Upto
<1>10. ASSUME IsSeq(words'), Len(words') = Cardinality(Upto(s, n)),
              \A k \in Upto(s, n) : \E d :
                 /\ IsBefore(s, k, d)
                 /\ words'[Cardinality(Upto(s, k))] = SubSeq(s, d + 1, k - 1),
              \E d : IsBefore(s, n + 1, d) /\ word_buf' = SubSeq(s, d + 1, n)
       PROVE  ListLoaded'
  <2>1. n \in 0..Len(s)
    BY <1>2
  <2> HIDE DEF n
  <2> QED BY <1>1, <1>10, <2>1 DEF ListLoaded
<1>8. CASE s[n] = COMMA
  <2>1. words' = Append(words, word_buf) /\ word_buf' = <<>>
    BY <1>8 DEF ListChar, ListWordEnds
  <2>2. /\ IsSeq(words') /\ Len(words') = Len(words) + 1
        /\ \A k \in 1..Len(words) : words'[k] = words[k]
        /\ words'[Len(words) + 1] = word_buf
    BY <1>5, <2>1, AppendIsSeq
  <2>3. Len(words') = Cardinality(Upto(s, n))
    BY <1>5, <1>6, <1>8, <2>2
  <2>4. ASSUME NEW k \in Upto(s, n)
        PROVE  \E d : /\ IsBefore(s, k, d)
                      /\ words'[Cardinality(Upto(s, k))] = SubSeq(s, d + 1, k - 1)
    <3>1. CASE k = n
      <4>1. words'[Cardinality(Upto(s, n))] = word_buf
        BY <1>5, <1>6, <1>8, <2>2
      <4> QED BY <1>2, <1>3, <3>1, <4>1
    <3>2. CASE k # n
      <4>1. k \in Upto(s, i)
        BY <1>7, <3>2
      <4>2. Cardinality(Upto(s, k)) \in 1..Len(words)
        BY <1>5, <1>6, <4>1
      <4> QED BY <1>5, <2>2, <4>1, <4>2
    <3> QED BY <3>1, <3>2
  <2>5. IsBefore(s, n + 1, n) /\ SubSeq(s, n + 1, n) = <<>>
    <3>1. IsBefore(s, n + 1, n)
      BY <1>2, <1>8 DEF IsBefore
    <3> QED BY <1>2, <3>1, SubSeqEmpty
  <2> HIDE DEF n
  <2>6. \E d : IsBefore(s, n + 1, d) /\ word_buf' = SubSeq(s, d + 1, n)
    BY <2>1, <2>5
  <2> QED BY <2>2, <2>3, <2>4, <2>6, <1>10
<1>9. CASE s[n] # COMMA
  <2>1. words' = words /\ word_buf' = Append(word_buf, s[n])
    BY <1>9 DEF ListChar, ListWordOpen
  <2>2. Upto(s, n) = Upto(s, i)
    BY <1>7, <1>9
  <2>3. IsBefore(s, n + 1, b)
    BY <1>2, <1>3, <1>4, <1>9 DEF IsBefore
  <2>4. SubSeq(s, b + 1, n) = Append(SubSeq(s, b + 1, i), s[n])
    <3>1. b \in 0..Len(s) /\ i \in b..(Len(s) - 1)
      BY <1>1, <1>2, <1>4
    <3> QED BY <1>1, <3>1, SubSeqGrows
  <2>5. word_buf' = SubSeq(s, b + 1, n)
    BY <1>3, <2>1, <2>4
  <2> HIDE DEF n
  <2>6. \E d : IsBefore(s, n + 1, d) /\ word_buf' = SubSeq(s, d + 1, n)
    BY <2>3, <2>5
  <2>7. Len(words) = Cardinality(Upto(s, n))
    BY <1>5, <2>2
  <2>8. \A k \in Upto(s, n) : \E d :
          /\ IsBefore(s, k, d)
          /\ words[Cardinality(Upto(s, k))] = SubSeq(s, d + 1, k - 1)
    BY <1>5, <2>2
  <2> QED BY <1>5, <2>1, <2>6, <2>7, <2>8, <1>10
<1> QED BY <1>8, <1>9

\* No other step of a list reads or adds a word.
LEMMA NextList == ListInv /\ [Next]_vars => ListInv'
<1> SUFFICES ASSUME ListLoaded, [Next]_vars, source_type = "list" PROVE ListLoaded'
  <2>1. [Next]_vars => source_type' = source_type
    BY SourceStays DEF source_vars
  <2> QED BY <2>1 DEF ListInv
<1>1. CASE ListChar
  BY <1>1, CharList DEF ListInv, ListChar, Loading, source_vars
<1>2. CASE ListEnds
  BY <1>2 DEF ListLoaded, ListEnds, Ready, source_vars
<1>3. CASE MakeDictDies
  BY <1>3 DEF ListLoaded, MakeDictDies, source_vars
<1>4. CASE FileLine \/ FileLineTooLong \/ FileStuck \/ OutOfMemory \/ FileEof
  BY <1>4 DEF FileLine, FileLineTooLong, FileStuck, OutOfMemory, FileEof, Loading
<1>5. CASE TemplatePercent \/ TemplateChar \/ TemplateEnds
  BY <1>5 DEF TemplatePercent, TemplateChar, TemplateEnds, Loading
<1>6. CASE UNCHANGED <<source_vars, load_vars>>
  BY <1>6 DEF ListLoaded, source_vars, load_vars
<1> QED BY <1>1, <1>2, <1>3, <1>4, <1>5, <1>6, DrawingStays DEF Next, MakeDict, vars

\* For any list: a word for each entry that ends at a comma, whole and in order,
\* and none for the last one.
THEOREM ListTheorem == Spec => []OnlyLastEntryIsLost
<1>1. ListInv => OnlyLastEntryIsLost
  <2> SUFFICES ASSUME ListLoaded, pc = "ready", source_type = "list"
               PROVE  OnlyLastEntryIsLost
    BY DEF ListInv, OnlyLastEntryIsLost
  <2> DEFINE s == source
             commas == {k \in 1..Len(s) : s[k] = COMMA}
             before(k) == Max({0} \cup {m \in commas : m < k})
             last == Len(s) + 1
  <2>1. s \in Seq(Letters) /\ i = Len(s) /\ commas = Upto(s, i) /\ Len(s) \in Nat
    BY DEF ListLoaded, Upto
  <2>2. Len(words) = Cardinality(commas)
    BY <2>1 DEF ListLoaded
  <2>3. ASSUME NEW k \in commas
        PROVE  words[Cardinality({m \in commas : m <= k})] = SubSeq(s, before(k) + 1, k - 1)
    <3>1. {m \in commas : m <= k} = Upto(s, k) /\ k \in 1..Len(s) /\ k \in Upto(s, i)
      BY <2>1 DEF Upto
    <3>2. PICK b : /\ IsBefore(s, k, b)
                   /\ words[Cardinality(Upto(s, k))] = SubSeq(s, b + 1, k - 1)
      BY <3>1 DEF ListLoaded
    <3>3. before(k) = b
      BY <2>1, <3>1, <3>2, BeforeIs
    <3> HIDE DEF commas, before
    <3> QED BY <3>1, <3>2, <3>3
  <2>4. word_buf = SubSeq(s, before(last) + 1, last - 1)
    <3>1. PICK b : IsBefore(s, last, b) /\ word_buf = SubSeq(s, b + 1, Len(s))
      BY <2>1 DEF ListLoaded
    <3>2. last \in 1..(Len(s) + 1) /\ last - 1 = Len(s)
      BY <2>1
    <3> HIDE DEF last
    <3>3. before(last) = b
      BY <2>1, <3>1, <3>2, BeforeIs
    <3> HIDE DEF before
    <3> QED BY <3>1, <3>2, <3>3
  <2> QED BY <2>2, <2>3, <2>4 DEF OnlyLastEntryIsLost
<1> QED BY <1>1, InitList, NextList, PTL DEF Spec

-----------------------------------------------------------------------------
(***************************************************************************)
(* Induction over the natural numbers, as a fact about sets of them.       *)
(***************************************************************************)
\* A set of natural numbers has a least one.
LEMMA LeastNat ==
  ASSUME NEW T \in SUBSET Nat, T # {}
  PROVE  \E m \in T : \A n \in T : m <= n
<1> DEFINE R == {ss \in Nat \X Nat : ss[1] < ss[2]}
<1>1. IsWellFoundedOn(R, Nat)
  BY NatLessThanWellFounded DEF OpToRel
<1>2. \A m, n \in Nat : n < m => <<n, m>> \in R
  OBVIOUS
<1>3. PICK m \in T : \A n \in T : ~(<<n, m>> \in R)
  <2> HIDE DEF R
  <2> QED BY <1>1, WFMin, Zenon
<1> HIDE DEF R
<1>4. \A n \in T : ~(n < m)
  BY <1>2, <1>3
<1> QED BY <1>4

\* What 0 is in, and n + 1 with n, is in every one.
LEMMA Upward ==
  ASSUME NEW T, 0 \in T, \A n \in Nat : n \in T => n + 1 \in T
  PROVE  Nat \subseteq T
<1> SUFFICES ASSUME Nat \ T # {} PROVE FALSE
  OBVIOUS
<1>1. PICK m \in Nat \ T : \A n \in Nat \ T : m <= n
  BY LeastNat
<1>2. m # 0 /\ m - 1 \in Nat
  BY <1>1
<1>3. m - 1 \in T
  BY <1>1, <1>2
<1> QED BY <1>1, <1>2, <1>3

-----------------------------------------------------------------------------
(***************************************************************************)
(* The words of a file.                                                    *)
(***************************************************************************)
\* A line.
Line == Seq(STRING)

LEMMA LineLen == \A text \in Line : Len(text) \in Nat
  BY DEF Line

\* What the recursion of Bytes defines.
IsBytes(f, lines, n) ==
  /\ f \in [0..n -> Nat] /\ f[0] = 0
  /\ \A k \in 1..n : f[k] = f[k - 1] + Len(lines[k]) + 1

\* It reaches every line.
LEMMA BytesExist ==
  ASSUME NEW lines \in Seq(Line), NEW n \in 0..Len(lines)
  PROVE  \E f : IsBytes(f, lines, n)
<1> DEFINE T == {k \in Nat : k <= Len(lines) => \E f : IsBytes(f, lines, k)}
<1>1. 0 \in T
  <2>1. IsBytes([k \in 0..0 |-> 0], lines, 0)
    BY DEF IsBytes
  <2> QED BY <2>1
<1>2. ASSUME NEW k \in Nat, k \in T PROVE k + 1 \in T
  <2> SUFFICES ASSUME k + 1 <= Len(lines) PROVE \E f : IsBytes(f, lines, k + 1)
    OBVIOUS
  <2>1. PICK f : IsBytes(f, lines, k)
    BY <1>2
  <2> DEFINE e == f[k] + Len(lines[k + 1]) + 1
             g == [m \in 0..(k + 1) |-> IF m = k + 1 THEN e ELSE f[m]]
  <2>2. e \in Nat
    <3>1. lines[k + 1] \in Line /\ f[k] \in Nat
      BY <2>1 DEF IsBytes
    <3> QED BY <3>1, LineLen
  <2>3. g \in [0..(k + 1) -> Nat] /\ g[0] = 0
    <3> HIDE DEF e
    <3>1. \A m \in 0..(k + 1) : m # k + 1 => m \in 0..k
      OBVIOUS
    <3> QED BY <2>1, <2>2, <3>1 DEF IsBytes
  <2>4. ASSUME NEW m \in 1..(k + 1) PROVE g[m] = g[m - 1] + Len(lines[m]) + 1
    <3>1. CASE m = k + 1
      <4>1. g[m] = e /\ g[m - 1] = f[k]
        <5> HIDE DEF e
        <5> QED BY <3>1
      <4> HIDE DEF g
      <4> QED BY <3>1, <4>1
    <3>2. CASE m # k + 1
      <4>1. m \in 1..k /\ m - 1 \in 0..k
        BY <3>2
      <4>2. g[m] = f[m] /\ g[m - 1] = f[m - 1]
        <5> HIDE DEF e
        <5> QED BY <3>2, <4>1
      <4> HIDE DEF g
      <4> QED BY <2>1, <4>1, <4>2 DEF IsBytes
    <3> QED BY <3>1, <3>2
  <2> HIDE DEF g
  <2>5. IsBytes(g, lines, k + 1)
    BY <2>3, <2>4 DEF IsBytes
  <2> QED BY <2>5
<1> HIDE DEF T
<1>3. n \in T
  BY <1>1, <1>2, Upward
<1> QED BY <1>3 DEF T

\* A file with lines has bytes.
LEMMA BytesAre ==
  ASSUME NEW lines \in Seq(Line)
  PROVE  \A k \in 0..Len(lines) : /\ Bytes(lines)[k] \in Nat
                                  /\ k > 0 => Bytes(lines)[k] > 0
<1> DEFINE Def(f) == [k \in 0..Len(lines) |->
                        IF k = 0 THEN 0 ELSE f[k - 1] + Len(lines[k]) + 1]
<1>1. Bytes(lines) = CHOOSE f : f = Def(f)
  BY DEF Bytes
<1>2. Len(lines) \in 0..Len(lines) /\ Len(lines) \in Nat
  OBVIOUS
<1>3. PICK g : IsBytes(g, lines, Len(lines))
  BY <1>2, BytesExist
<1>4. g = Def(g)
  <2>1. g = [k \in 0..Len(lines) |-> g[k]]
    BY <1>3 DEF IsBytes
  <2>2. ASSUME NEW k \in 0..Len(lines) PROVE g[k] = Def(g)[k]
    <3>1. CASE k = 0
      BY <1>3, <3>1 DEF IsBytes
    <3>2. CASE k # 0
      <4>1. k \in 1..Len(lines)
        BY <3>2
      <4> QED BY <1>3, <3>2, <4>1 DEF IsBytes
    <3> QED BY <3>1, <3>2
  <2> QED BY <2>1, <2>2
<1> DEFINE b == Bytes(lines)
<1>5. b = Def(b)
  <2> HIDE DEF Def
  <2> QED BY <1>1, <1>4
<1> HIDE DEF b
<1>6. b[0] = 0
  BY <1>2, <1>5
<1>7. ASSUME NEW k \in 1..Len(lines) PROVE b[k] = b[k - 1] + Len(lines[k]) + 1
  <2>1. k \in 0..Len(lines) /\ k # 0
    OBVIOUS
  <2>2. Def(b)[k] = b[k - 1] + Len(lines[k]) + 1
    BY <2>1
  <2> QED BY <1>5, <2>2
<1> HIDE DEF Def
<1> DEFINE T == {k \in Nat : k <= Len(lines) => b[k] \in Nat /\ (k > 0 => b[k] > 0)}
<1>8. 0 \in T
  BY <1>6
<1>9. ASSUME NEW k \in Nat, k \in T PROVE k + 1 \in T
  <2> SUFFICES ASSUME k + 1 <= Len(lines) PROVE b[k + 1] \in Nat /\ b[k + 1] > 0
    OBVIOUS
  <2>1. k + 1 \in 1..Len(lines) /\ (k + 1) - 1 = k /\ b[k] \in Nat
    BY <1>2, <1>9
  <2>2. lines[k + 1] \in Line
    BY <2>1
  <2>3. Len(lines[k + 1]) \in Nat
    BY <2>2, LineLen
  <2>4. b[k + 1] = b[k] + Len(lines[k + 1]) + 1
    BY <1>7, <2>1
  <2> QED BY <2>1, <2>3, <2>4
<1>10. \A k \in Nat : k \in T
  <2> HIDE DEF T
  <2> QED BY <1>8, <1>9, Upward
<1>11. \A k \in 0..Len(lines) : b[k] \in Nat /\ (k > 0 => b[k] > 0)
  BY <1>2, <1>10
<1> QED BY <1>11 DEF b

\* There is one way to divide k by n.
LEMMA OneQuotient ==
  ASSUME NEW k \in Nat, NEW n \in Nat, n > 0,
         NEW q \in Nat, NEW r \in 0..(n - 1), k = n * q + r
  PROVE  q = k \div n
BY SMTT(30)

\* The next line is the next word, or there is no next word yet.
LEMMA EveryNth ==
  ASSUME NEW k \in Nat, NEW n \in Nat, n > 0
  PROVE  /\ 0 \div n = 0 /\ k \div n \in Nat
         /\ (k + 1) % n = 0 => /\ (k + 1) \div n = (k \div n) + 1
                               /\ ((k \div n) + 1) * n = k + 1
         /\ (k + 1) % n # 0 => (k + 1) \div n = k \div n
<1>1. k % n \in 0..(n - 1) /\ 0 \div n = 0
  BY SMTT(30)
<1>2. k \div n \in Nat /\ k = n * (k \div n) + (k % n)
  BY SMTT(30)
<1> DEFINE k1 == k + 1
<1>3. \A q \in Nat : \A r \in 0..(n - 1) : k1 = n * q + r => r = k1 % n /\ q = k1 \div n
  <2>1. k1 \in Nat
    OBVIOUS
  <2> HIDE DEF k1
  <2> QED BY <2>1, OneRemainder, OneQuotient
<1> DEFINE q == k \div n
           r == k % n
<1>4. q \in Nat /\ r \in 0..(n - 1) /\ k = n * q + r
  BY <1>1, <1>2
<1> HIDE DEF q, r
<1>5. CASE r + 1 = n
  <2>1. k + 1 = n * (q + 1) + 0 /\ 0 \in 0..(n - 1) /\ (q + 1) * n = k + 1 /\ q + 1 \in Nat
    BY <1>4, <1>5
  <2>2. (k + 1) % n = 0 /\ (k + 1) \div n = q + 1
    BY <1>3, <2>1
  <2> QED BY <1>1, <1>4, <2>1, <2>2 DEF q
<1>6. CASE r + 1 # n
  <2>1. k + 1 = n * q + (r + 1) /\ r + 1 \in 0..(n - 1) /\ r + 1 # 0
    BY <1>4, <1>6
  <2>2. (k + 1) % n = r + 1 /\ (k + 1) \div n = q
    BY <1>3, <1>4, <2>1
  <2> QED BY <1>1, <1>4, <2>1, <2>2 DEF q
<1> QED BY <1>5, <1>6

\* How many lines have their newline.
Whole == IF ended \/ source = <<>> THEN Len(source) ELSE Len(source) - 1

\* While load_file() reads, and the stream is not stuck: of the i lines read,
\* every step-th has given a word.
FileLoaded ==
  /\ source \in Seq(Line) /\ (source = <<>> => ~ended) /\ equiv \in Nat
  /\ i \in Nat /\ IsSeq(words)
  /\ fail => pc # "ready"
  /\ ~fail => /\ i <= Whole
              /\ Len(words) = i \div step
              /\ \A k \in 1..Len(words) : words[k] = Cut(source[k * step])
  /\ pc = "ready" => i = Whole

FileInv == source_type = "file" => FileLoaded

\* load_file() never divides by 0, and never skips all lines.
LEMMA StepIs == ASSUME source \in Seq(Line), equiv \in Nat PROVE step \in Nat /\ step > 0
<1>1. Len(source) \in 0..Len(source) /\ Len(source) \in Nat /\ (source # <<>> => Len(source) > 0)
  OBVIOUS
<1>2. /\ Bytes(source)[Len(source)] \in Nat
      /\ source # <<>> => Bytes(source)[Len(source)] > 0
  BY <1>1, BytesAre
<1>3. Size \in Nat
  BY <1>2 DEF Size
<1>4. \A m \in Nat, n \in Nat : n # 0 => m \div n \in Nat
  BY SMTT(30)
<1>5. equiv # 0 => Size \div equiv \in Nat
  BY <1>3, <1>4
<1> QED BY <1>5 DEF step

\* Nothing has been read.
LEMMA InitFile == Init => FileInv
<1> SUFFICES ASSUME Init, source_type = "file" PROVE FileLoaded
  BY DEF FileInv
<1>1. /\ source \in Files /\ equiv \in Equivs /\ i = 0 /\ words = <<>> /\ pc = "loading"
      /\ fail = FALSE /\ (source = <<>> => ~ended)
  BY DEF Init
<1>2. source \in Seq(Line) /\ equiv \in Nat
  BY <1>1, DictionaryAssumption, Zenon DEF Line
<1>3. step \in Nat /\ step > 0
  BY <1>2, StepIs
<1>4. 0 \div step = 0
  BY <1>3, EveryNth
<1>5. IsSeq(<<>>) /\ Len(<<>>) = 0
  BY DEF IsSeq
<1>6. 0 <= Whole
  BY <1>2 DEF Whole
<1> QED BY <1>1, <1>2, <1>4, <1>5, <1>6 DEF FileLoaded

\* What make_dict() is given, and what follows from it, does not change.
LEMMA FileStays == [Next]_vars => UNCHANGED <<source, source_type, ended, equiv, step, Whole>>
  BY SourceStays DEF source_vars, step, Size, Whole

\* One getline() that finds a newline.
LEMMA LineFile ==
  ASSUME FileLoaded, FileLine, [Next]_vars
  PROVE  FileLoaded'
<1> DEFINE n == i + 1
           s == step
<1>1. /\ source \in Seq(Line) /\ equiv \in Nat /\ i \in Nat /\ IsSeq(words)
      /\ source = <<>> => ~ended
  BY DEF FileLoaded
<1>2. ~fail /\ i < Len(source) /\ HasNewline(n) /\ i' = n /\ pc' = pc /\ fail' = fail
      /\ pc = "loading"
  BY DEF FileLine, Loading
<1>3. /\ i <= Whole /\ Len(words) = i \div s
      /\ \A k \in 1..Len(words) : words[k] = Cut(source[k * s])
  BY <1>2 DEF FileLoaded
<1>4. s \in Nat /\ s > 0
  BY <1>1, StepIs
<1>5. UNCHANGED <<source, ended, equiv, step, Whole>>
  BY FileStays
<1>6. n <= Whole
  BY <1>1, <1>2 DEF HasNewline, Whole
<1>7. ASSUME IsSeq(words'), Len(words') = n \div s,
             \A k \in 1..Len(words') : words'[k] = Cut(source[k * s])
      PROVE  FileLoaded'
  <2>1. n \in Nat
    BY <1>1
  <2> HIDE DEF n
  <2>2. /\ source' \in Seq(Line) /\ (source' = <<>> => ~ended') /\ equiv' \in Nat
        /\ i' \in Nat /\ IsSeq(words') /\ pc' # "ready"
    BY <1>1, <1>2, <1>5, <1>7, <2>1
  <2>3. i' <= Whole' /\ Len(words') = i' \div step'
    BY <1>2, <1>5, <1>6, <1>7
  <2>4. \A k \in 1..Len(words') : words'[k] = Cut(source'[k * step'])
    BY <1>5, <1>7
  <2> QED BY <2>2, <2>3, <2>4 DEF FileLoaded
<1>8. CASE Chosen(n)
  <2>1. words' = Append(words, Cut(source[n])) /\ n % s = 0
    BY <1>8 DEF FileLine, Insert, Chosen
  <2>2. n \div s = (i \div s) + 1 /\ ((i \div s) + 1) * s = n
    <3> HIDE DEF s
    <3> QED BY <1>1, <1>4, <2>1, EveryNth
  <2>3. /\ IsSeq(words') /\ Len(words') = Len(words) + 1 /\ Len(words) \in Nat
        /\ \A k \in 1..Len(words) : words'[k] = words[k]
        /\ words'[Len(words) + 1] = Cut(source[n])
    BY <1>1, <2>1, AppendIsSeq
  <2>4. Len(words') = n \div s
    BY <1>3, <2>2, <2>3
  <2>5. ASSUME NEW k \in 1..Len(words') PROVE words'[k] = Cut(source[k * s])
    <3>1. CASE k = Len(words) + 1
      <4>1. k * s = n
        BY <1>3, <2>2, <3>1
      <4> HIDE DEF n, s
      <4> QED BY <2>3, <3>1, <4>1
    <3>2. CASE k # Len(words) + 1
      <4>1. k \in 1..Len(words)
        BY <2>3, <3>2
      <4> QED BY <1>3, <2>3, <4>1
    <3> QED BY <3>1, <3>2
  <2> QED BY <1>7, <2>3, <2>4, <2>5
<1>9. CASE ~Chosen(n)
  <2>1. words' = words /\ n % s # 0
    BY <1>9 DEF FileLine, Insert, Chosen
  <2>2. n \div s = i \div s
    <3> HIDE DEF s
    <3> QED BY <1>1, <1>4, <2>1, EveryNth
  <2> QED BY <1>1, <1>3, <1>7, <2>1, <2>2
<1> QED BY <1>8, <1>9

\* Every step of a file.
LEMMA NextFile == FileInv /\ [Next]_vars => FileInv'
<1> SUFFICES ASSUME FileLoaded, [Next]_vars, source_type = "file" PROVE FileLoaded'
  <2>1. [Next]_vars => source_type' = source_type
    BY SourceStays DEF source_vars
  <2> QED BY <2>1 DEF FileInv
<1>0. UNCHANGED <<source, ended, equiv, step, Whole>>
  BY FileStays
<1>1. CASE FileLine
  BY <1>1, LineFile
<1>2. CASE FileLineTooLong \/ FileStuck
  <2>1. fail' /\ pc' = "loading" /\ i' = i + 1
    BY <1>2 DEF FileLineTooLong, FileStuck, Loading
  <2>2. PICK text : Insert(i + 1, text)
    BY <1>2 DEF FileLineTooLong, FileStuck
  <2>3. IsSeq(words')
    BY <2>2, AppendIsSeq DEF FileLoaded, Insert
  <2>4. /\ source' \in Seq(Line) /\ (source' = <<>> => ~ended') /\ equiv' \in Nat /\ i' \in Nat
    BY <1>0, <2>1 DEF FileLoaded
  <2> QED BY <2>1, <2>3, <2>4 DEF FileLoaded
<1>3. CASE FileEof
  <2>1. /\ ~fail /\ fail' = fail /\ i' = i /\ words' = words
        /\ \/ i = Len(source)
           \/ i = Len(source) - 1 /\ ~ended
    BY <1>3 DEF FileEof, Ready
  <2>2. i <= Whole /\ Len(source) \in Nat /\ i \in Nat
    BY <2>1 DEF FileLoaded
  <2>3. i = Whole
    BY <2>1, <2>2 DEF Whole
  <2> QED BY <1>0, <2>1, <2>3 DEF FileLoaded
<1>4. CASE MakeDictDies \/ OutOfMemory
  <2>1. UNCHANGED <<i, fail, words>> /\ pc' # "ready"
    BY <1>4 DEF MakeDictDies, OutOfMemory
  <2> QED BY <1>0, <2>1 DEF FileLoaded
<1>5. CASE ListChar \/ ListEnds
  BY <1>5 DEF ListChar, ListEnds, Loading
<1>6. CASE TemplatePercent \/ TemplateChar \/ TemplateEnds
  BY <1>6 DEF TemplatePercent, TemplateChar, TemplateEnds, Loading
<1>7. CASE UNCHANGED <<source_vars, load_vars>>
  <2>1. UNCHANGED <<i, fail, words, pc>>
    BY <1>7 DEF load_vars
  <2> QED BY <1>0, <2>1 DEF FileLoaded
<1> QED BY <1>1, <1>2, <1>3, <1>4, <1>5, <1>6, <1>7, DrawingStays DEF Next, MakeDict, vars

\* For any file that load_file() comes to the end of, and whatever is given
\* for file_size_equiv: the first field of every step-th line with a newline.
THEOREM FileTheorem == Spec => []FileGivesItsWords
<1>1. FileInv => FileGivesItsWords
  <2> SUFFICES ASSUME FileLoaded, pc = "ready" PROVE FileGivesItsWords
    BY DEF FileInv, FileGivesItsWords
  <2>1. i = Whole /\ ~fail
    BY DEF FileLoaded
  <2>2. /\ Len(words) = Whole \div step
        /\ \A k \in 1..Len(words) : words[k] = Cut(source[k * step])
    BY <2>1 DEF FileLoaded
  <2> QED BY <2>2 DEF FileGivesItsWords, Whole
<1> QED BY <1>1, InitFile, NextFile, PTL DEF Spec
=============================================================================
