------------------------- MODULE ParsedQuery_proofs -------------------------
(***************************************************************************)
(* No query and no word make safe_parsed_query() write outside its         *)
(* buffers, and a regular query is expanded as the MANUAL says, whatever    *)
(* the sizes of the buffers.                                               *)
(***************************************************************************)
EXTENDS ParsedQuery, WellFoundedInduction, SequenceTheorems, TLAPS

\* What the bounds need of the types.
Sizes ==
  /\ i \in Nat /\ offset \in Nat /\ max_query \in Nat /\ Len(query) \in Nat
  /\ max_query = 0 => query = <<>>
  /\ var_buf \in Seq(NameChars)

\* A word that passes the test leaves room for one more character and the 0.
LEMMA FitsLeavesRoom ==
  ASSUME NEW w \in Words, offset \in Nat, max_query \in Nat, Fits(w)
  PROVE  offset + Escaped(w) \in Nat /\ offset + Escaped(w) <= max_query - 3
<1>1. w[1] \in Nat /\ w[2] \in Nat  BY ParsedQueryAssumption
<1>2. Escaped(w) \in Nat /\ Escaped(w) <= 2 * WordLen(w)
  BY <1>1 DEF Escaped, WordLen
<1>3. 2 * WordLen(w) + offset + 2 < max_query /\ WordLen(w) \in Nat
  BY <1>1 DEF Fits, WordLen
<1>4. QED  BY <1>2, <1>3, ParsedQueryAssumption

\* Both buffers are empty at first.
LEMMA InitInBounds == Init => Sizes /\ InBounds
<1> SUFFICES ASSUME Init PROVE Sizes /\ InBounds
  OBVIOUS
<1>1. PICK n \in 0..MaxLen : query \in [1..n -> Chars]
  <2>1. query \in UNION {[1..n -> Chars] : n \in 0..MaxLen}  BY DEF Init
  <2>2. PICK texts \in {[1..n -> Chars] : n \in 0..MaxLen} : query \in texts  BY <2>1
  <2>3. QED  BY <2>2
<1>2. query \in Seq(Chars) /\ Len(query) \in Nat /\ (Len(query) = 0 => query = <<>>)
  BY <1>1, ParsedQueryAssumption
<1>3. max_query = MaxQuery \/ max_query = 2 * Len(query)  BY DEF Init, BufferSizes
<1>4. max_query \in Nat /\ (max_query = 0 => query = <<>>)
  BY <1>2, <1>3, ParsedQueryAssumption
<1>5. i = 0 /\ offset = 0 /\ var_buf = <<>>  BY DEF Init
<1>6. QED  BY <1>2, <1>4, <1>5, ParsedQueryAssumption DEF Sizes, InBounds

\* No character of a text takes the pass outside either buffer.
LEMMA NextInBounds ==
  ASSUME Sizes, InBounds, [Next]_vars
  PROVE  Sizes' /\ InBounds'
<1> USE ParsedQueryAssumption DEF Sizes, InBounds
<1>1. CASE UNCHANGED vars
  BY <1>1 DEF vars
<1>2. CASE Backslash \/ EndVarUnknown \/ Send
  BY <1>2 DEF Backslash, EndVarUnknown, Send, ReadChar
<1>3. CASE StartVar
  BY <1>3 DEF StartVar, ReadChar
<1>4. CASE CopyChar
  BY <1>4 DEF CopyChar, ReadChar
<1>5. CASE NameChar
  <2>1. CASE Len(var_buf) < MaxVarBuf - 1
    <3>1. /\ c \in NameChars /\ var_buf' = Append(var_buf, c) /\ offset' = offset
          /\ query' = query /\ max_query' = max_query /\ i' = i + 1
      BY <1>5, <2>1 DEF NameChar, ReadChar
    <3>2. Len(var_buf') = Len(var_buf) + 1 /\ var_buf' \in Seq(NameChars)
      BY <3>1
    <3>3. QED  BY <2>1, <3>1, <3>2
  <2>2. CASE ~(Len(var_buf) < MaxVarBuf - 1)
    BY <1>5, <2>2 DEF NameChar, ReadChar
  <2>3. QED  BY <2>1, <2>2
<1>6. CASE EndVar
  <2>1. /\ var_buf' = <<>> /\ i' = i + 1
        /\ query' = query /\ max_query' = max_query
    BY <1>6 DEF EndVar, ReadChar
  <2>2. PICK w \in Words :
          LET room == offset + (IF Fits(w) THEN Escaped(w) ELSE 0)
          IN  offset' = IF room < max_query - 1 THEN room + 1 ELSE room
    BY <1>6 DEF EndVar
  <2>0. query # <<>>  BY <1>6 DEF EndVar, ReadChar
  <2>3. CASE Fits(w)
    <3>1. offset + Escaped(w) \in Nat /\ offset + Escaped(w) <= max_query - 3
      BY <2>3, FitsLeavesRoom
    <3>2. QED  BY <2>1, <2>2, <2>3, <3>1
  <2>4. CASE ~Fits(w)
    BY <2>1, <2>2, <2>4
  <2>5. QED  BY <2>3, <2>4
<1>7. QED  BY <1>1, <1>2, <1>3, <1>4, <1>5, <1>6 DEF Next

\* The tests before each store in safe_parsed_query() are enough, for every
\* query, dictionary and pair of buffer sizes above 0.
THEOREM NeverOverflows == Spec => []InBounds
<1>1. (Sizes /\ InBounds) /\ [Next]_vars => (Sizes /\ InBounds)'  BY NextInBounds
<1>2. QED  BY <1>1, InitInBounds, PTL DEF Spec

-----------------------------------------------------------------------------
(***************************************************************************)
(* Induction over the natural numbers, as a fact about sets of them.       *)
(***************************************************************************)
\* A set of natural numbers has a least one.
LEMMA LeastNat ==
  ASSUME NEW T \in SUBSET Nat, T # {}
  PROVE  \E m \in T : \A n \in T : m <= n
<1> DEFINE R == {ss \in Nat \X Nat : ss[1] < ss[2]}
<1>1. IsWellFoundedOn(R, Nat)
  BY NatLessThanWellFounded DEF OpToRel
<1>2. \A m, n \in Nat : n < m => <<n, m>> \in R
  OBVIOUS
<1>3. PICK m \in T : \A n \in T : ~(<<n, m>> \in R)
  <2> HIDE DEF R
  <2> QED BY <1>1, WFMin, Zenon
<1> HIDE DEF R
<1>4. \A n \in T : ~(n < m)
  BY <1>2, <1>3
<1> QED BY <1>4

\* What 0 is in, and n + 1 with n, is in every one.
LEMMA Upward ==
  ASSUME NEW T, 0 \in T, \A n \in Nat : n \in T => n + 1 \in T
  PROVE  Nat \subseteq T
<1> SUFFICES ASSUME Nat \ T # {} PROVE FALSE
  OBVIOUS
<1>1. PICK m \in Nat \ T : \A n \in Nat \ T : m <= n
  BY LeastNat
<1>2. m # 0 /\ m - 1 \in Nat
  BY <1>1
<1>3. m - 1 \in T
  BY <1>1, <1>2
<1> QED BY <1>1, <1>2, <1>3

-----------------------------------------------------------------------------
(***************************************************************************)
(* The expansion of a text.                                                *)
(***************************************************************************)
Pieces == ({"char"} \X Chars) \cup ({"word"} \X Seq(Chars))

\* The longest run of name characters behind a "$" has an end.
LEMMA NameIs ==
  ASSUME NEW q \in Seq(Chars), NEW p \in 1..Len(q)
  PROVE  /\ NameAfter(q, p) \in 0..(Len(q) - p)
         /\ \A k \in 1..NameAfter(q, p) : q[p + k] \in NameChars
         /\ p + NameAfter(q, p) < Len(q) => q[p + NameAfter(q, p) + 1] \notin NameChars
<1> DEFINE T == {n \in 0..(Len(q) - p) : p + n < Len(q) => q[p + n + 1] \notin NameChars}
<1>0. Len(q) \in Nat /\ Len(q) - p \in Nat
  OBVIOUS
<1>1. T \in SUBSET Nat /\ Len(q) - p \in T
  BY <1>0
<1>2. PICK n \in T : \A m \in T : n <= m
  BY <1>1, LeastNat
<1>3. ASSUME NEW k \in 1..n PROVE q[p + k] \in NameChars
  <2>1. k - 1 \in 0..(Len(q) - p) /\ ~(n <= k - 1) /\ p + (k - 1) < Len(q)
        /\ p + (k - 1) + 1 = p + k
    BY <1>0, <1>2
  <2>2. k - 1 \notin T
    BY <1>2, <2>1
  <2> QED BY <2>1, <2>2
<1>4. \E m \in 0..(Len(q) - p) :
        /\ \A k \in 1..m : q[p + k] \in NameChars
        /\ p + m < Len(q) => q[p + m + 1] \notin NameChars
  BY <1>2, <1>3
<1> QED BY <1>4 DEF NameAfter

\* It is at least as long as any run, and ends where another character comes.
LEMMA NameReaches ==
  ASSUME NEW q \in Seq(Chars), NEW p \in 1..Len(q), NEW n \in p..Len(q),
         \A k \in (p + 1)..n : q[k] \in NameChars
  PROVE  /\ n - p <= NameAfter(q, p)
         /\ n < Len(q) /\ q[n + 1] \notin NameChars => NameAfter(q, p) = n - p
         /\ n < Len(q) /\ q[n + 1] \in NameChars => n + 1 - p <= NameAfter(q, p)
<1> DEFINE m == NameAfter(q, p)
<1>1. /\ m \in 0..(Len(q) - p) /\ \A k \in 1..m : q[p + k] \in NameChars
      /\ p + m < Len(q) => q[p + m + 1] \notin NameChars
  BY NameIs
<1>2. Len(q) \in Nat
  OBVIOUS
<1> HIDE DEF m
<1>3. n - p <= m
  <2> SUFFICES ASSUME m < n - p PROVE FALSE
    BY <1>1, <1>2
  <2>1. p + m + 1 \in (p + 1)..n /\ p + m < Len(q)
    BY <1>1, <1>2
  <2> QED BY <1>1, <2>1
<1>4. ASSUME n < Len(q), q[n + 1] \notin NameChars PROVE m = n - p
  <2> SUFFICES ASSUME n - p < m PROVE FALSE
    BY <1>1, <1>2, <1>3
  <2>1. n + 1 - p \in 1..m /\ p + (n + 1 - p) = n + 1
    BY <1>1, <1>2
  <2> QED BY <1>1, <1>4, <2>1
<1>5. ASSUME n < Len(q), q[n + 1] \in NameChars PROVE n + 1 - p <= m
  <2> SUFFICES ASSUME m = n - p PROVE FALSE
    BY <1>1, <1>2, <1>3
  <2>1. p + m + 1 = n + 1 /\ p + m < Len(q)
    BY <1>1, <1>2, <1>5
  <2> QED BY <1>1, <1>5, <2>1
<1> QED BY <1>3, <1>4, <1>5 DEF m

\* A piece is a character, or the name of a dictionary.
LEMMA PieceIs ==
  ASSUME NEW q \in Seq(Chars), NEW p \in 1..Len(q)
  PROVE  PieceAt(q, p) \in Pieces
<1>1. CASE q[p] = "$"
  <2> DEFINE m == NameAfter(q, p)
  <2>1. m \in 0..(Len(q) - p) /\ Len(q) \in Nat
    BY NameIs
  <2>2. p + 1 \in 1..(Len(q) + 1) /\ p + m \in 0..Len(q)
    BY <2>1
  <2> HIDE DEF m
  <2>3. SubSeq(q, p + 1, p + m) \in Seq(Chars)
    BY <2>2, SubSeqProperties
  <2> QED BY <1>1, <2>3 DEF PieceAt, Pieces, m
<1>2. CASE q[p] # "$"
  BY <1>2 DEF PieceAt, Pieces
<1> QED BY <1>1, <1>2

\* What the recursion defines.
IsExpansion(f, q, n) ==
  /\ f \in [0..n -> Seq(Pieces)] /\ f[0] = <<>>
  /\ \A p \in 1..n :
       f[p] = IF InName(q, p) THEN f[p - 1] ELSE Append(f[p - 1], PieceAt(q, p))

\* The recursion reaches every prefix of a text.
LEMMA ExpansionExists ==
  ASSUME NEW q \in Seq(Chars), NEW n \in 0..Len(q)
  PROVE  \E f : IsExpansion(f, q, n)
<1> DEFINE T == {k \in Nat : k <= Len(q) => \E f : IsExpansion(f, q, k)}
<1>1. 0 \in T
  <2>1. IsExpansion([p \in 0..0 |-> <<>>], q, 0)
    BY DEF IsExpansion
  <2> QED BY <2>1
<1>2. ASSUME NEW k \in Nat, k \in T PROVE k + 1 \in T
  <2> SUFFICES ASSUME k + 1 <= Len(q) PROVE \E f : IsExpansion(f, q, k + 1)
    OBVIOUS
  <2>1. PICK f : IsExpansion(f, q, k)
    BY <1>2
  <2> DEFINE e == IF InName(q, k + 1) THEN f[k] ELSE Append(f[k], PieceAt(q, k + 1))
             g == [p \in 0..(k + 1) |-> IF p = k + 1 THEN e ELSE f[p]]
  <2>2. e \in Seq(Pieces)
    <3>1. PieceAt(q, k + 1) \in Pieces
      BY PieceIs
    <3>2. f[k] \in Seq(Pieces)
      BY <2>1 DEF IsExpansion
    <3> QED BY <3>1, <3>2
  <2>3. g \in [0..(k + 1) -> Seq(Pieces)] /\ g[0] = <<>>
    <3> HIDE DEF e
    <3>1. \A p \in 0..(k + 1) : p # k + 1 => p \in 0..k
      OBVIOUS
    <3> QED BY <2>1, <2>2, <3>1 DEF IsExpansion
  <2>4. ASSUME NEW p \in 1..(k + 1)
        PROVE  g[p] = IF InName(q, p) THEN g[p - 1] ELSE Append(g[p - 1], PieceAt(q, p))
    <3>1. CASE p = k + 1
      <4>1. g[p] = e /\ g[p - 1] = f[k]
        <5> HIDE DEF e
        <5> QED BY <3>1
      <4> QED BY <3>1, <4>1
    <3>2. CASE p # k + 1
      <4>1. p \in 1..k /\ p - 1 \in 0..k
        BY <3>2
      <4>2. g[p] = f[p] /\ g[p - 1] = f[p - 1]
        <5> HIDE DEF e
        <5> QED BY <3>2, <4>1
      <4> HIDE DEF g
      <4> QED BY <2>1, <4>1, <4>2 DEF IsExpansion
    <3> QED BY <3>1, <3>2
  <2> HIDE DEF g
  <2>5. IsExpansion(g, q, k + 1)
    BY <2>3, <2>4 DEF IsExpansion
  <2> QED BY <2>5
<1> HIDE DEF T
<1>3. n \in T
  BY <1>1, <1>2, Upward
<1> QED BY <1>3 DEF T

\* The expansion of a text grows with each character that is not in a name.
LEMMA ExpansionIs ==
  ASSUME NEW q \in Seq(Chars)
  PROVE  IsExpansion(Expansion(q), q, Len(q))
<1> DEFINE Def(f) == [p \in 0..Len(q) |->
                        IF p = 0 THEN <<>>
                        ELSE IF InName(q, p) THEN f[p - 1]
                             ELSE Append(f[p - 1], PieceAt(q, p))]
<1>1. Expansion(q) = CHOOSE f : f = Def(f)
  BY DEF Expansion
<1>2. Len(q) \in 0..Len(q)
  OBVIOUS
<1>3. PICK g : IsExpansion(g, q, Len(q))
  BY <1>2, ExpansionExists
<1>4. g = Def(g)
  <2>1. g = [p \in 0..Len(q) |-> g[p]]
    BY <1>3 DEF IsExpansion
  <2>2. ASSUME NEW p \in 0..Len(q) PROVE g[p] = Def(g)[p]
    <3>1. CASE p = 0
      BY <1>3, <3>1 DEF IsExpansion
    <3>2. CASE p # 0
      <4>1. p \in 1..Len(q)
        BY <3>2
      <4> QED BY <1>3, <3>2, <4>1 DEF IsExpansion
    <3> QED BY <3>1, <3>2
  <2> QED BY <2>1, <2>2
<1> DEFINE e == Expansion(q)
<1>5. e = Def(e)
  <2> HIDE DEF Def
  <2> QED BY <1>1, <1>4
<1> HIDE DEF e
<1>6. e[0] = <<>> /\ Len(q) \in Nat
  BY <1>5
<1>7. ASSUME NEW p \in 1..Len(q)
      PROVE  e[p] = IF InName(q, p) THEN e[p - 1] ELSE Append(e[p - 1], PieceAt(q, p))
  <2>1. p \in 0..Len(q) /\ p # 0
    OBVIOUS
  <2>2. Def(e)[p] = IF InName(q, p) THEN e[p - 1] ELSE Append(e[p - 1], PieceAt(q, p))
    BY <2>1
  <2> QED BY <1>5, <2>2
<1> DEFINE T == {k \in Nat : k <= Len(q) => e[k] = g[k]}
<1>8. 0 \in T
  BY <1>3, <1>6 DEF IsExpansion
<1>9. ASSUME NEW k \in Nat, k \in T PROVE k + 1 \in T
  <2> SUFFICES ASSUME k + 1 <= Len(q) PROVE e[k + 1] = g[k + 1]
    OBVIOUS
  <2>1. k + 1 \in 1..Len(q) /\ (k + 1) - 1 = k
    BY <1>6
  <2>2. e[k] = g[k]
    BY <1>6, <1>9
  <2> QED BY <1>3, <1>7, <2>1, <2>2 DEF IsExpansion
<1>10. \A k \in Nat : k \in T
  <2> HIDE DEF T
  <2> QED BY <1>8, <1>9, Upward
<1>11. \A p \in 0..Len(q) : e[p] = g[p]
  BY <1>6, <1>10
<1>12. e = g
  <2>1. e = [p \in 0..Len(q) |-> e[p]]
    BY <1>5
  <2>2. g = [p \in 0..Len(q) |-> g[p]]
    BY <1>3 DEF IsExpansion
  <2> HIDE DEF Def
  <2> QED BY <1>11, <2>1, <2>2
<1> QED BY <1>3, <1>12 DEF e

-----------------------------------------------------------------------------
(***************************************************************************)
(* Parts of an expansion.                                                  *)
(***************************************************************************)
\* A part of a text is one of a longer text.
LEMMA PartSkips ==
  ASSUME NEW s \in Seq(Pieces), NEW e \in Seq(Pieces), NEW x \in Pieces, IsPartOf(s, e)
  PROVE  IsPartOf(s, Append(e, x))
<1>1. PICK at \in [1..Len(s) -> 1..Len(e)] :
        /\ \A j, k \in 1..Len(s) : j < k => at[j] < at[k]
        /\ \A k \in 1..Len(s) : s[k] = e[at[k]]
  BY DEF IsPartOf
<1>2. Len(Append(e, x)) = Len(e) + 1 /\ \A k \in 1..Len(e) : Append(e, x)[k] = e[k]
  OBVIOUS
<1>3. at \in [1..Len(s) -> 1..Len(Append(e, x))]
  BY <1>2
<1>4. \A k \in 1..Len(s) : s[k] = Append(e, x)[at[k]]
  BY <1>1, <1>2
<1> QED BY <1>1, <1>3, <1>4 DEF IsPartOf

\* Both may get the same piece.
LEMMA PartTakes ==
  ASSUME NEW s \in Seq(Pieces), NEW e \in Seq(Pieces), NEW x \in Pieces, IsPartOf(s, e)
  PROVE  IsPartOf(Append(s, x), Append(e, x))
<1>1. PICK at \in [1..Len(s) -> 1..Len(e)] :
        /\ \A j, k \in 1..Len(s) : j < k => at[j] < at[k]
        /\ \A k \in 1..Len(s) : s[k] = e[at[k]]
  BY DEF IsPartOf
<1> DEFINE m == Len(s)
           n == Len(e)
           s1 == Append(s, x)
           e1 == Append(e, x)
           at1 == [k \in 1..(m + 1) |-> IF k = m + 1 THEN n + 1 ELSE at[k]]
<1>2. /\ Len(e1) = n + 1 /\ e1[n + 1] = x /\ \A k \in 1..n : e1[k] = e[k]
      /\ Len(s1) = m + 1 /\ s1[m + 1] = x /\ \A k \in 1..m : s1[k] = s[k]
      /\ m \in Nat /\ n \in Nat
  OBVIOUS
<1> HIDE DEF s1, e1, m, n
<1>3. \A k \in 1..(m + 1) : k # m + 1 => k \in 1..m
  BY <1>2
<1>4. at1 \in [1..(m + 1) -> 1..(n + 1)]
  <2>1. ASSUME NEW k \in 1..m PROVE at[k] \in 1..(n + 1)
    <3>1. at[k] \in 1..n
      BY <1>1 DEF m, n
    <3> QED BY <1>2, <3>1
  <2> QED BY <1>2, <1>3, <2>1
<1>5. at1[m + 1] = n + 1 /\ \A k \in 1..m : at1[k] = at[k] /\ at[k] \in 1..n
  <2>1. \A k \in 1..m : at[k] \in 1..n
    BY <1>1 DEF m, n
  <2>2. m + 1 \in 1..(m + 1) /\ \A k \in 1..m : k \in 1..(m + 1) /\ k # m + 1
    BY <1>2
  <2> QED BY <2>1, <2>2
<1> HIDE DEF at1
<1>6. ASSUME NEW j \in 1..(m + 1), NEW k \in 1..(m + 1), j < k PROVE at1[j] < at1[k]
  <2>1. j \in 1..m
    BY <1>2, <1>6
  <2>2. CASE k = m + 1
    BY <1>2, <1>5, <2>1, <2>2
  <2>3. CASE k # m + 1
    BY <1>1, <1>3, <1>5, <1>6, <2>1, <2>3 DEF m
  <2> QED BY <2>2, <2>3
<1>7. ASSUME NEW k \in 1..(m + 1) PROVE s1[k] = e1[at1[k]]
  <2>1. CASE k = m + 1
    BY <1>2, <1>5, <2>1
  <2>2. CASE k # m + 1
    <3>1. k \in 1..m
      BY <1>3, <2>2
    <3>2. s1[k] = s[k] /\ at1[k] = at[k] /\ e1[at[k]] = e[at[k]]
      BY <1>2, <1>5, <3>1
    <3> QED BY <1>1, <3>1, <3>2 DEF m
  <2> QED BY <2>1, <2>2
<1>8. at1 \in [1..Len(s1) -> 1..Len(e1)]
  BY <1>2, <1>4
<1>9. IsPartOf(s1, e1)
  BY <1>2, <1>6, <1>7, <1>8 DEF IsPartOf
<1> QED BY <1>9 DEF s1, e1

\* One may lack its last piece.
LEMMA PartDrops ==
  ASSUME NEW s \in Seq(Pieces), NEW e \in Seq(Pieces), NEW x \in Pieces,
         IsPartOf(Append(s, x), e)
  PROVE  IsPartOf(s, e)
<1> DEFINE m == Len(s)
           s1 == Append(s, x)
<1>1. Len(s1) = m + 1 /\ m \in Nat /\ \A k \in 1..m : s1[k] = s[k]
  OBVIOUS
<1> HIDE DEF s1, m
<1>2. PICK at \in [1..(m + 1) -> 1..Len(e)] :
        /\ \A j, k \in 1..(m + 1) : j < k => at[j] < at[k]
        /\ \A k \in 1..(m + 1) : s1[k] = e[at[k]]
  BY <1>1 DEF IsPartOf, s1
<1> DEFINE at1 == [k \in 1..m |-> at[k]]
<1>3. \A k \in 1..m : k \in 1..(m + 1) /\ at1[k] = at[k] /\ at[k] \in 1..Len(e)
  BY <1>1, <1>2
<1>4. at1 \in [1..m -> 1..Len(e)]
  BY <1>3
<1> HIDE DEF at1
<1>5. \A j, k \in 1..m : j < k => at1[j] < at1[k]
  BY <1>2, <1>3
<1>6. \A k \in 1..m : s[k] = e[at1[k]]
  BY <1>1, <1>2, <1>3
<1> QED BY <1>4, <1>5, <1>6 DEF IsPartOf, m

-----------------------------------------------------------------------------
(***************************************************************************)
(* The pass.                                                               *)
(***************************************************************************)
\* No name reaches beyond the first n characters.
Closed(q, n) == \A d \in 1..n : q[d] = "$" => d + NameAfter(q, d) <= n

\* The name at d does, and v is what there is of it so far.
Open(q, n, v, d) ==
  /\ q[d] = "$" /\ Closed(q, d - 1)
  /\ \A k \in (d + 1)..n : q[k] \in NameChars
  /\ v = SubSeq(q, d + 1, n)

\* The pieces s are those of e, but for what did not fit.
Holds(s, e, lost) == IsPartOf(s, e) /\ (~lost => s = e)

\* Of a regular text the pieces written are those of what has been read; the
\* word of a name that is open would be the next.
ScanInv ==
  /\ query \in Seq(Chars) /\ i \in 0..Len(query)
  /\ parsed \in Seq(Pieces) /\ var_buf \in Seq(NameChars)
  /\ in_var \in {0, 1} /\ dropped \in BOOLEAN
  /\ result = "sent" => i = Len(query)
  /\ result # "died" /\ Regular(query) =>
       /\ escaped = 0
       /\ in_var = 0 => Closed(query, i) /\ Holds(parsed, Expansion(query)[i], dropped)
       /\ in_var = 1 =>
            \E d \in 1..i :
              /\ Open(query, i, var_buf, d)
              /\ Holds(Append(parsed, PieceAt(query, d)), Expansion(query)[i], dropped)

\* Nothing is read, and nothing written.
LEMMA InitScan == Init => ScanInv
<1> SUFFICES ASSUME Init PROVE ScanInv
  OBVIOUS
<1>1. PICK n \in 0..MaxLen : query \in [1..n -> Chars]
  <2>1. query \in UNION {[1..n -> Chars] : n \in 0..MaxLen}  BY DEF Init
  <2>2. PICK texts \in {[1..n -> Chars] : n \in 0..MaxLen} : query \in texts  BY <2>1
  <2>3. QED  BY <2>2
<1>2. query \in Seq(Chars) /\ Len(query) \in Nat /\ 0 \in 0..Len(query)
  BY <1>1, ParsedQueryAssumption
<1>3. Expansion(query)[0] = <<>>
  BY <1>2, ExpansionIs DEF IsExpansion
<1>4. IsPartOf(<<>>, <<>>)
  <2>1. Len(<<>>) = 0 /\ 1..0 = {}
    OBVIOUS
  <2>2. [k \in 1..0 |-> 0] \in [1..0 -> 1..0]
    BY <2>1
  <2> QED BY <2>1, <2>2 DEF IsPartOf
<1>5. Closed(query, 0)
  BY DEF Closed
<1>6. /\ i = 0 /\ in_var = 0 /\ escaped = 0 /\ var_buf = <<>> /\ parsed = <<>>
      /\ dropped = FALSE /\ result = "scanning"
  BY DEF Init
<1>7. Holds(parsed, Expansion(query)[i], dropped)
  BY <1>3, <1>4, <1>6 DEF Holds
<1>8. parsed \in Seq(Pieces) /\ var_buf \in Seq(NameChars)
  BY <1>6
<1>9. /\ Closed(query, i) /\ i \in 0..Len(query) /\ in_var \in {0, 1} /\ in_var # 1
      /\ dropped \in BOOLEAN /\ result # "sent" /\ escaped = 0
  <2>1. in_var \in {0, 1} /\ in_var # 1 /\ result # "sent" /\ escaped = 0
    BY <1>6
  <2>2. dropped \in BOOLEAN
    BY <1>6, Zenon
  <2>3. Closed(query, i) /\ i \in 0..Len(query)
    BY <1>2, <1>5, <1>6, Zenon
  <2> QED BY <2>1, <2>2, <2>3
<1> QED BY <1>2, <1>7, <1>8, <1>9 DEF ScanInv

\* What a character that is in no name adds to the expansion.
LEMMA ExpansionGrows ==
  ASSUME NEW q \in Seq(Chars), NEW n \in 0..(Len(q) - 1)
  PROVE  /\ Expansion(q)[n] \in Seq(Pieces) /\ Expansion(q)[n + 1] \in Seq(Pieces)
         /\ InName(q, n + 1) => Expansion(q)[n + 1] = Expansion(q)[n]
         /\ ~InName(q, n + 1) =>
              Expansion(q)[n + 1] = Append(Expansion(q)[n], PieceAt(q, n + 1))
<1>1. n + 1 \in 1..Len(q) /\ n \in 0..Len(q) /\ n + 1 \in 0..Len(q) /\ (n + 1) - 1 = n
  OBVIOUS
<1>2. IsExpansion(Expansion(q), q, Len(q))
  BY ExpansionIs
<1> QED BY <1>1, <1>2 DEF IsExpansion

\* Behind names that are closed a "$" opens one, and anything else is copied.
LEMMA ClosedMeans ==
  ASSUME NEW q \in Seq(Chars), NEW n \in 0..(Len(q) - 1), Closed(q, n)
  PROVE  /\ ~InName(q, n + 1)
         /\ q[n + 1] # "$" => Closed(q, n + 1) /\ PieceAt(q, n + 1) = <<"char", q[n + 1]>>
<1>1. \A d \in 1..n : NameAfter(q, d) \in Nat
  <2>1. \A d \in 1..n : d \in 1..Len(q)
    OBVIOUS
  <2> QED BY <2>1, NameIs
<1>2. ~InName(q, n + 1)
  <2> SUFFICES ASSUME NEW d \in 1..((n + 1) - 1), q[d] = "$", n + 1 <= d + NameAfter(q, d)
               PROVE  FALSE
    BY DEF InName
  <2>1. d \in 1..n /\ d + NameAfter(q, d) <= n
    BY DEF Closed
  <2> QED BY <1>1, <2>1
<1>3. ASSUME q[n + 1] # "$" PROVE Closed(q, n + 1)
  <2> SUFFICES ASSUME NEW d \in 1..(n + 1), q[d] = "$" PROVE d + NameAfter(q, d) <= n + 1
    BY DEF Closed
  <2>1. d \in 1..n
    BY <1>3
  <2>2. d + NameAfter(q, d) <= n
    BY <2>1 DEF Closed
  <2> QED BY <1>1, <2>1, <2>2
<1> QED BY <1>2, <1>3 DEF PieceAt

\* The part of a text that ends with the next character.
LEMMA SubSeqGrows ==
  ASSUME NEW q \in Seq(Chars), NEW d \in 1..Len(q), NEW n \in d..(Len(q) - 1)
  PROVE  /\ SubSeq(q, d + 1, n + 1) = Append(SubSeq(q, d + 1, n), q[n + 1])
         /\ SubSeq(q, d + 1, n) \in Seq(Chars)
         /\ Len(SubSeq(q, d + 1, n)) = n - d
         /\ SubSeq(q, d + 1, d) = <<>>
<1> DEFINE s == SubSeq(q, d + 1, n)
           t == SubSeq(q, d + 1, n + 1)
<1>1. Len(q) \in Nat /\ d + 1 \in 1..(Len(q) + 1) /\ n \in 0..Len(q) /\ n + 1 \in 0..Len(q)
  OBVIOUS
<1>2. /\ s \in Seq(Chars) /\ Len(s) = IF d + 1 <= n THEN n - (d + 1) + 1 ELSE 0
      /\ \A k \in 1..(n - (d + 1) + 1) : s[k] = q[(d + 1) + k - 1]
  BY <1>1, SubSeqProperties
<1>3. /\ t \in Seq(Chars) /\ Len(t) = IF d + 1 <= n + 1 THEN (n + 1) - (d + 1) + 1 ELSE 0
      /\ \A k \in 1..((n + 1) - (d + 1) + 1) : t[k] = q[(d + 1) + k - 1]
  BY <1>1, SubSeqProperties
<1>4. SubSeq(q, d + 1, d) = <<>>
  OBVIOUS
<1> HIDE DEF s, t
<1>5. /\ Len(s) = n - d /\ Len(t) = n + 1 - d
      /\ \A k \in 1..(n - d) : s[k] = q[d + k] /\ t[k] = q[d + k]
      /\ t[n + 1 - d] = q[n + 1]
  BY <1>1, <1>2, <1>3
<1>6. /\ Append(s, q[n + 1]) \in Seq(Chars) /\ Len(Append(s, q[n + 1])) = n + 1 - d
      /\ \A k \in 1..(n - d) : Append(s, q[n + 1])[k] = s[k]
      /\ Append(s, q[n + 1])[n + 1 - d] = q[n + 1]
  <2>1. q[n + 1] \in Chars /\ n - d \in Nat /\ n + 1 - d = (n - d) + 1
    BY <1>1
  <2>2. ASSUME NEW z \in Chars, NEW u \in Seq(Chars)
        PROVE  /\ Append(u, z) \in Seq(Chars) /\ Len(Append(u, z)) = Len(u) + 1
               /\ \A k \in 1..Len(u) : Append(u, z)[k] = u[k]
               /\ Append(u, z)[Len(u) + 1] = z
    OBVIOUS
  <2> DEFINE z == q[n + 1]
             a == Append(s, z)
  <2>3. /\ a \in Seq(Chars) /\ Len(a) = Len(s) + 1
        /\ \A k \in 1..Len(s) : a[k] = s[k]
        /\ a[Len(s) + 1] = z
    <3> HIDE DEF z
    <3> QED BY <1>2, <2>1, <2>2 DEF z
  <2> HIDE DEF a, z
  <2>4. Len(s) = n - d /\ Len(s) + 1 = n + 1 - d
    BY <1>5, <2>1
  <2>5. /\ a \in Seq(Chars) /\ Len(a) = n + 1 - d
        /\ \A k \in 1..(n - d) : a[k] = s[k]
        /\ a[n + 1 - d] = z
    BY <2>3, <2>4
  <2> QED BY <2>5 DEF a, z
<1>7. t = Append(s, q[n + 1])
  <2> DEFINE a == Append(s, q[n + 1])
  <2>1. a \in Seq(Chars) /\ Len(a) = Len(t)
    BY <1>5, <1>6
  <2>2. ASSUME NEW k \in 1..Len(t) PROVE t[k] = a[k]
    <3>1. CASE k = n + 1 - d
      BY <1>5, <1>6, <3>1
    <3>2. CASE k # n + 1 - d
      <4>1. k \in 1..(n - d)
        BY <1>1, <1>5, <3>2
      <4> QED BY <1>5, <1>6, <4>1
    <3> QED BY <3>1, <3>2
  <2> HIDE DEF a
  <2>3. t = a
    BY <1>3, <2>1, <2>2, SeqEqual
  <2> QED BY <2>3 DEF a
<1> QED BY <1>2, <1>4, <1>5, <1>7 DEF s, t

\* A character in no name is written, or lost.
LEMMA CopyScan == ASSUME ScanInv, CopyChar PROVE ScanInv'
<1> DEFINE e == Expansion(query)
           x == <<"char", c>>
<1>1. /\ result = "scanning" /\ i < Len(query) /\ i' = i + 1 /\ in_var = 0
      /\ UNCHANGED <<query, in_var, escaped, var_buf, result>>
      /\ \/ parsed' = Append(parsed, x) /\ dropped' = dropped
         \/ parsed' = parsed /\ dropped' = TRUE
  BY DEF CopyChar, ReadChar
<1>2. /\ query \in Seq(Chars) /\ i \in 0..(Len(query) - 1) /\ i' \in 0..Len(query)
      /\ parsed \in Seq(Pieces) /\ c \in Chars /\ x \in Pieces /\ Append(parsed, x) \in Seq(Pieces)
  <2>1. query \in Seq(Chars) /\ i \in 0..(Len(query) - 1) /\ i' \in 0..Len(query)
        /\ parsed \in Seq(Pieces)
    BY <1>1 DEF ScanInv
  <2>2. c \in Chars
    BY <2>1 DEF c
  <2>3. x \in Pieces
    BY <2>2 DEF Pieces
  <2> QED BY <2>1, <2>2, <2>3
<1>3. parsed' \in Seq(Pieces) /\ dropped' \in BOOLEAN
  BY <1>1, <1>2 DEF ScanInv
<1>4. ASSUME Regular(query)
      PROVE  escaped = 0 /\ Closed(query, i + 1) /\ Holds(parsed', e[i + 1], dropped')
  <2>1. escaped = 0 /\ Closed(query, i) /\ Holds(parsed, e[i], dropped)
    BY <1>1, <1>4 DEF ScanInv
  <2>2. c # "$" /\ c = query[i + 1]
    BY <2>1 DEF CopyChar, c
  <2>3. Closed(query, i + 1) /\ PieceAt(query, i + 1) = x /\ ~InName(query, i + 1)
    BY <1>2, <2>1, <2>2, ClosedMeans
  <2>4. e[i] \in Seq(Pieces) /\ e[i + 1] = Append(e[i], x)
    BY <1>2, <2>3, ExpansionGrows
  <2> HIDE DEF e, x
  <2>5. IsPartOf(parsed, e[i + 1]) /\ IsPartOf(Append(parsed, x), e[i + 1])
    BY <1>2, <2>1, <2>4, PartSkips, PartTakes DEF Holds
  <2> QED BY <1>1, <2>1, <2>3, <2>4, <2>5 DEF Holds
<1>5. Expansion(query') = e
  BY <1>1
<1> HIDE DEF e, x
<1>6. ASSUME Regular(query')
      PROVE  escaped' = 0 /\ Closed(query', i') /\ Holds(parsed', Expansion(query')[i'], dropped')
  BY <1>1, <1>4, <1>5, <1>6
<1>7. var_buf' \in Seq(NameChars) /\ in_var' = 0 /\ result' # "sent" /\ query' \in Seq(Chars)
      /\ i' \in 0..Len(query')
  BY <1>1, <1>2 DEF ScanInv
<1> QED BY <1>3, <1>6, <1>7 DEF ScanInv

\* A "$" opens a name.
LEMMA StartScan == ASSUME ScanInv, StartVar PROVE ScanInv'
<1> DEFINE e == Expansion(query)
           x == PieceAt(query, i + 1)
<1>1. /\ result = "scanning" /\ i < Len(query) /\ i' = i + 1 /\ in_var = 0 /\ in_var' = 1
      /\ c = "$" /\ var_buf' = <<>>
      /\ UNCHANGED <<query, escaped, parsed, dropped, result>>
  BY DEF StartVar, ReadChar
<1>2. /\ query \in Seq(Chars) /\ i \in 0..(Len(query) - 1) /\ i' \in 0..Len(query)
      /\ parsed \in Seq(Pieces) /\ i + 1 \in 1..Len(query) /\ x \in Pieces
  <2>1. query \in Seq(Chars) /\ i \in 0..(Len(query) - 1) /\ i' \in 0..Len(query)
        /\ parsed \in Seq(Pieces) /\ i + 1 \in 1..Len(query)
    BY <1>1 DEF ScanInv
  <2>2. x \in Pieces
    BY <2>1, PieceIs
  <2> QED BY <2>1, <2>2
<1>3. ASSUME Regular(query)
      PROVE  /\ escaped = 0 /\ Open(query, i + 1, <<>>, i + 1)
             /\ Holds(Append(parsed, x), e[i + 1], dropped)
  <2>1. escaped = 0 /\ Closed(query, i) /\ Holds(parsed, e[i], dropped)
    BY <1>1, <1>3 DEF ScanInv
  <2>2. e[i] \in Seq(Pieces) /\ e[i + 1] = Append(e[i], x)
    BY <1>2, <2>1, ClosedMeans, ExpansionGrows
  <2>3. Open(query, i + 1, <<>>, i + 1)
    <3>1. query[i + 1] = "$" /\ (i + 1) - 1 = i /\ ((i + 1) + 1)..(i + 1) = {}
      BY <1>1, <1>2 DEF c
    <3>2. SubSeq(query, (i + 1) + 1, i + 1) = <<>>
      <4>1. (i + 1) + 1 \in Int /\ i + 1 \in Int /\ (i + 1) + 1 > i + 1
        BY <1>2
      <4> QED BY <1>2, <4>1, SubSeqEmpty
    <3> QED BY <2>1, <3>1, <3>2 DEF Open
  <2> HIDE DEF e, x
  <2>4. IsPartOf(Append(parsed, x), e[i + 1])
    BY <1>2, <2>1, <2>2, PartTakes DEF Holds
  <2> QED BY <2>1, <2>2, <2>3, <2>4 DEF Holds
<1> HIDE DEF e
<1>4. Expansion(query') = e /\ PieceAt(query', i + 1) = x
  BY <1>1 DEF e
<1> HIDE DEF x
<1>5. ASSUME Regular(query')
      PROVE  /\ escaped' = 0
             /\ \E d \in 1..i' :
                  /\ Open(query', i', var_buf', d)
                  /\ Holds(Append(parsed', PieceAt(query', d)), Expansion(query')[i'], dropped')
  <2>1. i + 1 \in 1..i'
    BY <1>1, <1>2
  <2> QED BY <1>1, <1>3, <1>4, <1>5, <2>1
<1>6. /\ var_buf' \in Seq(NameChars) /\ in_var' = 1 /\ result' # "sent" /\ query' \in Seq(Chars)
      /\ i' \in 0..Len(query') /\ parsed' \in Seq(Pieces) /\ dropped' \in BOOLEAN
  BY <1>1, <1>2 DEF ScanInv
<1> QED BY <1>5, <1>6 DEF ScanInv

\* The name that is open goes on.
LEMMA NameScan == ASSUME ScanInv, NameChar PROVE ScanInv'
<1> DEFINE e == Expansion(query)
<1>1. /\ result = "scanning" /\ i < Len(query) /\ i' = i + 1 /\ in_var = 1
      /\ c \in NameChars /\ c = query[i + 1]
      /\ var_buf' = IF Len(var_buf) < MaxVarBuf - 1 THEN Append(var_buf, c) ELSE var_buf
      /\ UNCHANGED <<query, in_var, escaped, parsed, dropped, result>>
  BY DEF NameChar, ReadChar, c
<1>2. /\ query \in Seq(Chars) /\ i \in 0..(Len(query) - 1) /\ i' \in 0..Len(query)
      /\ parsed \in Seq(Pieces) /\ Len(query) \in Nat
  BY <1>1 DEF ScanInv
<1>3. var_buf' \in Seq(NameChars)
  BY <1>1 DEF ScanInv
<1>4. ASSUME Regular(query)
      PROVE  /\ escaped = 0
             /\ \E d \in 1..(i + 1) :
                  /\ Open(query, i + 1, var_buf', d)
                  /\ Holds(Append(parsed, PieceAt(query, d)), e[i + 1], dropped)
  <2>1. escaped = 0
    BY <1>1, <1>4 DEF ScanInv
  <2>2. PICK d \in 1..i :
          /\ Open(query, i, var_buf, d)
          /\ Holds(Append(parsed, PieceAt(query, d)), e[i], dropped)
    BY <1>1, <1>4 DEF ScanInv
  <2>3. d \in 1..Len(query) /\ d \in 1..(i + 1) /\ i \in d..Len(query)
        /\ i \in d..(Len(query) - 1) /\ d < i + 1
    BY <1>2
  <2>4. /\ query[d] = "$" /\ Closed(query, d - 1)
        /\ \A k \in (d + 1)..i : query[k] \in NameChars
        /\ var_buf = SubSeq(query, d + 1, i)
    BY <2>2 DEF Open
  <2>5. i + 1 - d <= NameAfter(query, d) /\ NameAfter(query, d) \in Nat
    <3>1. i + 1 - d <= NameAfter(query, d)
      BY <1>1, <1>2, <2>3, <2>4, NameReaches
    <3>2. NameAfter(query, d) \in 0..(Len(query) - d)
      BY <1>2, <2>3, NameIs
    <3> QED BY <3>1, <3>2
  <2>6. NameAfter(query, d) < MaxVarBuf
    BY <1>4, <2>3, <2>4 DEF Regular
  <2>7. /\ Len(var_buf) = i - d
        /\ SubSeq(query, d + 1, i + 1) = Append(SubSeq(query, d + 1, i), query[i + 1])
    BY <1>2, <2>3, <2>4, SubSeqGrows
  <2>8. var_buf' = SubSeq(query, d + 1, i + 1)
    <3>1. Len(var_buf) < MaxVarBuf - 1
      BY <1>2, <2>3, <2>5, <2>6, <2>7, ParsedQueryAssumption
    <3> QED BY <1>1, <2>4, <2>7, <3>1
  <2>9. Open(query, i + 1, var_buf', d)
    <3>1. \A k \in (d + 1)..(i + 1) : k \in (d + 1)..i \/ k = i + 1
      BY <1>2
    <3>2. \A k \in (d + 1)..(i + 1) : query[k] \in NameChars
      BY <1>1, <2>4, <3>1
    <3> QED BY <2>4, <2>8, <3>2 DEF Open
  <2>10. InName(query, i + 1)
    <3>1. d \in 1..((i + 1) - 1) /\ i + 1 <= d + NameAfter(query, d)
      BY <1>2, <2>3, <2>5
    <3> QED BY <2>4, <3>1 DEF InName
  <2>11. e[i + 1] = e[i]
    BY <1>2, <2>10, ExpansionGrows
  <2> QED BY <2>1, <2>2, <2>3, <2>9, <2>11
<1> HIDE DEF e
<1>5. Expansion(query') = e /\ \A d : PieceAt(query', d) = PieceAt(query, d)
  BY <1>1 DEF e
<1>6. ASSUME Regular(query')
      PROVE  /\ escaped' = 0
             /\ \E d \in 1..i' :
                  /\ Open(query', i', var_buf', d)
                  /\ Holds(Append(parsed', PieceAt(query', d)), Expansion(query')[i'], dropped')
  BY <1>1, <1>4, <1>5, <1>6
<1>7. /\ in_var' = 1 /\ result' # "sent" /\ query' \in Seq(Chars)
      /\ i' \in 0..Len(query') /\ parsed' \in Seq(Pieces) /\ dropped' \in BOOLEAN
  BY <1>1, <1>2 DEF ScanInv
<1> QED BY <1>3, <1>6, <1>7 DEF ScanInv

\* A name ends: its word and the character after it are written, or lost.
LEMMA EndScan == ASSUME Sizes, ScanInv, EndVar PROVE ScanInv'
<1> DEFINE e == Expansion(query)
           x == <<"char", c>>
           v == <<"word", var_buf>>
<1>1. /\ result = "scanning" /\ i < Len(query) /\ i' = i + 1 /\ in_var = 1
      /\ c \notin NameChars /\ c = query[i + 1] /\ in_var' = 0 /\ var_buf' = <<>>
      /\ UNCHANGED <<query, escaped, result>>
  BY DEF EndVar, ReadChar, c
<1>2. /\ \/ parsed' = Append(Append(parsed, v), x) \/ parsed' = Append(parsed, v)
         \/ parsed' = Append(parsed, x) \/ parsed' = parsed
      /\ ~dropped' => ~dropped /\ parsed' = Append(Append(parsed, v), x)
      /\ dropped' \in BOOLEAN
  <2>1. PICK w \in Words :
          LET room == offset + (IF Fits(w) THEN Escaped(w) ELSE 0)
              with == IF Fits(w) THEN Append(parsed, v) ELSE parsed
          IN  /\ parsed' = IF room < max_query - 1 THEN Append(with, x) ELSE with
              /\ dropped' = (dropped \/ ~Fits(w) \/ room >= max_query - 1)
    BY DEF EndVar
  <2> DEFINE r == offset + (IF Fits(w) THEN Escaped(w) ELSE 0)
             t == IF Fits(w) THEN Append(parsed, v) ELSE parsed
  <2>2. /\ parsed' = IF r < max_query - 1 THEN Append(t, x) ELSE t
        /\ dropped' = (dropped \/ ~Fits(w) \/ r >= max_query - 1)
    BY <2>1
  <2>3. r \in Nat /\ max_query \in Nat
    BY FitsLeavesRoom DEF Sizes
  <2>4. t = Append(parsed, v) \/ t = parsed
    OBVIOUS
  <2>5. ASSUME ~dropped' PROVE ~dropped /\ t = Append(parsed, v) /\ r < max_query - 1
    <3>1. ~dropped /\ Fits(w) /\ ~(r >= max_query - 1)
      BY <2>2, <2>5
    <3>2. r < max_query - 1
      BY <2>3, <3>1
    <3> QED BY <3>1, <3>2
  <2>6. dropped' \in BOOLEAN
    BY <2>2
  <2> HIDE DEF r, t
  <2> QED BY <2>2, <2>4, <2>5, <2>6
<1>3. /\ query \in Seq(Chars) /\ i \in 0..(Len(query) - 1) /\ i' \in 0..Len(query)
      /\ parsed \in Seq(Pieces) /\ Len(query) \in Nat
      /\ x \in Pieces /\ v \in Pieces
  <2>1. query \in Seq(Chars) /\ i \in 0..(Len(query) - 1) /\ i' \in 0..Len(query)
        /\ parsed \in Seq(Pieces) /\ var_buf \in Seq(NameChars) /\ Len(query) \in Nat
    BY <1>1 DEF ScanInv
  <2>2. c \in Chars
    BY <2>1 DEF c
  <2>3. NameChars \subseteq Chars
    BY DEF Chars
  <2>4. var_buf \in Seq(Chars)
    BY <2>1, <2>3, SeqMonotonic
  <2> QED BY <2>1, <2>2, <2>4 DEF Pieces
<1>4. /\ Append(parsed, v) \in Seq(Pieces) /\ Append(parsed, x) \in Seq(Pieces)
      /\ Append(Append(parsed, v), x) \in Seq(Pieces)
  BY <1>3
<1>5. ASSUME Regular(query)
      PROVE  escaped = 0 /\ Closed(query, i + 1) /\ Holds(parsed', e[i + 1], dropped')
  <2>1. escaped = 0
    BY <1>1, <1>5 DEF ScanInv
  <2>2. PICK d \in 1..i :
          /\ Open(query, i, var_buf, d)
          /\ Holds(Append(parsed, PieceAt(query, d)), e[i], dropped)
    BY <1>1, <1>5 DEF ScanInv
  <2>3. d \in 1..Len(query) /\ i \in d..Len(query) /\ d < i + 1
    BY <1>3
  <2>4. /\ query[d] = "$" /\ Closed(query, d - 1)
        /\ \A k \in (d + 1)..i : query[k] \in NameChars
        /\ var_buf = SubSeq(query, d + 1, i)
    BY <2>2 DEF Open
  <2>5. NameAfter(query, d) = i - d
    BY <1>1, <1>3, <2>3, <2>4, NameReaches
  <2>6. d + NameAfter(query, d) = i /\ d + NameAfter(query, d) + 1 = i + 1
    BY <1>3, <2>3, <2>5
  <2>7. PieceAt(query, d) = v
    BY <2>4, <2>6 DEF PieceAt
  <2>8. c # "$"
    BY <1>1, <1>5, <2>3, <2>4, <2>6 DEF Regular
  <2>9. Closed(query, i)
    <3> SUFFICES ASSUME NEW b \in 1..i, query[b] = "$" PROVE b + NameAfter(query, b) <= i
      BY DEF Closed
    <3>1. CASE b \in 1..(d - 1)
      <4>1. b + NameAfter(query, b) <= d - 1 /\ b \in 1..Len(query)
        BY <1>3, <2>4, <3>1 DEF Closed
      <4>2. NameAfter(query, b) \in 0..(Len(query) - b)
        BY <1>3, <4>1, NameIs
      <4> QED BY <1>3, <4>1, <4>2
    <3>2. CASE b = d
      BY <1>3, <2>6, <3>2
    <3>3. CASE b \in (d + 1)..i
      BY <2>4, <3>3, ParsedQueryAssumption
    <3> QED BY <1>3, <3>1, <3>2, <3>3
  <2>10. Closed(query, i + 1) /\ PieceAt(query, i + 1) = x /\ ~InName(query, i + 1)
    BY <1>1, <1>3, <2>8, <2>9, ClosedMeans
  <2>11. e[i] \in Seq(Pieces) /\ e[i + 1] = Append(e[i], x)
    BY <1>3, <2>10, ExpansionGrows
  <2>12. IsPartOf(Append(parsed, v), e[i]) /\ (~dropped => Append(parsed, v) = e[i])
    BY <2>2, <2>7 DEF Holds
  <2> HIDE DEF e, x, v
  <2>13. IsPartOf(parsed, e[i])
    BY <1>3, <2>11, <2>12, PartDrops
  <2>14. /\ IsPartOf(Append(parsed, v), e[i + 1]) /\ IsPartOf(parsed, e[i + 1])
         /\ IsPartOf(Append(Append(parsed, v), x), e[i + 1])
         /\ IsPartOf(Append(parsed, x), e[i + 1])
    BY <1>3, <1>4, <2>11, <2>12, <2>13, PartSkips, PartTakes
  <2>15. IsPartOf(parsed', e[i + 1])
    BY <1>2, <2>14
  <2>16. ~dropped' => parsed' = e[i + 1]
    BY <1>2, <2>11, <2>12
  <2> QED BY <2>1, <2>10, <2>15, <2>16 DEF Holds
<1>6. Expansion(query') = e
  BY <1>1
<1> HIDE DEF e, x, v
<1>7. ASSUME Regular(query')
      PROVE  escaped' = 0 /\ Closed(query', i') /\ Holds(parsed', Expansion(query')[i'], dropped')
  BY <1>1, <1>5, <1>6, <1>7
<1>8. parsed' \in Seq(Pieces)
  BY <1>2, <1>3, <1>4
<1>9. /\ var_buf' \in Seq(NameChars) /\ in_var' = 0 /\ result' # "sent"
      /\ query' \in Seq(Chars) /\ i' \in 0..Len(query') /\ dropped' \in BOOLEAN
  <2>1. <<>> \in Seq(NameChars)
    OBVIOUS
  <2> QED BY <1>1, <1>2, <1>3, <2>1
<1> QED BY <1>7, <1>8, <1>9 DEF ScanInv

\* Every step of the pass keeps what has been written in step with the text.
LEMMA NextScan == ASSUME Sizes, ScanInv, [Next]_vars PROVE ScanInv'
<1>1. CASE UNCHANGED vars
  BY <1>1 DEF vars, ScanInv
<1>2. CASE Backslash
  <2>1. /\ c = "\\" /\ c = query[i + 1] /\ i < Len(query) /\ i' = i + 1 /\ in_var = 0
        /\ UNCHANGED <<query, in_var, var_buf, parsed, dropped, result>> /\ result = "scanning"
    BY <1>2 DEF Backslash, ReadChar, c
  <2>2. /\ query \in Seq(Chars) /\ i' \in 0..Len(query) /\ i + 1 \in 1..Len(query)
        /\ parsed \in Seq(Pieces) /\ var_buf \in Seq(NameChars) /\ dropped \in BOOLEAN
    BY <2>1 DEF ScanInv
  <2>3. ~Regular(query)
    BY <2>1, <2>2 DEF Regular
  <2>4. ~Regular(query')
    BY <2>1, <2>3
  <2>5. /\ query' \in Seq(Chars) /\ i' \in 0..Len(query') /\ parsed' \in Seq(Pieces)
        /\ var_buf' \in Seq(NameChars) /\ in_var' \in {0, 1} /\ dropped' \in BOOLEAN
        /\ result' # "sent"
    BY <2>1, <2>2
  <2> QED BY <2>4, <2>5 DEF ScanInv
<1>3. CASE EndVarUnknown
  <2>1. /\ i < Len(query) /\ i' = i + 1 /\ result' = "died"
        /\ UNCHANGED <<query, in_var, var_buf, parsed, dropped>>
    BY <1>3 DEF EndVarUnknown, ReadChar
  <2>2. i' \in 0..Len(query)
    BY <2>1 DEF ScanInv
  <2> QED BY <2>1, <2>2 DEF ScanInv
<1>4. CASE Send
  <2>1. /\ i = Len(query) /\ result = "scanning" /\ result' = "sent"
        /\ UNCHANGED <<query, i, in_var, escaped, var_buf, parsed, dropped>>
    BY <1>4 DEF Send
  <2> QED BY <2>1 DEF ScanInv
<1> QED BY <1>1, <1>2, <1>3, <1>4, StartScan, CopyScan, NameScan, EndScan DEF Next

\* At the end of a regular text no name is open.
LEMMA SentClosed ==
  ASSUME ScanInv, result = "sent", Regular(query)
  PROVE  Holds(parsed, Expansion(query)[Len(query)], dropped)
<1>1. i = Len(query) /\ query \in Seq(Chars) /\ result # "died" /\ Len(query) \in Nat
  BY DEF ScanInv
<1>2. CASE in_var = 0
  BY <1>1, <1>2 DEF ScanInv
<1>3. CASE in_var = 1
  <2>1. PICK d \in 1..i : Open(query, i, var_buf, d)
    BY <1>1, <1>3 DEF ScanInv
  <2>2. d \in 1..Len(query) /\ i \in d..Len(query)
    BY <1>1
  <2>3. query[d] = "$" /\ \A k \in (d + 1)..i : query[k] \in NameChars
    BY <2>1 DEF Open
  <2>4. i - d <= NameAfter(query, d) /\ NameAfter(query, d) \in 0..(Len(query) - d)
    BY <1>1, <2>2, <2>3, NameIs, NameReaches
  <2>5. d + NameAfter(query, d) + 1 <= Len(query)
    BY <2>2, <2>3 DEF Regular
  <2> QED BY <1>1, <2>2, <2>4, <2>5
<1> QED BY <1>2, <1>3 DEF ScanInv

\* Of a regular text of any length, with words of any length, what is sent is
\* the expansion the MANUAL describes, if the buffer has room for all of it
\* (Client::safe_parsed_query()).
THEOREM ExpandsRegular == Spec => []RegularExpands
<1>1. ScanInv => RegularExpands
  BY SentClosed DEF RegularExpands, Holds
<1>2. Init => Sizes /\ InBounds /\ ScanInv
  BY InitInBounds, InitScan
<1>3. Sizes /\ InBounds /\ ScanInv /\ [Next]_vars => (Sizes /\ InBounds /\ ScanInv)'
  BY NextInBounds, NextScan
<1> QED BY <1>1, <1>2, <1>3, PTL DEF Spec

\* A buffer that is too small, whatever its size, costs whole words and
\* characters only, and leaves the others in order.
THEOREM TruncationIsWhole == Spec => []TruncatesWholePieces
<1>1. ScanInv => TruncatesWholePieces
  BY SentClosed DEF TruncatesWholePieces, Holds
<1>2. Init => Sizes /\ InBounds /\ ScanInv
  BY InitInBounds, InitScan
<1>3. Sizes /\ InBounds /\ ScanInv /\ [Next]_vars => (Sizes /\ InBounds /\ ScanInv)'
  BY NextInBounds, NextScan
<1> QED BY <1>1, <1>2, <1>3, PTL DEF Spec
=============================================================================
