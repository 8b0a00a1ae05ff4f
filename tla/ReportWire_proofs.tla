------------------------- MODULE ReportWire_proofs -------------------------
(***************************************************************************)
(* The bytes of the reports implement the transfer of QueryReport, and the *)
(* report printed says what was run, for any number of clients and query   *)
(* types, any names and any size of the buffer.                            *)
(***************************************************************************)
EXTENDS ReportWire, FiniteSetTheorems, SequenceTheorems, WellFoundedInduction, TLAPS

-----------------------------------------------------------------------------
(***************************************************************************)
(* Induction over the natural numbers, as a fact about sets of them.       *)
(***************************************************************************)
\* A set of natural numbers has a least one.
LEMMA LeastNat ==
  ASSUME NEW T \in SUBSET Nat, T # {}
  PROVE  \E m \in T : \A n \in T : m <= n
<1> DEFINE R == {ss \in Nat \X Nat : ss[1] < ss[2]}
<1>1. IsWellFoundedOn(R, Nat)
  BY NatLessThanWellFounded DEF OpToRel
<1>2. \A m, n \in Nat : n < m => <<n, m>> \in R
  OBVIOUS
<1>3. PICK m \in T : \A n \in T : ~(<<n, m>> \in R)
  <2> HIDE DEF R
  <2> QED BY <1>1, WFMin, Zenon
<1> HIDE DEF R
<1>4. \A n \in T : ~(n < m)
  BY <1>2, <1>3
<1> QED BY <1>4

\* What 0 is in, and n + 1 with n, up to m.
LEMMA UpTo ==
  ASSUME NEW m \in Nat, NEW T, 0 \in T, \A n \in 0..(m - 1) : n \in T => n + 1 \in T
  PROVE  0..m \subseteq T
<1> DEFINE U == {n \in 0..m : n \notin T}
<1> SUFFICES ASSUME U # {} PROVE FALSE
  OBVIOUS
<1>1. PICK k \in U : \A n \in U : k <= n
  <2>1. U \in SUBSET Nat
    OBVIOUS
  <2> HIDE DEF U
  <2> QED BY <2>1, LeastNat
<1>2. k # 0 /\ k - 1 \in 0..(m - 1) /\ (k - 1) + 1 = k
  BY <1>1
<1>3. k - 1 \in T
  BY <1>1, <1>2
<1> QED BY <1>1, <1>2, <1>3

\* A function that begins with base and goes on by steps.
IsSteps(g, m, X, base, step) ==
  g \in [0..m -> X] /\ g[0] = base /\ \A n \in 1..m : g[n] = step[n][g[n - 1]]

\* There is one.
LEMMA StepsExist ==
  ASSUME NEW m \in Nat, NEW X, NEW base \in X, NEW step \in [1..m -> [X -> X]]
  PROVE  \E g : IsSteps(g, m, X, base, step)
<1> DEFINE Good(g, k) == g[0] = base /\ \A n \in 1..k : g[n] = step[n][g[n - 1]]
           T == {k \in 0..m : \E g \in [0..k -> X] : Good(g, k)}
<1>1. 0 \in T
  <2>1. [n \in 0..0 |-> base] \in [0..0 -> X] /\ Good([n \in 0..0 |-> base], 0)
    OBVIOUS
  <2> HIDE DEF Good
  <2> QED BY <2>1
<1>2. ASSUME NEW k \in 0..(m - 1), k \in T PROVE k + 1 \in T
  <2>1. PICK g \in [0..k -> X] : Good(g, k)
    BY <1>2
  <2> DEFINE h == [n \in 0..(k + 1) |-> IF n = k + 1 THEN step[k + 1][g[k]] ELSE g[n]]
  <2>2. step[k + 1][g[k]] \in X
    <3>1. k + 1 \in 1..m /\ k \in 0..k
      OBVIOUS
    <3>2. step[k + 1] \in [X -> X] /\ g[k] \in X
      BY <3>1
    <3> QED BY <3>2
  <2>3. h \in [0..(k + 1) -> X]
    <3>1. \A n \in 0..(k + 1) : n # k + 1 => n \in 0..k
      OBVIOUS
    <3> QED BY <2>2, <3>1
  <2>4. Good(h, k + 1)
    <3>1. h[0] = base
      BY <2>1
    <3>2. ASSUME NEW n \in 1..(k + 1) PROVE h[n] = step[n][h[n - 1]]
      <4>1. CASE n = k + 1
        <5>1. h[n] = step[k + 1][g[k]] /\ h[n - 1] = g[k]
          BY <4>1
        <5> HIDE DEF h
        <5> QED BY <4>1, <5>1
      <4>2. CASE n # k + 1
        <5>1. n \in 1..k /\ h[n] = g[n] /\ h[n - 1] = g[n - 1]
          BY <4>2
        <5> HIDE DEF h
        <5> QED BY <2>1, <5>1
      <4> QED BY <4>1, <4>2
    <3> HIDE DEF h
    <3> QED BY <3>1, <3>2
  <2>5. k + 1 \in 0..m
    OBVIOUS
  <2> HIDE DEF h, Good
  <2> QED BY <2>3, <2>4, <2>5
<1>3. m \in T
  <2>1. m \in 0..m
    OBVIOUS
  <2> HIDE DEF T
  <2> QED BY <1>1, <1>2, <2>1, UpTo
<1> QED BY <1>3 DEF IsSteps

\* Two functions that begin alike, and go on alike where they are, are alike.
GoOnAlike(f, g, m) == f[0] = g[0] /\ \A n \in 1..m : f[n - 1] = g[n - 1] => f[n] = g[n]
Alike(f, g, m) == \A n \in 0..m : f[n] = g[n]

LEMMA StepsAgree ==
  ASSUME NEW m \in Nat, NEW f, NEW g, GoOnAlike(f, g, m)
  PROVE  Alike(f, g, m)
<1> DEFINE T == {n \in 0..m : f[n] = g[n]}
<1>1. 0 \in T
  BY DEF GoOnAlike
<1>2. ASSUME NEW n \in 0..(m - 1), n \in T PROVE n + 1 \in T
  <2>1. n + 1 \in 1..m /\ (n + 1) - 1 = n
    OBVIOUS
  <2> QED BY <1>2, <2>1 DEF GoOnAlike
<1>3. 0..m \subseteq T
  <2> HIDE DEF T
  <2> QED BY <1>1, <1>2, UpTo
<1> QED BY <1>3 DEF Alike

-----------------------------------------------------------------------------
(***************************************************************************)
(* What a client's own shots make of a report.                             *)
(***************************************************************************)
TypeReport == [num_queries : Nat, min_time : Nat, max_time : Nat]

\* A report of one type stays one.
LEMMA UpdateIs ==
  ASSUME NEW rep \in TypeReport, NEW q \in Nat
  PROVE  QR!Update(rep, q) \in TypeReport
  BY DEF TypeReport, QR!Update, QR!MinOf, QR!MaxOf

LEMMA MergeIs ==
  ASSUME NEW rep \in TypeReport, NEW other \in TypeReport
  PROVE  QR!Merge(rep, other) \in TypeReport
  BY DEF TypeReport, QR!Merge, QR!MinOf, QR!MaxOf

\* The reports after each of the shots.
IsAfter(f, times) ==
  /\ f \in [0..Len(times) -> TypeReport] /\ f[0] = QR!NoQueries
  /\ \A n \in 1..Len(times) : f[n] = QR!Update(f[n - 1], times[n])

LEMMA OwnReportIs ==
  ASSUME NEW times \in Seq(Nat)
  PROVE  \E f : IsAfter(f, times) /\ QR!OwnReport(times) = f[Len(times)]
<1> DEFINE Def(f) == [n \in 0..Len(times) |->
                        IF n = 0 THEN QR!NoQueries ELSE QR!Update(f[n - 1], times[n])]
           e == CHOOSE f : f = Def(f)
           step == [n \in 1..Len(times) |-> [rep \in TypeReport |-> QR!Update(rep, times[n])]]
<1>0. Len(times) \in Nat /\ QR!NoQueries \in TypeReport
  BY DEF QR!NoQueries, TypeReport
<1>1. QR!OwnReport(times) = e[Len(times)]
  BY DEF QR!OwnReport
<1>2. step \in [1..Len(times) -> [TypeReport -> TypeReport]]
  <2>1. ASSUME NEW n \in 1..Len(times), NEW rep \in TypeReport
        PROVE  QR!Update(rep, times[n]) \in TypeReport
    BY UpdateIs
  <2> QED BY <2>1
<1>3. PICK g : IsSteps(g, Len(times), TypeReport, QR!NoQueries, step)
  <2> HIDE DEF step
  <2> QED BY <1>0, <1>2, StepsExist
<1>a. g \in [0..Len(times) -> TypeReport] /\ g[0] = QR!NoQueries
  BY <1>3 DEF IsSteps
<1>4. ASSUME NEW n \in 1..Len(times) PROVE g[n] = QR!Update(g[n - 1], times[n])
  <2>1. n - 1 \in 0..Len(times)
    BY <1>0
  <2>2. g[n - 1] \in TypeReport
    BY <1>a, <2>1
  <2>3. g[n] = step[n][g[n - 1]]
    BY <1>3 DEF IsSteps
  <2> QED BY <2>2, <2>3
<1>5. g = Def(g)
  <2>1. ASSUME NEW n \in 0..Len(times) PROVE g[n] = Def(g)[n]
    BY <1>a, <1>4
  <2>2. g = [n \in 0..Len(times) |-> g[n]]
    BY <1>a
  <2> QED BY <2>1, <2>2
<1>6. e = Def(e)
  <2> HIDE DEF Def
  <2> QED BY <1>5
<1> HIDE DEF e
<1>7. e[0] = QR!NoQueries /\ \A n \in 1..Len(times) : e[n] = QR!Update(e[n - 1], times[n])
  <2>1. \A n \in 0..Len(times) : e[n] = Def(e)[n]
    BY <1>6
  <2>2. 0 \in 0..Len(times) /\ \A n \in 1..Len(times) : n \in 0..Len(times) /\ n # 0
    BY <1>0
  <2> QED BY <2>1, <2>2
<1>8. \A n \in 0..Len(times) : e[n] = g[n]
  <2>1. \A n \in 1..Len(times) : e[n - 1] = g[n - 1] => e[n] = g[n]
    BY <1>4, <1>7
  <2>2. e[0] = g[0]
    BY <1>a, <1>7
  <2>3. Len(times) \in Nat
    BY <1>0
  <2>4. GoOnAlike(e, g, Len(times))
    BY <2>1, <2>2 DEF GoOnAlike
  <2>5. Alike(e, g, Len(times))
    BY <2>3, <2>4, StepsAgree
  <2> QED BY <2>5 DEF Alike
<1>9. e = g
  <2>1. e = [n \in 0..Len(times) |-> e[n]]
    BY <1>6
  <2>2. g = [n \in 0..Len(times) |-> g[n]]
    BY <1>a
  <2> HIDE DEF Def
  <2> QED BY <1>8, <2>1, <2>2
<1>10. IsAfter(g, times)
  BY <1>a, <1>4 DEF IsAfter
<1> QED BY <1>1, <1>9, <1>10

\* Nothing was run at first, and each shot is one update().
LEMMA OwnReportNone == QR!OwnReport(<<>>) = QR!NoQueries
<1>1. PICK f : IsAfter(f, <<>>) /\ QR!OwnReport(<<>>) = f[Len(<<>>)]
  <2>1. <<>> \in Seq(Nat)
    OBVIOUS
  <2> QED BY <2>1, OwnReportIs
<1> QED BY <1>1 DEF IsAfter

LEMMA OwnReportGrows ==
  ASSUME NEW times \in Seq(Nat), NEW q \in Nat
  PROVE  QR!OwnReport(Append(times, q)) = QR!Update(QR!OwnReport(times), q)
<1> DEFINE more == Append(times, q)
<1>0. more \in Seq(Nat) /\ Len(times) \in Nat /\ Len(more) = Len(times) + 1
      /\ more[Len(times) + 1] = q /\ \A n \in 1..Len(times) : more[n] = times[n]
  OBVIOUS
<1>1. PICK f : IsAfter(f, times) /\ QR!OwnReport(times) = f[Len(times)]
  BY OwnReportIs
<1> HIDE DEF more
<1>2. PICK g : IsAfter(g, more) /\ QR!OwnReport(more) = g[Len(more)]
  BY <1>0, OwnReportIs
<1>3. \A n \in 0..Len(times) : f[n] = g[n]
  <2>1. f[0] = g[0]
    BY <1>1, <1>2 DEF IsAfter
  <2>2. ASSUME NEW n \in 1..Len(times), f[n - 1] = g[n - 1] PROVE f[n] = g[n]
    <3>1. n \in 1..Len(more) /\ more[n] = times[n]
      BY <1>0
    <3>2. f[n] = QR!Update(f[n - 1], times[n]) /\ g[n] = QR!Update(g[n - 1], more[n])
      BY <1>1, <1>2, <3>1 DEF IsAfter
    <3> QED BY <2>2, <3>1, <3>2
  <2>3. Len(times) \in Nat
    BY <1>0
  <2>4. GoOnAlike(f, g, Len(times))
    BY <2>1, <2>2 DEF GoOnAlike
  <2>5. Alike(f, g, Len(times))
    BY <2>3, <2>4, StepsAgree
  <2> QED BY <2>5 DEF Alike
<1>4. Len(more) \in 1..Len(more) /\ Len(more) - 1 = Len(times) /\ Len(times) \in 0..Len(times)
  BY <1>0
<1>5. g[Len(more)] = QR!Update(g[Len(times)], more[Len(more)])
  BY <1>2, <1>4 DEF IsAfter
<1>6. QR!OwnReport(more) = QR!Update(QR!OwnReport(times), q)
  BY <1>0, <1>1, <1>2, <1>3, <1>4, <1>5
<1> QED BY <1>6 DEF more

\* It counts the shots; its extremes are times of them, or 0, and do not cross.
LEMMA OwnReportSays ==
  ASSUME NEW times \in Seq(Nat)
  PROVE  LET rep  == QR!OwnReport(times)
             seen == {times[i] : i \in 1..Len(times)} \cup {0}
         IN  /\ rep \in TypeReport /\ rep.num_queries = Len(times)
             /\ rep.max_time \in seen /\ rep.min_time \in seen
             /\ rep.min_time <= rep.max_time
<1> DEFINE seen == {times[i] : i \in 1..Len(times)} \cup {0}
           Says(rep, n) == /\ rep.num_queries = n
                           /\ rep.max_time \in seen /\ rep.min_time \in seen
                           /\ rep.min_time <= rep.max_time
<1>1. PICK f : IsAfter(f, times) /\ QR!OwnReport(times) = f[Len(times)]
  BY OwnReportIs
<1>2. Says(f[0], 0)
  BY <1>1 DEF IsAfter, QR!NoQueries
<1>3. ASSUME NEW n \in 0..(Len(times) - 1), Says(f[n], n) PROVE Says(f[n + 1], n + 1)
  <2>1. n + 1 \in 1..Len(times) /\ (n + 1) - 1 = n /\ n \in 0..Len(times)
    OBVIOUS
  <2>2. f[n + 1] = QR!Update(f[n], times[n + 1]) /\ f[n] \in TypeReport
    BY <1>1, <2>1 DEF IsAfter
  <2>3. times[n + 1] \in seen /\ times[n + 1] \in Nat
    BY <2>1
  <2> HIDE DEF seen
  <2> QED BY <1>3, <2>2, <2>3 DEF TypeReport, QR!Update, QR!MinOf, QR!MaxOf
<1>4. \A n \in 0..Len(times) : Says(f[n], n)
  <2> DEFINE T == {n \in 0..Len(times) : Says(f[n], n)}
  <2>0. Len(times) \in Nat
    OBVIOUS
  <2> HIDE DEF Says
  <2>1. 0 \in T
    BY <1>2, <2>0
  <2>2. ASSUME NEW n \in 0..(Len(times) - 1), n \in T PROVE n + 1 \in T
    BY <1>3, <2>0, <2>2
  <2>3. 0..Len(times) \subseteq T
    <3> HIDE DEF T
    <3> QED BY <2>0, <2>1, <2>2, UpTo
  <2> QED BY <2>3
<1>5. Len(times) \in 0..Len(times)
  OBVIOUS
<1>6. f[Len(times)] \in TypeReport
  BY <1>1, <1>5 DEF IsAfter
<1> QED BY <1>1, <1>4, <1>5, <1>6

-----------------------------------------------------------------------------
(***************************************************************************)
(* Sums over sets of clients.                                              *)
(***************************************************************************)
OneOf(S) == CHOOSE x \in S : TRUE

\* f is the sum of w over each set of members of C.
IsSum(f, w, C) ==
  /\ f \in [SUBSET C -> Nat] /\ f[{}] = 0
  /\ \A S \in SUBSET C : S # {} => f[S] = w[OneOf(S)] + f[S \ {OneOf(S)}]

\* The sizes of the parts of a finite set.
LEMMA PartSize ==
  ASSUME NEW C, IsFiniteSet(C), NEW S \in SUBSET C
  PROVE  /\ Cardinality(S) \in 0..Cardinality(C) /\ Cardinality(C) \in Nat
         /\ Cardinality(S) = 0 <=> S = {}
         /\ \A x \in S : Cardinality(S \ {x}) = Cardinality(S) - 1
<1>1. IsFiniteSet(S) /\ Cardinality(S) <= Cardinality(C)
  BY FS_Subset
<1>2. Cardinality(S) \in Nat /\ Cardinality(C) \in Nat
  BY <1>1, FS_CardinalityType
<1>3. Cardinality(S) = 0 <=> S = {}
  BY <1>1, FS_EmptySet
<1>4. ASSUME NEW x \in S PROVE Cardinality(S \ {x}) = Cardinality(S) - 1
  BY <1>1, FS_RemoveElement
<1> QED BY <1>1, <1>2, <1>3, <1>4

LEMMA SumExists ==
  ASSUME NEW C, IsFiniteSet(C), NEW w \in [C -> Nat]
  PROVE  \E f : IsSum(f, w, C)
<1> DEFINE Upto(f, k) == /\ f \in [SUBSET C -> Nat] /\ f[{}] = 0
                         /\ \A S \in SUBSET C : S # {} /\ Cardinality(S) <= k
                              => f[S] = w[OneOf(S)] + f[S \ {OneOf(S)}]
           T == {k \in 0..Cardinality(C) : \E f : Upto(f, k)}
<1>0. Cardinality(C) \in Nat
  BY FS_CardinalityType
<1>1. 0 \in T
  <2>1. Upto([S \in SUBSET C |-> 0], 0)
    <3>1. ASSUME NEW S \in SUBSET C, S # {} PROVE ~(Cardinality(S) <= 0)
      BY <3>1, PartSize
    <3> QED BY <3>1
  <2> HIDE DEF Upto
  <2> QED BY <1>0, <2>1
<1>2. ASSUME NEW k \in 0..(Cardinality(C) - 1), k \in T PROVE k + 1 \in T
  <2>1. PICK f : Upto(f, k)
    BY <1>2
  <2> DEFINE Next1(S) == w[OneOf(S)] + f[S \ {OneOf(S)}]
             h == [S \in SUBSET C |-> IF Cardinality(S) = k + 1 THEN Next1(S) ELSE f[S]]
  <2>2. ASSUME NEW S \in SUBSET C, S # {} PROVE OneOf(S) \in S /\ Next1(S) \in Nat
    <3>1. OneOf(S) \in S
      BY <2>2 DEF OneOf
    <3> QED BY <2>1, <3>1
  <2>3. h \in [SUBSET C -> Nat]
    <3>1. ASSUME NEW S \in SUBSET C PROVE h[S] \in Nat
      <4>1. CASE Cardinality(S) = k + 1
        <5>1. S # {}
          BY <1>0, <4>1, PartSize
        <5> HIDE DEF Next1
        <5> QED BY <2>2, <4>1, <5>1
      <4>2. CASE Cardinality(S) # k + 1
        BY <2>1, <4>2
      <4> QED BY <4>1, <4>2
    <3> QED BY <3>1
  <2>4. h[{}] = 0
    <3>1. Cardinality({}) = 0 /\ {} \in SUBSET C
      BY FS_EmptySet
    <3> QED BY <2>1, <3>1
  <2>5. ASSUME NEW S \in SUBSET C, S # {}, Cardinality(S) <= k + 1
        PROVE  h[S] = w[OneOf(S)] + h[S \ {OneOf(S)}]
    <3>1. OneOf(S) \in S
      BY <2>2, <2>5
    <3>2. /\ Cardinality(S) \in Nat /\ Cardinality(S \ {OneOf(S)}) = Cardinality(S) - 1
          /\ S \ {OneOf(S)} \in SUBSET C
      BY <3>1, PartSize
    <3>3. h[S \ {OneOf(S)}] = f[S \ {OneOf(S)}]
      BY <2>5, <3>2
    <3>4. CASE Cardinality(S) = k + 1
      BY <3>3, <3>4
    <3>5. CASE Cardinality(S) # k + 1
      BY <2>1, <2>5, <3>2, <3>3, <3>5
    <3> QED BY <3>4, <3>5
  <2> HIDE DEF h
  <2>6. Upto(h, k + 1)
    BY <2>3, <2>4, <2>5
  <2> HIDE DEF Upto
  <2> QED BY <1>0, <2>6
<1>3. Cardinality(C) \in T
  <2>1. 0..Cardinality(C) \subseteq T
    <3> HIDE DEF T
    <3> QED BY <1>0, <1>1, <1>2, UpTo
  <2> HIDE DEF T
  <2> QED BY <1>0, <2>1
<1>4. PICK f : Upto(f, Cardinality(C))
  BY <1>3
<1>5. \A S \in SUBSET C : Cardinality(S) <= Cardinality(C)
  BY PartSize
<1> QED BY <1>4, <1>5 DEF IsSum

\* Any member may be counted first.
LEMMA SumTakes ==
  ASSUME NEW C, IsFiniteSet(C), NEW w \in [C -> Nat], NEW f, IsSum(f, w, C),
         NEW S \in SUBSET C, NEW x \in S
  PROVE  f[S] = w[x] + f[S \ {x}]
<1> DEFINE AnyFirst(U) == \A y \in U : f[U] = w[y] + f[U \ {y}]
           T == {k \in 0..Cardinality(C) : \A U \in SUBSET C : Cardinality(U) = k => AnyFirst(U)}
<1>0. Cardinality(C) \in Nat
  BY FS_CardinalityType
<1>1. 0 \in T
  <2>1. ASSUME NEW U \in SUBSET C, Cardinality(U) = 0 PROVE AnyFirst(U)
    BY <2>1, PartSize
  <2> QED BY <1>0, <2>1
<1>2. ASSUME NEW k \in 0..(Cardinality(C) - 1), k \in T PROVE k + 1 \in T
  <2>1. ASSUME NEW U \in SUBSET C, Cardinality(U) = k + 1, NEW y \in U
        PROVE  f[U] = w[y] + f[U \ {y}]
    <3> DEFINE z == OneOf(U)
    <3>1. z \in U
      BY DEF OneOf
    <3>2. f[U] = w[z] + f[U \ {z}]
      BY <2>1 DEF IsSum
    <3>3. CASE y = z
      BY <3>2, <3>3
    <3>4. CASE y # z
      <4> HIDE DEF z
      <4>1. /\ U \ {z} \in SUBSET C /\ U \ {y} \in SUBSET C /\ (U \ {z}) \ {y} \in SUBSET C
            /\ Cardinality(U \ {z}) = k /\ Cardinality(U \ {y}) = k
        BY <2>1, <3>1, PartSize
      <4>2. AnyFirst(U \ {z}) /\ AnyFirst(U \ {y})
        BY <1>2, <4>1
      <4>3. f[U \ {z}] = w[y] + f[(U \ {z}) \ {y}] /\ f[U \ {y}] = w[z] + f[(U \ {y}) \ {z}]
        BY <3>1, <3>4, <4>2
      <4>4. (U \ {z}) \ {y} = (U \ {y}) \ {z}
        OBVIOUS
      <4>5. w[y] \in Nat /\ w[z] \in Nat /\ f[(U \ {z}) \ {y}] \in Nat
        BY <3>1, <4>1 DEF IsSum
      <4> DEFINE rest == f[(U \ {z}) \ {y}]
      <4>6. f[U \ {z}] = w[y] + rest /\ f[U \ {y}] = w[z] + rest /\ rest \in Nat
        BY <4>3, <4>4, <4>5
      <4> HIDE DEF rest
      <4> QED BY <3>2, <4>5, <4>6
    <3> QED BY <3>3, <3>4
  <2> QED BY <1>0, <2>1
<1>3. Cardinality(S) \in T
  <2>1. 0..Cardinality(C) \subseteq T
    <3> HIDE DEF T
    <3> QED BY <1>0, <1>1, <1>2, UpTo
  <2> QED BY <2>1, PartSize
<1> QED BY <1>3

\* NumShots adds them up.
LEMMA NumShotsIs ==
  ASSUME NEW C, IsFiniteSet(C), NEW w \in [C -> Nat], NEW f, IsSum(f, w, C),
         NEW cs \in SUBSET C, NEW sh, NEW t, \A c \in cs : w[c] = Len(sh[c][t])
  PROVE  QR!NumShots(sh, cs, t) = f[cs]
<1> DEFINE Def(g) == [s \in SUBSET cs |->
                        IF s = {} THEN 0
                        ELSE Len(sh[OneOf(s)][t]) + g[s \ {OneOf(s)}]]
           e == CHOOSE g : g = Def(g)
<1> DEFINE g == [s \in SUBSET cs |-> f[s]]
<1>1. QR!NumShots(sh, cs, t) = e[cs]
  BY DEF QR!NumShots, QR!MapThenSumSet, QR!MapThenFoldSet, OneOf
<1>2. g = Def(g)
  <2>1. ASSUME NEW s \in SUBSET cs PROVE g[s] = Def(g)[s]
    <3>1. CASE s = {}
      BY <3>1 DEF IsSum
    <3>2. CASE s # {}
      <4>1. OneOf(s) \in s /\ s \in SUBSET C /\ s \ {OneOf(s)} \in SUBSET cs
        BY <3>2 DEF OneOf
      <4>2. f[s] = w[OneOf(s)] + f[s \ {OneOf(s)}] /\ w[OneOf(s)] = Len(sh[OneOf(s)][t])
        BY <3>2, <4>1 DEF IsSum
      <4> QED BY <3>2, <4>1, <4>2
    <3> QED BY <3>1, <3>2
  <2>2. g = [s \in SUBSET cs |-> g[s]]
    OBVIOUS
  <2> HIDE DEF g
  <2> QED BY <2>1, <2>2
<1>3. e = Def(e)
  <2> HIDE DEF Def, g
  <2> QED BY <1>2
<1> HIDE DEF e
<1>4. IsFiniteSet(cs) /\ Cardinality(cs) \in Nat
  BY FS_Subset, FS_CardinalityType
<1> DEFINE T == {k \in 0..Cardinality(cs) :
                   \A s \in SUBSET cs : Cardinality(s) = k => e[s] = f[s]}
<1>5. 0 \in T
  <2>1. ASSUME NEW s \in SUBSET cs, Cardinality(s) = 0 PROVE e[s] = f[s]
    <3>1. s = {}
      BY <1>4, <2>1, PartSize
    <3>2. e[s] = Def(e)[s]
      BY <1>3
    <3> QED BY <3>1, <3>2 DEF IsSum
  <2> QED BY <1>4, <2>1
<1>6. ASSUME NEW k \in 0..(Cardinality(cs) - 1), k \in T PROVE k + 1 \in T
  <2>1. ASSUME NEW s \in SUBSET cs, Cardinality(s) = k + 1 PROVE e[s] = f[s]
    <3>1. s # {}
      BY <1>4, <2>1, PartSize
    <3>2. OneOf(s) \in s /\ s \in SUBSET C /\ s \ {OneOf(s)} \in SUBSET cs
      BY <3>1 DEF OneOf
    <3>3. e[s] = Len(sh[OneOf(s)][t]) + e[s \ {OneOf(s)}]
      <4>1. e[s] = Def(e)[s]
        BY <1>3
      <4> QED BY <3>1, <4>1
    <3>4. Cardinality(s \ {OneOf(s)}) = k
      BY <1>4, <2>1, <3>2, PartSize
    <3>5. e[s \ {OneOf(s)}] = f[s \ {OneOf(s)}]
      BY <1>6, <3>2, <3>4
    <3>6. f[s] = w[OneOf(s)] + f[s \ {OneOf(s)}] /\ w[OneOf(s)] = Len(sh[OneOf(s)][t])
      BY <3>1, <3>2 DEF IsSum
    <3> QED BY <3>3, <3>5, <3>6
  <2> QED BY <1>4, <2>1
<1>7. Cardinality(cs) \in T
  <2>1. 0..Cardinality(cs) \subseteq T
    <3> HIDE DEF T
    <3> QED BY <1>4, <1>5, <1>6, UpTo
  <2> HIDE DEF T
  <2> QED BY <1>4, <2>1
<1>8. e[cs] = f[cs]
  BY <1>7
<1> QED BY <1>1, <1>8

\* Everybody in C has a number of shots.
HasShots(sh, C, t) == \A c \in C : Len(sh[c][t]) \in Nat

\* A client more adds its shots.
LEMMA NumShotsTakes ==
  ASSUME NEW C, IsFiniteSet(C), NEW sh, NEW t, HasShots(sh, C, t),
         NEW cs \in SUBSET C, NEW c \in C, c \notin cs
  PROVE  /\ QR!NumShots(sh, cs, t) \in Nat
         /\ QR!NumShots(sh, cs \cup {c}, t) = QR!NumShots(sh, cs, t) + Len(sh[c][t])
         /\ QR!NumShots(sh, {}, t) = 0
<1> DEFINE w == [b \in C |-> Len(sh[b][t])]
<1>1. w \in [C -> Nat] /\ \A b \in C : w[b] = Len(sh[b][t])
  BY DEF HasShots
<1> HIDE DEF w
<1>2. PICK f : IsSum(f, w, C)
  BY <1>1, SumExists
<1>3. /\ QR!NumShots(sh, cs, t) = f[cs] /\ QR!NumShots(sh, cs \cup {c}, t) = f[cs \cup {c}]
      /\ QR!NumShots(sh, {}, t) = f[{}]
  <2>1. ASSUME NEW S \in SUBSET C PROVE QR!NumShots(sh, S, t) = f[S]
    BY <1>1, <1>2, NumShotsIs
  <2> QED BY <2>1
<1> DEFINE more == cs \cup {c}
<1>4. more \in SUBSET C /\ c \in more /\ more \ {c} = cs
  OBVIOUS
<1> HIDE DEF more
<1>5. f[more] = w[c] + f[more \ {c}]
  <2>1. w \in [C -> Nat]
    BY <1>1
  <2>2. more \in SUBSET C /\ c \in more
    BY <1>4
  <2> QED BY <1>2, <2>1, <2>2, SumTakes
<1>6. f[cs] \in Nat /\ f[{}] = 0 /\ w[c] = Len(sh[c][t]) /\ w[c] \in Nat
  BY <1>1, <1>2 DEF IsSum
<1>7. f[more] = f[cs] + Len(sh[c][t])
  <2>1. f[more \ {c}] = f[cs]
    BY <1>4
  <2> QED BY <1>5, <1>6, <2>1
<1> QED BY <1>3, <1>6, <1>7 DEF more

\* What others fire does not count.
LEMMA NumShotsSame ==
  ASSUME NEW C, IsFiniteSet(C), NEW sh, NEW sh2, NEW t, HasShots(sh, C, t),
         \A c \in C : Len(sh2[c][t]) = Len(sh[c][t])
  PROVE  QR!NumShots(sh2, C, t) = QR!NumShots(sh, C, t)
<1> DEFINE w == [b \in C |-> Len(sh[b][t])]
<1>1. w \in [C -> Nat] /\ \A b \in C : w[b] = Len(sh[b][t]) /\ w[b] = Len(sh2[b][t])
  BY DEF HasShots
<1> HIDE DEF w
<1>2. PICK f : IsSum(f, w, C)
  BY <1>1, SumExists
<1>3. C \in SUBSET C
  OBVIOUS
<1>4. QR!NumShots(sh, C, t) = f[C]
  BY <1>1, <1>2, <1>3, NumShotsIs
<1>5. QR!NumShots(sh2, C, t) = f[C]
  BY <1>1, <1>2, <1>3, NumShotsIs
<1> QED BY <1>4, <1>5

-----------------------------------------------------------------------------
(***************************************************************************)
(* The reporter's report sums up those of the clients it counts.           *)
(***************************************************************************)
Histories == [QR!Clients -> [Types -> Seq(Nat)]]

IsMax(m, S) == m \in S /\ \A x \in S : x <= m
IsMin(m, S) == m \in S /\ \A x \in S : m <= x

LEMMA MaxOfBoth ==
  ASSUME NEW S \in SUBSET Nat, NEW m \in Nat, NEW n \in Nat, IsMax(m, S)
  PROVE  IsMax(QR!MaxOf(m, n), S \cup {n})
  BY DEF IsMax, QR!MaxOf

LEMMA MinOfBoth ==
  ASSUME NEW S \in SUBSET Nat, NEW m \in Nat, NEW n \in Nat, IsMin(m, S)
  PROVE  IsMin(QR!MinOf(m, n), S \cup {n})
  BY DEF IsMin, QR!MinOf

SumsUp(rep, sh, cs) ==
  \A t \in Types :
    /\ rep[t].num_queries = QR!NumShots(sh, cs, t)
    /\ IsMax(rep[t].max_time, {QR!OwnReport(sh[c][t]).max_time : c \in cs})
    /\ IsMin(rep[t].min_time, {QR!OwnReport(sh[c][t]).min_time : c \in cs})

\* The clients are finitely many, and what they ran can be counted.
LEMMA ClientsAre ==
  /\ IsFiniteSet(QR!Clients) /\ Reporter \in QR!Clients /\ Reporter \notin Smackers
  /\ Smackers \subseteq QR!Clients /\ Times \subseteq Nat
  /\ IsFiniteSet(Types)
<1>1. IsFiniteSet({Reporter}) /\ IsFiniteSet(Smackers)
  BY QueryReportHolds, FS_Singleton DEF QR!QueryReportAssumption, QR!IsFiniteSet, IsFiniteSet
<1>2. IsFiniteSet(QR!Clients)
  BY <1>1, FS_Union DEF QR!Clients
<1>3. IsFiniteSet(Types)
  BY QueryReportHolds DEF QR!QueryReportAssumption, QR!IsFiniteSet, IsFiniteSet
<1> QED BY <1>2, <1>3, QueryReportHolds DEF QR!QueryReportAssumption, QR!Clients

LEMMA HistoryIs ==
  ASSUME NEW sh \in Histories, NEW c \in QR!Clients, NEW t \in Types
  PROVE  /\ sh[c][t] \in Seq(Nat) /\ Len(sh[c][t]) \in Nat
         /\ QR!OwnReport(sh[c][t]) \in TypeReport
<1>1. sh[c][t] \in Seq(Nat) /\ Len(sh[c][t]) \in Nat
  BY DEF Histories
<1>2. QR!OwnReport(sh[c][t]) \in TypeReport
  BY <1>1, OwnReportSays
<1> QED BY <1>1, <1>2

\* A client's own report sums up its own shots.
LEMMA OwnSumsUp ==
  ASSUME NEW sh \in Histories, NEW c \in QR!Clients, NEW rep,
         \A t \in Types : rep[t] = QR!OwnReport(sh[c][t])
  PROVE  SumsUp(rep, sh, {c})
<1> SUFFICES ASSUME NEW t \in Types
             PROVE  /\ rep[t].num_queries = QR!NumShots(sh, {c}, t)
                    /\ IsMax(rep[t].max_time, {QR!OwnReport(sh[b][t]).max_time : b \in {c}})
                    /\ IsMin(rep[t].min_time, {QR!OwnReport(sh[b][t]).min_time : b \in {c}})
  BY DEF SumsUp
<1>1. rep[t] = QR!OwnReport(sh[c][t]) /\ rep[t] \in TypeReport
      /\ rep[t].num_queries = Len(sh[c][t])
  BY HistoryIs, OwnReportSays
<1>2. QR!NumShots(sh, {} \cup {c}, t) = 0 + Len(sh[c][t])
  <2>1. HasShots(sh, QR!Clients, t)
    BY HistoryIs DEF HasShots
  <2> DEFINE none == {}
  <2>2. none \in SUBSET QR!Clients /\ c \notin none /\ IsFiniteSet(QR!Clients)
    BY ClientsAre
  <2>3. none = {}
    OBVIOUS
  <2> HIDE DEF none
  <2>4. /\ QR!NumShots(sh, none \cup {c}, t) = QR!NumShots(sh, none, t) + Len(sh[c][t])
        /\ QR!NumShots(sh, {}, t) = 0
    BY <2>1, <2>2, NumShotsTakes
  <2> QED BY <2>3, <2>4
<1>3. {} \cup {c} = {c} /\ Len(sh[c][t]) \in Nat
  BY HistoryIs
<1>4. rep[t].num_queries = QR!NumShots(sh, {c}, t)
  BY <1>1, <1>2, <1>3
<1> QED BY <1>1, <1>4 DEF IsMax, IsMin, TypeReport

\* What others fire does not change a sum.
LEMMA SumStays ==
  ASSUME NEW sh \in Histories, NEW sh2, NEW rep, NEW cs \in SUBSET QR!Clients,
         \A c \in cs : sh2[c] = sh[c], SumsUp(rep, sh, cs)
  PROVE  SumsUp(rep, sh2, cs)
<1> SUFFICES ASSUME NEW t \in Types
             PROVE  /\ rep[t].num_queries = QR!NumShots(sh2, cs, t)
                    /\ IsMax(rep[t].max_time, {QR!OwnReport(sh2[c][t]).max_time : c \in cs})
                    /\ IsMin(rep[t].min_time, {QR!OwnReport(sh2[c][t]).min_time : c \in cs})
  BY DEF SumsUp
<1>1. QR!NumShots(sh2, cs, t) = QR!NumShots(sh, cs, t)
  <2>1. IsFiniteSet(cs) /\ HasShots(sh, cs, t) /\ \A c \in cs : Len(sh2[c][t]) = Len(sh[c][t])
    BY ClientsAre, FS_Subset, HistoryIs DEF HasShots
  <2> QED BY <2>1, NumShotsSame
<1>2. /\ {QR!OwnReport(sh2[c][t]).max_time : c \in cs}
           = {QR!OwnReport(sh[c][t]).max_time : c \in cs}
      /\ {QR!OwnReport(sh2[c][t]).min_time : c \in cs}
           = {QR!OwnReport(sh[c][t]).min_time : c \in cs}
  OBVIOUS
<1> QED BY <1>1, <1>2 DEF SumsUp

\* Merging another client's report sums it up too.
LEMMA MergeSumsUp ==
  ASSUME NEW sh \in Histories, NEW cs \in SUBSET QR!Clients, NEW c \in QR!Clients, c \notin cs,
         NEW rep \in [Types -> TypeReport], SumsUp(rep, sh, cs),
         NEW other, \A t \in Types : other[t] = QR!OwnReport(sh[c][t])
  PROVE  SumsUp([t \in Types |-> QR!Merge(rep[t], other[t])], sh, cs \cup {c})
<1> DEFINE both == [t \in Types |-> QR!Merge(rep[t], other[t])]
<1> SUFFICES ASSUME NEW t \in Types
      PROVE  /\ both[t].num_queries = QR!NumShots(sh, cs \cup {c}, t)
             /\ IsMax(both[t].max_time, {QR!OwnReport(sh[b][t]).max_time : b \in cs \cup {c}})
             /\ IsMin(both[t].min_time, {QR!OwnReport(sh[b][t]).min_time : b \in cs \cup {c}})
  BY DEF SumsUp
<1> DEFINE maxes(S) == {QR!OwnReport(sh[b][t]).max_time : b \in S}
           mins(S)  == {QR!OwnReport(sh[b][t]).min_time : b \in S}
<1>1. both[t] = QR!Merge(rep[t], other[t]) /\ rep[t] \in TypeReport /\ other[t] \in TypeReport
      /\ other[t] = QR!OwnReport(sh[c][t]) /\ other[t].num_queries = Len(sh[c][t])
  BY HistoryIs, OwnReportSays
<1>2. /\ rep[t].num_queries = QR!NumShots(sh, cs, t)
      /\ IsMax(rep[t].max_time, maxes(cs)) /\ IsMin(rep[t].min_time, mins(cs))
  BY DEF SumsUp
<1> HIDE DEF both
<1>3. both[t].num_queries = QR!NumShots(sh, cs \cup {c}, t)
  <2>1. HasShots(sh, QR!Clients, t)
    BY HistoryIs DEF HasShots
  <2>2. QR!NumShots(sh, cs \cup {c}, t) = QR!NumShots(sh, cs, t) + Len(sh[c][t])
    BY <2>1, ClientsAre, NumShotsTakes
  <2>3. both[t].num_queries = rep[t].num_queries + other[t].num_queries
    BY <1>1 DEF QR!Merge
  <2> QED BY <1>1, <1>2, <2>2, <2>3
<1>4. /\ maxes(cs \cup {c}) = maxes(cs) \cup {other[t].max_time}
      /\ mins(cs \cup {c}) = mins(cs) \cup {other[t].min_time}
  BY <1>1
<1>5. maxes(cs) \subseteq Nat /\ mins(cs) \subseteq Nat
  <2>1. \A b \in cs : QR!OwnReport(sh[b][t]) \in TypeReport
    BY HistoryIs
  <2> QED BY <2>1 DEF TypeReport
<1> HIDE DEF maxes, mins
<1>6. /\ both[t].max_time = QR!MaxOf(rep[t].max_time, other[t].max_time)
      /\ both[t].min_time = QR!MinOf(rep[t].min_time, other[t].min_time)
  BY <1>1 DEF QR!Merge
<1>7. IsMax(both[t].max_time, maxes(cs \cup {c}))
  <2>1. rep[t].max_time \in Nat /\ other[t].max_time \in Nat
    BY <1>1 DEF TypeReport
  <2>2. IsMax(QR!MaxOf(rep[t].max_time, other[t].max_time), maxes(cs) \cup {other[t].max_time})
    BY <1>2, <1>5, <2>1, MaxOfBoth
  <2> QED BY <1>4, <1>6, <2>2
<1>8. IsMin(both[t].min_time, mins(cs \cup {c}))
  <2>1. rep[t].min_time \in Nat /\ other[t].min_time \in Nat
    BY <1>1 DEF TypeReport
  <2>2. IsMin(QR!MinOf(rep[t].min_time, other[t].min_time), mins(cs) \cup {other[t].min_time})
    BY <1>2, <1>5, <2>1, MinOfBoth
  <2> QED BY <1>4, <1>6, <2>2
<1> QED BY <1>3, <1>7, <1>8 DEF maxes, mins

-----------------------------------------------------------------------------
(***************************************************************************)
(* The invariant of QueryReport: a client that has merged nothing has its  *)
(* own report, and the reporter's sums up those of the clients it counts.  *)
(***************************************************************************)
Values ==
  /\ qr \in [QR!Clients -> [Types -> TypeReport]] /\ shots \in Histories
  /\ merged \subseteq Smackers

OwnReports ==
  \A c \in QR!Clients : (c = Reporter => merged = {}) =>
    \A t \in Types : qr[c][t] = QR!OwnReport(shots[c][t])

ReportInv == Values /\ OwnReports /\ SumsUp(qr[Reporter], shots, QR!Counted)

\* Nobody has run anything.
LEMMA InitReport == ASSUME QR!Init PROVE ReportInv
<1>1. qr = [c \in QR!Clients |-> [t \in Types |-> QR!NoQueries]]
      /\ shots = [c \in QR!Clients |-> [t \in Types |-> <<>>]] /\ merged = {}
  BY DEF QR!Init
<1>2. Values
  <2>1. QR!NoQueries \in TypeReport /\ <<>> \in Seq(Nat)
    BY DEF QR!NoQueries, TypeReport
  <2> QED BY <1>1, <2>1 DEF Values, Histories
<1>3. OwnReports
  BY <1>1, OwnReportNone DEF OwnReports
<1>4. SumsUp(qr[Reporter], shots, {Reporter})
  <2>1. \A t \in Types : qr[Reporter][t] = QR!OwnReport(shots[Reporter][t])
    BY <1>1, <1>3, ClientsAre DEF OwnReports
  <2> QED BY <1>2, <2>1, ClientsAre, OwnSumsUp DEF Values
<1>5. QR!Counted = {Reporter}
  BY <1>1 DEF QR!Counted
<1> QED BY <1>2, <1>3, <1>4, <1>5 DEF ReportInv

\* A shot is in its client's own report, and counted with the reporter's.
LEMMA FireReport ==
  ASSUME ReportInv, NEW c \in QR!Clients, NEW t \in Types, NEW q \in Times,
         QR!Fire(c, t, q)
  PROVE  ReportInv'
<1>0. /\ q \in Nat /\ qr \in [QR!Clients -> [Types -> TypeReport]] /\ shots \in Histories
      /\ c \notin merged /\ (c = Reporter => merged = {})
      /\ qr' = [qr EXCEPT ![c][t] = QR!Update(@, q)]
      /\ shots' = [shots EXCEPT ![c][t] = Append(@, q)] /\ merged' = merged
  BY ClientsAre DEF ReportInv, Values, QR!Fire
<1>1. qr[c][t] \in TypeReport /\ shots[c][t] \in Seq(Nat)
  BY <1>0 DEF Histories
<1>2. QR!Update(qr[c][t], q) \in TypeReport /\ Append(shots[c][t], q) \in Seq(Nat)
  BY <1>0, <1>1, UpdateIs
<1>3. Values'
  BY <1>0, <1>1, <1>2 DEF ReportInv, Values, Histories
<1>4. \A b \in QR!Clients, u \in Types : b # c \/ u # t =>
        qr'[b][u] = qr[b][u] /\ shots'[b][u] = shots[b][u]
  BY <1>0 DEF Histories
<1>5. qr'[c][t] = QR!Update(qr[c][t], q) /\ shots'[c][t] = Append(shots[c][t], q)
  BY <1>0 DEF Histories
<1>6. qr'[c][t] = QR!OwnReport(shots'[c][t])
  <2>1. qr[c][t] = QR!OwnReport(shots[c][t])
    BY <1>0 DEF ReportInv, OwnReports
  <2> QED BY <1>0, <1>1, <1>5, <2>1, OwnReportGrows
<1>7. OwnReports'
  <2> SUFFICES ASSUME NEW b \in QR!Clients, b = Reporter => merged' = {}, NEW u \in Types
               PROVE  qr'[b][u] = QR!OwnReport(shots'[b][u])
    BY DEF OwnReports
  <2>1. CASE b = c /\ u = t
    BY <1>6, <2>1
  <2>2. CASE b # c \/ u # t
    <3>1. qr[b][u] = QR!OwnReport(shots[b][u])
      BY <1>0 DEF ReportInv, OwnReports
    <3> QED BY <1>4, <2>2, <3>1
  <2> QED BY <2>1, <2>2
<1>8. SumsUp(qr'[Reporter], shots', {Reporter} \cup merged)
  <2>1. CASE c = Reporter
    <3>1. {Reporter} \cup merged = {Reporter}
      BY <1>0, <2>1
    <3>2. \A u \in Types : qr'[Reporter][u] = QR!OwnReport(shots'[Reporter][u])
      BY <1>0, <1>7, <2>1, ClientsAre DEF OwnReports
    <3>3. shots' \in Histories
      BY <1>3 DEF Values
    <3> QED BY <3>1, <3>2, <3>3, ClientsAre, OwnSumsUp
  <2>2. CASE c # Reporter
    <3>1. qr'[Reporter] = qr[Reporter]
      BY <1>0, <2>2, ClientsAre
    <3>2. \A b \in {Reporter} \cup merged : shots'[b] = shots[b]
      BY <1>0, <2>2, ClientsAre DEF Histories, ReportInv, Values
    <3>3. SumsUp(qr[Reporter], shots, {Reporter} \cup merged)
      BY DEF ReportInv, QR!Counted
    <3>4. {Reporter} \cup merged \in SUBSET QR!Clients
      BY ClientsAre DEF ReportInv, Values
    <3> QED BY <1>0, <3>1, <3>2, <3>3, <3>4, SumStays
  <2> QED BY <2>1, <2>2
<1> QED BY <1>0, <1>3, <1>7, <1>8 DEF ReportInv, QR!Counted

\* A report read is one more that is summed up.
LEMMA MergeReport ==
  ASSUME ReportInv, NEW c \in Smackers, c \notin merged, QR!UpdateFromFd(c)
  PROVE  ReportInv'
<1>0. /\ qr \in [QR!Clients -> [Types -> TypeReport]] /\ shots \in Histories
      /\ qr' = [qr EXCEPT ![Reporter] = [t \in Types |-> QR!Merge(@[t], qr[c][t])]]
      /\ shots' = shots /\ merged' = merged \cup {c}
      /\ c \in QR!Clients /\ c # Reporter /\ Reporter \in QR!Clients
  BY ClientsAre DEF ReportInv, Values, QR!UpdateFromFd
<1> DEFINE sum == [t \in Types |-> QR!Merge(qr[Reporter][t], qr[c][t])]
<1>1. sum \in [Types -> TypeReport]
  <2>1. ASSUME NEW t \in Types PROVE QR!Merge(qr[Reporter][t], qr[c][t]) \in TypeReport
    BY <1>0, MergeIs
  <2> QED BY <2>1
<1>2. qr' = [qr EXCEPT ![Reporter] = sum]
  BY <1>0
<1>3. SumsUp(sum, shots, (QR!Counted) \cup {c})
  <2>1. \A t \in Types : qr[c][t] = QR!OwnReport(shots[c][t])
    BY <1>0 DEF ReportInv, OwnReports
  <2>2. QR!Counted \in SUBSET QR!Clients /\ c \notin QR!Counted
    BY <1>0, ClientsAre DEF ReportInv, Values, QR!Counted
  <2>3. SumsUp(qr[Reporter], shots, QR!Counted) /\ qr[Reporter] \in [Types -> TypeReport]
    BY <1>0 DEF ReportInv
  <2> QED BY <1>0, <2>1, <2>2, <2>3, MergeSumsUp
<1> HIDE DEF sum
<1>4. Values'
  BY <1>0, <1>1, <1>2 DEF ReportInv, Values
<1>5. OwnReports'
  <2>1. ASSUME NEW b \in QR!Clients, b # Reporter PROVE qr'[b] = qr[b]
    BY <1>0, <1>2, <2>1
  <2>2. merged' # {}
    BY <1>0
  <2> QED BY <1>0, <2>1, <2>2 DEF ReportInv, OwnReports
<1>6. qr'[Reporter] = sum
  BY <1>0, <1>2
<1>7. (QR!Counted)' = QR!Counted \cup {c}
  BY <1>0 DEF QR!Counted
<1> QED BY <1>0, <1>3, <1>4, <1>5, <1>6, <1>7 DEF ReportInv

\* The invariant says what the runs check.
LEMMA SaysCounts == ASSUME ReportInv PROVE QR!CountsAreExact
  BY DEF ReportInv, SumsUp, QR!CountsAreExact

LEMMA MaxIs ==
  ASSUME NEW S \in SUBSET Nat, NEW m, IsMax(m, S)
  PROVE  QR!Max(S) = m
<1>1. m \in S /\ \A y \in S : m >= y
  BY DEF IsMax
<1> DEFINE x == QR!Max(S)
<1>2. x \in S /\ \A y \in S : x >= y
  BY <1>1 DEF QR!Max
<1> HIDE DEF x
<1>3. x \in Nat /\ m \in Nat /\ x >= m /\ m >= x
  BY <1>1, <1>2
<1>4. x = m
  BY <1>3
<1> QED BY <1>4 DEF x

LEMMA MinIs ==
  ASSUME NEW S \in SUBSET Nat, NEW m, IsMin(m, S)
  PROVE  QR!Min(S) = m
<1>1. m \in S /\ \A y \in S : m <= y
  BY DEF IsMin
<1> DEFINE x == QR!Min(S)
<1>2. x \in S /\ \A y \in S : x <= y
  BY <1>1 DEF QR!Min
<1> HIDE DEF x
<1>3. x \in Nat /\ m \in Nat /\ x <= m /\ m <= x
  BY <1>1, <1>2
<1>4. x = m
  BY <1>3
<1> QED BY <1>4 DEF x

LEMMA SaysMerge == ASSUME ReportInv PROVE QR!MergeIsOrderFree
<1> SUFFICES ASSUME NEW t \in Types
      PROVE  /\ qr[Reporter][t].max_time
                  = QR!Max({QR!OwnReport(shots[c][t]).max_time : c \in QR!Counted})
             /\ qr[Reporter][t].min_time
                  = QR!Min({QR!OwnReport(shots[c][t]).min_time : c \in QR!Counted})
  BY DEF QR!MergeIsOrderFree
<1> DEFINE maxes == {QR!OwnReport(shots[c][t]).max_time : c \in QR!Counted}
           mins  == {QR!OwnReport(shots[c][t]).min_time : c \in QR!Counted}
<1>1. \A c \in QR!Counted : QR!OwnReport(shots[c][t]) \in TypeReport
  BY ClientsAre, HistoryIs DEF ReportInv, Values, QR!Counted
<1>2. maxes \in SUBSET Nat /\ mins \in SUBSET Nat
  BY <1>1 DEF TypeReport
<1>3. IsMax(qr[Reporter][t].max_time, maxes) /\ IsMin(qr[Reporter][t].min_time, mins)
  BY DEF ReportInv, SumsUp
<1> HIDE DEF maxes, mins
<1>4. qr[Reporter][t].max_time = QR!Max(maxes) /\ qr[Reporter][t].min_time = QR!Min(mins)
  BY <1>2, <1>3, MaxIs, MinIs
<1> QED BY <1>4 DEF maxes, mins

LEMMA SaysExtremes == ASSUME ReportInv PROVE QR!ExtremesWereObserved
<1> DEFINE cs(c) == {c} \cup (IF c = Reporter THEN merged ELSE {})
<1> SUFFICES ASSUME NEW c \in QR!Clients, NEW t \in Types
      PROVE  /\ qr[c][t].max_time \in QR!TimesOf(cs(c), t) \cup {0}
             /\ qr[c][t].min_time \in QR!TimesOf(cs(c), t) \cup {0}
             /\ qr[c][t].min_time <= qr[c][t].max_time
  BY DEF QR!ExtremesWereObserved
<1>1. ASSUME NEW b \in cs(c)
      PROVE  LET rep == QR!OwnReport(shots[b][t])
             IN  /\ rep \in TypeReport
                 /\ rep.max_time \in QR!TimesOf(cs(c), t) \cup {0}
                 /\ rep.min_time \in QR!TimesOf(cs(c), t) \cup {0}
                 /\ rep.min_time <= rep.max_time
  <2>1. b \in QR!Clients
    BY ClientsAre DEF ReportInv, Values
  <2>2. shots[b][t] \in Seq(Nat)
    BY <2>1, HistoryIs DEF ReportInv, Values
  <2>3. {shots[b][t][i] : i \in 1..Len(shots[b][t])} \subseteq QR!TimesOf(cs(c), t)
    <3> HIDE DEF cs
    <3> QED BY <1>1 DEF QR!TimesOf
  <2> HIDE DEF cs
  <2> QED BY <2>2, <2>3, OwnReportSays
<1>2. CASE c # Reporter
  <2>1. qr[c][t] = QR!OwnReport(shots[c][t])
    BY <1>2 DEF ReportInv, OwnReports
  <2>2. c \in cs(c)
    OBVIOUS
  <2> HIDE DEF cs
  <2> QED BY <1>1, <2>1, <2>2
<1>3. CASE c = Reporter
  <2>1. cs(c) = QR!Counted /\ c \in cs(c)
    BY <1>3 DEF QR!Counted
  <2> HIDE DEF cs
  <2>2. /\ IsMax(qr[c][t].max_time, {QR!OwnReport(shots[b][t]).max_time : b \in cs(c)})
        /\ IsMin(qr[c][t].min_time, {QR!OwnReport(shots[b][t]).min_time : b \in cs(c)})
    BY <1>3, <2>1 DEF ReportInv, SumsUp
  <2>3. PICK a \in cs(c) : qr[c][t].max_time = QR!OwnReport(shots[a][t]).max_time
    BY <2>2 DEF IsMax
  <2>4. PICK b \in cs(c) : qr[c][t].min_time = QR!OwnReport(shots[b][t]).min_time
    BY <2>2 DEF IsMin
  <2>5. /\ QR!OwnReport(shots[c][t]).max_time <= qr[c][t].max_time
        /\ qr[c][t].min_time <= QR!OwnReport(shots[c][t]).min_time
    BY <2>1, <2>2 DEF IsMax, IsMin
  <2>6. qr[c][t] \in TypeReport /\ QR!OwnReport(shots[c][t]) \in TypeReport
        /\ QR!OwnReport(shots[c][t]).min_time <= QR!OwnReport(shots[c][t]).max_time
    BY <1>1, <2>1 DEF ReportInv, Values
  <2>7. qr[c][t].min_time <= qr[c][t].max_time
    BY <2>5, <2>6 DEF TypeReport
  <2> QED BY <1>1, <2>3, <2>4, <2>7
<1> QED BY <1>2, <1>3

-----------------------------------------------------------------------------
(***************************************************************************)
(* The names in their order: one for each type.                            *)
(***************************************************************************)
NumTypes == Cardinality(Types)

\* Types have different names, without a 0.
Named ==
  /\ name \in [Types -> Seq(Nat \ {0})]
  /\ \A t, u \in Types : name[t] = name[u] => t = u

LEMMA NamingIs == ASSUME name \in Namings PROVE Named
  BY ReportWireAssumption DEF Named, IsInjective

LEMMA NameOf ==
  ASSUME Named, NEW t \in Types
  PROVE  TypeNamed(name[t]) = t
  BY DEF Named, TypeNamed

\* The type that comes n-th, and the place of a type.
Nth(n) == TypeNamed(NamesInOrder[n])

LEMMA Order ==
  ASSUME Named
  PROVE  /\ NumTypes \in Nat /\ Len(NamesInOrder) = NumTypes
         /\ \A n \in 1..NumTypes : Nth(n) \in Types /\ NamesInOrder[n] = name[Nth(n)]
         /\ \A m, n \in 1..NumTypes : Nth(m) = Nth(n) => m = n
         /\ \A t \in Types : \E n \in 1..NumTypes : Nth(n) = t
<1> DEFINE names == {name[t] : t \in Types}
           byType == [t \in Types |-> name[t]]
<1>1. IsFiniteSet(Types)
  BY ClientsAre
<1>2. NumTypes \in Nat
  BY <1>1, FS_CardinalityType DEF NumTypes
<1>3. byType \in Bijection(Types, names)
  BY DEF Named, Bijection, Injection, Surjection, IsInjective
<1>4. IsFiniteSet(names) /\ Cardinality(names) = NumTypes
  <2>1. ExistsBijection(Types, names)
    BY <1>3 DEF ExistsBijection
  <2> HIDE DEF names
  <2> QED BY <1>1, <2>1, FS_Bijection DEF NumTypes
<1>5. \E f \in [1..NumTypes -> names] : IsInjective(f)
  <2> HIDE DEF names
  <2>1. ExistsBijection(1..NumTypes, names)
    BY <1>4, FS_CardinalityType
  <2> QED BY <2>1 DEF ExistsBijection, Bijection, Injection
<1>6. NamesInOrder \in [1..NumTypes -> names] /\ IsInjective(NamesInOrder)
  <2>1. NamesInOrder = CHOOSE f \in [1..NumTypes -> names] : IsInjective(f)
    BY <1>4 DEF NamesInOrder, SetToSeq
  <2> HIDE DEF names
  <2> QED BY <1>5, <2>1
<1>7. NamesInOrder \in Surjection(1..NumTypes, names)
  <2> HIDE DEF names
  <2>1. NamesInOrder \in Injection(1..NumTypes, names)
    BY <1>6 DEF Injection
  <2>2. Cardinality(1..NumTypes) = NumTypes
    BY <1>2, FS_Interval
  <2> QED BY <1>4, <2>1, <2>2, FS_Injection
<1>8. Len(NamesInOrder) = NumTypes
  <2> HIDE DEF names
  <2> QED BY <1>2, <1>6
<1>9. ASSUME NEW n \in 1..NumTypes PROVE Nth(n) \in Types /\ NamesInOrder[n] = name[Nth(n)]
  <2>1. PICK t \in Types : NamesInOrder[n] = name[t]
    BY <1>6
  <2> QED BY <2>1, NameOf DEF Nth
<1>10. ASSUME NEW m \in 1..NumTypes, NEW n \in 1..NumTypes, Nth(m) = Nth(n) PROVE m = n
  <2>1. NamesInOrder[m] = NamesInOrder[n] /\ DOMAIN NamesInOrder = 1..NumTypes
    BY <1>6, <1>9, <1>10
  <2> QED BY <1>6, <2>1 DEF IsInjective
<1>11. ASSUME NEW t \in Types PROVE \E n \in 1..NumTypes : Nth(n) = t
  <2>1. name[t] \in names
    OBVIOUS
  <2>2. PICK n \in 1..NumTypes : NamesInOrder[n] = name[t]
    BY <1>7, <2>1 DEF Surjection
  <2> QED BY <2>2, NameOf DEF Nth
<1> QED BY <1>2, <1>8, <1>9, <1>10, <1>11

-----------------------------------------------------------------------------
(***************************************************************************)
(* Cells laid one after the other.                                         *)
(***************************************************************************)
Cells == Seq(Nat)

LEMMA OneByOne ==
  ASSUME NEW a \in Cells, NEW b \in Cells, NEW c \in Cells
  PROVE  (a \o b) \o c = a \o (b \o c)
  BY ConcatAssociative DEF Cells

\* rest[k] is what follows the first k of n sequences that make up w.
IsLaid(rest, w, f, n) ==
  /\ rest \in [0..n -> Cells] /\ rest[0] = w /\ rest[n] = <<>>
  /\ \A k \in 1..n : rest[k - 1] = f[k] \o rest[k]

Laid(w, f, n) == \E rest : IsLaid(rest, w, f, n)

LEMMA LaidNone == ASSUME NEW f PROVE Laid(<<>>, f, 0)
<1> DEFINE rest == [k \in 0..0 |-> <<>>]
<1>1. rest \in [0..0 -> Cells] /\ rest[0] = <<>>
  BY DEF Cells
<1> HIDE DEF rest
<1> QED BY <1>1 DEF Laid, IsLaid

\* One more at the end.
LEMMA LaidMore ==
  ASSUME NEW n \in Nat, NEW w, NEW f, NEW g, NEW more \in Cells, Laid(w, f, n),
         \A k \in 1..n : g[k] = f[k] /\ f[k] \in Cells, g[n + 1] = more
  PROVE  Laid(w \o more, g, n + 1)
<1>1. PICK rest : IsLaid(rest, w, f, n)
  BY DEF Laid
<1> DEFINE next == [k \in 0..(n + 1) |-> IF k = n + 1 THEN <<>> ELSE rest[k] \o more]
<1>2. \A k \in 0..n : rest[k] \in Cells /\ rest[k] \o more \in Cells
  BY <1>1 DEF IsLaid, Cells
<1>3. /\ next[n + 1] = <<>>
      /\ \A k \in 0..n : next[k] = rest[k] \o more
  OBVIOUS
<1>4. next \in [0..(n + 1) -> Cells]
  <2>1. <<>> \in Cells /\ \A k \in 0..(n + 1) : k # n + 1 => k \in 0..n
    BY DEF Cells
  <2> QED BY <1>2, <2>1
<1> HIDE DEF next
<1>5. next[0] = w \o more
  <2>1. 0 \in 0..n /\ rest[0] = w
    BY <1>1 DEF IsLaid
  <2> QED BY <1>3, <2>1
<1>6. ASSUME NEW k \in 1..(n + 1) PROVE next[k - 1] = g[k] \o next[k]
  <2>1. CASE k = n + 1
    <3>1. n \in 0..n /\ rest[n] = <<>> /\ <<>> \o more = more /\ more \o <<>> = more
      BY <1>1, ConcatEmptySeq DEF IsLaid, Cells
    <3>2. next[n] = rest[n] \o more
      BY <1>3, <3>1
    <3>3. next[n] = more /\ next[n + 1] = <<>> /\ g[n + 1] = more
      BY <1>3, <3>1, <3>2
    <3>4. k - 1 = n
      BY <2>1
    <3> QED BY <2>1, <3>1, <3>3, <3>4
  <2>2. CASE k # n + 1
    <3>1. k \in 1..n /\ k - 1 \in 0..n /\ k \in 0..n
      BY <2>2
    <3>2. rest[k - 1] = f[k] \o rest[k] /\ rest[k] \in Cells /\ f[k] \in Cells
      BY <1>1, <1>2, <3>1 DEF IsLaid
    <3>3. (f[k] \o rest[k]) \o more = f[k] \o (rest[k] \o more)
      BY <3>2, OneByOne
    <3>4. next[k - 1] = rest[k - 1] \o more /\ next[k] = rest[k] \o more /\ g[k] = f[k]
      BY <1>3, <3>1
    <3> QED BY <3>2, <3>3, <3>4
  <2> QED BY <2>1, <2>2
<1> QED BY <1>3, <1>4, <1>5, <1>6 DEF Laid, IsLaid

\* The first of them, and what follows it.
LEMMA LaidFirst ==
  ASSUME NEW n \in Nat, NEW w, NEW f, NEW g, Laid(w, f, n + 1),
         \A k \in 1..n : g[k] = f[k + 1]
  PROVE  \E more \in Cells : w = f[1] \o more /\ Laid(more, g, n)
<1>1. PICK rest : IsLaid(rest, w, f, n + 1)
  BY DEF Laid
<1> DEFINE next == [k \in 0..n |-> rest[k + 1]]
<1>2. \A k \in 0..n : k + 1 \in 0..(n + 1) /\ rest[k + 1] \in Cells
  BY <1>1 DEF IsLaid
<1>3. w = f[1] \o rest[1] /\ rest[1] \in Cells
  <2>1. 1 \in 1..(n + 1) /\ 1 - 1 = 0 /\ 0 \in 0..n /\ 0 + 1 = 1
    OBVIOUS
  <2>2. rest[1 - 1] = f[1] \o rest[1] /\ rest[0] = w
    BY <1>1, <2>1 DEF IsLaid
  <2> QED BY <1>2, <2>1, <2>2
<1>4. next \in [0..n -> Cells] /\ next[0] = rest[1] /\ next[n] = <<>>
  BY <1>1, <1>2 DEF IsLaid
<1>5. ASSUME NEW k \in 1..n PROVE next[k - 1] = g[k] \o next[k]
  <2>1. /\ k + 1 \in 1..(n + 1) /\ (k + 1) - 1 = k
        /\ next[k - 1] = rest[k] /\ next[k] = rest[k + 1]
    OBVIOUS
  <2>2. rest[k] = f[k + 1] \o rest[k + 1]
    BY <1>1, <2>1 DEF IsLaid
  <2> HIDE DEF next
  <2> QED BY <2>1, <2>2
<1> HIDE DEF next
<1>6. Laid(rest[1], g, n)
  BY <1>4, <1>5 DEF Laid, IsLaid
<1> QED BY <1>3, <1>6

\* Each of four cells at least.
LEMMA LaidLong ==
  ASSUME NEW n \in Nat, NEW w, NEW f, Laid(w, f, n),
         \A k \in 1..n : f[k] \in Cells /\ Len(f[k]) >= 4
  PROVE  Len(w) >= 4 * n
<1>1. PICK rest : IsLaid(rest, w, f, n)
  BY DEF Laid
<1> DEFINE T == {k \in 0..n : Len(w) >= 4 * k + Len(rest[k])}
<1>2. \A k \in 0..n : rest[k] \in Cells /\ Len(rest[k]) \in Nat
  BY <1>1 DEF IsLaid, Cells
<1>3. 0 \in T
  BY <1>1, <1>2 DEF IsLaid
<1>4. ASSUME NEW k \in 0..(n - 1), k \in T PROVE k + 1 \in T
  <2>1. k + 1 \in 1..n /\ k + 1 \in 0..n /\ (k + 1) - 1 = k
    OBVIOUS
  <2>2. rest[k] = f[k + 1] \o rest[k + 1]
    BY <1>1, <2>1 DEF IsLaid
  <2>3. Len(rest[k]) = Len(f[k + 1]) + Len(rest[k + 1])
    BY <1>2, <2>1, <2>2 DEF Cells
  <2>4. /\ Len(w) >= 4 * k + Len(rest[k]) /\ Len(f[k + 1]) >= 4
        /\ Len(f[k + 1]) \in Nat /\ Len(rest[k + 1]) \in Nat
    <3>1. f[k + 1] \in Cells /\ Len(f[k + 1]) >= 4
      BY <2>1
    <3>2. Len(f[k + 1]) \in Nat
      BY <3>1 DEF Cells
    <3>3. Len(w) >= 4 * k + Len(rest[k])
      BY <1>4
    <3> QED BY <1>2, <2>1, <3>1, <3>2, <3>3
  <2>5. Len(w) \in Nat
    BY <1>1, <1>2 DEF IsLaid
  <2>6. Len(w) >= 4 * (k + 1) + Len(rest[k + 1])
    <3>1. \A a, b, c, d \in Nat : a >= 4 * k + b /\ b = c + d /\ c >= 4 => a >= 4 * (k + 1) + d
      OBVIOUS
    <3>2. Len(rest[k]) \in Nat
      BY <1>2
    <3> QED BY <2>3, <2>4, <2>5, <3>1, <3>2
  <2> QED BY <2>1, <2>6
<1>5. n \in T
  <2>1. 0..n \subseteq T
    <3> HIDE DEF T
    <3> QED BY <1>3, <1>4, UpTo
  <2> HIDE DEF T
  <2> QED BY <2>1
<1>6. Len(w) >= 4 * n + Len(rest[n]) /\ rest[n] = <<>>
  BY <1>1, <1>5 DEF IsLaid
<1> QED BY <1>6

-----------------------------------------------------------------------------
(***************************************************************************)
(* One record: written, and read back.                                     *)
(***************************************************************************)
\* Cells one after the other.
IsJoined(c, a, b) ==
  /\ c \in Cells /\ Len(a) \in Nat /\ Len(b) \in Nat /\ Len(c) = Len(a) + Len(b)
  /\ \A i \in 1..Len(a) : c[i] = a[i]
  /\ \A i \in 1..Len(b) : c[Len(a) + i] = b[i]
  /\ SubSeq(c, Len(a) + 1, Len(c)) = b

LEMMA Joined ==
  ASSUME NEW a \in Cells, NEW b \in Cells
  PROVE  IsJoined(a \o b, a, b)
<1> DEFINE c == a \o b
<1>1. Len(a) \in Nat /\ Len(b) \in Nat
  BY DEF Cells
<1>2. c \in Cells /\ Len(c) = Len(a) + Len(b)
  BY DEF Cells
<1>3. \A i \in 1..(Len(a) + Len(b)) : c[i] = IF i <= Len(a) THEN a[i] ELSE b[i - Len(a)]
  BY ConcatProperties DEF Cells
<1> HIDE DEF c
<1>4. ASSUME NEW i \in 1..Len(a) PROVE c[i] = a[i]
  <2>1. i \in 1..(Len(a) + Len(b)) /\ i <= Len(a)
    BY <1>1
  <2> QED BY <1>3, <2>1
<1>5. ASSUME NEW i \in 1..Len(b) PROVE c[Len(a) + i] = b[i]
  <2>1. /\ Len(a) + i \in 1..(Len(a) + Len(b)) /\ ~(Len(a) + i <= Len(a))
        /\ (Len(a) + i) - Len(a) = i
    BY <1>1
  <2> QED BY <1>3, <2>1
<1>6. SubSeq(c, Len(a) + 1, Len(c)) = b
  <2> DEFINE m == Len(a) + 1
             n == Len(c)
             u == SubSeq(c, m, n)
  <2>1. m \in Int /\ n \in Int /\ n - m + 1 = Len(b) /\ (m <= n <=> Len(b) > 0)
    BY <1>1, <1>2
  <2>2. \A i \in m..n : c[i] \in Nat
    BY <1>1, <1>2 DEF Cells
  <2>3. \A i \in 1..Len(b) : m + i - 1 = Len(a) + i
    BY <1>1
  <2>a. Len(u) = IF m <= n THEN n - m + 1 ELSE 0
    <3> HIDE DEF m, n
    <3> QED BY <2>1, <2>2, SubSeqProperties
  <2>4. u \in Cells /\ \A i \in 1..(n - m + 1) : u[i] = c[m + i - 1]
    <3> HIDE DEF m, n
    <3> QED BY <2>1, <2>2, SubSeqProperties DEF Cells
  <2> HIDE DEF u, m, n
  <2>5. Len(u) = Len(b) /\ \A i \in 1..Len(b) : u[i] = b[i]
    <3>1. Len(u) = Len(b)
      BY <1>1, <2>1, <2>a
    <3>2. ASSUME NEW i \in 1..Len(b) PROVE u[i] = b[i]
      <4>1. u[i] = c[m + i - 1]
        BY <2>1, <2>4
      <4>2. c[m + i - 1] = c[Len(a) + i]
        BY <2>3
      <4> QED BY <1>5, <4>1, <4>2
    <3> QED BY <3>1, <3>2
  <2>6. u = b
    BY <2>4, <2>5, SeqEqual DEF Cells
  <2> QED BY <2>6 DEF u, m, n
<1>7. IsJoined(c, a, b)
  BY <1>1, <1>2, <1>4, <1>5, <1>6 DEF IsJoined
<1> QED BY <1>7 DEF c

Byte(n) == n % ByteSize

LEMMA ByteIs ==
  ASSUME NEW n \in Nat
  PROVE  /\ Byte(n) \in Nat /\ Byte(n) < ByteSize /\ Byte(Byte(n)) = Byte(n)
         /\ n < ByteSize => Byte(n) = n
<1>1. ByteSize \in Nat /\ ByteSize > 0
  BY ReportWireAssumption
<1>2. ASSUME NEW m \in Nat, m < ByteSize PROVE m % ByteSize = m
  BY <1>1, <1>2
<1>3. n % ByteSize \in Nat /\ n % ByteSize < ByteSize
  BY <1>1
<1> QED BY <1>2, <1>3 DEF Byte

Name == Seq(Nat \ {0})

\* Where things are, in what begins with a record.
LEMMA RecordIs ==
  ASSUME NEW nm \in Name, NEW o \in TypeReport
  PROVE  Record(nm, o) \in Cells /\ Len(Record(nm, o)) = Len(nm) + 4
<1>1. Len(nm) \in Nat /\ nm \in Cells
  BY DEF Name, Cells
<1>2. <<Byte(Len(nm))>> \in Cells /\ <<o.num_queries, o.max_time, o.min_time>> \in Cells
  BY <1>1, ByteIs DEF TypeReport, Cells
<1> QED BY <1>1, <1>2 DEF Record, Byte, Cells

IsRecordThen(all, nm, o, r) ==
  /\ all \in Cells /\ Len(all) = Len(nm) + 4 + Len(r) /\ Len(nm) \in Nat
  /\ Head(all) = Byte(Len(nm))
  /\ \A i \in 1..Len(nm) : all[i + 1] = nm[i]
  /\ all[Len(nm) + 2] = o.num_queries /\ all[Len(nm) + 3] = o.max_time
  /\ all[Len(nm) + 4] = o.min_time
  /\ SubSeq(all, Len(nm) + 5, Len(all)) = r

LEMMA RecordThen ==
  ASSUME NEW nm \in Name, NEW o \in TypeReport, NEW r \in Cells
  PROVE  IsRecordThen(Record(nm, o) \o r, nm, o, r)
<1> DEFINE all == Record(nm, o) \o r
<1> DEFINE a == <<Byte(Len(nm))>>
           z == <<o.num_queries, o.max_time, o.min_time>>
<1>1. Len(nm) \in Nat /\ nm \in Cells /\ Len(r) \in Nat
  BY DEF Name, Cells
<1>2. /\ a \in Cells /\ Len(a) = 1 /\ a[1] = Byte(Len(nm))
      /\ z \in Cells /\ Len(z) = 3
      /\ z[1] = o.num_queries /\ z[2] = o.max_time /\ z[3] = o.min_time
  BY <1>1, ByteIs DEF TypeReport, Cells
<1>3. all = ((a \o nm) \o z) \o r
  BY DEF Record, Byte
<1> HIDE DEF a, z, all
<1> DEFINE an == a \o nm
           rec == an \o z
<1>4. IsJoined(an, a, nm)
  BY <1>1, <1>2, Joined
<1> HIDE DEF an
<1>5. IsJoined(rec, an, z)
  BY <1>2, <1>4, Joined DEF IsJoined
<1>6. all = rec \o r
  BY <1>3 DEF an
<1> HIDE DEF rec
<1>7. IsJoined(all, rec, r)
  <2>1. rec \in Cells
    BY <1>5 DEF IsJoined
  <2>2. IsJoined(rec \o r, rec, r)
    BY <2>1, Joined
  <2> QED BY <1>6, <2>2
<1>8. Len(an) = Len(nm) + 1 /\ Len(rec) = Len(nm) + 4
  BY <1>1, <1>2, <1>4, <1>5 DEF IsJoined
<1>9. all \in Cells /\ Len(all) = Len(nm) + 4 + Len(r)
      /\ SubSeq(all, Len(nm) + 5, Len(all)) = r
  <2>1. (Len(nm) + 4) + 1 = Len(nm) + 5
    BY <1>1
  <2> QED BY <1>7, <1>8, <2>1 DEF IsJoined
<1>10. ASSUME NEW i \in 1..(Len(nm) + 1) PROVE all[i] = an[i]
  <2>1. i \in 1..(Len(nm) + 4)
    BY <1>1
  <2>2. all[i] = rec[i]
    BY <1>7, <1>8, <2>1 DEF IsJoined
  <2> QED BY <1>5, <1>8, <2>2 DEF IsJoined
<1>11. Head(all) = Byte(Len(nm))
  <2>1. Head(all) = all[1] /\ 1 \in 1..(Len(nm) + 1)
    BY <1>1, <1>9 DEF Cells
  <2>2. an[1] = a[1]
    BY <1>2, <1>4 DEF IsJoined
  <2> QED BY <1>2, <1>10, <2>1, <2>2
<1>12. ASSUME NEW i \in 1..Len(nm) PROVE all[i + 1] = nm[i]
  <2>1. i + 1 \in 1..(Len(nm) + 1) /\ i + 1 = 1 + i
    BY <1>1
  <2>2. an[1 + i] = nm[i]
    BY <1>2, <1>4 DEF IsJoined
  <2> QED BY <1>10, <2>1, <2>2
<1>13. ASSUME NEW i \in 1..3 PROVE all[Len(nm) + 1 + i] = z[i]
  <2>1. Len(nm) + 1 + i \in 1..(Len(nm) + 4)
    BY <1>1
  <2>2. all[Len(nm) + 1 + i] = rec[Len(nm) + 1 + i]
    BY <1>7, <1>8, <2>1 DEF IsJoined
  <2>3. rec[Len(nm) + 1 + i] = z[i]
    BY <1>2, <1>5, <1>8 DEF IsJoined
  <2> QED BY <2>2, <2>3
<1>14. /\ all[Len(nm) + 2] = o.num_queries /\ all[Len(nm) + 3] = o.max_time
       /\ all[Len(nm) + 4] = o.min_time
  <2>1. /\ Len(nm) + 1 + 1 = Len(nm) + 2 /\ Len(nm) + 1 + 2 = Len(nm) + 3
        /\ Len(nm) + 1 + 3 = Len(nm) + 4 /\ 1 \in 1..3 /\ 2 \in 1..3 /\ 3 \in 1..3
    BY <1>1
  <2> QED BY <1>2, <1>13, <2>1
<1>15. IsRecordThen(all, nm, o, r)
  BY <1>1, <1>9, <1>11, <1>12, <1>14 DEF IsRecordThen
<1> QED BY <1>15 DEF all

LEMMA CStringIs ==
  ASSUME NEW nm \in Name
  PROVE  CString(nm) = nm
<1>1. {i \in 1..Len(nm) : nm[i] = 0} = {}
  BY DEF Name
<1>2. SelectInSeq(nm, LAMBDA ch : ch = 0) = 0
  BY <1>1 DEF SelectInSeq
<1> QED BY <1>2 DEF CString

\* The first n characters of a name, as they are read.
LEMMA NameRead ==
  ASSUME NEW nm \in Name, NEW all, NEW n \in 0..Len(nm),
         \A i \in 1..Len(nm) : all[i + 1] = nm[i]
  PROVE  CString(SubSeq(all, 2, n + 1)) = SubSeq(nm, 1, n)
<1>1. Len(nm) \in Nat /\ \A i \in 1..Len(nm) : nm[i] \in Nat \ {0}
  BY DEF Name
<1>2. ASSUME NEW i \in 2..(n + 1) PROVE all[i] \in Nat \ {0} /\ all[i] = nm[i - 1]
  <2>1. i - 1 \in 1..Len(nm) /\ (i - 1) + 1 = i
    BY <1>1
  <2>2. all[(i - 1) + 1] = nm[i - 1]
    BY <2>1
  <2> QED BY <1>1, <2>1, <2>2
<1>3. /\ SubSeq(all, 2, n + 1) \in Name /\ Len(SubSeq(all, 2, n + 1)) = n
      /\ \A i \in 1..n : SubSeq(all, 2, n + 1)[i] = all[i + 1]
  <2>1. 2 \in Int /\ n + 1 \in Int
    BY <1>1
  <2>2. /\ SubSeq(all, 2, n + 1) \in Seq(Nat \ {0})
        /\ Len(SubSeq(all, 2, n + 1)) = IF 2 <= n + 1 THEN (n + 1) - 2 + 1 ELSE 0
        /\ \A i \in 1..((n + 1) - 2 + 1) : SubSeq(all, 2, n + 1)[i] = all[2 + i - 1]
    BY <1>2, <2>1, SubSeqProperties
  <2>3. n \in Nat /\ (n + 1) - 2 + 1 = n /\ \A i \in 1..n : 2 + i - 1 = i + 1
    BY <1>1
  <2> QED BY <2>2, <2>3 DEF Name
<1>4. /\ SubSeq(nm, 1, n) \in Name /\ Len(SubSeq(nm, 1, n)) = n
      /\ \A i \in 1..n : SubSeq(nm, 1, n)[i] = nm[i]
  BY <1>1 DEF Name
<1>5. SubSeq(all, 2, n + 1) = SubSeq(nm, 1, n)
  <2>1. \A i \in 1..n : all[i + 1] = nm[i]
    BY <1>1
  <2> QED BY <1>3, <1>4, <2>1, SeqEqual DEF Name
<1> QED BY <1>3, <1>5, CStringIs

-----------------------------------------------------------------------------
(***************************************************************************)
(* One turn of the loop of update_from_fd().                               *)
(***************************************************************************)
Reading(all, rep) == [rest |-> all, rep |-> rep, stop |-> "no"]

\* A name that fits in its byte is read whole: its record is merged.
LEMMA ReadsShort ==
  ASSUME Named, NEW t \in Types, Len(name[t]) < ByteSize,
         NEW o \in TypeReport, NEW r \in Cells, NEW rep
  PROVE  ReadRecord(Reading(Record(name[t], o) \o r, rep))
           = Reading(r, [rep EXCEPT ![t] = QR!Merge(@, o)])
<1> DEFINE nm  == name[t]
           all == Record(nm, o) \o r
           in  == Reading(all, rep)
           len == Head(all) % ByteSize
           str == CString(SubSeq(all, 2, len + 1))
           other == [num_queries |-> all[len + 1 + 1], max_time |-> all[len + 1 + 2],
                     min_time |-> all[len + 1 + 3]]
<1>1. nm \in Name
  BY DEF Named, Name
<1> HIDE DEF nm
<1>2. /\ all \in Cells /\ Len(all) = Len(nm) + 4 + Len(r) /\ Len(nm) \in Nat
      /\ Head(all) = Byte(Len(nm))
      /\ \A i \in 1..Len(nm) : all[i + 1] = nm[i]
      /\ all[Len(nm) + 2] = o.num_queries /\ all[Len(nm) + 3] = o.max_time
      /\ all[Len(nm) + 4] = o.min_time
      /\ SubSeq(all, Len(nm) + 5, Len(all)) = r
  <2>1. IsRecordThen(all, nm, o, r)
    BY <1>1, RecordThen
  <2> HIDE DEF all
  <2> QED BY <2>1 DEF IsRecordThen
<1>3. len = Len(nm)
  <2>1. Byte(Len(nm)) = Len(nm) /\ Byte(Byte(Len(nm))) = Byte(Len(nm))
    BY <1>2, ByteIs DEF nm
  <2> QED BY <1>2, <2>1 DEF Byte
<1> HIDE DEF all
<1>4. str = nm
  <2>1. Len(nm) \in 0..Len(nm) /\ SubSeq(nm, 1, Len(nm)) = nm
    BY <1>1, <1>2, SubSeqFull DEF Name
  <2>2. CString(SubSeq(all, 2, Len(nm) + 1)) = SubSeq(nm, 1, Len(nm))
    BY <1>1, <1>2, <2>1, NameRead
  <2> QED BY <1>3, <2>1, <2>2
<1>5. TypeNamed(str) = t /\ \E u \in Types : name[u] = str
  BY <1>4, NameOf DEF nm
<1>6. all # <<>> /\ ~(Len(all) < len + 4)
  <2>1. Len(r) \in Nat /\ Len(<<>>) = 0
    BY DEF Cells
  <2> QED BY <1>2, <1>3, <2>1
<1>7. QR!Merge(rep[t], other) = QR!Merge(rep[t], o)
  <2>1. len + 1 + 1 = Len(nm) + 2 /\ len + 1 + 2 = Len(nm) + 3 /\ len + 1 + 3 = Len(nm) + 4
    BY <1>2, <1>3
  <2>2. /\ other.num_queries = o.num_queries /\ other.max_time = o.max_time
        /\ other.min_time = o.min_time
    BY <1>2, <2>1
  <2> HIDE DEF other
  <2> QED BY <2>2 DEF QR!Merge
<1>8. SubSeq(all, len + 5, Len(all)) = r
  BY <1>2, <1>3
<1>9. in.rest = all /\ in.rep = rep /\ in.stop = "no"
  BY DEF Reading
<1> HIDE DEF in
<1>10. ReadRecord(in) =
         CASE in.stop # "no" -> in
           [] in.stop = "no" /\ all = <<>> -> Stops(in, "empty")
           [] in.stop = "no" /\ all # <<>> /\ Len(all) < len + 4
                -> Stops(in, "incomplete read")
           [] OTHER -> IF \E u \in Types : name[u] = str
                       THEN [rest |-> SubSeq(all, len + 5, Len(all)),
                             rep  |-> [rep EXCEPT ![TypeNamed(str)] = QR!Merge(@, other)],
                             stop |-> "no"]
                       ELSE Stops(in, "invalid q_type")
  BY <1>9, Zenon DEF ReadRecord
<1> HIDE DEF len, str, other
<1>11. ReadRecord(in) = [rest |-> SubSeq(all, len + 5, Len(all)),
                         rep  |-> [rep EXCEPT ![TypeNamed(str)] = QR!Merge(@, other)],
                         stop |-> "no"]
  BY <1>5, <1>6, <1>9, <1>10
<1>12. [rep EXCEPT ![TypeNamed(str)] = QR!Merge(@, other)] = [rep EXCEPT ![t] = QR!Merge(@, o)]
  BY <1>5, <1>7
<1> QED BY <1>8, <1>11, <1>12 DEF in, all, nm, Reading

\* A longer one is the name of no type, unless it is cut to another's.
LEMMA ReadsLong ==
  ASSUME Named, ~CutToAnother, NEW t \in Types, ~(Len(name[t]) < ByteSize),
         NEW o \in TypeReport, NEW r \in Cells, NEW rep
  PROVE  ReadRecord(Reading(Record(name[t], o) \o r, rep)).stop \notin {"no", "empty"}
<1> DEFINE nm  == name[t]
           all == Record(nm, o) \o r
           in  == Reading(all, rep)
           len == Head(all) % ByteSize
           str == CString(SubSeq(all, 2, len + 1))
           other == [num_queries |-> all[len + 1 + 1], max_time |-> all[len + 1 + 2],
                     min_time |-> all[len + 1 + 3]]
<1>1. nm \in Name
  BY DEF Named, Name
<1> HIDE DEF nm
<1>2. /\ all \in Cells /\ Len(all) = Len(nm) + 4 + Len(r) /\ Len(nm) \in Nat
      /\ Head(all) = Byte(Len(nm))
      /\ \A i \in 1..Len(nm) : all[i + 1] = nm[i]
  <2>1. IsRecordThen(all, nm, o, r)
    BY <1>1, RecordThen
  <2> HIDE DEF all
  <2> QED BY <2>1 DEF IsRecordThen
<1> HIDE DEF all
<1>3. len = Len(nm) % ByteSize /\ len \in 0..Len(nm) /\ len < ByteSize
  <2>1. Byte(Len(nm)) \in Nat /\ Byte(Len(nm)) < ByteSize /\ Byte(Byte(Len(nm))) = Byte(Len(nm))
    BY <1>2, ByteIs
  <2>2. len = Byte(Len(nm))
    BY <1>2, <2>1 DEF Byte
  <2>3. ByteSize \in Nat /\ ~(Len(nm) < ByteSize)
    BY ReportWireAssumption DEF nm
  <2>4. Byte(Len(nm)) \in 0..Len(nm)
    BY <1>2, <2>1, <2>3
  <2> QED BY <2>1, <2>2, <2>4 DEF Byte
<1>4. str = SubSeq(nm, 1, len)
  BY <1>1, <1>2, <1>3, NameRead
<1>5. ~(\E u \in Types : name[u] = str)
  <2>1. Len(name[t]) >= ByteSize
    BY <1>2, ReportWireAssumption DEF nm
  <2> QED BY <1>3, <1>4, <2>1 DEF CutToAnother, nm
<1>6. all # <<>>
  <2>1. Len(r) \in Nat /\ Len(<<>>) = 0
    BY DEF Cells
  <2> QED BY <1>2, <2>1
<1>9. in.rest = all /\ in.rep = rep /\ in.stop = "no"
  BY DEF Reading
<1> HIDE DEF in
<1>10. ReadRecord(in) =
         CASE in.stop # "no" -> in
           [] in.stop = "no" /\ all = <<>> -> Stops(in, "empty")
           [] in.stop = "no" /\ all # <<>> /\ Len(all) < len + 4
                -> Stops(in, "incomplete read")
           [] OTHER -> IF \E u \in Types : name[u] = str
                       THEN [rest |-> SubSeq(all, len + 5, Len(all)),
                             rep  |-> [rep EXCEPT ![TypeNamed(str)] = QR!Merge(@, other)],
                             stop |-> "no"]
                       ELSE Stops(in, "invalid q_type")
  BY <1>9, Zenon DEF ReadRecord
<1> HIDE DEF len, str, other
<1>11. \/ ReadRecord(in) = Stops(in, "incomplete read")
       \/ ReadRecord(in) = Stops(in, "invalid q_type")
  BY <1>5, <1>6, <1>9, <1>10
<1>12. ASSUME NEW why PROVE Stops(in, why).stop = why
  <2>1. in = [rest |-> all, rep |-> rep, stop |-> "no"]
    BY DEF in, Reading
  <2> QED BY <2>1 DEF Stops
<1>13. ReadRecord(in).stop \notin {"no", "empty"}
  <2>1. /\ Stops(in, "incomplete read").stop = "incomplete read"
        /\ Stops(in, "invalid q_type").stop = "invalid q_type"
    BY <1>12
  <2>2. CASE ReadRecord(in) = Stops(in, "incomplete read")
    BY <2>1, <2>2
  <2>3. CASE ReadRecord(in) = Stops(in, "invalid q_type")
    BY <2>1, <2>3
  <2> QED BY <1>11, <2>2, <2>3
<1> QED BY <1>13 DEF in, all, nm

\* Once out of the loop.
LEMMA ReadsNone ==
  ASSUME NEW in, in.stop # "no"
  PROVE  ReadRecord(in) = in
  BY Zenon DEF ReadRecord

-----------------------------------------------------------------------------
(***************************************************************************)
(* A report: written, and read back.                                       *)
(***************************************************************************)
Reports == [Types -> TypeReport]

\* Its records, in the order of the names.
Recs(reports) == [n \in 1..NumTypes |-> Record(NamesInOrder[n], reports[Nth(n)])]

LEMMA RecsAre ==
  ASSUME Named, NEW reports \in Reports, NEW n \in 1..NumTypes
  PROVE  /\ Nth(n) \in Types /\ name[Nth(n)] \in Name /\ reports[Nth(n)] \in TypeReport
         /\ NamesInOrder[n] = name[Nth(n)]
         /\ Recs(reports)[n] = Record(name[Nth(n)], reports[Nth(n)])
         /\ Recs(reports)[n] \in Cells /\ Len(Recs(reports)[n]) = Len(name[Nth(n)]) + 4
         /\ Len(name[Nth(n)]) \in Nat
<1>1. Nth(n) \in Types /\ NamesInOrder[n] = name[Nth(n)]
  BY Order
<1>2. name[Nth(n)] \in Name /\ reports[Nth(n)] \in TypeReport
  BY <1>1 DEF Named, Name, Reports
<1>3. Recs(reports)[n] = Record(name[Nth(n)], reports[Nth(n)])
  BY <1>1 DEF Recs
<1>4. Len(name[Nth(n)]) \in Nat
  BY <1>2 DEF Name
<1> QED BY <1>1, <1>2, <1>3, <1>4, RecordIs

\* The buffer is the number of records, and then they.
LEMMA BufferIs ==
  ASSUME Named, NEW reports \in Reports, NEW i \in 0..NumTypes
  PROVE  \E w \in Cells : /\ Buffer(reports, i) = <<Byte(NumTypes)>> \o w
                          /\ Laid(w, Recs(reports), i)
<1> DEFINE base == <<Byte(NumTypes)>>
           recs == Recs(reports)
           Def(f) == [n \in 0..i |->
                        IF n = 0 THEN <<Cardinality(Types) % ByteSize>>
                        ELSE f[n - 1] \o Record(NamesInOrder[n],
                                                reports[TypeNamed(NamesInOrder[n])])]
           e == CHOOSE f : f = Def(f)
           step == [n \in 1..i |-> [b \in Cells |-> b \o recs[n]]]
<1>0. i \in Nat /\ NumTypes \in Nat /\ \A n \in 1..i : n \in 1..NumTypes
  BY Order
<1>1. Buffer(reports, i) = e[i]
  BY DEF Buffer
<1>2. base \in Cells /\ base = <<Cardinality(Types) % ByteSize>>
  BY <1>0, ByteIs DEF Cells, Byte, NumTypes
<1>3. \A n \in 1..i : /\ recs[n] \in Cells
                      /\ recs[n] = Record(NamesInOrder[n], reports[TypeNamed(NamesInOrder[n])])
  BY <1>0, RecsAre DEF Recs, Nth
<1> HIDE DEF base, recs
<1>4. step \in [1..i -> [Cells -> Cells]]
  <2>1. ASSUME NEW n \in 1..i, NEW b \in Cells PROVE b \o recs[n] \in Cells
    BY <1>3 DEF Cells
  <2> QED BY <2>1
<1>5. PICK g : IsSteps(g, i, Cells, base, step)
  <2> HIDE DEF step
  <2> QED BY <1>0, <1>2, <1>4, StepsExist
<1>6. g \in [0..i -> Cells] /\ g[0] = base
  BY <1>5 DEF IsSteps
<1>7. ASSUME NEW n \in 1..i PROVE g[n] = g[n - 1] \o recs[n]
  <2>1. n - 1 \in 0..i
    BY <1>0
  <2>2. g[n - 1] \in Cells
    BY <1>6, <2>1
  <2>3. g[n] = step[n][g[n - 1]]
    BY <1>5 DEF IsSteps
  <2> QED BY <2>2, <2>3
<1>8. g = Def(g)
  <2>1. ASSUME NEW n \in 0..i PROVE g[n] = Def(g)[n]
    <3>1. CASE n = 0
      BY <1>2, <1>6, <3>1
    <3>2. CASE n # 0
      <4>1. n \in 1..i
        BY <1>0, <3>2
      <4> QED BY <1>3, <1>7, <3>2, <4>1
    <3> QED BY <3>1, <3>2
  <2>2. g = [n \in 0..i |-> g[n]]
    BY <1>6
  <2> HIDE DEF step
  <2> QED BY <2>1, <2>2
<1>9. e = Def(e)
  <2> HIDE DEF Def
  <2> QED BY <1>8
<1> HIDE DEF e
<1>10. e[0] = base /\ \A n \in 1..i : e[n] = e[n - 1] \o recs[n]
  <2>1. \A n \in 0..i : e[n] = Def(e)[n]
    BY <1>9
  <2>2. 0 \in 0..i /\ \A n \in 1..i : n \in 0..i /\ n # 0
    BY <1>0
  <2> QED BY <1>2, <1>3, <2>1, <2>2
<1>11. \A n \in 0..i : e[n] = g[n]
  <2>1. \A n \in 1..i : e[n - 1] = g[n - 1] => e[n] = g[n]
    BY <1>7, <1>10
  <2>2. e[0] = g[0]
    BY <1>6, <1>10
  <2>3. i \in Nat
    BY <1>0
  <2>4. GoOnAlike(e, g, i)
    BY <2>1, <2>2 DEF GoOnAlike
  <2>5. Alike(e, g, i)
    BY <2>3, <2>4, StepsAgree
  <2> QED BY <2>5 DEF Alike
<1> HIDE DEF Def, step
<1> DEFINE T == {k \in 0..i : \E w \in Cells : g[k] = base \o w /\ Laid(w, recs, k)}
<1>12. 0 \in T
  <2>1. <<>> \in Cells /\ base \o <<>> = base
    BY <1>2, ConcatEmptySeq DEF Cells
  <2>2. g[0] = base \o <<>> /\ Laid(<<>>, recs, 0)
    BY <1>6, <2>1, LaidNone
  <2>3. 0 \in 0..i
    BY <1>0
  <2> QED BY <2>1, <2>2, <2>3
<1>13. ASSUME NEW k \in 0..(i - 1), k \in T PROVE k + 1 \in T
  <2>1. PICK w \in Cells : g[k] = base \o w /\ Laid(w, recs, k)
    BY <1>13
  <2>2. k + 1 \in 1..i /\ k + 1 \in 0..i /\ (k + 1) - 1 = k /\ k \in Nat
    BY <1>0
  <2>3. recs[k + 1] \in Cells /\ \A n \in 1..k : recs[n] = recs[n] /\ recs[n] \in Cells
    <3>1. \A n \in 1..k : n \in 1..i
      BY <1>0
    <3> QED BY <1>3, <2>2, <3>1
  <2>4. Laid(w \o recs[k + 1], recs, k + 1)
    BY <2>1, <2>2, <2>3, LaidMore
  <2>5. g[k + 1] = base \o (w \o recs[k + 1])
    <3>1. g[k + 1] = g[k] \o recs[k + 1]
      BY <1>7, <2>2
    <3>2. (base \o w) \o recs[k + 1] = base \o (w \o recs[k + 1])
      BY <1>2, <2>1, <2>3, OneByOne
    <3> QED BY <2>1, <3>1, <3>2
  <2>6. w \o recs[k + 1] \in Cells
    BY <2>1, <2>3 DEF Cells
  <2> QED BY <2>2, <2>4, <2>5, <2>6
<1>14. i \in T
  <2>1. 0..i \subseteq T
    <3> HIDE DEF T
    <3> QED BY <1>0, <1>12, <1>13, UpTo
  <2> HIDE DEF T
  <2> QED BY <1>0, <2>1
<1>15. PICK w \in Cells : g[i] = base \o w /\ Laid(w, recs, i)
  BY <1>14
<1>16. Buffer(reports, i) = base \o w
  BY <1>0, <1>1, <1>11, <1>15
<1> QED BY <1>15, <1>16 DEF base, recs

\* It holds no more records than its first byte can count.
LEMMA FewTypes ==
  ASSUME Named, NEW reports \in Reports, ReportFits(reports)
  PROVE  NumTypes < ByteSize
<1>1. NumTypes \in Nat /\ Len(NamesInOrder) = NumTypes
  BY Order
<1>2. ReportLen \in Nat /\ ByteSize \in Nat \ {0} /\ ReportLen \div 4 < ByteSize
  BY ReportWireAssumption
<1>3. CASE NumTypes = 0
  BY <1>2, <1>3
<1>4. CASE NumTypes # 0
  <2>1. NumTypes \in 1..NumTypes /\ NumTypes - 1 \in 0..NumTypes /\ NumTypes - 1 \in Nat
    BY <1>1, <1>4
  <2>2. RecordFits(NamesInOrder[NumTypes], Buffer(reports, NumTypes - 1))
    BY <1>1, <2>1 DEF ReportFits
  <2>3. PICK w \in Cells : /\ Buffer(reports, NumTypes - 1) = <<Byte(NumTypes)>> \o w
                           /\ Laid(w, Recs(reports), NumTypes - 1)
    BY <2>1, BufferIs
  <2>4. Len(w) >= 4 * (NumTypes - 1)
    <3>1. \A k \in 1..(NumTypes - 1) :
            Recs(reports)[k] \in Cells /\ Len(Recs(reports)[k]) >= 4
      <4>1. \A k \in 1..(NumTypes - 1) : k \in 1..NumTypes
        BY <1>1
      <4>2. \A n \in Nat : n + 4 >= 4
        OBVIOUS
      <4> QED BY <4>1, <4>2, RecsAre
    <3> QED BY <2>1, <2>3, <3>1, LaidLong
  <2>5. Len(Buffer(reports, NumTypes - 1)) = 1 + Len(w) /\ Len(w) \in Nat
    <3>1. <<Byte(NumTypes)>> \in Cells /\ Len(<<Byte(NumTypes)>>) = 1 /\ Len(w) \in Nat
      BY <1>1, ByteIs DEF Cells
    <3> QED BY <2>3, <3>1, Joined DEF IsJoined
  <2>6. Len(NamesInOrder[NumTypes]) \in Nat
    BY <2>1, RecsAre
  <2>7. 4 * NumTypes < ReportLen
    <3> DEFINE a == Len(w)
               b == Len(NamesInOrder[NumTypes])
    <3>1. 1 + a + b + 3 < ReportLen
      BY <2>2, <2>5 DEF RecordFits
    <3>2. a \in Nat /\ b \in Nat /\ a >= 4 * (NumTypes - 1)
      BY <2>4, <2>5, <2>6
    <3> HIDE DEF a, b
    <3> QED BY <1>1, <1>2, <3>1, <3>2
  <2>8. NumTypes <= ReportLen \div 4
    BY <1>1, <1>2, <2>7
  <2> QED BY <1>1, <1>2, <2>8
<1> QED BY <1>3, <1>4

\* The loop of update_from_fd(), turn by turn.
IsLoop(g, n) ==
  /\ Head(wire) = n /\ g = [k \in 0..n |-> g[k]] /\ g[0] = Reading(Tail(wire), qr[Reporter])
  /\ \A k \in 1..n : g[k] = ReadRecord(g[k - 1])

LEMMA ReceivedIs ==
  ASSUME NEW m \in Nat, NEW g, IsLoop(g, m)
  PROVE  Received = g[m]
<1> DEFINE Def(f) == [k \in 0..Head(wire) |->
                        IF k = 0
                        THEN [rest |-> Tail(wire), rep |-> qr[Reporter], stop |-> "no"]
                        ELSE ReadRecord(f[k - 1])]
           e == CHOOSE f : f = Def(f)
<1>1. Received = e[m]
  BY DEF IsLoop, Received
<1>2. \A f : Def(f) = [k \in 0..m |-> IF k = 0 THEN g[0] ELSE ReadRecord(f[k - 1])]
  BY DEF IsLoop, Reading
<1>a. /\ g[0] = Reading(Tail(wire), qr[Reporter])
      /\ \A k \in 1..m : g[k] = ReadRecord(g[k - 1])
  BY DEF IsLoop
<1>3. g = Def(g)
  <2>1. ASSUME NEW k \in 0..m PROVE g[k] = IF k = 0 THEN g[0] ELSE ReadRecord(g[k - 1])
    <3>1. CASE k = 0
      BY <3>1
    <3>2. CASE k # 0
      <4>1. k \in 1..m
        BY <3>2
      <4> QED BY <1>a, <3>2, <4>1
    <3> QED BY <3>1, <3>2
  <2>2. g = [k \in 0..m |-> g[k]]
    BY DEF IsLoop
  <2> HIDE DEF Def
  <2> QED BY <1>2, <2>1, <2>2
<1>4. e = Def(e)
  <2> HIDE DEF Def
  <2> QED BY <1>3
<1> HIDE DEF e, Def
<1>5. e[0] = g[0] /\ \A k \in 1..m : e[k] = ReadRecord(e[k - 1])
  <2>1. \A k \in 0..m : e[k] = IF k = 0 THEN g[0] ELSE ReadRecord(e[k - 1])
    BY <1>2, <1>4
  <2>2. 0 \in 0..m /\ \A k \in 1..m : k \in 0..m /\ k # 0
    OBVIOUS
  <2> QED BY <2>1, <2>2
<1>6. \A n \in 0..m : e[n] = g[n]
  <2>1. \A n \in 1..m : e[n - 1] = g[n - 1] => e[n] = g[n]
    BY <1>5, <1>a
  <2>2. e[0] = g[0]
    BY <1>5
  <2>3. m \in Nat
    OBVIOUS
  <2>4. GoOnAlike(e, g, m)
    BY <2>1, <2>2 DEF GoOnAlike
  <2>5. Alike(e, g, m)
    BY <2>3, <2>4, StepsAgree
  <2> QED BY <2>5 DEF Alike
<1>7. m \in 0..m
  OBVIOUS
<1> QED BY <1>1, <1>6, <1>7

\* A report with the first k records of another one merged into it.
Taken(rep, other, k) ==
  [t \in Types |-> IF \E n \in 1..k : Nth(n) = t THEN QR!Merge(rep[t], other[t]) ELSE rep[t]]

LEMMA TakenOne ==
  ASSUME Named, NEW rep, NEW other, NEW k \in 1..NumTypes
  PROVE  Taken(rep, other, k) =
           [Taken(rep, other, k - 1) EXCEPT ![Nth(k)] = QR!Merge(@, other[Nth(k)])]
<1> DEFINE old == Taken(rep, other, k - 1)
           new == Taken(rep, other, k)
           u == Nth(k)
<1>1. u \in Types /\ NumTypes \in Nat
  BY Order
<1>2. \A n \in 1..(k - 1) : Nth(n) # u
  <2>1. \A n \in 1..(k - 1) : n \in 1..NumTypes /\ n # k
    BY <1>1
  <2> QED BY <2>1, Order
<1>3. ASSUME NEW t \in Types, t # u
      PROVE  (\E n \in 1..k : Nth(n) = t) <=> (\E n \in 1..(k - 1) : Nth(n) = t)
  <2>1. \A n \in 1..k : n \in 1..(k - 1) \/ n = k
    OBVIOUS
  <2>2. \A n \in 1..(k - 1) : n \in 1..k
    OBVIOUS
  <2> QED BY <1>3, <2>1, <2>2
<1>4. ASSUME NEW t \in Types
      PROVE  new[t] = [old EXCEPT ![u] = QR!Merge(@, other[u])][t]
  <2>1. CASE t = u
    <3>1. k \in 1..k
      OBVIOUS
    <3>2. new[u] = QR!Merge(rep[u], other[u])
      BY <1>1, <3>1 DEF Taken
    <3>3. old[u] = rep[u] /\ u \in DOMAIN old
      BY <1>1, <1>2 DEF Taken
    <3> HIDE DEF old, new, u
    <3> QED BY <2>1, <3>2, <3>3
  <2>2. CASE t # u
    <3>1. new[t] = old[t] /\ t \in DOMAIN old
      BY <1>3, <2>2 DEF Taken
    <3> HIDE DEF old, new, u
    <3> QED BY <2>2, <3>1
  <2> QED BY <2>1, <2>2
<1>5. DOMAIN old = Types /\ new = [t \in Types |-> new[t]]
  BY DEF Taken
<1> HIDE DEF old, new, u
<1>6. new = [old EXCEPT ![u] = QR!Merge(@, other[u])]
  BY <1>4, <1>5
<1> QED BY <1>6 DEF old, new, u

LEMMA TakenAll ==
  ASSUME Named, NEW rep \in Reports, NEW other
  PROVE  /\ Taken(rep, other, 0) = rep
         /\ Taken(rep, other, NumTypes) = [t \in Types |-> QR!Merge(rep[t], other[t])]
<1>1. \A t \in Types : \E n \in 1..NumTypes : Nth(n) = t
  BY Order
<1>2. Taken(rep, other, 0) = [t \in Types |-> rep[t]]
  BY DEF Taken
<1>3. Taken(rep, other, 0) = rep
  BY <1>2 DEF Reports
<1> QED BY <1>1, <1>3 DEF Taken

\* What is read of a report: all of it, or there is a name that is too long.
LEMMA ReadIs ==
  ASSUME Named, ~CutToAnother, qr[Reporter] \in Reports,
         NEW other \in Reports, ReportFits(other),
         NEW more \in Cells, wire = Buffer(other, NumTypes) \o more
  PROVE  /\ Received.stop \in {"no", "empty"} =>
              Received = Reading(more, [t \in Types |-> QR!Merge(qr[Reporter][t], other[t])])
         /\ ShortNames => Received.stop = "no"
<1> DEFINE N == NumTypes
           mine == qr[Reporter]
           all == [t \in Types |-> QR!Merge(mine[t], other[t])]
           Long == {n \in 1..N : ~(Len(name[Nth(n)]) < ByteSize)}
<1>1. N \in Nat /\ Byte(N) = N /\ N \in 0..N
  BY Order, FewTypes, ByteIs
<1>2. PICK w \in Cells : Buffer(other, N) = <<N>> \o w /\ Laid(w, Recs(other), N)
  BY <1>1, BufferIs
<1>3. PICK rest : IsLaid(rest, w, Recs(other), N)
  BY <1>2 DEF Laid
<1> DEFINE Good(k) == Reading(rest[k] \o more, Taken(mine, other, k))
<1>4. Head(wire) = N /\ Tail(wire) = w \o more
  <2>1. <<N>> \in Cells /\ w \o more \in Cells /\ Len(<<N>>) = 1
    BY <1>1, <1>2 DEF Cells
  <2>2. wire = <<N>> \o (w \o more)
    BY <1>2, <2>1, OneByOne
  <2>3. IsJoined(wire, <<N>>, w \o more)
    BY <2>1, <2>2, Joined
  <2>4. wire \in Cells /\ wire[1] = N /\ SubSeq(wire, 2, Len(wire)) = w \o more /\ Len(wire) > 0
    BY <2>1, <2>3 DEF IsJoined
  <2>5. wire # <<>> /\ Head(wire) = wire[1]
    BY <2>4 DEF Cells
  <2> QED BY <2>4, <2>5, TailIsSubSeq DEF Cells
<1>5. Good(0) = Reading(Tail(wire), qr[Reporter])
  <2>1. Taken(mine, other, 0) = mine
    BY TakenAll
  <2>2. rest[0] = w
    BY <1>3 DEF IsLaid
  <2> QED BY <1>4, <2>1, <2>2
<1>6. Good(N) = Reading(more, all)
  <2>1. Taken(mine, other, N) = all
    BY TakenAll
  <2>2. rest[N] = <<>> /\ <<>> \o more = more
    BY <1>3, ConcatEmptySeq DEF IsLaid, Cells
  <2> QED BY <2>1, <2>2
<1>7. ASSUME NEW k \in 1..N
      PROVE  /\ Nth(k) \in Types /\ other[Nth(k)] \in TypeReport /\ rest[k] \o more \in Cells
             /\ Good(k - 1) = Reading(Record(name[Nth(k)], other[Nth(k)]) \o (rest[k] \o more),
                                      Taken(mine, other, k - 1))
  <2>1. /\ Nth(k) \in Types /\ other[Nth(k)] \in TypeReport
        /\ Recs(other)[k] = Record(name[Nth(k)], other[Nth(k)]) /\ Recs(other)[k] \in Cells
    BY RecsAre
  <2>2. rest[k - 1] = Recs(other)[k] \o rest[k] /\ rest[k] \in Cells
    <3>1. k \in 0..N
      BY <1>1
    <3> QED BY <1>3, <3>1 DEF IsLaid
  <2>3. rest[k - 1] \o more = Recs(other)[k] \o (rest[k] \o more)
    <3>1. (Recs(other)[k] \o rest[k]) \o more = Recs(other)[k] \o (rest[k] \o more)
      BY <2>1, <2>2, OneByOne
    <3> QED BY <2>2, <3>1
  <2> QED BY <2>1, <2>2, <2>3 DEF Cells
<1>8. ASSUME NEW k \in 1..N, Len(name[Nth(k)]) < ByteSize
      PROVE  ReadRecord(Good(k - 1)) = Good(k)
  <2>1. ReadRecord(Good(k - 1)) =
          Reading(rest[k] \o more,
                  [Taken(mine, other, k - 1) EXCEPT ![Nth(k)] = QR!Merge(@, other[Nth(k)])])
    <3> DEFINE t == Nth(k)
               o == other[t]
               r == rest[k] \o more
               rep == Taken(mine, other, k - 1)
    <3>1. t \in Types /\ o \in TypeReport /\ r \in Cells /\ Len(name[t]) < ByteSize
          /\ Good(k - 1) = Reading(Record(name[t], o) \o r, rep)
      BY <1>7, <1>8
    <3> HIDE DEF t, r, rep, o, Good
    <3>2. ReadRecord(Good(k - 1)) = Reading(r, [rep EXCEPT ![t] = QR!Merge(@, o)])
      BY <3>1, ReadsShort
    <3> QED BY <3>2 DEF t, r, rep, o
  <2> QED BY <2>1, TakenOne
<1>9. ASSUME NEW k \in 1..N, ~(Len(name[Nth(k)]) < ByteSize)
      PROVE  ReadRecord(Good(k - 1)).stop \notin {"no", "empty"}
  <2> DEFINE t == Nth(k)
             o == other[t]
             r == rest[k] \o more
             rep == Taken(mine, other, k - 1)
  <2>1. t \in Types /\ o \in TypeReport /\ r \in Cells /\ ~(Len(name[t]) < ByteSize)
        /\ Good(k - 1) = Reading(Record(name[t], o) \o r, rep)
    BY <1>7, <1>9
  <2> HIDE DEF t, r, rep, o, Good
  <2> QED BY <2>1, ReadsLong
<1>10. CASE Long = {}
  <2> DEFINE g == [k \in 0..N |-> Good(k)]
  <2>1. ASSUME NEW k \in 1..N PROVE g[k] = ReadRecord(g[k - 1])
    <3>1. g[k] = Good(k) /\ g[k - 1] = Good(k - 1)
      BY <1>1
    <3>2. Len(name[Nth(k)]) < ByteSize
      BY <1>10
    <3> HIDE DEF g, Good
    <3> QED BY <1>8, <3>1, <3>2
  <2>2. g[0] = Good(0) /\ g[N] = Good(N) /\ g = [k \in 0..N |-> g[k]]
    BY <1>1
  <2> HIDE DEF g, Good
  <2>3. Received = g[N]
    <3>1. IsLoop(g, N)
      BY <1>4, <1>5, <2>1, <2>2 DEF IsLoop
    <3> QED BY <1>1, <3>1, ReceivedIs
  <2>4. Received = Reading(more, all)
    BY <1>6, <2>2, <2>3
  <2> QED BY <2>4 DEF Reading
<1>11. CASE Long # {}
  <2>1. PICK k0 \in Long : \A n \in Long : k0 <= n
    <3>1. Long \in SUBSET Nat
      BY <1>1
    <3> HIDE DEF Long
    <3> QED BY <1>11, <3>1, LeastNat
  <2>2. k0 \in 1..N /\ ~(Len(name[Nth(k0)]) < ByteSize)
    BY <2>1
  <2> DEFINE bad == ReadRecord(Good(k0 - 1))
             g == [k \in 0..N |-> IF k < k0 THEN Good(k) ELSE bad]
  <2>3. bad.stop \notin {"no", "empty"}
    <3> HIDE DEF Good
    <3> QED BY <1>9, <2>2
  <2> HIDE DEF Good
  <2>4. ASSUME NEW k \in 1..N PROVE g[k] = ReadRecord(g[k - 1])
    <3>1. CASE k < k0
      <4>1. g[k] = Good(k) /\ g[k - 1] = Good(k - 1)
        BY <1>1, <2>2, <3>1
      <4>2. Len(name[Nth(k)]) < ByteSize
        <5>1. k \notin Long
          BY <1>1, <2>1, <2>2, <3>1
        <5> QED BY <5>1
      <4> QED BY <1>8, <4>1, <4>2
    <3>2. CASE k = k0
      <4>1. g[k] = bad /\ g[k - 1] = Good(k0 - 1)
        BY <1>1, <2>2, <3>2
      <4> QED BY <4>1
    <3>3. CASE k > k0
      <4>1. g[k] = bad /\ g[k - 1] = bad
        BY <1>1, <2>2, <3>3
      <4>2. ReadRecord(bad) = bad
        <5> HIDE DEF bad
        <5> QED BY <2>3, ReadsNone
      <4> QED BY <4>1, <4>2
    <3> QED BY <1>1, <2>2, <3>1, <3>2, <3>3
  <2>5. g[0] = Good(0) /\ g[N] = bad /\ g = [k \in 0..N |-> g[k]]
    BY <1>1, <2>2
  <2> HIDE DEF g, bad
  <2>6. Received = g[N]
    <3>1. IsLoop(g, N)
      BY <1>4, <1>5, <2>4, <2>5 DEF IsLoop
    <3> QED BY <1>1, <3>1, ReceivedIs
  <2>7. ~ShortNames
    BY <1>7, <2>2 DEF ShortNames
  <2> QED BY <2>3, <2>5, <2>6, <2>7
<1> QED BY <1>10, <1>11

-----------------------------------------------------------------------------
(***************************************************************************)
(* The invariant of the pipe: what is in it are the reports of its         *)
(* senders as they are now, one after the other.                           *)
(***************************************************************************)
Sheet == [c \in Smackers |-> Buffer(qr[c], NumTypes)]
Fitting == {c \in Smackers : ReportFits(qr[c])}

SendersInv ==
  /\ senders \in Seq(Smackers)
  /\ \A i, j \in 1..Len(senders) : senders[i] = senders[j] => i = j
  /\ ToSet(senders) \subseteq Fitting \ merged

Sheets == [n \in 1..Len(senders) |-> Sheet[senders[n]]]

WireInv == Laid(wire, Sheets, Len(senders))

Faithful ==
  /\ ReportInv /\ SendersInv /\ WireInv
  /\ ShortNames => Reporter \notin dead

\* With a name cut to another's, nothing is said of the reports.
WireIInv == name \in Namings /\ (CutToAnother \/ Faithful)

LEMMA ReportsAre ==
  ASSUME ReportInv, NEW c \in QR!Clients
  PROVE  qr[c] \in Reports
  BY DEF ReportInv, Values, Reports

LEMMA SheetIs ==
  ASSUME Named, ReportInv, NEW c \in Smackers
  PROVE  Sheet[c] = Buffer(qr[c], NumTypes) /\ Sheet[c] \in Cells
<1>1. Sheet[c] = Buffer(qr[c], NumTypes)
  BY DEF Sheet
<1>2. qr[c] \in Reports /\ NumTypes \in 0..NumTypes /\ NumTypes \in Nat
  BY ClientsAre, ReportsAre, Order
<1>3. PICK w \in Cells : Buffer(qr[c], NumTypes) = <<Byte(NumTypes)>> \o w
  BY <1>2, BufferIs
<1>4. <<Byte(NumTypes)>> \in Cells
  BY <1>2, ByteIs DEF Cells
<1> QED BY <1>1, <1>3, <1>4 DEF Cells

\* The buffer of a report that stays is what it was.
LEMMA SheetStays ==
  ASSUME name' = name, NEW c \in Smackers, qr'[c] = qr[c]
  PROVE  Sheet'[c] = Sheet[c] /\ (c \in Fitting' <=> c \in Fitting)
<1>1. NamesInOrder' = NamesInOrder
  BY DEF NamesInOrder
<1>2. \A nm : TypeNamed(nm)' = TypeNamed(nm)
  BY DEF TypeNamed
<1>3. \A i : Buffer(qr[c], i)' = Buffer(qr[c], i)
  BY DEF Buffer, NamesInOrder, TypeNamed
<1>4. ReportFits(qr[c])' <=> ReportFits(qr[c])
  BY <1>1, <1>3 DEF ReportFits, RecordFits
<1> QED BY <1>3, <1>4 DEF Sheet, Fitting

LEMMA SendersAre ==
  ASSUME SendersInv
  PROVE  /\ Len(senders) \in Nat
         /\ ToSet(senders) = {senders[n] : n \in 1..Len(senders)}
         /\ \A n \in 1..Len(senders) : senders[n] \in Smackers
         /\ ToSet(senders) \subseteq Smackers
         /\ \A c \in ToSet(senders) : c \in Fitting /\ c \notin merged
  BY DEF SendersInv, ToSet

\* A shot changes no report that has been written.
LEMMA FireStep ==
  ASSUME Named, Faithful, NEW c \in QR!Clients, Fire(c)
  PROVE  Faithful' /\ QR!Next
<1>1. PICK t \in Types, q \in Times : QR!Fire(c, t, q)
  BY DEF Fire
<1>2. ReportInv'
  BY <1>1, FireReport DEF Faithful
<1>3. /\ name' = name /\ wire' = wire /\ senders' = senders /\ dead' = dead
      /\ c \notin ToSet(senders) /\ merged' = merged
      /\ qr' = [qr EXCEPT ![c][t] = QR!Update(@, q)]
  BY <1>1 DEF Fire, QR!Fire
<1>4. \A b \in ToSet(senders) : qr'[b] = qr[b]
  BY <1>3, ClientsAre, SendersAre DEF Faithful, ReportInv, Values
<1>5. \A b \in ToSet(senders) : Sheet'[b] = Sheet[b] /\ (b \in Fitting' <=> b \in Fitting)
  BY <1>3, <1>4, SendersAre, SheetStays DEF Faithful
<1>6. SendersInv'
  BY <1>3, <1>5, SendersAre DEF Faithful, SendersInv, ToSet
<1>7. WireInv'
  <2>1. Sheets' = Sheets
    BY <1>3, <1>5, SendersAre DEF Sheets, Faithful
  <2> QED BY <1>3, <2>1 DEF Faithful, WireInv
<1>8. ShortNames' => Reporter \notin dead'
  BY <1>3 DEF Faithful, ShortNames
<1>9. QR!Next
  BY <1>1 DEF QR!Next
<1> QED BY <1>2, <1>6, <1>7, <1>8, <1>9 DEF Faithful

\* Nothing of QueryReport has changed.
LEMMA ReportStays ==
  ASSUME ReportInv, qr' = qr, shots' = shots, merged' = merged
  PROVE  ReportInv'
<1>1. (QR!Counted)' = QR!Counted
  BY DEF QR!Counted
<1>2. Values' /\ OwnReports'
  BY DEF ReportInv, Values, OwnReports
<1>3. SumsUp(qr[Reporter], shots, QR!Counted)'
  BY <1>1 DEF ReportInv
<1> QED BY <1>2, <1>3 DEF ReportInv

LEMMA FdSendStep ==
  ASSUME Named, Faithful, NEW c \in Smackers, FdSend(c)
  PROVE  Faithful' /\ QR!Next
<1>1. /\ qr' = qr /\ shots' = shots /\ merged' = merged /\ name' = name /\ dead' = dead
      /\ wire' = wire \o Buffer(qr[c], NumTypes) /\ senders' = Append(senders, c)
      /\ c \notin ToSet(senders) /\ c \notin merged /\ ReportFits(qr[c])
  BY DEF FdSend, CanSend, NumTypes
<1>2. ReportInv'
  BY <1>1, ReportStays DEF Faithful
<1>3. Sheet' = Sheet /\ Fitting' = Fitting
  <2>1. \A b \in Smackers : Sheet'[b] = Sheet[b] /\ (b \in Fitting' <=> b \in Fitting)
    BY <1>1, SheetStays
  <2>2. DOMAIN Sheet = Smackers /\ DOMAIN Sheet' = Smackers
        /\ Sheet = [b \in Smackers |-> Sheet[b]] /\ Sheet' = [b \in Smackers |-> Sheet'[b]]
    BY DEF Sheet
  <2>3. Fitting \subseteq Smackers /\ Fitting' \subseteq Smackers
    BY DEF Fitting
  <2> QED BY <2>1, <2>2, <2>3
<1>4. /\ senders \in Seq(Smackers) /\ Len(senders) \in Nat
      /\ senders' \in Seq(Smackers) /\ Len(senders') = Len(senders) + 1
      /\ \A n \in 1..Len(senders) : senders'[n] = senders[n]
      /\ senders'[Len(senders) + 1] = c
  BY <1>1 DEF Faithful, SendersInv
<1>5. /\ ToSet(senders') = ToSet(senders) \cup {c}
      /\ \A n \in 1..Len(senders) : senders[n] # c
  <2>1. ToSet(senders) = {senders[n] : n \in 1..Len(senders)}
        /\ ToSet(senders') = {senders'[n] : n \in 1..(Len(senders) + 1)}
    BY <1>4 DEF ToSet
  <2>2. \A n \in 1..(Len(senders) + 1) : n \in 1..Len(senders) \/ n = Len(senders) + 1
    BY <1>4
  <2>3. \A n \in 1..Len(senders) : n \in 1..(Len(senders) + 1)
    BY <1>4
  <2>4. Len(senders) + 1 \in 1..(Len(senders) + 1)
    BY <1>4
  <2> QED BY <1>1, <1>4, <2>1, <2>2, <2>3, <2>4
<1>6. SendersInv'
  <2>1. ASSUME NEW i \in 1..Len(senders'), NEW j \in 1..Len(senders'), senders'[i] = senders'[j]
        PROVE  i = j
    <3>1. i \in 1..Len(senders) \/ i = Len(senders) + 1
      BY <1>4
    <3>2. j \in 1..Len(senders) \/ j = Len(senders) + 1
      BY <1>4
    <3> QED BY <1>4, <1>5, <2>1, <3>1, <3>2 DEF Faithful, SendersInv
  <2>2. ToSet(senders') \subseteq Fitting' \ merged'
    BY <1>1, <1>3, <1>5 DEF Faithful, SendersInv, Fitting
  <2> QED BY <1>4, <2>1, <2>2 DEF SendersInv
<1>7. WireInv'
  <2>1. \A n \in 1..Len(senders) : Sheets[n] \in Cells
    BY SendersAre, SheetIs DEF Sheets, Faithful
  <2>2. Sheets'[Len(senders) + 1] = Buffer(qr[c], NumTypes)
    BY <1>3, <1>4, SheetIs DEF Sheets, Faithful
  <2>3. \A n \in 1..Len(senders) : Sheets'[n] = Sheets[n]
    <3>1. \A n \in 1..Len(senders) : n \in 1..Len(senders')
      BY <1>4
    <3> QED BY <1>3, <1>4, <3>1 DEF Sheets
  <2>4. Buffer(qr[c], NumTypes) \in Cells
    BY SheetIs DEF Faithful
  <2> DEFINE f == Sheets
             g == Sheets'
             w == wire
             more == Buffer(qr[c], NumTypes)
             n == Len(senders)
  <2>5. /\ n \in Nat /\ more \in Cells /\ Laid(w, f, n)
        /\ (\A k \in 1..n : g[k] = f[k] /\ f[k] \in Cells) /\ g[n + 1] = more
    BY <1>4, <2>1, <2>2, <2>3, <2>4 DEF Faithful, WireInv
  <2>6. Laid(w \o more, g, n + 1)
    <3> HIDE DEF f, g, w, more, n
    <3> QED BY <2>5, LaidMore
  <2> QED BY <1>1, <1>4, <2>6 DEF WireInv
<1>8. ShortNames' => Reporter \notin dead'
  BY <1>1 DEF Faithful, ShortNames
<1>9. QR!Next
  BY <1>1, <1>5 DEF QR!Next, QR!FdSend
<1> QED BY <1>2, <1>6, <1>7, <1>8, <1>9 DEF Faithful

\* The first report in the pipe, and what is read of it.
LEMMA FirstIs ==
  ASSUME Named, ~CutToAnother, Faithful, CanRead
  PROVE  /\ Received.stop \in {"no", "empty"} =>
              /\ Received.rep = [t \in Types |->
                                   QR!Merge(qr[Reporter][t], qr[Head(senders)][t])]
              /\ Laid(Received.rest, [n \in 1..(Len(senders) - 1) |-> Sheet[senders[n + 1]]],
                      Len(senders) - 1)
         /\ ShortNames => Received.stop = "no"
<1> DEFINE c == Head(senders)
           m == Len(senders) - 1
           g == [n \in 1..m |-> Sheet[senders[n + 1]]]
<1>1. /\ senders \in Seq(Smackers) /\ Len(senders) \in Nat /\ m \in Nat /\ m + 1 = Len(senders)
      /\ c = senders[1] /\ 1 \in 1..Len(senders)
  BY DEF CanRead, Faithful, SendersInv
<1>2. c \in Smackers /\ c \in Fitting /\ c \in QR!Clients
  BY <1>1, ClientsAre, SendersAre DEF Faithful
<1>3. Sheets[1] = Sheet[c] /\ \A k \in 1..m : g[k] = Sheets[k + 1]
  <2>1. \A k \in 1..m : k + 1 \in 1..Len(senders)
    BY <1>1
  <2> QED BY <1>1, <2>1 DEF Sheets
<1>4. Laid(wire, Sheets, m + 1)
  BY <1>1 DEF Faithful, WireInv
<1> HIDE DEF c, g, m
<1>5. PICK more \in Cells : wire = Sheets[1] \o more /\ Laid(more, g, m)
  BY <1>1, <1>3, <1>4, LaidFirst
<1>6. wire = Buffer(qr[c], NumTypes) \o more
  BY <1>2, <1>3, <1>5, SheetIs DEF Faithful
<1>7. qr[Reporter] \in Reports /\ qr[c] \in Reports /\ ReportFits(qr[c])
  BY <1>2, ClientsAre, ReportsAre DEF Faithful, Fitting
<1> DEFINE all == [t \in Types |-> QR!Merge(qr[Reporter][t], qr[c][t])]
<1>8. /\ Received.stop \in {"no", "empty"} => Received = Reading(more, all)
      /\ ShortNames => Received.stop = "no"
  BY <1>6, <1>7, ReadIs
<1>9. Received.stop \in {"no", "empty"} => Received.rest = more /\ Received.rep = all
  BY <1>8 DEF Reading
<1>10. Received.stop \in {"no", "empty"} => Laid(Received.rest, g, m)
  BY <1>5, <1>9
<1> QED BY <1>8, <1>9, <1>10 DEF c, g, m

LEMMA UpdateStep ==
  ASSUME Named, ~CutToAnother, Faithful, UpdateFromFd
  PROVE  Faithful' /\ QR!Next
<1> DEFINE c == Head(senders)
           m == Len(senders) - 1
<1>1. /\ CanRead /\ Received.stop \in {"no", "empty"}
      /\ qr' = [qr EXCEPT ![Reporter] = Received.rep] /\ wire' = Received.rest
      /\ senders' = Tail(senders) /\ merged' = merged \cup {c}
      /\ shots' = shots /\ name' = name /\ dead' = dead
  BY DEF UpdateFromFd
<1>2. /\ Received.rep = [t \in Types |-> QR!Merge(qr[Reporter][t], qr[c][t])]
      /\ Laid(wire', [n \in 1..m |-> Sheet[senders[n + 1]]], m)
  BY <1>1, FirstIs
<1>3. /\ senders \in Seq(Smackers) /\ Len(senders) \in Nat /\ m \in Nat /\ m + 1 = Len(senders)
      /\ c = senders[1] /\ 1 \in 1..Len(senders)
      /\ senders' \in Seq(Smackers) /\ Len(senders') = m
      /\ \A n \in 1..m : senders'[n] = senders[n + 1] /\ n + 1 \in 1..Len(senders) /\ n + 1 # 1
  <2>1. senders # <<>>
    BY <1>1 DEF CanRead
  <2> QED BY <1>1, <2>1 DEF Faithful, SendersInv
<1>4. c \in Smackers /\ c \in ToSet(senders) /\ c \notin merged /\ c # Reporter
  BY <1>3, ClientsAre, SendersAre DEF Faithful
<1>5. ToSet(senders') = ToSet(senders) \ {c}
  <2>1. ToSet(senders) = {senders[n] : n \in 1..Len(senders)}
        /\ ToSet(senders') = {senders'[n] : n \in 1..m}
    BY <1>3 DEF ToSet
  <2>2. \A n \in 1..m : senders[n + 1] # c
    BY <1>3 DEF Faithful, SendersInv
  <2>3. \A n \in 1..Len(senders) : n # 1 => n - 1 \in 1..m /\ (n - 1) + 1 = n
    BY <1>3
  <2>4. ASSUME NEW b \in ToSet(senders), b # c PROVE b \in ToSet(senders')
    <3>1. PICK n \in 1..Len(senders) : senders[n] = b
      BY <2>1
    <3>2. n - 1 \in 1..m /\ senders'[n - 1] = b
      BY <1>3, <2>3, <2>4, <3>1
    <3> QED BY <2>1, <3>2
  <2>5. ASSUME NEW b \in ToSet(senders') PROVE b \in ToSet(senders) /\ b # c
    <3>1. PICK n \in 1..m : senders'[n] = b
      BY <2>1
    <3> QED BY <1>3, <2>1, <2>2, <3>1
  <2> QED BY <2>4, <2>5
<1>6. QR!UpdateFromFd(c)
  <2>1. qr' = [qr EXCEPT ![Reporter] = [t \in Types |-> QR!Merge(@[t], qr[c][t])]]
    BY <1>1, <1>2
  <2> QED BY <1>1, <1>4, <1>5, <2>1 DEF QR!UpdateFromFd
<1>7. ReportInv'
  BY <1>4, <1>6, MergeReport DEF Faithful
<1>8. \A b \in Smackers : qr'[b] = qr[b]
  BY <1>1, ClientsAre DEF Faithful, ReportInv, Values
<1>9. \A b \in Smackers : Sheet'[b] = Sheet[b] /\ (b \in Fitting' <=> b \in Fitting)
  BY <1>1, <1>8, SheetStays
<1>10. SendersInv'
  <2>1. ASSUME NEW i \in 1..Len(senders'), NEW j \in 1..Len(senders'), senders'[i] = senders'[j]
        PROVE  i = j
    <3>1. i + 1 = j + 1
      BY <1>3, <2>1 DEF Faithful, SendersInv
    <3> QED BY <3>1
  <2>2. ToSet(senders') \subseteq Fitting' \ merged'
    BY <1>1, <1>5, <1>9, SendersAre DEF Faithful
  <2> QED BY <1>3, <2>1, <2>2 DEF SendersInv
<1>11. WireInv'
  <2>1. Sheets' = [n \in 1..m |-> Sheet[senders[n + 1]]]
    <3>1. \A n \in 1..m : Sheet'[senders'[n]] = Sheet[senders[n + 1]]
      BY <1>3, <1>9
    <3> QED BY <1>3, <3>1 DEF Sheets
  <2> QED BY <1>2, <1>3, <2>1 DEF WireInv
<1>12. ShortNames' => Reporter \notin dead'
  BY <1>1 DEF Faithful, ShortNames
<1>13. QR!Next
  BY <1>4, <1>6 DEF QR!Next
<1> QED BY <1>7, <1>10, <1>11, <1>12, <1>13 DEF Faithful

\* Nothing but who is dead has changed.
LEMMA DeadStep ==
  ASSUME Named, Faithful, UNCHANGED <<qr, shots, merged, name, wire, senders>>,
         ShortNames => Reporter \notin dead'
  PROVE  Faithful' /\ UNCHANGED QR!vars
<1>1. ReportInv'
  BY ReportStays DEF Faithful
<1>2. \A b \in Smackers : Sheet'[b] = Sheet[b] /\ (b \in Fitting' <=> b \in Fitting)
  BY SheetStays
<1>3. SendersInv'
  BY <1>2, SendersAre DEF Faithful, SendersInv, ToSet
<1>4. WireInv'
  <2>1. Sheets' = Sheets
    BY <1>2, SendersAre DEF Sheets, Faithful
  <2> QED BY <2>1 DEF Faithful, WireInv
<1>5. ShortNames' => Reporter \notin dead'
  BY DEF ShortNames
<1> QED BY <1>1, <1>3, <1>4, <1>5 DEF Faithful, QR!vars

-----------------------------------------------------------------------------
(***************************************************************************)
(* The theorems.                                                           *)
(***************************************************************************)
\* A short name is not cut.
LEMMA ShortIsWhole ==
  ASSUME Named, ShortNames
  PROVE  ~CutToAnother
<1>1. \A t \in Types : Len(name[t]) \in Nat /\ Len(name[t]) < ByteSize
  BY DEF Named, ShortNames
<1>2. \A n \in Nat : n < ByteSize => ~(n >= ByteSize)
  BY ReportWireAssumption
<1> QED BY <1>1, <1>2 DEF CutToAnother

LEMMA InitInv == ASSUME Init PROVE WireIInv
<1>1. ReportInv
  BY InitReport DEF Init
<1>2. SendersInv
  BY DEF Init, SendersInv, ToSet
<1>3. WireInv
  <2>1. wire = <<>> /\ Len(senders) = 0
    BY DEF Init
  <2> QED BY <2>1, LaidNone DEF WireInv
<1> QED BY <1>1, <1>2, <1>3 DEF Init, WireIInv, Faithful

\* Every step keeps the invariant, and is one of QueryReport.
LEMMA StepInv ==
  ASSUME WireIInv, [Next]_vars
  PROVE  WireIInv' /\ [ShortNames => QR!Next]_QR!vars
<1>1. name' = name /\ Named
  <2>1. name' = name
    BY DEF Next, vars, Fire, FdSend, FdSendOverflows, UpdateFromFd, UpdateFromFdDies
  <2> QED BY <2>1, NamingIs DEF WireIInv
<1>2. name' \in Namings /\ (CutToAnother' <=> CutToAnother)
  BY <1>1 DEF WireIInv, CutToAnother
<1>3. CASE CutToAnother
  <2>1. ~ShortNames
    BY <1>1, <1>3, ShortIsWhole
  <2> QED BY <1>2, <1>3, <2>1 DEF WireIInv
<1>4. CASE ~CutToAnother
  <2>0. Faithful
    BY <1>4 DEF WireIInv
  <2> SUFFICES Faithful' /\ (QR!Next \/ UNCHANGED QR!vars)
    BY <1>2 DEF WireIInv
  <2>1. ASSUME NEW c \in QR!Clients, Fire(c) PROVE Faithful' /\ QR!Next
    BY <1>1, <2>0, <2>1, FireStep
  <2>2. ASSUME NEW c \in Smackers, FdSend(c) PROVE Faithful' /\ QR!Next
    BY <1>1, <2>0, <2>2, FdSendStep
  <2>3. ASSUME NEW c \in Smackers, FdSendOverflows(c) PROVE Faithful' /\ UNCHANGED QR!vars
    <3>1. dead' = dead \cup {c} /\ c # Reporter
      BY <2>3, ClientsAre DEF FdSendOverflows
    <3>2. ShortNames => Reporter \notin dead'
      BY <2>0, <3>1 DEF Faithful
    <3>3. UNCHANGED <<qr, shots, merged, name, wire, senders>>
      BY <2>3 DEF FdSendOverflows
    <3> QED BY <1>1, <2>0, <3>2, <3>3, DeadStep
  <2>4. ASSUME UpdateFromFd PROVE Faithful' /\ QR!Next
    BY <1>1, <1>4, <2>0, <2>4, UpdateStep
  <2>5. ASSUME UpdateFromFdDies PROVE Faithful' /\ UNCHANGED QR!vars
    <3>1. ~ShortNames
      BY <1>1, <1>4, <2>0, <2>5, FirstIs DEF UpdateFromFdDies
    <3>2. UNCHANGED <<qr, shots, merged, name, wire, senders>>
      BY <2>5 DEF UpdateFromFdDies
    <3> QED BY <1>1, <2>0, <3>1, <3>2, DeadStep
  <2>6. ASSUME UNCHANGED vars PROVE Faithful' /\ UNCHANGED QR!vars
    <3>1. /\ UNCHANGED <<qr, shots, merged, name, wire, senders>> /\ dead' = dead
      BY <2>6 DEF vars
    <3>2. ShortNames => Reporter \notin dead'
      BY <2>0, <3>1 DEF Faithful
    <3> QED BY <1>1, <2>0, <3>1, <3>2, DeadStep
  <2> QED BY <2>1, <2>2, <2>3, <2>4, <2>5, <2>6 DEF Next
<1> QED BY <1>3, <1>4

LEMMA WireInvHolds == Spec => []WireIInv
<1>1. WireIInv /\ [Next]_vars => WireIInv'
  BY StepInv
<1> QED BY <1>1, InitInv, PTL DEF Spec

\* The bytes that fd_send() writes and update_from_fd() reads move the reports as
\* QueryReport does, whole and each type into itself, if every name fits its byte.
THEOREM TransferTheorem == Spec => ReportsArrive
<1>1. Init => QR!Init
  BY DEF Init
<1>2. WireIInv /\ [Next]_vars => [ShortNames => QR!Next]_QR!vars
  BY StepInv
<1> QED BY <1>1, <1>2, WireInvHolds, PTL DEF Spec, ReportsArrive

\* The counts that Query_report prints are the numbers of queries run by the clients
\* whose report update_from_fd() has read, for any clients, types and times: as long
\* as the reporter lives, which it does if every name fits its byte, and unless the
\* byte cuts a name to that of another type.
THEOREM CountsTheorem == Spec => []CountsAreExact
<1>1. WireIInv => CountsAreExact
  <2> SUFFICES ASSUME WireIInv PROVE CountsAreExact
    OBVIOUS
  <2>1. Named
    BY NamingIs DEF WireIInv
  <2>2. CASE CutToAnother
    BY <2>1, <2>2, ShortIsWhole DEF CountsAreExact
  <2>3. CASE ~CutToAnother
    BY <2>3, SaysCounts DEF WireIInv, Faithful, CountsAreExact
  <2> QED BY <2>2, <2>3
<1> QED BY <1>1, WireInvHolds, PTL

\* The extremes printed are those of the reports merged, in whatever order
\* update_from_fd() met them.
THEOREM MergeTheorem == Spec => []MergeIsOrderFree
<1>1. WireIInv => MergeIsOrderFree
  <2> SUFFICES ASSUME WireIInv, ShortNames PROVE QR!MergeIsOrderFree
    BY DEF MergeIsOrderFree
  <2>1. ReportInv
    BY NamingIs, ShortIsWhole DEF WireIInv, Faithful
  <2> QED BY <2>1, SaysMerge
<1> QED BY <1>1, WireInvHolds, PTL

\* The extremes are times that a query took, or the first 0, and never cross,
\* although the first update(q_time) starts from 0 and later ones overwrite.
THEOREM ExtremesTheorem == Spec => []ExtremesWereObserved
<1>1. WireIInv => ExtremesWereObserved
  <2> SUFFICES ASSUME WireIInv, ShortNames PROVE QR!ExtremesWereObserved
    BY DEF ExtremesWereObserved
  <2>1. ReportInv
    BY NamingIs, ShortIsWhole DEF WireIInv, Faithful
  <2> QED BY <2>1, SaysExtremes
<1> QED BY <1>1, WireInvHolds, PTL
=============================================================================
