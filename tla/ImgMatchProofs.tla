--------------------------- MODULE ImgMatchProofs ---------------------------
(***************************************************************************)
(* Proofs about ImgMatch: what the training saves and what the vote        *)
(* answers, for every database, every frame and every share.  The numbers  *)
(* of the pictures are rows of a table that is defined by recursion; what  *)
(* that recursion gives is proved first, by induction on the least         *)
(* counterexample.                                                         *)
(***************************************************************************)
EXTENDS ImgMatch, FiniteSetTheorems, WellFoundedInduction, TLAPS

-----------------------------------------------------------------------------
(* Sequences. *)

\* An element of a sequence is of its elements' set.
LEMMA ElementType ==
  ASSUME NEW S, NEW s \in Seq(S), NEW k \in 1 .. Len(s) PROVE s[k] \in S
OBVIOUS

\* Writing a number in a sequence of numbers leaves one, of the same length.
LEMMA ExceptType ==
  ASSUME NEW s \in Seq(Nat), NEW k, NEW v, k \in DOMAIN s => v \in Nat
  PROVE  /\ [s EXCEPT ![k] = v] \in Seq(Nat) /\ Len([s EXCEPT ![k] = v]) = Len(s)
<1>1. s \in [1 .. Len(s) -> Nat] /\ Len(s) \in Nat OBVIOUS
<1>2. [s EXCEPT ![k] = v] \in [1 .. Len(s) -> Nat] BY <1>1
<1> QED BY <1>1, <1>2

\* A function on 1 .. n is a sequence of length n.
LEMMA FunctionIsSequence ==
  ASSUME NEW S, NEW n \in Nat, NEW f \in [1 .. n -> S] PROVE f \in Seq(S) /\ Len(f) = n
OBVIOUS

\* Sequences of the same length with the same elements are equal.
LEMMA SameSequence ==
  ASSUME NEW s \in Seq(Nat), NEW t \in Seq(Nat), Len(s) = Len(t),
         \A i \in 1 .. Len(t) : s[i] = t[i]
  PROVE  s = t
<1>1. s = [i \in 1 .. Len(s) |-> s[i]] /\ t = [i \in 1 .. Len(t) |-> t[i]] OBVIOUS
<1> QED BY <1>1

-----------------------------------------------------------------------------
(* Induction over data.  The prover cannot instantiate an induction rule that
   takes a predicate; the least element of a set of counterexamples can be
   named instead.                                                            *)

Less == OpToRel(<, Nat)

\* The relation of the library's theorem is the order of the numbers.
LEMMA LessIsLess == \A x, y \in Nat : <<x, y>> \in Less <=> x < y
  BY DEF OpToRel, Less

\* Every set of numbers that is not empty has a least one.
LEMMA LeastExists ==
  ASSUME NEW T, T \subseteq Nat, T # {}
  PROVE  \E x \in T : \A y \in T : x <= y
<1>1. IsWellFoundedOn(Less, Nat) BY NatLessThanWellFounded DEF Less
<1>2. PICK x \in T : \A y \in T : ~(<<y, x>> \in Less) BY <1>1, WFMin
<1>3. \A y \in T : ~(y < x) BY <1>2, LessIsLess
<1> QED BY <1>3, <1>2

\* A set that holds 0, and with each number below n the next, holds 0 .. n.
LEMMA Counting ==
  ASSUME NEW n \in Nat, NEW T, 0 \in T, \A m \in 1 .. n : m - 1 \in T => m \in T
  PROVE  0 .. n \subseteq T
<1> DEFINE C == {m \in 0 .. n : m \notin T}
<1> SUFFICES ASSUME C # {} PROVE FALSE OBVIOUS
<1>1. PICK c \in C : \A y \in C : c <= y
  <2>1. C \subseteq Nat OBVIOUS
  <2> QED BY <2>1, LeastExists
<1>2. c \in 1 .. n /\ c \notin T OBVIOUS
<1>3. c - 1 \in 0 .. n /\ ~(c <= c - 1) BY <1>2
<1>4. c - 1 \notin C BY <1>1, <1>3
<1> QED BY <1>2, <1>3, <1>4

\* A bounded set of numbers that is not empty has a greatest one, and Max is it.
LEMMA MaxIsGreatest ==
  ASSUME NEW S, S \subseteq Nat, S # {}, NEW b \in Nat, \A x \in S : x <= b
  PROVE  Max(S) \in S /\ \A x \in S : x <= Max(S)
<1> DEFINE U == {u \in Nat : \A x \in S : x <= u}
<1>1. PICK u \in U : \A y \in U : u <= y
  <2>1. U \subseteq Nat /\ b \in U OBVIOUS
  <2> QED BY <2>1, LeastExists
<1>2. u \in S
  <2>1. SUFFICES ASSUME u \notin S PROVE FALSE OBVIOUS
  <2>2. \A x \in S : x <= u - 1 BY <2>1
  <2>3. u - 1 \in Nat
    <3>1. PICK x \in S : TRUE OBVIOUS
    <3>2. x \in Nat /\ x <= u - 1 BY <2>2
    <3> QED BY <3>2
  <2>4. u - 1 \in U BY <2>2, <2>3
  <2> QED BY <1>1, <2>4
<1>3. \E m \in S : \A x \in S : m >= x BY <1>2
<1> QED BY <1>3 DEF Max

\* A set of numbers that is not empty has a least one, and Min is it.
LEMMA MinIsLeast ==
  ASSUME NEW S, S \subseteq Nat, S # {}
  PROVE  Min(S) \in S /\ \A x \in S : Min(S) <= x
<1>1. \E m \in S : \A x \in S : m <= x BY LeastExists
<1> QED BY <1>1 DEF Min

-----------------------------------------------------------------------------
(* The rows of the pictures, picture after picture. *)

\* Rows(d)[n] is TableOf of the first n pictures of d.
RowsStep(f, d, n) == IF n = 0 THEN <<>> ELSE f[n - 1] \o Copies(d[n], n)
Rows(d) == CHOOSE f : f = [n \in 0 .. Len(d) |-> RowsStep(f, d, n)]

\* The recursion of Rows has a solution.
LEMMA RowsEquation ==
  ASSUME NEW d, Len(d) \in Nat
  PROVE  Rows(d) = [n \in 0 .. Len(d) |-> RowsStep(Rows(d), d, n)]
<1> DEFINE T == {n \in Nat : \E f : f = [m \in 0 .. n |-> RowsStep(f, d, m)]}
<1>1. 0 \in T
  <2> DEFINE f == [m \in 0 .. 0 |-> <<>>]
  <2>1. f = [m \in 0 .. 0 |-> RowsStep(f, d, m)] BY DEF RowsStep
  <2> QED BY <2>1
<1>2. ASSUME NEW n \in 1 .. Len(d), n - 1 \in T PROVE n \in T
  <2>1. PICK f : f = [m \in 0 .. n - 1 |-> RowsStep(f, d, m)] BY <1>2
  <2> DEFINE g == [m \in 0 .. n |-> IF m = n THEN f[n - 1] \o Copies(d[n], n) ELSE f[m]]
  <2>2. \A m \in 0 .. n : g[m] = RowsStep(g, d, m)
    <3> TAKE m \in 0 .. n
    <3>1. CASE m = n
      <4>1. g[n - 1] = f[n - 1] OBVIOUS
      <4>2. g[n] = f[n - 1] \o Copies(d[n], n) OBVIOUS
      <4>3. n # 0 OBVIOUS
      <4> HIDE DEF g
      <4>4. RowsStep(g, d, n) = g[n - 1] \o Copies(d[n], n) BY <4>3, Zenon DEF RowsStep
      <4> QED BY <3>1, <4>1, <4>2, <4>4, Zenon
    <3>2. CASE m # n
      <4>1. m \in 0 .. n - 1 BY <3>2
      <4>2. g[m] = f[m] BY <3>2
      <4>3. f[m] = RowsStep(f, d, m) BY <2>1, <4>1
      <4>4. m # 0 => g[m - 1] = f[m - 1] BY <4>1
      <4> HIDE DEF g
      <4> QED BY <4>2, <4>3, <4>4 DEF RowsStep
    <3> QED BY <3>1, <3>2
  <2>3. g = [m \in 0 .. n |-> g[m]] OBVIOUS
  <2>4. g = [m \in 0 .. n |-> RowsStep(g, d, m)]
    <3> HIDE DEF g
    <3> QED BY <2>2, <2>3
  <2> HIDE DEF g
  <2> QED BY <2>4
<1>3. Len(d) \in T
  <2> HIDE DEF T
  <2>1. 0 .. Len(d) \subseteq T BY <1>1, <1>2, Counting
  <2> QED BY <2>1
<1>4. \E f : f = [m \in 0 .. Len(d) |-> RowsStep(f, d, m)] BY <1>3
<1> QED BY <1>4 DEF Rows

\* Before the first picture there are no rows.
LEMMA RowsFirst ==
  ASSUME NEW d, Len(d) \in Nat PROVE Rows(d)[0] = <<>>
<1>1. 0 \in 0 .. Len(d) OBVIOUS
<1> QED BY <1>1, RowsEquation DEF RowsStep

\* One more picture is its rows more.
LEMMA RowsNext ==
  ASSUME NEW d, Len(d) \in Nat, NEW n \in 1 .. Len(d)
  PROVE  Rows(d)[n] = Rows(d)[n - 1] \o Copies(d[n], n)
<1>1. n \in 0 .. Len(d) /\ n # 0 OBVIOUS
<1> QED BY <1>1, RowsEquation DEF RowsStep

\* The first n pictures of d could be read.
Read(d, n) == \A i \in 1 .. n : d[i] \in Nat

\* The rows of one picture.
LEMMA CopiesType ==
  ASSUME NEW n \in Nat, NEW i \in Nat
  PROVE  /\ Copies(n, i) \in Seq(Nat) /\ Len(Copies(n, i)) = n
         /\ \A k \in 1 .. n : Copies(n, i)[k] = i
BY DEF Copies

\* How many rows the first n pictures have.
Ends(d, n) == Len(Rows(d)[n])

\* The rows of pictures that could be read are numbers.
LEMMA RowsType ==
  ASSUME NEW d, Len(d) \in Nat, NEW n \in 0 .. Len(d), Read(d, n)
  PROVE  \A m \in 0 .. n : Rows(d)[m] \in Seq(Nat) /\ Ends(d, m) \in Nat
<1> DEFINE T == {m \in Nat : Rows(d)[m] \in Seq(Nat)}
<1>1. 0 \in T
  <2>1. Rows(d)[0] = <<>> BY RowsFirst
  <2>2. <<>> \in Seq(Nat) OBVIOUS
  <2> QED BY <2>1, <2>2
<1>2. ASSUME NEW m \in 1 .. n, m - 1 \in T PROVE m \in T
  <2>1. d[m] \in Nat /\ m \in Nat /\ m \in 1 .. Len(d) BY DEF Read
  <2>2. Copies(d[m], m) \in Seq(Nat) BY <2>1, CopiesType
  <2>3. Rows(d)[m] = Rows(d)[m - 1] \o Copies(d[m], m) BY <2>1, RowsNext
  <2>4. Rows(d)[m - 1] \in Seq(Nat) BY <1>2
  <2>5. Rows(d)[m - 1] \o Copies(d[m], m) \in Seq(Nat) BY <2>2, <2>4
  <2> QED BY <2>1, <2>3, <2>5
<1>3. 0 .. n \subseteq T
  <2> HIDE DEF T
  <2> QED BY <1>1, <1>2, Counting
<1> QED BY <1>3 DEF Ends

\* One more picture leaves the rows before it as they are.
LEMMA EndsNext ==
  ASSUME NEW d, Len(d) \in Nat, NEW n \in 0 .. Len(d), Read(d, n), NEW m \in 1 .. n
  PROVE  /\ Ends(d, m) = Ends(d, m - 1) + d[m]
         /\ \A k \in 1 .. Ends(d, m - 1) : Rows(d)[m][k] = Rows(d)[m - 1][k]
         /\ \A k \in Ends(d, m - 1) + 1 .. Ends(d, m) : Rows(d)[m][k] = m
<1>1. d[m] \in Nat /\ m \in Nat /\ m \in 1 .. Len(d) BY DEF Read
<1> DEFINE c == Copies(d[m], m)
           r == Rows(d)[m - 1]
<1>2. c \in Seq(Nat) /\ Len(c) = d[m] /\ \A k \in 1 .. d[m] : c[k] = m BY <1>1, CopiesType
<1>3. Rows(d)[m] = r \o c BY <1>1, RowsNext
<1>4. r \in Seq(Nat) /\ m - 1 \in 0 .. n BY RowsType
<1> HIDE DEF c, r
<1>5. Len(r \o c) = Len(r) + Len(c) BY <1>2, <1>4, SMTT(60)
<1>6. \A k \in 1 .. Len(r) : (r \o c)[k] = r[k] BY <1>2, <1>4
<1>7. \A k \in Len(r) + 1 .. Len(r) + d[m] : (r \o c)[k] = m
  <2> TAKE k \in Len(r) + 1 .. Len(r) + d[m]
  <2>1. (r \o c)[k] = c[k - Len(r)] BY <1>2, <1>4, <1>1, SMTT(60)
  <2>2. k - Len(r) \in 1 .. d[m] BY <1>1, <1>4
  <2> QED BY <1>2, <2>1, <2>2
<1>8. Ends(d, m - 1) = Len(r) /\ Ends(d, m) = Len(r \o c) BY <1>3 DEF Ends, r
<1> QED BY <1>2, <1>3, <1>5, <1>6, <1>7, <1>8 DEF r

\* No picture has less rows than those before it.
LEMMA EndsGrow ==
  ASSUME NEW d, Len(d) \in Nat, NEW n \in 0 .. Len(d), Read(d, n)
  PROVE  \A k \in 0 .. n : \A m \in 0 .. k : Ends(d, m) <= Ends(d, k)
<1> DEFINE T == {k \in Nat : \A m \in 0 .. k : Ends(d, m) <= Ends(d, k)}
<1>t. \A m \in 0 .. n : Ends(d, m) \in Nat BY RowsType
<1>1. 0 \in T
  <2>1. Ends(d, 0) \in Nat BY <1>t
  <2> QED BY <2>1
<1>2. ASSUME NEW k \in 1 .. n, k - 1 \in T PROVE k \in T
  <2>1. Ends(d, k) = Ends(d, k - 1) + d[k] BY EndsNext
  <2>2. d[k] \in Nat /\ Ends(d, k - 1) \in Nat BY <1>t DEF Read
  <2>3. ASSUME NEW m \in 0 .. k PROVE Ends(d, m) <= Ends(d, k)
    <3>1. CASE m = k BY <3>1, <2>1, <2>2
    <3>2. CASE m # k
      <4>1. m \in 0 .. k - 1 BY <3>2
      <4>2. Ends(d, m) <= Ends(d, k - 1) BY <1>2, <4>1
      <4>3. Ends(d, m) \in Nat BY <1>t
      <4> QED BY <2>1, <2>2, <4>2, <4>3
    <3> QED BY <3>1, <3>2
  <2> QED BY <2>3
<1>3. 0 .. n \subseteq T
  <2> HIDE DEF T
  <2> QED BY <1>1, <1>2, Counting
<1> QED BY <1>3

\* The rows of picture i are those after the end of the one before, to its own.
Of(d, i) == Ends(d, i - 1) + 1 .. Ends(d, i)

\* Each of them says that it is of picture i.
LEMMA RowsOfPicture ==
  ASSUME NEW d, Len(d) \in Nat, NEW n \in 0 .. Len(d), Read(d, n)
  PROVE  \A i \in 1 .. n : \A k \in Of(d, i) : Rows(d)[n][k] = i
<1> DEFINE T == {m \in Nat : \A i \in 1 .. m : \A k \in Of(d, i) : Rows(d)[m][k] = i}
<1>t. \A m \in 0 .. n : Ends(d, m) \in Nat BY RowsType
<1>1. 0 \in T OBVIOUS
<1>2. ASSUME NEW m \in 1 .. n, m - 1 \in T PROVE m \in T
  <2>1. ASSUME NEW i \in 1 .. m, NEW k \in Of(d, i) PROVE Rows(d)[m][k] = i
    <3>1. CASE i = m BY <3>1, EndsNext DEF Of
    <3>2. CASE i # m
      <4>1. i \in 1 .. m - 1 BY <3>2
      <4>2. Rows(d)[m - 1][k] = i BY <1>2, <4>1
      <4>3. Ends(d, i) <= Ends(d, m - 1)
        <5>1. m - 1 \in 0 .. n /\ i \in 0 .. m - 1 BY <4>1
        <5> QED BY <5>1, EndsGrow
      <4>4. i \in 0 .. n /\ i - 1 \in 0 .. n /\ m - 1 \in 0 .. n OBVIOUS
      <4>5. Ends(d, i) \in Nat /\ Ends(d, i - 1) \in Nat /\ Ends(d, m - 1) \in Nat BY <4>4, <1>t
      <4>6. k \in 1 .. Ends(d, m - 1) BY <4>3, <4>5 DEF Of
      <4>7. Rows(d)[m][k] = Rows(d)[m - 1][k] BY <4>6, EndsNext
      <4> QED BY <4>2, <4>7
    <3> QED BY <3>1, <3>2
  <2> QED BY <2>1
<1>3. 0 .. n \subseteq T
  <2> HIDE DEF T
  <2> QED BY <1>1, <1>2, Counting
<1> QED BY <1>3

\* Every row is of one of the pictures.
LEMMA PictureOfRow ==
  ASSUME NEW d, Len(d) \in Nat, NEW n \in 0 .. Len(d), Read(d, n)
  PROVE  \A k \in 1 .. Ends(d, n) : \E i \in 1 .. n : k \in Of(d, i)
<1> DEFINE T == {m \in Nat : \A k \in 1 .. Ends(d, m) : \E i \in 1 .. m : k \in Of(d, i)}
<1>t. \A m \in 0 .. n : Ends(d, m) \in Nat BY RowsType
<1>1. 0 \in T
  <2>1. Rows(d)[0] = <<>> BY RowsFirst
  <2>2. Ends(d, 0) = 0 BY <2>1 DEF Ends
  <2> QED BY <2>2
<1>2. ASSUME NEW m \in 1 .. n, m - 1 \in T PROVE m \in T
  <2>1. ASSUME NEW k \in 1 .. Ends(d, m) PROVE \E i \in 1 .. m : k \in Of(d, i)
    <3>1. m \in 0 .. n /\ m - 1 \in 0 .. n OBVIOUS
    <3>2. Ends(d, m) \in Nat /\ Ends(d, m - 1) \in Nat BY <1>t, <3>1
    <3>3. CASE k \in 1 .. Ends(d, m - 1)
      <4>1. PICK i \in 1 .. m - 1 : k \in Of(d, i) BY <1>2, <3>3
      <4>2. i \in 1 .. m OBVIOUS
      <4> QED BY <4>1, <4>2
    <3>4. CASE k \notin 1 .. Ends(d, m - 1)
      <4>1. k \in Of(d, m) BY <3>2, <3>4 DEF Of
      <4>2. m \in 1 .. m OBVIOUS
      <4> QED BY <4>1, <4>2
    <3> QED BY <3>3, <3>4
  <2> QED BY <2>1
<1>3. 0 .. n \subseteq T
  <2> HIDE DEF T
  <2> QED BY <1>1, <1>2, Counting
<1> QED BY <1>3

\* The table of the model is the last of the rows.
LEMMA TableIsRows ==
  ASSUME NEW d \in Seq(Nat)
  PROVE  TableOf(d) = Rows(d)[Len(d)]
<1> DEFINE seqs == [i \in DOMAIN d |-> Copies(d[i], i)]
           n == Len(d)
           flatten == CHOOSE f :
             f = [i \in 1 .. Len(seqs) |-> IF i = 1 THEN seqs[i] ELSE f[i - 1] \o seqs[i]]
           g == [i \in 1 .. n |-> Rows(d)[i]]
<1>1. n \in Nat /\ DOMAIN d = 1 .. n OBVIOUS
<1>2. Read(d, n) BY DEF Read
<1>3. \A i \in 1 .. n : seqs[i] = Copies(d[i], i) /\ seqs[i] \in Seq(Nat)
  <2> TAKE i \in 1 .. n
  <2>1. i \in Nat /\ d[i] \in Nat OBVIOUS
  <2> QED BY <2>1, <1>1, CopiesType
<1>4. seqs \in Seq(Seq(Nat)) /\ Len(seqs) = n
  <2>1. seqs \in [1 .. n -> Seq(Nat)] BY <1>1, <1>3
  <2> HIDE DEF seqs
  <2> QED BY <1>1, <2>1
<1> HIDE DEF seqs
<1>5. CASE n = 0
  <2>1. TableOf(d) = seqs BY <1>4, <1>5 DEF TableOf, FlattenSeq, seqs
  <2>2. seqs = <<>> BY <1>4, <1>5
  <2>3. Rows(d)[n] = <<>> BY <1>5, RowsFirst
  <2> QED BY <2>1, <2>2, <2>3
<1>6. CASE n # 0
  <2>1. TableOf(d) = flatten[n]
    <3>1. TableOf(d) = FlattenSeq(seqs) BY DEF TableOf, seqs
    <3>2. FlattenSeq(seqs) = flatten[Len(seqs)] BY <1>4, <1>6 DEF FlattenSeq
    <3> QED BY <3>1, <3>2, <1>4
  <2>2. \A i \in 1 .. n : g[i] = IF i = 1 THEN seqs[i] ELSE g[i - 1] \o seqs[i]
    <3> TAKE i \in 1 .. n
    <3>1. Rows(d)[i] = Rows(d)[i - 1] \o seqs[i] BY <1>1, <1>3, RowsNext
    <3>2. CASE i = 1
      <4>1. Rows(d)[0] = <<>> BY <1>1, RowsFirst
      <4>2. <<>> \o seqs[1] = seqs[1] BY <1>3
      <4>3. g[1] = Rows(d)[1] BY <3>2
      <4>4. i - 1 = 0 BY <3>2
      <4>5. Rows(d)[1] = Rows(d)[0] \o seqs[1] BY <3>1, <3>2, <4>4, Zenon
      <4> HIDE DEF g
      <4> QED BY <3>2, <4>1, <4>2, <4>3, <4>5
    <3>3. CASE i # 1
      <4>1. g[i - 1] = Rows(d)[i - 1] BY <3>3
      <4>2. g[i] = Rows(d)[i] OBVIOUS
      <4> HIDE DEF g
      <4> QED BY <3>1, <3>3, <4>1, <4>2
    <3> QED BY <3>2, <3>3
  <2>3. g = [i \in 1 .. n |-> g[i]] BY SMTT(60)
  <2> HIDE DEF g
  <2>4. g = [i \in 1 .. n |-> IF i = 1 THEN seqs[i] ELSE g[i - 1] \o seqs[i]] BY <2>2, <2>3
  <2>5. flatten = [i \in 1 .. n |-> IF i = 1 THEN seqs[i] ELSE flatten[i - 1] \o seqs[i]]
    BY <2>4, <1>4, ZenonT(60)
  <2> HIDE DEF flatten
  <2> DEFINE T == {m \in Nat : m = 0 \/ flatten[m] = g[m]}
  <2>6. 0 \in T OBVIOUS
  <2>7. ASSUME NEW m \in 1 .. n, m - 1 \in T PROVE m \in T
    <3>1. flatten[m] = IF m = 1 THEN seqs[m] ELSE flatten[m - 1] \o seqs[m] BY <2>5
    <3>2. g[m] = IF m = 1 THEN seqs[m] ELSE g[m - 1] \o seqs[m] BY <2>4
    <3>3. m # 1 => flatten[m - 1] = g[m - 1] BY <2>7
    <3>4. flatten[m] = g[m] BY <3>1, <3>2, <3>3, Zenon
    <3> QED BY <3>4
  <2>8. n \in T
    <3> HIDE DEF T
    <3>1. 0 .. n \subseteq T BY <2>6, <2>7, <1>1, Counting
    <3> QED BY <3>1, <1>1
  <2>9. g[n] = Rows(d)[n] BY <1>1, <1>6 DEF g
  <2> QED BY <2>1, <2>8, <2>9, <1>6
<1> QED BY <1>5, <1>6

-----------------------------------------------------------------------------
(* The numbers the counting gives to the rows. *)

\* The number of row k is the least of the bounds that the rows up to it set.
LEMMA NumberIsLeast ==
  ASSUME NEW t \in Seq(Nat), NEW k \in 0 .. Len(t)
  PROVE  /\ Number(t, k) \in Nat /\ Number(t, k) <= k
         /\ \A j \in 1 .. k : Number(t, k) <= t[j] + (k - j)
         /\ Number(t, k) = k \/ \E j \in 1 .. k : Number(t, k) = t[j] + (k - j)
<1> DEFINE B == {t[j] + (k - j) : j \in 1 .. k}
<1>1. \A j \in 1 .. k : t[j] + (k - j) \in Nat
  <2> TAKE j \in 1 .. k
  <2>1. t[j] \in Nat /\ k - j \in Nat OBVIOUS
  <2> QED BY <2>1
<1>2. k \in Nat OBVIOUS
<1>3. {k} \cup B \subseteq Nat /\ {k} \cup B # {} BY <1>1, <1>2
<1>4. Number(t, k) = Min({k} \cup B) BY DEF Number
<1> HIDE DEF B
<1>5. Number(t, k) \in {k} \cup B /\ \A x \in {k} \cup B : Number(t, k) <= x
  BY <1>3, <1>4, MinIsLeast
<1>6. \A j \in 1 .. k : t[j] + (k - j) \in B BY DEF B
<1>7. Number(t, k) \in B => \E j \in 1 .. k : Number(t, k) = t[j] + (k - j) BY DEF B
<1> QED BY <1>3, <1>5, <1>6, <1>7

\* Before the first row no number is given.
LEMMA NumberFirst ==
  ASSUME NEW t \in Seq(Nat) PROVE Number(t, 0) = 0
<1>1. 0 \in 0 .. Len(t) OBVIOUS
<1>2. Number(t, 0) \in Nat /\ Number(t, 0) <= 0 BY <1>1, NumberIsLeast
<1> QED BY <1>2

\* The next row has the next number, or that of its picture if it is smaller.
LEMMA NumberNext ==
  ASSUME NEW t \in Seq(Nat), NEW k \in 1 .. Len(t)
  PROVE  Number(t, k) = IF t[k] <= Number(t, k - 1) THEN t[k] ELSE Number(t, k - 1) + 1
<1> DEFINE N == Number(t, k)
           M == Number(t, k - 1)
<1>0. k \in 0 .. Len(t) /\ k - 1 \in 0 .. Len(t) /\ k \in Nat OBVIOUS
<1>1. /\ N \in Nat /\ N <= k /\ \A j \in 1 .. k : N <= t[j] + (k - j)
      /\ N = k \/ \E j \in 1 .. k : N = t[j] + (k - j)
  BY <1>0, NumberIsLeast
<1>2. /\ M \in Nat /\ M <= k - 1 /\ \A j \in 1 .. k - 1 : M <= t[j] + (k - 1 - j)
      /\ M = k - 1 \/ \E j \in 1 .. k - 1 : M = t[j] + (k - 1 - j)
  BY <1>0, NumberIsLeast
<1>3. \A j \in 1 .. k : t[j] \in Nat OBVIOUS
<1>t. N \in Nat /\ M \in Nat BY <1>1, <1>2
<1> HIDE DEF N, M
<1>4. N <= t[k]
  <2>1. k \in 1 .. k /\ t[k] \in Nat BY <1>0, <1>3
  <2>2. N <= t[k] + (k - k) BY <1>1, <2>1
  <2> QED BY <1>0, <2>1, <2>2
<1>5. N <= M + 1
  <2>1. CASE M = k - 1 BY <1>0, <1>1, <2>1
  <2>2. ASSUME NEW j \in 1 .. k - 1, M = t[j] + (k - 1 - j) PROVE N <= M + 1
    <3>1. j \in 1 .. k /\ j \in Nat BY <1>0
    <3>2. t[j] \in Nat /\ N <= t[j] + (k - j) BY <1>1, <1>3, <3>1
    <3> DEFINE r == t[j]
    <3>3. N <= r + (k - j) /\ M = r + (k - 1 - j) /\ r \in Nat BY <2>2, <3>2
    <3> HIDE DEF r
    <3> QED BY <1>0, <1>t, <3>1, <3>3
  <2> QED BY <1>2, <2>1, <2>2
<1>6. N = t[k] \/ N = M + 1
  <2>1. CASE N = k BY <1>0, <1>2, <1>5, <2>1
  <2>2. ASSUME NEW j \in 1 .. k, N = t[j] + (k - j) PROVE N = t[k] \/ N = M + 1
    <3>0. j \in Nat /\ t[j] \in Nat BY <1>3
    <3>1. CASE j = k BY <1>0, <2>2, <3>0, <3>1
    <3>2. CASE j # k
      <4>1. j \in 1 .. k - 1 BY <1>0, <3>2
      <4>2. M <= t[j] + (k - 1 - j) BY <1>2, <4>1
      <4> DEFINE r == t[j]
      <4>3. N = r + (k - j) /\ M <= r + (k - 1 - j) /\ r \in Nat BY <2>2, <3>0, <4>2
      <4> HIDE DEF r
      <4>4. N = M + 1 BY <1>0, <1>t, <1>5, <3>0, <4>3
      <4> QED BY <4>4
    <3> QED BY <3>1, <3>2
  <2> QED BY <1>1, <2>1, <2>2
<1>7. t[k] \in Nat BY <1>0, <1>3
<1>8. N = IF t[k] <= M THEN t[k] ELSE M + 1 BY <1>1, <1>2, <1>4, <1>5, <1>6, <1>7
<1> QED BY <1>8 DEF N, M

\* The rows with number i up to row n are one more than up to the row before, if
\* row n has it.
LEMMA NumberedCount ==
  ASSUME NEW t, NEW i, NEW n \in Nat
  PROVE  /\ IsFiniteSet(RowsNumbered(t, i, n)) /\ Cardinality(RowsNumbered(t, i, n)) \in Nat
         /\ n > 0 => Cardinality(RowsNumbered(t, i, n))
              = Cardinality(RowsNumbered(t, i, n - 1)) + IF Number(t, n) = i THEN 1 ELSE 0
<1>1. \A m \in Nat : /\ IsFiniteSet(RowsNumbered(t, i, m))
                     /\ Cardinality(RowsNumbered(t, i, m)) \in Nat
  <2> TAKE m \in Nat
  <2>1. IsFiniteSet(1 .. m) BY FS_Interval
  <2>2. RowsNumbered(t, i, m) \in SUBSET (1 .. m) BY DEF RowsNumbered
  <2>3. IsFiniteSet(RowsNumbered(t, i, m)) BY <2>1, <2>2, FS_Subset
  <2> QED BY <2>3, FS_CardinalityType
<1>2. ASSUME n > 0
      PROVE  Cardinality(RowsNumbered(t, i, n))
               = Cardinality(RowsNumbered(t, i, n - 1)) + IF Number(t, n) = i THEN 1 ELSE 0
  <2>1. n - 1 \in Nat BY <1>2
  <2>2. Cardinality(RowsNumbered(t, i, n - 1)) \in Nat BY <1>1, <2>1
  <2>3. n \notin RowsNumbered(t, i, n - 1) BY DEF RowsNumbered
  <2>4. CASE Number(t, n) = i
    <3>1. RowsNumbered(t, i, n) = RowsNumbered(t, i, n - 1) \cup {n}
      <4>1. 1 .. n = (1 .. n - 1) \cup {n} BY <1>2
      <4> QED BY <2>4, <4>1, Zenon DEF RowsNumbered
    <3>2. Cardinality(RowsNumbered(t, i, n - 1) \cup {n})
            = Cardinality(RowsNumbered(t, i, n - 1)) + 1
      BY <1>1, <2>1, <2>3, FS_AddElement
    <3> QED BY <2>4, <3>1, <3>2
  <2>5. CASE Number(t, n) # i
    <3>1. RowsNumbered(t, i, n) = RowsNumbered(t, i, n - 1)
      <4>1. 1 .. n = (1 .. n - 1) \cup {n} BY <1>2
      <4> QED BY <2>5, <4>1, Zenon DEF RowsNumbered
    <3> QED BY <2>2, <2>5, <3>1
  <2> QED BY <2>4, <2>5
<1> QED BY <1>1, <1>2

\* The counts of a table are numbers, one for each number given.
LEMMA CountsOfType ==
  ASSUME NEW t \in Seq(Nat)
  PROVE  /\ CountsOf(t) \in Seq(Nat) /\ Len(CountsOf(t)) = Number(t, Len(t))
         /\ \A i \in 1 .. Number(t, Len(t)) :
              CountsOf(t)[i] = Cardinality(RowsNumbered(t, i, Len(t)))
<1> DEFINE n == Number(t, Len(t))
<1>1. Len(t) \in Nat /\ Len(t) \in 0 .. Len(t) OBVIOUS
<1>2. n \in Nat BY <1>1, NumberIsLeast
<1>3. \A i \in 1 .. n : Cardinality(RowsNumbered(t, i, Len(t))) \in Nat BY <1>1, NumberedCount
<1>4. CountsOf(t) = [i \in 1 .. n |-> Cardinality(RowsNumbered(t, i, Len(t)))]
  BY DEF CountsOf
<1> HIDE DEF n
<1>5. CountsOf(t) \in [1 .. n -> Nat] BY <1>3, <1>4
<1>6. CountsOf(t) \in Seq(Nat) /\ Len(CountsOf(t)) = n BY <1>2, <1>5, FunctionIsSequence
<1>7. \A i \in 1 .. n : CountsOf(t)[i] = Cardinality(RowsNumbered(t, i, Len(t))) BY <1>4
<1> QED BY <1>6, <1>7 DEF n

-----------------------------------------------------------------------------
(* The inductive invariant. *)

USE DatabasesAssumption, ShareAssumption, OptionsAssumption

\* No picture of d is without descriptors.
Full(d) == \A i \in DOMAIN d : d[i] # 0

\* An entry of imgFreq: a picture, and how many of the frame's rows so far are its.
Entry == [ImgIndex : Nat, Freq : 1 .. MaxGood]

\* The variables hold what they are made of.
Types ==
  /\ db \in Databases /\ filesOf \in Databases \cup Older /\ filesOf \in Seq(Nat)
  /\ mixed \in BOOLEAN /\ lastIndex \in Nat /\ at \in Nat \ {0}
  /\ phase \in {"extract", "count", "cluster", "exited", "ready", "vote", "answer",
                "crashed"}
  /\ index_IMG \in Seq(Nat) /\ dscCnt_IMG \in Seq(Nat) /\ saved \in Seq(Nat)
  /\ table \in Seq(Nat) /\ counts \in Seq(Nat)
  /\ featureCluster \in Nat /\ yml \in Nat /\ place \in Places
  /\ source \in Seq(Int) /\ imgFreq \in Seq(Entry)
  /\ maxFreq \in 1 .. MaxGood \cup {1} /\ matchedImgIndex \in Nat

\* There are no more numbers of pictures than pictures.
LastIsPicture == lastIndex <= Len(db)

\* While the pictures are read, the rows so far are those of the pictures so far.
Extracting ==
  phase = "extract" =>
    /\ at <= Len(db) + 1 /\ Read(db, at - 1) /\ ~mixed
    /\ index_IMG = Rows(db)[at - 1] /\ featureCluster = Len(index_IMG)
    /\ lastIndex = 0 /\ dscCnt_IMG = <<>>

\* While they are counted, the table is as it was written from the loop's row on,
\* and the number of the current picture is not ahead of it.
Rest ==
  phase = "count" =>
    /\ db \in Seq(Nat) /\ saved = TableOf(db) /\ featureCluster = Len(saved)
    /\ Len(index_IMG) = Len(saved) /\ at <= Len(saved) + 1
    /\ \A k \in at .. Len(saved) : index_IMG[k] = saved[k]
    /\ Len(dscCnt_IMG) = lastIndex
    /\ IF at = 1 THEN lastIndex = 0 ELSE lastIndex <= saved[at - 1]

\* The numbers in use are those of the rows before the loop's, and the counts are
\* the counts of these rows.
Numbered ==
  phase = "count" =>
    /\ lastIndex = Number(saved, at - 1)
    /\ \A k \in 1 .. at - 1 : Number(saved, k) <= lastIndex
    /\ \A i \in 1 .. lastIndex : dscCnt_IMG[i] = Cardinality(RowsNumbered(saved, i, at - 1))

\* Before the descriptors are saved the rest is as ShiftedCounts wants it.
Saving ==
  phase = "cluster" =>
    /\ db \in Seq(Nat) /\ table = TableOf(db) /\ featureCluster = Len(table)
    /\ dscCnt_IMG = CountsOf(table)

\* The files are of two trainings from the first write to the last.
Writing == phase \in {"count", "cluster"} => mixed

\* A process that matches has what the files hold.
Loaded ==
  phase \in {"ready", "vote", "answer"} =>
    /\ index_IMG = table /\ featureCluster = yml /\ yml # 0
    /\ dscCnt_IMG = CountsRead

\* The rows of a frame are rows of the cluster.
RowsOfFrame ==
  phase = "vote" =>
    /\ source \in Seq(1 .. featureCluster) /\ Len(source) <= MaxGood
    /\ at <= Len(source) + 1

\* The votes for picture i of the first n rows of the frame.
Ballots(i, n) == {k \in 1 .. n : index_IMG[source[k]] = i}

\* imgFreq holds every picture voted for once, with its votes.
Tally ==
  phase = "vote" =>
    /\ \A k \in 1 .. at - 1 :
         /\ source[k] <= Len(index_IMG)
         /\ \E e \in DOMAIN imgFreq : imgFreq[e].ImgIndex = index_IMG[source[k]]
    /\ \A e \in DOMAIN imgFreq :
         imgFreq[e].Freq = Cardinality(Ballots(imgFreq[e].ImgIndex, at - 1))
    /\ \A e, f \in DOMAIN imgFreq : imgFreq[e].ImgIndex = imgFreq[f].ImgIndex => e = f

IInv ==
  /\ Types /\ LastIsPicture /\ Extracting /\ Rest /\ Numbered /\ Saving /\ Writing
  /\ ShiftedCounts /\ Loaded /\ RowsOfFrame /\ Tally /\ MatchInBounds /\ BestPictureWins

-----------------------------------------------------------------------------
(* The table of pictures that could all be read. *)

\* It is as long as the pictures' rows together.
LEMMA TableOfType ==
  ASSUME NEW d \in Seq(Nat)
  PROVE  /\ Read(d, Len(d)) /\ TableOf(d) \in Seq(Nat)
         /\ Len(TableOf(d)) = Ends(d, Len(d))
<1>1. Len(d) \in Nat /\ Len(d) \in 0 .. Len(d) OBVIOUS
<1>2. Read(d, Len(d)) BY DEF Read
<1>3. Rows(d)[Len(d)] \in Seq(Nat) BY <1>1, <1>2, RowsType
<1> QED BY <1>2, <1>3, TableIsRows DEF Ends

\* A row of picture i is one of the table's, and the table says so.
LEMMA TableSays ==
  ASSUME NEW d \in Seq(Nat), NEW i \in 1 .. Len(d), NEW k \in Of(d, i)
  PROVE  k \in 1 .. Len(TableOf(d)) /\ TableOf(d)[k] = i
<1>1. Len(d) \in Nat /\ Len(d) \in 0 .. Len(d) OBVIOUS
<1>2. Read(d, Len(d)) BY TableOfType
<1>3. TableOf(d)[k] = i BY <1>1, <1>2, RowsOfPicture, TableIsRows
<1>4. i \in 0 .. Len(d) /\ i - 1 \in 0 .. Len(d) OBVIOUS
<1>5. Ends(d, i - 1) \in Nat /\ Ends(d, i) \in Nat BY <1>1, <1>2, <1>4, RowsType
<1>6. Ends(d, i) <= Ends(d, Len(d)) BY <1>1, <1>2, <1>4, EndsGrow
<1>7. Ends(d, Len(d)) \in Nat BY <1>1, <1>2, RowsType
<1>8. k \in 1 .. Ends(d, Len(d)) BY <1>5, <1>6, <1>7 DEF Of
<1> QED BY <1>3, <1>8, TableOfType

\* What the table says of a row is the picture the row is of.
LEMMA TableIsRight ==
  ASSUME NEW d \in Seq(Nat), NEW k \in 1 .. Len(TableOf(d))
  PROVE  TableOf(d)[k] \in 1 .. Len(d) /\ k \in Of(d, TableOf(d)[k])
<1>1. Len(d) \in Nat /\ Len(d) \in 0 .. Len(d) OBVIOUS
<1>2. Read(d, Len(d)) /\ k \in 1 .. Ends(d, Len(d)) BY TableOfType
<1>3. PICK i \in 1 .. Len(d) : k \in Of(d, i) BY <1>1, <1>2, PictureOfRow
<1>4. TableOf(d)[k] = i BY <1>3, TableSays
<1> QED BY <1>3, <1>4

\* The end of a picture is a number.
LEMMA EndsType ==
  ASSUME NEW d \in Seq(Nat), NEW i \in 0 .. Len(d)
  PROVE  Ends(d, i) \in Nat
<1>1. Len(d) \in Nat /\ Len(d) \in 0 .. Len(d) OBVIOUS
<1>2. Read(d, Len(d)) BY TableOfType
<1> QED BY <1>1, <1>2, RowsType

\* The ends of the pictures are in their order.
LEMMA EndsOrder ==
  ASSUME NEW d \in Seq(Nat), NEW i \in 0 .. Len(d), NEW j \in 0 .. i
  PROVE  Ends(d, j) <= Ends(d, i)
<1>1. Len(d) \in Nat /\ Len(d) \in 0 .. Len(d) OBVIOUS
<1>2. Read(d, Len(d)) BY TableOfType
<1> QED BY <1>1, <1>2, EndsGrow

\* From a row to the next the picture's number does not fall.
LEMMA TableGrows ==
  ASSUME NEW d \in Seq(Nat), NEW k \in 1 .. Len(TableOf(d)), k - 1 \in 1 .. Len(TableOf(d))
  PROVE  TableOf(d)[k - 1] <= TableOf(d)[k]
<1> DEFINE i == TableOf(d)[k - 1]
           j == TableOf(d)[k]
<1>1. i \in 1 .. Len(d) /\ k - 1 \in Of(d, i) BY TableIsRight
<1>2. j \in 1 .. Len(d) /\ k \in Of(d, j) BY TableIsRight
<1> HIDE DEF i, j
<1>3. SUFFICES ASSUME j < i PROVE FALSE BY <1>1, <1>2 DEF i, j
<1>4. i - 1 \in 0 .. Len(d) /\ j \in 0 .. i - 1 BY <1>1, <1>2, <1>3
<1>5. Ends(d, j) <= Ends(d, i - 1) BY <1>4, EndsOrder
<1>6. j \in 0 .. Len(d) /\ j - 1 \in 0 .. Len(d) /\ i \in 0 .. Len(d) BY <1>1, <1>2
<1>7. /\ Ends(d, j) \in Nat /\ Ends(d, i - 1) \in Nat /\ Ends(d, i) \in Nat
      /\ Ends(d, j - 1) \in Nat
  BY <1>4, <1>6, EndsType
<1>8. k \in Nat /\ k <= Ends(d, j) /\ Ends(d, i - 1) + 1 <= k - 1 BY <1>1, <1>2, <1>7 DEF Of
<1> QED BY <1>5, <1>7, <1>8

\* A picture with descriptors has a row.
LEMMA EndsStrict ==
  ASSUME NEW d \in Seq(Nat), NEW i \in 1 .. Len(d), d[i] # 0
  PROVE  Ends(d, i) = Ends(d, i - 1) + d[i] /\ Ends(d, i - 1) < Ends(d, i)
<1>1. Len(d) \in Nat /\ Len(d) \in 0 .. Len(d) OBVIOUS
<1>2. Read(d, Len(d)) BY TableOfType
<1>3. Ends(d, i) = Ends(d, i - 1) + d[i] BY <1>1, <1>2, EndsNext, SMTT(30)
<1>4. i - 1 \in 0 .. Len(d) /\ d[i] \in Nat OBVIOUS
<1>5. Ends(d, i - 1) \in Nat BY <1>4, EndsType
<1> QED BY <1>3, <1>4, <1>5

\* Pictures that all have descriptors, and are some, have rows.
LEMMA FullHasRows ==
  ASSUME NEW d \in Seq(Nat), Full(d), d # <<>>
  PROVE  Len(TableOf(d)) > 0
<1>1. Len(d) \in 1 .. Len(d) /\ Len(d) - 1 \in 0 .. Len(d) OBVIOUS
<1>2. d[Len(d)] # 0 BY <1>1 DEF Full
<1>3. Ends(d, Len(d) - 1) < Ends(d, Len(d)) BY <1>1, <1>2, EndsStrict
<1>4. Ends(d, Len(d) - 1) \in Nat BY <1>1, EndsType
<1>5. Ends(d, Len(d)) \in Nat
  <2>1. Len(d) \in 0 .. Len(d) OBVIOUS
  <2> QED BY <2>1, EndsType
<1> QED BY <1>3, <1>4, <1>5, TableOfType

\* Behind a row of a picture comes one of the same picture or of the next.
LEMMA FullNext ==
  ASSUME NEW d \in Seq(Nat), Full(d), NEW k \in 1 .. Len(TableOf(d))
  PROVE  TableOf(d)[k] <= 1 + IF k = 1 THEN 0 ELSE TableOf(d)[k - 1]
<1> DEFINE p == TableOf(d)[k]
           l == IF k = 1 THEN 0 ELSE TableOf(d)[k - 1]
<1>1. p \in 1 .. Len(d) /\ k \in Of(d, p) BY TableIsRight
<1>2. l \in 0 .. Len(d) /\ k - 1 <= Ends(d, l)
  <2>1. CASE k = 1
    <3>1. Ends(d, 0) = 0
      <4>1. Len(d) \in Nat OBVIOUS
      <4> QED BY <4>1, RowsFirst DEF Ends
    <3>2. Len(d) \in Nat /\ l = 0 BY <2>1
    <3> QED BY <2>1, <3>1, <3>2
  <2>2. CASE k # 1
    <3>1. k - 1 \in 1 .. Len(TableOf(d)) /\ l = TableOf(d)[k - 1] BY <2>2
    <3>2. l \in 1 .. Len(d) /\ k - 1 \in Of(d, l) BY <3>1, TableIsRight
    <3>3. l \in 0 .. Len(d) BY <3>2
    <3> QED BY <3>2, <3>3 DEF Of
  <2> QED BY <2>1, <2>2
<1>3. Len(d) \in Nat /\ k \in Nat OBVIOUS
<1> HIDE DEF p, l
<1>4. SUFFICES ASSUME p > 1 + l PROVE FALSE BY <1>1, <1>2, <1>3 DEF p, l
<1> DEFINE q == l + 1
<1>5. /\ q \in 1 .. Len(d) /\ q - 1 = l /\ q \in 0 .. Len(d)
      /\ p - 1 \in 0 .. Len(d) /\ q \in 0 .. p - 1 /\ p \in 0 .. Len(d)
  BY <1>1, <1>2, <1>3, <1>4
<1> HIDE DEF q
<1>6. d[q] # 0 BY <1>5 DEF Full
<1>7. Ends(d, l) < Ends(d, q) BY <1>5, <1>6, EndsStrict
<1>8. Ends(d, q) <= Ends(d, p - 1) BY <1>5, EndsOrder
<1>9. Ends(d, l) \in Nat /\ Ends(d, q) \in Nat /\ Ends(d, p - 1) \in Nat BY <1>2, <1>5, EndsType
<1>10. Ends(d, p - 1) < k
  <2>1. Ends(d, p) \in Nat BY <1>5, EndsType
  <2> QED BY <1>1, <1>3, <1>9, <2>1 DEF Of
<1> QED BY <1>2, <1>3, <1>7, <1>8, <1>9, <1>10

\* If no picture is without descriptors the number of a row is its picture.
LEMMA FullNumbers ==
  ASSUME NEW d \in Seq(Nat), Full(d)
  PROVE  \A k \in 1 .. Len(TableOf(d)) : Number(TableOf(d), k) = TableOf(d)[k]
<1> DEFINE t == TableOf(d)
           T == {k \in Nat : Number(t, k) = IF k = 0 THEN 0 ELSE t[k]}
<1>1. t \in Seq(Nat) /\ Len(t) \in Nat BY TableOfType
<1>2. \A k \in 1 .. Len(t) : /\ t[k] <= 1 + IF k = 1 THEN 0 ELSE t[k - 1]
                             /\ k # 1 => t[k - 1] <= t[k]
  <2> TAKE k \in 1 .. Len(t)
  <2>1. k # 1 => k - 1 \in 1 .. Len(t) OBVIOUS
  <2> QED BY <2>1, FullNext, TableGrows
<1> HIDE DEF t
<1>3. 0 \in T BY <1>1, NumberFirst
<1>4. ASSUME NEW k \in 1 .. Len(t), k - 1 \in T PROVE k \in T
  <2>1. Number(t, k) = IF t[k] <= Number(t, k - 1) THEN t[k] ELSE Number(t, k - 1) + 1
    BY <1>1, NumberNext
  <2>2. t[k] \in Nat /\ k \in Nat /\ k # 0 /\ (k # 1 => t[k - 1] \in Nat)
    <3>1. k # 1 => k - 1 \in 1 .. Len(t) OBVIOUS
    <3> QED BY <1>1, <3>1, ElementType
  <2>3. Number(t, k - 1) = IF k = 1 THEN 0 ELSE t[k - 1]
    <3>1. k - 1 = 0 <=> k = 1 OBVIOUS
    <3> QED BY <1>4, <3>1
  <2>4. Number(t, k) = t[k] BY <1>2, <2>1, <2>2, <2>3
  <2> QED BY <2>2, <2>4
<1>5. 0 .. Len(t) \subseteq T
  <2> HIDE DEF T
  <2> QED BY <1>1, <1>3, <1>4, Counting
<1>6. ASSUME NEW k \in 1 .. Len(t) PROVE Number(t, k) = t[k]
  <2>1. k \in 0 .. Len(t) /\ k # 0 BY <1>1
  <2>2. k \in T BY <1>5, <2>1
  <2> QED BY <2>1, <2>2
<1> QED BY <1>6 DEF t

\* If no picture is without descriptors the counts are those of the pictures.
LEMMA FullCounts ==
  ASSUME NEW d \in Seq(Nat), Full(d)
  PROVE  CountsOf(TableOf(d)) = d
<1> DEFINE t == TableOf(d)
           n == Len(t)
<1>1. t \in Seq(Nat) /\ n \in Nat /\ n \in 0 .. n /\ n = Ends(d, Len(d)) BY TableOfType
<1>2. Len(d) \in Nat OBVIOUS
<1>3. Number(t, n) = Len(d)
  <2>1. CASE Len(d) = 0
    <3>1. Ends(d, 0) = 0 BY <1>2, RowsFirst DEF Ends
    <3> QED BY <1>1, <2>1, <3>1, NumberFirst
  <2>2. CASE Len(d) # 0
    <3>1. /\ Len(d) \in 1 .. Len(d) /\ Len(d) - 1 \in 0 .. Len(d)
      BY <1>2, <2>2
    <3>2. d[Len(d)] # 0 BY <3>1 DEF Full
    <3>3. Ends(d, Len(d) - 1) < Ends(d, Len(d)) BY <3>1, <3>2, EndsStrict
    <3>4. Ends(d, Len(d) - 1) \in Nat BY <3>1, EndsType
    <3>5. n \in Of(d, Len(d)) BY <1>1, <3>3, <3>4 DEF Of
    <3>6. n \in 1 .. n /\ t[n] = Len(d) BY <3>1, <3>5, TableSays
    <3> QED BY <3>6, FullNumbers
  <2> QED BY <2>1, <2>2
<1>4. \A i \in 1 .. Len(d) : Cardinality(RowsNumbered(t, i, n)) = d[i]
  <2> TAKE i \in 1 .. Len(d)
  <2>1. RowsNumbered(t, i, n) = Of(d, i)
    <3>1. \A k \in 1 .. n : Number(t, k) = i => k \in Of(d, i) BY FullNumbers, TableIsRight
    <3>2. \A k \in Of(d, i) : k \in 1 .. n /\ Number(t, k) = i BY FullNumbers, TableSays
    <3> HIDE DEF t, n
    <3> QED BY <3>1, <3>2 DEF RowsNumbered
  <2>2. i \in 0 .. Len(d) /\ i - 1 \in 0 .. Len(d) /\ d[i] # 0 /\ d[i] \in Nat BY DEF Full
  <2>3. Ends(d, i) \in Nat /\ Ends(d, i - 1) \in Nat BY <2>2, EndsType
  <2>4. Ends(d, i) = Ends(d, i - 1) + d[i] /\ Ends(d, i - 1) < Ends(d, i) BY <2>2, EndsStrict
  <2>5. Cardinality(Ends(d, i - 1) + 1 .. Ends(d, i)) = Ends(d, i) - (Ends(d, i - 1) + 1) + 1
    <3>1. Ends(d, i - 1) + 1 \in Int /\ Ends(d, i) \in Int
          /\ ~(Ends(d, i - 1) + 1 > Ends(d, i))
      BY <2>3, <2>4
    <3> QED BY <3>1, FS_Interval
  <2>6. Cardinality(RowsNumbered(t, i, n)) = Ends(d, i) - (Ends(d, i - 1) + 1) + 1
    BY <2>1, <2>5 DEF Of
  <2> DEFINE a == Ends(d, i - 1)
             b == Ends(d, i)
             c == Cardinality(RowsNumbered(t, i, n))
             e == d[i]
  <2>7. a \in Nat /\ b \in Nat /\ e \in Nat /\ b = a + e /\ c = b - (a + 1) + 1
    BY <2>2, <2>3, <2>4, <2>6
  <2> HIDE DEF a, b, c, e
  <2>8. c = e BY <2>7
  <2> QED BY <2>8 DEF c, e
<1> HIDE DEF t, n
<1>5. /\ CountsOf(t) \in Seq(Nat) /\ Len(CountsOf(t)) = Len(d)
      /\ \A i \in 1 .. Len(d) : CountsOf(t)[i] = Cardinality(RowsNumbered(t, i, n))
  BY <1>1, <1>3, CountsOfType DEF n
<1>6. \A i \in 1 .. Len(d) : CountsOf(t)[i] = d[i] BY <1>4, <1>5
<1>7. CountsOf(t) = d BY <1>5, <1>6, SameSequence
<1> QED BY <1>7 DEF t

\* A prefix of a sequence of numbers is one.
LEMMA PrefixesType ==
  ASSUME NEW s \in Seq(Nat)
  PROVE  Prefixes(s) \subseteq Seq(Nat)
<1>1. ASSUME NEW l \in 0 .. Len(s) PROVE SubSeq(s, 1, l) \in Seq(Nat)
  <2>1. \A i \in 1 .. l : s[i] \in Nat OBVIOUS
  <2> QED BY <2>1
<1> QED BY <1>1 DEF Prefixes

-----------------------------------------------------------------------------
(* The counting. *)

\* The loop's row is as it was written, and the current picture is its own or
\* one before it.
LEMMA LastNotAhead ==
  ASSUME IInv, phase = "count", at <= Len(index_IMG)
  PROVE  /\ db \in Seq(Nat) /\ index_IMG[at] = saved[at] /\ saved[at] \in 1 .. Len(db)
         /\ lastIndex <= saved[at]
<1>1. at \in 1 .. Len(index_IMG) BY DEF IInv, Types
<1>2. /\ db \in Seq(Nat) /\ saved = TableOf(db) /\ Len(index_IMG) = Len(saved)
      /\ index_IMG[at] = saved[at]
      /\ IF at = 1 THEN lastIndex = 0 ELSE lastIndex <= saved[at - 1]
  BY <1>1 DEF IInv, Types, Rest
<1>3. saved[at] \in 1 .. Len(db) BY <1>1, <1>2, TableIsRight
<1>4. lastIndex \in Nat BY DEF IInv, Types
<1>5. lastIndex <= saved[at]
  <2>1. CASE at = 1 BY <1>2, <1>3, <2>1
  <2>2. CASE at # 1
    <3>1. at - 1 \in 1 .. Len(saved) BY <1>1, <1>2, <2>2
    <3>2. saved[at - 1] <= saved[at] BY <1>1, <1>2, <3>1, TableGrows
    <3>3. saved[at - 1] \in 1 .. Len(db) BY <1>2, <3>1, TableIsRight
    <3> QED BY <1>2, <1>3, <1>4, <2>2, <3>2, <3>3, SMTT(30)
  <2> QED BY <2>1, <2>2
<1> QED BY <1>2, <1>3, <1>5

-----------------------------------------------------------------------------
(* The files. *)

\* If no picture is without descriptors, what ShiftedCounts says of the files is
\* that they are those of the pictures.
LEMMA TrainedAgree ==
  ASSUME IInv PROVE FilesAgree
<1> SUFFICES ASSUME ~mixed, NoneEmpty
             PROVE  table = TableOf(filesOf) /\ counts = filesOf /\ yml = Len(table)
  BY DEF FilesAgree
<1>1. table = TableOf(filesOf) /\ counts = CountsOf(table) /\ yml = Len(table)
  BY DEF IInv, ShiftedCounts
<1>2. filesOf \in Seq(Nat) /\ Full(filesOf) BY DEF IInv, Types, NoneEmpty, Full
<1> QED BY <1>1, <1>2, FullCounts

-----------------------------------------------------------------------------
(* The votes. *)

\* One more row of the frame is one more vote for its picture.
LEMMA BallotsCount ==
  ASSUME NEW i, NEW n \in Nat
  PROVE  /\ IsFiniteSet(Ballots(i, n)) /\ Cardinality(Ballots(i, n)) \in 0 .. n
         /\ n > 0 => Cardinality(Ballots(i, n))
              = Cardinality(Ballots(i, n - 1)) + IF index_IMG[source[n]] = i THEN 1 ELSE 0
<1>1. \A m \in Nat : /\ IsFiniteSet(Ballots(i, m))
                     /\ Cardinality(Ballots(i, m)) \in 0 .. m
  <2> TAKE m \in Nat
  <2>1. IsFiniteSet(1 .. m) /\ Cardinality(1 .. m) = m BY FS_Interval
  <2>2. Ballots(i, m) \in SUBSET (1 .. m) BY DEF Ballots
  <2>3. IsFiniteSet(Ballots(i, m)) /\ Cardinality(Ballots(i, m)) <= m
    BY <2>1, <2>2, FS_Subset
  <2>4. Cardinality(Ballots(i, m)) \in Nat BY <2>3, FS_CardinalityType
  <2> QED BY <2>3, <2>4
<1>2. ASSUME n > 0
      PROVE  Cardinality(Ballots(i, n))
               = Cardinality(Ballots(i, n - 1)) + IF index_IMG[source[n]] = i THEN 1 ELSE 0
  <2>1. n - 1 \in Nat BY <1>2
  <2>2. Cardinality(Ballots(i, n - 1)) \in Nat BY <1>1, <2>1
  <2>3. n \notin Ballots(i, n - 1) BY DEF Ballots
  <2>4. CASE index_IMG[source[n]] = i
    <3>1. Ballots(i, n) = Ballots(i, n - 1) \cup {n} BY <1>2, <2>4 DEF Ballots
    <3>2. Cardinality(Ballots(i, n - 1) \cup {n}) = Cardinality(Ballots(i, n - 1)) + 1
      BY <1>1, <2>1, <2>3, FS_AddElement
    <3> QED BY <2>4, <3>1, <3>2
  <2>5. CASE index_IMG[source[n]] # i
    <3>1. Ballots(i, n) = Ballots(i, n - 1) BY <1>2, <2>5 DEF Ballots
    <3> QED BY <2>2, <2>5, <3>1
  <2> QED BY <2>4, <2>5
<1> QED BY <1>1, <1>2

\* What an entry of imgFreq holds.
LEMMA EntryType ==
  ASSUME imgFreq \in Seq(Entry), NEW e \in DOMAIN imgFreq
  PROVE  /\ imgFreq[e] \in Entry /\ imgFreq[e].ImgIndex \in Nat
         /\ imgFreq[e].Freq \in 1 .. MaxGood
<1>1. imgFreq[e] \in Entry OBVIOUS
<1> QED BY <1>1 DEF Entry

\* new is imgFreq after a vote for img.
Voted(new, img) ==
  /\ new \in Seq(Entry) /\ DOMAIN imgFreq \subseteq DOMAIN new
  /\ \A e \in DOMAIN imgFreq :
       /\ new[e].ImgIndex = imgFreq[e].ImgIndex
       /\ new[e].Freq = imgFreq[e].Freq + IF imgFreq[e].ImgIndex = img THEN 1 ELSE 0
  /\ \A e \in DOMAIN new \ DOMAIN imgFreq :
       /\ e = Len(imgFreq) + 1 /\ new[e].ImgIndex = img /\ new[e].Freq = 1
       /\ \A k \in DOMAIN imgFreq : imgFreq[k].ImgIndex # img
  /\ \E e \in DOMAIN new : new[e].ImgIndex = img

\* A vote changes the entry of its picture, or adds one.
LEMMA VoteForGives ==
  ASSUME NEW img \in Nat, imgFreq \in Seq(Entry), MaxGood > 0,
         \A e \in DOMAIN imgFreq : imgFreq[e].ImgIndex = img => imgFreq[e].Freq < MaxGood
  PROVE  Voted(VoteFor(img), img)
<1> DEFINE new == VoteFor(img)
<1>0. \A e \in DOMAIN imgFreq : /\ imgFreq[e] \in Entry /\ imgFreq[e].ImgIndex \in Nat
                                /\ imgFreq[e].Freq \in 1 .. MaxGood
  BY EntryType
<1>1. CASE \E k \in DOMAIN imgFreq : imgFreq[k].ImgIndex = img
  <2>1. new = [k \in DOMAIN imgFreq |->
                 IF imgFreq[k].ImgIndex = img THEN [imgFreq[k] EXCEPT !.Freq = @ + 1]
                                              ELSE imgFreq[k]]
    BY <1>1 DEF VoteFor
  <2> HIDE DEF new
  <2>2. ASSUME NEW e \in DOMAIN imgFreq
        PROVE  /\ new[e] \in Entry /\ new[e].ImgIndex = imgFreq[e].ImgIndex
               /\ new[e].Freq = imgFreq[e].Freq + IF imgFreq[e].ImgIndex = img THEN 1 ELSE 0
    <3>1. CASE imgFreq[e].ImgIndex = img
      <4>1. new[e] = [imgFreq[e] EXCEPT !.Freq = @ + 1] BY <2>1, <3>1
      <4>2. imgFreq[e].Freq + 1 \in 1 .. MaxGood BY <1>0, <3>1
      <4> QED BY <1>0, <3>1, <4>1, <4>2 DEF Entry
    <3>2. CASE imgFreq[e].ImgIndex # img
      <4>1. new[e] = imgFreq[e] BY <2>1, <3>2
      <4> QED BY <1>0, <3>2, <4>1
    <3> QED BY <3>1, <3>2
  <2>3. DOMAIN new = DOMAIN imgFreq /\ DOMAIN imgFreq = 1 .. Len(imgFreq) BY <2>1
  <2>4. new \in Seq(Entry)
    <3>1. new = [k \in 1 .. Len(imgFreq) |-> new[k]] BY <2>1, <2>3
    <3>2. \A k \in 1 .. Len(imgFreq) : new[k] \in Entry BY <2>2, <2>3
    <3>3. Len(imgFreq) \in Nat OBVIOUS
    <3> QED BY <3>1, <3>2, <3>3
  <2>5. \E e \in DOMAIN new : new[e].ImgIndex = img BY <1>1, <2>2, <2>3
  <2> QED BY <2>2, <2>3, <2>4, <2>5 DEF new, Voted
<1>2. CASE \A k \in DOMAIN imgFreq : imgFreq[k].ImgIndex # img
  <2> DEFINE entry == [ImgIndex |-> img, Freq |-> 1]
  <2>1. new = Append(imgFreq, entry) BY <1>2 DEF VoteFor
  <2>2. entry \in Entry /\ entry.ImgIndex = img /\ entry.Freq = 1 BY DEF Entry
  <2> HIDE DEF new, entry
  <2>3. new \in Seq(Entry) BY <2>1, <2>2
  <2>4. DOMAIN imgFreq = 1 .. Len(imgFreq) /\ Len(imgFreq) \in Nat OBVIOUS
  <2>5. DOMAIN new = 1 .. Len(imgFreq) + 1 BY <2>1, <2>2
  <2>6. \A e \in DOMAIN imgFreq : new[e] = imgFreq[e] BY <2>1, <2>2, <2>4
  <2>7. new[Len(imgFreq) + 1] = entry BY <2>1, <2>2, <2>4
  <2>8. \A e \in DOMAIN imgFreq :
          imgFreq[e].Freq = imgFreq[e].Freq + IF imgFreq[e].ImgIndex = img THEN 1 ELSE 0
    BY <1>0, <1>2
  <2>9. \A e \in DOMAIN new \ DOMAIN imgFreq : e = Len(imgFreq) + 1 BY <2>4, <2>5
  <2>10. \E e \in DOMAIN new : new[e].ImgIndex = img
    <3>1. Len(imgFreq) + 1 \in DOMAIN new BY <2>4, <2>5
    <3> QED BY <2>2, <2>7, <3>1
  <2>11. DOMAIN imgFreq \subseteq DOMAIN new BY <2>4, <2>5
  <2> QED BY <1>2, <2>2, <2>3, <2>6, <2>7, <2>8, <2>9, <2>10, <2>11 DEF new, Voted
<1> QED BY <1>1, <1>2

\* Highest is 1, or the most votes that any entry has.
LEMMA HighestGives ==
  ASSUME imgFreq \in Seq(Entry)
  PROVE  /\ Highest \in 1 .. MaxGood \cup {1}
         /\ imgFreq # <<>> => \E k \in DOMAIN imgFreq : imgFreq[k].Freq = Highest
         /\ \A k \in DOMAIN imgFreq : imgFreq[k].Freq <= Highest
<1> DEFINE F == {imgFreq[k].Freq : k \in DOMAIN imgFreq}
<1>1. \A k \in DOMAIN imgFreq : imgFreq[k].Freq \in 1 .. MaxGood BY EntryType
<1>2. \A x \in {1} \cup F : x \in 1 .. MaxGood \cup {1} BY <1>1
<1> HIDE DEF F
<1>3. {1} \cup F \subseteq Nat /\ {1} \cup F # {} /\ MaxGood + 1 \in Nat
      /\ \A x \in {1} \cup F : x <= MaxGood + 1
  <2>1. \A x \in 1 .. MaxGood \cup {1} : x \in Nat /\ x <= MaxGood + 1 OBVIOUS
  <2>2. MaxGood + 1 \in Nat OBVIOUS
  <2> QED BY <1>2, <2>1, <2>2
<1>4. Max({1} \cup F) \in {1} \cup F /\ \A x \in {1} \cup F : x <= Max({1} \cup F)
  BY <1>3, MaxIsGreatest
<1>5. Highest = Max({1} \cup F) BY DEF Highest, F
<1>6. Highest \in {1} \cup F /\ \A x \in {1} \cup F : x <= Highest BY <1>4, <1>5
<1>7. Highest \in 1 .. MaxGood \cup {1} BY <1>2, <1>6
<1>8. \A k \in DOMAIN imgFreq : imgFreq[k].Freq \in F BY DEF F
<1>9. ASSUME imgFreq # <<>> PROVE \E k \in DOMAIN imgFreq : imgFreq[k].Freq = Highest
  <2>1. CASE Highest \in F BY <2>1 DEF F
  <2>2. CASE Highest = 1
    <3>1. 1 \in DOMAIN imgFreq BY <1>9
    <3>2. imgFreq[1].Freq <= Highest /\ imgFreq[1].Freq \in 1 .. MaxGood
      BY <1>1, <1>6, <1>8, <3>1
    <3>3. imgFreq[1].Freq = Highest BY <2>2, <3>2
    <3> QED BY <3>1, <3>3
  <2> QED BY <2>1, <2>2, <1>6
<1> QED BY <1>6, <1>7, <1>8, <1>9

\* The picture picked is one with that many votes, if there is an entry.
LEMMA LastWithGives ==
  ASSUME imgFreq \in Seq(Entry)
  PROVE  IF imgFreq = <<>> THEN LastWith(Highest) = 0
         ELSE \E k \in DOMAIN imgFreq : /\ imgFreq[k].Freq = Highest
                                        /\ LastWith(Highest) = imgFreq[k].ImgIndex
<1> DEFINE K == {k \in DOMAIN imgFreq : imgFreq[k].Freq = Highest}
<1>1. DOMAIN imgFreq = 1 .. Len(imgFreq) /\ Len(imgFreq) \in Nat OBVIOUS
<1>2. CASE imgFreq = <<>>
  <2>1. K = {} BY <1>2
  <2> QED BY <1>2, <2>1 DEF LastWith
<1>3. CASE imgFreq # <<>>
  <2>1. K # {} BY <1>3, HighestGives
  <2>2. K \subseteq Nat /\ \A x \in K : x <= Len(imgFreq) BY <1>1
  <2>3. LastWith(Highest) = imgFreq[Max(K)].ImgIndex BY <2>1 DEF LastWith
  <2>4. Max(K) \in K
    <3> HIDE DEF K
    <3> QED BY <1>1, <2>1, <2>2, MaxIsGreatest
  <2> QED BY <1>3, <2>3, <2>4
<1> QED BY <1>2, <1>3

\* When all rows of the frame are counted, and the files are of one training, the
\* picture picked has the most votes; there is none only if there are no votes.
LEMMA Elected ==
  ASSUME IInv, phase = "vote", at > Len(source), ~mixed, NoneEmpty
  PROVE  \/ /\ LastWith(Highest) = 0
            /\ \A i \in DOMAIN filesOf : Votes(i) = 0
         \/ /\ LastWith(Highest) \in DOMAIN filesOf
            /\ Votes(LastWith(Highest)) = Highest /\ Highest > 0
            /\ \A i \in DOMAIN filesOf : Votes(i) <= Highest
<1>1. Types /\ Loaded /\ RowsOfFrame /\ Tally /\ FilesAgree BY TrainedAgree DEF IInv
<1>2. index_IMG = TableOf(filesOf) BY <1>1 DEF Loaded, FilesAgree
<1>3. at - 1 = Len(source) /\ Len(source) \in Nat BY <1>1, SMTT(30) DEF Types, RowsOfFrame
<1>4. \A i : Votes(i) = Cardinality(Ballots(i, at - 1))
  <2>1. DOMAIN source = 1 .. at - 1 BY <1>1, <1>3 DEF Types
  <2> QED BY <1>2, <2>1 DEF Votes, Ballots
<1>5. \A k \in 1 .. at - 1 : \E e \in DOMAIN imgFreq : imgFreq[e].ImgIndex = index_IMG[source[k]]
  BY <1>1 DEF Tally
<1>6. \A e \in DOMAIN imgFreq : imgFreq[e].Freq = Votes(imgFreq[e].ImgIndex)
  BY <1>1, <1>4 DEF Tally
<1>7. imgFreq \in Seq(Entry) BY <1>1 DEF Types
<1>8. \A i : Votes(i) \in Nat /\ (Votes(i) # 0 => Ballots(i, at - 1) # {})
  <2> TAKE i
  <2>1. IsFiniteSet(Ballots(i, at - 1)) /\ Cardinality(Ballots(i, at - 1)) \in Nat
    BY <1>3, BallotsCount
  <2> QED BY <1>4, <2>1, FS_EmptySet
<1>9. ASSUME NEW i, Votes(i) # 0
      PROVE  \E e \in DOMAIN imgFreq : imgFreq[e].ImgIndex = i
  <2>1. PICK k \in Ballots(i, at - 1) : TRUE BY <1>8, <1>9
  <2>2. k \in 1 .. at - 1 /\ index_IMG[source[k]] = i BY <2>1 DEF Ballots
  <2> QED BY <1>5, <2>2
<1>10. CASE imgFreq = <<>>
  <2>1. LastWith(Highest) = 0 BY <1>7, <1>10, LastWithGives
  <2>2. \A i : Votes(i) = 0 BY <1>9, <1>10
  <2> QED BY <2>1, <2>2
<1>11. CASE imgFreq # <<>>
  <2>1. PICK k \in DOMAIN imgFreq : /\ imgFreq[k].Freq = Highest
                                    /\ LastWith(Highest) = imgFreq[k].ImgIndex
    BY <1>7, <1>11, LastWithGives
  <2> DEFINE img == imgFreq[k].ImgIndex
  <2>2. Votes(img) = Highest BY <1>6, <2>1
  <2>3. Highest \in Nat /\ Highest > 0
    <3>1. imgFreq[k].Freq \in 1 .. MaxGood BY <1>7, EntryType
    <3> QED BY <2>1, <3>1
  <2>4. img \in DOMAIN filesOf
    <3>1. PICK b \in Ballots(img, at - 1) : TRUE BY <1>8, <2>2, <2>3
    <3>2. b \in 1 .. at - 1 /\ index_IMG[source[b]] = img BY <3>1 DEF Ballots
    <3>3. source[b] \in 1 .. featureCluster /\ source[b] <= Len(index_IMG)
      <4>1. source \in Seq(1 .. featureCluster) BY <1>1 DEF RowsOfFrame
      <4>2. b \in 1 .. Len(source) BY <1>3, <3>2
      <4>3. source[b] \in 1 .. featureCluster BY <4>1, <4>2, ElementType
      <4> QED BY <1>1, <3>2, <4>3 DEF Tally
    <3>4. filesOf \in Seq(Nat) /\ index_IMG \in Seq(Nat) BY <1>1 DEF Types
    <3>5. source[b] \in 1 .. Len(index_IMG) BY <3>3, <3>4
    <3>6. TableOf(filesOf)[source[b]] \in 1 .. Len(filesOf) BY <1>2, <3>4, <3>5, TableIsRight
    <3> QED BY <1>2, <3>2, <3>4, <3>6
  <2>5. ASSUME NEW i \in DOMAIN filesOf PROVE Votes(i) <= Highest
    <3>1. CASE Votes(i) = 0 BY <2>3, <3>1
    <3>2. CASE Votes(i) # 0
      <4>1. PICK e \in DOMAIN imgFreq : imgFreq[e].ImgIndex = i BY <1>9, <3>2
      <4> QED BY <1>6, <1>7, <4>1, HighestGives
    <3> QED BY <3>1, <3>2
  <2> QED BY <2>1, <2>2, <2>3, <2>4, <2>5
<1> QED BY <1>10, <1>11

-----------------------------------------------------------------------------
(* Every step keeps the invariant. *)

\* The types are kept by every step.
LEMMA TypesStep ==
  ASSUME IInv, [Next]_vars
  PROVE  Types'
<1> USE DEF training, files, memory, match
<1>i. Types BY DEF IInv
<1>1. CASE Extract
  <2>1. db[at] \in Nat BY <1>1, <1>i, SMTT(30) DEF Types, Extract
  <2>2. Copies(db[at], at) \in Seq(Nat) BY <2>1, <1>i, CopiesType DEF Types
  <2>3. index_IMG \o Copies(db[at], at) \in Seq(Nat) BY <2>2, <1>i DEF Types
  <2>4. index_IMG' \in Seq(Nat) BY <1>1, <2>3 DEF Extract
  <2>5. featureCluster' \in Nat /\ at' \in Nat \ {0}
    <3>1. featureCluster' = featureCluster + db[at] /\ at' = at + 1 BY <1>1 DEF Extract
    <3>2. featureCluster \in Nat /\ at \in Nat \ {0} BY <1>i DEF Types
    <3> QED BY <2>1, <3>1, <3>2
  <2>6. UNCHANGED <<training, phase, files, dscCnt_IMG, lastIndex, place, match>>
    BY <1>1 DEF Extract
  <2> QED BY <1>i, <2>4, <2>5, <2>6 DEF Types
<1>2. CASE ExtractMissing BY <1>2, <1>i DEF ExtractMissing, Types
<1>3. CASE SaveTable BY <1>3, <1>i DEF SaveTable, Types
<1>4. CASE Count
  <2>1. index_IMG' \in Seq(Nat) /\ dscCnt_IMG' \in Seq(Nat) /\ lastIndex' \in Nat
    <3>1. CASE index_IMG[at] # lastIndex
      <4>1. lastIndex + 1 \in Nat BY <1>i DEF Types
      <4>2. [index_IMG EXCEPT ![at] = lastIndex + 1] \in Seq(Nat) BY <4>1, <1>i, ExceptType DEF Types
      <4>3. Append(dscCnt_IMG, 1) \in Seq(Nat) BY <1>i DEF Types
      <4> QED BY <1>4, <3>1, <4>1, <4>2, <4>3 DEF Count
    <3>2. CASE index_IMG[at] = lastIndex
      <4>1. index_IMG' = index_IMG /\ lastIndex' = lastIndex
            /\ dscCnt_IMG' = [dscCnt_IMG EXCEPT ![index_IMG[at]] = @ + 1]
        BY <1>4, <3>2 DEF Count
      <4>2. index_IMG[at] \in DOMAIN dscCnt_IMG => dscCnt_IMG[index_IMG[at]] + 1 \in Nat
        <5>1. dscCnt_IMG \in Seq(Nat) BY <1>i DEF Types
        <5> QED BY <5>1
      <4>3. [dscCnt_IMG EXCEPT ![index_IMG[at]] = @ + 1] \in Seq(Nat)
        BY <1>i, <4>2, ExceptType DEF Types
      <4> QED BY <1>i, <4>1, <4>3 DEF Types
    <3> QED BY <3>1, <3>2
  <2> QED BY <1>4, <1>i, <2>1 DEF Types, Count
<1>5. CASE SaveCounts BY <1>5, <1>i DEF SaveCounts, Types
<1>6. CASE SaveCluster
  <2>1. db \in Seq(Nat) BY <1>6 DEF IInv, Saving, SaveCluster
  <2> QED BY <1>6, <1>i, <2>1 DEF Types, SaveCluster
<1>7. CASE Kill
  <2>1. \A s \in Seq(Nat) : Prefixes(s) \subseteq Seq(Nat) BY PrefixesType
  <2>2. table' \in Seq(Nat) /\ counts' \in Seq(Nat) BY <1>7, <1>i, <2>1 DEF Types, Kill
  <2>3. yml' \in Nat BY <1>7, <1>i DEF Types, Kill
  <2> QED BY <1>7, <1>i, <2>2, <2>3 DEF Types, Kill
<1>8. CASE Load
  <2>1. CountsRead \in Seq(Nat)
    <3>1. <<>> \in Seq(Nat) /\ counts \in Seq(Nat) BY <1>i DEF Types
    <3> QED BY <3>1 DEF CountsRead
  <2> QED BY <1>8, <1>i, <2>1 DEF Types, Load
<1>9. CASE Frame BY <1>9, <1>i DEF Frame, Types
<1>10. CASE FrameUnreadable
  <2>1. NoFrame \in Seq(Int) /\ <<>> \in Seq(Entry) BY DEF NoFrame
  <2> QED BY <1>10, <1>i, <2>1 DEF Types, FrameUnreadable
<1>11. CASE Vote
  <2> DEFINE img == index_IMG[source[at]]
  <2>1. phase = "vote" /\ at \in 1 .. Len(source) /\ Len(source) <= MaxGood /\ Len(source) \in Nat
        /\ source \in Seq(1 .. featureCluster) /\ source[at] <= Len(index_IMG)
    BY <1>11, <1>i DEF Types, Vote, IInv, RowsOfFrame
  <2>2. source[at] \in 1 .. featureCluster BY <2>1, ElementType
  <2>3. img \in Nat
    <3>1. index_IMG \in Seq(Nat) /\ source[at] \in 1 .. Len(index_IMG) BY <1>i, <2>1, <2>2, SMTT(60) DEF Types
    <3> QED BY <3>1, ElementType
  <2>4. imgFreq \in Seq(Entry) BY <1>i DEF Types
  <2>5. \A e \in DOMAIN imgFreq : imgFreq[e].Freq < MaxGood
    <3> TAKE e \in DOMAIN imgFreq
    <3>1. imgFreq[e].Freq = Cardinality(Ballots(imgFreq[e].ImgIndex, at - 1))
      BY <2>1 DEF IInv, Tally
    <3>2. at - 1 \in Nat BY <2>1
    <3>3. imgFreq[e].Freq \in 0 .. at - 1 BY <3>1, <3>2, BallotsCount
    <3> QED BY <2>1, <3>3
  <2>6. MaxGood > 0 BY <2>1
  <2>7. VoteFor(img) \in Seq(Entry) BY <2>3, <2>4, <2>5, <2>6, VoteForGives DEF Voted
  <2> QED BY <1>11, <1>i, <2>7 DEF Types, Vote
<1>12. CASE VoteBeyond BY <1>12, <1>i DEF VoteBeyond, Types
<1>13. CASE Pick
  <2>1. imgFreq \in Seq(Entry) BY <1>i DEF Types
  <2>2. Highest \in 1 .. MaxGood \cup {1} BY <2>1, HighestGives
  <2>3. LastWith(Highest) \in Nat
    <3>1. CASE imgFreq = <<>> BY <2>1, <3>1, LastWithGives
    <3>2. CASE imgFreq # <<>> BY <2>1, <3>2, LastWithGives, EntryType
    <3> QED BY <3>1, <3>2
  <2>4. matchedImgIndex' \in Nat BY <1>13, <2>3 DEF Pick
  <2> QED BY <1>13, <1>i, <2>2, <2>4 DEF Types, Pick
<1>14. CASE UNCHANGED vars BY <1>14, <1>i DEF vars, Types
<1> QED
  BY <1>1, <1>2, <1>3, <1>4, <1>5, <1>6, <1>7, <1>8,
     <1>9, <1>10, <1>11, <1>12, <1>13, <1>14 DEF Next, init_DB, matchImg

\* No step gives a number to a picture that is not there.
LEMMA LastIsPictureStep ==
  ASSUME IInv, [Next]_vars
  PROVE  LastIsPicture'
<1> USE DEF training, files, memory, match
<1>i. LastIsPicture BY DEF IInv
<1>1. CASE Extract BY <1>1, <1>i DEF Extract, LastIsPicture
<1>2. CASE ExtractMissing BY <1>2, <1>i DEF ExtractMissing, LastIsPicture
<1>3. CASE SaveTable BY <1>3, <1>i DEF SaveTable, LastIsPicture
<1>4. CASE Count
  <2>1. /\ db \in Seq(Nat) /\ index_IMG[at] = saved[at] /\ saved[at] \in 1 .. Len(db)
        /\ lastIndex <= saved[at]
    BY <1>4, LastNotAhead DEF Count
  <2>2. lastIndex \in Nat BY DEF IInv, Types
  <2>3. CASE index_IMG[at] # lastIndex
    <3>1. lastIndex' = lastIndex + 1 /\ db' = db BY <1>4, <2>3 DEF Count
    <3>2. lastIndex + 1 <= Len(db) BY <2>1, <2>2, <2>3
    <3> QED BY <3>1, <3>2 DEF LastIsPicture
  <2>4. CASE index_IMG[at] = lastIndex BY <1>4, <2>4, <1>i DEF Count, LastIsPicture
  <2> QED BY <2>3, <2>4
<1>5. CASE SaveCounts BY <1>5, <1>i DEF SaveCounts, LastIsPicture
<1>6. CASE SaveCluster BY <1>6, <1>i DEF SaveCluster, LastIsPicture
<1>7. CASE Kill BY <1>7, <1>i DEF Kill, LastIsPicture
<1>8. CASE Load BY <1>8, <1>i DEF Load, LastIsPicture
<1>9. CASE Frame BY <1>9, <1>i DEF Frame, LastIsPicture
<1>10. CASE FrameUnreadable BY <1>10, <1>i DEF FrameUnreadable, LastIsPicture
<1>11. CASE Vote BY <1>11, <1>i DEF Vote, LastIsPicture
<1>12. CASE VoteBeyond BY <1>12, <1>i DEF VoteBeyond, LastIsPicture
<1>13. CASE Pick BY <1>13, <1>i DEF Pick, LastIsPicture
<1>14. CASE UNCHANGED vars BY <1>14, <1>i DEF vars, LastIsPicture
<1> QED
  BY <1>1, <1>2, <1>3, <1>4, <1>5, <1>6, <1>7, <1>8,
     <1>9, <1>10, <1>11, <1>12, <1>13, <1>14 DEF Next, init_DB, matchImg

\* The rows read so far stay those of the pictures read so far.
LEMMA ExtractingStep ==
  ASSUME IInv, [Next]_vars
  PROVE  Extracting'
<1> USE DEF training, files, memory, match
<1>i. Types /\ Extracting BY DEF IInv
<1>1. CASE Extract
  <2>1. at \in Nat \ {0} /\ at <= Len(db) /\ Len(db) \in Nat /\ db[at] \in Nat /\ phase = "extract"
    BY <1>1, <1>i, SMTT(30) DEF Types, Extract
  <2>2. Read(db, at) BY <1>i, <2>1 DEF Extracting, Read
  <2>3. at \in 1 .. Len(db) /\ at \in 0 .. Len(db) /\ at \in 1 .. at BY <2>1
  <2>4. Rows(db)[at] = Rows(db)[at - 1] \o Copies(db[at], at) BY <2>1, <2>3, RowsNext
  <2>5. Ends(db, at) = Ends(db, at - 1) + db[at] BY <2>1, <2>2, <2>3, EndsNext
  <2>6. index_IMG' = Rows(db)[at] BY <1>1, <1>i, <2>1, <2>4 DEF Extract, Extracting
  <2>7. featureCluster' = Len(index_IMG')
    BY <1>1, <1>i, <2>1, <2>5, <2>6 DEF Extract, Extracting, Ends
  <2>8. at' = at + 1 /\ db' = db /\ at' - 1 = at BY <1>1, <2>1 DEF Extract
  <2>9. Read(db', at' - 1) BY <2>2, <2>8
  <2>10. index_IMG' = Rows(db')[at' - 1] BY <2>6, <2>8
  <2>11. at' <= Len(db') + 1 BY <2>1, <2>8
  <2>12. UNCHANGED <<mixed, lastIndex, dscCnt_IMG>> BY <1>1 DEF Extract
  <2> QED BY <1>i, <2>1, <2>7, <2>9, <2>10, <2>11, <2>12 DEF Extracting
<1>2. CASE ExtractMissing BY <1>2, <1>i DEF ExtractMissing, Types, Extracting
<1>3. CASE SaveTable BY <1>3, <1>i DEF SaveTable, Types, Extracting
<1>4. CASE Count BY <1>4, <1>i DEF Count, Types, Extracting
<1>5. CASE SaveCounts BY <1>5, <1>i DEF SaveCounts, Types, Extracting
<1>6. CASE SaveCluster BY <1>6, <1>i DEF SaveCluster, Types, Extracting
<1>7. CASE Kill BY <1>7, <1>i DEF Kill, Types, Extracting
<1>8. CASE Load BY <1>8, <1>i DEF Load, Types, Extracting
<1>9. CASE Frame BY <1>9, <1>i DEF Frame, Types, Extracting
<1>10. CASE FrameUnreadable BY <1>10, <1>i DEF FrameUnreadable, Types, Extracting
<1>11. CASE Vote BY <1>11, <1>i DEF Vote, Types, Extracting
<1>12. CASE VoteBeyond BY <1>12, <1>i DEF VoteBeyond, Types, Extracting
<1>13. CASE Pick BY <1>13, <1>i DEF Pick, Types, Extracting
<1>14. CASE UNCHANGED vars BY <1>14, <1>i DEF vars, Types, Extracting
<1> QED
  BY <1>1, <1>2, <1>3, <1>4, <1>5, <1>6, <1>7, <1>8,
     <1>9, <1>10, <1>11, <1>12, <1>13, <1>14 DEF Next, init_DB, matchImg

\* The counting leaves the rows in front of it as they are.
LEMMA RestStep ==
  ASSUME IInv, [Next]_vars
  PROVE  Rest'
<1> USE DEF training, files, memory, match
<1>i. Rest /\ Types BY DEF IInv
<1>1. CASE Extract BY <1>1, <1>i DEF Extract, Rest, Types
<1>2. CASE ExtractMissing BY <1>2, <1>i DEF ExtractMissing, Rest, Types
<1>3. CASE SaveTable
  <2>1. /\ phase = "extract" /\ at > Len(db) /\ at \in Nat /\ Len(db) \in Nat
        /\ db \in Seq(Nat \cup {Missing})
    BY <1>3, <1>i, SMTT(30) DEF SaveTable, Types
  <2>2. /\ at = Len(db) + 1 /\ Read(db, Len(db)) /\ index_IMG = Rows(db)[Len(db)]
        /\ featureCluster = Len(index_IMG) /\ lastIndex = 0 /\ dscCnt_IMG = <<>>
    <3>1. at <= Len(db) + 1 BY <2>1 DEF IInv, Extracting
    <3>2. at = Len(db) + 1 /\ at - 1 = Len(db) BY <2>1, <3>1
    <3> QED BY <2>1, <3>2 DEF IInv, Extracting
  <2>3. db \in Seq(Nat) BY <2>1, <2>2 DEF Read
  <2>4. index_IMG = TableOf(db) BY <2>2, <2>3, TableIsRows
  <2> QED BY <1>3, <1>i, <2>2, <2>3, <2>4 DEF SaveTable, Rest, Types
<1>4. CASE Count
  <2>1. phase = "count" /\ at \in 1 .. Len(index_IMG) BY <1>4 DEF Count, IInv, Types
  <2>2. /\ db \in Seq(Nat) /\ saved = TableOf(db) /\ featureCluster = Len(saved)
        /\ Len(index_IMG) = Len(saved)
        /\ \A k \in at .. Len(saved) : index_IMG[k] = saved[k]
        /\ Len(dscCnt_IMG) = lastIndex
        /\ IF at = 1 THEN lastIndex = 0 ELSE lastIndex <= saved[at - 1]
    BY <2>1, <1>i DEF Rest
  <2>3. saved[at] \in 1 .. Len(db) /\ index_IMG[at] = saved[at] BY <2>1, LastNotAhead
  <2>4. lastIndex \in Nat /\ index_IMG \in Seq(Nat) /\ dscCnt_IMG \in Seq(Nat) BY <1>i DEF Types
  <2>5. lastIndex <= saved[at] BY <2>1, LastNotAhead
  <2>6. at' = at + 1 /\ UNCHANGED <<db, saved, featureCluster>> BY <1>4 DEF Count
  <2>7. /\ lastIndex' <= saved[at] /\ Len(dscCnt_IMG') = lastIndex'
        /\ Len(index_IMG') = Len(saved)
        /\ \A k \in at + 1 .. Len(saved) : index_IMG'[k] = saved[k]
    <3>1. CASE index_IMG[at] # lastIndex
      <4>1. /\ lastIndex' = lastIndex + 1 /\ dscCnt_IMG' = Append(dscCnt_IMG, 1)
            /\ index_IMG' = [index_IMG EXCEPT ![at] = lastIndex + 1]
        BY <1>4, <3>1 DEF Count
      <4>2. lastIndex + 1 <= saved[at] BY <2>3, <2>4, <2>5, <3>1, SMTT(60)
      <4>3. Len(dscCnt_IMG') = lastIndex + 1 BY <2>2, <2>4, <4>1
      <4>4. Len(index_IMG') = Len(saved) BY <2>2, <2>4, <4>1
      <4>5. \A k \in at + 1 .. Len(saved) : index_IMG'[k] = saved[k] BY <2>1, <2>2, <2>4, <4>1, SMTT(30)
      <4> QED BY <4>1, <4>2, <4>3, <4>4, <4>5
    <3>2. CASE index_IMG[at] = lastIndex
      <4>1. /\ UNCHANGED <<index_IMG, lastIndex>>
            /\ dscCnt_IMG' = [dscCnt_IMG EXCEPT ![index_IMG[at]] = @ + 1]
        BY <1>4, <3>2 DEF Count
      <4>2. Len(dscCnt_IMG') = Len(dscCnt_IMG) BY <2>4, <4>1
      <4>3. \A k \in at + 1 .. Len(saved) : index_IMG'[k] = saved[k] BY <2>1, <2>2, <4>1
      <4> QED BY <2>2, <2>5, <4>1, <4>2, <4>3
    <3> QED BY <3>1, <3>2
  <2>8. at + 1 <= Len(saved) + 1 /\ at + 1 # 1 /\ (at + 1) - 1 = at BY <2>1, <2>2
  <2> QED BY <2>2, <2>6, <2>7, <2>8 DEF Rest
<1>5. CASE SaveCounts BY <1>5, <1>i DEF SaveCounts, Rest, Types
<1>6. CASE SaveCluster BY <1>6, <1>i DEF SaveCluster, Rest, Types
<1>7. CASE Kill BY <1>7, <1>i DEF Kill, Rest, Types
<1>8. CASE Load BY <1>8, <1>i DEF Load, Rest, Types
<1>9. CASE Frame BY <1>9, <1>i DEF Frame, Rest, Types
<1>10. CASE FrameUnreadable BY <1>10, <1>i DEF FrameUnreadable, Rest, Types
<1>11. CASE Vote BY <1>11, <1>i DEF Vote, Rest, Types
<1>12. CASE VoteBeyond BY <1>12, <1>i DEF VoteBeyond, Rest, Types
<1>13. CASE Pick BY <1>13, <1>i DEF Pick, Rest, Types
<1>14. CASE UNCHANGED vars BY <1>14, <1>i DEF vars, Rest, Types
<1> QED
  BY <1>1, <1>2, <1>3, <1>4, <1>5, <1>6, <1>7, <1>8,
     <1>9, <1>10, <1>11, <1>12, <1>13, <1>14 DEF Next, init_DB, matchImg

\* The numbers and the counts stay those of the rows passed.
LEMMA NumberedStep ==
  ASSUME IInv, [Next]_vars
  PROVE  Numbered'
<1> USE DEF training, files, memory, match
<1>i. Numbered BY DEF IInv
<1>1. CASE Extract BY <1>1, <1>i DEF Extract, Numbered
<1>2. CASE ExtractMissing BY <1>2, <1>i DEF ExtractMissing, Numbered
<1>3. CASE SaveTable
  <2>1. lastIndex = 0 /\ lastIndex' = lastIndex /\ at' = 1 /\ saved' = index_IMG
        /\ index_IMG \in Seq(Nat)
    BY <1>3 DEF SaveTable, IInv, Types, Extracting
  <2>2. Number(index_IMG, 0) = 0 /\ 1 - 1 = 0 BY <2>1, NumberFirst
  <2> QED BY <2>1, <2>2 DEF Numbered
<1>4. CASE Count
  <2> DEFINE L == lastIndex
             C(i, n) == Cardinality(RowsNumbered(saved, i, n))
  <2>1. phase = "count" /\ at \in 1 .. Len(index_IMG) BY <1>4 DEF Count, IInv, Types
  <2>2. /\ index_IMG[at] = saved[at] /\ saved[at] \in 1 .. Len(db) /\ db \in Seq(Nat)
        /\ L <= saved[at]
    BY <2>1, LastNotAhead
  <2>3. L \in Nat /\ dscCnt_IMG \in Seq(Nat) /\ saved \in Seq(Nat) /\ at \in Nat \ {0}
    BY DEF IInv, Types
  <2>4. /\ Len(index_IMG) = Len(saved) /\ Len(dscCnt_IMG) = L BY <2>1 DEF IInv, Rest
  <2>5. /\ L = Number(saved, at - 1) /\ \A k \in 1 .. at - 1 : Number(saved, k) <= L
        /\ \A i \in 1 .. L : dscCnt_IMG[i] = C(i, at - 1)
    BY <2>1, <1>i DEF Numbered
  <2>6. saved[at] \in Nat BY <2>2
  <2>7. Number(saved, at) = IF saved[at] = L THEN L ELSE L + 1
    <3>1. at \in 1 .. Len(saved) BY <2>1, <2>4
    <3>2. Number(saved, at) = IF saved[at] <= L THEN saved[at] ELSE L + 1
      BY <2>3, <2>5, <3>1, NumberNext
    <3> QED BY <2>2, <2>3, <2>6, <3>2
  <2>8. \A i : C(i, at) = C(i, at - 1) + IF Number(saved, at) = i THEN 1 ELSE 0
    BY <2>3, NumberedCount
  <2>9. \A i : C(i, at - 1) \in Nat
    <3>1. at - 1 \in Nat BY <2>3
    <3> QED BY <3>1, NumberedCount
  <2>10. C(L + 1, at - 1) = 0
    <3>1. \A k \in 1 .. at - 1 : Number(saved, k) # L + 1
      <4> TAKE k \in 1 .. at - 1
      <4>1. Number(saved, k) <= L BY <2>5
      <4>2. k \in 0 .. Len(saved) BY <2>1, <2>3, <2>4
      <4>3. Number(saved, k) \in Nat BY <2>3, <4>2, NumberIsLeast
      <4> QED BY <2>3, <4>1, <4>3
    <3>2. RowsNumbered(saved, L + 1, at - 1) = {} BY <3>1 DEF RowsNumbered
    <3> QED BY <3>2, FS_EmptySet
  <2> HIDE DEF C
  <2>11. /\ L' = Number(saved, at) /\ L <= L'
         /\ \A i \in 1 .. L' : dscCnt_IMG'[i] = C(i, at)
    <3>1. CASE saved[at] = L
      <4>1. L' = L /\ dscCnt_IMG' = [dscCnt_IMG EXCEPT ![L] = @ + 1]
        BY <1>4, <2>2, <3>1 DEF Count
      <4>2. L \in 1 .. L BY <2>2, <2>3, <3>1
      <4>3. dscCnt_IMG \in [1 .. L -> Nat] BY <2>3, <2>4
      <4>4. dscCnt_IMG'[L] = dscCnt_IMG[L] + 1 BY <4>1, <4>2, <4>3
      <4>5. \A i \in 1 .. L : i # L => dscCnt_IMG'[i] = dscCnt_IMG[i] BY <4>1, <4>3
      <4>6. \A i \in 1 .. L : dscCnt_IMG'[i] = C(i, at)
        <5> TAKE i \in 1 .. L
        <5>1. C(i, at) = C(i, at - 1) + IF L = i THEN 1 ELSE 0 BY <2>7, <2>8, <3>1
        <5>2. C(i, at - 1) \in Nat /\ dscCnt_IMG[i] = C(i, at - 1) BY <2>5, <2>9
        <5>3. CASE i = L BY <4>4, <5>1, <5>2, <5>3
        <5>4. CASE i # L BY <4>5, <5>1, <5>2, <5>4
        <5> QED BY <5>3, <5>4
      <4> HIDE DEF L
      <4> QED BY <2>3, <2>7, <3>1, <4>1, <4>6
    <3>2. CASE saved[at] # L
      <4>1. L' = L + 1 /\ dscCnt_IMG' = Append(dscCnt_IMG, 1) BY <1>4, <2>2, <3>2 DEF Count
      <4>2. dscCnt_IMG'[L + 1] = 1 /\ \A i \in 1 .. L : dscCnt_IMG'[i] = dscCnt_IMG[i]
        BY <2>3, <2>4, <4>1
      <4>3. \A i \in 1 .. L + 1 : dscCnt_IMG'[i] = C(i, at)
        <5> TAKE i \in 1 .. L + 1
        <5>1. C(i, at) = C(i, at - 1) + IF L + 1 = i THEN 1 ELSE 0 BY <2>7, <2>8, <3>2
        <5>2. C(i, at - 1) \in Nat BY <2>9
        <5>3. CASE i = L + 1 BY <2>10, <4>2, <5>1, <5>3
        <5>4. CASE i # L + 1
          <6>1. i \in 1 .. L BY <2>3, <5>4
          <6>2. dscCnt_IMG'[i] = C(i, at - 1) BY <2>5, <4>2, <6>1
          <6> QED BY <5>1, <5>2, <5>4, <6>2
        <5> QED BY <5>3, <5>4
      <4>4. Number(saved, at) = L + 1 /\ L <= L + 1 BY <2>3, <2>7, <3>2
      <4> QED BY <4>1, <4>3, <4>4
    <3> QED BY <3>1, <3>2
  <2>12. \A k \in 1 .. at : Number(saved, k) <= L'
    <3> TAKE k \in 1 .. at
    <3>1. k \in 0 .. Len(saved) /\ at \in 0 .. Len(saved) BY <2>1, <2>3, <2>4
    <3>2. Number(saved, k) \in Nat /\ Number(saved, at) \in Nat BY <2>3, <3>1, NumberIsLeast
    <3>3. CASE k = at BY <2>11, <3>2, <3>3
    <3>4. CASE k # at
      <4>1. k \in 1 .. at - 1 BY <2>3, <3>4
      <4>2. Number(saved, k) <= L BY <2>5, <4>1
      <4> QED BY <2>3, <2>11, <3>2, <4>2
    <3> QED BY <3>3, <3>4
  <2>13. at' = at + 1 /\ saved' = saved /\ (at + 1) - 1 = at BY <1>4, <2>3 DEF Count
  <2> QED BY <2>11, <2>12, <2>13 DEF Numbered, C
<1>5. CASE SaveCounts BY <1>5, <1>i DEF SaveCounts, Numbered
<1>6. CASE SaveCluster BY <1>6, <1>i DEF SaveCluster, Numbered
<1>7. CASE Kill BY <1>7, <1>i DEF Kill, Numbered
<1>8. CASE Load BY <1>8, <1>i DEF Load, Numbered
<1>9. CASE Frame BY <1>9, <1>i DEF Frame, Numbered
<1>10. CASE FrameUnreadable BY <1>10, <1>i DEF FrameUnreadable, Numbered
<1>11. CASE Vote BY <1>11, <1>i DEF Vote, Numbered
<1>12. CASE VoteBeyond BY <1>12, <1>i DEF VoteBeyond, Numbered
<1>13. CASE Pick BY <1>13, <1>i DEF Pick, Numbered
<1>14. CASE UNCHANGED vars BY <1>14, <1>i DEF vars, Numbered
<1> QED
  BY <1>1, <1>2, <1>3, <1>4, <1>5, <1>6, <1>7, <1>8,
     <1>9, <1>10, <1>11, <1>12, <1>13, <1>14 DEF Next, init_DB, matchImg

\* What is left to save when the counts are there is right.
LEMMA SavingStep ==
  ASSUME IInv, [Next]_vars
  PROVE  Saving'
<1> USE DEF training, files, memory, match
<1>i. Saving BY DEF IInv
<1>1. CASE Extract BY <1>1, <1>i DEF Extract, Saving
<1>2. CASE ExtractMissing BY <1>2, <1>i DEF ExtractMissing, Saving
<1>3. CASE SaveTable BY <1>3, <1>i DEF SaveTable, Saving
<1>4. CASE Count BY <1>4, <1>i DEF Count, Saving
<1>5. CASE SaveCounts
  <2>1. phase = "count" /\ at > Len(index_IMG) /\ table' = saved
        /\ UNCHANGED <<db, featureCluster, dscCnt_IMG>>
    BY <1>5 DEF SaveCounts
  <2>2. /\ db \in Seq(Nat) /\ saved = TableOf(db) /\ featureCluster = Len(saved)
        /\ Len(index_IMG) = Len(saved) /\ at <= Len(saved) + 1
        /\ Len(dscCnt_IMG) = lastIndex
    BY <2>1 DEF IInv, Rest
  <2>3. at \in Nat \ {0} /\ dscCnt_IMG \in Seq(Nat) /\ saved \in Seq(Nat) BY DEF IInv, Types
  <2>4. at - 1 = Len(TableOf(db)) /\ Len(TableOf(db)) \in Nat BY <2>1, <2>2, <2>3, SMTT(60)
  <2>5. dscCnt_IMG = CountsOf(saved)
    <3> DEFINE n == Number(saved, Len(saved))
    <3>1. /\ lastIndex = n
          /\ \A i \in 1 .. n : dscCnt_IMG[i] = Cardinality(RowsNumbered(saved, i, Len(saved)))
      BY <2>1, <2>2, <2>4 DEF IInv, Numbered
    <3>2. /\ CountsOf(saved) \in Seq(Nat) /\ Len(CountsOf(saved)) = n
          /\ \A i \in 1 .. n : CountsOf(saved)[i] = Cardinality(RowsNumbered(saved, i, Len(saved)))
      BY <2>3, CountsOfType
    <3> HIDE DEF n
    <3>3. \A i \in 1 .. n : dscCnt_IMG[i] = CountsOf(saved)[i] BY <3>1, <3>2
    <3> QED BY <2>2, <2>3, <3>1, <3>2, <3>3, SameSequence
  <2> QED BY <2>1, <2>2, <2>5 DEF Saving
<1>6. CASE SaveCluster BY <1>6, <1>i DEF SaveCluster, Saving
<1>7. CASE Kill BY <1>7, <1>i DEF Kill, Saving
<1>8. CASE Load BY <1>8, <1>i DEF Load, Saving
<1>9. CASE Frame BY <1>9, <1>i DEF Frame, Saving
<1>10. CASE FrameUnreadable BY <1>10, <1>i DEF FrameUnreadable, Saving
<1>11. CASE Vote BY <1>11, <1>i DEF Vote, Saving
<1>12. CASE VoteBeyond BY <1>12, <1>i DEF VoteBeyond, Saving
<1>13. CASE Pick BY <1>13, <1>i DEF Pick, Saving
<1>14. CASE UNCHANGED vars BY <1>14, <1>i DEF vars, Saving
<1> QED
  BY <1>1, <1>2, <1>3, <1>4, <1>5, <1>6, <1>7, <1>8,
     <1>9, <1>10, <1>11, <1>12, <1>13, <1>14 DEF Next, init_DB, matchImg

\* No file is of one training only before the last write.
LEMMA WritingStep ==
  ASSUME IInv, [Next]_vars
  PROVE  Writing'
<1> USE DEF training, files, memory, match
<1>i. Writing /\ Extracting BY DEF IInv
<1>1. CASE Extract BY <1>1, <1>i DEF Extract, Writing, Extracting
<1>2. CASE ExtractMissing BY <1>2, <1>i DEF ExtractMissing, Writing, Extracting
<1>3. CASE SaveTable BY <1>3, <1>i DEF SaveTable, Writing, Extracting
<1>4. CASE Count BY <1>4, <1>i DEF Count, Writing, Extracting
<1>5. CASE SaveCounts BY <1>5, <1>i DEF SaveCounts, Writing, Extracting
<1>6. CASE SaveCluster BY <1>6, <1>i DEF SaveCluster, Writing, Extracting
<1>7. CASE Kill BY <1>7, <1>i DEF Kill, Writing, Extracting
<1>8. CASE Load BY <1>8, <1>i DEF Load, Writing, Extracting
<1>9. CASE Frame BY <1>9, <1>i DEF Frame, Writing, Extracting
<1>10. CASE FrameUnreadable BY <1>10, <1>i DEF FrameUnreadable, Writing, Extracting
<1>11. CASE Vote BY <1>11, <1>i DEF Vote, Writing, Extracting
<1>12. CASE VoteBeyond BY <1>12, <1>i DEF VoteBeyond, Writing, Extracting
<1>13. CASE Pick BY <1>13, <1>i DEF Pick, Writing, Extracting
<1>14. CASE UNCHANGED vars BY <1>14, <1>i DEF vars, Writing, Extracting
<1> QED
  BY <1>1, <1>2, <1>3, <1>4, <1>5, <1>6, <1>7, <1>8,
     <1>9, <1>10, <1>11, <1>12, <1>13, <1>14 DEF Next, init_DB, matchImg

\* ShiftedCounts is kept by every step.
LEMMA ShiftedCountsStep ==
  ASSUME IInv, [Next]_vars
  PROVE  ShiftedCounts'
<1> USE DEF training, files, memory, match
<1>i. ShiftedCounts /\ Writing BY DEF IInv
<1>1. CASE Extract BY <1>1, <1>i DEF Extract, ShiftedCounts, Writing
<1>2. CASE ExtractMissing BY <1>2, <1>i DEF ExtractMissing, ShiftedCounts, Writing
<1>3. CASE SaveTable BY <1>3, <1>i DEF SaveTable, ShiftedCounts, Writing
<1>4. CASE Count BY <1>4, <1>i DEF Count, ShiftedCounts, Writing
<1>5. CASE SaveCounts BY <1>5, <1>i DEF SaveCounts, ShiftedCounts, Writing
<1>6. CASE SaveCluster
  <2>1. phase = "cluster" /\ yml' = featureCluster /\ counts' = dscCnt_IMG /\ filesOf' = db
        /\ table' = table
    BY <1>6 DEF SaveCluster
  <2>2. table = TableOf(db) /\ featureCluster = Len(table) /\ dscCnt_IMG = CountsOf(table)
    BY <2>1 DEF IInv, Saving
  <2> QED BY <2>1, <2>2 DEF ShiftedCounts
<1>7. CASE Kill BY <1>7, <1>i DEF Kill, ShiftedCounts, Writing
<1>8. CASE Load BY <1>8, <1>i DEF Load, ShiftedCounts, Writing
<1>9. CASE Frame BY <1>9, <1>i DEF Frame, ShiftedCounts, Writing
<1>10. CASE FrameUnreadable BY <1>10, <1>i DEF FrameUnreadable, ShiftedCounts, Writing
<1>11. CASE Vote BY <1>11, <1>i DEF Vote, ShiftedCounts, Writing
<1>12. CASE VoteBeyond BY <1>12, <1>i DEF VoteBeyond, ShiftedCounts, Writing
<1>13. CASE Pick BY <1>13, <1>i DEF Pick, ShiftedCounts, Writing
<1>14. CASE UNCHANGED vars BY <1>14, <1>i DEF vars, ShiftedCounts, Writing
<1> QED
  BY <1>1, <1>2, <1>3, <1>4, <1>5, <1>6, <1>7, <1>8,
     <1>9, <1>10, <1>11, <1>12, <1>13, <1>14 DEF Next, init_DB, matchImg

\* A process that matches keeps what it read.
LEMMA LoadedStep ==
  ASSUME IInv, [Next]_vars
  PROVE  Loaded'
<1> USE DEF training, files, memory, match
<1>i. Loaded BY DEF IInv
<1>1. CASE Extract BY <1>1, <1>i DEF Extract, Loaded, CountsRead
<1>2. CASE ExtractMissing BY <1>2, <1>i DEF ExtractMissing, Loaded, CountsRead
<1>3. CASE SaveTable BY <1>3, <1>i DEF SaveTable, Loaded, CountsRead
<1>4. CASE Count BY <1>4, <1>i DEF Count, Loaded, CountsRead
<1>5. CASE SaveCounts BY <1>5, <1>i DEF SaveCounts, Loaded, CountsRead
<1>6. CASE SaveCluster BY <1>6, <1>i DEF SaveCluster, Loaded, CountsRead
<1>7. CASE Kill BY <1>7, <1>i DEF Kill, Loaded, CountsRead
<1>8. CASE Load BY <1>8, <1>i DEF Load, Loaded, CountsRead
<1>9. CASE Frame BY <1>9, <1>i DEF Frame, Loaded, CountsRead
<1>10. CASE FrameUnreadable BY <1>10, <1>i DEF FrameUnreadable, Loaded, CountsRead
<1>11. CASE Vote BY <1>11, <1>i DEF Vote, Loaded, CountsRead
<1>12. CASE VoteBeyond BY <1>12, <1>i DEF VoteBeyond, Loaded, CountsRead
<1>13. CASE Pick BY <1>13, <1>i DEF Pick, Loaded, CountsRead
<1>14. CASE UNCHANGED vars BY <1>14, <1>i DEF vars, Loaded, CountsRead
<1> QED
  BY <1>1, <1>2, <1>3, <1>4, <1>5, <1>6, <1>7, <1>8,
     <1>9, <1>10, <1>11, <1>12, <1>13, <1>14 DEF Next, init_DB, matchImg

\* The rows of a frame stay rows of the cluster.
LEMMA RowsOfFrameStep ==
  ASSUME IInv, [Next]_vars
  PROVE  RowsOfFrame'
<1> USE DEF training, files, memory, match
<1>i. RowsOfFrame BY DEF IInv
<1>1. CASE Extract BY <1>1, <1>i DEF Extract, RowsOfFrame
<1>2. CASE ExtractMissing BY <1>2, <1>i DEF ExtractMissing, RowsOfFrame
<1>3. CASE SaveTable BY <1>3, <1>i DEF SaveTable, RowsOfFrame
<1>4. CASE Count BY <1>4, <1>i DEF Count, RowsOfFrame
<1>5. CASE SaveCounts BY <1>5, <1>i DEF SaveCounts, RowsOfFrame
<1>6. CASE SaveCluster BY <1>6, <1>i DEF SaveCluster, RowsOfFrame
<1>7. CASE Kill BY <1>7, <1>i DEF Kill, RowsOfFrame
<1>8. CASE Load BY <1>8, <1>i DEF Load, RowsOfFrame
<1>9. CASE Frame
  <2>1. PICK n \in 0 .. MaxGood : source' \in [1 .. n -> 1 .. featureCluster] BY <1>9 DEF Frame
  <2>2. source' \in Seq(1 .. featureCluster) /\ Len(source') = n
    <3> DEFINE S == 1 .. featureCluster
    <3>1. n \in Nat /\ source' \in [1 .. n -> S] BY <2>1
    <3> HIDE DEF S
    <3>2. source' \in Seq(S) /\ Len(source') = n BY <3>1, FunctionIsSequence
    <3> QED BY <3>2 DEF S
  <2>3. at' = 1 /\ featureCluster' = featureCluster BY <1>9 DEF Frame
  <2>4. Len(source') <= MaxGood /\ 1 <= Len(source') + 1 BY <2>1, <2>2
  <2> QED BY <2>2, <2>3, <2>4 DEF RowsOfFrame
<1>10. CASE FrameUnreadable BY <1>10, <1>i DEF FrameUnreadable, RowsOfFrame
<1>11. CASE Vote
  <2>1. at \in Nat /\ source \in Seq(Int) BY DEF IInv, Types
  <2>2. at + 1 <= Len(source) + 1 BY <1>11, <2>1 DEF Vote
  <2> QED BY <1>11, <1>i, <2>2 DEF Vote, RowsOfFrame
<1>12. CASE VoteBeyond BY <1>12, <1>i DEF VoteBeyond, RowsOfFrame
<1>13. CASE Pick BY <1>13, <1>i DEF Pick, RowsOfFrame
<1>14. CASE UNCHANGED vars BY <1>14, <1>i DEF vars, RowsOfFrame
<1> QED
  BY <1>1, <1>2, <1>3, <1>4, <1>5, <1>6, <1>7, <1>8,
     <1>9, <1>10, <1>11, <1>12, <1>13, <1>14 DEF Next, init_DB, matchImg

\* imgFreq stays the tally of the votes so far.
LEMMA TallyStep ==
  ASSUME IInv, [Next]_vars
  PROVE  Tally'
<1> USE DEF training, files, memory, match
<1>i. Tally BY DEF IInv
<1>1. CASE Extract BY <1>1, <1>i DEF Extract, Tally, Ballots
<1>2. CASE ExtractMissing BY <1>2, <1>i DEF ExtractMissing, Tally, Ballots
<1>3. CASE SaveTable BY <1>3, <1>i DEF SaveTable, Tally, Ballots
<1>4. CASE Count BY <1>4, <1>i DEF Count, Tally, Ballots
<1>5. CASE SaveCounts BY <1>5, <1>i DEF SaveCounts, Tally, Ballots
<1>6. CASE SaveCluster BY <1>6, <1>i DEF SaveCluster, Tally, Ballots
<1>7. CASE Kill BY <1>7, <1>i DEF Kill, Tally, Ballots
<1>8. CASE Load BY <1>8, <1>i DEF Load, Tally, Ballots
<1>9. CASE Frame BY <1>9, <1>i DEF Frame, Tally, Ballots
<1>10. CASE FrameUnreadable BY <1>10, <1>i DEF FrameUnreadable, Tally, Ballots
<1>11. CASE Vote
  <2> DEFINE img == index_IMG[source[at]]
             new == VoteFor(img)
  <2>1. /\ phase = "vote" /\ at \in 1 .. Len(source) /\ Len(source) <= MaxGood
        /\ Len(source) \in Nat /\ source \in Seq(1 .. featureCluster)
        /\ source[at] <= Len(index_IMG) /\ index_IMG \in Seq(Nat)
    BY <1>11 DEF Types, Vote, IInv, RowsOfFrame
  <2>2. source[at] \in 1 .. featureCluster BY <2>1, ElementType
  <2>3. img \in Nat BY <2>1, <2>2, SMTT(30)
  <2>4. imgFreq \in Seq(Entry) BY DEF IInv, Types
  <2>5. at - 1 \in Nat /\ at \in Nat /\ at > 0 /\ MaxGood > 0 BY <2>1
  <2>6. \A e \in DOMAIN imgFreq :
          imgFreq[e].Freq = Cardinality(Ballots(imgFreq[e].ImgIndex, at - 1))
    BY <2>1, <1>i DEF Tally
  <2>7. \A e \in DOMAIN imgFreq : imgFreq[e].Freq < MaxGood
    <3> TAKE e \in DOMAIN imgFreq
    <3>1. imgFreq[e].Freq \in 0 .. at - 1 BY <2>5, <2>6, BallotsCount
    <3> QED BY <2>1, <3>1
  <2>v. Voted(new, img) BY <2>3, <2>4, <2>5, <2>7, VoteForGives
  <2>8. /\ new \in Seq(Entry) /\ DOMAIN imgFreq \subseteq DOMAIN new
        /\ \A e \in DOMAIN imgFreq :
             /\ new[e].ImgIndex = imgFreq[e].ImgIndex
             /\ new[e].Freq = imgFreq[e].Freq + IF imgFreq[e].ImgIndex = img THEN 1 ELSE 0
        /\ \A e \in DOMAIN new \ DOMAIN imgFreq :
             /\ e = Len(imgFreq) + 1 /\ new[e].ImgIndex = img /\ new[e].Freq = 1
             /\ \A k \in DOMAIN imgFreq : imgFreq[k].ImgIndex # img
        /\ \E e \in DOMAIN new : new[e].ImgIndex = img
    BY <2>v DEF Voted
  <2>9. imgFreq' = new /\ at' - 1 = at /\ UNCHANGED <<source, index_IMG, phase>>
    BY <1>11, <2>5 DEF Vote
  <2> HIDE DEF new
  <2>10. ASSUME NEW k \in 1 .. at
         PROVE  /\ source[k] <= Len(index_IMG)
                /\ \E e \in DOMAIN new : new[e].ImgIndex = index_IMG[source[k]]
    <3>1. CASE k = at BY <2>1, <2>8, <3>1
    <3>2. CASE k # at
      <4>1. k \in 1 .. at - 1 BY <2>5, <3>2
      <4>2. PICK e \in DOMAIN imgFreq : imgFreq[e].ImgIndex = index_IMG[source[k]]
        BY <1>i, <2>1, <4>1 DEF Tally
      <4>3. source[k] <= Len(index_IMG) BY <1>i, <2>1, <4>1 DEF Tally
      <4> QED BY <2>8, <4>2, <4>3
    <3> QED BY <3>1, <3>2
  <2>11. ASSUME NEW e \in DOMAIN new
         PROVE  new[e].Freq = Cardinality(Ballots(new[e].ImgIndex, at))
    <3>1. CASE e \in DOMAIN imgFreq
      <4>1. Cardinality(Ballots(imgFreq[e].ImgIndex, at))
              = Cardinality(Ballots(imgFreq[e].ImgIndex, at - 1))
                  + IF img = imgFreq[e].ImgIndex THEN 1 ELSE 0
        BY <2>5, BallotsCount
      <4> QED BY <2>6, <2>8, <3>1, <4>1
    <3>2. CASE e \notin DOMAIN imgFreq
      <4>1. new[e].ImgIndex = img /\ new[e].Freq = 1
            /\ \A k \in DOMAIN imgFreq : imgFreq[k].ImgIndex # img
        BY <2>8, <3>2
      <4>2. Ballots(img, at - 1) = {}
        <5>1. SUFFICES ASSUME NEW b \in Ballots(img, at - 1) PROVE FALSE OBVIOUS
        <5>2. b \in 1 .. at - 1 /\ index_IMG[source[b]] = img BY DEF Ballots
        <5> QED BY <1>i, <2>1, <4>1, <5>2 DEF Tally
      <4>3. Cardinality(Ballots(img, at)) = Cardinality(Ballots(img, at - 1)) + 1
        BY <2>5, BallotsCount
      <4>4. Cardinality(Ballots(img, at - 1)) = 0 BY <4>2, FS_EmptySet
      <4> QED BY <4>1, <4>3, <4>4
    <3> QED BY <3>1, <3>2
  <2>12. ASSUME NEW e \in DOMAIN new, NEW f \in DOMAIN new, new[e].ImgIndex = new[f].ImgIndex
         PROVE  e = f
    <3>1. CASE e \in DOMAIN imgFreq /\ f \in DOMAIN imgFreq
      BY <1>i, <2>1, <2>8, <2>12, <3>1 DEF Tally
    <3>2. CASE e \notin DOMAIN imgFreq \/ f \notin DOMAIN imgFreq BY <2>8, <2>12, <3>2, SMTT(30)
    <3> QED BY <3>1, <3>2
  <2> QED BY <2>9, <2>10, <2>11, <2>12 DEF Tally, Ballots
<1>12. CASE VoteBeyond BY <1>12, <1>i DEF VoteBeyond, Tally, Ballots
<1>13. CASE Pick BY <1>13, <1>i DEF Pick, Tally, Ballots
<1>14. CASE UNCHANGED vars BY <1>14, <1>i DEF vars, Tally, Ballots
<1> QED
  BY <1>1, <1>2, <1>3, <1>4, <1>5, <1>6, <1>7, <1>8,
     <1>9, <1>10, <1>11, <1>12, <1>13, <1>14 DEF Next, init_DB, matchImg

\* MatchInBounds is kept by every step.
LEMMA MatchInBoundsStep ==
  ASSUME IInv, [Next]_vars
  PROVE  MatchInBounds'
<1> USE DEF training, files, memory, match
<1>i. MatchInBounds BY DEF IInv
<1>1. CASE Extract BY <1>1, <1>i DEF Extract, MatchInBounds, NoneEmpty
<1>2. CASE ExtractMissing BY <1>2, <1>i DEF ExtractMissing, MatchInBounds, NoneEmpty
<1>3. CASE SaveTable BY <1>3, <1>i DEF SaveTable, MatchInBounds, NoneEmpty
<1>4. CASE Count BY <1>4, <1>i DEF Count, MatchInBounds, NoneEmpty
<1>5. CASE SaveCounts BY <1>5, <1>i DEF SaveCounts, MatchInBounds, NoneEmpty
<1>6. CASE SaveCluster BY <1>6, <1>i DEF SaveCluster, MatchInBounds, NoneEmpty
<1>7. CASE Kill BY <1>7, <1>i DEF Kill, MatchInBounds, NoneEmpty
<1>8. CASE Load
  <2>1. SUFFICES ASSUME yml = 0, ~mixed, NoneEmpty PROVE FALSE
    BY <1>8 DEF Load, MatchInBounds, NoneEmpty
  <2>2. yml = Len(TableOf(filesOf)) BY <2>1 DEF IInv, ShiftedCounts
  <2>3. filesOf \in Seq(Nat) /\ Full(filesOf) /\ filesOf # <<>>
    BY <2>1 DEF IInv, Types, NoneEmpty, Full
  <2> QED BY <2>1, <2>2, <2>3, FullHasRows
<1>9. CASE Frame BY <1>9, <1>i DEF Frame, MatchInBounds, NoneEmpty
<1>10. CASE FrameUnreadable
  <2>1. phase' = "crashed" => place' = "bolt" /\ source' = NoFrame
    BY <1>10 DEF FrameUnreadable, IInv, Types, Places
  <2> QED BY <2>1 DEF MatchInBounds, NoFrame
<1>11. CASE Vote BY <1>11, <1>i DEF Vote, MatchInBounds, NoneEmpty
<1>12. CASE VoteBeyond
  <2>1. phase = "vote" /\ at <= Len(source) /\ source[at] > Len(index_IMG) /\ at \in Nat \ {0}
        /\ index_IMG \in Seq(Nat) /\ UNCHANGED <<mixed, filesOf>>
    BY <1>12 DEF VoteBeyond, IInv, Types
  <2>2. source \in Seq(1 .. featureCluster) /\ featureCluster = yml /\ index_IMG = table
    BY <2>1 DEF IInv, RowsOfFrame, Loaded
  <2>3. source[at] \in 1 .. yml
    <3>1. at \in 1 .. Len(source) BY <2>1, <2>2
    <3> QED BY <2>2, <3>1, ElementType
  <2>4. mixed \/ ~NoneEmpty
    <3>1. SUFFICES ASSUME ~mixed, NoneEmpty PROVE FALSE OBVIOUS
    <3>2. yml = Len(table) BY <3>1 DEF IInv, ShiftedCounts
    <3> QED BY <2>1, <2>2, <2>3, <3>2
  <2> QED BY <2>1, <2>4 DEF MatchInBounds, NoneEmpty
<1>13. CASE Pick
  <2> DEFINE img == LastWith(Highest)
  <2>1. /\ phase = "vote" /\ at > Len(source) /\ UNCHANGED <<mixed, filesOf>>
        /\ phase' = "crashed" => img > Len(dscCnt_IMG)
    BY <1>13 DEF Pick
  <2>2. SUFFICES ASSUME img > Len(dscCnt_IMG), ~mixed, NoneEmpty, CountsDeployed PROVE FALSE
    BY <2>1 DEF MatchInBounds, NoneEmpty
  <2>3. img = 0 \/ img \in DOMAIN filesOf BY <2>1, <2>2, Elected
  <2>4. dscCnt_IMG = counts /\ counts = filesOf /\ filesOf \in Seq(Nat)
    BY <2>1, <2>2, TrainedAgree DEF IInv, Types, Loaded, CountsRead, FilesAgree
  <2> HIDE DEF img
  <2> QED BY <2>2, <2>3, <2>4
<1>14. CASE UNCHANGED vars BY <1>14, <1>i DEF vars, MatchInBounds, NoneEmpty
<1> QED
  BY <1>1, <1>2, <1>3, <1>4, <1>5, <1>6, <1>7, <1>8,
     <1>9, <1>10, <1>11, <1>12, <1>13, <1>14 DEF Next, init_DB, matchImg

\* BestPictureWins is kept by every step.
LEMMA BestPictureWinsStep ==
  ASSUME IInv, [Next]_vars
  PROVE  BestPictureWins'
<1> USE DEF training, files, memory, match
<1>i. BestPictureWins BY DEF IInv
<1>1. CASE Extract BY <1>1, <1>i DEF Extract, BestPictureWins, NoneEmpty, Votes
<1>2. CASE ExtractMissing BY <1>2, <1>i DEF ExtractMissing, BestPictureWins, NoneEmpty, Votes
<1>3. CASE SaveTable BY <1>3, <1>i DEF SaveTable, BestPictureWins, NoneEmpty, Votes
<1>4. CASE Count BY <1>4, <1>i DEF Count, BestPictureWins, NoneEmpty, Votes
<1>5. CASE SaveCounts BY <1>5, <1>i DEF SaveCounts, BestPictureWins, NoneEmpty, Votes
<1>6. CASE SaveCluster BY <1>6, <1>i DEF SaveCluster, BestPictureWins, NoneEmpty, Votes
<1>7. CASE Kill BY <1>7, <1>i DEF Kill, BestPictureWins, NoneEmpty, Votes
<1>8. CASE Load BY <1>8, <1>i DEF Load, BestPictureWins, NoneEmpty, Votes
<1>9. CASE Frame BY <1>9, <1>i DEF Frame, BestPictureWins, NoneEmpty, Votes
<1>10. CASE FrameUnreadable BY <1>10, <1>i DEF FrameUnreadable, BestPictureWins, NoneEmpty, Votes
<1>11. CASE Vote BY <1>11, <1>i DEF Vote, BestPictureWins, NoneEmpty, Votes
<1>12. CASE VoteBeyond BY <1>12, <1>i DEF VoteBeyond, BestPictureWins, NoneEmpty, Votes
<1>13. CASE Pick
  <2> DEFINE img == LastWith(Highest)
  <2>1. /\ phase = "vote" /\ at > Len(source)
        /\ UNCHANGED <<mixed, filesOf, source, place>>
        /\ phase' = "answer" => ~(img > Len(dscCnt_IMG))
        /\ matchedImgIndex' = IF img \in DOMAIN dscCnt_IMG /\ TooFew(img, Highest) THEN 0 ELSE img
    BY <1>13 DEF Pick
  <2>2. \A i : Votes(i)' = Votes(i) BY <2>1 DEF Votes
  <2> DEFINE Best == {i \in DOMAIN filesOf : Votes(i) > 0
                        /\ \A j \in DOMAIN filesOf : Votes(j) <= Votes(i)}
             Enough(i) == Votes(i) * 100 >= Share[place] * filesOf[i]
  <2>3. ASSUME phase' = "answer", ~mixed, NoneEmpty
        PROVE  \/ matchedImgIndex' \in Best /\ Enough(matchedImgIndex')
               \/ matchedImgIndex' = 0 /\ (Best = {} \/ \E i \in Best : ~Enough(i))
    <3>1. filesOf \in Seq(Nat) /\ dscCnt_IMG \in Seq(Nat) BY DEF IInv, Types
    <3>2. CASE img = 0 /\ \A i \in DOMAIN filesOf : Votes(i) = 0
      <4>1. matchedImgIndex' = 0 BY <2>1, <3>2
      <4>2. Best = {} BY <3>2
      <4> QED BY <4>1, <4>2
    <3>3. CASE /\ img \in DOMAIN filesOf /\ Votes(img) = Highest /\ Highest > 0
               /\ \A i \in DOMAIN filesOf : Votes(i) <= Highest
      <4>1. img \in Best BY <3>3
      <4>2. img \in 1 .. Len(dscCnt_IMG) BY <2>1, <2>3, <3>1, <3>3, SMTT(30)
      <4>3. dscCnt_IMG = filesOf
        <5>1. dscCnt_IMG = CountsRead BY <2>1 DEF IInv, Loaded
        <5>2. dscCnt_IMG # <<>> BY <4>2
        <5>3. counts = filesOf BY <2>3, TrainedAgree DEF FilesAgree
        <5> QED BY <5>1, <5>2, <5>3 DEF CountsRead
      <4>4. TooFew(img, Highest) <=> ~Enough(img)
        <5>1. filesOf[img] \in Nat /\ Share[place] \in Nat /\ Highest \in Nat
          <6>1. filesOf[img] \in Nat BY <3>1, <3>3
          <6>2. Share[place] \in Nat BY DEF IInv, Types
          <6>3. Highest \in Nat
            <7>1. imgFreq \in Seq(Entry) BY DEF IInv, Types
            <7>2. Highest \in 1 .. MaxGood \cup {1} BY <7>1, HighestGives
            <7> QED BY <7>2
          <6> QED BY <6>1, <6>2, <6>3
        <5> DEFINE a == Highest * 100
                   b == Share[place] * filesOf[img]
        <5>2. a \in Int /\ b \in Int BY <5>1
        <5>3. TooFew(img, Highest) <=> a < b BY <4>3 DEF TooFew
        <5>4. Enough(img) <=> a >= b BY <3>3
        <5> HIDE DEF a, b
        <5> QED BY <5>2, <5>3, <5>4
      <4>5. img \in DOMAIN dscCnt_IMG BY <3>3, <4>3
      <4> HIDE DEF Best, Enough, img
      <4>6. CASE TooFew(img, Highest)
        <5>1. matchedImgIndex' = 0 BY <2>1, <4>5, <4>6
        <5> QED BY <4>1, <4>4, <4>6, <5>1
      <4>7. CASE ~TooFew(img, Highest)
        <5>1. matchedImgIndex' = img BY <2>1, <4>7
        <5> QED BY <4>1, <4>4, <4>7, <5>1
      <4> QED BY <4>6, <4>7
    <3> QED BY <2>1, <2>3, <3>2, <3>3, Elected
  <2> QED BY <2>1, <2>2, <2>3 DEF BestPictureWins, NoneEmpty
<1>14. CASE UNCHANGED vars BY <1>14, <1>i, SMTT(60) DEF vars, BestPictureWins, NoneEmpty, Votes
<1> QED
  BY <1>1, <1>2, <1>3, <1>4, <1>5, <1>6, <1>7, <1>8,
     <1>9, <1>10, <1>11, <1>12, <1>13, <1>14 DEF Next, init_DB, matchImg

-----------------------------------------------------------------------------
(* The theorems. *)

\* The training begins in the invariant.
LEMMA InitHolds == Init => IInv
<1> SUFFICES ASSUME Init PROVE IInv OBVIOUS
<1>1. /\ db \in Databases /\ saved = <<>> /\ lastIndex = 0 /\ phase = "extract" /\ at = 1
      /\ filesOf \in Older /\ mixed = FALSE
      /\ table = TableOf(filesOf) /\ counts = CountsOf(table) /\ yml = Len(table)
      /\ index_IMG = <<>> /\ dscCnt_IMG = <<>> /\ featureCluster = 0
      /\ place \in Places
      /\ source = <<>> /\ imgFreq = <<>> /\ maxFreq = 1 /\ matchedImgIndex = 0
  BY DEF Init
<1>2. filesOf \in Seq(Nat) /\ db \in Seq(Nat \cup {Missing}) /\ Len(db) \in Nat BY <1>1
<1>3. table \in Seq(Nat) /\ yml \in Nat /\ counts \in Seq(Nat)
  BY <1>1, <1>2, TableOfType, CountsOfType
<1>4. Types
  <2>1. <<>> \in Seq(Nat) /\ <<>> \in Seq(Int) /\ <<>> \in Seq(Entry) OBVIOUS
  <2>2. 1 \in 1 .. MaxGood \cup {1} /\ 1 \in Nat \ {0} OBVIOUS
  <2> QED BY <1>1, <1>2, <1>3, <2>1, <2>2 DEF Types
<1>5. LastIsPicture BY <1>1, <1>2 DEF LastIsPicture
<1>6. Extracting
  <2>1. Rows(db)[0] = <<>> BY <1>2, RowsFirst
  <2>2. 1 <= Len(db) + 1 /\ 1 - 1 = 0 BY <1>2
  <2>3. Read(db, 1 - 1) BY DEF Read
  <2>4. Len(index_IMG) = 0 BY <1>1
  <2> QED BY <1>1, <2>1, <2>2, <2>3, <2>4 DEF Extracting
<1>7. Rest /\ Numbered /\ Saving /\ Writing BY <1>1 DEF Rest, Numbered, Saving, Writing
<1>8. ShiftedCounts BY <1>1 DEF ShiftedCounts
<1>9. Loaded /\ RowsOfFrame /\ Tally BY <1>1 DEF Loaded, RowsOfFrame, Tally
<1>10. MatchInBounds /\ BestPictureWins BY <1>1 DEF MatchInBounds, BestPictureWins
<1> QED BY <1>4, <1>5, <1>6, <1>7, <1>8, <1>9, <1>10 DEF IInv

\* Every step keeps every part of it.
LEMMA StepKeeps == IInv /\ [Next]_vars => IInv'
<1> SUFFICES ASSUME IInv, [Next]_vars PROVE IInv' OBVIOUS
<1>1. Types' /\ LastIsPicture' BY TypesStep, LastIsPictureStep
<1>2. Extracting' /\ Rest' /\ Numbered' /\ Saving' /\ Writing'
  BY ExtractingStep, RestStep, NumberedStep, SavingStep, WritingStep
<1>3. ShiftedCounts' /\ Loaded' BY ShiftedCountsStep, LoadedStep
<1>4. RowsOfFrame' /\ Tally' /\ MatchInBounds' /\ BestPictureWins'
  BY RowsOfFrameStep, TallyStep, MatchInBoundsStep, BestPictureWinsStep
<1> QED BY <1>1, <1>2, <1>3, <1>4 DEF IInv

\* It holds in every reachable state of the training, the loading and the matching.
THEOREM Invariance == Spec => []IInv
BY InitHolds, StepKeeps, PTL DEF Spec

\* The variables keep their types, and init_DB counts no more pictures than it
\* has read, whatever the pictures are: also those without descriptors.
THEOREM TypeCorrect == Spec => []TypeOK
<1>1. IInv => TypeOK
  <2> SUFFICES ASSUME IInv PROVE TypeOK OBVIOUS
  <2>1. Types /\ LastIsPicture BY DEF IInv
  <2>2. db \in Seq(Nat \cup {Missing}) BY <2>1 DEF Types
  <2>3. lastIndex \in 0 .. Len(db) BY <2>1, <2>2 DEF Types, LastIsPicture
  <2>4. \A s \in {index_IMG, dscCnt_IMG, saved, table, counts} : s \in Seq(Nat)
    BY <2>1 DEF Types
  <2>5. \A k \in DOMAIN imgFreq : imgFreq[k] \in [ImgIndex : Nat, Freq : 1 .. MaxGood]
    <3>1. imgFreq \in Seq(Entry) BY <2>1 DEF Types
    <3> QED BY <3>1, EntryType DEF Entry
  <2> QED BY <2>1, <2>3, <2>4, <2>5 DEF Types, TypeOK
<1> QED BY <1>1, Invariance, PTL

\* init_DB saves the numbers of the pictures and of their descriptors as they
\* are, though the counting writes over the table it reads: for any number of
\* pictures with any number of descriptors, but none.
THEOREM SavedAsTrained == Spec => []FilesAgree
<1>1. IInv => FilesAgree BY TrainedAgree
<1> QED BY <1>1, Invariance, PTL

\* What init_DB saves for any pictures, also those without descriptors: the table
\* and the rows are right, and the counts are of the numbers that the counting
\* gives to the rows as it corrects the table, which fall behind the pictures.
THEOREM SavedForAny == Spec => []ShiftedCounts
<1>1. IInv => ShiftedCounts BY DEF IInv
<1> QED BY <1>1, Invariance, PTL

\* matchImg reads no entry that is not there, in the server or in a bolt that
\* has the counts, with files of one training of pictures with descriptors.
THEOREM NoFrameCrashes == Spec => []MatchInBounds
<1>1. IInv => MatchInBounds BY DEF IInv
<1> QED BY <1>1, Invariance, PTL

\* The vote, a list of pictures with a counter each that is searched for every
\* row of the frame, answers the picture with the most rows and no other.
THEOREM VoteIsRight == Spec => []BestPictureWins
<1>1. IInv => BestPictureWins BY DEF IInv
<1> QED BY <1>1, Invariance, PTL
=============================================================================
