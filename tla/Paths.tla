-------------------------------- MODULE Paths --------------------------------
(***************************************************************************)
(* What the proofs know of the elements of a sequence: they lead, one step *)
(* each, from one value to another.  A queue of statuses leads from the    *)
(* request the reader shows to the one the writer has, a read of bytes     *)
(* from one place in what was typed to a later one, a batch of decisions   *)
(* from one count to another.                                              *)
(***************************************************************************)
EXTENDS Integers, Sequences, SequenceTheorems, WellFoundedInduction, TLAPS

(* Every set of numbers that is not empty has a least one: induction over   *)
(* the elements of a sequence.                                              *)
LEMMA LeastNumber ==
  ASSUME NEW T, T \subseteq Nat, T # {}
  PROVE  \E x \in T : \A y \in T : x <= y
<1> DEFINE R == OpToRel(<, Nat)
<1>1. IsWellFoundedOn(R, Nat) BY NatLessThanWellFounded
<1> HIDE DEF R
<1>2. PICK x \in T : \A y \in T : ~(<<y, x>> \in R) BY <1>1, WFMin
<1>3. ASSUME NEW y \in T, y < x PROVE <<y, x>> \in R
  <2>1. <<y, x>> \in Nat \X Nat /\ <<y, x>>[1] = y /\ <<y, x>>[2] = x OBVIOUS
  <2> QED BY <1>3, <2>1 DEF R, OpToRel
<1>4. \A y \in T : x <= y \/ y < x
  <2> TAKE y \in T
  <2>1. x \in Nat /\ y \in Nat OBVIOUS
  <2> QED BY <2>1
<1> QED BY <1>2, <1>3, <1>4

\* The same for a statement about 0 .. n: the numbers that satisfy it are the set G.
LEMMA UpTo ==
  ASSUME NEW n \in Nat, NEW G, 0 \in G,
         \A i \in 1 .. n : i - 1 \in G => i \in G
  PROVE  \A i \in 0 .. n : i \in G
<1> DEFINE T == {i \in 0 .. n : i \notin G}
<1> SUFFICES ASSUME T # {} PROVE FALSE OBVIOUS
<1>1. T \subseteq Nat OBVIOUS
<1>2. PICK x \in T : \A y \in T : x <= y
  <2> HIDE DEF T
  <2> QED BY <1>1, LeastNumber
<1>3. x \in 1 .. n /\ x - 1 \in 0 .. n /\ ~(x <= x - 1) OBVIOUS
<1>4. x - 1 \in G BY <1>2, <1>3
<1> QED BY <1>3, <1>4

----------------------------------------------------------------------------

\* The elements of q lead from c to d, each by a step in S.
Path(S, c, q, d) ==
  \E p : /\ p[1] = c /\ p[Len(q) + 1] = d
         /\ \A i \in 1 .. Len(q) : <<p[i], q[i], p[i + 1]>> \in S

LEMMA PathEmpty ==
  ASSUME NEW S, NEW c, NEW d
  PROVE  Path(S, c, <<>>, d) <=> c = d
<1>1. Len(<<>>) = 0 /\ 0 + 1 = 1 /\ 1 .. 0 = {} OBVIOUS
<1>2. Path(S, c, <<>>, d) => c = d BY <1>1 DEF Path
<1>3. ASSUME c = d PROVE Path(S, c, <<>>, d)
  <2> DEFINE p == [i \in {1} |-> c]
  <2>1. p[1] = c OBVIOUS
  <2> HIDE DEF p
  <2> QED BY <1>1, <1>3, <2>1 DEF Path
<1> QED BY <1>2, <1>3

LEMMA PathConcat ==
  ASSUME NEW S, NEW X, NEW q \in Seq(X), NEW r \in Seq(X), NEW c, NEW d, NEW e,
         Path(S, c, q, d), Path(S, d, r, e)
  PROVE  Path(S, c, q \o r, e)
<1> DEFINE n == Len(q)
           m == Len(r)
           s == q \o r
<1>1. /\ n \in Nat /\ m \in Nat /\ Len(s) = n + m
      /\ \A i \in 1 .. n + m : s[i] = IF i <= n THEN q[i] ELSE r[i - n]
  BY ConcatProperties
<1>2. PICK p : /\ p[1] = c /\ p[n + 1] = d
               /\ \A i \in 1 .. n : <<p[i], q[i], p[i + 1]>> \in S
  BY DEF Path
<1>3. PICK o : /\ o[1] = d /\ o[m + 1] = e
               /\ \A i \in 1 .. m : <<o[i], r[i], o[i + 1]>> \in S
  BY DEF Path
<1> DEFINE t == [i \in 1 .. n + m + 1 |-> IF i <= n THEN p[i] ELSE o[i - n]]
<1> HIDE DEF n, m, s
<1>4. \A i \in 1 .. n + m + 1 : t[i] = IF i <= n THEN p[i] ELSE o[i - n] OBVIOUS
<1> HIDE DEF t
<1>5. t[n + 1] = d
  <2>1. n + 1 \in 1 .. n + m + 1 /\ ~(n + 1 <= n) /\ (n + 1) - n = 1 BY <1>1
  <2> QED BY <1>3, <1>4, <2>1
<1>6. \A i \in 1 .. n + 1 : t[i] = p[i]
  <2> TAKE i \in 1 .. n + 1
  <2>1. CASE i = n + 1 BY <1>2, <1>5, <2>1
  <2>2. CASE i <= n
    <3>1. i \in 1 .. n + m + 1 BY <1>1
    <3> QED BY <1>4, <2>2, <3>1
  <2> QED BY <1>1, <2>1, <2>2
<1>7. t[1] = c
  <2>1. 1 \in 1 .. n + 1 BY <1>1
  <2> QED BY <1>2, <1>6, <2>1
<1>8. t[(n + m) + 1] = e
  <2>1. (n + m) + 1 \in 1 .. n + m + 1 /\ ~((n + m) + 1 <= n) /\ ((n + m) + 1) - n = m + 1
    BY <1>1
  <2> QED BY <1>3, <1>4, <2>1
<1>9. ASSUME NEW i \in 1 .. n + m PROVE <<t[i], s[i], t[i + 1]>> \in S
  <2>1. CASE i <= n
    <3>1. i \in 1 .. n /\ i \in 1 .. n + 1 /\ i + 1 \in 1 .. n + 1 BY <1>1, <2>1
    <3>2. s[i] = q[i] BY <1>1, <2>1
    <3> QED BY <1>2, <1>6, <3>1, <3>2
  <2>2. CASE ~(i <= n)
    <3>1. /\ i - n \in 1 .. m /\ (i + 1) - n = (i - n) + 1
          /\ i \in 1 .. n + m + 1 /\ i + 1 \in 1 .. n + m + 1 /\ ~(i + 1 <= n)
      BY <1>1, <2>2
    <3>2. s[i] = r[i - n] BY <1>1, <2>2
    <3>3. t[i] = o[i - n] /\ t[i + 1] = o[(i - n) + 1] BY <1>4, <2>2, <3>1
    <3> QED BY <1>3, <3>1, <3>2, <3>3
  <2> QED BY <2>1, <2>2
<1> QED BY <1>1, <1>7, <1>8, <1>9 DEF Path, s

LEMMA PathOne ==
  ASSUME NEW S, NEW c, NEW x, NEW d, <<c, x, d>> \in S
  PROVE  Path(S, c, <<x>>, d)
<1> DEFINE p == <<c, d>>
<1>1. p[1] = c /\ p[1 + 1] = d /\ Len(<<x>>) = 1 /\ <<x>>[1] = x OBVIOUS
<1> HIDE DEF p
<1>2. \A i \in 1 .. 1 : i = 1 OBVIOUS
<1> QED BY <1>1, <1>2 DEF Path

LEMMA PathAppend ==
  ASSUME NEW S, NEW X, NEW q \in Seq(X), NEW x \in X, NEW c, NEW d, NEW e,
         Path(S, c, q, d), <<d, x, e>> \in S
  PROVE  Path(S, c, Append(q, x), e)
<1>1. Append(q, x) = q \o <<x>> BY AppendIsConcat
<1>2. <<x>> \in Seq(X) OBVIOUS
<1>3. Path(S, d, <<x>>, e) BY PathOne
<1> QED BY <1>1, <1>2, <1>3, PathConcat

LEMMA PathSplit ==
  ASSUME NEW S, NEW X, NEW q \in Seq(X), NEW c, NEW e, Path(S, c, q, e),
         NEW k \in 0 .. Len(q)
  PROVE  \E d : Path(S, c, SubSeq(q, 1, k), d) /\ Path(S, d, SubSeq(q, k + 1, Len(q)), e)
<1> DEFINE n == Len(q)
           a == SubSeq(q, 1, k)
           b == SubSeq(q, k + 1, n)
<1>1. n \in Nat /\ k \in Nat /\ k <= n OBVIOUS
<1>2. /\ Len(a) = k /\ \A i \in 1 .. k : a[i] = q[i]
      /\ Len(b) = n - k /\ \A i \in 1 .. n - k : b[i] = q[i + k]
  BY <1>1
<1>3. PICK p : /\ p[1] = c /\ p[n + 1] = e
               /\ \A i \in 1 .. n : <<p[i], q[i], p[i + 1]>> \in S
  BY DEF Path
<1> DEFINE o == [i \in 1 .. n - k + 1 |-> p[i + k]]
<1> HIDE DEF n, a, b
<1>4. Path(S, c, a, p[k + 1])
  <2>1. \A i \in 1 .. k : i \in 1 .. n BY <1>1
  <2> QED BY <1>2, <1>3, <2>1 DEF Path
<1>5. \A i \in 1 .. n - k + 1 : o[i] = p[i + k] OBVIOUS
<1> HIDE DEF o
<1>6. Path(S, p[k + 1], b, e)
  <2>1. o[1] = p[k + 1]
    <3>1. 1 \in 1 .. n - k + 1 /\ 1 + k = k + 1 BY <1>1
    <3> QED BY <1>5, <3>1
  <2>2. o[(n - k) + 1] = e
    <3>1. (n - k) + 1 \in 1 .. n - k + 1 /\ ((n - k) + 1) + k = n + 1 BY <1>1
    <3> QED BY <1>3, <1>5, <3>1
  <2>3. ASSUME NEW i \in 1 .. n - k PROVE <<o[i], b[i], o[i + 1]>> \in S
    <3>1. /\ i \in 1 .. n - k + 1 /\ i + 1 \in 1 .. n - k + 1 /\ i + k \in 1 .. n
          /\ (i + 1) + k = (i + k) + 1
      BY <1>1
    <3> QED BY <1>2, <1>3, <1>5, <3>1
  <2> QED BY <1>2, <2>1, <2>2, <2>3 DEF Path
<1> QED BY <1>4, <1>6 DEF n, a, b

LEMMA PathHead ==
  ASSUME NEW S, NEW X, NEW q \in Seq(X), q # <<>>, NEW c, NEW e, Path(S, c, q, e)
  PROVE  \E d : <<c, Head(q), d>> \in S /\ Path(S, d, Tail(q), e)
<1>1. /\ Len(q) \in Nat /\ Len(q) >= 1 /\ Head(q) = q[1] /\ Len(Tail(q)) = Len(q) - 1
      /\ \A i \in 1 .. Len(q) - 1 : Tail(q)[i] = q[i + 1]
  BY HeadTailProperties
<1>2. PICK p : /\ p[1] = c /\ p[Len(q) + 1] = e
               /\ \A i \in 1 .. Len(q) : <<p[i], q[i], p[i + 1]>> \in S
  BY DEF Path
<1> DEFINE n == Len(q)
           o == [i \in 1 .. n |-> p[i + 1]]
<1>3. <<c, Head(q), p[2]>> \in S
  <2>1. 1 \in 1 .. Len(q) /\ 1 + 1 = 2 BY <1>1
  <2> QED BY <1>1, <1>2, <2>1
<1>4. \A i \in 1 .. n : o[i] = p[i + 1] OBVIOUS
<1> HIDE DEF n, o
<1>5. Path(S, p[2], Tail(q), e)
  <2>1. o[1] = p[2] /\ o[(n - 1) + 1] = e
    <3>1. 1 \in 1 .. n /\ 1 + 1 = 2 /\ n \in 1 .. n /\ (n - 1) + 1 = n BY <1>1 DEF n
    <3> QED BY <1>2, <1>4, <3>1 DEF n
  <2>2. ASSUME NEW i \in 1 .. n - 1 PROVE <<o[i], Tail(q)[i], o[i + 1]>> \in S
    <3>1. i \in 1 .. n /\ i + 1 \in 1 .. n BY <1>1 DEF n
    <3> QED BY <1>1, <1>2, <1>4, <3>1 DEF n
  <2> QED BY <1>1, <2>1, <2>2 DEF Path, n
<1> QED BY <1>3, <1>5

LEMMA PathWider ==
  ASSUME NEW S, NEW T, S \subseteq T, NEW q, NEW c, NEW d, Path(S, c, q, d)
  PROVE  Path(T, c, q, d)
BY DEF Path

\* A path does not leave a set that no step leaves.
LEMMA PathKeeps ==
  ASSUME NEW S, NEW X, NEW q \in Seq(X), NEW c, NEW e, Path(S, c, q, e), NEW I, c \in I,
         \A i \in 1 .. Len(q) : \A a, b : a \in I /\ <<a, q[i], b>> \in S => b \in I
  PROVE  e \in I
<1>1. PICK p : /\ p[1] = c /\ p[Len(q) + 1] = e
               /\ \A i \in 1 .. Len(q) : <<p[i], q[i], p[i + 1]>> \in S
  BY DEF Path
<1> DEFINE n == Len(q)
           G == {i \in 0 .. n : p[i + 1] \in I}
<1>2. n \in Nat OBVIOUS
<1>3. 0 \in G
  <2>1. 0 \in 0 .. n /\ 0 + 1 = 1 BY <1>2
  <2> QED BY <1>1, <2>1
<1>4. ASSUME NEW i \in 1 .. n, i - 1 \in G PROVE i \in G
  <2>1. (i - 1) + 1 = i /\ i \in 0 .. n BY <1>2
  <2>2. p[i] \in I BY <1>4, <2>1
  <2>3. <<p[i], q[i], p[i + 1]>> \in S BY <1>1
  <2>4. p[i + 1] \in I BY <2>2, <2>3
  <2> QED BY <2>1, <2>4
<1> HIDE DEF G
<1>5. \A i \in 0 .. n : i \in G BY <1>2, <1>3, <1>4, UpTo
<1>6. n \in G BY <1>2, <1>5
<1> QED BY <1>1, <1>6 DEF G

\* From every value there is a path, if every element has a step from each value.
LEMMA PathExists ==
  ASSUME NEW S, NEW X, NEW C, \A a \in C, x \in X : \E b \in C : <<a, x, b>> \in S,
         NEW q \in Seq(X), NEW c \in C
  PROVE  \E d \in C : Path(S, c, q, d)
<1> DEFINE n == Len(q)
           G == {i \in 0 .. n : \E d \in C : Path(S, c, SubSeq(q, 1, i), d)}
<1>1. n \in Nat OBVIOUS
<1>2. 0 \in G
  <2>1. SubSeq(q, 1, 0) = <<>> /\ 0 \in 0 .. n BY <1>1
  <2>2. Path(S, c, <<>>, c) BY PathEmpty
  <2>3. Path(S, c, SubSeq(q, 1, 0), c) BY ONLY <2>1, <2>2
  <2> QED BY <2>1, <2>3
<1>3. ASSUME NEW i \in 1 .. n, i - 1 \in G PROVE i \in G
  <2> DEFINE r == SubSeq(q, 1, i - 1)
  <2>1. PICK d \in C : Path(S, c, r, d) BY <1>3
  <2>2. q[i] \in X /\ r \in Seq(X) /\ i \in 0 .. n BY <1>1
  <2>3. PICK e \in C : <<d, q[i], e>> \in S BY <2>2
  <2>4. SubSeq(q, 1, i) = Append(r, q[i])
    <3>1. /\ Len(r) = i - 1 /\ \A j \in 1 .. i - 1 : r[j] = q[j]
          /\ SubSeq(q, 1, i) \in Seq(X) /\ Len(SubSeq(q, 1, i)) = i
          /\ \A j \in 1 .. i : SubSeq(q, 1, i)[j] = q[j]
      BY <1>1
    <3>2. /\ Append(r, q[i]) \in Seq(X) /\ Len(Append(r, q[i])) = i
          /\ \A j \in 1 .. i - 1 : Append(r, q[i])[j] = r[j]
          /\ Append(r, q[i])[i] = q[i]
      <4>1. (i - 1) + 1 = i /\ Len(r) = i - 1 BY <1>1
      <4> HIDE DEF r
      <4> QED BY <2>2, <4>1, AppendProperties
    <3>3. \A j \in 1 .. i : SubSeq(q, 1, i)[j] = Append(r, q[i])[j]
      <4> TAKE j \in 1 .. i
      <4>1. j = i \/ j \in 1 .. i - 1 BY <1>1
      <4> QED BY <3>1, <3>2, <4>1
    <3> HIDE DEF r
    <3>4. \A s, t \in Seq(X) : Len(s) = Len(t) /\ (\A j \in 1 .. Len(s) : s[j] = t[j]) => s = t
      BY SeqEqual
    <3> QED BY <3>1, <3>2, <3>3, <3>4
  <2> HIDE DEF r
  <2>5. Path(S, c, SubSeq(q, 1, i), e) BY <2>1, <2>2, <2>3, <2>4, PathAppend
  <2> QED BY <2>2, <2>5
<1> HIDE DEF G
<1>4. \A i \in 0 .. n : i \in G BY <1>1, <1>2, <1>3, UpTo
<1>5. SubSeq(q, 1, n) = q /\ n \in 0 .. n OBVIOUS
<1> QED BY <1>4, <1>5 DEF G
=============================================================================
