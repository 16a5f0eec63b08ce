------------------------------- MODULE Lemmas -------------------------------
(***************************************************************************)
(* Facts that the proofs of several components rest on: induction over the *)
(* naturals as a statement about sets, which the provers can instantiate,  *)
(* functions defined by recursion over an interval, the arithmetic of ring *)
(* indices, and sequences whose elements have no common type.              *)
(***************************************************************************)
EXTENDS Integers, Sequences, SequenceTheorems, WellFoundedInduction, TLAPS

-----------------------------------------------------------------------------
(* Induction.                                                               *)

\* A non-empty set of naturals has a least element.
LEMMA LeastNatural ==
  ASSUME NEW T, T \subseteq Nat, T # {}
  PROVE  \E x \in T : \A y \in T : x <= y
<1>1. PICK x \in T : \A y \in T : <<y, x>> \notin OpToRel(<, Nat)
  <2>1. \E x \in T : \A y \in T : ~(<<y, x>> \in OpToRel(<, Nat))
    BY NatLessThanWellFounded, WFMin
  <2> QED
    BY <2>1
<1>2. ASSUME NEW y \in T
      PROVE  x <= y
  <2>1. x \in Nat /\ y \in Nat
    OBVIOUS
  <2>2. y < x => <<y, x>> \in OpToRel(<, Nat)
    BY <2>1 DEF OpToRel
  <2>3. ~(y < x)
    BY <1>1, <2>2, Zenon
  <2> HIDE <1>1
  <2> QED
    BY ONLY <2>1, <2>3
<1> QED
  BY <1>2

\* A set that holds 0 and, with each natural below m, the next, holds 0 .. m.
LEMMA SetInduction ==
  ASSUME NEW T, NEW m \in Nat, 0 \in T, \A n \in 0 .. m - 1 : n \in T => n + 1 \in T
  PROVE  0 .. m \subseteq T
<1> SUFFICES ASSUME (0 .. m) \ T # {}
             PROVE  FALSE
  OBVIOUS
<1>1. PICK x \in (0 .. m) \ T : \A y \in (0 .. m) \ T : x <= y
  <2>1. (0 .. m) \ T \subseteq Nat
    OBVIOUS
  <2> QED
    BY <2>1, LeastNatural
<1>2. x # 0 /\ x - 1 \in 0 .. m - 1 /\ (x - 1) + 1 = x
  BY <1>1
<1>3. x - 1 \in T
  BY <1>1, <1>2
<1> QED
  BY <1>1, <1>2, <1>3

\* Steps from a value of D to the next, and the function they build from a.
Steps(D, k) == [D \X (1 .. k) -> D]
IsRecursion(f, k, D, a, h) ==
  f \in [0 .. k -> D] /\ f[0] = a /\ \A i \in 1 .. k : f[i] = h[<<f[i - 1], i>>]

\* A function may be defined by recursion over 0 .. k.
LEMMA RecursionExists ==
  ASSUME NEW k \in Nat, NEW D, NEW a \in D, NEW h \in Steps(D, k)
  PROVE  \E f : IsRecursion(f, k, D, a, h)
<1> USE DEF Steps
<1> DEFINE Good(f, n) == f \in [0 .. n -> D] /\ f[0] = a /\ \A i \in 1 .. n : f[i] = h[<<f[i - 1], i>>]
           T == {n \in 0 .. k : \E f \in [0 .. n -> D] : Good(f, n)}
<1>1. 0 \in T
  <2> DEFINE f == [i \in 0 .. 0 |-> a]
  <2>1. f \in [0 .. 0 -> D] /\ Good(f, 0) /\ 0 \in 0 .. k
    OBVIOUS
  <2> HIDE DEF f, Good
  <2> QED
    BY <2>1
<1>2. ASSUME NEW n \in 0 .. k - 1, n \in T
      PROVE  n + 1 \in T
  <2>1. PICK f \in [0 .. n -> D] : Good(f, n)
    BY <1>2
  <2> DEFINE g == [i \in 0 .. n + 1 |-> IF i <= n THEN f[i] ELSE h[<<f[n], n + 1>>]]
  <2>2. h[<<f[n], n + 1>>] \in D
    <3>1. f[n] \in D /\ n + 1 \in 1 .. k
      BY <2>1
    <3> QED
      BY <3>1
  <2>3. g \in [0 .. n + 1 -> D]
    BY <2>1, <2>2
  <2>4. g[0] = a
    BY <2>1
  <2>5. ASSUME NEW i \in 1 .. n + 1
        PROVE  g[i] = h[<<g[i - 1], i>>]
    <3>1. CASE i = n + 1
      BY <3>1
    <3>2. CASE i # n + 1
      BY <2>1, <3>2
    <3> QED
      BY <3>1, <3>2
  <2> HIDE DEF g
  <2>6. Good(g, n + 1) /\ n + 1 \in 0 .. k
    BY <2>3, <2>4, <2>5
  <2> HIDE DEF Good
  <2> QED
    BY <2>3, <2>6
<1> HIDE DEF T
<1>3. 0 .. k \subseteq T
  BY <1>1, <1>2, SetInduction
<1>4. k \in T
  BY <1>3
<1> QED
  BY <1>4 DEF T, IsRecursion

-----------------------------------------------------------------------------
(* Remainders.                                                              *)

LEMMA ModRange == \A a \in Int, n \in Nat \ {0} : a % n \in 0 .. n - 1
  OBVIOUS

LEMMA DivMod == \A a \in Int, n \in Nat \ {0} : a = n * (a \div n) + (a % n) /\ a \div n \in Int
  OBVIOUS

LEMMA MulMonotone ==
  \A x \in Int, n \in Nat \ {0} :
    n * x \in Int /\ (x >= 1 => n * x >= n) /\ (x <= -1 => n * x <= -n)
  OBVIOUS

\* The remainder is the only one.
LEMMA ModUnique ==
  ASSUME NEW a \in Int, NEW n \in Nat \ {0}, NEW q \in Int, NEW r \in 0 .. n - 1, a = n * q + r
  PROVE  a % n = r /\ a \div n = q
<1> DEFINE p == a \div n
           s == a % n
<1>1. a = n * p + s /\ p \in Int /\ s \in 0 .. n - 1
  BY DivMod, ModRange
<1>2. n * p \in Int /\ n * q \in Int /\ n * (p - q) \in Int /\ p - q \in Int
  BY <1>1
<1>3. n * (p - q) = n * p - n * q
  BY <1>1
<1>4. (p - q >= 1 => n * (p - q) >= n) /\ (p - q <= -1 => n * (p - q) <= -n)
  BY <1>2, MulMonotone
<1> HIDE DEF p, s
<1>5. n * (p - q) = r - s
  BY <1>1, <1>2, <1>3
<1>6. p = q
  BY <1>1, <1>2, <1>4, <1>5
<1>7. s = r
  BY <1>1, <1>2, <1>6
<1> QED
  BY <1>6, <1>7 DEF p, s

LEMMA ModSmall ==
  ASSUME NEW n \in Nat \ {0}, NEW r \in 0 .. n - 1
  PROVE  r % n = r
<1>1. r \in Int /\ 0 \in Int /\ r = n * 0 + r
  OBVIOUS
<1> QED
  BY <1>1, ModUnique

LEMMA ModOnce ==
  ASSUME NEW n \in Nat \ {0}, NEW r \in 0 .. n - 1
  PROVE  (r + n) % n = r
<1>1. r + n \in Int /\ 1 \in Int /\ r + n = n * 1 + r
  OBVIOUS
<1> QED
  BY <1>1, ModUnique

\* A step that wraps around at most once.
LEMMA ModStep ==
  ASSUME NEW n \in Nat \ {0}, NEW a \in 0 .. 2 * n - 1
  PROVE  a % n = IF a < n THEN a ELSE a - n
<1>1. CASE a < n
  BY <1>1, ModSmall
<1>2. CASE a >= n
  <2>1. a - n \in 0 .. n - 1 /\ (a - n) + n = a
    BY <1>2
  <2>2. ((a - n) + n) % n = a - n
    BY <2>1, ModOnce
  <2> QED
    BY <1>2, <2>1, <2>2
<1> QED
  BY <1>1, <1>2

LEMMA ModAdd ==
  ASSUME NEW a \in Int, NEW b \in Int, NEW n \in Nat \ {0}
  PROVE  ((a % n) + b) % n = (a + b) % n
<1> DEFINE p == a \div n
           s == a % n
           u == (s + b) \div n
           v == (s + b) % n
<1>1. a = n * p + s /\ p \in Int /\ s \in 0 .. n - 1
  BY DivMod, ModRange
<1>2. s + b = n * u + v /\ u \in Int /\ v \in 0 .. n - 1
  BY DivMod, ModRange, <1>1
<1> HIDE DEF p, s, u, v
<1>3. n * (p + u) = n * p + n * u /\ n * p \in Int /\ n * u \in Int /\ n * (p + u) \in Int
  BY <1>1, <1>2
<1>4. a + b = n * (p + u) + v /\ p + u \in Int /\ a + b \in Int
  BY <1>1, <1>2, <1>3
<1>5. (a + b) % n = v
  BY <1>2, <1>4, ModUnique
<1> QED
  BY <1>5 DEF v, s

\* Multiples do not change the remainder.
LEMMA ModMultiple ==
  ASSUME NEW n \in Nat \ {0}, NEW a \in Int, NEW k \in Int
  PROVE  (a + n * k) % n = a % n
<1> DEFINE p == a \div n
           s == a % n
<1>1. a = n * p + s /\ p \in Int /\ s \in 0 .. n - 1
  BY DivMod, ModRange
<1> HIDE DEF p, s
<1>2. n * p \in Int /\ n * k \in Int /\ n * (p + k) = n * p + n * k /\ p + k \in Int
  BY <1>1
<1>3. a + n * k \in Int /\ a + n * k = n * (p + k) + s
  BY <1>1, <1>2
<1>4. (a + n * k) % n = s
  BY ONLY <1>1, <1>2, <1>3, ModUnique, n \in Nat \ {0}
<1> QED
  BY <1>4 DEF s

\* Two places of a ring less than a round apart differ.
LEMMA ModApart ==
  ASSUME NEW n \in Nat \ {0}, NEW a \in Nat, NEW i \in 0 .. n - 1, NEW j \in 0 .. n - 1,
         (a + i) % n = (a + j) % n
  PROVE  i = j
<1> DEFINE s == a % n
<1>1. s \in 0 .. n - 1
  BY ModRange
<1>2. (s + i) % n = (a + i) % n /\ (s + j) % n = (a + j) % n
  <2>1. a \in Int /\ i \in Int /\ j \in Int
    OBVIOUS
  <2> QED
    BY <2>1, ModAdd
<1> HIDE DEF s
<1>3. s + i \in 0 .. 2 * n - 1 /\ s + j \in 0 .. 2 * n - 1
  BY <1>1
<1>4. /\ (s + i) % n = IF s + i < n THEN s + i ELSE (s + i) - n
      /\ (s + j) % n = IF s + j < n THEN s + j ELSE (s + j) - n
  BY <1>3, ModStep
<1> QED
  BY <1>1, <1>2, <1>4

-----------------------------------------------------------------------------
(* Sequences.                                                               *)

LEMMA SubSeqFirst ==
  ASSUME NEW S, NEW w \in Seq(S), Len(w) \in Nat \ {0}
  PROVE  SubSeq(w, 1, 1) = <<w[1]>>
<1> DEFINE a == SubSeq(w, 1, 1)
           b == <<w[1]>>
<1>1. 1 \in 1 .. Len(w)
  OBVIOUS
<1>2. w[1] \in S
  BY <1>1, ElementOfSeq
<1>3. a \in Seq(S) /\ Len(a) = 1 /\ a[1] = w[1]
  BY <1>1, SubSeqProperties
<1>4. b \in Seq(S) /\ Len(b) = 1 /\ b[1] = w[1]
  BY <1>2
<1> HIDE DEF a, b
<1>5. a = b
  BY <1>3, <1>4, SeqEqual
<1> QED
  BY <1>5 DEF a, b

-----------------------------------------------------------------------------
(* Sequences whose elements have no common type.                            *)

Elements(s) == {s[i] : i \in DOMAIN s}
IsSeq(s) == s \in Seq(Elements(s))

\* Sequence t begins with s.
Extends(s, t) == Len(s) <= Len(t) /\ \A i \in 1 .. Len(s) : t[i] = s[i]

LEMMA FunctionIsSeq ==
  ASSUME NEW s, NEW n \in Nat, s = [i \in 1 .. n |-> s[i]]
  PROVE  IsSeq(s) /\ Len(s) = n
<1>1. s \in [1 .. n -> Elements(s)]
  BY DEF Elements
<1>2. s \in Seq(Elements(s))
  BY <1>1, SeqDef
<1>3. Len(s) = n
  BY <1>1, <1>2, LenProperties
<1> QED
  BY <1>2, <1>3 DEF IsSeq

LEMMA AnySeq ==
  ASSUME NEW E, NEW s \in Seq(E)
  PROVE  IsSeq(s) /\ Len(s) \in Nat
<1>1. Len(s) \in Nat /\ s = [i \in 1 .. Len(s) |-> s[i]]
  BY LenProperties
<1> QED
  BY <1>1, FunctionIsSeq

LEMMA JoinSeq ==
  ASSUME NEW s, NEW t, IsSeq(s), IsSeq(t)
  PROVE  IsSeq(s \o t) /\ Len(s \o t) = Len(s) + Len(t)
<1> DEFINE E == Elements(s) \cup Elements(t)
<1>1. s \in Seq(E) /\ t \in Seq(E)
  BY SeqMonotonic DEF IsSeq
<1> HIDE DEF E
<1>2. s \o t \in Seq(E) /\ Len(s \o t) = Len(s) + Len(t)
  BY <1>1, ConcatProperties
<1> QED
  BY <1>2, AnySeq

\* A piece of s from a on, b long.
LEMMA CutSeq ==
  ASSUME NEW s, IsSeq(s), NEW a \in Nat, NEW b \in Nat, a + b <= Len(s)
  PROVE  IsSeq(SubSeq(s, a + 1, a + b)) /\ Len(SubSeq(s, a + 1, a + b)) = b
<1> DEFINE E == Elements(s)
           c == SubSeq(s, a + 1, a + b)
<1>1. s \in Seq(E) /\ Len(s) \in Nat
  BY AnySeq DEF IsSeq
<1> HIDE DEF E
<1>2. c = [i \in 1 .. b |-> s[a + i]]
  BY <1>1
<1> HIDE DEF c
<1>3. c = [i \in 1 .. b |-> c[i]]
  BY <1>2
<1>4. IsSeq(c) /\ Len(c) = b
  BY <1>3, FunctionIsSeq
<1> QED
  BY <1>4 DEF c

\* Sequences written out.
LEMMA ShortSeqs ==
  /\ \A a : IsSeq(<<a>>) /\ Len(<<a>>) = 1
  /\ \A a, b, c : IsSeq(<<a, b, c>>) /\ Len(<<a, b, c>>) = 3
  /\ \A a, b, c, d : IsSeq(<<a, b, c, d>>) /\ Len(<<a, b, c, d>>) = 4
<1>1. \A a : <<a>> \in Seq({a}) /\ Len(<<a>>) = 1
  OBVIOUS
<1>2. \A a, b, c : <<a, b, c>> \in Seq({a, b, c}) /\ Len(<<a, b, c>>) = 3
  OBVIOUS
<1>3. \A a, b, c, d : <<a, b, c, d>> \in Seq({a, b, c, d}) /\ Len(<<a, b, c, d>>) = 4
  OBVIOUS
<1> QED
  BY <1>1, <1>2, <1>3, AnySeq

LEMMA BlankSeq == IsSeq(<<>>) /\ Len(<<>>) = 0
<1>1. <<>> \in Seq({}) /\ Len(<<>>) = 0
  OBVIOUS
<1> QED
  BY <1>1, AnySeq

LEMMA PrefixSeq ==
  ASSUME NEW s, NEW t, IsSeq(s), IsSeq(t), Extends(s, t), NEW n \in Nat, n <= Len(s)
  PROVE  n <= Len(t) /\ SubSeq(t, 1, n) = SubSeq(s, 1, n)
<1> DEFINE E == Elements(s)
           F == Elements(t)
<1>1. s \in Seq(E) /\ Len(s) \in Nat /\ t \in Seq(F) /\ Len(t) \in Nat
  BY AnySeq DEF IsSeq
<1>2. Len(s) <= Len(t) /\ \A i \in 1 .. Len(s) : t[i] = s[i]
  BY DEF Extends
<1> HIDE DEF E, F
<1>3. SubSeq(s, 1, n) = [i \in 1 .. n |-> s[i]]
  BY <1>1
<1>4. n <= Len(t)
  BY <1>1, <1>2
<1>5. SubSeq(t, 1, n) = [i \in 1 .. n |-> t[i]]
  BY <1>1, <1>4
<1>6. \A i \in 1 .. n : t[i] = s[i]
  BY <1>1, <1>2
<1> QED
  BY <1>3, <1>4, <1>5, <1>6

LEMMA WholeSeq ==
  ASSUME NEW s, IsSeq(s)
  PROVE  SubSeq(s, 1, Len(s)) = s
<1> DEFINE E == Elements(s)
<1>1. s \in Seq(E)
  BY DEF IsSeq
<1> HIDE DEF E
<1> QED
  BY <1>1

LEMMA JoinPieces ==
  ASSUME NEW s, IsSeq(s), NEW a \in Nat, NEW b \in Nat, a + b <= Len(s)
  PROVE  SubSeq(s, 1, a) \o SubSeq(s, a + 1, a + b) = SubSeq(s, 1, a + b)
<1> DEFINE E == Elements(s)
           c == a + b
           x == SubSeq(s, 1, a)
           y == SubSeq(s, a + 1, a + b)
           z == SubSeq(s, 1, c)
<1>1. s \in Seq(E) /\ Len(s) \in Nat
  BY AnySeq DEF IsSeq
<1> HIDE DEF E
<1>2. c \in Nat /\ c = a + b /\ a <= Len(s) /\ c <= Len(s)
  BY <1>1
<1>3. x \in Seq(E) /\ Len(x) = a /\ \A i \in 1 .. a : x[i] = s[i]
  BY <1>1, <1>2
<1>4. y \in Seq(E) /\ Len(y) = b /\ \A i \in 1 .. b : y[i] = s[a + i]
  BY <1>1, <1>2
<1> HIDE DEF c
<1>5. z \in Seq(E) /\ Len(z) = c /\ \A i \in 1 .. c : z[i] = s[i]
  BY <1>1, <1>2
<1> HIDE DEF x, y, z
<1>6. x \o y \in Seq(E) /\ Len(x \o y) = c
  <2>1. x \o y \in Seq(E) /\ Len(x \o y) = Len(x) + Len(y)
    BY <1>3, <1>4, ConcatProperties
  <2> QED
    BY <1>2, <1>3, <1>4, <2>1
<1>7. ASSUME NEW i \in 1 .. c
      PROVE  (x \o y)[i] = s[i]
  <2>1. CASE i <= a
    <3>1. i \in 1 .. a /\ (x \o y)[i] = x[i]
      BY <1>2, <1>3, <1>4, <2>1
    <3> QED
      BY <1>3, <3>1
  <2>2. CASE i > a
    <3>1. i - a \in 1 .. b /\ (x \o y)[i] = y[i - a] /\ a + (i - a) = i
      BY <1>2, <1>3, <1>4, <2>2
    <3> QED
      BY <1>4, <3>1
  <2>3. i <= a \/ i > a
    BY <1>2
  <2> QED
    BY <2>1, <2>2, <2>3, Zenon
<1>8. x \o y = z
  <2> DEFINE v == x \o y
  <2>1. v \in Seq(E) /\ Len(v) = Len(z) /\ \A i \in 1 .. Len(z) : v[i] = z[i]
    BY <1>5, <1>6, <1>7
  <2> HIDE DEF v
  <2>2. v = z
    BY <1>5, <2>1, SeqEqual
  <2> QED
    BY <2>2 DEF v
<1> QED
  BY <1>8 DEF x, y, z, c
=============================================================================
