------------------------------ MODULE DataFacts ------------------------------
(***************************************************************************)
(* Facts about sequences and remainders that the proofs about several      *)
(* components share.                                                       *)
(***************************************************************************)
EXTENDS Integers, SequencesExt, SequenceTheorems, WellFoundedInduction, TLAPS

(* A function on 1..n is a sequence of length n.                           *)
LEMMA FunctionIsSeq ==
  ASSUME NEW S, NEW n \in Nat, NEW f \in [1..n -> S]
  PROVE  f \in Seq(S) /\ Len(f) = n
<1>1. f \in Seq(S) BY SeqDef
<1>2. Len(f) \in Nat /\ DOMAIN f = 1..Len(f) BY <1>1, LenProperties
<1>3. 1..Len(f) = 1..n BY <1>2
<1> QED BY <1>1, <1>2, <1>3

(* The elements of a sequence.                                             *)
LEMMA SeqElements ==
  ASSUME NEW S, NEW s \in Seq(S)
  PROVE  /\ Len(s) \in Nat /\ DOMAIN s = 1..Len(s)
         /\ \A i \in DOMAIN s : s[i] \in S
BY LenProperties

(* A sequence with one more element, and one without its first.            *)
LEMMA AppendElements ==
  ASSUME NEW S, NEW s \in Seq(S), NEW x \in S
  PROVE  /\ Append(s, x) \in Seq(S)
         /\ Len(s) \in Nat /\ Len(Append(s, x)) = Len(s) + 1
         /\ DOMAIN s = 1..Len(s) /\ DOMAIN Append(s, x) = 1..(Len(s) + 1)
         /\ \A k \in DOMAIN s : Append(s, x)[k] = s[k]
         /\ Append(s, x)[Len(s) + 1] = x
BY AppendProperties, LenProperties

(* A sequence without its first element, element by element.               *)
LEMMA TailElements ==
  ASSUME NEW S, NEW s \in Seq(S), s # <<>>
  PROVE  /\ Tail(s) \in Seq(S)
         /\ Len(s) \in Nat /\ Len(s) > 0 /\ Len(Tail(s)) = Len(s) - 1
         /\ DOMAIN s = 1..Len(s) /\ DOMAIN Tail(s) = 1..(Len(s) - 1)
         /\ Head(s) = s[1] /\ 1 \in DOMAIN s
         /\ \A k \in DOMAIN Tail(s) : k + 1 \in DOMAIN s /\ Tail(s)[k] = s[k + 1]
<1>1. Len(s) \in Nat /\ Len(s) > 0 /\ DOMAIN s = 1..Len(s) BY EmptySeq, LenProperties
<1>2. /\ Tail(s) \in Seq(S) /\ Len(Tail(s)) = Len(s) - 1 /\ Head(s) = s[1]
      /\ \A k \in 1..(Len(s) - 1) : Tail(s)[k] = s[k + 1]
  BY <1>1, HeadTailProperties, SMT
<1>3. DOMAIN Tail(s) = 1..(Len(s) - 1) BY <1>2, LenProperties
<1> QED BY <1>1, <1>2, <1>3

(* Two elements put together, and a sequence with one more twice.          *)
LEMMA PairIsConcat ==
  ASSUME NEW S, NEW a \in S, NEW b \in S
  PROVE  /\ <<a>> \in Seq(S) /\ <<b>> \in Seq(S) /\ <<a, b>> \in Seq(S)
         /\ Len(<<a>>) = 1 /\ Len(<<b>>) = 1 /\ Len(<<a, b>>) = 2
         /\ <<a>> \o <<b>> = <<a, b>>
<1>1. /\ <<a>> \in Seq(S) /\ <<b>> \in Seq(S) /\ <<a, b>> \in Seq(S)
      /\ Len(<<a>>) = 1 /\ Len(<<b>>) = 1 /\ Len(<<a, b>>) = 2
  OBVIOUS
<1> DEFINE c == <<a>> \o <<b>>
<1>2. c \in Seq(S) /\ Len(c) = 2 /\ \A i \in 1..2 : c[i] = IF i <= 1 THEN <<a>>[i] ELSE <<b>>[i - 1]
  BY <1>1, ConcatProperties
<1> HIDE DEF c
<1>3. \A i \in 1..2 : c[i] = <<a, b>>[i]
  <2>1. c[1] = a /\ c[2] = b BY <1>2
  <2> QED BY <2>1
<1>4. c = <<a, b>> BY <1>1, <1>2, <1>3, SeqEqual
<1> QED BY <1>1, <1>4 DEF c

(* Two elements appended are a pair concatenated.                          *)
LEMMA AppendTwice ==
  ASSUME NEW S, NEW s \in Seq(S), NEW a \in S, NEW b \in S
  PROVE  /\ Append(s, a) \in Seq(S)
         /\ Append(Append(s, a), b) = s \o <<a, b>>
<1> DEFINE one == Append(s, a)
<1>1. one \in Seq(S) /\ one = s \o <<a>> BY AppendElements, AppendIsConcat
<1>2. Append(one, b) = one \o <<b>>
  <2> HIDE DEF one
  <2> QED BY <1>1, AppendIsConcat
<1> HIDE DEF one
<1>3. /\ <<a>> \in Seq(S) /\ <<b>> \in Seq(S) /\ <<a>> \o <<b>> = <<a, b>>
  BY PairIsConcat
<1>4. (s \o <<a>>) \o <<b>> = s \o (<<a>> \o <<b>>) BY <1>3, ConcatAssociative
<1> QED BY <1>1, <1>2, <1>3, <1>4 DEF one

(* A sequence cut in two.                                                  *)
LEMMA TwoParts ==
  ASSUME NEW S, NEW s \in Seq(S), NEW a \in Seq(S), NEW b \in Seq(S),
         Len(s) = Len(a) + Len(b),
         \A i \in 1..Len(a) : a[i] = s[i],
         \A i \in 1..Len(b) : b[i] = s[Len(a) + i]
  PROVE  a \o b = s
<1>1. Len(a) \in Nat /\ Len(b) \in Nat BY LenProperties
<1>2. /\ a \o b \in Seq(S) /\ Len(a \o b) = Len(s)
      /\ \A i \in 1..(Len(a) + Len(b)) :
           (a \o b)[i] = IF i <= Len(a) THEN a[i] ELSE b[i - Len(a)]
  BY ConcatProperties
<1>3. ASSUME NEW i \in 1..Len(s) PROVE (a \o b)[i] = s[i]
  <2>1. CASE i <= Len(a) BY <1>1, <1>2, <2>1
  <2>2. CASE ~(i <= Len(a))
    <3>1. i - Len(a) \in 1..Len(b) /\ Len(a) + (i - Len(a)) = i BY <1>1, <2>2
    <3>2. b[i - Len(a)] = s[Len(a) + (i - Len(a))] BY <3>1
    <3> QED BY <1>1, <1>2, <2>2, <3>1, <3>2
  <2> QED BY <2>1, <2>2
<1> QED BY <1>2, <1>3, SeqEqual

(* A sequence without its element i: those behind it move up by one.       *)
LEMMA RemoveProperties ==
  ASSUME NEW S, NEW s \in Seq(S), NEW i \in 1..Len(s)
  PROVE  /\ RemoveAt(s, i) \in Seq(S)
         /\ Len(RemoveAt(s, i)) = Len(s) - 1
         /\ \A k \in 1..(Len(s) - 1) :
              RemoveAt(s, i)[k] = IF k < i THEN s[k] ELSE s[k + 1]
<1> DEFINE p == SubSeq(s, 1, i - 1)
           q == SubSeq(s, i + 1, Len(s))
<1>1. Len(s) \in Nat /\ \A k \in 1..Len(s) : s[k] \in S BY LenProperties
<1>2. /\ p \in Seq(S) /\ Len(p) = i - 1
      /\ \A k \in 1..(i - 1) : p[k] = s[k]
  <2>1. \A k \in 1..(i - 1) : s[k] \in S BY <1>1
  <2>2. /\ p \in Seq(S) /\ Len(p) = IF 1 <= i - 1 THEN i - 1 - 1 + 1 ELSE 0
        /\ \A k \in 1..(i - 1 - 1 + 1) : p[k] = s[1 + k - 1]
    BY <2>1, SubSeqProperties
  <2> QED BY <2>2
<1>3. /\ q \in Seq(S) /\ Len(q) = Len(s) - i
      /\ \A k \in 1..(Len(s) - i) : q[k] = s[i + k]
  <2>1. \A k \in (i + 1)..Len(s) : s[k] \in S BY <1>1
  <2>2. /\ q \in Seq(S) /\ Len(q) = IF i + 1 <= Len(s) THEN Len(s) - (i + 1) + 1 ELSE 0
        /\ \A k \in 1..(Len(s) - (i + 1) + 1) : q[k] = s[i + 1 + k - 1]
    BY <1>1, <2>1, SubSeqProperties
  <2> QED BY <1>1, <2>2
<1>4. RemoveAt(s, i) = p \o q BY DEF RemoveAt
<1> HIDE DEF p, q
<1>5. /\ p \o q \in Seq(S) /\ Len(p \o q) = Len(p) + Len(q)
      /\ \A k \in 1..(Len(p) + Len(q)) :
           (p \o q)[k] = IF k <= Len(p) THEN p[k] ELSE q[k - Len(p)]
  BY <1>2, <1>3, ConcatProperties
<1>6. ASSUME NEW k \in 1..(Len(s) - 1)
      PROVE  (p \o q)[k] = IF k < i THEN s[k] ELSE s[k + 1]
  <2>1. CASE k < i BY <1>1, <1>2, <1>3, <1>5, <2>1
  <2>2. CASE ~(k < i)
    <3>1. k - Len(p) \in 1..(Len(s) - i) BY <1>1, <1>2, <2>2
    <3>2. q[k - Len(p)] = s[i + (k - Len(p))] BY <1>3, <3>1
    <3>3. i + (k - Len(p)) = k + 1 BY <1>2
    <3> QED BY <1>1, <1>2, <1>3, <1>5, <2>2, <3>2, <3>3
  <2> QED BY <2>1, <2>2
<1> QED BY <1>1, <1>2, <1>3, <1>4, <1>5, <1>6

-----------------------------------------------------------------------------
(* Arithmetic modulo a positive number.                                    *)

(* A number smaller than the modulus is its own remainder, and a multiple  *)
(* of the modulus leaves the remainder alone.                              *)
LEMMA RemainderIs ==
  ASSUME NEW M \in Nat \ {0}, NEW q \in Int, NEW r \in 0..(M - 1)
  PROVE  (M * q + r) % M = r
<1> DEFINE a == M * q + r
           d == a \div M
           s == a % M
<1>1. M * q \in Int /\ a \in Int OBVIOUS
<1>2. d \in Int /\ s \in 0..(M - 1) /\ a = M * d + s BY <1>1
<1>3. M * (q - d) = s - r BY <1>1, <1>2
<1> HIDE DEF d, s
<1>4. q - d = 0
  <2>1. CASE q - d >= 1
    <3>1. M * (q - d) >= M BY <1>2, <2>1
    <3> QED BY <1>2, <1>3, <3>1
  <2>2. CASE q - d <= -1
    <3>1. M * (q - d) <= -M BY <1>2, <2>2
    <3> QED BY <1>2, <1>3, <3>1
  <2> QED BY <1>2, <2>1, <2>2
<1>5. s = r BY <1>2, <1>3, <1>4
<1> QED BY <1>5 DEF s

(* The quotient and the remainder of a division.                           *)
LEMMA Division ==
  ASSUME NEW M \in Nat \ {0}, NEW a \in Int
  PROVE  /\ a \div M \in Int /\ a % M \in 0..(M - 1)
         /\ a = M * (a \div M) + (a % M)
OBVIOUS

(* A difference of remainders has the remainder of the difference.         *)
LEMMA RemainderOfDifference ==
  ASSUME NEW M \in Nat \ {0}, NEW a \in Int, NEW b \in Int
  PROVE  ((a % M) - (b % M)) % M = (a - b) % M
<1> DEFINE u == a % M
           v == b % M
           q == a \div M
           p == b \div M
<1>1. u \in Int /\ q \in Int /\ a = M * q + u BY Division
<1>2. v \in Int /\ p \in Int /\ b = M * p + v BY Division
<1> HIDE DEF u, v, q, p
<1> DEFINE r == (u - v) % M
           d == (u - v) \div M
<1>3. u - v \in Int BY <1>1, <1>2
<1>4. r \in 0..(M - 1) /\ d \in Int /\ u - v = M * d + r BY <1>3, Division
<1> HIDE DEF r, d
<1>5. a - b = M * (q - p + d) + r
  <2>1. M * (q - p + d) = M * q - M * p + M * d BY <1>1, <1>2, <1>4
  <2>2. M * q \in Int /\ M * p \in Int /\ M * d \in Int BY <1>1, <1>2, <1>4
  <2> QED BY <1>1, <1>2, <1>4, <2>1, <2>2
<1>6. q - p + d \in Int BY <1>1, <1>2, <1>4
<1>7. (a - b) % M = r BY <1>4, <1>5, <1>6, RemainderIs
<1> QED BY <1>7 DEF r, u, v

(* Counting on from a remainder.                                           *)
LEMMA RemainderOfNext ==
  ASSUME NEW M \in Nat \ {0}, NEW a \in Int
  PROVE  ((a % M) + 1) % M = (a + 1) % M
<1> DEFINE u == a % M
           q == a \div M
<1>1. u \in Int /\ q \in Int /\ a = M * q + u BY Division
<1> HIDE DEF u, q
<1> DEFINE r == (u + 1) % M
           d == (u + 1) \div M
<1>2. u + 1 \in Int BY <1>1
<1>3. r \in 0..(M - 1) /\ d \in Int /\ u + 1 = M * d + r BY <1>2, Division
<1> HIDE DEF r, d
<1>4. a + 1 = M * (q + d) + r
  <2>1. M * (q + d) = M * q + M * d BY <1>1, <1>3
  <2>2. M * q \in Int /\ M * d \in Int BY <1>1, <1>3
  <2> QED BY <1>1, <1>3, <2>1, <2>2
<1>5. q + d \in Int BY <1>1, <1>3
<1>6. (a + 1) % M = r BY <1>3, <1>4, <1>5, RemainderIs
<1> QED BY <1>6 DEF r, u

(* The remainder of a natural number is the number itself if it is small,  *)
(* and no larger in any case.                                              *)
LEMMA RemainderOfNat ==
  ASSUME NEW M \in Nat \ {0}, NEW a \in Nat
  PROVE  a % M <= a /\ (a < M => a % M = a)
<1> DEFINE r == a % M
           q == a \div M
<1>1. q \in Int /\ r \in 0..(M - 1) /\ a = M * q + r BY Division
<1>2. a < M => r = a
  <2>1. a < M => a = M * 0 + a /\ a \in 0..(M - 1) OBVIOUS
  <2>2. 0 \in Int OBVIOUS
  <2> QED BY <2>1, <2>2, RemainderIs
<1> HIDE DEF r, q
<1>3. CASE a < M BY <1>2, <1>3
<1>4. CASE a >= M BY <1>1, <1>4
<1> QED BY <1>2, <1>3, <1>4 DEF r

-----------------------------------------------------------------------------
(* Induction, with a set of numbers in place of a predicate, and folds.    *)

(* Every set of natural numbers has a smallest one.                        *)
LEMMA Smallest ==
  ASSUME NEW T, T \subseteq Nat, T # {}
  PROVE  \E x \in T : \A y \in T : x <= y
<1>1. PICK x \in T : \A y \in T : <<y, x>> \notin OpToRel(<, Nat)
  BY NatLessThanWellFounded, WFMin, Zenon
<1>2. \A y \in T : ~(y < x) BY <1>1 DEF OpToRel
<1> QED BY <1>2

(* What holds 0 and with each number the next one holds all numbers.       *)
LEMMA Induction ==
  ASSUME NEW T, 0 \in T, \A n \in Nat : n \in T => n + 1 \in T
  PROVE  \A n \in Nat : n \in T
<1> SUFFICES ASSUME Nat \ T # {} PROVE FALSE
  OBVIOUS
<1>1. PICK x \in Nat \ T : \A y \in Nat \ T : x <= y BY Smallest
<1>2. x - 1 \in Nat /\ x - 1 \notin Nat \ T BY <1>1
<1> QED BY <1>1, <1>2

(* The largest of some numbers, and of the first n.                        *)
LEMMA MaxIs ==
  ASSUME NEW n \in Nat, NEW s \in SUBSET (1..n), s # {}
  PROVE  Max(s) \in s /\ \A x \in s : x <= Max(s)
<1> DEFINE T == {m \in Nat : n - m \in s}
<1>1. T # {}
  <2>1. PICK x \in s : TRUE OBVIOUS
  <2>2. n - x \in Nat /\ n - (n - x) = x BY <2>1
  <2> QED BY <2>1, <2>2
<1>2. PICK m \in T : \A k \in T : m <= k BY <1>1, Smallest
<1>3. n - m \in s /\ \A x \in s : x <= n - m
  <2>1. \A x \in s : n - x \in Nat /\ n - (n - x) = x OBVIOUS
  <2>2. \A x \in s : n - x \in T BY <2>1
  <2>3. \A x \in s : m <= n - x BY <1>2, <2>2
  <2> QED BY <1>2, <2>3
<1>4. \E x \in s : \A y \in s : x >= y BY <1>3
<1> QED BY <1>4 DEF Max

(* The greatest of 1..(n + 1), and the rest without it.                    *)
LEMMA MaxOfPrefix ==
  ASSUME NEW n \in Nat
  PROVE  Max(1..(n + 1)) = n + 1 /\ (1..(n + 1)) \ {n + 1} = 1..n
<1> DEFINE s == 1..(n + 1)
<1>1. n + 1 \in Nat /\ s \in SUBSET (1..(n + 1)) /\ n + 1 \in s OBVIOUS
<1>2. Max(s) \in s /\ \A x \in s : x <= Max(s)
  <2> HIDE DEF s
  <2> QED BY <1>1, MaxIs
<1>3. Max(s) \in 1..(n + 1) /\ n + 1 <= Max(s) BY <1>1, <1>2
<1> QED BY <1>3

(* The recursion in a fold has a solution, whatever set of places it is    *)
(* asked about: step[i] is what place i does.                              *)
FoldSolves(g, base, step, n, A) ==
  /\ g \in [SUBSET (1..n) -> A]
  /\ \A s \in SUBSET (1..n) :
       g[s] = IF s = {} THEN base ELSE step[Max(s)][g[s \ {Max(s)}]]

(* A fold over 1..n has a value: the community modules' recursion is well  *)
(* founded.                                                                *)
LEMMA FoldExists ==
  ASSUME NEW A, NEW base \in A, NEW n \in Nat, NEW step \in [1..n -> [A -> A]]
  PROVE  \E g : FoldSolves(g, base, step, n, A)
<1> DEFINE T == {m \in Nat : m <= n => \E g : FoldSolves(g, base, step, m, A)}
<1>1. 0 \in T
  <2> DEFINE g == [s \in SUBSET (1..0) |-> base]
  <2>1. \A s \in SUBSET (1..0) : s = {} OBVIOUS
  <2>2. FoldSolves(g, base, step, 0, A) BY <2>1 DEF FoldSolves
  <2> QED BY <2>2
<1>2. ASSUME NEW m \in Nat, m \in T PROVE m + 1 \in T
  <2> SUFFICES ASSUME m + 1 <= n PROVE \E h : FoldSolves(h, base, step, m + 1, A)
    OBVIOUS
  <2>1. PICK g : FoldSolves(g, base, step, m, A) BY <1>2
  <2> DEFINE h == [s \in SUBSET (1..(m + 1)) |->
                     IF m + 1 \in s THEN step[m + 1][g[s \ {m + 1}]] ELSE g[s]]
  <2>2. \A s \in SUBSET (1..(m + 1)) :
          s \ {m + 1} \in SUBSET (1..m) /\ (m + 1 \notin s => s \in SUBSET (1..m))
    OBVIOUS
  <2>3. step[m + 1] \in [A -> A] OBVIOUS
  <2>4. h \in [SUBSET (1..(m + 1)) -> A] BY <2>1, <2>2, <2>3 DEF FoldSolves
  <2>5. ASSUME NEW s \in SUBSET (1..(m + 1))
        PROVE  h[s] = IF s = {} THEN base ELSE step[Max(s)][h[s \ {Max(s)}]]
    <3>1. CASE s = {} BY <2>1, <3>1 DEF FoldSolves
    <3>2. CASE m + 1 \in s
      <4>1. Max(s) = m + 1
        <5>1. m + 1 \in Nat OBVIOUS
        <5>2. Max(s) \in s /\ m + 1 <= Max(s) BY <3>2, <5>1, MaxIs
        <5>3. Max(s) \in 1..(m + 1) BY <5>2
        <5> QED BY <5>2, <5>3
      <4>2. h[s \ {m + 1}] = g[s \ {m + 1}] BY <2>2
      <4>3. h[s] = step[m + 1][g[s \ {m + 1}]] BY <3>2
      <4> QED BY <3>2, <4>1, <4>2, <4>3
    <3>3. CASE s # {} /\ m + 1 \notin s
      <4>1. s \in SUBSET (1..m) BY <2>2, <3>3
      <4>2. Max(s) \in s BY <3>3, <4>1, MaxIs
      <4>3. h[s] = g[s] /\ h[s \ {Max(s)}] = g[s \ {Max(s)}] BY <3>3, <4>1
      <4> QED BY <2>1, <3>3, <4>1, <4>3 DEF FoldSolves
    <3> QED BY <3>1, <3>2, <3>3
  <2> HIDE DEF h
  <2>6. FoldSolves(h, base, step, m + 1, A) BY <2>4, <2>5 DEF FoldSolves
  <2> QED BY <2>6
<1> HIDE DEF T
<1>3. n \in T BY <1>1, <1>2, Induction
<1> QED BY <1>3 DEF T

(* The run of a loop over n places: h[k] is its value after k of them.     *)
Loop(h, base, step, n, A) ==
  /\ h \in [0..n -> A] /\ h[0] = base
  /\ \A k \in 1..n : h[k] = step[k][h[k - 1]]

(* A fold is a loop.                                                       *)
LEMMA FoldIsLoop ==
  ASSUME NEW A, NEW base \in A, NEW n \in Nat, NEW step \in [1..n -> [A -> A]],
         NEW w, FoldSolves(w, base, step, n, A)
  PROVE  \E h : Loop(h, base, step, n, A) /\ h[n] = w[1..n]
<1> DEFINE h == [k \in 0..n |-> w[1..k]]
<1>1. \A k \in 0..n : (1..k) \in SUBSET (1..n) OBVIOUS
<1>2. h \in [0..n -> A] BY <1>1 DEF FoldSolves
<1>3. h[0] = base
  <2>1. 1..0 = {} OBVIOUS
  <2>2. (1..0) \in SUBSET (1..n) OBVIOUS
  <2>3. w[1..0] = base BY <2>1, <2>2 DEF FoldSolves
  <2> QED BY <2>3
<1>4. ASSUME NEW k \in 1..n PROVE h[k] = step[k][h[k - 1]]
  <2>1. k - 1 \in Nat /\ k - 1 \in 0..n /\ (k - 1) + 1 = k OBVIOUS
  <2>2. Max(1..k) = k /\ (1..k) \ {k} = 1..(k - 1)
    <3> DEFINE j == k - 1
    <3>1. j \in Nat /\ j + 1 = k BY <2>1
    <3> HIDE DEF j
    <3>2. Max(1..(j + 1)) = j + 1 /\ (1..(j + 1)) \ {j + 1} = 1..j BY <3>1, MaxOfPrefix
    <3>3. Max(1..k) = k /\ (1..k) \ {k} = 1..j BY <3>1, <3>2
    <3> QED BY <3>3 DEF j
  <2>3. (1..k) \in SUBSET (1..n) /\ 1 \in 1..k OBVIOUS
  <2>4. w[1..k] = step[k][w[1..(k - 1)]] BY <2>2, <2>3 DEF FoldSolves
  <2> QED BY <2>1, <2>4
<1>5. h[n] = w[1..n] OBVIOUS
<1> HIDE DEF h
<1>6. Loop(h, base, step, n, A) BY <1>2, <1>3, <1>4 DEF Loop
<1> QED BY <1>5, <1>6

(* A function that satisfies the recursion wherever the values it refers to *)
(* are in A has all its values in A.                                       *)
FoldEquation(w, base, step, n, A) ==
  /\ w = [s \in SUBSET (1..n) |-> w[s]]
  /\ w[{}] = base
  /\ \A s \in (SUBSET (1..n)) \ {{}} :
       w[s \ {Max(s)}] \in A => w[s] = step[Max(s)][w[s \ {Max(s)}]]

(* Whatever satisfies a fold's recursive equation solves the fold.         *)
LEMMA FoldsAgree ==
  ASSUME NEW A, NEW base \in A, NEW n \in Nat, NEW step \in [1..n -> [A -> A]],
         NEW w, FoldEquation(w, base, step, n, A)
  PROVE  FoldSolves(w, base, step, n, A)
<1>0. /\ w[{}] = base
      /\ \A s \in SUBSET (1..n) :
           s # {} /\ w[s \ {Max(s)}] \in A => w[s] = step[Max(s)][w[s \ {Max(s)}]]
  BY DEF FoldEquation
<1> DEFINE Typed(m) == m <= n => \A s \in SUBSET (1..m) : w[s] \in A
           T == {m \in Nat : Typed(m)}
<1>1. 0 \in T
  <2>1. \A s \in SUBSET (1..0) : s = {} OBVIOUS
  <2> QED BY <1>0, <2>1
<1>2. ASSUME NEW m \in Nat, m \in T PROVE m + 1 \in T
  <2>5. Typed(m) BY <1>2
  <2> HIDE DEF Typed
  <2> SUFFICES Typed(m + 1) OBVIOUS
  <2> SUFFICES ASSUME m + 1 <= n PROVE \A s \in SUBSET (1..(m + 1)) : w[s] \in A
    BY Zenon DEF Typed
  <2> TAKE s \in SUBSET (1..(m + 1))
  <2>0. m <= n /\ \A x \in s : x \in 1..(m + 1) /\ x \in 1..n OBVIOUS
  <2>1. CASE s = {} BY <1>0, <2>1
  <2>2. CASE s # {}
    <3>1. m + 1 \in Nat OBVIOUS
    <3>2. Max(s) \in s /\ \A x \in s : x <= Max(s) BY <2>2, <3>1, MaxIs
    <3>3. Max(s) \in 1..(m + 1) /\ Max(s) \in 1..n /\ s \in SUBSET (1..n)
      BY <2>0, <3>2, Zenon
    <3>4. ASSUME NEW x \in s, x # Max(s) PROVE x \in 1..m
      <4>1. x \in 1..(m + 1) /\ x <= Max(s) BY <2>0, <3>2
      <4> QED BY <3>3, <3>4, <4>1
    <3>5. w[s \ {Max(s)}] \in A
      <4>1. s \ {Max(s)} \in SUBSET (1..m) BY <3>4, Zenon
      <4> QED BY <2>5, <2>0, <4>1 DEF Typed
    <3>6. w[s] = step[Max(s)][w[s \ {Max(s)}]] BY <1>0, <2>2, <3>3, <3>5
    <3> QED BY <3>3, <3>5, <3>6
  <2> QED BY <2>1, <2>2
<1> HIDE DEF T
<1>3. n \in T BY <1>1, <1>2, Induction
<1>4. \A s \in SUBSET (1..n) : w[s] \in A BY <1>3 DEF T
<1>5. w \in [SUBSET (1..n) -> A] BY <1>4, Zenon DEF FoldEquation
<1>6. ASSUME NEW s \in SUBSET (1..n), s # {}
      PROVE  w[s] = step[Max(s)][w[s \ {Max(s)}]]
  <2>1. s \ {Max(s)} \in SUBSET (1..n) OBVIOUS
  <2> QED BY <1>0, <1>4, <1>6, <2>1
<1> QED BY <1>0, <1>5, <1>6 DEF FoldSolves

(* So a fold, whichever solution its definition has chosen, is a loop.     *)
LEMMA FoldRuns ==
  ASSUME NEW A, NEW base \in A, NEW n \in Nat, NEW step \in [1..n -> [A -> A]],
         NEW w, FoldEquation(w, base, step, n, A)
  PROVE  \E h : Loop(h, base, step, n, A) /\ h[n] = w[1..n]
BY FoldsAgree, FoldIsLoop

(* A loop over more places that starts alike and takes the same first n    *)
(* steps is alike so far.                                                  *)
LEMMA LoopsAgree ==
  ASSUME NEW A, NEW base, NEW f, NEW g, NEW a, NEW b,
         NEW n \in Nat, NEW k \in Nat, n <= k,
         Loop(f, base, a, n, A), Loop(g, base, b, k, A), \A i \in 1..n : a[i] = b[i]
  PROVE  \A i \in 0..n : f[i] = g[i]
<1> DEFINE T == {i \in Nat : i <= n => f[i] = g[i]}
<1>1. 0 \in T BY DEF Loop
<1>2. ASSUME NEW i \in Nat, i \in T PROVE i + 1 \in T
  <2> SUFFICES ASSUME i + 1 <= n PROVE f[i + 1] = g[i + 1] OBVIOUS
  <2>1. i + 1 \in 1..n /\ i + 1 \in 1..k /\ (i + 1) - 1 = i OBVIOUS
  <2>2. f[i + 1] = a[i + 1][f[i]] BY <2>1 DEF Loop
  <2>3. g[i + 1] = b[i + 1][g[i]] BY <2>1 DEF Loop
  <2> QED BY <1>2, <2>1, <2>2, <2>3
<1> HIDE DEF T
<1>3. \A i \in Nat : i \in T BY <1>1, <1>2, Induction
<1> QED BY <1>3 DEF T

(* A loop over one place more takes one step more.                         *)
LEMMA LoopNext ==
  ASSUME NEW A, NEW base, NEW f, NEW g, NEW a, NEW b, NEW n \in Nat,
         Loop(f, base, a, n, A), Loop(g, base, b, n + 1, A),
         \A i \in 1..n : a[i] = b[i]
  PROVE  f[n] \in A /\ g[n + 1] = b[n + 1][f[n]]
<1>1. n \in 0..n OBVIOUS
<1>2. \A i \in 0..n : f[i] = g[i]
  <2> DEFINE k == n + 1
  <2>1. k \in Nat /\ n <= k /\ Loop(g, base, b, k, A) OBVIOUS
  <2> HIDE DEF k
  <2> QED BY <2>1, LoopsAgree
<1>3. n + 1 \in 1..(n + 1) /\ (n + 1) - 1 = n OBVIOUS
<1>4. g[n + 1] = b[n + 1][g[n]] BY <1>3 DEF Loop
<1> QED BY <1>1, <1>2, <1>4 DEF Loop

(* A loop can be run.                                                      *)
LEMMA LoopExists ==
  ASSUME NEW A, NEW base \in A, NEW n \in Nat, NEW step \in [1..n -> [A -> A]]
  PROVE  \E h : Loop(h, base, step, n, A)
<1>1. PICK g : FoldSolves(g, base, step, n, A) BY FoldExists
<1> QED BY <1>1, FoldIsLoop

(* Induction over sequences.                                               *)
LEMMA SeqInduction ==
  ASSUME NEW S, NEW T, <<>> \in T,
         \A s \in Seq(S) : \A e \in S : s \in T => Append(s, e) \in T
  PROVE  \A s \in Seq(S) : s \in T
<1> DEFINE Holds(n) == \A s \in Seq(S) : Len(s) = n => s \in T
           N == {n \in Nat : Holds(n)}
<1>1. Holds(0) BY EmptySeq
<1>2. ASSUME NEW n \in Nat, Holds(n) PROVE Holds(n + 1)
  <2> TAKE s \in Seq(S)
  <2> SUFFICES ASSUME Len(s) = n + 1 PROVE s \in T OBVIOUS
  <2>1. s # <<>> BY EmptySeq
  <2>2. PICK t \in Seq(S), e \in S : s = Append(t, e) BY <2>1, SequenceEmptyOrAppend
  <2>3. Len(t) = n BY <2>2, AppendElements
  <2> QED BY <1>2, <2>2, <2>3
<1> HIDE DEF Holds
<1>3. 0 \in N /\ \A n \in Nat : n \in N => n + 1 \in N BY <1>1, <1>2
<1> HIDE DEF N
<1>4. \A n \in Nat : n \in N BY <1>3, Induction
<1> QED BY <1>4, LenProperties DEF N, Holds

-----------------------------------------------------------------------------
(* Sequences of sequences put together.                                    *)
Flattens(ss, S) == [i \in 1..Len(ss) |-> [x \in Seq(S) |-> x \o ss[i]]]

(* FlattenSeq is a loop that concatenates the parts one by one.            *)
LEMMA FlattenRuns ==
  ASSUME NEW S, NEW ss \in Seq(Seq(S))
  PROVE  \E h : /\ Loop(h, <<>>, Flattens(ss, S), Len(ss), Seq(S))
                /\ FlattenSeq(ss) = h[Len(ss)]
<1> DEFINE n == Len(ss)
           step == Flattens(ss, S)
           Solves(f) == f = [i \in 1..n |-> IF i = 1 THEN ss[i] ELSE f[i - 1] \o ss[i]]
           f == CHOOSE f : Solves(f)
<1>1. n \in Nat /\ \A i \in 1..n : ss[i] \in Seq(S) BY SeqElements
<1>2. <<>> \in Seq(S) BY EmptySeq
<1>3. step \in [1..n -> [Seq(S) -> Seq(S)]] BY <1>1, ConcatProperties DEF Flattens
<1>4. \A i \in 1..n : \A x \in Seq(S) : step[i][x] = x \o ss[i] BY DEF Flattens
<1>5. PICK h : Loop(h, <<>>, step, n, Seq(S)) BY <1>1, <1>2, <1>3, LoopExists
<1>6. CASE n = 0
  <2>1. ss = <<>> /\ h[0] = <<>> BY <1>5, <1>6, EmptySeq DEF Loop
  <2>2. FlattenSeq(ss) = ss BY <1>6 DEF FlattenSeq
  <2> QED BY <1>5, <1>6, <2>1, <2>2
<1>7. CASE n # 0
  <2>1. FlattenSeq(ss) = f[n] BY <1>7, Zenon DEF FlattenSeq
  <2> HIDE DEF step
  <2>2. ASSUME NEW i \in 1..n
        PROVE  h[i] = IF i = 1 THEN ss[i] ELSE h[i - 1] \o ss[i]
    <3>1. h[i - 1] \in Seq(S) /\ h[i] = step[i][h[i - 1]]
      <4>1. i - 1 \in 0..n BY <1>1
      <4> HIDE DEF n
      <4> QED BY <1>5, <4>1 DEF Loop
    <3>2. h[i] = h[i - 1] \o ss[i] BY <1>4, <3>1
    <3>3. CASE i = 1
      <4>1. h[0] = <<>> BY <1>5 DEF Loop
      <4>2. <<>> \o ss[i] = ss[i] BY <1>1, ConcatEmptySeq
      <4>3. i - 1 = 0 BY <3>3
      <4> QED BY <3>2, <3>3, <4>1, <4>2, <4>3
    <3> QED BY <3>2, <3>3
  <2>3. \E g : Solves(g)
    <3> DEFINE g == [i \in 1..n |-> h[i]]
    <3>1. ASSUME NEW i \in 1..n
          PROVE  g[i] = IF i = 1 THEN ss[i] ELSE g[i - 1] \o ss[i]
      <4>1. i # 1 => i - 1 \in 1..n BY <1>1
      <4> QED BY <2>2, <4>1
    <3>2. g = [i \in 1..n |-> g[i]] OBVIOUS
    <3> HIDE DEF g
    <3>3. Solves(g) BY <3>1, <3>2
    <3> QED BY <3>3
  <2>4. Solves(f) BY <2>3, Zenon
  <2> HIDE DEF f
  <2>5. \A i \in 1..n : f[i] = IF i = 1 THEN ss[i] ELSE f[i - 1] \o ss[i] BY <2>4
  <2> DEFINE Alike(i) == i \in 1..n => f[i] = h[i]
             T == {i \in Nat : Alike(i)}
  <2> HIDE DEF n, Solves
  <2>6. ASSUME NEW i \in Nat, Alike(i) PROVE Alike(i + 1)
    <3> SUFFICES ASSUME i + 1 \in 1..n PROVE f[i + 1] = h[i + 1] OBVIOUS
    <3>1. (i + 1) - 1 = i /\ (i + 1 # 1 => i \in 1..n) BY <1>1
    <3>2. f[i + 1] = IF i + 1 = 1 THEN ss[i + 1] ELSE f[i] \o ss[i + 1] BY <2>5, <3>1
    <3>3. h[i + 1] = IF i + 1 = 1 THEN ss[i + 1] ELSE h[i] \o ss[i + 1] BY <2>2, <3>1
    <3> QED BY <2>6, <3>1, <3>2, <3>3
  <2>7. Alike(0) OBVIOUS
  <2> HIDE DEF Alike
  <2>8. 0 \in T /\ \A i \in Nat : i \in T => i + 1 \in T BY <2>6, <2>7
  <2> HIDE DEF T
  <2>9. n \in T BY <1>1, <2>8, Induction
  <2>10. f[n] = h[n]
    <3>1. n \in 1..n BY <1>1, <1>7
    <3> QED BY <2>9, <3>1 DEF T, Alike
  <2> QED BY <1>5, <2>1, <2>10 DEF n, step
<1> QED BY <1>6, <1>7

(* Nothing flattened is nothing.                                           *)
LEMMA FlattenNone == FlattenSeq(<<>>) = <<>>
<1>1. Len(<<>>) = 0 BY EmptySeq
<1> QED BY <1>1 DEF FlattenSeq

(* One more part flattened is concatenated at the end.                     *)
LEMMA FlattenNext ==
  ASSUME NEW S, NEW ss \in Seq(Seq(S)), NEW t \in Seq(S)
  PROVE  /\ FlattenSeq(ss) \in Seq(S)
         /\ FlattenSeq(Append(ss, t)) = FlattenSeq(ss) \o t
<1> DEFINE n == Len(ss)
           more == Append(ss, t)
<1>1. /\ more \in Seq(Seq(S)) /\ n \in Nat /\ Len(more) = n + 1
      /\ \A i \in 1..n : more[i] = ss[i]
      /\ more[n + 1] = t
  BY AppendElements
<1>2. PICK h : Loop(h, <<>>, Flattens(ss, S), n, Seq(S)) /\ FlattenSeq(ss) = h[n]
  BY FlattenRuns
<1> HIDE DEF more
<1>3. PICK g : Loop(g, <<>>, Flattens(more, S), n + 1, Seq(S)) /\ FlattenSeq(more) = g[n + 1]
  BY <1>1, FlattenRuns
<1>4. ASSUME NEW i \in 1..n PROVE Flattens(ss, S)[i] = Flattens(more, S)[i]
  <2>1. i \in 1..Len(ss) /\ i \in 1..Len(more) /\ more[i] = ss[i] BY <1>1
  <2> QED BY <2>1 DEF Flattens
<1>5. Flattens(more, S)[n + 1] = [x \in Seq(S) |-> x \o t]
  <2>1. n + 1 \in 1..Len(more) BY <1>1
  <2> QED BY <1>1, <2>1 DEF Flattens
<1> HIDE DEF n
<1>6. h[n] \in Seq(S) /\ g[n + 1] = Flattens(more, S)[n + 1][h[n]]
  <2> DEFINE a == Flattens(ss, S)
             b == Flattens(more, S)
             A == Seq(S)
             none == <<>>
  <2>1. n \in Nat /\ Loop(h, none, a, n, A) /\ Loop(g, none, b, n + 1, A)
        /\ \A i \in 1..n : a[i] = b[i]
    BY <1>1, <1>2, <1>3, <1>4
  <2> HIDE DEF a, b, A, none
  <2>2. h[n] \in A /\ g[n + 1] = b[n + 1][h[n]] BY <2>1, LoopNext
  <2> QED BY <2>2 DEF a, b, A
<1> QED BY <1>2, <1>3, <1>5, <1>6 DEF more
=============================================================================
