------------------------------ MODULE DataLemmas ------------------------------
(***************************************************************************)
(* Lemmas about numbers, functions and sequences that several proofs use.  *)
(***************************************************************************)
EXTENDS Integers, Sequences, FiniteSets, WellFoundedInduction, FiniteSetTheorems, SequenceTheorems, TLAPS

\* A set of numbers that is not empty has a least one.
LEMMA LeastNumber ==
  ASSUME NEW S, S \subseteq Nat, S # {}
  PROVE  \E n \in S : \A m \in S : n <= m
<1>1. PICK n \in S : \A m \in S : ~ (<<m, n>> \in OpToRel(<, Nat))
  BY NatLessThanWellFounded, WFMin
<1>2. \A m \in S : ~ (m < n)
  BY <1>1 DEF OpToRel
<1>3. QED
  BY <1>2

\* Induction up to N, over a set of numbers.
LEMMA InductionTo ==
  ASSUME NEW N \in Nat, NEW S, 0 \in S, \A n \in Nat : n < N /\ n \in S => n + 1 \in S
  PROVE  0..N \subseteq S
<1> DEFINE Others == (0..N) \ S
<1>1. SUFFICES ASSUME Others # {} PROVE FALSE
  OBVIOUS
<1>2. PICK n \in Others : \A m \in Others : n <= m
  <2>1. Others \subseteq Nat
    OBVIOUS
  <2> HIDE DEF Others
  <2>2. QED
    BY <1>1, <2>1, LeastNumber
<1>3. n # 0 /\ n \in Nat /\ n <= N
  BY <1>2
<1>4. n - 1 \in Nat /\ n - 1 < N /\ n - 1 \notin Others
  BY <1>2, <1>3
<1>5. n - 1 \in S
  BY <1>3, <1>4
<1>6. (n - 1) + 1 \in S
  BY <1>4, <1>5
<1>7. QED
  BY <1>2, <1>3, <1>6

\* f is defined by recursion up to N.
IsRecursive(f, N, S, base, step) ==
  /\ f \in [0..N -> S]
  /\ f[0] = base
  /\ \A i \in 1..N : f[i] = step[i][f[i - 1]]

\* A function may be defined by recursion on the numbers up to N.
LEMMA Recursion ==
  ASSUME NEW N, N \in Nat, NEW S, NEW base, base \in S,
         NEW step, step \in [1..N -> [S -> S]]
  PROVE  \E f : IsRecursive(f, N, S, base, step)
<1> DEFINE Upto(n, f) == /\ f \in [0..n -> S] /\ f[0] = base
                         /\ \A i \in 1..n : f[i] = step[i][f[i - 1]]
           Good == {n \in 0..N : \E f : Upto(n, f)}
<1>1. 0 \in Good
  <2>1. Upto(0, [i \in 0..0 |-> base])
    OBVIOUS
  <2>2. \E f : Upto(0, f)
    BY <2>1
  <2> HIDE DEF Upto
  <2>3. QED
    BY <2>2
<1>2. ASSUME NEW n \in Nat, n < N, n \in Good
      PROVE  n + 1 \in Good
  <2>1. PICK f : Upto(n, f)
    BY <1>2
  <2> DEFINE g == [i \in 0..(n + 1) |-> IF i = n + 1 THEN step[n + 1][f[n]] ELSE f[i]]
  <2>2. step[n + 1][f[n]] \in S
    BY <1>2, <2>1
  <2>3. g \in [0..(n + 1) -> S] /\ g[0] = base
    BY <1>2, <2>1, <2>2
  <2>4. ASSUME NEW i \in 1..(n + 1)
        PROVE  g[i] = step[i][g[i - 1]]
    <3>1. CASE i = n + 1
      BY <1>2, <3>1
    <3>2. CASE i # n + 1
      <4>1. i \in 1..n /\ i - 1 \in 0..n /\ i - 1 # n + 1 /\ i - 1 \in 0..(n + 1)
        BY <3>2
      <4>2. QED
        BY <2>1, <3>2, <4>1
    <3>3. QED
      BY <3>1, <3>2
  <2>5. Upto(n + 1, g)
    BY <2>3, <2>4
  <2>6. \E h : Upto(n + 1, h)
    BY <2>5
  <2> HIDE DEF Upto
  <2>7. QED
    BY <1>2, <2>6
<1> HIDE DEF Good
<1>3. 0..N \subseteq Good
  BY <1>1, <1>2, InductionTo
<1>4. N \in Good
  BY <1>3
<1>5. QED
  BY <1>4 DEF Good, IsRecursive

\* Division with a rest, for any divisor.
LEMMA Division ==
  ASSUME NEW D \in Nat \ {0}, NEW x \in Int
  PROVE  /\ x \div D \in Int /\ x % D \in 0..(D - 1)
         /\ x = D * (x \div D) + (x % D)
  OBVIOUS

LEMMA DivisionIsUnique ==
  ASSUME NEW D \in Nat \ {0}, NEW x \in Int, NEW k \in Int, NEW r \in 0..(D - 1), x = D * k + r
  PROVE  x \div D = k /\ x % D = r
  OBVIOUS

\* Between two multiples of a number lies the number itself.
LEMMA MultiplesApart ==
  ASSUME NEW D \in Nat \ {0}, NEW k \in Int, NEW j \in Int
  PROVE  /\ k * D \in Int /\ k * D = D * k /\ (k + 1) * D = k * D + D
         /\ k < j <=> k * D < j * D
         /\ k < j => k * D + D <= j * D
  OBVIOUS

\* A sequence with one of its elements taken out: those behind it move up.
LEMMA Removal ==
  ASSUME NEW S, NEW s \in Seq(S), NEW at \in 1..Len(s)
  PROVE  LET w == SubSeq(s, 1, at - 1) \o SubSeq(s, at + 1, Len(s)) IN
         /\ w \in Seq(S) /\ Len(w) = Len(s) - 1
         /\ \A i \in 1..(Len(s) - 1) : w[i] = IF i < at THEN s[i] ELSE s[i + 1]
<1> DEFINE n == Len(s)
           a == SubSeq(s, 1, at - 1)
           b == SubSeq(s, at + 1, n)
<1>1. n \in Nat /\ at \in 1..n /\ \A i \in 1..n : s[i] \in S
  OBVIOUS
<1>2. a \in Seq(S) /\ Len(a) = at - 1 /\ \A i \in 1..(at - 1) : a[i] = s[i]
  <2>1. at - 1 \in Int /\ 1 \in Int /\ \A i \in 1..(at - 1) : s[i] \in S
    BY <1>1
  <2>2. /\ a \in Seq(S) /\ Len(a) = (IF 1 <= at - 1 THEN at - 1 - 1 + 1 ELSE 0)
        /\ \A i \in 1..(at - 1 - 1 + 1) : a[i] = s[1 + i - 1]
    BY <2>1, SubSeqProperties
  <2>3. QED
    BY <1>1, <2>2
<1>3. b \in Seq(S) /\ Len(b) = n - at /\ \A i \in 1..(n - at) : b[i] = s[at + i]
  <2>1. at + 1 \in Int /\ n \in Int /\ \A i \in (at + 1)..n : s[i] \in S
    BY <1>1
  <2>2. /\ b \in Seq(S) /\ Len(b) = (IF at + 1 <= n THEN n - (at + 1) + 1 ELSE 0)
        /\ \A i \in 1..(n - (at + 1) + 1) : b[i] = s[at + 1 + i - 1]
    BY <2>1, SubSeqProperties
  <2>3. QED
    BY <1>1, <2>2
<1> HIDE DEF a, b, n
<1>4. /\ a \o b \in Seq(S) /\ Len(a \o b) = Len(a) + Len(b)
      /\ \A i \in 1..(Len(a) + Len(b)) : (a \o b)[i] = IF i <= Len(a) THEN a[i] ELSE b[i - Len(a)]
  BY <1>2, <1>3, ConcatProperties
<1>5. ASSUME NEW i \in 1..(n - 1) PROVE (a \o b)[i] = IF i < at THEN s[i] ELSE s[i + 1]
  <2>1. CASE i < at
    BY <1>1, <1>2, <1>3, <1>4, <2>1
  <2>2. CASE ~ (i < at)
    <3>1. i - (at - 1) \in 1..(n - at) /\ at + (i - (at - 1)) = i + 1
      BY <1>1, <2>2
    <3>2. (a \o b)[i] = b[i - (at - 1)]
      BY <1>1, <1>2, <1>3, <1>4, <2>2
    <3>3. b[i - (at - 1)] = s[i + 1]
      BY <1>3, <3>1
    <3>4. QED
      BY <2>2, <3>2, <3>3
  <2>3. QED
    BY <2>1, <2>2
<1>6. Len(a) + Len(b) = n - 1
  BY <1>1, <1>2, <1>3
<1>7. QED
  BY <1>4, <1>5, <1>6 DEF a, b, n

\* Two sequences in a row: the elements of the one, then those of the other.
LEMMA InARow ==
  ASSUME NEW S, NEW s \in Seq(S), NEW t \in Seq(S)
  PROVE  /\ s \o t \in Seq(S) /\ Len(s \o t) = Len(s) + Len(t) /\ DOMAIN (s \o t) = 1..(Len(s) + Len(t))
         /\ \A k \in 1..Len(s) : (s \o t)[k] = s[k]
         /\ \A k \in 1..Len(t) : (s \o t)[Len(s) + k] = t[k]
<1>1. /\ s \o t \in Seq(S) /\ Len(s \o t) = Len(s) + Len(t) /\ Len(s) \in Nat /\ Len(t) \in Nat
      /\ \A i \in 1..(Len(s) + Len(t)) : (s \o t)[i] = IF i <= Len(s) THEN s[i] ELSE t[i - Len(s)]
  BY ConcatProperties
<1>2. ASSUME NEW k \in 1..Len(s) PROVE (s \o t)[k] = s[k]
  BY <1>1
<1>3. ASSUME NEW k \in 1..Len(t) PROVE (s \o t)[Len(s) + k] = t[k]
  <2>1. Len(s) + k \in 1..(Len(s) + Len(t)) /\ ~ (Len(s) + k <= Len(s)) /\ (Len(s) + k) - Len(s) = k
    BY <1>1
  <2>2. (s \o t)[Len(s) + k] = t[(Len(s) + k) - Len(s)]
    BY <1>1, <2>1
  <2>3. QED
    BY <2>1, <2>2
<1>4. QED
  BY <1>1, <1>2, <1>3

================================================================================
