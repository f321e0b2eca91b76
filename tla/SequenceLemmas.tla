--------------------------- MODULE SequenceLemmas ---------------------------
(***************************************************************************)
(* Lemmas about numbers and sequences that the proofs of the modules share.*)
(***************************************************************************)
EXTENDS Integers, Sequences, SequencesExt, SequenceTheorems, WellFoundedInduction, TLAPS

-----------------------------------------------------------------------------
(* Numbers                                                                 *)

\* Induction from 1 to n, over the set of the numbers a fact holds of.
LEMMA UpTo ==
  ASSUME NEW n \in Nat, NEW T, 1 \in T, \A i \in 1..(n - 1) : i \in T => i + 1 \in T
  PROVE  1..n \subseteq T
<1>. DEFINE U == (1..n) \ T
            R == OpToRel(<, Nat)
<1>1. \A i, j \in Nat : i < j => <<i, j>> \in R
  BY DEF OpToRel
<1>. HIDE DEF R
<1>2. IsWellFoundedOn(R, Nat)
  BY NatLessThanWellFounded DEF R
<1>3. ASSUME U # {} PROVE FALSE
  <2>1. U \subseteq Nat
    OBVIOUS
  <2>2. PICK x \in U : \A y \in U : ~(<<y, x>> \in R)
    BY <1>2, <1>3, <2>1, WFMin
  <2>3. x \in 1..n /\ x \notin T
    OBVIOUS
  <2>4. x - 1 \in 1..(n - 1) /\ x - 1 < x /\ (x - 1) + 1 = x /\ x \in Nat /\ x - 1 \in Nat
    BY <2>3
  <2>5. x - 1 \notin U
    BY <1>1, <2>2, <2>4
  <2>. QED BY <2>3, <2>4, <2>5
<1>. QED BY <1>3

\* Induction over the naturals, over the set of the numbers a fact holds of.
LEMMA AllNats ==
  ASSUME NEW T, 0 \in T, \A i \in Nat : i \in T => i + 1 \in T
  PROVE  Nat \subseteq T
<1>1. 1 \in T
  <2>1. 0 + 1 \in T
    OBVIOUS
  <2>. QED BY <2>1
<1>2. ASSUME NEW n \in Nat, n # 0 PROVE n \in T
  <2>1. \A i \in 1..(n - 1) : i \in T => i + 1 \in T
    OBVIOUS
  <2>2. 1..n \subseteq T
    BY <1>1, <2>1, UpTo
  <2>3. n \in 1..n
    BY <1>2
  <2>. QED BY <2>2, <2>3
<1>. QED BY <1>2

\* A remainder is known by what is left and how often the divisor was taken.
LEMMA ModUnique ==
  ASSUME NEW m \in Nat \ {0}, NEW q \in Nat, NEW r \in 0..(m - 1), NEW x \in Nat, x = m * q + r
  PROVE  x % m = r
<1>. DEFINE p == x \div m
            s == x % m
<1>1. p \in Nat /\ s \in 0..(m - 1) /\ x = m * p + s
  <2>1. p \in Int /\ s \in 0..(m - 1) /\ x = m * p + s
    OBVIOUS
  <2>2. p \in Nat
    OBVIOUS
  <2>. QED BY <2>1, <2>2
<1>. HIDE DEF p, s
<1>2. m * p + s = m * q + r
  BY <1>1
<1>3. CASE p = q
  <2>1. m * p \in Int /\ m * q = m * p
    BY <1>1, <1>3
  <2>2. s = r
    BY <1>1, <1>2, <2>1
  <2>. QED BY <2>2 DEF s
<1>4. CASE p < q
  <2>1. PICK d \in Nat : q = p + 1 + d
    <3>1. q - p - 1 \in Nat /\ q = p + 1 + (q - p - 1)
      BY <1>1, <1>4
    <3>. QED BY <3>1
  <2>2. m * q = m * p + m + m * d /\ m * d \in Nat /\ m * p \in Nat
    BY <1>1, <2>1
  <2>. QED BY <1>1, <1>2, <2>2
<1>5. CASE q < p
  <2>1. PICK d \in Nat : p = q + 1 + d
    <3>1. p - q - 1 \in Nat /\ p = q + 1 + (p - q - 1)
      BY <1>1, <1>5
    <3>. QED BY <3>1
  <2>2. m * p = m * q + m + m * d /\ m * d \in Nat /\ m * q \in Nat
    BY <1>1, <2>1
  <2>. QED BY <1>1, <1>2, <2>2
<1>. QED BY <1>1, <1>3, <1>4, <1>5

\* Doubling commutes with taking the remainder.
LEMMA ModDoubled ==
  ASSUME NEW m \in Nat \ {0}, NEW x \in Nat
  PROVE  ((x % m) * 2) % m = (2 * x) % m
<1>. DEFINE p == x \div m
            s == x % m
<1>1. p \in Nat /\ s \in 0..(m - 1) /\ x = m * p + s
  <2>1. p \in Int /\ s \in 0..(m - 1) /\ x = m * p + s
    OBVIOUS
  <2>2. p \in Nat
    OBVIOUS
  <2>. QED BY <2>1, <2>2
<1>. HIDE DEF p, s
<1>2. m * p \in Nat /\ m * (2 * p) = 2 * (m * p) /\ m * (2 * p + 1) = 2 * (m * p) + m
  BY <1>1
<1>3. 2 * x = 2 * (m * p) + 2 * s /\ 2 * x \in Nat /\ 2 * s \in Nat
  BY <1>1, <1>2
<1>. DEFINE a == 2 * x
            b == 2 * s
<1>4. a \in Nat /\ b \in Nat /\ a = 2 * (m * p) + b /\ b < 2 * m /\ s * 2 = b
  BY <1>1, <1>3
<1>. HIDE DEF a, b
<1>5. m * 0 = 0 /\ m * 1 = m /\ 2 * p \in Nat /\ 2 * p + 1 \in Nat
  BY <1>1
<1>6. CASE b < m
  <2>1. b \in 0..(m - 1) /\ a = m * (2 * p) + b /\ b = m * 0 + b
    BY <1>2, <1>4, <1>5, <1>6
  <2>2. a % m = b
    <3>1. PICK q \in Nat : a = m * q + b
      BY <1>5, <2>1
    <3>2. a \in Nat /\ b \in 0..(m - 1)
      BY <1>4, <2>1
    <3>. QED BY ONLY <3>1, <3>2, m \in Nat \ {0}, ModUnique
  <2>3. b % m = b
    BY <1>4, <2>1, ModUnique
  <2>. QED BY <1>4, <2>2, <2>3 DEF a, s
<1>7. CASE b >= m
  <2>. DEFINE r == b - m
  <2>1. r \in 0..(m - 1) /\ a = m * (2 * p + 1) + r /\ b = m * 1 + r
    BY <1>2, <1>4, <1>5, <1>7
  <2>. HIDE DEF r
  <2>2. a % m = r
    <3>1. PICK q \in Nat : a = m * q + r
      BY <1>5, <2>1
    <3>2. a \in Nat /\ r \in 0..(m - 1)
      BY <1>4, <2>1
    <3>. QED BY ONLY <3>1, <3>2, m \in Nat \ {0}, ModUnique
  <2>3. b % m = r
    BY <1>4, <2>1, ModUnique
  <2>. QED BY <1>4, <2>2, <2>3 DEF a, s
<1>. QED BY <1>4, <1>6, <1>7

\* A set of naturals has a least element, the one Min chooses.
LEMMA MinOfNats ==
  ASSUME NEW T, T \subseteq Nat, T # {}
  PROVE  Min(T) \in T /\ \A y \in T : Min(T) <= y
<1>. DEFINE R == OpToRel(<, Nat)
<1>1. \A i, j \in Nat : i < j => <<i, j>> \in R
  BY DEF OpToRel
<1>. HIDE DEF R
<1>2. IsWellFoundedOn(R, Nat)
  BY NatLessThanWellFounded DEF R
<1>3. PICK x \in T : \A y \in T : ~(<<y, x>> \in R)
  BY <1>2, WFMin
<1>4. ASSUME NEW y \in T PROVE x <= y
  <2>1. x \in Nat /\ y \in Nat
    OBVIOUS
  <2>2. ~(y < x)
    BY <1>1, <1>3, <2>1
  <2>. QED BY <2>1, <2>2
<1>. QED BY <1>4 DEF Min

-----------------------------------------------------------------------------
(* Parts of sequences                                                      *)

\* A function on 1..n is a sequence of length n.
LEMMA FunctionIsSeq ==
  ASSUME NEW S, NEW n \in Nat, NEW f \in [1..n -> S]
  PROVE  f \in Seq(S) /\ Len(f) = n /\ DOMAIN f = 1..n
<1>1. f \in Seq(S) /\ DOMAIN f = 1..n
  OBVIOUS
<1>. QED BY <1>1, LenProperties

\* What the concatenation w of s and t holds, and where.
Joins(w, s, t) ==
  /\ Len(w) = Len(s) + Len(t) /\ Len(s) \in Nat /\ Len(t) \in Nat
  /\ \A i \in 1..Len(s) : w[i] = s[i]
  /\ \A i \in 1..Len(t) : w[Len(s) + i] = t[i]

\* Concatenation does that.
LEMMA ConcatJoins ==
  ASSUME NEW S, NEW s \in Seq(S), NEW t \in Seq(S)
  PROVE  s \o t \in Seq(S) /\ Joins(s \o t, s, t)
<1>. DEFINE w == s \o t
<1>1. Len(s) \in Nat /\ Len(t) \in Nat
  BY LenProperties
<1>2. /\ w \in Seq(S) /\ Len(w) = Len(s) + Len(t)
      /\ \A i \in 1..(Len(s) + Len(t)) : w[i] = IF i <= Len(s) THEN s[i] ELSE t[i - Len(s)]
  BY ConcatProperties
<1>. HIDE DEF w
<1>3. ASSUME NEW i \in 1..Len(s) PROVE w[i] = s[i]
  BY <1>1, <1>2
<1>4. ASSUME NEW i \in 1..Len(t) PROVE w[Len(s) + i] = t[i]
  <2>1. Len(s) + i \in 1..(Len(s) + Len(t)) /\ ~(Len(s) + i <= Len(s)) /\ (Len(s) + i) - Len(s) = i
    BY <1>1
  <2>. QED BY <1>2, <2>1
<1>5. Joins(w, s, t)
  BY <1>1, <1>2, <1>3, <1>4 DEF Joins
<1>. QED BY <1>2, <1>5 DEF w

\* A sequence that holds what the concatenation holds is the concatenation.
LEMMA JoinsIsConcat ==
  ASSUME NEW S, NEW s \in Seq(S), NEW t \in Seq(S), NEW w \in Seq(S), Joins(w, s, t)
  PROVE  w = s \o t
<1>. DEFINE v == s \o t
<1>1. v \in Seq(S) /\ Joins(v, s, t)
  BY ConcatJoins
<1>. HIDE DEF v
<1>2. Len(v) = Len(w) /\ Len(w) = Len(s) + Len(t) /\ Len(s) \in Nat /\ Len(t) \in Nat
  BY <1>1 DEF Joins
<1>3. ASSUME NEW i \in 1..Len(w) PROVE w[i] = v[i]
  <2>1. CASE i <= Len(s)
    <3>1. i \in 1..Len(s)
      BY <1>2, <2>1
    <3>. QED BY <1>1, <3>1 DEF Joins
  <2>2. CASE ~(i <= Len(s))
    <3>1. i - Len(s) \in 1..Len(t) /\ Len(s) + (i - Len(s)) = i
      BY <1>2, <2>2
    <3>2. w[Len(s) + (i - Len(s))] = t[i - Len(s)] /\ v[Len(s) + (i - Len(s))] = t[i - Len(s)]
      BY <1>1, <3>1 DEF Joins
    <3>. QED BY <3>1, <3>2
  <2>. QED BY <2>1, <2>2
<1>4. w = v
  BY <1>1, <1>2, <1>3, SeqEqual
<1>. QED BY <1>4 DEF v

\* The part of a sequence from m to n.
LEMMA PartProperties ==
  ASSUME NEW S, NEW s \in Seq(S), NEW m \in Nat \ {0}, NEW n \in Nat, n <= Len(s), m <= n + 1
  PROVE  /\ SubSeq(s, m, n) \in Seq(S) /\ Len(SubSeq(s, m, n)) = (n + 1) - m
         /\ \A i \in 1..((n + 1) - m) : SubSeq(s, m, n)[i] = s[(m + i) - 1]
<1>1. Len(s) \in Nat /\ \A i \in 1..Len(s) : s[i] \in S
  BY LenProperties, ElementOfSeq
<1>2. \A i \in m..n : s[i] \in S
  BY <1>1
<1>3. /\ SubSeq(s, m, n) \in Seq(S)
      /\ Len(SubSeq(s, m, n)) = IF m <= n THEN (n - m) + 1 ELSE 0
      /\ \A i \in 1..((n - m) + 1) : SubSeq(s, m, n)[i] = s[(m + i) - 1]
  BY <1>2, SubSeqProperties
<1>4. (n - m) + 1 = (n + 1) - m /\ (~(m <= n) => (n + 1) - m = 0)
  OBVIOUS
<1>. QED BY <1>3, <1>4

\* The first n elements of a sequence.
LEMMA FrontProperties ==
  ASSUME NEW S, NEW s \in Seq(S), NEW n \in Nat, n <= Len(s)
  PROVE  /\ SubSeq(s, 1, n) \in Seq(S) /\ Len(SubSeq(s, 1, n)) = n
         /\ \A i \in 1..n : SubSeq(s, 1, n)[i] = s[i]
<1>. DEFINE u == SubSeq(s, 1, n)
<1>1. (n + 1) - 1 = n /\ 1 <= n + 1 /\ \A i \in 1..n : (1 + i) - 1 = i
  OBVIOUS
<1>2. u \in Seq(S) /\ Len(u) = (n + 1) - 1 /\ \A i \in 1..((n + 1) - 1) : u[i] = s[(1 + i) - 1]
  BY <1>1, PartProperties
<1>. HIDE DEF u
<1>3. u \in Seq(S) /\ Len(u) = n /\ \A i \in 1..n : u[i] = s[i]
  BY <1>1, <1>2
<1>. QED BY <1>3 DEF u

\* A sequence is its first k elements and the others.
LEMMA SplitAt ==
  ASSUME NEW S, NEW s \in Seq(S), NEW k \in 0..Len(s)
  PROVE  /\ SubSeq(s, 1, k) \in Seq(S) /\ Len(SubSeq(s, 1, k)) = k
         /\ SubSeq(s, k + 1, Len(s)) \in Seq(S) /\ Len(SubSeq(s, k + 1, Len(s))) = Len(s) - k
         /\ SubSeq(s, 1, k) \o SubSeq(s, k + 1, Len(s)) = s
<1>1. Len(s) \in Nat /\ k \in Nat /\ k <= Len(s)
  BY LenProperties
<1>. DEFINE u == SubSeq(s, 1, k)
            v == SubSeq(s, k + 1, Len(s))
<1>2. u \in Seq(S) /\ Len(u) = k /\ \A i \in 1..k : u[i] = s[i]
  <2>1. \A i \in 1..k : (1 + i) - 1 = i
    OBVIOUS
  <2>2. (k + 1) - 1 = k /\ 1 <= k + 1
    BY <1>1
  <2>3. u \in Seq(S) /\ Len(u) = (k + 1) - 1 /\ \A i \in 1..((k + 1) - 1) : u[i] = s[(1 + i) - 1]
    BY <1>1, <2>2, PartProperties
  <2>. HIDE DEF u
  <2>. QED BY <2>1, <2>2, <2>3
<1>3. v \in Seq(S) /\ Len(v) = Len(s) - k /\ \A i \in 1..(Len(s) - k) : v[i] = s[k + i]
  <2>1. \A i \in 1..(Len(s) - k) : ((k + 1) + i) - 1 = k + i
    BY <1>1
  <2>2. (Len(s) + 1) - (k + 1) = Len(s) - k /\ k + 1 <= Len(s) + 1 /\ k + 1 \in Nat \ {0}
    BY <1>1
  <2>3. /\ v \in Seq(S) /\ Len(v) = (Len(s) + 1) - (k + 1)
        /\ \A i \in 1..((Len(s) + 1) - (k + 1)) : v[i] = s[((k + 1) + i) - 1]
    BY <1>1, <2>2, PartProperties
  <2>. HIDE DEF v
  <2>. QED BY <2>1, <2>2, <2>3
<1>. HIDE DEF u, v
<1>4. Joins(s, u, v)
  BY <1>1, <1>2, <1>3 DEF Joins
<1>5. s = u \o v
  BY <1>2, <1>3, <1>4, JoinsIsConcat
<1>. QED BY <1>2, <1>3, <1>5 DEF u, v

\* Concatenation is associative, with names for its parts.
LEMMA Associative ==
  ASSUME NEW S, NEW s \in Seq(S), NEW t \in Seq(S), NEW u \in Seq(S),
         NEW v, v = s \o t, NEW w, w = t \o u
  PROVE  v \o u = s \o w
  BY ConcatAssociative

\* An element moved from the head of one sequence to the end of the one before it.
LEMMA MoveHead ==
  ASSUME NEW S, NEW s \in Seq(S), NEW t \in Seq(S)
  PROVE  /\ t # <<>> => Append(s, Head(t)) \o Tail(t) = s \o t
         /\ \A m \in S : s \o Append(t, m) = Append(s \o t, m)
<1>1. \A u \in Seq(S), m \in S : Append(u, m) = u \o <<m>> /\ <<m>> \in Seq(S)
  BY AppendIsConcat
<1>2. ASSUME t # <<>> PROVE Append(s, Head(t)) \o Tail(t) = s \o t
  <2>1. Head(t) \in S /\ Tail(t) \in Seq(S)
    BY <1>2, HeadTailProperties
  <2>2. t = <<Head(t)>> \o Tail(t)
    <3>1. Len(t) \in Nat /\ 1 \in 1..Len(t) /\ Len(t) \in 1..Len(t)
      BY <1>2, EmptySeq
    <3>2. SubSeq(t, 1, Len(t)) = <<t[1]>> \o SubSeq(t, 2, Len(t))
      BY <3>1, SubSeqRecursiveFirst
    <3>. QED BY <1>2, <3>2, SubSeqFull, TailIsSubSeq
  <2>3. Append(s, Head(t)) \o Tail(t) = (s \o <<Head(t)>>) \o Tail(t)
    BY <1>1, <2>1
  <2>4. (s \o <<Head(t)>>) \o Tail(t) = s \o (<<Head(t)>> \o Tail(t))
    BY <1>1, <2>1, ConcatAssociative
  <2>. QED BY <2>2, <2>3, <2>4
<1>3. ASSUME NEW m \in S PROVE s \o Append(t, m) = Append(s \o t, m)
  <2>1. s \o (t \o <<m>>) = (s \o t) \o <<m>> /\ s \o t \in Seq(S)
    BY <1>1, ConcatAssociative, ConcatProperties
  <2>. QED BY <1>1, <2>1
<1>. QED BY <1>2, <1>3

\* What the removal of one position leaves.
LEMMA RemoveAtProperties ==
  ASSUME NEW S, NEW s \in Seq(S), NEW k \in DOMAIN s
  PROVE  /\ RemoveAt(s, k) \in Seq(S) /\ Len(RemoveAt(s, k)) = Len(s) - 1
         /\ DOMAIN RemoveAt(s, k) = 1..(Len(s) - 1)
         /\ \A i \in DOMAIN RemoveAt(s, k) : RemoveAt(s, k)[i] = IF i < k THEN s[i] ELSE s[i + 1]
<1>1. Len(s) \in Nat /\ k \in 1..Len(s) /\ \A i \in 1..Len(s) : s[i] \in S
  BY LenProperties, ElementOfSeq
<1>. DEFINE u == SubSeq(s, 1, k - 1)
            v == SubSeq(s, k + 1, Len(s))
<1>2. u \in Seq(S) /\ Len(u) = k - 1 /\ \A i \in 1..(k - 1) : u[i] = s[i]
  BY <1>1, SubSeqProperties
<1>3. v \in Seq(S) /\ Len(v) = Len(s) - k /\ \A i \in 1..(Len(s) - k) : v[i] = s[k + i]
  BY <1>1, SubSeqProperties
<1>4. RemoveAt(s, k) = u \o v
  BY DEF RemoveAt
<1>. HIDE DEF u, v
<1>5. u \o v \in Seq(S) /\ Len(u \o v) = Len(s) - 1
  BY <1>1, <1>2, <1>3, ConcatProperties
<1>6. \A i \in 1..(Len(s) - 1) : (u \o v)[i] = IF i < k THEN s[i] ELSE s[i + 1]
  <2>. SUFFICES ASSUME NEW i \in 1..(Len(s) - 1)
                PROVE  (u \o v)[i] = IF i < k THEN s[i] ELSE s[i + 1]
    OBVIOUS
  <2>1. (u \o v)[i] = IF i <= Len(u) THEN u[i] ELSE v[i - Len(u)]
    BY <1>1, <1>2, <1>3, ConcatProperties, SMTT(30)
  <2>2. CASE i < k
    BY <1>1, <1>2, <2>1, <2>2
  <2>3. CASE ~(i < k)
    <3>1. i - (k - 1) \in 1..(Len(s) - k) /\ k + (i - (k - 1)) = i + 1 /\ ~(i <= Len(u))
      BY <1>1, <1>2, <2>3
    <3>2. v[i - (k - 1)] = s[i + 1]
      BY <1>3, <3>1
    <3>. QED BY <1>2, <2>1, <2>3, <3>1, <3>2
  <2>. QED BY <2>2, <2>3
<1>. QED BY <1>4, <1>5, <1>6, LenProperties

-----------------------------------------------------------------------------
(* The concatenation of a sequence of sequences                            *)

\* For i up to n, f[i] is the concatenation of the first i sequences of ss.
Sums(ss, n, f) ==
  /\ f[1] = ss[1]
  /\ \A i \in 2..n : f[i] = f[i - 1] \o ss[i]

\* There is such a function.
LEMMA SumsExist ==
  ASSUME NEW S, NEW ss \in Seq(Seq(S)), ss # <<>>
  PROVE  \E f \in [1..Len(ss) -> Seq(S)] : Sums(ss, Len(ss), f)
<1>. DEFINE P(n, f) == f \in [1..n -> Seq(S)] /\ Sums(ss, n, f)
            T == {n \in 1..Len(ss) : \E f : P(n, f)}
<1>1. Len(ss) \in Nat /\ 1 \in 1..Len(ss) /\ Len(ss) \in 1..Len(ss)
      /\ \A i \in 1..Len(ss) : ss[i] \in Seq(S)
  BY EmptySeq, ElementOfSeq
<1>. HIDE DEF P, Sums
<1>2. \E f : P(1, f)
  <2>. DEFINE g == [i \in 1..1 |-> ss[1]]
  <2>1. g \in [1..1 -> Seq(S)] /\ g[1] = ss[1] /\ \A i \in 2..1 : g[i] = g[i - 1] \o ss[i]
    BY <1>1
  <2>. HIDE DEF g
  <2>. QED BY <2>1 DEF P, Sums
<1>3. ASSUME NEW n \in 1..(Len(ss) - 1), NEW f, P(n, f) PROVE \E g : P(n + 1, g)
  <2>1. f \in [1..n -> Seq(S)] /\ f[1] = ss[1] /\ \A i \in 2..n : f[i] = f[i - 1] \o ss[i]
    BY <1>3 DEF P, Sums
  <2>n. n \in Nat /\ n \in 1..n /\ n + 1 \in 1..Len(ss) /\ (n + 1) - 1 = n
    BY <1>1
  <2>. DEFINE e == f[n] \o ss[n + 1]
              g == [i \in 1..(n + 1) |-> IF i <= n THEN f[i] ELSE e]
  <2>2. ss[n + 1] \in Seq(S) /\ f[n] \in Seq(S)
    BY <1>1, <2>1, <2>n
  <2>3. e \in Seq(S)
    BY <2>2, ConcatProperties
  <2>. HIDE DEF e
  <2>4. g \in [1..(n + 1) -> Seq(S)] /\ g[1] = ss[1] /\ g[n + 1] = e /\ \A i \in 1..n : g[i] = f[i]
    BY <2>1, <2>3, <2>n
  <2>. HIDE DEF g
  <2>5. ASSUME NEW i \in 2..n PROVE g[i] = g[i - 1] \o ss[i]
    <3>1. i - 1 \in 1..n /\ i \in 1..n
      OBVIOUS
    <3>. QED BY <2>1, <2>4, <3>1
  <2>6. g[n + 1] = g[(n + 1) - 1] \o ss[n + 1]
    BY <2>4, <2>n DEF e
  <2>7. \A i \in 2..(n + 1) : i \in 2..n \/ i = n + 1
    OBVIOUS
  <2>8. \A i \in 2..(n + 1) : g[i] = g[i - 1] \o ss[i]
    BY <2>5, <2>6, <2>7
  <2>. QED BY <2>4, <2>8 DEF P, Sums
<1>4. 1 \in T /\ \A n \in 1..(Len(ss) - 1) : n \in T => n + 1 \in T
  BY <1>1, <1>2, <1>3
<1>5. 1..Len(ss) \subseteq T
  <2>. HIDE DEF T
  <2>. QED BY <1>1, <1>4, UpTo
<1>6. \E f : P(Len(ss), f)
  BY <1>1, <1>5
<1>. QED BY <1>6 DEF P, Sums

\* There is only one.
LEMMA SumsAgree ==
  ASSUME NEW ss, NEW n \in Nat, NEW f, NEW g, Sums(ss, n, f), Sums(ss, n, g)
  PROVE  \A i \in 1..n : f[i] = g[i]
<1>. DEFINE T == {i \in Nat : f[i] = g[i]}
<1>1. 1 \in T
  BY DEF Sums
<1>2. ASSUME NEW i \in 1..(n - 1), i \in T PROVE i + 1 \in T
  <2>1. i + 1 \in 2..n /\ (i + 1) - 1 = i /\ i + 1 \in Nat
    OBVIOUS
  <2>2. f[i + 1] = f[i] \o ss[i + 1] /\ g[i + 1] = g[i] \o ss[i + 1]
    BY <2>1 DEF Sums
  <2>. QED BY <1>2, <2>1, <2>2
<1>. HIDE DEF T
<1>3. 1..n \subseteq T
  BY <1>1, <1>2, UpTo
<1>. QED BY <1>3 DEF T

\* FlattenSeq is the last of the sums.
LEMMA FlattenSums ==
  ASSUME NEW S, NEW ss \in Seq(Seq(S)), ss # <<>>
  PROVE  \E f \in [1..Len(ss) -> Seq(S)] : Sums(ss, Len(ss), f) /\ FlattenSeq(ss) = f[Len(ss)]
<1>1. Len(ss) \in Nat \ {0} /\ 1 \in 1..Len(ss) /\ Len(ss) \in 1..Len(ss)
  BY EmptySeq
<1>. DEFINE flatten[i \in 1..Len(ss)] == IF i = 1 THEN ss[i] ELSE flatten[i - 1] \o ss[i]
<1>2. FlattenSeq(ss) = flatten[Len(ss)]
  BY <1>1 DEF FlattenSeq
<1>3. PICK f \in [1..Len(ss) -> Seq(S)] : Sums(ss, Len(ss), f)
  BY SumsExist
<1>4. f = [i \in 1..Len(ss) |-> IF i = 1 THEN ss[i] ELSE f[i - 1] \o ss[i]]
  <2>1. ASSUME NEW i \in 1..Len(ss), i # 1 PROVE f[i] = f[i - 1] \o ss[i]
    <3>1. i \in 2..Len(ss)
      BY <1>1, <2>1
    <3>. QED BY <1>3, <3>1 DEF Sums
  <2>2. \A i \in 1..Len(ss) : f[i] = IF i = 1 THEN ss[i] ELSE f[i - 1] \o ss[i]
    BY <1>3, <2>1 DEF Sums
  <2>. QED BY <2>2
<1>5. flatten = [i \in 1..Len(ss) |-> IF i = 1 THEN ss[i] ELSE flatten[i - 1] \o ss[i]]
  BY <1>4, Zenon
<1>. HIDE DEF flatten
<1>6. Sums(ss, Len(ss), flatten)
  <2>1. flatten[1] = ss[1]
    BY <1>1, <1>5
  <2>2. ASSUME NEW i \in 2..Len(ss) PROVE flatten[i] = flatten[i - 1] \o ss[i]
    <3>1. i \in 1..Len(ss) /\ i # 1
      BY <1>1
    <3>. QED BY <1>5, <3>1
  <2>. QED BY <2>1, <2>2 DEF Sums
<1>8. \A i \in 1..Len(ss) : flatten[i] = f[i]
  BY <1>1, <1>3, <1>6, SumsAgree
<1>. QED BY <1>1, <1>2, <1>3, <1>8

\* The concatenation of none, and of one more.
LEMMA FlattenAppend ==
  ASSUME NEW S, NEW ss \in Seq(Seq(S))
  PROVE  /\ FlattenSeq(<<>>) = <<>>
         /\ FlattenSeq(ss) \in Seq(S)
         /\ \A s \in Seq(S) : FlattenSeq(Append(ss, s)) = FlattenSeq(ss) \o s
<1>1. FlattenSeq(<<>>) = <<>>
  BY EmptySeq DEF FlattenSeq
<1>2. FlattenSeq(ss) \in Seq(S)
  <2>1. CASE ss = <<>>
    BY <1>1, <2>1, EmptySeq
  <2>2. CASE ss # <<>>
    <3>1. Len(ss) \in 1..Len(ss)
      BY <2>2, EmptySeq
    <3>2. PICK f \in [1..Len(ss) -> Seq(S)] : FlattenSeq(ss) = f[Len(ss)]
      BY <2>2, FlattenSums
    <3>. QED BY <3>1, <3>2
  <2>. QED BY <2>1, <2>2
<1>3. ASSUME NEW s \in Seq(S) PROVE FlattenSeq(Append(ss, s)) = FlattenSeq(ss) \o s
  <2>. DEFINE tt == Append(ss, s)
  <2>1. /\ tt \in Seq(Seq(S)) /\ tt # <<>> /\ Len(tt) = Len(ss) + 1 /\ Len(ss) \in Nat
        /\ tt[Len(ss) + 1] = s /\ \A i \in 1..Len(ss) : tt[i] = ss[i]
    BY AppendProperties, LenProperties
  <2>. HIDE DEF tt
  <2>2. PICK g \in [1..Len(tt) -> Seq(S)] : Sums(tt, Len(tt), g) /\ FlattenSeq(tt) = g[Len(tt)]
    BY <2>1, FlattenSums
  <2>3. CASE ss = <<>>
    <3>1. Len(tt) = 1 /\ tt[1] = s
      BY <2>1, <2>3, EmptySeq
    <3>. QED BY <1>1, <2>2, <2>3, <3>1, ConcatEmptySeq DEF Sums, tt
  <2>4. CASE ss # <<>>
    <3>1. PICK f \in [1..Len(ss) -> Seq(S)] : Sums(ss, Len(ss), f) /\ FlattenSeq(ss) = f[Len(ss)]
      BY <2>4, FlattenSums
    <3>2. Len(ss) \in 1..Len(ss) /\ 1 \in 1..Len(ss) /\ Len(tt) \in 2..Len(tt) /\ Len(tt) - 1 = Len(ss)
      BY <2>1, <2>4, EmptySeq
    <3>3. ss[1] = tt[1] /\ \A i \in 2..Len(ss) : i \in 2..Len(tt) /\ ss[i] = tt[i]
      BY <2>1, <3>2
    <3>4. Sums(ss, Len(ss), g)
      BY <2>2, <3>3 DEF Sums
    <3>5. \A i \in 1..Len(ss) : f[i] = g[i]
      <4>1. Len(ss) \in Nat /\ Sums(ss, Len(ss), f)
        BY <2>1, <3>1
      <4>. QED BY <3>4, <4>1, SumsAgree
    <3>6. g[Len(tt)] = g[Len(ss)] \o s
      BY <2>1, <2>2, <3>2 DEF Sums
    <3>. QED BY <2>2, <3>1, <3>2, <3>5, <3>6 DEF tt
  <2>. QED BY <2>3, <2>4
<1>. QED BY <1>1, <1>2, <1>3

\* The first sequence is the beginning of the concatenation.
LEMMA FlattenHead ==
  ASSUME NEW S, NEW ss \in Seq(Seq(S)), ss # <<>>
  PROVE  FlattenSeq(ss) = Head(ss) \o FlattenSeq(Tail(ss))
<1>. DEFINE h == Head(ss)
            tt == Tail(ss)
            n == Len(tt)
<1>1. /\ h \in Seq(S) /\ tt \in Seq(Seq(S)) /\ n \in Nat /\ Len(ss) = n + 1 /\ h = ss[1]
      /\ \A i \in 1..n : tt[i] = ss[i + 1] /\ tt[i] \in Seq(S)
  BY HeadTailProperties, EmptySeq, ElementOfSeq
<1>2. PICK f \in [1..Len(ss) -> Seq(S)] : Sums(ss, Len(ss), f) /\ FlattenSeq(ss) = f[Len(ss)]
  BY FlattenSums
<1>. HIDE DEF h, tt, n
<1>3. CASE tt = <<>>
  <2>1. Len(ss) = 1
    BY <1>1, <1>3, EmptySeq DEF n
  <2>2. FlattenSeq(tt) = <<>> /\ h \o <<>> = h
    BY <1>1, <1>3, FlattenAppend, ConcatEmptySeq
  <2>3. FlattenSeq(ss) = h
    BY <1>1, <1>2, <2>1 DEF Sums
  <2>. QED BY <2>2, <2>3 DEF h, tt
<1>4. CASE tt # <<>>
  <2>1. PICK g \in [1..n -> Seq(S)] : Sums(tt, Len(tt), g) /\ FlattenSeq(tt) = g[n]
    BY <1>1, <1>4, FlattenSums DEF n
  <2>2. 1 \in 1..n /\ n \in 1..n
    BY <1>1, <1>4, EmptySeq DEF n
  <2>. DEFINE T == {i \in 1..n : f[i + 1] = h \o g[i]}
  <2>3. 1 \in T
    <3>1. 2 \in 2..Len(ss) /\ 2 - 1 = 1 /\ 1 + 1 = 2
      BY <1>1, <2>2
    <3>2. f[2] = f[2 - 1] \o ss[2] /\ f[1] = ss[1]
      BY <1>2, <3>1 DEF Sums
    <3>3. g[1] = ss[2]
      BY <1>1, <2>1, <2>2, <3>1 DEF Sums
    <3>4. f[1 + 1] = h \o g[1]
      BY <1>1, <3>1, <3>2, <3>3
    <3>. QED BY <2>2, <3>4
  <2>4. ASSUME NEW i \in 1..(n - 1), i \in T PROVE i + 1 \in T
    <3>1. (i + 1) + 1 \in 2..Len(ss) /\ ((i + 1) + 1) - 1 = i + 1 /\ i + 1 \in 2..n /\ (i + 1) - 1 = i
      BY <1>1
    <3>2. i + 1 \in 1..n /\ i \in 1..n
      BY <1>1
    <3>3. f[(i + 1) + 1] = f[i + 1] \o ss[(i + 1) + 1]
      BY <1>2, <3>1 DEF Sums
    <3>4. g[i + 1] = g[i] \o tt[i + 1] /\ tt[i + 1] = ss[(i + 1) + 1]
      BY <1>1, <2>1, <3>1, <3>2 DEF Sums, n
    <3>5. f[i + 1] = h \o g[i]
      BY <2>4
    <3>6. h \in Seq(S) /\ g[i] \in Seq(S) /\ tt[i + 1] \in Seq(S)
      BY <1>1, <2>1, <3>2
    <3>7. f[i + 1] \o tt[i + 1] = h \o g[i + 1]
      <4>. DEFINE p == g[i]  q == tt[i + 1]  v == f[i + 1]  w == g[i + 1]
      <4>1. p \in Seq(S) /\ q \in Seq(S) /\ h \in Seq(S) /\ v = h \o p /\ w = p \o q
        BY <3>4, <3>5, <3>6
      <4>. HIDE DEF p, q, v, w
      <4>2. v \o q = h \o w
        BY <4>1, Associative, SMTT(30)
      <4>. QED BY <4>2 DEF p, q, v, w
    <3>. QED BY <3>2, <3>3, <3>4, <3>5, <3>7
  <2>5. 1..n \subseteq T
    <3>. HIDE DEF T
    <3>. QED BY <1>1, <2>3, <2>4, UpTo
  <2>6. f[n + 1] = h \o g[n]
    BY <2>2, <2>5
  <2>. QED BY <1>1, <1>2, <2>1, <2>6 DEF h, tt
<1>. QED BY <1>3, <1>4

=============================================================================
