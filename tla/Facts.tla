-------------------------------- MODULE Facts --------------------------------
(***************************************************************************)
(* Facts about least elements, induction, sequences and remainders that    *)
(* the proofs of several modules need.                                     *)
(***************************************************************************)
EXTENDS Integers, Sequences, SequencesExt, TLAPS, FiniteSetTheorems, WellFoundedInduction

\* The least element of a set of numbers is one of its elements: the one with
\* the smallest set of numbers below it.
LEMMA MinElement ==
  ASSUME NEW S \in SUBSET Nat, S # {}
  PROVE  Min(S) \in S /\ \A y \in S : Min(S) <= y
<1> PICK m \in S : TRUE
  OBVIOUS
<1> DEFINE R == StrictSubsetOrdering(0 .. m)
           Below(x) == {y \in 0 .. m : y < x}
           T == {Below(x) : x \in S \cap 0 .. m}
<1>1. IsWellFoundedOn(R, FiniteSubsetsOf(0 .. m))
  BY FS_StrictSubsetOrderingWellFounded
<1>2. IsFiniteSet(0 .. m)
  BY FS_Interval
<1>3. T \subseteq FiniteSubsetsOf(0 .. m) /\ T # {}
  <2>1. T \subseteq SUBSET (0 .. m)
    OBVIOUS
  <2>2. Below(m) \in T
    OBVIOUS
  <2> QED  BY <1>2, <2>1, <2>2, FS_FiniteSubsetsOfFinite
<1> HIDE DEF R, T
<1>4. PICK B \in T : \A C \in T : ~ (<<C, B>> \in R)
  BY <1>1, <1>3, WFMin
<1> USE DEF R, T
<1>5. PICK x \in S \cap 0 .. m : B = Below(x)
  BY <1>4
<1>6. ASSUME NEW y \in S, y < x
      PROVE  FALSE
  <2>1. y \in S \cap 0 .. m /\ Below(y) \in T
    BY <1>5, <1>6
  <2>2. Below(y) \subseteq Below(x) /\ y \in Below(x) /\ y \notin Below(y)
    BY <1>6, <2>1
  <2>3. <<Below(y), B>> \in R
    BY <1>3, <1>5, <2>1, <2>2 DEF StrictSubsetOrdering
  <2> QED  BY <1>4, <2>1, <2>3
<1>7. \A y \in S : x <= y
  BY <1>6
<1>8. Min(S) = CHOOSE z \in S : \A y \in S : z <= y
  BY DEF Min
<1> QED  BY <1>7, <1>8

\* Induction over the numbers, for a set of them.
LEMMA NatSetInduction ==
  ASSUME NEW S \in SUBSET Nat, 0 \in S, \A n \in S : n + 1 \in S
  PROVE  S = Nat
<1> SUFFICES ASSUME Nat \ S # {}
             PROVE  FALSE
  OBVIOUS
<1> DEFINE m == Min(Nat \ S)
<1>1. m \in Nat \ S /\ \A y \in Nat \ S : m <= y
  BY MinElement
<1> HIDE DEF m
<1>2. m - 1 \in Nat /\ m - 1 \in S
  BY <1>1
<1> QED  BY <1>1, <1>2

\* The results of the first n applications of a function.
Iterates(f, X, x, s, n) ==
    f \in [0 .. n -> X] /\ f[0] = x /\ \A i \in 1 .. n : f[i] = s[f[i - 1]]

\* A function can be iterated.
LEMMA IterationExists ==
  ASSUME NEW X, NEW x \in X, NEW s \in [X -> X], NEW n \in Nat
  PROVE  \E f : Iterates(f, X, x, s, n)
<1> DEFINE Def(f, m) == f[0] = x /\ \A i \in 1 .. m : f[i] = s[f[i - 1]]
           G == {m \in Nat : \E f \in [0 .. m -> X] : Def(f, m)}
<1>1. 0 \in G
  <2>1. [i \in 0 .. 0 |-> x] \in [0 .. 0 -> X] /\ Def([i \in 0 .. 0 |-> x], 0)
    OBVIOUS
  <2> QED  BY <2>1
<1>2. ASSUME NEW m \in G
      PROVE  m + 1 \in G
  <2>1. m \in Nat
    OBVIOUS
  <2>2. PICK f \in [0 .. m -> X] : Def(f, m)
    OBVIOUS
  <2> DEFINE g == [i \in 0 .. m + 1 |-> IF i = m + 1 THEN s[f[m]] ELSE f[i]]
  <2>3. f[m] \in X /\ s[f[m]] \in X
    BY <2>1
  <2>4. /\ g \in [0 .. m + 1 -> X] /\ g[m + 1] = s[f[m]]
        /\ \A i \in 0 .. m : g[i] = f[i]
    BY <2>1, <2>3
  <2> HIDE DEF g
  <2>5. g[0] = x
    BY <2>1, <2>2, <2>4
  <2>6. ASSUME NEW i \in 1 .. m + 1
        PROVE  g[i] = s[g[i - 1]]
    <3>1. i - 1 \in 0 .. m /\ g[i - 1] = f[i - 1]
      BY <2>1, <2>4
    <3>2. CASE i = m + 1
      BY <2>1, <2>4, <3>1, <3>2
    <3>3. CASE i # m + 1
      <4>1. i \in 1 .. m /\ i \in 0 .. m
        BY <2>1, <3>3
      <4> QED  BY <2>2, <2>4, <3>1, <4>1
    <3> QED  BY <3>2, <3>3
  <2>7. m + 1 \in Nat /\ Def(g, m + 1)
    BY <2>1, <2>5, <2>6
  <2> QED  BY <2>4, <2>7
<1> HIDE DEF G
<1>3. G = Nat
  <2>1. G \in SUBSET Nat
    BY DEF G
  <2> QED  BY <1>1, <1>2, <2>1, NatSetInduction
<1> QED  BY <1>3 DEF G, Iterates

\* Among things with a number, and a second number to decide between equals,
\* one comes first.
LEMMA LeastOf ==
  ASSUME NEW L, L # {}, NEW f \in [L -> Nat], NEW g \in [L -> Nat]
  PROVE  \E l \in L : \A m \in L : f[l] < f[m] \/ (f[l] = f[m] /\ g[l] <= g[m])
<1> DEFINE T == {f[l] : l \in L}
           t == Min(T)
           U == {g[l] : l \in {m \in L : f[m] = t}}
           u == Min(U)
<1>1. t \in T /\ \A l \in L : t <= f[l]
  <2>1. T \in SUBSET Nat /\ T # {}
    OBVIOUS
  <2>2. t \in T /\ \A y \in T : t <= y
    <3> HIDE DEF T
    <3> QED  BY <2>1, MinElement
  <2> HIDE DEF t
  <2> QED  BY <2>2
<1> HIDE DEF t
<1>2. u \in U /\ \A l \in L : f[l] = t => u <= g[l]
  <2>1. U \in SUBSET Nat /\ U # {}
    BY <1>1
  <2>2. u \in U /\ \A y \in U : u <= y
    <3> HIDE DEF U
    <3> QED  BY <2>1, MinElement
  <2> HIDE DEF u
  <2> QED  BY <2>2
<1> HIDE DEF u
<1>3. PICK l \in L : f[l] = t /\ g[l] = u
  BY <1>2
<1>4. \A m \in L : f[l] \in Nat /\ f[m] \in Nat /\ g[l] \in Nat /\ g[m] \in Nat
  OBVIOUS
<1> QED  BY <1>1, <1>2, <1>3, <1>4

\* The index of an element that occurs in a sequence once.
LEMMA IndexUnique ==
  ASSUME NEW s, NEW e, IsInjective(s), DOMAIN s = 1 .. Len(s), Len(s) \in Nat,
         SelectInSeq(s, LAMBDA m : m = e) # 0
  PROVE  /\ SelectInSeq(s, LAMBDA m : m = e) \in 1 .. Len(s)
         /\ s[SelectInSeq(s, LAMBDA m : m = e)] = e
<1> DEFINE I == {i \in 1 .. Len(s) : s[i] = e}
<1>1. SelectInSeq(s, LAMBDA m : m = e) = IF I # {} THEN Min(I) ELSE 0
  BY DEF SelectInSeq
<1>2. PICK i \in 1 .. Len(s) : s[i] = e
  BY <1>1
<1>3. I = {i}
  BY <1>2 DEF IsInjective
<1>4. Min({i}) = i
  BY DEF Min
<1> QED  BY <1>1, <1>2, <1>3, <1>4

\* Bounded sequences.
LEMMA BoundedSeqType ==
  ASSUME NEW S, NEW n \in Nat, NEW s
  PROVE  s \in BoundedSeq(S, n) <=> s \in Seq(S) /\ Len(s) <= n
<1>1. s \in BoundedSeq(S, n) <=> \E m \in 0 .. n : s \in [1 .. m -> S]
  BY DEF BoundedSeq, SeqOf
<1>2. ASSUME NEW m \in 0 .. n, s \in [1 .. m -> S]
      PROVE  s \in Seq(S) /\ Len(s) <= n
  BY <1>2
<1>3. ASSUME s \in Seq(S), Len(s) <= n
      PROVE  \E m \in 0 .. n : s \in [1 .. m -> S]
  <2>1. Len(s) \in 0 .. n /\ s \in [1 .. Len(s) -> S]
    BY <1>3
  <2> QED  BY <2>1
<1> QED  BY <1>1, <1>2, <1>3

\* An element that a sequence does not have is appended.
LEMMA AppendFacts ==
  ASSUME NEW S, NEW s \in Seq(S), NEW e \in S
  PROVE  /\ Append(s, e) \in Seq(S) /\ Len(Append(s, e)) = Len(s) + 1
         /\ ToSet(Append(s, e)) = ToSet(s) \cup {e}
         /\ IsInjective(s) /\ e \notin ToSet(s) => IsInjective(Append(s, e))
<1> DEFINE t == Append(s, e)
<1>1. /\ t \in Seq(S) /\ Len(t) = Len(s) + 1
      /\ DOMAIN s = 1 .. Len(s) /\ DOMAIN t = 1 .. Len(s) + 1
      /\ \A i \in 1 .. Len(s) : t[i] = s[i]
      /\ t[Len(s) + 1] = e /\ Len(s) \in Nat
  OBVIOUS
<1> HIDE DEF t
<1>2. ToSet(t) = ToSet(s) \cup {e}
  <2>1. \A i \in DOMAIN t : t[i] \in ToSet(s) \cup {e}
    BY <1>1 DEF ToSet
  <2>2. \A i \in DOMAIN s : s[i] \in ToSet(t)
    BY <1>1 DEF ToSet
  <2>3. e \in ToSet(t)
    BY <1>1 DEF ToSet
  <2> QED  BY <2>1, <2>2, <2>3 DEF ToSet
<1>3. ASSUME IsInjective(s), e \notin ToSet(s)
      PROVE  IsInjective(t)
  BY <1>1, <1>3 DEF ToSet, IsInjective
<1> QED  BY <1>1, <1>2, <1>3 DEF t

\* The first element of a sequence and the others.
LEMMA TailFacts ==
  ASSUME NEW S, NEW s \in Seq(S), s # << >>
  PROVE  /\ Head(s) \in S /\ Head(s) \in ToSet(s)
         /\ Tail(s) \in Seq(S) /\ Len(s) \in Nat \ {0} /\ Len(Tail(s)) = Len(s) - 1
         /\ ToSet(s) = ToSet(Tail(s)) \cup {Head(s)}
         /\ IsInjective(s) => IsInjective(Tail(s)) /\ Head(s) \notin ToSet(Tail(s))
<1> DEFINE t == Tail(s)
<1>1. /\ t \in Seq(S) /\ Len(t) = Len(s) - 1 /\ Len(s) \in Nat \ {0}
      /\ DOMAIN s = 1 .. Len(s) /\ DOMAIN t = 1 .. Len(s) - 1
      /\ \A i \in 1 .. Len(s) - 1 : t[i] = s[i + 1]
      /\ Head(s) = s[1] /\ s[1] \in S
  OBVIOUS
<1> HIDE DEF t
<1>2. ToSet(s) = ToSet(t) \cup {Head(s)}
  <2>1. \A i \in DOMAIN t : t[i] \in ToSet(s)
    BY <1>1 DEF ToSet
  <2>2. \A i \in DOMAIN s : i = 1 \/ (i - 1 \in DOMAIN t /\ t[i - 1] = s[i])
    BY <1>1
  <2>3. \A i \in DOMAIN s : s[i] \in ToSet(t) \cup {Head(s)}
    BY <1>1, <2>2 DEF ToSet
  <2>4. Head(s) \in ToSet(s)
    BY <1>1 DEF ToSet
  <2> QED  BY <2>1, <2>3, <2>4 DEF ToSet
<1>3. ASSUME IsInjective(s)
      PROVE  IsInjective(t) /\ Head(s) \notin ToSet(t)
  <2>1. \A i \in DOMAIN t : i + 1 \in DOMAIN s /\ i + 1 # 1 /\ t[i] = s[i + 1]
    BY <1>1
  <2>2. Head(s) \notin ToSet(t)
    BY <1>1, <1>3, <2>1 DEF ToSet, IsInjective
  <2>3. IsInjective(t)
    BY <1>1, <1>3, <2>1 DEF IsInjective
  <2> QED  BY <2>2, <2>3
<1> QED  BY <1>1, <1>2, <1>3 DEF t, ToSet

\* The elements of two sequences one after the other.
LEMMA ConcatFacts ==
  ASSUME NEW S, NEW a \in Seq(S), NEW b \in Seq(S)
  PROVE  /\ a \o b \in Seq(S) /\ Len(a \o b) = Len(a) + Len(b)
         /\ \A i \in 1 .. Len(a) + Len(b) :
              (a \o b)[i] = IF i <= Len(a) THEN a[i] ELSE b[i - Len(a)]
  OBVIOUS

\* One element is taken out of a sequence.
LEMMA RemoveAtFacts ==
  ASSUME NEW S, NEW s \in Seq(S), NEW k \in 1 .. Len(s)
  PROVE  /\ RemoveAt(s, k) \in Seq(S) /\ Len(RemoveAt(s, k)) = Len(s) - 1
         /\ \A i \in 1 .. Len(s) - 1 : RemoveAt(s, k)[i] = s[IF i < k THEN i ELSE i + 1]
         /\ IsInjective(s) => /\ IsInjective(RemoveAt(s, k))
                              /\ ToSet(RemoveAt(s, k)) = ToSet(s) \ {s[k]}
<1> DEFINE a == SubSeq(s, 1, k - 1)
           b == SubSeq(s, k + 1, Len(s))
           t == RemoveAt(s, k)
<1>1. /\ Len(s) \in Nat /\ DOMAIN s = 1 .. Len(s)
      /\ a \in Seq(S) /\ Len(a) = k - 1 /\ b \in Seq(S) /\ Len(b) = Len(s) - k
      /\ \A i \in 1 .. k - 1 : a[i] = s[i]
      /\ \A i \in 1 .. Len(s) - k : b[i] = s[k + i]
  OBVIOUS
<1>2. t = a \o b
  BY DEF RemoveAt
<1> HIDE DEF a, b, t
<1>3. /\ t \in Seq(S) /\ Len(t) = Len(s) - 1 /\ DOMAIN t = 1 .. Len(s) - 1
      /\ \A i \in 1 .. k - 1 : t[i] = a[i]
      /\ \A i \in k .. Len(s) - 1 : t[i] = b[i - (k - 1)]
  <2>1. /\ t \in Seq(S) /\ Len(t) = Len(a) + Len(b)
        /\ \A i \in 1 .. Len(a) + Len(b) :
             t[i] = IF i <= Len(a) THEN a[i] ELSE b[i - Len(a)]
    <3>1. a \in Seq(S) /\ b \in Seq(S)
      BY <1>1
    <3> QED  BY <1>2, <3>1, ConcatFacts
  <2>2. Len(t) = Len(s) - 1 /\ DOMAIN t = 1 .. Len(s) - 1
    BY <1>1, <2>1
  <2>3. \A i \in 1 .. k - 1 : i \in 1 .. Len(a) + Len(b) /\ i <= Len(a)
    BY <1>1
  <2>4. \A i \in k .. Len(s) - 1 : i \in 1 .. Len(a) + Len(b) /\ ~ (i <= Len(a)) /\ Len(a) = k - 1
    BY <1>1
  <2> QED  BY <2>1, <2>2, <2>3, <2>4
<1>4. \A i \in DOMAIN t : t[i] = s[IF i < k THEN i ELSE i + 1]
  <2> SUFFICES ASSUME NEW i \in DOMAIN t
               PROVE  t[i] = s[IF i < k THEN i ELSE i + 1]
    OBVIOUS
  <2>1. CASE i < k
    <3>1. i \in 1 .. k - 1
      BY <1>3, <2>1
    <3> QED  BY <1>1, <1>3, <2>1, <3>1
  <2>2. CASE i >= k
    <3>1. i \in k .. Len(s) - 1 /\ i - (k - 1) \in 1 .. Len(s) - k /\ k + (i - (k - 1)) = i + 1
      BY <1>1, <1>3, <2>2
    <3>2. b[i - (k - 1)] = s[k + (i - (k - 1))]
      BY <1>1, <3>1
    <3>3. t[i] = b[i - (k - 1)]
      BY <1>3, <3>1
    <3> QED  BY <2>2, <3>1, <3>2, <3>3
  <2> QED  BY <1>3, <2>1, <2>2
<1>5. ASSUME IsInjective(s)
      PROVE  IsInjective(t) /\ ToSet(t) = ToSet(s) \ {s[k]}
  <2> DEFINE up(i) == IF i < k THEN i ELSE i + 1
  <2>1. \A i \in DOMAIN t : up(i) \in DOMAIN s \ {k}
    BY <1>1, <1>3
  <2>2. \A i, j \in DOMAIN t : up(i) = up(j) => i = j
    BY <1>1, <1>3
  <2>3. IsInjective(t)
    BY <1>4, <1>5, <2>1, <2>2 DEF IsInjective
  <2>4. \A i \in DOMAIN t : t[i] \in ToSet(s) \ {s[k]}
    BY <1>4, <1>5, <2>1 DEF IsInjective, ToSet
  <2>5. \A j \in DOMAIN s \ {k} : \E i \in DOMAIN t : up(i) = j
    <3> SUFFICES ASSUME NEW j \in DOMAIN s \ {k}
                 PROVE  \E i \in DOMAIN t : up(i) = j
      OBVIOUS
    <3>1. CASE j < k
      <4>1. j \in DOMAIN t /\ up(j) = j
        BY <1>1, <1>3, <3>1
      <4> QED  BY <4>1
    <3>2. CASE j > k
      <4>1. j - 1 \in DOMAIN t /\ up(j - 1) = j
        BY <1>1, <1>3, <3>2
      <4> QED  BY <4>1
    <3> QED  BY <1>1, <3>1, <3>2
  <2>6. \A j \in DOMAIN s : s[j] # s[k] => s[j] \in ToSet(t)
    BY <1>4, <2>5 DEF ToSet
  <2> QED  BY <2>3, <2>4, <2>6 DEF ToSet
<1> QED  BY <1>3, <1>4, <1>5 DEF t

(***************************************************************************)
(* Quotients and remainders.                                               *)
(***************************************************************************)

\* Quotient and remainder.
LEMMA ModRange ==
  ASSUME NEW n \in Int, NEW d \in Nat \ {0}
  PROVE  n % d \in 0 .. d - 1 /\ n \div d \in Int /\ n = d * (n \div d) + (n % d)
  OBVIOUS

\* A multiple that is less than the number itself is none.
LEMMA SmallMultiple ==
  ASSUME NEW d \in Nat \ {0}, NEW k \in Int, d * k < d, 0 - d < d * k
  PROVE  k = 0
  OBVIOUS

\* There is only one quotient and one remainder.
LEMMA ModUnique ==
  ASSUME NEW n \in Int, NEW d \in Nat \ {0}, NEW q \in Int, NEW r \in 0 .. d - 1, n = d * q + r
  PROVE  n % d = r /\ n \div d = q
<1> DEFINE qq == n \div d
           rr == n % d
<1>1. rr \in 0 .. d - 1 /\ qq \in Int /\ n = d * qq + rr
  BY ModRange
<1> HIDE DEF qq, rr
<1>2. d * (qq - q) = r - rr
  BY <1>1
<1>3. qq - q = 0
  <2>1. qq - q \in Int /\ d * (qq - q) < d /\ 0 - d < d * (qq - q)
    BY <1>1, <1>2
  <2> QED  BY <2>1, SmallMultiple
<1> QED  BY <1>1, <1>2, <1>3 DEF qq, rr

\* A multiple of the divisor does not change the remainder.
LEMMA ModMultiple ==
  ASSUME NEW n \in Int, NEW d \in Nat \ {0}, NEW k \in Int
  PROVE  (n + d * k) % d = n % d
<1>1. n % d \in 0 .. d - 1 /\ n \div d \in Int /\ n = d * (n \div d) + (n % d)
  BY ModRange
<1>2. PICK q \in Int : q = n \div d
  BY <1>1
<1>3. PICK r \in 0 .. d - 1 : r = n % d
  BY <1>1
<1>4. n + d * k = d * (q + k) + r /\ q + k \in Int /\ n + d * k \in Int
  BY <1>1, <1>2, <1>3
<1> QED  BY <1>3, <1>4, ModUnique

\* A counter that wraps at a multiple of the divisor has the same remainders.
LEMMA ModOfMod ==
  ASSUME NEW n \in Int, NEW m \in Nat \ {0}, NEW d \in Nat \ {0}, m % d = 0
  PROVE  (n % m) % d = n % d
<1>1. n % m \in Int /\ n \div m \in Int /\ n = m * (n \div m) + (n % m)
  BY ModRange
<1>2. m \div d \in Int /\ m = d * (m \div d)
  BY ModRange
<1>3. PICK q \in Int : q = n \div m
  BY <1>1
<1>4. PICK e \in Int : e = m \div d
  BY <1>2
<1>5. PICK r \in Int : r = n % m
  BY <1>1
<1>6. n = r + d * (e * q) /\ e * q \in Int
  <2>1. n = m * q + r /\ m = d * e
    BY <1>1, <1>2, <1>3, <1>4, <1>5
  <2>2. (d * e) * q = d * (e * q) /\ e * q \in Int
    OBVIOUS
  <2> QED  BY <2>1, <2>2
<1>7. PICK k \in Int : k = e * q
  BY <1>6
<1>8. (r + d * k) % d = r % d
  BY ModMultiple
<1> QED  BY <1>5, <1>6, <1>7, <1>8

\* The remainder of a sum.
LEMMA ModAdd ==
  ASSUME NEW a \in Int, NEW b \in Int, NEW d \in Nat \ {0}
  PROVE  ((a % d) + b) % d = (a + b) % d
<1>1. a % d \in Int /\ a \div d \in Int /\ a = d * (a \div d) + (a % d)
  BY ModRange
<1>2. PICK q \in Int : q = a \div d
  BY <1>1
<1>3. PICK r \in Int : r = a % d
  BY <1>1
<1>4. a + b = (r + b) + d * q
  BY <1>1, <1>2, <1>3
<1>5. PICK c \in Int : c = r + b
  OBVIOUS
<1>6. (c + d * q) % d = c % d
  BY ModMultiple
<1> QED  BY <1>3, <1>4, <1>5, <1>6

\* The remainder of the next number.
LEMMA ModNext ==
  ASSUME NEW n \in Int, NEW d \in Nat \ {0}
  PROVE  (n + 1) % d = IF n % d = d - 1 THEN 0 ELSE (n % d) + 1
<1>1. PICK q \in Int : q = n \div d
  BY ModRange
<1>2. PICK r \in 0 .. d - 1 : r = n % d
  BY ModRange
<1>3. n = d * q + r
  BY <1>1, <1>2, ModRange
<1>4. CASE r = d - 1
  <2>1. n + 1 = d * (q + 1) + 0 /\ q + 1 \in Int /\ 0 \in 0 .. d - 1 /\ n + 1 \in Int
    BY <1>3, <1>4
  <2> QED  BY <1>2, <1>4, <2>1, ModUnique
<1>5. CASE r # d - 1
  <2>1. n + 1 = d * q + (r + 1) /\ r + 1 \in 0 .. d - 1 /\ n + 1 \in Int
    BY <1>3, <1>5
  <2> QED  BY <1>2, <1>5, <2>1, ModUnique
<1> QED  BY <1>4, <1>5

\* Small numbers are their own remainders.
LEMMA ModSmall ==
  ASSUME NEW d \in Nat \ {0}, NEW n \in 0 .. d - 1
  PROVE  n % d = n
OBVIOUS

\* A quotient lies between zero and the number that is divided.
LEMMA QuotientRange ==
  ASSUME NEW n \in Nat, NEW d \in Nat \ {0}
  PROVE  n \div d \in 0 .. n
<1>1. n % d \in 0 .. d - 1 /\ n \div d \in Int /\ n = d * (n \div d) + (n % d)
  BY ModRange
<1>2. PICK q \in Int : q = n \div d
  BY <1>1
<1>3. PICK r \in 0 .. d - 1 : r = n % d
  BY <1>1
<1>4. n = d * q + r
  BY <1>1, <1>2, <1>3
<1>5. q >= 0
  <2>1. SUFFICES ASSUME q <= 0 - 1 PROVE FALSE
    BY <1>2
  <2>2. d * q <= d * (0 - 1)
    BY <2>1
  <2> QED  BY <1>3, <1>4, <2>2
<1>6. q <= n
  <2>1. q <= d * q
    BY <1>5
  <2> QED  BY <1>3, <1>4, <2>1
<1> QED  BY <1>2, <1>5, <1>6

\* The remainder of a product of two divisors, digit by digit.
LEMMA ModDigit ==
  ASSUME NEW y \in Nat, NEW b \in Nat \ {0}, NEW c \in Nat \ {0}
  PROVE  ((y \div b) % c) * b + (y % b) = y % (c * b)
<1>1. PICK q \in Int : q = y \div b
  BY ModRange
<1>2. PICK r \in 0 .. b - 1 : r = y % b
  BY ModRange
<1>3. y = b * q + r
  BY <1>1, <1>2, ModRange
<1>4. PICK u \in Int : u = q \div c
  BY ModRange
<1>5. PICK v \in 0 .. c - 1 : v = q % c
  BY ModRange
<1>6. q = c * u + v
  BY <1>4, <1>5, ModRange
<1>7. y = (c * b) * u + (v * b + r)
  <2>1. b * (c * u + v) = (c * b) * u + v * b
    OBVIOUS
  <2> QED  BY <1>3, <1>6, <2>1
<1>8. v * b + r \in 0 .. (c * b) - 1
  <2>1. v * b <= (c - 1) * b /\ (c - 1) * b = c * b - b /\ v * b \in Nat
    BY <1>5
  <2>2. c * b \in Nat /\ v * b + r \in Nat
    BY <2>1, <1>2
  <2> QED  BY <1>2, <2>1, <2>2
<1>9. PICK m \in Nat \ {0} : m = c * b
  OBVIOUS
<1>10. PICK w \in 0 .. m - 1 : w = v * b + r
  BY <1>8, <1>9
<1>11. y = m * u + w
  BY <1>7, <1>9, <1>10
<1>12. y % m = w
  BY <1>11, ModUnique
<1> QED  BY <1>1, <1>2, <1>5, <1>9, <1>10, <1>12

\* A factor of number and divisor is one of the remainder.
LEMMA ModScale ==
  ASSUME NEW p \in Int, NEW c \in Nat \ {0}, NEW k \in Nat \ {0}
  PROVE  (p % c) * k = (p * k) % (c * k)
<1>1. PICK q \in Int : q = p \div c
  BY ModRange
<1>2. PICK r \in 0 .. c - 1 : r = p % c
  BY ModRange
<1>3. p = c * q + r
  BY <1>1, <1>2, ModRange
<1>4. p * k = (c * k) * q + r * k
  BY <1>3
<1>5. r * k \in 0 .. (c * k) - 1
  <2>1. r * k <= (c - 1) * k /\ (c - 1) * k = c * k - k /\ r * k \in Nat
    BY <1>2
  <2> QED  BY <2>1
<1>6. PICK m \in Nat \ {0} : m = c * k
  OBVIOUS
<1>7. PICK w \in 0 .. m - 1 : w = r * k
  BY <1>5, <1>6
<1>8. PICK z \in Int : z = p * k
  OBVIOUS
<1>9. z = m * q + w
  BY <1>4, <1>6, <1>7, <1>8
<1>10. z % m = w
  BY <1>9, ModUnique
<1> QED  BY <1>2, <1>6, <1>7, <1>8, <1>10
=============================================================================
