--------------------------- MODULE SequenceLemmas ---------------------------
(***************************************************************************)
(* Facts about sequences, in the form the proofs about sircond need them:  *)
(* removing and appending elements, folds and FlattenSeq by induction over *)
(* their length, prefixes and suffixes, sequences of a few elements.       *)
(***************************************************************************)
EXTENDS Integers, SequencesExt, SequenceTheorems, WellFoundedInduction, TLAPS

\* No element occurs twice.
Distinct(s) == \A j, k \in 1 .. Len(s) : s[j] = s[k] => j = k

LEMMA ConcatFacts ==
    ASSUME NEW S, NEW s \in Seq(S), NEW t \in Seq(S)
    PROVE  /\ s \o t \in Seq(S)
           /\ Len(s \o t) = Len(s) + Len(t)
           /\ \A j \in 1 .. Len(s) + Len(t) :
                (s \o t)[j] = IF j <= Len(s) THEN s[j] ELSE t[j - Len(s)]
BY ConcatProperties

LEMMA Concats ==
    ASSUME NEW S, NEW s \in Seq(S), NEW t \in Seq(S), NEW u \in Seq(S),
           NEW x, x = s \o (t \o u), NEW y, y = s \o t
    PROVE  x = y \o u
BY ConcatAssociative, SMTT(30)

LEMMA FunctionSeq ==
    ASSUME NEW S, NEW n, n \in Nat, NEW f, f \in [1 .. n -> S]
    PROVE  f \in Seq(S) /\ Len(f) = n /\ DOMAIN f = 1 .. n
OBVIOUS

LEMMA RemoveAtFacts ==
    ASSUME NEW S, NEW s \in Seq(S), NEW n \in 1 .. Len(s)
    PROVE  /\ RemoveAt(s, n) \in Seq(S)
           /\ Len(RemoveAt(s, n)) = Len(s) - 1
           /\ \A j \in 1 .. Len(s) - 1 :
                RemoveAt(s, n)[j] = IF j < n THEN s[j] ELSE s[j + 1]
<1>1. /\ Len(s) \in Nat /\ n \in Nat
      /\ SubSeq(s, 1, n - 1) \in Seq(S)
      /\ Len(SubSeq(s, 1, n - 1)) = n - 1
      /\ \A j \in 1 .. n - 1 : SubSeq(s, 1, n - 1)[j] = s[j]
  BY SubSeqProperties
<1>2. /\ SubSeq(s, n + 1, Len(s)) \in Seq(S)
      /\ Len(SubSeq(s, n + 1, Len(s))) = Len(s) - n
      /\ \A j \in 1 .. Len(s) - n : SubSeq(s, n + 1, Len(s))[j] = s[n + j]
  BY SubSeqProperties
<1>3. PICK a : a = SubSeq(s, 1, n - 1)
  OBVIOUS
<1>4. PICK b : b = SubSeq(s, n + 1, Len(s))
  OBVIOUS
<1>5. a \in Seq(S) /\ Len(a) = n - 1 /\ \A j \in 1 .. n - 1 : a[j] = s[j]
  BY <1>1, <1>3
<1>6. b \in Seq(S) /\ Len(b) = Len(s) - n /\ \A j \in 1 .. Len(s) - n : b[j] = s[n + j]
  BY <1>2, <1>4
<1>7. PICK r : r = a \o b
  OBVIOUS
<1>8. /\ r \in Seq(S)
      /\ Len(r) = Len(a) + Len(b)
      /\ \A j \in 1 .. Len(a) + Len(b) :
            r[j] = IF j <= Len(a) THEN a[j] ELSE b[j - Len(a)]
  BY <1>5, <1>6, <1>7, ConcatFacts
<1>9. RemoveAt(s, n) = r
  BY <1>3, <1>4, <1>7 DEF RemoveAt
<1>10. ASSUME NEW j \in 1 .. Len(s) - 1
       PROVE  r[j] = IF j < n THEN s[j] ELSE s[j + 1]
  <2>1. j \in 1 .. Len(a) + Len(b)
    BY <1>1, <1>5, <1>6
  <2>2. CASE j < n
    BY <2>1, <2>2, <1>1, <1>5, <1>8
  <2>3. CASE j >= n
    <3>1. r[j] = b[j - Len(a)]
      BY <2>1, <2>3, <1>1, <1>5, <1>8
    <3>2. PICK m \in 1 .. Len(s) - n : m = j - Len(a) /\ n + m = j + 1
      <4>1. j - Len(a) \in 1 .. Len(s) - n /\ n + (j - Len(a)) = j + 1
        BY <2>3, <1>1, <1>5
      <4>2. QED
        BY <4>1
    <3>3. b[m] = s[n + m]
      BY <1>6
    <3>4. ~ (j < n)
      BY <2>3, <1>1
    <3>5. QED
      BY <3>1, <3>2, <3>3, <3>4
  <2>4. QED
    BY <2>2, <2>3, <1>1
<1>11. Len(r) = Len(s) - 1
  BY <1>1, <1>5, <1>6, <1>8
<1>12. QED
  BY <1>8, <1>9, <1>10, <1>11

LEMMA RemoveFirstFacts ==
    ASSUME NEW S, NEW s \in Seq(S), Distinct(s), NEW e
    PROVE  \/ ~ Contains(s, e) /\ RemoveFirst(s, e) = s
           \/ \E n \in 1 .. Len(s) : s[n] = e /\ RemoveFirst(s, e) = RemoveAt(s, n)
<1>1. CASE ~ Contains(s, e)
  BY <1>1 DEF Contains, RemoveFirst
<1>2. CASE Contains(s, e)
  <2>1. PICK n \in 1 .. Len(s) : s[n] = e
    BY <1>2 DEF Contains
  <2> DEFINE I == {j \in 1 .. Len(s) : s[j] = e}
  <2>2. I = {n}
    BY <2>1 DEF Distinct
  <2>3. Min(I) = n
    BY <2>2 DEF Min
  <2>4. SelectInSeq(s, LAMBDA v : v = e) = Min(I)
    BY <2>2 DEF SelectInSeq
  <2>5. QED
    BY <1>2, <2>1, <2>3, <2>4 DEF RemoveFirst, Contains
<1>3. QED
  BY <1>1, <1>2

\* RemoveFirst on a sequence without repetitions removes the element.
LEMMA RemovedFacts ==
    ASSUME NEW S, NEW s \in Seq(S), Distinct(s), NEW e
    PROVE  /\ RemoveFirst(s, e) \in Seq(S)
           /\ Distinct(RemoveFirst(s, e))
           /\ \A d : Contains(RemoveFirst(s, e), d) <=> Contains(s, d) /\ d # e
<1>1. CASE ~ Contains(s, e) /\ RemoveFirst(s, e) = s
  BY <1>1 DEF Contains
<1>2. ASSUME NEW n \in 1 .. Len(s), s[n] = e, RemoveFirst(s, e) = RemoveAt(s, n)
      PROVE  /\ RemoveFirst(s, e) \in Seq(S)
             /\ Distinct(RemoveFirst(s, e))
             /\ \A d : Contains(RemoveFirst(s, e), d) <=> Contains(s, d) /\ d # e
  <2>1. PICK r : r = RemoveFirst(s, e)
    OBVIOUS
  <2>2. /\ Len(s) \in Nat /\ n \in Nat
        /\ r \in Seq(S) /\ Len(r) = Len(s) - 1
        /\ \A j \in 1 .. Len(s) - 1 : r[j] = IF j < n THEN s[j] ELSE s[j + 1]
    <3>1. r = RemoveAt(s, n)
      BY <1>2, <2>1
    <3>2. Len(s) \in Nat /\ n \in Nat
      OBVIOUS
    <3>3. QED
      BY <3>1, <3>2, RemoveAtFacts
  <2>3. Distinct(r)
    <3>1. SUFFICES ASSUME NEW j \in 1 .. Len(s) - 1, NEW k \in 1 .. Len(s) - 1,
                          r[j] = r[k], j < k
                   PROVE  FALSE
      BY <2>2 DEF Distinct
    <3>2. \E a, b \in 1 .. Len(s) : a # b /\ r[j] = s[a] /\ r[k] = s[b]
      <4>1. CASE k < n
        <5>1. j \in 1 .. Len(s) /\ k \in 1 .. Len(s) /\ j < n /\ j # k
          BY <2>2, <3>1, <4>1
        <5>2. r[j] = s[j] /\ r[k] = s[k]
          BY <2>2, <3>1, <4>1, <5>1
        <5>3. QED
          BY <5>1, <5>2
      <4>2. CASE j < n /\ k >= n
        <5>1. j \in 1 .. Len(s) /\ k + 1 \in 1 .. Len(s) /\ ~ (k < n) /\ j # k + 1
          BY <2>2, <3>1, <4>2
        <5>2. r[j] = s[j] /\ r[k] = s[k + 1]
          BY <2>2, <3>1, <4>2, <5>1
        <5>3. QED
          BY <5>1, <5>2
      <4>3. CASE j >= n
        <5>1. j + 1 \in 1 .. Len(s) /\ k + 1 \in 1 .. Len(s) /\ ~ (k < n) /\ ~ (j < n)
              /\ j + 1 # k + 1
          BY <2>2, <3>1, <4>3
        <5>2. r[j] = s[j + 1] /\ r[k] = s[k + 1]
          BY <2>2, <3>1, <5>1
        <5>3. QED
          BY <5>1, <5>2
      <4>4. QED
        BY <2>2, <3>1, <4>1, <4>2, <4>3
    <3>3. QED
      BY <3>1, <3>2 DEF Distinct
  <2>4. ASSUME NEW d, Contains(r, d)
        PROVE  Contains(s, d) /\ d # e
    BY <1>2, <2>2, <2>4, SMTT(30) DEF Contains, Distinct
  <2>5. ASSUME NEW d, Contains(s, d), d # e
        PROVE  Contains(r, d)
    <3>1. PICK k \in 1 .. Len(s) : s[k] = d /\ k # n
      BY <1>2, <2>5 DEF Contains
    <3>2. CASE k < n
      BY <2>2, <3>1, <3>2 DEF Contains
    <3>3. CASE k > n
      <4>1. k - 1 \in 1 .. Len(s) - 1 /\ ~ (k - 1 < n) /\ (k - 1) + 1 = k
        BY <2>2, <3>1, <3>3
      <4>2. r[k - 1] = d
        BY <2>2, <3>1, <4>1
      <4>3. QED
        BY <2>2, <4>1, <4>2 DEF Contains
    <3>4. QED
      BY <2>2, <3>1, <3>2, <3>3
  <2>6. QED
    BY <2>1, <2>2, <2>3, <2>4, <2>5
<1>3. QED
  BY <1>1, <1>2, RemoveFirstFacts

-----------------------------------------------------------------------------
(* The elements of a sequence that grows at its end or loses its head.     *)

LEMMA ToSetAppend ==
    ASSUME NEW S, NEW s \in Seq(S), NEW e \in S
    PROVE  Append(s, e) \in Seq(S) /\ ToSet(Append(s, e)) = ToSet(s) \cup {e}
<1>1. PICK t : t = Append(s, e)
  OBVIOUS
<1>2. /\ t \in Seq(S) /\ DOMAIN s = 1 .. Len(s) /\ DOMAIN t = 1 .. Len(s) + 1
      /\ Len(s) \in Nat
      /\ \A j \in 1 .. Len(s) : t[j] = s[j]
      /\ t[Len(s) + 1] = e
  BY <1>1, AppendProperties
<1>3. ToSet(t) \subseteq ToSet(s) \cup {e}
  BY <1>2 DEF ToSet
<1>4. ToSet(s) \subseteq ToSet(t)
  BY <1>2 DEF ToSet
<1>5. e \in ToSet(t)
  BY <1>2 DEF ToSet
<1> QED
  BY <1>1, <1>2, <1>3, <1>4, <1>5

LEMMA ToSetTail ==
    ASSUME NEW S, NEW s \in Seq(S), s # <<>>
    PROVE  /\ Head(s) \in S /\ Tail(s) \in Seq(S)
           /\ Head(s) \in ToSet(s) /\ ToSet(Tail(s)) \subseteq ToSet(s)
BY DEF ToSet

LEMMA ToSetConcat ==
    ASSUME NEW S, NEW s \in Seq(S), NEW t \in Seq(S)
    PROVE  ToSet(s) \cup ToSet(t) \subseteq ToSet(s \o t)
<1>1. PICK r : r = s \o t
  OBVIOUS
<1>2. /\ Len(s) \in Nat /\ Len(t) \in Nat
      /\ DOMAIN r = 1 .. Len(s) + Len(t)
      /\ \A j \in 1 .. Len(s) + Len(t) : r[j] = IF j <= Len(s) THEN s[j] ELSE t[j - Len(s)]
  BY <1>1, ConcatFacts
<1>3. ToSet(s) \subseteq ToSet(r)
  BY <1>2 DEF ToSet
<1>4. ASSUME NEW k \in 1 .. Len(t) PROVE t[k] \in ToSet(r)
  <2>1. Len(s) + k \in 1 .. Len(s) + Len(t) /\ ~ (Len(s) + k <= Len(s))
        /\ (Len(s) + k) - Len(s) = k
    BY <1>2
  <2>2. r[Len(s) + k] = t[k]
    BY <1>2, <2>1
  <2> QED
    BY <1>2, <2>1, <2>2 DEF ToSet
<1>5. ToSet(t) \subseteq ToSet(r)
  BY <1>4 DEF ToSet
<1> QED
  BY <1>1, <1>3, <1>5

-----------------------------------------------------------------------------
(* Induction and recursion over the indices of a sequence.                 *)

\* Induction, for a set of natural numbers.
LEMMA NatSetInduction ==
    ASSUME NEW S, 0 \in S, \A n \in Nat : n \in S => n + 1 \in S
    PROVE  Nat \subseteq S
<1> DEFINE T == Nat \ S
<1> SUFFICES ASSUME T # {} PROVE FALSE
  OBVIOUS
<1>1. IsWellFoundedOn({ss \in Nat \X Nat : ss[1] < ss[2]}, Nat)
  BY NatLessThanWellFounded DEF OpToRel
<1>2. PICK R : R = {ss \in Nat \X Nat : ss[1] < ss[2]}
  OBVIOUS
<1>3. PICK x \in T : \A y \in T : ~ (<<y, x>> \in R)
  BY <1>1, <1>2, WFMin
<1>4. x \in Nat /\ x # 0 /\ x - 1 \in Nat /\ (x - 1) + 1 = x
  BY <1>3
<1>5. x - 1 \in T
  BY <1>4
<1>6. <<x - 1, x>> \in R
  BY <1>2, <1>4
<1> QED
  BY <1>3, <1>5, <1>6

\* A set of natural numbers that is not empty has a least element.
LEMMA LeastNat ==
    ASSUME NEW T, T \subseteq Nat, T # {}
    PROVE  \E x \in T : \A y \in T : x <= y
<1>1. IsWellFoundedOn({ss \in Nat \X Nat : ss[1] < ss[2]}, Nat)
  BY NatLessThanWellFounded DEF OpToRel
<1>2. PICK R : R = {ss \in Nat \X Nat : ss[1] < ss[2]}
  OBVIOUS
<1>3. PICK x \in T : \A y \in T : ~ (<<y, x>> \in R)
  BY <1>1, <1>2, WFMin
<1>4. ASSUME NEW y \in T PROVE x <= y
  <2>1. ~ (y < x)
    BY <1>2, <1>3
  <2> QED
    BY <2>1
<1> QED
  BY <1>3, <1>4

\* The largest of the elements that are not above k is k, if it is among them.
LEMMA MaxIsLast ==
    ASSUME NEW k \in Nat, NEW s \in SUBSET (1 .. k), k \in s
    PROVE  Max(s) = k
<1>1. \A y \in s : k >= y
  OBVIOUS
<1>2. \A x \in s : (\A y \in s : x >= y) => x = k
  OBVIOUS
<1> QED
  BY <1>1, <1>2 DEF Max

\* The recursion under the folds of the community modules: a step from the
\* value for all indices but the last, and the last index.
Recursion(it, n, base, step) ==
    \A s \in SUBSET (1 .. n) :
        IF s = {} THEN it[s] = base
        ELSE Max(s) \in s /\ it[s] = step[<<it[s \ {Max(s)}], Max(s)>>]

\* The fold of a step function exists.
LEMMA RecursionExists ==
    ASSUME NEW A, NEW base \in A, NEW n \in Nat, NEW step \in [A \X (1 .. n) -> A]
    PROVE  \E it \in [SUBSET (1 .. n) -> A] : Recursion(it, n, base, step)
<1> DEFINE Upto(k) == \E it \in [SUBSET (1 .. k) -> A] : Recursion(it, k, base, step)
           S == {k \in Nat : k <= n => Upto(k)}
<1>1. Upto(0)
  <2> DEFINE it == [s \in SUBSET (1 .. 0) |-> base]
  <2>1. \A s \in SUBSET (1 .. 0) : s = {}
    OBVIOUS
  <2>2. \A s \in SUBSET (1 .. 0) : it[s] = base
    OBVIOUS
  <2>3. it \in [SUBSET (1 .. 0) -> A]
    OBVIOUS
  <2> HIDE DEF it
  <2>4. Recursion(it, 0, base, step)
    BY <2>1, <2>2 DEF Recursion
  <2> QED
    BY <2>3, <2>4
<1>2. ASSUME NEW k \in Nat, k + 1 <= n, Upto(k)
      PROVE  Upto(k + 1)
  <2>1. PICK h \in [SUBSET (1 .. k) -> A] : Recursion(h, k, base, step)
    BY <1>2
  <2> DEFINE it == [s \in SUBSET (1 .. k + 1) |->
                      IF k + 1 \in s THEN step[<<h[s \ {k + 1}], k + 1>>] ELSE h[s]]
  <2>2. \A s \in SUBSET (1 .. k + 1) : s \ {k + 1} \in SUBSET (1 .. k)
    OBVIOUS
  <2>3. \A s \in SUBSET (1 .. k + 1) : k + 1 \notin s => s \in SUBSET (1 .. k)
    OBVIOUS
  <2>4. k + 1 \in 1 .. n
    BY <1>2
  <2>5. ASSUME NEW s \in SUBSET (1 .. k + 1) PROVE it[s] \in A
    <3>1. CASE k + 1 \in s
      <4>1. h[s \ {k + 1}] \in A
        BY <2>2
      <4> QED
        BY <3>1, <4>1, <2>4
    <3> QED
      BY <2>3, <3>1
  <2>6. it \in [SUBSET (1 .. k + 1) -> A]
    BY <2>5
  <2>7. ASSUME NEW s \in SUBSET (1 .. k)
        PROVE  s \in SUBSET (1 .. k + 1) /\ it[s] = h[s]
    <3>1. s \in SUBSET (1 .. k + 1) /\ k + 1 \notin s
      OBVIOUS
    <3> QED
      BY <3>1
  <2>8. ASSUME NEW s \in SUBSET (1 .. k + 1), s # {}
        PROVE  Max(s) \in s /\ it[s] = step[<<it[s \ {Max(s)}], Max(s)>>]
    <3>1. CASE k + 1 \in s
      <4>1. Max(s) = k + 1
        BY <3>1, MaxIsLast
      <4>2. it[s \ {k + 1}] = h[s \ {k + 1}]
        BY <2>2, <2>7
      <4> QED
        BY <3>1, <4>1, <4>2
    <3>2. CASE k + 1 \notin s
      <4>1. s \in SUBSET (1 .. k)
        BY <2>3, <3>2
      <4>2. Max(s) \in s /\ h[s] = step[<<h[s \ {Max(s)}], Max(s)>>]
        BY <2>1, <2>8, <4>1 DEF Recursion
      <4>3. it[s] = h[s] /\ it[s \ {Max(s)}] = h[s \ {Max(s)}]
        BY <2>7, <4>1
      <4> QED
        BY <4>2, <4>3
    <3> QED
      BY <3>1, <3>2
  <2>9. it[{}] = base
    BY <2>1, <2>7 DEF Recursion
  <2> HIDE DEF it
  <2>10. Recursion(it, k + 1, base, step)
    BY <2>8, <2>9 DEF Recursion
  <2> QED
    BY <2>6, <2>10
<1> HIDE DEF Upto
<1>3. 0 \in S
  BY <1>1
<1>4. ASSUME NEW k \in Nat, k \in S PROVE k + 1 \in S
  BY <1>2, <1>4
<1>5. n \in S
  <2> HIDE DEF S
  <2> QED
    BY <1>3, <1>4, NatSetInduction
<1>6. Upto(n)
  BY <1>5
<1> QED
  BY <1>6 DEF Upto

LEMMA Intervals ==
    ASSUME NEW n \in Nat, NEW k \in 1 .. n
    PROVE  /\ 1 .. k \in SUBSET (1 .. n) /\ 1 .. k # {} /\ Max(1 .. k) = k
           /\ (1 .. k) \ {k} = 1 .. (k - 1) /\ 1 .. (k - 1) \in SUBSET (1 .. n)
<1>1. k \in 1 .. k /\ 1 .. k \in SUBSET (1 .. k) /\ k \in Nat
  OBVIOUS
<1>2. Max(1 .. k) = k
  BY <1>1, MaxIsLast
<1> QED
  BY <1>1, <1>2

\* g[k] is what a fold has after k elements.
Chain(g, A, n, base, step) ==
    /\ g \in [0 .. n -> A]
    /\ g[0] = base
    /\ \A k \in 1 .. n : g[k] = step[<<g[k - 1], k>>]

Follows(it, A, n, base, step) ==
    /\ base \in A /\ step \in [A \X (1 .. n) -> A]
    /\ it[{}] = base
    /\ \A s \in SUBSET (1 .. n) :
        s # {} /\ it[s \ {Max(s)}] \in A => it[s] = step[<<it[s \ {Max(s)}], Max(s)>>]

LEMMA FoldChain ==
    ASSUME NEW A, NEW base, NEW n \in Nat, NEW step, NEW it, Follows(it, A, n, base, step)
    PROVE  \E g : Chain(g, A, n, base, step) /\ it[1 .. n] = g[n]
<1> base \in A /\ step \in [A \X (1 .. n) -> A]
  BY DEF Follows
<1> DEFINE g == [k \in 0 .. n |-> it[1 .. k]]
           S == {k \in Nat : k <= n => g[k] \in A}
<1>1. \A k \in 0 .. n : g[k] = it[1 .. k]
  OBVIOUS
<1>2. g[0] = base
  <2>1. 1 .. 0 = {}
    OBVIOUS
  <2> QED
    BY <1>1, <2>1 DEF Follows
<1>3. ASSUME NEW k \in 1 .. n, g[k - 1] \in A PROVE g[k] = step[<<g[k - 1], k>>] /\ g[k] \in A
  <2>1. k - 1 \in 0 .. n /\ k \in 0 .. n
    OBVIOUS
  <2>2. PICK i \in SUBSET (1 .. n) : i = 1 .. k /\ i # {} /\ Max(i) = k /\ i \ {k} = 1 .. (k - 1)
    BY Intervals
  <2>3. it[i] = g[k] /\ it[i \ {Max(i)}] = g[k - 1]
    <3> HIDE DEF g
    <3> QED
      BY <1>1, <2>1, <2>2
  <2>4. it[i] = step[<<it[i \ {Max(i)}], Max(i)>>]
    <3> HIDE DEF g
    <3> QED
      BY <1>3, <2>2, <2>3 DEF Follows
  <2>5. step[<<g[k - 1], k>>] \in A
    <3> HIDE DEF g
    <3> QED
      BY <1>3
  <2> HIDE DEF g
  <2> QED
    BY <2>2, <2>3, <2>4, <2>5
<1> HIDE DEF g
<1>4. 0 \in S
  BY <1>2
<1>5. ASSUME NEW k \in Nat, k \in S PROVE k + 1 \in S
  <2>1. SUFFICES ASSUME k + 1 <= n PROVE g[k + 1] \in A
    OBVIOUS
  <2>2. k + 1 \in 1 .. n /\ (k + 1) - 1 = k /\ g[k] \in A
    BY <1>5, <2>1
  <2> QED
    BY <1>3, <2>2
<1>6. Nat \subseteq S
  <2> HIDE DEF S
  <2> QED
    BY <1>4, <1>5, NatSetInduction
<1>7. \A k \in 0 .. n : g[k] \in A
  BY <1>6
<1>8. \A k \in 1 .. n : g[k] = step[<<g[k - 1], k>>]
  BY <1>3, <1>7
<1>9. g \in [0 .. n -> A]
  BY <1>7 DEF g
<1> QED
  BY <1>1, <1>2, <1>8, <1>9 DEF Chain

Total(s) == FoldLeft(+, 0, s)

\* g[k] is the sum of the first k integers.
Sums(g, s) ==
    /\ g \in [0 .. Len(s) -> Int]
    /\ g[0] = 0
    /\ \A k \in 1 .. Len(s) : g[k] = g[k - 1] + s[k]

LEMMA SumFold ==
    ASSUME NEW s \in Seq(Int)
    PROVE  \E g : Sums(g, s) /\ Total(s) = g[Len(s)]
<1>1. PICK n \in Nat : n = Len(s) /\ DOMAIN s = 1 .. n /\ \A k \in 1 .. n : s[k] \in Int
  OBVIOUS
<1> DEFINE step == [p \in Int \X (1 .. n) |-> p[1] + s[p[2]]]
           eq(it) == it = [i \in SUBSET DOMAIN s |->
                             IF i = {} THEN 0 ELSE it[i \ {Max(i)}] + s[Max(i)]]
           it0 == CHOOSE it : eq(it)
<1>2. step \in [Int \X (1 .. n) -> Int] /\ 0 \in Int
  BY <1>1
<1>3. \A a \in Int, k \in 1 .. n : step[<<a, k>>] = a + s[k]
  OBVIOUS
<1>4. \E it : eq(it)
  <2> HIDE DEF step
  <2>1. PICK it \in [SUBSET (1 .. n) -> Int] : Recursion(it, n, 0, step)
    BY <1>2, RecursionExists
  <2>2. ASSUME NEW i \in SUBSET DOMAIN s
        PROVE  it[i] = IF i = {} THEN 0 ELSE it[i \ {Max(i)}] + s[Max(i)]
    BY <1>1, <1>3, <2>1 DEF Recursion
  <2> QED
    BY <1>1, <2>1, <2>2
<1>5. it0 = [i \in SUBSET DOMAIN s |-> IF i = {} THEN 0 ELSE it0[i \ {Max(i)}] + s[Max(i)]]
  BY <1>4
<1>6. Total(s) = it0[DOMAIN s]
  BY DEF Total, FoldLeft, MapThenFoldSet
<1> HIDE DEF it0, eq, step
<1>7. it0[{}] = 0
  BY <1>5
<1>8. ASSUME NEW i \in SUBSET (1 .. n), i # {}, it0[i \ {Max(i)}] \in Int
      PROVE  it0[i] = step[<<it0[i \ {Max(i)}], Max(i)>>]
  <2>1. Max(i) \in 1 .. n
    BY <1>1, <1>2, <1>8, RecursionExists DEF Recursion
  <2>2. it0[i] = it0[i \ {Max(i)}] + s[Max(i)]
    BY <1>1, <1>5, <1>8
  <2> QED
    BY <1>3, <1>8, <2>1, <2>2
<1>9. Follows(it0, Int, n, 0, step)
  BY <1>2, <1>7, <1>8 DEF Follows
<1>10. PICK g : Chain(g, Int, n, 0, step) /\ it0[1 .. n] = g[n]
  BY <1>9, FoldChain
<1>11. ASSUME NEW k \in 1 .. n PROVE g[k] = g[k - 1] + s[k]
  <2>1. k - 1 \in 0 .. n
    OBVIOUS
  <2>2. g[k - 1] \in Int /\ g[k] = step[<<g[k - 1], k>>]
    BY <1>10, <2>1 DEF Chain
  <2> QED
    BY <1>3, <2>2
<1> QED
  BY <1>1, <1>6, <1>10, <1>11 DEF Chain, Sums

\* The sum of a sequence of integers is an integer.
LEMMA SumTyped ==
    ASSUME NEW s \in Seq(Int)
    PROVE  Total(s) \in Int
<1>1. PICK g : Sums(g, s) /\ Total(s) = g[Len(s)]
  BY SumFold
<1>2. Len(s) \in 0 .. Len(s)
  OBVIOUS
<1> QED
  BY <1>1, <1>2 DEF Sums

\* Sums of two sequences stay as far apart as they are, where the sequences agree.
LEMMA SumsApart ==
    ASSUME NEW s \in Seq(Int), NEW t \in Seq(Int), NEW g, NEW h, Sums(g, s), Sums(h, t),
           NEW a \in Nat, NEW b \in Nat, a <= b, b <= Len(s), b <= Len(t),
           \A j \in a + 1 .. b : s[j] = t[j]
    PROVE  g[b] - h[b] = g[a] - h[a]
<1>1. PICK n \in Nat, m \in Nat : n = Len(s) /\ m = Len(t)
  OBVIOUS
<1>2. /\ g \in [0 .. n -> Int] /\ h \in [0 .. m -> Int]
      /\ \A k \in 1 .. n : g[k] = g[k - 1] + s[k]
      /\ \A k \in 1 .. m : h[k] = h[k - 1] + t[k]
  BY <1>1 DEF Sums
<1>3. /\ \A k \in 1 .. n : s[k] \in Int
      /\ \A k \in 1 .. m : t[k] \in Int
  BY <1>1
<1> DEFINE S == {k \in Nat : a <= k /\ k <= b => g[k] - h[k] = g[a] - h[a]}
<1>4. 0 \in S
  OBVIOUS
<1>5. ASSUME NEW k \in Nat, k \in S PROVE k + 1 \in S
  <2> SUFFICES ASSUME a <= k + 1, k + 1 <= b PROVE g[k + 1] - h[k + 1] = g[a] - h[a]
    OBVIOUS
  <2>1. CASE a = k + 1
    BY <2>1
  <2>2. CASE a <= k
    <3>1. g[k] - h[k] = g[a] - h[a]
      BY <1>5, <2>2
    <3>2. k + 1 \in 1 .. n /\ k + 1 \in 1 .. m /\ k + 1 \in a + 1 .. b /\ (k + 1) - 1 = k
          /\ k \in 0 .. n /\ k \in 0 .. m /\ a \in 0 .. n /\ a \in 0 .. m
      BY <1>1, <2>2
    <3>3. s[k + 1] = t[k + 1]
      BY <3>2
    <3>4. g[k + 1] = g[k] + s[k + 1] /\ h[k + 1] = h[k] + t[k + 1]
      BY <1>2, <3>2
    <3>5. /\ g[k] \in Int /\ h[k] \in Int /\ g[a] \in Int /\ h[a] \in Int
          /\ s[k + 1] \in Int /\ t[k + 1] \in Int
      BY ONLY <1>2, <1>3, <3>2
    <3> QED
      BY ONLY <3>1, <3>3, <3>4, <3>5
  <2> QED
    BY <2>1, <2>2
<1>6. b \in S
  <2> HIDE DEF S
  <2> QED
    BY <1>4, <1>5, NatSetInduction
<1> QED
  BY <1>6

LEMMA SumAppend ==
    ASSUME NEW s \in Seq(Int), NEW c \in Int
    PROVE  Total(Append(s, c)) = Total(s) + c
<1>1. PICK t : t = Append(s, c)
  OBVIOUS
<1>2. PICK n \in Nat : n = Len(s)
  OBVIOUS
<1>3. t \in Seq(Int) /\ Len(t) = n + 1 /\ t[n + 1] = c /\ \A j \in 1 .. n : t[j] = s[j]
  BY <1>1, <1>2, AppendProperties
<1>4. PICK g : Sums(g, s) /\ Total(s) = g[n]
  BY <1>2, SumFold
<1>5. PICK h : Sums(h, t) /\ Total(t) = h[n + 1]
  BY <1>3, SumFold
<1>6. h[n] - g[n] = h[0] - g[0]
  <2>1. \A j \in 0 + 1 .. n : t[j] = s[j]
    BY <1>3
  <2>2. 0 <= n /\ n <= Len(s) /\ n <= Len(t)
    BY <1>2, <1>3
  <2> QED
    BY ONLY <1>3, <1>4, <1>5, <2>1, <2>2, s \in Seq(Int), n \in Nat, 0 \in Nat, SumsApart
<1>7. /\ g[0] = 0 /\ h[0] = 0 /\ g[n] \in Int /\ h[n] \in Int
      /\ h[n + 1] = h[n] + c
  <2>1. n + 1 \in 1 .. n + 1 /\ (n + 1) - 1 = n /\ n \in 0 .. n + 1 /\ n \in 0 .. n
    OBVIOUS
  <2> QED
    BY <1>2, <1>3, <1>4, <1>5, <2>1 DEF Sums
<1> QED
  BY <1>1, <1>4, <1>5, <1>6, <1>7

\* Two sequences that differ in one place have sums that differ as they do there.
LEMMA SumOneDiffers ==
    ASSUME NEW s \in Seq(Int), NEW t \in Seq(Int), Len(s) = Len(t), NEW k \in 1 .. Len(t),
           \A j \in 1 .. Len(t) : j # k => s[j] = t[j]
    PROVE  Total(s) - Total(t) = s[k] - t[k]
<1>1. PICK n \in Nat, l \in Nat : n = Len(s) /\ n = Len(t) /\ k \in 1 .. n /\ l = k - 1
  <2>1. Len(t) \in Nat /\ Len(s) = Len(t)
    OBVIOUS
  <2>2. k \in 1 .. Len(t)
    OBVIOUS
  <2>3. k - 1 \in Nat
    BY ONLY <2>1, <2>2
  <2> QED
    BY ONLY <2>1, <2>2, <2>3
<1>2. PICK g : Sums(g, s) /\ Total(s) = g[n]
  BY <1>1, SumFold
<1>3. PICK h : Sums(h, t) /\ Total(t) = h[n]
  BY <1>1, SumFold
<1>4. g[l] - h[l] = g[0] - h[0]
  <2>1. \A j \in 0 + 1 .. l : s[j] = t[j]
    BY <1>1
  <2>2. 0 <= l /\ l <= Len(s) /\ l <= Len(t)
    BY <1>1
  <2>3. Sums(g, s) /\ Sums(h, t)
    BY <1>2, <1>3
  <2> QED
    BY ONLY <2>1, <2>2, <2>3, s \in Seq(Int), t \in Seq(Int), 0 \in Nat, l \in Nat, SumsApart
<1>5. g[n] - h[n] = g[k] - h[k]
  <2>1. \A j \in k + 1 .. n : s[j] = t[j]
    BY <1>1
  <2>2. k \in Nat /\ k <= n /\ n <= Len(s) /\ n <= Len(t)
    BY <1>1
  <2>3. Sums(g, s) /\ Sums(h, t)
    BY <1>2, <1>3
  <2> QED
    BY ONLY <2>1, <2>2, <2>3, s \in Seq(Int), t \in Seq(Int), n \in Nat, SumsApart
<1>6. /\ g[0] = 0 /\ h[0] = 0 /\ g[k] = g[l] + s[k] /\ h[k] = h[l] + t[k]
      /\ g[n] \in Int /\ h[n] \in Int /\ g[l] \in Int /\ h[l] \in Int
      /\ s[k] \in Int /\ t[k] \in Int
  <2>1. n \in 0 .. n /\ l \in 0 .. n
    BY <1>1
  <2>2. /\ g \in [0 .. n -> Int] /\ g[0] = 0 /\ \A j \in 1 .. n : g[j] = g[j - 1] + s[j]
        /\ h \in [0 .. n -> Int] /\ h[0] = 0 /\ \A j \in 1 .. n : h[j] = h[j - 1] + t[j]
    BY ONLY <1>1, <1>2, <1>3 DEF Sums
  <2>3. s[k] \in Int /\ t[k] \in Int
    BY <1>1
  <2>4. g[n] \in Int /\ h[n] \in Int /\ g[l] \in Int /\ h[l] \in Int
    BY ONLY <2>1, <2>2
  <2>5. g[k] = g[l] + s[k] /\ h[k] = h[l] + t[k]
    BY ONLY <1>1, <2>2
  <2> QED
    BY ONLY <2>2, <2>3, <2>4, <2>5
<1>7. g[l] - h[l] = 0
  BY ONLY <1>4, <1>6
<1>8. g[k] - h[k] = s[k] - t[k]
  BY ONLY <1>6, <1>7
<1>9. g[n] - h[n] = s[k] - t[k]
  BY ONLY <1>5, <1>8
<1> QED
  BY ONLY <1>2, <1>3, <1>9

\* g[k] are the first k sequences, one after the other.
Flattens(g, ss) ==
    /\ g[0] = <<>>
    /\ \A k \in 1 .. Len(ss) : g[k] = g[k - 1] \o ss[k]

\* FlattenSeq puts the sequences one after the other.
LEMMA FlattenChain ==
    ASSUME NEW S, NEW ss \in Seq(Seq(S))
    PROVE  \E g \in [0 .. Len(ss) -> Seq(S)] : Flattens(g, ss) /\ FlattenSeq(ss) = g[Len(ss)]
<1>1. PICK n \in Nat : n = Len(ss) /\ \A k \in 1 .. n : ss[k] \in Seq(S)
  OBVIOUS
<1> DEFINE step == [p \in Seq(S) \X (1 .. n) |-> p[1] \o ss[p[2]]]
           eq(f) == f = [i \in 1 .. Len(ss) |-> IF i = 1 THEN ss[i] ELSE f[i - 1] \o ss[i]]
           f0 == CHOOSE f : eq(f)
<1>2. step \in [Seq(S) \X (1 .. n) -> Seq(S)]
  BY <1>1
<1>3. \A a \in Seq(S), k \in 1 .. n : step[<<a, k>>] = a \o ss[k]
  OBVIOUS
<1>4. <<>> \in Seq(S) /\ \A t \in Seq(S) : <<>> \o t = t
  BY ConcatEmptySeq
<1>5. PICK it \in [SUBSET (1 .. n) -> Seq(S)] : Recursion(it, n, <<>>, step)
  <2> HIDE DEF step
  <2> QED
    BY <1>2, <1>4, RecursionExists
<1>6. PICK g : Chain(g, Seq(S), n, <<>>, step)
  <2> HIDE DEF step
  <2>1. it[{}] = <<>>
    BY <1>5 DEF Recursion
  <2>2. \A i \in SUBSET (1 .. n) :
            i # {} /\ it[i \ {Max(i)}] \in Seq(S) => it[i] = step[<<it[i \ {Max(i)}], Max(i)>>]
    BY <1>5 DEF Recursion
  <2>3. PICK A, none : A = Seq(S) /\ none = <<>>
    OBVIOUS
  <2>4. Follows(it, A, n, none, step)
    BY <1>2, <1>4, <2>1, <2>2, <2>3 DEF Follows
  <2>5. \E g : Chain(g, A, n, none, step) /\ it[1 .. n] = g[n]
    <3>1. n \in Nat
      OBVIOUS
    <3> QED
      BY ONLY <2>4, <3>1, FoldChain
  <2> QED
    BY <2>3, <2>5
<1>7. g \in [0 .. n -> Seq(S)] /\ g[0] = <<>> /\ \A k \in 1 .. n : g[k] = g[k - 1] \o ss[k]
  <2>1. \A k \in 1 .. n : g[k - 1] \in Seq(S)
    BY <1>6 DEF Chain
  <2> HIDE DEF step
  <2> QED
    BY <1>3, <1>6, <2>1 DEF Chain
<1>8. eq([i \in 1 .. n |-> g[i]])
  <2> DEFINE f == [i \in 1 .. n |-> g[i]]
  <2>1. \A i \in 1 .. n : f[i] = g[i]
    OBVIOUS
  <2>2. ASSUME NEW i \in 1 .. n PROVE g[i] = IF i = 1 THEN ss[i] ELSE f[i - 1] \o ss[i]
    <3> HIDE DEF step, f
    <3>1. CASE i = 1
      <4>1. g[i] = <<>> \o ss[i]
        BY <1>7, <3>1, i - 1 = 0
      <4> QED
        BY <1>1, <1>4, <3>1, <4>1
    <3>2. CASE i # 1
      <4>1. i - 1 \in 1 .. n
        BY <3>2
      <4> QED
        BY <1>7, <2>1, <3>2, <4>1
    <3> QED
      BY <3>1, <3>2
  <2> HIDE DEF step
  <2>3. f = [i \in 1 .. n |-> IF i = 1 THEN ss[i] ELSE f[i - 1] \o ss[i]]
    BY <2>2
  <2> QED
    BY <1>1, <2>3
<1>9. f0 = [i \in 1 .. n |-> IF i = 1 THEN ss[i] ELSE f0[i - 1] \o ss[i]]
  BY <1>1, <1>8
<1>10. FlattenSeq(ss) = IF n = 0 THEN ss ELSE f0[n]
  BY <1>1 DEF FlattenSeq
<1> HIDE DEF f0, eq, step
<1>11. ASSUME NEW k \in Nat PROVE k \in 1 .. n => f0[k] = g[k]
  <2> DEFINE T == {j \in Nat : j \in 1 .. n => f0[j] = g[j]}
  <2>1. 0 \in T
    OBVIOUS
  <2>2. ASSUME NEW j \in Nat, j \in T PROVE j + 1 \in T
    <3>1. SUFFICES ASSUME j + 1 \in 1 .. n PROVE f0[j + 1] = g[j + 1]
      OBVIOUS
    <3>2. CASE j = 0
      <4>1. j + 1 = 1 /\ 1 \in 1 .. n
        BY <3>1, <3>2
      <4>2. f0[1] = ss[1] /\ g[1] = <<>> \o ss[1]
        <5>1. g[1] = g[0] \o ss[1] /\ g[0] = <<>>
          BY <1>7, <4>1, 1 - 1 = 0
        <5>2. f0[1] = ss[1]
          BY <1>9, <4>1
        <5> QED
          BY <5>1, <5>2
      <4> QED
        BY <1>1, <1>4, <4>1, <4>2
    <3>3. CASE j # 0
      <4>1. j \in 1 .. n /\ j + 1 # 1 /\ (j + 1) - 1 = j
        BY <3>1, <3>3
      <4>2. f0[j] = g[j]
        BY <2>2, <4>1
      <4>3. f0[j + 1] = f0[j] \o ss[j + 1]
        BY <1>9, <3>1, <4>1
      <4>4. g[j + 1] = g[j] \o ss[j + 1]
        BY <1>7, <3>1, <4>1
      <4> QED
        BY <4>2, <4>3, <4>4
    <3> QED
      BY <3>2, <3>3
  <2> HIDE DEF T
  <2>3. k \in T
    BY <2>1, <2>2, NatSetInduction
  <2> QED
    BY <2>3 DEF T
<1>12. FlattenSeq(ss) = g[n]
  BY <1>1, <1>7, <1>10, <1>11
<1> QED
  BY <1>1, <1>7, <1>12 DEF Flattens

\* A chain exists for every step function.
LEMMA ChainExists ==
    ASSUME NEW A, NEW base \in A, NEW n \in Nat, NEW step \in [A \X (1 .. n) -> A]
    PROVE  \E g : Chain(g, A, n, base, step)
<1>1. PICK it \in [SUBSET (1 .. n) -> A] : Recursion(it, n, base, step)
  BY RecursionExists
<1>2. it[{}] = base
  BY <1>1 DEF Recursion
<1>3. \A i \in SUBSET (1 .. n) :
          i # {} /\ it[i \ {Max(i)}] \in A => it[i] = step[<<it[i \ {Max(i)}], Max(i)>>]
  BY <1>1 DEF Recursion
<1>4. Follows(it, A, n, base, step)
  BY <1>2, <1>3 DEF Follows
<1> QED
  BY <1>4, FoldChain

\* Whatever has the first k sequences for every k has them all.
LEMMA FlattenIs ==
    ASSUME NEW S, NEW ss \in Seq(Seq(S)), NEW g, Flattens(g, ss)
    PROVE  FlattenSeq(ss) = g[Len(ss)] /\ FlattenSeq(ss) \in Seq(S)
<1>1. PICK h \in [0 .. Len(ss) -> Seq(S)] : Flattens(h, ss) /\ FlattenSeq(ss) = h[Len(ss)]
  BY FlattenChain
<1>2. PICK n \in Nat : n = Len(ss)
  OBVIOUS
<1> DEFINE T == {j \in Nat : j <= n => g[j] = h[j]}
<1>3. 0 \in T
  BY <1>1 DEF Flattens
<1>4. ASSUME NEW j \in Nat, j \in T PROVE j + 1 \in T
  <2>1. SUFFICES ASSUME j + 1 <= n PROVE g[j + 1] = h[j + 1]
    OBVIOUS
  <2>2. j + 1 \in 1 .. n /\ (j + 1) - 1 = j /\ g[j] = h[j]
    BY <1>4, <2>1
  <2> QED
    BY <1>1, <1>2, <2>2 DEF Flattens
<1>5. n \in T
  <2> HIDE DEF T
  <2> QED
    BY <1>3, <1>4, NatSetInduction
<1>6. n <= n /\ n \in 0 .. n
  OBVIOUS
<1> QED
  BY <1>1, <1>2, <1>5, <1>6

LEMMA FlattenAppend ==
    ASSUME NEW S, NEW ss \in Seq(Seq(S)), NEW s \in Seq(S)
    PROVE  /\ FlattenSeq(ss) \in Seq(S) /\ Append(ss, s) \in Seq(Seq(S))
           /\ FlattenSeq(Append(ss, s)) = FlattenSeq(ss) \o s
<1>1. PICK g \in [0 .. Len(ss) -> Seq(S)] : Flattens(g, ss) /\ FlattenSeq(ss) = g[Len(ss)]
  BY FlattenChain
<1>2. PICK n \in Nat : n = Len(ss)
  OBVIOUS
<1>3. PICK t : t = Append(ss, s)
  OBVIOUS
<1>4. /\ t \in Seq(Seq(S)) /\ Len(t) = n + 1 /\ t[n + 1] = s
      /\ \A k \in 1 .. n : t[k] = ss[k]
  BY <1>2, <1>3
<1>5. PICK h : h = [k \in 0 .. n + 1 |-> IF k <= n THEN g[k] ELSE g[n] \o s]
  OBVIOUS
<1>6. h[n + 1] = g[n] \o s /\ \A k \in 0 .. n : h[k] = g[k]
  BY <1>5
<1>7. Flattens(h, t)
  <2>1. h[0] = <<>>
    BY <1>1, <1>6 DEF Flattens
  <2>2. ASSUME NEW k \in 1 .. n + 1 PROVE h[k] = h[k - 1] \o t[k]
    <3>1. CASE k \in 1 .. n
      <4>1. k \in 0 .. n /\ k - 1 \in 0 .. n
        BY <3>1
      <4>2. g[k] = g[k - 1] \o ss[k]
        BY <1>1, <1>2, <3>1 DEF Flattens
      <4>3. h[k] = g[k] /\ h[k - 1] = g[k - 1] /\ t[k] = ss[k]
        BY <1>4, <1>6, <3>1, <4>1
      <4> QED
        BY <4>2, <4>3
    <3>2. CASE k = n + 1
      <4>1. k - 1 = n /\ n \in 0 .. n
        BY <3>2
      <4> QED
        BY <1>4, <1>6, <3>2, <4>1
    <3>3. k \in 1 .. n \/ k = n + 1
      OBVIOUS
    <3> QED
      BY <3>1, <3>2, <3>3
  <2> QED
    BY <1>4, <2>1, <2>2 DEF Flattens
<1>8. FlattenSeq(t) = h[n + 1]
  BY <1>4, <1>7, FlattenIs
<1> QED
  BY <1>1, <1>2, <1>3, <1>4, <1>6, <1>8

LEMMA FlattenHead ==
    ASSUME NEW S, NEW ss, ss \in Seq(Seq(S)), ss # <<>>
    PROVE  /\ Head(ss) \in Seq(S) /\ Tail(ss) \in Seq(Seq(S)) /\ FlattenSeq(Tail(ss)) \in Seq(S)
           /\ FlattenSeq(ss) = Head(ss) \o FlattenSeq(Tail(ss))
<1>1. PICK t : t = Tail(ss)
  OBVIOUS
<1>t. t \in Seq(Seq(S)) /\ Len(t) \in Nat
  BY <1>1, HeadTailProperties, LenProperties
<1>2. PICK n \in Nat : n = Len(t)
  BY <1>t
<1>3. PICK s : s = ss[1]
  OBVIOUS
<1>4. /\ t \in Seq(Seq(S)) /\ Len(ss) = n + 1 /\ s \in Seq(S) /\ Head(ss) = s
      /\ \A k \in 1 .. n : t[k] = ss[k + 1] /\ t[k] \in Seq(S)
  <2>1. Len(ss) = n + 1 /\ \A k \in 1 .. n : t[k] = ss[k + 1]
    BY <1>1, <1>2
  <2>2. \A k \in 1 .. n : t[k] \in Seq(S)
    BY <1>2, <1>t, ElementOfSeq
  <2> QED
    BY <1>3, <1>t, <2>1, <2>2
<1>5. PICK g : g \in [0 .. n -> Seq(S)] /\ Flattens(g, t) /\ FlattenSeq(t) = g[n]
  BY <1>2, <1>4, FlattenChain
<1>6. PICK h : h = [k \in 0 .. n + 1 |-> IF k = 0 THEN <<>> ELSE s \o g[k - 1]]
  OBVIOUS
<1>7. h[0] = <<>> /\ \A k \in 1 .. n + 1 : h[k] = s \o g[k - 1]
  BY <1>6, SMTT(30)
<1>8. ASSUME NEW k \in 1 .. n + 1 PROVE h[k] = h[k - 1] \o ss[k]
  <2>1. CASE k = 1
    <3>1. k - 1 = 0 /\ g[0] = <<>> /\ s \o <<>> = s /\ <<>> \o s = s
      BY <1>4, <1>5, <2>1, ConcatEmptySeq DEF Flattens
    <3> QED
      BY <1>3, <1>7, <2>1, <3>1
  <2>2. CASE k # 1
    <3>1. PICK j \in 1 .. n : j = k - 1 /\ j \in 1 .. n + 1 /\ j - 1 \in 0 .. n /\ j + 1 = k
      BY <2>2
    <3>2. g[j] = g[j - 1] \o t[j] /\ t[j] = ss[k]
      BY <1>2, <1>4, <1>5, <3>1 DEF Flattens
    <3>3. PICK a : a = g[j - 1] /\ a \in Seq(S)
      BY <1>5, <3>1
    <3>4. PICK b : b = ss[k] /\ b \in Seq(S)
      BY <1>4, <3>1, <3>2
    <3>5. h[k] = s \o (a \o b) /\ h[k - 1] = s \o a
      BY <1>7, <3>1, <3>2, <3>3, <3>4
    <3>6. h[k] = h[k - 1] \o b
      <4>1. s \in Seq(S) /\ a \in Seq(S) /\ b \in Seq(S)
        BY <1>4, <3>3, <3>4
      <4>2. \A x, y : x = s \o (a \o b) /\ y = s \o a => x = y \o b
        BY ONLY <4>1, Concats
      <4> QED
        BY <3>5, <4>2
    <3> QED
      BY <3>4, <3>6
  <2> QED
    BY <2>1, <2>2
<1>9. Flattens(h, ss)
  BY <1>4, <1>7, <1>8 DEF Flattens
<1>10. FlattenSeq(ss) = h[n + 1]
  BY <1>4, <1>9, FlattenIs
<1>11. n + 1 \in 1 .. n + 1 /\ (n + 1) - 1 = n /\ n \in 0 .. n
  OBVIOUS
<1> QED
  BY <1>1, <1>4, <1>5, <1>7, <1>10, <1>11

\* One element each
LEMMA FlattenOnes ==
    ASSUME NEW S, NEW n \in Nat, NEW ss \in [1 .. n -> [1 .. 1 -> S]]
    PROVE  /\ FlattenSeq(ss) \in Seq(S) /\ Len(FlattenSeq(ss)) = n
           /\ \A k \in 1 .. n : FlattenSeq(ss)[k] = ss[k][1]
<1>1. /\ ss \in Seq(Seq(S)) /\ Len(ss) = n
      /\ \A k \in 1 .. n : ss[k] \in Seq(S) /\ Len(ss[k]) = 1 /\ ss[k][1] \in S
  <2>1. \A s \in [1 .. 1 -> S] : s \in Seq(S) /\ Len(s) = 1 /\ s[1] \in S
    <3>1. ASSUME NEW m \in Nat, NEW s \in [1 .. m -> S] PROVE s \in Seq(S) /\ Len(s) = m
      OBVIOUS
    <3>2. \A s \in [1 .. 1 -> S] : s[1] \in S
      OBVIOUS
    <3> QED
      BY <3>1, <3>2
  <2>2. \A k \in 1 .. n : ss[k] \in [1 .. 1 -> S]
    OBVIOUS
  <2>3. \A k \in 1 .. n : ss[k] \in Seq(S) /\ Len(ss[k]) = 1 /\ ss[k][1] \in S
    BY <2>1, <2>2
  <2> QED
    BY <2>3
<1>2. PICK g \in [0 .. n -> Seq(S)] : Flattens(g, ss) /\ FlattenSeq(ss) = g[n]
  BY <1>1, FlattenChain
<1> DEFINE Good(j) == Len(g[j]) = j /\ \A k \in 1 .. j : g[j][k] = ss[k][1]
           T == {j \in Nat : j <= n => Good(j)}
<1>3. 0 \in T
  BY <1>2 DEF Flattens
<1>4. ASSUME NEW j \in Nat, j \in T PROVE j + 1 \in T
  <2>1. SUFFICES ASSUME j + 1 <= n PROVE Good(j + 1)
    OBVIOUS
  <2>2. j + 1 \in 1 .. n /\ (j + 1) - 1 = j /\ j \in 0 .. n /\ j + 1 \in 0 .. n /\ Good(j)
    BY <1>4, <2>1
  <2>3. PICK a \in Seq(S) : a = g[j]
    BY <2>2
  <2>4. PICK b \in Seq(S) : b = ss[j + 1] /\ Len(b) = 1
    BY <1>1, <2>2
  <2>5. g[j + 1] = a \o b
    BY <1>1, <1>2, <2>2, <2>3, <2>4 DEF Flattens
  <2>6. Len(a) = j /\ \A k \in 1 .. j : a[k] = ss[k][1]
    BY <2>2, <2>3
  <2>7. Len(a \o b) = j + 1 /\ \A k \in 1 .. j + 1 : (a \o b)[k] = IF k <= j THEN a[k] ELSE b[k - j]
    <3>1. /\ Len(a \o b) = Len(a) + Len(b)
          /\ \A k \in 1 .. Len(a) + Len(b) :
                (a \o b)[k] = IF k <= Len(a) THEN a[k] ELSE b[k - Len(a)]
      BY ConcatFacts
    <3>2. Len(a) = j /\ Len(b) = 1
      BY <2>4, <2>6
    <3> QED
      BY <3>1, <3>2
  <2>8. ASSUME NEW k \in 1 .. j + 1 PROVE (a \o b)[k] = ss[k][1]
    <3>1. CASE k <= j
      BY <2>6, <2>7, <3>1
    <3>2. CASE ~ (k <= j)
      <4>1. k = j + 1 /\ k - j = 1
        BY <3>2
      <4> QED
        BY <2>4, <2>7, <3>2, <4>1
    <3> QED
      BY <3>1, <3>2
  <2> QED
    BY <2>5, <2>7, <2>8
<1>5. n \in T
  <2> HIDE DEF T
  <2> QED
    BY <1>3, <1>4, NatSetInduction
<1>6. n <= n /\ n \in 0 .. n
  OBVIOUS
<1>7. Good(n)
  BY <1>5, <1>6
<1> QED
  BY <1>2, <1>6, <1>7

-----------------------------------------------------------------------------
(* What is left of a sequence after its first n elements.                  *)

LEMMA SuffixFacts ==
    ASSUME NEW S, NEW s \in Seq(S), NEW n \in 0 .. Len(s)
    PROVE  /\ SubSeq(s, n + 1, Len(s)) \in Seq(S)
           /\ Len(SubSeq(s, n + 1, Len(s))) = Len(s) - n
           /\ \A k \in 1 .. Len(s) - n : SubSeq(s, n + 1, Len(s))[k] = s[n + k]
<1>1. PICK lo \in Int, hi \in Int : lo = n + 1 /\ hi = Len(s) /\ hi \in Nat
  OBVIOUS
<1>2. \A k \in lo .. hi : s[k] \in S
  BY <1>1
<1>3. /\ SubSeq(s, lo, hi) \in Seq(S)
      /\ Len(SubSeq(s, lo, hi)) = IF lo <= hi THEN hi - lo + 1 ELSE 0
      /\ \A k \in 1 .. hi - lo + 1 : SubSeq(s, lo, hi)[k] = s[lo + k - 1]
  BY <1>2, SubSeqProperties
<1>4. hi - lo + 1 = Len(s) - n /\ (~ (lo <= hi) => Len(s) - n = 0)
  BY <1>1
<1>5. \A k \in 1 .. Len(s) - n : lo + k - 1 = n + k
  BY <1>1
<1> QED
  BY <1>1, <1>3, <1>4, <1>5

LEMMA PrefixFacts ==
    ASSUME NEW S, NEW s \in Seq(S), NEW n \in 0 .. Len(s)
    PROVE  /\ SubSeq(s, 1, n) \in Seq(S) /\ Len(SubSeq(s, 1, n)) = n
           /\ \A k \in 1 .. n : SubSeq(s, 1, n)[k] = s[k]
<1>1. PICK lo \in Int, hi \in Int : lo = 1 /\ hi = n
  OBVIOUS
<1>2. \A k \in lo .. hi : s[k] \in S
  BY <1>1
<1>3. /\ SubSeq(s, lo, hi) \in Seq(S)
      /\ Len(SubSeq(s, lo, hi)) = IF lo <= hi THEN hi - lo + 1 ELSE 0
      /\ \A k \in 1 .. hi - lo + 1 : SubSeq(s, lo, hi)[k] = s[lo + k - 1]
  BY <1>2, SubSeqProperties
<1>4. hi - lo + 1 = n /\ (~ (lo <= hi) => n = 0) /\ \A k \in 1 .. n : lo + k - 1 = k
  BY <1>1
<1> QED
  BY <1>1, <1>3, <1>4

LEMMA SuffixConcat ==
    ASSUME NEW S, NEW s \in Seq(S), NEW t \in Seq(S), NEW n \in 0 .. Len(s)
    PROVE  SubSeq(s \o t, n + 1, Len(s \o t)) = SubSeq(s, n + 1, Len(s)) \o t
<1>1a. PICK r : r = s \o t
  OBVIOUS
<1>1. /\ r \in Seq(S) /\ r = s \o t
      /\ Len(r) = Len(s) + Len(t)
      /\ \A j \in 1 .. Len(s) + Len(t) :
           r[j] = IF j <= Len(s) THEN s[j] ELSE t[j - Len(s)]
  BY <1>1a, ConcatFacts
<1>2. Len(s) \in Nat /\ Len(t) \in Nat /\ n \in 0 .. Len(r)
  BY <1>1
<1>3a. PICK a : a = SubSeq(s, n + 1, Len(s))
  OBVIOUS
<1>3. /\ a \in Seq(S) /\ a = SubSeq(s, n + 1, Len(s))
      /\ Len(a) = Len(s) - n
      /\ \A k \in 1 .. Len(s) - n : a[k] = s[n + k]
  BY <1>3a, SuffixFacts
<1>4a. PICK b : b = SubSeq(r, n + 1, Len(r))
  OBVIOUS
<1>4. /\ b \in Seq(S) /\ b = SubSeq(r, n + 1, Len(r))
      /\ Len(b) = Len(r) - n
      /\ \A k \in 1 .. Len(r) - n : b[k] = r[n + k]
  BY <1>1, <1>2, <1>4a, SuffixFacts
<1>5a. PICK c : c = a \o t
  OBVIOUS
<1>5. /\ c \in Seq(S) /\ c = a \o t
      /\ Len(c) = Len(a) + Len(t)
      /\ \A j \in 1 .. Len(a) + Len(t) :
           c[j] = IF j <= Len(a) THEN a[j] ELSE t[j - Len(a)]
  BY <1>3, <1>5a, ConcatFacts
<1>6. Len(b) = Len(c)
  BY <1>1, <1>2, <1>3, <1>4, <1>5
<1>7. ASSUME NEW k \in 1 .. Len(b) PROVE b[k] = c[k]
  <2>1. n + k \in 1 .. Len(s) + Len(t) /\ k \in 1 .. Len(r) - n /\ k \in 1 .. Len(a) + Len(t)
    BY <1>1, <1>2, <1>3, <1>4
  <2>2. b[k] = IF n + k <= Len(s) THEN s[n + k] ELSE t[n + k - Len(s)]
    <3>1. PICK j \in 1 .. Len(s) + Len(t) : j = n + k
      BY <2>1
    <3>2. b[k] = r[j]
      BY <1>4, <2>1, <3>1
    <3> QED
      BY <1>1, <3>1, <3>2
  <2>3. CASE k <= Len(a)
    <3>1. k \in 1 .. Len(s) - n /\ n + k <= Len(s)
      BY <1>2, <1>3, <2>3
    <3> QED
      BY <1>3, <1>5, <2>1, <2>2, <2>3, <3>1
  <2>4. CASE ~ (k <= Len(a))
    <3>0. k \in Int /\ n \in Int /\ Len(s) \in Int /\ Len(a) = Len(s) - n
      BY <1>2, <1>3, <2>1
    <3>1. ~ (n + k <= Len(s)) /\ n + k - Len(s) = k - Len(a)
      BY <2>4, <3>0
    <3> QED
      BY <1>5, <2>1, <2>2, <2>4, <3>1
  <2> QED
    BY <2>3, <2>4
<1>8. b = c
  BY <1>4, <1>5, <1>6, <1>7, SeqEqual
<1> QED
  BY <1>1, <1>3, <1>4, <1>5, <1>8

LEMMA SuffixSuffix ==
    ASSUME NEW S, NEW s \in Seq(S), NEW n \in 0 .. Len(s), NEW m \in 0 .. Len(s) - n
    PROVE  SubSeq(SubSeq(s, n + 1, Len(s)), m + 1, Len(s) - n) = SubSeq(s, (n + m) + 1, Len(s))
<1>1. n + m \in 0 .. Len(s) /\ Len(s) \in Nat
  OBVIOUS
<1>2a. PICK a : a = SubSeq(s, n + 1, Len(s))
  OBVIOUS
<1>2. /\ a \in Seq(S) /\ a = SubSeq(s, n + 1, Len(s))
      /\ Len(a) = Len(s) - n
      /\ \A k \in 1 .. Len(s) - n : a[k] = s[n + k]
  BY <1>2a, SuffixFacts
<1>3a. PICK b : b = SubSeq(a, m + 1, Len(a))
  OBVIOUS
<1>3. /\ b \in Seq(S) /\ b = SubSeq(a, m + 1, Len(a))
      /\ Len(b) = Len(a) - m
      /\ \A k \in 1 .. Len(a) - m : b[k] = a[m + k]
  <2>1. m \in 0 .. Len(a)
    BY <1>2
  <2> QED
    BY ONLY <1>2, <1>3a, <2>1, SuffixFacts
<1>4a. PICK c : c = SubSeq(s, (n + m) + 1, Len(s))
  OBVIOUS
<1>4. /\ c \in Seq(S) /\ c = SubSeq(s, (n + m) + 1, Len(s))
      /\ Len(c) = Len(s) - (n + m)
      /\ \A k \in 1 .. Len(s) - (n + m) : c[k] = s[(n + m) + k]
  BY <1>1, <1>4a, SuffixFacts
<1>5. Len(b) = Len(c)
  BY <1>1, <1>2, <1>3, <1>4
<1>6. ASSUME NEW k \in 1 .. Len(b) PROVE b[k] = c[k]
  <2>1. /\ k \in 1 .. Len(a) - m /\ m + k \in 1 .. Len(s) - n /\ k \in 1 .. Len(s) - (n + m)
        /\ n + (m + k) = (n + m) + k
    BY <1>1, <1>2, <1>3
  <2>2. b[k] = s[n + (m + k)]
    BY <1>2, <1>3, <2>1
  <2>3. c[k] = s[(n + m) + k]
    BY <1>4, <2>1
  <2> QED
    BY <2>1, <2>2, <2>3
<1> QED
  BY <1>2, <1>3, <1>4, <1>5, <1>6, SeqEqual

-----------------------------------------------------------------------------
(* Sequences of a few elements, and an element in front of a sequence.     *)

\* An element in front of a sequence
LEMMA ConsFacts ==
    ASSUME NEW S, NEW t, t \in Seq(S), NEW x
    PROVE  /\ Head(<<x>> \o t) = x /\ Tail(<<x>> \o t) = t /\ <<x>> \o t # <<>>
           /\ Len(<<x>> \o t) = Len(t) + 1 /\ \E R : <<x>> \o t \in Seq(R) /\ x \in R /\ S \subseteq R
<1>1. PICK R : R = S \cup {x}
  OBVIOUS
<1>2. t \in Seq(R) /\ x \in R
  BY ONLY <1>1, t \in Seq(S)
<1>3. PICK a : a = <<x>>
  OBVIOUS
<1>4. a \in Seq(R) /\ Len(a) = 1 /\ a[1] = x
  BY ONLY <1>2, <1>3
<1>5. PICK u : u = a \o t
  OBVIOUS
<1>6. /\ u \in Seq(R) /\ Len(u) = Len(a) + Len(t)
      /\ \A j \in 1 .. Len(a) + Len(t) : u[j] = IF j <= Len(a) THEN a[j] ELSE t[j - Len(a)]
  <2>1. /\ a \o t \in Seq(R) /\ Len(a \o t) = Len(a) + Len(t)
        /\ \A j \in 1 .. Len(a) + Len(t) : (a \o t)[j] = IF j <= Len(a) THEN a[j] ELSE t[j - Len(a)]
    <3>1. a \in Seq(R)
      BY ONLY <1>4
    <3>2. t \in Seq(R)
      BY ONLY <1>2
    <3> QED
      BY ONLY <3>1, <3>2, ConcatFacts, Zenon
  <2> QED
    BY ONLY <2>1, <1>5
<1>7. Len(t) \in Nat
  BY ONLY <1>2
<1>8. /\ u \in Seq(R) /\ Len(u) = Len(t) + 1 /\ u[1] = x
      /\ \A j \in 1 .. Len(t) : u[j + 1] = t[j]
  BY ONLY <1>4, <1>6, <1>7
<1>9. u # <<>>
  BY ONLY <1>7, <1>8
<1>10. Head(u) = x
  BY ONLY <1>8, <1>9
<1>11. Tail(u) = t
  <2>1. PICK v : v = Tail(u)
    OBVIOUS
  <2>2. v \in Seq(R) /\ Len(v) = Len(t) /\ \A j \in 1 .. Len(t) : v[j] = u[j + 1]
    BY ONLY <2>1, <1>7, <1>8, <1>9
  <2>3. \A j \in 1 .. Len(t) : v[j] = t[j]
    BY ONLY <2>2, <1>8
  <2>4. v = t
    BY ONLY <2>2, <2>3, <1>2, <1>7
  <2> QED
    BY ONLY <2>1, <2>4
<1> QED
  BY ONLY <1>1, <1>2, <1>3, <1>5, <1>8, <1>9, <1>10, <1>11

\* The same, element by element
LEMMA ConsAt ==
    ASSUME NEW S, NEW t, t \in Seq(S), NEW x
    PROVE  LET u == <<x>> \o t
           IN  /\ Len(t) \in Nat /\ DOMAIN t = 1 .. Len(t) /\ DOMAIN u = 1 .. Len(t) + 1
               /\ u[1] = x /\ \A k \in 1 .. Len(t) : u[k + 1] = t[k]
<1>1. PICK u : u = <<x>> \o t
  OBVIOUS
<1>2. Head(u) = x /\ Tail(u) = t /\ u # <<>> /\ Len(u) = Len(t) + 1 /\ \E R : u \in Seq(R)
  BY ONLY <1>1, t \in Seq(S), ConsFacts
<1>3. PICK R : u \in Seq(R)
  BY ONLY <1>2
<1>4. /\ Len(t) \in Nat /\ DOMAIN t = 1 .. Len(t) /\ DOMAIN u = 1 .. Len(u)
      /\ u[1] = x /\ \A k \in 1 .. Len(t) : u[k + 1] = t[k]
  BY ONLY <1>2, <1>3, t \in Seq(S)
<1> QED
  BY ONLY <1>1, <1>2, <1>4

\* Nothing is in an empty sequence.
LEMMA NothingContained == \A e : ~ Contains(<<>>, e)
BY ONLY DEF Contains

\* Sequences of up to four elements, one element after the other
LEMMA AppendOne == \A a : Append(<<>>, a) = <<a>>
OBVIOUS

LEMMA AppendTwo == ASSUME NEW a, NEW b PROVE Append(<<a>>, b) = <<a, b>>
<1>1. PICK S : S = {a, b}
  OBVIOUS
<1>2. PICK p, q, r : p = <<a>> /\ q = <<a, b>> /\ r = Append(p, b)
  OBVIOUS
<1>3. p \in Seq(S) /\ Len(p) = 1 /\ p[1] = a
  BY ONLY <1>1, <1>2
<1>4. q \in Seq(S) /\ Len(q) = 2 /\ q[1] = a /\ q[2] = b
  BY ONLY <1>1, <1>2
<1>5. b \in S
  BY ONLY <1>1
<1>6. r \in Seq(S) /\ Len(r) = 2 /\ r[2] = b /\ \A k \in 1 .. 1 : r[k] = p[k]
  BY ONLY <1>2, <1>3, <1>5
<1>7. r[1] = a /\ r[2] = b
  BY ONLY <1>3, <1>6
<1>8. \A k \in 1 .. 2 : q[k] = r[k]
  BY ONLY <1>4, <1>7
<1>9. q = r
  BY ONLY <1>4, <1>6, <1>8
<1> QED
  BY ONLY <1>2, <1>9

LEMMA AppendThree == ASSUME NEW a, NEW b, NEW c PROVE Append(<<a, b>>, c) = <<a, b, c>>
<1>1. PICK S : S = {a, b, c}
  OBVIOUS
<1>2. PICK p, q, r : p = <<a, b>> /\ q = <<a, b, c>> /\ r = Append(p, c)
  OBVIOUS
<1>3. p \in Seq(S) /\ Len(p) = 2 /\ p[1] = a /\ p[2] = b
  BY ONLY <1>1, <1>2
<1>4. q \in Seq(S) /\ Len(q) = 3 /\ q[1] = a /\ q[2] = b /\ q[3] = c
  BY ONLY <1>1, <1>2
<1>5. c \in S
  BY ONLY <1>1
<1>6. r \in Seq(S) /\ Len(r) = 3 /\ r[3] = c /\ \A k \in 1 .. 2 : r[k] = p[k]
  BY ONLY <1>2, <1>3, <1>5
<1>7. r[1] = a /\ r[2] = b /\ r[3] = c
  BY ONLY <1>3, <1>6
<1>8. \A k \in 1 .. 3 : q[k] = r[k]
  BY ONLY <1>4, <1>7
<1>9. q = r
  BY ONLY <1>4, <1>6, <1>8
<1> QED
  BY ONLY <1>2, <1>9

LEMMA AppendFour == ASSUME NEW a, NEW b, NEW c, NEW d PROVE Append(<<a, b, c>>, d) = <<a, b, c, d>>
<1>1. PICK S : S = {a, b, c, d}
  OBVIOUS
<1>2. PICK p, q, r : p = <<a, b, c>> /\ q = <<a, b, c, d>> /\ r = Append(p, d)
  OBVIOUS
<1>3. p \in Seq(S) /\ Len(p) = 3 /\ p[1] = a /\ p[2] = b /\ p[3] = c
  BY ONLY <1>1, <1>2
<1>4. q \in Seq(S) /\ Len(q) = 4 /\ q[1] = a /\ q[2] = b /\ q[3] = c /\ q[4] = d
  BY ONLY <1>1, <1>2
<1>5. d \in S
  BY ONLY <1>1
<1>6. r \in Seq(S) /\ Len(r) = 4 /\ r[4] = d /\ \A k \in 1 .. 3 : r[k] = p[k]
  BY ONLY <1>2, <1>3, <1>5
<1>7. r[1] = a /\ r[2] = b /\ r[3] = c /\ r[4] = d
  BY ONLY <1>3, <1>6
<1>8. \A k \in 1 .. 4 : q[k] = r[k]
  BY ONLY <1>4, <1>7
<1>9. q = r
  BY ONLY <1>4, <1>6, <1>8
<1> QED
  BY ONLY <1>2, <1>9
=============================================================================
