---------------------------- MODULE DeltasProofs ----------------------------
(***************************************************************************)
(* What the operations of Deltas do to what is left of each delay: putting *)
(* one element in, or taking one out, changes no other's.  The lists are   *)
(* of any length, so these proofs are by induction, along the numbers, in  *)
(* the form of a set that holds 0 and the successor of each of its members.*)
(***************************************************************************)
EXTENDS Deltas, SequenceTheorems, WellFoundedInduction, TLAPS

Less == {p \in Nat \X Nat : p[1] < p[2]}

LEMMA SetInduction ==
  ASSUME NEW S, 0 \in S, \A n \in Nat : n \in S => n + 1 \in S
  PROVE  Nat \subseteq S
<1> DEFINE T == Nat \ S
<1> SUFFICES ASSUME T # {} PROVE FALSE
  OBVIOUS
<1>1. IsWellFoundedOn(Less, Nat)
  <2>1. OpToRel(<, Nat) = Less
    BY DEF OpToRel, Less
  <2> QED
    BY <2>1, NatLessThanWellFounded
<1>2. PICK x \in T : \A y \in T : <<y, x>> \notin Less
  <2>1. T \subseteq Nat
    OBVIOUS
  <2> HIDE DEF T
  <2> QED
    BY <1>1, <2>1, WFMin
<1>3. x \in Nat /\ x # 0
  OBVIOUS
<1>4. x - 1 \in T
  BY <1>3
<1>5. <<x - 1, x>> \in Less
  BY <1>3 DEF Less
<1> QED
  BY <1>2, <1>4, <1>5

-----------------------------------------------------------------------------
(* A list of elements of S, each at most once, with delays up to limit.    *)
IsList(s, w, S, limit) ==
  /\ limit \in Nat
  /\ s \in Seq(S)
  /\ IsInjective(s)
  /\ w \in [S -> 0..limit]

AreSums(f, s, w, n) ==
  f = [k \in 0..n |-> IF k = 0 THEN 0 ELSE f[k - 1] + w[s[k]]]

LEMMA SumsExist ==
  ASSUME NEW S, NEW limit, NEW s, NEW w, IsList(s, w, S, limit)
  PROVE  \E f \in [0..Len(s) -> Nat] : AreSums(f, s, w, Len(s))
<1>1. Len(s) \in Nat /\ \A k \in 1..Len(s) : w[s[k]] \in Nat
  BY DEF IsList
<1> DEFINE N == {n \in Nat :
                   n <= Len(s) => \E f \in [0..n -> Nat] : AreSums(f, s, w, n)}
<1>2. 0 \in N
  <2> DEFINE f == [k \in 0..0 |-> 0]
  <2>1. f \in [0..0 -> Nat] /\ AreSums(f, s, w, 0)
    BY DEF AreSums
  <2> HIDE DEF f
  <2> QED
    BY <2>1
<1>3. ASSUME NEW n \in Nat, n \in N PROVE n + 1 \in N
  <2> SUFFICES ASSUME n + 1 <= Len(s)
               PROVE  \E f \in [0..n + 1 -> Nat] : AreSums(f, s, w, n + 1)
    OBVIOUS
  <2>1. PICK f \in [0..n -> Nat] : AreSums(f, s, w, n)
    BY <1>1, <1>3
  <2> DEFINE h == [k \in 0..n + 1 |->
                     IF k = n + 1 THEN f[n] + w[s[n + 1]] ELSE f[k]]
  <2>2. f[n] \in Nat /\ w[s[n + 1]] \in Nat
    BY <1>1
  <2>3. h \in [0..n + 1 -> Nat]
    BY <2>2
  <2>4. ASSUME NEW k \in 0..n + 1
        PROVE  h[k] = IF k = 0 THEN 0 ELSE h[k - 1] + w[s[k]]
    BY <2>1 DEF AreSums
  <2>5. AreSums(h, s, w, n + 1)
    BY <2>4 DEF AreSums
  <2> HIDE DEF h
  <2> QED
    BY <2>3, <2>5
<1> HIDE DEF N
<1>4. Nat \subseteq N
  BY <1>2, <1>3, SetInduction
<1> QED
  BY <1>1, <1>4 DEF N

LEMMA SumsFacts ==
  ASSUME NEW S, NEW limit, NEW s, NEW w, IsList(s, w, S, limit)
  PROVE  /\ Len(s) \in Nat
         /\ Sums(s, w) \in [0..Len(s) -> Nat]
         /\ Sums(s, w)[0] = 0
         /\ \A k \in 1..Len(s) : Sums(s, w)[k] = Sums(s, w)[k - 1] + w[s[k]]
<1> DEFINE c == CHOOSE f : AreSums(f, s, w, Len(s))
<1>1. Len(s) \in Nat /\ \A k \in 1..Len(s) : w[s[k]] \in Nat
  BY DEF IsList
<1>2. AreSums(c, s, w, Len(s))
  BY SumsExist
<1>3. Sums(s, w) = c
  BY DEF Sums, AreSums
<1> HIDE DEF c
<1>4. c[0] = 0 /\ DOMAIN c = 0..Len(s)
  BY <1>1, <1>2 DEF AreSums
<1>5. \A k \in 1..Len(s) : c[k] = c[k - 1] + w[s[k]]
  BY <1>1, <1>2 DEF AreSums
<1> DEFINE N == {n \in Nat : n <= Len(s) => c[n] \in Nat}
<1>6. 0 \in N
  BY <1>4
<1>7. ASSUME NEW n \in Nat, n \in N PROVE n + 1 \in N
  BY <1>1, <1>5, <1>7
<1> HIDE DEF N
<1>8. Nat \subseteq N
  BY <1>6, <1>7, SetInduction
<1>9. \A k \in 0..Len(s) : c[k] \in Nat
  BY <1>1, <1>8 DEF N
<1>10. c = [k \in 0..Len(s) |-> c[k]]
  BY <1>2 DEF AreSums
<1>11. c \in [0..Len(s) -> Nat]
  BY <1>9, <1>10
<1> QED
  BY <1>1, <1>3, <1>4, <1>5, <1>11

(* Whatever grows as the sums do is the sums.                              *)
LEMMA SumsUnique ==
  ASSUME NEW S, NEW limit, NEW s, NEW w, IsList(s, w, S, limit),
         NEW h, h[0] = 0,
         \A k \in 1..Len(s) : h[k] = h[k - 1] + w[s[k]]
  PROVE  \A k \in 0..Len(s) : Sums(s, w)[k] = h[k]
<1> DEFINE c == Sums(s, w)
<1>1. /\ Len(s) \in Nat /\ c[0] = 0
      /\ \A k \in 1..Len(s) : c[k] = c[k - 1] + w[s[k]]
  BY SumsFacts
<1> HIDE DEF c
<1> DEFINE N == {n \in Nat : n <= Len(s) => c[n] = h[n]}
<1>2. 0 \in N
  BY <1>1
<1>3. ASSUME NEW n \in Nat, n \in N PROVE n + 1 \in N
  BY <1>1, <1>3
<1> HIDE DEF N
<1>4. Nat \subseteq N
  BY <1>2, <1>3, SetInduction
<1> QED
  BY <1>1, <1>4 DEF N, c

LEMMA SumsGrow ==
  ASSUME NEW S, NEW limit, NEW s, NEW w, IsList(s, w, S, limit),
         NEW i \in 0..Len(s), NEW j \in 0..Len(s), i <= j
  PROVE  Sums(s, w)[i] <= Sums(s, w)[j]
<1> DEFINE c == Sums(s, w)
<1>1. /\ Len(s) \in Nat /\ c \in [0..Len(s) -> Nat]
      /\ \A k \in 1..Len(s) : c[k] = c[k - 1] + w[s[k]]
  BY SumsFacts
<1>2. \A k \in 1..Len(s) : w[s[k]] \in Nat
  BY DEF IsList
<1> HIDE DEF c
<1> DEFINE N == {n \in Nat : i + n <= Len(s) => c[i] <= c[i + n]}
<1>3. 0 \in N
  BY <1>1
<1>4. ASSUME NEW n \in Nat, n \in N PROVE n + 1 \in N
  <2> SUFFICES ASSUME i + n + 1 <= Len(s) PROVE c[i] <= c[i + n + 1]
    OBVIOUS
  <2>1. i + n \in 0..Len(s) /\ i + n + 1 \in 1..Len(s)
    BY <1>1
  <2>2. c[i] \in Nat /\ c[i + n] \in Nat /\ w[s[i + n + 1]] \in Nat
    BY <1>1, <1>2, <2>1
  <2>3. c[i + n + 1] = c[i + n] + w[s[i + n + 1]]
    BY <1>1, <2>1
  <2> QED
    BY <1>4, <2>1, <2>2, <2>3
<1> HIDE DEF N
<1>5. Nat \subseteq N
  BY <1>3, <1>4, SetInduction
<1>6. j - i \in Nat /\ i + (j - i) = j /\ j <= Len(s)
  BY <1>1
<1>7. j - i \in N
  BY <1>5, <1>6
<1> QED
  BY <1>6, <1>7 DEF N, c

(* The walk of reqwait has a place to stop, and only one is before it.     *)
LEMMA PlaceFacts ==
  ASSUME NEW S, NEW limit, NEW s, NEW w, IsList(s, w, S, limit), NEW d \in Nat
  PROVE  /\ Place(s, w, d) \in 0..Len(s)
         /\ Place(s, w, d) # Len(s) => Sums(s, w)[Place(s, w, d) + 1] >= d
         /\ \A j \in 1..Place(s, w, d) : Sums(s, w)[j] < d
<1> DEFINE c == Sums(s, w)
           Good(k) == /\ k = Len(s) \/ c[k + 1] >= d
                      /\ \A j \in 1..k : c[j] < d
<1>1. Len(s) \in Nat /\ c \in [0..Len(s) -> Nat]
  BY SumsFacts
<1> HIDE DEF c
<1>2. ASSUME \A k \in 0..Len(s) : ~Good(k) PROVE FALSE
  <2> DEFINE N == {n \in Nat : n <= Len(s) => \A j \in 1..n : c[j] < d}
  <2>1. 0 \in N
    OBVIOUS
  <2>2. ASSUME NEW n \in Nat, n \in N PROVE n + 1 \in N
    <3> SUFFICES ASSUME n + 1 <= Len(s) PROVE \A j \in 1..n + 1 : c[j] < d
      OBVIOUS
    <3>1. n \in 0..Len(s) /\ n # Len(s) /\ n + 1 \in 0..Len(s)
      BY <1>1
    <3>2. \A j \in 1..n : c[j] < d
      BY <1>1, <2>2
    <3>3. ~(c[n + 1] >= d) /\ c[n + 1] \in Nat
      BY <1>1, <1>2, <3>1, <3>2
    <3> QED
      BY <3>2, <3>3
  <2> HIDE DEF N
  <2>3. Len(s) \in N
    BY <1>1, <2>1, <2>2, SetInduction
  <2>4. Good(Len(s)) /\ Len(s) \in 0..Len(s)
    BY <1>1, <2>3 DEF N
  <2> QED
    BY <1>2, <2>4
<1>5. \E k \in 0..Len(s) : Good(k)
  BY <1>2
<1>6. Place(s, w, d) = CHOOSE k \in 0..Len(s) : Good(k)
  BY DEF Place, c
<1>7. Place(s, w, d) \in 0..Len(s) /\ Good(Place(s, w, d))
  BY <1>5, <1>6
<1> QED
  BY <1>7 DEF c

LEMMA PositionFacts ==
  ASSUME NEW S, NEW limit, NEW s, NEW w, IsList(s, w, S, limit),
         NEW i \in 1..Len(s)
  PROVE  Position(s, s[i]) = i
BY DEF Position, IsList, IsInjective

(* What is left for the elements of a list, and for the others.            *)
LEMMA LeftFacts ==
  ASSUME NEW S, NEW limit, NEW s, NEW w, IsList(s, w, S, limit), NEW T
  PROVE  /\ Left(s, w, T) = [t \in T |-> Left(s, w, T)[t]]
         /\ \A t \in T : t \notin Range(s) => Left(s, w, T)[t] = -1
         /\ \A i \in 1..Len(s) : s[i] \in T => Left(s, w, T)[s[i]] = Sums(s, w)[i]
<1>1. Range(s) = {s[i] : i \in 1..Len(s)}
  BY RangeEquality DEF IsList
<1>2. \A i \in 1..Len(s) : Position(s, s[i]) = i
  BY PositionFacts
<1> QED
  BY <1>1, <1>2 DEF Left

(* Nobody has less left than the first, whose delay is what is left.       *)
LEMMA FirstLeft ==
  ASSUME NEW S, NEW limit, NEW s, NEW w, IsList(s, w, S, limit), limit # 0
  PROVE  /\ First(s, w, limit) \in 0..limit
         /\ \A t \in Range(s) :
              Left(s, w, S)[t] \in Nat /\ Left(s, w, S)[t] >= First(s, w, limit)
         /\ First(s, w, limit) = 0 <=> \E t \in Range(s) : Left(s, w, S)[t] = 0
         /\ First(s, w, limit) # limit => s # << >>
         /\ s # << >> => /\ Head(s) \in Range(s)
                         /\ w[Head(s)] = First(s, w, limit)
                         /\ Left(s, w, S)[Head(s)] = First(s, w, limit)
<1>1. CASE s = << >>
  <2>1. Range(s) = {} /\ First(s, w, limit) = limit /\ limit \in Nat
    BY <1>1 DEF Range, First, IsList
  <2> QED
    BY <1>1, <2>1
<1>2. CASE s # << >>
  <2> DEFINE c == Sums(s, w)
             M == Left(s, w, S)
  <2>1. /\ Len(s) \in Nat /\ c \in [0..Len(s) -> Nat] /\ c[0] = 0
        /\ \A k \in 1..Len(s) : c[k] = c[k - 1] + w[s[k]]
    BY SumsFacts
  <2>2. s \in Seq(S) /\ Len(s) >= 1 /\ Head(s) = s[1] /\ s[1] \in S
    BY <1>2, <2>1 DEF IsList
  <2>3. c[1] = w[s[1]]
    BY <2>1, <2>2 DEF IsList
  <2>4. \A i \in 1..Len(s) : c[i] >= c[1] /\ c[i] \in Nat
    BY <2>1, <2>2, SumsGrow
  <2>5. \A i \in 1..Len(s) : s[i] \in S /\ M[s[i]] = c[i]
    BY <2>2, LeftFacts
  <2>6. Range(s) = {s[i] : i \in 1..Len(s)}
    BY <2>2, RangeEquality
  <2>7. First(s, w, limit) = w[s[1]] /\ w[s[1]] \in 0..limit
    BY <1>2, <2>2 DEF First, IsList
  <2> HIDE DEF c, M
  <2>8. \A t \in Range(s) : M[t] \in Nat /\ M[t] >= c[1]
    BY <2>4, <2>5, <2>6
  <2>9. s[1] \in Range(s) /\ M[s[1]] = c[1]
    BY <2>2, <2>5, <2>6
  <2>10. c[1] \in Nat
    BY <2>2, <2>4
  <2>11. c[1] = 0 <=> \E t \in Range(s) : M[t] = 0
    BY <2>8, <2>9, <2>10
  <2> QED
    BY <1>2, <2>2, <2>3, <2>7, <2>8, <2>9, <2>11 DEF M
<1> QED
  BY <1>1, <1>2

-----------------------------------------------------------------------------
LEMMA InsertAtFacts ==
  ASSUME NEW S, NEW s \in Seq(S), NEW t \in S, NEW k \in 0..Len(s)
  PROVE  /\ InsertAt(s, k + 1, t) \in Seq(S)
         /\ Len(InsertAt(s, k + 1, t)) = Len(s) + 1
         /\ \A i \in 1..Len(s) + 1 :
              InsertAt(s, k + 1, t)[i] =
                IF i <= k THEN s[i] ELSE IF i = k + 1 THEN t ELSE s[i - 1]
<1> DEFINE a == SubSeq(s, 1, k)
           b == SubSeq(s, k + 1, Len(s))
<1>1. Len(s) \in Nat /\ k \in Nat /\ k <= Len(s) /\ \A i \in 1..Len(s) : s[i] \in S
  OBVIOUS
<1>2. a \in Seq(S) /\ Len(a) = k /\ \A i \in 1..k : a[i] = s[i]
  <2>1. \A i \in 1..k : s[i] \in S
    BY <1>1
  <2>2. /\ a \in Seq(S)
        /\ Len(a) = IF 1 <= k THEN k - 1 + 1 ELSE 0
        /\ \A i \in 1..k - 1 + 1 : a[i] = s[1 + i - 1]
    BY <1>1, <2>1, SubSeqProperties
  <2> HIDE DEF a
  <2> QED
    BY <1>1, <2>2
<1>3. /\ b \in Seq(S) /\ Len(b) = Len(s) - k
      /\ \A i \in 1..Len(s) - k : b[i] = s[k + i]
  <2>1. \A i \in k + 1..Len(s) : s[i] \in S
    BY <1>1
  <2>2. /\ b \in Seq(S)
        /\ Len(b) = IF k + 1 <= Len(s) THEN Len(s) - (k + 1) + 1 ELSE 0
        /\ \A i \in 1..Len(s) - (k + 1) + 1 : b[i] = s[(k + 1) + i - 1]
    BY <1>1, <2>1, SubSeqProperties
  <2> HIDE DEF b
  <2> QED
    BY <1>1, <2>2
<1>4. InsertAt(s, k + 1, t) = (a \o <<t>>) \o b
  <2>1. (k + 1) - 1 = k
    BY <1>1
  <2>2. InsertAt(s, k + 1, t) =
          (SubSeq(s, 1, (k + 1) - 1) \o <<t>>) \o SubSeq(s, k + 1, Len(s))
    BY Zenon DEF InsertAt
  <2> QED
    BY <2>1, <2>2, Zenon
<1> HIDE DEF a, b
<1> DEFINE m == a \o <<t>>
<1>5. m \in Seq(S) /\ Len(m) = k + 1 /\ \A i \in 1..k + 1 : m[i] = IF i <= k THEN s[i] ELSE t
  <2>1. <<t>> \in Seq(S) /\ Len(<<t>>) = 1 /\ <<t>>[1] = t
    OBVIOUS
  <2>2. /\ m \in Seq(S) /\ Len(m) = k + 1
        /\ \A i \in 1..k + 1 : m[i] = IF i <= k THEN a[i] ELSE <<t>>[i - k]
    BY <1>2, <2>1, ConcatProperties
  <2> HIDE DEF m
  <2> QED
    BY <1>1, <1>2, <2>1, <2>2
<1> HIDE DEF m
<1>6. /\ m \o b \in Seq(S) /\ Len(m \o b) = Len(s) + 1
      /\ \A i \in 1..Len(s) + 1 :
           (m \o b)[i] = IF i <= k + 1 THEN m[i] ELSE b[i - (k + 1)]
  <2>1. /\ m \o b \in Seq(S) /\ Len(m \o b) = Len(m) + Len(b)
        /\ \A i \in 1..Len(m) + Len(b) :
             (m \o b)[i] = IF i <= Len(m) THEN m[i] ELSE b[i - Len(m)]
    BY <1>3, <1>5, ConcatProperties
  <2> QED
    BY <1>1, <1>3, <1>5, <2>1
<1>7. ASSUME NEW i \in 1..Len(s) + 1
      PROVE  (m \o b)[i] =
               IF i <= k THEN s[i] ELSE IF i = k + 1 THEN t ELSE s[i - 1]
  <2>1. CASE i <= k + 1
    <3>1. i \in 1..k + 1
      BY <1>1, <2>1
    <3>2. (m \o b)[i] = m[i]
      BY <1>6, <2>1
    <3> QED
      BY <1>1, <1>5, <3>1, <3>2
  <2>2. CASE i > k + 1
    <3>1. i - (k + 1) \in 1..Len(s) - k /\ k + (i - (k + 1)) = i - 1
      BY <1>1, <2>2
    <3> QED
      BY <1>1, <1>3, <1>6, <2>2, <3>1
  <2>3. i <= k + 1 \/ i > k + 1
    BY <1>1
  <2> QED
    BY <2>1, <2>2, <2>3
<1>8. InsertAt(s, k + 1, t) = m \o b
  BY <1>4 DEF m
<1> DEFINE r == InsertAt(s, k + 1, t)
<1>9. r = m \o b
  BY <1>8
<1> HIDE DEF r
<1>10. /\ r \in Seq(S) /\ Len(r) = Len(s) + 1
       /\ \A i \in 1..Len(s) + 1 :
            r[i] = IF i <= k THEN s[i] ELSE IF i = k + 1 THEN t ELSE s[i - 1]
  BY <1>6, <1>7, <1>9, Zenon
<1> QED
  BY <1>10 DEF r

LEMMA RemoveAtFacts ==
  ASSUME NEW S, NEW s \in Seq(S), NEW p \in 1..Len(s)
  PROVE  /\ RemoveAt(s, p) \in Seq(S)
         /\ Len(RemoveAt(s, p)) = Len(s) - 1
         /\ \A i \in 1..Len(s) - 1 :
              RemoveAt(s, p)[i] = IF i < p THEN s[i] ELSE s[i + 1]
<1> DEFINE a == SubSeq(s, 1, p - 1)
           b == SubSeq(s, p + 1, Len(s))
<1>1. Len(s) \in Nat /\ p \in Nat /\ 1 <= p /\ p <= Len(s) /\ \A i \in 1..Len(s) : s[i] \in S
  OBVIOUS
<1>2. a \in Seq(S) /\ Len(a) = p - 1 /\ \A i \in 1..p - 1 : a[i] = s[i]
  <2>1. \A i \in 1..p - 1 : s[i] \in S
    BY <1>1
  <2>2. /\ a \in Seq(S)
        /\ Len(a) = IF 1 <= p - 1 THEN p - 1 - 1 + 1 ELSE 0
        /\ \A i \in 1..p - 1 - 1 + 1 : a[i] = s[1 + i - 1]
    BY <1>1, <2>1, SubSeqProperties
  <2> HIDE DEF a
  <2>3. 1..p - 1 - 1 + 1 = 1..p - 1 /\ \A i \in 1..p - 1 : 1 + i - 1 = i
    BY <1>1
  <2> QED
    BY <1>1, <2>2, <2>3
<1>3. /\ b \in Seq(S) /\ Len(b) = Len(s) - p
      /\ \A i \in 1..Len(s) - p : b[i] = s[p + i]
  <2>1. \A i \in p + 1..Len(s) : s[i] \in S
    BY <1>1
  <2>2. /\ b \in Seq(S)
        /\ Len(b) = IF p + 1 <= Len(s) THEN Len(s) - (p + 1) + 1 ELSE 0
        /\ \A i \in 1..Len(s) - (p + 1) + 1 : b[i] = s[(p + 1) + i - 1]
    BY <1>1, <2>1, SubSeqProperties
  <2> HIDE DEF b
  <2> QED
    BY <1>1, <2>2
<1>4. RemoveAt(s, p) = a \o b
  BY DEF RemoveAt
<1> HIDE DEF a, b
<1>5. /\ a \o b \in Seq(S) /\ Len(a \o b) = Len(a) + Len(b)
      /\ \A i \in 1..Len(a) + Len(b) :
           (a \o b)[i] = IF i <= Len(a) THEN a[i] ELSE b[i - Len(a)]
  BY <1>2, <1>3, ConcatProperties
<1> QED
  BY <1>1, <1>2, <1>3, <1>4, <1>5

(* The arithmetic of the neighbours in a list.                             *)
LEMMA Split ==
  ASSUME NEW limit \in Nat, NEW d \in Nat, NEW before \in Nat,
         NEW x \in 0..limit, NEW behind, behind = before + x,
         before <= d, behind >= d
  PROVE  x - (d - before) \in 0..limit /\ d + (x - (d - before)) = behind
OBVIOUS

LEMMA Joined ==
  ASSUME NEW limit \in Nat, NEW before \in Nat, NEW x \in Nat, NEW y \in Nat,
         NEW behind, behind = before + x + y, behind <= limit
  PROVE  y + x \in 0..limit /\ behind = before + (y + x)
OBVIOUS

-----------------------------------------------------------------------------
(* A new delay: the others have left what they had.                        *)
LEMMA InsertionFacts ==
  ASSUME NEW S, NEW limit, NEW s, NEW w, IsList(s, w, S, limit),
         NEW t \in S, t \notin Range(s), NEW d \in 0..limit
  PROVE  /\ IsList(Insertion(s, w, t, d), Inserted(s, w, t, d), S, limit)
         /\ Range(Insertion(s, w, t, d)) = Range(s) \cup {t}
         /\ Left(Insertion(s, w, t, d), Inserted(s, w, t, d), S) =
              [Left(s, w, S) EXCEPT ![t] = d]
<1> DEFINE c == Sums(s, w)
           k == Place(s, w, d)
           rest == d - c[k]
           s2 == Insertion(s, w, t, d)
           w2 == Inserted(s, w, t, d)
<1>1. /\ limit \in Nat /\ d \in Nat /\ s \in Seq(S) /\ w \in [S -> 0..limit]
      /\ Len(s) \in Nat
      /\ \A i \in 1..Len(s) : s[i] \in S /\ s[i] # t /\ w[s[i]] \in 0..limit
      /\ \A i, j \in 1..Len(s) : s[i] = s[j] => i = j
      /\ Range(s) = {s[i] : i \in 1..Len(s)}
  <2>1. limit \in Nat /\ s \in Seq(S) /\ w \in [S -> 0..limit]
    BY DEF IsList
  <2>2. Range(s) = {s[i] : i \in 1..Len(s)}
    BY <2>1, RangeEquality
  <2> QED
    BY <2>1, <2>2 DEF IsList, IsInjective
<1>2. /\ c \in [0..Len(s) -> Nat] /\ c[0] = 0
      /\ \A i \in 1..Len(s) : c[i] = c[i - 1] + w[s[i]]
  BY SumsFacts
<1>3. /\ k \in 0..Len(s) /\ k \in Int /\ 0 <= k /\ k <= Len(s)
      /\ k # Len(s) => c[k + 1] >= d
      /\ \A j \in 1..k : c[j] < d
  <2>1. /\ k \in 0..Len(s)
        /\ k # Len(s) => c[k + 1] >= d
        /\ \A j \in 1..k : c[j] < d
    BY <1>1, PlaceFacts
  <2> HIDE DEF k, c
  <2> QED
    BY <1>1, <2>1
<1>4. /\ s2 \in Seq(S) /\ Len(s2) = Len(s) + 1
      /\ \A i \in 1..Len(s) + 1 :
           s2[i] = IF i <= k THEN s[i] ELSE IF i = k + 1 THEN t ELSE s[i - 1]
  <2>1. s2 = InsertAt(s, k + 1, t)
    BY DEF Insertion
  <2> HIDE DEF s2, k
  <2>2. /\ InsertAt(s, k + 1, t) \in Seq(S)
        /\ Len(InsertAt(s, k + 1, t)) = Len(s) + 1
        /\ \A i \in 1..Len(s) + 1 :
             InsertAt(s, k + 1, t)[i] =
               IF i <= k THEN s[i] ELSE IF i = k + 1 THEN t ELSE s[i - 1]
    BY <1>1, <1>3, InsertAtFacts
  <2> QED
    BY <2>1, <2>2, Zenon
<1>5. w2 = [u \in S |-> CASE u = t -> rest
                          [] k < Len(s) /\ u = s[k + 1] -> w[u] - rest
                          [] OTHER -> w[u]]
  BY <1>1 DEF Inserted
<1> HIDE DEF c, k, s2, w2
<1>18. /\ \A i \in 1..k : i \in 1..Len(s2) /\ i \in 1..Len(s) /\ s2[i] = s[i]
       /\ k + 1 \in 1..Len(s2) /\ s2[k + 1] = t
       /\ \A i \in k + 1..Len(s) :
            i \in 1..Len(s) /\ i + 1 \in 1..Len(s2) /\ s2[i + 1] = s[i]
  <2>1. ASSUME NEW i \in 1..k
        PROVE  i \in 1..Len(s2) /\ i \in 1..Len(s) /\ s2[i] = s[i]
    BY <1>1, <1>3, <1>4
  <2>2. k + 1 \in 1..Len(s2) /\ s2[k + 1] = t
    BY <1>1, <1>3, <1>4
  <2>3. ASSUME NEW i \in k + 1..Len(s)
        PROVE  i \in 1..Len(s) /\ i + 1 \in 1..Len(s2) /\ s2[i + 1] = s[i]
    <3>1. /\ i \in 1..Len(s) /\ i + 1 \in 1..Len(s) + 1 /\ ~(i + 1 <= k)
          /\ i + 1 # k + 1 /\ (i + 1) - 1 = i
      BY <1>1, <1>3
    <3> QED
      BY <1>1, <1>3, <1>4, <3>1
  <2> QED
    BY <2>1, <2>2, <2>3
<1>19. ASSUME NEW n \in 1..Len(s2)
       PROVE  n \in 1..k \/ n = k + 1 \/ n - 1 \in k + 1..Len(s)
  BY <1>1, <1>3, <1>4
<1>6. c[k] \in Nat /\ c[k] <= d /\ rest \in 0..limit
  BY <1>1, <1>2, <1>3
<1>7. ASSUME k < Len(s)
      PROVE  w[s[k + 1]] - rest \in 0..limit /\ d + (w[s[k + 1]] - rest) = c[k + 1]
  <2>1. k + 1 \in 1..Len(s) /\ (k + 1) - 1 = k
    BY <1>1, <1>3, <1>7
  <2>2. /\ c[k + 1] = c[k] + w[s[k + 1]] /\ c[k + 1] >= d
        /\ w[s[k + 1]] \in 0..limit
    BY <1>1, <1>2, <1>3, <1>7, <2>1
  <2> HIDE DEF rest
  <2>3. rest = d - c[k] /\ limit \in Nat /\ d \in Nat
    BY <1>1 DEF rest
  <2> QED
    BY <1>6, <2>2, <2>3, Split
<1>8. /\ w2[t] = rest
      /\ k < Len(s) => w2[s[k + 1]] = w[s[k + 1]] - rest
      /\ \A u \in S : u # t /\ ~(k < Len(s) /\ u = s[k + 1]) => w2[u] = w[u]
  <2>1. k < Len(s) => s[k + 1] # t /\ s[k + 1] \in S
    BY <1>1, <1>3
  <2> QED
    BY <1>5, <2>1
<1>9. w2 \in [S -> 0..limit]
  <2>1. ASSUME NEW u \in S PROVE w2[u] \in 0..limit
    <3>1. CASE u = t
      BY <1>6, <1>8, <3>1
    <3>2. CASE k < Len(s) /\ u = s[k + 1]
      BY <1>7, <1>8, <3>2
    <3>3. CASE u # t /\ ~(k < Len(s) /\ u = s[k + 1])
      BY <1>1, <1>8, <3>3
    <3> QED
      BY <3>1, <3>2, <3>3
  <2> QED
    BY <1>5, <2>1
<1>10. ASSUME NEW i \in 1..Len(s2), NEW j \in 1..Len(s2), s2[i] = s2[j]
       PROVE  i = j
  <2>1. /\ i \in Int /\ j \in Int
        /\ i \in 1..k \/ i = k + 1 \/ i - 1 \in k + 1..Len(s)
        /\ j \in 1..k \/ j = k + 1 \/ j - 1 \in k + 1..Len(s)
    BY <1>1, <1>4, <1>19
  <2>2. /\ i - 1 \in k + 1..Len(s) => s2[i] = s[i - 1] /\ i - 1 \in 1..Len(s)
        /\ j - 1 \in k + 1..Len(s) => s2[j] = s[j - 1] /\ j - 1 \in 1..Len(s)
    <3>1. (i - 1) + 1 = i /\ (j - 1) + 1 = j
      BY <2>1
    <3> QED
      BY <1>18, <3>1
  <2>3. CASE i = k + 1 \/ j = k + 1
    BY <1>1, <1>10, <1>18, <2>1, <2>2, <2>3
  <2>4. CASE i \in 1..k
    <3>1. s2[i] = s[i] /\ i \in 1..Len(s)
      BY <1>18, <2>4
    <3>2. CASE j \in 1..k
      <4>1. s2[j] = s[j] /\ j \in 1..Len(s)
        BY <1>18, <3>2
      <4> QED
        BY <1>1, <1>10, <3>1, <4>1
    <3>3. CASE j - 1 \in k + 1..Len(s)
      <4>1. i = j - 1
        BY <1>1, <1>10, <2>2, <3>1, <3>3
      <4> QED
        BY <1>3, <2>1, <2>4, <3>3, <4>1
    <3> QED
      BY <2>1, <2>3, <3>2, <3>3
  <2>5. CASE i - 1 \in k + 1..Len(s)
    <3>1. CASE j \in 1..k
      <4>1. i - 1 = j
        BY <1>1, <1>10, <1>18, <2>2, <2>5, <3>1
      <4> QED
        BY <1>3, <2>1, <2>5, <3>1, <4>1
    <3>2. CASE j - 1 \in k + 1..Len(s)
      <4>1. i - 1 = j - 1
        BY <1>1, <1>10, <2>2, <2>5, <3>2
      <4> QED
        BY <2>1, <4>1
    <3> QED
      BY <2>1, <2>3, <3>1, <3>2
  <2> QED
    BY <2>1, <2>3, <2>4, <2>5
<1>11. IsList(s2, w2, S, limit)
  BY <1>1, <1>4, <1>9, <1>10 DEF IsList, IsInjective
<1>12. Range(s2) = {s2[i] : i \in 1..Len(s2)}
  BY <1>4, RangeEquality
<1>13. Range(s2) = Range(s) \cup {t}
  <2>1. ASSUME NEW i \in 1..Len(s2) PROVE s2[i] \in Range(s) \cup {t}
    <3>1. CASE i - 1 \in k + 1..Len(s)
      <4>1. (i - 1) + 1 = i
        BY <1>1, <1>4
      <4>2. s2[i] = s[i - 1] /\ i - 1 \in 1..Len(s)
        BY <1>18, <3>1, <4>1
      <4> QED
        BY <1>1, <4>2
    <3> QED
      BY <1>1, <1>18, <1>19, <3>1
  <2>2. t \in Range(s2)
    BY <1>12, <1>18
  <2>3. ASSUME NEW i \in 1..Len(s) PROVE s[i] \in Range(s2)
    <3>1. i \in 1..k \/ i \in k + 1..Len(s)
      BY <1>1, <1>3
    <3> QED
      BY <1>12, <1>18, <3>1
  <2>4. \A u \in Range(s2) : u \in Range(s) \cup {t}
    BY <1>12, <2>1
  <2>5. \A u \in Range(s) : u \in Range(s2)
    BY <1>1, <2>3
  <2> QED
    BY <2>2, <2>4, <2>5
<1> DEFINE h == [i \in 0..Len(s) + 1 |->
                   IF i <= k THEN c[i] ELSE IF i = k + 1 THEN d ELSE c[i - 1]]
<1>14. h[0] = 0
  BY <1>1, <1>2, <1>3
<1>15. ASSUME NEW i \in 1..Len(s2) PROVE h[i] = h[i - 1] + w2[s2[i]]
  <2>1. i \in 1..Len(s) + 1 /\ i - 1 \in 0..Len(s) + 1 /\ i \in 0..Len(s) + 1
    BY <1>1, <1>4
  <2>2. CASE i <= k
    <3>1. i \in 1..Len(s) /\ s2[i] = s[i] /\ ~(k < Len(s) /\ s[i] = s[k + 1])
      <4>1. i \in 1..k
        BY <1>3, <2>1, <2>2
      <4>2. k < Len(s) => k + 1 \in 1..Len(s) /\ i # k + 1
        BY <1>1, <1>3, <2>1, <2>2
      <4> QED
        BY <1>1, <1>18, <4>1, <4>2
    <3>2. w2[s2[i]] = w[s[i]]
      BY <1>1, <1>8, <3>1
    <3> QED
      BY <1>2, <1>3, <2>1, <2>2, <3>1, <3>2
  <2>3. CASE i = k + 1
    <3>1. s2[i] = t /\ i - 1 = k
      BY <1>1, <1>3, <1>4, <2>1, <2>3
    <3>2. h[i] = d /\ h[i - 1] = c[k]
      BY <1>1, <1>3, <2>1, <2>3, <3>1
    <3> QED
      BY <1>1, <1>6, <1>8, <3>1, <3>2
  <2>4. CASE i = k + 2
    <3>1. k < Len(s) /\ s2[i] = s[k + 1] /\ i - 1 = k + 1
      BY <1>1, <1>3, <1>4, <2>1, <2>4
    <3>2. h[i] = c[k + 1] /\ h[i - 1] = d
      BY <1>1, <1>3, <2>1, <2>4, <3>1
    <3> QED
      BY <1>7, <1>8, <3>1, <3>2
  <2>5. CASE i > k + 2
    <3>1. /\ i - 1 \in 1..Len(s) /\ k + 1 \in 1..Len(s) /\ i - 1 # k + 1
          /\ s2[i] = s[i - 1]
      <4>1. i - 1 \in k + 1..Len(s) /\ (i - 1) + 1 = i
        BY <1>1, <1>3, <2>1, <2>5
      <4>2. k + 1 \in 1..Len(s) /\ i - 1 # k + 1
        BY <1>1, <1>3, <2>1, <2>5
      <4> QED
        BY <1>18, <4>1, <4>2
    <3>2. w2[s2[i]] = w[s[i - 1]]
      BY <1>1, <1>8, <3>1
    <3>3. h[i] = c[i - 1] /\ h[i - 1] = c[(i - 1) - 1]
      BY <1>1, <1>3, <2>1, <2>5, <3>1
    <3> QED
      BY <1>2, <3>1, <3>2, <3>3
  <2> QED
    BY <1>1, <1>3, <2>1, <2>2, <2>3, <2>4, <2>5
<1>16. \A i \in 0..Len(s2) : Sums(s2, w2)[i] = h[i]
  <2> HIDE DEF h
  <2> QED
    BY <1>11, <1>14, <1>15, SumsUnique
<1>17. Left(s2, w2, S) = [Left(s, w, S) EXCEPT ![t] = d]
  <2> DEFINE L == Left(s, w, S)
             L2 == Left(s2, w2, S)
  <2>1. /\ L = [u \in S |-> L[u]]
        /\ \A u \in S : u \notin Range(s) => L[u] = -1
        /\ \A i \in 1..Len(s) : L[s[i]] = c[i]
    BY <1>1, LeftFacts DEF c
  <2>2. /\ L2 = [u \in S |-> L2[u]]
        /\ \A u \in S : u \notin Range(s2) => L2[u] = -1
        /\ \A i \in 1..Len(s2) : L2[s2[i]] = h[i]
    <3>1. \A i \in 1..Len(s2) : s2[i] \in S /\ i \in 0..Len(s2)
      BY <1>1, <1>4
    <3> HIDE DEF h
    <3>2. /\ Left(s2, w2, S) = [u \in S |-> Left(s2, w2, S)[u]]
          /\ \A u \in S : u \notin Range(s2) => Left(s2, w2, S)[u] = -1
          /\ \A i \in 1..Len(s2) :
               s2[i] \in S => Left(s2, w2, S)[s2[i]] = Sums(s2, w2)[i]
      BY <1>11, LeftFacts
    <3> QED
      BY <1>16, <3>1, <3>2
  <2> HIDE DEF L, L2
  <2>3. L2[t] = d
    <3>1. k + 1 \in 1..Len(s2) /\ s2[k + 1] = t
      BY <1>1, <1>3, <1>4
    <3>2. h[k + 1] = d
      BY <1>1, <1>3
    <3> QED
      BY <2>2, <3>1, <3>2
  <2>4. ASSUME NEW i \in 1..Len(s) PROVE L2[s[i]] = L[s[i]]
    <3>1. CASE i <= k
      <4>1. i \in 1..Len(s2) /\ s2[i] = s[i]
        <5>1. i \in 1..k
          BY <1>3, <3>1
        <5> QED
          BY <1>18, <5>1
      <4>2. h[i] = c[i]
        BY <1>1, <1>3, <3>1
      <4> QED
        BY <2>1, <2>2, <4>1, <4>2
    <3>2. CASE i > k
      <4>1. i + 1 \in 1..Len(s2) /\ s2[i + 1] = s[i]
        <5>1. i \in k + 1..Len(s)
          BY <1>1, <1>3, <3>2
        <5> QED
          BY <1>18, <5>1
      <4>2. h[i + 1] = c[i]
        <5>1. /\ i + 1 \in 0..Len(s) + 1 /\ (i + 1) - 1 = i
              /\ ~(i + 1 <= k) /\ i + 1 # k + 1
          BY <1>1, <1>3, <3>2
        <5> QED
          BY <5>1
      <4> QED
        BY <2>1, <2>2, <4>1, <4>2
    <3> QED
      BY <1>3, <3>1, <3>2
  <2> HIDE DEF h
  <2>5. ASSUME NEW u \in S, u # t PROVE L2[u] = L[u]
    <3>1. CASE u \in Range(s)
      <4>1. PICK i \in 1..Len(s) : u = s[i]
        BY <1>1, <3>1
      <4> QED
        BY <2>4, <4>1
    <3>2. CASE u \notin Range(s)
      <4>1. u \notin Range(s2)
        BY <1>13, <2>5, <3>2
      <4> QED
        BY <2>1, <2>2, <3>2, <4>1
    <3> QED
      BY <3>1, <3>2
  <2>6. L2 = [L EXCEPT ![t] = d]
    BY <2>1, <2>2, <2>3, <2>5
  <2> QED
    BY <2>6 DEF L, L2
<1> QED
  BY <1>11, <1>13, <1>17 DEF s2, w2

(* A delay that ends before its time, or at it: the others have left what  *)
(* they had, since no sum goes beyond the limit.                           *)
LEMMA RemovalFacts ==
  ASSUME NEW S, NEW limit, NEW s, NEW w, IsList(s, w, S, limit),
         NEW t \in Range(s),
         \A u \in Range(s) : Left(s, w, S)[u] <= limit
  PROVE  /\ IsList(RemoveAt(s, Position(s, t)), Removed(s, w, t, limit + 1),
                   S, limit)
         /\ Range(RemoveAt(s, Position(s, t))) = Range(s) \ {t}
         /\ Left(RemoveAt(s, Position(s, t)), Removed(s, w, t, limit + 1), S) =
              [Left(s, w, S) EXCEPT ![t] = -1]
<1> DEFINE c == Sums(s, w)
           p == Position(s, t)
           s2 == RemoveAt(s, p)
           w2 == Removed(s, w, t, limit + 1)
           L == Left(s, w, S)
           L2 == Left(s2, w2, S)
<1>1. /\ limit \in Nat /\ s \in Seq(S) /\ w \in [S -> 0..limit]
      /\ Len(s) \in Nat
      /\ \A i \in 1..Len(s) : s[i] \in S /\ w[s[i]] \in 0..limit
      /\ \A i, j \in 1..Len(s) : s[i] = s[j] => i = j
      /\ Range(s) = {s[i] : i \in 1..Len(s)}
  <2>1. limit \in Nat /\ s \in Seq(S) /\ w \in [S -> 0..limit]
    BY DEF IsList
  <2>2. Range(s) = {s[i] : i \in 1..Len(s)}
    BY <2>1, RangeEquality
  <2> QED
    BY <2>1, <2>2 DEF IsList, IsInjective
<1>2. /\ c \in [0..Len(s) -> Nat] /\ c[0] = 0
      /\ \A i \in 1..Len(s) : c[i] = c[i - 1] + w[s[i]]
  BY SumsFacts
<1>3. /\ L = [u \in S |-> L[u]]
      /\ \A u \in S : u \notin Range(s) => L[u] = -1
      /\ \A i \in 1..Len(s) : L[s[i]] = c[i] /\ c[i] <= limit
  <2>1. /\ L = [u \in S |-> L[u]]
        /\ \A u \in S : u \notin Range(s) => L[u] = -1
        /\ \A i \in 1..Len(s) : s[i] \in S => L[s[i]] = c[i]
    BY LeftFacts
  <2>2. \A u \in Range(s) : L[u] <= limit
    OBVIOUS
  <2> HIDE DEF L, c
  <2> QED
    BY <1>1, <2>1, <2>2
<1>4. /\ p \in 1..Len(s) /\ p \in Int /\ 1 <= p /\ p <= Len(s)
      /\ s[p] = t /\ t \in S
  BY <1>1 DEF Position
<1>5. /\ s2 \in Seq(S) /\ Len(s2) = Len(s) - 1
      /\ \A i \in 1..Len(s) - 1 : s2[i] = IF i < p THEN s[i] ELSE s[i + 1]
  <2> HIDE DEF p
  <2> QED
    BY <1>1, <1>4, RemoveAtFacts
<1>6. w2 = IF p = Len(s) THEN w
           ELSE [w EXCEPT ![s[p + 1]] = (@ + w[t]) % (limit + 1)]
  BY DEF Removed
<1> HIDE DEF c, p, s2, w2, L, L2
<1>7. ASSUME p < Len(s)
      PROVE  /\ p + 1 \in 1..Len(s) /\ s[p + 1] \in S
             /\ w[s[p + 1]] + w[t] \in 0..limit
             /\ (w[s[p + 1]] + w[t]) % (limit + 1) = w[s[p + 1]] + w[t]
             /\ c[p + 1] = c[p - 1] + (w[s[p + 1]] + w[t])
  <2>1. p + 1 \in 1..Len(s) /\ (p + 1) - 1 = p /\ p - 1 \in 0..Len(s)
    BY <1>1, <1>4, <1>7
  <2>2. c[p + 1] = c[p] + w[s[p + 1]] /\ c[p] = c[p - 1] + w[t]
    BY <1>2, <1>4, <2>1
  <2>3. c[p + 1] <= limit /\ c[p - 1] \in Nat /\ c[p] \in Nat
    BY <1>2, <1>3, <1>4, <2>1
  <2>4. w[s[p + 1]] \in Nat /\ w[t] \in Nat
    BY <1>1, <1>4, <2>1
  <2>5. /\ w[s[p + 1]] + w[t] \in 0..limit
        /\ c[p + 1] = c[p - 1] + (w[s[p + 1]] + w[t])
    <3>1. c[p + 1] = c[p - 1] + w[t] + w[s[p + 1]]
      BY <2>2
    <3>2. limit \in Nat
      BY <1>1
    <3> QED
      BY <2>3, <2>4, <3>1, <3>2, Joined
  <2>6. \A x \in 0..limit : x % (limit + 1) = x
    BY <1>1
  <2> QED
    BY <1>1, <2>1, <2>5, <2>6
<1>8. /\ w2 \in [S -> 0..limit]
      /\ p < Len(s) => w2[s[p + 1]] = w[s[p + 1]] + w[t]
      /\ \A u \in S : ~(p < Len(s) /\ u = s[p + 1]) => w2[u] = w[u]
  <2>1. CASE p = Len(s)
    BY <1>1, <1>6, <2>1
  <2>2. CASE p < Len(s)
    BY <1>1, <1>6, <1>7, <2>2
  <2> QED
    BY <1>1, <1>4, <2>1, <2>2
<1>9. /\ \A i \in 1..p - 1 : i \in 1..Len(s2) /\ i \in 1..Len(s) /\ s2[i] = s[i]
      /\ \A i \in p + 1..Len(s) :
           i \in 1..Len(s) /\ i - 1 \in 1..Len(s2) /\ s2[i - 1] = s[i]
      /\ \A i \in 1..Len(s2) : i \in 1..p - 1 \/ i + 1 \in p + 1..Len(s)
  <2>1. ASSUME NEW i \in 1..p - 1
        PROVE  i \in 1..Len(s2) /\ i \in 1..Len(s) /\ s2[i] = s[i]
    BY <1>1, <1>4, <1>5
  <2>2. ASSUME NEW i \in p + 1..Len(s)
        PROVE  i \in 1..Len(s) /\ i - 1 \in 1..Len(s2) /\ s2[i - 1] = s[i]
    <3>1. /\ i \in 1..Len(s) /\ i - 1 \in 1..Len(s) - 1 /\ ~(i - 1 < p)
          /\ (i - 1) + 1 = i
      BY <1>1, <1>4
    <3> QED
      BY <1>5, <3>1
  <2>3. ASSUME NEW i \in 1..Len(s2) PROVE i \in 1..p - 1 \/ i + 1 \in p + 1..Len(s)
    BY <1>1, <1>4, <1>5
  <2> QED
    BY <2>1, <2>2, <2>3
<1>10. ASSUME NEW i \in 1..Len(s2)
       PROVE  /\ i \in Int
              /\ i + 1 \in p + 1..Len(s) => s2[i] = s[i + 1] /\ i + 1 \in 1..Len(s)
  <2>1. i \in Int /\ (i + 1) - 1 = i
    BY <1>1, <1>5
  <2> QED
    BY <1>9, <2>1
<1>11. ASSUME NEW i \in 1..Len(s2), NEW j \in 1..Len(s2), s2[i] = s2[j]
       PROVE  i = j
  <2>1. i \in Int /\ j \in Int
    BY <1>10
  <2>2. CASE i \in 1..p - 1 /\ j \in 1..p - 1
    BY <1>1, <1>9, <1>11, <2>2
  <2>3. CASE i \in 1..p - 1 /\ j + 1 \in p + 1..Len(s)
    <3>1. i = j + 1
      BY <1>1, <1>9, <1>10, <1>11, <2>3
    <3> QED
      BY <1>4, <2>1, <2>3, <3>1
  <2>4. CASE i + 1 \in p + 1..Len(s) /\ j \in 1..p - 1
    <3>1. i + 1 = j
      BY <1>1, <1>9, <1>10, <1>11, <2>4
    <3> QED
      BY <1>4, <2>1, <2>4, <3>1
  <2>5. CASE i + 1 \in p + 1..Len(s) /\ j + 1 \in p + 1..Len(s)
    <3>1. i + 1 = j + 1
      BY <1>1, <1>10, <1>11, <2>5
    <3> QED
      BY <2>1, <3>1
  <2> QED
    BY <1>9, <2>2, <2>3, <2>4, <2>5
<1>12. IsList(s2, w2, S, limit)
  <2>1. DOMAIN s2 = 1..Len(s2)
    BY <1>5
  <2>2. IsInjective(s2)
    BY <1>11, <2>1 DEF IsInjective
  <2> QED
    BY <1>1, <1>5, <1>8, <2>2 DEF IsList
<1>13. Range(s2) = {s2[i] : i \in 1..Len(s2)}
  BY <1>5, RangeEquality
<1>14. Range(s2) = Range(s) \ {t}
  <2>1. ASSUME NEW i \in 1..Len(s2) PROVE s2[i] \in Range(s) \ {t}
    <3>1. CASE i \in 1..p - 1
      <4>1. i # p
        BY <1>4, <3>1
      <4> QED
        BY <1>1, <1>4, <1>9, <3>1, <4>1
    <3>2. CASE i + 1 \in p + 1..Len(s)
      <4>1. i + 1 # p
        BY <1>4, <3>2
      <4> QED
        BY <1>1, <1>4, <1>10, <3>2, <4>1
    <3> QED
      BY <1>9, <3>1, <3>2
  <2>2. ASSUME NEW i \in 1..Len(s), s[i] # t PROVE s[i] \in Range(s2)
    <3>1. i \in 1..p - 1 \/ i \in p + 1..Len(s)
      BY <1>1, <1>4, <2>2
    <3> QED
      BY <1>9, <1>13, <3>1
  <2>3. \A u \in Range(s2) : u \in Range(s) \ {t}
    BY <1>13, <2>1
  <2>4. \A u \in Range(s) \ {t} : u \in Range(s2)
    BY <1>1, <2>2
  <2> QED
    BY <2>3, <2>4
<1> DEFINE h == [i \in 0..Len(s) - 1 |-> IF i < p THEN c[i] ELSE c[i + 1]]
<1>15. h[0] = 0
  BY <1>1, <1>2, <1>4
<1>16. ASSUME NEW i \in 1..Len(s2) PROVE h[i] = h[i - 1] + w2[s2[i]]
  <2>1. /\ i \in Int /\ 1 <= i /\ i <= Len(s) - 1
        /\ i \in 0..Len(s) - 1 /\ i - 1 \in 0..Len(s) - 1
    <3>1. i \in 1..Len(s) - 1
      BY <1>5
    <3> QED
      BY <1>1, <3>1
  <2>2. CASE i < p
    <3>1. i \in 1..p - 1 /\ (p < Len(s) => i # p + 1)
      BY <1>4, <2>1, <2>2
    <3>2. w2[s2[i]] = w[s[i]] /\ i \in 1..Len(s)
      <4>1. i \in 1..Len(s) /\ s2[i] = s[i] /\ s[i] \in S
        BY <1>1, <1>9, <3>1
      <4>2. ~(p < Len(s) /\ s[i] = s[p + 1])
        BY <1>1, <1>7, <3>1, <4>1
      <4> QED
        BY <1>8, <4>1, <4>2
    <3>3. h[i] = c[i] /\ h[i - 1] = c[i - 1]
      BY <1>4, <2>1, <2>2
    <3> QED
      BY <1>2, <3>2, <3>3
  <2>3. CASE i = p
    <3>1. p < Len(s) /\ s2[i] = s[p + 1]
      <4>1. p < Len(s) /\ i + 1 \in p + 1..Len(s)
        BY <1>1, <1>4, <2>1, <2>3
      <4> QED
        BY <1>10, <2>3, <4>1
    <3>2. h[i] = c[p + 1] /\ h[i - 1] = c[p - 1]
      BY <1>4, <2>1, <2>3
    <3> QED
      BY <1>7, <1>8, <3>1, <3>2
  <2>4. CASE i > p
    <3>1. /\ i + 1 \in p + 1..Len(s) /\ i + 1 # p + 1
          /\ (i - 1) + 1 = i /\ (i + 1) - 1 = i
      BY <1>1, <1>4, <1>5, <2>1, <2>4
    <3>2. w2[s2[i]] = w[s[i + 1]] /\ i + 1 \in 1..Len(s)
      <4>1. /\ i + 1 \in 1..Len(s) /\ s2[i] = s[i + 1] /\ s[i + 1] \in S
        BY <1>1, <1>10, <3>1
      <4>2. ~(p < Len(s) /\ s[i + 1] = s[p + 1])
        BY <1>1, <1>7, <3>1, <4>1
      <4> QED
        BY <1>8, <4>1, <4>2
    <3>3. h[i] = c[i + 1] /\ h[i - 1] = c[i]
      BY <1>4, <2>1, <2>4, <3>1
    <3> QED
      BY <1>2, <3>1, <3>2, <3>3
  <2> QED
    BY <1>4, <2>1, <2>2, <2>3, <2>4
<1>17. /\ L2 = [u \in S |-> L2[u]]
       /\ \A u \in S : u \notin Range(s2) => L2[u] = -1
       /\ \A i \in 1..Len(s2) : L2[s2[i]] = h[i]
  <2>1. \A i \in 1..Len(s2) : s2[i] \in S /\ i \in 0..Len(s2)
    BY <1>1, <1>5
  <2> HIDE DEF h
  <2>2. \A i \in 0..Len(s2) : Sums(s2, w2)[i] = h[i]
    BY <1>12, <1>15, <1>16, SumsUnique
  <2>3. /\ L2 = [u \in S |-> L2[u]]
        /\ \A u \in S : u \notin Range(s2) => L2[u] = -1
        /\ \A i \in 1..Len(s2) : s2[i] \in S => L2[s2[i]] = Sums(s2, w2)[i]
    BY <1>12, LeftFacts DEF L2
  <2> QED
    BY <2>1, <2>2, <2>3
<1>18. ASSUME NEW i \in 1..Len(s), s[i] # t PROVE L2[s[i]] = L[s[i]]
  <2>1. CASE i \in 1..p - 1
    <3>1. h[i] = c[i]
      BY <1>1, <1>4, <2>1
    <3>2. i \in 1..Len(s2) /\ s2[i] = s[i]
      BY <1>9, <2>1
    <3> HIDE DEF h
    <3> QED
      BY <1>3, <1>17, <3>1, <3>2
  <2>2. CASE i \in p + 1..Len(s)
    <3>1. h[i - 1] = c[i]
      BY <1>1, <1>4, <2>2
    <3>2. i - 1 \in 1..Len(s2) /\ s2[i - 1] = s[i]
      BY <1>9, <2>2
    <3> HIDE DEF h
    <3> QED
      BY <1>3, <1>17, <3>1, <3>2
  <2> QED
    BY <1>1, <1>4, <1>18, <2>1, <2>2
<1> HIDE DEF h
<1>19. L2[t] = -1
  BY <1>4, <1>14, <1>17
<1>20. ASSUME NEW u \in S, u # t PROVE L2[u] = L[u]
  <2>1. CASE u \in Range(s)
    BY <1>1, <1>18, <1>20, <2>1
  <2>2. CASE u \notin Range(s)
    BY <1>3, <1>14, <1>17, <2>2
  <2> QED
    BY <2>1, <2>2
<1>21. L2 = [L EXCEPT ![t] = -1]
  BY <1>3, <1>17, <1>19, <1>20
<1> QED
  BY <1>12, <1>14, <1>21 DEF L, L2, s2, w2, p

(* The first delay counted: everybody has one less.                        *)
LEMMA CountingFacts ==
  ASSUME NEW S, NEW limit, NEW s, NEW w, IsList(s, w, S, limit),
         s # << >>, w[Head(s)] # 0
  PROVE  /\ IsList(s, [w EXCEPT ![Head(s)] = @ - 1], S, limit)
         /\ Left(s, [w EXCEPT ![Head(s)] = @ - 1], S) =
              [u \in S |-> IF u \in Range(s) THEN Left(s, w, S)[u] - 1 ELSE -1]
<1> DEFINE c == Sums(s, w)
           w2 == [w EXCEPT ![Head(s)] = @ - 1]
           L == Left(s, w, S)
           L2 == Left(s, w2, S)
<1>1. /\ limit \in Nat /\ s \in Seq(S) /\ w \in [S -> 0..limit]
      /\ Len(s) \in Nat /\ Len(s) >= 1 /\ Head(s) = s[1]
      /\ \A i \in 1..Len(s) : s[i] \in S
      /\ \A i, j \in 1..Len(s) : s[i] = s[j] => i = j
      /\ Range(s) = {s[i] : i \in 1..Len(s)}
  <2>1. limit \in Nat /\ s \in Seq(S) /\ w \in [S -> 0..limit]
    BY DEF IsList
  <2>2. Range(s) = {s[i] : i \in 1..Len(s)}
    BY <2>1, RangeEquality
  <2> QED
    BY <2>1, <2>2 DEF IsList, IsInjective
<1>2. /\ c \in [0..Len(s) -> Nat] /\ c[0] = 0
      /\ \A i \in 1..Len(s) : c[i] = c[i - 1] + w[s[i]]
  BY SumsFacts
<1>3. /\ w2 \in [S -> 0..limit] /\ w2[s[1]] = w[s[1]] - 1
      /\ \A i \in 1..Len(s) : i # 1 => w2[s[i]] = w[s[i]]
      /\ \A i \in 1..Len(s) : w[s[i]] \in Nat
  <2>1. s[1] \in S /\ w[s[1]] \in 1..limit
    BY <1>1
  <2> QED
    BY <1>1, <2>1
<1> HIDE DEF c, w2, L, L2
<1>4. IsList(s, w2, S, limit)
  BY <1>3 DEF IsList
<1> DEFINE h == [i \in 0..Len(s) |-> IF i = 0 THEN 0 ELSE c[i] - 1]
<1>5. ASSUME NEW i \in 1..Len(s) PROVE h[i] = h[i - 1] + w2[s[i]]
  <2>1. /\ i \in Int /\ 1 <= i /\ i <= Len(s)
        /\ i \in 0..Len(s) /\ i - 1 \in 0..Len(s)
    BY <1>1
  <2>4. c[i - 1] \in Nat /\ c[i] \in Nat
    BY <1>2, <2>1
  <2>2. CASE i = 1
    <3>1. h[i] = c[i] - 1 /\ h[i - 1] = 0
      BY <2>1, <2>2
    <3> QED
      BY <1>2, <1>3, <2>2, <2>4, <3>1
  <2>3. CASE i # 1
    <3>1. h[i] = c[i] - 1 /\ h[i - 1] = c[i - 1] - 1
      BY <2>1, <2>3
    <3>2. c[i] = c[i - 1] + w[s[i]] /\ w2[s[i]] = w[s[i]] /\ w[s[i]] \in Nat
      BY <1>2, <1>3, <2>3
    <3> QED
      BY <2>4, <3>1, <3>2
  <2> QED
    BY <2>2, <2>3
<1>6. h[0] = 0 /\ \A i \in 1..Len(s) : h[i] = c[i] - 1 /\ i \in 0..Len(s)
  BY <1>1
<1> HIDE DEF h
<1>7. \A i \in 1..Len(s) : Sums(s, w2)[i] = c[i] - 1
  BY <1>4, <1>5, <1>6, SumsUnique
<1>8. /\ \A u \in S : u \notin Range(s) => L[u] = -1
      /\ \A i \in 1..Len(s) : L[s[i]] = c[i]
  BY <1>1, LeftFacts DEF L, c
<1>9. /\ L2 = [u \in S |-> L2[u]]
      /\ \A u \in S : u \notin Range(s) => L2[u] = -1
      /\ \A i \in 1..Len(s) : s[i] \in S => L2[s[i]] = Sums(s, w2)[i]
  BY <1>4, LeftFacts DEF L2
<1>10. \A u \in Range(s) : L2[u] = L[u] - 1
  BY <1>1, <1>7, <1>8, <1>9
<1>11. L2 = [u \in S |-> IF u \in Range(s) THEN L[u] - 1 ELSE -1]
  BY <1>9, <1>10
<1> QED
  BY <1>4, <1>11 DEF L, L2, w2
=============================================================================
