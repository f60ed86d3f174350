--------------------------- MODULE MeshGridProofs ---------------------------
(***************************************************************************)
(* Theorems about the operators of MeshGrid, for any nodes, places, rings  *)
(* and sizes: the searches, the sorts, the slots, the cells of the nodes   *)
(* and of the markers, and the clip to the viewport.                       *)
(***************************************************************************)
EXTENDS MeshGrid, FiniteSetTheorems, FunctionTheorems, TLAPS

-----------------------------------------------------------------------------
(* The least of some numbers.                                              *)
LEMMA LeastOf ==
  ASSUME NEW S \in SUBSET Nat, S # {}
  PROVE  Min(S) \in S /\ \A n \in S : Min(S) <= n
<1>1. PICK x \in S : \A y \in S : ~ (<<y, x>> \in OpToRel(<, Nat))
  BY NatLessThanWellFounded, WFMin, Zenon
<1>2. \A y \in S : x <= y
  <2> SUFFICES ASSUME NEW y \in S PROVE x <= y
    OBVIOUS
  <2>1. x \in Nat /\ y \in Nat /\ <<y, x>> \in Nat \X Nat
    OBVIOUS
  <2>2. ~ (<<y, x>>[1] < <<y, x>>[2])
    BY <1>1, <2>1 DEF OpToRel
  <2> QED BY <2>1, <2>2
<1> QED BY <1>2 DEF Min

(* The elements of a finite set, from the greatest down, as f orders them. *)
Above(S, f, m) == {k \in S : f[k] > f[m]}

LEMMA AboveIsLess ==
  ASSUME NEW S, IsFiniteSet(S), NEW f \in [S -> Nat], NEW m \in S
  PROVE  Cardinality(Above(S, f, m)) \in 0..Cardinality(S) - 1
<1>1. Above(S, f, m) \in SUBSET (S \ {m})
  BY DEF Above
<1>2. /\ IsFiniteSet(S \ {m}) /\ Cardinality(S \ {m}) = Cardinality(S) - 1
      /\ Cardinality(S) \in Nat
  BY FS_RemoveElement, FS_CardinalityType
<1>3. IsFiniteSet(Above(S, f, m)) /\ Cardinality(Above(S, f, m)) <= Cardinality(S \ {m})
  BY <1>1, <1>2, FS_Subset
<1>4. Cardinality(Above(S, f, m)) \in Nat
  BY <1>3, FS_CardinalityType
<1> QED BY <1>2, <1>3, <1>4

LEMMA AboveTellsApart ==
  ASSUME NEW S, IsFiniteSet(S), NEW f \in [S -> Nat], NEW m \in S, NEW n \in S, f[m] < f[n]
  PROVE  Cardinality(Above(S, f, n)) < Cardinality(Above(S, f, m))
<1>1. Above(S, f, n) \in SUBSET Above(S, f, m) /\ n \in Above(S, f, m) /\ n \notin Above(S, f, n)
  BY DEF Above
<1>2. IsFiniteSet(Above(S, f, m)) /\ IsFiniteSet(Above(S, f, n))
  BY FS_Subset DEF Above
<1>3. /\ Cardinality(Above(S, f, n)) <= Cardinality(Above(S, f, m))
      /\ Cardinality(Above(S, f, n)) # Cardinality(Above(S, f, m))
  BY <1>1, <1>2, FS_Subset
<1>4. Cardinality(Above(S, f, n)) \in Nat /\ Cardinality(Above(S, f, m)) \in Nat
  BY <1>2, FS_CardinalityType
<1> QED BY <1>3, <1>4

LEMMA RanksAreAll ==
  ASSUME NEW S, IsFiniteSet(S), NEW f \in [S -> Nat], \A k, l \in S : f[k] = f[l] => k = l
  PROVE  [m \in S |-> Cardinality(Above(S, f, m))] \in Bijection(S, 0..Cardinality(S) - 1)
<1> DEFINE r == [m \in S |-> Cardinality(Above(S, f, m))]
           T == 0..Cardinality(S) - 1
<1>1. r \in [S -> T]
  BY AboveIsLess
<1>2. ASSUME NEW m \in S, NEW n \in S, m # n
      PROVE  r[m] # r[n]
  <2>1. f[m] < f[n] \/ f[n] < f[m]
    BY <1>2
  <2>2. r[m] \in Nat /\ r[n] \in Nat
    BY <1>1
  <2>3. r[m] = Cardinality(Above(S, f, m)) /\ r[n] = Cardinality(Above(S, f, n))
    OBVIOUS
  <2> QED BY <2>1, <2>2, <2>3, AboveTellsApart
<1>3. r \in Injection(S, T)
  BY <1>1, <1>2 DEF Injection, IsInjective
<1>4. IsFiniteSet(T) /\ Cardinality(T) = Cardinality(S)
  <2>1. Cardinality(S) \in Nat
    BY FS_CardinalityType
  <2>2. 0 \in Int /\ Cardinality(S) - 1 \in Int
    BY <2>1
  <2> QED BY <2>1, <2>2, FS_Interval
<1>5. r \in Surjection(S, T)
  BY <1>3, <1>4, FS_Injection
<1> QED BY <1>3, <1>5 DEF Bijection


LEMMA GreatestOf ==
  ASSUME NEW S \in SUBSET Nat, IsFiniteSet(S), S # {}
  PROVE  Max(S) \in S /\ \A n \in S : n <= Max(S)
<1> DEFINE f == [m \in S |-> m]
           r == [m \in S |-> Cardinality(Above(S, f, m))]
<1>1. f \in [S -> Nat] /\ \A k, l \in S : f[k] = f[l] => k = l
  OBVIOUS
<1>2. r \in Bijection(S, 0..Cardinality(S) - 1)
  <2> HIDE DEF f
  <2> QED BY <1>1, RanksAreAll
<1>3. Cardinality(S) \in Nat /\ Cardinality(S) # 0
  BY FS_CardinalityType, FS_EmptySet
<1>4. PICK m \in S : r[m] = 0
  <2>1. 0 \in 0..Cardinality(S) - 1
    BY <1>3
  <2> DEFINE T == 0..Cardinality(S) - 1
  <2> HIDE DEF r, T
  <2>2. \A t \in T : \E m \in S : r[m] = t
    BY <1>2 DEF Bijection, Surjection, T
  <2> QED BY <2>1, <2>2 DEF T
<1>5. Above(S, f, m) = {}
  <2>1. IsFiniteSet(Above(S, f, m)) /\ Cardinality(Above(S, f, m)) = 0
    BY <1>4, FS_Subset DEF Above
  <2> QED BY <2>1, FS_EmptySet
<1>6. \A n \in S : m >= n
  <2>1. \A n \in S : ~(f[n] > f[m])
    BY <1>5 DEF Above
  <2> QED BY <2>1
<1> DEFINE Greatest(x) == \A n \in S : x >= n
<1>7. Max(S) = CHOOSE x \in S : Greatest(x)
  BY DEF Max
<1>8. Max(S) \in S /\ Greatest(Max(S))
  <2> HIDE DEF Greatest
  <2>1. Greatest(m)
    BY <1>6 DEF Greatest
  <2> QED BY <1>7, <2>1
<1> QED BY <1>8

LEMMA ImageIsFinite ==
  ASSUME NEW S, IsFiniteSet(S), NEW T, NEW f \in [S -> T]
  PROVE  IsFiniteSet({f[x] : x \in S})
<1> DEFINE U == {f[x] : x \in S}
<1>1. f \in [S -> U] /\ \A t \in U : \E x \in S : f[x] = t
  OBVIOUS
<1> HIDE DEF U
<1>2. f \in Surjection(S, U)
  BY <1>1 DEF Surjection
<1>3. IsFiniteSet(U)
  BY <1>2, FS_Surjection
<1> QED BY <1>3 DEF U

-----------------------------------------------------------------------------
(* A fold is a CHOOSE of a recursive function; that there is one.          *)

(* A set of numbers that has 0 and what follows each of its own.           *)
LEMMA AllNumbers ==
  ASSUME NEW S \in SUBSET Nat, 0 \in S, \A n \in S : n + 1 \in S
  PROVE  S = Nat
<1> SUFFICES ASSUME Nat \ S # {} PROVE FALSE
  OBVIOUS
<1> DEFINE m == Min(Nat \ S)
<1>1. m \in Nat \ S /\ \A n \in Nat \ S : m <= n
  BY LeastOf
<1>2. m # 0
  BY <1>1
<1> HIDE DEF m
<1>3. m - 1 \in Nat /\ ~ (m <= m - 1)
  BY <1>1, <1>2
<1>4. m - 1 \in S
  BY <1>1, <1>3
<1>5. (m - 1) + 1 \in S
  BY <1>4
<1> QED BY <1>1, <1>5

(* h is defined by recursion on the subsets of S, taking pick[s] from s.   *)
Recursive(h, S, pick, base, F) ==
  h = [s \in SUBSET S |-> IF s = {} THEN base ELSE F[<<h[s \ {pick[s]}], pick[s]>>]]

LEMMA RecursiveIs ==
  ASSUME NEW S, IsFiniteSet(S), NEW pick, \A s \in SUBSET S : s # {} => pick[s] \in s,
         NEW A, NEW base \in A, NEW F \in [A \X S -> A]
  PROVE  \E h \in [SUBSET S -> A] : Recursive(h, S, pick, base, F)
<1> DEFINE next(h) == [s \in SUBSET S |-> IF s = {} THEN base
                                          ELSE F[<<h[s \ {pick[s]}], pick[s]>>]]
           UpTo(n) == {s \in SUBSET S : Cardinality(s) <= n}
           Good == {n \in Nat : \E h \in [SUBSET S -> A] :
                      \A s \in UpTo(n) : h[s] = next(h)[s]}
<1>1. \A h \in [SUBSET S -> A] : next(h) \in [SUBSET S -> A]
  <2> SUFFICES ASSUME NEW h \in [SUBSET S -> A], NEW s \in SUBSET S, s # {}
               PROVE  F[<<h[s \ {pick[s]}], pick[s]>>] \in A
    OBVIOUS
  <2>1. pick[s] \in S /\ s \ {pick[s]} \in SUBSET S
    OBVIOUS
  <2>2. h[s \ {pick[s]}] \in A
    BY <2>1
  <2>3. <<h[s \ {pick[s]}], pick[s]>> \in A \X S
    BY <2>1, <2>2
  <2> QED BY <2>3
<1>2. \A s \in SUBSET S : IsFiniteSet(s) /\ Cardinality(s) \in Nat
  BY FS_Subset, FS_CardinalityType
<1>3. 0 \in Good
  <2> DEFINE h == [s \in SUBSET S |-> base]
  <2>1. \A s \in UpTo(0) : s = {}
    <3> TAKE s \in UpTo(0)
    <3>1. s \in SUBSET S /\ Cardinality(s) <= 0
      OBVIOUS
    <3>2. IsFiniteSet(s) /\ Cardinality(s) = 0
      BY <1>2, <3>1
    <3> QED BY <3>2, FS_EmptySet
  <2>2. \A s \in UpTo(0) : h[s] = next(h)[s]
    BY <2>1
  <2> QED BY <2>2
<1>4. ASSUME NEW n \in Good PROVE n + 1 \in Good
  <2>1. PICK h \in [SUBSET S -> A] : \A s \in UpTo(n) : h[s] = next(h)[s]
    OBVIOUS
  <2> DEFINE g == next(h)
  <2>2. g \in [SUBSET S -> A]
    BY <1>1
  <2>3. ASSUME NEW s \in UpTo(n + 1) PROVE g[s] = next(g)[s]
    <3>1. CASE s = {}
      BY <3>1
    <3>2. CASE s # {}
      <4> DEFINE t == s \ {pick[s]}
      <4>1. s \in SUBSET S /\ pick[s] \in s /\ t \in SUBSET S /\ Cardinality(s) <= n + 1
        BY <3>2
      <4>2. Cardinality(t) = Cardinality(s) - 1 /\ Cardinality(s) \in Nat /\ n \in Nat
        BY <1>2, <4>1, FS_RemoveElement
      <4>3. t \in UpTo(n)
        BY <4>1, <4>2
      <4>4. h[t] = g[t]
        BY <2>1, <4>3
      <4>5. g[s] = F[<<h[t], pick[s]>>] /\ next(g)[s] = F[<<g[t], pick[s]>>]
        BY <3>2, <4>1
      <4> QED BY <4>4, <4>5
    <3> QED BY <3>1, <3>2
  <2> HIDE DEF g, next
  <2>4. n + 1 \in Nat
    OBVIOUS
  <2> QED BY <2>2, <2>3, <2>4
<1>5. Good = Nat
  <2>1. Good \in SUBSET Nat
    OBVIOUS
  <2> HIDE DEF Good
  <2> QED BY <1>3, <1>4, <2>1, AllNumbers
<1>6. Cardinality(S) \in Good
  BY <1>2, <1>5
<1>7. PICK h \in [SUBSET S -> A] : \A s \in UpTo(Cardinality(S)) : h[s] = next(h)[s]
  BY <1>6
<1>8. ASSUME NEW s \in SUBSET S PROVE h[s] = next(h)[s]
  <2>1. Cardinality(s) <= Cardinality(S)
    BY FS_Subset
  <2> HIDE DEF next
  <2> QED BY <1>7, <2>1
<1>9. h = next(h)
  <2>1. next(h) \in [SUBSET S -> A]
    BY <1>1
  <2> HIDE DEF next
  <2> QED BY <1>8, <2>1
<1> QED BY <1>9 DEF Recursive

-----------------------------------------------------------------------------
(* What holds of 0 and of each number after one that it holds of.          *)
LEMMA Reached ==
  ASSUME NEW n \in Nat, NEW P, 0 \in P, \A i \in 1..n : i - 1 \in P => i \in P
  PROVE  \A i \in 0..n : i \in P
<1> DEFINE S == {i \in Nat : i <= n => i \in P}
<1>1. 0 \in S
  OBVIOUS
<1>2. ASSUME NEW i \in S PROVE i + 1 \in S
  <2>1. i \in Nat /\ i + 1 \in Nat /\ (i + 1) - 1 = i
    OBVIOUS
  <2>2. CASE i + 1 <= n
    <3>1. i + 1 \in 1..n /\ i <= n
      BY <2>1, <2>2
    <3>2. i \in P
      BY <3>1
    <3> QED BY <2>1, <3>1, <3>2
  <2>3. CASE ~(i + 1 <= n)
    BY <2>1, <2>3
  <2> QED BY <2>2, <2>3
<1>3. S \in SUBSET Nat
  OBVIOUS
<1> HIDE DEF S
<1>4. S = Nat
  BY <1>1, <1>2, <1>3, AllNumbers
<1> QED BY <1>4 DEF S

LEMMA LastOfPrefix ==
  ASSUME NEW n \in Nat, NEW i \in 1..n
  PROVE  /\ 1..i \in SUBSET (1..n) /\ 1..i # {} /\ Max(1..i) = i
         /\ (1..i) \ {i} = 1..(i - 1) /\ i - 1 \in 0..n /\ i \in 0..n
<1>1. 1..i \in SUBSET Nat /\ IsFiniteSet(1..i) /\ i \in 1..i
  BY FS_Interval
<1>2. Max(1..i) \in 1..i /\ \A m \in 1..i : m <= Max(1..i)
  BY <1>1, GreatestOf
<1>3. Max(1..i) = i
  BY <1>1, <1>2
<1>4. 1..i \in SUBSET (1..n) /\ (1..i) \ {i} = 1..(i - 1) /\ i - 1 \in 0..n /\ i \in 0..n
  OBVIOUS
<1> QED BY <1>1, <1>3, <1>4

(* The recursive function of a fold from the left of n elements.           *)
LEMMA LeftFold ==
  ASSUME NEW n \in Nat, NEW A, NEW base \in A, NEW F \in [A \X (1..n) -> A]
  PROVE  \E h \in [SUBSET (1..n) -> A] :
           /\ h = [s \in SUBSET (1..n) |-> IF s = {} THEN base
                                           ELSE F[<<h[s \ {Max(s)}], Max(s)>>]]
           /\ \A s \in SUBSET (1..n) :
                s # {} => <<h[s \ {Max(s)}], Max(s)>> \in A \X (1..n)
<1> DEFINE S == 1..n
           pick == [s \in SUBSET S |-> Max(s)]
<1>1. IsFiniteSet(S)
  BY FS_Interval
<1>2. \A s \in SUBSET S : s # {} => Max(s) \in s
  <2> SUFFICES ASSUME NEW s \in SUBSET S, s # {} PROVE Max(s) \in s
    OBVIOUS
  <2>1. s \in SUBSET Nat
    OBVIOUS
  <2>3. IsFiniteSet(s)
    <3> HIDE DEF S
    <3> QED BY <1>1, FS_Subset
  <2>2. s \in SUBSET Nat /\ IsFiniteSet(s) /\ s # {}
    BY <2>1, <2>3
  <2> HIDE DEF S
  <2> QED BY <2>2, GreatestOf, Zenon
<1>3. \A s \in SUBSET S : s # {} => pick[s] \in s
  BY <1>2
<1> HIDE DEF S
<1>4. F \in [A \X S -> A]
  BY DEF S
<1>5. PICK h \in [SUBSET S -> A] : Recursive(h, S, pick, base, F)
  <2> HIDE DEF pick
  <2> QED BY <1>1, <1>3, <1>4, RecursiveIs
<1>6. h = [s \in SUBSET S |-> IF s = {} THEN base ELSE F[<<h[s \ {Max(s)}], Max(s)>>]]
  <2>1. h = [s \in SUBSET S |-> IF s = {} THEN base ELSE F[<<h[s \ {pick[s]}], pick[s]>>]]
    BY <1>5 DEF Recursive
  <2>2. \A s \in SUBSET S : pick[s] = Max(s)
    OBVIOUS
  <2> HIDE DEF pick
  <2> QED BY <2>1, <2>2
<1>7. \A s \in SUBSET S : s # {} => <<h[s \ {Max(s)}], Max(s)>> \in A \X S
  <2> TAKE s \in SUBSET S
  <2> HAVE s # {}
  <2>1. Max(s) \in S /\ s \ {Max(s)} \in SUBSET S
    BY <1>2
  <2> QED BY <2>1
<1> QED BY <1>6, <1>7 DEF S

(* The functions from some members of D to V.                              *)
PartialMaps(D, V) == UNION {[d -> V] : d \in SUBSET D}

LEMMA PartialMapsAre ==
  ASSUME NEW D, NEW V, NEW f
  PROVE  f \in PartialMaps(D, V) <=> f \in [DOMAIN f -> V] /\ DOMAIN f \subseteq D
BY DEF PartialMaps

LEMMA PutMaps ==
  ASSUME NEW D, NEW V, NEW f \in PartialMaps(D, V), NEW k \in D, NEW x \in V
  PROVE  put(f, k, x) \in PartialMaps(D, V)
<1>1. f \in [DOMAIN f -> V] /\ DOMAIN f \subseteq D
  BY PartialMapsAre
<1>2. put(f, k, x) \in [DOMAIN f \cup {k} -> V] /\ DOMAIN f \cup {k} \subseteq D
  BY <1>1 DEF put
<1> QED BY <1>2 DEF PartialMaps

LEMMA RangeOfPut ==
  ASSUME NEW f, NEW k, NEW x, k \notin DOMAIN f
  PROVE  Range(put(f, k, x)) = Range(f) \cup {x}
BY DEF Range, put

-----------------------------------------------------------------------------
(* The searches.                                                           *)

Offsets == Int \X Int

LEMMA NearestIs ==
  ASSUME NEW p, NEW span \in Nat, NEW free
  PROVE  /\ nearest(p, span, free) \in free \cup {p}
         /\ p \in free \/ (\E r \in 1..span : Hit(p, r, free)) => nearest(p, span, free) \in free
         /\ p \in free => nearest(p, span, free) = p
<1>1. CASE p \in free
  BY <1>1 DEF nearest
<1>2. CASE p \notin free /\ \A r \in 1..span : ~Hit(p, r, free)
  BY <1>2 DEF nearest
<1>3. CASE p \notin free /\ \E r \in 1..span : Hit(p, r, free)
  <2> DEFINE R == {r \in 1..span : Hit(p, r, free)}
             First(q) == Hit(p, q, free) /\ \A s \in 1..(q - 1) : ~Hit(p, s, free)
             r == CHOOSE q \in 1..span : First(q)
  <2>1. R \in SUBSET Nat /\ R # {}
    BY <1>3
  <2>2. Min(R) \in R /\ \A q \in R : Min(R) <= q
    <3> HIDE DEF R
    <3> QED BY <2>1, LeastOf
  <2> DEFINE m == Min(R)
  <2>3. m \in 1..span /\ Hit(p, m, free)
    BY <2>2
  <2>4. ASSUME NEW s \in 1..(m - 1) PROVE ~Hit(p, s, free)
    <3>1. s \in 1..span /\ ~ (m <= s)
      BY <2>3
    <3> HIDE DEF m
    <3>2. s \notin R
      BY <2>2, <3>1 DEF m
    <3> QED BY <3>1, <3>2
  <2>5. First(m)
    BY <2>3, <2>4
  <2>6. r \in 1..span /\ First(r)
    <3> HIDE DEF First, m
    <3> QED BY <2>3, <2>5
  <2> HIDE DEF r, R
  <2> DEFINE n == 8 * r + 4
             I == {i \in 1..n : on_ring(p, r, i) \in free}
             FirstOn(j) == on_ring(p, r, j) \in free /\ \A k \in 1..(j - 1) : on_ring(p, r, k) \notin free
             i == CHOOSE j \in 1..n : FirstOn(j)
  <2>7. n \in Nat
    BY <2>6
  <2>8. I # {}
    BY <2>6 DEF Hit
  <2>9. nearest(p, span, free) = on_ring(p, r, i)
    BY <1>3 DEF nearest, r
  <2> HIDE DEF n
  <2>10. I \in SUBSET Nat
    BY <2>7
  <2>11. Min(I) \in I /\ \A j \in I : Min(I) <= j
    <3> HIDE DEF I
    <3> QED BY <2>8, <2>10, LeastOf
  <2> DEFINE k == Min(I)
  <2>12. k \in 1..n /\ on_ring(p, r, k) \in free
    BY <2>11
  <2>13. ASSUME NEW j \in 1..(k - 1) PROVE on_ring(p, r, j) \notin free
    <3>1. j \in 1..n /\ ~ (k <= j)
      BY <2>7, <2>12
    <3> HIDE DEF k
    <3>2. j \notin I
      BY <2>11, <3>1 DEF k
    <3> QED BY <3>1, <3>2
  <2>14. FirstOn(k)
    BY <2>12, <2>13
  <2>15. i \in 1..n /\ FirstOn(i)
    <3> HIDE DEF FirstOn, k
    <3> QED BY <2>12, <2>14
  <2>16. on_ring(p, r, i) \in free
    BY <2>15
  <2> HIDE DEF i
  <2> QED BY <1>3, <2>9, <2>16
<1> QED BY <1>1, <1>2, <1>3

LEMMA SquareRing ==
  ASSUME NEW r \in Nat, r # 0, NEW a \in -r..r, NEW b \in -r..r,
         abs_value(a) = r \/ abs_value(b) = r
  PROVE  \E i \in 1..(8 * r + 4) : square_ring(r, i) = <<a, b>>
<1>1. a = r \/ a = -r \/ b = r \/ b = -r
  BY DEF abs_value
<1>2. CASE b = -r
  <2> DEFINE k == a + r + 1
  <2>1. k \in 1..(2 * r + 1) /\ k + 4 \in 1..(8 * r + 4) /\ (k + 4) - 4 = k /\ k - 1 - r = a
    OBVIOUS
  <2>2. k + 4 # 1 /\ k + 4 # 2 /\ k + 4 # 3 /\ k + 4 # 4
    OBVIOUS
  <2> HIDE DEF k
  <2>3. square_ring(r, k + 4) = <<a, b>>
    BY <1>2, <2>1, <2>2 DEF square_ring
  <2> QED BY <2>1, <2>3
<1>3. CASE a = r /\ b # -r
  <2> DEFINE k == b + 3 * r + 1
  <2>1. /\ k \in (2 * r + 2)..(4 * r + 1) /\ k \notin 1..(2 * r + 1)
        /\ k + 4 \in 1..(8 * r + 4) /\ (k + 4) - 4 = k /\ k - 3 * r - 1 = b
    BY <1>3
  <2>2. k + 4 # 1 /\ k + 4 # 2 /\ k + 4 # 3 /\ k + 4 # 4
    BY <1>3
  <2> HIDE DEF k
  <2>3. square_ring(r, k + 4) = <<a, b>>
    BY <1>3, <2>1, <2>2 DEF square_ring
  <2> QED BY <2>1, <2>3
<1>4. CASE b = r /\ a # r
  <2> DEFINE k == 5 * r + 1 - a
  <2>1. /\ k \in (4 * r + 2)..(6 * r + 1) /\ k \notin 1..(2 * r + 1)
        /\ k \notin (2 * r + 2)..(4 * r + 1)
        /\ k + 4 \in 1..(8 * r + 4) /\ (k + 4) - 4 = k /\ 5 * r + 1 - k = a
    BY <1>4
  <2>2. k + 4 # 1 /\ k + 4 # 2 /\ k + 4 # 3 /\ k + 4 # 4
    BY <1>4
  <2> HIDE DEF k
  <2>3. square_ring(r, k + 4) = <<a, b>>
    BY <1>4, <2>1, <2>2 DEF square_ring
  <2> QED BY <2>1, <2>3
<1>5. CASE a = -r /\ b # r /\ b # -r
  <2> DEFINE k == 7 * r + 1 - b
  <2>1. /\ k \in (6 * r + 2)..(8 * r) /\ k \notin 1..(2 * r + 1)
        /\ k \notin (2 * r + 2)..(4 * r + 1) /\ k \notin (4 * r + 2)..(6 * r + 1)
        /\ k + 4 \in 1..(8 * r + 4) /\ (k + 4) - 4 = k /\ 7 * r + 1 - k = b
    BY <1>5
  <2>2. k + 4 # 1 /\ k + 4 # 2 /\ k + 4 # 3 /\ k + 4 # 4
    BY <1>5
  <2> HIDE DEF k
  <2>3. square_ring(r, k + 4) = <<a, b>>
    BY <1>5, <2>1, <2>2 DEF square_ring
  <2> QED BY <2>1, <2>3
<1> QED BY <1>1, <1>2, <1>3, <1>4, <1>5

(* The search finds what is free within its span.                          *)
LEMMA NearestFinds ==
  ASSUME NEW p \in Offsets, NEW span \in Nat, NEW free, NEW c \in Offsets, c \in free,
         c[1] - p[1] \in -span..span, c[2] - p[2] \in -span..span
  PROVE  nearest(p, span, free) \in free
<1>1. CASE c = p
  BY <1>1, NearestIs
<1>2. CASE c # p
  <2> DEFINE a == c[1] - p[1]
             b == c[2] - p[2]
  <2>1. /\ p[1] \in Int /\ p[2] \in Int /\ c[1] \in Int /\ c[2] \in Int
        /\ c = <<c[1], c[2]>> /\ p = <<p[1], p[2]>>
    BY DEF Offsets
  <2>2. a \in -span..span /\ b \in -span..span /\ p[1] + a = c[1] /\ p[2] + b = c[2]
    BY <2>1
  <2>3. a # 0 \/ b # 0
    BY <1>2, <2>1
  <2> HIDE DEF a, b
  <2>4. abs_value(a) \in 0..span /\ abs_value(b) \in 0..span
    BY <2>2 DEF abs_value
  <2> DEFINE r == IF abs_value(a) < abs_value(b) THEN abs_value(b) ELSE abs_value(a)
  <2>5. /\ r \in 1..span /\ a \in -r..r /\ b \in -r..r
        /\ abs_value(a) = r \/ abs_value(b) = r
    BY <2>2, <2>3, <2>4 DEF abs_value
  <2> HIDE DEF r
  <2>6. PICK i \in 1..(8 * r + 4) : square_ring(r, i) = <<a, b>>
    BY <2>5, SquareRing
  <2>7. on_ring(p, r, i) = c
    BY <2>1, <2>2, <2>6 DEF on_ring
  <2>8. Hit(p, r, free)
    BY <2>7 DEF Hit
  <2> QED BY <2>5, <2>8, NearestIs
<1> QED BY <1>1, <1>2

Measures == (Nat \ {0}) \X (Nat \ {0})

LEMMA CellsAre ==
  ASSUME NEW size \in Measures
  PROVE  /\ IsFiniteSet(Cells(size)) /\ Cardinality(Cells(size)) = size[1] * size[2]
         /\ Cells(size) \subseteq Offsets
         /\ size[1] \in Nat /\ size[2] \in Nat /\ size[1] # 0 /\ size[2] # 0
<1>1. size[1] \in Nat \ {0} /\ size[2] \in Nat \ {0}
  BY DEF Measures
<1>2. /\ IsFiniteSet(1..size[1]) /\ Cardinality(1..size[1]) = size[1]
      /\ IsFiniteSet(1..size[2]) /\ Cardinality(1..size[2]) = size[2]
  <2> SUFFICES ASSUME NEW n \in Nat \ {0}
               PROVE  IsFiniteSet(1..n) /\ Cardinality(1..n) = n
    BY <1>1
  <2>1. 1 \in Int /\ n \in Int
    OBVIOUS
  <2>2. IsFiniteSet(1..n) /\ Cardinality(1..n) = IF 1 > n THEN 0 ELSE n - 1 + 1
    BY <2>1, FS_Interval, Zenon
  <2>3. (IF 1 > n THEN 0 ELSE n - 1 + 1) = n
    OBVIOUS
  <2> QED BY <2>2, <2>3
<1>3. Cells(size) \subseteq Offsets
  BY <1>1 DEF Cells, Offsets
<1> DEFINE S == 1..size[1]
           T == 1..size[2]
<1>4. IsFiniteSet(S \X T) /\ Cardinality(S \X T) = size[1] * size[2]
  <2> HIDE DEF S, T
  <2>1. IsFiniteSet(S \X T) /\ Cardinality(S \X T) = Cardinality(S) * Cardinality(T)
    BY <1>2, FS_Product, Zenon DEF S, T
  <2> QED BY <1>2, <2>1, Zenon DEF S, T
<1>5. Cells(size) = S \X T
  BY DEF Cells
<1> HIDE DEF S, T
<1> QED BY <1>1, <1>3, <1>4, <1>5

LEMMA RoomIsLeft ==
  ASSUME NEW S, IsFiniteSet(S), NEW T, IsFiniteSet(T), Cardinality(T) < Cardinality(S)
  PROVE  S \ T # {}
<1> SUFFICES ASSUME S \ T = {} PROVE FALSE
  OBVIOUS
<1>1. S \in SUBSET T
  OBVIOUS
<1>2. Cardinality(S) <= Cardinality(T) /\ Cardinality(S) \in Nat /\ Cardinality(T) \in Nat
  BY <1>1, FS_Subset, FS_CardinalityType
<1> QED BY <1>2

(* Within the bounds a free cell is found if there is one.                 *)
LEMMA BoundedCell ==
  ASSUME NEW size \in Measures, NEW p \in Cells(size), NEW occupied
  PROVE  /\ reserve_bounded_cell(p, occupied, size) \in Cells(size)
         /\ ~(Cells(size) \subseteq occupied) =>
              reserve_bounded_cell(p, occupied, size) \notin occupied
         /\ p \notin occupied => reserve_bounded_cell(p, occupied, size) = p
<1> DEFINE span == size[1] + size[2]
           free == Cells(size) \ occupied
<1>1. /\ size[1] \in Nat /\ size[2] \in Nat /\ span \in Nat /\ p \in Offsets
      /\ size[1] # 0 /\ size[2] # 0
  BY CellsAre
<1>2. reserve_bounded_cell(p, occupied, size) = nearest(p, span, free)
  BY DEF reserve_bounded_cell
<1>3. ASSUME NEW c \in free PROVE nearest(p, span, free) \in free
  <2>1. c \in Offsets
    BY CellsAre
  <2>2. c[1] \in 1..size[1] /\ c[2] \in 1..size[2] /\ p[1] \in 1..size[1] /\ p[2] \in 1..size[2]
    BY DEF Cells
  <2>3. c[1] - p[1] \in -span..span /\ c[2] - p[2] \in -span..span
    BY <1>1, <2>2
  <2> HIDE DEF span, free
  <2> QED BY <1>1, <2>1, <2>3, NearestFinds
<1>4. nearest(p, span, free) \in free \cup {p} /\ (p \in free => nearest(p, span, free) = p)
  <2> HIDE DEF span, free
  <2> QED BY <1>1, NearestIs
<1> HIDE DEF span
<1> QED BY <1>2, <1>3, <1>4

LEMMA EdgeCell ==
  ASSUME NEW size \in Measures, NEW p \in Cells(size), NEW occupied
  PROVE  /\ reserve_edge_cell(p, occupied, size) \in Cells(size)
         /\ ~(Cells(size) \subseteq occupied) =>
              reserve_edge_cell(p, occupied, size) \notin occupied
<1> DEFINE edge == nearest(p, size[1] + size[2], EdgeCells(size) \ occupied)
<1>1. size[1] + size[2] \in Nat
  BY CellsAre
<1>2. edge \in (EdgeCells(size) \ occupied) \cup {p}
  <2> DEFINE span == size[1] + size[2]
             free == EdgeCells(size) \ occupied
  <2>1. span \in Nat
    BY <1>1
  <2>2. edge = nearest(p, span, free)
    OBVIOUS
  <2> HIDE DEF span, free, edge
  <2>3. edge \in free \cup {p}
    BY <2>1, <2>2, NearestIs
  <2> QED BY <2>3 DEF free
<1>3. EdgeCells(size) \subseteq Cells(size)
  BY DEF EdgeCells
<1>4. edge \in Cells(size)
  BY <1>2, <1>3
<1>5. reserve_edge_cell(p, occupied, size) =
        IF edge \in occupied THEN reserve_bounded_cell(p, occupied, size) ELSE edge
  BY DEF reserve_edge_cell
<1> HIDE DEF edge
<1> QED BY <1>4, <1>5, BoundedCell

LEMMA FreeWithin ==
  ASSUME NEW p \in Offsets, NEW span \in Nat, NEW occupied,
         IsFiniteSet(occupied), Cardinality(occupied) < span
  PROVE  nearest(p, span, Offsets \ occupied) \in Offsets \ occupied
<1> DEFINE above == [i \in 1..span |-> <<p[1], p[2] - i>>]
           S == 1..span
<1>1. p[1] \in Int /\ p[2] \in Int
  BY DEF Offsets
<1>2. IsFiniteSet(S) /\ Cardinality(S) = span
  <2>1. 0 \in Nat /\ 1 \in Int /\ span \in Int /\ (span # 0 => ~(1 > span)) /\ span - 1 + 1 = span
    OBVIOUS
  <2>2. span # 0
    BY FS_CardinalityType
  <2> QED BY <2>1, <2>2, FS_Interval
<1>3. PICK i \in S : above[i] \notin occupied
  <2> SUFFICES ASSUME \A i \in S : above[i] \in occupied PROVE FALSE
    OBVIOUS
  <2>1. above \in [S -> occupied]
    OBVIOUS
  <2>2. \A i, j \in S : above[i] = above[j] => i = j
    BY <1>1
  <2> HIDE DEF above, S
  <2>3. above \in Injection(S, occupied)
    BY <2>1, <2>2 DEF Injection, IsInjective
  <2>4. Cardinality(S) <= Cardinality(occupied)
    BY <2>3, FS_Injection
  <2>5. Cardinality(occupied) \in Nat
    BY FS_CardinalityType
  <2> QED BY <1>2, <2>4, <2>5
<1>4. above[i] \in Offsets /\ above[i] \in Offsets \ occupied
  BY <1>1, <1>3 DEF Offsets
<1>5. above[i][1] - p[1] \in -span..span /\ above[i][2] - p[2] \in -span..span
  BY <1>1
<1> HIDE DEF above
<1> DEFINE free == Offsets \ occupied
<1> HIDE DEF free
<1>6. nearest(p, span, free) \in free
  BY <1>4, <1>5, NearestFinds DEF free
<1> QED BY <1>6 DEF free

(* And a free slot is within 4095 steps, unless there are as many nodes.   *)
LEMMA ReservedSlot ==
  ASSUME NEW p \in Offsets, NEW occupied
  PROVE  /\ reserve_slot(p, occupied) \in Offsets
         /\ IsFiniteSet(occupied) /\ Cardinality(occupied) < 4095 =>
              reserve_slot(p, occupied) \notin occupied
         /\ p \notin occupied => reserve_slot(p, occupied) = p
<1> DEFINE span == 4095
           free == Offsets \ occupied
<1>1. span \in Nat
  OBVIOUS
<1>2. reserve_slot(p, occupied) = nearest(p, span, free)
  BY DEF reserve_slot, Offsets
<1>3. IsFiniteSet(occupied) /\ Cardinality(occupied) < 4095 => Cardinality(occupied) < span
  OBVIOUS
<1> HIDE DEF span
<1>4. nearest(p, span, free) \in free \cup {p} /\ (p \in free => nearest(p, span, free) = p)
  <2> HIDE DEF free
  <2> QED BY <1>1, NearestIs
<1>5. ASSUME IsFiniteSet(occupied), Cardinality(occupied) < 4095
      PROVE  nearest(p, span, free) \in free
  BY <1>1, <1>3, <1>5, FreeWithin
<1>6. \A q \in free : q \notin occupied /\ q \in Offsets
  OBVIOUS
<1>7. p \notin occupied => p \in free
  OBVIOUS
<1> HIDE DEF free
<1> QED BY <1>2, <1>4, <1>5, <1>6, <1>7

-----------------------------------------------------------------------------
(* Sorting: in_order gives each member of the set its place.               *)

Keys(length) == {q \in Seq(Int) : Len(q) = length}

LEMMA EarlierIsTotal ==
  ASSUME NEW length \in Nat, NEW a \in Keys(length), NEW b \in Keys(length), a # b
  PROVE  Earlier(a, b) \/ Earlier(b, a)
<1> DEFINE D == {i \in 1..length : a[i] # b[i]}
<1>1. /\ a \in [1..length -> Int] /\ b \in [1..length -> Int]
      /\ Len(a) = length /\ Len(b) = length
  BY DEF Keys
<1>2. D # {} /\ D \in SUBSET Nat
  <2>1. \E i \in 1..length : a[i] # b[i]
    BY <1>1
  <2> QED BY <2>1
<1> DEFINE m == Min(D)
<1>3. m \in D /\ \A i \in D : m <= i
  <2> HIDE DEF D
  <2> QED BY <1>2, LeastOf
<1>4. m \in 1..length /\ a[m] # b[m] /\ a[m] \in Int /\ b[m] \in Int
  BY <1>1, <1>3
<1>5. ASSUME NEW i \in 1..(m - 1) PROVE a[i] = b[i]
  <2>1. i \in 1..length /\ ~(m <= i)
    BY <1>4
  <2> HIDE DEF m
  <2> QED BY <1>3, <2>1
<1>6. a[m] < b[m] \/ b[m] < a[m]
  BY <1>4
<1> HIDE DEF m, D
<1> QED BY <1>1, <1>4, <1>5, <1>6 DEF Earlier

LEMMA EarlierIsStrict ==
  ASSUME NEW length \in Nat, NEW a \in Keys(length)
  PROVE  ~Earlier(a, a)
<1>1. \A i \in 1..Len(a) : a[i] \in Int
  BY DEF Keys
<1> QED BY <1>1 DEF Earlier

LEMMA EarlierIsTransitive ==
  ASSUME NEW length \in Nat, NEW a \in Keys(length), NEW b \in Keys(length),
         NEW c \in Keys(length), Earlier(a, b), Earlier(b, c)
  PROVE  Earlier(a, c)
<1>1. /\ Len(a) = length /\ Len(b) = length
      /\ \A i \in 1..length : a[i] \in Int /\ b[i] \in Int /\ c[i] \in Int
  BY DEF Keys
<1>2. PICK i \in 1..length : a[i] < b[i] /\ \A j \in 1..(i - 1) : a[j] = b[j]
  BY <1>1 DEF Earlier
<1>3. PICK k \in 1..length : b[k] < c[k] /\ \A j \in 1..(k - 1) : b[j] = c[j]
  BY <1>1 DEF Earlier
<1>4. CASE i < k
  <2>1. i \in 1..(k - 1) /\ \A j \in 1..(i - 1) : j \in 1..(k - 1)
    BY <1>4
  <2>2. b[i] = c[i] /\ \A j \in 1..(i - 1) : a[j] = c[j]
    BY <1>2, <1>3, <2>1
  <2> QED BY <1>1, <1>2, <2>2 DEF Earlier
<1>5. CASE k < i
  <2>1. k \in 1..(i - 1) /\ \A j \in 1..(k - 1) : j \in 1..(i - 1)
    BY <1>5
  <2>2. a[k] = b[k] /\ \A j \in 1..(k - 1) : a[j] = c[j]
    BY <1>2, <1>3, <2>1
  <2> QED BY <1>1, <1>3, <2>2 DEF Earlier
<1>6. CASE i = k
  <2>1. a[i] < c[i] /\ \A j \in 1..(i - 1) : a[j] = c[j]
    BY <1>1, <1>2, <1>3, <1>6
  <2> QED BY <1>1, <2>1 DEF Earlier
<1> QED BY <1>4, <1>5, <1>6

Apart(f) == \A m, n \in DOMAIN f : f[m] = f[n] => m = n

Sorts(order, S, key) ==
  /\ Cardinality(S) \in Nat
  /\ order \in Bijection(1..Cardinality(S), S)
  /\ \A i \in 1..Cardinality(S) : Cardinality(earlier(S, key, order[i])) = i - 1

(* in_order sorts a finite set whose members have distinct keys.           *)
THEOREM SortedBy ==
  ASSUME NEW S, IsFiniteSet(S), NEW length \in Nat, NEW key, \A m \in S : key[m] \in Keys(length),
         \A m, n \in S : key[m] = key[n] => m = n
  PROVE  Sorts(in_order(S, key), S, key)
<1> DEFINE N == Cardinality(S)
           e(m) == earlier(S, key, m)
           r == [m \in S |-> Cardinality(e(m))]
           T == 0..(N - 1)
<1>1. N \in Nat
  BY FS_CardinalityType
<1>2. ASSUME NEW m \in S
      PROVE  /\ e(m) \in SUBSET (S \ {m}) /\ IsFiniteSet(e(m)) /\ Cardinality(e(m)) \in Nat
             /\ Cardinality(e(m)) \in T
  <2>1. ~Earlier(key[m], key[m])
    BY EarlierIsStrict
  <2>2. e(m) \in SUBSET (S \ {m})
    BY <2>1 DEF earlier
  <2>3. IsFiniteSet(S \ {m}) /\ Cardinality(S \ {m}) = N - 1
    BY FS_RemoveElement
  <2> HIDE DEF e
  <2>4. IsFiniteSet(e(m)) /\ Cardinality(e(m)) <= Cardinality(S \ {m})
    BY <2>2, <2>3, FS_Subset
  <2>5. Cardinality(e(m)) \in Nat
    BY <2>4, FS_CardinalityType
  <2> QED BY <1>1, <2>2, <2>3, <2>4, <2>5
<1>3. ASSUME NEW m \in S, NEW n \in S, Earlier(key[m], key[n])
      PROVE  Cardinality(e(m)) < Cardinality(e(n))
  <2>1. e(m) \in SUBSET e(n)
    <3> SUFFICES ASSUME NEW k \in S, Earlier(key[k], key[m]) PROVE Earlier(key[k], key[n])
      BY DEF earlier
    <3> QED BY <1>3, EarlierIsTransitive
  <2>2. m \in e(n) /\ m \notin e(m)
    BY <1>2, <1>3 DEF earlier
  <2> HIDE DEF e
  <2>3. /\ Cardinality(e(m)) <= Cardinality(e(n))
        /\ Cardinality(e(m)) # Cardinality(e(n))
    BY <1>2, <2>1, <2>2, FS_Subset
  <2> QED BY <1>2, <2>3
<1>4. ASSUME NEW m \in S, NEW n \in S, m # n
      PROVE  r[m] # r[n]
  <2>1. Earlier(key[m], key[n]) \/ Earlier(key[n], key[m])
    <3>1. key[m] # key[n]
      BY <1>4
    <3> QED BY <3>1, EarlierIsTotal
  <2>2. Cardinality(e(m)) \in Nat /\ Cardinality(e(n)) \in Nat
    BY <1>2
  <2>3. r[m] = Cardinality(e(m)) /\ r[n] = Cardinality(e(n))
    OBVIOUS
  <2> HIDE DEF e, r
  <2> QED BY <1>3, <2>1, <2>2, <2>3
<1>5. r \in [S -> T]
  BY <1>2
<1>6. r \in Injection(S, T)
  <2> HIDE DEF r, T
  <2> QED BY <1>4, <1>5 DEF Injection, IsInjective
<1>7. IsFiniteSet(T) /\ Cardinality(T) = N
  <2>1. 0 \in Int /\ N - 1 \in Int
    BY <1>1
  <2> QED BY <1>1, <2>1, FS_Interval
<1>8. \A t \in T : \E m \in S : r[m] = t
  <2> HIDE DEF r, T
  <2>1. r \in Surjection(S, T)
    BY <1>6, <1>7, FS_Injection
  <2> QED BY <2>1 DEF Surjection
<1> DEFINE o == in_order(S, key)
           AtPlace(i, n) == Cardinality(e(n)) = i - 1
<1>9. \A i \in 1..N : o[i] = CHOOSE n \in S : AtPlace(i, n)
  BY DEF in_order
<1>10. DOMAIN o = 1..N
  BY DEF in_order
<1>11. ASSUME NEW i \in 1..N PROVE o[i] \in S /\ AtPlace(i, o[i])
  <2>1. i - 1 \in T
    BY <1>1
  <2>2. PICK m \in S : r[m] = i - 1
    BY <1>8, <2>1
  <2>3. AtPlace(i, m)
    BY <2>2
  <2> HIDE DEF AtPlace, o
  <2> QED BY <1>9, <2>3
<1>12. ASSUME NEW n \in S PROVE \E i \in 1..N : o[i] = n
  <2> DEFINE i == r[n] + 1
  <2>1. i \in 1..N /\ i - 1 = r[n] /\ r[n] = Cardinality(e(n))
    BY <1>1, <1>2
  <2> HIDE DEF i, o
  <2>2. o[i] \in S /\ AtPlace(i, o[i])
    BY <1>11, <2>1
  <2>3. r[o[i]] = r[n]
    BY <2>1, <2>2
  <2> HIDE DEF r
  <2> QED BY <1>4, <2>1, <2>2, <2>3
<1>13. ASSUME NEW i \in 1..N, NEW j \in 1..N, o[i] = o[j] PROVE i = j
  <2>1. i - 1 = j - 1
    <3> HIDE DEF o
    <3> QED BY <1>11, <1>13
  <2> QED BY <1>1, <2>1
<1>14. o = [i \in 1..N |-> o[i]]
  BY DEF in_order
<1> HIDE DEF o
<1>15. o \in [1..N -> S]
  BY <1>11, <1>14
<1>16. o \in Bijection(1..N, S)
  BY <1>12, <1>13, <1>15 DEF Bijection, Injection, Surjection, IsInjective
<1> QED BY <1>1, <1>11, <1>16 DEF o, Sorts

LEMMA SortedIs ==
  ASSUME NEW S, IsFiniteSet(S), NEW length \in Nat, NEW key, key \in [S -> Keys(length)],
         Apart(key)
  PROVE  Sorts(in_order(S, key), S, key)
<1>1. \A m \in S : key[m] \in Keys(length)
  OBVIOUS
<1>2. \A m, n \in S : key[m] = key[n] => m = n
  BY DEF Apart
<1> QED BY <1>1, <1>2, SortedBy

-----------------------------------------------------------------------------
(* Filling the cells of V one by one: g[i] is g[i - 1] with order[i] put   *)
(* into a cell, a free one if there is any.                                *)

Settles(before, after, k, V) ==
  \E c \in V : /\ after = put(before, k, c)
               /\ ~(V \subseteq Range(before)) => c \notin Range(before)

Fills(g, n, order, V) == \A i \in 1..n : Settles(g[i - 1], g[i], order[i], V)

FirstOf(order, i) == {order[j] : j \in 1..i}

LEMMA FirstOfNext ==
  ASSUME NEW n \in Nat, NEW order, NEW i \in 1..n
  PROVE  FirstOf(order, i) = FirstOf(order, i - 1) \cup {order[i]}
<1>1. 1..i = (1..(i - 1)) \cup {i}
  OBVIOUS
<1> QED BY <1>1 DEF FirstOf

LEMMA RangeIsFinite ==
  ASSUME NEW D, IsFiniteSet(D), NEW f, DOMAIN f = D
  PROVE  IsFiniteSet(Range(f)) /\ Cardinality(Range(f)) <= Cardinality(D)
<1> DEFINE R == Range(f)
           h == [m \in D |-> f[m]]
<1>1. h \in [D -> R] /\ \A x \in R : \E m \in D : h[m] = x
  BY DEF Range
<1> HIDE DEF R, h
<1>2. h \in Surjection(D, R)
  BY <1>1 DEF Surjection
<1> QED BY <1>2, FS_Surjection DEF R

LEMMA FilledDomain ==
  ASSUME NEW n \in Nat, NEW order, NEW V, NEW g, Fills(g, n, order, V)
  PROVE  \A i \in 0..n : DOMAIN g[i] = DOMAIN g[0] \cup FirstOf(order, i)
<1> DEFINE P == {i \in 0..n : DOMAIN g[i] = DOMAIN g[0] \cup FirstOf(order, i)}
<1>1. 0 \in P
  <2>1. FirstOf(order, 0) = {}
    BY DEF FirstOf
  <2> QED BY <2>1
<1>2. ASSUME NEW i \in 1..n, i - 1 \in P PROVE i \in P
  <2>1. DOMAIN g[i - 1] = DOMAIN g[0] \cup FirstOf(order, i - 1)
    BY <1>2
  <2>2. DOMAIN g[i] = DOMAIN g[i - 1] \cup {order[i]}
    <3>1. PICK c \in V : g[i] = put(g[i - 1], order[i], c)
      BY DEF Fills, Settles
    <3> QED BY <3>1 DEF put
  <2>3. FirstOf(order, i) = FirstOf(order, i - 1) \cup {order[i]}
    BY FirstOfNext
  <2>4. i \in 0..n
    OBVIOUS
  <2> QED BY <2>1, <2>2, <2>3, <2>4
<1> HIDE DEF P
<1>3. \A i \in 0..n : i \in P
  BY <1>1, <1>2, Reached
<1> QED BY <1>3 DEF P

LEMMA FilledWith ==
  ASSUME NEW n \in Nat, NEW order, NEW V, NEW g, Fills(g, n, order, V), Range(g[0]) \subseteq V
  PROVE  \A i \in 0..n : Range(g[i]) \subseteq V
<1> DEFINE P == {i \in 0..n : Range(g[i]) \subseteq V}
<1>1. 0 \in P
  OBVIOUS
<1>2. ASSUME NEW i \in 1..n, i - 1 \in P PROVE i \in P
  <2>1. Range(g[i - 1]) \subseteq V
    BY <1>2
  <2>2. PICK c \in V : g[i] = put(g[i - 1], order[i], c)
    BY DEF Fills, Settles
  <2>3. Range(g[i]) \subseteq Range(g[i - 1]) \cup {c}
    BY <2>2 DEF put, Range
  <2>4. i \in 0..n
    OBVIOUS
  <2> QED BY <2>1, <2>3, <2>4
<1> HIDE DEF P
<1>3. \A i \in 0..n : i \in P
  BY <1>1, <1>2, Reached
<1> QED BY <1>3 DEF P

(* No element of the order is put twice, nor one that has a cell.          *)
New(g, n, order) ==
  \A i \in 1..n : order[i] \notin DOMAIN g[0] \cup FirstOf(order, i - 1)

LEMMA FilledKeeps ==
  ASSUME NEW n \in Nat, NEW order, NEW V, NEW g, Fills(g, n, order, V), New(g, n, order),
         NEW k \in 0..n
  PROVE  \A m \in DOMAIN g[k] : g[n][m] = g[k][m]
<1> DEFINE P == {i \in 0..n : i >= k => \A m \in DOMAIN g[k] : m \in DOMAIN g[i] /\ g[i][m] = g[k][m]}
<1>1. 0 \in P
  <2>1. 0 >= k => k = 0
    OBVIOUS
  <2> QED BY <2>1
<1>2. ASSUME NEW i \in 1..n, i - 1 \in P PROVE i \in P
  <2>1. i \in 0..n /\ i - 1 \in 0..n /\ (i >= k => i = k \/ i - 1 >= k)
    OBVIOUS
  <2>2. CASE i - 1 >= k
    <3>1. \A m \in DOMAIN g[k] : m \in DOMAIN g[i - 1] /\ g[i - 1][m] = g[k][m]
      BY <1>2, <2>2
    <3>2. order[i] \notin DOMAIN g[i - 1]
      BY <2>1, FilledDomain DEF New
    <3>3. PICK c \in V : g[i] = put(g[i - 1], order[i], c)
      BY DEF Fills, Settles
    <3>4. \A m \in DOMAIN g[i - 1] : m \in DOMAIN g[i] /\ g[i][m] = g[i - 1][m]
      BY <3>2, <3>3 DEF put
    <3> QED BY <2>1, <3>1, <3>4
  <2>3. CASE i = k
    BY <2>1, <2>3
  <2> QED BY <2>1, <2>2, <2>3
<1> HIDE DEF P
<1>3. n \in P
  BY <1>1, <1>2, Reached
<1> QED BY <1>3 DEF P

(* If there is room for all, no two are in one cell.                       *)
LEMMA FilledApart ==
  ASSUME NEW n \in Nat, NEW order, NEW V, IsFiniteSet(V), NEW g, Fills(g, n, order, V),
         New(g, n, order), IsFiniteSet(DOMAIN g[0]), Apart(g[0]),
         Cardinality(DOMAIN g[0]) + n <= Cardinality(V)
  PROVE  Apart(g[n])
<1> DEFINE b == Cardinality(DOMAIN g[0])
           P == {i \in 0..n : /\ Apart(g[i]) /\ IsFiniteSet(DOMAIN g[i])
                              /\ Cardinality(DOMAIN g[i]) = b + i}
<1>1. b \in Nat /\ Cardinality(V) \in Nat
  BY FS_CardinalityType
<1>2. 0 \in P
  BY <1>1
<1>3. ASSUME NEW i \in 1..n, i - 1 \in P PROVE i \in P
  <2> DEFINE c == Cardinality(Range(g[i - 1]))
  <2>1. i \in 0..n /\ i - 1 \in 0..n
    OBVIOUS
  <2>2. /\ Apart(g[i - 1]) /\ IsFiniteSet(DOMAIN g[i - 1])
        /\ Cardinality(DOMAIN g[i - 1]) = b + (i - 1)
    BY <1>3
  <2>3. IsFiniteSet(Range(g[i - 1])) /\ c <= Cardinality(DOMAIN g[i - 1])
    BY <2>2, RangeIsFinite
  <2>4. c \in Nat
    BY <2>3, FS_CardinalityType
  <2>5. c < Cardinality(V)
    BY <1>1, <2>1, <2>2, <2>3, <2>4
  <2>6. ~(V \subseteq Range(g[i - 1]))
    BY <2>3, <2>5, RoomIsLeft
  <2>7. order[i] \notin DOMAIN g[i - 1]
    BY <2>1, FilledDomain DEF New
  <2>8. PICK x \in V : g[i] = put(g[i - 1], order[i], x) /\ x \notin Range(g[i - 1])
    BY <2>6 DEF Fills, Settles
  <2>9. Apart(g[i])
    BY <2>2, <2>7, <2>8 DEF Apart, put, Range
  <2>10. DOMAIN g[i] = DOMAIN g[i - 1] \cup {order[i]}
    BY <2>8 DEF put
  <2>11. IsFiniteSet(DOMAIN g[i]) /\ Cardinality(DOMAIN g[i]) = b + (i - 1) + 1
    <3> DEFINE S == DOMAIN g[i - 1]
               added == order[i]
    <3> HIDE DEF b
    <3>1. IsFiniteSet(S) /\ added \notin S /\ Cardinality(S) = b + (i - 1)
      BY <2>2, <2>7
    <3>2. DOMAIN g[i] = S \cup {added}
      BY <2>10
    <3> HIDE DEF S, added
    <3>3. IsFiniteSet(S \cup {added}) /\ Cardinality(S \cup {added}) = Cardinality(S) + 1
      BY <3>1, FS_AddElement
    <3> QED BY <3>1, <3>2, <3>3
  <2>12. b + (i - 1) + 1 = b + i
    BY <1>1
  <2> QED BY <2>1, <2>9, <2>11, <2>12
<1> HIDE DEF P
<1>4. n \in P
  BY <1>2, <1>3, Reached
<1> QED BY <1>4 DEF P

-----------------------------------------------------------------------------
(* Rounding, and the steps that are stretched.                             *)

LEMMA RoundedIs ==
  ASSUME NEW a \in Int, NEW b \in Nat \ {0}
  PROVE  rounded(a, b) \in Int /\ (a = 0 => rounded(a, b) = 0)
<1>1. a \div b \in Int /\ (a = 0 => a \div b = 0 /\ a % b = 0)
  OBVIOUS
<1>2. a \div b + 1 \in Int
  BY <1>1
<1> DEFINE q == a \div b
<1>3. rounded(a, b) = q \/ rounded(a, b) = q + 1
  BY DEF rounded
<1>4. a = 0 => rounded(a, b) = 0
  BY <1>1 DEF rounded
<1> HIDE DEF q
<1> QED BY <1>1, <1>2, <1>3, <1>4 DEF q

Sides == {"up", "down", "left", "right"}

LEMMA SpreadIs ==
  ASSUME NEW step \in Int, NEW far \in Nat, NEW room \in Int
  PROVE  spread(step, far, room) \in Int /\ (step = 0 => spread(step, far, room) = 0)
<1>1. step * room \in Int /\ (step = 0 => step * room = 0)
  OBVIOUS
<1>2. far <= 0 \/ far \in Nat \ {0}
  OBVIOUS
<1>3. CASE far \in Nat \ {0}
  <2> DEFINE x == step * room
  <2> HIDE DEF x
  <2>1. rounded(x, far) \in Int /\ (x = 0 => rounded(x, far) = 0)
    BY <1>1, <1>3, RoundedIs DEF x
  <2>2. spread(step, far, room) = step \/ spread(step, far, room) = rounded(x, far)
    BY DEF spread, x
  <2> QED BY <1>1, <2>1, <2>2 DEF x
<1>4. CASE far <= 0
  BY <1>4 DEF spread
<1> QED BY <1>2, <1>3, <1>4

LEMMA StretchedIs ==
  ASSUME NEW v \in Offsets, NEW extent, \A s \in Sides : extent[s] \in Nat
  PROVE  /\ stretched(v, extent) \in Offsets
         /\ v = <<0, 0>> => stretched(v, extent) = Center(Grid)
<1> DEFINE c == Center(Grid)
           u == spread(-v[2], extent.up, c[1] - 2)
           d == spread(v[2], extent.down, GridRows - c[1] - 1)
           l == spread(-v[1], extent.left, c[2] - 2)
           r == spread(v[1], extent.right, GridCols - c[2] - 1)
<1>1. GridRows \in Int /\ GridCols \in Int /\ c[1] \in Int /\ c[2] \in Int /\ c = <<c[1], c[2]>>
  BY MeshGridAssumption DEF Center, Grid
<1>2. v[1] \in Int /\ v[2] \in Int
  BY DEF Offsets
<1>3. extent.up \in Nat /\ extent.down \in Nat /\ extent.left \in Nat /\ extent.right \in Nat
  BY DEF Sides
<1>4. /\ -v[2] \in Int /\ -v[1] \in Int /\ c[1] - 2 \in Int /\ c[2] - 2 \in Int
      /\ GridRows - c[1] - 1 \in Int /\ GridCols - c[2] - 1 \in Int
  BY <1>1, <1>2
<1>5. u \in Int /\ d \in Int /\ l \in Int /\ r \in Int
  <2> HIDE DEF c
  <2> QED BY <1>2, <1>3, <1>4, SpreadIs
<1>6. v[2] = 0 => d = 0
  <2> HIDE DEF c
  <2> QED BY <1>2, <1>3, <1>4, SpreadIs
<1>7. v[1] = 0 => r = 0
  <2> HIDE DEF c
  <2> QED BY <1>2, <1>3, <1>4, SpreadIs
<1>8. stretched(v, extent) = <<IF v[2] < 0 THEN c[1] - u ELSE c[1] + d,
                               IF v[1] < 0 THEN c[2] - l ELSE c[2] + r>>
  BY DEF stretched
<1> HIDE DEF c, u, d, l, r
<1>9. stretched(v, extent) \in Offsets
  BY <1>1, <1>2, <1>5, <1>8 DEF Offsets
<1>10. ASSUME v = <<0, 0>> PROVE stretched(v, extent) = c
  <2>1. v[1] = 0 /\ v[2] = 0
    BY <1>10
  <2>2. c[1] + d = c[1] /\ c[2] + r = c[2]
    BY <1>1, <1>6, <1>7, <2>1
  <2>3. stretched(v, extent) = <<c[1] + d, c[2] + r>>
    BY <1>8, <2>1
  <2> QED BY <1>1, <2>2, <2>3
<1> QED BY <1>9, <1>10 DEF c

GridIs == Grid \in Measures /\ Grid[1] = GridRows /\ Grid[2] = GridCols
LEMMA GridIsThere == GridIs
BY MeshGridAssumption DEF GridIs, Grid, Measures

LEMMA ClampIs ==
  ASSUME NEW p \in Offsets, NEW size \in Measures
  PROVE  /\ <<clamp(p[1], 1, size[1]), clamp(p[2], 1, size[2])>> \in Cells(size)
         /\ p \in Cells(size) => <<clamp(p[1], 1, size[1]), clamp(p[2], 1, size[2])>> = p
<1>1. /\ p[1] \in Int /\ p[2] \in Int /\ p = <<p[1], p[2]>>
      /\ size[1] \in Nat \ {0} /\ size[2] \in Nat \ {0}
  BY DEF Offsets, Measures
<1> DEFINE x == clamp(p[1], 1, size[1])
           y == clamp(p[2], 1, size[2])
<1>2. x \in 1..size[1] /\ y \in 1..size[2]
  BY <1>1 DEF clamp
<1>3. p[1] \in 1..size[1] => x = p[1]
  BY <1>1 DEF clamp
<1>4. p[2] \in 1..size[2] => y = p[2]
  BY <1>1 DEF clamp
<1>5. p \in Cells(size) => p[1] \in 1..size[1] /\ p[2] \in 1..size[2]
  BY DEF Cells
<1> HIDE DEF x, y
<1>6. <<x, y>> \in Cells(size)
  BY <1>2 DEF Cells
<1> QED BY <1>1, <1>3, <1>4, <1>5, <1>6 DEF x, y

LEMMA CenterIs ==
  ASSUME NEW size \in Measures
  PROVE  Center(size) \in Cells(size)
<1>1. size[1] \in Nat \ {0} /\ size[2] \in Nat \ {0}
  BY DEF Measures
<1>2. size[1] \div 2 + 1 \in 1..size[1] /\ size[2] \div 2 + 1 \in 1..size[2]
  BY <1>1
<1> QED BY <1>2 DEF Center, Cells

-----------------------------------------------------------------------------
(* place_within_bounds: every node gets a cell of the grid.                *)

LEMMA PlacesCell ==
  ASSUME NEW cells, NEW n, NEW slots, slots[n].at \in Offsets,
         NEW extent, \A s \in Sides : extent[s] \in Nat
  PROVE  /\ Settles(cells, place_cell(cells, n, slots, extent), n, Cells(Grid))
         /\ slots[n].at = <<0, 0>> /\ Range(cells) = {} =>
              place_cell(cells, n, slots, extent) = put(cells, n, Center(Grid))
<1> DEFINE p == stretched(slots[n].at, extent)
           q == <<clamp(p[1], 1, GridRows), clamp(p[2], 1, GridCols)>>
           c == reserve_bounded_cell(q, Range(cells), Grid)
<1>1. p \in Offsets /\ (slots[n].at = <<0, 0>> => p = Center(Grid))
  BY StretchedIs
<1>2. place_cell(cells, n, slots, extent) = put(cells, n, c)
  BY DEF place_cell
<1> HIDE DEF p
<1>3. q \in Cells(Grid) /\ (p \in Cells(Grid) => q = p)
  BY <1>1, GridIsThere, ClampIs DEF GridIs
<1> HIDE DEF q
<1>4. /\ c \in Cells(Grid)
      /\ ~(Cells(Grid) \subseteq Range(cells)) => c \notin Range(cells)
      /\ q \notin Range(cells) => c = q
  BY <1>3, GridIsThere, BoundedCell DEF GridIs
<1>5. Center(Grid) \in Cells(Grid)
  BY GridIsThere, CenterIs DEF GridIs
<1> HIDE DEF c
<1>6. Settles(cells, put(cells, n, c), n, Cells(Grid))
  BY <1>4 DEF Settles
<1> QED BY <1>1, <1>2, <1>3, <1>4, <1>5, <1>6

LEMMA NoMap ==
  ASSUME NEW D, NEW V
  PROVE  <<>> \in PartialMaps(D, V)
<1>1. DOMAIN <<>> = {} /\ <<>> \in [{} -> V]
  OBVIOUS
<1> HIDE DEF PartialMaps
<1> QED BY <1>1, PartialMapsAre

PlacesInTurn(g, n, order, slots, extent) ==
  /\ g[0] = <<>>
  /\ \A i \in 1..n : g[i] = place_cell(g[i - 1], order[i], slots, extent)
  /\ place_within_bounds(slots, extent) = g[n]

LEMMA PlaceRun ==
  ASSUME NEW D, NEW slots, DOMAIN slots = D, \A m \in D : slots[m].at \in Offsets,
         NEW extent, \A s \in Sides : extent[s] \in Nat,
         NEW n \in Nat, NEW order, order \in [1..n -> D], order = outward(slots)
  PROVE  \E g : PlacesInTurn(g, n, order, slots, extent)
<1> DEFINE A == PartialMaps(D, Cells(Grid))
           step(h) == [s \in SUBSET (1..n) |->
              IF s = {} THEN <<>> ELSE place_cell(h[s \ {Max(s)}], order[Max(s)], slots, extent)]
           fold == CHOOSE h : h = step(h)
           F == [p \in A \X (1..n) |-> place_cell(p[1], order[p[2]], slots, extent)]
<1>1. place_within_bounds(slots, extent) = fold[1..n]
  BY DEF place_within_bounds, FoldLeft, MapThenFoldSet
<1>2. <<>> \in A
  BY NoMap
<1>3. \A a \in A, i \in 1..n : place_cell(a, order[i], slots, extent) \in A
  <2> SUFFICES ASSUME NEW a \in A, NEW i \in 1..n
               PROVE  place_cell(a, order[i], slots, extent) \in A
    OBVIOUS
  <2>1. order[i] \in D
    OBVIOUS
  <2>2. PICK c \in Cells(Grid) : place_cell(a, order[i], slots, extent) = put(a, order[i], c)
    <3> DEFINE k == order[i]
    <3>1. slots[k].at \in Offsets
      BY <2>1
    <3> HIDE DEF k
    <3>2. Settles(a, place_cell(a, k, slots, extent), k, Cells(Grid))
      BY <3>1, PlacesCell
    <3> QED BY <3>2 DEF Settles, k
  <2> QED BY <2>1, <2>2, PutMaps
<1> HIDE DEF A
<1>4. \E h : h = step(h)
  <2>1. F \in [A \X (1..n) -> A]
    BY <1>3
  <2>2. \A q \in A \X (1..n) : F[q] = place_cell(q[1], order[q[2]], slots, extent)
    OBVIOUS
  <2> HIDE DEF F
  <2>3. PICK h \in [SUBSET (1..n) -> A] :
           /\ h = [s \in SUBSET (1..n) |-> IF s = {} THEN <<>>
                                           ELSE F[<<h[s \ {Max(s)}], Max(s)>>]]
           /\ \A s \in SUBSET (1..n) :
                s # {} => <<h[s \ {Max(s)}], Max(s)>> \in A \X (1..n)
    BY <1>2, <2>1, LeftFold
  <2>4. ASSUME NEW s \in SUBSET (1..n), s # {}
        PROVE  F[<<h[s \ {Max(s)}], Max(s)>>]
                 = place_cell(h[s \ {Max(s)}], order[Max(s)], slots, extent)
    BY <2>2, <2>3, <2>4
  <2>5. h = step(h)
    BY <2>3, <2>4
  <2> QED BY <2>5
<1>5. fold = step(fold)
  <2> HIDE DEF step
  <2> QED BY <1>4
<1> HIDE DEF fold
<1> DEFINE g == [i \in 0..n |-> fold[1..i]]
<1>6. g[0] = <<>>
  <2>1. 1..0 \in SUBSET (1..n) /\ 1..0 = {} /\ 0 \in 0..n
    OBVIOUS
  <2>2. fold[1..0] = <<>>
    BY <1>5, <2>1
  <2> QED BY <2>1, <2>2
<1>7. ASSUME NEW i \in 1..n PROVE g[i] = place_cell(g[i - 1], order[i], slots, extent)
  <2>1. /\ 1..i \in SUBSET (1..n) /\ 1..i # {} /\ Max(1..i) = i
        /\ (1..i) \ {i} = 1..(i - 1) /\ i - 1 \in 0..n /\ i \in 0..n
    BY LastOfPrefix
  <2>2. fold[1..i] = place_cell(fold[(1..i) \ {Max(1..i)}], order[Max(1..i)], slots, extent)
    BY <1>5, <2>1
  <2> QED BY <2>1, <2>2
<1>8. g[n] = fold[1..n]
  OBVIOUS
<1> HIDE DEF g, fold
<1>9. PlacesInTurn(g, n, order, slots, extent)
  BY <1>1, <1>6, <1>7, <1>8 DEF PlacesInTurn
<1> QED BY <1>9

LEMMA NewInOrder ==
  ASSUME NEW D, NEW n \in Nat, NEW order \in Bijection(1..n, D),
         NEW g, DOMAIN g[0] \cap D = {}
  PROVE  New(g, n, order) /\ FirstOf(order, n) = D
<1>1. order \in [1..n -> D] /\ \A i, j \in 1..n : order[i] = order[j] => i = j
  BY DEF Bijection, Injection, IsInjective
<1>2. \A m \in D : \E i \in 1..n : order[i] = m
  BY DEF Bijection, Surjection
<1>3. ASSUME NEW i \in 1..n PROVE order[i] \notin DOMAIN g[0] \cup FirstOf(order, i - 1)
  <2>1. \A j \in 1..(i - 1) : j \in 1..n /\ j # i
    OBVIOUS
  <2> QED BY <1>1, <2>1 DEF FirstOf
<1> QED BY <1>1, <1>2, <1>3 DEF New, FirstOf

IsPlaced(cells, D, slots) ==
  /\ DOMAIN cells = D /\ Range(cells) \subseteq Cells(Grid)
  /\ Cardinality(D) <= Cardinality(Cells(Grid)) => Apart(cells)
  /\ You \in D /\ slots[You].at = <<0, 0>> => cells[You] = Center(Grid)

(* place_within_bounds gives every node a cell of the grid, and each a cell *)
(* of its own if there are as many; YOU is in the middle.                  *)
THEOREM PlacedWithin ==
  ASSUME NEW D \in SUBSET Nat, IsFiniteSet(D), NEW slots, DOMAIN slots = D,
         \A m \in D : slots[m].at \in Offsets,
         NEW extent, \A s \in Sides : extent[s] \in Nat
  PROVE  IsPlaced(place_within_bounds(slots, extent), D, slots)
<1> DEFINE key == [m \in D |-> <<square_norm(slots[m].at), m>>]
           order == in_order(D, key)
           n == Cardinality(D)
<1>1. ASSUME NEW m \in D PROVE square_norm(slots[m].at) \in Nat
  <2> DEFINE x == slots[m].at[1]
             y == slots[m].at[2]
  <2>1. x \in Int /\ y \in Int
    BY DEF Offsets
  <2>2. square_norm(slots[m].at) = x * x + y * y
    BY DEF square_norm
  <2> HIDE DEF x, y
  <2>3. x * x >= 0 /\ y * y >= 0 /\ x * x \in Int /\ y * y \in Int
    BY <2>1
  <2> QED BY <2>2, <2>3
<1>2. key \in [D -> Keys(2)]
  BY <1>1 DEF Keys
<1>3. Apart(key)
  BY DEF Apart
<1> HIDE DEF key
<1>4. /\ order \in Bijection(1..n, D) /\ n \in Nat
      /\ \A i \in 1..n : Cardinality(earlier(D, key, order[i])) = i - 1
  <2> DEFINE length == 2
  <2>1. length \in Nat /\ key \in [D -> Keys(length)]
    BY <1>2
  <2> HIDE DEF length
  <2>2. Sorts(in_order(D, key), D, key)
    BY <1>3, <2>1, SortedIs
  <2> QED BY <2>2 DEF Sorts
<1>5. order \in [1..n -> D]
  BY <1>4 DEF Bijection, Injection
<1>6. PICK g : PlacesInTurn(g, n, order, slots, extent)
  <2>1. order = outward(slots)
    BY DEF key, outward
  <2> HIDE DEF order, n
  <2>2. n \in Nat
    BY <1>4
  <2> HIDE DEF PlacesInTurn
  <2> QED BY <1>5, <2>1, <2>2, PlaceRun
<1> HIDE DEF order, n
<1>7. Fills(g, n, order, Cells(Grid))
  <2> SUFFICES ASSUME NEW i \in 1..n PROVE Settles(g[i - 1], g[i], order[i], Cells(Grid))
    BY DEF Fills
  <2>1. slots[order[i]].at \in Offsets
    BY <1>5
  <2>2. g[i] = place_cell(g[i - 1], order[i], slots, extent)
    BY <1>6 DEF PlacesInTurn
  <2>3. Settles(g[i - 1], place_cell(g[i - 1], order[i], slots, extent), order[i], Cells(Grid))
    BY <2>1, PlacesCell
  <2> QED BY <2>2, <2>3
<1>8. DOMAIN g[0] = {} /\ Range(g[0]) = {} /\ Apart(g[0])
  BY <1>6 DEF Range, Apart, PlacesInTurn
<1>9. New(g, n, order) /\ FirstOf(order, n) = D
  BY <1>4, <1>8, NewInOrder
<1>10. n \in 0..n
  BY <1>4
<1>11. DOMAIN g[n] = D
  <2>1. \A i \in 0..n : DOMAIN g[i] = DOMAIN g[0] \cup FirstOf(order, i)
    BY <1>4, <1>7, FilledDomain
  <2> QED BY <1>8, <1>9, <1>10, <2>1
<1>12. Range(g[n]) \subseteq Cells(Grid)
  BY <1>4, <1>7, <1>8, <1>10, FilledWith
<1>13. ASSUME Cardinality(D) <= Cardinality(Cells(Grid)) PROVE Apart(g[n])
  <2>1. Cardinality(DOMAIN g[0]) + n <= Cardinality(Cells(Grid)) /\ IsFiniteSet(DOMAIN g[0])
    BY <1>4, <1>8, <1>13, FS_EmptySet DEF n
  <2>2. IsFiniteSet(Cells(Grid))
    BY GridIsThere, CellsAre DEF GridIs
  <2> QED BY <1>4, <1>7, <1>8, <1>9, <2>1, <2>2, FilledApart
<1>14. ASSUME You \in D, slots[You].at = <<0, 0>> PROVE g[n][You] = Center(Grid)
  <2>1. ASSUME NEW m \in D PROVE ~Earlier(key[m], key[You])
    <3>1. key[You] = <<0, 0>> /\ key[m] = <<square_norm(slots[m].at), m>>
      BY <1>14 DEF key, square_norm, You
    <3>2. square_norm(slots[m].at) \in Nat /\ m \in Nat
      BY <1>1
    <3> QED BY <3>1, <3>2 DEF Earlier
  <2>2. PICK i \in 1..n : order[i] = You
    BY <1>4, <1>14 DEF Bijection, Surjection
  <2>3. earlier(D, key, You) = {}
    BY <2>1 DEF earlier
  <2>4. i - 1 = 0
    BY <1>4, <2>2, <2>3, FS_EmptySet
  <2>5. i = 1 /\ 1 \in 0..n
    BY <1>4, <2>4
  <2>6. g[1] = put(<<>>, You, Center(Grid))
    <3>1. g[1] = place_cell(<<>>, You, slots, extent)
      BY <1>6, <2>2, <2>5 DEF PlacesInTurn
    <3>2. Range(<<>>) = {}
      BY DEF Range
    <3> QED BY <1>14, <3>1, <3>2, PlacesCell
  <2>7. You \in DOMAIN g[1] /\ g[1][You] = Center(Grid)
    BY <2>6 DEF put
  <2> QED BY <1>4, <1>7, <1>9, <2>5, <2>7, FilledKeeps
<1> QED BY <1>6, <1>11, <1>12, <1>13, <1>14 DEF IsPlaced, PlacesInTurn

-----------------------------------------------------------------------------
(* project_to_viewport: what is beyond the sides is clipped to them.       *)

LEMMA ClipsCell ==
  ASSUME NEW placed, NEW n, NEW cells, cells[n] \in Offsets, NEW size \in Measures
  PROVE  Settles(placed, clip(placed, n, cells, size), n, Cells(size))
<1> DEFINE p == cells[n]
           q == <<clamp(p[1], 1, size[1]), clamp(p[2], 1, size[2])>>
           c == reserve_edge_cell(q, Range(placed), size)
<1>1. clip(placed, n, cells, size) = put(placed, n, c)
  BY DEF clip
<1>2. q \in Cells(size)
  BY ClampIs
<1> HIDE DEF q
<1>3. /\ c \in Cells(size)
      /\ ~(Cells(size) \subseteq Range(placed)) => c \notin Range(placed)
  BY <1>2, EdgeCell
<1> HIDE DEF c
<1> QED BY <1>1, <1>3 DEF Settles

(* What is in view stays where it is.                                      *)
inside(cells, size) == [n \in DOMAIN cells \ edge_nodes(cells, size) |-> cells[n]]

ClipsInTurn(g, n, order, cells, size) ==
  /\ g[0] = inside(cells, size)
  /\ \A i \in 1..n : g[i] = clip(g[i - 1], order[i], cells, size)
  /\ project_to_viewport(cells, size) = g[n]

LEMMA ClipRun ==
  ASSUME NEW D, NEW cells, DOMAIN cells = D, \A m \in D : cells[m] \in Offsets,
         NEW size \in Measures, NEW n \in Nat, NEW order, order \in [1..n -> D],
         order = in_order(edge_nodes(cells, size), [m \in edge_nodes(cells, size) |-> <<m>>])
  PROVE  \E g : ClipsInTurn(g, n, order, cells, size)
<1> DEFINE A == PartialMaps(D, Cells(size))
           base == inside(cells, size)
           step(h) == [s \in SUBSET (1..n) |->
              IF s = {} THEN base ELSE clip(h[s \ {Max(s)}], order[Max(s)], cells, size)]
           fold == CHOOSE h : h = step(h)
           F == [p \in A \X (1..n) |-> clip(p[1], order[p[2]], cells, size)]
<1>1. project_to_viewport(cells, size) = fold[1..n]
  BY DEF project_to_viewport, FoldLeft, MapThenFoldSet, inside
<1>2. base \in A
  <2>1. base \in [DOMAIN base -> Cells(size)] /\ DOMAIN base \subseteq D
    BY DEF edge_nodes, inside
  <2> HIDE DEF base
  <2> QED BY <2>1, PartialMapsAre
<1> HIDE DEF base
<1>3. \A a \in A, i \in 1..n : clip(a, order[i], cells, size) \in A
  <2> SUFFICES ASSUME NEW a \in A, NEW i \in 1..n
               PROVE  clip(a, order[i], cells, size) \in A
    OBVIOUS
  <2>1. order[i] \in D
    OBVIOUS
  <2>2. PICK c \in Cells(size) : clip(a, order[i], cells, size) = put(a, order[i], c)
    <3>1. cells[order[i]] \in Offsets
      BY <2>1
    <3>2. Settles(a, clip(a, order[i], cells, size), order[i], Cells(size))
      BY <3>1, ClipsCell
    <3> QED BY <3>2 DEF Settles
  <2> QED BY <2>1, <2>2, PutMaps
<1> HIDE DEF A
<1>4. \E h : h = step(h)
  <2>1. F \in [A \X (1..n) -> A]
    BY <1>3
  <2>2. \A q \in A \X (1..n) : F[q] = clip(q[1], order[q[2]], cells, size)
    OBVIOUS
  <2> HIDE DEF F
  <2>3. PICK h \in [SUBSET (1..n) -> A] :
           /\ h = [s \in SUBSET (1..n) |-> IF s = {} THEN base
                                           ELSE F[<<h[s \ {Max(s)}], Max(s)>>]]
           /\ \A s \in SUBSET (1..n) :
                s # {} => <<h[s \ {Max(s)}], Max(s)>> \in A \X (1..n)
    BY <1>2, <2>1, LeftFold
  <2>4. ASSUME NEW s \in SUBSET (1..n), s # {}
        PROVE  F[<<h[s \ {Max(s)}], Max(s)>>] = clip(h[s \ {Max(s)}], order[Max(s)], cells, size)
    BY <2>2, <2>3, <2>4
  <2>5. h = step(h)
    BY <2>3, <2>4
  <2> QED BY <2>5
<1>5. fold = step(fold)
  <2> HIDE DEF step
  <2> QED BY <1>4
<1> HIDE DEF fold
<1> DEFINE g == [i \in 0..n |-> fold[1..i]]
<1>6. g[0] = base
  <2>1. 1..0 \in SUBSET (1..n) /\ 1..0 = {} /\ 0 \in 0..n
    OBVIOUS
  <2>2. fold[1..0] = base
    BY <1>5, <2>1
  <2> QED BY <2>1, <2>2
<1>7. ASSUME NEW i \in 1..n PROVE g[i] = clip(g[i - 1], order[i], cells, size)
  <2>1. /\ 1..i \in SUBSET (1..n) /\ 1..i # {} /\ Max(1..i) = i
        /\ (1..i) \ {i} = 1..(i - 1) /\ i - 1 \in 0..n /\ i \in 0..n
    BY LastOfPrefix
  <2>2. fold[1..i] = clip(fold[(1..i) \ {Max(1..i)}], order[Max(1..i)], cells, size)
    BY <1>5, <2>1
  <2> QED BY <2>1, <2>2
<1>8. g[n] = fold[1..n]
  OBVIOUS
<1> HIDE DEF g, fold
<1>9. ClipsInTurn(g, n, order, cells, size)
  BY <1>1, <1>6, <1>7, <1>8 DEF ClipsInTurn, base
<1> QED BY <1>9

IsProjected(placed, cells, size) ==
  /\ DOMAIN placed = DOMAIN cells /\ Range(placed) \subseteq Cells(size)
  /\ Cardinality(DOMAIN cells) <= Cardinality(Cells(size)) => Apart(placed)
  /\ \A m \in DOMAIN cells : cells[m] \in Cells(size) => placed[m] = cells[m]

(* project_to_viewport gives every node a cell of the viewport, of its own *)
(* if there are as many, and does not move what is in view.                *)
THEOREM ProjectedIs ==
  ASSUME NEW D \in SUBSET Nat, IsFiniteSet(D), NEW cells, DOMAIN cells = D,
         \A m \in D : cells[m] \in Offsets, Apart(cells), NEW size \in Measures
  PROVE  IsProjected(project_to_viewport(cells, size), cells, size)
<1> DEFINE out == edge_nodes(cells, size)
           key == [m \in out |-> <<m>>]
           order == in_order(out, key)
           n == Cardinality(out)
           V == Cells(size)
<1>1. out \in SUBSET D /\ IsFiniteSet(out)
  <2>1. out \in SUBSET D
    BY DEF edge_nodes
  <2> HIDE DEF out
  <2> QED BY <2>1, FS_Subset
<1>2. Sorts(in_order(out, key), out, key)
  <2> DEFINE length == 1
  <2>1. length \in Nat /\ key \in [out -> Keys(length)]
    <3> SUFFICES ASSUME NEW m \in out PROVE <<m>> \in Keys(length)
      OBVIOUS
    <3>1. m \in Int
      <4> HIDE DEF out
      <4> QED BY <1>1
    <3>2. <<m>> \in Seq(Int)
      BY <3>1
    <3>3. Len(<<m>>) = 1
      OBVIOUS
    <3> QED BY <3>2, <3>3 DEF Keys
  <2>2. Apart(key)
    BY DEF Apart
  <2> HIDE DEF length, key, out
  <2> QED BY <1>1, <2>1, <2>2, SortedIs
<1>3. order \in Bijection(1..n, out) /\ n \in Nat
  <2> HIDE DEF out, key
  <2> QED BY <1>2 DEF Sorts
<1>4. order \in [1..n -> D]
  <2> HIDE DEF out, order
  <2> QED BY <1>1, <1>3 DEF Bijection, Injection
<1>5. PICK g : ClipsInTurn(g, n, order, cells, size)
  <2>1. order = in_order(edge_nodes(cells, size), [m \in edge_nodes(cells, size) |-> <<m>>])
    OBVIOUS
  <2>2. n \in Nat
    BY <1>3
  <2> HIDE DEF order, n
  <2> QED BY <1>4, <2>1, <2>2, ClipRun
<1> HIDE DEF order, n, V
<1>6. Fills(g, n, order, V)
  <2> SUFFICES ASSUME NEW i \in 1..n PROVE Settles(g[i - 1], g[i], order[i], V)
    BY DEF Fills
  <2>1. cells[order[i]] \in Offsets
    BY <1>4
  <2>2. g[i] = clip(g[i - 1], order[i], cells, size)
    BY <1>5 DEF ClipsInTurn
  <2>3. Settles(g[i - 1], clip(g[i - 1], order[i], cells, size), order[i], Cells(size))
    BY <2>1, ClipsCell
  <2> QED BY <2>2, <2>3 DEF V
<1>7. /\ DOMAIN g[0] = D \ out /\ \A m \in D \ out : g[0][m] = cells[m] /\ cells[m] \in V
  BY <1>5 DEF ClipsInTurn, inside, edge_nodes, V
<1> HIDE DEF out
<1>8. Range(g[0]) \subseteq V /\ Apart(g[0])
  <2>1. Range(g[0]) \subseteq V
    BY <1>7 DEF Range
  <2>2. Apart(g[0])
    BY <1>7 DEF Apart
  <2> QED BY <2>1, <2>2
<1>9. New(g, n, order) /\ FirstOf(order, n) = out
  <2>1. DOMAIN g[0] \cap out = {}
    BY <1>7
  <2> QED BY <1>3, <2>1, NewInOrder
<1>10. n \in 0..n /\ 0 \in 0..n
  BY <1>3
<1>11. DOMAIN g[n] = D
  <2>1. \A i \in 0..n : DOMAIN g[i] = DOMAIN g[0] \cup FirstOf(order, i)
    BY <1>3, <1>6, FilledDomain
  <2> QED BY <1>1, <1>7, <1>9, <1>10, <2>1
<1>12. Range(g[n]) \subseteq V
  BY <1>3, <1>6, <1>8, <1>10, FilledWith
<1>13. ASSUME Cardinality(D) <= Cardinality(V) PROVE Apart(g[n])
  <2>1. IsFiniteSet(D \ out) /\ Cardinality(D \ out) = Cardinality(D) - Cardinality(D \cap out)
    BY FS_Difference
  <2>2. D \cap out = out /\ Cardinality(D) \in Nat
    BY <1>1, FS_CardinalityType
  <2>3. Cardinality(D \ out) + n = Cardinality(D)
    <3>1. Cardinality(D \ out) = Cardinality(D) - n
      BY <2>1, <2>2 DEF n
    <3> QED BY <1>3, <2>2, <3>1
  <2>4. Cardinality(DOMAIN g[0]) + n <= Cardinality(V) /\ IsFiniteSet(DOMAIN g[0])
    BY <1>7, <1>13, <2>1, <2>3
  <2>5. IsFiniteSet(V)
    BY CellsAre DEF V
  <2> QED BY <1>3, <1>6, <1>8, <1>9, <2>4, <2>5, FilledApart
<1>14. ASSUME NEW m \in D, cells[m] \in V PROVE g[n][m] = cells[m]
  <2>1. m \in DOMAIN g[0]
    BY <1>7, <1>14 DEF out, edge_nodes, V
  <2>2. g[n][m] = g[0][m]
    BY <1>3, <1>6, <1>9, <1>10, <2>1, FilledKeeps
  <2> QED BY <1>7, <2>1, <2>2
<1>15. project_to_viewport(cells, size) = g[n]
  BY <1>5 DEF ClipsInTurn
<1> QED BY <1>11, <1>12, <1>13, <1>14, <1>15 DEF IsProjected, V

-----------------------------------------------------------------------------
(* The numbers of the markers.                                             *)

LEMMA ProductGrows ==
  ASSUME NEW a \in Nat, NEW b \in Nat, a <= b, NEW c \in Nat
  PROVE  c * a <= c * b
<1> DEFINE d == b - a
<1>1. d \in Nat /\ b = a + d
  OBVIOUS
<1> HIDE DEF d
<1>2. c * d \in Nat /\ c * a \in Nat
  BY <1>1
<1>3. c * (a + d) = c * a + c * d
  BY <1>1
<1> QED BY <1>1, <1>2, <1>3

LEMMA MarkerIs ==
  ASSUME NEW n \in Nat, NEW s \in 0..(Span - 1)
  PROVE  /\ marker(n, s) \in Nat /\ marker(n, s) \div Span = n
         /\ n # 0 => marker(n, s) >= Span
<1> DEFINE x == marker(n, s)
           q == x \div Span
<1>1. Span \in Nat /\ Span # 0 /\ s \in Nat /\ s < Span
  BY MeshGridAssumption
<1>2. x = Span * n + s /\ Span * n \in Nat /\ x \in Nat
  BY <1>1 DEF marker
<1> HIDE DEF x
<1>3. q \in Nat /\ Span * q <= x /\ x < Span * q + Span
  <2>1. q \in Int /\ q >= 0
    BY <1>1, <1>2
  <2>2. Span * q <= x /\ x < Span * q + Span
    BY <1>1, <1>2
  <2> HIDE DEF q
  <2> QED BY <2>1, <2>2
<1> HIDE DEF q
<1>4. ~(q < n)
  <2> SUFFICES ASSUME q + 1 <= n PROVE FALSE
    BY <1>3
  <2>1. Span * (q + 1) <= Span * n
    BY <1>1, <1>3, ProductGrows
  <2>2. Span * (q + 1) = Span * q + Span /\ Span * q \in Nat
    BY <1>1, <1>3
  <2> QED BY <1>1, <1>2, <1>3, <2>1, <2>2
<1>5. ~(n < q)
  <2> SUFFICES ASSUME n + 1 <= q PROVE FALSE
    BY <1>3
  <2>1. Span * (n + 1) <= Span * q
    BY <1>1, <1>3, ProductGrows
  <2>2. Span * (n + 1) = Span * n + Span /\ Span * q \in Nat
    BY <1>1, <1>3
  <2> QED BY <1>1, <1>2, <1>3, <2>1, <2>2
<1>6. n # 0 => x >= Span
  <2>1. n # 0 => Span * 1 <= Span * n
    BY <1>1, ProductGrows
  <2> QED BY <1>1, <1>2, <2>1
<1>7. q = n
  BY <1>3, <1>4, <1>5
<1> QED BY <1>2, <1>6, <1>7 DEF x, q

LEMMA MarkersDiffer ==
  ASSUME NEW n \in Nat, NEW s \in 0..(Span - 1), NEW m \in Nat, NEW t \in 0..(Span - 1),
         marker(n, s) = marker(m, t)
  PROVE  n = m /\ s = t
<1>1. n = m
  BY MarkerIs
<1>2. Span \in Nat /\ Span * n \in Nat /\ s \in Nat /\ t \in Nat
  BY MeshGridAssumption
<1>3. Span * n + s = Span * n + t
  BY <1>1 DEF marker
<1> QED BY <1>1, <1>2, <1>3

-----------------------------------------------------------------------------
(* build_relay_stages: every marker gets a cell of the grid.               *)

(* All that a chain may keep clear of.                                     *)
Screen == {pixel(c) : c \in Cells(Grid)}
            \cup UNION {segment(a, b) : a \in Cells(Grid), b \in Cells(Grid)}

Chains == [taken : SUBSET Cells(Grid), blocked : SUBSET Screen, previous : Cells(Grid),
           cells : PartialMaps(Nat, Cells(Grid))]

(* The cell that a stage takes.                                            *)
Stage(chain, n, step, cells, hops, c) ==
  /\ c \in Cells(Grid) /\ (~(Cells(Grid) \subseteq chain.taken) => c \notin chain.taken)
  /\ place_stage(chain, n, step, cells, hops).taken = chain.taken \cup {c}
  /\ place_stage(chain, n, step, cells, hops).cells = put(chain.cells, marker(n, step), c)

IsBoard(cells, hops) ==
  /\ DOMAIN cells \subseteq 0..(Span - 1)
  /\ Range(cells) \subseteq Cells(Grid)
  /\ You \in DOMAIN cells
  /\ DOMAIN hops \subseteq Nat \ {0}
  /\ \A n \in DOMAIN hops : hops[n] \in 0..TopRing

LEMMA StageIs ==
  ASSUME NEW cells, NEW hops, IsBoard(cells, hops), NEW n \in DOMAIN hops \cap DOMAIN cells,
         NEW step \in 1..hops[n], NEW chain \in Chains
  PROVE  /\ place_stage(chain, n, step, cells, hops) \in Chains
         /\ \E c : Stage(chain, n, step, cells, hops, c)
<1> DEFINE you == cells[You]
           end == cells[n]
           h == hops[n]
           toward(axis) == rounded(you[axis] * (h + 1) + (end[axis] - you[axis]) * step, h + 1)
           last == step = h
           ideal == <<clamp(toward(1), 1, GridRows), clamp(toward(2), 1, GridCols)>>
           clear == {c \in Cells(Grid) \ chain.taken :
                       /\ segment(chain.previous, c) \cap chain.blocked = {}
                       /\ last => segment(c, end) \cap chain.blocked = {}}
           found == nearest(ideal, GridRows + GridCols, clear)
           c == reserve_relay_stage_cell(chain, ideal, last, end)
           next == place_stage(chain, n, step, cells, hops)
<1>1. you \in Cells(Grid) /\ end \in Cells(Grid)
  BY DEF IsBoard, Range
<1>2. /\ you[1] \in Int /\ you[2] \in Int /\ end[1] \in Int /\ end[2] \in Int
      /\ h \in Nat /\ step \in Nat
  <2>1. you \in Offsets /\ end \in Offsets
    BY <1>1, GridIsThere, CellsAre DEF GridIs
  <2>2. h \in Nat
    BY MeshGridAssumption DEF IsBoard
  <2> QED BY <2>1, <2>2 DEF Offsets
<1>3. toward(1) \in Int /\ toward(2) \in Int
  <2> SUFFICES ASSUME NEW a \in Int, NEW b \in Int, NEW k \in Nat, NEW m \in Nat
               PROVE  rounded(a * (k + 1) + (b - a) * m, k + 1) \in Int
    BY <1>2
  <2>1. k + 1 \in Nat \ {0} /\ a * (k + 1) + (b - a) * m \in Int
    OBVIOUS
  <2> QED BY <2>1, RoundedIs
<1> HIDE DEF toward
<1>4. ideal \in Cells(Grid)
  <2> DEFINE p == <<toward(1), toward(2)>>
  <2>1. p \in Offsets
    BY <1>3 DEF Offsets
  <2>2. <<clamp(p[1], 1, Grid[1]), clamp(p[2], 1, Grid[2])>> \in Cells(Grid)
    <3> HIDE DEF p
    <3> QED BY <2>1, GridIsThere, ClampIs DEF GridIs
  <2> QED BY <2>2, GridIsThere DEF GridIs
<1> HIDE DEF ideal
<1>5. c = IF found \in clear THEN found ELSE reserve_bounded_cell(ideal, chain.taken, Grid)
  BY DEF reserve_relay_stage_cell
<1>6. clear \subseteq Cells(Grid) \ chain.taken
  OBVIOUS
<1> HIDE DEF clear, found
<1>7. c \in Cells(Grid) /\ (~(Cells(Grid) \subseteq chain.taken) => c \notin chain.taken)
  <2>1. CASE found \in clear
    BY <1>5, <1>6, <2>1
  <2>2. CASE found \notin clear
    BY <1>4, <1>5, <2>2, GridIsThere, BoundedCell DEF GridIs
  <2> QED BY <2>1, <2>2
<1>8. next = Chain(chain.taken \cup {c},
                   chain.blocked \cup {pixel(c)} \cup segment(chain.previous, c)
                     \cup (IF last THEN segment(c, end) ELSE {}),
                   c, put(chain.cells, marker(n, step), c))
  BY DEF place_stage, toward, ideal
<1> HIDE DEF c, next, last, end
<1>9. next.taken = chain.taken \cup {c} /\ next.cells = put(chain.cells, marker(n, step), c)
  BY <1>8 DEF Chain
<1>10. marker(n, step) \in Nat
  <2>1. n \in Nat /\ step \in Nat /\ Span \in Nat
    BY <1>2, MeshGridAssumption DEF IsBoard
  <2> QED BY <2>1 DEF marker
<1>11. /\ chain.taken \in SUBSET Cells(Grid) /\ chain.blocked \in SUBSET Screen
       /\ chain.previous \in Cells(Grid) /\ chain.cells \in PartialMaps(Nat, Cells(Grid))
  BY DEF Chains
<1>12. put(chain.cells, marker(n, step), c) \in PartialMaps(Nat, Cells(Grid))
  BY <1>7, <1>10, <1>11, PutMaps
<1>13. chain.blocked \cup {pixel(c)} \cup segment(chain.previous, c)
         \cup (IF last THEN segment(c, end) ELSE {}) \in SUBSET Screen
  BY <1>1, <1>7, <1>11 DEF Screen, end
<1>14. next \in Chains
  BY <1>7, <1>8, <1>11, <1>12, <1>13 DEF Chain, Chains
<1> QED BY <1>7, <1>9, <1>14 DEF Stage, next

(* The chain has placed the markers K of M.                                *)
HasPlaced(chain, K, M, cells) ==
  /\ chain \in Chains /\ DOMAIN chain.cells = K
  /\ chain.taken = Range(cells) \cup Range(chain.cells)
  /\ Cardinality(DOMAIN cells \cup M) <= Cardinality(Cells(Grid)) =>
       Apart(merged(cells, chain.cells))

LEMMA StagePlaces ==
  ASSUME NEW cells, NEW M, IsFiniteSet(DOMAIN cells \cup M), M \cap DOMAIN cells = {},
         NEW K \in SUBSET M, NEW chain, HasPlaced(chain, K, M, cells), NEW k \in M \ K,
         NEW next \in Chains, NEW c \in Cells(Grid), next.taken = chain.taken \cup {c},
         ~(Cells(Grid) \subseteq chain.taken) => c \notin chain.taken,
         next.cells = put(chain.cells, k, c)
  PROVE  HasPlaced(next, K \cup {k}, M, cells)
<1>1. DOMAIN chain.cells = K /\ chain.taken = Range(cells) \cup Range(chain.cells)
  BY DEF HasPlaced
<1>2. DOMAIN next.cells = K \cup {k}
  BY <1>1 DEF put
<1>3. Range(next.cells) = Range(chain.cells) \cup {c}
  <2>1. k \notin DOMAIN chain.cells
    BY <1>1
  <2> QED BY <2>1, RangeOfPut
<1>4. next.taken = Range(cells) \cup Range(next.cells)
  BY <1>1, <1>3
<1>5. ASSUME Cardinality(DOMAIN cells \cup M) <= Cardinality(Cells(Grid))
      PROVE  Apart(merged(cells, next.cells))
  <2> DEFINE old == merged(cells, chain.cells)
             all == DOMAIN cells \cup M
  <2>1. DOMAIN old = DOMAIN cells \cup K
    BY <1>1 DEF merged
  <2>2. Range(old) = chain.taken
    <3>1. \A m \in DOMAIN chain.cells : m \notin DOMAIN cells
      BY <1>1
    <3> QED BY <1>1, <3>1 DEF merged, Range
  <2>3. Apart(old)
    BY <1>5 DEF HasPlaced
  <2>4. (DOMAIN cells \cup K) \in SUBSET (all \ {k}) /\ k \in all
    OBVIOUS
  <2>5. IsFiniteSet(all \ {k}) /\ Cardinality(all \ {k}) = Cardinality(all) - 1
        /\ Cardinality(all) \in Nat
    <3>1. IsFiniteSet(all) /\ k \in all
      BY <2>4
    <3> HIDE DEF all
    <3> QED BY <3>1, FS_RemoveElement, FS_CardinalityType
  <2> HIDE DEF all, old
  <2>6. IsFiniteSet(DOMAIN old) /\ Cardinality(DOMAIN old) <= Cardinality(all \ {k})
    BY <2>1, <2>4, <2>5, FS_Subset
  <2>7. IsFiniteSet(chain.taken) /\ Cardinality(chain.taken) <= Cardinality(DOMAIN old)
    BY <2>2, <2>6, RangeIsFinite
  <2>8. Cardinality(DOMAIN old) \in Nat /\ Cardinality(chain.taken) \in Nat
    BY <2>6, <2>7, FS_CardinalityType
  <2>9. IsFiniteSet(Cells(Grid)) /\ Cardinality(Cells(Grid)) \in Nat
    BY GridIsThere, CellsAre, FS_CardinalityType DEF GridIs
  <2>10. Cardinality(all) <= Cardinality(Cells(Grid))
    BY <1>5 DEF all
  <2>11. Cardinality(chain.taken) < Cardinality(Cells(Grid))
    BY <2>5, <2>6, <2>7, <2>8, <2>9, <2>10
  <2>12. c \notin Range(old)
    <3>1. ~(Cells(Grid) \subseteq chain.taken)
      BY <2>7, <2>9, <2>11, RoomIsLeft
    <3> QED BY <2>2, <3>1
  <2>13. merged(cells, next.cells) = put(old, k, c)
    <3>1. k \notin DOMAIN cells
      OBVIOUS
    <3>2. DOMAIN cells \cup (K \cup {k}) = (DOMAIN cells \cup K) \cup {k}
      OBVIOUS
    <3> QED BY <1>1, <1>2, <2>1, <3>1, <3>2 DEF merged, put, old
  <2>14. k \notin DOMAIN old
    BY <2>1
  <2>15. Apart(put(old, k, c))
    BY <2>3, <2>12, <2>14 DEF Apart, put, Range
  <2> QED BY <2>13, <2>15
<1> QED BY <1>2, <1>4, <1>5 DEF HasPlaced

-----------------------------------------------------------------------------
(* The markers of one node.                                                *)

StagesInTurn(h, chain, n, cells, hops) ==
  /\ h[0] = Chain(chain.taken, {pixel(c) : c \in chain.taken}, cells[You], chain.cells)
  /\ \A i \in 0..hops[n] : h[i] \in Chains
  /\ \A i \in 1..hops[n] : h[i] = place_stage(h[i - 1], n, i, cells, hops)
  /\ place_stages(chain, n, cells, hops) = h[hops[n]]

LEMMA StagesRun ==
  ASSUME NEW cells, NEW hops, IsBoard(cells, hops), NEW n \in DOMAIN hops \cap DOMAIN cells,
         NEW chain \in Chains
  PROVE  \E h : StagesInTurn(h, chain, n, cells, hops)
<1> DEFINE N == hops[n]
           order == [i \in 1..hops[n] |-> i]
           base == Chain(chain.taken, {pixel(c) : c \in chain.taken}, cells[You], chain.cells)
           step(h) == [s \in SUBSET (1..N) |->
              IF s = {} THEN base ELSE place_stage(h[s \ {Max(s)}], n, order[Max(s)], cells, hops)]
           fold == CHOOSE h : h = step(h)
           F == [p \in Chains \X (1..N) |-> place_stage(p[1], n, order[p[2]], cells, hops)]
<1>1. N \in Nat
  BY MeshGridAssumption DEF IsBoard
<1>2. place_stages(chain, n, cells, hops) = fold[1..N]
  <2>1. DOMAIN order = 1..N
    OBVIOUS
  <2> QED BY <2>1 DEF place_stages, FoldLeft, MapThenFoldSet
<1>3. base \in Chains
  <2>1. cells[You] \in Cells(Grid)
    BY DEF IsBoard, Range
  <2>2. chain.taken \in SUBSET Cells(Grid) /\ chain.cells \in PartialMaps(Nat, Cells(Grid))
    BY DEF Chains
  <2>3. {pixel(c) : c \in chain.taken} \in SUBSET Screen
    BY <2>2 DEF Screen
  <2> QED BY <2>1, <2>2, <2>3 DEF Chain, Chains
<1>4. \A i \in 1..N : order[i] = i
  OBVIOUS
<1> HIDE DEF order, base, N
<1>5. \A a \in Chains, i \in 1..N : place_stage(a, n, order[i], cells, hops) \in Chains
  BY <1>4, StageIs DEF N
<1>6. \E h : h = step(h)
  <2>1. F \in [Chains \X (1..N) -> Chains]
    BY <1>5
  <2>2. \A q \in Chains \X (1..N) : F[q] = place_stage(q[1], n, order[q[2]], cells, hops)
    OBVIOUS
  <2> HIDE DEF F
  <2>3. PICK h \in [SUBSET (1..N) -> Chains] :
           /\ h = [s \in SUBSET (1..N) |-> IF s = {} THEN base
                                           ELSE F[<<h[s \ {Max(s)}], Max(s)>>]]
           /\ \A s \in SUBSET (1..N) :
                s # {} => <<h[s \ {Max(s)}], Max(s)>> \in Chains \X (1..N)
    BY <1>1, <1>3, <2>1, LeftFold
  <2>4. ASSUME NEW s \in SUBSET (1..N), s # {}
        PROVE  F[<<h[s \ {Max(s)}], Max(s)>>]
                 = place_stage(h[s \ {Max(s)}], n, order[Max(s)], cells, hops)
    BY <2>2, <2>3, <2>4
  <2>5. h = step(h)
    BY <2>3, <2>4
  <2> QED BY <2>5
<1>7. fold = step(fold)
  <2> HIDE DEF step
  <2> QED BY <1>6
<1> HIDE DEF fold
<1> DEFINE g == [i \in 0..N |-> fold[1..i]]
<1>8. g[0] = base
  <2>1. 1..0 \in SUBSET (1..N) /\ 1..0 = {} /\ 0 \in 0..N
    BY <1>1
  <2>2. fold[1..0] = base
    BY <1>7, <2>1
  <2> QED BY <2>1, <2>2
<1>9. ASSUME NEW i \in 1..N PROVE g[i] = place_stage(g[i - 1], n, i, cells, hops)
  <2>1. /\ 1..i \in SUBSET (1..N) /\ 1..i # {} /\ Max(1..i) = i
        /\ (1..i) \ {i} = 1..(i - 1) /\ i - 1 \in 0..N /\ i \in 0..N
    BY <1>1, LastOfPrefix
  <2>2. fold[1..i] = place_stage(fold[(1..i) \ {Max(1..i)}], n, order[Max(1..i)], cells, hops)
    BY <1>7, <2>1
  <2> QED BY <1>4, <2>1, <2>2
<1>10. g[N] = fold[1..N]
  BY <1>1
<1> HIDE DEF g, fold
<1>11. \A i \in 0..N : g[i] \in Chains
  <2> DEFINE P == {i \in 0..N : g[i] \in Chains}
  <2>1. 0 \in P
    BY <1>1, <1>3, <1>8
  <2>2. \A i \in 1..N : i - 1 \in P => i \in P
    BY <1>4, <1>5, <1>9
  <2> HIDE DEF P
  <2>3. \A i \in 0..N : i \in P
    BY <1>1, <2>1, <2>2, Reached
  <2> QED BY <2>3 DEF P
<1>12. StagesInTurn(g, chain, n, cells, hops)
  BY <1>2, <1>8, <1>9, <1>10, <1>11 DEF StagesInTurn, base, N
<1> QED BY <1>12

markersOf(n, i) == {marker(n, s) : s \in 1..i}
Markers(hops, S) == UNION {markersOf(n, hops[n]) : n \in S}

(* The nodes that have markers.                                            *)
Clients(cells, hops) == DOMAIN hops \cap DOMAIN cells

LEMMA StepsAre ==
  ASSUME NEW cells, NEW hops, IsBoard(cells, hops), NEW n \in Clients(cells, hops)
  PROVE  /\ n \in Nat \ {0} /\ hops[n] \in 0..TopRing /\ hops[n] \in Nat
         /\ 1..hops[n] \subseteq 0..(Span - 1)
<1>1. n \in Nat \ {0} /\ hops[n] \in 0..TopRing
  BY DEF IsBoard, Clients
<1>2. TopRing \in Nat /\ Span \in Nat /\ TopRing < Span
  BY MeshGridAssumption
<1> QED BY <1>1, <1>2

LEMMA MarkersAre ==
  ASSUME NEW cells, NEW hops, IsBoard(cells, hops), IsFiniteSet(DOMAIN cells)
  PROVE  LET M == Markers(hops, Clients(cells, hops))
         IN  M \in SUBSET Nat /\ IsFiniteSet(M) /\ M \cap DOMAIN cells = {}
<1> DEFINE S == Clients(cells, hops)
           M == Markers(hops, S)
           pairs == S \X (1..TopRing)
           f == [p \in pairs |-> marker(p[1], p[2])]
<1>1. ASSUME NEW x \in M
      PROVE  \E n \in S : \E s \in 1..hops[n] : x = marker(n, s)
  BY DEF Markers, markersOf
<1>2. M \in SUBSET Nat /\ M \cap DOMAIN cells = {}
  <2> SUFFICES ASSUME NEW x \in M PROVE x \in Nat /\ x \notin DOMAIN cells
    OBVIOUS
  <2>0. PICK n \in S : \E s \in 1..hops[n] : x = marker(n, s)
    BY <1>1
  <2>1. PICK s \in 1..hops[n] : x = marker(n, s)
    BY <2>0
  <2>2. n \in Nat /\ n # 0 /\ s \in 0..(Span - 1)
    BY StepsAre
  <2>3. x \in Nat /\ x >= Span
    BY <2>1, <2>2, MarkerIs
  <2>4. \A y \in DOMAIN cells : y \in Nat /\ y < Span
    BY MeshGridAssumption DEF IsBoard
  <2>5. Span \in Nat
    BY MeshGridAssumption
  <2> HIDE DEF M, S
  <2>6. x \notin DOMAIN cells
    <3> SUFFICES ASSUME x \in DOMAIN cells PROVE FALSE
      OBVIOUS
    <3>1. x < Span
      BY <2>4
    <3> QED BY <2>3, <2>5, <3>1
  <2> QED BY <2>3, <2>6
<1>3. IsFiniteSet(pairs)
  <2>1. IsFiniteSet(S)
    BY FS_Intersection DEF Clients
  <2>2. IsFiniteSet(1..TopRing)
    <3>1. TopRing \in Int /\ 1 \in Int
      BY MeshGridAssumption
    <3> QED BY <3>1, FS_Interval
  <2> HIDE DEF S
  <2> QED BY <2>1, <2>2, FS_Product
<1>4. M \in SUBSET {f[p] : p \in pairs}
  <2> SUFFICES ASSUME NEW x \in M PROVE \E p \in pairs : x = f[p]
    OBVIOUS
  <2>0. PICK n \in S : \E s \in 1..hops[n] : x = marker(n, s)
    BY <1>1
  <2>1. PICK s \in 1..hops[n] : x = marker(n, s)
    BY <2>0
  <2>2. hops[n] \in 0..TopRing /\ TopRing \in Nat
    BY StepsAre, MeshGridAssumption
  <2>3. <<n, s>> \in pairs
    BY <2>2
  <2>4. f[<<n, s>>] = marker(n, s)
    BY <2>3
  <2> QED BY <2>1, <2>3, <2>4
<1>5. f \in [pairs -> {f[p] : p \in pairs}]
  OBVIOUS
<1> HIDE DEF f, pairs
<1>6. IsFiniteSet({f[p] : p \in pairs})
  <2> DEFINE T == {f[p] : p \in pairs}
  <2>1. f \in [pairs -> T]
    BY <1>5
  <2> HIDE DEF T
  <2>2. IsFiniteSet({f[p] : p \in pairs})
    BY <1>3, <2>1, ImageIsFinite
  <2> QED BY <2>2
<1>7. IsFiniteSet(M)
  <2> HIDE DEF M
  <2> QED BY <1>4, <1>6, FS_Subset
<1> QED BY <1>2, <1>7

LEMMA NodePlaces ==
  ASSUME NEW cells, NEW hops, IsBoard(cells, hops), IsFiniteSet(DOMAIN cells),
         NEW M, M = Markers(hops, Clients(cells, hops)),
         NEW S \in SUBSET Clients(cells, hops), NEW n \in Clients(cells, hops), n \notin S,
         NEW chain, HasPlaced(chain, Markers(hops, S), M, cells)
  PROVE  HasPlaced(place_stages(chain, n, cells, hops), Markers(hops, S \cup {n}), M, cells)
<1> DEFINE N == hops[n]
           K(i) == Markers(hops, S) \cup markersOf(n, i)
<1>1. n \in DOMAIN hops \cap DOMAIN cells /\ N \in Nat /\ 1..N \subseteq 0..(Span - 1)
      /\ n \in Nat
  BY StepsAre DEF Clients
<1>2. chain \in Chains
  BY DEF HasPlaced
<1>3. PICK h : StagesInTurn(h, chain, n, cells, hops)
  BY <1>1, <1>2, StagesRun
<1>4. /\ M \cap DOMAIN cells = {} /\ IsFiniteSet(M) /\ IsFiniteSet(DOMAIN cells \cup M)
  BY MarkersAre, FS_Union
<1>5. ASSUME NEW i \in 1..N PROVE marker(n, i) \in M /\ marker(n, i) \notin K(i - 1)
  <2>1. marker(n, i) \in M
    BY DEF Markers, markersOf
  <2>2. marker(n, i) \notin markersOf(n, i - 1)
    <3> SUFFICES ASSUME NEW s \in 1..(i - 1), marker(n, i) = marker(n, s) PROVE FALSE
      BY DEF markersOf
    <3>1. s \in 1..N /\ s # i
      BY <1>1
    <3>2. s \in 0..(Span - 1) /\ i \in 0..(Span - 1)
      BY <1>1, <3>1
    <3> QED BY <1>1, <3>1, <3>2, MarkersDiffer
  <2>3. marker(n, i) \notin Markers(hops, S)
    <3> SUFFICES ASSUME NEW m \in S, NEW s \in 1..hops[m], marker(n, i) = marker(m, s)
                 PROVE  FALSE
      BY DEF Markers, markersOf
    <3>1. m \in Nat /\ m # n /\ s \in 0..(Span - 1) /\ i \in 0..(Span - 1)
      BY <1>1, StepsAre
    <3> QED BY <1>1, <3>1, MarkersDiffer
  <2> QED BY <2>1, <2>2, <2>3
<1>6. \A i \in 0..N : K(i) \in SUBSET M
  <2> SUFFICES ASSUME NEW i \in 0..N PROVE K(i) \in SUBSET M
    OBVIOUS
  <2>1. Markers(hops, S) \in SUBSET M
    BY DEF Markers
  <2>2. \A s \in 1..i : s \in 1..N
    BY <1>1
  <2>3. markersOf(n, i) \in SUBSET M
    BY <1>5, <2>2 DEF markersOf
  <2> QED BY <2>1, <2>3
<1> DEFINE P == {i \in 0..N : HasPlaced(h[i], K(i), M, cells)}
<1>7. 0 \in P
  <2>1. h[0] \in Chains /\ 0 \in 0..N
    BY <1>1, <1>3 DEF StagesInTurn
  <2>2. h[0].taken = chain.taken /\ h[0].cells = chain.cells
    BY <1>3 DEF StagesInTurn, Chain
  <2>3. K(0) = Markers(hops, S)
    BY DEF markersOf
  <2> QED BY <2>1, <2>2, <2>3 DEF HasPlaced
<1>8. ASSUME NEW i \in 1..N, i - 1 \in P PROVE i \in P
  <2>1. i \in 0..N /\ i - 1 \in 0..N
    BY <1>1
  <2>2. HasPlaced(h[i - 1], K(i - 1), M, cells)
    BY <1>8
  <2>3. h[i - 1] \in Chains /\ h[i] = place_stage(h[i - 1], n, i, cells, hops)
    BY <1>3, <2>1 DEF StagesInTurn
  <2>4. PICK c : Stage(h[i - 1], n, i, cells, hops, c)
    BY <1>1, <2>3, StageIs
  <2>5. h[i] \in Chains
    BY <1>3, <2>1 DEF StagesInTurn
  <2> DEFINE J == K(i - 1)
             k == marker(n, i)
  <2>6. J \in SUBSET M /\ k \in M \ J
    BY <1>5, <1>6, <2>1
  <2>7. K(i) = J \cup {k}
    <3>1. 1..i = (1..(i - 1)) \cup {i}
      BY <1>1
    <3> QED BY <3>1 DEF markersOf
  <2>8. /\ c \in Cells(Grid) /\ h[i].taken = h[i - 1].taken \cup {c}
        /\ ~(Cells(Grid) \subseteq h[i - 1].taken) => c \notin h[i - 1].taken
        /\ h[i].cells = put(h[i - 1].cells, k, c)
    BY <2>3, <2>4 DEF Stage
  <2> HIDE DEF J, k, K
  <2>9. HasPlaced(h[i], J \cup {k}, M, cells)
    <3>1. HasPlaced(h[i - 1], J, M, cells)
      BY <2>2 DEF J
    <3> QED BY <1>4, <2>5, <2>6, <2>8, <3>1, StagePlaces
  <2> QED BY <2>1, <2>7, <2>9
<1> HIDE DEF P
<1>9. N \in P
  BY <1>1, <1>7, <1>8, Reached
<1>10. K(N) = Markers(hops, S \cup {n})
  BY DEF Markers
<1>11. place_stages(chain, n, cells, hops) = h[N]
  BY <1>3 DEF StagesInTurn
<1> QED BY <1>9, <1>10, <1>11 DEF P

BuildsInTurn(g, n, order, cells, hops) ==
  /\ g[0] = Chain(Range(cells), {}, cells[You], <<>>)
  /\ \A i \in 1..n : g[i] = place_stages(g[i - 1], order[i], cells, hops)
  /\ build_relay_stages(cells, hops) = g[n].cells

LEMMA BuildRun ==
  ASSUME NEW cells, NEW hops, IsBoard(cells, hops), NEW n \in Nat, NEW order,
         order \in [1..n -> Clients(cells, hops)],
         order = in_order(Clients(cells, hops), [m \in Clients(cells, hops) |-> <<m>>])
  PROVE  \E g : BuildsInTurn(g, n, order, cells, hops)
<1> DEFINE base == Chain(Range(cells), {}, cells[You], <<>>)
           step(h) == [s \in SUBSET (1..n) |->
              IF s = {} THEN base ELSE place_stages(h[s \ {Max(s)}], order[Max(s)], cells, hops)]
           fold == CHOOSE h : h = step(h)
           F == [p \in Chains \X (1..n) |-> place_stages(p[1], order[p[2]], cells, hops)]
<1>1. build_relay_stages(cells, hops) = fold[1..n].cells
  <2>1. You \in DOMAIN cells
    BY DEF IsBoard
  <2>2. DOMAIN order = 1..n
    OBVIOUS
  <2>3. order = in_order(DOMAIN hops \cap DOMAIN cells, [m \in DOMAIN hops \cap DOMAIN cells |-> <<m>>])
    BY DEF Clients
  <2> DEFINE clients == DOMAIN hops \cap DOMAIN cells
             inorder == in_order(clients, [m \in clients |-> <<m>>])
             built == FoldLeft(LAMBDA chain, m : place_stages(chain, m, cells, hops), base, inorder)
  <2>4. build_relay_stages(cells, hops) = built.cells
    BY <2>1 DEF build_relay_stages
  <2>5. order = inorder
    BY <2>3
  <2> DEFINE ordered == FoldLeft(LAMBDA chain, m : place_stages(chain, m, cells, hops), base, order)
  <2>6. built = ordered
    BY <2>5, Zenon
  <2> HIDE DEF inorder, built
  <2>7. ordered = fold[1..n]
    BY <2>2 DEF FoldLeft, MapThenFoldSet
  <2> QED BY <2>4, <2>6, <2>7
<1>2. base \in Chains
  <2>1. cells[You] \in Cells(Grid) /\ Range(cells) \in SUBSET Cells(Grid)
    BY DEF IsBoard, Range
  <2> QED BY <2>1, NoMap DEF Chain, Chains
<1> HIDE DEF base
<1>3. \A a \in Chains, i \in 1..n : place_stages(a, order[i], cells, hops) \in Chains
  <2> SUFFICES ASSUME NEW a \in Chains, NEW i \in 1..n
               PROVE  place_stages(a, order[i], cells, hops) \in Chains
    OBVIOUS
  <2>1. order[i] \in DOMAIN hops \cap DOMAIN cells
    BY DEF Clients
  <2>2. PICK h : StagesInTurn(h, a, order[i], cells, hops)
    BY <2>1, StagesRun
  <2>3. hops[order[i]] \in 0..hops[order[i]]
    <3>1. order[i] \in Clients(cells, hops)
      BY <2>1 DEF Clients
    <3>2. hops[order[i]] \in Nat
      BY <3>1, StepsAre
    <3> QED BY <3>2
  <2> QED BY <2>2, <2>3 DEF StagesInTurn
<1>4. \E h : h = step(h)
  <2>1. F \in [Chains \X (1..n) -> Chains]
    BY <1>3
  <2>2. \A q \in Chains \X (1..n) : F[q] = place_stages(q[1], order[q[2]], cells, hops)
    OBVIOUS
  <2> HIDE DEF F
  <2>3. PICK h \in [SUBSET (1..n) -> Chains] :
           /\ h = [s \in SUBSET (1..n) |-> IF s = {} THEN base
                                           ELSE F[<<h[s \ {Max(s)}], Max(s)>>]]
           /\ \A s \in SUBSET (1..n) :
                s # {} => <<h[s \ {Max(s)}], Max(s)>> \in Chains \X (1..n)
    BY <1>2, <2>1, LeftFold
  <2>4. ASSUME NEW s \in SUBSET (1..n), s # {}
        PROVE  F[<<h[s \ {Max(s)}], Max(s)>>]
                 = place_stages(h[s \ {Max(s)}], order[Max(s)], cells, hops)
    BY <2>2, <2>3, <2>4
  <2>5. h = step(h)
    BY <2>3, <2>4
  <2> QED BY <2>5
<1>5. fold = step(fold)
  <2> HIDE DEF step
  <2> QED BY <1>4
<1> HIDE DEF fold
<1> DEFINE g == [i \in 0..n |-> fold[1..i]]
<1>6. g[0] = base
  <2>1. 1..0 \in SUBSET (1..n) /\ 1..0 = {} /\ 0 \in 0..n
    OBVIOUS
  <2>2. fold[1..0] = base
    BY <1>5, <2>1
  <2> QED BY <2>1, <2>2
<1>7. ASSUME NEW i \in 1..n PROVE g[i] = place_stages(g[i - 1], order[i], cells, hops)
  <2>1. /\ 1..i \in SUBSET (1..n) /\ 1..i # {} /\ Max(1..i) = i
        /\ (1..i) \ {i} = 1..(i - 1) /\ i - 1 \in 0..n /\ i \in 0..n
    BY LastOfPrefix
  <2>2. fold[1..i] = place_stages(fold[(1..i) \ {Max(1..i)}], order[Max(1..i)], cells, hops)
    BY <1>5, <2>1
  <2> QED BY <2>1, <2>2
<1>8. g[n] = fold[1..n]
  OBVIOUS
<1> HIDE DEF g, fold
<1>9. BuildsInTurn(g, n, order, cells, hops)
  BY <1>1, <1>6, <1>7, <1>8 DEF BuildsInTurn, base
<1> QED BY <1>9

AreMarkers(stages, cells, hops) ==
  /\ DOMAIN stages = Markers(hops, Clients(cells, hops))
  /\ Range(stages) \subseteq Cells(Grid)
  /\ Cardinality(DOMAIN cells \cup DOMAIN stages) <= Cardinality(Cells(Grid)) =>
       Apart(merged(cells, stages))

(* build_relay_stages gives every ring on the way to every client a marker *)
(* in a cell of the grid, where no node is and no other marker, if there   *)
(* are as many cells.                                                      *)
THEOREM MarkersBuilt ==
  ASSUME NEW cells, NEW hops, IsBoard(cells, hops), IsFiniteSet(DOMAIN cells),
         Cardinality(DOMAIN cells) <= Cardinality(Cells(Grid)) => Apart(cells)
  PROVE  AreMarkers(build_relay_stages(cells, hops), cells, hops)
<1> DEFINE S == Clients(cells, hops)
           M == Markers(hops, S)
           key == [m \in S |-> <<m>>]
           order == in_order(S, key)
           n == Cardinality(S)
<1>1. IsFiniteSet(S) /\ S \in SUBSET Nat
  <2>1. S \in SUBSET DOMAIN cells
    BY DEF Clients
  <2>2. DOMAIN cells \in SUBSET Nat
    BY MeshGridAssumption DEF IsBoard
  <2> HIDE DEF S
  <2> QED BY <2>1, <2>2, FS_Subset
<1>2. Sorts(in_order(S, key), S, key)
  <2> DEFINE length == 1
  <2>1. length \in Nat /\ key \in [S -> Keys(length)]
    <3> SUFFICES ASSUME NEW m \in S PROVE <<m>> \in Keys(length)
      OBVIOUS
    <3>1. m \in Int
      <4> HIDE DEF S
      <4> QED BY <1>1
    <3>2. <<m>> \in Seq(Int)
      BY <3>1
    <3>3. Len(<<m>>) = 1
      OBVIOUS
    <3> QED BY <3>2, <3>3 DEF Keys
  <2>2. Apart(key)
    BY DEF Apart
  <2> HIDE DEF length, key, S
  <2> QED BY <1>1, <2>1, <2>2, SortedIs
<1>3. order \in Bijection(1..n, S) /\ n \in Nat
  <2> HIDE DEF S, key
  <2> QED BY <1>2 DEF Sorts
<1>4. order \in [1..n -> Clients(cells, hops)]
  <2> HIDE DEF order
  <2> QED BY <1>1, <1>3 DEF Bijection, Injection
<1>5. PICK g : BuildsInTurn(g, n, order, cells, hops)
  <2>1. order = in_order(Clients(cells, hops), [m \in Clients(cells, hops) |-> <<m>>])
    OBVIOUS
  <2>2. n \in Nat
    BY <1>3
  <2> HIDE DEF order, n
  <2> QED BY <1>4, <2>1, <2>2, BuildRun
<1> HIDE DEF order, n, key
<1> DEFINE K(i) == Markers(hops, FirstOf(order, i))
           P == {i \in 0..n : HasPlaced(g[i], K(i), M, cells)}
<1>6. M \in SUBSET Nat /\ IsFiniteSet(M) /\ M \cap DOMAIN cells = {}
  BY MarkersAre
<1>7. 0 \in P
  <2> DEFINE base == Chain(Range(cells), {}, cells[You], <<>>)
  <2>1. g[0] = base
    BY <1>5 DEF BuildsInTurn
  <2>2. base \in Chains
    <3>1. cells[You] \in Cells(Grid) /\ Range(cells) \in SUBSET Cells(Grid)
      BY DEF IsBoard, Range
    <3> QED BY <3>1, NoMap DEF Chain, Chains
  <2>3. base.taken = Range(cells) /\ base.cells = <<>>
    BY DEF Chain
  <2>4. Range(base.cells) = {} /\ DOMAIN base.cells = {}
    <3>1. DOMAIN <<>> = {} /\ Range(<<>>) = {}
      BY DEF Range
    <3> HIDE DEF base
    <3> QED BY <2>3, <3>1
  <2>5. merged(cells, <<>>) = [m \in DOMAIN cells |-> cells[m]]
    BY DEF merged
  <2>6. ASSUME Cardinality(DOMAIN cells \cup M) <= Cardinality(Cells(Grid))
        PROVE  Apart(merged(cells, <<>>))
    <3>1. IsFiniteSet(DOMAIN cells \cup M)
      BY <1>6, FS_Union
    <3>2. Cardinality(DOMAIN cells) <= Cardinality(DOMAIN cells \cup M)
      <4>1. DOMAIN cells \in SUBSET (DOMAIN cells \cup M)
        OBVIOUS
      <4> HIDE DEF M
      <4> QED BY <3>1, <4>1, FS_Subset
    <3>3. /\ Cardinality(DOMAIN cells) \in Nat /\ Cardinality(DOMAIN cells \cup M) \in Nat
          /\ Cardinality(Cells(Grid)) \in Nat
      <4>1. IsFiniteSet(Cells(Grid))
        BY GridIsThere, CellsAre DEF GridIs
      <4> QED BY <3>1, <4>1, FS_CardinalityType
    <3>4. Apart(cells)
      BY <2>6, <3>2, <3>3
    <3> QED BY <2>5, <3>4 DEF Apart
  <2>7. K(0) = {}
    BY DEF Markers, FirstOf
  <2> HIDE DEF base, K, M
  <2>8. HasPlaced(g[0], {}, M, cells)
    BY <2>1, <2>2, <2>3, <2>4, <2>6 DEF HasPlaced
  <2>9. 0 \in 0..n
    BY <1>3
  <2> QED BY <2>7, <2>8, <2>9
<1>8. ASSUME NEW i \in 1..n, i - 1 \in P PROVE i \in P
  <2>1. i \in 0..n
    OBVIOUS
  <2>2. HasPlaced(g[i - 1], K(i - 1), M, cells)
    BY <1>8
  <2> DEFINE T == FirstOf(order, i - 1)
  <2>3. \A j \in 1..n : order[j] \in S
    BY <1>4
  <2>4. T \in SUBSET S /\ order[i] \in S /\ order[i] \notin T
    <3>1. \A j \in 1..(i - 1) : j \in 1..n /\ j # i
      BY <1>3
    <3>2. \A j, k \in 1..n : order[j] = order[k] => j = k
      BY <1>3 DEF Bijection, Injection, IsInjective
    <3> HIDE DEF S
    <3> QED BY <2>3, <3>1, <3>2 DEF FirstOf
  <2>5. FirstOf(order, i) = T \cup {order[i]}
    BY <1>3, FirstOfNext
  <2>6. g[i] = place_stages(g[i - 1], order[i], cells, hops)
    BY <1>5 DEF BuildsInTurn
  <2> HIDE DEF T, M
  <2>7. HasPlaced(place_stages(g[i - 1], order[i], cells, hops), Markers(hops, T \cup {order[i]}),
                  M, cells)
    <3>1. HasPlaced(g[i - 1], Markers(hops, T), M, cells)
      BY <2>2 DEF T
    <3>2. M = Markers(hops, Clients(cells, hops))
      BY DEF M
    <3> QED BY <2>4, <3>1, <3>2, NodePlaces
  <2> QED BY <2>1, <2>5, <2>6, <2>7
<1> HIDE DEF P
<1>9. n \in P
  BY <1>3, <1>7, <1>8, Reached
<1>10. FirstOf(order, n) = S
  BY <1>3 DEF FirstOf, Bijection, Surjection, Injection
<1>11. HasPlaced(g[n], M, M, cells)
  BY <1>9, <1>10 DEF P
<1>12. g[n].cells \in PartialMaps(Nat, Cells(Grid))
  BY <1>11 DEF HasPlaced, Chains
<1>13. Range(g[n].cells) \subseteq Cells(Grid)
  BY <1>12, PartialMapsAre DEF Range
<1>14. build_relay_stages(cells, hops) = g[n].cells
  BY <1>5 DEF BuildsInTurn
<1> HIDE DEF M
<1> QED BY <1>11, <1>13, <1>14 DEF HasPlaced, AreMarkers, M

-----------------------------------------------------------------------------
(* The ideal slots are offsets.                                            *)

LEMMA SquareIs ==
  ASSUME NEW x \in Int
  PROVE  x * x \in Nat /\ (x # 0 => x * x >= 1)
<1>1. x >= 0 => x * x >= 0
  OBVIOUS
<1>2. x < 0 => x * x >= 0
  OBVIOUS
<1>3. x # 0 => x * x # 0
  OBVIOUS
<1>4. x * x \in Int
  OBVIOUS
<1> DEFINE y == x * x
<1> HIDE DEF y
<1>5. y >= 0 => y \in Nat /\ (y # 0 => y >= 1)
  BY <1>4 DEF y
<1> QED BY <1>1, <1>2, <1>3, <1>4, <1>5 DEF y

(* A coordinate of a vector scaled to the ring: k is there.                *)
Scaled(k, x, norm, ring) ==
  /\ (2 * k + 1) * (2 * k + 1) * norm > 4 * x * x * ring * ring
  /\ k > 0 => (2 * k - 1) * (2 * k - 1) * norm <= 4 * x * x * ring * ring

LEMMA ScaledIsThere ==
  ASSUME NEW x \in Int, NEW norm \in Nat, norm # 0, x * x <= norm, NEW ring \in Nat
  PROVE  \E k \in 0..ring : Scaled(k, x, norm, ring)
<1> DEFINE goal == 4 * x * x * ring * ring
           f(k) == (2 * k + 1) * (2 * k + 1) * norm
           K == {k \in 0..ring : f(k) > goal}
<1>1. goal \in Int /\ \A k \in Int : f(k) \in Int
  OBVIOUS
<1>2. f(ring) > goal
  <2> DEFINE q == x * x
             s == ring * ring
             w == norm - q
  <2>1. q \in Nat /\ s \in Nat /\ w \in Nat /\ norm = q + w
    BY SquareIs
  <2>2. goal = 4 * (q * s)
    OBVIOUS
  <2>3. f(ring) = (4 * s + 4 * ring + 1) * norm
    OBVIOUS
  <2> HIDE DEF goal, f, q, s, w
  <2>4. (4 * s + 4 * ring + 1) * norm = 4 * (s * norm) + 4 * (ring * norm) + norm
    BY <2>1
  <2>5. s * norm = q * s + s * w
    BY <2>1
  <2>6. q * s \in Nat /\ s * w \in Nat /\ ring * norm \in Nat
    BY <2>1
  <2> DEFINE a == q * s
             b == s * w
             c == ring * norm
             d == s * norm
  <2> HIDE DEF a, b, c, d
  <2>7. f(ring) = 4 * d + 4 * c + norm /\ d = a + b /\ goal = 4 * a
        /\ a \in Nat /\ b \in Nat /\ c \in Nat
    BY <2>2, <2>3, <2>4, <2>5, <2>6 DEF a, b, c, d
  <2> QED BY <2>7
<1>3. K \in SUBSET Nat /\ K # {}
  <2>1. ring \in 0..ring
    OBVIOUS
  <2> HIDE DEF f, goal
  <2>2. ring \in K
    BY <1>2, <2>1
  <2> QED BY <2>2
<1> DEFINE k == Min(K)
<1>4. k \in K /\ \A m \in K : k <= m
  <2> HIDE DEF K
  <2> QED BY <1>3, LeastOf
<1>5. k \in 0..ring /\ f(k) > goal
  BY <1>4
<1>6. ASSUME k > 0 PROVE (2 * k - 1) * (2 * k - 1) * norm <= goal
  <2> DEFINE l == k - 1
  <2>1. l \in 0..ring /\ ~(k <= l) /\ 2 * l + 1 = 2 * k - 1
    BY <1>5, <1>6
  <2>2. l \notin K
    <3> HIDE DEF k, l, K
    <3> QED BY <1>4, <2>1
  <2>3. ~(f(l) > goal)
    BY <2>1, <2>2
  <2>4. f(l) \in Int
    BY <1>1, <2>1
  <2>5. f(l) = (2 * k - 1) * (2 * k - 1) * norm
    BY <2>1
  <2> HIDE DEF f, goal, l, k
  <2> QED BY <1>1, <2>3, <2>4, <2>5
<1> HIDE DEF k
<1>7. Scaled(k, x, norm, ring)
  BY <1>5, <1>6 DEF Scaled
<1> QED BY <1>5, <1>7

LEMMA ScaleIs ==
  ASSUME NEW v \in Offsets, NEW ring \in Nat
  PROVE  scale_to_radius(v, ring) \in Offsets
<1> DEFINE norm == square_norm(v)
           scaled(x) == sign(x) * CHOOSE k \in 0..ring : Scaled(k, x, norm, ring)
<1>1. v[1] \in Int /\ v[2] \in Int
  BY DEF Offsets
<1>2. scale_to_radius(v, ring) = IF norm = 0 THEN <<0, -ring>> ELSE <<scaled(v[1]), scaled(v[2])>>
  BY DEF scale_to_radius, Scaled
<1>3. /\ norm = v[1] * v[1] + v[2] * v[2]
      /\ v[1] * v[1] \in Nat /\ v[2] * v[2] \in Nat
  BY <1>1, SquareIs DEF square_norm
<1>4. norm \in Nat /\ v[1] * v[1] <= norm /\ v[2] * v[2] <= norm
  <2> DEFINE a == v[1] * v[1]
             b == v[2] * v[2]
  <2> HIDE DEF a, b, norm
  <2>1. norm = a + b /\ a \in Nat /\ b \in Nat
    BY <1>3 DEF a, b
  <2>2. norm \in Nat /\ a <= norm /\ b <= norm
    BY <2>1
  <2> QED BY <2>2 DEF a, b
<1> HIDE DEF norm
<1>5. ASSUME norm # 0, NEW x \in Int, x * x <= norm
      PROVE  scaled(x) \in Int
  <2> DEFINE k == CHOOSE k \in 0..ring : Scaled(k, x, norm, ring)
  <2>1. k \in 0..ring
    BY <1>4, <1>5, ScaledIsThere
  <2>2. sign(x) \in Int
    BY DEF sign
  <2> HIDE DEF k
  <2>3. sign(x) * k \in Int
    BY <2>1, <2>2
  <2> QED BY <2>3 DEF k
<1>6. CASE norm = 0
  <2>1. scale_to_radius(v, ring) = <<0, -ring>>
    BY <1>2, <1>6
  <2> QED BY <2>1 DEF Offsets
<1>7. CASE norm # 0
  <2>1. scaled(v[1]) \in Int /\ scaled(v[2]) \in Int
    BY <1>1, <1>4, <1>5, <1>7
  <2>2. scale_to_radius(v, ring) = <<scaled(v[1]), scaled(v[2])>>
    BY <1>2, <1>7
  <2> HIDE DEF scaled
  <2> QED BY <2>1, <2>2 DEF Offsets
<1> QED BY <1>6, <1>7

LEMMA SpreadOut ==
  ASSUME NEW count \in Nat, NEW index \in Nat, index < count, NEW ring \in Nat
  PROVE  ring_spread(index, count, ring) \in Offsets
<1> DEFINE j == (index + 1) \div 2
           angle == (180 * j) \div count
           side == IF index % 2 = 0 THEN 1 ELSE -1
<1>1. j \in Nat /\ j <= count
  OBVIOUS
<1> HIDE DEF j
<1>2. angle \in 0..180
  <2> DEFINE x == 180 * j
  <2>1. x \in Nat /\ x <= 180 * count
    BY <1>1
  <2> HIDE DEF x
  <2>2. x \div count \in Int /\ x \div count >= 0 /\ count * (x \div count) <= x
    BY <2>1
  <2> DEFINE q == x \div count
  <2> HIDE DEF q
  <2>3. ~(181 <= q)
    <3> SUFFICES ASSUME 181 <= q PROVE FALSE
      OBVIOUS
    <3>1. q \in Nat /\ 181 \in Nat
      BY <2>2 DEF q
    <3>2. count * 181 <= count * q
      BY <3>1, ProductGrows
    <3>3. count * q <= x /\ count * q \in Nat
      BY <2>2, <3>1 DEF q
    <3> QED BY <2>1, <3>2, <3>3
  <2> QED BY <2>2, <2>3 DEF q, x
<1>3. Cosine[angle] \in Int /\ Sine[angle] \in Int
  BY <1>2, MeshGridAssumption
<1>4. ASSUME NEW a \in Int PROVE rounded(ring * a, 1000) \in Int
  <2> DEFINE x == ring * a
             b == 1000
  <2>1. x \in Int /\ b \in Nat \ {0}
    OBVIOUS
  <2> HIDE DEF x, b
  <2>2. rounded(x, b) \in Int
    BY <2>1, RoundedIs
  <2> QED BY <2>2 DEF x, b
<1>5. ring_spread(index, count, ring) =
        <<rounded(ring * Cosine[angle], 1000), side * rounded(ring * Sine[angle], 1000)>>
  BY DEF ring_spread, j
<1> HIDE DEF angle
<1> DEFINE c == rounded(ring * Cosine[angle], 1000)
           s == rounded(ring * Sine[angle], 1000)
<1>6. c \in Int /\ s \in Int
  BY <1>3, <1>4
<1> HIDE DEF c, s
<1>7. side * s \in Int
  BY <1>6
<1> QED BY <1>5, <1>6, <1>7 DEF Offsets, c, s

-----------------------------------------------------------------------------
(* The ideal slots.                                                        *)

SumsOf(S, at, axis) ==
  CHOOSE h : h = [s \in SUBSET S |->
     IF s = {} THEN 0 ELSE at[CHOOSE x \in s : TRUE][axis] + h[s \ {CHOOSE x \in s : TRUE}]]

LEMMA SumIs ==
  ASSUME NEW S, IsFiniteSet(S), NEW at, NEW axis, \A k \in S : at[k][axis] \in Int
  PROVE  SumsOf(S, at, axis)[S] \in Int
<1> DEFINE step(h) == [s \in SUBSET S |->
              IF s = {} THEN 0 ELSE at[CHOOSE x \in s : TRUE][axis]
                                    + h[s \ {CHOOSE x \in s : TRUE}]]
           fold == CHOOSE h : h = step(h)
           pick == [s \in SUBSET S |-> CHOOSE x \in s : TRUE]
           F == [p \in Int \X S |-> at[p[2]][axis] + p[1]]
<1>1. SumsOf(S, at, axis) = fold
  BY DEF SumsOf
<1>2. F \in [Int \X S -> Int] /\ \A a \in Int, k \in S : F[<<a, k>>] = at[k][axis] + a
  OBVIOUS
<1>3. \A s \in SUBSET S : s # {} => (CHOOSE x \in s : TRUE) \in s
  OBVIOUS
<1>4. \A s \in SUBSET S : pick[s] = CHOOSE x \in s : TRUE
  OBVIOUS
<1> HIDE DEF F, pick
<1>5. PICK h \in [SUBSET S -> Int] : Recursive(h, S, pick, 0, F)
  <2>1. 0 \in Int /\ \A s \in SUBSET S : s # {} => pick[s] \in s
    BY <1>3, <1>4
  <2> QED BY <1>2, <2>1, RecursiveIs
<1>6. h = step(h)
  <2>1. h = [s \in SUBSET S |-> IF s = {} THEN 0 ELSE F[<<h[s \ {pick[s]}], pick[s]>>]]
    BY <1>5 DEF Recursive
  <2>2. ASSUME NEW s \in SUBSET S, s # {}
        PROVE  F[<<h[s \ {pick[s]}], pick[s]>>]
                 = at[CHOOSE x \in s : TRUE][axis] + h[s \ {CHOOSE x \in s : TRUE}]
    <3>1. pick[s] = (CHOOSE x \in s : TRUE) /\ pick[s] \in S
      BY <1>3, <1>4, <2>2
    <3>2. s \ {pick[s]} \in SUBSET S
      OBVIOUS
    <3>3. h[s \ {pick[s]}] \in Int
      BY <3>2
    <3>4. F[<<h[s \ {pick[s]}], pick[s]>>] = at[pick[s]][axis] + h[s \ {pick[s]}]
      BY <1>2, <3>1, <3>3
    <3> QED BY <3>1, <3>4
  <2> QED BY <2>1, <2>2
<1>7. fold = step(fold)
  <2> HIDE DEF step
  <2> QED BY <1>6
<1> HIDE DEF fold
<1> DEFINE P == {n \in Nat : \A s \in SUBSET S : Cardinality(s) = n => fold[s] \in Int}
<1>8. \A s \in SUBSET S : IsFiniteSet(s) /\ Cardinality(s) \in Nat
  BY FS_Subset, FS_CardinalityType
<1>9. 0 \in P
  <2> SUFFICES ASSUME NEW s \in SUBSET S, Cardinality(s) = 0 PROVE fold[s] \in Int
    OBVIOUS
  <2>1. s = {}
    BY <1>8, FS_EmptySet
  <2> QED BY <1>7, <2>1
<1>10. ASSUME NEW n \in P PROVE n + 1 \in P
  <2>1. n \in Nat /\ n + 1 \in Nat
    OBVIOUS
  <2>2. ASSUME NEW s \in SUBSET S, Cardinality(s) = n + 1 PROVE fold[s] \in Int
    <3> DEFINE x == CHOOSE x \in s : TRUE
               t == s \ {x}
    <3>1. s # {}
      BY <2>1, <2>2, FS_EmptySet
    <3>2. x \in s /\ x \in S /\ t \in SUBSET S
      BY <3>1
    <3>3. fold[s] = at[x][axis] + fold[t]
      BY <1>7, <3>1
    <3> HIDE DEF x
    <3>4. Cardinality(t) = n
      <4>1. Cardinality(s \ {x}) = Cardinality(s) - 1
        BY <1>8, <3>2, FS_RemoveElement
      <4> QED BY <2>1, <2>2, <4>1
    <3>5. fold[t] \in Int
      BY <3>2, <3>4
    <3> QED BY <3>2, <3>3, <3>5
  <2> HIDE DEF fold
  <2> QED BY <2>1, <2>2
<1>11. P = Nat
  <2>1. P \in SUBSET Nat
    OBVIOUS
  <2> HIDE DEF P
  <2> QED BY <1>9, <1>10, <2>1, AllNumbers
<1>12. S \in SUBSET S /\ Cardinality(S) \in P
  BY <1>8, <1>11
<1>13. fold[S] \in Int
  BY <1>12
<1> QED BY <1>1, <1>13

LEMMA AbsIs ==
  ASSUME NEW x \in Int
  PROVE  abs_value(x) \in Nat
BY DEF abs_value

(* The offsets from the mean, each as often as there are nodes.            *)
LEMMA ProjectionIs ==
  ASSUME NEW gps, IsFiniteSet(gps), NEW n \in gps, NEW at, \A m \in gps : at[m] \in Offsets
  PROVE  projected(n, at, gps) \in Offsets
<1> DEFINE sum(axis) == MapThenSumSet(LAMBDA k : at[k][axis], gps)
           off(m, axis) == at[m][axis] * Cardinality(gps) - sum(axis)
           K == {abs_value(off(m, axis)) : m \in gps, axis \in {1, 2}}
           reach == Max(K)
<1>1. projected(n, at, gps) =
        IF reach = 0 THEN <<0, 0>>
        ELSE <<rounded(off(n, 1) * TopRing, reach), rounded(-off(n, 2) * TopRing, reach)>>
  BY DEF projected
<1>2. \A m \in gps : \A axis \in {1, 2} : at[m][axis] \in Int
  BY DEF Offsets
<1>3. \A axis \in {1, 2} : sum(axis) \in Int
  <2> TAKE axis \in {1, 2}
  <2>1. \A k \in gps : at[k][axis] \in Int
    BY <1>2
  <2>2. SumsOf(gps, at, axis)[gps] \in Int
    BY <2>1, SumIs
  <2>3. sum(axis) = SumsOf(gps, at, axis)[gps]
    BY DEF MapThenSumSet, MapThenFoldSet, SumsOf
  <2> QED BY <2>2, <2>3
<1> HIDE DEF sum
<1>4. Cardinality(gps) \in Nat
  BY FS_CardinalityType
<1>5. \A m \in gps : \A axis \in {1, 2} : off(m, axis) \in Int
  <2> TAKE m \in gps
  <2> TAKE axis \in {1, 2}
  <2> DEFINE x == at[m][axis]
             y == Cardinality(gps)
             z == sum(axis)
  <2>1. x \in Int /\ y \in Int /\ z \in Int
    BY <1>2, <1>3, <1>4
  <2> HIDE DEF x, y, z
  <2>2. x * y - z \in Int
    BY <2>1
  <2> QED BY <2>2 DEF x, y, z
<1> HIDE DEF off
<1>6. \A m \in gps : \A axis \in {1, 2} : abs_value(off(m, axis)) \in Nat
  BY <1>5, AbsIs
<1>7. K \in SUBSET Nat /\ K # {}
  <2>1. abs_value(off(n, 1)) \in K
    OBVIOUS
  <2> QED BY <1>6, <2>1
<1>8. IsFiniteSet(K)
  <2> DEFINE T == gps \X {1, 2}
             f == [p \in T |-> abs_value(off(p[1], p[2]))]
  <2>1. IsFiniteSet({1, 2})
    <3>1. IsFiniteSet({}) /\ {1, 2} = ({} \cup {1}) \cup {2}
      BY FS_EmptySet
    <3>2. IsFiniteSet({} \cup {1})
      BY <3>1, FS_AddElement
    <3> DEFINE one == {} \cup {1}
    <3> HIDE DEF one
    <3>3. IsFiniteSet(one \cup {2})
      BY <3>2, FS_AddElement DEF one
    <3> QED BY <3>1, <3>3 DEF one
  <2>2. IsFiniteSet(T)
    BY <2>1, FS_Product
  <2>3. \A p \in T : p[1] \in gps /\ p[2] \in {1, 2}
    OBVIOUS
  <2>4. f \in [T -> Nat]
    BY <1>6, <2>3
  <2>5. \A m \in gps : \A axis \in {1, 2} : <<m, axis>> \in T
    OBVIOUS
  <2>6. \A m \in gps : \A axis \in {1, 2} : f[<<m, axis>>] = abs_value(off(m, axis))
    BY <2>5
  <2> HIDE DEF T, f
  <2> DEFINE U == {f[p] : p \in T}
  <2>7. IsFiniteSet(U)
    BY <2>2, <2>4, ImageIsFinite
  <2>8. K \subseteq U
    <3> SUFFICES ASSUME NEW m \in gps, NEW axis \in {1, 2} PROVE abs_value(off(m, axis)) \in U
      OBVIOUS
    <3> QED BY <2>5, <2>6
  <2> HIDE DEF U
  <2> HIDE DEF K
  <2> QED BY <2>7, <2>8, FS_Subset
<1>9. reach \in Nat
  <2>1. Max(K) \in K
    <3> HIDE DEF K
    <3> QED BY <1>7, <1>8, GreatestOf
  <2> QED BY <1>7, <2>1
<1> HIDE DEF reach
<1>10. CASE reach = 0
  BY <1>1, <1>10 DEF Offsets
<1>11. CASE reach # 0
  <2>1. off(n, 1) * TopRing \in Int /\ -off(n, 2) * TopRing \in Int
    BY <1>5, MeshGridAssumption
  <2>2. reach \in Nat \ {0}
    BY <1>9, <1>11
  <2>3. rounded(off(n, 1) * TopRing, reach) \in Int /\ rounded(-off(n, 2) * TopRing, reach) \in Int
    BY <2>1, <2>2, RoundedIs
  <2>4. projected(n, at, gps) =
          <<rounded(off(n, 1) * TopRing, reach), rounded(-off(n, 2) * TopRing, reach)>>
    BY <1>1, <1>11
  <2> QED BY <2>3, <2>4 DEF Offsets
<1> QED BY <1>10, <1>11

-----------------------------------------------------------------------------
(* The regions.                                                            *)

Octants == {"N", "NE", "E", "SE", "S", "SW", "W", "NW"}
AllRegions == Octants \cup {"GPS_RELATIVE", "UNKNOWN"}

LEMMA DirectionsAre ==
  /\ \A i \in 1..8 : Directions[i] \in Octants
  /\ \A region \in Octants : \E i \in 1..8 : Directions[i] = region
<1>1. /\ Directions[1] = "N" /\ Directions[2] = "NE" /\ Directions[3] = "E" /\ Directions[4] = "SE"
      /\ Directions[5] = "S" /\ Directions[6] = "SW" /\ Directions[7] = "W" /\ Directions[8] = "NW"
  BY DEF Directions
<1>2. 1..8 = {1, 2, 3, 4, 5, 6, 7, 8}
  OBVIOUS
<1> QED BY <1>1, <1>2, Zenon DEF Octants

LEMMA VectorsAre ==
  /\ \A i \in 1..8 : Vectors[i] \in Offsets
  /\ \A a, b \in {-1, 0, 1} : ~(a = 0 /\ b = 0) => \E i \in 1..8 : Vectors[i] = <<a, b>>
<1>1. /\ Vectors[1] = <<0, -1>> /\ Vectors[2] = <<1, -1>> /\ Vectors[3] = <<1, 0>>
      /\ Vectors[4] = <<1, 1>> /\ Vectors[5] = <<0, 1>> /\ Vectors[6] = <<-1, 1>>
      /\ Vectors[7] = <<-1, 0>> /\ Vectors[8] = <<-1, -1>>
  BY DEF Vectors
<1>2. ASSUME NEW i \in 1..8 PROVE Vectors[i] \in Offsets
  <2>1. i \in {1, 2, 3, 4, 5, 6, 7, 8}
    OBVIOUS
  <2>2. /\ <<0, -1>> \in Offsets /\ <<1, -1>> \in Offsets /\ <<1, 0>> \in Offsets
        /\ <<1, 1>> \in Offsets /\ <<0, 1>> \in Offsets /\ <<-1, 1>> \in Offsets
        /\ <<-1, 0>> \in Offsets /\ <<-1, -1>> \in Offsets
    BY DEF Offsets
  <2> QED BY <1>1, <2>1, <2>2, Zenon
<1>3. ASSUME NEW a \in {-1, 0, 1}, NEW b \in {-1, 0, 1}, ~(a = 0 /\ b = 0)
      PROVE  \E i \in 1..8 : Vectors[i] = <<a, b>>
  <2>1. 1 \in 1..8 /\ 2 \in 1..8 /\ 3 \in 1..8 /\ 4 \in 1..8 /\ 5 \in 1..8 /\ 6 \in 1..8
        /\ 7 \in 1..8 /\ 8 \in 1..8
    OBVIOUS
  <2>2. \/ <<a, b>> \in {<<0, -1>>, <<1, -1>>, <<1, 0>>, <<1, 1>>}
        \/ <<a, b>> \in {<<0, 1>>, <<-1, 1>>, <<-1, 0>>, <<-1, -1>>}
    BY <1>3
  <2> QED BY <1>1, <2>1, <2>2, Zenon
<1> QED BY <1>2, <1>3

LEMMA SignIs ==
  ASSUME NEW x \in Int
  PROVE  sign(x) \in {-1, 0, 1} /\ -sign(x) \in {-1, 0, 1} /\ (sign(x) = 0 <=> x = 0)
<1>1. CASE x < 0
  <2>1. sign(x) = -1
    BY <1>1 DEF sign
  <2>2. sign(x) + 1 = 0 /\ sign(x) \in Int
    BY <2>1
  <2> DEFINE s == sign(x)
  <2> HIDE DEF s
  <2>3. s + 1 = 0 /\ s \in Int
    BY <2>2 DEF s
  <2>4. s \in {-1, 0, 1} /\ -s \in {-1, 0, 1} /\ s # 0
    BY <2>3
  <2> QED BY <1>1, <2>4 DEF s
<1>2. CASE x = 0
  <2>1. sign(x) = 0
    BY <1>2 DEF sign
  <2> QED BY <1>2, <2>1
<1>3. CASE x > 0
  <2>1. sign(x) = 1
    BY <1>3 DEF sign
  <2> QED BY <1>3, <2>1
<1> QED BY <1>1, <1>2, <1>3

LEMMA BucketIs ==
  ASSUME NEW e \in Int, NEW n \in Int
  PROVE  direction_bucket(e, n) \in Octants
<1> DEFINE flat(a, b) == 1000 * abs_value(a) < 414 * abs_value(b)
           x == IF flat(e, n) THEN 0 ELSE sign(e)
           y == IF flat(n, e) THEN 0 ELSE -sign(n)
           v == IF e = 0 /\ n = 0 THEN <<0, -1>> ELSE <<x, y>>
<1>1. direction_bucket(e, n) = Directions[CHOOSE i \in 1..8 : Vectors[i] = v]
  BY DEF direction_bucket
<1>2. \E i \in 1..8 : Vectors[i] = v
  <2>1. CASE e = 0 /\ n = 0
    <3>1. v = <<0, -1>> /\ 0 \in {-1, 0, 1} /\ -1 \in {-1, 0, 1} /\ -1 # 0
      BY <2>1
    <3> QED BY <3>1, VectorsAre
  <2>2. CASE ~(e = 0 /\ n = 0)
    <3>1. x \in {-1, 0, 1} /\ y \in {-1, 0, 1}
      BY SignIs
    <3>2. ~(x = 0 /\ y = 0)
      <4> SUFFICES ASSUME x = 0, y = 0 PROVE FALSE
        OBVIOUS
      <4>1. flat(e, n) \/ e = 0
        BY SignIs
      <4>2. flat(n, e) \/ n = 0
        <5>1. CASE flat(n, e)
          BY <5>1
        <5>2. CASE ~flat(n, e)
          <6>1. -sign(n) = 0 /\ sign(n) \in {-1, 0, 1}
            BY <5>2, SignIs
          <6> QED BY <6>1, SignIs
        <5> QED BY <5>1, <5>2
      <4> QED BY <2>2, <4>1, <4>2 DEF abs_value
    <3>3. v = <<x, y>>
      BY <2>2
    <3> HIDE DEF x, y, v
    <3> QED BY <3>1, <3>2, <3>3, VectorsAre
  <2> QED BY <2>1, <2>2
<1> HIDE DEF v
<1>3. (CHOOSE i \in 1..8 : Vectors[i] = v) \in 1..8
  BY <1>2
<1> QED BY <1>1, <1>3, DirectionsAre

(* Where the nodes are, and on which rings.                                *)
AreAt(at, remotes) ==
  /\ remotes \subseteq Nat \ {You} /\ IsFiniteSet(remotes)
  /\ \A n \in remotes \cup {You} : at[n] \in Offsets \cup {Nowhere}

AreRinged(ring, remotes) == \A n \in remotes : ring[n] \in 1..TopRing

LEMMA RegionIs ==
  ASSUME NEW at, NEW remotes, AreAt(at, remotes), NEW n \in remotes
  PROVE  /\ region_of(n, at, remotes) \in AllRegions
         /\ region_of(n, at, remotes) \in Octants => at[n] \in Offsets /\ at[You] \in Offsets
<1>1. CASE n \in gps_cluster(at, remotes)
  BY <1>1 DEF region_of, AllRegions, Octants
<1>2. CASE n \notin gps_cluster(at, remotes) /\ Nowhere \in {at[n], at[You]}
  BY <1>2 DEF region_of, AllRegions, Octants
<1>3. CASE n \notin gps_cluster(at, remotes) /\ Nowhere \notin {at[n], at[You]}
  <2>1. at[n] \in Offsets /\ at[You] \in Offsets
    BY <1>3 DEF AreAt
  <2>2. at[n][1] \in Int /\ at[n][2] \in Int /\ at[You][1] \in Int /\ at[You][2] \in Int
    BY <2>1 DEF Offsets
  <2>3. at[n][1] - at[You][1] \in Int /\ at[n][2] - at[You][2] \in Int
    BY <2>2
  <2>4. direction_bucket(at[n][1] - at[You][1], at[n][2] - at[You][2]) \in Octants
    BY <2>3, BucketIs
  <2>5. region_of(n, at, remotes) =
          direction_bucket(at[n][1] - at[You][1], at[n][2] - at[You][2])
    BY <1>3 DEF region_of
  <2> QED BY <2>1, <2>4, <2>5 DEF AllRegions
<1> QED BY <1>1, <1>2, <1>3

LEMMA ClusterIs ==
  ASSUME NEW at, NEW remotes, AreAt(at, remotes)
  PROVE  LET gps == gps_cluster(at, remotes)
         IN  /\ gps \subseteq remotes /\ IsFiniteSet(gps)
             /\ \A m \in gps : at[m] \in Offsets
<1> DEFINE gps == gps_cluster(at, remotes)
<1>1. \A m \in gps : m \in remotes /\ at[m] # Nowhere
  BY DEF gps_cluster
<1>2. gps \subseteq remotes
  BY <1>1
<1>3. IsFiniteSet(remotes) /\ \A m \in remotes : at[m] \in Offsets \cup {Nowhere}
  BY DEF AreAt
<1> HIDE DEF gps
<1>4. IsFiniteSet(gps)
  BY <1>2, <1>3, FS_Subset
<1>5. gps \subseteq remotes /\ IsFiniteSet(gps) /\ \A m \in gps : at[m] \in Offsets
  BY <1>1, <1>2, <1>3, <1>4
<1> QED BY <1>5 DEF gps

LEMMA IdealIs ==
  ASSUME NEW at, NEW remotes, AreAt(at, remotes), NEW ring, AreRinged(ring, remotes),
         NEW n \in remotes
  PROVE  ideal_slot(n, region_of(n, at, remotes), at, remotes, ring) \in Offsets
<1> DEFINE region == region_of(n, at, remotes)
           r == clamp(ring[n], 1, TopRing)
           alike == {m \in InRegion("UNKNOWN", at, remotes) : ring[m] = ring[n]}
           i == CHOOSE k \in 1..8 : Directions[k] = region
           ideal == ideal_slot(n, region, at, remotes, ring)
<1>1. r \in Nat
  <2>1. ring[n] \in Nat /\ TopRing \in Nat
    BY MeshGridAssumption DEF AreRinged
  <2> QED BY <2>1 DEF clamp
<1>2. region \in AllRegions
  BY RegionIs
<1>3. CASE region = "GPS_RELATIVE"
  <2> DEFINE gps == gps_cluster(at, remotes)
  <2>1. n \in gps
    <3> SUFFICES ASSUME n \notin gps PROVE FALSE
      OBVIOUS
    <3>1. region \in Octants \cup {"UNKNOWN"}
      <4>1. CASE Nowhere \in {at[n], at[You]}
        BY <4>1 DEF region_of
      <4>2. CASE Nowhere \notin {at[n], at[You]}
        <5>1. region = direction_bucket(at[n][1] - at[You][1], at[n][2] - at[You][2])
          BY <4>2 DEF region_of
        <5>2. at[n] \in Offsets /\ at[You] \in Offsets
          BY <4>2 DEF AreAt
        <5>3. at[n][1] - at[You][1] \in Int /\ at[n][2] - at[You][2] \in Int
          BY <5>2 DEF Offsets
        <5> QED BY <5>1, <5>3, BucketIs
      <4> QED BY <4>1, <4>2
    <3> QED BY <1>3, <3>1 DEF Octants
  <2>2. gps \subseteq remotes /\ IsFiniteSet(gps) /\ \A m \in gps : at[m] \in Offsets
    BY ClusterIs
  <2> HIDE DEF gps
  <2>3. projected(n, at, gps) \in Offsets
    BY <2>1, <2>2, ProjectionIs
  <2>4. scale_to_radius(projected(n, at, gps), r) \in Offsets
    BY <1>1, <2>3, ScaleIs
  <2>5. ideal = scale_to_radius(projected(n, at, gps), r)
    BY <1>3 DEF ideal_slot, gps
  <2> QED BY <2>4, <2>5
<1>4. CASE region = "UNKNOWN"
  <2> DEFINE before == {m \in alike : m < n}
  <2>1. /\ alike \subseteq remotes /\ n \in alike /\ n \notin before /\ before \subseteq alike
        /\ IsFiniteSet(remotes) /\ remotes \subseteq Nat
    BY <1>4 DEF AreAt, InRegion
  <2> HIDE DEF alike, before
  <2>2. IsFiniteSet(alike) /\ IsFiniteSet(before)
    BY <2>1, FS_Subset
  <2>3. Cardinality(alike) \in Nat /\ Cardinality(before) \in Nat
    BY <2>2, FS_CardinalityType
  <2>4. Cardinality(before) <= Cardinality(alike) /\ Cardinality(before) # Cardinality(alike)
    BY <2>1, <2>2, FS_Subset
  <2>5. Cardinality(before) < Cardinality(alike)
    BY <2>3, <2>4
  <2>6. ring_spread(Cardinality(before), Cardinality(alike), r) \in Offsets
    BY <1>1, <2>3, <2>5, SpreadOut
  <2>7. ideal = ring_spread(Cardinality(before), Cardinality(alike), r)
    BY <1>4 DEF ideal_slot, alike, before
  <2> QED BY <2>6, <2>7
<1>5. CASE region \in Octants
  <2>1. i \in 1..8
    BY <1>5, DirectionsAre
  <2> HIDE DEF i
  <2>2. Vectors[i] \in Offsets
    BY <2>1, VectorsAre
  <2>3. Vectors[i][1] \in Int /\ Vectors[i][2] \in Int
    BY <2>2 DEF Offsets
  <2>4. Vectors[i][1] * r \in Int /\ Vectors[i][2] * r \in Int
    BY <1>1, <2>3
  <2>5. ideal = <<Vectors[i][1] * r, Vectors[i][2] * r>>
    <3>1. region # "GPS_RELATIVE" /\ region # "UNKNOWN"
      BY <1>5 DEF Octants
    <3> QED BY <3>1 DEF ideal_slot, i
  <2> QED BY <2>4, <2>5 DEF Offsets
<1> QED BY <1>2, <1>3, <1>4, <1>5 DEF AllRegions

(* The order of the nodes of a region is one.                              *)
LEMMA MembersAre ==
  ASSUME NEW at, NEW remotes, AreAt(at, remotes), NEW ring, AreRinged(ring, remotes),
         NEW region \in AllRegions
  PROVE  LET S == InRegion(region, at, remotes)
             order == members(region, at, remotes, ring)
         IN  /\ IsFiniteSet(S) /\ Cardinality(S) \in Nat
             /\ order \in Bijection(1..Cardinality(S), S)
<1> DEFINE S == InRegion(region, at, remotes)
           east(n) == at[n][1] - at[You][1]
           south(n) == at[n][2] - at[You][2]
           far(n) == IF region = "UNKNOWN" THEN ring[n] ELSE IF region = "GPS_RELATIVE" THEN 0
                     ELSE east(n) * east(n) + south(n) * south(n)
           key == [n \in S |-> <<far(n), n>>]
<1>1. S \subseteq remotes /\ IsFiniteSet(remotes) /\ remotes \subseteq Nat
  BY DEF InRegion, AreAt
<1>2. ASSUME NEW n \in S PROVE far(n) \in Int
  <2>1. n \in remotes /\ region_of(n, at, remotes) = region
    BY DEF InRegion
  <2>2. CASE region \in {"UNKNOWN", "GPS_RELATIVE"}
    <3>1. ring[n] \in Int
      BY <2>1 DEF AreRinged
    <3>2. far(n) \in {ring[n], 0}
      BY <2>2
    <3> QED BY <3>1, <3>2
  <2>3. CASE region \in Octants
    <3>1. at[n] \in Offsets /\ at[You] \in Offsets
      BY <2>1, <2>3, RegionIs
    <3>2. east(n) \in Int /\ south(n) \in Int
      BY <3>1 DEF Offsets
    <3>3. far(n) = east(n) * east(n) + south(n) * south(n)
      BY <2>3 DEF Octants
    <3> HIDE DEF east, south
    <3>4. east(n) * east(n) + south(n) * south(n) \in Int
      BY <3>2
    <3> QED BY <3>3, <3>4
  <2> QED BY <2>2, <2>3 DEF AllRegions
<1>3. members(region, at, remotes, ring) = in_order(S, key)
  BY DEF members
<1> HIDE DEF S, far
<1>4. IsFiniteSet(S)
  BY <1>1, FS_Subset
<1>5. key \in [S -> Keys(2)]
  <2> SUFFICES ASSUME NEW n \in S PROVE <<far(n), n>> \in Keys(2)
    OBVIOUS
  <2>1. far(n) \in Int /\ n \in Int
    BY <1>1, <1>2
  <2>2. <<far(n), n>> \in Seq(Int) /\ Len(<<far(n), n>>) = 2
    BY <2>1
  <2> QED BY <2>2 DEF Keys
<1>6. Apart(key)
  BY DEF Apart
<1> HIDE DEF key
<1>7. Sorts(in_order(S, key), S, key)
  <2>1. 2 \in Nat
    OBVIOUS
  <2> QED BY <1>4, <1>5, <1>6, <2>1, SortedIs
<1>8. /\ IsFiniteSet(S) /\ Cardinality(S) \in Nat
      /\ members(region, at, remotes, ring) \in Bijection(1..Cardinality(S), S)
  BY <1>3, <1>4, <1>7 DEF Sorts
<1> QED BY <1>8 DEF S

-----------------------------------------------------------------------------
(* The slots of a region: first those that are remembered, then new ones.  *)

Slots == [at : Offsets, region : AllRegions \cup {"LOCAL"}]

LEMMA SlotIs ==
  ASSUME NEW p \in Offsets, NEW region \in AllRegions \cup {"LOCAL"}
  PROVE  Slot(p, region) \in Slots /\ Slot(p, region).at = p /\ Slot(p, region).region = region
BY DEF Slot, Slots

LEMMA ClaimIs ==
  ASSUME NEW slots, NEW n, NEW region, NEW sticky
  PROVE  \/ claim_slot(slots, n, region, sticky) = slots
         \/ /\ n \in DOMAIN sticky /\ sticky[n].region = region
            /\ sticky[n].at \notin slot_cells(slots)
            /\ claim_slot(slots, n, region, sticky) = put(slots, n, sticky[n])
BY DEF claim_slot

(* Those that are remembered.                                              *)
ClaimFold(slots, n, order, region, sticky) ==
  CHOOSE h : h = [s \in SUBSET (1..n) |->
                    IF s = {} THEN slots ELSE claim_slot(h[s \ {Max(s)}], order[Max(s)], region, sticky)]

ClaimInTurn(g, slots, n, order, region, sticky) ==
  /\ g[0] = slots
  /\ \A i \in 1..n : g[i] = claim_slot(g[i - 1], order[i], region, sticky)
  /\ ClaimFold(slots, n, order, region, sticky)[1..n] = g[n]

LEMMA ClaimRun ==
  ASSUME NEW D, NEW slots \in PartialMaps(D, Slots), NEW n \in Nat,
         NEW order, order \in [1..n -> D], NEW region,
         NEW sticky, \A m \in DOMAIN sticky : sticky[m] \in Slots
  PROVE  \E g : /\ ClaimInTurn(g, slots, n, order, region, sticky)
               /\ g[n] \in PartialMaps(D, Slots)
<1> DEFINE A == PartialMaps(D, Slots)
           step(h) == [s \in SUBSET (1..n) |->
                    IF s = {} THEN slots ELSE claim_slot(h[s \ {Max(s)}], order[Max(s)], region, sticky)]
           fold == CHOOSE h : h = step(h)
           F == [p \in A \X (1..n) |-> claim_slot(p[1], order[p[2]], region, sticky)]
<1>1. ClaimFold(slots, n, order, region, sticky) = fold
  BY DEF ClaimFold
<1>2. slots \in A
  OBVIOUS
<1>3. \A a \in A, i \in 1..n : claim_slot(a, order[i], region, sticky) \in A
  <2> SUFFICES ASSUME NEW a \in A, NEW i \in 1..n
               PROVE  claim_slot(a, order[i], region, sticky) \in A
    OBVIOUS
  <2>1. order[i] \in D
    OBVIOUS
  <2>2. CASE claim_slot(a, order[i], region, sticky) = a
    BY <2>2
  <2>3. CASE /\ order[i] \in DOMAIN sticky
             /\ claim_slot(a, order[i], region, sticky) = put(a, order[i], sticky[order[i]])
    BY <2>1, <2>3, PutMaps
  <2> QED BY <2>2, <2>3, ClaimIs
<1> HIDE DEF A
<1>4. \E h : h = step(h)
  <2>1. F \in [A \X (1..n) -> A]
    BY <1>3
  <2>2. \A q \in A \X (1..n) : F[q] = claim_slot(q[1], order[q[2]], region, sticky)
    OBVIOUS
  <2> HIDE DEF F
  <2>3. PICK h \in [SUBSET (1..n) -> A] :
           /\ h = [s \in SUBSET (1..n) |-> IF s = {} THEN slots
                                           ELSE F[<<h[s \ {Max(s)}], Max(s)>>]]
           /\ \A s \in SUBSET (1..n) :
                s # {} => <<h[s \ {Max(s)}], Max(s)>> \in A \X (1..n)
    BY <1>2, <2>1, LeftFold
  <2>4. ASSUME NEW s \in SUBSET (1..n), s # {}
        PROVE  F[<<h[s \ {Max(s)}], Max(s)>>] = claim_slot(h[s \ {Max(s)}], order[Max(s)], region, sticky)
    BY <2>2, <2>3, <2>4
  <2>5. h = step(h)
    BY <2>3, <2>4
  <2> QED BY <2>5
<1>5. fold = step(fold)
  <2> HIDE DEF step
  <2> QED BY <1>4
<1> HIDE DEF fold
<1> DEFINE g == [i \in 0..n |-> fold[1..i]]
<1>6. g[0] = slots
  <2>1. 1..0 \in SUBSET (1..n) /\ 1..0 = {} /\ 0 \in 0..n
    OBVIOUS
  <2>2. fold[1..0] = slots
    BY <1>5, <2>1
  <2> QED BY <2>1, <2>2
<1>7. ASSUME NEW i \in 1..n PROVE g[i] = claim_slot(g[i - 1], order[i], region, sticky)
  <2>1. /\ 1..i \in SUBSET (1..n) /\ 1..i # {} /\ Max(1..i) = i
        /\ (1..i) \ {i} = 1..(i - 1) /\ i - 1 \in 0..n /\ i \in 0..n
    BY LastOfPrefix
  <2>2. fold[1..i] = claim_slot(fold[(1..i) \ {Max(1..i)}], order[Max(1..i)], region, sticky)
    BY <1>5, <2>1
  <2> QED BY <2>1, <2>2
<1>8. g[n] = fold[1..n]
  OBVIOUS
<1> HIDE DEF g, fold
<1> DEFINE P == {i \in 0..n : g[i] \in A}
<1>9. 0 \in P
  BY <1>2, <1>6
<1>10. ASSUME NEW i \in 1..n, i - 1 \in P PROVE i \in P
  BY <1>3, <1>7, <1>10
<1> HIDE DEF P
<1>11. \A i \in 0..n : i \in P
  BY <1>9, <1>10, Reached
<1>12. g[n] \in A
  <2>1. n \in P
    BY <1>11
  <2> QED BY <2>1 DEF P
<1>13. ClaimInTurn(g, slots, n, order, region, sticky)
  BY <1>1, <1>6, <1>7, <1>8 DEF ClaimInTurn
<1> QED BY <1>13, <1>12 DEF A

(* The others.                                                             *)
FreshFold(slots, n, order, region, ideal) ==
  CHOOSE h : h = [s \in SUBSET (1..n) |->
                    IF s = {} THEN slots ELSE fresh_slot(h[s \ {Max(s)}], order[Max(s)], region, ideal)]

FreshInTurn(g, slots, n, order, region, ideal) ==
  /\ g[0] = slots
  /\ \A i \in 1..n : g[i] = fresh_slot(g[i - 1], order[i], region, ideal)
  /\ FreshFold(slots, n, order, region, ideal)[1..n] = g[n]

LEMMA FreshRun ==
  ASSUME NEW D, NEW slots \in PartialMaps(D, Slots), NEW n \in Nat,
         NEW order, order \in [1..n -> D], NEW region \in AllRegions,
         NEW ideal, \A i \in 1..n : ideal[order[i]] \in Offsets
  PROVE  \E g : /\ FreshInTurn(g, slots, n, order, region, ideal)
               /\ g[n] \in PartialMaps(D, Slots)
<1> DEFINE A == PartialMaps(D, Slots)
           step(h) == [s \in SUBSET (1..n) |->
                    IF s = {} THEN slots ELSE fresh_slot(h[s \ {Max(s)}], order[Max(s)], region, ideal)]
           fold == CHOOSE h : h = step(h)
           F == [p \in A \X (1..n) |-> fresh_slot(p[1], order[p[2]], region, ideal)]
<1>1. FreshFold(slots, n, order, region, ideal) = fold
  BY DEF FreshFold
<1>2. slots \in A
  OBVIOUS
<1>3. \A a \in A, i \in 1..n : fresh_slot(a, order[i], region, ideal) \in A
  <2> SUFFICES ASSUME NEW a \in A, NEW i \in 1..n
               PROVE  fresh_slot(a, order[i], region, ideal) \in A
    OBVIOUS
  <2>1. order[i] \in D /\ ideal[order[i]] \in Offsets
    OBVIOUS
  <2> DEFINE s == Slot(reserve_slot(ideal[order[i]], slot_cells(a)), region)
  <2>2. s \in Slots
    BY <2>1, ReservedSlot, SlotIs
  <2>3. CASE order[i] \in DOMAIN a
    BY <2>3 DEF fresh_slot
  <2>4. CASE order[i] \notin DOMAIN a
    <3>1. fresh_slot(a, order[i], region, ideal) = put(a, order[i], s)
      BY <2>4 DEF fresh_slot
    <3> HIDE DEF s
    <3> QED BY <2>1, <2>2, <3>1, PutMaps
  <2> QED BY <2>3, <2>4
<1> HIDE DEF A
<1>4. \E h : h = step(h)
  <2>1. F \in [A \X (1..n) -> A]
    BY <1>3
  <2>2. \A q \in A \X (1..n) : F[q] = fresh_slot(q[1], order[q[2]], region, ideal)
    OBVIOUS
  <2> HIDE DEF F
  <2>3. PICK h \in [SUBSET (1..n) -> A] :
           /\ h = [s \in SUBSET (1..n) |-> IF s = {} THEN slots
                                           ELSE F[<<h[s \ {Max(s)}], Max(s)>>]]
           /\ \A s \in SUBSET (1..n) :
                s # {} => <<h[s \ {Max(s)}], Max(s)>> \in A \X (1..n)
    BY <1>2, <2>1, LeftFold
  <2>4. ASSUME NEW s \in SUBSET (1..n), s # {}
        PROVE  F[<<h[s \ {Max(s)}], Max(s)>>] = fresh_slot(h[s \ {Max(s)}], order[Max(s)], region, ideal)
    BY <2>2, <2>3, <2>4
  <2>5. h = step(h)
    BY <2>3, <2>4
  <2> QED BY <2>5
<1>5. fold = step(fold)
  <2> HIDE DEF step
  <2> QED BY <1>4
<1> HIDE DEF fold
<1> DEFINE g == [i \in 0..n |-> fold[1..i]]
<1>6. g[0] = slots
  <2>1. 1..0 \in SUBSET (1..n) /\ 1..0 = {} /\ 0 \in 0..n
    OBVIOUS
  <2>2. fold[1..0] = slots
    BY <1>5, <2>1
  <2> QED BY <2>1, <2>2
<1>7. ASSUME NEW i \in 1..n PROVE g[i] = fresh_slot(g[i - 1], order[i], region, ideal)
  <2>1. /\ 1..i \in SUBSET (1..n) /\ 1..i # {} /\ Max(1..i) = i
        /\ (1..i) \ {i} = 1..(i - 1) /\ i - 1 \in 0..n /\ i \in 0..n
    BY LastOfPrefix
  <2>2. fold[1..i] = fresh_slot(fold[(1..i) \ {Max(1..i)}], order[Max(1..i)], region, ideal)
    BY <1>5, <2>1
  <2> QED BY <2>1, <2>2
<1>8. g[n] = fold[1..n]
  OBVIOUS
<1> HIDE DEF g, fold
<1> DEFINE P == {i \in 0..n : g[i] \in A}
<1>9. 0 \in P
  BY <1>2, <1>6
<1>10. ASSUME NEW i \in 1..n, i - 1 \in P PROVE i \in P
  BY <1>3, <1>7, <1>10
<1> HIDE DEF P
<1>11. \A i \in 0..n : i \in P
  BY <1>9, <1>10, Reached
<1>12. g[n] \in A
  <2>1. n \in P
    BY <1>11
  <2> QED BY <2>1 DEF P
<1>13. FreshInTurn(g, slots, n, order, region, ideal)
  BY <1>1, <1>6, <1>7, <1>8 DEF FreshInTurn
<1> QED BY <1>13, <1>12 DEF A

LEMMA GroupRun ==
  ASSUME NEW slots, NEW n \in Nat, NEW order, DOMAIN order = 1..n, NEW region, NEW ideal, NEW sticky
  PROVE  place_group(slots, order, region, ideal, sticky) =
           FreshFold(ClaimFold(slots, n, order, region, sticky)[1..n], n, order, region, ideal)[1..n]
BY DEF place_group, FoldLeft, MapThenFoldSet, FreshFold, ClaimFold

CellsApart(slots) == \A m, n \in DOMAIN slots : slots[m].at = slots[n].at => m = n

IsMap(f) == f = [m \in DOMAIN f |-> f[m]]

(* A slot of its own for another node.                                     *)
LEMMA PutApart ==
  ASSUME NEW slots, CellsApart(slots), NEW n, n \notin DOMAIN slots, NEW s,
         s.at \notin slot_cells(slots)
  PROVE  CellsApart(put(slots, n, s))
<1> DEFINE after == put(slots, n, s)
<1>1. /\ DOMAIN after = DOMAIN slots \cup {n} /\ after[n] = s
      /\ \A m \in DOMAIN slots : after[m] = slots[m]
  BY DEF put
<1>2. \A m \in DOMAIN slots : slots[m].at # s.at
  BY DEF slot_cells
<1> HIDE DEF after
<1>3. CellsApart(after)
  BY <1>1, <1>2 DEF CellsApart
<1> QED BY <1>3 DEF after

(* What is claimed by the first i nodes.                                   *)
HasClaimed(c, slots, i, order, region, sticky) ==
  /\ IsMap(c)
  /\ DOMAIN slots \subseteq DOMAIN c /\ DOMAIN c \subseteq DOMAIN slots \cup FirstOf(order, i)
  /\ \A m \in DOMAIN slots : c[m] = slots[m]
  /\ \A m \in DOMAIN c \ DOMAIN slots :
       m \in DOMAIN sticky /\ sticky[m].region = region /\ c[m] = sticky[m]
  /\ \A j \in 1..i : order[j] \in DOMAIN sticky /\ sticky[order[j]].region = region =>
       order[j] \in DOMAIN c \/ \E m \in DOMAIN c : c[m].at = sticky[order[j]].at
  /\ CellsApart(slots) => CellsApart(c)

LEMMA ClaimKeeps ==
  ASSUME NEW c, NEW slots, NEW n \in Nat, NEW i \in 1..n, NEW order, NEW region, NEW sticky,
         HasClaimed(c, slots, i - 1, order, region, sticky),
         order[i] \notin DOMAIN slots \cup FirstOf(order, i - 1)
  PROVE  HasClaimed(claim_slot(c, order[i], region, sticky), slots, i, order, region, sticky)
<1> DEFINE x == order[i]
           d == claim_slot(c, x, region, sticky)
<1>1. FirstOf(order, i) = FirstOf(order, i - 1) \cup {x}
  BY FirstOfNext
<1>2. \A j \in 1..i : j \in 1..(i - 1) \/ j = i
  OBVIOUS
<1>3. x \notin DOMAIN c
  BY DEF HasClaimed
<1> HIDE DEF x
<1>4. CASE /\ x \in DOMAIN sticky /\ sticky[x].region = region
           /\ sticky[x].at \notin slot_cells(c) /\ d = put(c, x, sticky[x])
  <2>1. /\ DOMAIN d = DOMAIN c \cup {x} /\ d[x] = sticky[x]
        /\ \A m \in DOMAIN c : d[m] = c[m]
    BY <1>3, <1>4 DEF put
  <2>0. IsMap(d)
    BY <1>4 DEF put, IsMap
  <2>2. CellsApart(c) => CellsApart(d)
    BY <1>3, <1>4, PutApart
  <2>3. /\ DOMAIN slots \subseteq DOMAIN d /\ DOMAIN d \subseteq DOMAIN slots \cup FirstOf(order, i)
        /\ \A m \in DOMAIN slots : d[m] = slots[m]
        /\ \A m \in DOMAIN d \ DOMAIN slots :
             m \in DOMAIN sticky /\ sticky[m].region = region /\ d[m] = sticky[m]
    BY <1>1, <1>4, <2>1 DEF HasClaimed
  <2>4. ASSUME NEW j \in 1..i, order[j] \in DOMAIN sticky, sticky[order[j]].region = region
        PROVE  order[j] \in DOMAIN d \/ \E m \in DOMAIN d : d[m].at = sticky[order[j]].at
    <3>1. CASE j = i
      BY <2>1, <3>1 DEF x
    <3>2. CASE j \in 1..(i - 1)
      <4>1. order[j] \in DOMAIN c \/ \E m \in DOMAIN c : c[m].at = sticky[order[j]].at
        BY <2>4, <3>2 DEF HasClaimed
      <4> QED BY <2>1, <4>1
    <3> QED BY <1>2, <3>1, <3>2
  <2> HIDE DEF d
  <2>5. HasClaimed(d, slots, i, order, region, sticky)
    BY <2>0, <2>2, <2>3, <2>4 DEF HasClaimed
  <2> QED BY <2>5 DEF d, x
<1>5. CASE d = c /\ ~(/\ x \in DOMAIN sticky /\ sticky[x].region = region
                      /\ sticky[x].at \notin slot_cells(c))
  <2>1. ASSUME NEW j \in 1..i, order[j] \in DOMAIN sticky, sticky[order[j]].region = region
        PROVE  order[j] \in DOMAIN c \/ \E m \in DOMAIN c : c[m].at = sticky[order[j]].at
    <3>1. CASE j = i
      <4>1. sticky[x].at \in slot_cells(c)
        BY <1>5, <2>1, <3>1 DEF x
      <4> QED BY <3>1, <4>1 DEF x, slot_cells
    <3>2. CASE j \in 1..(i - 1)
      BY <2>1, <3>2 DEF HasClaimed
    <3> QED BY <1>2, <3>1, <3>2
  <2>2. HasClaimed(c, slots, i, order, region, sticky)
    BY <1>1, <2>1 DEF HasClaimed
  <2> QED BY <1>5, <2>2 DEF x
<1>6. \/ /\ x \in DOMAIN sticky /\ sticky[x].region = region
         /\ sticky[x].at \notin slot_cells(c) /\ d = put(c, x, sticky[x])
      \/ d = c /\ ~(/\ x \in DOMAIN sticky /\ sticky[x].region = region
                    /\ sticky[x].at \notin slot_cells(c))
  BY DEF claim_slot
<1> QED BY <1>4, <1>5, <1>6

LEMMA ClaimsAre ==
  ASSUME NEW slots, IsMap(slots), NEW n \in Nat, NEW order, NEW region, NEW sticky,
         \A i \in 1..n : order[i] \notin DOMAIN slots \cup FirstOf(order, i - 1),
         NEW g, ClaimInTurn(g, slots, n, order, region, sticky)
  PROVE  HasClaimed(g[n], slots, n, order, region, sticky)
<1> DEFINE P == {i \in 0..n : HasClaimed(g[i], slots, i, order, region, sticky)}
<1>1. 0 \in P
  <2>1. 1..0 = {} /\ 0 \in 0..n /\ g[0] = slots
    BY DEF ClaimInTurn
  <2>2. HasClaimed(slots, slots, 0, order, region, sticky)
    BY <2>1 DEF HasClaimed
  <2> QED BY <2>1, <2>2
<1>2. ASSUME NEW i \in 1..n, i - 1 \in P PROVE i \in P
  <2>1. HasClaimed(g[i - 1], slots, i - 1, order, region, sticky) /\ i \in 0..n
    BY <1>2
  <2>2. g[i] = claim_slot(g[i - 1], order[i], region, sticky)
    BY DEF ClaimInTurn
  <2>3. HasClaimed(claim_slot(g[i - 1], order[i], region, sticky), slots, i, order, region, sticky)
    BY <2>1, ClaimKeeps
  <2> QED BY <2>1, <2>2, <2>3
<1> HIDE DEF P
<1>3. \A i \in 0..n : i \in P
  BY <1>1, <1>2, Reached
<1>4. n \in P
  BY <1>3
<1> QED BY <1>4 DEF P

-----------------------------------------------------------------------------
(* What the first i nodes have afterwards.                                 *)
HasFresh(f, c, i, order, region) ==
  /\ IsMap(f)
  /\ DOMAIN f = DOMAIN c \cup FirstOf(order, i)
  /\ \A m \in DOMAIN c : f[m] = c[m]
  /\ \A m \in DOMAIN f \ DOMAIN c : f[m] \in Slots /\ f[m].region = region

(* The search goes no farther than 4095 rings.                             *)
HasRoom(occupied) == IsFiniteSet(occupied) /\ Cardinality(occupied) < 4095

IsFresh(after, f, c, i, order, region) ==
  /\ HasFresh(after, c, i, order, region)
  /\ order[i] \notin DOMAIN f /\ CellsApart(f) /\ HasRoom(slot_cells(f)) => CellsApart(after)
  /\ order[i] \in DOMAIN f => after = f

LEMMA FreshKeeps ==
  ASSUME NEW f, NEW c, NEW n \in Nat, NEW i \in 1..n, NEW order, NEW region \in AllRegions,
         NEW ideal, ideal[order[i]] \in Offsets, HasFresh(f, c, i - 1, order, region)
  PROVE  IsFresh(fresh_slot(f, order[i], region, ideal), f, c, i, order, region)
<1> DEFINE x == order[i]
           p == reserve_slot(ideal[x], slot_cells(f))
           s == Slot(p, region)
           d == fresh_slot(f, x, region, ideal)
<1>1. FirstOf(order, i) = FirstOf(order, i - 1) \cup {x}
  BY FirstOfNext
<1>2. /\ p \in Offsets
      /\ HasRoom(slot_cells(f)) => p \notin slot_cells(f)
  BY ReservedSlot DEF HasRoom
<1>3. s \in Slots /\ s.at = p /\ s.region = region
  BY <1>2, SlotIs
<1> HIDE DEF p
<1>4. d = IF x \in DOMAIN f THEN f ELSE put(f, x, s)
  BY DEF fresh_slot, p
<1> HIDE DEF x, s
<1>5. CASE x \in DOMAIN f
  <2>1. d = f
    BY <1>4, <1>5
  <2>2. HasFresh(f, c, i, order, region)
    BY <1>1, <1>5 DEF HasFresh
  <2> QED BY <1>5, <2>1, <2>2 DEF x, IsFresh
<1>6. CASE x \notin DOMAIN f
  <2>1. d = put(f, x, s)
    BY <1>4, <1>6
  <2>2. DOMAIN d = DOMAIN f \cup {x} /\ d[x] = s /\ \A m \in DOMAIN f : d[m] = f[m]
    BY <1>6, <2>1 DEF put
  <2>0. IsMap(d)
    BY <2>1 DEF put, IsMap
  <2> HIDE DEF d
  <2>3. HasFresh(d, c, i, order, region)
    BY <1>1, <1>3, <1>6, <2>0, <2>2 DEF HasFresh
  <2>4. HasRoom(slot_cells(f)) /\ CellsApart(f) => CellsApart(d)
    BY <1>2, <1>3, <1>6, <2>1, PutApart
  <2> QED BY <1>6, <2>3, <2>4 DEF d, x, IsFresh
<1> QED BY <1>5, <1>6

Few(D) == IsFiniteSet(D) /\ Cardinality(D) <= 4095

LEMMA FreshAre ==
  ASSUME NEW D, NEW c, IsMap(c), DOMAIN c \subseteq D, NEW n \in Nat, NEW order, order \in [1..n -> D],
         NEW region \in AllRegions, NEW ideal, \A i \in 1..n : ideal[order[i]] \in Offsets,
         NEW g, FreshInTurn(g, c, n, order, region, ideal)
  PROVE  HasFresh(g[n], c, n, order, region) /\ (Few(D) /\ CellsApart(c) => CellsApart(g[n]))
<1> DEFINE P == {i \in 0..n : /\ HasFresh(g[i], c, i, order, region)
                              /\ Few(D) /\ CellsApart(c) => CellsApart(g[i])}
<1>1. 0 \in P
  <2>1. 1..0 = {} /\ 0 \in 0..n /\ g[0] = c
    BY DEF FreshInTurn
  <2>2. FirstOf(order, 0) = {}
    BY <2>1 DEF FirstOf
  <2>3. HasFresh(c, c, 0, order, region)
    BY <2>2 DEF HasFresh
  <2> QED BY <2>1, <2>3
<1>2. ASSUME NEW i \in 1..n, i - 1 \in P PROVE i \in P
  <2> DEFINE f == g[i - 1]
             after == fresh_slot(f, order[i], region, ideal)
  <2>1. HasFresh(f, c, i - 1, order, region) /\ (Few(D) /\ CellsApart(c) => CellsApart(f)) /\ i \in 0..n
    BY <1>2
  <2>2. g[i] = after
    BY DEF FreshInTurn
  <2>3. order[i] \in D /\ ideal[order[i]] \in Offsets
    OBVIOUS
  <2> HIDE DEF f
  <2>4. /\ HasFresh(after, c, i, order, region)
        /\ order[i] \notin DOMAIN f /\ CellsApart(f) /\ HasRoom(slot_cells(f))
             => CellsApart(after)
        /\ order[i] \in DOMAIN f => after = f
    <3>1. IsFresh(after, f, c, i, order, region)
      BY <2>1, <2>3, FreshKeeps
    <3> HIDE DEF after
    <3> QED BY <3>1 DEF IsFresh
  <2>5. ASSUME Few(D), order[i] \notin DOMAIN f, CellsApart(f) PROVE CellsApart(after)
    <3> DEFINE C == slot_cells(f)
               T == DOMAIN f
               E == D \ {order[i]}
               at == [m \in T |-> f[m].at]
    <3>1. T \subseteq E
      <4>1. FirstOf(order, i - 1) \subseteq D
        <5>1. \A j \in 1..(i - 1) : j \in 1..n
          OBVIOUS
        <5>2. \A j \in 1..(i - 1) : order[j] \in D
          BY <5>1
        <5> QED BY <5>2 DEF FirstOf
      <4> QED BY <2>1, <2>5, <4>1 DEF HasFresh
    <3>2. IsFiniteSet(E) /\ Cardinality(E) = Cardinality(D) - 1 /\ Cardinality(D) \in Nat
      BY <2>3, FS_RemoveElement, FS_CardinalityType, <2>5 DEF Few
    <3>3. DOMAIN at = T /\ Range(at) = C
      BY DEF Range, slot_cells
    <3> HIDE DEF T, E, at, C
    <3>4. IsFiniteSet(T) /\ Cardinality(T) <= Cardinality(E) /\ Cardinality(T) \in Nat
      BY <3>1, <3>2, FS_Subset, FS_CardinalityType
    <3>5. IsFiniteSet(C) /\ Cardinality(C) <= Cardinality(T)
      BY <3>3, <3>4, RangeIsFinite
    <3>6. Cardinality(C) \in Nat
      BY <3>5, FS_CardinalityType
    <3>7. HasRoom(C)
      <4>1. Cardinality(D) <= 4095
        BY <2>5 DEF Few
      <4> DEFINE a == Cardinality(C)
                 b == Cardinality(T)
                 e == Cardinality(E)
                 d == Cardinality(D)
                 top == 4095
      <4> HIDE DEF a, b, e, d
      <4> HIDE DEF top
      <4>2. a <= b /\ b <= e /\ e = d - 1 /\ d <= top /\ a \in Nat /\ b \in Nat /\ d \in Nat
        BY <3>2, <3>4, <3>5, <3>6, <4>1 DEF a, b, e, d, top
      <4>3. top \in Nat
        BY DEF top
      <4>4. a < top
        BY <4>2, <4>3
      <4>5. Cardinality(C) < 4095
        BY <4>4 DEF a, top
      <4>6. IsFiniteSet(C) /\ Cardinality(C) < 4095
        BY <3>5, <4>5
      <4> QED BY <4>6 DEF HasRoom
    <3> QED BY <2>4, <2>5, <3>5, <3>7 DEF C
  <2>6. Few(D) /\ CellsApart(f) => CellsApart(after)
    BY <2>4, <2>5
  <2> HIDE DEF after
  <2> QED BY <2>1, <2>2, <2>4, <2>6
<1> HIDE DEF P
<1>3. \A i \in 0..n : i \in P
  BY <1>1, <1>2, Reached
<1>4. n \in P
  BY <1>3
<1> QED BY <1>4 DEF P

(* What the nodes S of a region have got.                                  *)
IsGrouped(after, before, S, region, sticky, D) ==
  /\ IsMap(after)
  /\ DOMAIN after = DOMAIN before \cup S
  /\ \A m \in DOMAIN before : after[m] = before[m]
  /\ \A m \in S : after[m] \in Slots /\ after[m].region = region
  /\ Few(D) /\ CellsApart(before) => CellsApart(after)
  /\ CellsApart(sticky) =>
       \A m \in S : m \in DOMAIN sticky /\ sticky[m].region = region =>
         after[m] = sticky[m] \/ \E k \in DOMAIN before : before[k].at = sticky[m].at

AreRemembered(sticky) == \A m \in DOMAIN sticky : sticky[m] \in Slots

LEMMA GroupIs ==
  ASSUME NEW D, NEW before \in PartialMaps(D, Slots), NEW n \in Nat, NEW S \in SUBSET D,
         S \cap DOMAIN before = {}, NEW order \in Bijection(1..n, S), DOMAIN order = 1..n,
         NEW region \in AllRegions, NEW ideal, \A m \in S : ideal[m] \in Offsets,
         NEW sticky, AreRemembered(sticky)
  PROVE  IsGrouped(place_group(before, order, region, ideal, sticky), before, S, region, sticky, D)
<1>1. order \in [1..n -> D] /\ \A i \in 1..n : order[i] \in S
  BY DEF Bijection, Injection
<1>2. PICK g : ClaimInTurn(g, before, n, order, region, sticky)
  BY <1>1, ClaimRun DEF AreRemembered
<1> DEFINE c == g[n]
<1>3. ClaimFold(before, n, order, region, sticky)[1..n] = c
  BY <1>2 DEF ClaimInTurn
<1>4. New(g, n, order) /\ FirstOf(order, n) = S
  <2>1. DOMAIN g[0] \cap S = {}
    BY <1>2 DEF ClaimInTurn
  <2> QED BY <2>1, NewInOrder
<1>5. \A i \in 1..n : order[i] \notin DOMAIN before \cup FirstOf(order, i - 1)
  BY <1>2, <1>4 DEF New, ClaimInTurn
<1>6. HasClaimed(c, before, n, order, region, sticky)
  <2>1. before \in [DOMAIN before -> Slots]
    BY PartialMapsAre
  <2>2. IsMap(before)
    BY <2>1 DEF IsMap
  <2> QED BY <1>2, <1>5, <2>2, ClaimsAre
<1> HIDE DEF c
<1>7. before \in [DOMAIN before -> Slots] /\ DOMAIN before \subseteq D
  BY PartialMapsAre
<1>8. DOMAIN c \subseteq D /\ \A m \in DOMAIN c : c[m] \in Slots
  BY <1>4, <1>6, <1>7 DEF HasClaimed, AreRemembered
<1>9. c \in PartialMaps(D, Slots)
  <2>1. c \in [DOMAIN c -> Slots]
    BY <1>6, <1>8 DEF HasClaimed, IsMap
  <2> QED BY <1>8, <2>1, PartialMapsAre
<1>10. PICK f : FreshInTurn(f, c, n, order, region, ideal)
  BY <1>1, <1>9, FreshRun
<1> DEFINE after == f[n]
<1>11. place_group(before, order, region, ideal, sticky) = after
  BY <1>3, <1>10, GroupRun DEF FreshInTurn
<1>12. HasFresh(after, c, n, order, region) /\ (Few(D) /\ CellsApart(c) => CellsApart(after))
  <2>1. IsMap(c)
    BY <1>6 DEF HasClaimed
  <2> QED BY <1>1, <1>8, <1>10, <2>1, FreshAre
<1> HIDE DEF after
<1>13. /\ IsMap(after)
       /\ DOMAIN after = DOMAIN before \cup S
       /\ \A m \in DOMAIN before : after[m] = before[m]
       /\ Few(D) /\ CellsApart(before) => CellsApart(after)
  BY <1>4, <1>6, <1>12 DEF HasFresh, HasClaimed
<1>14. ASSUME NEW m \in S PROVE after[m] \in Slots /\ after[m].region = region
  <2>1. CASE m \in DOMAIN c
    BY <1>6, <1>8, <1>12, <2>1 DEF HasFresh, HasClaimed
  <2>2. CASE m \notin DOMAIN c
    BY <1>12, <1>13, <2>2 DEF HasFresh
  <2> QED BY <2>1, <2>2
<1>15. ASSUME CellsApart(sticky), NEW m \in S, m \in DOMAIN sticky, sticky[m].region = region
       PROVE  after[m] = sticky[m] \/ \E k \in DOMAIN before : before[k].at = sticky[m].at
  <2>1. PICK j \in 1..n : order[j] = m
    BY <1>4 DEF FirstOf
  <2>2. m \in DOMAIN c \/ \E k \in DOMAIN c : c[k].at = sticky[m].at
    BY <1>6, <1>15, <2>1 DEF HasClaimed
  <2>3. CASE m \in DOMAIN c
    <3>1. c[m] = sticky[m] /\ after[m] = c[m]
      BY <1>6, <1>12, <2>3 DEF HasClaimed, HasFresh
    <3> QED BY <3>1
  <2>4. CASE m \notin DOMAIN c
    <3>1. PICK k \in DOMAIN c : c[k].at = sticky[m].at
      BY <2>2, <2>4
    <3>2. CASE k \in DOMAIN before
      BY <1>6, <3>1, <3>2 DEF HasClaimed
    <3>3. CASE k \notin DOMAIN before
      <4>1. k \in DOMAIN sticky /\ c[k] = sticky[k]
        BY <1>6, <3>1, <3>3 DEF HasClaimed
      <4>2. k = m
        BY <1>15, <3>1, <4>1 DEF CellsApart
      <4> QED BY <2>4, <3>1, <4>2
    <3> QED BY <3>2, <3>3
  <2> QED BY <2>3, <2>4
<1> QED BY <1>11, <1>13, <1>14, <1>15 DEF IsGrouped

-----------------------------------------------------------------------------
(* All the regions, one after the other.                                   *)

LEMMA RegionsAre ==
  /\ Len(Regions) = 10 /\ DOMAIN Regions = 1..10
  /\ \A i \in 1..10 : Regions[i] \in AllRegions
  /\ \A region \in AllRegions : \E i \in 1..10 : Regions[i] = region
  /\ \A i, j \in 1..10 : Regions[i] = Regions[j] => i = j
  /\ \A i \in 1..10 : Regions[i] # "LOCAL"
<1>1. Len(Regions) = 10 /\ DOMAIN Regions = 1..10
  BY DEF Regions
<1>2. /\ Regions[1] = "N" /\ Regions[2] = "NE" /\ Regions[3] = "E" /\ Regions[4] = "SE"
      /\ Regions[5] = "S" /\ Regions[6] = "SW" /\ Regions[7] = "W" /\ Regions[8] = "NW"
      /\ Regions[9] = "GPS_RELATIVE" /\ Regions[10] = "UNKNOWN"
  BY DEF Regions
<1>3. 1..10 = {1, 2, 3, 4, 5, 6, 7, 8, 9, 10}
  OBVIOUS
<1>4. \A i \in 1..10 : Regions[i] \in AllRegions
  BY <1>2, <1>3, Zenon DEF AllRegions, Octants
<1>5. \A region \in AllRegions : \E i \in 1..10 : Regions[i] = region
  BY <1>2, <1>3, Zenon DEF AllRegions, Octants
<1>6. \A i, j \in 1..10 : Regions[i] = Regions[j] => i = j
  BY <1>2, <1>3
<1>7. \A i \in 1..10 : Regions[i] # "LOCAL"
  BY <1>2, <1>3
<1> QED BY <1>1, <1>4, <1>5, <1>6, <1>7

(* Any nodes: the group stays within the types.                            *)
LEMMA GroupCloses ==
  ASSUME NEW D, NEW before \in PartialMaps(D, Slots), NEW n \in Nat,
         NEW order, order \in [1..n -> D],
         NEW region \in AllRegions, NEW ideal, \A i \in 1..n : ideal[order[i]] \in Offsets,
         NEW sticky, AreRemembered(sticky)
  PROVE  place_group(before, order, region, ideal, sticky) \in PartialMaps(D, Slots)
<1>1. PICK g : ClaimInTurn(g, before, n, order, region, sticky) /\ g[n] \in PartialMaps(D, Slots)
  BY ClaimRun DEF AreRemembered
<1> DEFINE c == g[n]
<1>2. ClaimFold(before, n, order, region, sticky)[1..n] = c /\ c \in PartialMaps(D, Slots)
  BY <1>1 DEF ClaimInTurn
<1> HIDE DEF c
<1>3. PICK f : FreshInTurn(f, c, n, order, region, ideal) /\ f[n] \in PartialMaps(D, Slots)
  BY <1>2, FreshRun
<1>4. DOMAIN order = 1..n
  OBVIOUS
<1>5. place_group(before, order, region, ideal, sticky) = f[n]
  BY <1>2, <1>3, <1>4, GroupRun DEF FreshInTurn
<1> QED BY <1>3, <1>5

(* Where everything is, on which ring, and where it was.                   *)
IsMapped(at, remotes, ring, sticky) ==
  AreAt(at, remotes) /\ AreRinged(ring, remotes) /\ AreRemembered(sticky)

LEMMA RegionCloses ==
  ASSUME NEW at, NEW remotes, NEW ring, NEW sticky, IsMapped(at, remotes, ring, sticky),
         NEW slots \in PartialMaps(remotes \cup {You}, Slots), NEW region \in AllRegions
  PROVE  place_region(slots, region, at, remotes, ring, sticky)
           \in PartialMaps(remotes \cup {You}, Slots)
<1> DEFINE D == remotes \cup {You}
           S == InRegion(region, at, remotes)
           order == members(region, at, remotes, ring)
           n == Cardinality(S)
           ideal == [m \in S |-> ideal_slot(m, region, at, remotes, ring)]
<1>1. n \in Nat /\ order \in Bijection(1..n, S)
  BY MembersAre DEF IsMapped
<1>2. S \subseteq D /\ \A m \in S : m \in remotes /\ region_of(m, at, remotes) = region
  BY DEF InRegion
<1>3. \A m \in S : ideal[m] \in Offsets
  BY <1>2, IdealIs DEF IsMapped
<1>4. place_region(slots, region, at, remotes, ring, sticky)
        = place_group(slots, order, region, ideal, sticky)
  BY DEF place_region
<1> HIDE DEF S, order, n, ideal, D
<1>5. order \in [1..n -> D] /\ \A i \in 1..n : order[i] \in S
  BY <1>1, <1>2 DEF Bijection, Injection
<1>6. \A i \in 1..n : ideal[order[i]] \in Offsets
  BY <1>3, <1>5
<1>7. slots \in PartialMaps(D, Slots) /\ AreRemembered(sticky)
  BY DEF D, IsMapped
<1>8. place_group(slots, order, region, ideal, sticky) \in PartialMaps(D, Slots)
  BY <1>1, <1>5, <1>6, <1>7, GroupCloses
<1> QED BY <1>4, <1>8 DEF D

LEMMA RegionGroups ==
  ASSUME NEW at, NEW remotes, NEW ring, NEW sticky, IsMapped(at, remotes, ring, sticky),
         NEW slots \in PartialMaps(remotes \cup {You}, Slots), NEW region \in AllRegions,
         InRegion(region, at, remotes) \cap DOMAIN slots = {}
  PROVE  IsGrouped(place_region(slots, region, at, remotes, ring, sticky), slots,
                   InRegion(region, at, remotes), region, sticky, remotes \cup {You})
<1> DEFINE D == remotes \cup {You}
           S == InRegion(region, at, remotes)
           order == members(region, at, remotes, ring)
           n == Cardinality(S)
           ideal == [m \in S |-> ideal_slot(m, region, at, remotes, ring)]
<1>1. n \in Nat /\ order \in Bijection(1..n, S)
  BY MembersAre DEF IsMapped
<1>2. S \subseteq D /\ \A m \in S : m \in remotes /\ region_of(m, at, remotes) = region
  BY DEF InRegion
<1>3. \A m \in S : ideal[m] \in Offsets
  BY <1>2, IdealIs DEF IsMapped
<1>4. place_region(slots, region, at, remotes, ring, sticky)
        = place_group(slots, order, region, ideal, sticky)
  BY DEF place_region
<1> HIDE DEF S, order, n, ideal, D
<1>5. DOMAIN order = 1..n
  BY <1>1 DEF Bijection, Injection
<1>6. slots \in PartialMaps(D, Slots) /\ AreRemembered(sticky) /\ S \cap DOMAIN slots = {}
  BY DEF D, S, IsMapped
<1>7. IsGrouped(place_group(slots, order, region, ideal, sticky), slots, S, region, sticky, D)
  BY <1>1, <1>2, <1>3, <1>5, <1>6, GroupIs
<1> QED BY <1>4, <1>7 DEF D, S

LEMMA LocalIs ==
  ASSUME NEW you \in BOOLEAN, NEW remotes
  PROVE  /\ LocalSlot(you) \in PartialMaps(remotes \cup {You}, Slots)
         /\ DOMAIN LocalSlot(you) = IF you THEN {You} ELSE {}
         /\ \A n \in DOMAIN LocalSlot(you) : n = You /\ LocalSlot(you)[n] = Slot(<<0, 0>>, "LOCAL")
<1> DEFINE s == Slot(<<0, 0>>, "LOCAL")
           L == IF you THEN {You} ELSE {}
           f == LocalSlot(you)
<1>1. s \in Slots
  <2>1. <<0, 0>> \in Offsets
    BY DEF Offsets
  <2> QED BY <2>1, SlotIs
<1>2. f = [n \in L |-> s] /\ L \subseteq {You}
  BY DEF LocalSlot
<1> HIDE DEF s, L, f
<1>3. DOMAIN f = L /\ \A n \in DOMAIN f : n = You /\ f[n] = s
  BY <1>2
<1>4. f \in [DOMAIN f -> Slots] /\ DOMAIN f \subseteq remotes \cup {You}
  BY <1>1, <1>2
<1>5. f \in PartialMaps(remotes \cup {You}, Slots)
  BY <1>4, PartialMapsAre
<1> QED BY <1>3, <1>5 DEF f, L, s

RegionsInTurn(g, base, at, remotes, ring, sticky) ==
  /\ g[0] = base
  /\ \A i \in 1..10 : g[i] = place_region(g[i - 1], Regions[i], at, remotes, ring, sticky)

LEMMA RegionRun ==
  ASSUME NEW you \in BOOLEAN, NEW at, NEW remotes, NEW ring, NEW sticky,
         IsMapped(at, remotes, ring, sticky)
  PROVE  \E g : /\ RegionsInTurn(g, LocalSlot(you), at, remotes, ring, sticky)
                /\ assign_grid_slots(you, at, remotes, ring, sticky) = g[10]
<1> DEFINE n == 10
           slots == LocalSlot(you)
           A == PartialMaps(remotes \cup {You}, Slots)
           step(h) == [s \in SUBSET (1..n) |->
                    IF s = {} THEN slots
                    ELSE place_region(h[s \ {Max(s)}], Regions[Max(s)], at, remotes, ring, sticky)]
           fold == CHOOSE h : h = step(h)
           F == [p \in A \X (1..n) |-> place_region(p[1], Regions[p[2]], at, remotes, ring, sticky)]
<1>1. assign_grid_slots(you, at, remotes, ring, sticky) = fold[1..n]
  BY RegionsAre DEF assign_grid_slots, FoldLeft, MapThenFoldSet
<1>2. slots \in A
  BY LocalIs
<1>3. \A a \in A, i \in 1..n : place_region(a, Regions[i], at, remotes, ring, sticky) \in A
  <2> SUFFICES ASSUME NEW a \in A, NEW i \in 1..n
               PROVE  place_region(a, Regions[i], at, remotes, ring, sticky) \in A
    OBVIOUS
  <2>1. Regions[i] \in AllRegions
    BY RegionsAre
  <2> QED BY <2>1, RegionCloses
<1>0. n \in Nat
  OBVIOUS
<1> HIDE DEF A, slots, n
<1>4. \E h : h = step(h)
  <2>1. F \in [A \X (1..n) -> A]
    BY <1>3
  <2>2. \A q \in A \X (1..n) : F[q] = place_region(q[1], Regions[q[2]], at, remotes, ring, sticky)
    OBVIOUS
  <2> HIDE DEF F
  <2>3. PICK h \in [SUBSET (1..n) -> A] :
           /\ h = [s \in SUBSET (1..n) |-> IF s = {} THEN slots
                                           ELSE F[<<h[s \ {Max(s)}], Max(s)>>]]
           /\ \A s \in SUBSET (1..n) :
                s # {} => <<h[s \ {Max(s)}], Max(s)>> \in A \X (1..n)
    BY <1>0, <1>2, <2>1, LeftFold
  <2>4. ASSUME NEW s \in SUBSET (1..n), s # {}
        PROVE  F[<<h[s \ {Max(s)}], Max(s)>>]
                 = place_region(h[s \ {Max(s)}], Regions[Max(s)], at, remotes, ring, sticky)
    BY <2>2, <2>3, <2>4
  <2>5. h = step(h)
    BY <2>3, <2>4
  <2> QED BY <2>5
<1>5. fold = step(fold)
  <2> HIDE DEF step
  <2> QED BY <1>4
<1> HIDE DEF fold
<1> DEFINE g == [i \in 0..n |-> fold[1..i]]
<1>6. g[0] = slots
  <2>1. 1..0 \in SUBSET (1..n) /\ 1..0 = {} /\ 0 \in 0..n
    BY <1>0
  <2>2. fold[1..0] = slots
    BY <1>5, <2>1
  <2> QED BY <2>1, <2>2
<1>7. ASSUME NEW i \in 1..n
      PROVE  g[i] = place_region(g[i - 1], Regions[i], at, remotes, ring, sticky)
  <2>1. /\ 1..i \in SUBSET (1..n) /\ 1..i # {} /\ Max(1..i) = i
        /\ (1..i) \ {i} = 1..(i - 1) /\ i - 1 \in 0..n /\ i \in 0..n
    BY <1>0, LastOfPrefix
  <2>2. fold[1..i] = place_region(fold[(1..i) \ {Max(1..i)}], Regions[Max(1..i)],
                                  at, remotes, ring, sticky)
    BY <1>5, <2>1
  <2> QED BY <2>1, <2>2
<1>8. g[n] = fold[1..n]
  BY <1>0
<1> HIDE DEF g, fold
<1>9. /\ RegionsInTurn(g, LocalSlot(you), at, remotes, ring, sticky)
      /\ assign_grid_slots(you, at, remotes, ring, sticky) = g[10]
  BY <1>1, <1>6, <1>7, <1>8 DEF RegionsInTurn, n, slots
<1> QED BY <1>9

-----------------------------------------------------------------------------
(* The nodes of the first i regions.                                       *)
PlacedBy(i, at, remotes) == {m \in remotes : \E j \in 1..i : region_of(m, at, remotes) = Regions[j]}

(* What was placed before node m: YOU, and the regions before its own.     *)
PlacedBefore(k, m, base, at, remotes) ==
  \/ k \in DOMAIN base
  \/ /\ k \in remotes
     /\ \E a, b \in 1..10 : /\ a < b /\ Regions[a] = region_of(k, at, remotes)
                            /\ Regions[b] = region_of(m, at, remotes)

(* The slots when the first i regions are placed.                          *)
IsLaid(slots, i, base, at, remotes, sticky) ==
  /\ slots \in PartialMaps(remotes \cup {You}, Slots)
  /\ DOMAIN slots = DOMAIN base \cup PlacedBy(i, at, remotes)
  /\ \A m \in DOMAIN base : slots[m] = base[m]
  /\ \A m \in PlacedBy(i, at, remotes) : slots[m].region = region_of(m, at, remotes)
  /\ Few(remotes \cup {You}) => CellsApart(slots)
  /\ CellsApart(sticky) =>
       \A m \in PlacedBy(i, at, remotes) :
         m \in DOMAIN sticky /\ sticky[m].region = region_of(m, at, remotes) =>
           \/ slots[m] = sticky[m]
           \/ \E k \in DOMAIN slots : /\ slots[k].at = sticky[m].at
                                      /\ PlacedBefore(k, m, base, at, remotes)

LEMMA RegionKeeps ==
  ASSUME NEW at, NEW remotes, NEW ring, NEW sticky, IsMapped(at, remotes, ring, sticky),
         NEW base, DOMAIN base \subseteq {You}, NEW i \in 1..10,
         NEW slots, IsLaid(slots, i - 1, base, at, remotes, sticky)
  PROVE  IsLaid(place_region(slots, Regions[i], at, remotes, ring, sticky), i, base,
                at, remotes, sticky)
<1> DEFINE region == Regions[i]
           D == remotes \cup {You}
           S == InRegion(region, at, remotes)
           B == PlacedBy(i - 1, at, remotes)
           C == PlacedBy(i, at, remotes)
           after == place_region(slots, region, at, remotes, ring, sticky)
<1>1. region \in AllRegions
  BY RegionsAre
<1>2. \A j \in 1..i : j \in 1..(i - 1) \/ j = i
  OBVIOUS
<1>3. \A j \in 1..(i - 1) : j \in 1..i /\ j \in 1..10 /\ j < i
  OBVIOUS
<1>4. C = B \cup S
  BY <1>2, <1>3 DEF PlacedBy, InRegion
<1>5. B \cap S = {}
  <2> SUFFICES ASSUME NEW m \in B, m \in S PROVE FALSE
    OBVIOUS
  <2>1. PICK j \in 1..(i - 1) : region_of(m, at, remotes) = Regions[j]
    BY DEF PlacedBy
  <2>2. region_of(m, at, remotes) = Regions[i]
    BY DEF InRegion
  <2>3. j \in 1..10 /\ j < i /\ Regions[j] = Regions[i]
    BY <1>3, <2>1, <2>2
  <2>4. j = i
    BY <2>3, RegionsAre
  <2> QED BY <2>3, <2>4
<1>6. \A m \in S : m \in remotes /\ m # You /\ region_of(m, at, remotes) = region
  BY DEF InRegion, IsMapped, AreAt
<1>7. S \cap DOMAIN slots = {}
  BY <1>5, <1>6 DEF IsLaid
<1>8. slots \in PartialMaps(D, Slots)
  BY DEF IsLaid
<1>9. IsGrouped(after, slots, S, region, sticky, D)
  BY <1>1, <1>7, <1>8, RegionGroups
<1>10. after \in PartialMaps(D, Slots)
  BY <1>1, <1>8, RegionCloses
<1>11. /\ DOMAIN slots = DOMAIN base \cup B /\ DOMAIN after = DOMAIN base \cup C
       /\ \A m \in DOMAIN slots : after[m] = slots[m]
       /\ \A m \in DOMAIN base : after[m] = base[m]
  BY <1>4, <1>9 DEF IsLaid, IsGrouped
<1>12. \A m \in C : after[m].region = region_of(m, at, remotes)
  <2> SUFFICES ASSUME NEW m \in C PROVE after[m].region = region_of(m, at, remotes)
    OBVIOUS
  <2>1. CASE m \in B
    BY <1>11, <2>1 DEF IsLaid
  <2>2. CASE m \in S
    BY <1>6, <1>9, <2>2 DEF IsGrouped
  <2> QED BY <1>4, <2>1, <2>2
<1>13. Few(D) => CellsApart(after)
  BY <1>9 DEF IsGrouped, IsLaid
<1>14. ASSUME CellsApart(sticky), NEW m \in C, m \in DOMAIN sticky,
              sticky[m].region = region_of(m, at, remotes)
       PROVE  \/ after[m] = sticky[m]
              \/ \E k \in DOMAIN after : /\ after[k].at = sticky[m].at
                                         /\ PlacedBefore(k, m, base, at, remotes)
  <2>1. CASE m \in B
    <3>1. \/ slots[m] = sticky[m]
          \/ \E k \in DOMAIN slots : /\ slots[k].at = sticky[m].at
                                     /\ PlacedBefore(k, m, base, at, remotes)
      BY <1>14, <2>1 DEF IsLaid
    <3>2. m \in DOMAIN slots /\ DOMAIN slots \subseteq DOMAIN after
      BY <1>4, <1>11, <2>1
    <3> HIDE DEF after
    <3> QED BY <1>11, <3>1, <3>2
  <2>2. CASE m \in S
    <3>1. sticky[m].region = region
      BY <1>6, <1>14, <2>2
    <3>2. after[m] = sticky[m] \/ \E k \in DOMAIN slots : slots[k].at = sticky[m].at
      BY <1>9, <1>14, <2>2, <3>1 DEF IsGrouped
    <3>3. CASE after[m] = sticky[m]
      BY <3>3
    <3>4. CASE \E k \in DOMAIN slots : slots[k].at = sticky[m].at
      <4>1. PICK k \in DOMAIN slots : slots[k].at = sticky[m].at
        BY <3>4
      <4>2. k \in DOMAIN after /\ after[k].at = sticky[m].at
        BY <1>4, <1>11, <4>1
      <4>3. PlacedBefore(k, m, base, at, remotes)
        <5>1. CASE k \in DOMAIN base
          BY <5>1 DEF PlacedBefore
        <5>2. CASE k \in B
          <6>1. k \in remotes /\ \E j \in 1..(i - 1) : region_of(k, at, remotes) = Regions[j]
            BY <5>2 DEF PlacedBy
          <6>2. PICK j \in 1..(i - 1) : region_of(k, at, remotes) = Regions[j]
            BY <6>1
          <6>3. j \in 1..10 /\ i \in 1..10 /\ j < i /\ Regions[i] = region_of(m, at, remotes)
            BY <1>3, <1>6, <2>2
          <6> QED BY <6>1, <6>2, <6>3 DEF PlacedBefore
        <5> QED BY <1>11, <4>1, <5>1, <5>2
      <4> HIDE DEF after
      <4> QED BY <4>2, <4>3
    <3> QED BY <3>2, <3>3, <3>4
  <2> QED BY <1>4, <2>1, <2>2
<1> HIDE DEF after, C, D
<1>15. IsLaid(after, i, base, at, remotes, sticky)
  BY <1>10, <1>11, <1>12, <1>13, <1>14 DEF IsLaid, C, D
<1> QED BY <1>15 DEF after

(* The slots of a board.                                                   *)
IsAssigned(slots, local, at, remotes, sticky) ==
  /\ slots \in PartialMaps(remotes \cup {You}, Slots)
  /\ DOMAIN slots = local \cup remotes
  /\ \A m \in local : slots[m] = Slot(<<0, 0>>, "LOCAL")
  /\ \A m \in remotes : slots[m].region = region_of(m, at, remotes)
  /\ Few(remotes \cup {You}) => CellsApart(slots)
  /\ CellsApart(sticky) =>
       \A m \in remotes :
         m \in DOMAIN sticky /\ sticky[m].region = region_of(m, at, remotes) =>
           \/ slots[m] = sticky[m]
           \/ \E k \in DOMAIN slots : /\ slots[k].at = sticky[m].at
                                      /\ \/ k \in local
                                         \/ /\ k \in remotes
                                            /\ \E a, b \in 1..10 :
                                                 /\ a < b
                                                 /\ Regions[a] = region_of(k, at, remotes)
                                                 /\ Regions[b] = region_of(m, at, remotes)

(* assign_grid_slots gives every node a slot of its region, and each one of *)
(* its own if there are at most 4095; a node that was in its region before *)
(* has its old slot, unless one that is placed before it has it.           *)
THEOREM AssignedIs ==
  ASSUME NEW you \in BOOLEAN, NEW at, NEW remotes, NEW ring, NEW sticky,
         IsMapped(at, remotes, ring, sticky)
  PROVE  IsAssigned(assign_grid_slots(you, at, remotes, ring, sticky), DOMAIN LocalSlot(you),
                    at, remotes, sticky)
<1> DEFINE base == LocalSlot(you)
           n == 10
<1>1. /\ base \in PartialMaps(remotes \cup {You}, Slots)
      /\ \A m \in DOMAIN base : m = You /\ base[m] = Slot(<<0, 0>>, "LOCAL")
  BY LocalIs
<1>2. PICK g : /\ RegionsInTurn(g, base, at, remotes, ring, sticky)
               /\ assign_grid_slots(you, at, remotes, ring, sticky) = g[10]
  BY RegionRun
<1>3. DOMAIN base \subseteq {You}
  BY <1>1
<1> HIDE DEF base
<1> DEFINE P == {i \in 0..n : IsLaid(g[i], i, base, at, remotes, sticky)}
<1>4. 0 \in P
  <2>1. 1..0 = {} /\ 0 \in 0..n /\ g[0] = base
    BY <1>2 DEF RegionsInTurn
  <2>2. PlacedBy(0, at, remotes) = {}
    BY <2>1 DEF PlacedBy
  <2>3. CellsApart(base)
    BY <1>1 DEF CellsApart
  <2>4. IsLaid(base, 0, base, at, remotes, sticky)
    BY <1>1, <2>2, <2>3 DEF IsLaid
  <2> QED BY <2>1, <2>4
<1>5. ASSUME NEW i \in 1..n, i - 1 \in P PROVE i \in P
  <2>1. IsLaid(g[i - 1], i - 1, base, at, remotes, sticky) /\ i \in 0..n /\ i \in 1..10
    BY <1>5
  <2>2. g[i] = place_region(g[i - 1], Regions[i], at, remotes, ring, sticky)
    BY <1>2 DEF RegionsInTurn
  <2>3. IsLaid(place_region(g[i - 1], Regions[i], at, remotes, ring, sticky), i, base,
               at, remotes, sticky)
    BY <1>3, <2>1, RegionKeeps
  <2> QED BY <2>1, <2>2, <2>3
<1>6. n \in Nat
  OBVIOUS
<1>7. n \in P
  <2> HIDE DEF P, n
  <2>1. \A i \in 0..n : i \in P
    BY <1>4, <1>5, <1>6, Reached
  <2>2. n \in 0..n
    BY <1>6
  <2> QED BY <2>1, <2>2
<1> DEFINE slots == g[10]
<1>8. IsLaid(slots, 10, base, at, remotes, sticky)
  BY <1>7
<1>9. PlacedBy(10, at, remotes) = remotes
  <2>1. \A m \in remotes : region_of(m, at, remotes) \in AllRegions
    BY RegionIs DEF IsMapped
  <2>2. \A m \in remotes : \E j \in 1..10 : region_of(m, at, remotes) = Regions[j]
    BY <2>1, RegionsAre
  <2> QED BY <2>2 DEF PlacedBy
<1> HIDE DEF slots
<1>10. /\ slots \in PartialMaps(remotes \cup {You}, Slots)
       /\ DOMAIN slots = DOMAIN base \cup remotes
       /\ \A m \in DOMAIN base : slots[m] = Slot(<<0, 0>>, "LOCAL")
       /\ \A m \in remotes : slots[m].region = region_of(m, at, remotes)
       /\ Few(remotes \cup {You}) => CellsApart(slots)
  BY <1>1, <1>8, <1>9 DEF IsLaid
<1>11. ASSUME CellsApart(sticky), NEW m \in remotes, m \in DOMAIN sticky,
              sticky[m].region = region_of(m, at, remotes), slots[m] # sticky[m]
       PROVE  \E k \in DOMAIN slots : slots[k].at = sticky[m].at /\ PlacedBefore(k, m, base, at, remotes)
  BY <1>8, <1>9, <1>11 DEF IsLaid
<1>12. IsAssigned(slots, DOMAIN base, at, remotes, sticky)
  BY <1>10, <1>11 DEF IsAssigned, PlacedBefore
<1> QED BY <1>2, <1>12 DEF base, slots

-----------------------------------------------------------------------------
(* How far the slots reach.                                                *)

LEMMA GreatestWithZero ==
  ASSUME NEW K \in SUBSET Int, IsFiniteSet(K), 0 \in K
  PROVE  Max(K) \in Nat /\ Max(K) \in K /\ \A k \in K : k <= Max(K)
<1> DEFINE N == K \cap Nat
           m == Max(N)
<1>1. IsFiniteSet(N) /\ N \in SUBSET Nat /\ N # {}
  <2>1. N \subseteq K /\ 0 \in N
    OBVIOUS
  <2> QED BY <2>1, FS_Subset
<1> HIDE DEF N
<1>2. m \in N /\ \A k \in N : k <= m
  BY <1>1, GreatestOf
<1> HIDE DEF m
<1>3. m \in K /\ m \in Nat
  BY <1>2 DEF N
<1>4. \A k \in K : m >= k
  <2> SUFFICES ASSUME NEW k \in K PROVE m >= k
    OBVIOUS
  <2>1. CASE k \in Nat
    <3>1. k \in N
      BY <2>1 DEF N
    <3>2. k <= m
      BY <1>2, <3>1
    <3> QED BY <1>3, <2>1, <3>2
  <2>2. CASE k \notin Nat
    BY <1>3, <2>2
  <2> QED BY <2>1, <2>2
<1>5. Max(K) \in K /\ \A k \in K : Max(K) >= k
  BY <1>3, <1>4 DEF Max
<1> DEFINE x == Max(K)
<1> HIDE DEF x
<1>6. x \in K /\ x >= 0 /\ \A k \in K : x >= k
  BY <1>5 DEF x
<1>7. x \in Nat /\ \A k \in K : k <= x
  BY <1>6
<1> QED BY <1>6, <1>7 DEF x

LEMMA GreaterOf ==
  ASSUME NEW a \in Int, NEW b \in Int
  PROVE  Max({a, b}) \in {a, b} /\ Max({a, b}) >= a /\ Max({a, b}) >= b
<1> DEFINE K == {a, b}
<1>1. \E x \in K : \A y \in K : x >= y
  BY DEF K
<1>2. Max(K) \in K /\ \A y \in K : Max(K) >= y
  BY <1>1 DEF Max
<1> QED BY <1>2

LEMMA ExtentsAre ==
  ASSUME NEW slots, IsFiniteSet(DOMAIN slots), \A n \in DOMAIN slots : slots[n].at \in Offsets
  PROVE  \A s \in Sides : extents(slots)[s] \in Nat
<1> DEFINE K(axis, s) == {0} \cup {s * slots[n].at[axis] : n \in DOMAIN slots}
<1>1. extents(slots) = [up |-> Max(K(2, -1)), down |-> Max(K(2, 1)),
                        left |-> Max(K(1, -1)), right |-> Max(K(1, 1))]
  BY DEF extents
<1>2. ASSUME NEW axis \in {1, 2}, NEW s \in Int PROVE Max(K(axis, s)) \in Nat
  <2> DEFINE D == DOMAIN slots
             f == [n \in D |-> s * slots[n].at[axis]]
             U == {f[n] : n \in D}
  <2>1. ASSUME NEW n \in D PROVE s * slots[n].at[axis] \in Int
    <3>1. slots[n].at[axis] \in Int
      BY DEF Offsets
    <3> QED BY <3>1
  <2>2. f \in [D -> Int]
    BY <2>1
  <2>3. IsFiniteSet(D)
    OBVIOUS
  <2>4. K(axis, s) = U \cup {0}
    OBVIOUS
  <2>5. \A n \in D : f[n] \in Int
    BY <2>2
  <2> HIDE DEF D, f
  <2>6. U \subseteq Int
    BY <2>5
  <2>7. IsFiniteSet(U)
    BY <2>2, <2>3, ImageIsFinite
  <2> HIDE DEF U
  <2>8. IsFiniteSet(U \cup {0})
    BY <2>7, FS_AddElement
  <2> DEFINE T == U \cup {0}
  <2>9. T \in SUBSET Int /\ 0 \in T
    BY <2>6
  <2>10. Max(T) \in Nat
    <3> HIDE DEF T
    <3> QED BY <2>8, <2>9, GreatestWithZero DEF T
  <2> QED BY <2>4, <2>10
<1> HIDE DEF K
<1>3. /\ Max(K(2, -1)) \in Nat /\ Max(K(2, 1)) \in Nat
      /\ Max(K(1, -1)) \in Nat /\ Max(K(1, 1)) \in Nat
  <2>1. 1 \in Int /\ -1 \in Int
    OBVIOUS
  <2> QED BY <1>2, <2>1
<1> QED BY <1>1, <1>3 DEF Sides
=============================================================================
