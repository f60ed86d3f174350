--------------------------- MODULE HistoryProofs ----------------------------
(***************************************************************************)
(* Theorems about what the app keeps, for any messages, channels, peers,   *)
(* profiles, versions and nodes: the windows of MessageWindow, the         *)
(* conversations of DirectMessages, the opening of StoreSchema, the        *)
(* traceroutes and removals of NodeActions, and the table and the list of  *)
(* Encounters.                                                             *)
(***************************************************************************)
EXTENDS MessageWindow, DirectMessages, StoreSchema, NodeActions, Encounters,
        FiniteSetTheorems, FunctionTheorems, TLAPS

-----------------------------------------------------------------------------
(* The least of some numbers.                                              *)
LEMMA LeastOf ==
  ASSUME NEW S \in SUBSET Nat, S # {}
  PROVE  Min(S) \in S /\ \A n \in S : Min(S) <= n
<1>1. PICK x \in S : \A y \in S : ~ (<<y, x>> \in OpToRel(<, Nat))
  BY NatLessThanWellFounded, WFMin, Zenon
<1>2. \A y \in S : x <= y
  <2> SUFFICES ASSUME NEW y \in S PROVE x <= y
    OBVIOUS
  <2>1. x \in Nat /\ y \in Nat /\ <<y, x>> \in Nat \X Nat
    OBVIOUS
  <2>2. ~ (<<y, x>>[1] < <<y, x>>[2])
    BY <1>1, <2>1 DEF OpToRel
  <2> QED BY <2>1, <2>2
<1> QED BY <1>2 DEF Min

(* The elements of a finite set, from the greatest down, as f orders them. *)
Above(S, f, m) == {k \in S : f[k] > f[m]}

LEMMA AboveIsLess ==
  ASSUME NEW S, IsFiniteSet(S), NEW f \in [S -> Nat], NEW m \in S
  PROVE  Cardinality(Above(S, f, m)) \in 0..Cardinality(S) - 1
<1>1. Above(S, f, m) \in SUBSET (S \ {m})
  BY DEF Above
<1>2. /\ IsFiniteSet(S \ {m}) /\ Cardinality(S \ {m}) = Cardinality(S) - 1
      /\ Cardinality(S) \in Nat
  BY FS_RemoveElement, FS_CardinalityType
<1>3. IsFiniteSet(Above(S, f, m)) /\ Cardinality(Above(S, f, m)) <= Cardinality(S \ {m})
  BY <1>1, <1>2, FS_Subset
<1>4. Cardinality(Above(S, f, m)) \in Nat
  BY <1>3, FS_CardinalityType
<1> QED BY <1>2, <1>3, <1>4

LEMMA AboveTellsApart ==
  ASSUME NEW S, IsFiniteSet(S), NEW f \in [S -> Nat], NEW m \in S, NEW n \in S, f[m] < f[n]
  PROVE  Cardinality(Above(S, f, n)) < Cardinality(Above(S, f, m))
<1>1. Above(S, f, n) \in SUBSET Above(S, f, m) /\ n \in Above(S, f, m) /\ n \notin Above(S, f, n)
  BY DEF Above
<1>2. IsFiniteSet(Above(S, f, m)) /\ IsFiniteSet(Above(S, f, n))
  BY FS_Subset DEF Above
<1>3. /\ Cardinality(Above(S, f, n)) <= Cardinality(Above(S, f, m))
      /\ Cardinality(Above(S, f, n)) # Cardinality(Above(S, f, m))
  BY <1>1, <1>2, FS_Subset
<1>4. Cardinality(Above(S, f, n)) \in Nat /\ Cardinality(Above(S, f, m)) \in Nat
  BY <1>2, FS_CardinalityType
<1> QED BY <1>3, <1>4

LEMMA RanksAreAll ==
  ASSUME NEW S, IsFiniteSet(S), NEW f \in [S -> Nat], \A k, l \in S : f[k] = f[l] => k = l
  PROVE  [m \in S |-> Cardinality(Above(S, f, m))] \in Bijection(S, 0..Cardinality(S) - 1)
<1> DEFINE r == [m \in S |-> Cardinality(Above(S, f, m))]
           T == 0..Cardinality(S) - 1
<1>1. r \in [S -> T]
  BY AboveIsLess
<1>2. ASSUME NEW m \in S, NEW n \in S, m # n
      PROVE  r[m] # r[n]
  <2>1. f[m] < f[n] \/ f[n] < f[m]
    BY <1>2
  <2>2. r[m] \in Nat /\ r[n] \in Nat
    BY <1>1
  <2>3. r[m] = Cardinality(Above(S, f, m)) /\ r[n] = Cardinality(Above(S, f, n))
    OBVIOUS
  <2> QED BY <2>1, <2>2, <2>3, AboveTellsApart
<1>3. r \in Injection(S, T)
  BY <1>1, <1>2 DEF Injection, IsInjective
<1>4. IsFiniteSet(T) /\ Cardinality(T) = Cardinality(S)
  <2>1. Cardinality(S) \in Nat
    BY FS_CardinalityType
  <2>2. 0 \in Int /\ Cardinality(S) - 1 \in Int
    BY <2>1
  <2> QED BY <2>1, <2>2, FS_Interval
<1>5. r \in Surjection(S, T)
  BY <1>3, <1>4, FS_Injection
<1> QED BY <1>3, <1>5 DEF Bijection

-----------------------------------------------------------------------------
(* The newest of some messages.                                            *)
LEMMA NewestAre ==
  ASSUME NEW S \in SUBSET Nat, IsFiniteSet(S), NEW n \in Nat
  PROVE  /\ Newest(S, n) \in SUBSET S
         /\ \A m \in S \ Newest(S, n), k \in Newest(S, n) : m < k
         /\ IsFiniteSet(Newest(S, n))
         /\ Cardinality(Newest(S, n)) = IF n <= Cardinality(S) THEN n ELSE Cardinality(S)
         /\ Cardinality(S) <= n => Newest(S, n) = S
<1> DEFINE f == [m \in S |-> m]
           r == [m \in S |-> Cardinality(Above(S, f, m))]
           N == Newest(S, n)
<1>1. f \in [S -> Nat] /\ \A k, l \in S : f[k] = f[l] => k = l
  OBVIOUS
<1>2. \A m \in S : {k \in S : k > m} = Above(S, f, m)
  BY DEF Above
<1>3. r \in Bijection(S, 0..Cardinality(S) - 1)
  <2> HIDE DEF f
  <2> QED BY <1>1, RanksAreAll
<1>4. N = {m \in S : r[m] < n}
  BY <1>2 DEF Newest
<1>5. /\ \A m \in S : r[m] \in 0..Cardinality(S) - 1
      /\ \A t \in 0..Cardinality(S) - 1 : \E m \in S : r[m] = t
      /\ \A k, l \in S : r[k] = r[l] => k = l
  <2> DEFINE T == 0..Cardinality(S) - 1
  <2> HIDE DEF r, T
  <2>1. r \in [S -> T] /\ IsInjective(r) /\ \A t \in T : \E m \in S : r[m] = t
    BY <1>3 DEF Bijection, Injection, Surjection, T
  <2>2. DOMAIN r = S
    BY <2>1
  <2> QED BY <2>1, <2>2 DEF IsInjective, T
<1>6. Cardinality(S) \in Nat
  BY FS_CardinalityType
<1>7. N \in SUBSET S /\ IsFiniteSet(N)
  BY <1>4, FS_Subset
<1>8. ASSUME NEW m \in S \ N, NEW k \in N PROVE m < k
  <2>1. k # m /\ k \in S /\ m \in Nat /\ k \in Nat
    BY <1>7, <1>8
  <2>2. ASSUME k < m PROVE FALSE
    <3>1. f[k] < f[m]
      BY <1>7, <2>2
    <3>2. Cardinality(Above(S, f, m)) < Cardinality(Above(S, f, k))
      <4> HIDE DEF f
      <4> QED BY <1>1, <2>1, <3>1, AboveTellsApart
    <3>3. r[m] < r[k]
      BY <2>1, <3>2
    <3>4. r[k] < n /\ ~(r[m] < n)
      BY <1>4, <2>1, <1>8
    <3>5. r[k] \in Int /\ r[m] \in Int
      BY <1>5, <2>1
    <3> HIDE DEF r
    <3> QED BY <3>3, <3>4, <3>5
  <2> QED BY <2>1, <2>2
<1>9. Cardinality(S) <= n => N = S
  <2> HIDE DEF r
  <2>1. \A m \in S : r[m] < Cardinality(S) /\ r[m] \in Int
    BY <1>5, <1>6
  <2>2. Cardinality(S) <= n => \A m \in S : r[m] < n
    BY <1>6, <2>1
  <2> QED BY <1>4, <2>2
<1>10. Cardinality(N) = IF n <= Cardinality(S) THEN n ELSE Cardinality(S)
  <2>1. CASE ~(n <= Cardinality(S))
    BY <1>6, <1>9, <2>1
  <2>2. CASE n <= Cardinality(S)
    <3> DEFINE g == [m \in N |-> r[m]]
    <3> HIDE DEF r
    <3>1. g \in [N -> 0..n - 1]
      <4>1. \A m \in N : r[m] < n /\ r[m] \in Nat
        <5>1. \A m \in S : r[m] \in Nat
          BY <1>5, <1>6
        <5> HIDE DEF N
        <5> QED BY <1>4, <5>1
      <4> QED BY <4>1
    <3>2. \A t \in 0..n - 1 : \E m \in N : g[m] = t
      BY <1>4, <1>5, <1>6, <2>2
    <3>3. \A k, l \in N : g[k] = g[l] => k = l
      BY <1>5, <1>7
    <3> HIDE DEF g, N
    <3>4. g \in Bijection(N, 0..n - 1)
      BY <3>1, <3>2, <3>3 DEF Bijection, Injection, Surjection, IsInjective
    <3>5. Cardinality(0..n - 1) = Cardinality(N)
      BY <1>7, <3>4, FS_Bijection DEF ExistsBijection
    <3>6. Cardinality(0..n - 1) = n
      <4>1. 0 \in Int /\ n - 1 \in Int
        OBVIOUS
      <4> QED BY <4>1, FS_Interval
    <3> QED BY <2>2, <3>5, <3>6
  <2> QED BY <2>1, <2>2
<1> QED BY <1>7, <1>8, <1>9, <1>10

(* What a trim leaves: the newest, and no fewer than the target.           *)
Stops(win, target) == Cardinality(win) <= target \/ ~may_pop(win, target)
SuffixesOf(win) == {Newest(win, n) : n \in 0..Cardinality(win)}
Longest(win, target, w) ==
  /\ Stops(w, target)
  /\ \A v \in SuffixesOf(win) : Cardinality(v) > Cardinality(w) => ~Stops(v, target)

LEMMA SuffixesAre ==
  ASSUME NEW win \in SUBSET Nat, IsFiniteSet(win), NEW n \in 0..Cardinality(win)
  PROVE  Newest(win, n) \in SuffixesOf(win) /\ Cardinality(Newest(win, n)) = n
<1>1. Cardinality(win) \in Nat
  BY FS_CardinalityType
<1>2. n \in Nat /\ n <= Cardinality(win)
  BY <1>1
<1>3. Cardinality(Newest(win, n)) = n
  BY <1>2, NewestAre
<1> QED BY <1>3 DEF SuffixesOf

LEMMA SomeSuffixIsLongest ==
  ASSUME NEW win \in SUBSET Nat, IsFiniteSet(win), NEW target \in Nat
  PROVE  \E w \in SuffixesOf(win) : Longest(win, target, w)
<1>1. PICK size \in Nat : size = Cardinality(win)
  BY FS_CardinalityType
<1> DEFINE D == {d \in 0..size : Stops(Newest(win, size - d), target)}
<1>2. D \in SUBSET Nat
  OBVIOUS
<1>3. size \in D
  <2>1. 0 \in 0..Cardinality(win)
    BY <1>1
  <2>2. Cardinality(Newest(win, 0)) = 0
    BY <2>1, SuffixesAre
  <2>3. Stops(Newest(win, 0), target)
    BY <2>2 DEF Stops
  <2> QED BY <1>1, <2>3
<1>4. PICK d \in D : \A e \in D : d <= e
  BY <1>2, <1>3, LeastOf
<1> DEFINE w == Newest(win, size - d)
<1>5. d \in 0..size /\ size - d \in 0..Cardinality(win) /\ Stops(w, target)
  BY <1>1, <1>4
<1>6. w \in SuffixesOf(win) /\ Cardinality(w) = size - d
  BY <1>5, SuffixesAre
<1>7. ASSUME NEW v \in SuffixesOf(win), Cardinality(v) > Cardinality(w)
      PROVE  ~Stops(v, target)
  <2>1. PICK n \in 0..Cardinality(win) : v = Newest(win, n)
    BY DEF SuffixesOf
  <2>2. Cardinality(v) = n
    BY <2>1, SuffixesAre
  <2>3. n > size - d /\ n \in 0..size
    BY <1>1, <1>6, <1>7, <2>2
  <2>4. size - n \in 0..size /\ size - n < d /\ size - (size - n) = n
    BY <1>5, <2>3
  <2>5. size - n \notin D
    <3>1. size - n \in D => d <= size - n
      BY <1>4
    <3>2. d \in Int /\ size - n \in Int /\ size - n < d
      BY <1>5, <2>4
    <3> HIDE DEF D
    <3> QED BY <3>1, <3>2
  <2> QED BY <2>1, <2>4, <2>5
<1> HIDE DEF w
<1> QED BY <1>5, <1>6, <1>7 DEF Longest

LEMMA TrimLeaves ==
  ASSUME NEW win \in SUBSET Nat, IsFiniteSet(win), NEW target \in Nat
  PROVE  /\ trimmed(win, target) \in SUBSET win
         /\ \A m \in win \ trimmed(win, target), k \in trimmed(win, target) : m < k
         /\ IsFiniteSet(trimmed(win, target))
         /\ \/ Cardinality(trimmed(win, target)) >= target
            \/ trimmed(win, target) = win
<1> DEFINE t == trimmed(win, target)
<1>1. t = CHOOSE w \in SuffixesOf(win) : Longest(win, target, w)
  BY DEF trimmed, SuffixesOf, Longest, Stops
<1>2. t \in SuffixesOf(win) /\ Longest(win, target, t)
  BY <1>1, SomeSuffixIsLongest
<1> HIDE DEF t
<1>3. PICK n \in 0..Cardinality(win) : t = Newest(win, n)
  BY <1>2 DEF SuffixesOf
<1>4. Cardinality(win) \in Nat /\ n \in Nat
  BY FS_CardinalityType
<1>5. /\ t \in SUBSET win /\ IsFiniteSet(t) /\ Cardinality(t) = n
      /\ \A m \in win \ t, k \in t : m < k
  BY <1>3, <1>4, NewestAre, SuffixesAre
<1>6. Cardinality(t) >= target \/ t = win
  <2>1. CASE target <= Cardinality(win)
    <3>1. target \in 0..Cardinality(win)
      BY <1>4, <2>1
    <3>2. Newest(win, target) \in SuffixesOf(win) /\ Cardinality(Newest(win, target)) = target
      BY <3>1, SuffixesAre
    <3>3. Stops(Newest(win, target), target)
      BY <3>2 DEF Stops
    <3> QED BY <1>2, <1>4, <1>5, <3>2, <3>3 DEF Longest
  <2>2. CASE Cardinality(win) < target
    <3>1. Cardinality(win) \in 0..Cardinality(win)
      BY <1>4
    <3>2. /\ Newest(win, Cardinality(win)) \in SuffixesOf(win)
          /\ Cardinality(Newest(win, Cardinality(win))) = Cardinality(win)
      BY <3>1, SuffixesAre
    <3>3. Stops(Newest(win, Cardinality(win)), target)
      BY <1>4, <2>2, <3>2 DEF Stops
    <3>4. n = Cardinality(win)
      BY <1>2, <1>4, <1>5, <3>2, <3>3 DEF Longest
    <3> QED BY <1>5, <3>4, FS_Subset
  <2> QED BY <1>4, <2>1, <2>2
<1> QED BY <1>5, <1>6 DEF t

-----------------------------------------------------------------------------
(* The windows.                                                            *)

OfChan(c) == {m \in stored : ChanOf[m] = c}
TargetOf(c) == IF c = at THEN mine.target ELSE state[c].target

(* A window onto some rows: the newest of them; as many as its target says *)
(* while there are, or might be, older ones; and these are offered.        *)
Onto(rows, win, older, target, unsure) ==
  /\ win \in SUBSET rows
  /\ \A m \in rows \ win : win # {} /\ \A e \in win : m < e
  /\ older \/ rows \ win # {} => Cardinality(win) >= target
  /\ unsure \/ (rows \ win # {} => older)

WindowTypes ==
  /\ stored \in SUBSET Messages /\ at \in Chans
  /\ entries \in [Chans -> SUBSET Messages]
  /\ state \in [Chans -> [older : BOOLEAN, target : Nat \ {0}, loaded : BOOLEAN]]
  /\ mine \in [older : BOOLEAN, target : Nat \ {0}]
  /\ {visible, raced, crossed} \subseteq BOOLEAN
  /\ page \in [chan : Chans \cup {0}, older : BOOLEAN]

(* The app's copies run ahead of the state only while a page is mounted.   *)
Copies ==
  /\ state[at].loaded /\ state[at].older = mine.older
  /\ \/ state[at].target = mine.target
     \/ mine.older /\ state[at].target <= mine.target
Unloaded == \A c \in Chans : state[c].loaded \/ entries[c] = {}
WindowsAre ==
  \A c \in Chans :
    state[c].loaded => Onto(OfChan(c), entries[c], Older(c), TargetOf(c), raced)
(* The page on its way says whether older rows remain.                     *)
PageIs ==
  page # NoPage =>
    mine.older /\ (raced \/ (OfChan(at) \ entries[at] # {} => page.older))

WindowInv ==
  WindowTypes /\ Copies /\ Unloaded /\ (crossed \/ (WindowsAre /\ PageIs))

LEMMA RowsOfChan ==
  ASSUME WindowTypes, NEW c
  PROVE  OfChan(c) \in SUBSET Nat /\ OfChan(c) \in SUBSET Messages /\ IsFiniteSet(OfChan(c))
<1>1. OfChan(c) \in SUBSET Messages
  BY DEF WindowTypes, OfChan
<1> QED BY <1>1, WindowAssumption, FS_Subset

(* What the operations do to a window.                                     *)
LEMMA RecentIsOnto ==
  ASSUME NEW rows \in SUBSET Nat, IsFiniteSet(rows), NEW unsure
  PROVE  Onto(rows, Newest(rows, Limit), Cardinality(rows) > Limit, Limit, unsure)
<1>1. Limit \in Nat /\ Limit > 0 /\ Cardinality(rows) \in Nat
  BY WindowAssumption, FS_CardinalityType
<1>2. /\ Newest(rows, Limit) \in SUBSET rows
      /\ \A m \in rows \ Newest(rows, Limit), k \in Newest(rows, Limit) : m < k
      /\ Cardinality(Newest(rows, Limit))
           = IF Limit <= Cardinality(rows) THEN Limit ELSE Cardinality(rows)
      /\ Cardinality(rows) <= Limit => Newest(rows, Limit) = rows
  BY <1>1, NewestAre
<1>3. rows \ Newest(rows, Limit) # {} => Cardinality(rows) > Limit
  BY <1>1, <1>2
<1>4. Cardinality(rows) > Limit => Cardinality(Newest(rows, Limit)) = Limit
  BY <1>1, <1>2
<1>5. Cardinality(rows) > Limit => Newest(rows, Limit) # {}
  BY <1>1, <1>4, FS_EmptySet
<1> QED BY <1>1, <1>2, <1>3, <1>4, <1>5 DEF Onto

LEMMA OutsideIsOnto ==
  ASSUME NEW rows \in SUBSET Nat, NEW win, NEW older, NEW target \in Nat, NEW unsure,
         Onto(rows, win, older, target, unsure), NEW m \in Nat,
         win # {}, m < Min(win), older \/ Cardinality(win) >= target
  PROVE  Onto(rows \cup {m}, win, TRUE, target, unsure)
<1>1. win \in SUBSET Nat
  BY DEF Onto
<1>2. Min(win) \in Nat /\ \A e \in win : Min(win) <= e /\ e \in Nat
  BY <1>1, LeastOf
<1>3. \A e \in win : m < e
  BY <1>2
<1> QED BY <1>3 DEF Onto

LEMMA InsideIsOnto ==
  ASSUME NEW rows \in SUBSET Nat, IsFiniteSet(rows), NEW win, NEW older \in BOOLEAN,
         NEW target \in Nat, NEW unsure,
         Onto(rows, win, older, target, unsure), NEW m \in Nat \ rows,
         win = {} \/ Min(win) < m \/ (~older /\ Cardinality(win) < target)
  PROVE  Onto(rows \cup {m}, win \cup {m}, older, target, unsure)
<1>1. win \in SUBSET rows /\ win \in SUBSET Nat /\ m \notin win
  BY DEF Onto
<1>2. IsFiniteSet(win) /\ Cardinality(win) \in Nat
  BY <1>1, FS_Subset, FS_CardinalityType
<1>3. Cardinality(win \cup {m}) = Cardinality(win) + 1
  BY <1>1, <1>2, FS_AddElement
<1>4. (rows \cup {m}) \ (win \cup {m}) = rows \ win
  BY <1>1
<1>5. \A n \in rows \ win : n < m /\ \A e \in win : n < e
  <2> SUFFICES ASSUME NEW n \in rows \ win
               PROVE  n < m /\ \A e \in win : n < e
    OBVIOUS
  <2>1. win # {} /\ \A e \in win : n < e
    BY DEF Onto
  <2>2. ~(~older /\ Cardinality(win) < target)
    BY <1>2 DEF Onto
  <2>3. Min(win) \in win /\ Min(win) < m
    BY <1>1, <2>1, <2>2, LeastOf
  <2>4. n < Min(win) /\ n \in Nat /\ Min(win) \in Nat
    BY <1>1, <2>1, <2>3
  <2> QED BY <2>1, <2>3, <2>4
<1>6. older \/ (rows \cup {m}) \ (win \cup {m}) # {} => Cardinality(win \cup {m}) >= target
  BY <1>2, <1>3, <1>4 DEF Onto
<1>7. unsure \/ ((rows \cup {m}) \ (win \cup {m}) # {} => older)
  BY <1>4 DEF Onto
<1> QED BY <1>1, <1>4, <1>5, <1>6, <1>7 DEF Onto

LEMMA TrimIsOnto ==
  ASSUME NEW rows \in SUBSET Nat, IsFiniteSet(rows), NEW win, NEW older \in BOOLEAN,
         NEW target \in Nat \ {0}, NEW unsure,
         Onto(rows, win, older, target, unsure)
  PROVE  Onto(rows, trimmed(win, target),
              older \/ Cardinality(trimmed(win, target)) < Cardinality(win), target, unsure)
<1> DEFINE t == trimmed(win, target)
<1>1. win \in SUBSET rows /\ win \in SUBSET Nat
  BY DEF Onto
<1>2. IsFiniteSet(win) /\ Cardinality(win) \in Nat
  BY <1>1, FS_Subset, FS_CardinalityType
<1>3. /\ t \in SUBSET win /\ IsFiniteSet(t)
      /\ \A m \in win \ t, k \in t : m < k
      /\ Cardinality(t) >= target \/ t = win
  BY <1>1, <1>2, TrimLeaves
<1> HIDE DEF t
<1>4. Cardinality(t) \in Nat /\ Cardinality(t) <= Cardinality(win)
      /\ (Cardinality(t) = Cardinality(win) => t = win)
  BY <1>2, <1>3, FS_Subset, FS_CardinalityType
<1>5. CASE t = win
  <2>1. (older \/ Cardinality(t) < Cardinality(win)) = older
    BY <1>2, <1>5
  <2> QED BY <1>5, <2>1 DEF t
<1>6. CASE t # win
  <2>1. Cardinality(t) >= target /\ Cardinality(t) < Cardinality(win)
    BY <1>2, <1>3, <1>4, <1>6
  <2>2. t # {}
    BY <2>1, FS_EmptySet
  <2>3. \A m \in rows \ t, e \in t : m < e
    BY <1>3 DEF Onto
  <2> QED BY <1>1, <1>3, <2>1, <2>2, <2>3 DEF Onto, t
<1> QED BY <1>5, <1>6

LEMMA PageIsOnto ==
  ASSUME NEW rows \in SUBSET Nat, IsFiniteSet(rows), NEW win, NEW target \in Nat, NEW unsure,
         Onto(rows, win, TRUE, target, unsure), win # {}, NEW older,
         older = {m \in rows : m < Min(win)}, NEW got, got = Newest(older, PageSize)
  PROVE  /\ Onto(rows, win \cup got, TRUE, target + Cardinality(got), unsure)
         /\ Cardinality(got) \in Nat
         /\ got = {} => rows = win
         /\ rows \ (win \cup got) # {} => Cardinality(older) > PageSize
<1>1. win \in SUBSET rows /\ win \in SUBSET Nat /\ Min(win) \in win
      /\ \A e \in win : Min(win) <= e
  <2>1. win \in SUBSET rows /\ win \in SUBSET Nat
    BY DEF Onto
  <2> QED BY <2>1, LeastOf
<1>2. older = rows \ win
  <2>1. Min(win) \in Nat /\ \A e \in win : e \in Nat
    BY <1>1
  <2>2. \A e \in win : ~(e < Min(win))
    BY <1>1, <2>1
  <2>3. \A m \in rows \ win : m < Min(win)
    BY <1>1 DEF Onto
  <2> QED BY <1>1, <2>2, <2>3
<1>3. older \in SUBSET Nat /\ IsFiniteSet(older) /\ Cardinality(older) \in Nat
      /\ PageSize \in Nat /\ PageSize > 0
  <2>1. older \in SUBSET rows
    OBVIOUS
  <2>2. IsFiniteSet(older)
    BY <2>1, FS_Subset
  <2>3. PageSize \in Nat /\ PageSize > 0
    BY WindowAssumption
  <2> QED BY <2>1, <2>2, <2>3, FS_CardinalityType
<1>4. /\ got \in SUBSET older /\ IsFiniteSet(got)
      /\ \A m \in older \ got, k \in got : m < k
      /\ Cardinality(got) = IF PageSize <= Cardinality(older) THEN PageSize ELSE Cardinality(older)
      /\ Cardinality(older) <= PageSize => got = older
  BY <1>3, NewestAre
<1>5. Cardinality(got) \in Nat
  BY <1>4, FS_CardinalityType
<1>6. got = {} => older = {}
  <2>1. got = {} => Cardinality(got) = 0
    BY FS_EmptySet
  <2>2. Cardinality(older) = 0 => older = {}
    BY <1>3, FS_EmptySet
  <2> QED BY <1>3, <1>4, <2>1, <2>2
<1>7. Cardinality(win \cup got) = Cardinality(win) + Cardinality(got)
  <2>1. IsFiniteSet(win) /\ win \cap got = {} /\ Cardinality(win) \in Nat
    BY <1>1, <1>2, <1>4, FS_Subset, FS_CardinalityType
  <2>2. Cardinality(win \cap got) = 0
    BY <2>1, FS_EmptySet
  <2>3. Cardinality(win \cup got) = Cardinality(win) + Cardinality(got) - 0
    BY <1>4, <2>1, <2>2, FS_Union
  <2> QED BY <1>5, <2>1, <2>3
<1>8. Cardinality(win) \in Nat /\ Cardinality(win) >= target
  BY <1>1, FS_Subset, FS_CardinalityType DEF Onto
<1>9. rows \ (win \cup got) = older \ got
  BY <1>2
<1>10. \A m \in older \ got, e \in win \cup got : m < e
  BY <1>2, <1>4 DEF Onto
<1>11. Cardinality(win \cup got) >= target + Cardinality(got)
  BY <1>5, <1>7, <1>8
<1>12. Onto(rows, win \cup got, TRUE, target + Cardinality(got), unsure)
  <2>1. win \cup got \in SUBSET rows /\ win \cup got # {}
    BY <1>1, <1>2, <1>4
  <2>2. \A m \in rows \ (win \cup got) : \A e \in win \cup got : m < e
    BY <1>9, <1>10
  <2> QED BY <1>11, <2>1, <2>2 DEF Onto
<1>13. got = {} => rows = win
  BY <1>1, <1>2, <1>6
<1>14. rows \ (win \cup got) # {} => Cardinality(older) > PageSize
  <2>1. rows \ (win \cup got) # {} => got # older
    BY <1>9
  <2> QED BY <1>3, <1>4, <2>1
<1> QED BY <1>5, <1>12, <1>13, <1>14

(* The steps.                                                              *)

(* What _ensure_channel_loaded leaves of a channel.                        *)
LEMMA LoadIsOnto ==
  ASSUME WindowTypes, Unloaded, WindowsAre, NEW c \in Chans, c # at \/ state[c].loaded,
         c = at => Copies
  PROVE  LET st == loadedState(c)
         IN  /\ c # at => Onto(OfChan(c), loadedEntries(c), st.older, st.target, raced)
             /\ c = at => Onto(OfChan(c), loadedEntries(c), mine.older, mine.target, raced)
<1>1. OfChan(c) = {m \in stored : ChanOf[m] = c}
  BY DEF OfChan
<1>2. CASE state[c].loaded
  BY <1>2 DEF WindowsAre, loadedState, loadedEntries, Older, TargetOf
<1>3. CASE ~state[c].loaded
  <2>1. /\ loadedEntries(c) = Newest(OfChan(c), Limit)
        /\ loadedState(c).older = (Cardinality(OfChan(c)) > Limit)
        /\ loadedState(c).target = Limit
    BY <1>1, <1>3 DEF loadedEntries, loadedState, recent, has_more, Bounded
  <2> QED BY <1>3, <2>1, RowsOfChan, RecentIsOnto
<1> QED BY <1>2, <1>3

LEMMA LoadTypes ==
  ASSUME WindowTypes, NEW c \in Chans
  PROVE  /\ loadedEntries(c) \in SUBSET Messages
         /\ loadedState(c) \in [older : BOOLEAN, target : Nat \ {0}, loaded : BOOLEAN]
         /\ loadedState(c).loaded
<1>1. CASE state[c].loaded
  BY <1>1 DEF WindowTypes, loadedState, loadedEntries
<1>2. CASE ~state[c].loaded
  <2>1. loadedEntries(c) \in SUBSET Messages
    BY <1>2 DEF WindowTypes, loadedEntries, recent, Newest
  <2>2. has_more(c) \in BOOLEAN
    BY DEF has_more
  <2> QED BY <1>2, <2>1, <2>2, WindowAssumption DEF loadedState, Bounded
<1> QED BY <1>1, <1>2

(* Steps that leave the windows alone.                                     *)
LEMMA WindowsStay ==
  ASSUME WindowInv, visible' \in BOOLEAN,
         UNCHANGED <<stored, entries, state, mine, at, page, raced, crossed>>
  PROVE  WindowInv'
<1>1. WindowTypes'
  BY DEF WindowInv, WindowTypes
<1>2. Copies' /\ Unloaded'
  BY DEF WindowInv, Copies, Unloaded
<1>3. WindowsAre => WindowsAre'
  BY DEF WindowsAre, OfChan, Older, TargetOf
<1>4. PageIs => PageIs'
  BY DEF PageIs, OfChan
<1> QED BY <1>1, <1>2, <1>3, <1>4 DEF WindowInv

LEMMA CapturedIs ==
  ASSUME WindowTypes, NEW b \in [older : BOOLEAN, target : Nat \ {0}]
  PROVE  /\ captured(state, b) \in [Chans -> [older : BOOLEAN, target : Nat \ {0}, loaded : BOOLEAN]]
         /\ captured(state, b)[at] = [older |-> b.older, target |-> b.target, loaded |-> TRUE]
         /\ \A c \in Chans \ {at} : captured(state, b)[c] = state[c]
BY DEF WindowTypes, captured

LEMMA MountedKeeps ==
  ASSUME WindowInv, PageMounted
  PROVE  WindowInv'
<1>1. WindowTypes /\ Unloaded /\ Copies /\ (crossed \/ (WindowsAre /\ PageIs))
  BY DEF WindowInv
<1>2. /\ page # NoPage /\ page' = NoPage
      /\ mine' = Bounds(page.older, mine.target) /\ state' = captured(state, mine')
      /\ UNCHANGED <<stored, entries, at, visible, raced, crossed>>
  BY DEF PageMounted
<1>3. mine' \in [older : BOOLEAN, target : Nat \ {0}] /\ mine'.older = page.older
      /\ mine'.target = mine.target
  BY <1>1, <1>2 DEF Bounds, WindowTypes
<1>4. /\ state' \in [Chans -> [older : BOOLEAN, target : Nat \ {0}, loaded : BOOLEAN]]
      /\ state'[at] = [older |-> mine'.older, target |-> mine'.target, loaded |-> TRUE]
      /\ \A c \in Chans \ {at} : state'[c] = state[c]
  BY <1>1, <1>2, <1>3, CapturedIs
<1>5. WindowTypes'
  BY <1>1, <1>2, <1>3, <1>4 DEF WindowTypes, NoPage
<1>6. Copies'
  BY <1>2, <1>4 DEF Copies
<1>7. Unloaded'
  BY <1>1, <1>2, <1>4 DEF Unloaded
<1>8. PageIs'
  BY <1>2 DEF PageIs
<1>9. ASSUME WindowsAre, PageIs PROVE WindowsAre'
  <2> SUFFICES ASSUME NEW c \in Chans, state'[c].loaded
               PROVE  Onto(OfChan(c)', entries'[c], Older(c)', TargetOf(c)', raced')
    BY DEF WindowsAre
  <2>1. OfChan(c)' = OfChan(c)
    BY <1>2 DEF OfChan
  <2>2. CASE c = at
    <3>1. Onto(OfChan(c), entries[c], mine.older, mine.target, raced) /\ mine.older
      BY <1>1, <1>2, <1>9, <2>2 DEF WindowsAre, Copies, Older, TargetOf, PageIs
    <3>2. raced \/ (OfChan(c) \ entries[c] # {} => page.older)
      BY <1>2, <1>9, <2>2 DEF PageIs
    <3>3. Onto(OfChan(c), entries[c], page.older, mine.target, raced)
      BY <3>1, <3>2 DEF Onto
    <3>4. Older(c)' = page.older /\ TargetOf(c)' = mine.target
      BY <1>2, <1>3, <2>2 DEF Older, TargetOf
    <3> QED BY <1>2, <2>1, <3>3, <3>4
  <2>3. CASE c # at
    <3>1. Older(c)' = Older(c) /\ TargetOf(c)' = TargetOf(c) /\ state[c].loaded
      BY <1>2, <1>4, <2>3 DEF Older, TargetOf
    <3> QED BY <1>2, <1>9, <2>1, <3>1 DEF WindowsAre
  <2> QED BY <2>2, <2>3
<1> QED BY <1>1, <1>2, <1>5, <1>6, <1>7, <1>8, <1>9 DEF WindowInv

LEMMA LoadOlderKeeps ==
  ASSUME WindowInv, LoadOlder
  PROVE  WindowInv'
<1>1. WindowTypes /\ Unloaded /\ Copies /\ (crossed \/ (WindowsAre /\ PageIs))
  BY DEF WindowInv
<1>2. PICK older, got, n, big :
        /\ older = Below(Oldest(entries[at]), at) /\ got = Newest(older, PageSize)
        /\ n = Cardinality(got) /\ big = (Cardinality(older) > PageSize)
  OBVIOUS
<1>3. /\ page = NoPage /\ mine.older /\ entries[at] # {}
      /\ \/ /\ got = {}
            /\ mine' = Bounds(FALSE, mine.target) /\ state' = captured(state, mine')
            /\ UNCHANGED <<entries, page>>
         \/ /\ got # {}
            /\ entries' = [entries EXCEPT ![at] = @ \cup got]
            /\ mine' = Bounds(mine.older, mine.target + n)
            /\ page' = [chan |-> at, older |-> big]
            /\ UNCHANGED state
      /\ UNCHANGED <<stored, at, visible, raced, crossed>>
  BY <1>2 DEF LoadOlder
<1>4. older = {m \in OfChan(at) : m < Min(entries[at])} /\ older \in SUBSET Messages
      /\ got \in SUBSET Messages
  BY <1>1, <1>2 DEF Below, OfChan, Oldest, WindowTypes, Newest
<1>5. at \in Chans /\ mine \in [older : BOOLEAN, target : Nat \ {0}] /\ big \in BOOLEAN
  BY <1>1, <1>2 DEF WindowTypes
<1>6. n \in Nat
  BY <1>2, <1>4, WindowAssumption, FS_Subset, FS_CardinalityType
<1>7. ASSUME WindowsAre
      PROVE  /\ Onto(OfChan(at), entries[at], TRUE, mine.target, raced)
             /\ Onto(OfChan(at), entries[at] \cup got, TRUE, mine.target + n, raced)
             /\ got = {} => OfChan(at) = entries[at]
             /\ OfChan(at) \ (entries[at] \cup got) # {} => big
  <2>1. Onto(OfChan(at), entries[at], TRUE, mine.target, raced)
    BY <1>1, <1>3, <1>5, <1>7 DEF WindowsAre, Copies, Older, TargetOf
  <2>2. OfChan(at) \in SUBSET Nat /\ IsFiniteSet(OfChan(at))
    BY <1>1, RowsOfChan
  <2>3. entries[at] # {} /\ mine.target \in Nat
    BY <1>3, <1>5
  <2>4. older = {m \in OfChan(at) : m < Min(entries[at])} /\ got = Newest(older, PageSize)
    BY <1>2, <1>4
  <2>5. /\ Onto(OfChan(at), entries[at] \cup got, TRUE, mine.target + Cardinality(got), raced)
        /\ got = {} => OfChan(at) = entries[at]
        /\ OfChan(at) \ (entries[at] \cup got) # {} => Cardinality(older) > PageSize
    BY <2>1, <2>2, <2>3, <2>4, PageIsOnto
  <2> QED BY <1>2, <2>1, <2>5
<1>8. CASE got = {}
  <2>0. /\ mine' = Bounds(FALSE, mine.target) /\ state' = captured(state, mine')
        /\ UNCHANGED <<entries, page, stored, at, visible, raced, crossed>>
    BY <1>3, <1>8
  <2>1. mine' \in [older : BOOLEAN, target : Nat \ {0}] /\ mine'.older = FALSE
        /\ mine'.target = mine.target
    BY <1>5, <2>0 DEF Bounds
  <2>2. /\ state' \in [Chans -> [older : BOOLEAN, target : Nat \ {0}, loaded : BOOLEAN]]
        /\ state'[at] = [older |-> mine'.older, target |-> mine'.target, loaded |-> TRUE]
        /\ \A c \in Chans \ {at} : state'[c] = state[c]
    BY <1>1, <2>0, <2>1, CapturedIs
  <2>3. WindowTypes'
    BY <1>1, <2>0, <2>1, <2>2 DEF WindowTypes
  <2>4. Copies' /\ Unloaded'
    <3>1. state'[at].loaded /\ state'[at].older = mine'.older /\ state'[at].target = mine'.target
      BY <2>2
    <3>2. Copies'
      BY <2>0, <3>1 DEF Copies
    <3>3. ASSUME NEW c \in Chans PROVE state'[c].loaded \/ entries'[c] = {}
      BY <1>1, <2>0, <2>2, <3>1, <3>3 DEF Unloaded
    <3> QED BY <3>2, <3>3 DEF Unloaded
  <2>5. PageIs'
    BY <1>3, <1>8 DEF PageIs
  <2>6. ASSUME WindowsAre PROVE WindowsAre'
    <3> SUFFICES ASSUME NEW c \in Chans, state'[c].loaded
                 PROVE  Onto(OfChan(c)', entries'[c], Older(c)', TargetOf(c)', raced')
      BY DEF WindowsAre
    <3>1. OfChan(c)' = OfChan(c) /\ entries' = entries /\ raced' = raced
      BY <1>3, <1>8 DEF OfChan
    <3>2. CASE c = at
      <4>1. OfChan(c) = entries[c]
        BY <1>7, <1>8, <2>6, <3>2
      <4>2. Onto(OfChan(c), entries[c], FALSE, mine.target, raced)
        BY <4>1 DEF Onto
      <4>3. Older(c)' = FALSE /\ TargetOf(c)' = mine.target
        BY <1>3, <2>1, <3>2 DEF Older, TargetOf
      <4> QED BY <3>1, <4>2, <4>3
    <3>3. CASE c # at
      <4>1. Older(c)' = Older(c) /\ TargetOf(c)' = TargetOf(c) /\ state[c].loaded
        BY <1>3, <2>2, <3>3 DEF Older, TargetOf
      <4> QED BY <2>6, <3>1, <4>1 DEF WindowsAre
    <3> QED BY <3>2, <3>3
  <2> QED BY <1>1, <1>3, <2>3, <2>4, <2>5, <2>6 DEF WindowInv
<1>9. CASE got # {}
  <2>1. /\ entries' = [entries EXCEPT ![at] = @ \cup got]
        /\ mine' = Bounds(mine.older, mine.target + n)
        /\ page' = [chan |-> at, older |-> big]
        /\ UNCHANGED <<state, stored, at, visible, raced, crossed>>
    BY <1>3, <1>9
  <2>2. mine' \in [older : BOOLEAN, target : Nat \ {0}] /\ mine'.older = TRUE
        /\ mine'.target = mine.target + n
    BY <1>3, <1>5, <1>6, <2>1 DEF Bounds
  <2>3. /\ entries' \in [Chans -> SUBSET Messages] /\ entries'[at] = entries[at] \cup got
        /\ \A c \in Chans \ {at} : entries'[c] = entries[c]
    BY <1>1, <1>4, <2>1 DEF WindowTypes
  <2>4. WindowTypes'
    BY <1>1, <1>5, <2>1, <2>2, <2>3 DEF WindowTypes
  <2>5. Copies'
    <3>1. state[at].target \in Nat /\ mine.target \in Nat /\ state[at].target <= mine.target
      BY <1>1 DEF Copies, WindowTypes
    <3>2. state[at].target <= mine.target + n
      BY <1>6, <3>1
    <3> QED BY <1>1, <1>3, <2>1, <2>2, <3>2 DEF Copies
  <2>6. Unloaded'
    BY <1>1, <2>1, <2>3 DEF Unloaded, Copies
  <2>7. ASSUME WindowsAre PROVE PageIs'
    <3>1. OfChan(at)' = OfChan(at) /\ at' = at
      BY <2>1 DEF OfChan
    <3>2. OfChan(at) \ entries'[at] # {} => big
      BY <1>7, <2>3, <2>7
    <3>3. page'.older = big
      BY <2>1
    <3> QED BY <2>1, <2>2, <3>1, <3>2, <3>3 DEF PageIs
  <2>8. ASSUME WindowsAre PROVE WindowsAre'
    <3> SUFFICES ASSUME NEW c \in Chans, state'[c].loaded
                 PROVE  Onto(OfChan(c)', entries'[c], Older(c)', TargetOf(c)', raced')
      BY DEF WindowsAre
    <3>1. OfChan(c)' = OfChan(c) /\ raced' = raced /\ at' = at /\ state' = state
      BY <2>1 DEF OfChan
    <3>2. CASE c = at
      <4>1. Older(c)' = TRUE /\ TargetOf(c)' = mine.target + n
        BY <2>2, <3>1, <3>2 DEF Older, TargetOf
      <4> QED BY <1>7, <2>3, <2>8, <3>1, <3>2, <4>1
    <3>3. CASE c # at
      <4>1. Older(c)' = Older(c) /\ TargetOf(c)' = TargetOf(c) /\ state[c].loaded
        BY <3>1, <3>3 DEF Older, TargetOf
      <4> QED BY <2>3, <2>8, <3>1, <3>3, <4>1 DEF WindowsAre
    <3> QED BY <3>2, <3>3
  <2> QED BY <1>1, <2>1, <2>4, <2>5, <2>6, <2>7, <2>8 DEF WindowInv
<1> QED BY <1>8, <1>9

LEMMA SwitchKeeps ==
  ASSUME WindowInv, NEW c \in Chans, SwitchChannel(c)
  PROVE  WindowInv'
<1>1. WindowTypes /\ Unloaded /\ Copies /\ (crossed \/ (WindowsAre /\ PageIs))
  BY DEF WindowInv
<1>2. /\ c # at /\ at' = c
      /\ entries' = [entries EXCEPT ![c] = loadedEntries(c)]
      /\ state' = [captured(state, mine) EXCEPT ![c] = loadedState(c)]
      /\ mine' = Bounds(loadedState(c).older, loadedState(c).target)
      /\ crossed' = (crossed \/ page # NoPage)
      /\ UNCHANGED <<stored, visible, page, raced>>
  BY DEF SwitchChannel
<1>3. mine \in [older : BOOLEAN, target : Nat \ {0}] /\ at \in Chans
  BY <1>1 DEF WindowTypes
<1>4. /\ loadedEntries(c) \in SUBSET Messages
      /\ loadedState(c) \in [older : BOOLEAN, target : Nat \ {0}, loaded : BOOLEAN]
      /\ loadedState(c).loaded
  BY <1>1, LoadTypes
<1>5. /\ state' \in [Chans -> [older : BOOLEAN, target : Nat \ {0}, loaded : BOOLEAN]]
      /\ state'[c] = loadedState(c)
      /\ state'[at] = [older |-> mine.older, target |-> mine.target, loaded |-> TRUE]
      /\ \A d \in Chans \ {at, c} : state'[d] = state[d]
  BY <1>1, <1>2, <1>3, <1>4, CapturedIs
<1>6. mine' \in [older : BOOLEAN, target : Nat \ {0}] /\ mine'.older = loadedState(c).older
      /\ mine'.target = loadedState(c).target
  BY <1>2, <1>4 DEF Bounds
<1>7. entries' \in [Chans -> SUBSET Messages] /\ entries'[c] = loadedEntries(c)
      /\ \A d \in Chans \ {c} : entries'[d] = entries[d]
  BY <1>1, <1>2, <1>4 DEF WindowTypes
<1>8. WindowTypes'
  <2>1. crossed' \in BOOLEAN
    BY <1>1, <1>2 DEF WindowTypes
  <2> QED BY <1>1, <1>2, <1>5, <1>6, <1>7, <2>1 DEF WindowTypes
<1>9. Copies'
  BY <1>2, <1>4, <1>5, <1>6 DEF Copies
<1>10. Unloaded'
  <2> SUFFICES ASSUME NEW d \in Chans PROVE state'[d].loaded \/ entries'[d] = {}
    BY DEF Unloaded
  <2>1. CASE d \in {at, c}
    BY <1>4, <1>5, <2>1
  <2>2. CASE d \notin {at, c}
    BY <1>1, <1>5, <1>7, <2>2 DEF Unloaded
  <2> QED BY <2>1, <2>2
<1>11. crossed' \/ PageIs'
  BY <1>2 DEF PageIs
<1>12. ASSUME WindowsAre PROVE WindowsAre'
  <2> SUFFICES ASSUME NEW d \in Chans, state'[d].loaded
               PROVE  Onto(OfChan(d)', entries'[d], Older(d)', TargetOf(d)', raced')
    BY DEF WindowsAre
  <2>1. OfChan(d)' = OfChan(d) /\ raced' = raced
    BY <1>2 DEF OfChan
  <2>2. CASE d = c
    <3>1. Onto(OfChan(c), loadedEntries(c), loadedState(c).older, loadedState(c).target, raced)
      BY <1>1, <1>2, <1>12, LoadIsOnto
    <3>2. Older(d)' = loadedState(c).older /\ TargetOf(d)' = loadedState(c).target
      BY <1>2, <1>6, <2>2 DEF Older, TargetOf
    <3> QED BY <1>7, <2>1, <2>2, <3>1, <3>2
  <2>3. CASE d = at
    <3>1. Onto(OfChan(d), entries[d], mine.older, mine.target, raced)
      BY <1>1, <1>12, <2>3 DEF WindowsAre, Copies, Older, TargetOf
    <3>2. Older(d)' = mine.older /\ TargetOf(d)' = mine.target
      BY <1>2, <1>5, <2>3 DEF Older, TargetOf
    <3> QED BY <1>2, <1>7, <2>1, <2>3, <3>1, <3>2
  <2>4. CASE d \notin {at, c}
    <3>1. Older(d)' = Older(d) /\ TargetOf(d)' = TargetOf(d) /\ state[d].loaded
      BY <1>2, <1>5, <2>4 DEF Older, TargetOf
    <3> QED BY <1>7, <1>12, <2>1, <2>4, <3>1 DEF WindowsAre
  <2> QED BY <2>2, <2>3, <2>4
<1> QED BY <1>1, <1>2, <1>8, <1>9, <1>10, <1>11, <1>12 DEF WindowInv

LEMMA ReceiveKeeps ==
  ASSUME WindowInv, NEW m \in Messages, Receive(m)
  PROVE  WindowInv'
<1>1. WindowTypes /\ Unloaded /\ Copies /\ (crossed \/ (WindowsAre /\ PageIs))
  BY DEF WindowInv
<1>2. PICK c, win, st, out, target, after, more :
        /\ c = ChanOf[m] /\ win = loadedEntries(c) /\ st = loadedState(c)
        /\ out = outside_window(m, win, st) /\ target = mine.target
        /\ after = IF out THEN win ELSE IF c = at THEN trimmed(win \cup {m}, target)
                   ELSE win \cup {m}
        /\ more = (mine.older \/ out \/ Cardinality(after) < Cardinality(win \cup {m}))
  OBVIOUS
<1>3. /\ m \notin stored /\ stored' = stored \cup {m}
      /\ entries' = [entries EXCEPT ![c] = after]
      /\ IF c = at
         THEN mine' = Bounds(more, target) /\ state' = captured(state, mine')
         ELSE state' = [state EXCEPT ![c] = [st EXCEPT !.older = @ \/ out]] /\ UNCHANGED mine
      /\ raced' = (raced \/ (page # NoPage /\ c = at /\ after # win \cup {m}))
      /\ UNCHANGED <<at, visible, page, crossed>>
  BY <1>2 DEF Receive
<1>4. /\ c \in Chans /\ m \in Nat /\ at \in Chans /\ mine \in [older : BOOLEAN, target : Nat \ {0}]
      /\ win \in SUBSET Messages /\ win \cup {m} \in SUBSET Nat /\ IsFiniteSet(win \cup {m})
      /\ st \in [older : BOOLEAN, target : Nat \ {0}, loaded : BOOLEAN] /\ st.loaded
      /\ out \in BOOLEAN /\ more \in BOOLEAN /\ target \in Nat \ {0}
  <2>1. c \in Chans /\ m \in Nat /\ at \in Chans /\ mine \in [older : BOOLEAN, target : Nat \ {0}]
    BY <1>1, <1>2, WindowAssumption DEF WindowTypes
  <2>2. win \in SUBSET Messages
        /\ st \in [older : BOOLEAN, target : Nat \ {0}, loaded : BOOLEAN] /\ st.loaded
    BY <1>1, <1>2, <2>1, LoadTypes
  <2>3. win \cup {m} \in SUBSET Messages
    BY <2>2
  <2>4. win \cup {m} \in SUBSET Nat /\ IsFiniteSet(win \cup {m})
    BY <2>3, WindowAssumption, FS_Subset
  <2>5. out \in BOOLEAN /\ more \in BOOLEAN
    BY <1>2 DEF outside_window
  <2>6. target \in Nat \ {0}
    BY <1>2, <2>1
  <2> QED BY <2>1, <2>2, <2>4, <2>5, <2>6
<1>5. after \in SUBSET (win \cup {m}) /\ after \in SUBSET Messages
  <2>1. trimmed(win \cup {m}, target) \in SUBSET (win \cup {m})
    <3> DEFINE set == win \cup {m}
    <3>1. set \in SUBSET Nat /\ IsFiniteSet(set) /\ target \in Nat
      BY <1>4
    <3> HIDE DEF set
    <3>2. trimmed(set, target) \in SUBSET set
      BY <3>1, TrimLeaves
    <3> QED BY <3>2 DEF set
  <2>2. after \in {win, trimmed(win \cup {m}, target), win \cup {m}}
    BY <1>2
  <2>3. win \cup {m} \in SUBSET Messages
    BY <1>4
  <2> QED BY <2>1, <2>2, <2>3
<1>6. /\ entries' \in [Chans -> SUBSET Messages] /\ entries'[c] = after
      /\ \A d \in Chans \ {c} : entries'[d] = entries[d]
  BY <1>1, <1>3, <1>4, <1>5 DEF WindowTypes
<1>7. /\ OfChan(c)' = OfChan(c) \cup {m} /\ m \notin OfChan(c)
      /\ \A d \in Chans \ {c} : OfChan(d)' = OfChan(d)
  BY <1>2, <1>3 DEF OfChan
<1>8. stored' \in SUBSET Messages /\ raced' \in BOOLEAN /\ (raced => raced')
  BY <1>1, <1>3 DEF WindowTypes
<1>9. /\ out <=> win # {} /\ m < Min(win) /\ (st.older \/ Cardinality(win) >= st.target)
  BY <1>2 DEF outside_window
<1>10. OfChan(c) \in SUBSET Nat /\ IsFiniteSet(OfChan(c))
       /\ OfChan(c) \cup {m} \in SUBSET Nat /\ IsFiniteSet(OfChan(c) \cup {m})
  <2>1. OfChan(c) \in SUBSET Nat /\ IsFiniteSet(OfChan(c))
    BY <1>1, RowsOfChan
  <2> QED BY <1>4, <2>1, FS_AddElement
(* The window of the message's channel, once it is loaded.                 *)
<1>11. c = at => /\ st = state[c] /\ win = entries[c] /\ st.older = mine.older
                 /\ st.target = target \/ (mine.older /\ st.target <= target)
  BY <1>1, <1>2 DEF Copies, loadedEntries, loadedState
<1>12. ASSUME WindowsAre
       PROVE  /\ c # at => Onto(OfChan(c), win, st.older, st.target, raced)
              /\ c = at => Onto(OfChan(c), win, mine.older, target, raced)
  <2>1. c # at \/ state[c].loaded
    BY <1>1 DEF Copies
  <2> QED BY <1>1, <1>2, <1>4, <1>12, <2>1, LoadIsOnto
<1>13. ASSUME WindowsAre
       PROVE  ~out => win = {} \/ Min(win) < m \/ (~st.older /\ Cardinality(win) < st.target)
  <2>1. win \in SUBSET OfChan(c)
    BY <1>12, <1>13 DEF Onto
  <2>2. m \notin win
    BY <1>7, <2>1
  <2>3. win \in SUBSET Nat /\ m \in Nat /\ IsFiniteSet(win)
    BY <1>4, <1>10, <2>1, FS_Subset
  <2>4. win # {} => Min(win) \in win
    BY <2>3, LeastOf
  <2>5. ASSUME win # {} PROVE Min(win) < m \/ m < Min(win)
    <3>1. Min(win) \in Nat /\ Min(win) # m
      BY <2>2, <2>3, <2>4, <2>5
    <3> QED BY <2>3, <3>1
  <2>6. Cardinality(win) \in Nat /\ st.target \in Nat /\ st.older \in BOOLEAN
    BY <1>4, <2>3, FS_CardinalityType
  <2> QED BY <1>9, <2>5, <2>6
<1>14. CASE c = at
  <2>1. /\ mine' = Bounds(more, target) /\ state' = captured(state, mine')
        /\ UNCHANGED <<at, visible, page, crossed>>
    BY <1>3, <1>14
  <2>2. mine' \in [older : BOOLEAN, target : Nat \ {0}] /\ mine'.older = more
        /\ mine'.target = target
    BY <1>4, <2>1 DEF Bounds
  <2>3. /\ state' \in [Chans -> [older : BOOLEAN, target : Nat \ {0}, loaded : BOOLEAN]]
        /\ state'[at] = [older |-> mine'.older, target |-> mine'.target, loaded |-> TRUE]
        /\ \A d \in Chans \ {at} : state'[d] = state[d]
    BY <1>1, <2>1, <2>2, CapturedIs
  <2>4. WindowTypes'
    BY <1>1, <1>6, <1>8, <2>1, <2>2, <2>3 DEF WindowTypes
  <2>5. Copies'
    BY <2>1, <2>3 DEF Copies
  <2>6. ASSUME NEW d \in Chans PROVE state'[d].loaded \/ entries'[d] = {}
    BY <1>1, <1>6, <1>14, <2>3 DEF Unloaded
  <2>7. ASSUME WindowsAre PROVE Onto(OfChan(c) \cup {m}, after, more, target, raced)
    <3>1. Onto(OfChan(c), win, mine.older, target, raced)
      BY <1>12, <1>14, <2>7
    <3>2. CASE out
      <4>1. win # {} /\ m < Min(win) /\ (mine.older \/ Cardinality(win) >= target)
        BY <1>9, <1>11, <1>14, <3>2
      <4>2. Onto(OfChan(c) \cup {m}, win, TRUE, target, raced)
        BY <1>4, <1>10, <3>1, <4>1, OutsideIsOnto
      <4> QED BY <1>2, <3>2, <4>2
    <3>3. CASE ~out
      <4>1. win = {} \/ Min(win) < m \/ (~mine.older /\ Cardinality(win) < target)
        BY <1>11, <1>13, <1>14, <2>7, <3>3
      <4>2. mine.older \in BOOLEAN /\ target \in Nat /\ m \in Nat \ OfChan(c)
        BY <1>4, <1>7
      <4>3. Onto(OfChan(c) \cup {m}, win \cup {m}, mine.older, target, raced)
        BY <1>10, <3>1, <4>1, <4>2, InsideIsOnto
      <4> DEFINE rows == OfChan(c) \cup {m}
                 set == win \cup {m}
      <4>4. rows \in SUBSET Nat /\ IsFiniteSet(rows) /\ target \in Nat \ {0}
            /\ Onto(rows, set, mine.older, target, raced)
        BY <1>4, <1>10, <4>3
      <4> HIDE DEF rows, set
      <4>5. Onto(rows, trimmed(set, target),
                 mine.older \/ Cardinality(trimmed(set, target)) < Cardinality(set), target, raced)
        BY <4>2, <4>4, TrimIsOnto
      <4>6. after = trimmed(set, target)
            /\ more = (mine.older \/ Cardinality(after) < Cardinality(set))
        BY <1>2, <1>14, <3>3 DEF set
      <4> QED BY <4>5, <4>6 DEF rows
    <3> QED BY <3>2, <3>3
  <2>8. ASSUME WindowsAre PROVE WindowsAre'
    <3> SUFFICES ASSUME NEW d \in Chans, state'[d].loaded
                 PROVE  Onto(OfChan(d)', entries'[d], Older(d)', TargetOf(d)', raced')
      BY DEF WindowsAre
    <3>1. CASE d = c
      <4>1. Older(d)' = more /\ TargetOf(d)' = target
        BY <1>14, <2>1, <2>2, <3>1 DEF Older, TargetOf
      <4>2. Onto(OfChan(c) \cup {m}, after, more, target, raced')
        BY <1>8, <2>7, <2>8 DEF Onto
      <4> QED BY <1>6, <1>7, <3>1, <4>1, <4>2
    <3>2. CASE d # c
      <4>1. Older(d)' = Older(d) /\ TargetOf(d)' = TargetOf(d) /\ state[d].loaded
        BY <1>14, <2>1, <2>3, <3>2 DEF Older, TargetOf
      <4>2. Onto(OfChan(d), entries[d], Older(d), TargetOf(d), raced)
        BY <2>8, <4>1 DEF WindowsAre
      <4>3. Onto(OfChan(d), entries[d], Older(d), TargetOf(d), raced')
        BY <1>8, <4>2 DEF Onto
      <4> QED BY <1>6, <1>7, <3>2, <4>1, <4>3
    <3> QED BY <3>1, <3>2
  <2>9. ASSUME WindowsAre, PageIs PROVE PageIs'
    <3> SUFFICES ASSUME page # NoPage
                 PROVE  /\ mine'.older
                        /\ raced' \/ (OfChan(c)' \ entries'[c] # {} => page.older)
      BY <1>14, <2>1 DEF PageIs
    <3>1. mine.older /\ (raced \/ (OfChan(c) \ entries[c] # {} => page.older))
      BY <1>14, <2>9 DEF PageIs
    <3>2. more
      BY <1>2, <3>1
    <3>3. ASSUME ~raced' PROVE OfChan(c)' \ entries'[c] # {} => page.older
      <4>1. after = win \cup {m} /\ win = entries[c]
        BY <1>3, <1>11, <1>14, <3>3
      <4>2. OfChan(c)' = OfChan(c) \cup {m} /\ entries'[c] = entries[c] \cup {m}
        BY <1>6, <1>7, <4>1
      <4> QED BY <1>8, <3>1, <3>3, <4>2
    <3> QED BY <2>2, <3>2, <3>3
  <2> QED BY <1>1, <2>1, <2>4, <2>5, <2>6, <2>8, <2>9 DEF WindowInv, Unloaded
<1>15. CASE c # at
  <2>1. /\ state' = [state EXCEPT ![c] = [st EXCEPT !.older = @ \/ out]] /\ mine' = mine
        /\ UNCHANGED <<at, visible, page, crossed>> /\ raced' = raced
    BY <1>1, <1>3, <1>15 DEF WindowTypes
  <2>2. /\ state' \in [Chans -> [older : BOOLEAN, target : Nat \ {0}, loaded : BOOLEAN]]
        /\ state'[c].older = (st.older \/ out) /\ state'[c].target = st.target
        /\ state'[c].loaded
        /\ \A d \in Chans \ {c} : state'[d] = state[d]
    BY <1>1, <1>4, <2>1 DEF WindowTypes
  <2>3. WindowTypes'
    BY <1>1, <1>6, <1>8, <2>1, <2>2 DEF WindowTypes
  <2>4. Copies'
    BY <1>1, <1>4, <1>15, <2>1, <2>2 DEF Copies
  <2>5. ASSUME NEW d \in Chans PROVE state'[d].loaded \/ entries'[d] = {}
    BY <1>1, <1>6, <2>2 DEF Unloaded
  <2>6. ASSUME WindowsAre
        PROVE  Onto(OfChan(c) \cup {m}, after, st.older \/ out, st.target, raced)
    <3>1. Onto(OfChan(c), win, st.older, st.target, raced) /\ st.target \in Nat
          /\ st.older \in BOOLEAN
      BY <1>4, <1>12, <1>15, <2>6
    <3>2. CASE out
      <4>1. win # {} /\ m < Min(win) /\ (st.older \/ Cardinality(win) >= st.target)
        BY <1>9, <3>2
      <4>2. Onto(OfChan(c) \cup {m}, win, TRUE, st.target, raced)
        BY <1>4, <1>10, <3>1, <4>1, OutsideIsOnto
      <4> QED BY <1>2, <3>2, <4>2
    <3>3. CASE ~out
      <4>1. win = {} \/ Min(win) < m \/ (~st.older /\ Cardinality(win) < st.target)
        BY <1>13, <2>6, <3>3
      <4>2. m \in Nat \ OfChan(c)
        BY <1>4, <1>7
      <4>3. Onto(OfChan(c) \cup {m}, win \cup {m}, st.older, st.target, raced)
        BY <1>10, <3>1, <4>1, <4>2, InsideIsOnto
      <4>4. after = win \cup {m} /\ (st.older \/ out) = st.older
        BY <1>2, <1>15, <3>1, <3>3
      <4> QED BY <4>3, <4>4
    <3> QED BY <3>2, <3>3
  <2>7. ASSUME WindowsAre PROVE WindowsAre'
    <3> SUFFICES ASSUME NEW d \in Chans, state'[d].loaded
                 PROVE  Onto(OfChan(d)', entries'[d], Older(d)', TargetOf(d)', raced')
      BY DEF WindowsAre
    <3>1. CASE d = c
      <4>1. Older(d)' = (st.older \/ out) /\ TargetOf(d)' = st.target
        BY <1>15, <2>1, <2>2, <3>1 DEF Older, TargetOf
      <4> QED BY <1>6, <1>7, <2>1, <2>6, <2>7, <3>1, <4>1
    <3>2. CASE d # c
      <4>1. Older(d)' = Older(d) /\ TargetOf(d)' = TargetOf(d) /\ state[d].loaded
        BY <2>1, <2>2, <3>2 DEF Older, TargetOf
      <4> QED BY <1>6, <1>7, <2>1, <2>7, <3>2, <4>1 DEF WindowsAre
    <3> QED BY <3>1, <3>2
  <2>8. ASSUME PageIs PROVE PageIs'
    <3>1. PICK b \in Chans \ {c} : b = at
      BY <1>4, <1>15
    <3>2. OfChan(b)' = OfChan(b) /\ entries'[b] = entries[b] /\ at' = b
      BY <1>6, <1>7, <2>1, <3>1
    <3> QED BY <2>1, <2>8, <3>1, <3>2 DEF PageIs
  <2> QED BY <1>1, <2>1, <2>3, <2>4, <2>5, <2>7, <2>8 DEF WindowInv, Unloaded
<1> QED BY <1>14, <1>15

(* A window of the first channel alone, as at the start and on a reconnect.*)
FirstLoaded ==
  /\ WindowTypes /\ at = FirstChan /\ mine = Bounds(has_more(FirstChan), Limit)
  /\ entries = [c \in Chans |-> IF c = FirstChan THEN recent(c) ELSE {}]
  /\ state = [c \in Chans |-> IF c = FirstChan THEN Bounded(has_more(c), TRUE)
                             ELSE Bounded(FALSE, FALSE)]

LEMMA FirstIsOnto == FirstLoaded => Copies /\ Unloaded /\ WindowsAre
<1> SUFFICES ASSUME FirstLoaded PROVE Copies /\ Unloaded /\ WindowsAre
  OBVIOUS
<1>0. /\ WindowTypes /\ at = FirstChan /\ mine = Bounds(has_more(FirstChan), Limit)
      /\ entries = [c \in Chans |-> IF c = FirstChan THEN recent(c) ELSE {}]
      /\ state = [c \in Chans |-> IF c = FirstChan THEN Bounded(has_more(c), TRUE)
                                 ELSE Bounded(FALSE, FALSE)]
  BY DEF FirstLoaded
<1>1. at \in Chans /\ has_more(at) \in BOOLEAN
  BY <1>0 DEF WindowTypes, has_more
<1>2. /\ state[at] = Bounded(has_more(at), TRUE) /\ entries[at] = recent(at)
      /\ \A c \in Chans \ {at} : state[c] = Bounded(FALSE, FALSE) /\ entries[c] = {}
  BY <1>0, <1>1
<1>3. Copies /\ Unloaded
  BY <1>0, <1>1, <1>2 DEF Copies, Unloaded, Bounds, Bounded
<1>4. WindowsAre
  <2> SUFFICES ASSUME NEW c \in Chans, state[c].loaded
               PROVE  Onto(OfChan(c), entries[c], Older(c), TargetOf(c), raced)
    BY DEF WindowsAre
  <2>1. c = at
    BY <1>2 DEF Bounded
  <2>2. /\ entries[c] = Newest(OfChan(c), Limit) /\ Older(c) = (Cardinality(OfChan(c)) > Limit)
        /\ TargetOf(c) = Limit
    BY <1>0, <1>2, <2>1 DEF recent, has_more, OfChan, Older, TargetOf, Bounds
  <2> QED BY <1>0, <2>2, RowsOfChan, RecentIsOnto
<1> QED BY <1>3, <1>4

LEMMA FirstTypes ==
  ASSUME stored \in SUBSET Messages
  PROVE  /\ FirstChan \in Chans /\ has_more(FirstChan) \in BOOLEAN
         /\ Bounds(has_more(FirstChan), Limit) \in [older : BOOLEAN, target : Nat \ {0}]
         /\ [c \in Chans |-> IF c = FirstChan THEN recent(c) ELSE {}]
               \in [Chans -> SUBSET Messages]
         /\ [c \in Chans |-> IF c = FirstChan THEN Bounded(has_more(c), TRUE)
                             ELSE Bounded(FALSE, FALSE)]
               \in [Chans -> [older : BOOLEAN, target : Nat \ {0}, loaded : BOOLEAN]]
<1>1. FirstChan \in Chans
  BY WindowAssumption DEF FirstChan
<1>2. \A c \in Chans : recent(c) \in SUBSET Messages /\ has_more(c) \in BOOLEAN
  BY DEF recent, Newest, has_more
<1> QED BY <1>1, <1>2, WindowAssumption DEF Bounds, Bounded

LEMMA ReloadKeeps ==
  ASSUME WindowInv, Reload
  PROVE  WindowInv'
<1>1. /\ at' = FirstChan /\ mine' = Bounds(has_more(FirstChan), Limit)
      /\ entries' = [c \in Chans |-> IF c = FirstChan THEN recent(c) ELSE {}]
      /\ state' = [c \in Chans |-> IF c = FirstChan THEN Bounded(has_more(c), TRUE)
                                   ELSE Bounded(FALSE, FALSE)]
      /\ crossed' = (crossed \/ page # NoPage)
      /\ UNCHANGED <<stored, visible, page, raced>>
  BY DEF Reload
<1>2. WindowTypes
  BY DEF WindowInv
<1>3. stored \in SUBSET Messages
  BY <1>2 DEF WindowTypes
<1>4. /\ mine' \in [older : BOOLEAN, target : Nat \ {0}] /\ at' \in Chans
      /\ entries' \in [Chans -> SUBSET Messages]
      /\ state' \in [Chans -> [older : BOOLEAN, target : Nat \ {0}, loaded : BOOLEAN]]
  BY <1>1, <1>3, FirstTypes
<1>5. WindowTypes'
  <2>1. crossed' \in BOOLEAN
    BY <1>1, <1>2 DEF WindowTypes
  <2> QED BY <1>1, <1>2, <1>4, <2>1 DEF WindowTypes
<1>6. \A c : recent(c)' = recent(c) /\ has_more(c)' = has_more(c)
  BY <1>1 DEF recent, has_more
<1>7. /\ mine' = Bounds(has_more(FirstChan)', Limit)
      /\ entries' = [c \in Chans |-> IF c = FirstChan THEN recent(c)' ELSE {}]
      /\ state' = [c \in Chans |-> IF c = FirstChan THEN Bounded(has_more(c)', TRUE)
                                   ELSE Bounded(FALSE, FALSE)]
  BY <1>1, <1>6
<1>8. Copies' /\ Unloaded' /\ WindowsAre'
  <2>1. FirstLoaded'
    BY <1>1, <1>5, <1>7 DEF FirstLoaded
  <2>2. FirstLoaded' => (Copies /\ Unloaded /\ WindowsAre)'
    BY FirstIsOnto, PTL
  <2> QED BY <2>1, <2>2
<1>9. crossed' \/ PageIs'
  BY <1>1 DEF PageIs
<1> QED BY <1>5, <1>8, <1>9 DEF WindowInv

LEMMA WindowInitHolds == WindowInit => WindowInv
<1> SUFFICES ASSUME WindowInit PROVE WindowInv
  OBVIOUS
<1>1. /\ at = FirstChan /\ stored \in SUBSET Messages /\ page = NoPage
      /\ mine = Bounds(has_more(FirstChan), Limit)
      /\ {visible, raced, crossed} \subseteq BOOLEAN
  BY DEF WindowInit
<1>2. entries = [c \in Chans |-> IF c = FirstChan THEN recent(c) ELSE {}]
  BY <1>1 DEF WindowInit
<1>3. state = [c \in Chans |-> IF c = FirstChan THEN Bounded(has_more(c), TRUE)
                              ELSE Bounded(FALSE, FALSE)]
  <2>1. \A c \in Chans : Bounded(c = at /\ has_more(c), c = at)
                          = IF c = FirstChan THEN Bounded(has_more(c), TRUE)
                            ELSE Bounded(FALSE, FALSE)
    <3> SUFFICES ASSUME NEW c \in Chans
                 PROVE  Bounded(c = at /\ has_more(c), c = at)
                          = IF c = FirstChan THEN Bounded(has_more(c), TRUE)
                            ELSE Bounded(FALSE, FALSE)
      OBVIOUS
    <3>1. CASE c = at
      <4>1. (c = at /\ has_more(c)) = has_more(c) /\ (c = at) = TRUE
        BY <3>1 DEF has_more
      <4> QED BY <1>1, <3>1, <4>1
    <3>2. CASE c # at
      <4>1. (c = at /\ has_more(c)) = FALSE /\ (c = at) = FALSE
        BY <3>2
      <4> QED BY <1>1, <3>2, <4>1
    <3> QED BY <3>1, <3>2
  <2> QED BY <2>1 DEF WindowInit
<1>4. WindowTypes
  <2>1. page \in [chan : Chans \cup {0}, older : BOOLEAN]
    BY <1>1 DEF NoPage
  <2> QED BY <1>1, <1>2, <1>3, <2>1, FirstTypes DEF WindowTypes
<1>5. PageIs
  BY <1>1 DEF PageIs
<1> QED BY <1>1, <1>2, <1>3, <1>4, <1>5, FirstIsOnto DEF WindowInv, FirstLoaded

LEMMA WindowStepHolds == WindowInv /\ [WindowNext]_windowVars => WindowInv'
<1> SUFFICES ASSUME WindowInv, [WindowNext]_windowVars PROVE WindowInv'
  OBVIOUS
<1>1. visible \in BOOLEAN
  BY DEF WindowInv, WindowTypes
<1>2. CASE \E m \in Messages : Receive(m)
  BY <1>2, ReceiveKeeps
<1>3. CASE \E m \in Messages : SelectMessage(m)
  <2>1. UNCHANGED <<stored, entries, state, mine, at, visible, page, raced, crossed>>
    BY <1>3 DEF SelectMessage
  <2> QED BY <1>1, <2>1, WindowsStay
<1>4. CASE LoadOlder
  BY <1>4, LoadOlderKeeps
<1>5. CASE PageMounted
  BY <1>5, MountedKeeps
<1>6. CASE LeaveChat
  <2>1. UNCHANGED <<stored, entries, state, mine, at, page, raced, crossed>> /\ visible' = FALSE
    BY <1>6 DEF LeaveChat
  <2> QED BY <2>1, WindowsStay
<1>7. CASE EnterChat
  <2>1. UNCHANGED <<stored, entries, state, mine, at, page, raced, crossed>> /\ visible' = TRUE
    BY <1>7 DEF EnterChat
  <2> QED BY <2>1, WindowsStay
<1>8. CASE \E c \in Chans : SwitchChannel(c)
  BY <1>8, SwitchKeeps
<1>9. CASE TranscriptMounted
  <2>1. UNCHANGED <<stored, entries, state, mine, at, visible, page, raced, crossed>>
    BY <1>9 DEF TranscriptMounted
  <2> QED BY <1>1, <2>1, WindowsStay
<1>10. CASE Reload
  BY <1>10, ReloadKeeps
<1>11. CASE UNCHANGED windowVars
  <2>1. UNCHANGED <<stored, entries, state, mine, at, visible, page, raced, crossed>>
    BY <1>11 DEF windowVars
  <2> QED BY <1>1, <2>1, WindowsStay
<1> QED BY <1>2, <1>3, <1>4, <1>5, <1>6, <1>7, <1>8, <1>9, <1>10, <1>11 DEF WindowNext

LEMMA OntoHidesNothing == WindowInv => NothingIsHidden
<1> SUFFICES ASSUME WindowInv, NEW c \in Chans, state[c].loaded, ~crossed
             PROVE  /\ \A m \in Rest(c) : entries[c] # {} /\ m < Min(entries[c])
                    /\ ~raced /\ Rest(c) # {} => Older(c)
  BY DEF NothingIsHidden
<1>1. Onto(OfChan(c), entries[c], Older(c), TargetOf(c), raced)
  BY DEF WindowInv, WindowsAre
<1>2. Rest(c) = OfChan(c) \ entries[c]
  BY DEF Rest, OfChan
<1>3. entries[c] \in SUBSET Nat
  BY WindowAssumption DEF WindowInv, WindowTypes
<1>4. ASSUME NEW m \in Rest(c) PROVE entries[c] # {} /\ m < Min(entries[c])
  <2>1. entries[c] # {} /\ \A e \in entries[c] : m < e
    BY <1>1, <1>2 DEF Onto
  <2> QED BY <1>3, <2>1, LeastOf
<1> QED BY <1>1, <1>2, <1>4 DEF Onto

(* However many messages come, in whatever order they are dated, and       *)
(* whatever is loaded, trimmed and paged: a window has every row from its  *)
(* oldest on, and LOAD OLDER is offered while there are rows before it     *)
(* (_accept_received_message, load_older_chat_history, _switch_channel,    *)
(* _reload_active_profile_view).                                           *)
THEOREM WindowHidesNothing == WindowSpec => []NothingIsHidden
<1>1. WindowSpec => []WindowInv
  BY WindowInitHolds, WindowStepHolds, PTL DEF WindowSpec
<1> QED BY <1>1, OntoHidesNothing, PTL

(* The counters.  Windows have messages of their channel; what was not     *)
(* seen is marked unread, and what is marked is new and stored; a channel  *)
(* that is not loaded has no marks; and a channel that is shown has        *)
(* nothing unseen.  Then in any other window what is marked is unseen.     *)
Watched == visible /\ mounting = 0
EntriesOwn == \A c \in Chans : \A m \in entries[c] : ChanOf[m] = c
OfUnseen(c) == {m \in unseen : ChanOf[m] = c}
CountInv ==
  /\ count \in [Chans -> Nat] /\ mounting \in Nat
  /\ unseen \subseteq unread /\ unread \subseteq fresh /\ unread \subseteq stored
  /\ EntriesOwn
  /\ \A m \in unread : state[ChanOf[m]].loaded
  /\ Watched => \A m \in unseen : ChanOf[m] # at
  /\ ~mixed => \A c \in Chans : (Watched /\ c = at) \/ entries[c] \cap unread \subseteq unseen
  /\ ~mixed => \A c \in Chans : count[c] = Cardinality(OfUnseen(c))

LEMMA UnseenIsFinite ==
  ASSUME WindowInv, CountInv, NEW c
  PROVE  IsFiniteSet(OfUnseen(c)) /\ OfUnseen(c) \subseteq Messages
<1>1. OfUnseen(c) \in SUBSET Messages
  BY DEF WindowInv, WindowTypes, CountInv, OfUnseen
<1> QED BY <1>1, WindowAssumption, FS_Subset

(* What the app captures leaves no channel unloaded.                       *)
LEMMA CapturedLoads ==
  ASSUME WindowTypes, at \in Chans, NEW b \in [older : BOOLEAN, target : Nat \ {0}]
  PROVE  /\ captured(state, b) \in [Chans -> [older : BOOLEAN, target : Nat \ {0}, loaded : BOOLEAN]]
         /\ captured(state, b)[at].loaded
         /\ \A d \in Chans \ {at} : captured(state, b)[d] = state[d]
         /\ \A d \in Chans : state[d].loaded => captured(state, b)[d].loaded
<1>1. /\ captured(state, b) \in [Chans -> [older : BOOLEAN, target : Nat \ {0}, loaded : BOOLEAN]]
      /\ captured(state, b)[at] = [older |-> b.older, target |-> b.target, loaded |-> TRUE]
      /\ \A d \in Chans \ {at} : captured(state, b)[d] = state[d]
  BY CapturedIs
<1>2. captured(state, b)[at].loaded
  BY <1>1
<1>3. ASSUME NEW d \in Chans, state[d].loaded PROVE captured(state, b)[d].loaded
  <2>1. CASE d = at
    BY <1>2, <2>1
  <2>2. CASE d # at
    BY <1>1, <1>3, <2>2
  <2> QED BY <2>1, <2>2
<1> QED BY <1>1, <1>2, <1>3

(* What is read in the window of the current channel.                      *)
LEMMA ReadCounts ==
  ASSUME WindowInv, CountInv, NEW set \in SUBSET entries[at], Read(set)
  PROVE  /\ count' \in [Chans -> Nat]
         /\ unseen' \subseteq unread' /\ unread' \subseteq fresh' /\ unread' \subseteq stored
         /\ unread' = unread \ set /\ unseen' = unseen \ set
         /\ ~mixed => \A c \in Chans : count'[c] = Cardinality(OfUnseen(c)')
<1>1. at \in Chans /\ set \in SUBSET Messages /\ count \in [Chans -> Nat]
      /\ \A m \in set : ChanOf[m] = at
  BY DEF WindowInv, WindowTypes, CountInv, EntriesOwn
<1>2. PICK n \in Nat : n = Cardinality(set \cap unread)
  <2>1. IsFiniteSet(set \cap unread)
    BY <1>1, WindowAssumption, FS_Subset
  <2> QED BY <2>1, FS_CardinalityType
<1>3. /\ fresh' = fresh \ set /\ unread' = unread \ set /\ unseen' = unseen \ set
      /\ count' = [count EXCEPT ![at] = IF @ > n THEN @ - n ELSE 0]
  BY <1>2 DEF Read
<1>4. count' \in [Chans -> Nat]
  BY <1>1, <1>3
<1>5. ASSUME ~mixed, NEW c \in Chans PROVE count'[c] = Cardinality(OfUnseen(c)')
  <2>1. count[c] = Cardinality(OfUnseen(c))
    BY <1>5 DEF CountInv
  <2>2. CASE c # at
    <3>1. OfUnseen(c)' = OfUnseen(c)
      BY <1>1, <1>3, <2>2 DEF OfUnseen
    <3> QED BY <1>1, <1>3, <2>1, <2>2, <3>1
  <2>3. CASE c = at /\ Watched
    <3>1. OfUnseen(c) = {} /\ OfUnseen(c)' = {}
      BY <1>3, <2>3 DEF CountInv, OfUnseen
    <3>2. count[at] = 0
      BY <2>1, <2>3, <3>1, FS_EmptySet
    <3>3. count'[at] = 0
      BY <1>1, <1>3, <3>2
    <3> QED BY <2>3, <3>1, <3>3, FS_EmptySet
  <2>4. CASE c = at /\ ~Watched
    <3>1. set \cap unread = set \cap OfUnseen(c)
      BY <1>1, <1>5, <2>4 DEF CountInv, OfUnseen
    <3>2. OfUnseen(c)' = OfUnseen(c) \ set
      BY <1>3 DEF OfUnseen
    <3>3. /\ Cardinality(OfUnseen(c) \ set)
             = Cardinality(OfUnseen(c)) - Cardinality(OfUnseen(c) \cap set)
          /\ Cardinality(OfUnseen(c)) \in Nat /\ Cardinality(OfUnseen(c) \ set) \in Nat
      BY UnseenIsFinite, FS_Difference, FS_CardinalityType
    <3>4. OfUnseen(c) \cap set = set \cap unread
      BY <3>1
    <3>5. Cardinality(OfUnseen(c)') = count[c] - n /\ count[c] >= n
      BY <1>2, <2>1, <3>2, <3>3, <3>4
    <3> QED BY <1>1, <1>2, <1>3, <2>4, <3>5
  <2> QED BY <2>2, <2>3, <2>4
<1> QED BY <1>3, <1>4, <1>5 DEF CountInv

(* _mark_unread_messages_viewed of the current channel.                    *)
LEMMA ViewedCounts ==
  ASSUME WindowInv, CountInv, mark_viewed(at, entries[at]), visible' \in BOOLEAN,
         mounting' \in Nat,
         UNCHANGED <<stored, entries, state, at, fresh, mixed>>
  PROVE  CountInv'
<1>1. at \in Chans /\ count \in [Chans -> Nat] /\ EntriesOwn
  BY DEF WindowInv, WindowTypes, CountInv
<1>2. /\ unread' = unread \ entries[at] /\ count' = [count EXCEPT ![at] = 0]
      /\ unseen' = {m \in unseen : ChanOf[m] # at}
  BY DEF mark_viewed
<1>3. count' \in [Chans -> Nat] /\ EntriesOwn'
  BY <1>1, <1>2 DEF EntriesOwn
<1>4. unseen' \subseteq unread' /\ unread' \subseteq fresh' /\ unread' \subseteq stored'
  BY <1>1, <1>2 DEF CountInv, EntriesOwn
<1>5. \A m \in unread' : state'[ChanOf[m]].loaded
  BY <1>2 DEF CountInv
<1>6. Watched' => \A m \in unseen' : ChanOf[m] # at'
  BY <1>2
<1>7. ASSUME ~mixed', NEW c \in Chans
      PROVE  (Watched' /\ c = at') \/ entries'[c] \cap unread' \subseteq unseen'
  <2>1. CASE c = at
    BY <1>2, <2>1
  <2>2. CASE c # at
    BY <1>1, <1>2, <1>7, <2>2 DEF CountInv, EntriesOwn
  <2> QED BY <2>1, <2>2
<1>8. ASSUME ~mixed', NEW c \in Chans PROVE count'[c] = Cardinality(OfUnseen(c)')
  <2>1. count[c] = Cardinality(OfUnseen(c))
    BY <1>8 DEF CountInv
  <2>2. CASE c = at
    <3>1. OfUnseen(c)' = {}
      BY <1>2, <2>2 DEF OfUnseen
    <3> QED BY <1>1, <1>2, <2>2, <3>1, FS_EmptySet
  <2>3. CASE c # at
    <3>1. OfUnseen(c)' = OfUnseen(c)
      BY <1>2, <2>3 DEF OfUnseen
    <3> QED BY <1>1, <1>2, <2>1, <2>3, <3>1
  <2> QED BY <2>2, <2>3
<1> QED BY <1>3, <1>4, <1>5, <1>6, <1>7, <1>8 DEF CountInv

(* Steps that read nothing, and leave every window or add to none.         *)
LEMMA CountStays ==
  ASSUME CountInv, mounting' \in Nat, mixed => mixed',
         UNCHANGED <<stored, entries, at, fresh, unread, unseen, count>>,
         \A c \in Chans : state[c].loaded => state'[c].loaded,
         \A m \in unread : ChanOf[m] \in Chans,
         Watched' = Watched
  PROVE  CountInv'
<1>1. EntriesOwn' /\ \A c : OfUnseen(c)' = OfUnseen(c)
  BY DEF CountInv, EntriesOwn, OfUnseen
<1>2. \A m \in unread' : state'[ChanOf[m]].loaded
  BY DEF CountInv
<1>3. Watched' => \A m \in unseen' : ChanOf[m] # at'
  BY DEF CountInv
<1>4. ~mixed' => \A c \in Chans :
        (Watched' /\ c = at') \/ entries'[c] \cap unread' \subseteq unseen'
  BY DEF CountInv
<1>5. ~mixed' => \A c \in Chans : count'[c] = Cardinality(OfUnseen(c)')
  BY <1>1 DEF CountInv
<1> QED BY <1>1, <1>2, <1>3, <1>4, <1>5 DEF CountInv

LEMMA ReceiveCounts ==
  ASSUME WindowInv, CountInv, NEW m \in Messages, Receive(m)
  PROVE  CountInv'
<1>1. PICK c, win, st, out, after, more :
        /\ c = ChanOf[m] /\ win = loadedEntries(c) /\ st = loadedState(c)
        /\ out = outside_window(m, win, st)
        /\ after = IF out THEN win ELSE IF c = at THEN trimmed(win \cup {m}, mine.target)
                   ELSE win \cup {m}
        /\ more = (mine.older \/ out \/ Cardinality(after) < Cardinality(win \cup {m}))
  OBVIOUS
<1>2. /\ m \notin stored /\ stored' = stored \cup {m}
      /\ fresh' = fresh \cup {m}
      /\ IF visible /\ c = at THEN UNCHANGED <<unread, count, unseen>>
         ELSE /\ unread' = unread \cup {m}
              /\ count' = [count EXCEPT ![c] = @ + 1]
              /\ unseen' = unseen \cup {m}
      /\ entries' = [entries EXCEPT ![c] = after]
      /\ IF c = at
         THEN mine' = Bounds(more, mine.target) /\ state' = captured(state, mine')
         ELSE state' = [state EXCEPT ![c] = [st EXCEPT !.older = @ \/ out]] /\ UNCHANGED mine
      /\ UNCHANGED <<at, visible, page, mounting, crossed, mixed, moves>>
  BY <1>1 DEF Receive
<1>3. /\ WindowTypes /\ at \in Chans /\ stored \in SUBSET Messages
      /\ entries \in [Chans -> SUBSET Messages] /\ count \in [Chans -> Nat] /\ c \in Chans
      /\ mine \in [older : BOOLEAN, target : Nat \ {0}] /\ ~(m \in unread) /\ ~(m \in unseen)
  BY <1>1, <1>2, WindowAssumption DEF WindowInv, WindowTypes, CountInv
<1>4. win \in SUBSET Messages /\ st \in [older : BOOLEAN, target : Nat \ {0}, loaded : BOOLEAN]
      /\ st.loaded
  BY <1>1, <1>3, LoadTypes
<1>5. \A k \in win : ChanOf[k] = c
  BY <1>1, <1>3 DEF loadedEntries, recent, Newest, CountInv, EntriesOwn
<1>6. after \in SUBSET (win \cup {m})
  <2>1. trimmed(win \cup {m}, mine.target) \in SUBSET (win \cup {m})
    <3> DEFINE set == win \cup {m}
    <3>1. set \in SUBSET Messages
      BY <1>4
    <3>2. set \in SUBSET Nat /\ IsFiniteSet(set) /\ mine.target \in Nat
      BY <1>3, <3>1, WindowAssumption, FS_Subset
    <3> HIDE DEF set
    <3>3. trimmed(set, mine.target) \in SUBSET set
      BY <3>2, TrimLeaves
    <3> QED BY <3>3 DEF set
  <2> QED BY <1>1, <2>1
<1>7. entries'[c] = after /\ \A d \in Chans \ {c} : entries'[d] = entries[d]
  BY <1>2, <1>3
<1>8. EntriesOwn'
  BY <1>1, <1>5, <1>6, <1>7 DEF EntriesOwn, CountInv
<1>9. state'[c].loaded /\ \A d \in Chans \ {c} : state'[d] = state[d]
  <2>1. CASE c = at
    <3>1. mine' \in [older : BOOLEAN, target : Nat \ {0}]
      <4>1. more \in BOOLEAN
        BY <1>1, <1>3 DEF outside_window
      <4> QED BY <1>2, <1>3, <2>1, <4>1 DEF Bounds
    <3>2. state' = captured(state, mine')
      BY <1>2, <2>1
    <3>3. captured(state, mine')[at].loaded
          /\ \A d \in Chans \ {at} : captured(state, mine')[d] = state[d]
      BY <1>3, <3>1, CapturedLoads
    <3> QED BY <2>1, <3>2, <3>3
  <2>2. CASE c # at
    BY <1>2, <1>3, <1>4, <2>2 DEF WindowTypes
  <2> QED BY <2>1, <2>2
<1>10. \A k \in unread \cup {m} : state'[ChanOf[k]].loaded
  <2>1. ASSUME NEW k \in unread PROVE state'[ChanOf[k]].loaded
    <3>1. ChanOf[k] \in Chans /\ state[ChanOf[k]].loaded
      BY <1>3, WindowAssumption DEF CountInv
    <3> QED BY <1>9, <3>1
  <2> QED BY <1>1, <1>9, <2>1
(* A window that is loaded only now has no marks.                          *)
<1>11. ASSUME ~mixed, ~(Watched /\ c = at) PROVE win \cap unread \subseteq unseen
  <2>1. CASE state[c].loaded
    BY <1>1, <1>3, <1>11, <2>1 DEF loadedEntries, CountInv
  <2>2. CASE ~state[c].loaded
    BY <1>5, <2>2 DEF CountInv
  <2> QED BY <2>1, <2>2
<1>12. Watched' = Watched
  BY <1>2 DEF Watched
<1>13. CASE visible /\ c = at
  <2>1. UNCHANGED <<unread, count, unseen>>
    BY <1>2, <1>13
  <2>2. \A d : OfUnseen(d)' = OfUnseen(d)
    BY <2>1 DEF OfUnseen
  <2>3. ASSUME ~mixed, NEW d \in Chans
        PROVE  (Watched /\ d = at) \/ entries'[d] \cap unread \subseteq unseen
    <3>1. CASE d = c
      BY <1>3, <1>6, <1>7, <1>11, <2>3, <3>1
    <3>2. CASE d # c
      BY <1>7, <2>3, <3>2 DEF CountInv
    <3> QED BY <3>1, <3>2
  <2> QED BY <1>2, <1>8, <1>10, <1>12, <2>1, <2>2, <2>3 DEF CountInv
<1>14. CASE ~(visible /\ c = at)
  <2>1. /\ unread' = unread \cup {m} /\ count' = [count EXCEPT ![c] = @ + 1]
        /\ unseen' = unseen \cup {m}
    BY <1>2, <1>14
  <2>2. OfUnseen(c)' = OfUnseen(c) \cup {m} /\ m \notin OfUnseen(c)
        /\ \A d \in Chans \ {c} : OfUnseen(d)' = OfUnseen(d)
    BY <1>1, <1>3, <2>1 DEF OfUnseen
  <2>3. Cardinality(OfUnseen(c)') = Cardinality(OfUnseen(c)) + 1
    BY <2>2, UnseenIsFinite, FS_AddElement
  <2>4. ASSUME ~mixed, NEW d \in Chans PROVE count'[d] = Cardinality(OfUnseen(d)')
    <3>1. count[d] = Cardinality(OfUnseen(d))
      BY <2>4 DEF CountInv
    <3>2. CASE d = c
      BY <1>3, <2>1, <2>3, <3>1, <3>2
    <3>3. CASE d # c
      BY <1>3, <2>1, <2>2, <3>1, <3>3
    <3> QED BY <3>2, <3>3
  <2>5. ASSUME ~mixed, NEW d \in Chans
        PROVE  (Watched /\ d = at) \/ entries'[d] \cap unread' \subseteq unseen'
    <3>1. CASE d = c
      <4>1. ~(Watched /\ c = at)
        BY <1>14 DEF Watched
      <4> QED BY <1>6, <1>7, <1>11, <2>1, <2>5, <3>1, <4>1
    <3>2. CASE d # c
      <4>1. (Watched /\ d = at) \/ entries[d] \cap unread \subseteq unseen
        BY <2>5 DEF CountInv
      <4> QED BY <1>7, <2>1, <3>2, <4>1, <1>1 DEF CountInv, EntriesOwn
    <3> QED BY <3>1, <3>2
  <2>6. count' \in [Chans -> Nat]
    BY <1>3, <2>1
  <2>7. unseen' \subseteq unread' /\ unread' \subseteq fresh' /\ unread' \subseteq stored'
    BY <1>2, <2>1 DEF CountInv
  <2>8. Watched' => \A k \in unseen' : ChanOf[k] # at'
    BY <1>1, <1>2, <1>12, <1>14, <2>1 DEF CountInv, Watched
  <2> QED BY <1>2, <1>8, <1>10, <1>12, <2>1, <2>4, <2>5, <2>6, <2>7, <2>8 DEF CountInv
<1> QED BY <1>13, <1>14

LEMMA LoadOlderCounts ==
  ASSUME WindowInv, CountInv, LoadOlder
  PROVE  CountInv'
<1>1. PICK older, got : /\ older = Below(Oldest(entries[at]), at)
                        /\ got = Newest(older, PageSize)
  OBVIOUS
<1>2. /\ visible /\ mixed' = (mixed \/ mounting > 0)
      /\ UNCHANGED <<stored, at, visible, fresh, unread, count, unseen, mounting>>
      /\ \/ /\ mine' = Bounds(FALSE, mine.target) /\ state' = captured(state, mine')
            /\ UNCHANGED entries
         \/ entries' = [entries EXCEPT ![at] = @ \cup got] /\ UNCHANGED state
  BY <1>1 DEF LoadOlder
<1>3. /\ WindowTypes /\ at \in Chans /\ entries \in [Chans -> SUBSET Messages]
      /\ mine \in [older : BOOLEAN, target : Nat \ {0}]
  BY DEF WindowInv, WindowTypes
<1>4. EntriesOwn'
  <2>1. \A m \in got : ChanOf[m] = at
    BY <1>1 DEF Newest, Below
  <2>2. \A c \in Chans : entries'[c] = entries[c] \/ (c = at /\ entries'[c] = entries[c] \cup got)
    BY <1>2, <1>3
  <2> QED BY <2>1, <2>2 DEF EntriesOwn, CountInv
<1>5. \A m \in unread' : state'[ChanOf[m]].loaded
  <2>1. \A c \in Chans : state[c].loaded => state'[c].loaded
    <3>1. CASE UNCHANGED state
      BY <3>1
    <3>2. CASE mine' = Bounds(FALSE, mine.target) /\ state' = captured(state, mine')
      <4>1. mine' \in [older : BOOLEAN, target : Nat \ {0}]
        BY <1>3, <3>2 DEF Bounds
      <4>2. \A c \in Chans : state[c].loaded => captured(state, mine')[c].loaded
        BY <1>3, <4>1, CapturedLoads
      <4> QED BY <3>2, <4>2
    <3> QED BY <1>2, <3>1, <3>2
  <2>2. \A m \in unread : ChanOf[m] \in Chans
    BY <1>3, WindowAssumption DEF CountInv, WindowTypes
  <2> QED BY <1>2, <2>1, <2>2 DEF CountInv
<1>6. mounting \in Nat /\ Watched' = Watched /\ \A c : OfUnseen(c)' = OfUnseen(c)
  BY <1>2 DEF CountInv, Watched, OfUnseen
<1>7. ASSUME ~mixed', NEW c \in Chans
      PROVE  (Watched' /\ c = at') \/ entries'[c] \cap unread' \subseteq unseen'
  <2>1. ~mixed /\ Watched
    <3>1. ~mixed /\ ~(mounting > 0)
      BY <1>2, <1>7
    <3>2. mounting = 0
      BY <1>6, <3>1
    <3> QED BY <1>2, <3>1, <3>2 DEF Watched
  <2>2. CASE c = at
    BY <1>2, <1>6, <2>1, <2>2
  <2>3. CASE c # at
    <3>1. entries'[c] = entries[c]
      BY <1>2, <1>3, <2>3
    <3> QED BY <1>2, <2>1, <2>3, <3>1 DEF CountInv
  <2> QED BY <2>2, <2>3
<1>8. ~mixed' => \A c \in Chans : count'[c] = Cardinality(OfUnseen(c)')
  BY <1>2, <1>6 DEF CountInv
<1> QED BY <1>2, <1>4, <1>5, <1>6, <1>7, <1>8 DEF CountInv

LEMMA SwitchCounts ==
  ASSUME WindowInv, CountInv, NEW c \in Chans, SwitchChannel(c)
  PROVE  CountInv'
<1>1. PICK set : set = IF visible THEN entries[at] \cap fresh ELSE {}
  OBVIOUS
<1>2. /\ c # at /\ at' = c
      /\ entries' = [entries EXCEPT ![c] = loadedEntries(c)]
      /\ state' = [captured(state, mine) EXCEPT ![c] = loadedState(c)]
      /\ Read(set) /\ mounting' = mounting + 1
      /\ UNCHANGED <<stored, visible, mixed>>
  BY <1>1 DEF SwitchChannel
<1>3. /\ WindowTypes /\ at \in Chans /\ entries \in [Chans -> SUBSET Messages]
      /\ mine \in [older : BOOLEAN, target : Nat \ {0}] /\ mounting \in Nat
      /\ set \in SUBSET entries[at]
  BY <1>1 DEF WindowInv, WindowTypes, CountInv
<1>4. /\ count' \in [Chans -> Nat]
      /\ unseen' \subseteq unread' /\ unread' \subseteq fresh' /\ unread' \subseteq stored'
      /\ unread' = unread \ set /\ unseen' = unseen \ set
      /\ ~mixed => \A d \in Chans : count'[d] = Cardinality(OfUnseen(d)')
  BY <1>2, <1>3, ReadCounts
<1>5. entries'[c] = loadedEntries(c) /\ \A d \in Chans \ {c} : entries'[d] = entries[d]
  BY <1>2, <1>3
<1>6. \A k \in loadedEntries(c) : ChanOf[k] = c
  BY <1>3 DEF loadedEntries, recent, Newest, CountInv, EntriesOwn
<1>7. EntriesOwn'
  BY <1>5, <1>6 DEF EntriesOwn, CountInv
<1>8. \A d \in Chans : state[d].loaded => state'[d].loaded
  <2>1. loadedState(c).loaded
    BY <1>3, LoadTypes
  <2>2. /\ captured(state, mine) \in [Chans -> [older : BOOLEAN, target : Nat \ {0}, loaded : BOOLEAN]]
        /\ \A d \in Chans : state[d].loaded => captured(state, mine)[d].loaded
    BY <1>3, CapturedLoads
  <2> QED BY <1>2, <2>1, <2>2
<1>9. \A m \in unread' : state'[ChanOf[m]].loaded
  <2>1. \A m \in unread : ChanOf[m] \in Chans
    BY <1>3, WindowAssumption DEF CountInv, WindowTypes
  <2> QED BY <1>4, <1>8, <2>1 DEF CountInv
<1>10. ~Watched'
  BY <1>2, <1>3 DEF Watched
<1>11. ASSUME ~mixed, NEW d \in Chans PROVE entries'[d] \cap unread' \subseteq unseen'
  <2>1. CASE d = at
    <3>1. CASE visible
      <4>1. entries[d] \cap unread' = {}
        BY <1>1, <1>4, <2>1, <3>1 DEF CountInv
      <4> QED BY <1>2, <1>5, <2>1, <4>1
    <3>2. CASE ~visible
      <4>1. entries[d] \cap unread \subseteq unseen
        BY <1>11, <3>2 DEF CountInv, Watched
      <4> QED BY <1>2, <1>4, <1>5, <2>1, <4>1
    <3> QED BY <3>1, <3>2
  <2>2. CASE d = c
    <3>1. CASE state[c].loaded
      <4>1. entries[c] \cap unread \subseteq unseen
        BY <1>2, <1>11 DEF CountInv
      <4> QED BY <1>4, <1>5, <2>2, <3>1, <4>1 DEF loadedEntries
    <3>2. CASE ~state[c].loaded
      <4>1. loadedEntries(c) \cap unread = {}
        BY <1>6, <3>2 DEF CountInv
      <4> QED BY <1>4, <1>5, <2>2, <4>1
    <3> QED BY <3>1, <3>2
  <2>3. CASE d # at /\ d # c
    <3>1. entries[d] \cap unread \subseteq unseen
      BY <1>11, <2>3 DEF CountInv
    <3> QED BY <1>4, <1>5, <2>3, <3>1
  <2> QED BY <2>1, <2>2, <2>3
<1> QED BY <1>2, <1>3, <1>4, <1>7, <1>9, <1>10, <1>11 DEF CountInv

LEMMA ReloadCounts ==
  ASSUME WindowInv, CountInv, Reload
  PROVE  CountInv'
<1>1. /\ entries' = [c \in Chans |-> IF c = FirstChan THEN recent(c) ELSE {}]
      /\ fresh' = {} /\ unread' = {} /\ unseen' = {} /\ count' = [c \in Chans |-> 0]
      /\ mounting' = mounting
  BY DEF Reload
<1>2. EntriesOwn'
  BY <1>1 DEF EntriesOwn, recent, Newest
<1>3. \A c \in Chans : OfUnseen(c)' = {} /\ count'[c] = 0
  BY <1>1 DEF OfUnseen
<1>4. \A c \in Chans : count'[c] = Cardinality(OfUnseen(c)')
  BY <1>3, FS_EmptySet
<1> QED BY <1>1, <1>2, <1>4 DEF CountInv

LEMMA CountStepHolds == WindowInv /\ CountInv /\ [WindowNext]_windowVars => CountInv'
<1> SUFFICES ASSUME WindowInv, CountInv, [WindowNext]_windowVars PROVE CountInv'
  OBVIOUS
<1>1. /\ WindowTypes /\ at \in Chans /\ entries \in [Chans -> SUBSET Messages] /\ mounting \in Nat
      /\ mine \in [older : BOOLEAN, target : Nat \ {0}] /\ visible \in BOOLEAN
      /\ \A m \in unread : ChanOf[m] \in Chans
  BY WindowAssumption DEF WindowInv, WindowTypes, CountInv
<1>2. ASSUME NEW set \in SUBSET entries[at], Read(set), visible' = visible \/ entries[at] \cap unread \subseteq set,
             visible' => visible, UNCHANGED <<stored, entries, state, at, mounting, mixed>>
      PROVE  CountInv'
  <2>1. /\ count' \in [Chans -> Nat]
        /\ unseen' \subseteq unread' /\ unread' \subseteq fresh' /\ unread' \subseteq stored'
        /\ unread' = unread \ set /\ unseen' = unseen \ set
        /\ ~mixed => \A c \in Chans : count'[c] = Cardinality(OfUnseen(c)')
    BY <1>2, ReadCounts
  <2>2. EntriesOwn' /\ \A m \in unread' : state'[ChanOf[m]].loaded
    BY <1>2, <2>1 DEF CountInv, EntriesOwn
  <2>3. Watched' => \A m \in unseen' : ChanOf[m] # at'
    BY <1>2, <2>1 DEF CountInv, Watched
  <2>4. ASSUME ~mixed, NEW c \in Chans
        PROVE  (Watched' /\ c = at') \/ entries'[c] \cap unread' \subseteq unseen'
    <3>1. (Watched /\ c = at) \/ entries[c] \cap unread \subseteq unseen
      BY <2>4 DEF CountInv
    <3>2. CASE Watched /\ c = at
      BY <1>2, <2>1, <3>2 DEF Watched
    <3>3. CASE entries[c] \cap unread \subseteq unseen
      BY <1>2, <2>1, <3>3
    <3> QED BY <3>1, <3>2, <3>3
  <2> QED BY <1>1, <1>2, <2>1, <2>2, <2>3, <2>4 DEF CountInv
<1>3. CASE \E m \in Messages : Receive(m)
  BY <1>3, ReceiveCounts
<1>4. ASSUME NEW m \in Messages, SelectMessage(m) PROVE CountInv'
  <2>1. /\ {m} \in SUBSET entries[at] /\ Read({m})
        /\ UNCHANGED <<stored, entries, state, at, visible, mounting, mixed>>
    BY <1>4 DEF SelectMessage
  <2> QED BY <1>2, <2>1
<1>5. CASE LoadOlder
  BY <1>5, LoadOlderCounts
<1>6. CASE PageMounted
  <2>1. /\ mine' = Bounds(page.older, mine.target) /\ state' = captured(state, mine')
        /\ UNCHANGED <<stored, entries, at, visible, fresh, unread, count, unseen, mounting, mixed>>
    BY <1>6 DEF PageMounted
  <2>2. mine' \in [older : BOOLEAN, target : Nat \ {0}]
    BY <1>1, <2>1 DEF Bounds, WindowTypes
  <2>3. \A c \in Chans : state[c].loaded => state'[c].loaded
    <3>1. \A c \in Chans : state[c].loaded => captured(state, mine')[c].loaded
      BY <1>1, <2>2, CapturedLoads
    <3> QED BY <2>1, <3>1
  <2>4. Watched' = Watched
    BY <2>1 DEF Watched
  <2> QED BY <1>1, <2>1, <2>3, <2>4, CountStays
<1>7. CASE LeaveChat
  <2>1. /\ visible' = FALSE /\ Read(entries[at] \cap fresh)
        /\ UNCHANGED <<stored, entries, state, at, mounting, mixed>>
    BY <1>7 DEF LeaveChat
  <2>2. entries[at] \cap unread \subseteq entries[at] \cap fresh
    BY DEF CountInv
  <2> QED BY <1>2, <2>1, <2>2
<1>8. CASE EnterChat
  <2>1. mark_viewed(at, entries[at]) /\ visible' = TRUE
        /\ UNCHANGED <<stored, entries, state, at, fresh, mounting, mixed>>
    BY <1>8 DEF EnterChat
  <2> QED BY <1>1, <2>1, ViewedCounts
<1>9. CASE \E c \in Chans : SwitchChannel(c)
  BY <1>9, SwitchCounts
<1>10. CASE TranscriptMounted
  <2>1. /\ mounting > 0 /\ mounting' = mounting - 1
        /\ IF visible THEN mark_viewed(at, entries[at]) ELSE UNCHANGED <<unread, count, unseen>>
        /\ UNCHANGED <<stored, entries, state, at, visible, fresh, mixed>>
    BY <1>10 DEF TranscriptMounted
  <2>2. mounting' \in Nat
    BY <1>1, <2>1
  <2>3. CASE visible
    BY <1>1, <2>1, <2>2, <2>3, ViewedCounts
  <2>4. CASE ~visible
    <3>1. Watched' = Watched
      BY <2>1, <2>4 DEF Watched
    <3> QED BY <1>1, <2>1, <2>2, <2>4, <3>1, CountStays
  <2> QED BY <2>3, <2>4
<1>11. CASE Reload
  BY <1>11, ReloadCounts
<1>12. CASE UNCHANGED windowVars
  <2>1. /\ UNCHANGED <<stored, entries, state, at, visible, fresh, unread, count, unseen>>
        /\ UNCHANGED <<mounting, mixed>>
    BY <1>12 DEF windowVars
  <2>2. Watched' = Watched
    BY <2>1 DEF Watched
  <2> QED BY <1>1, <2>1, <2>2, CountStays
<1> QED BY <1>3, <1>4, <1>5, <1>6, <1>7, <1>8, <1>9, <1>10, <1>11, <1>12 DEF WindowNext

(* CHAT (N) is exact for every channel, until a page is read in the middle *)
(* of a switch: what _accept_received_message counts,                      *)
(* _mark_unread_messages_viewed takes back, at the end of the awaits of a  *)
(* switch as on entering CHAT, and _mark_new_messages_read and             *)
(* chat_selection_changed take back one by one, whatever was trimmed,      *)
(* paged back or dropped by _reload_active_profile_view meanwhile.         *)
THEOREM UnreadIsExact == WindowSpec => []UnreadIsCounted
<1>1. WindowInit => CountInv
  <2> SUFFICES ASSUME WindowInit PROVE CountInv
    OBVIOUS
  <2>1. /\ count = [c \in Chans |-> 0] /\ unseen = {} /\ unread = {} /\ mounting = 0
        /\ entries = [c \in Chans |-> IF c = at THEN recent(c) ELSE {}]
    BY DEF WindowInit
  <2>2. EntriesOwn
    BY <2>1 DEF EntriesOwn, recent, Newest
  <2>3. \A c \in Chans : OfUnseen(c) = {} /\ count[c] = 0
    BY <2>1 DEF OfUnseen
  <2>4. \A c \in Chans : count[c] = Cardinality(OfUnseen(c))
    BY <2>3, FS_EmptySet
  <2> QED BY <2>1, <2>2, <2>4 DEF CountInv
<1>2. CountInv => UnreadIsCounted
  BY DEF CountInv, UnreadIsCounted, OfUnseen
<1>3. WindowSpec => [](WindowInv /\ CountInv)
  BY <1>1, WindowInitHolds, WindowStepHolds, CountStepHolds, PTL DEF WindowSpec
<1> QED BY <1>2, <1>3, PTL

-----------------------------------------------------------------------------
(* The conversations: the order of the list.                               *)

LEMMA GreatestOf ==
  ASSUME NEW S \in SUBSET Nat, IsFiniteSet(S), S # {}
  PROVE  Max(S) \in S /\ \A n \in S : n <= Max(S)
<1> DEFINE f == [m \in S |-> m]
           r == [m \in S |-> Cardinality(Above(S, f, m))]
<1>1. f \in [S -> Nat] /\ \A k, l \in S : f[k] = f[l] => k = l
  OBVIOUS
<1>2. r \in Bijection(S, 0..Cardinality(S) - 1)
  <2> HIDE DEF f
  <2> QED BY <1>1, RanksAreAll
<1>3. Cardinality(S) \in Nat /\ Cardinality(S) # 0
  BY FS_CardinalityType, FS_EmptySet
<1>4. PICK m \in S : r[m] = 0
  <2>1. 0 \in 0..Cardinality(S) - 1
    BY <1>3
  <2> DEFINE T == 0..Cardinality(S) - 1
  <2> HIDE DEF r, T
  <2>2. \A t \in T : \E m \in S : r[m] = t
    BY <1>2 DEF Bijection, Surjection, T
  <2> QED BY <2>1, <2>2 DEF T
<1>5. Above(S, f, m) = {}
  <2>1. IsFiniteSet(Above(S, f, m)) /\ Cardinality(Above(S, f, m)) = 0
    BY <1>4, FS_Subset DEF Above
  <2> QED BY <2>1, FS_EmptySet
<1>6. \A n \in S : m >= n
  <2>1. \A n \in S : ~(f[n] > f[m])
    BY <1>5 DEF Above
  <2> QED BY <2>1
<1> DEFINE Greatest(x) == \A n \in S : x >= n
<1>7. Max(S) = CHOOSE x \in S : Greatest(x)
  BY DEF Max
<1>8. Max(S) \in S /\ Greatest(Max(S))
  <2> HIDE DEF Greatest
  <2>1. Greatest(m)
    BY <1>6 DEF Greatest
  <2> QED BY <1>7, <2>1
<1> QED BY <1>8

LEMMA ImageIsFinite ==
  ASSUME NEW S, IsFiniteSet(S), NEW T, NEW f \in [S -> T]
  PROVE  IsFiniteSet({f[x] : x \in S})
<1> DEFINE U == {f[x] : x \in S}
<1>1. f \in [S -> U] /\ \A t \in U : \E x \in S : f[x] = t
  OBVIOUS
<1> HIDE DEF U
<1>2. f \in Surjection(S, U)
  BY <1>1 DEF Surjection
<1>3. IsFiniteSet(U)
  BY <1>2, FS_Surjection
<1> QED BY <1>3 DEF U

PeersOf(set) == {r.peer : r \in set}
IdsAreUnique(set) == \A r, q \in set : r.id = q.id => r = q

LEMMA LatestOf ==
  ASSUME NEW set, IsFiniteSet(set), \A r \in set : r.id \in Nat, NEW n \in PeersOf(set)
  PROVE  latest(set, n) \in Nat /\ \E r \in set : r.peer = n /\ r.id = latest(set, n)
<1> DEFINE own == {q \in set : q.peer = n}
           ids == {r.id : r \in own}
<1>1. own \in SUBSET set /\ IsFiniteSet(own)
  BY FS_Subset
<1>2. ids \in SUBSET Nat /\ IsFiniteSet(ids) /\ ids # {}
  <2>1. IsFiniteSet(ids)
    <3> DEFINE f == [r \in own |-> r.id]
    <3> HIDE DEF own
    <3>1. f \in [own -> ids]
      OBVIOUS
    <3>2. ids = {f[r] : r \in own}
      OBVIOUS
    <3> HIDE DEF f, ids
    <3>3. IsFiniteSet({f[r] : r \in own})
      BY <1>1, <3>1, ImageIsFinite
    <3> QED BY <3>2, <3>3
  <2> QED BY <2>1 DEF PeersOf
<1>3. Max(ids) \in ids /\ latest(set, n) = Max(ids)
  <2>1. Max(ids) \in ids
    <3> HIDE DEF ids
    <3> QED BY <1>2, GreatestOf
  <2> QED BY <2>1 DEF latest
<1> QED BY <1>2, <1>3

LEMMA ConversationsAre ==
  ASSUME NEW set, IsFiniteSet(set), \A r \in set : r.id \in Nat, IdsAreUnique(set)
  PROVE  /\ conversations(set) \in [1..Cardinality(PeersOf(set)) -> PeersOf(set)]
         /\ Cardinality(PeersOf(set)) \in Nat
         /\ \A i, j \in 1..Cardinality(PeersOf(set)) :
              i < j => latest(set, conversations(set)[i]) > latest(set, conversations(set)[j])
<1> DEFINE S == PeersOf(set)
           f == [n \in S |-> latest(set, n)]
           r == [n \in S |-> Cardinality(Above(S, f, n))]
<1>1. IsFiniteSet(S)
  <2>1. PICK g \in [set -> PeersOf(set)] : S = {g[q] : q \in set}
    <3> DEFINE h == [q \in set |-> q.peer]
    <3>1. h \in [set -> PeersOf(set)] /\ S = {h[q] : q \in set}
      BY DEF PeersOf
    <3> QED BY <3>1
  <2>2. IsFiniteSet({g[q] : q \in set})
    BY ImageIsFinite
  <2> QED BY <2>1, <2>2
<1>2. f \in [S -> Nat]
  BY LatestOf
<1>3. ASSUME NEW k \in S, NEW l \in S, f[k] = f[l] PROVE k = l
  <2>1. PICK p \in set : p.peer = k /\ p.id = latest(set, k)
    BY LatestOf
  <2>2. PICK q \in set : q.peer = l /\ q.id = latest(set, l)
    BY LatestOf
  <2>3. p.id = q.id
    BY <1>3, <2>1, <2>2
  <2> QED BY <2>1, <2>2, <2>3 DEF IdsAreUnique
<1>4. PICK k \in Nat : k = Cardinality(S)
  BY <1>1, FS_CardinalityType
<1>5. r \in Bijection(S, 0..k - 1)
  <2> HIDE DEF f, S
  <2> QED BY <1>1, <1>2, <1>3, <1>4, RanksAreAll
<1>6. r \in [S -> 0..k - 1] /\ \A t \in 0..k - 1 : \E n \in S : r[n] = t
  <2> DEFINE T == 0..k - 1
  <2> HIDE DEF r, T, S
  <2> QED BY <1>5 DEF Bijection, Injection, Surjection, T
<1> DEFINE s == [i \in 1..k |-> CHOOSE n \in S : r[n] = i - 1]
<1>7. \A i \in 1..k : s[i] \in S /\ r[s[i]] = i - 1
  <2> HIDE DEF r, S
  <2> QED BY <1>6
<1>8. s \in [1..k -> S]
  BY <1>7
<1>9. ASSUME NEW i \in 1..k, NEW j \in 1..k, i < j
      PROVE  latest(set, s[i]) > latest(set, s[j])
  <2>1. s[i] \in S /\ s[j] \in S /\ r[s[i]] < r[s[j]] /\ r[s[i]] # r[s[j]]
    <3>1. r[s[i]] = i - 1 /\ r[s[j]] = j - 1 /\ s[i] \in S /\ s[j] \in S
      BY <1>7
    <3> HIDE DEF r, s
    <3> QED BY <1>9, <3>1
  <2>2. PICK a \in S, b \in S : a = s[i] /\ b = s[j]
    BY <2>1
  <2>3. Cardinality(Above(S, f, a)) < Cardinality(Above(S, f, b))
        /\ Cardinality(Above(S, f, a)) \in Int /\ Cardinality(Above(S, f, b)) \in Int
    <3>1. r[a] < r[b] /\ r[a] \in Int /\ r[b] \in Int
      <4> HIDE DEF r, s
      <4> QED BY <1>6, <2>1, <2>2
    <3> HIDE DEF s
    <3> QED BY <3>1
  <2>4. f[a] \in Nat /\ f[b] \in Nat
    BY <1>2
  <2>5. ~(f[a] < f[b])
    <3> HIDE DEF f, S
    <3>1. ASSUME f[a] < f[b] PROVE FALSE
      <4>1. Cardinality(Above(S, f, b)) < Cardinality(Above(S, f, a))
        BY <1>1, <1>2, <3>1, AboveTellsApart
      <4> QED BY <2>3, <4>1
    <3> QED BY <3>1
  <2>6. a # b
    BY <2>3
  <2>7. f[a] # f[b]
    BY <1>3, <2>6
  <2>8. f[a] > f[b]
    <3> HIDE DEF f
    <3> QED BY <2>4, <2>5, <2>7
  <2> QED BY <2>2, <2>8
<1> DEFINE Sorted(t) == \A i, j \in DOMAIN t : i < j => latest(set, t[i]) > latest(set, t[j])
<1>10. Sorted(s)
  BY <1>8, <1>9
<1> DEFINE c == CHOOSE t \in [1..k -> S] : Sorted(t)
<1>11. c \in [1..k -> S] /\ Sorted(c)
  <2> HIDE DEF s, Sorted, S
  <2> QED BY <1>8, <1>10
<1>12. conversations(set) = c
  BY <1>4 DEF conversations, PeersOf
<1>13. DOMAIN c = 1..k
  BY <1>11
<1> HIDE DEF c
<1> QED BY <1>4, <1>11, <1>12, <1>13

(* After a conversation that is gone, one that remains is shown.           *)
LEMMA NextAfterIs ==
  ASSUME NEW n, dmOrder \in Seq(Peers), NEW remaining \in Seq(Peers), remaining # <<>>
  PROVE  next_after(n, remaining) \in Peers
<1>1. Head(remaining) \in Peers
  OBVIOUS
<1>2. CASE n \notin ToSet(dmOrder)
  BY <1>1, <1>2 DEF next_after
<1>3. CASE n \in ToSet(dmOrder)
  <2> DEFINE i == CHOOSE j \in DOMAIN dmOrder : dmOrder[j] = n
             turned == SubSeq(dmOrder, i + 1, Len(dmOrder)) \o SubSeq(dmOrder, 1, i)
             left == {j \in DOMAIN turned : turned[j] \in ToSet(remaining)}
  <2>1. next_after(n, remaining) = IF left = {} THEN Head(remaining) ELSE turned[Min(left)]
    <3>1. next_after(n, remaining)
            = IF n \notin ToSet(dmOrder) \/ left = {} THEN Head(remaining) ELSE turned[Min(left)]
      BY DEF next_after
    <3> HIDE DEF i, turned, left
    <3> QED BY <1>3, <3>1
  <2>2. i \in 1..Len(dmOrder)
    <3>1. \E j \in DOMAIN dmOrder : dmOrder[j] = n
      BY <1>3 DEF ToSet
    <3>2. i \in DOMAIN dmOrder
      BY <3>1
    <3> HIDE DEF i
    <3> QED BY <3>2
  <2> HIDE DEF i
  <2>4. turned \in Seq(Peers)
    <3>1. SubSeq(dmOrder, i + 1, Len(dmOrder)) \in Seq(Peers) /\ SubSeq(dmOrder, 1, i) \in Seq(Peers)
      BY <2>2
    <3> QED BY <3>1
  <2> HIDE DEF turned
  <2>5. left \in SUBSET DOMAIN turned
    OBVIOUS
  <2> HIDE DEF left
  <2>7. ASSUME left # {} PROVE turned[Min(left)] \in Peers
    <3>1. left \in SUBSET Nat
      BY <2>4, <2>5
    <3>2. Min(left) \in left
      BY <2>7, <3>1, LeastOf
    <3> QED BY <2>4, <2>5, <3>2
  <2> QED BY <1>1, <2>1, <2>7
<1> QED BY <1>2, <1>3

-----------------------------------------------------------------------------
(* The conversations: what each has.                                       *)

ChatType == [loaded : BOOLEAN, entries : SUBSET DmIds, unread : SUBSET DmIds, draft : DmTexts]

(* A conversation has what was written in it; a loaded one has rows of the *)
(* active profile or of none, and all of that one's, unless it was loaded  *)
(* while none was bound.                                                   *)
ChatIs(n, chat, rows, owner, unbound) ==
  /\ chat.draft \in {NoPeer, n}
  /\ chat.loaded \/ chat.entries = {}
  /\ \A r \in rows : r.id \in chat.entries => r.key \in {owner, NoKey}
  /\ chat.loaded /\ n \notin unbound =>
       \A r \in rows : r.key = owner /\ r.peer = n => r.id \in chat.entries

(* Rows are numbered as they come; a deleted one belongs to nobody.        *)
RowsAre ==
  /\ IsFiniteSet(dmRows) /\ IdsAreUnique(dmRows)
  /\ \A r \in dmRows : r.id <= Cardinality(dmRows) /\ (r.key # NoKey => r.peer \in Peers)

ChatsAre ==
  /\ \A n \in Peers : ChatIs(n, dmStates[n], dmRows, dmProfile.active, unboundLoads)
  /\ openDm # NoPeer => dmStates[openDm].loaded
  /\ dmProfile.bound \in {NoKey, dmProfile.active}

DmInv == DmTypeOK /\ RowsAre /\ ChatsAre /\ DmGoesWhereShown

LEMMA OwnListIsTyped ==
  ASSUME NEW own, IsFiniteSet(own), IdsAreUnique(own), \A r \in own : r.id \in Nat /\ r.peer \in Peers
  PROVE  conversations(own) \in Seq(Peers)
<1>1. /\ conversations(own) \in [1..Cardinality(PeersOf(own)) -> PeersOf(own)]
      /\ Cardinality(PeersOf(own)) \in Nat
  BY ConversationsAre
<1>2. PeersOf(own) \in SUBSET Peers
  BY DEF PeersOf
<1>3. conversations(own) \in Seq(PeersOf(own))
  BY <1>1
<1> QED BY <1>2, <1>3

LEMMA ListIsTyped ==
  ASSUME NEW set, IsFiniteSet(set), IdsAreUnique(set),
         \A r \in set : r.id \in Nat /\ (r.key # NoKey => r.peer \in Peers),
         NEW own \in SUBSET OwnDm(set)
  PROVE  conversations(own) \in Seq(Peers)
<1>1. own \in SUBSET set /\ \A r \in own : r.id \in Nat /\ r.peer \in Peers
  BY DEF OwnDm
<1>2. IsFiniteSet(own) /\ IdsAreUnique(own)
  BY <1>1, FS_Subset DEF IdsAreUnique
<1> QED BY <1>1, <1>2, OwnListIsTyped

LEMMA RowsHave ==
  ASSUME DmInv
  PROVE  /\ \A r \in dmRows : r.id \in DmIds /\ r.id \in Nat /\ r.peer \in Peers \cup {NoPeer}
                              /\ r.key \in DmKeys \cup {NoKey}
         /\ IsFiniteSet(dmRows) /\ IdsAreUnique(dmRows) /\ Cardinality(dmRows) \in Nat
         /\ \A r \in dmRows : r.id <= Cardinality(dmRows) /\ (r.key # NoKey => r.peer \in Peers)
         /\ conversations(OwnDm(dmRows)) \in Seq(Peers)
<1>1. \A r \in dmRows : r.id \in DmIds /\ r.id \in Nat /\ r.peer \in Peers \cup {NoPeer}
                        /\ r.key \in DmKeys \cup {NoKey}
  BY DirectMessagesAssumption DEF DmInv, DmTypeOK, DmIds
<1>2. /\ IsFiniteSet(dmRows) /\ IdsAreUnique(dmRows)
      /\ \A r \in dmRows : r.id <= Cardinality(dmRows) /\ (r.key # NoKey => r.peer \in Peers)
  BY DEF DmInv, RowsAre
<1>3. Cardinality(dmRows) \in Nat
  BY <1>2, FS_CardinalityType
<1> QED BY <1>1, <1>2, <1>3, ListIsTyped

(* _ensure_dm_loaded.                                                      *)
LEMMA LoadedChatIs ==
  ASSUME DmInv, NEW n \in Peers, NEW unbound,
         unbound = IF dmStates[n].loaded \/ dmProfile.bound # NoKey THEN unboundLoads
                   ELSE unboundLoads \cup {n}
  PROVE  /\ loadedChat(n) \in ChatType /\ loadedChat(n).loaded
         /\ dmStates[n].entries \subseteq loadedChat(n).entries
         /\ loadedChat(n).draft = dmStates[n].draft
         /\ ChatIs(n, loadedChat(n), dmRows, dmProfile.active, unbound)
<1>1. /\ dmStates[n] \in ChatType /\ dmProfile.bound \in {NoKey, dmProfile.active}
      /\ ChatIs(n, dmStates[n], dmRows, dmProfile.active, unboundLoads)
  BY DEF DmInv, DmTypeOK, ChatsAre, ChatType
<1>2. \A id : id \in stored_of(n) <=>
        \E r \in dmRows : r.peer = n /\ r.key = dmProfile.bound /\ r.key # NoKey /\ r.id = id
  BY DEF stored_of, OwnDm
<1>3. stored_of(n) \in SUBSET DmIds
  BY <1>2, RowsHave
<1>4. CASE dmStates[n].loaded
  BY <1>1, <1>4 DEF loadedChat
<1>5. CASE ~dmStates[n].loaded
  <2>1. dmStates[n].entries = {}
    BY <1>1, <1>5 DEF ChatIs
  <2>2. PICK chat \in ChatType :
          /\ chat = loadedChat(n) /\ chat.loaded /\ chat.entries = stored_of(n)
          /\ chat.draft = dmStates[n].draft
    <3>1. PICK st \in ChatType : st = dmStates[n]
      BY <1>1
    <3>2. loadedChat(n) = [st EXCEPT !.loaded = TRUE, !.entries = st.entries \cup stored_of(n)]
      BY <1>5, <3>1 DEF loadedChat
    <3>3. /\ loadedChat(n) \in ChatType /\ loadedChat(n).loaded
          /\ loadedChat(n).entries = st.entries \cup stored_of(n)
          /\ loadedChat(n).draft = st.draft
      BY <1>3, <3>1, <3>2 DEF ChatType
    <3> QED BY <2>1, <3>1, <3>3
  <2>3. \A r \in dmRows : r.id \in chat.entries => r.key \in {dmProfile.active, NoKey}
    BY <1>1, <1>2, <2>2, RowsHave DEF IdsAreUnique
  <2>4. dmProfile.bound # NoKey =>
          \A r \in dmRows : r.key = dmProfile.active /\ r.peer = n => r.id \in chat.entries
    BY <1>1, <1>2, <2>2
  <2>5. n \notin unbound => dmProfile.bound # NoKey
    BY <1>5
  <2> QED BY <1>1, <2>1, <2>2, <2>3, <2>4, <2>5 DEF ChatIs
<1> QED BY <1>4, <1>5

(* Only what a conversation has, and what was written in it, matters.      *)
LEMMA SameChat ==
  ASSUME NEW n, NEW chat, NEW other, NEW rows, NEW owner, NEW unbound, NEW more,
         ChatIs(n, chat, rows, owner, unbound), unbound \subseteq more,
         other.loaded = chat.loaded, other.entries = chat.entries, other.draft \in {NoPeer, n}
  PROVE  ChatIs(n, other, rows, owner, more)
BY DEF ChatIs

LEMMA ChatsHave ==
  ASSUME DmInv
  PROVE  /\ dmStates \in [Peers -> ChatType] /\ openDm \in Peers \cup {NoPeer}
         /\ dmProfile \in [bound : DmKeys \cup {NoKey}, active : DmKeys]
         /\ dmInput \in DmTexts /\ unboundLoads \in SUBSET Peers /\ dmOrder \in Seq(Peers)
         /\ dmLog \in [peer : Peers \cup {NoPeer}, ids : SUBSET DmIds]
         /\ newDmMode \in BOOLEAN /\ dmVisible \in BOOLEAN
         /\ \A n \in Peers : ChatIs(n, dmStates[n], dmRows, dmProfile.active, unboundLoads)
         /\ openDm # NoPeer => /\ dmStates[openDm].loaded /\ dmLog.peer = openDm
                               /\ dmLog.ids \subseteq dmStates[openDm].entries
                               /\ dmInput \in {NoPeer, openDm}
         /\ dmProfile.bound \in {NoKey, dmProfile.active}
BY DEF DmInv, DmTypeOK, ChatsAre, DmGoesWhereShown, ChatType

LEMMA CapturedChats ==
  ASSUME DmInv
  PROVE  /\ capturedDm \in [Peers -> ChatType]
         /\ \A n \in Peers : /\ ChatIs(n, capturedDm[n], dmRows, dmProfile.active, unboundLoads)
                             /\ capturedDm[n].loaded = dmStates[n].loaded
                             /\ capturedDm[n].entries = dmStates[n].entries
<1>1. /\ dmStates \in [Peers -> ChatType] /\ openDm \in Peers \cup {NoPeer} /\ dmInput \in DmTexts
      /\ \A n \in Peers : ChatIs(n, dmStates[n], dmRows, dmProfile.active, unboundLoads)
      /\ openDm # NoPeer => dmInput \in {NoPeer, openDm}
  BY ChatsHave
<1>2. CASE openDm = NoPeer
  BY <1>1, <1>2 DEF capturedDm
<1>3. CASE openDm # NoPeer
  <2>1. /\ openDm \in Peers
        /\ capturedDm = [dmStates EXCEPT ![openDm] = [dmStates[openDm] EXCEPT !.draft = dmInput]]
    BY <1>1, <1>3 DEF capturedDm
  <2>2. /\ capturedDm \in [Peers -> ChatType] /\ capturedDm[openDm].draft = dmInput
        /\ \A n \in Peers : /\ capturedDm[n].loaded = dmStates[n].loaded
                            /\ capturedDm[n].entries = dmStates[n].entries
                            /\ n # openDm => capturedDm[n] = dmStates[n]
    BY <1>1, <2>1 DEF ChatType
  <2>3. ASSUME NEW n \in Peers
        PROVE  ChatIs(n, capturedDm[n], dmRows, dmProfile.active, unboundLoads)
    <3>1. capturedDm[n].draft \in {NoPeer, n}
      BY <1>1, <1>3, <2>2 DEF ChatIs
    <3> QED BY <1>1, <2>2, <3>1, SameChat
  <2> QED BY <2>2, <2>3
<1> QED BY <1>2, <1>3

(* _open_dm_conversation, whatever becomes of the rows.                    *)
LEMMA OpenKeeps ==
  ASSUME DmInv, NEW n \in Peers, NEW was \in [Peers -> ChatType], OpenConversation(n, was),
         NEW rows, NEW owner,
         \A k \in Peers : ChatIs(k, was[k], rows, owner, unboundLoads),
         ChatIs(n, loadedChat(n), rows, owner, unboundLoads')
  PROVE  /\ dmStates' \in [Peers -> ChatType] /\ openDm' = n /\ dmStates'[n].loaded
         /\ dmLog' \in [peer : Peers \cup {NoPeer}, ids : SUBSET DmIds] /\ dmInput' \in DmTexts
         /\ unboundLoads' \in SUBSET Peers
         /\ \A k \in Peers : ChatIs(k, dmStates'[k], rows, owner, unboundLoads')
         /\ DmGoesWhereShown'
<1>1. /\ openDm' = n /\ dmLog' = DmLog(n, loadedChat(n).entries) /\ dmInput' = was[n].draft
      /\ dmStates' = [was EXCEPT ![n] = [loadedChat(n) EXCEPT !.unread = {}, !.draft = was[n].draft]]
      /\ TouchDm(n)
  BY DEF OpenConversation, restored_draft
<1>2. unboundLoads' = IF dmStates[n].loaded \/ dmProfile.bound # NoKey THEN unboundLoads
                      ELSE unboundLoads \cup {n}
  BY <1>1 DEF TouchDm
<1>3. unboundLoads' \in SUBSET Peers /\ unboundLoads \subseteq unboundLoads'
  BY <1>2, ChatsHave
<1>4. PICK chat \in ChatType : chat = loadedChat(n) /\ chat.loaded
  BY <1>2, LoadedChatIs
<1>5. was[n].draft \in {NoPeer, n} /\ was[n].draft \in DmTexts
  BY DEF ChatIs, ChatType
<1>6. PICK draft \in DmTexts : draft = was[n].draft
  BY <1>5
<1>7. PICK displayed \in ChatType :
        /\ displayed = [chat EXCEPT !.unread = {}, !.draft = draft]
        /\ displayed.loaded = chat.loaded /\ displayed.entries = chat.entries /\ displayed.draft = draft
  <2> DEFINE displayed == [chat EXCEPT !.unread = {}, !.draft = draft]
  <2>1. displayed \in ChatType /\ displayed.loaded = chat.loaded /\ displayed.entries = chat.entries
        /\ displayed.draft = draft
    BY DEF ChatType
  <2> QED BY <2>1
<1>8. dmStates' = [was EXCEPT ![n] = displayed]
  BY <1>1, <1>4, <1>6, <1>7
<1>9. dmStates' \in [Peers -> ChatType] /\ dmStates'[n] = displayed
      /\ \A k \in Peers \ {n} : dmStates'[k] = was[k]
  BY <1>8
<1>10. ASSUME NEW k \in Peers PROVE ChatIs(k, dmStates'[k], rows, owner, unboundLoads')
  <2>1. CASE k = n
    <3>1. ChatIs(n, displayed, rows, owner, unboundLoads')
      BY <1>4, <1>5, <1>6, <1>7 DEF ChatIs
    <3> QED BY <1>9, <2>1, <3>1
  <2>2. CASE k # n
    BY <1>3, <1>9, <2>2 DEF ChatIs
  <2> QED BY <2>1, <2>2
<1>11. chat.entries \in SUBSET DmIds
  BY DEF ChatType
<1>12. dmLog' \in [peer : Peers \cup {NoPeer}, ids : SUBSET DmIds]
       /\ dmLog'.peer = n /\ dmLog'.ids = chat.entries
  BY <1>1, <1>4, <1>11 DEF DmLog
<1>13. DmGoesWhereShown'
  BY <1>1, <1>5, <1>7, <1>9, <1>12 DEF DmGoesWhereShown
<1> QED BY <1>1, <1>3, <1>5, <1>7, <1>4, <1>9, <1>10, <1>12, <1>13

(* OpenDm and SubmitNewDm.                                                 *)
LEMMA ShowKeeps ==
  ASSUME DmInv, NEW n \in Peers,
         IF n = openDm THEN Reopen(n) ELSE OpenConversation(n, capturedDm),
         UNCHANGED <<dmRows, dmProfile>>, dmVisible' \in BOOLEAN, newDmMode' \in BOOLEAN,
         dmOrder' \in Seq(Peers)
  PROVE  DmInv'
<1>1. CASE n = openDm
  <2>1. dmStates' = [dmStates EXCEPT ![n] = [dmStates[n] EXCEPT !.unread = {}]]
        /\ UNCHANGED <<openDm, dmLog, dmInput, unboundLoads>>
    BY <1>1 DEF Reopen
  <2>2. dmStates \in [Peers -> ChatType]
        /\ \A k \in Peers : ChatIs(k, dmStates[k], dmRows, dmProfile.active, unboundLoads)
    BY ChatsHave
  <2>3. dmStates' \in [Peers -> ChatType]
        /\ \A k \in Peers : /\ dmStates'[k].loaded = dmStates[k].loaded
                            /\ dmStates'[k].entries = dmStates[k].entries
                            /\ dmStates'[k].draft = dmStates[k].draft
    BY <2>1, <2>2 DEF ChatType
  <2>4. \A k \in Peers : ChatIs(k, dmStates'[k], dmRows, dmProfile.active, unboundLoads)
    BY <2>2, <2>3 DEF ChatIs
  <2>5. DmTypeOK'
    BY <2>1, <2>3 DEF DmInv, DmTypeOK, ChatType
  <2>6. RowsAre'
    BY DEF DmInv, RowsAre
  <2>7. ChatsAre'
    BY <2>1, <2>3, <2>4, ChatsHave DEF ChatsAre
  <2>8. DmGoesWhereShown'
    BY <2>1, <2>3, ChatsHave DEF DmGoesWhereShown
  <2> QED BY <2>5, <2>6, <2>7, <2>8 DEF DmInv
<1>2. CASE n # openDm
  <2>1. OpenConversation(n, capturedDm)
    BY <1>2
  <2>2. unboundLoads' = IF dmStates[n].loaded \/ dmProfile.bound # NoKey THEN unboundLoads
                        ELSE unboundLoads \cup {n}
    BY <2>1 DEF OpenConversation, TouchDm
  <2>3. ChatIs(n, loadedChat(n), dmRows, dmProfile.active, unboundLoads')
    BY <2>2, LoadedChatIs
  <2>4. capturedDm \in [Peers -> ChatType]
        /\ \A k \in Peers : ChatIs(k, capturedDm[k], dmRows, dmProfile.active, unboundLoads)
    BY CapturedChats
  <2>5. /\ dmStates' \in [Peers -> ChatType] /\ openDm' = n /\ dmStates'[n].loaded
        /\ dmLog' \in [peer : Peers \cup {NoPeer}, ids : SUBSET DmIds] /\ dmInput' \in DmTexts
        /\ unboundLoads' \in SUBSET Peers
        /\ \A k \in Peers : ChatIs(k, dmStates'[k], dmRows, dmProfile.active, unboundLoads')
        /\ DmGoesWhereShown'
    BY <2>1, <2>3, <2>4, OpenKeeps
  <2>6. DmTypeOK'
    BY <2>5 DEF DmInv, DmTypeOK, ChatType
  <2>7. RowsAre'
    BY DEF DmInv, RowsAre
  <2>8. ChatsAre'
    BY <2>5, ChatsHave DEF ChatsAre
  <2> QED BY <2>5, <2>6, <2>7, <2>8 DEF DmInv
<1> QED BY <1>1, <1>2

(* add_incoming, add_outgoing.                                             *)
LEMMA RowIsAdded ==
  ASSUME DmInv, NEW n \in Peers, Next_id \in DmIds
  PROVE  /\ added_dm(n) \subseteq [id : DmIds, peer : Peers \cup {NoPeer}, key : DmKeys \cup {NoKey}]
         /\ IsFiniteSet(added_dm(n)) /\ IdsAreUnique(added_dm(n))
         /\ \A r \in added_dm(n) : /\ r.id <= Cardinality(added_dm(n)) /\ r.id \in Nat
                                   /\ r.key # NoKey => r.peer \in Peers
         /\ conversations(OwnDm(added_dm(n))) \in Seq(Peers)
         /\ \A r \in added_dm(n) : \/ r \in dmRows /\ r.id # Next_id
                                   \/ r.id = Next_id /\ r.peer = n /\ r.key = dmProfile.bound
<1>1. PICK row : row = DmRow(Next_id, n, dmProfile.bound)
  OBVIOUS
<1>2. added_dm(n) = dmRows \cup {row}
  BY <1>1 DEF added_dm
<1>3. row \in [id : DmIds, peer : Peers \cup {NoPeer}, key : DmKeys \cup {NoKey}]
      /\ row.id = Next_id /\ row.peer = n /\ row.key = dmProfile.bound
  BY <1>1, ChatsHave DEF DmRow
<1>4. Next_id = Cardinality(dmRows) + 1 /\ Cardinality(dmRows) \in Nat
  BY RowsHave DEF Next_id
<1>5. \A r \in dmRows : r.id # Next_id /\ r.id <= Cardinality(dmRows) /\ r.id \in Nat
                        /\ (r.key # NoKey => r.peer \in Peers)
  BY <1>4, RowsHave
<1>6. row \notin dmRows
  BY <1>3, <1>5
<1>7. IsFiniteSet(added_dm(n)) /\ Cardinality(added_dm(n)) = Cardinality(dmRows) + 1
  BY <1>2, <1>6, RowsHave, FS_AddElement
<1>8. IdsAreUnique(added_dm(n))
  BY <1>2, <1>3, <1>5, RowsHave DEF IdsAreUnique
<1>9. \A r \in added_dm(n) : /\ r.id <= Cardinality(added_dm(n)) /\ r.id \in Nat
                             /\ r.key # NoKey => r.peer \in Peers
  <2>1. \A r \in dmRows : r.id <= Cardinality(dmRows) + 1
    BY <1>4, <1>5
  <2> QED BY <1>2, <1>3, <1>4, <1>5, <1>7, <2>1
<1>10. conversations(OwnDm(added_dm(n))) \in Seq(Peers)
  BY <1>7, <1>8, <1>9, ListIsTyped
<1>11. dmRows \subseteq [id : DmIds, peer : Peers \cup {NoPeer}, key : DmKeys \cup {NoKey}]
  BY DEF DmInv, DmTypeOK
<1> QED BY <1>2, <1>3, <1>5, <1>7, <1>8, <1>9, <1>10, <1>11

LEMMA ChatGetsRow ==
  ASSUME DmInv, NEW n \in Peers, Next_id \in DmIds, NEW k \in Peers, NEW chat, NEW unbound,
         ChatIs(k, chat, dmRows, dmProfile.active, unbound), NEW more,
         more.loaded = chat.loaded, more.draft = chat.draft,
         \/ k # n /\ more.entries = chat.entries
         \/ chat.loaded /\ more.entries = chat.entries \cup {Next_id}
  PROVE  ChatIs(k, more, added_dm(n), dmProfile.active, unbound)
<1>1. \A r \in added_dm(n) : \/ r \in dmRows /\ r.id # Next_id
                             \/ r.id = Next_id /\ r.peer = n /\ r.key = dmProfile.bound
  BY RowIsAdded
<1>2. dmProfile.bound \in {NoKey, dmProfile.active}
  BY ChatsHave
<1> QED BY <1>1, <1>2 DEF ChatIs

LEMMA SendKeeps ==
  ASSUME DmInv, SendDm
  PROVE  DmInv'
<1>1. PICK n \in Peers : n = openDm
  BY ChatsHave DEF SendDm
<1>2. /\ Next_id \in DmIds /\ dmRows' = added_dm(n)
      /\ dmStates' = [dmStates EXCEPT ![n].entries = @ \cup {Next_id}]
      /\ dmLog' = DmLog(dmLog.peer, dmLog.ids \cup {Next_id}) /\ dmInput' = NoPeer
      /\ UNCHANGED <<dmProfile, openDm, newDmMode, dmVisible, dmOrder, unboundLoads>>
  BY <1>1 DEF SendDm
<1>3. dmStates \in [Peers -> ChatType] /\ n # NoPeer /\ dmStates[n].loaded
      /\ dmLog \in [peer : Peers \cup {NoPeer}, ids : SUBSET DmIds]
      /\ dmLog.peer = n /\ dmLog.ids \subseteq dmStates[n].entries
  BY <1>1, DirectMessagesAssumption, ChatsHave
<1>4. /\ dmStates' \in [Peers -> ChatType]
      /\ dmStates'[n].entries = dmStates[n].entries \cup {Next_id}
      /\ \A k \in Peers : /\ dmStates'[k].loaded = dmStates[k].loaded
                          /\ dmStates'[k].draft = dmStates[k].draft
                          /\ k # n => dmStates'[k].entries = dmStates[k].entries
  BY <1>2, <1>3 DEF ChatType
<1>5. \A k \in Peers : ChatIs(k, dmStates'[k], dmRows', dmProfile.active, unboundLoads)
  <2> SUFFICES ASSUME NEW k \in Peers
               PROVE  ChatIs(k, dmStates'[k], added_dm(n), dmProfile.active, unboundLoads)
    BY <1>2
  <2>1. ChatIs(k, dmStates[k], dmRows, dmProfile.active, unboundLoads)
    BY ChatsHave
  <2>2. \/ k # n /\ dmStates'[k].entries = dmStates[k].entries
        \/ dmStates[k].loaded /\ dmStates'[k].entries = dmStates[k].entries \cup {Next_id}
    BY <1>3, <1>4
  <2> QED BY <1>2, <1>4, <2>1, <2>2, ChatGetsRow
<1>6. dmLog' \in [peer : Peers \cup {NoPeer}, ids : SUBSET DmIds]
      /\ dmLog'.peer = n /\ dmLog'.ids = dmLog.ids \cup {Next_id}
  BY <1>2, <1>3 DEF DmLog
<1>7. DmTypeOK'
  <2>1. dmInput' \in DmTexts
    BY <1>2 DEF DmTexts
  <2> QED BY <1>2, <1>4, <1>6, <2>1, RowIsAdded DEF DmInv, DmTypeOK, ChatType
<1>8. RowsAre'
  BY <1>2, RowIsAdded DEF RowsAre
<1>9. ChatsAre'
  BY <1>1, <1>2, <1>3, <1>4, <1>5, ChatsHave DEF ChatsAre
<1>10. DmGoesWhereShown'
  BY <1>1, <1>2, <1>3, <1>4, <1>6 DEF DmGoesWhereShown
<1> QED BY <1>7, <1>8, <1>9, <1>10 DEF DmInv

LEMMA ReceiveDmKeeps ==
  ASSUME DmInv, NEW n \in Peers, ReceiveDm(n)
  PROVE  DmInv'
<1>1. PICK seen, chat, missed :
        /\ seen = (dmVisible /\ openDm = n) /\ chat = loadedChat(n)
        /\ missed = IF seen THEN chat.unread ELSE chat.unread \cup {Next_id}
  OBVIOUS
<1>2. /\ Next_id \in DmIds /\ dmRows' = added_dm(n)
      /\ dmStates' = [dmStates EXCEPT ![n] =
           [chat EXCEPT !.entries = chat.entries \cup {Next_id}, !.unread = missed]]
      /\ dmLog' = IF seen THEN DmLog(dmLog.peer, dmLog.ids \cup {Next_id}) ELSE dmLog
      /\ TouchDm(n)
      /\ UNCHANGED <<dmProfile, openDm, newDmMode, dmVisible, dmInput>>
  BY <1>1 DEF ReceiveDm
<1>3. dmOrder' = IF dmVisible /\ openDm = NoPeer THEN conversations(OwnDm(added_dm(n))) ELSE dmOrder
  BY DEF ReceiveDm
<1>4. unboundLoads' = IF dmStates[n].loaded \/ dmProfile.bound # NoKey THEN unboundLoads
                      ELSE unboundLoads \cup {n}
  BY <1>2 DEF TouchDm
<1>5. /\ chat \in ChatType /\ chat.loaded /\ dmStates[n].entries \subseteq chat.entries
      /\ chat.draft = dmStates[n].draft
      /\ ChatIs(n, chat, dmRows, dmProfile.active, unboundLoads')
  BY <1>1, <1>4, LoadedChatIs
<1>6. PICK more \in ChatType :
        /\ more = [chat EXCEPT !.entries = chat.entries \cup {Next_id}, !.unread = missed]
        /\ more.loaded /\ more.draft = chat.draft /\ more.entries = chat.entries \cup {Next_id}
  <2> DEFINE more == [chat EXCEPT !.entries = chat.entries \cup {Next_id}, !.unread = missed]
  <2>1. missed \in SUBSET DmIds
    BY <1>1, <1>2, <1>5 DEF ChatType
  <2>2. more \in ChatType /\ more.loaded /\ more.draft = chat.draft
        /\ more.entries = chat.entries \cup {Next_id}
    BY <1>2, <1>5, <2>1 DEF ChatType
  <2> QED BY <2>2
<1>7. dmStates \in [Peers -> ChatType]
  BY ChatsHave
<1>8. /\ dmStates' \in [Peers -> ChatType] /\ dmStates'[n] = more
      /\ \A k \in Peers \ {n} : dmStates'[k] = dmStates[k]
  BY <1>2, <1>6, <1>7
<1>9. unboundLoads' \in SUBSET Peers /\ unboundLoads \subseteq unboundLoads'
  BY <1>4, ChatsHave
<1>10. ASSUME NEW k \in Peers
       PROVE  ChatIs(k, dmStates'[k], dmRows', dmProfile.active, unboundLoads')
  <2>1. CASE k = n
    <3>1. ChatIs(n, more, added_dm(n), dmProfile.active, unboundLoads')
      BY <1>2, <1>5, <1>6, ChatGetsRow
    <3> QED BY <1>2, <1>8, <2>1, <3>1
  <2>2. CASE k # n
    <3>1. ChatIs(k, dmStates[k], dmRows, dmProfile.active, unboundLoads)
      BY ChatsHave
    <3>2. ChatIs(k, dmStates[k], added_dm(n), dmProfile.active, unboundLoads)
      BY <1>2, <2>2, <3>1, ChatGetsRow
    <3> QED BY <1>2, <1>8, <1>9, <2>2, <3>2 DEF ChatIs
  <2> QED BY <2>1, <2>2
<1>11. dmLog' \in [peer : Peers \cup {NoPeer}, ids : SUBSET DmIds] /\ dmLog'.peer = dmLog.peer
       /\ dmLog'.ids = IF seen THEN dmLog.ids \cup {Next_id} ELSE dmLog.ids
  BY <1>2, ChatsHave DEF DmLog
<1>12. dmOrder' \in Seq(Peers)
  BY <1>2, <1>3, RowIsAdded, ChatsHave
<1>13. DmTypeOK'
  BY <1>2, <1>8, <1>9, <1>11, <1>12, RowIsAdded DEF DmInv, DmTypeOK, ChatType
<1>14. RowsAre'
  BY <1>2, RowIsAdded DEF RowsAre
<1>15. ChatsAre'
  BY <1>2, <1>6, <1>8, <1>10, ChatsHave DEF ChatsAre
<1>16. DmGoesWhereShown'
  <2> SUFFICES ASSUME openDm # NoPeer
               PROVE  /\ dmLog'.peer = openDm /\ dmLog'.ids \subseteq dmStates'[openDm].entries
                      /\ dmInput \in {NoPeer, openDm}
    BY <1>2 DEF DmGoesWhereShown
  <2>1. /\ openDm \in Peers /\ dmLog.peer = openDm /\ dmLog.ids \subseteq dmStates[openDm].entries
        /\ dmInput \in {NoPeer, openDm}
    BY ChatsHave
  <2>2. seen => openDm = n
    BY <1>1
  <2> QED BY <1>5, <1>6, <1>8, <1>11, <2>1, <2>2
<1> QED BY <1>13, <1>14, <1>15, <1>16 DEF DmInv

(* Deleted rows keep their ids.                                            *)
Redacted(r, gone) == IF r \in gone THEN DmRow(r.id, NoPeer, NoKey) ELSE r
RedactedRows(gone) == {Redacted(r, gone) : r \in dmRows}

LEMMA RowsAreRedacted ==
  ASSUME DmInv, NEW gone \in SUBSET dmRows, NEW rows,
         rows = RedactedRows(gone)
  PROVE  /\ rows \subseteq [id : DmIds, peer : Peers \cup {NoPeer}, key : DmKeys \cup {NoKey}]
         /\ IsFiniteSet(rows) /\ IdsAreUnique(rows)
         /\ \A r \in rows : r.id <= Cardinality(rows) /\ (r.key # NoKey => r.peer \in Peers)
         /\ \A r \in rows : r.key # NoKey => r \in dmRows \ gone
<1> DEFINE f == [r \in dmRows |-> Redacted(r, gone)]
<1>1. /\ \A r \in dmRows : r.id \in DmIds /\ (r.key # NoKey => r.peer \in Peers)
      /\ dmRows \subseteq [id : DmIds, peer : Peers \cup {NoPeer}, key : DmKeys \cup {NoKey}]
      /\ IsFiniteSet(dmRows) /\ IdsAreUnique(dmRows) /\ Cardinality(dmRows) \in Nat
      /\ \A r \in dmRows : r.id <= Cardinality(dmRows)
  BY RowsHave DEF DmInv, DmTypeOK
<1>2. ASSUME NEW r \in dmRows
      PROVE  /\ f[r].id = r.id /\ (f[r].key # NoKey => f[r] = r /\ r \notin gone)
             /\ f[r] \in [id : DmIds, peer : Peers \cup {NoPeer}, key : DmKeys \cup {NoKey}]
  <2>1. CASE r \in gone
    BY <1>1, <2>1 DEF DmRow, Redacted
  <2>2. CASE r \notin gone
    BY <1>1, <2>2 DEF Redacted
  <2> QED BY <2>1, <2>2
<1>3. f \in [dmRows -> rows] /\ \A q \in rows : \E r \in dmRows : f[r] = q
  BY DEF RedactedRows
<1> HIDE DEF f
<1>4. f \in Injection(dmRows, rows)
  BY <1>1, <1>2, <1>3 DEF Injection, IsInjective, IdsAreUnique
<1>5. f \in Surjection(dmRows, rows)
  BY <1>3 DEF Surjection
<1>6. IsFiniteSet(rows) /\ Cardinality(rows) = Cardinality(dmRows)
  BY <1>1, <1>4, <1>5, FS_Surjection
<1>7. ASSUME NEW q \in rows PROVE \E r \in dmRows : q = f[r] /\ q.id = r.id
  <2>1. PICK r \in dmRows : f[r] = q
    BY <1>3
  <2>2. f[r].id = r.id
    BY <1>2
  <2> QED BY <2>1, <2>2
<1>8. IdsAreUnique(rows)
  <2> SUFFICES ASSUME NEW q \in rows, NEW p \in rows, q.id = p.id PROVE q = p
    BY DEF IdsAreUnique
  <2>1. PICK r \in dmRows : q = f[r] /\ q.id = r.id
    BY <1>7
  <2>2. PICK t \in dmRows : p = f[t] /\ p.id = t.id
    BY <1>7
  <2>3. r = t
    BY <1>1, <2>1, <2>2 DEF IdsAreUnique
  <2> QED BY <2>1, <2>2, <2>3
<1>9. \A q \in rows : q.id <= Cardinality(rows) /\ (q.key # NoKey => q \in dmRows \ gone)
  <2> SUFFICES ASSUME NEW q \in rows
               PROVE  q.id <= Cardinality(rows) /\ (q.key # NoKey => q \in dmRows \ gone)
    OBVIOUS
  <2>1. PICK r \in dmRows : q = f[r] /\ q.id = r.id
    BY <1>7
  <2>2. r.id <= Cardinality(dmRows) /\ (q.key # NoKey => q = r /\ r \notin gone)
    BY <1>1, <1>2, <2>1
  <2> QED BY <1>6, <2>1, <2>2
<1>10. rows \subseteq [id : DmIds, peer : Peers \cup {NoPeer}, key : DmKeys \cup {NoKey}]
  BY <1>2, <1>7
<1> QED BY <1>1, <1>6, <1>8, <1>9, <1>10

LEMMA DeleteKeeps ==
  ASSUME DmInv, DeleteDm
  PROVE  DmInv'
<1>1. PICK gone, was, remaining :
        /\ gone = {r \in OwnDm(dmRows) : r.peer = openDm}
        /\ was = [dmStates EXCEPT ![openDm] = NoChat]
        /\ remaining = conversations(OwnDm(dmRows) \ gone)
  OBVIOUS
<1>2. /\ dmVisible /\ openDm # NoPeer /\ newDmMode' = FALSE
      /\ dmRows' = {IF r \in gone THEN DmRow(r.id, NoPeer, NoKey) ELSE r : r \in dmRows}
      /\ \/ /\ remaining # <<>>
            /\ OpenConversation(next_after(openDm, remaining), was) /\ UNCHANGED dmOrder
         \/ /\ dmStates' = was /\ openDm' = NoPeer /\ dmOrder' = <<>>
            /\ unboundLoads' = unboundLoads \ {openDm}
            /\ UNCHANGED <<dmLog, dmInput>>
      /\ UNCHANGED <<dmProfile, dmVisible>>
  BY <1>1 DEF DeleteDm
<1>3. gone \in SUBSET dmRows
  BY <1>1 DEF OwnDm
<1>4. PICK rows : rows = RedactedRows(gone)
  OBVIOUS
<1>5. /\ dmRows' = rows
      /\ rows \subseteq [id : DmIds, peer : Peers \cup {NoPeer}, key : DmKeys \cup {NoKey}]
      /\ IsFiniteSet(rows) /\ IdsAreUnique(rows)
      /\ \A r \in rows : r.id <= Cardinality(rows) /\ (r.key # NoKey => r.peer \in Peers)
      /\ \A r \in rows : r.key # NoKey => r \in dmRows \ gone
  <2>1. dmRows' = rows
    BY <1>2, <1>4 DEF Redacted, RedactedRows
  <2>2. /\ rows \subseteq [id : DmIds, peer : Peers \cup {NoPeer}, key : DmKeys \cup {NoKey}]
        /\ IsFiniteSet(rows) /\ IdsAreUnique(rows)
        /\ \A r \in rows : r.id <= Cardinality(rows) /\ (r.key # NoKey => r.peer \in Peers)
        /\ \A r \in rows : r.key # NoKey => r \in dmRows \ gone
    BY <1>3, <1>4, RowsAreRedacted
  <2> QED BY <2>1, <2>2
<1>6. RowsAre'
  BY <1>5 DEF RowsAre
<1>7. PICK owner \in DmKeys : owner = dmProfile.active /\ owner # NoKey
  BY DirectMessagesAssumption, ChatsHave
<1>8. ASSUME NEW k, NEW chat, NEW unbound, ChatIs(k, chat, dmRows, owner, unbound)
      PROVE  ChatIs(k, chat, rows, owner, unbound)
  BY <1>5, <1>7, <1>8 DEF ChatIs
<1>9. openDm \in Peers /\ dmStates \in [Peers -> ChatType]
      /\ \A k \in Peers : ChatIs(k, dmStates[k], dmRows, owner, unboundLoads)
  BY <1>2, <1>7, ChatsHave
<1>10. NoChat \in ChatType /\ ~NoChat.loaded /\ NoChat.entries = {} /\ NoChat.draft = NoPeer
  BY DEF NoChat, ChatType, DmTexts
<1>11. was \in [Peers -> ChatType] /\ was[openDm] = NoChat
       /\ \A k \in Peers \ {openDm} : was[k] = dmStates[k]
  BY <1>1, <1>9, <1>10
<1>12. \A unbound : ChatIs(openDm, NoChat, rows, owner, unbound)
  BY <1>10 DEF ChatIs
<1>13. \A k \in Peers : ChatIs(k, was[k], rows, owner, unboundLoads)
  BY <1>8, <1>9, <1>11, <1>12
<1>14. CASE /\ remaining # <<>>
            /\ OpenConversation(next_after(openDm, remaining), was) /\ UNCHANGED dmOrder
  <2>1. remaining \in Seq(Peers)
    <3>1. OwnDm(dmRows) \ gone \in SUBSET OwnDm(dmRows)
      OBVIOUS
    <3> QED BY <1>1, <3>1, RowsHave, ListIsTyped
  <2>2. PICK n \in Peers : n = next_after(openDm, remaining)
    BY <1>14, <2>1, ChatsHave, NextAfterIs
  <2>3. OpenConversation(n, was)
    BY <1>14, <2>2
  <2>4. unboundLoads' = IF dmStates[n].loaded \/ dmProfile.bound # NoKey THEN unboundLoads
                        ELSE unboundLoads \cup {n}
    BY <2>3 DEF OpenConversation, TouchDm
  <2>5. ChatIs(n, loadedChat(n), dmRows, owner, unboundLoads')
    BY <1>7, <2>4, LoadedChatIs
  <2>6. ChatIs(n, loadedChat(n), rows, owner, unboundLoads')
    BY <1>8, <2>5
  <2>7. /\ dmStates' \in [Peers -> ChatType] /\ openDm' = n /\ dmStates'[n].loaded
        /\ dmLog' \in [peer : Peers \cup {NoPeer}, ids : SUBSET DmIds] /\ dmInput' \in DmTexts
        /\ unboundLoads' \in SUBSET Peers
        /\ \A k \in Peers : ChatIs(k, dmStates'[k], rows, owner, unboundLoads')
        /\ DmGoesWhereShown'
    BY <1>11, <1>13, <2>3, <2>6, OpenKeeps
  <2>8. DmTypeOK'
    BY <1>2, <1>5, <1>14, <2>7 DEF DmInv, DmTypeOK, ChatType
  <2>9. ChatsAre'
    BY ZenonT(40), <1>2, <1>5, <1>7, <2>7, ChatsHave DEF ChatsAre
  <2> QED BY <1>6, <2>7, <2>8, <2>9 DEF DmInv
<1>15. CASE /\ dmStates' = was /\ openDm' = NoPeer /\ dmOrder' = <<>>
            /\ unboundLoads' = unboundLoads \ {openDm}
            /\ UNCHANGED <<dmLog, dmInput>>
  <2>1. ASSUME NEW k \in Peers PROVE ChatIs(k, was[k], rows, owner, unboundLoads')
    <3>1. CASE k = openDm
      BY <1>11, <1>12, <3>1
    <3>2. CASE k # openDm
      BY <1>13, <1>15, <3>2 DEF ChatIs
    <3> QED BY <3>1, <3>2
  <2>2. DmTypeOK'
    <3>1. dmOrder' \in Seq(Peers)
      BY <1>15
    <3>2. unboundLoads' \in SUBSET Peers
      BY <1>15, ChatsHave
    <3> QED BY <1>2, <1>5, <1>11, <1>15, <3>1, <3>2 DEF DmInv, DmTypeOK, ChatType
  <2>3. ChatsAre'
    BY <1>2, <1>5, <1>7, <1>15, <2>1, ChatsHave DEF ChatsAre
  <2>4. DmGoesWhereShown'
    BY <1>15 DEF DmGoesWhereShown
  <2> QED BY <1>6, <2>2, <2>3, <2>4 DEF DmInv
<1> QED BY <1>2, <1>14, <1>15

LEMMA ResolveKeeps ==
  ASSUME DmInv, NEW key \in DmKeys, Resolve(key)
  PROVE  DmInv'
<1>1. /\ dmProfile' = DmBind(key, key) /\ newDmMode' = FALSE /\ dmStates' = reloaded_dms(key)
      /\ IF key = dmProfile.active THEN UNCHANGED <<openDm, dmOrder, unboundLoads>>
         ELSE openDm' = NoPeer /\ dmOrder' = <<>> /\ unboundLoads' = {}
      /\ UNCHANGED <<dmRows, dmVisible, dmLog, dmInput>>
  BY DEF Resolve
<1>2. dmProfile' \in [bound : DmKeys \cup {NoKey}, active : DmKeys]
      /\ dmProfile'.active = key /\ dmProfile'.bound = key
  BY <1>1 DEF DmBind
<1>3. RowsAre'
  BY <1>1 DEF DmInv, RowsAre
<1>4. CASE key = dmProfile.active
  <2>1. UNCHANGED <<openDm, dmOrder, unboundLoads, dmStates>>
    BY <1>1, <1>4 DEF reloaded_dms
  <2>2. DmTypeOK'
    BY <1>1, <1>2, <2>1 DEF DmInv, DmTypeOK
  <2>3. ChatsAre'
    BY <1>1, <1>2, <1>4, <2>1, ChatsHave DEF ChatsAre
  <2>4. DmGoesWhereShown'
    BY <1>1, <2>1 DEF DmInv, DmGoesWhereShown
  <2> QED BY <1>3, <2>2, <2>3, <2>4 DEF DmInv
<1>5. CASE key # dmProfile.active
  <2>1. openDm' = NoPeer /\ dmOrder' = <<>> /\ unboundLoads' = {}
        /\ dmStates' = [n \in Peers |-> NoChat]
    BY <1>1, <1>5 DEF reloaded_dms
  <2>2. NoChat \in ChatType /\ ~NoChat.loaded /\ NoChat.entries = {} /\ NoChat.draft = NoPeer
    BY DEF NoChat, ChatType, DmTexts
  <2>3. DmTypeOK'
    <3>1. dmStates' \in [Peers -> ChatType] /\ dmOrder' \in Seq(Peers)
      BY <2>1, <2>2
    <3> QED BY <1>1, <1>2, <2>1, <3>1 DEF DmInv, DmTypeOK, ChatType
  <2>4. ChatsAre'
    <3>1. \A n \in Peers : dmStates'[n] = NoChat
      BY <2>1
    <3>2. ASSUME NEW n \in Peers
          PROVE  ChatIs(n, NoChat, dmRows', dmProfile'.active, unboundLoads')
      BY <2>2 DEF ChatIs
    <3> QED BY <1>2, <2>1, <3>1, <3>2 DEF ChatsAre
  <2>5. DmGoesWhereShown'
    BY <2>1 DEF DmGoesWhereShown
  <2> QED BY <1>3, <2>3, <2>4, <2>5 DEF DmInv
<1> QED BY <1>4, <1>5

(* Steps that leave the conversations as they are, or capture the text of  *)
(* the one that is open.                                                   *)
LEMMA CaptureKeeps ==
  ASSUME DmInv, dmStates' \in {dmStates, capturedDm}, UNCHANGED <<dmRows, dmProfile, unboundLoads>>,
         newDmMode' \in BOOLEAN, dmVisible' \in BOOLEAN,
         dmOrder' \in {dmOrder, conversations(OwnDm(dmRows))},
         \/ openDm' = NoPeer /\ dmLog' \in {dmLog, DmLog(NoPeer, {})} /\ dmInput' \in DmTexts
         \/ UNCHANGED <<openDm, dmLog>> /\ dmInput' \in DmTexts
            /\ (openDm # NoPeer => dmInput' \in {NoPeer, openDm})
  PROVE  DmInv'
<1>1. /\ dmStates' \in [Peers -> ChatType]
      /\ \A n \in Peers : /\ ChatIs(n, dmStates'[n], dmRows, dmProfile.active, unboundLoads)
                          /\ dmStates'[n].loaded = dmStates[n].loaded
                          /\ dmStates'[n].entries = dmStates[n].entries
  BY ChatsHave, CapturedChats
<1>2. openDm' \in {openDm, NoPeer} /\ dmLog' \in [peer : Peers \cup {NoPeer}, ids : SUBSET DmIds]
      /\ dmInput' \in DmTexts /\ dmOrder' \in Seq(Peers)
  BY ChatsHave, RowsHave DEF DmLog
<1>3. DmTypeOK'
  BY <1>1, <1>2 DEF DmInv, DmTypeOK, ChatType
<1>4. RowsAre'
  BY DEF DmInv, RowsAre
<1>5. ChatsAre'
  BY <1>1, <1>2, ChatsHave DEF ChatsAre
<1>6. DmGoesWhereShown'
  BY <1>1, ChatsHave DEF DmGoesWhereShown
<1> QED BY <1>3, <1>4, <1>5, <1>6 DEF DmInv

LEMMA DmInitHolds == DmInit => DmInv
<1> SUFFICES ASSUME DmInit PROVE DmInv
  OBVIOUS
<1>1. PICK key \in DmKeys : dmProfile = DmBind(key, key)
  BY DEF DmInit
<1>2. /\ dmRows = {} /\ dmStates = [n \in Peers |-> NoChat] /\ openDm = NoPeer
      /\ newDmMode = FALSE /\ dmVisible = FALSE /\ dmOrder = <<>>
      /\ dmLog = DmLog(NoPeer, {}) /\ dmInput = NoPeer /\ unboundLoads = {}
  BY DEF DmInit
<1>3. NoChat \in ChatType /\ ~NoChat.loaded /\ NoChat.entries = {} /\ NoChat.draft = NoPeer
  BY DEF NoChat, ChatType, DmTexts
<1>4. dmProfile \in [bound : DmKeys \cup {NoKey}, active : DmKeys]
      /\ dmProfile.bound = key /\ dmProfile.active = key
  BY <1>1 DEF DmBind
<1>5. DmTypeOK
  <2>1. dmStates \in [Peers -> ChatType]
    BY <1>2, <1>3
  <2>2. dmLog \in [peer : Peers \cup {NoPeer}, ids : SUBSET DmIds] /\ dmInput \in DmTexts
        /\ dmOrder \in Seq(Peers)
    BY <1>2 DEF DmLog, DmTexts
  <2> QED BY <1>2, <1>4, <2>1, <2>2 DEF DmTypeOK, ChatType
<1>6. RowsAre
  BY <1>2, FS_EmptySet DEF RowsAre, IdsAreUnique
<1>7. ChatsAre
  BY <1>2, <1>3, <1>4 DEF ChatsAre, ChatIs
<1>8. DmGoesWhereShown
  BY <1>2 DEF DmGoesWhereShown
<1> QED BY <1>5, <1>6, <1>7, <1>8 DEF DmInv

LEMMA DmStepHolds == DmInv /\ [DmNext]_dmVars => DmInv'
<1> SUFFICES ASSUME DmInv, [DmNext]_dmVars PROVE DmInv'
  OBVIOUS
<1>1. /\ newDmMode \in BOOLEAN /\ dmVisible \in BOOLEAN /\ dmInput \in DmTexts
      /\ dmOrder \in Seq(Peers) /\ (openDm # NoPeer => dmInput \in {NoPeer, openDm})
      /\ openDm \in Peers \cup {NoPeer} /\ NoPeer \in DmTexts
  BY ChatsHave DEF DmTexts
<1>2. conversations(OwnDm(dmRows)) \in Seq(Peers)
  BY RowsHave
<1>3. CASE \E n \in Peers : OpenDm(n)
  <2>1. PICK n \in Peers : OpenDm(n)
    BY <1>3
  <2>2. dmVisible' \in BOOLEAN /\ newDmMode' \in BOOLEAN /\ dmOrder' \in Seq(Peers)
    BY <1>1, <1>2, <2>1 DEF OpenDm
  <2> QED BY <2>1, <2>2, ShowKeeps DEF OpenDm
<1>4. CASE \E n \in Peers : SubmitNewDm(n)
  <2>1. PICK n \in Peers : SubmitNewDm(n)
    BY <1>4
  <2>2. dmVisible' \in BOOLEAN /\ newDmMode' \in BOOLEAN /\ dmOrder' \in Seq(Peers)
    BY <1>1, <2>1 DEF SubmitNewDm
  <2> QED BY <2>1, <2>2, ShowKeeps DEF SubmitNewDm
<1>5. CASE \E n \in Peers : ReceiveDm(n)
  BY <1>5, ReceiveDmKeeps
<1>6. CASE StartNewDm
  BY <1>1, <1>6, CaptureKeeps DEF StartNewDm
<1>7. CASE CancelNewDm
  BY <1>1, <1>7, CaptureKeeps DEF CancelNewDm
<1>8. CASE WriteDm
  <2>1. dmInput' = IF openDm = NoPeer THEN Elsewhere ELSE openDm
    BY <1>8 DEF WriteDm
  <2>2. dmInput' \in DmTexts /\ (openDm # NoPeer => dmInput' \in {NoPeer, openDm})
    BY <1>1, <2>1 DEF DmTexts
  <2> QED BY <1>1, <1>8, <2>2, CaptureKeeps DEF WriteDm
<1>9. CASE SendDm
  BY <1>9, SendKeeps
<1>10. CASE LeaveDms
  BY <1>1, <1>10, CaptureKeeps DEF LeaveDms
<1>11. CASE EnterDms
  BY <1>1, <1>11, CaptureKeeps DEF EnterDms
<1>12. CASE DeleteDm
  BY <1>12, DeleteKeeps
<1>13. CASE Unresolve
  <2>1. /\ dmProfile' = DmBind(NoKey, dmProfile.active)
        /\ UNCHANGED <<dmRows, dmStates, openDm, newDmMode, dmVisible, dmOrder, dmLog, dmInput,
                       unboundLoads>>
    BY <1>13 DEF Unresolve
  <2>2. dmProfile' \in [bound : DmKeys \cup {NoKey}, active : DmKeys]
        /\ dmProfile'.bound = NoKey /\ dmProfile'.active = dmProfile.active
    BY <2>1, ChatsHave DEF DmBind
  <2> QED BY <2>1, <2>2 DEF DmInv, DmTypeOK, RowsAre, ChatsAre, DmGoesWhereShown
<1>14. CASE \E key \in DmKeys : Resolve(key)
  BY <1>14, ResolveKeeps
<1>15. CASE UNCHANGED dmVars
  BY <1>15 DEF dmVars, DmInv, DmTypeOK, RowsAre, ChatsAre, DmGoesWhereShown
<1> QED BY <1>3, <1>4, <1>5, <1>6, <1>7, <1>8, <1>9, <1>10, <1>11, <1>12, <1>13, <1>14, <1>15
        DEF DmNext

(* Whichever way a conversation is opened, cancelled, deleted or left, the *)
(* transcript is that of the one that is open, and what is in the input    *)
(* line was written in it (_capture_current_dm_state,                      *)
(* _open_dm_conversation, _close_dm_conversation, _delete_current_dm).     *)
THEOREM DraftsStayWithTheirPeer == DmSpec => []DmGoesWhereShown
<1>1. DmSpec => []DmInv
  BY DmInitHolds, DmStepHolds, PTL DEF DmSpec
<1>2. DmInv => DmGoesWhereShown
  BY DEF DmInv
<1> QED BY <1>1, <1>2, PTL

(* However profiles come and go, no conversation shows another profile's   *)
(* messages, and none loses what the store has for its own, but for those  *)
(* that were loaded while no profile was bound (_ensure_dm_loaded,         *)
(* _reload_active_profile_view).                                           *)
THEOREM HistoryIsOfTheProfile == DmSpec => []DmHistoryIsOwn
<1>1. DmSpec => []DmInv
  BY DmInitHolds, DmStepHolds, PTL DEF DmSpec
<1>2. DmInv => DmHistoryIsOwn
  <2> SUFFICES ASSUME DmInv, NEW n \in Peers, dmStates[n].loaded
               PROVE  /\ \A r \in dmRows : r.id \in dmStates[n].entries
                                             => r.key \in {dmProfile.active, NoKey}
                      /\ n \notin unboundLoads => stored_of(n) \subseteq dmStates[n].entries
    BY DEF DmHistoryIsOwn
  <2>1. ChatIs(n, dmStates[n], dmRows, dmProfile.active, unboundLoads)
        /\ dmProfile.bound \in {NoKey, dmProfile.active}
    BY ChatsHave
  <2>2. \A id \in stored_of(n) :
          \E r \in dmRows : r.peer = n /\ r.key = dmProfile.bound /\ r.key # NoKey /\ r.id = id
    BY DEF stored_of, OwnDm
  <2> QED BY <2>1, <2>2 DEF ChatIs
<1> QED BY <1>1, <1>2, PTL

-----------------------------------------------------------------------------
(* The store, opened by one process at a time.                             *)

OneOpener == \A p, q \in Openers : p = q

TableNames == {"schema_version", "messages", "local_profiles", "node_encounters", "send_attempts"}
ColumnNames == {"origin_sent_at", "dm_node_id", "channel_key", "local_node_id", "profile_key",
                "pass_at"}

LEMMA PartsAre ==
  /\ DOMAIN Since = TableNames \cup ColumnNames
  /\ \A c \in DOMAIN Since : Since[c] \in Nat \ {0}
  /\ DOMAIN Tables = 1..5 /\ \A i \in 1..5 : Tables[i] \in TableNames
  /\ \A t \in TableNames : \E i \in 1..5 : Tables[i] = t
  /\ DOMAIN Columns = 1..6 /\ \A i \in 1..6 : Columns[i] \in ColumnNames
  /\ \A c \in ColumnNames : \E i \in 1..6 : Columns[i] = c
  /\ \A i, j \in 1..6 : Columns[i] = Columns[j] => i = j
<1>1. DOMAIN Since = TableNames \cup ColumnNames
  BY DEF Since, TableNames, ColumnNames
<1>2. \A c \in DOMAIN Since : Since[c] \in Nat \ {0}
  BY <1>1 DEF Since, TableNames, ColumnNames
<1>3. DOMAIN Tables = 1..5 /\ \A i \in 1..5 : Tables[i] \in TableNames
  BY DEF Tables, TableNames
<1>4. \A t \in TableNames : \E i \in 1..5 : Tables[i] = t
  BY DEF Tables, TableNames
<1>5. DOMAIN Columns = 1..6 /\ \A i \in 1..6 : Columns[i] \in ColumnNames
  BY DEF Columns, ColumnNames
<1>6. \A c \in ColumnNames : \E i \in 1..6 : Columns[i] = c
  BY DEF Columns, ColumnNames
<1>7. \A i, j \in 1..6 : Columns[i] = Columns[j] => i = j
  BY DEF Columns
<1> QED BY <1>1, <1>2, <1>3, <1>4, <1>5, <1>6, <1>7

LEMMA TablesAreNoColumns ==
  /\ TableNames \cap ColumnNames = {}
  /\ \A c \in ColumnNames : table_of(c) \in TableNames
  /\ \A t \in TableNames : with_columns(t) = {t} \cup {c \in ColumnNames : table_of(c) = t}
<1>1. TableNames \cap ColumnNames = {}
  BY DEF TableNames, ColumnNames
<1>2. \A c \in ColumnNames : table_of(c) \in TableNames
  BY DEF TableNames, table_of
<1>3. {Tables[i] : i \in DOMAIN Tables} = TableNames
  BY PartsAre
<1>4. \A c \in DOMAIN Since : c \notin TableNames <=> c \in ColumnNames
  BY <1>1, PartsAre
<1>5. ASSUME NEW t \in TableNames
      PROVE  with_columns(t) = {t} \cup {c \in ColumnNames : table_of(c) = t}
  BY <1>3, <1>4, PartsAre DEF with_columns
<1> QED BY <1>1, <1>2, <1>5

(* Whatever died before: a column is missing only with its table, or from  *)
(* a file that says it is older than the column.                           *)
FileIs ==
  /\ disk.copies <= 1
  /\ \A c \in ColumnNames \ disk.parts :
       table_of(c) \notin disk.parts \/ (0 < disk.version /\ disk.version < Since[c])

(* What the one opener knows where it is.                                  *)
Complete == disk.parts = DOMAIN Since
Current(p) ==
  \/ holder = p /\ pending.version = SchemaVersion
  \/ holder = Nobody /\ disk.version = SchemaVersion
OpeningIs(p) ==
  /\ opening[p] \in {"out", "script", "columns", "open", "refused"} => holder = Nobody
  /\ opening[p] = "columns" =>
       /\ TableNames \subseteq disk.parts /\ disk.version > 0
       /\ todo[p] = {i \in 1..6 : Columns[i] \notin disk.parts}
  /\ opening[p] \in {"index", "unique", "commit"} => Complete /\ Current(p)
  /\ opening[p] = "unique" => ~indexed(p)
  /\ opening[p] = "commit" => indexed(p)
  /\ opening[p] = "open" => Complete /\ disk.index /\ disk.version = SchemaVersion
  /\ opening[p] = "refused" => disk.version > SchemaVersion

SchemaInv == SchemaTypeOK /\ FileIs /\ \A p \in Openers : OpeningIs(p)

LEMMA SchemaInitHolds == SchemaInit => SchemaInv
<1> SUFFICES ASSUME SchemaInit PROVE SchemaInv
  OBVIOUS
<1>1. PICK v \in Nat : disk = OfAge(v)
  BY StoreSchemaAssumption DEF SchemaInit
<1>2. /\ disk.version = v /\ disk.parts = {x \in DOMAIN Since : Since[x] <= v}
      /\ disk.index = (v > 0) /\ disk.copies = 0
      /\ disk \in [version : Nat, parts : SUBSET DOMAIN Since, index : BOOLEAN, copies : 0..2]
  BY <1>1 DEF OfAge, File
<1>3. /\ pending = Stage(0, FALSE) /\ holder = Nobody
      /\ opening = [p \in Openers |-> "out"] /\ todo = [p \in Openers |-> {}]
  BY DEF SchemaInit
<1>4. SchemaTypeOK
  <2>1. pending \in [version : Nat, index : BOOLEAN]
    BY <1>3 DEF Stage
  <2> QED BY <1>2, <1>3, <2>1 DEF SchemaTypeOK
<1>5. FileIs
  <2> SUFFICES ASSUME NEW c \in ColumnNames \ disk.parts, table_of(c) \in disk.parts
               PROVE  0 < v /\ v < Since[c]
    BY <1>2 DEF FileIs
  <2>1. c \in DOMAIN Since /\ Since[c] \in Nat /\ ~(Since[c] <= v)
    BY <1>2, PartsAre
  <2>2. PICK t \in DOMAIN Since : t = table_of(c) /\ Since[t] <= v
    BY <1>2
  <2>3. Since[t] \in Nat \ {0}
    BY PartsAre
  <2> QED BY <2>1, <2>2, <2>3
<1>6. \A p \in Openers : OpeningIs(p)
  BY <1>3 DEF OpeningIs
<1> QED BY <1>4, <1>5, <1>6 DEF SchemaInv

(* A step of the one opener.                                               *)
LEMMA SchemaStepHolds ==
  ASSUME OneOpener
  PROVE  SchemaInv /\ [SchemaNext]_schemaVars => SchemaInv'
<1> SUFFICES ASSUME SchemaInv, [SchemaNext]_schemaVars PROVE SchemaInv'
  OBVIOUS
<1>1. /\ disk \in [version : Nat, parts : SUBSET DOMAIN Since, index : BOOLEAN, copies : 0..2]
      /\ pending \in [version : Nat, index : BOOLEAN] /\ holder \in Openers \cup {Nobody}
      /\ opening \in [Openers -> {"out", "script", "columns", "index", "unique", "commit", "open",
                                  "refused"}]
      /\ todo \in [Openers -> SUBSET (1..6)]
      /\ SchemaVersion \in Nat \ {0} /\ Nobody \notin Openers
  BY PartsAre, StoreSchemaAssumption DEF SchemaInv, SchemaTypeOK
<1>2. FileIs /\ \A p \in Openers : OpeningIs(p)
  BY DEF SchemaInv
<1>3. ASSUME NEW p \in Openers, OpeningIs(p)', FileIs', SchemaTypeOK'
      PROVE  SchemaInv'
  <2>1. \A q \in Openers : q = p
    BY DEF OneOpener
  <2> QED BY <1>3, <2>1 DEF SchemaInv
<1>4. ASSUME NEW p \in Openers, Open(p) PROVE SchemaInv'
  <2>1. /\ opening[p] = "out" /\ opening' = [opening EXCEPT ![p] = "script"]
        /\ UNCHANGED <<disk, pending, holder, todo>>
    BY <1>4 DEF Open, goes
  <2>2. opening'[p] = "script" /\ holder = Nobody
    BY <1>1, <1>2, <2>1 DEF OpeningIs
  <2>3. OpeningIs(p)'
    BY <2>1, <2>2 DEF OpeningIs
  <2>4. FileIs'
    BY <1>2, <2>1 DEF FileIs
  <2>5. SchemaTypeOK'
    BY <2>1 DEF SchemaInv, SchemaTypeOK
  <2> QED BY <1>3, <2>3, <2>4, <2>5
<1>5. ASSUME NEW p \in Openers, CreateTable(p) PROVE SchemaInv'
  <2>1. PICK i \in absent : disk' = [disk EXCEPT !.parts = @ \cup with_columns(Tables[i])]
    BY <1>5 DEF CreateTable
  <2>2. opening[p] = "script" /\ UNCHANGED <<pending, holder, opening, todo>>
    BY <1>5 DEF CreateTable
  <2>3. PICK t \in TableNames : t = Tables[i]
    BY PartsAre DEF absent
  <2>4. with_columns(t) = {t} \cup {c \in ColumnNames : table_of(c) = t}
    BY TablesAreNoColumns
  <2>5. with_columns(t) \in SUBSET DOMAIN Since
    BY <2>4, PartsAre
  <2>6. /\ disk' \in [version : Nat, parts : SUBSET DOMAIN Since, index : BOOLEAN, copies : 0..2]
        /\ disk'.parts = disk.parts \cup with_columns(t)
        /\ disk'.version = disk.version /\ disk'.index = disk.index /\ disk'.copies = disk.copies
    BY <1>1, <2>1, <2>3, <2>5
  <2>7. SchemaTypeOK'
    BY <2>2, <2>6 DEF SchemaInv, SchemaTypeOK
  <2>8. FileIs'
    <3>1. ASSUME NEW c \in ColumnNames \ disk'.parts
          PROVE  table_of(c) \notin disk'.parts \/ (0 < disk.version /\ disk.version < Since[c])
      <4>1. table_of(c) # t /\ c \notin disk.parts /\ table_of(c) \in TableNames
        BY <2>4, <2>6, TablesAreNoColumns
      <4>2. table_of(c) \notin with_columns(t)
        BY <2>4, <4>1, TablesAreNoColumns
      <4> QED BY <1>2, <2>6, <4>1, <4>2 DEF FileIs
    <3> QED BY <1>2, <2>6, <3>1 DEF FileIs
  <2>9. OpeningIs(p)'
    BY <1>2, <2>2 DEF OpeningIs
  <2> QED BY <1>3, <2>7, <2>8, <2>9
<1>6. ASSUME NEW p \in Openers, ReadVersion(p) PROVE SchemaInv'
  <2>1. opening[p] = "script" /\ absent = {} /\ disk' = disk /\ holder = Nobody
    BY <1>2, <1>6 DEF ReadVersion, OpeningIs
  <2>2. TableNames \subseteq disk.parts
    BY <2>1, PartsAre DEF absent
  <2>3. FileIs'
    BY <1>2, <2>1 DEF FileIs
  <2>4. \A c \in ColumnNames \ disk.parts : 0 < disk.version /\ disk.version < Since[c]
    BY <1>2, <2>2, TablesAreNoColumns DEF FileIs
  <2>5. CASE /\ disk.version = 0 /\ holder' = p
             /\ pending' = Stage(SchemaVersion, disk.index)
             /\ opening' = [opening EXCEPT ![p] = "index"] /\ todo' = todo
    <3>1. pending' \in [version : Nat, index : BOOLEAN] /\ pending'.version = SchemaVersion
      BY <1>1, <2>5 DEF Stage
    <3>2. SchemaTypeOK'
      BY <1>1, <2>1, <2>5, <3>1 DEF SchemaInv, SchemaTypeOK
    <3>3. Complete
      BY <1>1, <2>2, <2>4, <2>5, PartsAre DEF Complete
    <3>4. opening'[p] = "index"
      BY <1>1, <2>5
    <3>5. OpeningIs(p)'
      BY <2>1, <2>5, <3>1, <3>3, <3>4 DEF OpeningIs, Complete, Current
    <3> QED BY <1>3, <2>3, <3>2, <3>5
  <2>6. CASE /\ disk.version # 0 /\ ~supported(disk.version)
             /\ opening' = [opening EXCEPT ![p] = "refused"]
             /\ UNCHANGED <<pending, holder, todo>>
    <3>1. disk.version > SchemaVersion
      BY <1>1, <2>6 DEF supported
    <3>2. SchemaTypeOK'
      BY <1>1, <2>1, <2>6 DEF SchemaInv, SchemaTypeOK
    <3>3. opening'[p] = "refused"
      BY <1>1, <2>6
    <3>4. OpeningIs(p)'
      BY <2>1, <2>6, <3>1, <3>3 DEF OpeningIs
    <3> QED BY <1>3, <2>3, <3>2, <3>4
  <2>7. CASE /\ disk.version # 0 /\ supported(disk.version)
             /\ todo' = [todo EXCEPT ![p] =
                  {i \in DOMAIN Columns : is_missing(Columns[i], disk.version)}]
             /\ opening' = [opening EXCEPT ![p] = "columns"]
             /\ UNCHANGED <<pending, holder>>
    <3>1. {i \in DOMAIN Columns : is_missing(Columns[i], disk.version)}
            = {i \in 1..6 : Columns[i] \notin disk.parts}
      BY <2>4, PartsAre DEF is_missing
    <3>2. todo' \in [Openers -> SUBSET (1..6)]
          /\ todo'[p] = {i \in 1..6 : Columns[i] \notin disk.parts}
      BY <1>1, <2>7, <3>1
    <3>3. SchemaTypeOK'
      BY <1>1, <2>1, <2>7, <3>2, PartsAre DEF SchemaInv, SchemaTypeOK
    <3>4. opening'[p] = "columns" /\ disk.version > 0
      BY <1>1, <2>7
    <3>5. OpeningIs(p)'
      BY <2>1, <2>2, <2>7, <3>2, <3>4 DEF OpeningIs
    <3> QED BY <1>3, <2>3, <3>3, <3>5
  <2> QED BY <1>6, <2>1, <2>5, <2>6, <2>7 DEF ReadVersion, goes
<1>7. ASSUME NEW p \in Openers, AddColumn(p) PROVE SchemaInv'
  <2>1. /\ opening[p] = "columns" /\ UNCHANGED <<pending, holder>> /\ holder = Nobody
        /\ TableNames \subseteq disk.parts /\ disk.version > 0
        /\ todo[p] = {i \in 1..6 : Columns[i] \notin disk.parts}
    BY <1>2, <1>7 DEF AddColumn, OpeningIs
  <2>2. PICK i \in todo[p] :
          IF Columns[i] \in disk.parts
          THEN goes(p, "refused") /\ UNCHANGED <<disk, todo>>
          ELSE /\ disk' = [disk EXCEPT !.parts = @ \cup {Columns[i]}]
               /\ todo' = [todo EXCEPT ![p] = @ \ {i}]
               /\ UNCHANGED opening
    BY <1>7 DEF AddColumn
  <2>3. i \in 1..6 /\ Columns[i] \notin disk.parts
    BY <2>1
  <2>4. PICK c \in ColumnNames : c = Columns[i]
    BY <2>3, PartsAre
  <2>5. /\ disk' = [disk EXCEPT !.parts = @ \cup {c}]
        /\ todo' = [todo EXCEPT ![p] = @ \ {i}] /\ opening' = opening
    BY <2>2, <2>3, <2>4
  <2>6. /\ disk' \in [version : Nat, parts : SUBSET DOMAIN Since, index : BOOLEAN, copies : 0..2]
        /\ disk'.parts = disk.parts \cup {c}
        /\ disk'.version = disk.version /\ disk'.index = disk.index /\ disk'.copies = disk.copies
    BY <1>1, <2>5, PartsAre
  <2>7. todo' \in [Openers -> SUBSET (1..6)] /\ todo'[p] = todo[p] \ {i}
    BY <1>1, <2>5
  <2>8. SchemaTypeOK'
    BY <1>1, <2>1, <2>5, <2>6, <2>7, PartsAre DEF SchemaInv, SchemaTypeOK
  <2>9. FileIs'
    <3>1. \A d \in ColumnNames : table_of(d) # c
      BY TablesAreNoColumns
    <3> QED BY <1>2, <2>6, <3>1 DEF FileIs
  <2>10. todo'[p] = {j \in 1..6 : Columns[j] \notin disk'.parts}
    BY <2>1, <2>3, <2>4, <2>6, <2>7, PartsAre
  <2>11. OpeningIs(p)'
    BY <2>1, <2>5, <2>6, <2>10 DEF OpeningIs
  <2> QED BY <1>3, <2>8, <2>9, <2>11
<1>8. ASSUME NEW p \in Openers, WriteVersion(p) PROVE SchemaInv'
  <2>1. /\ opening[p] = "columns" /\ todo[p] = {} /\ disk' = disk /\ todo' = todo
        /\ opening' = [opening EXCEPT ![p] = "index"]
    BY <1>8 DEF WriteVersion, goes
  <2>2. /\ holder = Nobody /\ TableNames \subseteq disk.parts
        /\ \A i \in 1..6 : Columns[i] \in disk.parts
    BY <1>2, <2>1 DEF OpeningIs
  <2>3. Complete
    BY <1>1, <2>2, PartsAre DEF Complete
  <2>4. /\ pending' \in [version : Nat, index : BOOLEAN] /\ holder' \in Openers \cup {Nobody}
        /\ \/ holder' = p /\ pending'.version = SchemaVersion
           \/ holder' = Nobody /\ disk.version = SchemaVersion
    <3>1. CASE /\ disk.version # SchemaVersion /\ holder = Nobody
               /\ holder' = p /\ pending' = Stage(SchemaVersion, disk.index)
      BY <1>1, <3>1 DEF Stage
    <3>2. CASE disk.version = SchemaVersion /\ UNCHANGED <<holder, pending>>
      BY <1>1, <2>2, <3>2
    <3> QED BY <1>8, <3>1, <3>2 DEF WriteVersion
  <2>5. SchemaTypeOK'
    BY <1>1, <2>1, <2>4 DEF SchemaInv, SchemaTypeOK
  <2>6. FileIs'
    BY <1>2, <2>1 DEF FileIs
  <2>7. opening'[p] = "index"
    BY <1>1, <2>1
  <2>8. OpeningIs(p)'
    BY <2>1, <2>3, <2>4, <2>7 DEF OpeningIs, Complete, Current
  <2> QED BY <1>3, <2>5, <2>6, <2>8
(* The index is set in the transaction, or at once.                        *)
<1>9. ASSUME NEW p \in Openers, NEW there \in BOOLEAN, set_index(p, there), Current(p),
             UNCHANGED <<holder, todo>>
      PROVE  /\ disk' \in [version : Nat, parts : SUBSET DOMAIN Since, index : BOOLEAN, copies : 0..2]
             /\ pending' \in [version : Nat, index : BOOLEAN]
             /\ disk'.parts = disk.parts /\ disk'.version = disk.version
             /\ disk'.copies = disk.copies
             /\ Current(p)' /\ indexed(p)' = there
  <2>1. CASE holder = p
    <3>1. pending' = [pending EXCEPT !.index = there] /\ disk' = disk
      BY <1>9, <2>1 DEF set_index
    <3>2. /\ pending' \in [version : Nat, index : BOOLEAN]
          /\ pending'.version = pending.version /\ pending'.index = there
      BY <1>1, <3>1
    <3> QED BY <1>1, <1>9, <2>1, <3>1, <3>2 DEF Current, indexed
  <2>2. CASE holder # p
    <3>1. disk' = [disk EXCEPT !.index = there] /\ pending' = pending
      BY <1>9, <2>2 DEF set_index
    <3>2. /\ disk' \in [version : Nat, parts : SUBSET DOMAIN Since, index : BOOLEAN, copies : 0..2]
          /\ disk'.parts = disk.parts /\ disk'.version = disk.version
          /\ disk'.copies = disk.copies /\ disk'.index = there
      BY <1>1, <3>1
    <3> QED BY <1>1, <1>9, <2>2, <3>1, <3>2 DEF Current, indexed
  <2> QED BY <2>1, <2>2
<1>10. ASSUME NEW p \in Openers, DropIndex(p) PROVE SchemaInv'
  <2>1. /\ opening[p] = "index" /\ set_index(p, FALSE) /\ UNCHANGED <<holder, todo>>
        /\ opening' = [opening EXCEPT ![p] = "unique"]
    BY <1>10 DEF DropIndex, goes
  <2>2. Complete /\ Current(p)
    BY <1>2, <2>1 DEF OpeningIs
  <2>3. /\ disk' \in [version : Nat, parts : SUBSET DOMAIN Since, index : BOOLEAN, copies : 0..2]
        /\ pending' \in [version : Nat, index : BOOLEAN]
        /\ disk'.parts = disk.parts /\ disk'.version = disk.version
        /\ disk'.copies = disk.copies
        /\ Current(p)' /\ indexed(p)' = FALSE
    BY <1>9, <2>1, <2>2
  <2>4. SchemaTypeOK'
    BY <1>1, <2>1, <2>3 DEF SchemaInv, SchemaTypeOK
  <2>5. FileIs'
    BY <1>2, <2>3 DEF FileIs
  <2>6. opening'[p] = "unique"
    BY <1>1, <2>1
  <2>7. OpeningIs(p)'
    BY <2>2, <2>3, <2>6 DEF OpeningIs, Complete
  <2> QED BY <1>3, <2>4, <2>5, <2>7
<1>11. ASSUME NEW p \in Openers, CreateIndex(p) PROVE SchemaInv'
  <2>1. opening[p] = "unique" /\ todo' = todo /\ Complete /\ Current(p) /\ ~indexed(p)
    BY <1>2, <1>11 DEF CreateIndex, OpeningIs
  <2>2. can_index(p)
    BY <1>2, <2>1, PartsAre DEF can_index, Complete, FileIs, ColumnNames
  <2>3. /\ set_index(p, TRUE) /\ UNCHANGED <<holder, todo>>
        /\ opening' = [opening EXCEPT ![p] = "commit"]
    BY <1>11, <2>2 DEF CreateIndex, goes
  <2>4. /\ disk' \in [version : Nat, parts : SUBSET DOMAIN Since, index : BOOLEAN, copies : 0..2]
        /\ pending' \in [version : Nat, index : BOOLEAN]
        /\ disk'.parts = disk.parts /\ disk'.version = disk.version
        /\ disk'.copies = disk.copies
        /\ Current(p)' /\ indexed(p)' = TRUE
    BY <1>9, <2>1, <2>3
  <2>5. SchemaTypeOK'
    BY <1>1, <2>3, <2>4 DEF SchemaInv, SchemaTypeOK
  <2>6. FileIs'
    BY <1>2, <2>4 DEF FileIs
  <2>7. opening'[p] = "commit"
    BY <1>1, <2>3
  <2>8. OpeningIs(p)'
    BY <2>1, <2>4, <2>7 DEF OpeningIs, Complete
  <2> QED BY <1>3, <2>5, <2>6, <2>8
<1>12. ASSUME NEW p \in Openers, Commit(p) PROVE SchemaInv'
  <2>1. /\ opening[p] = "commit" /\ opening' = [opening EXCEPT ![p] = "open"]
        /\ holder' = (IF holder = p THEN Nobody ELSE holder)
        /\ UNCHANGED <<pending, todo>>
    BY <1>12 DEF Commit, goes
  <2>2. Complete /\ Current(p) /\ indexed(p)
    BY <1>2, <2>1 DEF OpeningIs
  <2>3. holder' = Nobody
    BY <2>1, <2>2 DEF Current
  <2>4. /\ disk' \in [version : Nat, parts : SUBSET DOMAIN Since, index : BOOLEAN, copies : 0..2]
        /\ disk'.version = SchemaVersion /\ disk'.index /\ disk'.parts = disk.parts
        /\ disk'.copies = disk.copies
    <3>1. CASE holder = p
      <4>1. disk' = [disk EXCEPT !.version = pending.version, !.index = pending.index]
        BY <1>12, <3>1 DEF Commit
      <4>2. pending.version = SchemaVersion /\ pending.index
        BY <1>1, <2>2, <3>1 DEF Current, indexed
      <4> QED BY <1>1, <4>1, <4>2
    <3>2. CASE holder # p
      <4>1. disk' = disk
        BY <1>12, <3>2 DEF Commit
      <4> QED BY <1>1, <2>2, <3>2, <4>1 DEF Current, indexed
    <3> QED BY <3>1, <3>2
  <2>5. SchemaTypeOK'
    BY <1>1, <2>1, <2>3, <2>4 DEF SchemaInv, SchemaTypeOK
  <2>6. FileIs'
    BY <1>2, <2>2, <2>4, PartsAre DEF FileIs, Complete
  <2>7. opening'[p] = "open"
    BY <1>1, <2>1
  <2>8. OpeningIs(p)'
    BY <2>2, <2>3, <2>4, <2>7 DEF OpeningIs, Complete
  <2> QED BY <1>3, <2>5, <2>6, <2>8
<1>13. ASSUME NEW p \in Openers, Insert(p) PROVE SchemaInv'
  <2>1. /\ opening[p] = "open" /\ UNCHANGED <<pending, holder, opening, todo>>
        /\ disk' = [disk EXCEPT !.copies = IF disk.index THEN 1 ELSE @ + 1]
    BY <1>13 DEF Insert
  <2>2. Complete /\ disk.index /\ disk.version = SchemaVersion /\ holder = Nobody
    BY <1>2, <2>1 DEF OpeningIs
  <2>3. /\ disk' \in [version : Nat, parts : SUBSET DOMAIN Since, index : BOOLEAN, copies : 0..2]
        /\ disk'.version = SchemaVersion /\ disk'.index /\ disk'.parts = disk.parts
        /\ disk'.copies = 1
    BY <1>1, <2>1, <2>2
  <2>4. SchemaTypeOK'
    BY <2>1, <2>3 DEF SchemaInv, SchemaTypeOK
  <2>5. FileIs'
    BY <2>2, <2>3, PartsAre DEF FileIs, Complete
  <2>6. OpeningIs(p)'
    BY <2>1, <2>2, <2>3 DEF OpeningIs, Complete
  <2> QED BY <1>3, <2>4, <2>5, <2>6
<1>14. ASSUME NEW p \in Openers, Stop(p) PROVE SchemaInv'
  <2>1. /\ opening' = [opening EXCEPT ![p] = "out"] /\ todo' = [todo EXCEPT ![p] = {}]
        /\ holder' = (IF holder = p THEN Nobody ELSE holder)
        /\ UNCHANGED <<disk, pending>>
    BY <1>14 DEF Stop, goes
  <2>2. holder' = Nobody
    BY <1>1, <2>1 DEF OneOpener
  <2>3. SchemaTypeOK'
    <3>1. todo' \in [Openers -> SUBSET (1..6)]
      BY <1>1, <2>1
    <3> QED BY <1>1, <2>1, <2>2, <3>1, PartsAre DEF SchemaInv, SchemaTypeOK
  <2>4. FileIs'
    BY <1>2, <2>1 DEF FileIs
  <2>5. opening'[p] = "out"
    BY <1>1, <2>1
  <2>6. OpeningIs(p)'
    BY <2>2, <2>5 DEF OpeningIs
  <2> QED BY <1>3, <2>3, <2>4, <2>6
<1>15. CASE UNCHANGED schemaVars
  <2>1. FileIs' /\ SchemaTypeOK'
    BY <1>2, <1>15 DEF schemaVars, FileIs, SchemaInv, SchemaTypeOK
  <2>2. \A p \in Openers : OpeningIs(p)'
    BY <1>2, <1>15 DEF schemaVars, OpeningIs, Complete, Current, indexed
  <2> QED BY <2>1, <2>2 DEF SchemaInv
<1> QED BY <1>4, <1>5, <1>6, <1>7, <1>8, <1>10, <1>11, <1>12, <1>13, <1>14, <1>15 DEF SchemaNext

(* Of any age, and however often openings died between two statements: one *)
(* process at a time ends with every table and column of its version, or   *)
(* refuses a file of a later one (ChatStore._create_schema).               *)
THEOREM OpeningIsCurrent ==
  ASSUME OneOpener
  PROVE  SchemaSpec => []OpensAsCurrent
<1>1. SchemaSpec => []SchemaInv
  BY SchemaInitHolds, SchemaStepHolds, PTL DEF SchemaSpec
<1>2. SchemaInv => OpensAsCurrent
  BY DEF SchemaInv, OpeningIs, Complete, OpensAsCurrent
<1> QED BY <1>1, <1>2, PTL

(* And a packet is then stored once: the index is there whenever the store *)
(* is open (add_incoming's INSERT OR IGNORE).                              *)
THEOREM OnePacketOneRow ==
  ASSUME OneOpener
  PROVE  SchemaSpec => []PacketIsStoredOnce
<1>1. SchemaSpec => []SchemaInv
  BY SchemaInitHolds, SchemaStepHolds, PTL DEF SchemaSpec
<1>2. SchemaInv => PacketIsStoredOnce
  BY DEF SchemaInv, FileIs, PacketIsStoredOnce
<1> QED BY <1>1, <1>2, PTL

-----------------------------------------------------------------------------
(* NodeActions.                                                            *)

(* What is posted did happen, and only requests that were made go on.      *)
Requests ==
  /\ posted \subseteq happened
  /\ \A t \in senders \cup waiting \cup timers : traced[t] # NoNode
  /\ \A o \in posted : traced[o.token] # NoNode

(* A node was asked for twice in a row.                                    *)
Confirmed(n, p) == \E i \in 2..Len(p) : p[i - 1] = n /\ p[i] = n

(* The armed node is the last that was pressed; a removal on its way was   *)
(* confirmed.                                                              *)
Presses ==
  /\ armed # NoNode => Len(presses) > 0 /\ presses[Len(presses)] = armed
  /\ \A n \in removers \cup (Nodes \ nodedb) : Confirmed(n, presses)

(* Outcomes are told apart by token and kind.                              *)
LEMMA OutcomeType ==
  ASSUME NEW t \in Tokens, NEW how \in {"route", "refused", "failed", "expired"}
  PROVE  /\ Outcome(t, how) \in Outcomes
         /\ Outcome(t, how).token = t /\ Outcome(t, how).how = how
BY DEF Outcome, Outcomes

(* The steps of a trace, for the types of its state.                       *)
TraceTypes ==
  /\ traced \in [Tokens -> Known] /\ active \in 0..MaxTraces
  /\ senders \subseteq Tokens /\ waiting \subseteq Tokens /\ timers \subseteq Tokens
  /\ posted \subseteq Outcomes /\ happened \subseteq Outcomes
  /\ banner \in [token : 0..MaxTraces, how : {"none", "succeeded", "failed"}]
  /\ routes \in [Nodes -> 0..MaxTraces]
RemoveTypes ==
  /\ nodedb \subseteq Nodes /\ armed \in Known
  /\ removers \subseteq Nodes /\ presses \in Seq(Known)

LEMMA TypesSplit == NodesTypeOK <=> TraceTypes /\ RemoveTypes
BY DEF NodesTypeOK, TraceTypes, RemoveTypes

LEMMA RemoveStays ==
  ASSUME RemoveTypes, UNCHANGED removeVars
  PROVE  RemoveTypes' /\ (Presses => Presses')
BY DEF RemoveTypes, removeVars, Presses

LEMMA TraceStays ==
  ASSUME TraceTypes, UNCHANGED traceVars
  PROVE  TraceTypes' /\ (Requests => Requests') /\ (TraceEndsAsItself => TraceEndsAsItself')
BY DEF TraceTypes, traceVars, Requests, TraceEndsAsItself

LEMMA StartKeeps ==
  ASSUME TraceTypes, Requests, TraceEndsAsItself, NEW node \in Nodes, StartTraceroute(node)
  PROVE  TraceTypes' /\ Requests' /\ TraceEndsAsItself'
<1>1. PICK t \in Unused :
        /\ traced' = [traced EXCEPT ![t] = node]
        /\ active' = t /\ senders' = senders \cup {t} /\ timers' = timers \cup {t}
        /\ banner' = NoBanner /\ UNCHANGED <<waiting, posted, happened, routes>>
  BY DEF StartTraceroute
<1>2. t \in Tokens /\ traced[t] = NoNode /\ t \in 1..MaxTraces
  BY DEF Unused, Tokens
<1>3. node \in Known /\ node # NoNode
  BY NodeActionsAssumption DEF Known
<1>4. TraceTypes'
  <2>1. traced' \in [Tokens -> Known] /\ active' \in 0..MaxTraces
    BY <1>1, <1>2, <1>3, NodeActionsAssumption DEF TraceTypes
  <2>2. banner' \in [token : 0..MaxTraces, how : {"none", "succeeded", "failed"}]
    BY <1>1, NodeActionsAssumption DEF NoBanner, Outcome
  <2>3. senders' \subseteq Tokens /\ timers' \subseteq Tokens
    BY <1>1, <1>2 DEF TraceTypes
  <2> QED BY <1>1, <2>1, <2>2, <2>3 DEF TraceTypes
<1>5. \A u \in Tokens : traced[u] # NoNode => traced'[u] = traced[u]
  BY <1>1, <1>2 DEF TraceTypes
<1>6. traced'[t] = node
  BY <1>1, <1>2 DEF TraceTypes
<1>7. Requests'
  <2>1. posted' \subseteq happened'
    BY <1>1 DEF Requests
  <2>2. \A u \in senders' \cup waiting' \cup timers' : traced'[u] # NoNode
    BY <1>1, <1>3, <1>5, <1>6 DEF Requests, TraceTypes
  <2>3. \A o \in posted' : traced'[o.token] # NoNode
    BY <1>1, <1>5 DEF Requests, TraceTypes, Outcomes
  <2> QED BY <2>1, <2>2, <2>3 DEF Requests
<1>8. TraceEndsAsItself'
  <2>1. \A n \in Nodes : routes[n] # 0 => routes[n] \in Tokens /\ traced[routes[n]] = n
                                         /\ n # NoNode
    BY NodeActionsAssumption DEF TraceEndsAsItself, TraceTypes, Tokens
  <2>2. banner'.how = "none"
    BY <1>1 DEF NoBanner, Outcome
  <2>3. active' \in timers'
    BY <1>1
  <2> QED BY <1>1, <1>5, <2>1, <2>2, <2>3 DEF TraceEndsAsItself
<1> QED BY <1>4, <1>7, <1>8

LEMMA TraceSendKeeps ==
  ASSUME TraceTypes, Requests, TraceEndsAsItself, NEW t \in Tokens, SendTraceroute(t)
  PROVE  TraceTypes' /\ Requests' /\ TraceEndsAsItself'
<1>1. /\ t \in senders /\ senders' = senders \ {t}
      /\ UNCHANGED <<traced, active, timers, banner, routes>>
  BY DEF SendTraceroute
<1>2. CASE waiting' = waiting \cup {t} /\ UNCHANGED <<posted, happened>>
  BY <1>1, <1>2 DEF TraceTypes, Requests, TraceEndsAsItself
<1>3. CASE /\ posted' = posted \cup {Outcome(t, "failed")}
           /\ happened' = happened \cup {Outcome(t, "failed")} /\ UNCHANGED waiting
  <2>1. Outcome(t, "failed") \in Outcomes /\ Outcome(t, "failed").token = t
    BY OutcomeType
  <2>2. TraceTypes'
    BY <1>1, <1>3, <2>1 DEF TraceTypes
  <2>3. Requests'
    BY <1>1, <1>3, <2>1 DEF Requests
  <2>4. TraceEndsAsItself'
    BY <1>1, <1>3 DEF TraceEndsAsItself
  <2> QED BY <2>2, <2>3, <2>4
<1> QED BY <1>2, <1>3 DEF SendTraceroute

LEMMA AnswerKeeps ==
  ASSUME TraceTypes, Requests, TraceEndsAsItself, NEW t \in Tokens,
         NEW how \in {"route", "refused"}, AnswerTraceroute(t, how)
  PROVE  TraceTypes' /\ Requests' /\ TraceEndsAsItself'
<1>1. /\ t \in waiting /\ waiting' = waiting \ {t}
      /\ posted' = posted \cup {Outcome(t, how)}
      /\ happened' = happened \cup {Outcome(t, how)}
      /\ UNCHANGED <<traced, active, senders, timers, banner, routes>>
  BY DEF AnswerTraceroute
<1>2. Outcome(t, how) \in Outcomes /\ Outcome(t, how).token = t
  BY OutcomeType
<1>3. TraceTypes'
  BY <1>1, <1>2 DEF TraceTypes
<1>4. Requests'
  BY <1>1, <1>2 DEF Requests
<1>5. TraceEndsAsItself'
  BY <1>1 DEF TraceEndsAsItself
<1> QED BY <1>3, <1>4, <1>5

(* An outcome ends the trace it belongs to and no other.                   *)
LEMMA OutcomeKeeps ==
  ASSUME TraceTypes, Requests, TraceEndsAsItself, NEW o \in posted, TracerouteOutcome(o)
  PROVE  TraceTypes' /\ Requests' /\ TraceEndsAsItself'
<1>1. /\ posted' = posted \ {o}
      /\ UNCHANGED <<traced, senders, waiting, happened>>
  BY DEF TracerouteOutcome
<1>2. /\ o \in happened /\ o \in Outcomes /\ o.token \in Tokens
      /\ o.how \in {"route", "refused", "failed", "expired"}
      /\ o = Outcome(o.token, o.how) /\ traced[o.token] \in Nodes
  <2>1. o \in happened /\ o \in Outcomes
    BY DEF Requests, TraceTypes
  <2>2. /\ o.token \in Tokens /\ o.how \in {"route", "refused", "failed", "expired"}
        /\ o = Outcome(o.token, o.how)
    BY <2>1 DEF Outcomes, Outcome
  <2>3. traced[o.token] \in Nodes
    BY <2>2 DEF Requests, TraceTypes, Known
  <2> QED BY <2>1, <2>2, <2>3
<1>3. CASE ~is_active(o.token)
  <2>1. UNCHANGED <<banner, routes, active, timers>>
    BY <1>3 DEF TracerouteOutcome
  <2> QED BY <1>1, <2>1 DEF TraceTypes, Requests, TraceEndsAsItself
<1>4. CASE is_active(o.token)
  <2>1. /\ banner' = Outcome(active, IF o.how = "route" THEN "succeeded" ELSE "failed")
        /\ routes' = IF o.how = "route" THEN [routes EXCEPT ![traced[o.token]] = o.token]
                     ELSE routes
        /\ active' = 0 /\ timers' \in {timers, timers \ {active}}
        /\ active = o.token
    BY <1>4 DEF TracerouteOutcome, evidence, Clear, is_active
  <2>2. banner'.token = o.token
        /\ banner'.how = IF o.how = "route" THEN "succeeded" ELSE "failed"
    BY <2>1 DEF Outcome
  <2>3. banner' \in [token : 0..MaxTraces, how : {"none", "succeeded", "failed"}]
    BY <1>2, <2>1, NodeActionsAssumption DEF Outcome, Tokens
  <2>4. routes' \in [Nodes -> 0..MaxTraces]
    BY <1>2, <2>1, NodeActionsAssumption DEF TraceTypes, Tokens
  <2>5. TraceTypes'
    BY <1>1, <2>1, <2>3, <2>4, NodeActionsAssumption DEF TraceTypes
  <2>6. Requests'
    BY <1>1, <2>1 DEF Requests
  <2>7. \A n \in Nodes : routes'[n] # 0 =>
          traced[routes'[n]] = n /\ Outcome(routes'[n], "route") \in happened
    <3> TAKE n \in Nodes
    <3>1. CASE o.how = "route" /\ n = traced[o.token]
      <4>1. routes'[n] = o.token
        BY <1>2, <2>1, <3>1 DEF TraceTypes
      <4> QED BY <1>2, <3>1, <4>1
    <3>2. CASE ~(o.how = "route" /\ n = traced[o.token])
      <4>1. routes'[n] = routes[n]
        BY <1>2, <2>1, <3>2 DEF TraceTypes
      <4> QED BY <4>1 DEF TraceEndsAsItself
    <3> QED BY <3>1, <3>2
  <2>8. /\ banner'.how = "succeeded" => Outcome(banner'.token, "route") \in happened
        /\ banner'.how = "failed" =>
             \E how \in {"refused", "failed", "expired"} :
               Outcome(banner'.token, how) \in happened
    BY <1>2, <2>2
  <2>9. TraceEndsAsItself'
    BY <1>1, <2>1, <2>7, <2>8 DEF TraceEndsAsItself
  <2> QED BY <2>5, <2>6, <2>9
<1> QED BY <1>3, <1>4

LEMMA TimeOutKeeps ==
  ASSUME TraceTypes, Requests, TraceEndsAsItself, NEW t \in Tokens, TracerouteTimedOut(t)
  PROVE  TraceTypes' /\ Requests' /\ TraceEndsAsItself'
<1>1. /\ t \in timers /\ timers' = timers \ {t}
      /\ happened' = happened \cup {Outcome(t, "expired")}
      /\ UNCHANGED <<traced, senders, waiting, posted, routes>>
  BY DEF TracerouteTimedOut
<1>2. Outcome(t, "expired") \in Outcomes
  BY OutcomeType
<1>3. Requests'
  BY <1>1 DEF Requests
<1>4. CASE ~is_active(t)
  <2>1. UNCHANGED <<active, banner>> /\ active # t
    <3>1. t # 0
      BY NodeActionsAssumption DEF Tokens
    <3> QED BY <1>4, <3>1 DEF TracerouteTimedOut, is_active
  <2>2. TraceTypes'
    BY <1>1, <1>2, <2>1 DEF TraceTypes
  <2>3. TraceEndsAsItself'
    BY <1>1, <2>1 DEF TraceEndsAsItself
  <2> QED BY <1>3, <2>2, <2>3
<1>5. CASE is_active(t)
  <2>1. active' = 0 /\ banner' = Outcome(t, "failed")
    BY <1>5 DEF TracerouteTimedOut, is_active
  <2>2. banner'.token = t /\ banner'.how = "failed"
    BY <2>1 DEF Outcome
  <2>3. banner' \in [token : 0..MaxTraces, how : {"none", "succeeded", "failed"}]
    BY <2>1, NodeActionsAssumption DEF Outcome, Tokens
  <2>4. TraceTypes'
    BY <1>1, <1>2, <2>1, <2>3, NodeActionsAssumption DEF TraceTypes
  <2>5. TraceEndsAsItself'
    BY <1>1, <2>1, <2>2 DEF TraceEndsAsItself
  <2> QED BY <1>3, <2>4, <2>5
<1> QED BY <1>4, <1>5

LEMMA DismissKeeps ==
  ASSUME TraceTypes, Requests, TraceEndsAsItself, DismissBanner
  PROVE  TraceTypes' /\ Requests' /\ TraceEndsAsItself'
<1>1. /\ banner' = NoBanner
      /\ UNCHANGED <<traced, active, senders, waiting, timers, posted, happened, routes>>
  BY DEF DismissBanner
<1>2. /\ banner' \in [token : 0..MaxTraces, how : {"none", "succeeded", "failed"}]
      /\ banner'.how = "none"
  BY <1>1, NodeActionsAssumption DEF NoBanner, Outcome
<1> QED BY <1>1, <1>2 DEF TraceTypes, Requests, TraceEndsAsItself

LEMMA HideKeeps ==
  ASSUME TraceTypes, Requests, TraceEndsAsItself, NodesHide
  PROVE  TraceTypes' /\ Requests' /\ TraceEndsAsItself'
<1>1. UNCHANGED <<traced, senders, waiting, posted, happened, banner, routes>>
  BY DEF NodesHide
<1>2. \/ active' = active /\ timers' = timers
      \/ active' = 0 /\ timers' \in {timers, timers \ {active}}
  BY DEF NodesHide, Clear
<1>3. TraceTypes'
  BY <1>1, <1>2, NodeActionsAssumption DEF TraceTypes
<1>4. Requests' /\ TraceEndsAsItself'
  BY <1>1, <1>2 DEF Requests, TraceEndsAsItself
<1> QED BY <1>3, <1>4

(* The steps of a removal.                                                 *)
LEMMA PressLast ==
  ASSUME NEW p \in Seq(Known), NEW n \in Known
  PROVE  /\ Append(p, n) \in Seq(Known) /\ Len(Append(p, n)) = Len(p) + 1
         /\ Append(p, n)[Len(p) + 1] = n
         /\ \A i \in 1..Len(p) : Append(p, n)[i] = p[i]
         /\ Len(p) \in Nat
OBVIOUS

LEMMA ConfirmedStays ==
  ASSUME NEW p \in Seq(Known), NEW n \in Known, NEW m, Confirmed(m, p)
  PROVE  Confirmed(m, Append(p, n))
<1>1. PICK i \in 2..Len(p) : p[i - 1] = m /\ p[i] = m
  BY DEF Confirmed
<1>2. Len(p) \in Nat /\ i - 1 \in 1..Len(p) /\ i \in 1..Len(p)
  BY PressLast
<1>3. Append(p, n)[i - 1] = m /\ Append(p, n)[i] = m /\ i \in 2..Len(Append(p, n))
  BY <1>1, <1>2, PressLast
<1> QED BY <1>3 DEF Confirmed

LEMMA PressKeeps ==
  ASSUME RemoveTypes, Presses, NEW node \in Nodes, RequestNodeRemove(node)
  PROVE  RemoveTypes' /\ Presses'
<1>1. presses' = Append(presses, node) /\ UNCHANGED nodedb
  BY DEF RequestNodeRemove
<1>2. node \in Known /\ node # NoNode /\ presses \in Seq(Known)
  BY NodeActionsAssumption DEF Known, RemoveTypes
<1>3. /\ presses' \in Seq(Known) /\ Len(presses') = Len(presses) + 1 /\ Len(presses) \in Nat
      /\ presses'[Len(presses) + 1] = node
      /\ \A i \in 1..Len(presses) : presses'[i] = presses[i]
  BY <1>1, <1>2, PressLast
<1>4. \A n \in removers \cup (Nodes \ nodedb) : Confirmed(n, presses')
  BY <1>1, <1>2, ConfirmedStays DEF Presses
<1>5. CASE armed # node
  <2>1. armed' = node /\ removers' = removers
    BY <1>5 DEF RequestNodeRemove, is_armed
  <2> QED BY <1>1, <1>2, <1>3, <1>4, <2>1 DEF RemoveTypes, Presses
<1>6. CASE armed = node
  <2>1. armed' = NoNode /\ removers' \subseteq removers \cup {node}
    BY <1>6 DEF RequestNodeRemove, is_armed
  <2>2. Len(presses) > 0 /\ presses[Len(presses)] = node
    BY <1>2, <1>6 DEF Presses
  <2>3. Confirmed(node, presses')
    <3>1. /\ Len(presses) + 1 \in 2..Len(presses')
          /\ presses'[Len(presses) + 1] = node
          /\ presses'[(Len(presses) + 1) - 1] = node
      BY <1>3, <2>2
    <3> QED BY <3>1 DEF Confirmed
  <2>4. RemoveTypes'
    BY <1>1, <1>3, <2>1 DEF RemoveTypes, Known
  <2>5. Presses'
    BY <1>1, <1>4, <2>1, <2>3 DEF Presses
  <2> QED BY <2>4, <2>5
<1> QED BY <1>5, <1>6

LEMMA ExpiryKeeps ==
  ASSUME RemoveTypes, Presses, NodeRemoveConfirmExpired
  PROVE  RemoveTypes' /\ Presses'
<1>1. /\ armed' = NoNode /\ presses' = Append(presses, NoNode)
      /\ UNCHANGED <<nodedb, removers>>
  BY DEF NodeRemoveConfirmExpired
<1>2. NoNode \in Known /\ presses \in Seq(Known)
  BY DEF Known, RemoveTypes
<1>3. presses' \in Seq(Known)
  BY <1>1, <1>2, PressLast
<1>4. \A n \in removers \cup (Nodes \ nodedb) : Confirmed(n, presses')
  BY <1>1, <1>2, ConfirmedStays DEF Presses
<1> QED BY <1>1, <1>2, <1>3, <1>4 DEF RemoveTypes, Presses

LEMMA RemoveKeeps ==
  ASSUME RemoveTypes, Presses, NEW node \in Nodes, RemoveNode(node)
  PROVE  RemoveTypes' /\ Presses'
<1>1. /\ node \in removers /\ removers' = removers \ {node}
      /\ nodedb' = nodedb \/ nodedb' = nodedb \ {node}
      /\ UNCHANGED <<armed, presses>>
  BY DEF RemoveNode
<1> QED BY <1>1 DEF RemoveTypes, Presses

-----------------------------------------------------------------------------
NodesInv == TraceTypes /\ RemoveTypes /\ Requests /\ TraceEndsAsItself /\ Presses

LEMMA NodesInitHolds == LinkInit /\ NodesInit => NodesInv
<1> SUFFICES ASSUME NodesInit PROVE NodesInv
  OBVIOUS
<1>1. TraceTypes
  BY NodeActionsAssumption DEF NodesInit, TraceTypes, Known, NoBanner, Outcome
<1>2. RemoveTypes
  BY DEF NodesInit, RemoveTypes, Known
<1>3. Requests
  BY DEF NodesInit, Requests
<1>4. TraceEndsAsItself
  BY DEF NodesInit, TraceEndsAsItself, NoBanner, Outcome
<1>5. Presses
  BY DEF NodesInit, Presses
<1> QED BY <1>1, <1>2, <1>3, <1>4, <1>5 DEF NodesInv

LEMMA NodesStepHolds == NodesInv /\ [NodesNext]_<<linkVars, nodeVars>> => NodesInv'
<1> SUFFICES ASSUME NodesInv, [NodesNext]_<<linkVars, nodeVars>> PROVE NodesInv'
  OBVIOUS
<1> USE DEF NodesInv
<1>1. ASSUME UNCHANGED removeVars, TraceTypes', Requests', TraceEndsAsItself' PROVE NodesInv'
  BY <1>1, RemoveStays
<1>2. ASSUME UNCHANGED traceVars, RemoveTypes', Presses' PROVE NodesInv'
  BY <1>2, TraceStays
<1>3. ASSUME NEW node \in Nodes, StartTraceroute(node) PROVE NodesInv'
  BY <1>1, <1>3, StartKeeps DEF StartTraceroute
<1>4. ASSUME NEW t \in Tokens, SendTraceroute(t) PROVE NodesInv'
  BY <1>1, <1>4, TraceSendKeeps DEF SendTraceroute
<1>5. ASSUME NEW t \in Tokens, TracerouteTimedOut(t) PROVE NodesInv'
  BY <1>1, <1>5, TimeOutKeeps DEF TracerouteTimedOut
<1>6. ASSUME NEW t \in Tokens, NEW how \in {"route", "refused"}, AnswerTraceroute(t, how)
      PROVE  NodesInv'
  BY <1>1, <1>6, AnswerKeeps DEF AnswerTraceroute
<1>7. ASSUME NEW o \in posted, TracerouteOutcome(o) PROVE NodesInv'
  BY <1>1, <1>7, OutcomeKeeps DEF TracerouteOutcome
<1>8. CASE DismissBanner
  BY <1>1, <1>8, DismissKeeps DEF DismissBanner
<1>9. ASSUME NEW node \in Nodes, RequestNodeRemove(node) PROVE NodesInv'
  BY <1>2, <1>9, PressKeeps DEF RequestNodeRemove
<1>10. ASSUME NEW node \in Nodes, RemoveNode(node) PROVE NodesInv'
  BY <1>2, <1>10, RemoveKeeps DEF RemoveNode
<1>11. CASE NodeRemoveConfirmExpired
  BY <1>2, <1>11, ExpiryKeeps DEF NodeRemoveConfirmExpired
<1>12. CASE NodesHide
  BY <1>1, <1>12, HideKeeps DEF NodesHide
<1>13. CASE UNCHANGED nodeVars
  <2>1. UNCHANGED traceVars /\ UNCHANGED removeVars
    BY <1>13 DEF nodeVars
  <2> QED BY <2>1, RemoveStays, TraceStays
<1> QED BY <1>3, <1>4, <1>5, <1>6, <1>7, <1>8, <1>9, <1>10, <1>11, <1>12, <1>13 DEF NodesNext

(* Types hold.                                                             *)
THEOREM NodesTypeCorrect == NodesSpec => []NodesTypeOK
<1>1. NodesInv => NodesTypeOK
  BY TypesSplit DEF NodesInv
<1> QED BY <1>1, NodesInitHolds, NodesStepHolds, PTL DEF NodesSpec

(* No outcome, answer or timer that is late ends another trace than its    *)
(* own, for any number of requests.                                        *)
THEOREM TracesEndAsThemselves == NodesSpec => []TraceEndsAsItself
<1>1. NodesInv => TraceEndsAsItself
  BY DEF NodesInv
<1> QED BY <1>1, NodesInitHolds, NodesStepHolds, PTL DEF NodesSpec

(* Nothing is removed that was not asked for twice in a row.               *)
THEOREM RemovalsAreConfirmed == NodesSpec => []RemovedWhenConfirmed
<1>1. NodesInv => RemovedWhenConfirmed
  BY DEF NodesInv, Presses, Confirmed, RemovedWhenConfirmed
<1> QED BY <1>1, NodesInitHolds, NodesStepHolds, PTL DEF NodesSpec

-----------------------------------------------------------------------------
(* Encounters.                                                             *)

(* What was recorded of a node: the times, and those of the direct ones.   *)
sightingsOf(n, S) == {s \in S : s.node = n}
SeenOf(n, S) == {s.seen : s \in sightingsOf(n, S)}
HeardOf(n, S) == {s.seen : s \in {q \in sightingsOf(n, S) : q.direct}}

Sightings == [node : MeshNodes, seen : Times, direct : BOOLEAN, hops : Hops, named : BOOLEAN]

(* What a sweep skips later was a neighbour when it was recorded.          *)
DirectWasHeard ==
  \A n \in DOMAIN recorded :
    recorded[n].direct => n \in DOMAIN encountered /\ encountered[n].firstHeard # Never

PassesInv ==
  /\ PassesTypeOK
  /\ RecordIsWhole
  /\ DirectWasHeard
  /\ NeighboursAreHeard

(* One more time widens what the times of a row span; the first is both.   *)
LEMMA SpanOfOne ==
  ASSUME NEW t \in Times
  PROVE  spans(t, t, {t})
BY EncountersAssumption DEF spans, Times, Never

LEMMA SpanWidens ==
  ASSUME NEW T \in SUBSET Times, T # {}, NEW t \in Times,
         NEW first, NEW last, spans(first, last, T)
  PROVE  /\ first \in Times /\ last \in Times
         /\ spans(least(first, t), most(last, t), T \cup {t})
<1>1. first \in Times /\ last \in Times /\ first \in T /\ last \in T
  BY DEF spans
<1>2. \A u \in T : first <= u /\ u <= last /\ u \in Int
  BY EncountersAssumption DEF spans, Times
<1>3. first \in Int /\ last \in Int /\ t \in Int
  BY <1>1, EncountersAssumption DEF Times
<1>4. least(first, t) \in T \cup {t} /\ most(last, t) \in T \cup {t}
  BY <1>1 DEF least, most
<1>5. \A u \in T \cup {t} : least(first, t) <= u /\ u <= most(last, t)
  BY <1>2, <1>3 DEF least, most
<1> QED BY <1>1, <1>4, <1>5 DEF spans

(* The hearing columns: a direct sighting widens them, another leaves them.*)
LEMMA HearingSpan ==
  ASSUME NEW T \in SUBSET Times, NEW t \in Times, NEW direct \in BOOLEAN,
         NEW first, NEW last, spans(first, last, T)
  PROVE  LET heard_at == IF direct THEN t ELSE Never
         IN  spans(hearing(first, heard_at, least(first, heard_at)),
                   hearing(last, heard_at, most(last, heard_at)),
                   IF direct THEN T \cup {t} ELSE T)
<1>1. t # Never /\ Never \notin Times
  BY EncountersAssumption DEF Times, Never
<1>2. CASE ~direct
  BY <1>2 DEF hearing
<1>3. CASE direct /\ T = {}
  <2>1. first = Never /\ last = Never
    BY <1>3 DEF spans
  <2>2. T \cup {t} = {t}
    BY <1>3
  <2> QED BY <1>1, <1>3, <2>1, <2>2, SpanOfOne DEF hearing
<1>4. CASE direct /\ T # {}
  <2>1. first # Never /\ last # Never
    BY <1>1, <1>4, SpanWidens
  <2>2. spans(least(first, t), most(last, t), T \cup {t})
    BY <1>4, SpanWidens
  <2> QED BY <1>1, <1>4, <2>1, <2>2 DEF hearing
<1> QED BY <1>2, <1>3, <1>4

(* What a write does to the row of one node: it goes on spanning all that  *)
(* was recorded of the node, and a node once heard stays heard.            *)
Covers(row, n, S) ==
  /\ spans(row.first, row.last, SeenOf(n, S))
  /\ spans(row.firstHeard, row.lastHeard, HeardOf(n, S))
  /\ row.named = (\E s \in sightingsOf(n, S) : s.named)

LEMMA WholeIsCovered ==
  ASSUME NEW n
  PROVE  RowIsWhole(n) <=> Covers(encountered[n], n, sightings)
BY DEF RowIsWhole, Covers, SeenOf, HeardOf, sightingsOf

(* A node that no sighting of a write is about keeps what it had.          *)
LEMMA NoMore ==
  ASSUME NEW S, NEW set, NEW n, \A q \in set : q.node # n
  PROVE  /\ sightingsOf(n, S \cup set) = sightingsOf(n, S)
         /\ SeenOf(n, S \cup set) = SeenOf(n, S)
         /\ HeardOf(n, S \cup set) = HeardOf(n, S)
<1>1. sightingsOf(n, S \cup set) = sightingsOf(n, S)
  BY DEF sightingsOf
<1> QED BY <1>1 DEF SeenOf, HeardOf

LEMMA UpsertCovers ==
  ASSUME PassesTypeOK, RecordIsWhole, NEW set \in SUBSET Sightings, NEW s \in set,
         \A q \in set : q.node = s.node => q = s
  PROVE  /\ Covers(upserted(s), s.node, sightings \cup set)
         /\ s.direct => upserted(s).firstHeard # Never
         /\ s.node \in DOMAIN encountered /\ encountered[s.node].firstHeard # Never
              => upserted(s).firstHeard # Never
<1> DEFINE n == s.node
           heard_at == IF s.direct THEN s.seen ELSE Never
           old == encountered[n]
<1>1. /\ s \in Sightings /\ s.seen \in Times /\ s.direct \in BOOLEAN /\ s.named \in BOOLEAN
      /\ sightings \subseteq Sightings
  BY DEF Sightings, PassesTypeOK
<1>2. SeenOf(n, sightings) \in SUBSET Times /\ HeardOf(n, sightings) \in SUBSET Times
  BY <1>1 DEF SeenOf, HeardOf, sightingsOf, Sightings
<1>3. /\ sightingsOf(n, sightings \cup set) = sightingsOf(n, sightings) \cup {s}
      /\ SeenOf(n, sightings \cup set) = SeenOf(n, sightings) \cup {s.seen}
      /\ HeardOf(n, sightings \cup set)
           = IF s.direct THEN HeardOf(n, sightings) \cup {s.seen} ELSE HeardOf(n, sightings)
  <2>1. sightingsOf(n, sightings \cup set) = sightingsOf(n, sightings) \cup {s}
    BY DEF sightingsOf
  <2>2. SeenOf(n, sightings \cup set) = SeenOf(n, sightings) \cup {s.seen}
    BY <2>1 DEF SeenOf
  <2>3. {q \in sightingsOf(n, sightings \cup set) : q.direct}
          = IF s.direct THEN {q \in sightingsOf(n, sightings) : q.direct} \cup {s}
            ELSE {q \in sightingsOf(n, sightings) : q.direct}
    BY <2>1
  <2>4. HeardOf(n, sightings \cup set)
          = IF s.direct THEN HeardOf(n, sightings) \cup {s.seen} ELSE HeardOf(n, sightings)
    BY <2>3 DEF HeardOf
  <2> QED BY <2>1, <2>2, <2>4
<1>4. s.seen # Never
  BY <1>1, EncountersAssumption DEF Times, Never
<1>5. CASE n \notin DOMAIN encountered
  <2>1. sightingsOf(n, sightings) = {}
    BY <1>5 DEF sightingsOf, RecordIsWhole
  <2>2. SeenOf(n, sightings) = {} /\ HeardOf(n, sightings) = {}
    BY <2>1 DEF SeenOf, HeardOf
  <2>3. upserted(s) = Row(s.named, s.hops, s.seen, s.seen, heard_at, heard_at)
    BY <1>5 DEF upserted
  <2>4. /\ upserted(s).first = s.seen /\ upserted(s).last = s.seen
        /\ upserted(s).firstHeard = heard_at /\ upserted(s).lastHeard = heard_at
        /\ upserted(s).named = s.named
    BY <2>3 DEF Row
  <2>5. spans(s.seen, s.seen, SeenOf(n, sightings \cup set))
    BY ZenonT(40), <1>1, <1>3, <2>2, SpanOfOne
  <2>6. spans(heard_at, heard_at, HeardOf(n, sightings \cup set))
    <3>1. CASE s.direct
      <4>1. HeardOf(n, sightings \cup set) = {s.seen} /\ heard_at = s.seen
        BY <1>3, <2>2, <3>1
      <4> QED BY <1>1, <4>1, SpanOfOne
    <3>2. CASE ~s.direct
      BY <1>3, <2>2, <3>2 DEF spans
    <3> QED BY <3>1, <3>2
  <2>7. s.named = (\E q \in sightingsOf(n, sightings \cup set) : q.named)
    BY <1>1, <1>3, <2>1
  <2> QED BY <1>4, <1>5, <2>4, <2>5, <2>6, <2>7 DEF Covers
<1>6. CASE n \in DOMAIN encountered
  <2>1. Covers(old, n, sightings)
    BY <1>6, WholeIsCovered DEF RecordIsWhole
  <2>2. SeenOf(n, sightings) # {}
    BY <1>6 DEF RecordIsWhole, SeenOf, sightingsOf
  <2>3. upserted(s) = Row(s.named \/ old.named,
                          IF s.hops = Unknown THEN old.hops ELSE s.hops,
                          least(old.first, s.seen), most(old.last, s.seen),
                          hearing(old.firstHeard, heard_at, least(old.firstHeard, heard_at)),
                          hearing(old.lastHeard, heard_at, most(old.lastHeard, heard_at)))
    BY <1>6 DEF upserted
  <2>4. /\ upserted(s).first = least(old.first, s.seen)
        /\ upserted(s).last = most(old.last, s.seen)
        /\ upserted(s).firstHeard
             = hearing(old.firstHeard, heard_at, least(old.firstHeard, heard_at))
        /\ upserted(s).lastHeard
             = hearing(old.lastHeard, heard_at, most(old.lastHeard, heard_at))
        /\ upserted(s).named = (s.named \/ old.named)
    BY <2>3 DEF Row
  <2>5. spans(upserted(s).first, upserted(s).last, SeenOf(n, sightings \cup set))
    <3>1. spans(old.first, old.last, SeenOf(n, sightings))
      BY <2>1 DEF Covers
    <3>2. spans(least(old.first, s.seen), most(old.last, s.seen),
                SeenOf(n, sightings) \cup {s.seen})
      BY <1>1, <1>2, <2>2, <3>1, SpanWidens, Zenon
    <3> QED BY <1>3, <2>4, <3>2
  <2>6. spans(upserted(s).firstHeard, upserted(s).lastHeard, HeardOf(n, sightings \cup set))
    <3>1. spans(old.firstHeard, old.lastHeard, HeardOf(n, sightings))
      BY <2>1 DEF Covers
    <3>2. spans(hearing(old.firstHeard, heard_at, least(old.firstHeard, heard_at)),
                hearing(old.lastHeard, heard_at, most(old.lastHeard, heard_at)),
                IF s.direct THEN HeardOf(n, sightings) \cup {s.seen}
                ELSE HeardOf(n, sightings))
      BY <1>1, <1>2, <3>1, HearingSpan
    <3> QED BY <1>3, <2>4, <3>2
  <2>7. upserted(s).named = (\E q \in sightingsOf(n, sightings \cup set) : q.named)
    <3>1. old.named = (\E q \in sightingsOf(n, sightings) : q.named)
      BY <2>1 DEF Covers
    <3> QED BY <1>1, <1>3, <2>4, <3>1
  <2>8. Covers(upserted(s), n, sightings \cup set)
    BY <2>5, <2>6, <2>7 DEF Covers
  <2>9. s.direct \/ old.firstHeard # Never => HeardOf(n, sightings \cup set) # {}
    BY <1>3, <2>1 DEF Covers, spans
  <2>10. HeardOf(n, sightings \cup set) # {} => upserted(s).firstHeard # Never
    <3>1. HeardOf(n, sightings \cup set) \in SUBSET Times
      BY <1>1, <1>2, <1>3
    <3>2. Never \notin Times
      BY DEF Times, Never
    <3> QED BY <2>6, <3>1, <3>2 DEF spans
  <2> QED BY <1>6, <2>8, <2>9, <2>10
<1> QED BY <1>5, <1>6

(* A write of one sighting of each of some nodes.                          *)
LEMMA RecordKeepsRecord ==
  ASSUME PassesTypeOK, RecordIsWhole, NEW set \in SUBSET Sightings,
         \A s, q \in set : q.node = s.node => q = s, record_all(set)
  PROVE  /\ RecordIsWhole'
         /\ \A s \in set : s.direct => s.node \in DOMAIN encountered'
                                       /\ encountered'[s.node].firstHeard # Never
         /\ \A n \in DOMAIN encountered :
              /\ n \in DOMAIN encountered'
              /\ encountered[n].firstHeard # Never => encountered'[n].firstHeard # Never
<1> DEFINE nodes == {s.node : s \in set}
           of(n) == CHOOSE s \in set : s.node = n
<1>1. \A n \in nodes : of(n) \in set /\ of(n).node = n
  OBVIOUS
<1>2. \A s \in set : of(s.node) = s
  BY <1>1
<1>3. /\ DOMAIN encountered' = DOMAIN encountered \cup nodes
      /\ sightings' = sightings \cup set
      /\ \A n \in nodes : encountered'[n] = upserted(of(n))
      /\ \A n \in DOMAIN encountered \ nodes : encountered'[n] = encountered[n]
  BY DEF record_all
<1> HIDE DEF of
<1>4. \A s \in set : /\ Covers(encountered'[s.node], s.node, sightings')
                     /\ s.direct => encountered'[s.node].firstHeard # Never
                     /\ s.node \in DOMAIN encountered /\ encountered[s.node].firstHeard # Never
                          => encountered'[s.node].firstHeard # Never
  <2> TAKE s \in set
  <2>1. encountered'[s.node] = upserted(s)
    BY <1>2, <1>3
  <2>2. \A q \in set : q.node = s.node => q = s
    OBVIOUS
  <2>3. /\ Covers(upserted(s), s.node, sightings \cup set)
        /\ s.direct => upserted(s).firstHeard # Never
        /\ s.node \in DOMAIN encountered /\ encountered[s.node].firstHeard # Never
             => upserted(s).firstHeard # Never
    BY <2>2, UpsertCovers, Zenon
  <2> QED BY <1>3, <2>1, <2>3
<1>5. \A n \in DOMAIN encountered \ nodes : Covers(encountered'[n], n, sightings')
  <2> TAKE n \in DOMAIN encountered \ nodes
  <2>1. Covers(encountered[n], n, sightings)
    BY WholeIsCovered DEF RecordIsWhole
  <2>2. \A q \in set : q.node # n
    OBVIOUS
  <2>3. /\ sightingsOf(n, sightings \cup set) = sightingsOf(n, sightings)
        /\ SeenOf(n, sightings \cup set) = SeenOf(n, sightings)
        /\ HeardOf(n, sightings \cup set) = HeardOf(n, sightings)
    BY <2>2, NoMore, Zenon
  <2> QED BY <1>3, <2>1, <2>3 DEF Covers
<1>6. DOMAIN encountered' = {s.node : s \in sightings'}
  BY <1>3 DEF RecordIsWhole
<1>7. \A n \in DOMAIN encountered' : RowIsWhole(n)'
  <2> TAKE n \in DOMAIN encountered'
  <2>1. Covers(encountered'[n], n, sightings')
    BY <1>3, <1>4, <1>5
  <2> QED BY <2>1 DEF Covers, RowIsWhole, SeenOf, HeardOf, sightingsOf
<1>8. RecordIsWhole'
  BY <1>6, <1>7 DEF RecordIsWhole
<1>9. \A n \in DOMAIN encountered :
        encountered[n].firstHeard # Never => encountered'[n].firstHeard # Never
  <2> TAKE n \in DOMAIN encountered
  <2>1. CASE n \in nodes
    BY <1>4, <2>1
  <2>2. CASE n \notin nodes
    BY <1>3, <2>2
  <2> QED BY <2>1, <2>2
<1> QED BY <1>3, <1>4, <1>8, <1>9

(* Types.                                                                  *)
Entries == [hops : Hops, heard : Times \cup {Never}, named : BOOLEAN]

LEMMA EmptyFunction ==
  ASSUME NEW T
  PROVE  DOMAIN <<>> = {} /\ <<>> \in [{} -> T]
OBVIOUS

LEMMA SightingType ==
  ASSUME NEW n \in MeshNodes, NEW seen \in Times, NEW direct \in BOOLEAN, NEW hops \in Hops,
         NEW named \in BOOLEAN
  PROVE  /\ Sighting(n, seen, direct, hops, named) \in Sightings
         /\ Sighting(n, seen, direct, hops, named).node = n
         /\ Sighting(n, seen, direct, hops, named).direct = direct
BY DEF Sighting, Sightings

LEMMA UpsertType ==
  ASSUME PassesTypeOK, NEW s \in Sightings
  PROVE  upserted(s) \in Rows
<1> DEFINE heard_at == IF s.direct THEN s.seen ELSE Never
           old == encountered[s.node]
<1>1. /\ s.seen \in Times /\ s.hops \in Hops /\ s.named \in BOOLEAN
      /\ heard_at \in Times \cup {Never}
  BY DEF Sightings
<1>2. CASE s.node \notin DOMAIN encountered
  <2>1. Row(s.named, s.hops, s.seen, s.seen, heard_at, heard_at) \in Rows
    BY <1>1 DEF Row, Rows
  <2> QED BY <1>2, <2>1 DEF upserted
<1>3. CASE s.node \in DOMAIN encountered
  <2>1. encountered[s.node] \in Rows
    BY <1>3 DEF PassesTypeOK
  <2>2. /\ old.named \in BOOLEAN /\ old.hops \in Hops /\ old.first \in Times
        /\ old.last \in Times /\ old.firstHeard \in Times \cup {Never}
        /\ old.lastHeard \in Times \cup {Never}
    BY <2>1 DEF Rows
  <2>3. least(old.first, s.seen) \in Times /\ most(old.last, s.seen) \in Times
    BY <1>1, <2>2 DEF least, most
  <2>4. hearing(old.firstHeard, heard_at, least(old.firstHeard, heard_at))
          \in Times \cup {Never}
    BY <1>1, <2>2 DEF least, hearing
  <2>5. hearing(old.lastHeard, heard_at, most(old.lastHeard, heard_at))
          \in Times \cup {Never}
    BY <1>1, <2>2 DEF most, hearing
  <2>6. /\ (s.named \/ old.named) \in BOOLEAN
        /\ (IF s.hops = Unknown THEN old.hops ELSE s.hops) \in Hops
    BY <1>1, <2>2
  <2>7. Row(s.named \/ old.named, IF s.hops = Unknown THEN old.hops ELSE s.hops,
            least(old.first, s.seen), most(old.last, s.seen),
            hearing(old.firstHeard, heard_at, least(old.firstHeard, heard_at)),
            hearing(old.lastHeard, heard_at, most(old.lastHeard, heard_at))) \in Rows
    BY <2>3, <2>4, <2>5, <2>6 DEF Row, Rows
  <2> QED BY <1>3, <2>7 DEF upserted
<1> QED BY <1>2, <1>3

LEMMA RecordKeepsTypes ==
  ASSUME PassesTypeOK, NEW set \in SUBSET Sightings, record_all(set)
  PROVE  /\ DOMAIN encountered' \subseteq MeshNodes
         /\ encountered' \in [DOMAIN encountered' -> Rows]
         /\ sightings' \subseteq Sightings
<1> DEFINE nodes == {s.node : s \in set}
           of(n) == CHOOSE s \in set : s.node = n
           row(n) == IF n \in nodes THEN upserted(of(n)) ELSE encountered[n]
<1>1. /\ encountered' = [n \in DOMAIN encountered \cup nodes |-> row(n)]
      /\ sightings' = sightings \cup set
  BY DEF record_all
<1>2. \A n \in nodes : of(n) \in Sightings /\ n \in MeshNodes
  BY DEF Sightings
<1>3. \A n \in DOMAIN encountered \cup nodes : row(n) \in Rows
  <2> TAKE n \in DOMAIN encountered \cup nodes
  <2>1. CASE n \in nodes
    BY <1>2, <2>1, UpsertType
  <2>2. CASE n \notin nodes
    BY <2>2 DEF PassesTypeOK
  <2> QED BY <2>1, <2>2
<1>4. sightings \subseteq Sightings /\ DOMAIN encountered \subseteq MeshNodes
  BY DEF PassesTypeOK, Sightings
<1> HIDE DEF row
<1> QED BY <1>1, <1>2, <1>3, <1>4

(* The two recording steps.                                                *)
LEMMA SweepKeeps ==
  ASSUME PassesInv, Sweep
  PROVE  PassesInv'
<1>1. PICK failed \in SUBSET swept_nodes :
        /\ events + Cardinality(failed) <= MaxEvents
        /\ events' = events + Cardinality(failed)
        /\ record_all({Sighting(n, seen_at(n), is_direct(n), nodeDb[n].hops, nodeDb[n].named) :
                         n \in swept_nodes \ failed})
        /\ recorded' = [n \in DOMAIN recorded \cup (swept_nodes \ failed) |->
                          IF n \in swept_nodes \ failed THEN Recorded(seen_at(n), is_direct(n))
                          ELSE recorded[n]]
        /\ passesDirty' = (passesDirty \/ swept_nodes \ failed # {})
        /\ unswept' = failed
  BY DEF Sweep
<1>2. PICK written : written = swept_nodes \ failed
  OBVIOUS
<1>3. /\ UNCHANGED <<now, nodeDb, onPasses, passOrder, passes, unreadable>>
      /\ PassesTypeOK /\ RecordIsWhole /\ DirectWasHeard
  BY DEF Sweep, PassesInv, viewVars
<1>4. \A n \in DOMAIN nodeDb :
        /\ n \in MeshNodes /\ seen_at(n) \in Times /\ is_direct(n) \in BOOLEAN
        /\ nodeDb[n].hops \in Hops /\ nodeDb[n].named \in BOOLEAN
  <2> TAKE n \in DOMAIN nodeDb
  <2>1. nodeDb[n] \in Entries /\ n \in MeshNodes /\ now \in Times
    BY <1>3 DEF PassesTypeOK, Entries
  <2> QED BY <2>1 DEF Entries, seen_at, is_direct
<1>5. written \subseteq DOMAIN nodeDb /\ failed \subseteq DOMAIN nodeDb
  BY <1>1, <1>2 DEF swept_nodes
<1> DEFINE of(n) == Sighting(n, seen_at(n), is_direct(n), nodeDb[n].hops, nodeDb[n].named)
           set == {of(n) : n \in written}
<1>6. record_all(set)
  BY <1>1, <1>2
<1>7. \A n \in written : of(n) \in Sightings /\ of(n).node = n /\ of(n).direct = is_direct(n)
  BY <1>4, <1>5, SightingType
<1> HIDE DEF of
<1>8. set \in SUBSET Sightings /\ \A s, q \in set : q.node = s.node => q = s
  BY <1>7
<1>9. /\ RecordIsWhole'
      /\ \A s \in set : s.direct => s.node \in DOMAIN encountered'
                                    /\ encountered'[s.node].firstHeard # Never
      /\ \A n \in DOMAIN encountered :
           /\ n \in DOMAIN encountered'
           /\ encountered[n].firstHeard # Never => encountered'[n].firstHeard # Never
  <2> HIDE DEF set
  <2> QED BY <1>3, <1>6, <1>8, RecordKeepsRecord
<1>10. \A n \in written :
         is_direct(n) => n \in DOMAIN encountered' /\ encountered'[n].firstHeard # Never
  BY <1>7, <1>9
<1>11. /\ DOMAIN recorded' = DOMAIN recorded \cup written
       /\ \A n \in written : recorded'[n] = Recorded(seen_at(n), is_direct(n))
       /\ \A n \in DOMAIN recorded \ written : recorded'[n] = recorded[n]
  BY <1>1, <1>2
<1>12. PassesTypeOK'
  <2>1. /\ DOMAIN encountered' \subseteq MeshNodes
        /\ encountered' \in [DOMAIN encountered' -> Rows]
        /\ sightings' \subseteq Sightings
    <3> HIDE DEF set
    <3> QED BY <1>3, <1>6, <1>8, RecordKeepsTypes
  <2>2. \A n \in DOMAIN recorded' : recorded'[n] \in [seen : Times, direct : BOOLEAN]
    <3>1. \A n \in written : recorded'[n] \in [seen : Times, direct : BOOLEAN]
      BY <1>4, <1>5, <1>11 DEF Recorded
    <3>2. \A n \in DOMAIN recorded \ written : recorded'[n] \in [seen : Times, direct : BOOLEAN]
      BY <1>3, <1>11 DEF PassesTypeOK
    <3> QED BY <1>11, <3>1, <3>2
  <2>3. /\ DOMAIN recorded' \subseteq MeshNodes
        /\ recorded' \in [DOMAIN recorded' -> [seen : Times, direct : BOOLEAN]]
    <3>1. DOMAIN recorded' \subseteq MeshNodes
      BY <1>3, <1>4, <1>5, <1>11 DEF PassesTypeOK
    <3>2. recorded' = [n \in DOMAIN recorded' |-> recorded'[n]]
      BY <1>1, <1>2
    <3> QED BY <2>2, <3>1, <3>2
  <2>4. unswept' \subseteq MeshNodes /\ passesDirty' \in BOOLEAN
    BY <1>1, <1>3, <1>4, <1>5 DEF PassesTypeOK
  <2>5. events' \in 0..MaxEvents
    <3>1. IsFiniteSet(failed)
      <4>1. failed \subseteq MeshNodes
        BY <1>4, <1>5
      <4> QED BY <4>1, FS_Subset, EncountersAssumption
    <3> QED BY <1>1, <1>3, <3>1, FS_CardinalityType, EncountersAssumption DEF PassesTypeOK
  <2> QED BY <1>3, <2>1, <2>3, <2>4, <2>5 DEF PassesTypeOK, Sightings
<1>13. DirectWasHeard'
  <2> SUFFICES ASSUME NEW n \in DOMAIN recorded', recorded'[n].direct
               PROVE  n \in DOMAIN encountered' /\ encountered'[n].firstHeard # Never
    BY DEF DirectWasHeard
  <2>1. CASE n \in written
    BY <1>10, <1>11, <2>1 DEF Recorded
  <2>2. CASE n \notin written
    BY <1>3, <1>9, <1>11, <2>2 DEF DirectWasHeard
  <2> QED BY <2>1, <2>2
<1>14. NeighboursAreHeard'
  <2> SUFFICES ASSUME NEW n \in DOMAIN nodeDb, n \notin failed, is_direct(n)
               PROVE  n \in DOMAIN encountered' /\ encountered'[n].firstHeard # Never
    BY <1>1, <1>3 DEF NeighboursAreHeard, is_direct
  <2>1. CASE n \in written
    BY <1>10, <2>1
  <2>2. CASE n \notin written
    <3>1. n \in DOMAIN recorded /\ recorded[n] = Recorded(seen_at(n), is_direct(n))
      BY <1>2, <2>2 DEF swept_nodes, is_suppressed
    <3>2. recorded[n].direct
      BY <3>1 DEF Recorded
    <3> QED BY <1>3, <1>9, <3>1, <3>2 DEF DirectWasHeard
  <2> QED BY <2>1, <2>2
<1> QED BY <1>9, <1>12, <1>13, <1>14 DEF PassesInv

LEMMA MessageKeeps ==
  ASSUME PassesInv, NEW n \in MeshNodes, NEW seen \in Times, NEW named \in BOOLEAN,
         Message(n, seen, named)
  PROVE  PassesInv'
<1> DEFINE s == Sighting(n, seen, FALSE, Unknown, named)
<1>1. /\ PassesTypeOK /\ RecordIsWhole /\ DirectWasHeard /\ NeighboursAreHeard
      /\ record_all({s})
      /\ events < MaxEvents /\ events' = events + 1 /\ passesDirty' = TRUE
      /\ recorded' = [m \in DOMAIN recorded \ {n} |-> recorded[m]]
      /\ UNCHANGED <<now, nodeDb, unswept, onPasses, passOrder, passes, unreadable>>
  BY DEF PassesInv, Message, dirtied, viewVars
<1>2. s \in Sightings
  BY SightingType DEF Hops
<1> HIDE DEF s
<1>3. {s} \in SUBSET Sightings /\ \A p, q \in {s} : q.node = p.node => q = p
  BY <1>2
<1>4. /\ RecordIsWhole'
      /\ \A m \in DOMAIN encountered :
           /\ m \in DOMAIN encountered'
           /\ encountered[m].firstHeard # Never => encountered'[m].firstHeard # Never
  BY <1>1, <1>3, RecordKeepsRecord
<1>5. PassesTypeOK'
  <2>1. /\ DOMAIN encountered' \subseteq MeshNodes
        /\ encountered' \in [DOMAIN encountered' -> Rows]
        /\ sightings' \subseteq Sightings
    BY <1>1, <1>3, RecordKeepsTypes
  <2>2. /\ DOMAIN recorded' \subseteq MeshNodes
        /\ recorded' \in [DOMAIN recorded' -> [seen : Times, direct : BOOLEAN]]
    BY <1>1 DEF PassesTypeOK
  <2>3. events' \in 0..MaxEvents
    BY <1>1, EncountersAssumption DEF PassesTypeOK
  <2> QED BY <1>1, <2>1, <2>2, <2>3 DEF PassesTypeOK, Sightings
<1>6. DirectWasHeard'
  BY <1>1, <1>4 DEF DirectWasHeard
<1>7. NeighboursAreHeard'
  BY <1>1, <1>4 DEF NeighboursAreHeard, is_direct
<1> QED BY <1>4, <1>5, <1>6, <1>7 DEF PassesInv

(* The steps that record nothing.                                          *)
LEMMA ViewKeeps ==
  ASSUME PassesInv, UNCHANGED <<now, nodeDb, encountered, sightings, recorded, unswept>>,
         onPasses' \in BOOLEAN, unreadable' \in BOOLEAN, passesDirty' \in BOOLEAN,
         passOrder' \in {"alpha", "hops", "recent"}, events' \in 0..MaxEvents
  PROVE  PassesInv'
<1>1. PassesTypeOK'
  BY DEF PassesInv, PassesTypeOK
<1>2. RecordIsWhole'
  BY DEF PassesInv, RecordIsWhole, RowIsWhole
<1>3. DirectWasHeard' /\ NeighboursAreHeard'
  BY DEF PassesInv, DirectWasHeard, NeighboursAreHeard, is_direct
<1> QED BY <1>1, <1>2, <1>3 DEF PassesInv

LEMMA ReadKeepsTypes ==
  ASSUME PassesTypeOK, NEW order, refresh_passes(order)
  PROVE  unreadable' \in BOOLEAN /\ events' \in 0..MaxEvents
<1>1. CASE unreadable' = FALSE /\ UNCHANGED events
  BY <1>1 DEF PassesTypeOK
<1>2. CASE events < MaxEvents /\ events' = events + 1 /\ unreadable' = TRUE
  BY <1>2, EncountersAssumption DEF PassesTypeOK
<1> QED BY <1>1, <1>2 DEF refresh_passes

(* The radio's own list, the clock and the app come and go.                *)
LEMMA SurroundingsKeep ==
  ASSUME PassesInv, PassesTypeOK', UNCHANGED <<encountered, sightings>>,
         DirectWasHeard',
         \A n \in DOMAIN nodeDb' \ unswept' : n \in DOMAIN nodeDb \ unswept
                                              /\ nodeDb'[n] = nodeDb[n]
  PROVE  PassesInv'
<1>1. RecordIsWhole'
  BY DEF PassesInv, RecordIsWhole, RowIsWhole
<1>2. NeighboursAreHeard'
  BY DEF PassesInv, NeighboursAreHeard, is_direct
<1> QED BY <1>1, <1>2 DEF PassesInv

LEMMA HearKeeps ==
  ASSUME PassesInv, NEW n \in MeshNodes, NEW entry \in Entries, Hear(n, entry)
  PROVE  PassesInv'
<1>1. /\ PassesTypeOK /\ DirectWasHeard
      /\ events < MaxEvents /\ events' = events + 1
      /\ nodeDb' = [m \in DOMAIN nodeDb \cup {n} |-> IF m = n THEN entry ELSE nodeDb[m]]
      /\ unswept' = unswept \cup {n}
      /\ UNCHANGED <<now, encountered, sightings, recorded, passesDirty, onPasses, passOrder,
                     passes, unreadable>>
  BY DEF PassesInv, Hear, recordVars, viewVars
<1>2. PassesTypeOK'
  <2>1. \A m \in DOMAIN nodeDb \cup {n} : nodeDb'[m] \in Entries
    BY <1>1 DEF PassesTypeOK, Entries
  <2>2. DOMAIN nodeDb' \subseteq MeshNodes /\ nodeDb' \in [DOMAIN nodeDb' -> Entries]
    BY <1>1, <2>1 DEF PassesTypeOK
  <2>3. events' \in 0..MaxEvents
    BY <1>1, EncountersAssumption DEF PassesTypeOK
  <2> QED BY <1>1, <2>2, <2>3 DEF PassesTypeOK, Entries
<1>3. DirectWasHeard'
  BY <1>1 DEF DirectWasHeard
<1> QED BY <1>1, <1>2, <1>3, SurroundingsKeep

LEMMA UnlinkKeeps ==
  ASSUME PassesInv, Unlink
  PROVE  PassesInv'
<1>1. /\ PassesTypeOK /\ DirectWasHeard /\ nodeDb' = <<>> /\ unswept' = {}
      /\ UNCHANGED <<now, encountered, sightings, recorded, passesDirty, onPasses, passOrder,
                     passes, unreadable, events>>
  BY DEF PassesInv, Unlink, recordVars, viewVars
<1>2. DOMAIN nodeDb' = {} /\ nodeDb' \in [{} -> Entries]
  BY <1>1, EmptyFunction
<1>3. PassesTypeOK'
  BY <1>1, <1>2 DEF PassesTypeOK, Entries
<1>4. DirectWasHeard'
  BY <1>1 DEF DirectWasHeard
<1> QED BY <1>1, <1>2, <1>3, <1>4, SurroundingsKeep

LEMMA TimeKeeps ==
  ASSUME PassesInv, TimeGoesOn
  PROVE  PassesInv'
<1>1. /\ PassesTypeOK /\ DirectWasHeard /\ now < MaxTime /\ now' = now + 1
      /\ UNCHANGED <<nodeDb, encountered, sightings, recorded, unswept, passesDirty, onPasses,
                     passOrder, passes, unreadable, events>>
  BY DEF PassesInv, TimeGoesOn, recordVars, viewVars
<1>2. now' \in Times
  BY <1>1, EncountersAssumption DEF PassesTypeOK, Times
<1>3. PassesTypeOK'
  BY <1>1, <1>2 DEF PassesTypeOK
<1>4. DirectWasHeard'
  BY <1>1 DEF DirectWasHeard
<1> QED BY <1>1, <1>3, <1>4, SurroundingsKeep

LEMMA RestartKeeps ==
  ASSUME PassesInv, Restart
  PROVE  PassesInv'
<1>1. /\ PassesTypeOK /\ recorded' = <<>> /\ passesDirty' = FALSE /\ onPasses' = FALSE
      /\ passOrder' = "recent" /\ unreadable' = FALSE /\ unswept' = DOMAIN nodeDb
      /\ UNCHANGED <<now, nodeDb, encountered, sightings, events>>
  BY DEF PassesInv, Restart
<1>2. DOMAIN recorded' = {} /\ recorded' \in [{} -> [seen : Times, direct : BOOLEAN]]
  BY <1>1, EmptyFunction
<1>3. PassesTypeOK'
  BY <1>1, <1>2 DEF PassesTypeOK
<1>4. DirectWasHeard'
  BY <1>2 DEF DirectWasHeard
<1> QED BY <1>1, <1>3, <1>4, SurroundingsKeep

(* The invariant is inductive.                                             *)
LEMMA PassesInitHolds == PassesInit => PassesInv
<1> SUFFICES ASSUME PassesInit PROVE PassesInv
  OBVIOUS
<1>1. /\ DOMAIN nodeDb = {} /\ nodeDb \in [{} -> Entries]
      /\ DOMAIN encountered = {} /\ encountered \in [{} -> Rows]
      /\ DOMAIN recorded = {} /\ recorded \in [{} -> [seen : Times, direct : BOOLEAN]]
  BY EmptyFunction DEF PassesInit
<1>2. PassesTypeOK
  <2>1. now \in Times /\ events \in 0..MaxEvents
    BY EncountersAssumption DEF PassesInit, Times
  <2>2. /\ unswept \subseteq MeshNodes /\ sightings \subseteq Sightings
        /\ passesDirty \in BOOLEAN /\ onPasses \in BOOLEAN /\ unreadable \in BOOLEAN
        /\ passOrder \in {"alpha", "hops", "recent"}
    BY DEF PassesInit
  <2> QED BY <1>1, <2>1, <2>2 DEF PassesTypeOK, Entries, Sightings
<1>3. RecordIsWhole /\ DirectWasHeard /\ NeighboursAreHeard
  BY <1>1 DEF PassesInit, RecordIsWhole, DirectWasHeard, NeighboursAreHeard
<1> QED BY <1>2, <1>3 DEF PassesInv

LEMMA PassesStepHolds == PassesInv /\ [PassesNext]_passVars => PassesInv'
<1> SUFFICES ASSUME PassesInv, [PassesNext]_passVars PROVE PassesInv'
  OBVIOUS
<1> PassesTypeOK
  BY DEF PassesInv
<1>1. CASE Sweep
  BY <1>1, SweepKeeps
<1>2. ASSUME NEW n \in MeshNodes, NEW seen \in Times, NEW named \in BOOLEAN,
             Message(n, seen, named)
      PROVE  PassesInv'
  BY <1>2, MessageKeeps
<1>3. CASE ShowPasses
  <2>1. unreadable' \in BOOLEAN /\ events' \in 0..MaxEvents
    BY <1>3, ReadKeepsTypes DEF ShowPasses
  <2> QED BY <1>3, <2>1, ViewKeeps DEF ShowPasses, recordVars, PassesTypeOK
<1>4. CASE LeavePasses
  BY <1>4, ViewKeeps DEF LeavePasses, recordVars, PassesTypeOK
<1>5. CASE Tick
  <2>1. unreadable' \in BOOLEAN /\ events' \in 0..MaxEvents
    BY <1>5, ReadKeepsTypes DEF Tick
  <2> QED BY <1>5, <2>1, ViewKeeps DEF Tick, PassesTypeOK
<1>6. ASSUME NEW order \in {"alpha", "hops", "recent"}, Reorder(order)
      PROVE  PassesInv'
  <2>1. unreadable' \in BOOLEAN /\ events' \in 0..MaxEvents
    BY <1>6, ReadKeepsTypes DEF Reorder
  <2> QED BY <1>6, <2>1, ViewKeeps DEF Reorder, recordVars, PassesTypeOK
<1>7. ASSUME NEW n \in MeshNodes, NEW hops \in Hops, NEW heard \in Times \cup {Never},
             NEW named \in BOOLEAN, Hear(n, Entry(hops, heard, named))
      PROVE  PassesInv'
  <2>1. Entry(hops, heard, named) \in Entries
    BY DEF Entry, Entries
  <2> QED BY <1>7, <2>1, HearKeeps
<1>8. CASE Unlink
  BY <1>8, UnlinkKeeps
<1>9. CASE TimeGoesOn
  BY <1>9, TimeKeeps
<1>10. CASE Restart
  BY <1>10, RestartKeeps
<1>11. CASE UNCHANGED passVars
  BY <1>11, ViewKeeps DEF passVars, recordVars, viewVars, PassesTypeOK
<1> QED BY <1>1, <1>2, <1>3, <1>4, <1>5, <1>6, <1>7, <1>8, <1>9, <1>10, <1>11 DEF PassesNext

(* Types hold.                                                             *)
THEOREM PassesTypeCorrect == PassesSpec => []PassesTypeOK
<1>1. PassesInv => PassesTypeOK
  BY DEF PassesInv
<1> QED BY <1>1, PassesInitHolds, PassesStepHolds, PTL DEF PassesSpec

(* No evidence of a node is lost: whatever the order of sweeps, messages,  *)
(* failures and restarts, and however many nodes there are.                *)
THEOREM RecordKeepsEverything == PassesSpec => []NothingIsForgotten
<1>1. PassesInv => NothingIsForgotten
  BY DEF PassesInv, NothingIsForgotten
<1> QED BY <1>1, PassesInitHolds, PassesStepHolds, PTL DEF PassesSpec

(* The list is a function of the table and the order.                      *)
listOf(enc, order) ==
  LET by_nm(m, n) == IF enc[m].named # enc[n].named THEN enc[n].named ELSE m < n
      by_hp(m, n) ==
        IF enc[m].hops = enc[n].hops THEN by_nm(m, n)
        ELSE enc[n].hops = Unknown \/ (enc[m].hops # Unknown /\ enc[m].hops < enc[n].hops)
      by_tm(m, n) ==
        IF enc[m].last = enc[n].last THEN by_nm(m, n) ELSE enc[m].last > enc[n].last
      before(m, n) == CASE order = "alpha" -> by_nm(m, n)
                        [] order = "hops" -> by_hp(m, n)
                        [] order = "recent" -> by_tm(m, n)
      rank(n) == Cardinality({m \in DOMAIN enc : before(m, n)})
  IN  [i \in 1..Cardinality(DOMAIN enc) |->
         LET n == CHOOSE k \in DOMAIN enc : rank(k) = i - 1
         IN  [node |-> n, row |-> enc[n]]]

LEMMA ListOfTable ==
  ASSUME NEW order
  PROVE  encounters_by(order) = listOf(encountered, order)
BY DEF encounters_by, listOf, comes_before, by_name, by_hops, by_time

LEMMA ListOfTableAfter == encounters_by(passOrder)' = listOf(encountered', passOrder')
BY DEF encounters_by, listOf, comes_before, by_name, by_hops, by_time

LEMMA ReadIsRecord ==
  ASSUME NEW order, refresh_passes(order), passOrder' = order, UNCHANGED encountered
  PROVE  ListIsRecord'
<1>1. passes' = encounters_by(order) \/ unreadable'
  BY DEF refresh_passes
<1>2. encounters_by(order) = encounters_by(passOrder)'
  BY ListOfTable, ListOfTableAfter
<1> QED BY <1>1, <1>2 DEF ListIsRecord

(* What is recorded asks for a repaint; what is not leaves the table.      *)
LEMMA NothingRecorded ==
  ASSUME PassesTypeOK, record_all({})
  PROVE  UNCHANGED encountered
<1>1. DOMAIN encountered \cup {s.node : s \in {}} = DOMAIN encountered
  OBVIOUS
<1>2. encountered' = [n \in DOMAIN encountered |-> encountered[n]]
  BY <1>1 DEF record_all
<1>3. encountered \in [DOMAIN encountered -> Rows]
  BY DEF PassesTypeOK
<1> QED BY <1>2, <1>3

LEMMA ListStays ==
  ASSUME ListIsRecord, UNCHANGED <<encountered, viewVars, passesDirty>>
  PROVE  ListIsRecord'
<1>1. encounters_by(passOrder)' = encounters_by(passOrder)
  BY ListOfTable, ListOfTableAfter DEF viewVars
<1> QED BY <1>1 DEF ListIsRecord, viewVars

(* The list on the screen is the table, in the order chosen, unless a      *)
(* repaint is due or the last read failed: with any nodes, sightings,      *)
(* failures and restarts.                                                  *)
THEOREM ListIsTheTable == PassesSpec => []ListIsRecord
<1>1. PassesInit => ListIsRecord
  BY DEF PassesInit, ListIsRecord
<1>2. ASSUME PassesInv, ListIsRecord, [PassesNext]_passVars
      PROVE  ListIsRecord'
  <2> PassesTypeOK
    BY <1>2 DEF PassesInv
  <2>1. CASE Sweep
    <3>1. PICK failed \in SUBSET swept_nodes :
            /\ record_all({Sighting(n, seen_at(n), is_direct(n), nodeDb[n].hops, nodeDb[n].named) :
                             n \in swept_nodes \ failed})
            /\ passesDirty' = (passesDirty \/ swept_nodes \ failed # {})
      BY <2>1, Zenon DEF Sweep
    <3>2. CASE swept_nodes \ failed # {}
      BY <3>1, <3>2 DEF ListIsRecord
    <3>3. CASE swept_nodes \ failed = {}
      <4>1. {Sighting(n, seen_at(n), is_direct(n), nodeDb[n].hops, nodeDb[n].named) :
               n \in swept_nodes \ failed} = {}
        BY <3>3
      <4>2. record_all({})
        BY <3>1, <4>1
      <4>3. UNCHANGED <<viewVars, passesDirty>>
        BY <2>1, <3>1, <3>3 DEF Sweep, PassesTypeOK
      <4> QED BY <1>2, <4>2, <4>3, NothingRecorded, ListStays
    <3> QED BY <3>2, <3>3
  <2>2. ASSUME NEW n \in MeshNodes, NEW seen \in Times, NEW named \in BOOLEAN,
               Message(n, seen, named)
        PROVE  ListIsRecord'
    BY <2>2 DEF Message, dirtied, ListIsRecord
  <2>3. CASE ShowPasses
    BY <2>3, ReadIsRecord DEF ShowPasses, recordVars
  <2>4. CASE LeavePasses
    BY <2>4 DEF LeavePasses, ListIsRecord
  <2>5. CASE Tick
    BY <2>5, ReadIsRecord DEF Tick
  <2>6. ASSUME NEW order \in {"alpha", "hops", "recent"}, Reorder(order)
        PROVE  ListIsRecord'
    BY <2>6, ReadIsRecord DEF Reorder, recordVars
  <2>7. ASSUME NEW n \in MeshNodes, NEW hops \in Hops, NEW heard \in Times \cup {Never},
               NEW named \in BOOLEAN, Hear(n, Entry(hops, heard, named))
        PROVE  ListIsRecord'
    BY <1>2, <2>7, ListStays DEF Hear, recordVars
  <2>8. CASE Unlink
    BY <1>2, <2>8, ListStays DEF Unlink, recordVars
  <2>9. CASE TimeGoesOn
    BY <1>2, <2>9, ListStays DEF TimeGoesOn, recordVars
  <2>10. CASE Restart
    BY <2>10 DEF Restart, ListIsRecord
  <2>11. CASE UNCHANGED passVars
    BY <1>2, <2>11, ListStays DEF passVars, recordVars
  <2> QED BY <1>2, <2>1, <2>2, <2>3, <2>4, <2>5, <2>6, <2>7, <2>8, <2>9, <2>10, <2>11
      DEF PassesNext
<1> QED BY <1>1, <1>2, PassesInitHolds, PassesStepHolds, PTL DEF PassesSpec
=============================================================================
