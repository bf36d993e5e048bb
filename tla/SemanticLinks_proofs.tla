------------------------ MODULE SemanticLinks_proofs -------------------------
(***************************************************************************)
(* Proofs about SemanticLinks, for every set of nodes, units and answers,  *)
(* any number of threads and any limits: what the computed edges promise,  *)
(* that a pair is judged once, and that merging loses no entity.           *)
(*                                                                         *)
(* The ranking, the caps and the merging are folds.  A fold over a set or  *)
(* a sequence stays in any set that holds its base and is closed under its *)
(* step; that it has a value at all is proved by induction over the size.  *)
(***************************************************************************)
EXTENDS SemanticLinks, WellFoundedInduction, FiniteSetTheorems, TLAPS

(* Induction over numbers and over the subsets of a finite set. *)

\* A set of numbers has a least one, because < is well-founded on them.
LEMMA LeastNumber ==
  ASSUME NEW T, T \subseteq Nat, T # {}
  PROVE  \E x \in T : \A y \in T : x <= y
PROOF
  <1>1. PICK R : R = OpToRel(<, Nat)
    OBVIOUS
  <1>2. IsWellFoundedOn(R, Nat)
    BY <1>1, NatLessThanWellFounded
  <1>3. PICK x \in T : \A y \in T : ~(<<y, x>> \in R)
    BY <1>2, WFMin
  <1>4. ASSUME NEW y \in T PROVE x <= y
    <2>1. x \in Nat /\ y \in Nat
      OBVIOUS
    <2>2. y < x => <<y, x>> \in R
      BY <1>1, <2>1 DEF OpToRel
    <2> QED BY <1>3, <2>1, <2>2
  <1> QED BY <1>4

\* What holds 0 and every successor holds every number.
LEMMA NumbersAreReached ==
  ASSUME NEW T, 0 \in T, \A n \in T : n + 1 \in T
  PROVE  Nat \subseteq T
PROOF
  <1>1. ASSUME Nat \ T # {} PROVE FALSE
    <2>1. PICK x \in Nat \ T : \A y \in Nat \ T : x <= y
      BY <1>1, LeastNumber
    <2>2. x # 0 /\ x - 1 \in Nat /\ x - 1 \notin Nat \ T
      BY <2>1
    <2> QED BY <2>2
  <1> QED BY <1>1

\* The element a fold takes first, and the subsets up to a size.
Taken(s) == CHOOSE x \in s : TRUE
Others(s) == s \ {Taken(s)}
UpTo(S, n) == {s \in SUBSET S : Cardinality(s) <= n}

\* Without its first element a set is smaller by one.
LEMMA OneTaken ==
  ASSUME NEW S, IsFiniteSet(S), NEW s \in SUBSET S, s # {}
  PROVE  /\ Taken(s) \in s /\ Others(s) \in SUBSET S /\ s = Others(s) \cup {Taken(s)}
         /\ Taken(s) \notin Others(s) /\ IsFiniteSet(Others(s)) /\ Cardinality(Others(s)) \in Nat
         /\ Cardinality(s) = Cardinality(Others(s)) + 1
PROOF
  <1>1. PICK x : x = Taken(s)
    OBVIOUS
  <1>2. x \in s
    BY <1>1 DEF Taken
  <1>3. IsFiniteSet(s)
    BY FS_Subset
  <1>4. IsFiniteSet(s \ {x}) /\ Cardinality(s \ {x}) = Cardinality(s) - 1
    BY <1>2, <1>3, FS_RemoveElement
  <1>5. Cardinality(s) \in Nat /\ Cardinality(s \ {x}) \in Nat
    BY <1>3, <1>4, FS_CardinalityType
  <1>6. Others(s) = s \ {x}
    BY <1>1 DEF Others
  <1> QED BY <1>1, <1>2, <1>4, <1>5, <1>6

\* Only the empty set has no element.
LEMMA NoneTaken ==
  ASSUME NEW S, IsFiniteSet(S)
  PROVE  UpTo(S, 0) = {{}}
PROOF
  <1>1. ASSUME NEW s \in UpTo(S, 0), s # {} PROVE FALSE
    <2>1. s \in SUBSET S /\ Cardinality(s) <= 0
      BY DEF UpTo
    <2>2. Cardinality(Others(s)) \in Nat /\ Cardinality(s) = Cardinality(Others(s)) + 1
      BY <1>1, <2>1, OneTaken
    <2> QED BY <2>1, <2>2
  <1>2. {} \in UpTo(S, 0)
    BY FS_EmptySet DEF UpTo
  <1> QED BY <1>1, <1>2

\* Induction over the subsets of a finite set, an element at a time.
LEMMA SubsetsAreReached ==
  ASSUME NEW S, IsFiniteSet(S), NEW T, {} \in T,
         \A s \in SUBSET S : s # {} /\ Others(s) \in T => s \in T
  PROVE  SUBSET S \subseteq T
PROOF
  <1> DEFINE N == {n \in Nat : UpTo(S, n) \subseteq T}
  <1>1. 0 \in N
    BY NoneTaken
  <1>2. ASSUME NEW n \in N PROVE n + 1 \in N
    <2>1. ASSUME NEW s \in UpTo(S, n + 1), s # {} PROVE s \in T
      <3>1. s \in SUBSET S /\ Cardinality(s) <= n + 1
        BY DEF UpTo
      <3>2. /\ Others(s) \in SUBSET S /\ Cardinality(Others(s)) \in Nat
            /\ Cardinality(s) = Cardinality(Others(s)) + 1
        BY <2>1, <3>1, OneTaken
      <3>3. Others(s) \in UpTo(S, n)
        BY <3>1, <3>2 DEF UpTo
      <3> QED BY <2>1, <3>1, <3>3
    <2> QED BY <2>1
  <1>3. Nat \subseteq N
    BY <1>1, <1>2, NumbersAreReached
  <1>4. ASSUME NEW s \in SUBSET S PROVE s \in T
    <2>1. IsFiniteSet(s) /\ Cardinality(s) \in Nat
      BY FS_Subset, FS_CardinalityType
    <2>2. s \in UpTo(S, Cardinality(s))
      BY <2>1 DEF UpTo
    <2> QED BY <1>3, <2>1, <2>2
  <1> QED BY <1>4

(* Folds over sets. *)

\* The fold of a step G over the subsets of S.
SetFold(f, base, G, S) ==
    f = [s \in SUBSET S |-> IF s = {} THEN base ELSE G[<<Taken(s), f[Others(s)]>>]]

\* It exists: its values on the subsets up to a size, by induction.
LEMMA SetFoldExists ==
  ASSUME NEW S, IsFiniteSet(S), NEW base, NEW G
  PROVE  \E f : SetFold(f, base, G, S)
PROOF
  <1> DEFINE Part(f, n) ==
               f = [s \in UpTo(S, n) |-> IF s = {} THEN base ELSE G[<<Taken(s), f[Others(s)]>>]]
             N == {n \in Nat : \E f : Part(f, n)}
  <1>1. 0 \in N
    <2>1. PICK f : f = [s \in UpTo(S, 0) |-> base]
      OBVIOUS
    <2> QED BY <2>1, NoneTaken
  <1>2. ASSUME NEW n \in N PROVE n + 1 \in N
    <2>1. PICK f : Part(f, n)
      OBVIOUS
    <2>2. PICK g : g = [s \in UpTo(S, n + 1) |-> IF s = {} THEN base ELSE G[<<Taken(s), f[Others(s)]>>]]
      OBVIOUS
    <2>3. ASSUME NEW s \in UpTo(S, n + 1), s # {} PROVE g[Others(s)] = f[Others(s)]
      <3>1. s \in SUBSET S /\ Cardinality(s) <= n + 1
        BY DEF UpTo
      <3>2. /\ Others(s) \in SUBSET S /\ Cardinality(Others(s)) \in Nat
            /\ Cardinality(s) = Cardinality(Others(s)) + 1
        BY <2>3, <3>1, OneTaken
      <3>3. Others(s) \in UpTo(S, n) /\ Others(s) \in UpTo(S, n + 1)
        BY <3>1, <3>2 DEF UpTo
      <3> QED BY <2>1, <2>2, <3>3
    <2>4. Part(g, n + 1)
      BY <2>2, <2>3
    <2> QED BY <2>4
  <1>3. Nat \subseteq N
    BY <1>1, <1>2, NumbersAreReached
  <1>4. Cardinality(S) \in Nat /\ UpTo(S, Cardinality(S)) = SUBSET S
    BY FS_CardinalityType, FS_Subset DEF UpTo
  <1>5. \E f : Part(f, Cardinality(S))
    BY <1>3, <1>4
  <1> QED BY <1>4, <1>5 DEF SetFold

(* Folds over sequences, as functions on sets of places. *)

\* The last place of a set of places.
LEMMA LastPlace ==
  ASSUME NEW n \in Nat, NEW s \in SUBSET (1..n), s # {}
  PROVE  Max(s) \in s /\ (n \in s => Max(s) = n)
PROOF
  <1>1. PICK T : T = {n - i : i \in s}
    OBVIOUS
  <1>2. T \subseteq Nat /\ T # {}
    <2>1. \A i \in s : n - i \in Nat
      OBVIOUS
    <2>2. PICK i : i \in s
      OBVIOUS
    <2>3. n - i \in T
      BY <1>1, <2>2
    <2> QED BY <1>1, <2>1, <2>3
  <1>3. PICK x \in T : \A y \in T : x <= y
    BY <1>2, LeastNumber
  <1>4. PICK m \in s : x = n - m
    BY <1>1
  <1>5. ASSUME NEW i \in s PROVE m >= i
    <2>1. n - i \in T /\ i \in Int /\ m \in Int
      BY <1>1
    <2> QED BY <1>3, <1>4, <2>1
  <1>6. PICK k : k = Max(s)
    OBVIOUS
  <1>7. k \in s /\ \A i \in s : k >= i
    BY <1>5, <1>6 DEF Max
  <1> QED BY <1>6, <1>7

\* The fold of a step G over the first n places.
PlaceFold(f, base, G, n) ==
    f = [s \in SUBSET (1..n) |-> IF s = {} THEN base ELSE G[<<f[s \ {Max(s)}], Max(s)>>]]

\* It exists, by induction over the number of places.
LEMMA PlaceFoldExists ==
  ASSUME NEW base, NEW G
  PROVE  \A n \in Nat : \E f : PlaceFold(f, base, G, n)
PROOF
  <1> DEFINE N == {n \in Nat : \E f : PlaceFold(f, base, G, n)}
  <1>1. 0 \in N
    <2>1. PICK f : f = [s \in SUBSET (1..0) |-> base]
      OBVIOUS
    <2>2. \A s \in SUBSET (1..0) : s = {}
      OBVIOUS
    <2>3. PlaceFold(f, base, G, 0)
      BY <2>1, <2>2 DEF PlaceFold
    <2> QED BY <2>3
  <1>2. ASSUME NEW n \in N PROVE n + 1 \in N
    <2>0. n \in Nat /\ n + 1 \in Nat
      OBVIOUS
    <2>1. PICK f : PlaceFold(f, base, G, n)
      OBVIOUS
    <2>2. PICK g : g = [s \in SUBSET (1..(n + 1)) |->
                          IF n + 1 \in s THEN G[<<f[s \ {n + 1}], n + 1>>] ELSE f[s]]
      OBVIOUS
    <2>3. ASSUME NEW s \in SUBSET (1..(n + 1))
          PROVE  g[s] = IF s = {} THEN base ELSE G[<<g[s \ {Max(s)}], Max(s)>>]
      <3>1. CASE n + 1 \in s
        <4>1. Max(s) = n + 1
          BY <2>0, <3>1, LastPlace
        <4>2. s \ {n + 1} \in SUBSET (1..n)
          OBVIOUS
        <4>3. g[s \ {n + 1}] = f[s \ {n + 1}]
          BY <2>2, <4>2
        <4> QED BY <2>2, <3>1, <4>1, <4>3
      <3>2. CASE n + 1 \notin s
        <4>1. s \in SUBSET (1..n) /\ s \ {Max(s)} \in SUBSET (1..n)
          <5>1. \A i \in s : i \in 1..n
            BY <2>0, <3>2
          <5> QED BY <5>1
        <4>2. g[s] = f[s] /\ g[s \ {Max(s)}] = f[s \ {Max(s)}]
          BY <2>2, <3>2, <4>1
        <4> QED BY <2>1, <4>1, <4>2 DEF PlaceFold
      <3> QED BY <3>1, <3>2
    <2>4. PlaceFold(g, base, G, n + 1)
      BY <2>2, <2>3 DEF PlaceFold
    <2> QED BY <2>0, <2>4
  <1>3. Nat \subseteq N
    BY <1>1, <1>2, NumbersAreReached
  <1> QED BY <1>3

\* What a fold keeps at every place it keeps.
LEMMA PlacesAreFolded ==
  ASSUME NEW n \in Nat, NEW f, NEW A, f[{}] \in A,
         \A s \in SUBSET (1..n) : s # {} /\ f[s \ {Max(s)}] \in A => f[s] \in A
  PROVE  \A s \in SUBSET (1..n) : f[s] \in A
PROOF
  <1> DEFINE T == {k \in Nat : k <= n => \A s \in SUBSET (1..k) : f[s] \in A}
  <1>1. 0 \in T
    <2>1. \A s \in SUBSET (1..0) : s = {}
      OBVIOUS
    <2> QED BY <2>1
  <1>2. ASSUME NEW k \in T PROVE k + 1 \in T
    <2>1. k \in Nat /\ k + 1 \in Nat
      OBVIOUS
    <2>2. ASSUME k + 1 <= n, NEW s \in SUBSET (1..(k + 1)) PROVE f[s] \in A
      <3>1. s \in SUBSET (1..n) /\ k <= n
        BY <2>1, <2>2
      <3>2. CASE k + 1 \in s
        <4>1. Max(s) = k + 1
          BY <2>1, <3>2, LastPlace
        <4>2. s \ {Max(s)} \in SUBSET (1..k)
          BY <4>1
        <4> QED BY <3>1, <3>2, <4>2
      <3>3. CASE k + 1 \notin s
        <4>1. s \in SUBSET (1..k)
          BY <2>1, <3>3
        <4> QED BY <3>1, <4>1
      <3> QED BY <3>2, <3>3
    <2> QED BY <2>1, <2>2
  <1>3. n \in T
    BY <1>1, <1>2, NumbersAreReached
  <1> QED BY <1>3

----------------------------------------------------------------------------
(* The ranking by score holds every candidate once. *)

\* No element of a sequence stands in it twice.
Once(seq) == \A i, k \in 1..Len(seq) : seq[i] = seq[k] => i = k

\* The sequence of nothing.
LEMMA EmptyHolds ==
  /\ \A S : <<>> \in Seq(S)
  /\ ToSet(<<>>) = {} /\ Len(<<>>) = 0 /\ Once(<<>>)
PROOF
  <1>1. DOMAIN <<>> = {} /\ 1..Len(<<>>) = {} /\ Len(<<>>) = 0
    OBVIOUS
  <1>2. ToSet(<<>>) = {}
    BY <1>1 DEF ToSet
  <1>3. Once(<<>>)
    BY <1>1 DEF Once
  <1> QED BY <1>1, <1>2, <1>3

\* A sequence after another.
LEMMA Joined ==
  ASSUME NEW S, NEW a \in Seq(S), NEW b \in Seq(S)
  PROVE  /\ a \o b \in Seq(S) /\ Len(a \o b) = Len(a) + Len(b)
         /\ \A i \in 1..Len(a) : (a \o b)[i] = a[i]
         /\ \A i \in 1..Len(b) : (a \o b)[Len(a) + i] = b[i]
PROOF
  <1>1. a \o b \in Seq(S) /\ Len(a \o b) = Len(a) + Len(b) /\ Len(a) \in Nat /\ Len(b) \in Nat
    OBVIOUS
  <1>2. ASSUME NEW i \in 1..Len(a) PROVE (a \o b)[i] = a[i]
    OBVIOUS
  <1>3. ASSUME NEW i \in 1..Len(b) PROVE (a \o b)[Len(a) + i] = b[i]
    OBVIOUS
  <1> QED BY <1>1, <1>2, <1>3

\* What is ranked goes into the sequence once more.
LEMMA RankedHolds ==
  ASSUME NEW S, NEW seq \in Seq(S), NEW c \in S
  PROVE  /\ Ranked(c, seq) \in Seq(S) /\ ToSet(Ranked(c, seq)) = ToSet(seq) \cup {c}
         /\ Once(seq) /\ c \notin ToSet(seq) => Once(Ranked(c, seq))
PROOF
  <1>1. PICK n : n = Len(seq)
    OBVIOUS
  <1>2. n \in Nat /\ DOMAIN seq = 1..n /\ \A i \in 1..n : seq[i] \in S
    BY <1>1
  <1>3. PICK places : places = {i \in DOMAIN seq : seq[i].score >= c.score}
    OBVIOUS
  <1>4. PICK at : at = 1 + Cardinality(places)
    OBVIOUS
  <1>5. at \in 1..(n + 1)
    <2>1. IsFiniteSet(1..n) /\ Cardinality(1..n) = n
      BY <1>2, FS_Interval
    <2>2. IsFiniteSet(places) /\ Cardinality(places) <= n
      BY <1>2, <1>3, <2>1, FS_Subset
    <2>3. Cardinality(places) \in Nat
      BY <2>2, FS_CardinalityType
    <2> QED BY <1>2, <1>4, <2>2, <2>3
  <1>6. PICK r : r = SubSeq(seq, 1, at - 1) \o <<c>> \o SubSeq(seq, at, n)
    OBVIOUS
  <1>7. Ranked(c, seq) = r
    BY <1>1, <1>3, <1>4, <1>6 DEF Ranked, InsertAt
  <1>8. /\ r \in Seq(S) /\ Len(r) = n + 1 /\ r[at] = c
        /\ \A i \in 1..(at - 1) : r[i] = seq[i]
        /\ \A i \in at..n : r[i + 1] = seq[i]
    <2>1. PICK u, v : u = SubSeq(seq, 1, at - 1) /\ v = SubSeq(seq, at, n)
      OBVIOUS
    <2>2. /\ u \in Seq(S) /\ Len(u) = at - 1 /\ \A i \in 1..(at - 1) : u[i] = seq[i]
      BY <1>2, <1>5, <2>1
    <2>3. /\ v \in Seq(S) /\ Len(v) = n - at + 1 /\ \A i \in 1..(n - at + 1) : v[i] = seq[at + i - 1]
      BY <1>1, <1>2, <1>5, <2>1
    <2>4. PICK w : w = u \o <<c>>
      OBVIOUS
    <2>5. w \in Seq(S) /\ Len(w) = at /\ w[at] = c /\ \A i \in 1..(at - 1) : w[i] = seq[i]
      BY <1>5, <2>2, <2>4
    <2>6. r = w \o v
      BY <1>6, <2>1, <2>4
    <2>7. /\ r \in Seq(S) /\ Len(r) = n + 1 /\ \A i \in 1..at : r[i] = w[i]
          /\ \A i \in 1..(n - at + 1) : r[at + i] = v[i]
      BY <1>2, <1>5, <2>3, <2>5, <2>6, Joined
    <2>8. ASSUME NEW i \in at..n PROVE r[i + 1] = seq[i]
      <3>1. PICK k : k = i - at + 1
        OBVIOUS
      <3>2. k \in 1..(n - at + 1) /\ at + k = i + 1 /\ at + k - 1 = i
        BY <1>2, <1>5, <3>1
      <3> QED BY <2>3, <2>7, <3>2
    <2>9. \A i \in 1..(at - 1) : i \in 1..at
      BY <1>5
    <2>10. r[at] = c
      BY <1>5, <2>5, <2>7
    <2> QED BY <2>5, <2>7, <2>8, <2>9, <2>10
  <1>9. \A i \in 1..(n + 1) : i = at \/ i \in 1..(at - 1) \/ (i - 1 \in at..n /\ i = (i - 1) + 1)
    BY <1>2, <1>5
  <1>10. ToSet(r) = ToSet(seq) \cup {c}
    <2>1. DOMAIN r = 1..(n + 1)
      BY <1>2, <1>8
    <2>2. \A i \in 1..(n + 1) : r[i] \in ToSet(seq) \cup {c}
      <3>1. ASSUME NEW i \in 1..(n + 1), i - 1 \in at..n PROVE r[i] \in ToSet(seq)
        <4>1. r[i] = seq[i - 1] /\ i - 1 \in 1..n
          BY <1>2, <1>5, <1>8, <3>1
        <4> QED BY <1>2, <4>1 DEF ToSet
      <3>2. ASSUME NEW i \in 1..(at - 1) PROVE r[i] \in ToSet(seq)
        BY <1>2, <1>5, <1>8 DEF ToSet
      <3> QED BY <1>8, <1>9, <3>1, <3>2
    <2>3. ASSUME NEW i \in 1..n PROVE \E k \in 1..(n + 1) : seq[i] = r[k]
      <3>1. CASE i < at
        BY <1>2, <1>5, <1>8, <3>1
      <3>2. CASE ~(i < at)
        <4>1. i \in at..n /\ i + 1 \in 1..(n + 1)
          BY <1>2, <1>5, <3>2
        <4> QED BY <1>8, <4>1
      <3> QED BY <3>1, <3>2
    <2>4. at \in 1..(n + 1) /\ r[at] = c
      BY <1>5, <1>8
    <2>5. ToSet(seq) = {seq[i] : i \in 1..n} /\ ToSet(r) = {r[i] : i \in 1..(n + 1)}
      BY <1>2, <2>1 DEF ToSet
    <2>6. ToSet(seq) \subseteq ToSet(r) /\ c \in ToSet(r)
      BY <2>3, <2>4, <2>5
    <2> QED BY <2>2, <2>5, <2>6
  <1>11. ASSUME Once(seq), c \notin ToSet(seq) PROVE Once(r)
    <2>1. PICK from : from = [i \in 1..(n + 1) |-> IF i < at THEN i ELSE i - 1]
      OBVIOUS
    <2>2. ASSUME NEW i \in 1..(n + 1), i # at
          PROVE  from[i] \in 1..n /\ r[i] = seq[from[i]] /\ (i < at <=> from[i] < at)
      <3>1. CASE i < at
        BY <1>2, <1>5, <1>8, <2>1, <3>1
      <3>2. CASE ~(i < at)
        <4>1. i - 1 \in at..n /\ i = (i - 1) + 1
          BY <1>2, <1>5, <2>2, <3>2
        <4> QED BY <1>2, <1>5, <1>8, <2>1, <3>2, <4>1
      <3> QED BY <3>1, <3>2
    <2>3. ASSUME NEW i \in 1..(n + 1), i # at PROVE r[i] # c
      BY <1>2, <1>11, <2>2, <2>3 DEF ToSet
    <2>4. ASSUME NEW i \in 1..(n + 1), NEW k \in 1..(n + 1), i # at, k # at, r[i] = r[k] PROVE i = k
      <3>1. from[i] = from[k]
        BY <1>1, <1>11, <2>2, <2>4 DEF Once
      <3>2. i < at <=> k < at
        BY <2>2, <2>4, <3>1
      <3> QED BY <1>2, <2>1, <3>1, <3>2
    <2> QED BY <1>8, <2>3, <2>4 DEF Once
  <1> QED BY <1>7, <1>8, <1>10, <1>11

\* The fold of ByScore over every subset.
Ranking(f, S) ==
    f = [s \in SUBSET S |-> IF s = {} THEN <<>> ELSE Ranked(Taken(s), f[Others(s)])]

LEMMA RankingExists ==
  ASSUME NEW S, IsFiniteSet(S)
  PROVE  \E f : Ranking(f, S)
PROOF
  <1>1. PICK G : G = [p \in S \X Seq(S) |-> Ranked(p[1], p[2])]
    OBVIOUS
  <1>2. PICK f : SetFold(f, <<>>, G, S)
    BY SetFoldExists
  <1>3. PICK T : T = {s \in SUBSET S : f[s] \in Seq(S)}
    OBVIOUS
  <1>4. \A c \in S, seq \in Seq(S) : G[<<c, seq>>] = Ranked(c, seq) /\ Ranked(c, seq) \in Seq(S)
    BY <1>1, RankedHolds
  <1>5. {} \in T
    BY <1>2, <1>3 DEF SetFold
  <1>6. ASSUME NEW s \in SUBSET S, s # {}, f[Others(s)] \in Seq(S)
        PROVE  f[s] \in Seq(S) /\ f[s] = Ranked(Taken(s), f[Others(s)])
    <2>1. Taken(s) \in S
      BY <1>6, OneTaken
    <2> QED BY <1>2, <1>4, <1>6, <2>1, ZenonT(60) DEF SetFold
  <1>7. SUBSET S \subseteq T
    BY <1>3, <1>5, <1>6, SubsetsAreReached
  <1>8. ASSUME NEW s \in SUBSET S, s # {} PROVE f[s] = Ranked(Taken(s), f[Others(s)])
    <2>1. Others(s) \in SUBSET S
      BY DEF Others
    <2> QED BY <1>3, <1>6, <1>7, <1>8, <2>1
  <1> QED BY <1>2, <1>8 DEF SetFold, Ranking

LEMMA ByScoreHolds ==
  ASSUME NEW S, IsFiniteSet(S)
  PROVE  ByScore(S) \in Seq(S) /\ ToSet(ByScore(S)) = S /\ Once(ByScore(S))
PROOF
  <1> DEFINE Fold(f) == f = [s \in SUBSET S |-> IF s = {} THEN <<>>
                               ELSE Ranked(CHOOSE x \in s : TRUE, f[s \ {CHOOSE x \in s : TRUE}])]
  <1>1. \A f : Ranking(f, S) <=> Fold(f)
    BY DEF Ranking, Taken, Others
  <1>2. ByScore(S) = (CHOOSE f : Fold(f))[S]
    BY DEF ByScore, FoldSet, MapThenFoldSet
  <1> HIDE DEF Fold
  <1>3. PICK f : Ranking(f, S) /\ ByScore(S) = f[S]
    BY <1>1, <1>2, RankingExists
  <1>4. PICK T : T = {s \in SUBSET S : f[s] \in Seq(S) /\ ToSet(f[s]) = s /\ Once(f[s])}
    OBVIOUS
  <1>5. {} \in T
    <2>1. f[{}] = <<>>
      BY <1>3 DEF Ranking
    <2>2. <<>> \in Seq(S) /\ ToSet(<<>>) = {} /\ Once(<<>>)
      BY EmptyHolds
    <2> QED BY <1>4, <2>1, <2>2
  <1>6. ASSUME NEW s \in SUBSET S, s # {}, Others(s) \in T PROVE s \in T
    <2>1. /\ Taken(s) \in S /\ s = Others(s) \cup {Taken(s)} /\ Taken(s) \notin Others(s)
      BY <1>6, OneTaken
    <2>2. f[s] = Ranked(Taken(s), f[Others(s)])
      BY <1>3, <1>6 DEF Ranking
    <2>3. f[Others(s)] \in Seq(S) /\ ToSet(f[Others(s)]) = Others(s) /\ Once(f[Others(s)])
      BY <1>4, <1>6
    <2>4. PICK y : y = f[Others(s)]
      OBVIOUS
    <2>5. y \in Seq(S) /\ ToSet(y) = Others(s) /\ Once(y) /\ f[s] = Ranked(Taken(s), y)
      BY <2>2, <2>3, <2>4
    <2>6. f[s] \in Seq(S) /\ ToSet(f[s]) = Others(s) \cup {Taken(s)} /\ Once(f[s])
      BY <2>1, <2>5, RankedHolds
    <2> QED BY <1>4, <2>1, <2>6
  <1>7. S \in T
    BY <1>5, <1>6, SubsetsAreReached
  <1> QED BY <1>3, <1>4, <1>7
\* Without an element there is none to rank, and any step stays in A.
LEMMA PlaceFoldHolds ==
  ASSUME NEW n \in Nat, NEW A, NEW base \in A, NEW G, \A a \in A, i \in 1..n : G[<<a, i>>] \in A
  PROVE  \E f : PlaceFold(f, base, G, n) /\ \A s \in SUBSET (1..n) : f[s] \in A
PROOF
  <1>1. PICK f : PlaceFold(f, base, G, n)
    BY PlaceFoldExists
  <1>2. f[{}] \in A
    BY <1>1 DEF PlaceFold
  <1>3. ASSUME NEW s \in SUBSET (1..n), s # {}, f[s \ {Max(s)}] \in A PROVE f[s] \in A
    <2>1. Max(s) \in 1..n
      BY <1>3, LastPlace
    <2> QED BY <1>1, <1>3, <2>1 DEF PlaceFold
  <1>4. \A s \in SUBSET (1..n) : f[s] \in A
    BY <1>2, <1>3, PlacesAreFolded
  <1> QED BY <1>1, <1>4

----------------------------------------------------------------------------
(* The cap on degrees. *)

\* The step of CapByDegree, and the sets of edges that respect the cap.
Kept(chosen, c) ==
    IF \A n \in c.ends : Degree(chosen, n) < DegreeCap THEN chosen \cup {c} ELSE chosen
Capped(C) == {D \in SUBSET C : \A n : Degree(D, n) <= DegreeCap}

\* An edge adds at most one to the degree of its ends, and to no other.
LEMMA KeptStays ==
  ASSUME NEW C, IsFiniteSet(C), NEW D \in Capped(C), NEW c \in C
  PROVE  Kept(D, c) \in Capped(C)
PROOF
  <1>1. D \in SUBSET C /\ \A n : Degree(D, n) <= DegreeCap
    BY DEF Capped
  <1>2. CASE \A n \in c.ends : Degree(D, n) < DegreeCap
    <2>1. ASSUME NEW n PROVE Degree(D \cup {c}, n) <= DegreeCap
      <3>1. PICK before, after : before = {e \in D : n \in e.ends} /\ after = {e \in D \cup {c} : n \in e.ends}
        OBVIOUS
      <3>2. CASE n \in c.ends
        <4>1. after = before \cup {c}
          BY <3>1, <3>2
        <4>2. IsFiniteSet(before)
          BY <1>1, <3>1, FS_Subset
        <4>3. Cardinality(before) \in Nat /\ (Cardinality(after) = Cardinality(before) \/ Cardinality(after) = Cardinality(before) + 1)
          BY <4>1, <4>2, FS_AddElement, FS_CardinalityType
        <4>4. Cardinality(before) < DegreeCap /\ DegreeCap \in Nat
          BY <1>2, <3>1, <3>2, CapAssumption DEF Degree
        <4>5. Cardinality(after) <= DegreeCap
          BY <4>3, <4>4
        <4> QED BY <3>1, <4>5 DEF Degree
      <3>3. CASE n \notin c.ends
        <4>1. after = before
          BY <3>1, <3>3
        <4> QED BY <1>1, <3>1, <4>1 DEF Degree
      <3> QED BY <3>2, <3>3
    <2>2. D \cup {c} \in SUBSET C
      BY <1>1
    <2> QED BY <1>2, <2>1, <2>2 DEF Kept, Capped
  <1>3. CASE ~(\A n \in c.ends : Degree(D, n) < DegreeCap)
    BY <1>3 DEF Kept
  <1> QED BY <1>2, <1>3

\* The chosen edges are candidates, and no node has more of them than the cap.
LEMMA CapHolds ==
  ASSUME NEW C, IsFiniteSet(C)
  PROVE  CapByDegree(C) \in Capped(C)
PROOF
  <1> DEFINE Fold(f) == f = [s \in SUBSET (DOMAIN ByScore(C)) |->
                               IF s = {} THEN {} ELSE Kept(f[s \ {Max(s)}], ByScore(C)[Max(s)])]
  <1>1. CapByDegree(C) = (CHOOSE f : Fold(f))[DOMAIN ByScore(C)]
    BY DEF CapByDegree, FoldLeft, MapThenFoldSet, Kept
  <1>2. PICK n : n = Len(ByScore(C))
    OBVIOUS
  <1>3. n \in Nat /\ DOMAIN ByScore(C) = 1..n /\ \A i \in 1..n : ByScore(C)[i] \in C
    BY <1>2, ByScoreHolds
  <1>4. PICK G : G = [p \in Capped(C) \X (1..n) |-> Kept(p[1], ByScore(C)[p[2]])]
    OBVIOUS
  <1>5. \A D \in Capped(C), i \in 1..n : G[<<D, i>>] = Kept(D, ByScore(C)[i]) /\ G[<<D, i>>] \in Capped(C)
    BY <1>3, <1>4, KeptStays
  <1>6. {} \in Capped(C)
    <2>1. ASSUME NEW m PROVE Degree({}, m) <= DegreeCap
      <3>1. {e \in {} : m \in e.ends} = {}
        OBVIOUS
      <3> QED BY <3>1, FS_EmptySet, CapAssumption DEF Degree
    <2> QED BY <2>1 DEF Capped
  <1>7. PICK f : PlaceFold(f, {}, G, n) /\ \A s \in SUBSET (1..n) : f[s] \in Capped(C)
    BY <1>3, <1>5, <1>6, PlaceFoldHolds
  <1>8. ASSUME NEW s \in SUBSET (1..n), s # {} PROVE Max(s) \in 1..n /\ s \ {Max(s)} \in SUBSET (1..n)
    BY <1>3, <1>8, LastPlace
  <1>9. Fold(f)
    <2>1. ASSUME NEW s \in SUBSET (1..n), s # {} PROVE f[s] = Kept(f[s \ {Max(s)}], ByScore(C)[Max(s)])
      BY <1>5, <1>7, <1>8, <2>1 DEF PlaceFold
    <2> QED BY <1>3, <1>7, <2>1 DEF PlaceFold
  <1> HIDE DEF Fold
  <1>10. PICK g : Fold(g) /\ CapByDegree(C) = g[1..n]
    BY <1>1, <1>3, <1>9
  <1>11. g[{}] \in Capped(C)
    BY <1>6, <1>10 DEF Fold
  <1>12. ASSUME NEW s \in SUBSET (1..n), s # {}, g[s \ {Max(s)}] \in Capped(C) PROVE g[s] \in Capped(C)
    <2>1. g[s] = Kept(g[s \ {Max(s)}], ByScore(C)[Max(s)])
      BY <1>3, <1>10, <1>12 DEF Fold
    <2>2. ByScore(C)[Max(s)] \in C
      BY <1>3, <1>8, <1>12
    <2> QED BY <1>12, <2>1, <2>2, KeptStays
  <1>13. \A s \in SUBSET (1..n) : g[s] \in Capped(C)
    BY <1>3, <1>11, <1>12, PlacesAreFolded
  <1> QED BY <1>10, <1>13

----------------------------------------------------------------------------
(* Finite sets and sequences. *)

\* What a function makes of a finite set is finite and no larger.
LEMMA ImageIsFinite ==
  ASSUME NEW S, IsFiniteSet(S), NEW f, NEW T, T = {f[x] : x \in S}
  PROVE  IsFiniteSet(T) /\ Cardinality(T) <= Cardinality(S)
PROOF
  <1>1. PICK g : g = [x \in S |-> f[x]]
    OBVIOUS
  <1>2. g \in Surjection(S, T)
    BY <1>1 DEF Surjection
  <1> QED BY <1>2, FS_Surjection

\* The pairs of a finite set are finitely many.
LEMMA PairsAreFinite ==
  ASSUME NEW S, IsFiniteSet(S)
  PROVE  IsFiniteSet(PairsOf(S))
PROOF
  <1>1. IsFiniteSet(SUBSET S) /\ PairsOf(S) \in SUBSET (SUBSET S)
    BY FS_SUBSET DEF PairsOf
  <1> QED BY <1>1, FS_Subset

\* A pair has two elements, one of them other than the first.
LEMMA PairHolds ==
  ASSUME NEW S, IsFiniteSet(S), NEW p \in PairsOf(S), NEW a \in p
  PROVE  \E b \in p : b # a /\ p = {a, b} /\ b = (CHOOSE x \in p : x # a)
PROOF
  <1>1. p \in SUBSET S /\ Cardinality(p) = 2 /\ IsFiniteSet(p)
    BY FS_Subset DEF PairsOf
  <1>2. IsFiniteSet(p \ {a}) /\ Cardinality(p \ {a}) = 1
    BY <1>1, FS_RemoveElement
  <1>3. PICK b : p \ {a} = {b}
    BY <1>2, FS_Singleton
  <1>4. b \in p /\ b # a /\ p = {a, b}
    BY <1>3
  <1>5. \A x \in p : x # a <=> x = b
    BY <1>4
  <1>6. b = (CHOOSE x \in p : x # a)
    BY <1>4, <1>5
  <1> QED BY <1>4, <1>6

\* s is a sequence, of whatever.
IsSeq(s) == s \in Seq(ToSet(s))

\* A sequence over a set is one of its own elements.
LEMMA SequenceHolds ==
  ASSUME NEW S, NEW s \in Seq(S)
  PROVE  /\ IsSeq(s) /\ ToSet(s) \subseteq S /\ ToSet(s) = {s[i] : i \in 1..Len(s)}
         /\ Len(s) \in Nat /\ DOMAIN s = 1..Len(s) /\ (s = <<>> <=> ToSet(s) = {})
PROOF
  <1>1. PICK n : n = Len(s)
    OBVIOUS
  <1>2. n \in Nat /\ DOMAIN s = 1..n /\ s = [i \in 1..n |-> s[i]] /\ \A i \in 1..n : s[i] \in S
    BY <1>1
  <1>3. ToSet(s) = {s[i] : i \in 1..n}
    BY <1>2 DEF ToSet
  <1>4. s \in [1..n -> ToSet(s)]
    BY <1>2, <1>3
  <1>5. s \in Seq(ToSet(s))
    BY <1>2, <1>4
  <1>6. s = <<>> <=> ToSet(s) = {}
    <2>1. ASSUME s = <<>> PROVE ToSet(s) = {}
      <3>1. n = 0
        BY <1>1, <2>1
      <3> QED BY <1>3, <3>1
    <2>2. ASSUME s # <<>> PROVE ToSet(s) # {}
      <3>1. n # 0
        BY <1>1, <1>5, <2>2
      <3>2. 1 \in 1..n
        BY <1>2, <3>1
      <3> QED BY <1>3, <3>2
    <2> QED BY <2>1, <2>2
  <1> QED BY <1>1, <1>2, <1>3, <1>5, <1>6 DEF IsSeq

\* Its elements are finitely many, at most one for each place.
LEMMA ElementsAreFinite ==
  ASSUME NEW s, IsSeq(s)
  PROVE  IsFiniteSet(ToSet(s)) /\ Cardinality(ToSet(s)) <= Len(s)
PROOF
  <1>1. Len(s) \in Nat /\ ToSet(s) = {s[i] : i \in 1..Len(s)}
    BY SequenceHolds DEF IsSeq
  <1>2. PICK n : n = Len(s)
    OBVIOUS
  <1>3. IsFiniteSet(1..n) /\ Cardinality(1..n) = n
    <2>1. n \in Nat /\ n \in Int /\ 1 \in Int
      BY <1>1, <1>2
    <2>2. IsFiniteSet(1..n) /\ Cardinality(1..n) = (IF 1 > n THEN 0 ELSE n - 1 + 1)
      BY <2>1, FS_Interval, Zenon
    <2> QED BY <2>1, <2>2
  <1> QED BY <1>1, <1>2, <1>3, ImageIsFinite

\* One element more at the end.
LEMMA AppendHolds ==
  ASSUME NEW S, NEW s \in Seq(S), NEW x \in S
  PROVE  /\ Append(s, x) \in Seq(S) /\ Len(Append(s, x)) = Len(s) + 1
         /\ ToSet(Append(s, x)) = ToSet(s) \cup {x}
PROOF
  <1>1. PICK n, r : n = Len(s) /\ r = Append(s, x)
    OBVIOUS
  <1>2. /\ n \in Nat /\ r \in Seq(S) /\ Len(r) = n + 1 /\ r[n + 1] = x
        /\ \A i \in 1..n : r[i] = s[i]
    BY <1>1
  <1>3. ToSet(s) = {s[i] : i \in 1..n} /\ ToSet(r) = {r[i] : i \in 1..(n + 1)}
    <2>1. ToSet(s) = {s[i] : i \in 1..n}
      BY <1>1, SequenceHolds
    <2>2. ToSet(r) = {r[i] : i \in 1..Len(r)}
      BY <1>2, SequenceHolds
    <2> QED BY <1>2, <2>1, <2>2
  <1>4. \A i \in 1..(n + 1) : i \in 1..n \/ i = n + 1
    BY <1>2
  <1>5. \A i \in 1..n : i \in 1..(n + 1)
    BY <1>2
  <1>6. n + 1 \in 1..(n + 1)
    BY <1>2
  <1>7. ToSet(r) = ToSet(s) \cup {x}
    BY <1>2, <1>3, <1>4, <1>5, <1>6
  <1> QED BY <1>1, <1>2, <1>7

\* A part of a sequence.
LEMMA PartHolds ==
  ASSUME NEW S, NEW s \in Seq(S), NEW a \in Int, NEW b \in Int, a >= 1, b <= Len(s)
  PROVE  SubSeq(s, a, b) \in Seq(S) /\ ToSet(SubSeq(s, a, b)) \subseteq ToSet(s)
PROOF
  <1>1. s \in Seq(ToSet(s)) /\ ToSet(s) \subseteq S /\ Len(s) \in Nat
    BY SequenceHolds DEF IsSeq
  <1>2. \A i \in a..b : s[i] \in ToSet(s)
    <2>1. ASSUME NEW i \in a..b PROVE s[i] \in ToSet(s)
      <3>1. i \in 1..Len(s)
        BY <1>1
      <3> QED BY <3>1, SequenceHolds
    <2> QED BY <2>1
  <1>3. PICK r : r = SubSeq(s, a, b)
    OBVIOUS
  <1>4. r \in Seq(ToSet(s))
    BY <1>1, <1>2, <1>3
  <1>5. r \in Seq(S) /\ ToSet(r) \subseteq ToSet(s)
    BY <1>1, <1>4, SequenceHolds
  <1> QED BY <1>3, <1>5

\* The lesser of two numbers.
LEMMA MinHolds ==
  ASSUME NEW a \in Int, NEW b \in Int
  PROVE  Min({a, b}) = IF a <= b THEN a ELSE b
PROOF
  <1>1. PICK m : m = (IF a <= b THEN a ELSE b)
    OBVIOUS
  <1>2. m \in {a, b} /\ \A y \in {a, b} : m <= y
    BY <1>1
  <1>3. \A x \in {a, b} : (\A y \in {a, b} : x <= y) => x = m
    BY <1>1
  <1>4. Min({a, b}) = m
    BY <1>2, <1>3 DEF Min
  <1> QED BY <1>1, <1>4

\* The greater of two numbers is one of them.
LEMMA MaxHolds ==
  ASSUME NEW a \in Int, NEW b \in Int
  PROVE  Max({a, b}) \in Int
PROOF
  <1>1. PICK m : m = (IF a >= b THEN a ELSE b)
    OBVIOUS
  <1>2. m \in {a, b} /\ \A y \in {a, b} : m >= y
    BY <1>1
  <1>3. Max({a, b}) \in {a, b}
    BY <1>2 DEF Max
  <1> QED BY <1>3
----------------------------------------------------------------------------
(* Entities that two nodes share. *)

\* Listed holds every element of a set once.
LEMMA ListedHolds ==
  ASSUME NEW S, IsFiniteSet(S)
  PROVE  Listed(S) \in Seq(S) /\ ToSet(Listed(S)) = S /\ Len(Listed(S)) = Cardinality(S)
PROOF
  <1> DEFINE Fold(f) == f = [s \in SUBSET S |-> IF s = {} THEN <<>>
                               ELSE Append(f[s \ {CHOOSE x \in s : TRUE}], CHOOSE x \in s : TRUE)]
             T(f) == {s \in SUBSET S : f[s] \in Seq(S) /\ ToSet(f[s]) = s /\ Len(f[s]) = Cardinality(s)}
  <1>1. Listed(S) = (CHOOSE f : Fold(f))[S]
    BY DEF Listed, FoldSet, MapThenFoldSet
  <1>2. \A f : Fold(f) <=> f = [s \in SUBSET S |-> IF s = {} THEN <<>> ELSE Append(f[Others(s)], Taken(s))]
    BY DEF Taken, Others
  <1> HIDE DEF Fold
  <1>3. \E f : Fold(f)
    <2>1. PICK G : G = [p \in S \X Seq(S) |-> Append(p[2], p[1])]
      OBVIOUS
    <2>2. PICK f : SetFold(f, <<>>, G, S)
      BY SetFoldExists
    <2>3. \A c \in S, seq \in Seq(S) : G[<<c, seq>>] = Append(seq, c) /\ Append(seq, c) \in Seq(S)
      BY <2>1
    <2>4. PICK Q : Q = {s \in SUBSET S : f[s] \in Seq(S)}
      OBVIOUS
    <2>5. {} \in Q
      BY <2>2, <2>4 DEF SetFold
    <2>6. ASSUME NEW s \in SUBSET S, s # {}, f[Others(s)] \in Seq(S)
          PROVE  f[s] \in Seq(S) /\ f[s] = Append(f[Others(s)], Taken(s))
      <3>1. Taken(s) \in S
        BY <2>6, OneTaken
      <3> QED BY <2>2, <2>3, <2>6, <3>1, ZenonT(60) DEF SetFold
    <2>7. SUBSET S \subseteq Q
      BY <2>4, <2>5, <2>6, SubsetsAreReached
    <2>8. ASSUME NEW s \in SUBSET S, s # {} PROVE f[s] = Append(f[Others(s)], Taken(s))
      <3>1. Others(s) \in SUBSET S
        BY DEF Others
      <3> QED BY <2>4, <2>6, <2>7, <2>8, <3>1
    <2> QED BY <1>2, <2>2, <2>8 DEF SetFold
  <1>4. PICK f : Fold(f) /\ Listed(S) = f[S]
    BY <1>1, <1>3
  <1>5. {} \in T(f)
    <2>1. f[{}] = <<>>
      BY <1>2, <1>4
    <2>2. <<>> \in Seq(S) /\ ToSet(<<>>) = {} /\ Len(<<>>) = 0
      BY EmptyHolds
    <2> QED BY <2>1, <2>2, FS_EmptySet
  <1>6. ASSUME NEW s \in SUBSET S, s # {}, Others(s) \in T(f) PROVE s \in T(f)
    <2>1. /\ Taken(s) \in S /\ s = Others(s) \cup {Taken(s)} /\ Cardinality(s) = Cardinality(Others(s)) + 1
      BY <1>6, OneTaken
    <2>2. PICK y : y = f[Others(s)]
      OBVIOUS
    <2>3. y \in Seq(S) /\ ToSet(y) = Others(s) /\ Len(y) = Cardinality(Others(s)) /\ f[s] = Append(y, Taken(s))
      BY <1>2, <1>4, <1>6, <2>2
    <2>4. PICK x : x = Taken(s)
      OBVIOUS
    <2>5. /\ Append(y, x) \in Seq(S) /\ Len(Append(y, x)) = Len(y) + 1
          /\ ToSet(Append(y, x)) = ToSet(y) \cup {x}
      BY <2>1, <2>3, <2>4, AppendHolds
    <2>6. f[s] \in Seq(S) /\ ToSet(f[s]) = s /\ Len(f[s]) = Cardinality(s)
      BY <2>1, <2>3, <2>4, <2>5
    <2> QED BY <2>6
  <1>7. S \in T(f)
    <2> HIDE DEF T
    <2> QED BY <1>5, <1>6, SubsetsAreReached
  <1> QED BY <1>4, <1>7

\* What is spared of the entities of one type is some of them, and of a type of
\* the taxonomy at most as many as the cap.
Spared(same, type) ==
  IF type = "" \/ Cardinality(same) <= SameTypeCap THEN same
  ELSE ToSet(SubSeq(Listed(same), 1, SameTypeCap))

LEMMA SparedHolds ==
  ASSUME NEW same, IsFiniteSet(same), NEW type
  PROVE  /\ Spared(same, type) \subseteq same /\ IsFiniteSet(Spared(same, type))
         /\ type # "" => Cardinality(Spared(same, type)) <= SameTypeCap
PROOF
  <1>1. Cardinality(same) \in Nat /\ SameTypeCap \in Nat
    BY FS_CardinalityType, CapAssumption
  <1>2. CASE type = "" \/ Cardinality(same) <= SameTypeCap
    BY <1>2 DEF Spared
  <1>3. CASE ~(type = "" \/ Cardinality(same) <= SameTypeCap)
    <2>1. PICK list : list = Listed(same)
      OBVIOUS
    <2>2. list \in Seq(same) /\ ToSet(list) = same /\ Len(list) = Cardinality(same)
      BY <2>1, ListedHolds
    <2>3. SameTypeCap \in Int /\ 1 \in Int /\ 1 >= 1 /\ SameTypeCap <= Len(list)
      <3>1. ~(Cardinality(same) <= SameTypeCap)
        BY <1>3
      <3> QED BY <1>1, <2>2, <3>1
    <2>4. PICK part : part = SubSeq(list, 1, SameTypeCap)
      OBVIOUS
    <2>5. part \in Seq(same) /\ ToSet(part) \subseteq same
      BY <2>2, <2>3, <2>4, PartHolds
    <2>6. Len(part) = SameTypeCap
      BY <1>1, <2>2, <2>3, <2>4
    <2>7. IsFiniteSet(ToSet(part)) /\ Cardinality(ToSet(part)) <= SameTypeCap
      BY <2>5, <2>6, SequenceHolds, ElementsAreFinite
    <2>8. Spared(same, type) = ToSet(part)
      BY <1>3, <2>1, <2>4 DEF Spared
    <2> QED BY <2>5, <2>7, <2>8
  <1> QED BY <1>2, <1>3

\* Leaving entities of a type out adds none, and leaves no more of a type of
\* the taxonomy than the cap.
LEMMA EnumerationsAreLeftOut ==
  ASSUME NEW shared, IsFiniteSet(shared)
  PROVE  /\ WithoutEnumerations(shared) \subseteq shared
         /\ \A type \in EntityTypes :
              Cardinality({e \in WithoutEnumerations(shared) : e.type = type}) <= SameTypeCap
PROOF
  <1>1. PICK read : read = {ReadType(e) : e \in shared}
    OBVIOUS
  <1>2. PICK same : same = [type \in read |-> {e \in shared : ReadType(e) = type}]
    OBVIOUS
  <1>3. WithoutEnumerations(shared) = UNION {Spared(same[type], type) : type \in read}
    <2>1. WithoutEnumerations(shared) = UNION {Spared({e \in shared : ReadType(e) = type}, type) : type \in read}
      BY <1>1, Zenon DEF WithoutEnumerations, Spared
    <2>2. \A type \in read : same[type] = {e \in shared : ReadType(e) = type}
      BY <1>2
    <2>3. \A type \in read : Spared({e \in shared : ReadType(e) = type}, type) = Spared(same[type], type)
      BY <2>2, Zenon
    <2> QED BY <2>1, <2>3
  <1>4. ASSUME NEW type \in read
        PROVE  /\ same[type] \subseteq shared /\ Spared(same[type], type) \subseteq same[type]
               /\ IsFiniteSet(Spared(same[type], type))
               /\ type # "" => Cardinality(Spared(same[type], type)) <= SameTypeCap
    <2>1. same[type] \in SUBSET shared
      BY <1>2
    <2>2. IsFiniteSet(same[type])
      BY <2>1, FS_Subset
    <2> QED BY <2>1, <2>2, SparedHolds
  <1>5. WithoutEnumerations(shared) \subseteq shared
    BY <1>3, <1>4
  <1>6. ASSUME NEW type \in EntityTypes
        PROVE  Cardinality({e \in WithoutEnumerations(shared) : e.type = type}) <= SameTypeCap
    <2>1. PICK of : of = {e \in WithoutEnumerations(shared) : e.type = type}
      OBVIOUS
    <2>2. type # "" /\ \A e : e.type = type => ReadType(e) = type
      BY TaxonomyAssumption DEF ReadType
    <2>3. ASSUME NEW e \in of PROVE type \in read /\ e \in Spared(same[type], type)
      <3>1. e \in WithoutEnumerations(shared) /\ e.type = type
        BY <2>1
      <3>2. PICK other \in read : e \in Spared(same[other], other)
        BY <1>3, <3>1
      <3>3. e \in same[other]
        BY <1>4, <3>2
      <3>4. ReadType(e) = other
        BY <1>2, <3>3
      <3> QED BY <2>2, <3>1, <3>2, <3>4
    <2>4. CASE of = {}
      <3>1. SameTypeCap \in Nat /\ Cardinality(of) = 0
        BY <2>4, FS_EmptySet, CapAssumption
      <3>2. Cardinality(of) <= SameTypeCap
        BY <3>1
      <3> QED BY <2>1, <3>2
    <2>5. CASE of # {}
      <3>1. type \in read /\ of \in SUBSET Spared(same[type], type)
        BY <2>3, <2>5
      <3>2. PICK kept : kept = Spared(same[type], type)
        OBVIOUS
      <3>3. IsFiniteSet(kept) /\ Cardinality(kept) <= SameTypeCap
        BY <1>4, <2>2, <3>1, <3>2
      <3>4. IsFiniteSet(of) /\ Cardinality(of) <= Cardinality(kept)
        BY <3>1, <3>2, <3>3, FS_Subset
      <3>5. Cardinality(of) \in Nat /\ Cardinality(kept) \in Nat /\ SameTypeCap \in Nat
        BY <3>3, <3>4, FS_CardinalityType, CapAssumption
      <3>6. Cardinality(of) <= SameTypeCap
        BY <3>3, <3>4, <3>5
      <3> QED BY <2>1, <3>6
    <2> QED BY <2>4, <2>5
  <1> QED BY <1>5, <1>6

\* m is a mention.
IsMention(m) == m = [node |-> m.node, text |-> m.text, type |-> m.type]

\* Resolving leaves every mention at its node and with its type.
LEMMA ResolvedHolds ==
  ASSUME NEW M, IsFiniteSet(M), \A m \in M : IsMention(m)
  PROVE  /\ IsFiniteSet(Resolved(M)) /\ NodesIn(Resolved(M)) = NodesIn(M)
         /\ \A m \in Resolved(M) : IsMention(m)
PROOF
  <1>1. PICK text : text = [m \in M |-> Canonical({x.text : x \in {y \in M : y.type = m.type}}, m.text)]
    OBVIOUS
  <1>2. PICK f : f = [m \in M |-> [m EXCEPT !.text = text[m]]]
    OBVIOUS
  <1>3. Resolved(M) = {f[m] : m \in M}
    BY <1>1, <1>2 DEF Resolved
  <1>4. ASSUME NEW m \in M PROVE f[m] = [node |-> m.node, text |-> text[m], type |-> m.type]
    <2>1. m = [node |-> m.node, text |-> m.text, type |-> m.type]
      BY DEF IsMention
    <2>2. PICK a, b, c : m = [node |-> a, text |-> b, type |-> c] /\ a = m.node /\ c = m.type
      BY <2>1
    <2>3. [m EXCEPT !.text = text[m]] = [node |-> a, text |-> text[m], type |-> c]
      BY <2>2
    <2> QED BY <1>2, <2>2, <2>3
  <1>5. IsFiniteSet(Resolved(M))
    BY <1>3, ImageIsFinite
  <1>6. ASSUME NEW m \in M PROVE f[m].node = m.node /\ IsMention(f[m])
    <2>1. PICK y, a, b, c : y = f[m] /\ a = m.node /\ b = text[m] /\ c = m.type
      OBVIOUS
    <2>2. y = [node |-> a, text |-> b, type |-> c]
      BY <1>4, <2>1
    <2>3. y.node = a /\ y.text = b /\ y.type = c
      BY <2>2
    <2>4. IsMention(y)
      BY <2>2, <2>3 DEF IsMention
    <2> QED BY <2>1, <2>3, <2>4
  <1>7. NodesIn(Resolved(M)) = NodesIn(M)
    BY <1>3, <1>6 DEF NodesIn
  <1> QED BY <1>3, <1>5, <1>6, <1>7

\* A pair that shares entities is of two nodes that mention them, every one
\* of them informative and not too many of a type; no pair is there twice,
\* and no node too often.
LEMMA SharesHold ==
  ASSUME NEW M, IsFiniteSet(M)
  PROVE  /\ \A n : Degree(SharesEntity(M), n) <= DegreeCap
         /\ IsFiniteSet(SharesEntity(M)) /\ IsFiniteSet(NodesIn(M))
         /\ \A e \in SharesEntity(M) :
              /\ e.ends \in PairsOf(NodesIn(M))
              /\ \A s \in e.shared : s \in Informative(M) /\ e.ends \subseteq NodesOf(M, s)
              /\ \A type \in EntityTypes : Cardinality({s \in e.shared : s.type = type}) <= SameTypeCap
         /\ \A e, f \in SharesEntity(M) : e.ends = f.ends => e = f
PROOF
  <1>1. PICK sharable : sharable = {e \in Informative(M) : Cardinality(NodesOf(M, e)) >= 2}
    OBVIOUS
  <1>2. PICK floor : floor = Floor(M, sharable)
    OBVIOUS
  <1>3. PICK common : common = [p \in PairsOf(NodesIn(M)) |-> {e \in sharable : p \subseteq NodesOf(M, e)}]
    OBVIOUS
  <1>4. PICK pair : pair = [p \in PairsOf(NodesIn(M)) |->
                              [ends |-> p, shared |-> WithoutEnumerations(common[p])]]
    OBVIOUS
  <1>5. PICK pairs : pairs = {pair[p] : p \in PairsOf(NodesIn(M))}
    OBVIOUS
  <1>6. PICK anchored : anchored = {p \in pairs : \E e \in p.shared : 4 * Rarity(M, e) >= floor}
    OBVIOUS
  <1>7. PICK edge : edge = [p \in anchored |-> [ends |-> p.ends, shared |-> p.shared,
                                                score |-> Strength(M, p.shared)]]
    OBVIOUS
  <1>8. PICK C : C = {edge[p] : p \in anchored}
    OBVIOUS
  <1>9. SharesEntity(M) = CapByDegree(C)
    <2>1. pairs = {[ends |-> p, shared |-> WithoutEnumerations({e \in sharable : p \subseteq NodesOf(M, e)})] :
                     p \in PairsOf(NodesIn(M))}
      BY <1>3, <1>4, <1>5
    <2>2. C = {[ends |-> p.ends, shared |-> p.shared, score |-> Strength(M, p.shared)] : p \in anchored}
      BY <1>7, <1>8
    <2> QED BY <1>1, <1>2, <1>6, <2>1, <2>2 DEF SharesEntity
  <1>10. IsFiniteSet(NodesIn(M))
    <2>1. PICK f : f = [m \in M |-> m.node]
      OBVIOUS
    <2>2. NodesIn(M) = {f[m] : m \in M}
      BY <2>1 DEF NodesIn
    <2> QED BY <2>2, ImageIsFinite
  <1>11. IsFiniteSet(sharable)
    <2>1. PICK f : f = [m \in M |-> Entity(m)]
      OBVIOUS
    <2>2. IsFiniteSet({f[m] : m \in M})
      BY ImageIsFinite
    <2>3. Informative(M) \subseteq {f[m] : m \in M}
      BY <2>1 DEF Informative
    <2>4. sharable \in SUBSET {f[m] : m \in M}
      BY <1>1, <2>3
    <2> QED BY <2>2, <2>4, FS_Subset
  <1>12. IsFiniteSet(pairs)
    BY <1>5, <1>10, PairsAreFinite, ImageIsFinite
  <1>13. IsFiniteSet(anchored)
    BY <1>6, <1>12, FS_Subset
  <1>14. IsFiniteSet(C)
    BY <1>8, <1>13, ImageIsFinite
  <1>15. CapByDegree(C) \in SUBSET C /\ \A n : Degree(CapByDegree(C), n) <= DegreeCap
    BY <1>14, CapHolds DEF Capped
  <1>16. IsFiniteSet(CapByDegree(C))
    BY <1>14, <1>15, FS_Subset
  <1>17. \A e \in C : \E p \in PairsOf(NodesIn(M)) :
           /\ e = [ends |-> p, shared |-> WithoutEnumerations(common[p]),
                   score |-> Strength(M, WithoutEnumerations(common[p]))]
    <2>1. ASSUME NEW p \in anchored
          PROVE  \E q \in PairsOf(NodesIn(M)) :
                   edge[p] = [ends |-> q, shared |-> WithoutEnumerations(common[q]),
                              score |-> Strength(M, WithoutEnumerations(common[q]))]
      <3>1. PICK q \in PairsOf(NodesIn(M)) : p = pair[q]
        BY <1>5, <1>6
      <3>2. p.ends = q /\ p.shared = WithoutEnumerations(common[q])
        BY <1>4, <3>1
      <3>3. edge[p] = [ends |-> p.ends, shared |-> p.shared, score |-> Strength(M, p.shared)]
        BY <1>7
      <3> QED BY <3>2, <3>3
    <2> QED BY <1>8, <2>1
  <1>18. \A p \in PairsOf(NodesIn(M)) :
           /\ WithoutEnumerations(common[p]) \subseteq common[p]
           /\ \A type \in EntityTypes :
                Cardinality({s \in WithoutEnumerations(common[p]) : s.type = type}) <= SameTypeCap
    <2>1. ASSUME NEW p \in PairsOf(NodesIn(M))
          PROVE  /\ WithoutEnumerations(common[p]) \subseteq common[p]
                 /\ \A type \in EntityTypes :
                      Cardinality({s \in WithoutEnumerations(common[p]) : s.type = type}) <= SameTypeCap
      <3>1. common[p] \in SUBSET sharable
        BY <1>3
      <3>2. IsFiniteSet(common[p])
        BY <1>11, <3>1, FS_Subset
      <3> QED BY <3>2, EnumerationsAreLeftOut
    <2> QED BY <2>1
  <1>19. ASSUME NEW e \in C
         PROVE  /\ e.ends \in PairsOf(NodesIn(M))
                /\ \A s \in e.shared : s \in Informative(M) /\ e.ends \subseteq NodesOf(M, s)
                /\ \A type \in EntityTypes : Cardinality({s \in e.shared : s.type = type}) <= SameTypeCap
    <2>1. PICK p \in PairsOf(NodesIn(M)) : e.ends = p /\ e.shared = WithoutEnumerations(common[p])
      BY <1>17
    <2>2. e.shared \subseteq common[p]
      BY <1>18, <2>1
    <2>3. \A s \in e.shared : s \in Informative(M) /\ e.ends \subseteq NodesOf(M, s)
      BY <1>1, <1>3, <2>1, <2>2
    <2> QED BY <1>18, <2>1, <2>3
  <1>20. \A e, f \in C : e.ends = f.ends => e = f
    BY <1>17
  <1> QED BY <1>9, <1>10, <1>15, <1>16, <1>19, <1>20
----------------------------------------------------------------------------
(* Batches and what is merged of them. *)

\* A node keeps what it has when a batch is merged.
LEMMA ExtendedHolds ==
  ASSUME NEW old, IsSeq(old), NEW n, NEW got, IsSeq(got)
  PROVE  IsSeq(Extended(old, n, got)) /\ ToSet(old) \subseteq ToSet(Extended(old, n, got))
PROOF
  <1> DEFINE Step(acc, g) == IF g.node # n \/ \E i \in 1..Len(acc) : acc[i] = g.entity.text
                             THEN acc ELSE Append(acc, g.entity.text)
             Fold(f) == f = [s \in SUBSET (DOMAIN got) |->
                               IF s = {} THEN old ELSE Step(f[s \ {Max(s)}], got[Max(s)])]
  <1>1. Extended(old, n, got) = (CHOOSE f : Fold(f))[DOMAIN got]
    BY DEF Extended, FoldLeft, MapThenFoldSet
  <1>2. PICK k : k = Len(got)
    OBVIOUS
  <1>3. k \in Nat /\ DOMAIN got = 1..k
    BY <1>2, SequenceHolds DEF IsSeq
  <1>4. PICK X : X = ToSet(old) \cup {got[i].entity.text : i \in 1..k}
    OBVIOUS
  <1>5. PICK A : A = {s \in Seq(X) : ToSet(old) \subseteq ToSet(s)}
    OBVIOUS
  <1>6. old \in A
    <2>1. old \in Seq(ToSet(old)) /\ ToSet(old) \subseteq X
      BY <1>4 DEF IsSeq
    <2>2. old \in Seq(X)
      BY <2>1
    <2> QED BY <1>5, <2>2
  <1>7. ASSUME NEW s \in A, NEW i \in 1..k PROVE Step(s, got[i]) \in A
    <2>1. PICK x : x = got[i].entity.text
      OBVIOUS
    <2>2. x \in X
      BY <1>4, <2>1
    <2>3. s \in Seq(X) /\ ToSet(old) \subseteq ToSet(s)
      BY <1>5
    <2>4. Append(s, x) \in Seq(X) /\ ToSet(Append(s, x)) = ToSet(s) \cup {x}
      BY <2>2, <2>3, AppendHolds
    <2>5. Append(s, x) \in A
      BY <1>5, <2>3, <2>4
    <2> QED BY <2>1, <2>5
  <1> HIDE DEF Step
  <1>8. PICK G : G = [p \in A \X (1..k) |-> Step(p[1], got[p[2]])]
    OBVIOUS
  <1>9. \A s \in A, i \in 1..k : G[<<s, i>>] = Step(s, got[i]) /\ G[<<s, i>>] \in A
    BY <1>7, <1>8
  <1>10. PICK f : PlaceFold(f, old, G, k) /\ \A s \in SUBSET (1..k) : f[s] \in A
    BY <1>3, <1>6, <1>9, PlaceFoldHolds
  <1>11. ASSUME NEW s \in SUBSET (1..k), s # {} PROVE Max(s) \in 1..k /\ s \ {Max(s)} \in SUBSET (1..k)
    BY <1>3, <1>11, LastPlace
  <1>12. Fold(f)
    <2>1. ASSUME NEW s \in SUBSET (1..k), s # {} PROVE f[s] = Step(f[s \ {Max(s)}], got[Max(s)])
      BY <1>9, <1>10, <1>11, <2>1 DEF PlaceFold
    <2> QED BY <1>3, <1>10, <2>1 DEF PlaceFold
  <1> HIDE DEF Fold
  <1>13. PICK g : Fold(g) /\ Extended(old, n, got) = g[1..k]
    BY <1>1, <1>3, <1>12
  <1>14. g[{}] \in A
    BY <1>6, <1>13 DEF Fold
  <1>15. ASSUME NEW s \in SUBSET (1..k), s # {}, g[s \ {Max(s)}] \in A PROVE g[s] \in A
    <2>1. g[s] = Step(g[s \ {Max(s)}], got[Max(s)])
      BY <1>3, <1>13, <1>15 DEF Fold
    <2> QED BY <1>7, <1>11, <1>15, <2>1
  <1>16. \A s \in SUBSET (1..k) : g[s] \in A
    BY <1>3, <1>14, <1>15, PlacesAreFolded
  <1>17. Extended(old, n, got) \in A
    BY <1>13, <1>16
  <1>18. Extended(old, n, got) \in Seq(X) /\ ToSet(old) \subseteq ToSet(Extended(old, n, got))
    BY <1>5, <1>17
  <1> QED BY <1>18, SequenceHolds

\* What one unit's answer adds to what was found before.
Grounds(base, n, answer) ==
    FoldLeft(LAMBDA a, e : IF e.text \in Grounded[n] THEN Append(a, [node |-> n, entity |-> e]) ELSE a,
             base, answer)

\* It is a sequence of grounded entities.
LEMMA GroundedHolds ==
  ASSUME NEW X, NEW base \in Seq(X), NEW answer, IsSeq(answer), NEW n,
         \A e \in ToSet(answer) : [node |-> n, entity |-> e] \in X
  PROVE  Grounds(base, n, answer) \in Seq(X)
PROOF
  <1> DEFINE Step(a, e) == IF e.text \in Grounded[n] THEN Append(a, [node |-> n, entity |-> e]) ELSE a
             Fold(f) == f = [s \in SUBSET (DOMAIN answer) |->
                               IF s = {} THEN base ELSE Step(f[s \ {Max(s)}], answer[Max(s)])]
             whole == Grounds(base, n, answer)
  <1>1. whole = (CHOOSE f : Fold(f))[DOMAIN answer]
    BY DEF Grounds, FoldLeft, MapThenFoldSet
  <1>2. PICK k : k = Len(answer)
    OBVIOUS
  <1>3. k \in Nat /\ DOMAIN answer = 1..k /\ \A i \in 1..k : answer[i] \in ToSet(answer)
    BY <1>2, SequenceHolds DEF IsSeq
  <1>4. ASSUME NEW s \in Seq(X), NEW i \in 1..k PROVE Step(s, answer[i]) \in Seq(X)
    BY <1>3
  <1> HIDE DEF Step
  <1>5. PICK G : G = [p \in Seq(X) \X (1..k) |-> Step(p[1], answer[p[2]])]
    OBVIOUS
  <1>6. \A s \in Seq(X), i \in 1..k : G[<<s, i>>] = Step(s, answer[i]) /\ G[<<s, i>>] \in Seq(X)
    BY <1>4, <1>5
  <1>7. PICK f : PlaceFold(f, base, G, k) /\ \A s \in SUBSET (1..k) : f[s] \in Seq(X)
    BY <1>3, <1>6, PlaceFoldHolds
  <1>8. ASSUME NEW s \in SUBSET (1..k), s # {} PROVE Max(s) \in 1..k /\ s \ {Max(s)} \in SUBSET (1..k)
    BY <1>3, <1>8, LastPlace
  <1>9. Fold(f)
    <2>1. ASSUME NEW s \in SUBSET (1..k), s # {} PROVE f[s] = Step(f[s \ {Max(s)}], answer[Max(s)])
      BY <1>6, <1>7, <1>8, <2>1 DEF PlaceFold
    <2> QED BY <1>3, <1>7, <2>1 DEF PlaceFold
  <1> HIDE DEF Fold, whole
  <1>10. PICK g : Fold(g) /\ whole = g[1..k]
    BY <1>1, <1>3, <1>9
  <1>11. g[{}] \in Seq(X)
    BY <1>10 DEF Fold
  <1>12. ASSUME NEW s \in SUBSET (1..k), s # {}, g[s \ {Max(s)}] \in Seq(X) PROVE g[s] \in Seq(X)
    <2>1. g[s] = Step(g[s \ {Max(s)}], answer[Max(s)])
      BY <1>3, <1>10, <1>12 DEF Fold
    <2> QED BY <1>4, <1>8, <1>12, <2>1
  <1>13. \A s \in SUBSET (1..k) : g[s] \in Seq(X)
    BY <1>3, <1>11, <1>12, PlacesAreFolded
  <1>14. whole \in Seq(X)
    BY <1>10, <1>13
  <1> QED BY <1>14 DEF whole
\* What an answered call adds is a sequence.
LEMMA FoundHolds ==
  ASSUME NEW U, NEW batch \in Seq(U), NEW answer, \A u \in ToSet(batch) : IsSeq(answer[u])
  PROVE  IsSeq(Found(batch, answer))
PROOF
  <1> DEFINE Step(acc, u) == Grounds(acc, NodeOf[u], answer[u])
             Fold(f) == f = [s \in SUBSET (DOMAIN batch) |->
                               IF s = {} THEN <<>> ELSE Step(f[s \ {Max(s)}], batch[Max(s)])]
             whole == FoldLeft(LAMBDA acc, u : Step(acc, u), <<>>, batch)
  <1>1. Found(batch, answer) = whole
    BY DEF Found, Grounds
  <1> HIDE DEF Step
  <1>2. whole = (CHOOSE f : Fold(f))[DOMAIN batch]
    BY DEF FoldLeft, MapThenFoldSet
  <1>3. PICK k : k = Len(batch)
    OBVIOUS
  <1>4. k \in Nat /\ DOMAIN batch = 1..k /\ \A i \in 1..k : batch[i] \in ToSet(batch)
    BY <1>3, SequenceHolds
  <1>5. PICK X : X = UNION {{[node |-> NodeOf[u], entity |-> e] : e \in ToSet(answer[u])} : u \in ToSet(batch)}
    OBVIOUS
  <1>6. ASSUME NEW s \in Seq(X), NEW i \in 1..k PROVE Step(s, batch[i]) \in Seq(X)
    <2>1. PICK u, n, a : u = batch[i] /\ n = NodeOf[u] /\ a = answer[u]
      OBVIOUS
    <2>2. u \in ToSet(batch) /\ IsSeq(a)
      BY <1>4, <2>1
    <2>3. \A e \in ToSet(a) : [node |-> n, entity |-> e] \in X
      <3>1. ASSUME NEW e \in ToSet(a) PROVE [node |-> n, entity |-> e] \in X
        <4>1. [node |-> n, entity |-> e] \in {[node |-> NodeOf[u], entity |-> d] : d \in ToSet(answer[u])}
          BY <2>1
        <4> QED BY <1>5, <2>2, <4>1
      <3> QED BY <3>1
    <2>4. Grounds(s, n, a) \in Seq(X)
      BY <2>2, <2>3, GroundedHolds
    <2> QED BY <2>1, <2>4 DEF Step
  <1>7. <<>> \in Seq(X)
    OBVIOUS
  <1>8. PICK G : G = [p \in Seq(X) \X (1..k) |-> Step(p[1], batch[p[2]])]
    OBVIOUS
  <1>9. \A s \in Seq(X), i \in 1..k : G[<<s, i>>] = Step(s, batch[i]) /\ G[<<s, i>>] \in Seq(X)
    BY <1>6, <1>8
  <1>10. PICK f : PlaceFold(f, <<>>, G, k) /\ \A s \in SUBSET (1..k) : f[s] \in Seq(X)
    BY <1>4, <1>7, <1>9, PlaceFoldHolds
  <1>11. ASSUME NEW s \in SUBSET (1..k), s # {} PROVE Max(s) \in 1..k /\ s \ {Max(s)} \in SUBSET (1..k)
    BY <1>4, <1>11, LastPlace
  <1>12. Fold(f)
    <2>1. ASSUME NEW s \in SUBSET (1..k), s # {} PROVE f[s] = Step(f[s \ {Max(s)}], batch[Max(s)])
      BY <1>9, <1>10, <1>11, <2>1 DEF PlaceFold
    <2> QED BY <1>4, <1>10, <2>1 DEF PlaceFold
  <1> HIDE DEF Fold, whole
  <1>13. PICK g : Fold(g) /\ whole = g[1..k]
    BY <1>2, <1>4, <1>12
  <1>14. g[{}] \in Seq(X)
    BY <1>7, <1>13 DEF Fold
  <1>15. ASSUME NEW s \in SUBSET (1..k), s # {}, g[s \ {Max(s)}] \in Seq(X) PROVE g[s] \in Seq(X)
    <2>1. g[s] = Step(g[s \ {Max(s)}], batch[Max(s)])
      BY <1>4, <1>13, <1>15 DEF Fold
    <2> QED BY <1>6, <1>11, <1>15, <2>1
  <1>16. \A s \in SUBSET (1..k) : g[s] \in Seq(X)
    BY <1>4, <1>14, <1>15, PlacesAreFolded
  <1>17. whole \in Seq(X)
    BY <1>13, <1>16
  <1> QED BY <1>1, <1>17, SequenceHolds

\* A batch is a sequence of units, and so is every half of one.
Batch == Seq(ToSet(Units))

\* The pieces that are sent to a model.
Texts ==
    FoldLeft(LAMBDA acc, u : IF Kind[NodeOf[u]] \in {"Section", "Page"} THEN Append(acc, u) ELSE acc,
             <<>>, Units)

\* They are units.
LEMMA TextsHold ==
  ASSUME Units \in Batch
  PROVE  Texts \in Batch
PROOF
  <1> DEFINE Step(acc, u) == IF Kind[NodeOf[u]] \in {"Section", "Page"} THEN Append(acc, u) ELSE acc
             Fold(f) == f = [s \in SUBSET (DOMAIN Units) |->
                               IF s = {} THEN <<>> ELSE Step(f[s \ {Max(s)}], Units[Max(s)])]
             whole == Texts
  <1>1. whole = (CHOOSE f : Fold(f))[DOMAIN Units]
    BY DEF Texts, FoldLeft, MapThenFoldSet
  <1>2. PICK k : k = Len(Units)
    OBVIOUS
  <1>3. k \in Nat /\ DOMAIN Units = 1..k /\ \A i \in 1..k : Units[i] \in ToSet(Units)
    BY <1>2, SequenceHolds DEF Batch
  <1>4. ASSUME NEW s \in Batch, NEW i \in 1..k PROVE Step(s, Units[i]) \in Batch
    BY <1>3 DEF Batch
  <1>5. <<>> \in Batch
    BY DEF Batch
  <1> HIDE DEF Step
  <1>6. PICK G : G = [p \in Batch \X (1..k) |-> Step(p[1], Units[p[2]])]
    OBVIOUS
  <1>7. \A s \in Batch, i \in 1..k : G[<<s, i>>] = Step(s, Units[i]) /\ G[<<s, i>>] \in Batch
    BY <1>4, <1>6
  <1>8. PICK f : PlaceFold(f, <<>>, G, k) /\ \A s \in SUBSET (1..k) : f[s] \in Batch
    BY <1>3, <1>5, <1>7, PlaceFoldHolds
  <1>9. ASSUME NEW s \in SUBSET (1..k), s # {} PROVE Max(s) \in 1..k /\ s \ {Max(s)} \in SUBSET (1..k)
    BY <1>3, <1>9, LastPlace
  <1>10. Fold(f)
    <2>1. ASSUME NEW s \in SUBSET (1..k), s # {} PROVE f[s] = Step(f[s \ {Max(s)}], Units[Max(s)])
      BY <1>7, <1>8, <1>9, <2>1 DEF PlaceFold
    <2> QED BY <1>3, <1>8, <2>1 DEF PlaceFold
  <1> HIDE DEF Fold, whole
  <1>11. PICK g : Fold(g) /\ whole = g[1..k]
    BY <1>1, <1>3, <1>10
  <1>12. g[{}] \in Batch
    BY <1>5, <1>11 DEF Fold
  <1>13. ASSUME NEW s \in SUBSET (1..k), s # {}, g[s \ {Max(s)}] \in Batch PROVE g[s] \in Batch
    <2>1. g[s] = Step(g[s \ {Max(s)}], Units[Max(s)])
      BY <1>3, <1>11, <1>13 DEF Fold
    <2> QED BY <1>4, <1>9, <1>13, <2>1
  <1>14. \A s \in SUBSET (1..k) : g[s] \in Batch
    BY <1>3, <1>12, <1>13, PlacesAreFolded
  <1>15. whole \in Batch
    BY <1>11, <1>14
  <1> QED BY <1>15 DEF whole

\* The batches are cut from them.
LEMMA BatchesHold ==
  ASSUME SemanticAssumption
  PROVE  Batches \in Seq(Batch)
PROOF
  <1>1. PICK units : units = Texts
    OBVIOUS
  <1>2. units \in Batch /\ Len(units) \in Nat
    <2>1. Units \in Batch
      BY DEF SemanticAssumption, Batch
    <2>2. units \in Batch
      BY <1>1, <2>1, TextsHold
    <2> QED BY <2>2 DEF Batch
  <1>3. PICK count : count = (Len(units) + BatchSize - 1) \div BatchSize
    OBVIOUS
  <1>4. BatchSize \in Nat /\ BatchSize >= 1
    BY DEF SemanticAssumption
  <1>5. count \in Nat
    <2>1. \A l, k \in Nat : k >= 1 => l + k - 1 \in Nat
      OBVIOUS
    <2>2. PICK a \in Nat : a = Len(units) + BatchSize - 1
      BY <1>2, <1>4, <2>1
    <2> QED BY <1>3, <1>4, <2>2
  <1>6. PICK b : b = [i \in 1..count |-> SubSeq(units, (i - 1) * BatchSize + 1, Min({i * BatchSize, Len(units)}))]
    OBVIOUS
  <1>7. Batches = b
    BY <1>1, <1>3, <1>6 DEF Batches, Texts
  <1>8. ASSUME NEW i \in 1..count PROVE b[i] \in Batch
    <2>1. i - 1 \in Nat /\ (i - 1) * BatchSize \in Nat /\ i * BatchSize \in Int
      BY <1>4, <1>5
    <2>2. PICK from, to : from = (i - 1) * BatchSize + 1 /\ to = Min({i * BatchSize, Len(units)})
      OBVIOUS
    <2>3. from \in Int /\ from >= 1
      BY <2>1, <2>2
    <2>4. to \in Int /\ to <= Len(units)
      BY <1>2, <2>1, <2>2, MinHolds
    <2>5. SubSeq(units, from, to) \in Batch
      BY <1>2, <2>3, <2>4, PartHolds DEF Batch
    <2> QED BY <1>6, <2>2, <2>5
  <1>9. b \in [1..count -> Batch]
    BY <1>6, <1>8
  <1> QED BY <1>5, <1>7, <1>9
----------------------------------------------------------------------------
(* Edges between close nodes. *)

\* They respect the cap, and join nodes of the set.
LEMMA TopPairsHold ==
  ASSUME NEW S, IsFiniteSet(S), NEW closeness, NEW floor
  PROVE  /\ \A n : Degree(TopPairs(S, closeness, floor), n) <= DegreeCap
         /\ \A e \in TopPairs(S, closeness, floor) : e.ends \subseteq S
PROOF
  <1>1. PICK f : f = [p \in PairsOf(S) |-> [ends |-> p, score |-> closeness[p]]]
    OBVIOUS
  <1>2. PICK Q : Q = {q \in PairsOf(S) : closeness[q] >= floor}
    OBVIOUS
  <1>3. PICK C : C = {f[p] : p \in Q}
    OBVIOUS
  <1>4. TopPairs(S, closeness, floor) = CapByDegree(C)
    <2>1. C = {[ends |-> p, score |-> closeness[p]] : p \in Q}
      BY <1>1, <1>2, <1>3
    <2> QED BY <1>2, <2>1 DEF TopPairs
  <1>5. IsFiniteSet(Q)
    BY <1>2, PairsAreFinite, FS_Subset
  <1>6. IsFiniteSet(C)
    BY <1>3, <1>5, ImageIsFinite
  <1>7. \A e \in C : e.ends \subseteq S
    <2>1. \A p \in Q : f[p].ends = p /\ p \subseteq S
      BY <1>1, <1>2 DEF PairsOf
    <2> QED BY <1>3, <2>1
  <1>8. CapByDegree(C) \in SUBSET C /\ \A n : Degree(CapByDegree(C), n) <= DegreeCap
    BY <1>6, CapHolds DEF Capped
  <1> QED BY <1>4, <1>7, <1>8

\* No edge at all.
LEMMA NoDegree ==
  \A n : Degree({}, n) <= DegreeCap
PROOF
  <1>1. ASSUME NEW n PROVE Degree({}, n) <= DegreeCap
    <2>1. {e \in {} : n \in e.ends} = {}
      OBVIOUS
    <2> QED BY <2>1, FS_EmptySet, CapAssumption DEF Degree
  <1> QED BY <1>1

\* A node is in one cluster, and has the edges of that cluster only.
LEMMA SameCategoryHolds ==
  ASSUME NEW S, IsFiniteSet(S), NEW label, NEW noise, NEW closeness, NEW floor, NEW n
  PROVE  Degree(SameCategory(S, label, noise, closeness, floor), n) <= DegreeCap
PROOF
  <1>1. PICK cluster : cluster = [c \in {label[m] : m \in S} |-> {m \in S : label[m] = c}]
    OBVIOUS
  <1>2. PICK top : top = [c \in {label[m] : m \in S} |-> TopPairs(cluster[c], closeness, floor)]
    OBVIOUS
  <1>3. PICK all : all = SameCategory(S, label, noise, closeness, floor)
    OBVIOUS
  <1>4. \A e \in all : \E c \in {label[m] : m \in S} \ {noise} : e \in top[c]
    BY <1>1, <1>2, <1>3 DEF SameCategory
  <1>5. ASSUME NEW c \in {label[m] : m \in S}
        PROVE  /\ \A m : Degree(top[c], m) <= DegreeCap
               /\ \A e \in top[c] : \A m \in e.ends : m \in S /\ label[m] = c
    <2>1. PICK T : T = {m \in S : label[m] = c}
      OBVIOUS
    <2>2. IsFiniteSet(T) /\ top[c] = TopPairs(T, closeness, floor)
      BY <1>1, <1>2, <2>1, FS_Subset
    <2>3. /\ \A m : Degree(top[c], m) <= DegreeCap
          /\ \A e \in top[c] : e.ends \subseteq T
      BY <2>2, TopPairsHold
    <2> QED BY <2>1, <2>3
  <1>6. PICK mine : mine = {e \in all : n \in e.ends}
    OBVIOUS
  <1>7. CASE mine = {}
    <2>1. Cardinality(mine) = 0
      BY <1>7, FS_EmptySet
    <2> QED BY <1>3, <1>6, <2>1, CapAssumption DEF Degree
  <1>8. CASE mine # {}
    <2>1. \A e \in mine : n \in S /\ e \in top[label[n]] /\ label[n] # noise
      BY <1>4, <1>5, <1>6
    <2>2. n \in S /\ label[n] \in {label[m] : m \in S} /\ label[n] # noise
      BY <1>8, <2>1
    <2>3. top[label[n]] \subseteq all
      BY <1>1, <1>2, <1>3, <2>2 DEF SameCategory
    <2>4. mine = {e \in top[label[n]] : n \in e.ends}
      BY <1>6, <2>1, <2>3
    <2>5. Degree(all, n) = Degree(top[label[n]], n)
      BY <1>6, <2>4 DEF Degree
    <2> QED BY <1>3, <1>5, <2>2, <2>5
  <1> QED BY <1>7, <1>8

----------------------------------------------------------------------------
(* The pairs that are asked. *)

\* A function on the first n places is a sequence of n.
LEMMA FunctionIsSequence ==
  ASSUME NEW P, NEW n \in Nat, NEW r \in [1..n -> P]
  PROVE  r \in Seq(P) /\ Len(r) = n /\ ToSet(r) = {r[i] : i \in 1..n}
PROOF
  <1>1. DOMAIN r = 1..n /\ r \in Seq(P) /\ Len(r) = n
    OBVIOUS
  <1>2. ToSet(r) = {r[i] : i \in 1..n}
    BY <1>1 DEF ToSet
  <1> QED BY <1>1, <1>2

\* The ends of the first candidates of a ranking, no pair of nodes twice.
FirstEnds(s, k) == [i \in 1..Min({k, Len(s)}) |-> s[i].ends]
LEMMA FirstHolds ==
  ASSUME NEW C, NEW s \in Seq(C), Once(s), NEW P, NEW k \in Nat,
         \A x \in C : x.ends \in P, \A x, y \in C : x.ends = y.ends => x = y
  PROVE  /\ FirstEnds(s, k) \in Seq(P) /\ Len(FirstEnds(s, k)) <= k /\ Len(FirstEnds(s, k)) \in Nat
         /\ Once(FirstEnds(s, k)) /\ ToSet(FirstEnds(s, k)) \subseteq {x.ends : x \in C}
PROOF
  <1>0. PICK r : r = FirstEnds(s, k)
    OBVIOUS
  <1>1. PICK n : n = Min({k, Len(s)})
    OBVIOUS
  <1>2. n \in Nat /\ n <= k /\ n <= Len(s) /\ Len(s) \in Nat
    <2>1. Len(s) \in Nat
      OBVIOUS
    <2> QED BY <1>1, <2>1, MinHolds
  <1>3. \A i \in 1..n : i \in 1..Len(s) /\ s[i] \in C
    BY <1>2
  <1>4. r = [i \in 1..n |-> s[i].ends]
    BY <1>0, <1>1 DEF FirstEnds
  <1>5. r \in [1..n -> P]
    BY <1>3, <1>4
  <1>6. r \in Seq(P) /\ Len(r) = n /\ ToSet(r) = {r[i] : i \in 1..n}
    BY <1>2, <1>5, FunctionIsSequence
  <1>7. Once(r)
    <2>1. ASSUME NEW i \in 1..n, NEW j \in 1..n, r[i] = r[j] PROVE i = j
      <3>1. s[i].ends = s[j].ends
        BY <1>4, <2>1
      <3>2. s[i] = s[j]
        BY <1>3, <3>1
      <3> QED BY <1>3, <3>2 DEF Once
    <2> QED BY <1>6, <2>1 DEF Once
  <1>8. ToSet(r) \subseteq {x.ends : x \in C}
    <2>1. ASSUME NEW x \in ToSet(r) PROVE \E y \in C : x = y.ends
      <3>1. PICK i \in 1..n : x = r[i]
        BY <1>6
      <3>2. s[i] \in C /\ x = s[i].ends
        BY <1>3, <1>4, <3>1
      <3> QED BY <3>2
    <2> QED BY <2>1
  <1> QED BY <1>0, <1>2, <1>6, <1>7, <1>8

\* Two sequences without a common element, one after the other.
LEMMA JoinedOnce ==
  ASSUME NEW P, NEW a \in Seq(P), NEW b \in Seq(P), Once(a), Once(b), ToSet(a) \cap ToSet(b) = {}
  PROVE  Once(a \o b)
PROOF
  <1>1. PICK r, m, n : r = a \o b /\ m = Len(a) /\ n = Len(b)
    OBVIOUS
  <1>2. m \in Nat /\ n \in Nat
    BY <1>1
  <1>3. /\ Len(r) = m + n /\ \A i \in 1..m : r[i] = a[i]
        /\ \A i \in 1..n : r[m + i] = b[i]
    BY <1>1, Joined
  <1>4. ToSet(a) = {a[i] : i \in 1..m} /\ ToSet(b) = {b[i] : i \in 1..n}
    <2>1. ToSet(a) = {a[i] : i \in 1..m}
      BY <1>1, SequenceHolds
    <2>2. ToSet(b) = {b[i] : i \in 1..n}
      BY <1>1, SequenceHolds
    <2> QED BY <2>1, <2>2
  <1>5. ASSUME NEW i \in 1..(m + n), i \notin 1..m PROVE i - m \in 1..n /\ r[i] = b[i - m]
    <2>1. i - m \in 1..n /\ i = m + (i - m)
      BY <1>2, <1>5
    <2> QED BY <1>3, <2>1
  <1>6. ASSUME NEW i \in 1..(m + n), NEW j \in 1..(m + n), r[i] = r[j] PROVE i = j
    <2>1. CASE i \in 1..m /\ j \in 1..m
      BY <1>1, <1>3, <1>6, <2>1 DEF Once
    <2>2. CASE i \notin 1..m /\ j \notin 1..m
      <3>1. i - m = j - m
        BY <1>1, <1>5, <1>6, <2>2 DEF Once
      <3> QED BY <1>2, <3>1
    <2>3. CASE i \in 1..m /\ j \notin 1..m
      BY <1>3, <1>4, <1>5, <1>6, <2>3, ZenonT(60)
    <2>4. CASE i \notin 1..m /\ j \in 1..m
      BY <1>3, <1>4, <1>5, <1>6, <2>4, ZenonT(60)
    <2> QED BY <2>1, <2>2, <2>3, <2>4
  <1> QED BY <1>1, <1>3, <1>6 DEF Once
\* No pair is asked twice, though there are two pools, and not more pairs
\* than there are calls.
LEMMA PairsToAskHold ==
  ASSUME SemanticAssumption, embedded \subseteq Nodes, NEW shares, IsFiniteSet(shares),
         \A e \in shares : e.ends \in PairsOf(Nodes), \A e, f \in shares : e.ends = f.ends => e = f
  PROVE  /\ PairsToAsk(shares) \in Seq(PairsOf(Nodes)) /\ Once(PairsToAsk(shares))
         /\ Len(PairsToAsk(shares)) <= Pairs
PROOF
  <1>1. PICK close : close = {[ends |-> p, score |-> Similarity[p]] :
                                p \in {q \in PairsOf(embedded) : Similarity[q] >= Contradicting}}
    OBVIOUS
  <1>2. PICK bridges : bridges = {[ends |-> e.ends, score |-> e.score] :
                                    e \in {s \in shares : s.ends \subseteq embedded
                                                          /\ Similarity[s.ends] < Contradicting}}
    OBVIOUS
  <1>3. PICK slots : slots = Min({Cardinality(bridges), Pairs \div 3})
    OBVIOUS
  <1>4. PICK a, b : a = FirstEnds(ByScore(close), Pairs - slots) /\ b = FirstEnds(ByScore(bridges), slots)
    OBVIOUS
  <1>5. PairsToAsk(shares) = a \o b
    BY <1>1, <1>2, <1>3, <1>4 DEF PairsToAsk, FirstEnds
  <1>6. /\ IsFiniteSet(close) /\ \A x, y \in close : x.ends = y.ends => x = y
        /\ \A x \in close : x.ends \in PairsOf(Nodes) /\ Similarity[x.ends] >= Contradicting
    <2>1. PICK Q : Q = {q \in PairsOf(embedded) : Similarity[q] >= Contradicting}
      OBVIOUS
    <2>2. PICK f : f = [p \in Q |-> [ends |-> p, score |-> Similarity[p]]]
      OBVIOUS
    <2>3. close = {f[p] : p \in Q}
      BY <1>1, <2>1, <2>2
    <2>4. Q \in SUBSET PairsOf(Nodes)
      BY <2>1 DEF PairsOf
    <2>5. IsFiniteSet(Q)
      BY <2>4, PairsAreFinite, FS_Subset DEF SemanticAssumption
    <2>6. IsFiniteSet(close)
      BY <2>3, <2>5, ImageIsFinite
    <2>7. \A x \in close : \E p \in Q : x = [ends |-> p, score |-> Similarity[p]]
      BY <2>2, <2>3
    <2>8. \A x \in close : x.ends \in Q /\ x = [ends |-> x.ends, score |-> Similarity[x.ends]]
      BY <2>7
    <2> QED BY <2>1, <2>4, <2>6, <2>8
  <1>7. /\ IsFiniteSet(bridges) /\ \A x, y \in bridges : x.ends = y.ends => x = y
        /\ \A x \in bridges : x.ends \in PairsOf(Nodes) /\ Similarity[x.ends] < Contradicting
    <2>1. PICK Q : Q = {s \in shares : s.ends \subseteq embedded /\ Similarity[s.ends] < Contradicting}
      OBVIOUS
    <2>2. PICK f : f = [e \in Q |-> [ends |-> e.ends, score |-> e.score]]
      OBVIOUS
    <2>3. bridges = {f[e] : e \in Q}
      BY <1>2, <2>1, <2>2
    <2>4. IsFiniteSet(Q)
      BY <2>1, FS_Subset
    <2>5. IsFiniteSet(bridges)
      BY <2>3, <2>4, ImageIsFinite
    <2>6. \A x \in bridges : \E e \in Q : x = f[e] /\ x.ends = e.ends
      BY <2>2, <2>3
    <2>7. \A x, y \in bridges : x.ends = y.ends => x = y
      BY <2>1, <2>6
    <2> QED BY <2>1, <2>5, <2>6, <2>7
  <1>8. slots \in Nat /\ Pairs - slots \in Nat /\ Pairs \in Nat
    <2>1. Cardinality(bridges) \in Nat
      BY <1>7, FS_CardinalityType
    <2>2. Pairs \in Nat
      BY DEF SemanticAssumption
    <2>3. PICK third \in Nat : third = Pairs \div 3 /\ third <= Pairs
      BY <2>2
    <2>4. slots \in Nat /\ slots <= third
      BY <1>3, <2>1, <2>3, MinHolds
    <2> QED BY <2>2, <2>3, <2>4
  <1>9. /\ a \in Seq(PairsOf(Nodes)) /\ Len(a) <= Pairs - slots /\ Len(a) \in Nat /\ Once(a)
        /\ ToSet(a) \subseteq {x.ends : x \in close}
    <2>1. ByScore(close) \in Seq(close) /\ Once(ByScore(close))
      BY <1>6, ByScoreHolds
    <2> QED BY <1>4, <1>6, <1>8, <2>1, FirstHolds
  <1>10. /\ b \in Seq(PairsOf(Nodes)) /\ Len(b) <= slots /\ Len(b) \in Nat /\ Once(b)
         /\ ToSet(b) \subseteq {x.ends : x \in bridges}
    <2>1. ByScore(bridges) \in Seq(bridges) /\ Once(ByScore(bridges))
      BY <1>7, ByScoreHolds
    <2> QED BY <1>4, <1>7, <1>8, <2>1, FirstHolds
  <1>11. ToSet(a) \cap ToSet(b) = {}
    <2>1. ASSUME NEW p \in ToSet(a), p \in ToSet(b) PROVE FALSE
      <3>1. p \in PairsOf(Nodes) /\ Similarity[p] >= Contradicting /\ Similarity[p] < Contradicting
        BY <1>6, <1>7, <1>9, <1>10, <2>1
      <3>2. Similarity[p] \in Int /\ Contradicting \in Int
        BY <3>1 DEF SemanticAssumption
      <3> QED BY <3>1, <3>2
    <2> QED BY <2>1
  <1>12. Once(a \o b)
    BY <1>9, <1>10, <1>11, JoinedOnce
  <1>13. a \o b \in Seq(PairsOf(Nodes)) /\ Len(a \o b) = Len(a) + Len(b)
    BY <1>9, <1>10, Joined
  <1>14. Len(a \o b) <= Pairs
    BY <1>8, <1>9, <1>10, <1>13
  <1> QED BY <1>5, <1>12, <1>13, <1>14

----------------------------------------------------------------------------
(* The entities of nodes. *)

\* Every node has a sequence of entities.
Entitled == DOMAIN entities = Nodes /\ \A n \in Nodes : IsSeq(entities[n])

\* The mentions are finitely many, of the nodes that have an entity.
LEMMA MentionsHold ==
  ASSUME SemanticAssumption, Entitled
  PROVE  /\ IsFiniteSet(Mentions(entities, types))
         /\ \A m \in Mentions(entities, types) : IsMention(m)
         /\ NodesIn(Mentions(entities, types)) = {n \in Nodes : entities[n] # <<>>}
PROOF
  <1>1. PICK of : of = [n \in Nodes |-> {[node |-> n, text |-> t, type |-> TypeOf(types, n, t)] :
                                            t \in ToSet(entities[n])}]
    OBVIOUS
  <1>2. PICK all : all = {of[n] : n \in Nodes}
    OBVIOUS
  <1>3. Mentions(entities, types) = UNION all
    BY <1>1, <1>2 DEF Mentions, Entitled
  <1>4. IsFiniteSet(all)
    BY <1>2, ImageIsFinite DEF SemanticAssumption
  <1>5. ASSUME NEW n \in Nodes PROVE IsFiniteSet(of[n])
    <2>1. PICK f : f = [t \in ToSet(entities[n]) |-> [node |-> n, text |-> t, type |-> TypeOf(types, n, t)]]
      OBVIOUS
    <2>2. of[n] = {f[t] : t \in ToSet(entities[n])}
      BY <1>1, <2>1
    <2>3. IsFiniteSet(ToSet(entities[n]))
      BY ElementsAreFinite DEF Entitled
    <2> QED BY <2>2, <2>3, ImageIsFinite
  <1>6. IsFiniteSet(UNION all)
    <2>1. \A T \in all : IsFiniteSet(T)
      BY <1>2, <1>5
    <2> QED BY <1>4, <2>1, FS_UNION
  <1>7. ASSUME NEW m \in UNION all
        PROVE  IsMention(m) /\ m.node \in Nodes /\ ToSet(entities[m.node]) # {}
    <2>1. PICK n \in Nodes : m \in of[n]
      BY <1>2
    <2>2. PICK t \in ToSet(entities[n]) : m = [node |-> n, text |-> t, type |-> TypeOf(types, n, t)]
      BY <1>1, <2>1
    <2>3. PICK c : c = TypeOf(types, n, t)
      OBVIOUS
    <2>4. m = [node |-> n, text |-> t, type |-> c]
      BY <2>2, <2>3
    <2> QED BY <2>4 DEF IsMention
  <1>8. ASSUME NEW n \in Nodes, ToSet(entities[n]) # {} PROVE n \in NodesIn(UNION all)
    <2>1. PICK t : t \in ToSet(entities[n])
      BY <1>8
    <2>2. PICK m : m = [node |-> n, text |-> t, type |-> TypeOf(types, n, t)]
      OBVIOUS
    <2>3. m \in of[n] /\ m.node = n
      BY <1>1, <2>1, <2>2
    <2> QED BY <1>2, <2>3 DEF NodesIn
  <1>9. \A n \in Nodes : entities[n] # <<>> <=> ToSet(entities[n]) # {}
    BY SequenceHolds DEF Entitled, IsSeq
  <1>10. \A n \in NodesIn(UNION all) : n \in Nodes /\ ToSet(entities[n]) # {}
    BY <1>7 DEF NodesIn
  <1>11. NodesIn(UNION all) = {n \in Nodes : entities[n] # <<>>}
    BY <1>8, <1>9, <1>10
  <1> QED BY <1>3, <1>6, <1>7, <1>11

\* What two nodes share is named by both, is not pervasive and has a topic.
LEMMA SharesAreSpecific ==
  ASSUME SemanticAssumption, Entitled, edges.shares = SharesEntity(Named)
  PROVE  SharedEntitiesAreSpecific
PROOF
  <1>1. PICK total, holders : total = Cardinality(holders) /\ holders = {n \in Nodes : entities[n] # <<>>}
    OBVIOUS
  <1>2. /\ IsFiniteSet(Named) /\ NodesIn(Named) = holders /\ \A m \in Named : IsMention(m)
    BY <1>1, MentionsHold, ResolvedHolds DEF Named
  <1>3. total \in 0..Cardinality(Nodes)
    <2>1. holders \in SUBSET Nodes /\ IsFiniteSet(Nodes)
      BY <1>1 DEF SemanticAssumption
    <2>2. IsFiniteSet(holders) /\ Cardinality(holders) <= Cardinality(Nodes)
      BY <2>1, FS_Subset
    <2>3. Cardinality(holders) \in Nat /\ Cardinality(Nodes) \in Nat
      BY <2>1, <2>2, FS_CardinalityType
    <2> QED BY <1>1, <2>2, <2>3
  <1>4. Max({1, MaxDf(total)}) \in Int
    BY <1>3, MaxHolds DEF SemanticAssumption
  <1>5. ASSUME NEW e \in edges.shares
        PROVE  /\ \A s \in e.shared : s \in Informative(Named) /\ e.ends \subseteq NodesOf(Named, s)
               /\ \A type \in EntityTypes : Cardinality({s \in e.shared : s.type = type}) <= SameTypeCap
    BY <1>2, SharesHold
  <1>6. ASSUME NEW s \in Informative(Named)
        PROVE  /\ s.type \notin NonTopicalTypes
               /\ ~IsPervasive({m.node : m \in {x \in Named : BaseText(x) = BaseText(s)}})
    <2>1. PICK y \in Named : /\ s = Entity(y) /\ ~NonTopical(y)
                             /\ Cardinality(NodesIn(Named)) >= MinEntityNodes =>
                                  Cardinality(NodesIn({m \in Named : BaseText(m) = BaseText(y)}))
                                    <= Max({1, MaxDf(Cardinality(NodesIn(Named)))})
      BY DEF Informative
    <2>2. s.text = y.text /\ s.type = y.type
      BY <2>1 DEF Entity
    <2>3. PICK naming : naming = {m.node : m \in {x \in Named : BaseText(x) = BaseText(s)}}
      OBVIOUS
    <2>4. BaseText(s) = BaseText(y)
      BY <2>2 DEF BaseText
    <2>5. s.type \notin NonTopicalTypes
      BY <2>1, <2>2, TaxonomyAssumption DEF NonTopical, ReadType
    <2>6. total >= MinEntityNodes => Cardinality(naming) <= Max({1, MaxDf(total)})
      BY <1>1, <1>2, <2>1, <2>3, <2>4 DEF NodesIn
    <2>7. naming \in SUBSET NodesIn(Named) /\ IsFiniteSet(NodesIn(Named))
      BY <1>2, <2>3, SharesHold DEF NodesIn
    <2>8. Cardinality(naming) \in Int
      BY <2>7, FS_Subset, FS_CardinalityType
    <2>9. ~(total >= MinEntityNodes /\ Cardinality(naming) > Max({1, MaxDf(total)}))
      BY <1>4, <2>6, <2>8
    <2>10. ~IsPervasive(naming)
      BY <1>1, <2>9 DEF IsPervasive
    <2> QED BY <2>3, <2>5, <2>10
  <1>7. ASSUME NEW s, NEW n \in NodesOf(Named, s)
        PROVE  [node |-> n, text |-> s.text, type |-> s.type] \in Named
    <2>1. PICK y \in Named : Entity(y) = s /\ y.node = n
      BY DEF NodesOf, NodesIn
    <2>2. s.text = y.text /\ s.type = y.type
      BY <2>1 DEF Entity
    <2> QED BY <1>2, <2>1, <2>2 DEF IsMention
  <1> QED BY <1>5, <1>6, <1>7 DEF SharedEntitiesAreSpecific
----------------------------------------------------------------------------
(* The invariant. *)

\* Threads hold batches and sequences of what they found.
Sequenced ==
  /\ embedded \subseteq Nodes /\ waiting \in Seq(Batch)
  /\ \A t \in working : /\ t = [batch |-> t.batch, todo |-> t.todo, got |-> t.got]
                        /\ t.todo \in Seq(Batch) /\ t.todo # <<>> /\ IsSeq(t.got)
  /\ \A f \in finished : IsSeq(f.got)

\* What the phases have not reached yet, and what they are done with.
Phased ==
  /\ phase \in {"embed", "ner", "link", "pairs", "summaries", "done"}
  /\ phase # "ner" => waiting = <<>> /\ working = {} /\ finished = {}
  /\ phase \in {"embed", "ner", "link"} =>
       /\ edges = [similar |-> {}, shares |-> {}, category |-> {}]
       /\ asking = <<>> /\ judging = {} /\ judged = {}
  /\ edges.shares = {} \/ edges.shares = SharesEntity(Named)

\* The two nodes of an edge.
Ends(e) == {e.src, e.tgt}

\* A pair is asked, judged or done with, and counts as one of the calls.
Accounted ==
  /\ asking \in Seq(PairsOf(Nodes)) /\ Once(asking)
  /\ IsFiniteSet(judging) /\ IsFiniteSet(judged)
  /\ \A j \in judging : /\ j = [pair |-> j.pair, edge |-> j.edge]
                        /\ j.pair \in PairsOf(Nodes) /\ j.pair \notin ToSet(asking)
                        /\ j.edge = NoEdge \/ Ends(j.edge) = j.pair
  /\ \A i, j \in judging : i.pair = j.pair => i = j
  /\ \A e \in judged : Ends(e) \notin ToSet(asking) /\ \A j \in judging : j.pair # Ends(e)
  /\ \A e, f \in judged : Ends(e) = Ends(f) => e = f
  /\ Cardinality(judged) + Cardinality(judging) + Len(asking) <= Pairs

LinksInvariant == Sequenced /\ Entitled /\ Phased /\ DegreesAreBounded /\ Accounted

\* It says what the runs check.
LEMMA InvariantIsSound ==
  ASSUME SemanticAssumption, LinksInvariant
  PROVE  LinksAreSound
PROOF
  <1>1. SharedEntitiesAreSpecific
    <2>1. CASE edges.shares = {}
      BY <2>1 DEF SharedEntitiesAreSpecific
    <2>2. CASE edges.shares = SharesEntity(Named)
      BY <2>2, SharesAreSpecific DEF LinksInvariant
    <2> QED BY <2>1, <2>2 DEF LinksInvariant, Phased
  <1>2. OneVerdictPerPair
    BY DEF LinksInvariant, Accounted, OneVerdictPerPair, Ends
  <1> QED BY <1>1, <1>2 DEF LinksInvariant, LinksAreSound

\* No edge of any kind.
LEMMA NoEdges ==
  ASSUME edges = [similar |-> {}, shares |-> {}, category |-> {}]
  PROVE  DegreesAreBounded
PROOF
  <1>1. DOMAIN edges = {"similar", "shares", "category"}
    OBVIOUS
  <1>2. \A kind \in DOMAIN edges : edges[kind] = {}
    BY <1>1
  <1> QED BY <1>2, NoDegree DEF DegreesAreBounded

\* Nothing is asked, judged or counted yet.
LEMMA NothingAsked ==
  ASSUME SemanticAssumption, asking = <<>>, judging = {}, judged = {}
  PROVE  Accounted
PROOF
  <1>1. IsFiniteSet({}) /\ Cardinality({}) = 0
    BY FS_EmptySet
  <1>2. Once(<<>>) /\ <<>> \in Seq(PairsOf(Nodes)) /\ Len(<<>>) = 0
    BY EmptyHolds
  <1>3. Pairs \in Nat
    BY DEF SemanticAssumption
  <1>4. Cardinality(judged) + Cardinality(judging) + Len(asking) <= Pairs
    BY <1>1, <1>2, <1>3
  <1> QED BY <1>1, <1>2, <1>4 DEF Accounted

LEMMA InitHolds ==
  ASSUME SemanticAssumption, Init
  PROVE  LinksInvariant
PROOF
  <1>1. Sequenced
    BY EmptyHolds DEF Init, Sequenced
  <1>2. Entitled
    <2>1. IsSeq(<<>>)
      BY EmptyHolds DEF IsSeq
    <2> QED BY <2>1 DEF Init, Entitled
  <1>3. Phased
    BY DEF Init, Phased
  <1>4. DegreesAreBounded
    BY NoEdges DEF Init
  <1>5. Accounted
    BY NothingAsked DEF Init
  <1> QED BY <1>1, <1>2, <1>3, <1>4, <1>5 DEF LinksInvariant

----------------------------------------------------------------------------
(* Threads. *)

\* A thread that goes on or returns has sequences.
LEMMA ContinueHolds ==
  ASSUME Sequenced, NEW t \in working, NEW todo \in Seq(Batch), NEW got, IsSeq(got),
         Continue(t, todo, got), UNCHANGED <<embedded, waiting>>
  PROVE  Sequenced'
PROOF
  <1>1. PICK u : u = [t EXCEPT !.todo = todo, !.got = got]
    OBVIOUS
  <1>2. PICK r : r = [batch |-> t.batch, got |-> got]
    OBVIOUS
  <1>3. IsSeq(r.got)
    BY <1>2
  <1>4. u = [batch |-> u.batch, todo |-> u.todo, got |-> u.got] /\ u.todo = todo /\ u.got = got
    <2>1. t = [batch |-> t.batch, todo |-> t.todo, got |-> t.got]
      BY DEF Sequenced
    <2>2. PICK a, b, c : t = [batch |-> a, todo |-> b, got |-> c]
      BY <2>1
    <2>3. u = [batch |-> a, todo |-> todo, got |-> got]
      BY <1>1, <2>2
    <2> QED BY <2>3
  <1>5. CASE todo = <<>>
    <2>1. working' = working \ {t} /\ finished' = finished \cup {r}
      BY <1>2, <1>5 DEF Continue
    <2> QED BY <1>3, <2>1 DEF Sequenced
  <1>6. CASE todo # <<>>
    <2>1. working' = (working \ {t}) \cup {u} /\ finished' = finished
      BY <1>1, <1>6 DEF Continue
    <2>2. /\ u = [batch |-> u.batch, todo |-> u.todo, got |-> u.got]
          /\ u.todo \in Seq(Batch) /\ u.todo # <<>> /\ IsSeq(u.got)
      BY <1>4, <1>6
    <2> QED BY <2>1, <2>2 DEF Sequenced
  <1> QED BY <1>5, <1>6

\* One sequence after another, of whatever.
LEMMA JoinedIsSeq ==
  ASSUME NEW a, NEW b, IsSeq(a), IsSeq(b)
  PROVE  IsSeq(a \o b)
PROOF
  <1>1. PICK S : S = ToSet(a) \cup ToSet(b)
    OBVIOUS
  <1>2. a \in Seq(S)
    BY <1>1 DEF IsSeq
  <1>3. b \in Seq(S)
    BY <1>1 DEF IsSeq
  <1>4. a \o b \in Seq(S)
    BY <1>2, <1>3, Joined
  <1> QED BY <1>4, SequenceHolds

\* The halves of a batch are batches.
LEMMA HalvesHold ==
  ASSUME NEW b \in Batch
  PROVE  Halves(b) \in Seq(Batch)
PROOF
  <1>1. PICK n, mid : n = Len(b) /\ mid = Len(b) \div 2
    OBVIOUS
  <1>2. n \in Nat
    BY <1>1 DEF Batch
  <1>3. mid \in Nat /\ mid <= n
    BY <1>1, <1>2
  <1>4. SubSeq(b, 1, mid) \in Batch
    BY <1>1, <1>3, PartHolds DEF Batch
  <1>5. SubSeq(b, mid + 1, n) \in Batch
    BY <1>1, <1>2, <1>3, PartHolds DEF Batch
  <1>6. Halves(b) = <<SubSeq(b, 1, mid), SubSeq(b, mid + 1, n)>>
    BY <1>1 DEF Halves
  <1> QED BY <1>4, <1>5, <1>6

LEMMA NerCallHolds ==
  ASSUME SemanticAssumption, Sequenced, NerCall
  PROVE  Sequenced'
PROOF
  <1>1. PICK t \in working : /\ Answered(t) \/ Unparsable(t) \/ RateLimited(t)
                             /\ UNCHANGED <<embedded, waiting>>
    BY DEF NerCall
  <1>2. t.todo \in Seq(Batch) /\ t.todo # <<>> /\ IsSeq(t.got)
    BY DEF Sequenced
  <1>3. PICK b, rest : b = Head(t.todo) /\ rest = Tail(t.todo)
    OBVIOUS
  <1>4. b \in Batch /\ rest \in Seq(Batch)
    BY <1>2, <1>3
  <1>5. CASE Answered(t)
    <2>1. PICK answer : /\ DOMAIN answer = ToSet(b) /\ \A u \in DOMAIN answer : answer[u] \in Answers[u]
                        /\ Continue(t, rest, t.got \o Found(b, answer))
      BY <1>3, <1>5 DEF Answered
    <2>2. \A u \in ToSet(b) : u \in ToSet(Units)
      BY <1>4, SequenceHolds DEF Batch
    <2>3. \A u \in ToSet(b) : IsSeq(answer[u])
      BY <2>1, <2>2 DEF SemanticAssumption, IsSeq
    <2>4. IsSeq(Found(b, answer))
      BY <1>4, <2>3, FoundHolds DEF Batch
    <2>5. IsSeq(t.got \o Found(b, answer))
      BY <1>2, <2>4, JoinedIsSeq
    <2> QED BY <1>1, <1>4, <2>1, <2>5, ContinueHolds
  <1>6. CASE Unparsable(t)
    <2>1. PICK todo : todo = (IF Len(b) > 1 THEN Halves(b) ELSE <<>>) \o rest
      OBVIOUS
    <2>2. Continue(t, todo, t.got)
      BY <1>3, <1>6, <2>1 DEF Unparsable
    <2>3. (IF Len(b) > 1 THEN Halves(b) ELSE <<>>) \in Seq(Batch)
      BY <1>4, HalvesHold, EmptyHolds
    <2>4. todo \in Seq(Batch)
      BY <1>4, <2>1, <2>3, Joined
    <2> QED BY <1>1, <1>2, <2>2, <2>4, ContinueHolds
  <1>7. CASE RateLimited(t)
    BY <1>1, <1>7 DEF RateLimited, Sequenced
  <1> QED BY <1>1, <1>5, <1>6, <1>7
----------------------------------------------------------------------------
(* Merging. *)

\* No node loses an entity when a batch is merged.
LEMMA MergeHolds ==
  ASSUME Sequenced, Entitled, Merge
  PROVE  /\ Entitled' /\ \A n \in Nodes : ToSet(entities[n]) \subseteq ToSet(entities'[n])
         /\ Sequenced'
PROOF
  <1>1. PICK f \in finished : /\ entities' = [n \in Nodes |-> Extended(entities[n], n, f.got)]
                              /\ finished' = finished \ {f}
                              /\ UNCHANGED <<embedded, waiting, working>>
    BY DEF Merge
  <1>2. ASSUME NEW n \in Nodes
        PROVE  IsSeq(entities'[n]) /\ ToSet(entities[n]) \subseteq ToSet(entities'[n])
    <2>1. IsSeq(entities[n]) /\ IsSeq(f.got)
      BY DEF Entitled, Sequenced
    <2> QED BY <1>1, <2>1, ExtendedHolds
  <1>3. DOMAIN entities' = Nodes
    BY <1>1
  <1>4. Sequenced'
    BY <1>1 DEF Sequenced
  <1> QED BY <1>2, <1>3, <1>4 DEF Entitled

\* A node that keeps its first entities has a sequence of them.
LEMMA EndNerHolds ==
  ASSUME SemanticAssumption, Entitled, EndNer
  PROVE  Entitled'
PROOF
  <1>1. entities' = [n \in Nodes |-> SubSeq(entities[n], 1, Min({MaxEntities, Len(entities[n])}))]
    BY DEF EndNer
  <1>2. ASSUME NEW n \in Nodes PROVE IsSeq(entities'[n])
    <2>1. PICK s, k : s = entities[n] /\ k = Min({MaxEntities, Len(entities[n])})
      OBVIOUS
    <2>2. s \in Seq(ToSet(s)) /\ Len(s) \in Nat
      BY <2>1, SequenceHolds DEF Entitled, IsSeq
    <2>3. MaxEntities \in Nat
      BY DEF SemanticAssumption
    <2>4. k \in Int /\ k <= Len(s)
      BY <2>1, <2>2, <2>3, MinHolds
    <2>5. SubSeq(s, 1, k) \in Seq(ToSet(s))
      BY <2>2, <2>4, PartHolds
    <2>6. IsSeq(SubSeq(s, 1, k))
      BY <2>5, SequenceHolds
    <2> QED BY <1>1, <2>1, <2>6
  <1>3. DOMAIN entities' = Nodes
    BY <1>1
  <1> QED BY <1>2, <1>3 DEF Entitled

----------------------------------------------------------------------------
(* Links. *)

\* The nodes that are clustered are nodes.
LEMMA CategoryEdgesHold ==
  ASSUME SemanticAssumption, embedded \subseteq Nodes, NEW mentions, IsFiniteSet(mentions),
         NEW label, NEW n
  PROVE  Degree(CategoryEdges(mentions, label), n) <= DegreeCap
PROOF
  <1>1. PICK c : c = Clustered(mentions)
    OBVIOUS
  <1>2. IsFiniteSet(c.nodes)
    <2>1. IsFiniteSet(NodesIn(mentions) \ Faint)
      BY SharesHold, FS_Difference
    <2>2. IsFiniteSet(embedded)
      BY FS_Subset DEF SemanticAssumption
    <2>3. c.nodes = NodesIn(mentions) \ Faint \/ c.nodes = embedded
      BY <1>1 DEF Clustered
    <2> QED BY <2>1, <2>2, <2>3
  <1>3. PICK closeness, floor : /\ closeness = (IF c.on = "entities" THEN Closeness ELSE Similarity)
                                /\ floor = (IF c.on = "entities" THEN CategoryFloor ELSE Similar)
    OBVIOUS
  <1>4. CategoryEdges(mentions, label) = IF Cardinality(c.nodes) < 3 THEN {}
                                         ELSE SameCategory(c.nodes, label, Noise, closeness, floor)
    BY <1>1, <1>3 DEF CategoryEdges
  <1>5. Degree(SameCategory(c.nodes, label, Noise, closeness, floor), n) <= DegreeCap
    BY <1>2, SameCategoryHolds
  <1>6. Degree({}, n) <= DegreeCap
    BY NoDegree
  <1> QED BY <1>4, <1>5, <1>6

LEMMA LinkHolds ==
  ASSUME SemanticAssumption, LinksInvariant, Link
  PROVE  LinksInvariant'
PROOF
  <1>1. PICK label, shares : /\ shares = SharesEntity(Named)
                             /\ edges' = [similar |-> TopPairs(embedded, Similarity, Similar),
                                          shares |-> shares,
                                          category |-> CategoryEdges(Named, label)]
                             /\ asking' = PairsToAsk(shares)
    BY DEF Link, Named
  <1>2. /\ phase = "link" /\ phase' = "pairs"
        /\ UNCHANGED <<embedded, waiting, working, finished, entities, types, judging, judged>>
    BY DEF Link, nerVars
  <1>3. embedded \subseteq Nodes /\ IsFiniteSet(Nodes) /\ IsFiniteSet(embedded)
    BY FS_Subset DEF LinksInvariant, Sequenced, SemanticAssumption
  <1>4. IsFiniteSet(Named) /\ NodesIn(Named) \subseteq Nodes
    BY MentionsHold, ResolvedHolds DEF LinksInvariant, Named
  <1>5. /\ \A n : Degree(shares, n) <= DegreeCap
        /\ IsFiniteSet(shares) /\ \A e \in shares : e.ends \in PairsOf(NodesIn(Named))
        /\ \A e, f \in shares : e.ends = f.ends => e = f
    BY <1>1, <1>4, SharesHold
  <1>6. \A e \in shares : e.ends \in PairsOf(Nodes)
    BY <1>4, <1>5 DEF PairsOf
  <1>7. asking' \in Seq(PairsOf(Nodes)) /\ Once(asking') /\ Len(asking') <= Pairs
    BY <1>1, <1>3, <1>5, <1>6, PairsToAskHold
  <1>8. Sequenced' /\ Entitled'
    BY <1>2 DEF LinksInvariant, Sequenced, Entitled
  <1>9. Phased'
    <2>1. Named' = Named
      BY <1>2 DEF Named
    <2>2. edges'.shares = SharesEntity(Named')
      BY <1>1, <2>1
    <2>3. waiting' = <<>> /\ working' = {} /\ finished' = {}
      BY <1>2 DEF LinksInvariant, Phased
    <2> QED BY <1>2, <2>2, <2>3 DEF Phased
  <1>10. DegreesAreBounded'
    <2>1. \A n : Degree(TopPairs(embedded, Similarity, Similar), n) <= DegreeCap
      BY <1>3, TopPairsHold
    <2>2. \A n : Degree(CategoryEdges(Named, label), n) <= DegreeCap
      BY <1>3, <1>4, CategoryEdgesHold
    <2>3. DOMAIN edges' = {"similar", "shares", "category"}
      BY <1>1
    <2>4. /\ edges'["similar"] = TopPairs(embedded, Similarity, Similar) /\ edges'["shares"] = shares
          /\ edges'["category"] = CategoryEdges(Named, label)
      BY <1>1
    <2>5. \A kind \in DOMAIN edges' : \A n : Degree(edges'[kind], n) <= DegreeCap
      BY <1>5, <2>1, <2>2, <2>3, <2>4
    <2> QED BY <2>5 DEF DegreesAreBounded
  <1>11. Accounted'
    <2>1. judging' = {} /\ judged' = {}
      BY <1>2 DEF LinksInvariant, Phased
    <2>2. IsFiniteSet({}) /\ Cardinality({}) = 0
      BY FS_EmptySet
    <2>3. Len(asking') \in Nat
      BY <1>7
    <2>4. (Cardinality(judged) + Cardinality(judging) + Len(asking) <= Pairs)'
      BY <1>7, <2>1, <2>2, <2>3
    <2> QED BY <1>7, <2>1, <2>2, <2>4 DEF Accounted
  <1> QED BY <1>8, <1>9, <1>10, <1>11 DEF LinksInvariant

----------------------------------------------------------------------------
(* Relations. *)

\* A pair that is taken is asked no more.
LEMMA AskPairHolds ==
  ASSUME SemanticAssumption, Accounted, AskPair
  PROVE  Accounted'
PROOF
  <1>1. PICK p, rest : p = Head(asking) /\ rest = Tail(asking)
    OBVIOUS
  <1>2. PICK j : j = [pair |-> p, edge |-> NoEdge]
    OBVIOUS
  <1>3. /\ asking # <<>> /\ asking' = rest /\ judging' = judging \cup {j} /\ judged' = judged
    BY <1>1, <1>2 DEF AskPair
  <1>4. asking \in Seq(PairsOf(Nodes)) /\ Once(asking)
    BY DEF Accounted
  <1>5. PICK n : n = Len(asking)
    OBVIOUS
  <1>6. /\ n \in Nat /\ n >= 1 /\ rest \in Seq(PairsOf(Nodes)) /\ Len(rest) = n - 1
        /\ p = asking[1] /\ \A i \in 1..(n - 1) : rest[i] = asking[i + 1]
    BY <1>1, <1>3, <1>4, <1>5
  <1>7. \A i \in 1..(n - 1) : i + 1 \in 1..n /\ i + 1 # 1
    BY <1>6
  <1>8. 1 \in 1..n
    BY <1>6
  <1>9. Once(rest)
    <2>1. ASSUME NEW i \in 1..(n - 1), NEW k \in 1..(n - 1), rest[i] = rest[k] PROVE i = k
      <3>1. i + 1 = k + 1
        BY <1>4, <1>5, <1>6, <1>7, <2>1 DEF Once
      <3> QED BY <1>6, <3>1
    <2> QED BY <1>6, <2>1 DEF Once
  <1>10. ToSet(asking) = {asking[i] : i \in 1..n} /\ ToSet(rest) = {rest[i] : i \in 1..(n - 1)}
    <2>1. ToSet(asking) = {asking[i] : i \in 1..n}
      BY <1>4, <1>5, SequenceHolds
    <2>2. ToSet(rest) = {rest[i] : i \in 1..Len(rest)}
      BY <1>6, SequenceHolds
    <2> QED BY <1>6, <2>1, <2>2
  <1>11. ToSet(rest) \subseteq ToSet(asking) /\ p \in ToSet(asking) /\ p \notin ToSet(rest)
    <2>1. ToSet(rest) \subseteq ToSet(asking) /\ p \in ToSet(asking)
      BY <1>6, <1>7, <1>8, <1>10
    <2>2. \A i \in 1..(n - 1) : rest[i] # p
      BY <1>4, <1>5, <1>6, <1>7, <1>8 DEF Once
    <2> QED BY <1>10, <2>1, <2>2
  <1>12. p \in PairsOf(Nodes) /\ j.pair = p /\ j.edge = NoEdge /\ j = [pair |-> j.pair, edge |-> j.edge]
    <2>1. p \in PairsOf(Nodes)
      BY <1>4, <1>5, <1>6, <1>8
    <2>2. PICK none : none = NoEdge /\ j = [pair |-> p, edge |-> none]
      BY <1>2
    <2>3. j.pair = p /\ j.edge = none
      BY <2>2
    <2> QED BY <2>1, <2>2, <2>3
  <1>13. \A i \in judging : i.pair # p
    BY <1>11 DEF Accounted
  <1>14. /\ IsFiniteSet(judging) /\ IsFiniteSet(judged) /\ IsFiniteSet(judging')
         /\ Cardinality(judging') = Cardinality(judging) + 1
         /\ Cardinality(judging) \in Nat /\ Cardinality(judged) \in Nat
    <2>1. IsFiniteSet(judging) /\ IsFiniteSet(judged)
      BY DEF Accounted
    <2>2. j \notin judging
      BY <1>12, <1>13
    <2> QED BY <1>3, <2>1, <2>2, FS_AddElement, FS_CardinalityType
  <1>15. (Cardinality(judged) + Cardinality(judging) + Len(asking) <= Pairs)'
    <2>1. Cardinality(judged) + Cardinality(judging) + n <= Pairs /\ Pairs \in Nat
      BY <1>5 DEF Accounted, SemanticAssumption
    <2>2. Len(asking') = n - 1
      BY <1>3, <1>6
    <2> QED BY <1>3, <1>6, <1>14, <2>1, <2>2
  <1>16. \A i \in judging' : /\ i = [pair |-> i.pair, edge |-> i.edge]
                             /\ i.pair \in PairsOf(Nodes) /\ i.pair \notin ToSet(asking')
                             /\ i.edge = NoEdge \/ Ends(i.edge) = i.pair
    BY <1>3, <1>11, <1>12 DEF Accounted
  <1>17. \A i, k \in judging' : i.pair = k.pair => i = k
    BY <1>3, <1>12, <1>13 DEF Accounted
  <1>18. \A e \in judged' : Ends(e) \notin ToSet(asking') /\ \A i \in judging' : i.pair # Ends(e)
    BY <1>3, <1>11, <1>12 DEF Accounted
  <1>19. \A e, f \in judged' : Ends(e) = Ends(f) => e = f
    BY <1>3 DEF Accounted
  <1>20. asking' \in Seq(PairsOf(Nodes)) /\ Once(asking') /\ IsFiniteSet(judged')
    BY <1>3, <1>6, <1>9, <1>14
  <1> QED BY <1>14, <1>15, <1>16, <1>17, <1>18, <1>19, <1>20 DEF Accounted
\* A thread that has a relation goes on with its pair.
LEMMA RelationIsGrounded ==
  ASSUME Accounted, NEW j \in judging, NEW e, Ends(e) = j.pair,
         judging' = (judging \ {j}) \cup {[j EXCEPT !.edge = e]}, UNCHANGED <<judged, asking>>
  PROVE  Accounted'
PROOF
  <1>1. PICK u : u = [j EXCEPT !.edge = e]
    OBVIOUS
  <1>2. j = [pair |-> j.pair, edge |-> j.edge]
    BY DEF Accounted
  <1>3. PICK a, b : j = [pair |-> a, edge |-> b] /\ a = j.pair
    BY <1>2
  <1>4. u = [pair |-> a, edge |-> e]
    BY <1>1, <1>3
  <1>5. u = [pair |-> u.pair, edge |-> u.edge] /\ u.pair = j.pair /\ Ends(u.edge) = u.pair
    BY <1>3, <1>4
  <1>6. judging' = (judging \ {j}) \cup {u} /\ judged' = judged /\ asking' = asking
    BY <1>1
  <1>7. /\ u.pair \in PairsOf(Nodes) /\ u.pair \notin ToSet(asking)
        /\ \A f \in judged : u.pair # Ends(f) /\ \A i \in judging \ {j} : i.pair # u.pair
    BY <1>5 DEF Accounted
  <1>8. \A i \in judging \ {j} : i.pair # u.pair
    BY <1>5 DEF Accounted
  <1>9. /\ IsFiniteSet(judging) /\ IsFiniteSet(judging') /\ IsFiniteSet(judged)
        /\ Cardinality(judging') = Cardinality(judging)
    <2>1. IsFiniteSet(judging) /\ IsFiniteSet(judged)
      BY DEF Accounted
    <2>2. IsFiniteSet(judging \ {j}) /\ Cardinality(judging \ {j}) = Cardinality(judging) - 1
      BY <2>1, FS_RemoveElement
    <2>3. u \notin judging \ {j}
      BY <1>8
    <2>4. IsFiniteSet((judging \ {j}) \cup {u}) /\ Cardinality((judging \ {j}) \cup {u}) = Cardinality(judging \ {j}) + 1
      BY <2>2, <2>3, FS_AddElement
    <2>5. PICK k : k = Cardinality(judging) /\ k \in Nat
      BY <2>1, FS_CardinalityType
    <2>6. Cardinality((judging \ {j}) \cup {u}) = k
      <3>1. k - 1 + 1 = k
        BY <2>5
      <3> QED BY <2>2, <2>4, <2>5, <3>1
    <2>7. IsFiniteSet(judging') /\ Cardinality(judging') = k
      BY <1>6, <2>4, <2>6
    <2> QED BY <2>1, <2>5, <2>7
  <1>10. (Cardinality(judged) + Cardinality(judging) + Len(asking) <= Pairs)'
    BY <1>6, <1>9 DEF Accounted
  <1>11. \A i \in judging' : /\ i = [pair |-> i.pair, edge |-> i.edge]
                             /\ i.pair \in PairsOf(Nodes) /\ i.pair \notin ToSet(asking)
                             /\ i.edge = NoEdge \/ Ends(i.edge) = i.pair
    <2>1. \A i \in judging : /\ i = [pair |-> i.pair, edge |-> i.edge]
                             /\ i.pair \in PairsOf(Nodes) /\ i.pair \notin ToSet(asking)
                             /\ i.edge = NoEdge \/ Ends(i.edge) = i.pair
      BY DEF Accounted
    <2> QED BY <1>5, <1>6, <1>7, <2>1
  <1>12. \A i, k \in judging' : i.pair = k.pair => i = k
    <2>1. \A i, k \in judging : i.pair = k.pair => i = k
      BY DEF Accounted
    <2> QED BY <1>6, <1>8, <2>1
  <1>13. \A f \in judged : Ends(f) \notin ToSet(asking) /\ \A i \in judging' : i.pair # Ends(f)
    <2>1. \A f \in judged : Ends(f) \notin ToSet(asking) /\ \A i \in judging : i.pair # Ends(f)
      BY DEF Accounted
    <2> QED BY <1>6, <1>7, <2>1
  <1>14. /\ asking \in Seq(PairsOf(Nodes)) /\ Once(asking)
         /\ \A f, g \in judged : Ends(f) = Ends(g) => f = g
    BY DEF Accounted
  <1> QED BY <1>6, <1>9, <1>10, <1>11, <1>12, <1>13, <1>14 DEF Accounted

\* A pair that is done with leaves one edge or none.
LEMMA PairIsJudged ==
  ASSUME Accounted, NEW j \in judging, NEW found, found = {} \/ \E e : found = {e} /\ Ends(e) = j.pair,
         judging' = judging \ {j}, judged' = judged \cup found, asking' = asking
  PROVE  Accounted'
PROOF
  <1>1. /\ IsFiniteSet(judging) /\ IsFiniteSet(judged) /\ IsFiniteSet(judging')
        /\ Cardinality(judging') = Cardinality(judging) - 1
        /\ Cardinality(judging) \in Nat /\ Cardinality(judged) \in Nat
    <2>1. IsFiniteSet(judging) /\ IsFiniteSet(judged)
      BY DEF Accounted
    <2> QED BY <2>1, FS_RemoveElement, FS_CardinalityType
  <1>2. IsFiniteSet(judged') /\ Cardinality(judged') \in Nat /\ Cardinality(judged') <= Cardinality(judged) + 1
    <2>1. PICK k : k = Cardinality(judged) /\ k \in Nat /\ k <= k + 1 /\ k + 1 \in Nat
      BY <1>1
    <2>2. CASE found = {}
      <3>1. judged' = judged
        BY <2>2
      <3>2. IsFiniteSet(judged') /\ Cardinality(judged') = k
        BY <1>1, <2>1, <3>1
      <3> QED BY <2>1, <3>2
    <2>3. CASE found # {}
      <3>1. PICK e : judged' = judged \cup {e}
        BY <2>3
      <3>2. IsFiniteSet(judged \cup {e}) /\ Cardinality(judged \cup {e}) \in {k, k + 1}
        BY <1>1, <2>1, FS_AddElement
      <3>3. IsFiniteSet(judged') /\ Cardinality(judged') \in {k, k + 1}
        BY <3>1, <3>2
      <3> QED BY <2>1, <3>3
    <2> QED BY <2>2, <2>3
  <1>3. (Cardinality(judged) + Cardinality(judging) + Len(asking) <= Pairs)'
    <2>1. Cardinality(judged) + Cardinality(judging) + Len(asking) <= Pairs
      BY DEF Accounted
    <2>2. Len(asking) \in Nat
      BY DEF Accounted
    <2>3. PICK a, b, c, d, l : /\ a = Cardinality(judged) /\ b = Cardinality(judging) /\ l = Len(asking)
                               /\ c = Cardinality(judged') /\ d = Cardinality(judging')
      OBVIOUS
    <2>4. a \in Nat /\ b \in Nat /\ l \in Nat /\ c \in Nat /\ c <= a + 1 /\ d = b - 1 /\ Len(asking') = l
      BY <1>1, <1>2, <2>2, <2>3
    <2>5. c + d + l <= a + b + l
      BY <2>4
    <2>6. a + b + l <= Pairs /\ Pairs \in Nat
      BY <2>1, <2>3, SemanticAssumption DEF SemanticAssumption
    <2>7. c + d + l <= Pairs
      BY <2>4, <2>5, <2>6
    <2> QED BY <2>3, <2>4, <2>7
  <1>4. \A e \in found : Ends(e) = j.pair
    OBVIOUS
  <1>5. \A i \in judging \ {j} : i.pair # j.pair
    BY DEF Accounted
  <1>6. \A e \in judged' : Ends(e) \notin ToSet(asking) /\ \A i \in judging' : i.pair # Ends(e)
    <2>1. /\ \A e \in judged : Ends(e) \notin ToSet(asking) /\ \A i \in judging : i.pair # Ends(e)
          /\ j.pair \notin ToSet(asking)
      BY DEF Accounted
    <2> QED BY <1>4, <1>5, <2>1
  <1>7. \A e, f \in judged' : Ends(e) = Ends(f) => e = f
    <2>1. /\ \A e, f \in judged : Ends(e) = Ends(f) => e = f
          /\ \A e \in judged : Ends(e) # j.pair
      BY DEF Accounted
    <2> QED BY <1>4, <2>1
  <1>8. \A i \in judging' : /\ i = [pair |-> i.pair, edge |-> i.edge]
                            /\ i.pair \in PairsOf(Nodes) /\ i.pair \notin ToSet(asking)
                            /\ i.edge = NoEdge \/ Ends(i.edge) = i.pair
    BY DEF Accounted
  <1>9. \A i, k \in judging' : i.pair = k.pair => i = k
    BY DEF Accounted
  <1>10. asking \in Seq(PairsOf(Nodes)) /\ Once(asking)
    BY DEF Accounted
  <1> QED BY <1>1, <1>2, <1>3, <1>6, <1>7, <1>8, <1>9, <1>10 DEF Accounted

LEMMA JudgePairHolds ==
  ASSUME SemanticAssumption, Accounted, JudgePair
  PROVE  Accounted'
PROOF
  <1>1. PICK j \in judging : /\ Relate(j) \/ Ground(j)
                             /\ asking' = asking
    BY DEF JudgePair
  <1>2. j.pair \in PairsOf(Nodes) /\ (j.edge = NoEdge \/ Ends(j.edge) = j.pair)
    BY DEF Accounted
  <1>3. CASE Relate(j)
    <2>1. ASSUME NEW src \in j.pair, NEW rel,
                 NEW e, e = [rel |-> rel, src |-> src, tgt |-> CHOOSE n \in j.pair : n # src]
          PROVE  Ends(e) = j.pair
      <3>1. PICK b \in j.pair : j.pair = {src, b} /\ b = (CHOOSE n \in j.pair : n # src)
        BY <1>2, PairHolds DEF SemanticAssumption
      <3>2. e.src = src /\ e.tgt = b
        BY <2>1, <3>1
      <3> QED BY <3>1, <3>2 DEF Ends
    <2>2. CASE judging' = judging \ {j} /\ judged' = judged
      <3>1. judged' = judged \cup {}
        BY <2>2
      <3> QED BY <1>1, <2>2, <3>1, PairIsJudged
    <2>3. CASE ~(judging' = judging \ {j} /\ judged' = judged)
      <3>1. PICK src, rel, e :
              /\ src \in j.pair
              /\ e = [rel |-> rel, src |-> src, tgt |-> CHOOSE n \in j.pair : n # src]
              /\ IF GroundEdges
                 THEN /\ judging' = (judging \ {j}) \cup {[j EXCEPT !.edge = e]}
                      /\ judged' = judged
                 ELSE /\ judging' = judging \ {j}
                      /\ judged' = judged \cup {e}
        BY <1>3, <2>3 DEF Relate
      <3>2. Ends(e) = j.pair
        BY <2>1, <3>1
      <3>3. CASE GroundEdges
        BY <1>1, <3>1, <3>2, <3>3, RelationIsGrounded
      <3>4. CASE ~GroundEdges
        <4>1. judging' = judging \ {j} /\ judged' = judged \cup {e}
          BY <3>1, <3>4
        <4>2. PICK found : found = {e}
          OBVIOUS
        <4>3. found = {} \/ \E f : found = {f} /\ Ends(f) = j.pair
          BY <3>2, <4>2
        <4>4. judged' = judged \cup found
          BY <4>1, <4>2
        <4> QED BY <1>1, <4>1, <4>3, <4>4, PairIsJudged
      <3> QED BY <3>3, <3>4
    <2> QED BY <2>2, <2>3
  <1>4. CASE Ground(j)
    <2>1. PICK supported \in BOOLEAN : judged' = judged \cup (IF supported THEN {j.edge} ELSE {})
      BY <1>4 DEF Ground
    <2>2. j.edge # NoEdge /\ judging' = judging \ {j}
      BY <1>4 DEF Ground
    <2>3. PICK found : found = (IF supported THEN {j.edge} ELSE {})
      OBVIOUS
    <2>4. found = {} \/ \E e : found = {e} /\ Ends(e) = j.pair
      BY <1>2, <2>2, <2>3
    <2>5. judged' = judged \cup found
      BY <2>1, <2>3
    <2> QED BY <1>1, <2>2, <2>4, <2>5, PairIsJudged
  <1> QED BY <1>1, <1>3, <1>4
----------------------------------------------------------------------------
(* Steps. *)

\* A step that leaves the entities, the edges and the threads alone.
LEMMA QuietStep ==
  ASSUME LinksInvariant, UNCHANGED <<embedded, nerVars, edges>>, Accounted',
         phase' \in {"pairs", "summaries", "done"}, phase # "ner"
  PROVE  LinksInvariant'
PROOF
  <1>1. UNCHANGED <<embedded, waiting, working, finished, entities, types, edges>>
    BY DEF nerVars
  <1>2. Sequenced' /\ Entitled' /\ DegreesAreBounded'
    BY <1>1 DEF LinksInvariant, Sequenced, Entitled, DegreesAreBounded
  <1>3. Named' = Named
    BY <1>1 DEF Named
  <1>4. Phased'
    BY <1>1, <1>3 DEF LinksInvariant, Phased
  <1> QED BY <1>2, <1>4 DEF LinksInvariant

\* A step of the entity extraction: there are no edges and no pairs yet.
LEMMA EarlyStep ==
  ASSUME SemanticAssumption, LinksInvariant, phase \in {"embed", "ner"}, UNCHANGED <<edges, asking, judging, judged>>,
         Sequenced', Entitled', phase' \in {"embed", "ner", "link", "summaries"},
         phase' # "ner" => waiting' = <<>> /\ working' = {} /\ finished' = {}
  PROVE  LinksInvariant'
PROOF
  <1>1. /\ edges' = [similar |-> {}, shares |-> {}, category |-> {}]
        /\ asking' = <<>> /\ judging' = {} /\ judged' = {}
    BY DEF LinksInvariant, Phased
  <1>2. DegreesAreBounded' /\ Accounted'
    BY DEF LinksInvariant, DegreesAreBounded, Accounted
  <1>3. edges'.shares = {}
    BY <1>1
  <1>4. Phased'
    BY <1>1, <1>3 DEF Phased
  <1> QED BY <1>2, <1>4 DEF LinksInvariant

\* A step of a thread, or of the merge, belongs to the extraction.
LEMMA ThreadsWorkEarly ==
  ASSUME Phased, waiting # <<>> \/ working # {} \/ finished # {}
  PROVE  phase = "ner"
  BY DEF Phased

\* A step of a pair belongs to the relations.
LEMMA PairsWaitForLinks ==
  ASSUME Phased, asking # <<>> \/ judging # {}
  PROVE  phase \in {"pairs", "summaries", "done"}
  BY DEF Phased

LEMMA ExtractionHolds ==
  ASSUME SemanticAssumption, LinksInvariant, Embed \/ StartBatch \/ NerCall \/ Merge \/ EndNer
  PROVE  LinksInvariant'
PROOF
  <1>1. Sequenced /\ Entitled /\ Phased
    BY DEF LinksInvariant
  <1>2. CASE Embed
    <2>1. /\ phase = "embed" /\ phase' \in {"ner", "summaries"}
          /\ embedded' \in {Linked, embedded} /\ waiting' \in {Batches, waiting}
          /\ phase' # "ner" => waiting' = waiting
          /\ UNCHANGED <<working, finished, entities, types, edges, asking, judging, judged>>
      BY <1>2 DEF Embed, pairVars
    <2>2. Linked \subseteq Nodes /\ Batches \in Seq(Batch)
      BY BatchesHold DEF Linked
    <2>3. Sequenced'
      BY <1>1, <2>1, <2>2 DEF Sequenced
    <2>4. Entitled'
      BY <1>1, <2>1 DEF Entitled
    <2>5. waiting = <<>> /\ working = {} /\ finished = {}
      BY <1>1, <2>1 DEF Phased
    <2>6. phase' # "ner" => waiting' = <<>> /\ working' = {} /\ finished' = {}
      BY <2>1, <2>5
    <2>7. phase \in {"embed", "ner"} /\ phase' \in {"embed", "ner", "link", "summaries"}
      BY <2>1
    <2> QED BY <2>1, <2>3, <2>4, <2>6, <2>7, EarlyStep
  <1>3. CASE StartBatch
    <2>1. PICK w, h : /\ h = Head(waiting) /\ w = [batch |-> h, todo |-> <<h>>, got |-> <<>>]
      OBVIOUS
    <2>2. /\ phase = "ner" /\ phase' = phase /\ waiting # <<>> /\ waiting' = Tail(waiting)
          /\ working' = working \cup {w}
          /\ UNCHANGED <<embedded, finished, entities, types, edges, asking, judging, judged>>
      BY <1>3, <2>1 DEF StartBatch, pairVars
    <2>3. h \in Batch /\ Tail(waiting) \in Seq(Batch)
      BY <1>1, <2>1, <2>2 DEF Sequenced
    <2>4. w.todo = <<h>> /\ w.got = <<>> /\ w = [batch |-> w.batch, todo |-> w.todo, got |-> w.got]
      BY <2>1
    <2>5. <<h>> \in Seq(Batch) /\ <<h>> # <<>> /\ IsSeq(<<>>)
      BY <2>3, EmptyHolds DEF IsSeq
    <2>6. w.todo \in Seq(Batch) /\ w.todo # <<>> /\ IsSeq(w.got)
      BY <2>4, <2>5
    <2>7. Sequenced'
      BY <1>1, <2>2, <2>3, <2>4, <2>6 DEF Sequenced
    <2>8. Entitled'
      BY <1>1, <2>2 DEF Entitled
    <2> QED BY <2>2, <2>7, <2>8, EarlyStep
  <1>4. CASE NerCall
    <2>1. working # {} /\ phase' = phase /\ UNCHANGED <<entities, edges, asking, judging, judged>>
      BY <1>4 DEF NerCall, pairVars
    <2>2. phase = "ner"
      BY <1>1, <2>1, ThreadsWorkEarly
    <2>3. Sequenced'
      BY <1>1, <1>4, NerCallHolds
    <2>4. Entitled'
      BY <1>1, <2>1 DEF Entitled
    <2> QED BY <2>1, <2>2, <2>3, <2>4, EarlyStep
  <1>5. CASE Merge
    <2>1. finished # {} /\ phase' = phase /\ UNCHANGED <<edges, asking, judging, judged>>
      BY <1>5 DEF Merge, pairVars
    <2>2. phase = "ner"
      BY <1>1, <2>1, ThreadsWorkEarly
    <2>3. Sequenced' /\ Entitled'
      BY <1>1, <1>5, MergeHolds
    <2> QED BY <2>1, <2>2, <2>3, EarlyStep
  <1>6. CASE EndNer
    <2>1. /\ phase = "ner" /\ phase' = "link" /\ waiting = <<>> /\ working = {} /\ finished = {}
          /\ UNCHANGED <<embedded, waiting, working, finished, edges, asking, judging, judged>>
      BY <1>6 DEF EndNer, pairVars
    <2>2. Sequenced'
      BY <1>1, <2>1 DEF Sequenced
    <2>3. Entitled'
      BY <1>1, <1>6, EndNerHolds
    <2> QED BY <2>1, <2>2, <2>3, EarlyStep
  <1> QED BY <1>2, <1>3, <1>4, <1>5, <1>6

LEMMA RelationsHold ==
  ASSUME SemanticAssumption, LinksInvariant,
         AskPair \/ JudgePair \/ EndPairs \/ Summarise \/ Finish
  PROVE  LinksInvariant'
PROOF
  <1>1. Phased /\ Accounted
    BY DEF LinksInvariant
  <1>2. CASE AskPair
    <2>1. phase = "pairs" /\ phase' = phase /\ UNCHANGED <<embedded, nerVars, edges>>
      BY <1>2 DEF AskPair
    <2>2. Accounted'
      BY <1>1, <1>2, AskPairHolds
    <2> QED BY <2>1, <2>2, QuietStep
  <1>3. CASE JudgePair
    <2>1. judging # {} /\ phase' = phase /\ UNCHANGED <<embedded, nerVars, edges>>
      BY <1>3 DEF JudgePair
    <2>2. phase \in {"pairs", "summaries", "done"}
      BY <1>1, <2>1, PairsWaitForLinks
    <2>3. Accounted'
      BY <1>1, <1>3, JudgePairHolds
    <2> QED BY <2>1, <2>2, <2>3, QuietStep
  <1>4. CASE EndPairs \/ Summarise \/ Finish
    <2>1. /\ phase \in {"pairs", "summaries"} /\ phase' \in {"summaries", "done"}
          /\ UNCHANGED <<embedded, nerVars, edges>> /\ UNCHANGED <<asking, judging, judged>>
      BY <1>4 DEF EndPairs, Summarise, Finish, pairVars
    <2>2. Accounted'
      BY <1>1, <2>1 DEF Accounted
    <2> QED BY <2>1, <2>2, QuietStep
  <1> QED BY <1>2, <1>3, <1>4

LEMMA StutterHolds ==
  ASSUME LinksInvariant, UNCHANGED vars
  PROVE  LinksInvariant'
PROOF
  <1>1. UNCHANGED <<phase, embedded, waiting, working, finished, entities, types, edges, asking, judging, judged>>
    BY DEF vars, nerVars, pairVars
  <1>2. Named' = Named
    BY <1>1 DEF Named
  <1> QED BY <1>1, <1>2 DEF LinksInvariant, Sequenced, Entitled, Phased, DegreesAreBounded, Accounted

LEMMA StepHolds ==
  ASSUME SemanticAssumption, LinksInvariant, [Next]_vars
  PROVE  LinksInvariant'
PROOF
  <1>1. CASE Embed \/ StartBatch \/ NerCall \/ Merge \/ EndNer
    BY <1>1, ExtractionHolds
  <1>2. CASE Link
    BY <1>2, LinkHolds
  <1>3. CASE AskPair \/ JudgePair \/ EndPairs \/ Summarise \/ Finish
    BY <1>3, RelationsHold
  <1>4. CASE Rest \/ UNCHANGED vars
    BY <1>4, StutterHolds DEF Rest
  <1> QED BY <1>1, <1>2, <1>3, <1>4 DEF Next

\* Only merging and the end of the extraction change what a node names.
LEMMA EntitiesStay ==
  ASSUME LinksInvariant, [Next]_vars, phase' = "ner", NEW n \in Nodes
  PROVE  ToSet(entities[n]) \subseteq ToSet(entities'[n])
PROOF
  <1>1. CASE Merge
    BY <1>1, MergeHolds DEF LinksInvariant
  <1>2. CASE EndNer
    BY <1>2 DEF EndNer
  <1>3. CASE ~Merge /\ ~EndNer
    <2>1. entities' = entities
      BY <1>3 DEF Next, Embed, StartBatch, NerCall, Link, AskPair, JudgePair, EndPairs, Summarise,
                  Finish, Rest, vars, nerVars
    <2> QED BY <2>1
  <1> QED BY <1>1, <1>2, <1>3

----------------------------------------------------------------------------
(* Theorems. *)

\* The invariant of the semantic axis: sequences where the folds need them,
\* edges under the cap, and every pair asked, judged or done with.
THEOREM LinksInvariantHolds == Spec => []LinksInvariant
PROOF
  <1>1. SemanticAssumption
    BY SemanticAssumption
  <1>2. Init => LinksInvariant
    BY <1>1, InitHolds
  <1>3. LinksInvariant /\ [Next]_vars => LinksInvariant'
    BY <1>1, StepHolds
  <1> QED BY <1>2, <1>3, PTL DEF Spec

\* What links two nodes is specific to them, no node has more edges of a kind
\* than the cap, and no pair of nodes costs two verdicts.
THEOREM LinksSound == Spec => []LinksAreSound
PROOF
  <1>1. LinksInvariant => LinksAreSound
    BY InvariantIsSound, SemanticAssumption
  <1> QED BY <1>1, LinksInvariantHolds, PTL

\* A node keeps what an earlier batch found in it when a later one is merged.
THEOREM MergingKeeps == Spec => MergingLosesNothing
PROOF
  <1>1. LinksInvariant /\ [Next]_vars =>
          [phase' = "ner" => \A n \in Nodes : ToSet(entities[n]) \subseteq ToSet(entities'[n])]_vars
    BY EntitiesStay
  <1> QED BY <1>1, LinksInvariantHolds, PTL DEF Spec, MergingLosesNothing
=============================================================================
