----------------------- MODULE DocumentRetrieval_proofs -----------------------
(***************************************************************************)
(* Proofs about DocumentRetrieval, for every set of threads, documents,    *)
(* nodes, relations, questions and limits: what evidence is written from,  *)
(* what the scope cache holds, and which document a question that spells   *)
(* one out is answered from.                                               *)
(*                                                                         *)
(* The ranking is built of folds.  Their values are found by induction     *)
(* over sets of numbers: < is well-founded, so a set that holds 0 and      *)
(* every successor holds every number.                                     *)
(***************************************************************************)
EXTENDS DocumentRetrieval, WellFoundedInduction, FiniteSetTheorems, TLAPS

(* Induction over numbers. *)

\* A set of numbers has a least one, because < is well-founded on them.
LEMMA LeastNumber ==
  ASSUME NEW T, T \subseteq Nat, T # {}
  PROVE  \E x \in T : \A y \in T : x <= y
  <1>1. PICK R : R = OpToRel(<, Nat)
    OBVIOUS
  <1>2. IsWellFoundedOn(R, Nat)
    BY <1>1, NatLessThanWellFounded
  <1>3. PICK x \in T : \A y \in T : ~(<<y, x>> \in R)
    BY <1>2, WFMin
  <1>4. ASSUME NEW y \in T PROVE x <= y
    <2>1. x \in Nat /\ y \in Nat
      OBVIOUS
    <2>2. y < x => <<y, x>> \in R
      BY <1>1, <2>1 DEF OpToRel
    <2> QED
      BY <1>3, <2>1, <2>2
  <1> QED
    BY <1>4

\* Induction, over a set: what holds 0 and every successor holds every number.
LEMMA NumbersAreReached ==
  ASSUME NEW T, 0 \in T, \A n \in T : n + 1 \in T
  PROVE  Nat \subseteq T
  <1>1. ASSUME Nat \ T # {} PROVE FALSE
    <2>1. PICK x \in Nat \ T : \A y \in Nat \ T : x <= y
      BY <1>1, LeastNumber
    <2>2. x # 0 /\ x - 1 \in Nat /\ x - 1 \notin Nat \ T
      BY <2>1
    <2> QED
      BY <2>2
  <1> QED
    BY <1>1

(* Sequences. *)

\* A sequence of whatever it holds.
IsSeq(s) == s = [i \in 1..Len(s) |-> s[i]] /\ Len(s) \in Nat

\* A function on 1 .. n is a sequence of its values.
LEMMA SequenceOfItsElements ==
  ASSUME NEW m, NEW n \in Nat, m = [i \in 1..n |-> m[i]]
  PROVE  m \in Seq(ToSet(m)) /\ Len(m) = n /\ IsSeq(m)
  <1>1. PICK S : S = ToSet(m)
    OBVIOUS
  <1>2. \A i \in 1..n : m[i] \in S
    BY <1>1 DEF ToSet
  <1>3. m \in Seq(S)
    BY <1>2
  <1>4. Len(m) = n
    BY <1>3
  <1> QED
    BY <1>1, <1>3, <1>4 DEF IsSeq

\* What a sequence holds.
LEMMA SequenceHolds ==
  ASSUME NEW s, IsSeq(s)
  PROVE  s \in Seq(ToSet(s)) /\ DOMAIN s = 1..Len(s) /\ ToSet(s) = {s[i] : i \in 1..Len(s)}
  <1>1. s \in Seq(ToSet(s))
    BY SequenceOfItsElements DEF IsSeq
  <1>2. DOMAIN s = 1..Len(s)
    BY DEF IsSeq
  <1> QED
    BY <1>1, <1>2 DEF ToSet

\* The sequences of the library are sequences in this sense.
LEMMA SequenceOver ==
  ASSUME NEW S, NEW s \in Seq(S)
  PROVE  IsSeq(s) /\ ToSet(s) \subseteq S
  <1>1. DOMAIN s = 1..Len(s) /\ Len(s) \in Nat /\ \A i \in 1..Len(s) : s[i] \in S
    OBVIOUS
  <1> QED
    BY <1>1 DEF IsSeq, ToSet

\* The smaller of two numbers.
LEMMA LesserOfTwo ==
  ASSUME NEW m \in Int, NEW n \in Int
  PROVE  Min({m, n}) \in {m, n} /\ Min({m, n}) <= m /\ Min({m, n}) <= n
  <1>1. \E x \in {m, n} : \A y \in {m, n} : x <= y
    OBVIOUS
  <1> QED
    BY <1>1 DEF Min

\* The first items of a sequence are items of it, in its order.
LEMMA PrefixHolds ==
  ASSUME NEW s, IsSeq(s), NEW n \in Nat
  PROVE  /\ IsSeq(Prefix(s, n)) /\ ToSet(Prefix(s, n)) \subseteq ToSet(s)
         /\ Len(Prefix(s, n)) <= Len(s)
         /\ \A i \in 1..Len(Prefix(s, n)) : Prefix(s, n)[i] = s[i]
  <1>1. PICK m : m = Min({n, Len(s)})
    OBVIOUS
  <1>2. m \in 0..Len(s)
    <2>1. PICK l : l = Len(s)
      OBVIOUS
    <2>2. l \in Nat /\ n \in Int /\ l \in Int
      BY <2>1 DEF IsSeq
    <2>3. m \in {n, l} /\ m <= n /\ m <= l
      BY <1>1, <2>1, <2>2, LesserOfTwo
    <2> QED
      BY <2>1, <2>2, <2>3
  <1>3. s \in Seq(ToSet(s))
    BY SequenceHolds
  <1>4. PICK p : p = SubSeq(s, 1, m)
    OBVIOUS
  <1>5. p \in Seq(ToSet(s)) /\ Len(p) = m /\ \A i \in 1..m : p[i] = s[i]
    BY <1>2, <1>3, <1>4
  <1>6. p = Prefix(s, n)
    BY <1>1, <1>4 DEF Prefix
  <1>7. IsSeq(p) /\ ToSet(p) \subseteq ToSet(s)
    BY <1>5, SequenceOver
  <1> QED
    BY <1>2, <1>5, <1>6, <1>7

\* Two sequences in a row hold what the two hold.
LEMMA ConcatenationHolds ==
  ASSUME NEW s, NEW t, IsSeq(s), IsSeq(t)
  PROVE  IsSeq(s \o t) /\ ToSet(s \o t) \subseteq ToSet(s) \cup ToSet(t)
  <1>1. PICK S : S = ToSet(s) \cup ToSet(t)
    OBVIOUS
  <1>2. s \in Seq(S) /\ t \in Seq(S)
    <2>1. /\ s \in Seq(ToSet(s)) /\ DOMAIN s = 1..Len(s) /\ ToSet(s) = {s[i] : i \in 1..Len(s)}
          /\ t \in Seq(ToSet(t)) /\ DOMAIN t = 1..Len(t) /\ ToSet(t) = {t[i] : i \in 1..Len(t)}
      BY SequenceHolds
    <2> QED
      BY <1>1, <2>1
  <1>3. s \o t \in Seq(S)
    BY <1>2
  <1> QED
    BY <1>1, <1>3, SequenceOver

\* One item.
LEMMA OneItem ==
  ASSUME NEW x
  PROVE  IsSeq(<<x>>) /\ ToSet(<<x>>) = {x}
  <1>1. PICK s : s = <<x>>
    OBVIOUS
  <1>2. Len(s) = 1 /\ s[1] = x /\ s = [i \in 1..1 |-> s[i]]
    BY <1>1
  <1>3. DOMAIN s = 1..1 /\ IsSeq(s)
    BY <1>2 DEF IsSeq
  <1> QED
    BY <1>1, <1>2, <1>3 DEF ToSet

\* No item.
LEMMA NoItem ==
  IsSeq(<<>>) /\ ToSet(<<>>) = {}
  <1>1. PICK s : s = <<>>
    OBVIOUS
  <1>2. Len(s) = 0 /\ s = [i \in 1..0 |-> s[i]]
    BY <1>1
  <1>3. IsSeq(s) /\ DOMAIN s = {}
    BY <1>2 DEF IsSeq
  <1> QED
    BY <1>1, <1>3 DEF ToSet

\* A function of the places of a sequence.
LEMMA MapIsSequence ==
  ASSUME NEW s, IsSeq(s), NEW m, m = [i \in DOMAIN s |-> m[i]]
  PROVE  IsSeq(m) /\ Len(m) = Len(s) /\ ToSet(m) = {m[i] : i \in DOMAIN s}
  <1>1. DOMAIN s = 1..Len(s) /\ Len(s) \in Nat
    BY DEF IsSeq
  <1> QED
    BY <1>1, SequenceOfItsElements DEF ToSet

(* A fold over a set, as a function on its subsets. *)

\* The element that a fold takes first, and the subsets up to a size.
First(s) == CHOOSE x \in s : TRUE
UpTo(S, n) == {s \in SUBSET S : Cardinality(s) <= n}

\* The fold of Arranged, over every subset of n records or fewer.
Arranging(f, S, n) ==
    f = [s \in UpTo(S, n) |-> IF s = {} THEN <<>> ELSE Inserted(First(s), f[s \ {First(s)}])]

\* Without its first element a set is smaller.
LEMMA FirstRemoved ==
  ASSUME NEW S, IsFiniteSet(S), NEW n \in Nat, NEW s \in UpTo(S, n), s # {}
  PROVE  /\ First(s) \in s /\ IsFiniteSet(s \ {First(s)})
         /\ Cardinality(s \ {First(s)}) \in Nat /\ Cardinality(s) = Cardinality(s \ {First(s)}) + 1
         /\ s \ {First(s)} \in UpTo(S, n)
         /\ n # 0 /\ s \ {First(s)} \in UpTo(S, n - 1)
  <1>1. PICK x : x = First(s)
    OBVIOUS
  <1>2. x \in s
    BY <1>1 DEF First
  <1>3. IsFiniteSet(s) /\ Cardinality(s) <= n
    BY FS_Subset DEF UpTo
  <1>4. IsFiniteSet(s \ {x}) /\ Cardinality(s \ {x}) = Cardinality(s) - 1
    BY <1>2, <1>3, FS_RemoveElement
  <1>5. Cardinality(s) \in Nat /\ Cardinality(s \ {x}) \in Nat
    BY <1>3, <1>4, FS_CardinalityType
  <1>6. s \ {x} \in SUBSET S
    BY DEF UpTo
  <1> QED
    BY <1>1, <1>2, <1>3, <1>4, <1>5, <1>6 DEF UpTo

\* The fold has a value on the subsets of every size, by induction over the size.
LEMMA ArrangingExists ==
  ASSUME NEW S, IsFiniteSet(S)
  PROVE  \A n \in Nat : \E f : Arranging(f, S, n)
  <1> DEFINE T == {n \in Nat : \E f : Arranging(f, S, n)}
  <1>1. 0 \in T
    <2>1. PICK f : f = [s \in UpTo(S, 0) |-> <<>>]
      OBVIOUS
    <2>2. \A s \in UpTo(S, 0) : s = {}
      BY FirstRemoved
    <2>3. Arranging(f, S, 0)
      BY <2>1, <2>2 DEF Arranging
    <2> QED
      BY <2>3
  <1>2. ASSUME NEW n \in T PROVE n + 1 \in T
    <2>0. n \in Nat /\ n + 1 \in Nat
      OBVIOUS
    <2>1. PICK f : Arranging(f, S, n)
      OBVIOUS
    <2>2. PICK g : g = [s \in UpTo(S, n + 1) |->
                          IF s \in UpTo(S, n) THEN f[s] ELSE Inserted(First(s), f[s \ {First(s)}])]
      OBVIOUS
    <2>3. ASSUME NEW s \in UpTo(S, n + 1)
          PROVE  g[s] = IF s = {} THEN <<>> ELSE Inserted(First(s), g[s \ {First(s)}])
      <3>1. CASE s = {}
        <4>1. s \in UpTo(S, n)
          BY <2>0, <3>1, FS_EmptySet DEF UpTo
        <4> QED
          BY <2>1, <2>2, <3>1, <4>1 DEF Arranging
      <3>2. CASE s # {}
        <4>1. s \ {First(s)} \in UpTo(S, n + 1) /\ s \ {First(s)} \in UpTo(S, n)
          BY <2>0, <3>2, FirstRemoved
        <4>2. g[s \ {First(s)}] = f[s \ {First(s)}]
          BY <2>2, <4>1
        <4>3. CASE s \in UpTo(S, n)
          BY <2>1, <2>2, <3>2, <4>2, <4>3 DEF Arranging
        <4>4. CASE s \notin UpTo(S, n)
          BY <2>2, <3>2, <4>2, <4>4
        <4> QED
          BY <4>3, <4>4
      <3> QED
        BY <3>1, <3>2
    <2>4. Arranging(g, S, n + 1)
      <3>1. g = [s \in UpTo(S, n + 1) |-> g[s]]
        BY <2>2
      <3> QED
        BY <2>3, <3>1 DEF Arranging
    <2> QED
      BY <2>0, <2>4
  <1>3. Nat \subseteq T
    BY <1>1, <1>2, NumbersAreReached
  <1> QED
    BY <1>3

\* FoldSet, through its definition, is the value on the whole set.
LEMMA ArrangedIsAFold ==
  ASSUME NEW S, IsFiniteSet(S)
  PROVE  \E f : /\ Arranging(f, S, Cardinality(S)) /\ UpTo(S, Cardinality(S)) = SUBSET S
                /\ FoldSet(Inserted, <<>>, S) = f[S]
  <1>1. Cardinality(S) \in Nat /\ UpTo(S, Cardinality(S)) = SUBSET S
    BY FS_CardinalityType, FS_Subset DEF UpTo
  <1> DEFINE Fold(f) == f = [s \in SUBSET S |-> IF s = {} THEN <<>>
                               ELSE Inserted(CHOOSE x \in s : TRUE, f[s \ {CHOOSE x \in s : TRUE}])]
  <1>2. \A f : Arranging(f, S, Cardinality(S)) <=> Fold(f)
    BY <1>1 DEF Arranging, First
  <1>3. \E f : Fold(f)
    BY <1>1, <1>2, ArrangingExists
  <1>4. FoldSet(Inserted, <<>>, S) = (CHOOSE f : Fold(f))[S]
    BY DEF FoldSet, MapThenFoldSet
  <1> HIDE DEF Fold
  <1>5. Fold(CHOOSE f : Fold(f))
    BY <1>3
  <1> QED
    BY <1>1, <1>2, <1>4, <1>5

\* A piece of a sequence.
LEMMA PieceHolds ==
  ASSUME NEW s, IsSeq(s), NEW a \in Nat, NEW b \in Nat, 1 <= a, b <= Len(s)
  PROVE  IsSeq(SubSeq(s, a, b)) /\ ToSet(SubSeq(s, a, b)) \subseteq ToSet(s)
  <1>1. s \in Seq(ToSet(s)) /\ Len(s) \in Nat
    BY SequenceHolds DEF IsSeq
  <1>2. SubSeq(s, a, b) \in Seq(ToSet(s))
    BY <1>1
  <1> QED
    BY <1>2, SequenceOver

\* One insertion adds one record.
LEMMA InsertedHolds ==
  ASSUME NEW seq, IsSeq(seq), NEW x
  PROVE  IsSeq(Inserted(x, seq)) /\ ToSet(Inserted(x, seq)) \subseteq ToSet(seq) \cup {x}
  <1>1. PICK n : n = Len(seq)
    OBVIOUS
  <1>2. n \in Nat /\ DOMAIN seq = 1..n
    BY <1>1, SequenceHolds DEF IsSeq
  <1>3. PICK places : places = {i \in DOMAIN seq : seq[i].key >= x.key}
    OBVIOUS
  <1>4. IsFiniteSet(1..n) /\ Cardinality(1..n) = n
    BY <1>2, FS_Interval
  <1>5. IsFiniteSet(places) /\ Cardinality(places) <= n
    BY <1>2, <1>3, <1>4, FS_Subset
  <1>6. PICK b : b = Cardinality(places)
    OBVIOUS
  <1>7. b \in Nat /\ b <= n
    BY <1>5, <1>6, FS_CardinalityType
  <1>8. PICK u, v : u = SubSeq(seq, 1, b) /\ v = SubSeq(seq, b + 1, n)
    OBVIOUS
  <1>9. IsSeq(u) /\ ToSet(u) \subseteq ToSet(seq) /\ IsSeq(v) /\ ToSet(v) \subseteq ToSet(seq)
    <2>1. 1 \in Nat /\ b + 1 \in Nat /\ 1 <= b + 1
      BY <1>7
    <2> QED
      BY <1>1, <1>2, <1>7, <1>8, <2>1, PieceHolds
  <1>10. Inserted(x, seq) = u \o <<x>> \o v
    BY <1>1, <1>3, <1>6, <1>8 DEF Inserted
  <1>11. IsSeq(u \o <<x>>) /\ ToSet(u \o <<x>>) \subseteq ToSet(seq) \cup {x}
    BY <1>9, OneItem, ConcatenationHolds
  <1>12. IsSeq((u \o <<x>>) \o v) /\ ToSet((u \o <<x>>) \o v) \subseteq ToSet(seq) \cup {x}
    BY <1>9, <1>11, ConcatenationHolds
  <1> QED
    BY <1>10, <1>12

\* The fold of Arranged over every subset is a sequence of its records.
LEMMA ArrangingHolds ==
  ASSUME NEW S, IsFiniteSet(S), NEW N \in Nat, NEW f, Arranging(f, S, N)
  PROVE  \A s \in UpTo(S, N) : IsSeq(f[s]) /\ ToSet(f[s]) \subseteq s
  <1> DEFINE Good(s) == IsSeq(f[s]) /\ ToSet(f[s]) \subseteq s
             T == {n \in Nat : n <= N => \A s \in UpTo(S, n) : Good(s)}
  <1>0. \A n \in Nat : n <= N => UpTo(S, n) \subseteq UpTo(S, N)
    <2>1. ASSUME NEW n \in Nat, n <= N, NEW s \in UpTo(S, n) PROVE s \in UpTo(S, N)
      <3>1. IsFiniteSet(s) /\ Cardinality(s) \in Nat
        BY FS_Subset, FS_CardinalityType DEF UpTo
      <3> QED
        BY <2>1, <3>1 DEF UpTo
    <2> QED
      BY <2>1
  <1>1. ASSUME NEW s \in UpTo(S, N), s = {} PROVE Good(s)
    BY <1>1, NoItem DEF Arranging
  <1>2. ASSUME NEW s \in UpTo(S, N), s # {}, Good(s \ {First(s)}) PROVE Good(s)
    <2>1. First(s) \in s /\ s \ {First(s)} \in UpTo(S, N)
      BY <1>2, FirstRemoved
    <2>2. f[s] = Inserted(First(s), f[s \ {First(s)}])
      BY <1>2 DEF Arranging
    <2>3. PICK y : y = f[s \ {First(s)}]
      OBVIOUS
    <2>4. IsSeq(y) /\ ToSet(y) \subseteq s
      BY <1>2, <2>3
    <2>5. IsSeq(Inserted(First(s), y)) /\ ToSet(Inserted(First(s), y)) \subseteq ToSet(y) \cup {First(s)}
      BY <2>4, InsertedHolds
    <2> QED
      BY <2>1, <2>2, <2>3, <2>4, <2>5
  <1> HIDE DEF Good
  <1>3. 0 \in T
    <2>1. ASSUME NEW s \in UpTo(S, 0) PROVE Good(s)
      <3>1. s = {}
        BY FirstRemoved
      <3>2. 0 \in Nat /\ 0 <= N
        OBVIOUS
      <3>3. s \in UpTo(S, N)
        BY <1>0, <3>2
      <3> QED
        BY <1>1, <3>1, <3>3
    <2> QED
      BY <2>1
  <1>4. ASSUME NEW n \in T PROVE n + 1 \in T
    <2>1. n \in Nat /\ n + 1 \in Nat
      OBVIOUS
    <2>2. ASSUME n + 1 <= N, NEW s \in UpTo(S, n + 1) PROVE Good(s)
      <3>1. s \in UpTo(S, N)
        BY <1>0, <2>1, <2>2
      <3>2. CASE s # {}
        <4>m. PICK m : m = n + 1
          OBVIOUS
        <4>0. m \in Nat /\ m - 1 = n /\ s \in UpTo(S, m)
          BY <2>1, <4>m
        <4>1. s \ {First(s)} \in UpTo(S, n)
          <5>1. s \ {First(s)} \in UpTo(S, m - 1)
            BY <3>2, <4>0, FirstRemoved
          <5> QED
            BY <4>0, <5>1
        <4>2. n <= N
          BY <2>1, <2>2
        <4>3. Good(s \ {First(s)})
          BY <4>1, <4>2
        <4> QED
          BY <1>2, <3>1, <3>2, <4>3
      <3> QED
        BY <1>1, <3>1, <3>2
    <2> QED
      BY <2>1, <2>2
  <1>5. N \in T
    BY <1>3, <1>4, NumbersAreReached
  <1> QED
    BY <1>5 DEF Good

\* What is arranged are the items, and nothing else.
LEMMA ArrangedHolds ==
  ASSUME NEW S, IsFiniteSet(S)
  PROVE  IsSeq(Arranged(S)) /\ ToSet(Arranged(S)) \subseteq {x.item : x \in S}
  <1>1. PICK f : /\ Arranging(f, S, Cardinality(S)) /\ UpTo(S, Cardinality(S)) = SUBSET S
                 /\ FoldSet(Inserted, <<>>, S) = f[S]
    BY ArrangedIsAFold
  <1>2. Cardinality(S) \in Nat
    BY FS_CardinalityType
  <1>3. PICK seq : seq = f[S]
    OBVIOUS
  <1>4. IsSeq(seq) /\ ToSet(seq) \subseteq S
    BY <1>1, <1>2, <1>3, ArrangingHolds
  <1>5. Arranged(S) = [i \in DOMAIN seq |-> seq[i].item]
    BY <1>1, <1>3 DEF Arranged
  <1>6. PICK m : m = [i \in DOMAIN seq |-> seq[i].item]
    OBVIOUS
  <1>7. IsSeq(m) /\ ToSet(m) = {m[i] : i \in DOMAIN seq}
    <2>1. m = [i \in DOMAIN seq |-> m[i]]
      BY <1>6
    <2> QED
      BY <1>4, <2>1, MapIsSequence
  <1>8. \A i \in DOMAIN seq : m[i] \in {x.item : x \in S}
    BY <1>4, <1>6 DEF ToSet
  <1> QED
    BY <1>5, <1>6, <1>7, <1>8

\* The values of a function on a finite set.
LEMMA ImageIsFinite ==
  ASSUME NEW S, IsFiniteSet(S), NEW f, f = [x \in S |-> f[x]]
  PROVE  IsFiniteSet({f[x] : x \in S})
  <1>1. PICK T : T = {f[x] : x \in S}
    OBVIOUS
  <1>2. f \in Surjection(S, T)
    BY <1>1 DEF Surjection
  <1> QED
    BY <1>1, <1>2, FS_Surjection

\* Some places of a sequence hold items of it.
LEMMA OnlyHolds ==
  ASSUME NEW seq, IsSeq(seq), NEW places \in SUBSET DOMAIN seq
  PROVE  IsSeq(Only(seq, places)) /\ ToSet(Only(seq, places)) \subseteq {seq[i] : i \in places}
  <1>1. IsFiniteSet(places)
    <2>1. DOMAIN seq = 1..Len(seq) /\ Len(seq) \in Nat
      BY SequenceHolds DEF IsSeq
    <2>2. IsFiniteSet(1..Len(seq))
      BY <2>1, FS_Interval
    <2> QED
      BY <2>1, <2>2, FS_Subset
  <1>2. PICK f : f = [i \in places |-> [key |-> -i, item |-> seq[i]]]
    OBVIOUS
  <1>3. PICK S : S = {[key |-> -i, item |-> seq[i]] : i \in places}
    OBVIOUS
  <1>4. S = {f[i] : i \in places} /\ f = [i \in places |-> f[i]]
    BY <1>2, <1>3
  <1>5. IsFiniteSet(S)
    BY <1>1, <1>4, ImageIsFinite
  <1>6. IsSeq(Arranged(S)) /\ ToSet(Arranged(S)) \subseteq {x.item : x \in S}
    BY <1>5, ArrangedHolds
  <1>7. {x.item : x \in S} \subseteq {seq[i] : i \in places}
    BY <1>3
  <1>8. Only(seq, places) = Arranged(S)
    BY <1>3 DEF Only
  <1> QED
    BY <1>6, <1>7, <1>8

\* Sorting brings in no item.
LEMMA SortedHolds ==
  ASSUME NEW seq, IsSeq(seq), NEW key
  PROVE  IsSeq(Sorted(seq, key)) /\ ToSet(Sorted(seq, key)) \subseteq ToSet(seq)
  <1>1. IsFiniteSet(DOMAIN seq)
    <2>1. DOMAIN seq = 1..Len(seq) /\ Len(seq) \in Nat
      BY SequenceHolds DEF IsSeq
    <2> QED
      BY <2>1, FS_Interval
  <1>2. PICK f : f = [i \in DOMAIN seq |-> [key |-> Len(seq) * key[i] - i, item |-> seq[i]]]
    OBVIOUS
  <1>3. PICK S : S = {[key |-> Len(seq) * key[i] - i, item |-> seq[i]] : i \in DOMAIN seq}
    OBVIOUS
  <1>4. S = {f[i] : i \in DOMAIN seq} /\ f = [i \in DOMAIN seq |-> f[i]]
    BY <1>2, <1>3
  <1>5. IsFiniteSet(S)
    BY <1>1, <1>4, ImageIsFinite
  <1>6. IsSeq(Arranged(S)) /\ ToSet(Arranged(S)) \subseteq {x.item : x \in S}
    BY <1>5, ArrangedHolds
  <1>7. {x.item : x \in S} \subseteq ToSet(seq)
    BY <1>3 DEF ToSet
  <1>8. Sorted(seq, key) = Arranged(S)
    BY <1>3 DEF Sorted
  <1> QED
    BY <1>6, <1>7, <1>8

\* The rows of a set are its elements.
LEMMA UnorderedHolds ==
  ASSUME NEW T, IsFiniteSet(T)
  PROVE  IsSeq(Unordered(T)) /\ ToSet(Unordered(T)) \subseteq T
  <1>2. PICK f : f = [x \in T |-> [key |-> 0, item |-> x]]
    OBVIOUS
  <1>3. PICK S : S = {[key |-> 0, item |-> x] : x \in T}
    OBVIOUS
  <1>4. S = {f[x] : x \in T} /\ f = [x \in T |-> f[x]]
    BY <1>2, <1>3
  <1>5. IsFiniteSet(S)
    BY <1>4, ImageIsFinite
  <1>6. IsSeq(Arranged(S)) /\ ToSet(Arranged(S)) \subseteq {x.item : x \in S}
    BY <1>5, ArrangedHolds
  <1>7. {x.item : x \in S} \subseteq T
    BY <1>3
  <1>8. Unordered(T) = Arranged(S)
    BY <1>3 DEF Unordered
  <1> QED
    BY <1>6, <1>7, <1>8

\* The best of a set are elements of it.
LEMMA BestHolds ==
  ASSUME NEW T, IsFiniteSet(T), NEW n \in Nat, NEW key
  PROVE  IsSeq(Best(n, T, key)) /\ ToSet(Best(n, T, key)) \subseteq T
  <1>2. PICK f : f = [x \in T |-> [key |-> key[x], item |-> x]]
    OBVIOUS
  <1>3. PICK S : S = {[key |-> key[x], item |-> x] : x \in T}
    OBVIOUS
  <1>4. S = {f[x] : x \in T} /\ f = [x \in T |-> f[x]]
    BY <1>2, <1>3
  <1>5. IsFiniteSet(S)
    BY <1>4, ImageIsFinite
  <1>6. PICK a : a = Arranged(S)
    OBVIOUS
  <1>7. IsSeq(a) /\ ToSet(a) \subseteq {x.item : x \in S}
    BY <1>5, <1>6, ArrangedHolds
  <1>8. {x.item : x \in S} \subseteq T
    BY <1>3
  <1>9. Best(n, T, key) = Prefix(a, n)
    BY <1>3, <1>6 DEF Best
  <1>10. IsSeq(Prefix(a, n)) /\ ToSet(Prefix(a, n)) \subseteq ToSet(a)
    BY <1>7, PrefixHolds
  <1> QED
    BY <1>7, <1>8, <1>9, <1>10

----------------------------------------------------------------------------
(* Hits.                                                                   *)

\* A sequence of hits on nodes of the ids I.
IsHit(h) == h = [id |-> h.id, score |-> h.score]
HitsIn(s, I) == IsSeq(s) /\ \A h \in ToSet(s) : IsHit(h) /\ h.id \in I

\* No hits are hits of any ids.
LEMMA NoHits ==
  ASSUME NEW I
  PROVE  HitsIn(<<>>, I)
  BY NoItem DEF HitsIn

\* Hits from among hits.
LEMMA HitsWithin ==
  ASSUME NEW s, NEW I, HitsIn(s, I), NEW t, IsSeq(t), ToSet(t) \subseteq ToSet(s)
  PROVE  HitsIn(t, I)
  BY DEF HitsIn

\* Hits of some ids are hits of more ids.
LEMMA HitsInMore ==
  ASSUME NEW s, NEW I, HitsIn(s, I), NEW J, I \subseteq J
  PROVE  HitsIn(s, J)
  BY DEF HitsIn

\* One hit.
LEMMA OneHit ==
  ASSUME NEW h, NEW I, IsHit(h), h.id \in I
  PROVE  HitsIn(<<h>>, I)
  BY OneItem DEF HitsIn

\* The hits of two reads.
LEMMA JoinedHits ==
  ASSUME NEW s, NEW t, NEW I, HitsIn(s, I), HitsIn(t, I)
  PROVE  HitsIn(s \o t, I)
  BY ConcatenationHolds DEF HitsIn

\* A cut keeps hits.
LEMMA FirstHits ==
  ASSUME NEW s, NEW I, HitsIn(s, I), NEW n \in Nat
  PROVE  HitsIn(Prefix(s, n), I)
  <1>1. PICK t : t = Prefix(s, n)
    OBVIOUS
  <1>2. IsSeq(t) /\ ToSet(t) \subseteq ToSet(s)
    BY <1>1, PrefixHolds DEF HitsIn
  <1> QED
    BY <1>1, <1>2, HitsWithin

\* A choice keeps hits.
LEMMA SomeHits ==
  ASSUME NEW s, NEW I, HitsIn(s, I), NEW places \in SUBSET DOMAIN s
  PROVE  HitsIn(Only(s, places), I)
  <1>1. PICK t : t = Only(s, places)
    OBVIOUS
  <1>2. IsSeq(t) /\ ToSet(t) \subseteq {s[i] : i \in places}
    BY <1>1, OnlyHolds DEF HitsIn
  <1>3. {s[i] : i \in places} \subseteq ToSet(s)
    BY DEF ToSet
  <1> QED
    BY <1>1, <1>2, <1>3, HitsWithin

\* A sort keeps hits.
LEMMA SortedHits ==
  ASSUME NEW s, NEW I, HitsIn(s, I), NEW key
  PROVE  HitsIn(Sorted(s, key), I)
  <1>1. PICK t : t = Sorted(s, key)
    OBVIOUS
  <1>2. IsSeq(t) /\ ToSet(t) \subseteq ToSet(s)
    BY <1>1, SortedHolds DEF HitsIn
  <1> QED
    BY <1>1, <1>2, HitsWithin

\* Leaving some ids out keeps hits.
LEMMA WithoutHits ==
  ASSUME NEW s, NEW I, HitsIn(s, I), NEW ids
  PROVE  HitsIn(Without(s, ids), I)
  <1>1. PICK places : places = {i \in DOMAIN s : s[i].id \notin ids}
    OBVIOUS
  <1>2. HitsIn(Only(s, places), I)
    BY <1>1, SomeHits
  <1> QED
    BY <1>1, <1>2 DEF Without

\* Leaving repetitions out keeps hits.
LEMMA OnceHits ==
  ASSUME NEW s, NEW I, HitsIn(s, I)
  PROVE  HitsIn(Once(s), I)
  <1>1. PICK places : places = {i \in DOMAIN s : \A j \in 1..(i - 1) : s[j].id # s[i].id}
    OBVIOUS
  <1>2. HitsIn(Only(s, places), I)
    BY <1>1, SomeHits
  <1> QED
    BY <1>1, <1>2 DEF Once

\* Hits with other scores.
LEMMA RescoredHits ==
  ASSUME NEW s, NEW I, HitsIn(s, I), NEW m, m = [i \in DOMAIN s |-> m[i]],
         \A i \in DOMAIN s : IsHit(m[i]) /\ m[i].id = s[i].id
  PROVE  HitsIn(m, I)
  <1>1. IsSeq(m) /\ ToSet(m) = {m[i] : i \in DOMAIN s}
    BY MapIsSequence DEF HitsIn
  <1>2. \A i \in DOMAIN s : s[i].id \in I
    BY DEF HitsIn, ToSet
  <1> QED
    BY <1>1, <1>2 DEF HitsIn

\* Hits on the nodes of a sequence.
LEMMA HitsOnNodes ==
  ASSUME NEW seq, IsSeq(seq), NEW score, NEW I, \A n \in ToSet(seq) : n.id \in I
  PROVE  HitsIn(HitsOf(seq, score), I)
  <1>1. PICK m : m = HitsOf(seq, score)
    OBVIOUS
  <1>2. m = [i \in DOMAIN seq |-> [id |-> seq[i].id, score |-> score[seq[i]]]]
    BY <1>1 DEF HitsOf, Hit
  <1>3. IsSeq(m) /\ ToSet(m) = {m[i] : i \in DOMAIN seq}
    <2>1. m = [i \in DOMAIN seq |-> m[i]]
      BY <1>2
    <2> QED
      BY <2>1, MapIsSequence
  <1>4. \A i \in DOMAIN seq : IsHit(m[i]) /\ m[i].id \in I
    BY <1>2 DEF IsHit, ToSet
  <1> QED
    BY <1>1, <1>3, <1>4 DEF HitsIn

\* The best nodes of a set of nodes.
LEMMA BestHits ==
  ASSUME NEW T, IsFiniteSet(T), NEW n \in Nat, NEW key, NEW score, NEW I, \A x \in T : x.id \in I
  PROVE  HitsIn(HitsOf(Best(n, T, key), score), I)
  <1>1. PICK seq : seq = Best(n, T, key)
    OBVIOUS
  <1>2. IsSeq(seq) /\ ToSet(seq) \subseteq T
    BY <1>1, BestHolds
  <1> QED
    BY <1>1, <1>2, HitsOnNodes

----------------------------------------------------------------------------
(* The merge, the fusion and the pins bring in no hit that no channel had. *)

\* _merge_chunks: the first list, and of the second what it has not.
LEMMA MergedChunks ==
  ASSUME NEW s, NEW t, NEW I, HitsIn(s, I), HitsIn(t, I), MergeCap \in Nat
  PROVE  HitsIn(MergeChunks(s, t), I)
  <1>1. PICK u : u = Once(Without(t, Ids(s)))
    OBVIOUS
  <1>2. HitsIn(u, I)
    BY <1>1, WithoutHits, OnceHits
  <1>3. PICK v : v = ByScore(s \o u)
    OBVIOUS
  <1>4. HitsIn(v, I)
    <2>1. HitsIn(s \o u, I)
      BY <1>2, JoinedHits
    <2>2. PICK j : j = s \o u
      OBVIOUS
    <2>3. v = Sorted(j, [i \in DOMAIN j |-> j[i].score])
      BY <1>3, <2>2 DEF ByScore
    <2> QED
      BY <2>1, <2>2, <2>3, SortedHits
  <1>5. MergeChunks(s, t) = Prefix(v, MergeCap)
    BY <1>1, <1>3 DEF MergeChunks
  <1> QED
    BY <1>4, <1>5, FirstHits

\* A hit at its place.
LEMMA HitAt ==
  ASSUME NEW s, NEW I, HitsIn(s, I), NEW i \in DOMAIN s
  PROVE  IsHit(s[i]) /\ s[i].id \in I /\ s[i] \in ToSet(s)
  BY DEF HitsIn, ToSet

\* Weighting changes scores only.
LEMMA WeightedHits ==
  ASSUME NEW s, NEW I, HitsIn(s, I), NEW weight
  PROVE  HitsIn(Weighted(s, weight), I)
  <1>1. PICK m : m = Weighted(s, weight)
    OBVIOUS
  <1>2. m = [i \in DOMAIN s |-> [s[i] EXCEPT !.score = (@ * weight) \div 1000]]
    BY <1>1 DEF Weighted
  <1>3. ASSUME NEW i \in DOMAIN s PROVE IsHit(m[i]) /\ m[i].id = s[i].id
    <2>1. IsHit(s[i])
      BY HitAt
    <2> QED
      BY <1>2, <2>1 DEF IsHit
  <1>4. m = [i \in DOMAIN s |-> m[i]]
    BY <1>2
  <1> QED
    BY <1>1, <1>3, <1>4, RescoredHits

\* Normalising changes scores only.
LEMMA NormalisedHits ==
  ASSUME NEW s, NEW I, HitsIn(s, I)
  PROVE  HitsIn(Normalised(s), I)
  <1>1. PICK m : m = Normalised(s)
    OBVIOUS
  <1>2. PICK score : m = [i \in DOMAIN s |-> [s[i] EXCEPT !.score = score[i]]]
    <2>1. PICK best : best = Max({h.score : h \in ToSet(s)} \cup {1})
      OBVIOUS
    <2>2. PICK score : score = [i \in DOMAIN s |->
            (s[i].score * (IF NodeAt(s[i].id).kind = "Page" THEN 1196 ELSE 920)) \div best]
      OBVIOUS
    <2>3. m = [i \in DOMAIN s |-> [s[i] EXCEPT !.score =
            (@ * (IF NodeAt(s[i].id).kind = "Page" THEN 1196 ELSE 920)) \div best]]
      BY <1>1, <2>1 DEF Normalised
    <2>4. m = [i \in DOMAIN s |-> [s[i] EXCEPT !.score = score[i]]]
      BY <2>2, <2>3
    <2> QED
      BY <2>4
  <1>3. ASSUME NEW i \in DOMAIN s PROVE IsHit(m[i]) /\ m[i].id = s[i].id
    <2>1. IsHit(s[i])
      BY HitAt
    <2> QED
      BY <1>2, <2>1 DEF IsHit
  <1>4. m = [i \in DOMAIN s |-> m[i]]
    BY <1>2
  <1> QED
    BY <1>1, <1>3, <1>4, RescoredHits

\* Raising changes scores only.
LEMMA RaisedHits ==
  ASSUME NEW s, NEW I, HitsIn(s, I), NEW by
  PROVE  HitsIn(Raised(s, by), I)
  <1>1. PICK m : m = Raised(s, by)
    OBVIOUS
  <1>2. m = [i \in DOMAIN s |-> [s[i] EXCEPT !.score = @ + by]]
    BY <1>1 DEF Raised
  <1>3. ASSUME NEW i \in DOMAIN s PROVE IsHit(m[i]) /\ m[i].id = s[i].id
    <2>1. IsHit(s[i])
      BY HitAt
    <2> QED
      BY <1>2, <2>1 DEF IsHit
  <1>4. m = [i \in DOMAIN s |-> m[i]]
    BY <1>2
  <1> QED
    BY <1>1, <1>3, <1>4, RescoredHits

\* The boost of a hit changes its score only.
LEMMA BoostedHits ==
  ASSUME NEW s, NEW I, HitsIn(s, I), NEW q
  PROVE  HitsIn([i \in DOMAIN s |-> Boost(q, s[i])], I)
  <1>1. PICK m : m = [i \in DOMAIN s |-> Boost(q, s[i])]
    OBVIOUS
  <1>3. ASSUME NEW i \in DOMAIN s PROVE IsHit(m[i]) /\ m[i].id = s[i].id
    <2>1. IsHit(s[i])
      BY HitAt
    <2>2. PICK named : named = IF NodeAt(s[i].id).titled THEN 1080 ELSE 1000
      OBVIOUS
    <2>3. PICK said : said = 1000 + Min({450, 70 * Cardinality(q.keywords \cap NodeAt(s[i].id).says)})
      OBVIOUS
    <2>4. PICK x : x = (s[i].score * named * said) \div 1000000
      OBVIOUS
    <2>5. m[i] = [s[i] EXCEPT !.score = x]
      BY <1>1, <2>2, <2>3, <2>4, SMT DEF Boost
    <2> QED
      BY <2>1, <2>5 DEF IsHit
  <1>4. m = [i \in DOMAIN s |-> m[i]]
    BY <1>1
  <1> QED
    BY <1>1, <1>3, <1>4, RescoredHits

\* A hit is added, or the score of one with its id is raised.
LEMMA UpsertedHits ==
  ASSUME NEW s, NEW I, HitsIn(s, I), NEW h, IsHit(h), h.id \in I
  PROVE  HitsIn(Upsert(s, h), I)
  <1>1. CASE h.id \in Ids(s)
    <2>1. PICK m : m = [i \in DOMAIN s |->
             IF s[i].id = h.id THEN [h EXCEPT !.score = Max({@, s[i].score})] ELSE s[i]]
      OBVIOUS
    <2>2. Upsert(s, h) = m
      BY <1>1, <2>1 DEF Upsert
    <2>3. ASSUME NEW i \in DOMAIN s PROVE IsHit(m[i]) /\ m[i].id = s[i].id
      <3>1. CASE s[i].id = h.id
        <4>1. PICK x : x = Max({h.score, s[i].score})
          OBVIOUS
        <4>2. m[i] = [h EXCEPT !.score = x]
          BY <2>1, <3>1, <4>1
        <4> QED
          BY <3>1, <4>2 DEF IsHit
      <3>2. CASE s[i].id # h.id
        <4>1. IsHit(s[i])
          BY HitAt
        <4> QED
          BY <2>1, <3>2, <4>1
      <3> QED
        BY <3>1, <3>2
    <2>4. m = [i \in DOMAIN s |-> m[i]]
      BY <2>1
    <2> QED
      BY <2>2, <2>3, <2>4, RescoredHits
  <1>2. CASE h.id \notin Ids(s)
    <2>1. s \in Seq(ToSet(s))
      BY SequenceHolds DEF HitsIn
    <2>2. PICK S : S = ToSet(s) \cup {h}
      OBVIOUS
    <2>3. s \in Seq(S) /\ h \in S
      BY <2>1, <2>2
    <2>4. Append(s, h) \in Seq(S)
      BY <2>3
    <2>5. IsSeq(Append(s, h)) /\ ToSet(Append(s, h)) \subseteq S
      BY <2>4, SequenceOver
    <2>6. Upsert(s, h) = Append(s, h)
      BY <1>2 DEF Upsert
    <2> QED
      BY <2>2, <2>5, <2>6 DEF HitsIn
  <1> QED
    BY <1>1, <1>2

\* The fold of MergeAndRank, over any set of the first n places.
Merging(f, all, n) ==
    f = [s \in SUBSET (1..n) |-> IF s = {} THEN <<>> ELSE Upsert(f[s \ {Max(s)}], all[Max(s)])]

\* The last place of a set of places.
LEMMA LastPlace ==
  ASSUME NEW n \in Nat, NEW s \in SUBSET (1..n), s # {}
  PROVE  Max(s) \in s /\ (n \in s => Max(s) = n)
  <1>1. PICK T : T = {n - i : i \in s}
    OBVIOUS
  <1>2. T \subseteq Nat /\ T # {}
    <2>1. \A i \in s : n - i \in Nat
      OBVIOUS
    <2>2. PICK i : i \in s
      OBVIOUS
    <2>3. n - i \in T
      BY <1>1, <2>2
    <2> QED
      BY <1>1, <2>1, <2>3
  <1>3. PICK x \in T : \A y \in T : x <= y
    BY <1>2, LeastNumber
  <1>4. PICK m \in s : x = n - m
    BY <1>1
  <1>5. ASSUME NEW i \in s PROVE m >= i
    <2>1. n - i \in T /\ i \in Int /\ m \in Int
      BY <1>1
    <2> QED
      BY <1>3, <1>4, <2>1
  <1>6. PICK k : k = Max(s)
    OBVIOUS
  <1>7. k \in s /\ \A i \in s : k >= i
    BY <1>5, <1>6 DEF Max
  <1> QED
    BY <1>6, <1>7

\* The fold of the fusion has a value on the first n places, by induction over n.
LEMMA MergingExists ==
  ASSUME NEW all
  PROVE  \A n \in Nat : \E f : Merging(f, all, n)
  <1> DEFINE T == {n \in Nat : \E f : Merging(f, all, n)}
  <1>1. 0 \in T
    <2>1. PICK f : f = [s \in SUBSET (1..0) |-> <<>>]
      OBVIOUS
    <2>2. \A s \in SUBSET (1..0) : s = {}
      OBVIOUS
    <2>3. Merging(f, all, 0)
      BY <2>1, <2>2 DEF Merging
    <2> QED
      BY <2>3
  <1>2. ASSUME NEW n \in T PROVE n + 1 \in T
    <2>0. n \in Nat /\ n + 1 \in Nat
      OBVIOUS
    <2>1. PICK f : Merging(f, all, n)
      OBVIOUS
    <2>2. PICK g : g = [s \in SUBSET (1..(n + 1)) |->
                          IF n + 1 \in s THEN Upsert(f[s \ {n + 1}], all[n + 1]) ELSE f[s]]
      OBVIOUS
    <2>3. ASSUME NEW s \in SUBSET (1..(n + 1))
          PROVE  g[s] = IF s = {} THEN <<>> ELSE Upsert(g[s \ {Max(s)}], all[Max(s)])
      <3>1. CASE n + 1 \in s
        <4>1. Max(s) = n + 1
          BY <2>0, <3>1, LastPlace
        <4>2. s \ {n + 1} \in SUBSET (1..n)
          OBVIOUS
        <4>3. g[s \ {n + 1}] = f[s \ {n + 1}]
          BY <2>2, <4>2
        <4> QED
          BY <2>2, <3>1, <4>1, <4>3
      <3>2. CASE n + 1 \notin s
        <4>1. s \in SUBSET (1..n) /\ s \ {Max(s)} \in SUBSET (1..n)
          <5>1. \A i \in s : i \in 1..n
            BY <2>0, <3>2
          <5> QED
            BY <5>1
        <4>2. g[s] = f[s] /\ g[s \ {Max(s)}] = f[s \ {Max(s)}]
          BY <2>2, <3>2, <4>1
        <4> QED
          BY <2>1, <4>1, <4>2 DEF Merging
      <3> QED
        BY <3>1, <3>2
    <2>4. Merging(g, all, n + 1)
      BY <2>2, <2>3 DEF Merging
    <2> QED
      BY <2>0, <2>4
  <1>3. Nat \subseteq T
    BY <1>1, <1>2, NumbersAreReached
  <1> QED
    BY <1>3

\* The fused hits are hits of some channel.
LEMMA MergingHolds ==
  ASSUME NEW I, NEW all, HitsIn(all, I), NEW f, Merging(f, all, Len(all))
  PROVE  HitsIn(f[1..Len(all)], I)
  <1>n. PICK n : n = Len(all)
    OBVIOUS
  <1>0. n \in Nat /\ DOMAIN all = 1..n
    BY <1>n, SequenceHolds DEF HitsIn, IsSeq
  <1> DEFINE T == {k \in Nat : k <= n => \A s \in SUBSET (1..k) : HitsIn(f[s], I)}
  <1>1. ASSUME NEW s \in SUBSET (1..n), s = {} PROVE HitsIn(f[s], I)
    BY <1>n, <1>1, NoHits DEF Merging
  <1>2. ASSUME NEW s \in SUBSET (1..n), s # {}, HitsIn(f[s \ {Max(s)}], I) PROVE HitsIn(f[s], I)
    <2>1. PICK k : k = Max(s)
      OBVIOUS
    <2>2. k \in s
      BY <1>0, <1>2, <2>1, LastPlace
    <2>3. k \in DOMAIN all
      BY <1>0, <2>2
    <2>4. IsHit(all[k]) /\ all[k].id \in I
      BY <2>3, HitAt
    <2>5. f[s] = Upsert(f[s \ {k}], all[k])
      BY <1>n, <1>2, <2>1 DEF Merging
    <2> QED
      BY <1>2, <2>1, <2>4, <2>5, UpsertedHits
  <1>3. 0 \in T
    <2>1. \A s \in SUBSET (1..0) : s = {} /\ s \in SUBSET (1..n)
      OBVIOUS
    <2> QED
      BY <1>1, <2>1
  <1>4. ASSUME NEW k \in T PROVE k + 1 \in T
    <2>1. k \in Nat /\ k + 1 \in Nat
      OBVIOUS
    <2>2. ASSUME k + 1 <= n, NEW s \in SUBSET (1..(k + 1)) PROVE HitsIn(f[s], I)
      <3>1. s \in SUBSET (1..n) /\ k <= n
        BY <1>0, <2>1, <2>2
      <3>2. CASE k + 1 \in s
        <4>1. Max(s) = k + 1
          BY <2>1, <3>2, LastPlace
        <4>2. s \ {Max(s)} \in SUBSET (1..k)
          BY <4>1
        <4>3. HitsIn(f[s \ {Max(s)}], I)
          BY <3>1, <4>2
        <4> QED
          BY <1>2, <3>1, <3>2, <4>3
      <3>3. CASE k + 1 \notin s
        <4>1. s \in SUBSET (1..k)
          BY <2>1, <3>3
        <4> QED
          BY <3>1, <4>1
      <3> QED
        BY <3>2, <3>3
    <2> QED
      BY <2>1, <2>2
  <1>5. n \in T
    BY <1>0, <1>3, <1>4, NumbersAreReached
  <1>6. 1..n \in SUBSET (1..n) /\ n <= n
    BY <1>0
  <1> QED
    BY <1>n, <1>5, <1>6

\* FoldLeft, through its definition, is the value on all places.
LEMMA MergedHits ==
  ASSUME NEW I, NEW all, HitsIn(all, I)
  PROVE  HitsIn(FoldLeft(Upsert, <<>>, all), I)
  <1>1. DOMAIN all = 1..Len(all) /\ Len(all) \in Nat
    BY SequenceHolds DEF HitsIn, IsSeq
  <1> DEFINE f == CHOOSE g : Merging(g, all, Len(all))
  <1>2. Merging(f, all, Len(all))
    BY <1>1, MergingExists
  <1>3. FoldLeft(Upsert, <<>>, all) = f[1..Len(all)]
    BY <1>1 DEF FoldLeft, MapThenFoldSet, Merging
  <1> HIDE DEF f
  <1> QED
    BY <1>2, <1>3, MergingHolds

\* The limits of the ranking are numbers.
LEMMA Limits ==
  /\ MergeCap \in Nat /\ FinalLimit \in Nat /\ SynthesisLimit \in Nat /\ EnumerationLimit \in Nat
  /\ ExhaustiveLimit \in Nat /\ RowLimit \in Nat
  BY RankingAssumption

\* The largest of four numbers is one.
LEMMA LargestOfFour ==
  ASSUME NEW a \in Nat, NEW b \in Nat, NEW c \in Nat, NEW d \in Nat
  PROVE  Max({a, b, c, d}) \in Nat
  <1>1. \E x \in {a, b, c, d} : \A y \in {a, b, c, d} : x >= y
    OBVIOUS
  <1> QED
    BY <1>1 DEF Max

\* How much is fetched is a number.
LEMMA FetchLimitIsNumber ==
  ASSUME NEW q
  PROVE  FetchLimit(q) \in Nat
  <1>1. PICK b, c, d : /\ b = IF Exhaustive(q) THEN ExhaustiveLimit ELSE FinalLimit
                       /\ c = IF q.synthesis THEN SynthesisLimit ELSE 0
                       /\ d = IF q.enumerates THEN EnumerationLimit ELSE 0
    OBVIOUS
  <1>2. b \in Nat /\ c \in Nat /\ d \in Nat /\ FinalLimit \in Nat
    BY <1>1, Limits
  <1>3. FetchLimit(q) = Max({FinalLimit, b, c, d})
    BY <1>1 DEF FetchLimit
  <1> QED
    BY <1>2, <1>3, LargestOfFour

\* Every channel is of hits on nodes of the ids I.
ChannelsIn(c, I) ==
  /\ HitsIn(c.vector, I) /\ HitsIn(c.fulltext, I) /\ HitsIn(c.graph, I)
  /\ HitsIn(c.lexical, I) /\ HitsIn(c.chapters, I) /\ HitsIn(c.summaries, I)
  /\ HitsIn(c.keyword, I) /\ HitsIn(c.scope, I) /\ HitsIn(c.quantity, I)

\* Sorting by score keeps hits.
LEMMA ByScoreHits ==
  ASSUME NEW s, NEW I, HitsIn(s, I)
  PROVE  HitsIn(ByScore(s), I)
  BY SortedHits DEF ByScore

\* _merge_and_rank: what is fused, boosted, deduplicated and cut was in a channel.
LEMMA RankedHits ==
  ASSUME NEW q, NEW c, NEW I, ChannelsIn(c, I)
  PROVE  HitsIn(MergeAndRank(q, c), I)
  <1>1. PICK w1, w2, w3 : /\ w1 = (IF q.synthesis /\ ~q.contrast THEN 1150 ELSE 1000)
                          /\ w2 = (IF q.synthesis /\ ~q.contrast THEN 1200 ELSE 1000)
                          /\ w3 = (IF q.contrast THEN 1100 ELSE IF q.synthesis THEN 820 ELSE 1000)
    OBVIOUS
  <1>2. PICK all : all = Weighted(c.vector, w1) \o Normalised(c.fulltext) \o Weighted(c.graph, w2)
                         \o Weighted(c.lexical, w3) \o Weighted(c.chapters, 1250)
    BY ZenonT(60)
  <1>3. HitsIn(all, I)
    <2>1. HitsIn(Weighted(c.vector, w1), I) /\ HitsIn(Normalised(c.fulltext), I)
      BY WeightedHits, NormalisedHits DEF ChannelsIn
    <2>2. /\ HitsIn(Weighted(c.graph, w2), I) /\ HitsIn(Weighted(c.lexical, w3), I)
          /\ HitsIn(Weighted(c.chapters, 1250), I)
      BY WeightedHits DEF ChannelsIn
    <2>3. HitsIn(Weighted(c.vector, w1) \o Normalised(c.fulltext), I)
      BY <2>1, JoinedHits
    <2>4. HitsIn(Weighted(c.vector, w1) \o Normalised(c.fulltext) \o Weighted(c.graph, w2), I)
      BY <2>2, <2>3, JoinedHits
    <2>5. HitsIn(Weighted(c.vector, w1) \o Normalised(c.fulltext) \o Weighted(c.graph, w2)
                 \o Weighted(c.lexical, w3), I)
      BY <2>2, <2>4, JoinedHits
    <2>6. HitsIn(Weighted(c.vector, w1) \o Normalised(c.fulltext) \o Weighted(c.graph, w2)
                 \o Weighted(c.lexical, w3) \o Weighted(c.chapters, 1250), I)
      BY <2>2, <2>5, JoinedHits
    <2> QED
      BY <1>2, <2>6
  <1>4. PICK merged : merged = FoldLeft(Upsert, <<>>, all)
    OBVIOUS
  <1>5. HitsIn(merged, I)
    BY <1>3, <1>4, MergedHits
  <1>6. PICK boosted : boosted = [i \in DOMAIN merged |-> Boost(q, merged[i])]
    OBVIOUS
  <1>7. HitsIn(boosted, I)
    BY <1>5, <1>6, BoostedHits
  <1>8. MergeAndRank(q, c) = Prefix(ByScore(boosted), FetchLimit(q))
    BY <1>1, <1>2, <1>4, <1>6 DEF MergeAndRank
  <1>9. HitsIn(ByScore(boosted), I) /\ FetchLimit(q) \in Nat
    BY <1>7, ByScoreHits, FetchLimitIsNumber
  <1>10. HitsIn(Prefix(ByScore(boosted), FetchLimit(q)), I)
    BY <1>9, FirstHits
  <1> QED
    BY <1>8, <1>10

\* The second ranking keeps hits.
LEMMA RerankedHits ==
  ASSUME NEW s, NEW I, HitsIn(s, I), NEW c
  PROVE  HitsIn(Rerank(s, c), I)
  <1>1. PICK key : key = [i \in DOMAIN s |-> Fused(c, s[i].id)]
    OBVIOUS
  <1>2. Rerank(s, c) = s \/ Rerank(s, c) = Sorted(s, key)
    BY <1>1 DEF Rerank
  <1> QED
    BY <1>2, SortedHits

\* Pinned hits above the others.
LEMMA HitsAbove ==
  ASSUME NEW I, NEW p, HitsIn(p, I), NEW s, HitsIn(s, I), NEW n \in Nat
  PROVE  HitsIn(Above(p, s, n), I)
  <1>1. HitsIn(Once(p), I) /\ HitsIn(Without(s, Ids(p)), I)
    BY OnceHits, WithoutHits
  <1>2. HitsIn(Once(p) \o Without(s, Ids(p)), I)
    BY <1>1, JoinedHits
  <1> QED
    BY <1>2, FirstHits DEF Above

\* _pin_strong_vector_seeds.
LEMMA StrongVectorPinned ==
  ASSUME NEW I, NEW s, HitsIn(s, I), NEW v, HitsIn(v, I), NEW n \in Nat
  PROVE  HitsIn(PinStrongVector(s, v, n), I)
  <1>1. PICK ranked : ranked = Prefix(ByScore(v), 3)
    OBVIOUS
  <1>2. HitsIn(ranked, I)
    BY <1>1, ByScoreHits, FirstHits
  <1>3. PICK places : places = {i \in DOMAIN ranked: 100 * ranked[i].score >= 95 * ranked[1].score}
    OBVIOUS
  <1>4. PICK missing : missing = Without(Only(ranked, places), Ids(s))
    OBVIOUS
  <1>5. HitsIn(missing, I)
    BY <1>2, <1>3, <1>4, SomeHits, WithoutHits
  <1>6. HitsIn(missing \o s, I)
    BY <1>5, JoinedHits
  <1>7. PinStrongVector(s, v, n) = s \/ PinStrongVector(s, v, n) = Prefix(missing \o s, n)
    BY <1>1, <1>3, <1>4 DEF PinStrongVector
  <1> QED
    BY <1>6, <1>7, FirstHits

\* The first few of some hits, the shortest first, above the others.
LEMMA ShortestAbove ==
  ASSUME NEW I, NEW s, HitsIn(s, I), NEW said, HitsIn(said, I), NEW k \in Nat, NEW by, NEW n \in Nat
  PROVE  HitsIn(Above(Raised(Prefix(ShortestFirst(said), k), by), s, n), I)
  <1>1. HitsIn(ShortestFirst(said), I)
    BY SortedHits DEF ShortestFirst
  <1>2. HitsIn(Prefix(ShortestFirst(said), k), I)
    BY <1>1, FirstHits
  <1>3. HitsIn(Raised(Prefix(ShortestFirst(said), k), by), I)
    BY <1>2, RaisedHits
  <1> QED
    BY <1>3, HitsAbove

\* _pin_precision_lexical_chunks.
LEMMA PrecisionPinned ==
  ASSUME NEW q, NEW I, NEW s, HitsIn(s, I), NEW lexical, HitsIn(lexical, I), NEW n \in Nat
  PROVE  HitsIn(PinPrecision(q, s, lexical, n), I)
  <1>1. PICK places : places = {i \in DOMAIN lexical: q.precise \cap NodeAt(lexical[i].id).says # {}}
    OBVIOUS
  <1>2. PICK said : said = Only(lexical, places)
    OBVIOUS
  <1>3. HitsIn(said, I)
    BY <1>1, <1>2, SomeHits
  <1>4. \/ PinPrecision(q, s, lexical, n) = s
        \/ PinPrecision(q, s, lexical, n) = Above(Raised(Prefix(ShortestFirst(said), 3), 550), s, n)
    BY <1>1, <1>2 DEF PinPrecision
  <1> QED
    BY <1>3, <1>4, ShortestAbove

\* The pin of contrasting text.
LEMMA ContrastPinned ==
  ASSUME NEW q, NEW I, NEW s, HitsIn(s, I), NEW lexical, HitsIn(lexical, I), NEW n \in Nat
  PROVE  HitsIn(PinContrast(q, s, lexical, n), I)
  <1>1. PICK places : places = {i \in DOMAIN lexical:
                                  \A side \in q.sides: side \cap NodeAt(lexical[i].id).says # {}}
    OBVIOUS
  <1>2. PICK both : both = Only(lexical, places)
    OBVIOUS
  <1>3. HitsIn(both, I)
    BY <1>1, <1>2, SomeHits
  <1>4. \/ PinContrast(q, s, lexical, n) = s
        \/ PinContrast(q, s, lexical, n) = Above(Raised(Prefix(ShortestFirst(both), 2), 500), s, n)
    BY <1>1, <1>2 DEF PinContrast
  <1> QED
    BY <1>3, <1>4, ShortestAbove

\* The pin of firm-wide summaries.
LEMMA FirmwidePinned ==
  ASSUME NEW I, NEW s, HitsIn(s, I), NEW hits, HitsIn(hits, I), NEW n \in Nat
  PROVE  HitsIn(PinFirmwide(s, hits, n), I)
  <1>1. PICK ranked : ranked = FiguresFirst(hits, FALSE)
    OBVIOUS
  <1>2. HitsIn(ranked, I)
    <2>1. \E key : ranked = Sorted(hits, key)
      BY <1>1 DEF FiguresFirst
    <2> QED
      BY <2>1, SortedHits
  <1>3. HitsIn(Above(Raised(ranked, 10000), s, n), I)
    BY <1>2, RaisedHits, HitsAbove
  <1>4. PinFirmwide(s, hits, n) \in {s, Above(Raised(ranked, 10000), s, n)}
    BY <1>1 DEF PinFirmwide
  <1> QED
    BY <1>3, <1>4

\* The pin of scoping phrases, and that of quantities.
LEMMA ScopePinned ==
  ASSUME NEW I, NEW s, HitsIn(s, I), NEW hits, HitsIn(hits, I), NEW n \in Nat
  PROVE  HitsIn(PinScope(s, hits, n), I)
  <1>1. PICK ranked : ranked = FiguresFirst(hits, TRUE)
    OBVIOUS
  <1>2. HitsIn(ranked, I)
    <2>1. \E key : ranked = Sorted(hits, key)
      BY <1>1 DEF FiguresFirst
    <2> QED
      BY <2>1, SortedHits
  <1>3. HitsIn(Above(Raised(ranked, 10000), s, n), I)
    BY <1>2, RaisedHits, HitsAbove
  <1>4. PinScope(s, hits, n) \in {s, Above(Raised(ranked, 10000), s, n)}
    BY <1>1 DEF PinScope
  <1> QED
    BY <1>3, <1>4

\* The pin of the keyword leader.
LEMMA LeaderPinned ==
  ASSUME NEW I, NEW s, HitsIn(s, I), NEW keyword, HitsIn(keyword, I), NEW n \in Nat
  PROVE  HitsIn(PinKeywordLeader(s, keyword, n), I)
  <1>1. CASE keyword = <<>>
    BY <1>1 DEF PinKeywordLeader
  <1>2. CASE keyword # <<>>
    <2>1. 1 \in DOMAIN keyword
      <3>1. keyword \in Seq(ToSet(keyword)) /\ DOMAIN keyword = 1..Len(keyword)
        BY SequenceHolds DEF HitsIn
      <3>2. Len(keyword) \in Nat /\ Len(keyword) # 0
        BY <1>2, <3>1
      <3> QED
        BY <3>1, <3>2
    <2>2. PICK h : h = keyword[1]
      OBVIOUS
    <2>3. IsHit(h) /\ h.id \in I
      BY <2>1, <2>2, HitAt
    <2>4. HitsIn(Raised(<<h>>, 10000), I)
      BY <2>3, OneHit, RaisedHits
    <2>5. HitsIn(Above(Raised(<<h>>, 10000), s, n), I)
      BY <2>4, HitsAbove
    <2>6. \/ PinKeywordLeader(s, keyword, n) = s
          \/ PinKeywordLeader(s, keyword, n) = Above(Raised(<<h>>, 10000), s, n)
      BY <2>2 DEF PinKeywordLeader
    <2> QED
      BY <2>5, <2>6
  <1> QED
    BY <1>1, <1>2

\* All pins in their order.
LEMMA AllPinned ==
  ASSUME NEW q, NEW c, NEW I, ChannelsIn(c, I), NEW s, HitsIn(s, I), NEW n \in Nat
  PROVE  HitsIn(PinAll(q, c, s, n), I)
  <1>1. PICK precise : precise = PinPrecision(q, s, c.lexical, n)
    OBVIOUS
  <1>2. HitsIn(precise, I)
    BY <1>1, PrecisionPinned DEF ChannelsIn
  <1>3. PICK sides : sides = IF q.synthesis THEN PinContrast(q, precise, c.lexical, n) ELSE precise
    OBVIOUS
  <1>4. HitsIn(sides, I)
    BY <1>2, <1>3, ContrastPinned DEF ChannelsIn
  <1>5. PICK firm : firm = PinFirmwide(sides, c.summaries, n)
    OBVIOUS
  <1>6. HitsIn(firm, I)
    BY <1>4, <1>5, FirmwidePinned DEF ChannelsIn
  <1>7. PICK last : last = PinScope(PinScope(firm, c.scope, n), c.quantity, n)
    OBVIOUS
  <1>8. HitsIn(last, I)
    BY <1>6, <1>7, ScopePinned DEF ChannelsIn
  <1>9. PinAll(q, c, s, n) = LastPin(c, last, n)
    BY <1>1, <1>3, <1>5, <1>7 DEF PinAll
  <1> QED
    BY <1>8, <1>9, LeaderPinned DEF LastPin, ChannelsIn

\* Ranking, pins and cuts: the result was in a channel.
LEMMA PinnedHits ==
  ASSUME NEW q, NEW c, NEW I, ChannelsIn(c, I)
  PROVE  HitsIn(Pinned(q, c), I)
  <1>1. FetchLimit(q) \in Nat
    BY FetchLimitIsNumber
  <1>2. HitsIn(Rerank(MergeAndRank(q, c), c), I)
    BY RankedHits, RerankedHits
  <1>3. HitsIn(c.vector, I)
    BY DEF ChannelsIn
  <1>4. HitsIn(PinStrongVector(Rerank(MergeAndRank(q, c), c), c.vector, FetchLimit(q)), I)
    BY <1>1, <1>2, <1>3, StrongVectorPinned
  <1> QED
    BY <1>1, <1>4, AllPinned DEF Pinned

----------------------------------------------------------------------------
(* The channels hold hits on text of the scope, and nothing else.          *)

\* The document a search is aimed at is one of those it is confined to.
WellPlaced(doc, docs) == (doc = NoDoc /\ docs = {}) \/ (doc # NoDoc /\ doc \in docs)

\* The ids of the text of some documents that an asker may read.
ScopeIds(docs, asker) ==
  {n.id : n \in {x \in Nodes : /\ docs = {} \/ x.doc \in docs
                               /\ TenantOk(x, asker) /\ LanguageOk(x, asker)}}

\* What a read filtered by documents, tenant and language returns is of the scope.
LEMMA ReadableIsInScope ==
  ASSUME NEW now, NEW doc, NEW docs, WellPlaced(doc, docs), NEW asker, NEW d,
         d = docs \/ d = Scope(doc) \/ (doc # NoDoc /\ d = {doc}),
         NEW n \in Readable(now, d, asker)
  PROVE  n.id \in ScopeIds(docs, asker)
  <1>1. n \in Nodes /\ (d = {} \/ n.doc \in d) /\ TenantOk(n, asker) /\ LanguageOk(n, asker)
    BY DEF Readable
  <1>2. docs = {} \/ n.doc \in docs
    BY <1>1 DEF WellPlaced, Scope
  <1> QED
    BY <1>1, <1>2 DEF ScopeIds

\* The best of some text of the scope.
LEMMA BestInScope ==
  ASSUME NEW now, NEW doc, NEW docs, WellPlaced(doc, docs), NEW asker, NEW d,
         d = docs \/ d = Scope(doc) \/ (doc # NoDoc /\ d = {doc}),
         NEW T, T \subseteq Readable(now, d, asker), NEW n \in Nat, NEW key, NEW score
  PROVE  HitsIn(HitsOf(Best(n, T, key), score), ScopeIds(docs, asker))
  <1>1. T \subseteq Nodes
    BY DEF Readable
  <1>2. IsFiniteSet(T)
    BY <1>1, ChannelsAssumption, FS_Subset
  <1>3. \A x \in T : x.id \in ScopeIds(docs, asker)
    BY ReadableIsInScope
  <1> QED
    BY <1>2, <1>3, BestHits

\* How many rows a question asks for is a number.
LEMMA RowsAreNumber ==
  ASSUME NEW q
  PROVE  Rows(q) \in Nat
  BY Limits DEF Rows

\* The limits of the channels are numbers.
LEMMA ChannelLimits ==
  /\ SeedLimit \in Nat /\ FulltextLimit \in Nat /\ ScopeLimit \in Nat
  /\ QuantityLimit \in Nat /\ SiblingLimit \in Nat
  BY ChannelsAssumption

\* The four lexical searches stay in the scope.
LEMMA LexicalInScope ==
  ASSUME NEW q, NEW now, NEW doc, NEW docs, WellPlaced(doc, docs), NEW asker, NEW n \in Nat
  PROVE  /\ HitsIn(PhraseHits(q, now, docs, asker, n), ScopeIds(docs, asker))
         /\ HitsIn(KeywordHits(q, now, docs, asker, n), ScopeIds(docs, asker))
         /\ HitsIn(ScopeHits(q, now, doc, asker), ScopeIds(docs, asker))
         /\ HitsIn(QuantityHits(q, now, doc, asker), ScopeIds(docs, asker))
  <1>1. HitsIn(PhraseHits(q, now, docs, asker, n), ScopeIds(docs, asker))
    <2>1. PICK T : T = {x \in Readable(now, docs, asker) : Cardinality(q.phrases \cap x.says) > 0}
      OBVIOUS
    <2>2. \E key, score : PhraseHits(q, now, docs, asker, n) = HitsOf(Best(n, T, key), score)
      BY <2>1 DEF PhraseHits
    <2>3. T \subseteq Readable(now, docs, asker)
      BY <2>1
    <2> QED
      BY <2>2, <2>3, BestInScope
  <1>2. HitsIn(KeywordHits(q, now, docs, asker, n), ScopeIds(docs, asker))
    <2>1. PICK read : read = Readable(now, docs, asker)
      OBVIOUS
    <2>2. PICK T : T = {x \in read : Cardinality(Known(q, read) \cap x.says) >= 2}
      OBVIOUS
    <2>3. \/ KeywordHits(q, now, docs, asker, n) = <<>>
          \/ \E key, score : KeywordHits(q, now, docs, asker, n) = HitsOf(Best(n, T, key), score)
      BY <2>1, <2>2, ZenonT(60) DEF KeywordHits
    <2>4. T \subseteq Readable(now, docs, asker)
      BY <2>1, <2>2
    <2> QED
      BY <2>3, <2>4, BestInScope, NoHits
  <1>3. HitsIn(ScopeHits(q, now, doc, asker), ScopeIds(docs, asker))
    <2>1. PICK read : read = Readable(now, Scope(doc), asker)
      OBVIOUS
    <2>2. PICK T : T = {x \in read : Scoping(q, read) \cap x.says # {}}
      OBVIOUS
    <2>3. \E key, score : ScopeHits(q, now, doc, asker) = HitsOf(Best(ScopeLimit, T, key), score)
      BY <2>1, <2>2, ZenonT(60) DEF ScopeHits
    <2>4. T \subseteq Readable(now, Scope(doc), asker)
      BY <2>1, <2>2
    <2> QED
      BY <2>3, <2>4, BestInScope, ChannelLimits
  <1>4. HitsIn(QuantityHits(q, now, doc, asker), ScopeIds(docs, asker))
    <2>1. PICK read : read = Readable(now, Scope(doc), asker)
      OBVIOUS
    <2>2. PICK T : T = {x \in read : Cardinality(q.nouns \cap x.counts) > 0}
      OBVIOUS
    <2>3. \/ QuantityHits(q, now, doc, asker) = <<>>
          \/ \E key, score : QuantityHits(q, now, doc, asker) = HitsOf(Best(QuantityLimit, T, key), score)
      BY <2>1, <2>2 DEF QuantityHits
    <2>4. T \subseteq Readable(now, Scope(doc), asker)
      BY <2>1, <2>2
    <2> QED
      BY <2>3, <2>4, BestInScope, ChannelLimits, NoHits
  <1> QED
    BY <1>1, <1>2, <1>3, <1>4

\* The seeds, when the graph itself holds the vectors.
LEMMA SeedsInScope ==
  ASSUME Backend # "qdrant", NEW q, NEW now, NEW doc, NEW docs, WellPlaced(doc, docs), NEW asker,
         NEW n \in Nat, NEW up
  PROVE  HitsIn(VectorSeeds(q, now, doc, asker, n, up), ScopeIds(docs, asker))
  <1>1. PICK near : near = [x \in Embedded |-> Similarity[q.id][x.id]]
    OBVIOUS
  <1>2. PICK top : top = ToSet(Best(IndexLimit(n, doc), {x \in Embedded: x.doc \in now}, near))
    OBVIOUS
  <1>3. PICK T : T = top \cap Readable(now, Scope(doc), asker)
    OBVIOUS
  <1>4. \/ VectorSeeds(q, now, doc, asker, n, up) = <<>>
        \/ VectorSeeds(q, now, doc, asker, n, up) = HitsOf(Best(n, T, near), near)
    BY <1>1, <1>2, <1>3 DEF VectorSeeds, NativeSeeds
  <1>5. T \subseteq Readable(now, Scope(doc), asker)
    BY <1>3
  <1> QED
    BY <1>4, <1>5, BestInScope, NoHits

\* The full-text seeds, whose filters come after the index.
LEMMA FulltextInScope ==
  ASSUME NEW q, NEW now, NEW doc, NEW docs, WellPlaced(doc, docs), NEW asker
  PROVE  HitsIn(FulltextSeeds(q, now, doc, asker), ScopeIds(docs, asker))
  <1>1. PICK found : found = [x \in Nodes |-> 1000 * Cardinality(q.keywords \cap x.says)]
    OBVIOUS
  <1>2. PICK top : top = ToSet(Best(IndexLimit(FulltextLimit, doc),
                                    {x \in Nodes: x.doc \in now /\ found[x] > 0}, found))
    OBVIOUS
  <1>3. PICK T : T = top \cap Readable(now, Scope(doc), asker)
    OBVIOUS
  <1>4. FulltextSeeds(q, now, doc, asker) = HitsOf(Best(FulltextLimit, T, found), found)
    BY <1>1, <1>2, <1>3 DEF FulltextSeeds
  <1>5. T \subseteq Readable(now, Scope(doc), asker)
    BY <1>3
  <1> QED
    BY <1>4, <1>5, BestInScope, ChannelLimits

\* The summaries of one document.
LEMMA SummariesInScope ==
  ASSUME NEW now, NEW doc, NEW docs, WellPlaced(doc, docs), NEW asker, NEW topic
  PROVE  /\ HitsIn(ChapterSummaries(now, doc, asker), ScopeIds(docs, asker))
         /\ HitsIn(FinancialSummaries(now, doc, asker, topic), ScopeIds(docs, asker))
  <1>1. HitsIn(ChapterSummaries(now, doc, asker), ScopeIds(docs, asker))
    <2>1. PICK T : T = {n \in Readable(now, {doc}, asker): n.kind = "Chapter" /\ n.summary}
      OBVIOUS
    <2>2. PICK key, score : key = [n \in T |-> -n.order] /\ score = [n \in Nodes |-> 900]
      OBVIOUS
    <2>3. \/ ChapterSummaries(now, doc, asker) = <<>>
          \/ doc # NoDoc /\ ChapterSummaries(now, doc, asker) = HitsOf(Best(12, T, key), score)
      BY <2>1, <2>2 DEF ChapterSummaries, InOrder
    <2>4. T \subseteq Readable(now, {doc}, asker) /\ 12 \in Nat
      BY <2>1
    <2> QED
      BY <2>3, <2>4, BestInScope, NoHits
  <1>2. HitsIn(FinancialSummaries(now, doc, asker, topic), ScopeIds(docs, asker))
    <2>1. PICK T : T = {n \in Readable(now, {doc}, asker):
                          n.kind \in {"Section", "Chapter"} /\ topic \in n.says}
      OBVIOUS
    <2>2. PICK key, score : key = [n \in T |-> -n.order] /\ score = [n \in Nodes |-> 1000]
      OBVIOUS
    <2>3. \/ FinancialSummaries(now, doc, asker, topic) = <<>>
          \/ doc # NoDoc /\ FinancialSummaries(now, doc, asker, topic) = HitsOf(Best(5, T, key), score)
      BY <2>1, <2>2 DEF FinancialSummaries, InOrder
    <2>4. T \subseteq Readable(now, {doc}, asker) /\ 5 \in Nat
      BY <2>1
    <2> QED
      BY <2>3, <2>4, BestInScope, NoHits
  <1> QED
    BY <1>1, <1>2

\* The sections around the seeds.
AllBeside == {[id |-> e.to, weight |-> e.weight] : e \in Edges}
             \cup {[id |-> e.from, weight |-> e.weight] : e \in Edges}

\* The neighbours of a node, and all neighbours.
LEMMA BesideIsFinite ==
  IsFiniteSet(AllBeside) /\ \A id : Beside(id) \subseteq AllBeside
  <1>1. PICK f, g : /\ f = [e \in Edges |-> [id |-> e.to, weight |-> e.weight]]
                    /\ g = [e \in Edges |-> [id |-> e.from, weight |-> e.weight]]
    OBVIOUS
  <1>2. f = [e \in Edges |-> f[e]] /\ g = [e \in Edges |-> g[e]]
    BY <1>1
  <1>3. IsFiniteSet({f[e] : e \in Edges}) /\ IsFiniteSet({g[e] : e \in Edges})
    BY <1>2, ChannelsAssumption, ImageIsFinite
  <1>4. AllBeside = {f[e] : e \in Edges} \cup {g[e] : e \in Edges}
    BY <1>1 DEF AllBeside
  <1>5. IsFiniteSet(AllBeside)
    BY <1>3, <1>4, FS_Union
  <1>6. \A id : Beside(id) \subseteq AllBeside
    BY DEF Beside, AllBeside
  <1> QED
    BY <1>5, <1>6

\* A hit beside a seed, and all that one or two hops can make of some seeds.
Hop(s, b, decay) == [id |-> b.id, score |-> (s.score * decay * b.weight) \div 1000000]
Hops(S, decay) == {Hop(p[1], p[2], decay) : p \in S \X AllBeside}

\* One hop from finitely many hits yields finitely many.
LEMMA HopsAreFinite ==
  ASSUME NEW S, IsFiniteSet(S), NEW decay
  PROVE  IsFiniteSet(Hops(S, decay))
  <1>1. PICK f : f = [p \in S \X AllBeside |-> Hop(p[1], p[2], decay)]
    OBVIOUS
  <1>2. IsFiniteSet(S \X AllBeside)
    BY BesideIsFinite, FS_Product
  <1>3. f = [p \in S \X AllBeside |-> f[p]]
    BY <1>1
  <1>4. IsFiniteSet({f[p] : p \in S \X AllBeside})
    BY <1>2, <1>3, ImageIsFinite
  <1>5. Hops(S, decay) = {f[p] : p \in S \X AllBeside}
    BY <1>1 DEF Hops
  <1> QED
    BY <1>4, <1>5

\* The expansion in the graph leaves the documents, and is brought back by its filter.
LEMMA ExpandedInScope ==
  ASSUME NEW seeds, NEW I, HitsIn(seeds, I), NEW now, NEW doc, NEW docs, WellPlaced(doc, docs), NEW asker
  PROVE  HitsIn(Expanded(seeds, now, doc, asker), ScopeIds(docs, asker))
  <1>1. PICK read : read = Readable(now, Scope(doc), asker)
    OBVIOUS
  <1>2. PICK S : S = {s \in ToSet(seeds): \E n \in Readable(now, {}, asker):
                                            n.id = s.id /\ n.kind = "Section"}
    OBVIOUS
  <1> DEFINE one(s) == {Hop(s, b, 880) : b \in Beside(s.id)}
             two(s) == UNION {{Hop(s, b, 774) : b \in {x \in Beside(m.id): x.id # s.id}}: m \in Beside(s.id)}
  <1>3. PICK T : T = {h \in UNION {one(s) \cup two(s): s \in S}: \E n \in read: n.id = h.id}
    OBVIOUS
  <1>4. Expanded(seeds, now, doc, asker) = Unordered(T)
    BY <1>1, <1>2, <1>3, SMT DEF Expanded, Hop
  <1>5. IsFiniteSet(S)
    <2>1. IsSeq(seeds)
      BY DEF HitsIn
    <2>2. DOMAIN seeds = 1..Len(seeds) /\ Len(seeds) \in Nat
      BY <2>1, SequenceHolds DEF IsSeq
    <2>3. IsFiniteSet(DOMAIN seeds)
      BY <2>2, FS_Interval
    <2>4. ToSet(seeds) = {seeds[i] : i \in DOMAIN seeds} /\ seeds = [i \in DOMAIN seeds |-> seeds[i]]
      BY <2>1, <2>2 DEF ToSet, IsSeq
    <2>5. IsFiniteSet(ToSet(seeds))
      BY <2>3, <2>4, ImageIsFinite
    <2> QED
      BY <1>2, <2>5, FS_Subset
  <1>6. PICK A, B : A = Hops(S, 880) /\ B = Hops(S, 774)
    OBVIOUS
  <1>7. IsFiniteSet(A) /\ IsFiniteSet(B)
    BY <1>5, <1>6, HopsAreFinite
  <1>8. ASSUME NEW s \in S PROVE one(s) \subseteq A /\ two(s) \subseteq B
    <2>1. ASSUME NEW b \in AllBeside PROVE Hop(s, b, 880) \in A /\ Hop(s, b, 774) \in B
      <3>1. PICK p : p = <<s, b>>
        OBVIOUS
      <3>2. p \in S \X AllBeside /\ p[1] = s /\ p[2] = b
        BY <3>1
      <3> QED
        BY <1>6, <3>2 DEF Hops
    <2>2. \A id : Beside(id) \subseteq AllBeside
      BY BesideIsFinite
    <2> QED
      BY <2>1, <2>2
  <1>9. T \subseteq A \cup B
    BY <1>3, <1>8
  <1>10. IsFiniteSet(T)
    <2>1. IsFiniteSet(A \cup B)
      BY <1>7, FS_Union
    <2> QED
      BY <1>9, <2>1, FS_Subset
  <1>11. IsSeq(Unordered(T)) /\ ToSet(Unordered(T)) \subseteq T
    BY <1>10, UnorderedHolds
  <1>12. ASSUME NEW h \in T PROVE IsHit(h) /\ h.id \in ScopeIds(docs, asker)
    <2>1. PICK n \in read : n.id = h.id
      BY <1>3
    <2>2. h.id \in ScopeIds(docs, asker)
      BY <1>1, <2>1, ReadableIsInScope
    <2>3. h \in A \/ h \in B
      BY <1>9
    <2>4. IsHit(h)
      BY <1>6, <2>3, SMT DEF IsHit, Hop, Hops
    <2> QED
      BY <2>2, <2>4
  <1> QED
    BY <1>4, <1>11, <1>12 DEF HitsIn

\* Every channel stays in the scope, when the graph holds the vectors.
LEMMA ChannelsInScope ==
  ASSUME Backend # "qdrant", NEW q, NEW now, NEW doc, NEW docs, WellPlaced(doc, docs), NEW asker,
         NEW plain, NEW up
  PROVE  ChannelsIn(Channels(q, now, doc, docs, asker, plain, up), ScopeIds(docs, asker))
  <1>1. PICK seeds : seeds = IF plain THEN <<>> ELSE VectorSeeds(q, now, doc, asker, SeedLimit, up)
    OBVIOUS
  <1>2. PICK I : I = ScopeIds(docs, asker)
    OBVIOUS
  <1>3. HitsIn(seeds, I)
    <2>1. HitsIn(VectorSeeds(q, now, doc, asker, SeedLimit, up), I)
      BY <1>2, SeedsInScope, ChannelLimits
    <2> QED
      BY <1>1, <2>1, NoHits
  <1>4. PICK phrase, keyword, scope, quantity :
          /\ phrase = PhraseHits(q, now, docs, asker, Rows(q))
          /\ keyword = KeywordHits(q, now, docs, asker, Rows(q))
          /\ scope = ScopeHits(q, now, doc, asker)
          /\ quantity = QuantityHits(q, now, doc, asker)
    OBVIOUS
  <1>5. HitsIn(phrase, I) /\ HitsIn(keyword, I) /\ HitsIn(scope, I) /\ HitsIn(quantity, I)
    BY <1>2, <1>4, RowsAreNumber, LexicalInScope
  <1>6. HitsIn(MergeChunks(MergeChunks(MergeChunks(phrase, keyword), scope), quantity), I)
    <2>1. HitsIn(MergeChunks(phrase, keyword), I)
      BY <1>5, MergedChunks, Limits
    <2>2. HitsIn(MergeChunks(MergeChunks(phrase, keyword), scope), I)
      BY <1>5, <2>1, MergedChunks, Limits
    <2> QED
      BY <1>5, <2>2, MergedChunks, Limits
  <1>7. HitsIn(FulltextSeeds(q, now, doc, asker), I) /\ HitsIn(Expanded(seeds, now, doc, asker), I)
    BY <1>2, <1>3, FulltextInScope, ExpandedInScope
  <1>8. /\ HitsIn(ChapterSummaries(now, doc, asker), I)
        /\ HitsIn(FinancialSummaries(now, doc, asker, q.financial), I)
    BY <1>2, SummariesInScope
  <1>9. PICK chapters : chapters = IF q.overview THEN ChapterSummaries(now, doc, asker) ELSE <<>>
    OBVIOUS
  <1>10. HitsIn(chapters, I)
    BY <1>8, <1>9, NoHits
  <1>11. Channels(q, now, doc, docs, asker, plain, up) =
           Gathered(q, now, doc, asker, seeds, phrase, keyword, scope, quantity)
    BY <1>1, <1>4 DEF Channels
  <1>12. PICK c : c = Gathered(q, now, doc, asker, seeds, phrase, keyword, scope, quantity)
    OBVIOUS
  <1>13. /\ c.vector = seeds /\ c.fulltext = FulltextSeeds(q, now, doc, asker)
         /\ c.graph = Expanded(seeds, now, doc, asker) /\ c.keyword = keyword /\ c.scope = scope
         /\ c.quantity = quantity /\ c.chapters = chapters
         /\ c.lexical = MergeChunks(MergeChunks(MergeChunks(phrase, keyword), scope), quantity)
         /\ c.summaries = FinancialSummaries(now, doc, asker, q.financial)
    BY <1>9, <1>12 DEF Gathered
  <1>14. ChannelsIn(c, I)
    BY <1>3, <1>5, <1>6, <1>7, <1>8, <1>10, <1>13 DEF ChannelsIn
  <1> QED
    BY <1>2, <1>11, <1>12, <1>14

\* The other parts of a unit are in the documents its parts are in.
LEMMA UnitsInScope ==
  ASSUME NEW q, NEW items, NEW now, NEW docs, NEW asker, HitsIn(items, ScopeIds(docs, asker))
  PROVE  HitsIn(WithUnits(q, items, now, asker), ScopeIds(docs, asker))
  <1>2. PICK T : T = OtherParts(Ids(items), now, asker)
    OBVIOUS
  <1>3. \E key, score : UnitSiblings(Ids(items), now, asker) = HitsOf(Best(SiblingLimit, T, key), score)
    BY <1>2 DEF UnitSiblings
  <1>4. ASSUME NEW n \in T PROVE n.id \in ScopeIds(docs, asker)
    <2>1. PICK h \in Nodes : h.id \in Ids(items) /\ n.doc = h.doc
      BY <1>2 DEF OtherParts
    <2>2. h.id \in ScopeIds(docs, asker)
      BY <2>1 DEF HitsIn, Ids
    <2>3. PICK m \in Nodes : m.id = h.id /\ (docs = {} \/ m.doc \in docs)
      BY <2>2 DEF ScopeIds
    <2>4. m = h
      BY <2>1, <2>3, ChannelsAssumption
    <2>5. n \in Nodes /\ TenantOk(n, asker) /\ LanguageOk(n, asker)
      BY <1>2 DEF OtherParts
    <2> QED
      BY <2>1, <2>3, <2>4, <2>5 DEF ScopeIds
  <1>5. IsFiniteSet(T)
    <2>1. T \subseteq Nodes
      BY <1>2 DEF OtherParts
    <2> QED
      BY <2>1, ChannelsAssumption, FS_Subset
  <1>6. PICK siblings : siblings = UnitSiblings(Ids(items), now, asker)
    OBVIOUS
  <1>7. HitsIn(siblings, ScopeIds(docs, asker))
    BY <1>3, <1>4, <1>5, <1>6, BestHits, ChannelLimits
  <1>8. HitsIn(MergeChunks(items, siblings), ScopeIds(docs, asker))
    BY <1>7, MergedChunks, Limits
  <1>9. FetchLimit(q) + Len(siblings) \in Nat
    BY <1>7, FetchLimitIsNumber DEF HitsIn, IsSeq
  <1>10. HitsIn(Prefix(MergeChunks(items, siblings), FetchLimit(q) + Len(siblings)), ScopeIds(docs, asker))
    BY <1>8, <1>9, FirstHits
  <1> QED
    BY <1>6, <1>10 DEF WithUnits

----------------------------------------------------------------------------
(* The invariant.                                                          *)

RequestFields ==
  {"stage", "q", "asker", "hint", "plain", "structural", "doc", "docs", "evidence", "offered",
   "moved", "seen", "own"}
AtWork(r) == r.stage \notin {"idle", "answered", "failed"}

\* What a request may hold in its evidence: text of its scope, in whatever
\* language when it was read from the hierarchy, and markers.
PlacedIds(docs, asker) ==
  {n.id : n \in {x \in Nodes : (docs = {} \/ x.doc \in docs) /\ TenantOk(x, asker)}}
EvidenceIds(r) ==
  Markers \cup IF r.structural THEN PlacedIds(r.docs, r.asker) ELSE ScopeIds(r.docs, r.asker)

RequestOk(r) == AtWork(r) =>
  /\ DOMAIN r = RequestFields
  /\ \E a \in Asks : r.asker = a.asker
  /\ WellPlaced(r.doc, r.docs)
  /\ r.stage = "structure" => r.structural
  /\ Backend # "qdrant" /\ HasEvidence(r) => HitsIn(r.evidence, EvidenceIds(r))

EntryOk(e) ==
  /\ e.docs # <<>> /\ IsSeq(e.docs)
  /\ \A d \in ToSet(e.docs) : d \in Documents /\ LanguageOk(Doc[d], e.key) /\ TenantOk(Doc[d], e.key)
CacheOk == IsFiniteSet(cache) /\ Cardinality(cache) <= CacheLimit + 1 /\ \A e \in cache : EntryOk(e)

RetrievalInvariant ==
  /\ request = [t \in Threads |-> request[t]]
  /\ \A t \in Threads : RequestOk(request[t])
  /\ CacheOk

\* Past the first tier no document is spelled out; past them all the request
\* is placed in the one that is, unless an ingest or a delete of that very
\* document came between.
NameOk(r, now) ==
  AtWork(r) /\ VectorFirst /\ r.moved \cap Spelled(r.q) = {} =>
    LET exact == ExactReference(r.q, now, r.asker)
    IN /\ r.stage \in {"named", "thread", "cached", "vector", "resolve"} => exact = NoDoc
       /\ r.stage \in {"structure", "fetch", "count"} => exact \in {r.doc, NoDoc}
       /\ r.stage = "generate" => \/ exact \in {r.doc, NoDoc}
                                  \/ Ids(r.evidence) \cap {"access_denied", "underspecified"} # {}
NamesInvariant == \A t \in Threads : NameOk(request[t], corpus)

\* One request becomes r.
Becomes(t, r) == request' = [request EXCEPT ![t] = r]

\* When one request becomes a sound one, all stay sound.
LEMMA OneBecomes ==
  ASSUME request = [u \in Threads |-> request[u]], \A u \in Threads : RequestOk(request[u]),
         NEW t \in Threads, NEW r, RequestOk(r), Becomes(t, r)
  PROVE  /\ request' = [u \in Threads |-> request'[u]]
         /\ \A u \in Threads : RequestOk(request'[u])
  <1>1. request' = [u \in Threads |-> IF u = t THEN r ELSE request[u]]
    BY DEF Becomes
  <1> QED
    BY <1>1

\* A request goes on to a stage that has no evidence and no hierarchy to read.
LEMMA GoingOn ==
  ASSUME NEW r, RequestOk(r), AtWork(r), NEW stage, stage \notin {"structure", "count", "generate"}
  PROVE  RequestOk([r EXCEPT !.stage = stage])
  <1>1. PICK x : x = [r EXCEPT !.stage = stage]
    OBVIOUS
  <1>2. DOMAIN r = RequestFields
    BY DEF RequestOk
  <1>3. /\ DOMAIN x = RequestFields /\ x.stage = stage
        /\ x.asker = r.asker /\ x.doc = r.doc /\ x.docs = r.docs
    BY <1>1, <1>2 DEF RequestFields
  <1> QED
    BY <1>1, <1>3 DEF RequestOk, HasEvidence

\* A thread whose request goes on like that.
LEMMA GoesOn ==
  ASSUME request = [u \in Threads |-> request[u]], \A u \in Threads : RequestOk(request[u]),
         NEW t \in Threads, AtWork(request[t]), NEW stage, stage \notin {"structure", "count", "generate"},
         Goes(t, stage)
  PROVE  /\ request' = [u \in Threads |-> request'[u]]
         /\ \A u \in Threads : RequestOk(request'[u])
  <1>1. PICK r : r = request[t]
    OBVIOUS
  <1>2. RequestOk([r EXCEPT !.stage = stage])
    BY <1>1, GoingOn
  <1>3. Becomes(t, [r EXCEPT !.stage = stage])
    BY <1>1 DEF Goes, Becomes
  <1> QED
    BY <1>2, <1>3, OneBecomes

\* A request is placed in a document, or in all.
LEMMA Placing ==
  ASSUME NEW r, RequestOk(r), AtWork(r), NEW doc, NEW docs, WellPlaced(doc, docs)
  PROVE  RequestOk(Placed(r, doc, docs))
  <1>1. PICK stage : stage = IF r.structural THEN "structure" ELSE "fetch"
    OBVIOUS
  <1>2. PICK x : x = Placed(r, doc, docs)
    OBVIOUS
  <1>3. x = [r EXCEPT !.doc = doc, !.docs = docs, !.stage = stage]
    BY <1>1, <1>2 DEF Placed
  <1>4. DOMAIN r = RequestFields
    BY DEF RequestOk
  <1>5. /\ DOMAIN x = RequestFields /\ x.stage = stage /\ x.asker = r.asker
        /\ x.doc = doc /\ x.docs = docs /\ x.structural = r.structural
    BY <1>3, <1>4 DEF RequestFields
  <1>6. stage = "structure" => r.structural
    BY <1>1
  <1>7. ~HasEvidence(x) /\ (x.stage = "structure" => x.structural)
    BY <1>1, <1>5, <1>6 DEF HasEvidence
  <1> QED
    BY <1>2, <1>5, <1>7 DEF RequestOk

\* A thread whose request is placed.
LEMMA IsPlaced ==
  ASSUME request = [u \in Threads |-> request[u]], \A u \in Threads : RequestOk(request[u]),
         NEW t \in Threads, AtWork(request[t]), NEW doc, NEW docs, WellPlaced(doc, docs),
         request' = [request EXCEPT ![t] = Placed(@, doc, docs)]
  PROVE  /\ request' = [u \in Threads |-> request'[u]]
         /\ \A u \in Threads : RequestOk(request'[u])
  <1>1. PICK r : r = request[t]
    OBVIOUS
  <1>2. RequestOk(Placed(r, doc, docs))
    BY <1>1, Placing
  <1>3. Becomes(t, Placed(r, doc, docs))
    BY <1>1 DEF Becomes
  <1> QED
    BY <1>2, <1>3, OneBecomes

\* A marker is evidence whatever the request is placed in.
LEMMA MarkerIsEvidence ==
  ASSUME NEW id \in Markers, NEW r
  PROVE  HitsIn(Item(id), EvidenceIds(r))
  <1>1. PICK h : h = [id |-> id, score |-> 0]
    OBVIOUS
  <1>2. IsHit(h) /\ h.id \in EvidenceIds(r)
    BY <1>1 DEF IsHit, EvidenceIds
  <1>3. Item(id) = <<h>>
    BY <1>1 DEF Item
  <1> QED
    BY <1>2, <1>3, OneHit

----------------------------------------------------------------------------
(* The requests, one action after the other.                               *)

\* Only requests that are under way may be damaged.
RequestsOk == request = [t \in Threads |-> request[t]] /\ \A t \in Threads : RequestOk(request[t])

\* A request under way has its fields.
LEMMA WorkingRequest ==
  ASSUME RequestsOk, NEW t \in Threads, AtWork(request[t])
  PROVE  DOMAIN request[t] = RequestFields /\ RequestOk(request[t])
  BY DEF RequestsOk, RequestOk

\* A question begins without evidence.
LEMMA AskKeeps ==
  ASSUME RequestsOk, NEW t \in Threads, Ask(t)
  PROVE  RequestsOk'
  <1>1. PICK a \in Asks : request' = [request EXCEPT ![t] = Asked(a)]
    BY DEF Ask
  <1>2. PICK x : x = Asked(a)
    OBVIOUS
  <1>3. /\ DOMAIN x = RequestFields /\ x.stage = "asked" /\ x.asker = a.asker
        /\ x.doc = NoDoc /\ x.docs = {}
    BY <1>2 DEF Asked, RequestFields
  <1>4. RequestOk(x)
    BY <1>3 DEF RequestOk, WellPlaced, HasEvidence
  <1> QED
    BY <1>1, <1>2, <1>4, OneBecomes DEF RequestsOk, Becomes

\* A denied question has a marker for its evidence.
LEMMA DenyKeeps ==
  ASSUME RequestsOk, NEW t \in Threads, Deny(t)
  PROVE  RequestsOk'
  <1>1. PICK r : r = request[t]
    OBVIOUS
  <1>2. r.stage = "asked" /\ DOMAIN r = RequestFields /\ RequestOk(r)
    BY <1>1, WorkingRequest DEF Deny, AtWork
  <1>3. PICK x : x = [r EXCEPT !.stage = "generate", !.evidence = Item("access_denied")]
    OBVIOUS
  <1>4. /\ DOMAIN x = RequestFields /\ x.stage = "generate" /\ x.evidence = Item("access_denied")
        /\ x.asker = r.asker /\ x.doc = r.doc /\ x.docs = r.docs
    BY <1>2, <1>3 DEF RequestFields
  <1>5. HitsIn(x.evidence, EvidenceIds(x))
    BY <1>4, MarkerIsEvidence DEF Markers
  <1>6. RequestOk(x)
    BY <1>2, <1>4, <1>5 DEF RequestOk, AtWork
  <1>7. Becomes(t, x)
    BY <1>1, <1>3 DEF Deny, Becomes
  <1> QED
    BY <1>6, <1>7, OneBecomes DEF RequestsOk

\* Admission reads nothing.
LEMMA AdmitKeeps ==
  ASSUME RequestsOk, NEW t \in Threads, Admit(t)
  PROVE  RequestsOk'
  <1>1. AtWork(request[t])
    BY DEF Admit, AtWork
  <1>2. \E stage \in {"resolve", "gate", "exact"} : Goes(t, stage)
    BY DEF Admit
  <1> QED
    BY <1>1, <1>2, GoesOn DEF RequestsOk

\* The gate lets a question through, or offers documents beside a marker.
LEMMA GateKeeps ==
  ASSUME RequestsOk, NEW t \in Threads, Gate(t)
  PROVE  RequestsOk'
  <1>1. PICK r : r = request[t]
    OBVIOUS
  <1>2. r.stage = "gate" /\ DOMAIN r = RequestFields /\ RequestOk(r) /\ AtWork(r)
    BY <1>1, WorkingRequest DEF Gate, AtWork
  <1>3. CASE Goes(t, "exact")
    BY <1>1, <1>2, <1>3, GoesOn DEF RequestsOk
  <1>4. ASSUME NEW found,
               request' = [request EXCEPT ![t].stage = "generate", ![t].own = FirstDocs(found),
                                          ![t].offered = FirstDocs(found),
                                          ![t].evidence = Item("underspecified")]
        PROVE  RequestsOk'
    <2>1. PICK first : first = FirstDocs(found)
      OBVIOUS
    <2>3. PICK x : x = [r EXCEPT !.stage = "generate", !.own = first, !.offered = first,
                                 !.evidence = Item("underspecified")]
      OBVIOUS
    <2>4. /\ DOMAIN x = RequestFields /\ x.stage = "generate" /\ x.evidence = Item("underspecified")
          /\ x.asker = r.asker /\ x.doc = r.doc /\ x.docs = r.docs
      BY <1>2, <2>3 DEF RequestFields
    <2>5. HitsIn(x.evidence, EvidenceIds(x))
      BY <2>4, MarkerIsEvidence DEF Markers
    <2>6. RequestOk(x)
      BY <1>2, <2>4, <2>5 DEF RequestOk, AtWork
    <2>7. Becomes(t, x)
      BY <1>1, <1>4, <2>1, <2>3 DEF Becomes
    <2> QED
      BY <2>6, <2>7, OneBecomes DEF RequestsOk
  <1>5. Goes(t, "exact") \/ \E found : request' = [request EXCEPT ![t].stage = "generate",
                                          ![t].own = FirstDocs(found), ![t].offered = FirstDocs(found),
                                          ![t].evidence = Item("underspecified")]
    BY DEF Gate
  <1> QED
    BY <1>3, <1>4, <1>5

\* A spelled out document is the scope.
LEMMA ReferenceKeeps ==
  ASSUME RequestsOk, NEW t \in Threads, ScopeByReference(t)
  PROVE  RequestsOk'
  <1>1. AtWork(request[t])
    BY DEF ScopeByReference, AtWork
  <1>2. PICK d : d = ExactReference(request[t].q, corpus, request[t].asker)
    OBVIOUS
  <1>3. CASE Goes(t, "named")
    BY <1>1, <1>3, GoesOn DEF RequestsOk
  <1>4. CASE d # NoDoc /\ request' = [request EXCEPT ![t] = Placed(@, d, {d})]
    <2>1. WellPlaced(d, {d})
      BY <1>4 DEF WellPlaced
    <2> QED
      BY <1>1, <1>4, <2>1, IsPlaced DEF RequestsOk
  <1> QED
    BY <1>2, <1>3, <1>4 DEF ScopeByReference

\* A named document is the scope.
LEMMA NameKeeps ==
  ASSUME RequestsOk, NEW t \in Threads, ScopeByName(t)
  PROVE  RequestsOk'
  <1>1. AtWork(request[t])
    BY DEF ScopeByName, AtWork
  <1>2. PICK d : d = NamedDocument(request[t].q, NameIndex(NamesNow[1]), request[t].asker)
    OBVIOUS
  <1>3. CASE Goes(t, "thread")
    BY <1>1, <1>3, GoesOn DEF RequestsOk
  <1>4. CASE d # NoDoc /\ request' = [request EXCEPT ![t] = Placed(@, d, {d})]
    <2>1. WellPlaced(d, {d})
      BY <1>4 DEF WellPlaced
    <2> QED
      BY <1>1, <1>4, <2>1, IsPlaced DEF RequestsOk
  <1> QED
    BY <1>2, <1>3, <1>4 DEF ScopeByName

\* The document of the conversation is the scope.
LEMMA ThreadKeeps ==
  ASSUME RequestsOk, NEW t \in Threads, ScopeByThread(t)
  PROVE  RequestsOk'
  <1>1. AtWork(request[t])
    BY DEF ScopeByThread, AtWork
  <1>2. PICK d : d = request[t].hint
    OBVIOUS
  <1>3. CASE Goes(t, "cached")
    BY <1>1, <1>3, GoesOn DEF RequestsOk
  <1>4. CASE d # NoDoc /\ request' = [request EXCEPT ![t] = Placed(@, d, {d})]
    <2>1. WellPlaced(d, {d})
      BY <1>4 DEF WellPlaced
    <2> QED
      BY <1>1, <1>4, <2>1, IsPlaced DEF RequestsOk
  <1> QED
    BY <1>2, <1>3, <1>4 DEF ScopeByThread

\* The first of the documents of an entry is one of them.
LEMMA EntryPlaces ==
  ASSUME NEW docs, docs # <<>>, IsSeq(docs), \A d \in ToSet(docs) : d \in Documents
  PROVE  WellPlaced(Head(docs), ToSet(docs))
  <1>1. docs \in Seq(ToSet(docs)) /\ DOMAIN docs = 1..Len(docs) /\ Len(docs) \in Nat
    BY SequenceHolds DEF IsSeq
  <1>2. Len(docs) # 0
    BY <1>1
  <1>3. Head(docs) = docs[1] /\ 1 \in DOMAIN docs
    BY <1>1, <1>2
  <1>4. Head(docs) \in ToSet(docs)
    BY <1>3 DEF ToSet
  <1> QED
    BY <1>4, RetrievalAssumption DEF WellPlaced

\* The remembered documents are the scope, and the first of them the document.
LEMMA CachedScopeKeeps ==
  ASSUME RequestsOk, CacheOk, NEW t \in Threads, ScopeByCache(t)
  PROVE  RequestsOk'
  <1>1. AtWork(request[t])
    BY DEF ScopeByCache, AtWork
  <1>3. CASE Goes(t, "vector")
    BY <1>1, <1>3, GoesOn DEF RequestsOk
  <1>4. ASSUME NEW e \in cache, request' = [request EXCEPT ![t] = Placed(@, Head(e.docs), ToSet(e.docs))]
        PROVE  RequestsOk'
    <2>1. PICK docs : docs = e.docs
      OBVIOUS
    <2>2. docs # <<>> /\ IsSeq(docs) /\ \A d \in ToSet(docs) : d \in Documents
      BY <2>1 DEF CacheOk, EntryOk
    <2>3. WellPlaced(Head(docs), ToSet(docs))
      BY <2>2, EntryPlaces
    <2> QED
      BY <1>1, <1>4, <2>1, <2>3, IsPlaced DEF RequestsOk
  <1> QED
    BY <1>3, <1>4 DEF ScopeByCache

\* The document of the resolver is the scope, or there is none.
LEMMA ResolverKeeps ==
  ASSUME RequestsOk, NEW t \in Threads, ScopeByResolver(t)
  PROVE  RequestsOk'
  <1>1. AtWork(request[t])
    BY DEF ScopeByResolver, AtWork
  <1>2. PICK d : request' = [request EXCEPT ![t] = Placed(@, d, Scope(d))]
    BY DEF ScopeByResolver
  <1>3. WellPlaced(d, Scope(d))
    BY DEF WellPlaced, Scope
  <1> QED
    BY <1>1, <1>2, <1>3, IsPlaced DEF RequestsOk

\* What a request holds when it was collected in its scope.
LEMMA CollectedInScope ==
  ASSUME NEW r, NEW s, HitsIn(s, ScopeIds(r.docs, r.asker))
  PROVE  HitsIn(s, EvidenceIds(r))
  <1>1. ScopeIds(r.docs, r.asker) \subseteq PlacedIds(r.docs, r.asker)
    BY DEF ScopeIds, PlacedIds
  <1>2. ScopeIds(r.docs, r.asker) \subseteq EvidenceIds(r)
    BY <1>1 DEF EvidenceIds
  <1> QED
    BY <1>2, HitsInMore

\* The outline and the count are items of their own.
LEMMA OutlineIsMarker ==
  ASSUME NEW q, NEW now, NEW doc, NEW asker, NEW r
  PROVE  /\ HitsIn(Outline(now, doc, asker), EvidenceIds(r))
         /\ HitsIn(CountUnits(q, now, doc, asker), EvidenceIds(r))
  <1>1. PICK h : h = [id |-> "outline", score |-> 1000]
    BY ZenonT(60)
  <1>g. PICK g : g = [id |-> "graph_count", score |-> 1000]
    BY ZenonT(60)
  <1>2. IsHit(h) /\ h.id \in EvidenceIds(r) /\ IsHit(g) /\ g.id \in EvidenceIds(r)
    BY <1>1, <1>g DEF IsHit, EvidenceIds, Markers
  <1>3. Outline(now, doc, asker) \in {<<>>, <<h>>} /\ CountUnits(q, now, doc, asker) \in {<<>>, <<g>>}
    BY <1>1, <1>g DEF Outline, CountUnits
  <1> QED
    BY <1>2, <1>3, OneHit, NoHits

\* A place of a document, in whatever language it is.
LEMMA AddressIsPlaced ==
  ASSUME NEW q, NEW now, NEW doc, NEW docs, doc \in docs, NEW a \in Asks
  PROVE  HitsIn(ByAddress(q, now, doc, a.asker), PlacedIds(docs, a.asker))
  <1>1. PICK other : other = [a.asker EXCEPT !.language = DefaultLanguage]
    OBVIOUS
  <1>2. other.tenant = a.asker.tenant
    BY <1>1, RetrievalAssumption
  <1>3. PICK T : T = {n \in Readable(now, {doc}, other): q.address \in n.addresses}
    OBVIOUS
  <1>4. \E key, score : ByAddress(q, now, doc, a.asker) = HitsOf(Best(8, T, key), score)
    BY <1>1, <1>3 DEF ByAddress, InOrder
  <1>5. \A n \in T : n \in Nodes /\ n.id \in PlacedIds(docs, a.asker)
    BY <1>2, <1>3 DEF Readable, PlacedIds, TenantOk
  <1>6. IsFiniteSet(T)
    <2>1. T \subseteq Nodes
      BY <1>5
    <2> QED
      BY <2>1, ChannelsAssumption, FS_Subset
  <1>7. 8 \in Nat
    OBVIOUS
  <1> QED
    BY <1>4, <1>5, <1>6, <1>7, BestHits

\* The hierarchy of the document is read, or the question is scoped again without one.
LEMMA StructureKeeps ==
  ASSUME RequestsOk, NEW t \in Threads, ReadStructure(t)
  PROVE  RequestsOk'
  <1>1. PICK r : r = request[t]
    OBVIOUS
  <1>2. r.stage = "structure" /\ DOMAIN r = RequestFields /\ RequestOk(r) /\ AtWork(r)
    BY <1>1, WorkingRequest DEF ReadStructure, AtWork
  <1>3. PICK items : items = IF r.docs = {} THEN <<>>
                             ELSE IF Exhaustive(r.q) THEN Outline(corpus, r.doc, r.asker)
                             ELSE ByAddress(r.q, corpus, r.doc, r.asker)
    OBVIOUS
  <1>4. CASE Becomes(t, [r EXCEPT !.structural = FALSE, !.doc = NoDoc, !.docs = {}, !.stage = "exact"])
    <2>1. PICK x : x = [r EXCEPT !.structural = FALSE, !.doc = NoDoc, !.docs = {}, !.stage = "exact"]
      OBVIOUS
    <2>2. /\ DOMAIN x = RequestFields /\ x.stage = "exact" /\ x.asker = r.asker
          /\ x.doc = NoDoc /\ x.docs = {}
      BY <1>2, <2>1 DEF RequestFields
    <2>3. RequestOk(x)
      BY <1>2, <2>2 DEF RequestOk, WellPlaced, HasEvidence
    <2> QED
      BY <1>4, <2>1, <2>3, OneBecomes DEF RequestsOk
  <1>5. ASSUME NEW evidence, evidence = items \/ evidence = Item("graph_outline"),
               Becomes(t, [r EXCEPT !.stage = "generate", !.seen = corpus, !.evidence = evidence])
        PROVE  RequestsOk'
    <2>1. PICK x : x = [r EXCEPT !.stage = "generate", !.seen = corpus, !.evidence = evidence]
      OBVIOUS
    <2>2. /\ DOMAIN x = RequestFields /\ x.stage = "generate" /\ x.asker = r.asker
          /\ x.doc = r.doc /\ x.docs = r.docs /\ x.structural = r.structural /\ x.evidence = evidence
      BY <1>2, <2>1 DEF RequestFields
    <2>3. HitsIn(items, EvidenceIds(x))
      <3>1. CASE r.docs = {}
        BY <1>3, <3>1, NoHits
      <3>2. CASE r.docs # {} /\ Exhaustive(r.q)
        BY <1>3, <3>2, OutlineIsMarker
      <3>3. CASE r.docs # {} /\ ~Exhaustive(r.q)
        <4>1. r.doc \in r.docs /\ r.structural
          BY <1>2, <3>3 DEF RequestOk, WellPlaced
        <4>2. PICK a \in Asks : r.asker = a.asker
          BY <1>2 DEF RequestOk
        <4>3. HitsIn(ByAddress(r.q, corpus, r.doc, r.asker), PlacedIds(r.docs, r.asker))
          BY <4>1, <4>2, AddressIsPlaced
        <4>4. PlacedIds(r.docs, r.asker) \subseteq EvidenceIds(x)
          BY <2>2, <4>1 DEF EvidenceIds
        <4> QED
          BY <1>3, <3>3, <4>3, <4>4, HitsInMore
      <3> QED
        BY <3>1, <3>2, <3>3
    <2>4. HitsIn(evidence, EvidenceIds(x))
      BY <1>5, <2>3, MarkerIsEvidence DEF Markers
    <2>5. RequestOk(x)
      BY <1>2, <2>2, <2>4 DEF RequestOk
    <2> QED
      BY <1>5, <2>1, <2>5, OneBecomes DEF RequestsOk
  <1>6. \/ Becomes(t, [r EXCEPT !.structural = FALSE, !.doc = NoDoc, !.docs = {}, !.stage = "exact"])
        \/ \E evidence : /\ evidence = items \/ evidence = Item("graph_outline")
                         /\ Becomes(t, [r EXCEPT !.stage = "generate", !.seen = corpus, !.evidence = evidence])
    <2>1. PICK verbatim : verbatim = IF Exhaustive(r.q) /\ r.q.headings THEN Item("graph_outline") ELSE items
      OBVIOUS
    <2>2. request' = [request EXCEPT ![t] =
            IF items = <<>>
            THEN [r EXCEPT !.structural = FALSE, !.doc = NoDoc, !.docs = {}, !.stage = "exact"]
            ELSE [r EXCEPT !.stage = "generate", !.seen = corpus, !.evidence = verbatim]]
      BY <1>1, <1>3, <2>1 DEF ReadStructure
    <2> QED
      BY <2>1, <2>2 DEF Becomes
  <1> QED
    BY <1>4, <1>5, <1>6

\* The evidence that is fetched was in a channel, or is another part of a unit that was.
LEMMA FetchKeeps ==
  ASSUME RequestsOk, NEW t \in Threads, Fetch(t)
  PROVE  RequestsOk'
  <1>1. PICK r : r = request[t]
    OBVIOUS
  <1>2. r.stage = "fetch" /\ DOMAIN r = RequestFields /\ RequestOk(r) /\ AtWork(r)
    BY <1>1, WorkingRequest DEF Fetch, AtWork
  <1>3. PICK stage : stage = IF VectorFirst /\ Shape(r.q) = "aggregation" /\ r.doc # NoDoc
                             THEN "count" ELSE "generate"
    OBVIOUS
  <1>4. PICK offered : offered = IF Doubtful(verdict[t]) THEN verdict[t].candidates ELSE <<>>
    OBVIOUS
  <1>a. PICK up \in StoreStates : \E c \in {Channels(r.q, corpus, r.doc, r.docs, r.asker, r.plain, up)} :
          request' = [request EXCEPT ![t] =
            [r EXCEPT !.stage = stage, !.seen = corpus,
                      !.evidence = WithUnits(r.q, Pinned(r.q, c), corpus, r.asker), !.offered = offered]]
    BY <1>1, <1>3, <1>4, ZenonT(60) DEF Fetch
  <1>b. PICK c : c = Channels(r.q, corpus, r.doc, r.docs, r.asker, r.plain, up)
    OBVIOUS
  <1>c. PICK evidence : evidence = WithUnits(r.q, Pinned(r.q, c), corpus, r.asker)
    OBVIOUS
  <1>5. Becomes(t, [r EXCEPT !.stage = stage, !.seen = corpus, !.evidence = evidence, !.offered = offered])
    BY <1>a, <1>b, <1>c DEF Becomes
  <1>6. PICK x : x = [r EXCEPT !.stage = stage, !.seen = corpus, !.evidence = evidence, !.offered = offered]
    OBVIOUS
  <1>7. /\ DOMAIN x = RequestFields /\ x.stage = stage /\ x.asker = r.asker /\ x.evidence = evidence
        /\ x.doc = r.doc /\ x.docs = r.docs
    BY <1>2, <1>6 DEF RequestFields
  <1>8. ASSUME Backend # "qdrant" PROVE HitsIn(evidence, EvidenceIds(x))
    <2>1. WellPlaced(r.doc, r.docs)
      BY <1>2 DEF RequestOk
    <2>2. ChannelsIn(c, ScopeIds(r.docs, r.asker))
      BY <1>b, <1>8, <2>1, ChannelsInScope
    <2>3. HitsIn(Pinned(r.q, c), ScopeIds(r.docs, r.asker))
      BY <2>2, PinnedHits
    <2>4. HitsIn(evidence, ScopeIds(r.docs, r.asker))
      BY <1>c, <2>3, UnitsInScope
    <2>5. HitsIn(evidence, ScopeIds(x.docs, x.asker))
      BY <1>7, <2>4
    <2> QED
      BY <2>5, CollectedInScope
  <1>9. RequestOk(x)
    BY <1>2, <1>3, <1>7, <1>8 DEF RequestOk
  <1> QED
    BY <1>5, <1>6, <1>9, OneBecomes DEF RequestsOk

\* A count takes the place of the evidence, or the outline goes before it.
LEMMA CountKeeps ==
  ASSUME RequestsOk, NEW t \in Threads, Count(t)
  PROVE  RequestsOk'
  <1>1. PICK r : r = request[t]
    OBVIOUS
  <1>2. r.stage = "count" /\ DOMAIN r = RequestFields /\ RequestOk(r) /\ AtWork(r)
    BY <1>1, WorkingRequest DEF Count, AtWork
  <1>3. PICK counted, outline : /\ counted = CountUnits(r.q, corpus, r.doc, r.asker)
                                /\ outline = Outline(corpus, r.doc, r.asker)
    OBVIOUS
  <1>4. PICK evidence : evidence = IF counted # <<>> THEN counted ELSE outline \o r.evidence
    OBVIOUS
  <1>5. PICK x : x = [r EXCEPT !.stage = "generate", !.evidence = evidence]
    OBVIOUS
  <1>6. Becomes(t, x)
    BY <1>1, <1>2, <1>3, <1>4, <1>5 DEF Count, Becomes, RequestsOk, RequestFields
  <1>7. /\ DOMAIN x = RequestFields /\ x.stage = "generate" /\ x.asker = r.asker /\ x.evidence = evidence
        /\ x.doc = r.doc /\ x.docs = r.docs /\ x.structural = r.structural
    BY <1>2, <1>5 DEF RequestFields
  <1>8. ASSUME Backend # "qdrant" PROVE HitsIn(evidence, EvidenceIds(x))
    <2>1. HitsIn(counted, EvidenceIds(x)) /\ HitsIn(outline, EvidenceIds(x))
      BY <1>3, OutlineIsMarker
    <2>2. HitsIn(r.evidence, EvidenceIds(r))
      BY <1>2, <1>8 DEF RequestOk, HasEvidence
    <2>3. EvidenceIds(x) = EvidenceIds(r)
      BY <1>7 DEF EvidenceIds
    <2>4. HitsIn(outline \o r.evidence, EvidenceIds(x))
      BY <2>1, <2>2, <2>3, JoinedHits
    <2> QED
      BY <1>4, <2>1, <2>4
  <1>9. RequestOk(x)
    BY <1>2, <1>7, <1>8 DEF RequestOk
  <1> QED
    BY <1>6, <1>9, OneBecomes DEF RequestsOk

\* A request that ends holds nothing any more.
LEMMA EndKeeps ==
  ASSUME RequestsOk, NEW t \in Threads, EmbeddingFails(t) \/ Generate(t)
  PROVE  RequestsOk'
  <1>1. CASE EmbeddingFails(t)
    <2>1. PICK x : x = [Idle EXCEPT !.stage = "failed"]
      OBVIOUS
    <2>2. x.stage = "failed"
      BY <2>1 DEF Idle
    <2>3. RequestOk(x)
      BY <2>2 DEF RequestOk, AtWork
    <2>4. Becomes(t, x)
      BY <1>1, <2>1 DEF EmbeddingFails, Becomes
    <2> QED
      BY <2>3, <2>4, OneBecomes DEF RequestsOk
  <1>2. CASE Generate(t)
    <2>1. PICK answer, offered : Becomes(t, [stage |-> "answered", answer |-> answer, offered |-> offered])
      BY <1>2 DEF Generate, Becomes
    <2>2. RequestOk([stage |-> "answered", answer |-> answer, offered |-> offered])
      BY DEF RequestOk, AtWork
    <2> QED
      BY <2>1, <2>2, OneBecomes DEF RequestsOk
  <1> QED
    BY <1>1, <1>2

\* An ingest or a delete touches no evidence.
LEMMA ChangeKeeps ==
  ASSUME RequestsOk, CorpusChanges
  PROVE  RequestsOk'
  <1>1. PICK d \in Changing : request' = [t \in Threads |->
            IF t \in Working THEN [request[t] EXCEPT !.moved = @ \cup {d}] ELSE request[t]]
    BY DEF CorpusChanges
  <1>2. ASSUME NEW t \in Threads PROVE RequestOk(request'[t])
    <2>1. CASE t \notin Working
      BY <1>1, <2>1 DEF RequestsOk
    <2>2. CASE t \in Working
      <3>1. PICK r, x : r = request[t] /\ x = [r EXCEPT !.moved = @ \cup {d}]
        OBVIOUS
      <3>2. DOMAIN r = RequestFields /\ RequestOk(r) /\ AtWork(r)
        BY <2>2, <3>1, WorkingRequest DEF Working, AtWork
      <3>3. /\ DOMAIN x = RequestFields /\ x.stage = r.stage /\ x.asker = r.asker /\ x.evidence = r.evidence
            /\ x.doc = r.doc /\ x.docs = r.docs /\ x.structural = r.structural
        BY <3>1, <3>2 DEF RequestFields
      <3>4. EvidenceIds(x) = EvidenceIds(r)
        BY <3>3 DEF EvidenceIds
      <3>5. RequestOk(x)
        BY <3>2, <3>3, <3>4 DEF RequestOk, HasEvidence, AtWork
      <3> QED
        BY <1>1, <2>2, <3>1, <3>5
    <2> QED
      BY <2>1, <2>2
  <1>3. request' = [t \in Threads |-> request'[t]]
    BY <1>1
  <1> QED
    BY <1>2, <1>3 DEF RequestsOk

----------------------------------------------------------------------------
(* The candidate documents, and the cache.                                 *)

\* The documents of the nearest text that pass the probe's filters.
ProbedDocs(now, asker) ==
  {n.doc : n \in {x \in Embedded : /\ x.doc \in now
                                   /\ asker.tenant # "" => TenantOk(x, asker)
                                   /\ LanguageOk(x, asker)}}

\* The scores relative to the best, for documents among those ranked.
LEMMA RelativeHolds ==
  ASSUME NEW ranked, IsSeq(ranked), NEW D, \A x \in ToSet(ranked) : x.doc \in D
  PROVE  IsSeq(Relative(ranked)) /\ \A i \in DOMAIN Relative(ranked) : Relative(ranked)[i].doc \in D
  <1>1. PICK places : places = {i \in DOMAIN ranked: 100 * ranked[i].score >= 15 * ranked[1].score}
    OBVIOUS
  <1>2. PICK likely : likely = Only(ranked, places)
    OBVIOUS
  <1>3. IsSeq(likely) /\ ToSet(likely) \subseteq {ranked[i] : i \in places}
    BY <1>1, <1>2, OnlyHolds
  <1>4. PICK m : m = Relative(ranked)
    OBVIOUS
  <1>5. m = [i \in DOMAIN likely |->
               [doc |-> likely[i].doc, relative |-> (100 * likely[i].score) \div ranked[1].score]]
    BY <1>1, <1>2, <1>4, SMT DEF Relative
  <1>6. IsSeq(m) /\ DOMAIN m = DOMAIN likely
    <2>1. m = [i \in DOMAIN likely |-> m[i]] /\ DOMAIN m = DOMAIN likely
      BY <1>5, SMT
    <2> QED
      BY <1>3, <2>1, MapIsSequence
  <1>7. ASSUME NEW i \in DOMAIN likely PROVE m[i].doc \in D
    <2>1. likely[i] \in ToSet(ranked)
      BY <1>1, <1>3 DEF ToSet
    <2>2. m[i].doc = likely[i].doc
      BY <1>5, SMT
    <2> QED
      BY <2>1, <2>2
  <1> QED
    BY <1>4, <1>6, <1>7

\* Candidate documents are documents of the hits.
LEMMA DocumentsOfHold ==
  ASSUME NEW hits, IsSeq(hits), NEW D, \A x \in ToSet(hits) : x.doc \in D
  PROVE  /\ IsSeq(DocumentsOf(hits))
         /\ \A i \in DOMAIN DocumentsOf(hits) : DocumentsOf(hits)[i].doc \in D
  <1>1. PICK S : S = {hits[i].doc: i \in DOMAIN hits}
    OBVIOUS
  <1>2. PICK T : T = {[doc |-> d, score |-> ChunkScore({i \in DOMAIN hits: hits[i].doc = d})]: d \in S}
    OBVIOUS
  <1>3. IsFiniteSet(T)
    <2>1. IsFiniteSet(DOMAIN hits)
      <3>1. DOMAIN hits = 1..Len(hits) /\ Len(hits) \in Nat
        BY SequenceHolds DEF IsSeq
      <3> QED
        BY <3>1, FS_Interval
    <2>2. PICK f : f = [i \in DOMAIN hits |-> hits[i].doc]
      OBVIOUS
    <2>3. f = [i \in DOMAIN hits |-> f[i]] /\ S = {f[i] : i \in DOMAIN hits}
      BY <1>1, <2>2
    <2>4. IsFiniteSet(S)
      BY <2>1, <2>3, ImageIsFinite
    <2>5. PICK g : g = [d \in S |-> [doc |-> d, score |-> ChunkScore({i \in DOMAIN hits: hits[i].doc = d})]]
      OBVIOUS
    <2>6. g = [d \in S |-> g[d]] /\ T = {g[d] : d \in S}
      BY <1>2, <2>5
    <2> QED
      BY <2>4, <2>6, ImageIsFinite
  <1>4. PICK key : key = [x \in T |-> x.score]
    OBVIOUS
  <1>5. PICK ranked : ranked = Best(CandidateLimit, T, key)
    OBVIOUS
  <1>6. IsSeq(ranked) /\ ToSet(ranked) \subseteq T
    BY <1>3, <1>5, BestHolds, RetrievalAssumption
  <1>7. ASSUME NEW x \in ToSet(ranked) PROVE x.doc \in D
    <2>0. x \in T
      BY <1>6
    <2>1. PICK d \in S : x = [doc |-> d, score |-> ChunkScore({i \in DOMAIN hits: hits[i].doc = d})]
      BY <1>2, <2>0
    <2>4. x.doc = d
      BY <2>1
    <2>2. PICK i \in DOMAIN hits : hits[i].doc = d
      BY <1>1
    <2>3. hits[i] \in ToSet(hits)
      BY DEF ToSet
    <2> QED
      BY <2>4, <2>2, <2>3
  <1>8. DocumentsOf(hits) = <<>> \/ DocumentsOf(hits) = Relative(ranked)
    BY <1>1, <1>2, <1>4, <1>5 DEF DocumentsOf
  <1>9. CASE DocumentsOf(hits) = <<>>
    <2>1. PICK e : e = <<>>
      OBVIOUS
    <2>2. IsSeq(e) /\ DOMAIN e = {}
      BY <2>1, NoItem
    <2> QED
      BY <1>9, <2>1, <2>2
  <1>10. CASE DocumentsOf(hits) = Relative(ranked)
    BY <1>6, <1>7, <1>10, RelativeHolds
  <1> QED
    BY <1>8, <1>9, <1>10

\* Candidate documents own text that passed the filters of the probe.
LEMMA CandidatesAreProbed ==
  ASSUME NEW q, NEW now, NEW asker, NEW up
  PROVE  LET found == Candidates(q, now, asker, up)
         IN IsSeq(found) /\ \A i \in DOMAIN found : found[i].doc \in ProbedDocs(now, asker)
  <1>1. PICK S : S = {n \in Embedded: /\ n.doc \in now
                                      /\ asker.tenant # "" => TenantOk(n, asker)
                                      /\ LanguageOk(n, asker)}
    OBVIOUS
  <1>2. PICK T : T = {[doc |-> n.doc, id |-> n.id, near |-> Similarity[q.id][n.id]]: n \in S}
    OBVIOUS
  <1>3. IsFiniteSet(T)
    <2>1. S \subseteq Nodes
      BY <1>1 DEF Embedded
    <2>2. IsFiniteSet(S)
      BY <2>1, ChannelsAssumption, FS_Subset
    <2>3. PICK f : f = [n \in S |-> [doc |-> n.doc, id |-> n.id, near |-> Similarity[q.id][n.id]]]
      OBVIOUS
    <2>4. f = [n \in S |-> f[n]] /\ T = {f[n] : n \in S}
      BY <1>2, <2>3
    <2> QED
      BY <2>2, <2>4, ImageIsFinite
  <1>4. PICK key : key = [h \in T |-> h.near]
    OBVIOUS
  <1>5. PICK hits : hits = Best(ProbeSize, T, key)
    OBVIOUS
  <1>6. IsSeq(hits) /\ ToSet(hits) \subseteq T
    BY <1>3, <1>5, BestHolds, RetrievalAssumption
  <1>7. ASSUME NEW x \in ToSet(hits) PROVE x.doc \in ProbedDocs(now, asker)
    <2>1. PICK n \in S : x.doc = n.doc
      BY <1>2, <1>6
    <2> QED
      BY <1>1, <2>1 DEF ProbedDocs
  <1>8. Candidates(q, now, asker, up) = <<>> \/ Candidates(q, now, asker, up) = DocumentsOf(hits)
    BY <1>1, <1>2, <1>4, <1>5 DEF Candidates
  <1>9. CASE Candidates(q, now, asker, up) = <<>>
    <2>1. PICK e : e = <<>>
      OBVIOUS
    <2>2. IsSeq(e) /\ DOMAIN e = {}
      BY <2>1, NoItem
    <2> QED
      BY <1>9, <2>1, <2>2
  <1>10. CASE Candidates(q, now, asker, up) = DocumentsOf(hits)
    BY <1>6, <1>7, <1>10, DocumentsOfHold
  <1> QED
    BY <1>8, <1>9, <1>10

\* The documents of the candidates, as an entry for the request's own key.
LEMMA CandidatesMakeAnEntry ==
  ASSUME NEW r, NEW a \in Asks, r.asker = a.asker, NEW now, NEW up, NEW found,
         found = Candidates(r.q, now, r.asker, up), found # <<>>
  PROVE  EntryOk([key |-> CacheKey(r), docs |-> DocsOf(found)])
  <1>1. IsSeq(found) /\ \A i \in DOMAIN found : found[i].doc \in ProbedDocs(now, r.asker)
    BY CandidatesAreProbed
  <1>2. PICK docs : docs = DocsOf(found)
    OBVIOUS
  <1>3. docs = [i \in DOMAIN found |-> found[i].doc]
    BY <1>2 DEF DocsOf
  <1>4. IsSeq(docs) /\ Len(docs) = Len(found) /\ ToSet(docs) = {docs[i] : i \in DOMAIN found}
    <2>1. docs = [i \in DOMAIN found |-> docs[i]]
      BY <1>3
    <2> QED
      BY <1>1, <2>1, MapIsSequence
  <1>5. docs # <<>>
    <2>1. found \in Seq(ToSet(found)) /\ docs \in Seq(ToSet(docs))
      BY <1>1, <1>4, SequenceHolds
    <2>2. Len(found) # 0
      BY <2>1
    <2> QED
      BY <1>4, <2>2
  <1>6. PICK key : key = CacheKey(r)
    OBVIOUS
  <1>7. key.tenant = r.asker.tenant /\ key.language = r.asker.language /\ r.asker.tenant # ""
    BY <1>6, RetrievalAssumption DEF CacheKey
  <1>8. ASSUME NEW d \in ProbedDocs(now, r.asker)
        PROVE  d \in Documents /\ LanguageOk(Doc[d], key) /\ TenantOk(Doc[d], key)
    <2>1. PICK n \in Embedded : d = n.doc /\ TenantOk(n, r.asker) /\ LanguageOk(n, r.asker)
      BY <1>7 DEF ProbedDocs
    <2>2. n \in Nodes
      BY DEF Embedded
    <2>3. d \in Documents /\ n.tenant = Doc[d].tenant /\ n.language = Doc[d].language
      BY <2>1, <2>2, RetrievalAssumption
    <2> QED
      BY <1>7, <2>1, <2>3 DEF TenantOk, LanguageOk
  <1>9. \A d \in ToSet(docs) : d \in ProbedDocs(now, r.asker)
    BY <1>1, <1>3, <1>4
  <1>10. PICK e : e = [key |-> key, docs |-> docs]
    OBVIOUS
  <1>11. e.key = key /\ e.docs = docs
    BY <1>10
  <1> QED
    BY <1>2, <1>4, <1>5, <1>6, <1>8, <1>9, <1>10, <1>11 DEF EntryOk

\* The candidates are the scope and are remembered under the key of tenant, language and words.
LEMMA VectorKeeps ==
  ASSUME RequestsOk, CacheOk, NEW t \in Threads, ScopeByVector(t)
  PROVE  RequestsOk' /\ CacheOk'
  <1>1. PICK r : r = request[t]
    OBVIOUS
  <1>2. r.stage = "vector" /\ DOMAIN r = RequestFields /\ RequestOk(r) /\ AtWork(r)
    BY <1>1, WorkingRequest DEF ScopeByVector, AtWork
  <1>u. PICK up \in StoreStates : \E found \in {Candidates(r.q, corpus, r.asker, up)} :
          IF found = <<>>
          THEN Goes(t, "resolve") /\ UNCHANGED <<cache, verdict>>
          ELSE /\ verdict' = [verdict EXCEPT ![t] = VerdictOn(r.q, found)]
               /\ cache' = Remembered(CacheKey(r), DocsOf(found))
               /\ request' = [request EXCEPT ![t] = ScopedTo(r, DocsOf(found), FirstDocs(found))]
    BY <1>1 DEF ScopeByVector
  <1>3. PICK found \in {Candidates(r.q, corpus, r.asker, up)} :
          IF found = <<>>
          THEN Goes(t, "resolve") /\ UNCHANGED <<cache, verdict>>
          ELSE /\ cache' = Remembered(CacheKey(r), DocsOf(found))
               /\ request' = [request EXCEPT ![t] = ScopedTo(r, DocsOf(found), FirstDocs(found))]
    BY <1>u
  <1>4. CASE found = <<>>
    BY <1>1, <1>2, <1>3, <1>4, GoesOn DEF RequestsOk, CacheOk
  <1>5. CASE found # <<>>
    <2>1. PICK a \in Asks : r.asker = a.asker
      BY <1>2 DEF RequestOk
    <2>2. PICK docs : docs = DocsOf(found)
      OBVIOUS
    <2>3. PICK e : e = [key |-> CacheKey(r), docs |-> docs]
      OBVIOUS
    <2>4. EntryOk(e) /\ e.docs = docs
      BY <1>3, <1>5, <2>1, <2>2, <2>3, CandidatesMakeAnEntry
    <2>5. WellPlaced(Head(docs), ToSet(docs))
      BY <2>4, EntryPlaces DEF EntryOk
    <2>6. RequestsOk'
      <3>1. PICK y : y = Placed(r, Head(docs), ToSet(docs))
        OBVIOUS
      <3>2. RequestOk(y)
        BY <1>2, <2>5, <3>1, Placing
      <3>3. DOMAIN y = RequestFields /\ y.stage \in {"structure", "fetch"}
        BY <1>2, <3>1 DEF Placed, RequestFields
      <3>4. PICK x : x = [y EXCEPT !.own = FirstDocs(found)]
        OBVIOUS
      <3>5. /\ DOMAIN x = RequestFields /\ x.stage = y.stage /\ x.asker = y.asker
            /\ x.doc = y.doc /\ x.docs = y.docs /\ x.structural = y.structural
        BY <3>3, <3>4 DEF RequestFields
      <3>6. RequestOk(x)
        BY <3>2, <3>3, <3>5 DEF RequestOk, AtWork, HasEvidence
      <3>7. Becomes(t, x)
        BY <1>3, <1>5, <2>2, <3>1, <3>4 DEF ScopedTo, Becomes
      <3> QED
        BY <3>6, <3>7, OneBecomes DEF RequestsOk
    <2>7. CacheOk'
      <3>1. PICK kept : kept = IF Cardinality(cache) > CacheLimit THEN {} ELSE {x \in cache: x.key # CacheKey(r)}
        OBVIOUS
      <3>2. cache' = kept \cup {e}
        BY <1>3, <1>5, <2>2, <2>3, <3>1 DEF Remembered
      <3>3. kept \subseteq cache
        BY <3>1
      <3>4. IsFiniteSet(cache) /\ Cardinality(cache) \in Nat /\ CacheLimit \in Nat
        BY FS_CardinalityType, RetrievalAssumption DEF CacheOk
      <3>5. IsFiniteSet(kept) /\ Cardinality(kept) \in Nat
        BY <3>3, <3>4, FS_Subset, FS_CardinalityType
      <3>6. Cardinality(kept) <= CacheLimit
        <4>1. CASE Cardinality(cache) > CacheLimit
          <5>1. kept = {}
            BY <3>1, <4>1
          <5> QED
            BY <3>4, <5>1, FS_EmptySet
        <4>2. CASE ~(Cardinality(cache) > CacheLimit)
          <5>1. Cardinality(kept) <= Cardinality(cache)
            BY <3>3, <3>4, FS_Subset
          <5> QED
            BY <3>4, <3>5, <4>2, <5>1
        <4> QED
          BY <4>1, <4>2
      <3>7. IsFiniteSet(cache') /\ Cardinality(cache') <= CacheLimit + 1
        <4>1. PICK more : more = kept \cup {e}
          OBVIOUS
        <4>2. /\ IsFiniteSet(more)
              /\ Cardinality(more) = Cardinality(kept) \/ Cardinality(more) = Cardinality(kept) + 1
          BY <3>5, <4>1, FS_AddElement
        <4>3. Cardinality(more) <= CacheLimit + 1
          BY <3>4, <3>5, <3>6, <4>2
        <4> QED
          BY <3>2, <4>1, <4>2, <4>3
      <3>8. \A x \in cache' : EntryOk(x)
        BY <2>4, <3>2, <3>3 DEF CacheOk
      <3> QED
        BY <3>7, <3>8 DEF CacheOk
    <2> QED
      BY <2>6, <2>7
  <1> QED
    BY <1>4, <1>5

----------------------------------------------------------------------------
(* The invariant of the requests and the cache.                            *)

\* Nothing is asked, remembered or fetched at first.
LEMMA NothingAtFirst ==
  ASSUME Init PROVE RetrievalInvariant
  <1>1. request = [t \in Threads |-> Idle]
    BY DEF Init
  <1>2. \A t \in Threads : request[t].stage = "idle"
    BY <1>1 DEF Idle
  <1>3. \A t \in Threads : RequestOk(request[t])
    BY <1>2 DEF RequestOk, AtWork
  <1>4. request = [t \in Threads |-> request[t]]
    BY <1>1
  <1>5. CacheOk
    <2>1. cache = {} /\ CacheLimit \in Nat
      BY RetrievalAssumption DEF Init
    <2>2. IsFiniteSet(cache) /\ Cardinality(cache) = 0
      BY <2>1, FS_EmptySet
    <2> QED
      BY <2>1, <2>2 DEF CacheOk
  <1> QED
    BY <1>3, <1>4, <1>5 DEF RetrievalInvariant

\* An action that leaves the cache alone.
LEMMA CacheStays ==
  ASSUME CacheOk, cache' = cache PROVE CacheOk'
  BY DEF CacheOk

\* Every step keeps the invariant.
LEMMA InvariantIsKept ==
  ASSUME RetrievalInvariant, [Next]_vars PROVE RetrievalInvariant'
  <1>1. RequestsOk /\ CacheOk
    BY DEF RetrievalInvariant, RequestsOk
  <1>2. SUFFICES RequestsOk' /\ CacheOk'
    BY DEF RetrievalInvariant, RequestsOk
  <1>3. ASSUME NEW t \in Threads, Ask(t) PROVE RequestsOk' /\ CacheOk'
    BY <1>1, <1>3, AskKeeps, CacheStays DEF Ask
  <1>4. ASSUME NEW t \in Threads, Serve(t) PROVE RequestsOk' /\ CacheOk'
    <2>1. CASE Deny(t)
      BY <1>1, <2>1, DenyKeeps, CacheStays DEF Deny
    <2>2. CASE Admit(t)
      BY <1>1, <2>2, AdmitKeeps, CacheStays DEF Admit
    <2>3. CASE Gate(t)
      <3>1. cache' = cache
        BY <2>3 DEF Gate
      <3> QED
        BY <1>1, <2>3, <3>1, GateKeeps, CacheStays
    <2>4. CASE ScopeByReference(t)
      <3>1. cache' = cache
        BY <2>4 DEF ScopeByReference
      <3> QED
        BY <1>1, <2>4, <3>1, ReferenceKeeps, CacheStays
    <2>5. CASE ScopeByName(t)
      <3>1. cache' = cache
        BY <2>5 DEF ScopeByName
      <3> QED
        BY <1>1, <2>5, <3>1, NameKeeps, CacheStays
    <2>6. CASE ScopeByThread(t)
      <3>1. cache' = cache
        BY <2>6 DEF ScopeByThread
      <3> QED
        BY <1>1, <2>6, <3>1, ThreadKeeps, CacheStays
    <2>7. CASE ScopeByCache(t)
      <3>1. cache' = cache
        BY <2>7 DEF ScopeByCache
      <3> QED
        BY <1>1, <2>7, <3>1, CachedScopeKeeps, CacheStays
    <2>8. CASE ScopeByVector(t)
      BY <1>1, <2>8, VectorKeeps
    <2>9. CASE ScopeByResolver(t)
      <3>1. cache' = cache
        BY <2>9 DEF ScopeByResolver
      <3> QED
        BY <1>1, <2>9, <3>1, ResolverKeeps, CacheStays
    <2>10. CASE ReadStructure(t)
      <3>1. cache' = cache
        BY <2>10 DEF ReadStructure
      <3> QED
        BY <1>1, <2>10, <3>1, StructureKeeps, CacheStays
    <2>11. CASE Fetch(t)
      <3>1. cache' = cache
        BY <2>11 DEF Fetch
      <3> QED
        BY <1>1, <2>11, <3>1, FetchKeeps, CacheStays
    <2>12. CASE EmbeddingFails(t) \/ Generate(t)
      <3>1. cache' = cache
        BY <2>12 DEF EmbeddingFails, Generate
      <3> QED
        BY <1>1, <2>12, <3>1, EndKeeps, CacheStays
    <2>13. CASE Count(t)
      <3>1. cache' = cache
        BY <2>13 DEF Count
      <3> QED
        BY <1>1, <2>13, <3>1, CountKeeps, CacheStays
    <2> QED
      BY <1>4, <2>1, <2>2, <2>3, <2>4, <2>5, <2>6, <2>7, <2>8, <2>9, <2>10, <2>11, <2>12, <2>13
      DEF Serve
  <1>5. CASE CorpusChanges
    <2>1. cache' = cache
      BY <1>5 DEF CorpusChanges
    <2> QED
      BY <1>1, <1>5, <2>1, ChangeKeeps, CacheStays
  <1>6. ASSUME request' = request, cache' = cache PROVE RequestsOk' /\ CacheOk'
    <2>1. RequestsOk'
      BY <1>1, <1>6 DEF RequestsOk
    <2> QED
      BY <1>1, <1>6, <2>1, CacheStays
  <1>7. CASE TermsExpire
    BY <1>6, <1>7 DEF TermsExpire
  <1>8. CASE UNCHANGED vars
    BY <1>6, <1>8 DEF vars
  <1> QED
    BY <1>3, <1>4, <1>5, <1>7, <1>8 DEF Next

\* What requests hold and what the scope cache remembers stay sound through
\* every interleaving of the threads with ingests, deletes and expiries: the
\* scope a question is given (vector_first_hybrid._scope_for_query), the reads
\* that use it and the entries of _scope_cache.
THEOREM RetrievalStaysSound == Spec => []RetrievalInvariant
  BY NothingAtFirst, InvariantIsKept, PTL DEF Spec

\* Evidence of a node is of the scope, and a node is no marker.
LEMMA ScopeFromInvariant ==
  ASSUME Backend # "qdrant", RetrievalInvariant PROVE EvidenceIsOfTheScope
  <1>1. SUFFICES ASSUME NEW t \in Threads, HasEvidence(request[t]), NEW n \in Read(request[t])
                 PROVE  /\ request[t].docs = {} \/ n.doc \in request[t].docs
                        /\ TenantOk(n, request[t].asker)
                        /\ request[t].structural \/ LanguageOk(n, request[t].asker)
    BY DEF EvidenceIsOfTheScope
  <1>2. PICK r : r = request[t]
    OBVIOUS
  <1>3. HitsIn(r.evidence, EvidenceIds(r))
    BY <1>1, <1>2 DEF RetrievalInvariant, RequestOk, AtWork, HasEvidence
  <1>4. PICK id \in Ids(r.evidence) : IsNode(id) /\ n = NodeAt(id)
    BY <1>1, <1>2 DEF Read
  <1>5. id \in EvidenceIds(r)
    BY <1>3, <1>4 DEF Ids, HitsIn
  <1>6. PICK m \in Nodes : m.id = id
    BY <1>4 DEF IsNode
  <1>7. \A x \in Nodes : x.id = id => x = m
    BY <1>6, ChannelsAssumption
  <1>8. n = m
    BY <1>4, <1>6, <1>7 DEF NodeAt
  <1>9. id \notin Markers
    BY <1>6, RetrievalAssumption
  <1>10. CASE r.structural
    <2>1. id \in PlacedIds(r.docs, r.asker)
      BY <1>5, <1>9, <1>10 DEF EvidenceIds
    <2>2. (r.docs = {} \/ m.doc \in r.docs) /\ TenantOk(m, r.asker)
      BY <1>7, <2>1 DEF PlacedIds
    <2> QED
      BY <1>2, <1>8, <1>10, <2>2
  <1>11. CASE ~r.structural
    <2>1. id \in ScopeIds(r.docs, r.asker)
      BY <1>5, <1>9, <1>11 DEF EvidenceIds
    <2>2. (r.docs = {} \/ m.doc \in r.docs) /\ TenantOk(m, r.asker) /\ LanguageOk(m, r.asker)
      BY <1>7, <2>1 DEF ScopeIds
    <2> QED
      BY <1>2, <1>8, <2>2
  <1> QED
    BY <1>10, <1>11

\* Whatever the channels, the expansion in the graph, the fusion, the pins and
\* the parts of units bring in, an answer is written from text of the scope, the
\* tenant and, when it was searched for, the language of its question
\* (full_hybrid.retrieve), while the vectors are in the graph's own index.  With
\* the external store the seeds are asked for in the wrong language, which a run
\* of its own shows.
THEOREM EvidenceOfTheScope ==
  ASSUME Backend # "qdrant" PROVE Spec => []EvidenceIsOfTheScope
  <1>1. RetrievalInvariant => EvidenceIsOfTheScope
    BY ScopeFromInvariant
  <1> QED
    BY <1>1, RetrievalStaysSound, PTL

\* No tenant and no language is given the documents of another through the
\* scope cache of vector_first_hybrid._scope_for_query, and the cache never
\* holds more than one entry beyond its limit, whatever threads fill it.
THEOREM CacheScoped == Spec => []CacheIsScoped
  <1>1. RetrievalInvariant => CacheIsScoped
    BY DEF RetrievalInvariant, CacheOk, EntryOk, CacheIsScoped
  <1> QED
    BY <1>1, RetrievalStaysSound, PTL

----------------------------------------------------------------------------
(* The document that is spelled out.                                       *)

Late == {"named", "thread", "cached", "vector", "resolve"}
Named == {"structure", "fetch"}

\* One request becomes r, and the corpus stays.
LEMMA NamesBecome ==
  ASSUME RequestsOk, NamesInvariant, corpus' = corpus,
         NEW t \in Threads, NEW r, NameOk(r, corpus), Becomes(t, r)
  PROVE  NamesInvariant'
  <1>1. request' = [u \in Threads |-> IF u = t THEN r ELSE request[u]]
    BY DEF Becomes, RequestsOk
  <1>2. \A u \in Threads : NameOk(request'[u], corpus')
    BY <1>1 DEF NamesInvariant
  <1> QED
    BY <1>2 DEF NamesInvariant

\* A request under way has its fields, and what is known of its name.
LEMMA NamedRequest ==
  ASSUME RequestsOk, NamesInvariant, NEW t \in Threads, AtWork(request[t])
  PROVE  DOMAIN request[t] = RequestFields /\ NameOk(request[t], corpus)
  BY WorkingRequest DEF NamesInvariant

\* r and x are about the same question.
Same(r, x) == x.q = r.q /\ x.asker = r.asker /\ x.moved = r.moved

\* Past the first tier no document is spelled out, so any placing will do.
LEMMA LateGoesOn ==
  ASSUME NEW r, NEW x, NEW now, NameOk(r, now), r.stage \in Late, Same(r, x), x.stage \in Late \cup Named
  PROVE  NameOk(x, now)
  <1>1. AtWork(r)
    BY DEF AtWork, Late
  <1>2. r.moved \cap Spelled(r.q) = {} /\ VectorFirst => ExactReference(r.q, now, r.asker) = NoDoc
    BY <1>1 DEF NameOk, Late
  <1> QED
    BY <1>2 DEF NameOk, Same, Late, Named

\* Going on to another stage keeps the question.
LEMMA GoesSame ==
  ASSUME NEW r, DOMAIN r = RequestFields, NEW stage
  PROVE  LET x == [r EXCEPT !.stage = stage]
         IN x.stage = stage /\ Same(r, x) /\ x.doc = r.doc
  BY DEF RequestFields, Same

\* Placing a request keeps the question.
LEMMA PlacedSame ==
  ASSUME NEW r, DOMAIN r = RequestFields, NEW doc, NEW docs
  PROVE  LET x == Placed(r, doc, docs)
         IN x.stage \in Named /\ Same(r, x) /\ x.doc = doc /\ DOMAIN x = RequestFields
  <1>1. PICK stage : stage = IF r.structural THEN "structure" ELSE "fetch"
    OBVIOUS
  <1>2. PICK x : x = [r EXCEPT !.doc = doc, !.docs = docs, !.stage = stage]
    OBVIOUS
  <1>3. /\ x.stage = stage /\ x.q = r.q /\ x.asker = r.asker /\ x.moved = r.moved
        /\ x.doc = doc /\ DOMAIN x = RequestFields
    BY <1>2 DEF RequestFields
  <1>4. stage \in Named
    BY <1>1 DEF Named
  <1> QED
    BY <1>1, <1>2, <1>3, <1>4 DEF Placed, Same

\* A request at one of the late tiers goes on to another or is placed.
LEMMA LateStep ==
  ASSUME RequestsOk, NamesInvariant, corpus' = corpus, NEW t \in Threads, request[t].stage \in Late,
         \/ \E stage \in Late : Goes(t, stage)
         \/ \E doc, docs : request' = [request EXCEPT ![t] = Placed(@, doc, docs)]
  PROVE  NamesInvariant'
  <1>1. PICK r : r = request[t]
    OBVIOUS
  <1>2. r.stage \in Late /\ DOMAIN r = RequestFields /\ NameOk(r, corpus)
    BY <1>1, NamedRequest DEF AtWork, Late
  <1>3. ASSUME NEW stage \in Late, Goes(t, stage) PROVE NamesInvariant'
    <2>1. PICK x : x = [r EXCEPT !.stage = stage]
      OBVIOUS
    <2>4. x.stage = stage /\ Same(r, x)
      BY <1>2, <2>1, GoesSame
    <2>2. NameOk(x, corpus)
      BY <1>2, <2>4, LateGoesOn
    <2>3. Becomes(t, x)
      BY <1>1, <1>3, <2>1 DEF Goes, Becomes
    <2> QED
      BY <2>2, <2>3, NamesBecome
  <1>4. ASSUME NEW doc, NEW docs, request' = [request EXCEPT ![t] = Placed(@, doc, docs)]
        PROVE  NamesInvariant'
    <2>1. PICK x : x = Placed(r, doc, docs)
      OBVIOUS
    <2>2. NameOk(x, corpus)
      BY <1>2, <2>1, PlacedSame, LateGoesOn
    <2>3. Becomes(t, x)
      BY <1>1, <1>4, <2>1 DEF Becomes
    <2> QED
      BY <2>2, <2>3, NamesBecome
  <1> QED
    BY <1>3, <1>4

\* A request goes back to a stage that claims nothing.
LEMMA NamesIndifferent ==
  ASSUME NEW r, NEW now, r.stage \in {"asked", "gate", "exact", "answered", "failed"}
  PROVE  NameOk(r, now)
  BY DEF NameOk

\* A denial or a question back claims no document.
LEMMA MarkedEvidence ==
  ASSUME NEW r, NEW now, NEW id \in {"access_denied", "underspecified"}, r.evidence = Item(id), r.stage = "generate"
  PROVE  NameOk(r, now)
  <1>1. PICK h : h = [id |-> id, score |-> 0]
    OBVIOUS
  <1>2. PICK s : s = <<h>>
    OBVIOUS
  <1>3. s = r.evidence /\ h.id = id /\ 1 \in DOMAIN s /\ s[1] = h
    BY <1>1, <1>2 DEF Item
  <1>4. h \in ToSet(s)
    BY <1>3 DEF ToSet
  <1>5. id \in Ids(r.evidence)
    BY <1>3, <1>4 DEF Ids
  <1> QED
    BY <1>5 DEF NameOk

\* Up to the gate nothing is said of a document.
LEMMA BeginNames ==
  ASSUME RequestsOk, NamesInvariant, NEW t \in Threads, Ask(t) \/ Deny(t) \/ Admit(t) \/ Gate(t)
  PROVE  NamesInvariant'
  <1>1. CASE Ask(t)
    <2>1. PICK a \in Asks : request' = [request EXCEPT ![t] = Asked(a)]
      BY <1>1 DEF Ask
    <2>2. PICK x : x = Asked(a)
      OBVIOUS
    <2>3. x.stage = "asked"
      BY <2>2 DEF Asked
    <2>5. NameOk(x, corpus)
      BY <2>3, NamesIndifferent
    <2>4. Becomes(t, x) /\ corpus' = corpus
      BY <1>1, <2>1, <2>2 DEF Becomes, Ask
    <2> QED
      BY <2>4, <2>5, NamesBecome
  <1>2. CASE Deny(t)
    <2>1. PICK r : r = request[t]
      OBVIOUS
    <2>2. r.stage = "asked" /\ DOMAIN r = RequestFields
      BY <1>2, <2>1, NamedRequest DEF Deny, AtWork
    <2>3. PICK x : x = [r EXCEPT !.stage = "generate", !.evidence = Item("access_denied")]
      OBVIOUS
    <2>4. x.stage = "generate" /\ x.evidence = Item("access_denied")
      BY <2>2, <2>3 DEF RequestFields
    <2>5. NameOk(x, corpus)
      BY <2>4, MarkedEvidence
    <2>6. Becomes(t, x) /\ corpus' = corpus
      BY <1>2, <2>1, <2>3 DEF Deny, Becomes
    <2> QED
      BY <2>5, <2>6, NamesBecome
  <1>3. ASSUME NEW stage, Goes(t, stage), corpus' = corpus, request[t].stage \in {"asked", "gate"},
               stage \in {"exact", "gate"} \/ ~VectorFirst
        PROVE  NamesInvariant'
    <2>1. PICK r : r = request[t]
      OBVIOUS
    <2>2. DOMAIN r = RequestFields
      BY <1>3, <2>1, NamedRequest DEF AtWork
    <2>3. PICK x : x = [r EXCEPT !.stage = stage]
      OBVIOUS
    <2>4. x.stage = stage
      BY <2>2, <2>3 DEF RequestFields
    <2>5. NameOk(x, corpus)
      BY <1>3, <2>4 DEF NameOk
    <2>6. Becomes(t, x)
      BY <1>3, <2>1, <2>3 DEF Goes, Becomes
    <2> QED
      BY <1>3, <2>5, <2>6, NamesBecome
  <1>4. CASE Admit(t)
    <2>1. \E stage : Goes(t, stage) /\ (stage \in {"exact", "gate"} \/ ~VectorFirst)
      BY <1>4 DEF Admit
    <2> QED
      BY <1>3, <1>4, <2>1 DEF Admit
  <1>5. CASE Gate(t)
    <2>1. PICK r : r = request[t]
      OBVIOUS
    <2>2. r.stage = "gate" /\ DOMAIN r = RequestFields /\ corpus' = corpus
      BY <1>5, <2>1, NamedRequest DEF Gate, AtWork
    <2>3. CASE Goes(t, "exact")
      BY <1>3, <2>1, <2>2, <2>3
    <2>4. ASSUME NEW found,
                 request' = [request EXCEPT ![t].stage = "generate", ![t].own = FirstDocs(found),
                                            ![t].offered = FirstDocs(found),
                                            ![t].evidence = Item("underspecified")]
          PROVE  NamesInvariant'
      <3>1. PICK first : first = FirstDocs(found)
        OBVIOUS
      <3>2. PICK x : x = [r EXCEPT !.stage = "generate", !.own = first, !.offered = first,
                                   !.evidence = Item("underspecified")]
        OBVIOUS
      <3>3. x.stage = "generate" /\ x.evidence = Item("underspecified")
        BY <2>2, <3>2 DEF RequestFields
      <3>4. NameOk(x, corpus)
        BY <3>3, MarkedEvidence
      <3>5. Becomes(t, x)
        BY <2>1, <2>4, <3>1, <3>2 DEF Becomes
      <3> QED
        BY <2>2, <3>4, <3>5, NamesBecome
    <2>5. Goes(t, "exact") \/ \E found : request' = [request EXCEPT ![t].stage = "generate",
                                            ![t].own = FirstDocs(found), ![t].offered = FirstDocs(found),
                                            ![t].evidence = Item("underspecified")]
      BY <1>5 DEF Gate
    <2> QED
      BY <2>3, <2>4, <2>5
  <1> QED
    BY <1>1, <1>2, <1>4, <1>5

\* The first tier decides.
LEMMA ReferenceNames ==
  ASSUME RequestsOk, NamesInvariant, NEW t \in Threads, ScopeByReference(t)
  PROVE  NamesInvariant'
  <1>1. PICK r : r = request[t]
    OBVIOUS
  <1>2. r.stage = "exact" /\ DOMAIN r = RequestFields /\ corpus' = corpus
    BY <1>1, NamedRequest DEF ScopeByReference, AtWork
  <1>3. PICK d : d = ExactReference(r.q, corpus, r.asker)
    OBVIOUS
  <1>4. CASE d = NoDoc /\ Goes(t, "named")
    <2>1. PICK x : x = [r EXCEPT !.stage = "named"]
      OBVIOUS
    <2>2. x.stage = "named" /\ x.q = r.q /\ x.asker = r.asker
      BY <1>2, <2>1 DEF RequestFields
    <2>3. NameOk(x, corpus)
      BY <1>3, <1>4, <2>2 DEF NameOk
    <2>4. Becomes(t, x)
      BY <1>1, <1>4, <2>1 DEF Goes, Becomes
    <2> QED
      BY <1>2, <2>3, <2>4, NamesBecome
  <1>5. CASE request' = [request EXCEPT ![t] = Placed(@, d, {d})]
    <2>1. PICK x : x = Placed(r, d, {d})
      OBVIOUS
    <2>2. x.stage \in Named /\ Same(r, x) /\ x.doc = d
      BY <1>2, <2>1, PlacedSame
    <2>3. NameOk(x, corpus)
      BY <1>3, <2>2 DEF NameOk, Same, Named
    <2>4. Becomes(t, x)
      BY <1>1, <1>5, <2>1 DEF Becomes
    <2> QED
      BY <1>2, <2>3, <2>4, NamesBecome
  <1> QED
    BY <1>1, <1>3, <1>4, <1>5 DEF ScopeByReference

\* The tiers after the first: nothing is spelled out.
LEMMA LaterNames ==
  ASSUME RequestsOk, NamesInvariant, NEW t \in Threads,
         ScopeByName(t) \/ ScopeByThread(t) \/ ScopeByCache(t) \/ ScopeByResolver(t)
  PROVE  NamesInvariant'
  <1>1. corpus' = corpus /\ request[t].stage \in Late
    BY DEF ScopeByName, ScopeByThread, ScopeByCache, ScopeByResolver, Late
  <1>2. CASE ScopeByName(t)
    <2>1. Goes(t, "thread") \/ \E doc : request' = [request EXCEPT ![t] = Placed(@, doc, {doc})]
      BY <1>2 DEF ScopeByName
    <2>2. "thread" \in Late
      BY DEF Late
    <2> QED
      BY <1>1, <2>1, <2>2, LateStep
  <1>3. CASE ScopeByThread(t)
    <2>1. Goes(t, "cached") \/ \E doc : request' = [request EXCEPT ![t] = Placed(@, doc, {doc})]
      BY <1>3 DEF ScopeByThread
    <2>2. "cached" \in Late
      BY DEF Late
    <2> QED
      BY <1>1, <2>1, <2>2, LateStep
  <1>4. CASE ScopeByCache(t)
    <2>1. Goes(t, "vector") \/ \E doc, docs : request' = [request EXCEPT ![t] = Placed(@, doc, docs)]
      BY <1>4 DEF ScopeByCache
    <2>2. "vector" \in Late
      BY DEF Late
    <2> QED
      BY <1>1, <2>1, <2>2, LateStep
  <1>5. CASE ScopeByResolver(t)
    <2>1. \E doc, docs : request' = [request EXCEPT ![t] = Placed(@, doc, docs)]
      BY <1>5 DEF ScopeByResolver
    <2> QED
      BY <1>1, <2>1, LateStep
  <1> QED
    BY <1>2, <1>3, <1>4, <1>5

\* The tier of the nearest text.
LEMMA VectorNames ==
  ASSUME RequestsOk, NamesInvariant, NEW t \in Threads, ScopeByVector(t)
  PROVE  NamesInvariant'
  <1>1. PICK r : r = request[t]
    OBVIOUS
  <1>2. r.stage = "vector" /\ DOMAIN r = RequestFields /\ NameOk(r, corpus) /\ corpus' = corpus
    BY <1>1, NamedRequest DEF ScopeByVector, AtWork
  <1>3. Goes(t, "resolve") \/ \E docs, own : request' = [request EXCEPT ![t] = ScopedTo(r, docs, own)]
    BY <1>1 DEF ScopeByVector
  <1>4. CASE Goes(t, "resolve")
    <2>1. "resolve" \in Late /\ request[t].stage \in Late
      BY <1>1, <1>2 DEF Late
    <2> QED
      BY <1>2, <1>4, <2>1, LateStep
  <1>5. ASSUME NEW docs, NEW own, request' = [request EXCEPT ![t] = ScopedTo(r, docs, own)]
        PROVE  NamesInvariant'
    <2>1. PICK y : y = Placed(r, Head(docs), ToSet(docs))
      OBVIOUS
    <2>2. y.stage \in Named /\ Same(r, y) /\ DOMAIN y = RequestFields
      BY <1>2, <2>1, PlacedSame
    <2>3. PICK x : x = [y EXCEPT !.own = own]
      OBVIOUS
    <2>4. x.stage = y.stage /\ x.q = y.q /\ x.asker = y.asker /\ x.moved = y.moved
      BY <2>2, <2>3 DEF RequestFields
    <2>5. r.stage \in Late /\ x.stage \in Late \cup Named /\ Same(r, x)
      BY <1>2, <2>2, <2>4 DEF Late, Same
    <2>6. NameOk(x, corpus)
      BY <1>2, <2>5, LateGoesOn
    <2>7. Becomes(t, x)
      BY <1>5, <2>1, <2>3 DEF ScopedTo, Becomes
    <2> QED
      BY <1>2, <2>6, <2>7, NamesBecome
  <1> QED
    BY <1>3, <1>4, <1>5

\* The evidence is read for the document the request was placed in.
LEMMA PlacedGoesOn ==
  ASSUME NEW r, NEW x, NEW now, NameOk(r, now), r.stage \in {"structure", "fetch", "count"}, Same(r, x),
         x.stage \in {"count", "generate"}, x.doc = r.doc
  PROVE  NameOk(x, now)
  <1>1. AtWork(r)
    BY DEF AtWork
  <1>2. r.moved \cap Spelled(r.q) = {} /\ VectorFirst => ExactReference(r.q, now, r.asker) \in {r.doc, NoDoc}
    BY <1>1 DEF NameOk
  <1> QED
    BY <1>2 DEF NameOk, Same

\* Reading the evidence keeps the document.
LEMMA EvidenceNames ==
  ASSUME RequestsOk, NamesInvariant, NEW t \in Threads, ReadStructure(t) \/ Fetch(t) \/ Count(t)
  PROVE  NamesInvariant'
  <1>1. PICK r : r = request[t]
    OBVIOUS
  <1>2. /\ r.stage \in {"structure", "fetch", "count"} /\ DOMAIN r = RequestFields
        /\ NameOk(r, corpus) /\ corpus' = corpus
    BY <1>1, NamedRequest DEF ReadStructure, Fetch, Count, AtWork
  <1>3. ASSUME NEW x, NameOk(x, corpus), Becomes(t, x) PROVE NamesInvariant'
    BY <1>2, <1>3, NamesBecome
  <1>4. CASE ReadStructure(t)
    <2>1. \/ Becomes(t, [r EXCEPT !.structural = FALSE, !.doc = NoDoc, !.docs = {}, !.stage = "exact"])
          \/ \E evidence : Becomes(t, [r EXCEPT !.stage = "generate", !.seen = corpus, !.evidence = evidence])
      BY <1>1, <1>4 DEF ReadStructure, Becomes
    <2>2. CASE Becomes(t, [r EXCEPT !.structural = FALSE, !.doc = NoDoc, !.docs = {}, !.stage = "exact"])
      <3>1. PICK x : x = [r EXCEPT !.structural = FALSE, !.doc = NoDoc, !.docs = {}, !.stage = "exact"]
        OBVIOUS
      <3>2. x.stage = "exact"
        BY <1>2, <3>1 DEF RequestFields
      <3>3. NameOk(x, corpus)
        BY <3>2, NamesIndifferent
      <3> QED
        BY <1>3, <2>2, <3>1, <3>3
    <2>3. ASSUME NEW evidence,
                 Becomes(t, [r EXCEPT !.stage = "generate", !.seen = corpus, !.evidence = evidence])
          PROVE  NamesInvariant'
      <3>1. PICK x : x = [r EXCEPT !.stage = "generate", !.seen = corpus, !.evidence = evidence]
        OBVIOUS
      <3>2. x.stage = "generate" /\ x.q = r.q /\ x.asker = r.asker /\ x.moved = r.moved /\ x.doc = r.doc
        BY <1>2, <3>1 DEF RequestFields
      <3>3. NameOk(x, corpus)
        BY <1>2, <3>2, PlacedGoesOn DEF Same
      <3> QED
        BY <1>3, <2>3, <3>1, <3>3
    <2> QED
      BY <2>1, <2>2, <2>3
  <1>5. CASE Fetch(t)
    <2>1. \E stage \in {"count", "generate"} : \E evidence, offered :
            Becomes(t, [r EXCEPT !.stage = stage, !.seen = corpus, !.evidence = evidence, !.offered = offered])
      <3>1. PICK stage : stage = IF VectorFirst /\ Shape(r.q) = "aggregation" /\ r.doc # NoDoc
                                 THEN "count" ELSE "generate"
        OBVIOUS
      <3>2. PICK offered : offered = IF Doubtful(verdict[t]) THEN verdict[t].candidates ELSE <<>>
        OBVIOUS
      <3>3. PICK up \in StoreStates : \E c \in {Channels(r.q, corpus, r.doc, r.docs, r.asker, r.plain, up)} :
              request' = [request EXCEPT ![t] =
                [r EXCEPT !.stage = stage, !.seen = corpus,
                          !.evidence = WithUnits(r.q, Pinned(r.q, c), corpus, r.asker), !.offered = offered]]
        BY <1>1, <1>5, <3>1, <3>2, ZenonT(60) DEF Fetch
      <3>4. \E evidence : Becomes(t, [r EXCEPT !.stage = stage, !.seen = corpus, !.evidence = evidence,
                                               !.offered = offered])
        BY <3>3, Zenon DEF Becomes
      <3>5. stage \in {"count", "generate"}
        BY <3>1
      <3> QED
        BY <3>4, <3>5
    <2>2. PICK stage \in {"count", "generate"} : \E evidence, offered :
            Becomes(t, [r EXCEPT !.stage = stage, !.seen = corpus, !.evidence = evidence, !.offered = offered])
      BY <2>1
    <2>3. PICK evidence, offered :
            Becomes(t, [r EXCEPT !.stage = stage, !.seen = corpus, !.evidence = evidence, !.offered = offered])
      BY <2>2
    <2>4. PICK x : x = [r EXCEPT !.stage = stage, !.seen = corpus, !.evidence = evidence, !.offered = offered]
      OBVIOUS
    <2>5. x.stage = stage /\ x.q = r.q /\ x.asker = r.asker /\ x.moved = r.moved /\ x.doc = r.doc
      BY <1>2, <2>4 DEF RequestFields
    <2>6. NameOk(x, corpus)
      BY <1>2, <2>5, PlacedGoesOn DEF Same
    <2> QED
      BY <1>3, <2>3, <2>4, <2>6
  <1>6. CASE Count(t)
    <2>1. PICK evidence : evidence = IF CountUnits(r.q, corpus, r.doc, r.asker) # <<>>
                                     THEN CountUnits(r.q, corpus, r.doc, r.asker)
                                     ELSE Outline(corpus, r.doc, r.asker) \o r.evidence
      OBVIOUS
    <2>2. PICK x : x = [r EXCEPT !.stage = "generate", !.evidence = evidence]
      OBVIOUS
    <2>3. Becomes(t, x)
      BY <1>1, <1>2, <1>6, <2>1, <2>2 DEF Count, Becomes, RequestsOk, RequestFields
    <2>4. x.stage = "generate" /\ x.q = r.q /\ x.asker = r.asker /\ x.moved = r.moved /\ x.doc = r.doc
      BY <1>2, <2>2 DEF RequestFields
    <2>5. NameOk(x, corpus)
      BY <1>2, <2>4, PlacedGoesOn DEF Same
    <2> QED
      BY <1>3, <2>3, <2>5
  <1> QED
    BY <1>4, <1>5, <1>6

\* A question that ends says nothing any more.
LEMMA EndNames ==
  ASSUME RequestsOk, NamesInvariant, NEW t \in Threads, EmbeddingFails(t) \/ Generate(t)
  PROVE  NamesInvariant'
  <1>1. CASE EmbeddingFails(t)
    <2>1. PICK x : x = [Idle EXCEPT !.stage = "failed"]
      OBVIOUS
    <2>2. x.stage = "failed"
      BY <2>1 DEF Idle
    <2>3. Becomes(t, x) /\ corpus' = corpus
      BY <1>1, <2>1 DEF EmbeddingFails, Becomes
    <2> QED
      BY <2>2, <2>3, NamesIndifferent, NamesBecome
  <1>2. CASE Generate(t)
    <2>1. PICK answer, offered : Becomes(t, [stage |-> "answered", answer |-> answer, offered |-> offered])
      BY <1>2 DEF Generate, Becomes
    <2>2. PICK x : x = [stage |-> "answered", answer |-> answer, offered |-> offered]
      OBVIOUS
    <2>3. x.stage = "answered" /\ Becomes(t, x) /\ corpus' = corpus
      BY <1>2, <2>1, <2>2 DEF Generate
    <2> QED
      BY <2>3, NamesIndifferent, NamesBecome
  <1> QED
    BY <1>1, <1>2

\* The only element of a set, or no document.
TheOne(S) == IF Cardinality(S) = 1 THEN CHOOSE d \in S : TRUE ELSE NoDoc

\* A document that is not spelled out comes or goes without touching the
\* reference.
LEMMA ReferenceStays ==
  ASSUME NEW q, NEW now, NEW later, NEW asker, NEW d \in Documents, d \notin Spelled(q),
         now \ {d} = later \ {d}
  PROVE  ExactReference(q, now, asker) = ExactReference(q, later, asker)
  <1>1. ~\E name \in Doc[d].names : name.several /\ name.key \in q.spelled
    BY DEF Spelled
  <1>2. PICK S : S = {x \in Reach(now, asker) : \E name \in Doc[x].names : name.several /\ name.key \in q.spelled}
    OBVIOUS
  <1>3. S = {x \in Reach(later, asker) : \E name \in Doc[x].names : name.several /\ name.key \in q.spelled}
    BY <1>1, <1>2 DEF Reach
  <1>4. ExactReference(q, now, asker) = TheOne(S)
    BY <1>2 DEF ExactReference, TheOne
  <1>5. ExactReference(q, later, asker) = TheOne(S)
    BY <1>3 DEF ExactReference, TheOne
  <1> QED
    BY <1>4, <1>5

\* An ingest or a delete of the document spelled out is noted in moved.
LEMMA ChangeNames ==
  ASSUME RequestsOk, NamesInvariant, CorpusChanges
  PROVE  NamesInvariant'
  <1>1. PICK d \in Changing :
          /\ corpus' = IF d \in corpus THEN corpus \ {d} ELSE corpus \cup {d}
          /\ request' = [t \in Threads |->
               IF t \in Working THEN [request[t] EXCEPT !.moved = @ \cup {d}] ELSE request[t]]
    BY DEF CorpusChanges
  <1>2. d \in Documents /\ corpus \ {d} = corpus' \ {d}
    BY <1>1, RetrievalAssumption
  <1>3. ASSUME NEW t \in Threads PROVE NameOk(request'[t], corpus')
    <2>1. CASE t \notin Working
      BY <1>1, <2>1 DEF NameOk, AtWork, Working
    <2>2. CASE t \in Working
      <3>1. PICK r, x : r = request[t] /\ x = [r EXCEPT !.moved = @ \cup {d}]
        OBVIOUS
      <3>2. DOMAIN r = RequestFields /\ NameOk(r, corpus) /\ AtWork(r)
        BY <2>2, <3>1, NamedRequest DEF Working, AtWork
      <3>3. /\ x.stage = r.stage /\ x.q = r.q /\ x.asker = r.asker /\ x.moved = r.moved \cup {d}
            /\ x.doc = r.doc /\ x.evidence = r.evidence
        BY <3>1, <3>2 DEF RequestFields
      <3>4. ASSUME x.moved \cap Spelled(x.q) = {}
            PROVE  /\ r.moved \cap Spelled(r.q) = {}
                   /\ ExactReference(x.q, corpus', x.asker) = ExactReference(r.q, corpus, r.asker)
        <4>1. d \notin Spelled(r.q) /\ r.moved \cap Spelled(r.q) = {}
          BY <3>3, <3>4
        <4>2. ExactReference(r.q, corpus, r.asker) = ExactReference(r.q, corpus', r.asker)
          BY <1>2, <4>1, ReferenceStays
        <4> QED
          BY <3>3, <4>1, <4>2
      <3>5. NameOk(x, corpus')
        BY <3>2, <3>3, <3>4 DEF NameOk, AtWork
      <3> QED
        BY <1>1, <2>2, <3>1, <3>5
    <2> QED
      BY <2>1, <2>2
  <1> QED
    BY <1>3 DEF NamesInvariant

\* Every step keeps it.
LEMMA NamesAreKept ==
  ASSUME RetrievalInvariant, NamesInvariant, [Next]_vars PROVE NamesInvariant'
  <1>1. RequestsOk
    BY DEF RetrievalInvariant, RequestsOk
  <1>2. ASSUME NEW t \in Threads, Ask(t) \/ Serve(t) PROVE NamesInvariant'
    BY <1>1, <1>2, BeginNames, ReferenceNames, LaterNames, VectorNames, EvidenceNames, EndNames DEF Serve
  <1>3. CASE CorpusChanges
    BY <1>1, <1>3, ChangeNames
  <1>4. ASSUME request' = request, corpus' = corpus PROVE NamesInvariant'
    BY <1>4 DEF NamesInvariant
  <1>5. CASE TermsExpire
    BY <1>4, <1>5 DEF TermsExpire
  <1>6. CASE UNCHANGED vars
    BY <1>4, <1>6 DEF vars
  <1> QED
    BY <1>2, <1>3, <1>5, <1>6 DEF Next

\* A question that spells out one document is answered from that document:
\* no tier after the first of _scope_for_query, no cached scope and no
\* fall-back from the hierarchy replaces it, unless that very document is
\* ingested or deleted while the question is under way.
THEOREM NamedDocumentFirst == Spec => []NamedDocumentWins
  <1>1. Init => NamesInvariant
    <2>1. SUFFICES ASSUME Init PROVE NamesInvariant
      OBVIOUS
    <2>2. \A t \in Threads : request[t].stage = "idle"
      BY <2>1 DEF Init, Idle
    <2> QED
      BY <2>2 DEF NamesInvariant, NameOk, AtWork
  <1>2. RetrievalInvariant /\ NamesInvariant /\ [Next]_vars => NamesInvariant'
    BY NamesAreKept
  <1>3. NamesInvariant => NamedDocumentWins
    BY DEF NamesInvariant, NameOk, AtWork, NamedDocumentWins
  <1> QED
    BY <1>1, <1>2, <1>3, RetrievalStaysSound, PTL DEF Spec
=============================================================================
