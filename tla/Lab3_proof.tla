----------------------------- MODULE Lab3_proof -----------------------------
(***************************************************************************)
(* For any number of blocks and inodes, any number of pointers in a block,  *)
(* any sound image and any damage: what lab3a lists of the data blocks      *)
(* below indirect pointers is what the image holds.                        *)
(*                                                                         *)
(* Lists(s, X) says that X are the rows of the sequence s that tell of such *)
(* a block.  It is followed from one block of pointers up to the whole      *)
(* listing.  Offset(x), the number of places before x, is an arithmetic     *)
(* expression of the digits of x (Position), which new_offset computes.     *)
(* Of the behaviour only that damage leaves the image readable (DiskInv)    *)
(* is needed.                                                              *)
(***************************************************************************)
EXTENDS Lab3, NaturalsInduction, SequenceTheorems, FiniteSetTheorems, FunctionTheorems,
        WellFoundedInduction, TLAPS

-----------------------------------------------------------------------------
(* Sequences joined.                                                       *)

(* The least number that has a property.                                    *)
LEMMA LeastNumber ==
  ASSUME NEW X \in SUBSET Nat, X # {}
  PROVE  \E k \in X : \A j \in Nat : j < k => j \notin X
<1>1. PICK k \in X : \A j \in X : ~(<<j, k>> \in OpToRel(<, Nat))
  BY NatLessThanWellFounded, WFMin
<1> QED BY <1>1 DEF OpToRel

(* g[i] is the first i sequences of f joined.                               *)
Joins(g, f, n) == /\ DOMAIN g = 1..n
                  /\ \A i \in 1..n : g[i] = IF i = 1 THEN f[i] ELSE g[i - 1] \o f[i]

LEMMA JoinsExists ==
  ASSUME NEW n \in Nat, NEW f, NEW S, \A i \in 1..n : f[i] \in Seq(S)
  PROVE  \E g \in [1..n -> Seq(S)] : Joins(g, f, n)
<1> DEFINE Can(m) == \E g \in [1..m -> Seq(S)] : Joins(g, f, m)
           X == {m \in 0..n : ~Can(m)}
<1>1. Can(0)
  <2>1. [i \in 1..0 |-> <<>>] \in [1..0 -> Seq(S)]
    BY EmptySeq
  <2>2. \A i \in 1..0 : FALSE
    OBVIOUS
  <2>3. Joins([i \in 1..0 |-> <<>>], f, 0)
    BY <2>2 DEF Joins
  <2> QED BY <2>1, <2>3
<1>2. ASSUME NEW m \in 0..n, m # n, Can(m)
      PROVE  Can(m + 1)
  <2>1. PICK g \in [1..m -> Seq(S)] : Joins(g, f, m)
    BY <1>2
  <2>2. m + 1 \in 1..n /\ f[m + 1] \in Seq(S)
    BY <1>2
  <2> DEFINE h == [i \in 1..(m + 1) |-> IF i <= m THEN g[i]
                     ELSE IF i = 1 THEN f[i] ELSE g[i - 1] \o f[i]]
  <2>3. ASSUME NEW i \in 1..(m + 1)
        PROVE  /\ h[i] \in Seq(S)
               /\ h[i] = IF i = 1 THEN f[i] ELSE h[i - 1] \o f[i]
    <3>1. CASE i <= m
      <4>1. i \in 1..m /\ (i # 1 => i - 1 \in 1..m /\ i - 1 \in 1..(m + 1))
        BY <1>2, <3>1
      <4>2. h[i] = g[i] /\ (i # 1 => h[i - 1] = g[i - 1])
        BY <1>2, <3>1, <4>1
      <4> HIDE DEF h
      <4> QED BY <2>1, <4>1, <4>2 DEF Joins
    <3>2. CASE ~(i <= m)
      <4>1. i = m + 1 /\ (i # 1 => m \in 1..m /\ i - 1 = m /\ m \in 1..(m + 1))
        BY <1>2, <3>2
      <4>2. h[i] = IF i = 1 THEN f[i] ELSE g[i - 1] \o f[i]
        BY <3>2
      <4>3. i # 1 => h[i - 1] = g[i - 1]
        BY <4>1
      <4> HIDE DEF h
      <4>4. i # 1 => g[i - 1] \in Seq(S)
        BY <4>1
      <4>5. i # 1 => g[i - 1] \o f[i] \in Seq(S)
        BY <4>1, <4>4, <2>2, ConcatProperties
      <4> QED BY <2>2, <4>1, <4>2, <4>3, <4>5
    <3> QED BY <3>1, <3>2
  <2>4. h \in [1..(m + 1) -> Seq(S)]
    BY <2>3
  <2>5. Joins(h, f, m + 1)
    <3> HIDE DEF h
    <3> QED BY <2>3, <2>4 DEF Joins
  <2> QED BY <2>4, <2>5
<1> HIDE DEF Can
<1>3. X = {}
  <2> SUFFICES ASSUME X # {} PROVE FALSE
    OBVIOUS
  <2>1. PICK k \in X : \A j \in Nat : j < k => j \notin X
    <3> HIDE DEF X
    <3>1. X \in SUBSET Nat
      BY DEF X
    <3> QED BY <3>1, LeastNumber
  <2>2. k # 0
    BY <1>1
  <2>3. k - 1 \in 0..n /\ k - 1 # n /\ k - 1 < k /\ k - 1 \in Nat /\ (k - 1) + 1 = k
    BY <2>2
  <2>4. Can(k - 1)
    BY <2>1, <2>3
  <2>5. Can((k - 1) + 1)
    BY <1>2, <2>3, <2>4
  <2> QED BY <2>3, <2>5
<1> QED BY <1>3 DEF Can

LEMMA JoinsAgree ==
  ASSUME NEW n \in Nat, NEW f, NEW g, NEW h, Joins(g, f, n), Joins(h, f, n)
  PROVE  \A i \in 1..n : g[i] = h[i]
<1> DEFINE X == {i \in 1..n : g[i] # h[i]}
<1>1. X = {}
  <2> SUFFICES ASSUME X # {} PROVE FALSE
    OBVIOUS
  <2>1. PICK k \in X : \A j \in Nat : j < k => j \notin X
    <3> HIDE DEF X
    <3>1. X \in SUBSET Nat
      BY DEF X
    <3> QED BY <3>1, LeastNumber
  <2>2. k = 1 \/ (k - 1 \in 1..n /\ k - 1 < k /\ k - 1 \in Nat)
    OBVIOUS
  <2>3. k = 1 \/ g[k - 1] = h[k - 1]
    BY <2>1, <2>2
  <2> QED BY <2>3 DEF Joins
<1> QED BY <1>1

(* What FlattenSeq() returns.                                              *)
LEMMA FlattenIs ==
  ASSUME NEW n \in Nat \ {0}, NEW f, NEW S, f \in [1..n -> Seq(S)]
  PROVE  \E g \in [1..n -> Seq(S)] : Joins(g, f, n) /\ FlattenSeq(f) = g[n]
<1> DEFINE F(h) == [i \in 1..n |-> IF i = 1 THEN f[i] ELSE h[i - 1] \o f[i]]
           flatten == CHOOSE h : h = F(h)
<1>1. FlattenSeq(f) = flatten[n]
  <2>1. f \in Seq(Seq(S)) /\ Len(f) = n
    OBVIOUS
  <2> QED BY <2>1 DEF FlattenSeq
<1>2. PICK g \in [1..n -> Seq(S)] : Joins(g, f, n)
  BY JoinsExists
<1>3. g = F(g)
  <2>1. g = [i \in 1..n |-> g[i]]
    OBVIOUS
  <2> QED BY <1>2, <2>1 DEF Joins
<1>4. flatten = F(flatten)
  <2> HIDE DEF F
  <2> QED BY <1>3
<1>5. Joins(flatten, f, n)
  <2> HIDE DEF flatten
  <2>1. PICK a : a = flatten
    OBVIOUS
  <2>2. a = F(a)
    BY <1>4, <2>1
  <2>3. DOMAIN a = 1..n /\ \A i \in 1..n : a[i] = IF i = 1 THEN f[i] ELSE a[i - 1] \o f[i]
    BY <2>2
  <2> QED BY <2>1, <2>3 DEF Joins
<1> HIDE DEF flatten
<1>6. n \in 1..n
  OBVIOUS
<1>7. flatten[n] = g[n]
  BY <1>2, <1>5, <1>6, JoinsAgree
<1> QED BY <1>1, <1>2, <1>7

-----------------------------------------------------------------------------
(* The records of data blocks below indirect ones.                         *)

IsLeaf(r) == r.row = "INDIRECT" /\ r.level = 1

(* s is a sequence, and X the set of such records in it.                    *)
Lists(s, X) == s \in Seq(Range(s)) /\ X = {r \in Range(s) : IsLeaf(r)}

LEMMA SequenceOver ==
  ASSUME NEW S, NEW s \in Seq(S)
  PROVE  s \in Seq(Range(s)) /\ Range(s) = {s[k] : k \in 1..Len(s)}
<1>1. s \in [1..Len(s) -> S] /\ DOMAIN s = 1..Len(s) /\ Len(s) \in Nat
  BY LenProperties
<1>2. s \in [1..Len(s) -> Range(s)]
  BY <1>1 DEF Range
<1>3. s \in Seq(Range(s))
  <2>1. \A T, n \in Nat : [1..n -> T] \subseteq Seq(T)
    OBVIOUS
  <2> QED BY <1>1, <1>2, <2>1
<1> QED BY <1>1, <1>3 DEF Range

LEMMA ListsNothing == Lists(<<>>, {})
<1>1. PICK u : u = <<>>
  OBVIOUS
<1>2. PICK V : V = {}
  OBVIOUS
<1>3. u \in Seq(V)
  BY <1>1, EmptySeq
<1>4. u \in Seq(Range(u)) /\ Range(u) = {u[k] : k \in 1..Len(u)}
  BY <1>3, SequenceOver
<1>5. Range(u) = {}
  <2>1. Len(u) = 0 /\ 1..0 = {}
    BY <1>1, EmptySeq
  <2> QED BY <1>4, <2>1
<1> QED BY <1>1, <1>4, <1>5 DEF Lists

LEMMA ListsOne ==
  ASSUME NEW r
  PROVE  Lists(<<r>>, IF IsLeaf(r) THEN {r} ELSE {})
<1>1. PICK u : u = <<r>>
  OBVIOUS
<1>2. PICK V : V = {r}
  OBVIOUS
<1>3. u \in Seq(V) /\ Len(u) = 1 /\ 1..1 = {1} /\ u[1] = r
  BY <1>1, <1>2
<1>4. u \in Seq(Range(u)) /\ Range(u) = {u[k] : k \in 1..Len(u)}
  BY <1>3, SequenceOver
<1>5. Range(u) = {r}
  BY <1>3, <1>4
<1> QED BY <1>1, <1>4, <1>5 DEF Lists

LEMMA ListsBoth ==
  ASSUME NEW s, NEW X, NEW t, NEW Y, Lists(s, X), Lists(t, Y)
  PROVE  Lists(s \o t, X \cup Y)
<1> DEFINE V == Range(s) \cup Range(t)
<1>1. s \in Seq(V) /\ t \in Seq(V)
  BY SeqMonotonic DEF Lists
<1> HIDE DEF V
<1>2. PICK m \in Nat, n \in Nat : m = Len(s) /\ n = Len(t)
  BY <1>1, LenProperties
<1>3. /\ s \o t \in Seq(V) /\ Len(s \o t) = m + n
      /\ \A k \in 1..(m + n) : (s \o t)[k] = IF k <= m THEN s[k] ELSE t[k - m]
  BY <1>1, <1>2, ConcatProperties
<1>4. /\ Range(s) = {s[k] : k \in 1..m} /\ Range(t) = {t[k] : k \in 1..n}
  BY <1>1, <1>2, SequenceOver
<1>5. PICK u : u = s \o t
  OBVIOUS
<1>7. u \in Seq(Range(u)) /\ Range(u) = {u[k] : k \in 1..(m + n)}
  <2>1. u \in Seq(V) /\ Len(u) = m + n
    BY <1>3, <1>5
  <2> QED BY <2>1, SequenceOver
<1>6. Range(u) = Range(s) \cup Range(t)
  <2>1. \A k \in 1..(m + n) : \/ k \in 1..m /\ u[k] = s[k]
                              \/ k - m \in 1..n /\ u[k] = t[k - m]
    BY <1>3, <1>5
  <2>2. \A k \in 1..m : k \in 1..(m + n) /\ u[k] = s[k]
    BY <1>3, <1>5
  <2>3. \A k \in 1..n : k + m \in 1..(m + n) /\ u[k + m] = t[k]
    BY <1>3, <1>5
  <2>4. Range(u) = {u[k] : k \in 1..(m + n)}
    BY <1>7
  <2>5. ASSUME NEW r \in Range(u) PROVE r \in Range(s) \cup Range(t)
    BY <1>4, <2>1, <2>4
  <2>6. ASSUME NEW r \in Range(s) PROVE r \in Range(u)
    BY <1>4, <2>2, <2>4
  <2>7. ASSUME NEW r \in Range(t) PROVE r \in Range(u)
    BY <1>4, <2>3, <2>4
  <2> QED BY <2>5, <2>6, <2>7
<1> QED BY <1>5, <1>6, <1>7 DEF Lists

LEMMA ListsAll ==
  ASSUME NEW n \in Nat, NEW f, NEW X, DOMAIN f = 1..n, f = [i \in 1..n |-> f[i]],
         \A i \in 1..n : Lists(f[i], X[i])
  PROVE  Lists(FlattenSeq(f), UNION {X[i] : i \in 1..n})
<1>1. CASE n = 0
  <2>1. f = <<>> /\ UNION {X[i] : i \in 1..n} = {}
    <3>1. 1..0 = {} /\ Len(<<>>) = 0 /\ <<>> = [i \in {} |-> f[i]]
      OBVIOUS
    <3> QED BY <1>1, <3>1
  <2>2. FlattenSeq(<<>>) = <<>>
    BY DEF FlattenSeq
  <2> QED BY <2>1, <2>2, ListsNothing
<1>2. CASE n # 0
  <2> DEFINE V == UNION {Range(f[i]) : i \in 1..n}
  <2>1. ASSUME NEW i \in 1..n
        PROVE  f[i] \in Seq(V)
    <3>1. Range(f[i]) \subseteq V /\ f[i] \in Seq(Range(f[i]))
      BY DEF Lists
    <3> HIDE DEF V
    <3> QED BY <3>1, SeqMonotonic
  <2> HIDE DEF V
  <2>2. PICK g \in [1..n -> Seq(V)] : Joins(g, f, n) /\ FlattenSeq(f) = g[n]
    BY <1>2, <2>1, FlattenIs
  <2> DEFINE U(i) == UNION {X[j] : j \in 1..i}
             B == {i \in 1..n : ~Lists(g[i], U(i))}
  <2>3. B = {}
    <3> SUFFICES ASSUME B # {} PROVE FALSE
      OBVIOUS
    <3>1. PICK k \in B : \A j \in Nat : j < k => j \notin B
      <4>1. B \in SUBSET Nat
        OBVIOUS
      <4> HIDE DEF B
      <4> QED BY <4>1, LeastNumber
    <3>2. k \in 1..n /\ ~Lists(g[k], U(k))
      BY <3>1
    <3>3. CASE k = 1
      <4>1. U(1) = X[1]
        OBVIOUS
      <4>2. g[1] = f[1] /\ Lists(f[1], X[1])
        BY <3>2, <3>3, <2>2 DEF Joins
      <4> HIDE DEF U
      <4>3. ~Lists(g[1], U(1))
        BY <3>2, <3>3
      <4> QED BY <4>1, <4>2, <4>3
    <3>4. CASE k # 1
      <4>1. k - 1 \in 1..n /\ k - 1 < k /\ k - 1 \in Nat
        BY <3>2, <3>4
      <4>2. Lists(g[k - 1], U(k - 1))
        BY <3>1, <4>1
      <4>3. g[k] = g[k - 1] \o f[k]
        BY <2>2, <3>2, <3>4 DEF Joins
      <4>4. U(k) = U(k - 1) \cup X[k]
        <5>1. 1..k = (1..(k - 1)) \cup {k}
          BY <3>2, <4>1
        <5> QED BY <5>1
      <4>5. Lists(f[k], X[k])
        BY <3>2
      <4> HIDE DEF U
      <4>6. Lists(g[k - 1] \o f[k], U(k - 1) \cup X[k])
        BY <4>2, <4>5, ListsBoth
      <4> QED BY <3>2, <4>3, <4>4, <4>6
    <3> QED BY <3>3, <3>4
  <2>4. n \in 1..n
    BY <1>2
  <2> QED BY <2>2, <2>3, <2>4
<1> QED BY <1>1, <1>2

(* The same of the pointers of a block, which are counted from 0.           *)
LEMMA ListsDigits ==
  ASSUME NEW f, NEW X, \A i \in Digits : Lists(f[i], X[i])
  PROVE  Lists(FlattenSeq([k \in 1..ptr_per_block |-> f[k - 1]]), UNION {X[i] : i \in Digits})
<1> DEFINE g == [k \in 1..ptr_per_block |-> f[k - 1]]
           Y == [k \in 1..ptr_per_block |-> X[k - 1]]
<1>1. \A k \in 1..ptr_per_block : k - 1 \in Digits
  BY PointersAssumption DEF Digits
<1>2. \A i \in Digits : i + 1 \in 1..ptr_per_block /\ (i + 1) - 1 = i
  BY PointersAssumption DEF Digits
<1>3. \A k \in 1..ptr_per_block : Lists(g[k], Y[k])
  BY <1>1
<1>4. DOMAIN g = 1..ptr_per_block /\ g = [k \in 1..ptr_per_block |-> g[k]]
  OBVIOUS
<1>5. UNION {Y[k] : k \in 1..ptr_per_block} = UNION {X[i] : i \in Digits}
  <2>1. \A k \in 1..ptr_per_block : Y[k] = X[k - 1]
    OBVIOUS
  <2> HIDE DEF Y
  <2>2. ASSUME NEW i \in Digits
        PROVE  \E k \in 1..ptr_per_block : X[i] = Y[k]
    <3>1. PICK k : k = i + 1
      OBVIOUS
    <3>2. k \in 1..ptr_per_block /\ k - 1 = i
      BY <1>2, <3>1
    <3> QED BY <2>1, <3>2
  <2> QED BY <1>1, <2>1, <2>2
<1>6. ptr_per_block \in Nat
  BY PointersAssumption
<1> HIDE DEF g, Y
<1>7. Lists(FlattenSeq(g), UNION {Y[k] : k \in 1..ptr_per_block})
  BY <1>3, <1>4, <1>6, ListsAll
<1> QED BY <1>5, <1>7 DEF g

-----------------------------------------------------------------------------
(* What is listed of a file's blocks.                                      *)

Leaf(n, o, b) == [row |-> "INDIRECT", inum |-> n, level |-> 1, offset |-> o, ref |-> b]

Leaves1(d, n, o, b) ==
  IF b = 0 THEN {}
  ELSE {Leaf(n, o + i, d.ptr[b][i]) : i \in {i \in Digits : d.ptr[b][i] # 0}}
Leaves2(d, n, o, b) ==
  IF b = 0 THEN {} ELSE UNION {Leaves1(d, n, new_offset(2, o, i), d.ptr[b][i]) : i \in Digits}
Leaves3(d, n, o, b) ==
  IF b = 0 THEN {} ELSE UNION {Leaves2(d, n, new_offset(3, o, i), d.ptr[b][i]) : i \in Digits}

(* What the i-th pointer of a block adds to what is found below it.         *)
Found(d, level, n, o, b, i, below) ==
  IF d.ptr[b][i] = 0 THEN {}
  ELSE (IF level = 1 THEN {Leaf(n, o + i, d.ptr[b][i])} ELSE {}) \cup below

AllFound(d, level, n, o, b, below) ==
  UNION {Found(d, level, n, o, b, i, below[i]) : i \in Digits}

LEMMA IndirRows ==
  ASSUME NEW d, NEW level, NEW n, NEW o, NEW b, b # 0, NEW below, NEW X,
         \A i \in Digits : d.ptr[b][i] # 0 => Lists(below[i], X[i])
  PROVE  Lists(indir_rows(d, level, n, o, b, below), AllFound(d, level, n, o, b, X))
<1> DEFINE record(i) == [row |-> "INDIRECT", inum |-> n, level |-> level,
                         offset |-> o + i, ref |-> d.ptr[b][i]]
           f == [i \in Digits |-> IF d.ptr[b][i] = 0 THEN <<>> ELSE <<record(i)>> \o below[i]]
           Y == [i \in Digits |-> Found(d, level, n, o, b, i, X[i])]
<1>1. indir_rows(d, level, n, o, b, below) = FlattenSeq([k \in 1..ptr_per_block |-> f[k - 1]])
  <2>1. \A k \in 1..ptr_per_block : k - 1 \in Digits
    BY PointersAssumption DEF Digits
  <2>2. [k \in 1..ptr_per_block |-> f[k - 1]]
          = [k \in 1..ptr_per_block |-> IF d.ptr[b][k - 1] = 0 THEN <<>>
                                        ELSE <<record(k - 1)>> \o below[k - 1]]
    <3> HIDE DEF record
    <3> QED BY <2>1
  <2> HIDE DEF f
  <2> QED BY <2>2 DEF indir_rows
<1>2. ASSUME NEW i \in Digits
      PROVE  Lists(f[i], Y[i])
  <2>1. CASE d.ptr[b][i] = 0
    BY <2>1, ListsNothing DEF Found
  <2>2. CASE d.ptr[b][i] # 0
    <3>1. PICK r : r = record(i)
      OBVIOUS
    <3>2. /\ IsLeaf(r) <=> level = 1
          /\ level = 1 => r = Leaf(n, o + i, d.ptr[b][i])
      BY <3>1 DEF IsLeaf, Leaf
    <3>3. PICK Z : Z = IF IsLeaf(r) THEN {r} ELSE {}
      OBVIOUS
    <3>4. Lists(<<r>>, Z) /\ Lists(below[i], X[i])
      BY <2>2, <3>3, ListsOne
    <3>5. Lists(<<r>> \o below[i], Z \cup X[i])
      BY <3>4, ListsBoth
    <3>6. f[i] = <<r>> \o below[i]
      BY <2>2, <3>1
    <3>7. Y[i] = Z \cup X[i]
      BY <2>2, <3>2, <3>3 DEF Found
    <3> QED BY <3>5, <3>6, <3>7
  <2> QED BY <2>1, <2>2
<1>3. UNION {Y[i] : i \in Digits} = AllFound(d, level, n, o, b, X)
  BY DEF AllFound
<1> HIDE DEF f, Y
<1>4. Lists(FlattenSeq([k \in 1..ptr_per_block |-> f[k - 1]]), UNION {Y[i] : i \in Digits})
  BY <1>2, ListsDigits
<1> QED BY <1>1, <1>3, <1>4

LEMMA Level1 ==
  ASSUME NEW d, NEW n, NEW o, NEW b
  PROVE  Lists(read_indir_block_1(d, n, o, b), Leaves1(d, n, o, b))
<1>1. CASE b = 0
  BY <1>1, ListsNothing DEF read_indir_block_1, indir_rows, Leaves1
<1>2. CASE b # 0
  <2> DEFINE below == [i \in Digits |-> <<>>]
             X == [i \in Digits |-> {}]
  <2>1. \A i \in Digits : d.ptr[b][i] # 0 => Lists(below[i], X[i])
    BY ListsNothing
  <2>2. read_indir_block_1(d, n, o, b) = indir_rows(d, 1, n, o, b, below)
    BY DEF read_indir_block_1
  <2>3. AllFound(d, 1, n, o, b, X) = Leaves1(d, n, o, b)
    <3>1. \A i \in Digits : Found(d, 1, n, o, b, i, X[i]) =
             IF d.ptr[b][i] = 0 THEN {} ELSE {Leaf(n, o + i, d.ptr[b][i])}
      BY DEF Found
    <3> HIDE DEF X
    <3>2. ASSUME NEW r
          PROVE  r \in AllFound(d, 1, n, o, b, X) <=> r \in Leaves1(d, n, o, b)
      <4>1. r \in AllFound(d, 1, n, o, b, X) <=> \E i \in Digits : r \in Found(d, 1, n, o, b, i, X[i])
        BY DEF AllFound
      <4>2. r \in Leaves1(d, n, o, b) <=>
              \E i \in Digits : d.ptr[b][i] # 0 /\ r = Leaf(n, o + i, d.ptr[b][i])
        BY <1>2 DEF Leaves1
      <4> QED BY <3>1, <4>1, <4>2
    <3> QED BY <3>2
  <2> HIDE DEF below, X
  <2>4. Lists(indir_rows(d, 1, n, o, b, below), AllFound(d, 1, n, o, b, X))
    BY <1>2, <2>1, IndirRows
  <2> QED BY <2>2, <2>3, <2>4
<1> QED BY <1>1, <1>2

LEMMA Level2 ==
  ASSUME NEW d, NEW n, NEW o, NEW b
  PROVE  Lists(read_indir_block_2(d, n, o, b), Leaves2(d, n, o, b))
<1>1. CASE b = 0
  BY <1>1, ListsNothing DEF read_indir_block_2, indir_rows, Leaves2
<1>2. CASE b # 0
  <2> DEFINE below == [i \in Digits |-> read_indir_block_1(d, n, new_offset(2, o, i), d.ptr[b][i])]
             X == [i \in Digits |-> Leaves1(d, n, new_offset(2, o, i), d.ptr[b][i])]
  <2>1. \A i \in Digits : d.ptr[b][i] # 0 => Lists(below[i], X[i])
    BY Level1
  <2>2. read_indir_block_2(d, n, o, b) = indir_rows(d, 2, n, o, b, below)
    BY DEF read_indir_block_2
  <2>3. AllFound(d, 2, n, o, b, X) = Leaves2(d, n, o, b)
    <3>1. \A i \in Digits : d.ptr[b][i] = 0 => X[i] = {}
      BY DEF Leaves1
    <3>2. AllFound(d, 2, n, o, b, X) = UNION {X[i] : i \in Digits}
      <4> HIDE DEF X
      <4>1. \A i \in Digits : Found(d, 2, n, o, b, i, X[i]) = X[i]
        BY <3>1 DEF Found
      <4> QED BY <4>1 DEF AllFound
    <3>3. UNION {X[i] : i \in Digits} = Leaves2(d, n, o, b)
      BY <1>2 DEF Leaves2
    <3> QED BY <3>2, <3>3
  <2> HIDE DEF below, X
  <2>4. Lists(indir_rows(d, 2, n, o, b, below), AllFound(d, 2, n, o, b, X))
    BY <1>2, <2>1, IndirRows
  <2> QED BY <2>2, <2>3, <2>4
<1> QED BY <1>1, <1>2

LEMMA Level3 ==
  ASSUME NEW d, NEW n, NEW o, NEW b
  PROVE  Lists(read_indir_block_3(d, n, o, b), Leaves3(d, n, o, b))
<1>1. CASE b = 0
  BY <1>1, ListsNothing DEF read_indir_block_3, indir_rows, Leaves3
<1>2. CASE b # 0
  <2> DEFINE below == [i \in Digits |-> read_indir_block_2(d, n, new_offset(3, o, i), d.ptr[b][i])]
             X == [i \in Digits |-> Leaves2(d, n, new_offset(3, o, i), d.ptr[b][i])]
  <2>1. \A i \in Digits : d.ptr[b][i] # 0 => Lists(below[i], X[i])
    BY Level2
  <2>2. read_indir_block_3(d, n, o, b) = indir_rows(d, 3, n, o, b, below)
    BY DEF read_indir_block_3
  <2>3. AllFound(d, 3, n, o, b, X) = Leaves3(d, n, o, b)
    <3>1. \A i \in Digits : d.ptr[b][i] = 0 => X[i] = {}
      BY DEF Leaves2
    <3>2. AllFound(d, 3, n, o, b, X) = UNION {X[i] : i \in Digits}
      <4> HIDE DEF X
      <4>1. \A i \in Digits : Found(d, 3, n, o, b, i, X[i]) = X[i]
        BY <3>1 DEF Found
      <4> QED BY <4>1 DEF AllFound
    <3>3. UNION {X[i] : i \in Digits} = Leaves3(d, n, o, b)
      BY <1>2 DEF Leaves3
    <3> QED BY <3>2, <3>3
  <2> HIDE DEF below, X
  <2>4. Lists(indir_rows(d, 3, n, o, b, below), AllFound(d, 3, n, o, b, X))
    BY <1>2, <2>1, IndirRows
  <2> QED BY <2>2, <2>3, <2>4
<1> QED BY <1>1, <1>2

-----------------------------------------------------------------------------
(* What else is listed.                                                    *)

LEMMA ListsNone ==
  ASSUME NEW n \in Nat, NEW f, DOMAIN f = 1..n, f = [i \in 1..n |-> f[i]],
         \A i \in 1..n : Lists(f[i], {})
  PROVE  Lists(FlattenSeq(f), {})
<1> DEFINE X == [i \in 1..n |-> {}]
<1>1. \A i \in 1..n : Lists(f[i], X[i])
  OBVIOUS
<1>2. UNION {X[i] : i \in 1..n} = {}
  OBVIOUS
<1> HIDE DEF X
<1>3. Lists(FlattenSeq(f), UNION {X[i] : i \in 1..n})
  BY <1>1, ListsAll
<1> QED BY <1>2, <1>3

LEMMA ListsOther ==
  ASSUME NEW r, ~IsLeaf(r)
  PROVE  Lists(<<r>>, {})
<1>1. PICK Z : Z = IF IsLeaf(r) THEN {r} ELSE {}
  OBVIOUS
<1>2. Lists(<<r>>, Z) /\ Z = {}
  BY <1>1, ListsOne
<1> QED BY <1>2

LEMMA PointersLead ==
  ASSUME NEW d, IsDisk(d), NEW b \in Data, NEW i \in Digits
  PROVE  d.ptr[b][i] \in Data \cup {0}
<1>1. b \in 1..(blocks_count - 1)
  BY BoundsAssumption, CountsAssumption DEF Data
<1>2. d.ptr \in [1..(blocks_count - 1) -> [Digits -> Data \cup {0}]]
  BY DEF IsDisk
<1> QED BY <1>1, <1>2

(* An entry of a directory is none of them.                                *)
LEMMA Dirents0 ==
  ASSUME NEW d, IsDisk(d), NEW n, NEW b \in Data \cup {0}
  PROVE  Lists(read_dinode_0(d, n, b), {})
<1>1. CASE b = 0
  BY <1>1, ListsNothing DEF read_dinode_0
<1>2. CASE b # 0
  <2>1. PICK m \in Nat : m = Len(d.dir[b])
    <3>1. b \in 1..(blocks_count - 1)
      BY <1>2, BoundsAssumption, CountsAssumption DEF Data
    <3>2. d.dir \in [1..(blocks_count - 1) -> Seq([inode : Nat, name : STRING])]
      BY DEF IsDisk
    <3> QED BY <3>1, <3>2, LenProperties
  <2> DEFINE rec(j) == [row |-> "DIRENT", parent |-> n, child |-> d.dir[b][j].inode,
                        name |-> d.dir[b][j].name]
             f == [j \in 1..m |-> IF d.dir[b][j].inode = 0 THEN <<>> ELSE <<rec(j)>>]
  <2>2. read_dinode_0(d, n, b) = FlattenSeq(f)
    BY <1>2, <2>1 DEF read_dinode_0
  <2>3. ASSUME NEW j \in 1..m
        PROVE  Lists(f[j], {})
    <3>1. CASE d.dir[b][j].inode = 0
      BY <3>1, ListsNothing
    <3>2. CASE d.dir[b][j].inode # 0
      <4>1. PICK r : r = rec(j)
        OBVIOUS
      <4>2. ~IsLeaf(r)
        BY <4>1 DEF IsLeaf
      <4>3. Lists(<<r>>, {})
        BY <4>2, ListsOther
      <4>4. f[j] = <<r>>
        BY <3>2, <4>1
      <4> QED BY <4>3, <4>4
    <3> QED BY <3>1, <3>2
  <2>4. DOMAIN f = 1..m /\ f = [j \in 1..m |-> f[j]]
    OBVIOUS
  <2> HIDE DEF f
  <2>5. Lists(FlattenSeq(f), {})
    BY <2>3, <2>4, ListsNone
  <2> QED BY <2>2, <2>5
<1> QED BY <1>1, <1>2

LEMMA DinodeRows ==
  ASSUME NEW b, b # 0, NEW below, \A i \in Digits : Lists(below[i], {})
  PROVE  Lists(dinode_rows(b, below), {})
<1> DEFINE X == [i \in Digits |-> {}]
<1>1. \A i \in Digits : Lists(below[i], X[i])
  OBVIOUS
<1>2. UNION {X[i] : i \in Digits} = {}
  OBVIOUS
<1>3. dinode_rows(b, below) = FlattenSeq([k \in 1..ptr_per_block |-> below[k - 1]])
  BY DEF dinode_rows
<1> HIDE DEF X
<1>4. Lists(FlattenSeq([k \in 1..ptr_per_block |-> below[k - 1]]), UNION {X[i] : i \in Digits})
  BY <1>1, ListsDigits
<1> QED BY <1>2, <1>3, <1>4

LEMMA Dirents1 ==
  ASSUME NEW d, IsDisk(d), NEW n, NEW b \in Data \cup {0}
  PROVE  Lists(read_dinode_1(d, n, b), {})
<1>1. CASE b = 0
  BY <1>1, ListsNothing DEF read_dinode_1, dinode_rows
<1>2. CASE b # 0
  <2> DEFINE below == [i \in Digits |-> read_dinode_0(d, n, d.ptr[b][i])]
  <2>1. ASSUME NEW i \in Digits
        PROVE  Lists(below[i], {})
    <3>1. d.ptr[b][i] \in Data \cup {0}
      BY <1>2, PointersLead
    <3> QED BY <3>1, Dirents0
  <2>2. read_dinode_1(d, n, b) = dinode_rows(b, below)
    BY DEF read_dinode_1
  <2> HIDE DEF below
  <2> QED BY <1>2, <2>1, <2>2, DinodeRows
<1> QED BY <1>1, <1>2

LEMMA Dirents2 ==
  ASSUME NEW d, IsDisk(d), NEW n, NEW b \in Data \cup {0}
  PROVE  Lists(read_dinode_2(d, n, b), {})
<1>1. CASE b = 0
  BY <1>1, ListsNothing DEF read_dinode_2, dinode_rows
<1>2. CASE b # 0
  <2> DEFINE below == [i \in Digits |-> read_dinode_1(d, n, d.ptr[b][i])]
  <2>1. ASSUME NEW i \in Digits
        PROVE  Lists(below[i], {})
    <3>1. d.ptr[b][i] \in Data \cup {0}
      BY <1>2, PointersLead
    <3> QED BY <3>1, Dirents1
  <2>2. read_dinode_2(d, n, b) = dinode_rows(b, below)
    BY DEF read_dinode_2
  <2> HIDE DEF below
  <2> QED BY <1>2, <2>1, <2>2, DinodeRows
<1> QED BY <1>1, <1>2

LEMMA Dirents3 ==
  ASSUME NEW d, IsDisk(d), NEW n, NEW b \in Data \cup {0}
  PROVE  Lists(read_dinode_3(d, n, b), {})
<1>1. CASE b = 0
  BY <1>1, ListsNothing DEF read_dinode_3, dinode_rows
<1>2. CASE b # 0
  <2> DEFINE below == [i \in Digits |-> read_dinode_2(d, n, d.ptr[b][i])]
  <2>1. ASSUME NEW i \in Digits
        PROVE  Lists(below[i], {})
    <3>1. d.ptr[b][i] \in Data \cup {0}
      BY <1>2, PointersLead
    <3> QED BY <3>1, Dirents2
  <2>2. read_dinode_3(d, n, b) = dinode_rows(b, below)
    BY DEF read_dinode_3
  <2> HIDE DEF below
  <2> QED BY <1>2, <2>1, <2>2, DinodeRows
<1> QED BY <1>1, <1>2

LEMMA FreeBlocks == ASSUME NEW d PROVE Lists(free_blocks(d), {})
<1> DEFINE rec(b) == [row |-> "BFREE", block |-> b]
           f == [b \in 1..(blocks_count - 1) |-> IF b \in d.ubit THEN <<>> ELSE <<rec(b)>>]
<1>1. free_blocks(d) = FlattenSeq(f)
  BY DEF free_blocks
<1>2. PICK m \in Nat : 1..(blocks_count - 1) = 1..m
  <2>1. CASE blocks_count = 0
    <3>1. 1..(blocks_count - 1) = 1..0
      BY <2>1
    <3> QED BY <3>1
  <2>2. CASE blocks_count # 0
    <3>1. blocks_count - 1 \in Nat
      BY <2>2, CountsAssumption
    <3> QED BY <3>1
  <2> QED BY <2>1, <2>2
<1>3. ASSUME NEW b \in 1..m
      PROVE  Lists(f[b], {})
  <2>1. CASE b \in d.ubit
    BY <1>2, <2>1, ListsNothing
  <2>2. CASE b \notin d.ubit
    <3>1. PICK r : r = rec(b)
      OBVIOUS
    <3>2. ~IsLeaf(r)
      BY <3>1 DEF IsLeaf
    <3>3. Lists(<<r>>, {}) /\ f[b] = <<r>>
      BY <1>2, <2>2, <3>1, <3>2, ListsOther
    <3> QED BY <3>3
  <2> QED BY <2>1, <2>2
<1>4. DOMAIN f = 1..m /\ f = [b \in 1..m |-> f[b]]
  BY <1>2
<1> HIDE DEF f
<1>5. Lists(FlattenSeq(f), {})
  BY <1>3, <1>4, ListsNone
<1> QED BY <1>1, <1>5

-----------------------------------------------------------------------------
(* What is listed of an image.                                             *)

LeavesOf(d, n) ==
  LET node == d.inode[n]
      P == ptr_per_block
  IN  IF node.type # "f" \/ node.links = 0 THEN {}
      ELSE Leaves1(d, n, 12, node.block[12])
             \cup Leaves2(d, n, 12 + P, node.block[13])
             \cup Leaves3(d, n, 12 + P + P * P, node.block[14])

LEMMA InodeIs ==
  ASSUME NEW d, IsDisk(d), NEW n \in 1..inodes_count
  PROVE  /\ d.inode[n].type \in {"none", "f", "d", "s"} /\ d.inode[n].links \in Nat
         /\ d.inode[n].block \in [0..14 -> Nat]
         /\ d.inode[n].type = "f" => \A k \in 12..14 : d.inode[n].block[k] \in Data \cup {0}
         /\ d.inode[n].type = "d" => \A k \in 0..14 : d.inode[n].block[k] \in Data \cup {0}
<1>1. n \in 1..(inodes_count + 1)
  BY CountsAssumption
<1>2. d.inode \in [1..(inodes_count + 1) -> Nodes]
  BY DEF IsDisk
<1>3. d.inode[n] \in Nodes
  BY <1>1, <1>2
<1>4. d.inode[n].type = "f" => \A k \in 12..14 : d.inode[n].block[k] \in Data \cup {0}
  BY DEF IsDisk
<1>5. d.inode[n].type = "d" => \A k \in 0..14 : d.inode[n].block[k] \in Data \cup {0}
  BY DEF IsDisk
<1> QED BY <1>3, <1>4, <1>5 DEF Nodes

LEMMA Directory ==
  ASSUME NEW d, IsDisk(d), NEW n \in 1..inodes_count, NEW node, node = d.inode[n],
         node.type = "d"
  PROVE  Lists(contents(d, n, node), {})
<1> DEFINE f == [k \in 1..12 |-> read_dinode_0(d, n, node.block[k - 1])]
<1>1. \A k \in 0..14 : node.block[k] \in Data \cup {0}
  BY InodeIs
<1>2. ASSUME NEW k \in 1..12
      PROVE  Lists(f[k], {})
  <2>1. k - 1 \in 0..14
    OBVIOUS
  <2> QED BY <1>1, <2>1, Dirents0
<1>3. DOMAIN f = 1..12 /\ f = [k \in 1..12 |-> f[k]]
  OBVIOUS
<1> DEFINE s0 == FlattenSeq(f)
           s1 == read_dinode_1(d, n, node.block[12])
           s2 == read_dinode_2(d, n, node.block[13])
           s3 == read_dinode_3(d, n, node.block[14])
<1>4. contents(d, n, node) = s0 \o s1 \o s2 \o s3
  BY DEF contents
<1>5. Lists(s0, {})
  <2> HIDE DEF f
  <2> QED BY <1>2, <1>3, ListsNone
<1>6. Lists(s1, {}) /\ Lists(s2, {}) /\ Lists(s3, {})
  BY <1>1, Dirents1, Dirents2, Dirents3
<1> HIDE DEF s0, s1, s2, s3
<1>7. PICK Z : Z = {}
  OBVIOUS
<1>8. Lists(s0 \o s1, Z \cup Z)
  BY <1>5, <1>6, <1>7, ListsBoth
<1>9. Lists((s0 \o s1) \o s2, (Z \cup Z) \cup Z)
  BY <1>6, <1>7, <1>8, ListsBoth
<1>10. Lists(((s0 \o s1) \o s2) \o s3, ((Z \cup Z) \cup Z) \cup Z)
  BY <1>6, <1>7, <1>9, ListsBoth
<1>11. ((Z \cup Z) \cup Z) \cup Z = {}
  BY <1>7
<1> QED BY <1>4, <1>10, <1>11

LEMMA File ==
  ASSUME NEW d, NEW n, NEW node, node = d.inode[n], node.type = "f", node.links # 0
  PROVE  Lists(contents(d, n, node), LeavesOf(d, n))
<1> DEFINE P == ptr_per_block
           s1 == read_indir_block_1(d, n, 12, node.block[12])
           s2 == read_indir_block_2(d, n, 12 + P, node.block[13])
           s3 == read_indir_block_3(d, n, 12 + P + P * P, node.block[14])
           X1 == Leaves1(d, n, 12, node.block[12])
           X2 == Leaves2(d, n, 12 + P, node.block[13])
           X3 == Leaves3(d, n, 12 + P + P * P, node.block[14])
<1>1. contents(d, n, node) = s1 \o s2 \o s3
  BY DEF contents
<1>2. LeavesOf(d, n) = X1 \cup X2 \cup X3
  BY DEF LeavesOf
<1>3. Lists(s1, X1) /\ Lists(s2, X2) /\ Lists(s3, X3)
  BY Level1, Level2, Level3
<1> HIDE DEF s1, s2, s3, X1, X2, X3
<1>4. Lists(s1 \o s2, X1 \cup X2)
  BY <1>3, ListsBoth
<1>5. Lists((s1 \o s2) \o s3, (X1 \cup X2) \cup X3)
  BY <1>3, <1>4, ListsBoth
<1> QED BY <1>1, <1>2, <1>5

LEMMA ReadInode ==
  ASSUME NEW d, IsDisk(d), NEW m \in 1..inodes_count
  PROVE  Lists(read_inode(d, m), LeavesOf(d, m + 1))
<1>1. PICK n \in 1..(inodes_count + 1) : n = m + 1
  BY CountsAssumption
<1>2. PICK node : node = d.inode[n]
  OBVIOUS
<1>3. CASE node.type = "none" \/ node.links = 0
  <2>1. read_inode(d, m) = <<>> /\ LeavesOf(d, n) = {}
    BY <1>1, <1>2, <1>3 DEF read_inode, LeavesOf
  <2> QED BY <1>1, <2>1, ListsNothing
<1>4. CASE node.type # "none" /\ node.links # 0
  <2>1. n \in 1..inodes_count
    <3>1. n # inodes_count + 1
      BY <1>2, <1>4 DEF IsDisk
    <3> QED BY <1>1, <3>1, CountsAssumption
  <2> DEFINE r == [row |-> "INODE", inum |-> n, type |-> node.type, mode |-> node.perm,
                   links |-> node.links,
                   blocks |-> IF node.type = "s" THEN <<>>
                              ELSE [k \in 1..15 |-> node.block[k - 1]]]
  <2>2. read_inode(d, m) = <<r>> \o contents(d, n, node)
    BY <1>1, <1>2, <1>4 DEF read_inode
  <2>3. ~IsLeaf(r)
    BY DEF IsLeaf
  <2> HIDE DEF r
  <2>4. Lists(contents(d, n, node), LeavesOf(d, n))
    <3>1. CASE node.type = "d"
      <4>1. LeavesOf(d, n) = {}
        BY <1>2, <3>1 DEF LeavesOf
      <4> QED BY <1>2, <2>1, <3>1, <4>1, Directory
    <3>2. CASE node.type = "f"
      BY <1>2, <1>4, <3>2, File
    <3>3. CASE node.type = "s"
      BY <1>2, <3>3, ListsNothing DEF contents, LeavesOf
    <3> QED BY <1>2, <1>4, <2>1, <3>1, <3>2, <3>3, InodeIs
  <2>5. PICK Z : Z = {}
    OBVIOUS
  <2>6. Lists(<<r>>, Z)
    BY <2>3, <2>5, ListsOther
  <2>7. Lists(<<r>> \o contents(d, n, node), Z \cup LeavesOf(d, n))
    BY <2>4, <2>6, ListsBoth
  <2>8. Z \cup LeavesOf(d, n) = LeavesOf(d, n)
    BY <2>5
  <2> QED BY <1>1, <2>2, <2>7, <2>8
<1> QED BY <1>3, <1>4

LEMMA MainLists ==
  ASSUME NEW d, IsDisk(d)
  PROVE  Lists(main(d), UNION {LeavesOf(d, n + 1) : n \in d.ibit})
<1> DEFINE rec(n) == [row |-> "IFREE", inum |-> n]
           f == [n \in 1..inodes_count |-> IF n \in d.ibit THEN read_inode(d, n) ELSE <<rec(n)>>]
           X == [n \in 1..inodes_count |-> IF n \in d.ibit THEN LeavesOf(d, n + 1) ELSE {}]
<1>1. main(d) = free_blocks(d) \o FlattenSeq(f)
  BY DEF main
<1>2. ASSUME NEW n \in 1..inodes_count
      PROVE  Lists(f[n], X[n])
  <2>1. CASE n \in d.ibit
    BY <2>1, ReadInode
  <2>2. CASE n \notin d.ibit
    <3>1. PICK r : r = rec(n)
      OBVIOUS
    <3>2. ~IsLeaf(r)
      BY <3>1 DEF IsLeaf
    <3>3. Lists(<<r>>, {}) /\ f[n] = <<r>> /\ X[n] = {}
      BY <2>2, <3>1, <3>2, ListsOther
    <3> QED BY <3>3
  <2> QED BY <2>1, <2>2
<1>3. DOMAIN f = 1..inodes_count /\ f = [n \in 1..inodes_count |-> f[n]]
  OBVIOUS
<1>4. UNION {X[n] : n \in 1..inodes_count} = UNION {LeavesOf(d, n + 1) : n \in d.ibit}
  <2>1. \A n \in d.ibit : n \in 1..inodes_count
    BY DEF IsDisk
  <2>2. \A n \in 1..inodes_count : X[n] = IF n \in d.ibit THEN LeavesOf(d, n + 1) ELSE {}
    OBVIOUS
  <2> HIDE DEF X
  <2> QED BY <2>1, <2>2
<1> HIDE DEF f, X
<1>5. Lists(FlattenSeq(f), UNION {X[n] : n \in 1..inodes_count})
  BY <1>2, <1>3, CountsAssumption, ListsAll
<1>6. PICK Z : Z = {}
  OBVIOUS
<1>7. Lists(free_blocks(d), Z)
  BY <1>6, FreeBlocks
<1>8. PICK W : W = UNION {X[n] : n \in 1..inodes_count}
  OBVIOUS
<1>9. Lists(free_blocks(d) \o FlattenSeq(f), Z \cup W)
  BY <1>5, <1>7, <1>8, ListsBoth
<1>10. Z \cup W = UNION {LeavesOf(d, n + 1) : n \in d.ibit}
  BY <1>4, <1>6, <1>8
<1> QED BY <1>1, <1>9, <1>10

-----------------------------------------------------------------------------
(* The place of a data block in its file.                                  *)

(* A number of one digit more, in base ptr_per_block.                       *)
Num(a, i) == a * ptr_per_block + i

LEMMA NumIs == ASSUME NEW a \in Nat, NEW i \in Digits PROVE Num(a, i) \in Nat
BY PointersAssumption DEF Num, Digits

LEMMA NumOrder ==
  ASSUME NEW a \in Nat, NEW b \in Nat, NEW i \in Digits, NEW j \in Digits
  PROVE  /\ Num(a, i) < Num(b, j) <=> a < b \/ (a = b /\ i < j)
         /\ Num(a, i) = Num(b, j) => a = b /\ i = j
<1>1. PICK P \in Nat \ {0} : P = ptr_per_block /\ Digits = 0..(P - 1)
  BY PointersAssumption DEF Digits
<1>2. ASSUME NEW x \in Nat, NEW y \in Nat, x < y
      PROVE  x * P + P <= y * P
  <2>1. PICK z \in Nat : y = x + 1 + z
    <3>1. y - x - 1 \in Nat /\ y = x + 1 + (y - x - 1)
      BY <1>2
    <3> QED BY <3>1
  <2>2. y * P = x * P + P + z * P /\ z * P \in Nat /\ x * P \in Nat
    BY <2>1
  <2> QED BY <2>2
<1>3. a * P \in Nat /\ b * P \in Nat
  OBVIOUS
<1>4. a < b => a * P + P <= b * P
  BY <1>2
<1>5. b < a => b * P + P <= a * P
  BY <1>2
<1>6. PICK u \in Nat, v \in Nat : u = a * P /\ v = b * P
  BY <1>3
<1>7. u + i < v + j <=> a < b \/ (a = b /\ i < j)
  BY <1>1, <1>4, <1>5, <1>6
<1>8. u + i = v + j => a = b /\ i = j
  BY <1>1, <1>4, <1>5, <1>6
<1>9. Num(a, i) = u + i /\ Num(b, j) = v + j
  BY <1>1, <1>6 DEF Num
<1> QED BY <1>7, <1>8, <1>9

LEMMA LastDigit ==
  ASSUME NEW c \in Nat, NEW w \in Nat, w < Num(c, 0)
  PROVE  \E a \in 0..(c - 1), i \in Digits : w = Num(a, i)
<1>1. PICK P \in Nat \ {0} : P = ptr_per_block /\ Digits = 0..(P - 1)
  BY PointersAssumption DEF Digits
<1>2. PICK a \in Nat, i \in Digits : w = Num(a, i)
  <2>1. w \div P \in Nat /\ w % P \in 0..(P - 1) /\ w = (w \div P) * P + (w % P)
    OBVIOUS
  <2> QED BY <1>1, <2>1 DEF Num
<1>3. 0 \in Digits /\ i \in Int /\ 0 <= i
  BY <1>1
<1>4. a < c
  BY <1>2, <1>3, NumOrder
<1> QED BY <1>2, <1>4

Position(k, p) ==
  LET P == ptr_per_block
  IN  CASE k = 12 -> p[1]
        [] k = 13 -> P + p[1] * P + p[2]
        [] k = 14 -> P + P * P + (p[1] * P + p[2]) * P + p[3]

Slots(n) == {x \in Places : x[1] = n /\ IsSlot(x)}

LEMMA SlotsAre ==
  ASSUME NEW n \in Owners
  PROVE  /\ \A x \in Slots(n) : \E m \in 1..3 : \E p \in [1..m -> Digits] : x = <<n, 11 + m, p>>
         /\ \A m \in 1..3 : \A p \in [1..m -> Digits] : <<n, 11 + m, p>> \in Slots(n)
<1>0. \A m \in Nat : \A p \in [1..m -> Digits] : p \in Seq(Digits) /\ Len(p) = m
  OBVIOUS
<1>1. ASSUME NEW x \in Slots(n)
      PROVE  \E m \in 1..3 : \E p \in [1..m -> Digits] : x = <<n, 11 + m, p>>
  <2>1. x \in Places /\ x[1] = n /\ x[2] >= 12 /\ Len(x[3]) = x[2] - 11
    BY DEF Slots, IsSlot
  <2>2. PICK o \in Owners :
          x \in {<<o, k, <<>>>> : k \in 0..14} \cup {<<o, k, p>> : k \in 12..14, p \in Paths(3)}
    BY <2>1 DEF Places
  <2>3. CASE x \in {<<o, k, <<>>>> : k \in 0..14}
    <3>1. PICK k \in 0..14 : x = <<o, k, <<>>>>
      BY <2>3
    <3>2. Len(x[3]) = 0 /\ x[2] = k
      BY <3>1
    <3> QED BY <2>1, <3>2
  <2>4. CASE x \in {<<o, k, p>> : k \in 12..14, p \in Paths(3)}
    <3>1. PICK k \in 12..14, p \in Paths(3) : x = <<o, k, p>>
      BY <2>4
    <3>2. PICK m \in 0..3 : p \in [1..m -> Digits]
      BY DEF Paths
    <3>3. Len(p) = m
      BY <1>0, <3>2
    <3>4. x[1] = o /\ x[2] = k /\ x[3] = p
      BY <3>1
    <3>5. o = n /\ m = k - 11
      BY <2>1, <3>3, <3>4
    <3>6. m \in 1..3 /\ k = 11 + m
      BY <3>5
    <3> QED BY <3>1, <3>2, <3>5, <3>6
  <2> QED BY <2>2, <2>3, <2>4
<1>2. ASSUME NEW m \in 1..3, NEW p \in [1..m -> Digits]
      PROVE  <<n, 11 + m, p>> \in Slots(n)
  <2>1. p \in Paths(3) /\ 11 + m \in 12..14
    BY DEF Paths
  <2>2. PICK x : x = <<n, 11 + m, p>>
    OBVIOUS
  <2>3. x \in Places
    <3>1. x \in {<<n, k, q>> : k \in 12..14, q \in Paths(3)}
      BY <2>1, <2>2
    <3> QED BY <3>1 DEF Places
  <2>4. x[1] = n /\ x[2] = 11 + m /\ x[3] = p
    BY <2>2
  <2>5. Len(p) = m
    BY <1>0
  <2>6. IsSlot(x)
    BY <2>1, <2>4, <2>5 DEF IsSlot
  <2> QED BY <2>2, <2>3, <2>4, <2>6 DEF Slots
<1> QED BY <1>1, <1>2

(* A place's digits as a number.                                           *)
Two(p) == Num(p[1], p[2])
Three(p) == Num(Two(p), p[3])
Square == Num(ptr_per_block, 0)

LEMMA SquareIs ==
  /\ ptr_per_block \in Nat \ {0} /\ 0 \in Digits /\ Square \in Nat
  /\ Square = ptr_per_block * ptr_per_block
  /\ \A i \in Digits : i \in Nat /\ i < ptr_per_block
BY PointersAssumption DEF Square, Num, Digits

LEMMA PositionIs ==
  ASSUME NEW m \in 1..3, NEW p \in [1..m -> Digits]
  PROVE  /\ \A i \in 1..m : p[i] \in Digits /\ p[i] \in Nat
         /\ m = 1 => Position(11 + m, p) = p[1] /\ p[1] < ptr_per_block
         /\ m = 2 => /\ Position(11 + m, p) = ptr_per_block + Two(p)
                     /\ Two(p) \in Nat /\ Two(p) < Square
         /\ m = 3 => /\ Position(11 + m, p) = ptr_per_block + Square + Three(p)
                     /\ Two(p) \in Nat /\ Two(p) < Square /\ Three(p) \in Nat
         /\ Position(11 + m, p) \in Nat
<1>1. \A i \in 1..m : p[i] \in Digits /\ p[i] \in Nat /\ p[i] < ptr_per_block
  BY SquareIs
<1>2. PICK P \in Nat \ {0}, Q \in Nat : P = ptr_per_block /\ Q = Square /\ Q = P * P
  BY SquareIs
<1>3. CASE m = 1
  <2>1. Position(11 + m, p) = p[1] /\ p[1] \in Nat
    BY <1>1, <1>3 DEF Position
  <2> QED BY <1>1, <1>3, <2>1
<1>4. ASSUME m # 1
      PROVE  Two(p) \in Nat /\ Two(p) < Square /\ Two(p) = p[1] * P + p[2]
  <2>1. p[1] \in Nat /\ p[1] < ptr_per_block /\ p[1] \in Digits /\ p[2] \in Digits
    BY <1>1, <1>4
  <2>2. Num(p[1], p[2]) \in Nat /\ Num(p[1], p[2]) < Num(ptr_per_block, 0)
    <3>1. PICK a \in Nat, b \in Digits, z \in Digits, c \in Nat :
            a = p[1] /\ b = p[2] /\ z = 0 /\ c = ptr_per_block /\ a < c
      BY <2>1, SquareIs
    <3>2. a < c
      BY <3>1
    <3>3. Num(a, b) \in Nat
      BY NumIs
    <3>4. Num(a, b) < Num(c, z)
      BY <3>2, NumOrder
    <3> QED BY <3>1, <3>3, <3>4
  <2>3. Num(p[1], p[2]) = p[1] * P + p[2]
    BY <1>2 DEF Num
  <2> QED BY <2>2, <2>3 DEF Two, Square
<1>5. CASE m = 2
  <2>1. PICK w \in Nat : w = Two(p)
    BY <1>4, <1>5
  <2>2. Position(11 + m, p) = P + p[1] * P + p[2]
    BY <1>2, <1>5 DEF Position
  <2>3. p[1] * P \in Nat /\ p[2] \in Nat
    BY <1>1, <1>5
  <2>4. Position(11 + m, p) = P + w
    BY <1>4, <1>5, <2>1, <2>2, <2>3
  <2> QED BY <1>1, <1>2, <1>4, <1>5, <2>1, <2>4
<1>6. CASE m = 3
  <2>1. PICK w \in Nat : w = Two(p) /\ w = p[1] * P + p[2]
    BY <1>4, <1>6
  <2>2. p[3] \in Nat /\ p[3] \in Digits
    BY <1>1, <1>6
  <2>3. PICK v \in Nat : v = Three(p) /\ v = w * P + p[3]
    <3>1. Num(w, p[3]) \in Nat /\ Num(w, p[3]) = w * P + p[3]
      BY <1>2, <2>2, NumIs DEF Num
    <3> QED BY <2>1, <3>1 DEF Three
  <2>4. Position(11 + m, p) = P + P * P + w * P + p[3]
    BY <1>2, <1>6, <2>1 DEF Position
  <2>5. w * P \in Nat
    BY <2>1
  <2>6. Position(11 + m, p) = P + Q + v
    BY <1>2, <2>2, <2>3, <2>4, <2>5
  <2> QED BY <1>1, <1>2, <1>4, <1>6, <2>1, <2>3, <2>6
<1> QED BY <1>3, <1>5, <1>6

LEMMA TwoOrder ==
  ASSUME NEW m \in 2..3, NEW p \in [1..m -> Digits], NEW q \in [1..m -> Digits]
  PROVE  /\ Two(q) < Two(p) <=> q[1] < p[1] \/ (q[1] = p[1] /\ q[2] < p[2])
         /\ Two(q) = Two(p) <=> q[1] = p[1] /\ q[2] = p[2]
<1>1. /\ p[1] \in Nat /\ p[2] \in Digits /\ q[1] \in Nat /\ q[2] \in Digits
  BY SquareIs
<1>2. PICK a \in Nat, b \in Digits, c \in Nat, e \in Digits :
        a = p[1] /\ b = p[2] /\ c = q[1] /\ e = q[2]
  BY <1>1
<1>3. Two(p) = Num(a, b) /\ Two(q) = Num(c, e)
  BY <1>2 DEF Two
<1>4. /\ Num(c, e) < Num(a, b) <=> c < a \/ (c = a /\ e < b)
      /\ Num(c, e) = Num(a, b) => c = a /\ e = b
  BY NumOrder
<1> QED BY <1>2, <1>3, <1>4

LEMMA ThreeOrder ==
  ASSUME NEW p \in [1..3 -> Digits], NEW q \in [1..3 -> Digits]
  PROVE  /\ Three(q) < Three(p) <=> Two(q) < Two(p) \/ (Two(q) = Two(p) /\ q[3] < p[3])
         /\ Three(q) = Three(p) <=> Two(q) = Two(p) /\ q[3] = p[3]
<1>1. /\ Two(p) \in Nat /\ p[3] \in Digits /\ Two(q) \in Nat /\ q[3] \in Digits
  BY PositionIs
<1>2. PICK a \in Nat, b \in Digits, c \in Nat, e \in Digits :
        a = Two(p) /\ b = p[3] /\ c = Two(q) /\ e = q[3]
  BY <1>1
<1>3. Three(p) = Num(a, b) /\ Three(q) = Num(c, e)
  BY <1>2 DEF Three
<1>4. /\ Num(c, e) < Num(a, b) <=> c < a \/ (c = a /\ e < b)
      /\ Num(c, e) = Num(a, b) => c = a /\ e = b
  BY NumOrder
<1> QED BY <1>2, <1>3, <1>4

LEMMA Ordered ==
  ASSUME NEW n, NEW m \in 1..3, NEW p \in [1..m -> Digits],
         NEW l \in 1..3, NEW q \in [1..l -> Digits]
  PROVE  /\ Before(<<n, 11 + l, q>>, <<n, 11 + m, p>>) <=> Position(11 + l, q) < Position(11 + m, p)
         /\ Position(11 + l, q) = Position(11 + m, p) => l = m /\ q = p
<1>1. PICK P \in Nat \ {0}, Q \in Nat : P = ptr_per_block /\ Q = Square
  BY SquareIs
<1>2. PICK x \in Nat, y \in Nat : x = Position(11 + m, p) /\ y = Position(11 + l, q)
  BY PositionIs
<1>p. /\ \A i \in 1..m : p[i] \in Nat
      /\ m = 1 => x = p[1] /\ p[1] < P
      /\ m = 2 => x = P + Two(p) /\ Two(p) \in Nat /\ Two(p) < Q
      /\ m = 3 => x = P + Q + Three(p) /\ Two(p) \in Nat /\ Three(p) \in Nat
  BY <1>1, <1>2, PositionIs
<1>q. /\ \A i \in 1..l : q[i] \in Nat
      /\ l = 1 => y = q[1] /\ q[1] < P
      /\ l = 2 => y = P + Two(q) /\ Two(q) \in Nat /\ Two(q) < Q
      /\ l = 3 => y = P + Q + Three(q) /\ Two(q) \in Nat /\ Three(q) \in Nat
  BY <1>1, <1>2, PositionIs
<1>3. Before(<<n, 11 + l, q>>, <<n, 11 + m, p>>) <=>
        \/ l < m
        \/ l = m /\ \E i \in 1..l : q[i] < p[i] /\ \A j \in 1..(i - 1) : q[j] = p[j]
  <2>1. Len(q) = l
    <3>1. \A k \in Nat : \A f \in [1..k -> Digits] : Len(f) = k
      OBVIOUS
    <3> QED BY <3>1
  <2>2. (11 + l < 11 + m <=> l < m) /\ (11 + l = 11 + m <=> l = m)
    OBVIOUS
  <2> QED BY <2>1, <2>2 DEF Before
<1>4. CASE l < m
  <2>1. y < x
    <3>1. CASE l = 1
      <4>1. q[1] \in Nat /\ y = q[1] /\ q[1] < P
        BY <1>q, <3>1
      <4>2. m = 2 \/ m = 3
        BY <1>4
      <4> QED BY <1>p, <4>1, <4>2
    <3>2. CASE l = 2
      <4>1. m = 3
        BY <1>4, <3>2
      <4> QED BY <1>p, <1>q, <3>2, <4>1
    <3> QED BY <1>4, <3>1, <3>2
  <2> QED BY <1>2, <1>3, <1>4, <2>1
<1>5. CASE m < l
  <2>1. x < y
    <3>1. CASE m = 1
      <4>1. p[1] \in Nat /\ x = p[1] /\ p[1] < P
        BY <1>p, <3>1
      <4>2. l = 2 \/ l = 3
        BY <1>5
      <4> QED BY <1>q, <4>1, <4>2
    <3>2. CASE m = 2
      <4>1. l = 3
        BY <1>5, <3>2
      <4> QED BY <1>p, <1>q, <3>2, <4>1
    <3> QED BY <1>5, <3>1, <3>2
  <2> QED BY <1>2, <1>3, <1>5, <2>1
<1>6. CASE l = m
  <2>1. CASE m = 1
    <3>1. p[1] \in Nat /\ q[1] \in Nat /\ x = p[1] /\ y = q[1]
      BY <1>6, <1>p, <1>q, <2>1
    <3>2. (\E i \in 1..l : q[i] < p[i] /\ \A j \in 1..(i - 1) : q[j] = p[j]) <=> q[1] < p[1]
      BY <1>6, <2>1
    <3>3. q[1] = p[1] => q = p
      BY <1>6, <2>1
    <3> QED BY <1>2, <1>3, <1>6, <3>1, <3>2, <3>3
  <2>2. CASE m = 2
    <3>1. x = P + Two(p) /\ y = P + Two(q) /\ Two(p) \in Nat /\ Two(q) \in Nat
      BY <1>6, <1>p, <1>q, <2>2
    <3>2. (\E i \in 1..l : q[i] < p[i] /\ \A j \in 1..(i - 1) : q[j] = p[j])
            <=> q[1] < p[1] \/ (q[1] = p[1] /\ q[2] < p[2])
      BY <1>6, <2>2
    <3>3. /\ Two(q) < Two(p) <=> q[1] < p[1] \/ (q[1] = p[1] /\ q[2] < p[2])
          /\ Two(q) = Two(p) <=> q[1] = p[1] /\ q[2] = p[2]
      BY <1>6, <2>2, TwoOrder
    <3>4. q[1] = p[1] /\ q[2] = p[2] => q = p
      BY <1>6, <2>2
    <3>5. (y < x <=> Two(q) < Two(p)) /\ (y = x => Two(q) = Two(p))
      BY <3>1
    <3> QED BY <1>2, <1>3, <1>6, <3>2, <3>3, <3>4, <3>5
  <2>3. CASE m = 3
    <3>1. PICK v \in Nat, w \in Nat : v = Three(p) /\ w = Three(q)
      BY <1>6, <1>p, <1>q, <2>3
    <3>2. (\E i \in 1..l : q[i] < p[i] /\ \A j \in 1..(i - 1) : q[j] = p[j])
            <=> \/ q[1] < p[1]
                \/ q[1] = p[1] /\ q[2] < p[2]
                \/ q[1] = p[1] /\ q[2] = p[2] /\ q[3] < p[3]
      BY <1>6, <2>3
    <3>3. /\ Two(q) < Two(p) <=> q[1] < p[1] \/ (q[1] = p[1] /\ q[2] < p[2])
          /\ Two(q) = Two(p) <=> q[1] = p[1] /\ q[2] = p[2]
      BY <1>6, <2>3, TwoOrder
    <3>4. /\ w < v <=> Two(q) < Two(p) \/ (Two(q) = Two(p) /\ q[3] < p[3])
          /\ w = v <=> Two(q) = Two(p) /\ q[3] = p[3]
      BY <1>6, <2>3, <3>1, ThreeOrder
    <3>5. q[1] = p[1] /\ q[2] = p[2] /\ q[3] = p[3] => q = p
      BY <1>6, <2>3
    <3>6. x = P + Q + v /\ y = P + Q + w
      BY <1>6, <1>p, <1>q, <2>3, <3>1
    <3>7. (y < x <=> w < v) /\ (y = x => w = v)
      BY <3>6
    <3> QED BY <1>2, <1>3, <1>6, <3>2, <3>3, <3>4, <3>5, <3>7
  <2> QED BY <2>1, <2>2, <2>3
<1> QED BY <1>4, <1>5, <1>6

(* Every position before one in use is that of a place.                    *)
LEMMA Filled ==
  ASSUME NEW m \in 1..3, NEW p \in [1..m -> Digits], NEW v \in Nat, v < Position(11 + m, p)
  PROVE  \E l \in 1..3 : \E q \in [1..l -> Digits] : Position(11 + l, q) = v
<1>1. PICK P \in Nat \ {0}, Q \in Nat : P = ptr_per_block /\ Q = Square
  BY SquareIs
<1>2. CASE v < P
  <2> DEFINE q == [i \in 1..1 |-> v]
  <2>1. q \in [1..1 -> Digits] /\ q[1] = v
    BY <1>1, <1>2 DEF Digits
  <2> HIDE DEF q
  <2>2. Position(11 + 1, q) = v
    BY <2>1, PositionIs
  <2> QED BY <2>1, <2>2
<1>3. CASE P <= v /\ v < P + Q
  <2>1. PICK w \in Nat : v = P + w /\ w < Q
    <3>1. v - P \in Nat /\ v = P + (v - P) /\ v - P < Q
      BY <1>3
    <3> QED BY <3>1
  <2>2. PICK a \in 0..(P - 1), b \in Digits : w = Num(a, b)
    BY <1>1, <2>1, LastDigit DEF Square
  <2> DEFINE q == [i \in 1..2 |-> IF i = 1 THEN a ELSE b]
  <2>3. q \in [1..2 -> Digits] /\ q[1] = a /\ q[2] = b
    BY <1>1 DEF Digits
  <2> HIDE DEF q
  <2>4. Position(11 + 2, q) = P + w
    BY <1>1, <2>2, <2>3, PositionIs DEF Two
  <2> QED BY <2>1, <2>3, <2>4
<1>4. CASE P + Q <= v
  <2>1. m = 3
    <3>1. m = 1 => FALSE
      BY <1>1, <1>4, PositionIs
    <3>2. m = 2 => FALSE
      BY <1>1, <1>4, PositionIs
    <3> QED BY <3>1, <3>2
  <2>2. PICK x \in Nat, y \in Nat : /\ x = Two(p) /\ x < Q /\ y = Three(p)
                                    /\ Position(11 + m, p) = P + Q + y /\ p[3] \in Digits
    BY <1>1, <2>1, PositionIs
  <2>3. PICK w \in Nat : v = P + Q + w /\ w < y
    <3>1. v - (P + Q) \in Nat /\ v = P + Q + (v - (P + Q)) /\ v - (P + Q) < y
      BY <1>4, <2>2
    <3> QED BY <3>1
  <2>4. w < Num(Q, 0)
    <3>1. y = Num(x, p[3])
      BY <2>2 DEF Three
    <3>2. y < Num(Q, 0)
      BY <2>2, <3>1, NumOrder, SquareIs
    <3>3. Num(Q, 0) \in Nat
      BY NumIs, SquareIs
    <3> QED BY <2>3, <3>2, <3>3
  <2>5. PICK u \in 0..(Q - 1), c \in Digits : w = Num(u, c)
    BY <2>4, LastDigit
  <2>6. PICK a \in 0..(P - 1), b \in Digits : u = Num(a, b)
    <3>1. u \in Nat /\ u < Num(P, 0)
      BY <1>1, <2>5 DEF Square
    <3> QED BY <3>1, LastDigit
  <2> DEFINE q == [i \in 1..3 |-> IF i = 1 THEN a ELSE IF i = 2 THEN b ELSE c]
  <2>7. q \in [1..3 -> Digits] /\ q[1] = a /\ q[2] = b /\ q[3] = c
    BY <1>1 DEF Digits
  <2> HIDE DEF q
  <2>8. Position(11 + 3, q) = P + Q + w
    BY <1>1, <2>5, <2>6, <2>7, PositionIs DEF Two, Three
  <2> QED BY <2>3, <2>7, <2>8
<1> QED BY <1>2, <1>3, <1>4

(* The logical offset is the position after the direct blocks.             *)
LEMMA OffsetIs ==
  ASSUME NEW n \in Owners, NEW m \in 1..3, NEW p \in [1..m -> Digits]
  PROVE  Offset(<<n, 11 + m, p>>) = 12 + Position(11 + m, p)
<1>0. PICK x : x = <<n, 11 + m, p>>
  OBVIOUS
<1>1. x = <<n, 11 + m, p>> /\ x[1] = n
  BY <1>0
<1>2. PICK N \in Nat : N = Position(11 + m, p)
  BY PositionIs
<1> DEFINE S == {y \in Places : y[1] = x[1] /\ IsSlot(y) /\ Before(y, x)}
           T == 0..(N - 1)
           f == [y \in S |-> Position(y[2], y[3])]
<1>3. S = {y \in Slots(n) : Before(y, x)}
  BY <1>1 DEF Slots
<1>4. ASSUME NEW y \in S
      PROVE  \E l \in 1..3 : \E q \in [1..l -> Digits] :
               /\ y = <<n, 11 + l, q>> /\ f[y] = Position(11 + l, q) /\ f[y] \in T
  <2>1. PICK l \in 1..3 : \E q \in [1..l -> Digits] : y = <<n, 11 + l, q>>
    BY <1>3, SlotsAre
  <2>2. PICK q \in [1..l -> Digits] : y = <<n, 11 + l, q>>
    BY <2>1
  <2>3. y[2] = 11 + l /\ y[3] = q
    BY <2>2
  <2>4. f[y] = Position(11 + l, q)
    BY <2>3
  <2>5. Before(<<n, 11 + l, q>>, <<n, 11 + m, p>>)
    BY <1>1, <1>3, <2>2
  <2>6. Position(11 + l, q) < Position(11 + m, p) /\ Position(11 + l, q) \in Nat
    BY <2>5, Ordered, PositionIs
  <2>7. f[y] \in T
    BY <1>2, <2>4, <2>6
  <2> QED BY <2>2, <2>4, <2>7
<1>5. f \in [S -> T]
  <2>1. \A y \in S : f[y] \in T
    BY <1>4
  <2>2. f = [y \in S |-> f[y]]
    OBVIOUS
  <2> HIDE DEF f, S, T
  <2> QED BY <2>1, <2>2
<1>6. ASSUME NEW y \in S, NEW z \in S, f[y] = f[z]
      PROVE  y = z
  <2>1. PICK l \in 1..3 : \E q \in [1..l -> Digits] : y = <<n, 11 + l, q>> /\ f[y] = Position(11 + l, q)
    BY <1>4
  <2>2. PICK q \in [1..l -> Digits] : y = <<n, 11 + l, q>> /\ f[y] = Position(11 + l, q)
    BY <2>1
  <2>3. PICK k \in 1..3 : \E r \in [1..k -> Digits] : z = <<n, 11 + k, r>> /\ f[z] = Position(11 + k, r)
    BY <1>4
  <2>4. PICK r \in [1..k -> Digits] : z = <<n, 11 + k, r>> /\ f[z] = Position(11 + k, r)
    BY <2>3
  <2>5. Position(11 + l, q) = Position(11 + k, r)
    BY <1>6, <2>2, <2>4
  <2>6. l = k /\ q = r
    BY <2>5, Ordered
  <2> QED BY <2>2, <2>4, <2>6
<1>7. ASSUME NEW v \in T
      PROVE  \E y \in S : f[y] = v
  <2>1. v \in Nat /\ v < Position(11 + m, p)
    BY <1>2
  <2>2. PICK l \in 1..3 : \E q \in [1..l -> Digits] : Position(11 + l, q) = v
    BY <2>1, Filled
  <2>3. PICK q \in [1..l -> Digits] : Position(11 + l, q) = v
    BY <2>2
  <2>0. PICK y : y = <<n, 11 + l, q>>
    OBVIOUS
  <2>4. y = <<n, 11 + l, q>> /\ y[2] = 11 + l /\ y[3] = q
    BY <2>0
  <2>5. y \in Slots(n)
    BY <2>4, SlotsAre
  <2>6. Before(<<n, 11 + l, q>>, <<n, 11 + m, p>>)
    BY <2>1, <2>3, Ordered
  <2>7. y \in S
    BY <1>1, <1>3, <2>4, <2>5, <2>6
  <2>8. f[y] = v
    BY <2>3, <2>4, <2>7
  <2> QED BY <2>7, <2>8
<1>8. Offset(x) = 12 + Cardinality(S)
  BY DEF Offset
<1>9. Cardinality(S) = N
  <2> HIDE DEF S, T, f
  <2>1. f \in Bijection(S, T)
    BY <1>5, <1>6, <1>7, Fun_IsBij
  <2>2. ExistsBijection(T, S)
    BY <2>1, Fun_ExistsBijSymmetric DEF ExistsBijection
  <2>3. IsFiniteSet(T) /\ Cardinality(T) = N
    <3>1. 0 \in Int /\ N - 1 \in Int /\ (0 > N - 1 => N = 0) /\ (N - 1) - 0 + 1 = N
      OBVIOUS
    <3> QED BY <3>1, FS_Interval DEF T
  <2> QED BY <2>2, <2>3, FS_Bijection
<1> QED BY <1>1, <1>2, <1>8, <1>9

-----------------------------------------------------------------------------
(* What is listed of a file is what its trees hold.                         *)

(* The i-th pointer of block b; there are none below no block.             *)
Reached(d, b, i) == IF b = 0 THEN 0 ELSE d.ptr[b][i]

LEMMA Leaves1Are ==
  ASSUME NEW d, NEW n, NEW o, NEW b, NEW r
  PROVE  r \in Leaves1(d, n, o, b) <=>
           \E i \in Digits : Reached(d, b, i) # 0 /\ r = Leaf(n, o + i, Reached(d, b, i))
<1>1. CASE b = 0
  BY <1>1 DEF Leaves1, Reached
<1>2. CASE b # 0
  <2>1. r \in Leaves1(d, n, o, b) <=>
          \E i \in Digits : d.ptr[b][i] # 0 /\ r = Leaf(n, o + i, d.ptr[b][i])
    BY <1>2 DEF Leaves1
  <2> QED BY <1>2, <2>1 DEF Reached
<1> QED BY <1>1, <1>2

LEMMA Leaves2Are ==
  ASSUME NEW d, NEW n, NEW o, NEW b, NEW r
  PROVE  r \in Leaves2(d, n, o, b) <=>
           \E i \in Digits : r \in Leaves1(d, n, new_offset(2, o, i), Reached(d, b, i))
<1>1. CASE b = 0
  BY <1>1 DEF Leaves2, Leaves1, Reached
<1>2. CASE b # 0
  BY <1>2 DEF Leaves2, Reached
<1> QED BY <1>1, <1>2

LEMMA Leaves3Are ==
  ASSUME NEW d, NEW n, NEW o, NEW b, NEW r
  PROVE  r \in Leaves3(d, n, o, b) <=>
           \E i \in Digits : r \in Leaves2(d, n, new_offset(3, o, i), Reached(d, b, i))
<1>1. CASE b = 0
  BY <1>1 DEF Leaves3, Leaves2, Reached
<1>2. CASE b # 0
  BY <1>2 DEF Leaves3, Reached
<1> QED BY <1>1, <1>2

LEMMA TargetIs ==
  ASSUME NEW n, NEW m \in 1..3, NEW p \in [1..m -> Digits], NEW b, b = disk.inode[n].block[11 + m]
  PROVE  /\ m = 1 => Target(<<n, 11 + m, p>>) = Reached(disk, b, p[1])
         /\ m = 2 => Target(<<n, 11 + m, p>>) = Reached(disk, Reached(disk, b, p[1]), p[2])
         /\ m = 3 => Target(<<n, 11 + m, p>>)
                      = Reached(disk, Reached(disk, Reached(disk, b, p[1]), p[2]), p[3])
<1>1. \A x, i : Below(x, i) = Reached(disk, x, i)
  BY DEF Below, Reached
<1>2. Len(p) = m
  <2>1. \A k \in Nat : \A f \in [1..k -> Digits] : Len(f) = k
    OBVIOUS
  <2> QED BY <2>1
<1>3. PICK x : x = <<n, 11 + m, p>>
  OBVIOUS
<1>4. x[3] = p /\ disk.inode[x[1]].block[x[2]] = b
  BY <1>3
<1>5. CASE m = 1
  BY <1>1, <1>2, <1>3, <1>4, <1>5 DEF Target
<1>6. CASE m = 2
  BY <1>1, <1>2, <1>3, <1>4, <1>6 DEF Target
<1>7. CASE m = 3
  BY <1>1, <1>2, <1>3, <1>4, <1>7 DEF Target
<1> QED BY <1>5, <1>6, <1>7

LEMMA Path1 == ASSUME NEW i \in Digits PROVE \E p \in [1..1 -> Digits] : p[1] = i
<1> DEFINE p == [a \in 1..1 |-> i]
<1>1. p \in [1..1 -> Digits] /\ p[1] = i
  OBVIOUS
<1> QED BY <1>1

LEMMA Path2 ==
  ASSUME NEW i \in Digits, NEW j \in Digits
  PROVE  \E p \in [1..2 -> Digits] : p[1] = i /\ p[2] = j
<1> DEFINE p == [a \in 1..2 |-> IF a = 1 THEN i ELSE j]
<1>1. p \in [1..2 -> Digits] /\ p[1] = i /\ p[2] = j
  OBVIOUS
<1> QED BY <1>1

LEMMA Path3 ==
  ASSUME NEW i \in Digits, NEW j \in Digits, NEW k \in Digits
  PROVE  \E p \in [1..3 -> Digits] : p[1] = i /\ p[2] = j /\ p[3] = k
<1> DEFINE p == [a \in 1..3 |-> IF a = 1 THEN i ELSE IF a = 2 THEN j ELSE k]
<1>1. p \in [1..3 -> Digits] /\ p[1] = i /\ p[2] = j /\ p[3] = k
  OBVIOUS
<1> QED BY <1>1

(* The record of the pointer at a place.                                   *)
Told(n, m, p, r) ==
  LET b == Target(<<n, 11 + m, p>>)
  IN  b # 0 /\ r = Leaf(n, 12 + Position(11 + m, p), b)

LEMMA Offsets ==
  ASSUME NEW i \in Digits, NEW j \in Digits, NEW k \in Digits, NEW P, P = ptr_per_block
  PROVE  /\ new_offset(2, 12 + P, i) + j = 12 + (P + i * P + j)
         /\ new_offset(2, new_offset(3, 12 + P + P * P, i), j) + k
              = 12 + (P + P * P + (i * P + j) * P + k)
<1>1. P \in Nat /\ i \in Nat /\ j \in Nat /\ k \in Nat
  BY SquareIs
<1>2. new_offset(2, 12 + P, i) = 12 + P + i * P
  BY DEF new_offset
<1>3. new_offset(3, 12 + P + P * P, i) = 12 + P + P * P + i * (P * P)
  BY DEF new_offset
<1>4. new_offset(2, 12 + P + P * P + i * (P * P), j) = 12 + P + P * P + i * (P * P) + j * P
  BY DEF new_offset
<1>5. i * (P * P) = (i * P) * P /\ (i * P + j) * P = (i * P) * P + j * P
  BY <1>1
<1>6. PICK a \in Nat, b \in Nat, c \in Nat, e \in Nat :
        a = P * P /\ b = (i * P) * P /\ c = j * P /\ e = i * P
  BY <1>1
<1>7. 12 + P + e + j = 12 + (P + e + j) /\ 12 + P + a + b + c + k = 12 + (P + a + (b + c) + k)
  BY <1>1
<1> QED BY <1>2, <1>3, <1>4, <1>5, <1>6, <1>7

LEMMA Told1 ==
  ASSUME NEW n, NEW r, NEW b, b = disk.inode[n].block[12]
  PROVE  r \in Leaves1(disk, n, 12, b) <=> \E p \in [1..1 -> Digits] : Told(n, 1, p, r)
<1>1. r \in Leaves1(disk, n, 12, b) <=>
        \E i \in Digits : Reached(disk, b, i) # 0 /\ r = Leaf(n, 12 + i, Reached(disk, b, i))
  BY Leaves1Are
<1>2. ASSUME NEW p \in [1..1 -> Digits]
      PROVE  /\ p[1] \in Digits
             /\ Told(n, 1, p, r) <=>
                  Reached(disk, b, p[1]) # 0 /\ r = Leaf(n, 12 + p[1], Reached(disk, b, p[1]))
  <2>1. Target(<<n, 11 + 1, p>>) = Reached(disk, b, p[1])
    BY TargetIs
  <2>2. Position(11 + 1, p) = p[1]
    BY PositionIs
  <2> QED BY <2>1, <2>2 DEF Told
<1> DEFINE W(i) == Reached(disk, b, i) # 0 /\ r = Leaf(n, 12 + i, Reached(disk, b, i))
<1>3. r \in Leaves1(disk, n, 12, b) <=> \E i \in Digits : W(i)
  BY <1>1
<1>4. \A p \in [1..1 -> Digits] : p[1] \in Digits /\ (Told(n, 1, p, r) <=> W(p[1]))
  BY <1>2
<1> HIDE DEF W
<1>5. ASSUME NEW i \in Digits, W(i)
      PROVE  \E p \in [1..1 -> Digits] : Told(n, 1, p, r)
  <2>1. PICK p \in [1..1 -> Digits] : p[1] = i
    BY Path1
  <2> QED BY <1>4, <1>5, <2>1
<1> QED BY <1>3, <1>4, <1>5

LEMMA Told2 ==
  ASSUME NEW n, NEW r, NEW b, b = disk.inode[n].block[13]
  PROVE  r \in Leaves2(disk, n, 12 + ptr_per_block, b) <=>
           \E p \in [1..2 -> Digits] : Told(n, 2, p, r)
<1> DEFINE P == ptr_per_block
           T(i, j) == Reached(disk, Reached(disk, b, i), j)
<1>1. r \in Leaves2(disk, n, 12 + P, b) <=>
        \E i \in Digits : r \in Leaves1(disk, n, new_offset(2, 12 + P, i), Reached(disk, b, i))
  BY Leaves2Are
<1>2. ASSUME NEW i \in Digits
      PROVE  r \in Leaves1(disk, n, new_offset(2, 12 + P, i), Reached(disk, b, i)) <=>
               \E j \in Digits : T(i, j) # 0 /\ r = Leaf(n, 12 + (P + i * P + j), T(i, j))
  <2>1. r \in Leaves1(disk, n, new_offset(2, 12 + P, i), Reached(disk, b, i)) <=>
          \E j \in Digits : T(i, j) # 0 /\ r = Leaf(n, new_offset(2, 12 + P, i) + j, T(i, j))
    BY Leaves1Are
  <2>2. \A j \in Digits : new_offset(2, 12 + P, i) + j = 12 + (P + i * P + j)
    BY Offsets
  <2> QED BY <2>1, <2>2
<1>3. ASSUME NEW p \in [1..2 -> Digits]
      PROVE  /\ p[1] \in Digits /\ p[2] \in Digits
             /\ Told(n, 2, p, r) <=>
                  /\ T(p[1], p[2]) # 0
                  /\ r = Leaf(n, 12 + (P + p[1] * P + p[2]), T(p[1], p[2]))
  <2>1. Target(<<n, 11 + 2, p>>) = T(p[1], p[2])
    BY TargetIs
  <2>2. Position(11 + 2, p) = P + p[1] * P + p[2]
    BY DEF Position
  <2> QED BY <2>1, <2>2 DEF Told
<1> DEFINE W(i, j) == T(i, j) # 0 /\ r = Leaf(n, 12 + (P + i * P + j), T(i, j))
<1>4. r \in Leaves2(disk, n, 12 + P, b) <=> \E i, j \in Digits : W(i, j)
  <2> HIDE DEF T
  <2> QED BY <1>1, <1>2
<1>5. \A p \in [1..2 -> Digits] :
        p[1] \in Digits /\ p[2] \in Digits /\ (Told(n, 2, p, r) <=> W(p[1], p[2]))
  BY <1>3
<1> HIDE DEF W, T
<1>6. ASSUME NEW i \in Digits, NEW j \in Digits, W(i, j)
      PROVE  \E p \in [1..2 -> Digits] : Told(n, 2, p, r)
  <2>1. PICK p \in [1..2 -> Digits] : p[1] = i /\ p[2] = j
    BY Path2
  <2> QED BY <1>5, <1>6, <2>1
<1> QED BY <1>4, <1>5, <1>6

LEMMA Told3 ==
  ASSUME NEW n, NEW r, NEW b, b = disk.inode[n].block[14]
  PROVE  r \in Leaves3(disk, n, 12 + ptr_per_block + ptr_per_block * ptr_per_block, b) <=>
           \E p \in [1..3 -> Digits] : Told(n, 3, p, r)
<1> DEFINE P == ptr_per_block
           o == 12 + P + P * P
           T(i, j, k) == Reached(disk, Reached(disk, Reached(disk, b, i), j), k)
           At(i, j, k) == 12 + (P + P * P + (i * P + j) * P + k)
<1>1. r \in Leaves3(disk, n, o, b) <=>
        \E i \in Digits : r \in Leaves2(disk, n, new_offset(3, o, i), Reached(disk, b, i))
  BY Leaves3Are
<1>2. ASSUME NEW i \in Digits
      PROVE  r \in Leaves2(disk, n, new_offset(3, o, i), Reached(disk, b, i)) <=>
               \E j \in Digits : r \in Leaves1(disk, n, new_offset(2, new_offset(3, o, i), j),
                                              Reached(disk, Reached(disk, b, i), j))
  BY Leaves2Are
<1>3. ASSUME NEW i \in Digits, NEW j \in Digits
      PROVE  r \in Leaves1(disk, n, new_offset(2, new_offset(3, o, i), j),
                           Reached(disk, Reached(disk, b, i), j)) <=>
               \E k \in Digits : T(i, j, k) # 0 /\ r = Leaf(n, At(i, j, k), T(i, j, k))
  <2>1. r \in Leaves1(disk, n, new_offset(2, new_offset(3, o, i), j),
                      Reached(disk, Reached(disk, b, i), j)) <=>
          \E k \in Digits : /\ T(i, j, k) # 0
                             /\ r = Leaf(n, new_offset(2, new_offset(3, o, i), j) + k, T(i, j, k))
    BY Leaves1Are
  <2>2. \A k \in Digits : new_offset(2, new_offset(3, o, i), j) + k = At(i, j, k)
    BY Offsets
  <2> HIDE DEF At, T
  <2> QED BY <2>1, <2>2
<1>4. ASSUME NEW p \in [1..3 -> Digits]
      PROVE  /\ p[1] \in Digits /\ p[2] \in Digits /\ p[3] \in Digits
             /\ Told(n, 3, p, r) <=>
                  /\ T(p[1], p[2], p[3]) # 0
                  /\ r = Leaf(n, At(p[1], p[2], p[3]), T(p[1], p[2], p[3]))
  <2>1. Target(<<n, 11 + 3, p>>) = T(p[1], p[2], p[3])
    BY TargetIs
  <2>2. 12 + Position(11 + 3, p) = At(p[1], p[2], p[3])
    BY DEF Position
  <2> HIDE DEF At, T
  <2> QED BY <2>1, <2>2 DEF Told
<1> DEFINE W(i, j, k) == T(i, j, k) # 0 /\ r = Leaf(n, At(i, j, k), T(i, j, k))
<1>5. r \in Leaves3(disk, n, o, b) <=> \E i, j, k \in Digits : W(i, j, k)
  <2> HIDE DEF T, At, o
  <2> QED BY <1>1, <1>2, <1>3
<1>6. \A p \in [1..3 -> Digits] :
        /\ p[1] \in Digits /\ p[2] \in Digits /\ p[3] \in Digits
        /\ Told(n, 3, p, r) <=> W(p[1], p[2], p[3])
  BY <1>4
<1> HIDE DEF W, T, At
<1>7. ASSUME NEW i \in Digits, NEW j \in Digits, NEW k \in Digits, W(i, j, k)
      PROVE  \E p \in [1..3 -> Digits] : Told(n, 3, p, r)
  <2>1. PICK p \in [1..3 -> Digits] : p[1] = i /\ p[2] = j /\ p[3] = k
    BY Path3
  <2> QED BY <1>6, <1>7, <2>1
<1> QED BY <1>5, <1>6, <1>7

(* What is listed of a file is told of the pointers in its trees.           *)
LEMMA FileLeaves ==
  ASSUME NEW n, disk.inode[n].type = "f", disk.inode[n].links # 0, NEW r
  PROVE  r \in LeavesOf(disk, n) <=> \E m \in 1..3 : \E p \in [1..m -> Digits] : Told(n, m, p, r)
<1> DEFINE P == ptr_per_block
           B(k) == disk.inode[n].block[k]
<1>1. r \in LeavesOf(disk, n) <=> \/ r \in Leaves1(disk, n, 12, B(12))
                                 \/ r \in Leaves2(disk, n, 12 + P, B(13))
                                 \/ r \in Leaves3(disk, n, 12 + P + P * P, B(14))
  BY DEF LeavesOf
<1>2. r \in Leaves1(disk, n, 12, B(12)) <=> \E p \in [1..1 -> Digits] : Told(n, 1, p, r)
  BY Told1
<1>3. r \in Leaves2(disk, n, 12 + P, B(13)) <=> \E p \in [1..2 -> Digits] : Told(n, 2, p, r)
  BY Told2
<1>4. r \in Leaves3(disk, n, 12 + P + P * P, B(14)) <=> \E p \in [1..3 -> Digits] : Told(n, 3, p, r)
  BY Told3
<1> HIDE DEF B
<1>5. \A m \in 1..3 : m = 1 \/ m = 2 \/ m = 3
  OBVIOUS
<1> QED BY <1>1, <1>2, <1>3, <1>4, <1>5

-----------------------------------------------------------------------------
(* Damage keeps the image readable.                                        *)

DiskInv ==
  /\ IsDisk(disk)
  /\ \A n \in Files : n \in 1..inodes_count /\ disk.inode[n].type = "f"
  /\ phase = "listed" => rows = main(disk)

LEMMA InitDiskInv == Init => DiskInv
BY DiskAssumption DEF Init, DiskInv

(* What an image is, part by part.                                         *)
LEMMA DiskParts ==
  ASSUME NEW u, NEW v, NEW w, NEW x, NEW y
  PROVE  IsDisk([ubit |-> u, ibit |-> v, inode |-> w, ptr |-> x, dir |-> y]) <=>
           /\ u \in SUBSET Nat /\ v \in SUBSET (1..inodes_count)
           /\ w \in [1..(inodes_count + 1) -> Nodes]
           /\ x \in [1..(blocks_count - 1) -> [Digits -> Data \cup {0}]]
           /\ y \in [1..(blocks_count - 1) -> Seq([inode : Nat, name : STRING])]
           /\ \A n \in 1..inodes_count :
                /\ w[n].type = "f" => \A k \in 12..14 : w[n].block[k] \in Data \cup {0}
                /\ w[n].type = "d" => \A k \in 0..14 : w[n].block[k] \in Data \cup {0}
           /\ w[inodes_count + 1].type = "none"
BY DEF IsDisk

LEMMA DiskIs ==
  ASSUME IsDisk(disk)
  PROVE  disk = [ubit |-> disk.ubit, ibit |-> disk.ibit, inode |-> disk.inode,
                 ptr |-> disk.ptr, dir |-> disk.dir]
BY DEF IsDisk

LEMMA Bitmaps ==
  ASSUME DiskInv, BlockBit \/ InodeBit
  PROVE  DiskInv'
<1>1. PICK u, v : /\ u \in SUBSET Nat /\ v \in SUBSET (1..inodes_count) /\ phase' = "disk"
                  /\ disk' = [ubit |-> u, ibit |-> v, inode |-> disk.inode,
                              ptr |-> disk.ptr, dir |-> disk.dir]
  <2>1. CASE BlockBit
    <3>1. PICK b \in Blocks \cap Data : disk' = [disk EXCEPT !.ubit = Flip(@, b)] /\ phase' = "disk"
      BY <2>1 DEF BlockBit, Damaged
    <3>2. disk.ubit \in SUBSET Nat /\ disk.ibit \in SUBSET (1..inodes_count) /\ b \in Nat
      BY BoundsAssumption DEF DiskInv, IsDisk
    <3>3. Flip(disk.ubit, b) \in SUBSET Nat
      BY <3>2 DEF Flip
    <3>4. disk' = [ubit |-> Flip(disk.ubit, b), ibit |-> disk.ibit, inode |-> disk.inode,
                   ptr |-> disk.ptr, dir |-> disk.dir]
      BY <3>1, DiskIs DEF DiskInv
    <3> QED BY <3>1, <3>2, <3>3, <3>4
  <2>2. CASE InodeBit
    <3>1. PICK n \in fir_nonres_inode..inodes_count :
            disk' = [disk EXCEPT !.ibit = Flip(@, n)] /\ phase' = "disk"
      BY <2>2 DEF InodeBit, Damaged
    <3>2. disk.ubit \in SUBSET Nat /\ disk.ibit \in SUBSET (1..inodes_count) /\ n \in 1..inodes_count
      BY BoundsAssumption, CountsAssumption DEF DiskInv, IsDisk
    <3>3. Flip(disk.ibit, n) \in SUBSET (1..inodes_count)
      BY <3>2 DEF Flip
    <3>4. disk' = [ubit |-> disk.ubit, ibit |-> Flip(disk.ibit, n), inode |-> disk.inode,
                   ptr |-> disk.ptr, dir |-> disk.dir]
      BY <3>1, DiskIs DEF DiskInv
    <3> QED BY <3>1, <3>2, <3>3, <3>4
  <2> QED BY <2>1, <2>2
<1>2. IsDisk([ubit |-> u, ibit |-> v, inode |-> disk.inode, ptr |-> disk.ptr, dir |-> disk.dir])
  <2>1. PICK w, x, y : w = disk.inode /\ x = disk.ptr /\ y = disk.dir
    OBVIOUS
  <2>2. IsDisk([ubit |-> disk.ubit, ibit |-> disk.ibit, inode |-> w, ptr |-> x, dir |-> y])
    BY <2>1, DiskIs DEF DiskInv
  <2>3. IsDisk([ubit |-> u, ibit |-> v, inode |-> w, ptr |-> x, dir |-> y])
    BY <1>1, <2>2, DiskParts
  <2> QED BY <2>1, <2>3
<1>3. disk'.inode = disk.inode
  BY <1>1
<1> QED BY <1>1, <1>2, <1>3 DEF DiskInv

LEMMA Inodes ==
  ASSUME DiskInv, DirectPointer \/ IndirectPointer \/ LinkCount
  PROVE  DiskInv'
<1>0. /\ disk.inode \in [1..(inodes_count + 1) -> Nodes] /\ inodes_count \in Nat
      /\ \A n \in Files : n \in 1..inodes_count /\ disk.inode[n].type = "f"
                         /\ n \in 1..(inodes_count + 1)
  BY CountsAssumption DEF DiskInv, IsDisk
<1> DEFINE Fit(n, x) == /\ phase' = "disk" /\ disk' = [disk EXCEPT !.inode[n] = x]
                        /\ x.type = "f" /\ \A k \in 12..14 : x.block[k] \in Data \cup {0}
<1>1. PICK n \in Files, x \in Nodes : Fit(n, x)
  <2>1. ASSUME NEW n \in Files
        PROVE  /\ disk.inode[n] \in Nodes /\ disk.inode[n].type = "f"
               /\ disk.inode[n].block \in [0..14 -> Nat]
               /\ \A k \in 12..14 : disk.inode[n].block[k] \in Data \cup {0}
    <3>1. n \in 1..inodes_count /\ disk.inode[n].type = "f" /\ disk.inode[n] \in Nodes
      BY <1>0
    <3>2. \A k \in 12..14 : disk.inode[n].block[k] \in Data \cup {0}
      BY <3>1, InodeIs DEF DiskInv
    <3> QED BY <3>1, <3>2 DEF Nodes
  <2>2. CASE DirectPointer
    <3>1. PICK n \in Files, b \in Blocks :
            disk' = [disk EXCEPT !.inode[n].block[0] = b] /\ phase' = "disk"
      BY <2>2 DEF DirectPointer, Damaged
    <3> DEFINE x == [disk.inode[n] EXCEPT !.block[0] = b]
    <3>2. disk' = [disk EXCEPT !.inode[n] = x]
      BY <3>1
    <3>3. x \in Nodes /\ x.type = "f" /\ \A k \in 12..14 : x.block[k] = disk.inode[n].block[k]
      BY <2>1, BoundsAssumption DEF Nodes
    <3> HIDE DEF x
    <3>4. Fit(n, x)
      BY <2>1, <3>1, <3>2, <3>3
    <3> HIDE DEF Fit
    <3> QED BY <3>3, <3>4
  <2>3. CASE IndirectPointer
    <3>1. PICK n \in Files, j \in 12..14, b \in Blocks \cap (Data \cup {0}) :
            disk' = [disk EXCEPT !.inode[n].block[j] = b] /\ phase' = "disk"
      BY <2>3 DEF IndirectPointer, Damaged
    <3> DEFINE x == [disk.inode[n] EXCEPT !.block[j] = b]
    <3>2. disk' = [disk EXCEPT !.inode[n] = x]
      BY <3>1
    <3>3. /\ x \in Nodes /\ x.type = "f"
          /\ \A k \in 12..14 : x.block[k] = IF k = j THEN b ELSE disk.inode[n].block[k]
      BY <2>1, BoundsAssumption DEF Nodes
    <3> HIDE DEF x
    <3>4. Fit(n, x)
      BY <2>1, <3>1, <3>2, <3>3
    <3> HIDE DEF Fit
    <3> QED BY <3>3, <3>4
  <2>4. CASE LinkCount
    <3>1. PICK n \in Files, l \in 0..2 :
            disk' = [disk EXCEPT !.inode[n].links = l] /\ phase' = "disk"
      BY <2>4 DEF LinkCount, Damaged
    <3> DEFINE x == [disk.inode[n] EXCEPT !.links = l]
    <3>2. disk' = [disk EXCEPT !.inode[n] = x]
      BY <3>1
    <3>3. x \in Nodes /\ x.type = "f" /\ x.block = disk.inode[n].block
      BY <2>1 DEF Nodes
    <3> HIDE DEF x
    <3>4. Fit(n, x)
      BY <2>1, <3>1, <3>2, <3>3
    <3> HIDE DEF Fit
    <3> QED BY <3>3, <3>4
  <2> QED BY <2>2, <2>3, <2>4
<1> DEFINE w == [disk.inode EXCEPT ![n] = x]
<1>2. disk' = [ubit |-> disk.ubit, ibit |-> disk.ibit, inode |-> w, ptr |-> disk.ptr, dir |-> disk.dir]
  BY <1>1, DiskIs DEF DiskInv
<1>3. /\ w \in [1..(inodes_count + 1) -> Nodes]
      /\ \A m \in 1..(inodes_count + 1) : w[m] = IF m = n THEN x ELSE disk.inode[m]
  BY <1>0, <1>1
<1>4. n \in 1..inodes_count /\ n # inodes_count + 1
  BY <1>0
<1>5. IsDisk([ubit |-> disk.ubit, ibit |-> disk.ibit, inode |-> disk.inode, ptr |-> disk.ptr, dir |-> disk.dir])
  BY DiskIs DEF DiskInv
<1> HIDE DEF w
<1>6. \A m \in 1..inodes_count :
         /\ w[m].type = "f" => \A k \in 12..14 : w[m].block[k] \in Data \cup {0}
         /\ w[m].type = "d" => \A k \in 0..14 : w[m].block[k] \in Data \cup {0}
  <2> TAKE m \in 1..inodes_count
  <2>1. m \in 1..(inodes_count + 1)
    BY <1>0
  <2>2. CASE m = n
    BY <1>1, <1>3, <2>1, <2>2
  <2>3. CASE m # n
    BY <1>3, <2>1, <2>3, InodeIs DEF DiskInv
  <2> QED BY <2>2, <2>3
<1>7. w[inodes_count + 1].type = "none"
  <2>1. inodes_count + 1 \in 1..(inodes_count + 1)
    BY <1>0
  <2> QED BY <1>3, <1>4, <2>1 DEF DiskInv, IsDisk
<1>8. IsDisk([ubit |-> disk.ubit, ibit |-> disk.ibit, inode |-> w, ptr |-> disk.ptr, dir |-> disk.dir])
  BY <1>3, <1>5, <1>6, <1>7, DiskParts
<1>9. \A m \in Files : m \in 1..inodes_count /\ w[m].type = "f"
  BY <1>0, <1>1, <1>3
<1>10. disk'.inode = w
  BY <1>2
<1> QED BY <1>1, <1>2, <1>8, <1>9, <1>10 DEF DiskInv

LEMMA Contents ==
  ASSUME DiskInv, PointerInBlock \/ Entry
  PROVE  DiskInv'
<1>0. /\ disk.ptr \in [1..(blocks_count - 1) -> [Digits -> Data \cup {0}]]
      /\ disk.dir \in [1..(blocks_count - 1) -> Seq([inode : Nat, name : STRING])]
      /\ \A b \in Data : b \in 1..(blocks_count - 1)
  BY BoundsAssumption, CountsAssumption DEF DiskInv, IsDisk, Data
<1>1. PICK x, y :
        /\ x \in [1..(blocks_count - 1) -> [Digits -> Data \cup {0}]]
        /\ y \in [1..(blocks_count - 1) -> Seq([inode : Nat, name : STRING])]
        /\ phase' = "disk"
        /\ disk' = [ubit |-> disk.ubit, ibit |-> disk.ibit, inode |-> disk.inode, ptr |-> x, dir |-> y]
  <2>1. CASE PointerInBlock
    <3>1. PICK p \in PtrBlocks, j \in Digits, b \in Data \cup {0} :
            disk' = [disk EXCEPT !.ptr[p][j] = b] /\ phase' = "disk"
      BY <2>1 DEF PointerInBlock, Damaged, Digits
    <3> DEFINE x == [disk.ptr EXCEPT ![p][j] = b]
    <3>2. x \in [1..(blocks_count - 1) -> [Digits -> Data \cup {0}]]
      BY <1>0
    <3>3. disk' = [ubit |-> disk.ubit, ibit |-> disk.ibit, inode |-> disk.inode, ptr |-> x, dir |-> disk.dir]
      BY <3>1, DiskIs DEF DiskInv
    <3> HIDE DEF x
    <3> QED BY <1>0, <3>1, <3>2, <3>3
  <2>2. CASE Entry
    <3>0. PICK b \in Data : \E k \in DOMAIN disk.dir[b], n \in 1..(inodes_count + 1) :
            disk' = [disk EXCEPT !.dir[b][k].inode = n] /\ phase' = "disk"
      BY <2>2 DEF Entry, Damaged
    <3>1. PICK k \in DOMAIN disk.dir[b], n \in 1..(inodes_count + 1) :
            disk' = [disk EXCEPT !.dir[b][k].inode = n] /\ phase' = "disk"
      BY <3>0
    <3> DEFINE s == [disk.dir[b] EXCEPT ![k].inode = n]
               y == [disk.dir EXCEPT ![b] = s]
    <3>2. s \in Seq([inode : Nat, name : STRING])
      <4>1. disk.dir[b] \in Seq([inode : Nat, name : STRING])
        BY <1>0
      <4>2. PICK t \in Seq([inode : Nat, name : STRING]) : t = disk.dir[b]
        BY <4>1
      <4>3. DOMAIN t = 1..Len(t) /\ Len(t) \in Nat /\ k \in 1..Len(t)
        BY <3>1, <4>2, LenProperties
      <4>4. t[k] \in [inode : Nat, name : STRING]
        BY <4>3, ElementOfSeq
      <4>5. PICK e : e = [t[k] EXCEPT !.inode = n]
        OBVIOUS
      <4>6. e \in [inode : Nat, name : STRING]
        BY <4>4, <4>5
      <4>7. [t EXCEPT ![k] = e] \in Seq([inode : Nat, name : STRING])
        BY <4>3, <4>6, ExceptSeq
      <4>8. s = [t EXCEPT ![k] = e]
        BY <4>2, <4>5
      <4> QED BY <4>7, <4>8
    <3>3. disk' = [ubit |-> disk.ubit, ibit |-> disk.ibit, inode |-> disk.inode, ptr |-> disk.ptr, dir |-> y]
      BY <3>1, DiskIs DEF DiskInv
    <3> HIDE DEF s
    <3>4. y \in [1..(blocks_count - 1) -> Seq([inode : Nat, name : STRING])]
      BY <1>0, <3>2
    <3> HIDE DEF y
    <3> QED BY <1>0, <3>1, <3>3, <3>4
  <2> QED BY <2>1, <2>2
<1>2. IsDisk([ubit |-> disk.ubit, ibit |-> disk.ibit, inode |-> disk.inode, ptr |-> x, dir |-> y])
  <2>1. IsDisk([ubit |-> disk.ubit, ibit |-> disk.ibit, inode |-> disk.inode, ptr |-> disk.ptr, dir |-> disk.dir])
    BY DiskIs DEF DiskInv
  <2> QED BY <1>1, <2>1, DiskParts
<1>3. disk'.inode = disk.inode
  BY <1>1
<1> QED BY <1>1, <1>2, <1>3 DEF DiskInv

LEMMA StepDiskInv == ASSUME DiskInv, [Next]_vars PROVE DiskInv'
<1>1. CASE List
  BY <1>1 DEF List, DiskInv
<1>2. CASE Check
  BY <1>2 DEF Check, DiskInv
<1>3. CASE UNCHANGED vars
  BY <1>3 DEF vars, DiskInv
<1> QED BY <1>1, <1>2, <1>3, Bitmaps, Inodes, Contents DEF Next

LEMMA Readable == Spec => []DiskInv
<1>1. DiskInv /\ [Next]_vars => DiskInv'
  BY StepDiskInv
<1> QED BY <1>1, InitDiskInv, PTL DEF Spec

-----------------------------------------------------------------------------
(* The listing and the image.                                              *)

(* The leaves of the files in use, when the bitmap makes main() find them.  *)
LEMMA FilesFound ==
  ASSUME DiskInv, phase = "listed", Listed, NEW r
  PROVE  r \in Range(rows) /\ IsLeaf(r) <=>
           \E n \in Owners : disk.inode[n].type = "f" /\ r \in LeavesOf(disk, n)
<1>1. Lists(rows, UNION {LeavesOf(disk, n + 1) : n \in disk.ibit})
  BY MainLists DEF DiskInv
<1>2. r \in Range(rows) /\ IsLeaf(r) <=> \E i \in disk.ibit : r \in LeavesOf(disk, i + 1)
  BY <1>1 DEF Lists
<1>3. ASSUME NEW i \in disk.ibit, r \in LeavesOf(disk, i + 1)
      PROVE  \E n \in Owners : disk.inode[n].type = "f" /\ r \in LeavesOf(disk, n)
  <2>1. PICK n : n = i + 1
    OBVIOUS
  <2>2. disk.inode[n].type = "f" /\ disk.inode[n].links # 0
    BY <1>3, <2>1 DEF LeavesOf
  <2>3. n \in 1..inodes_count
    <3>1. i \in 1..inodes_count /\ disk.inode[inodes_count + 1].type = "none"
      BY DEF DiskInv, IsDisk
    <3>2. n # inodes_count + 1
      BY <2>2, <3>1
    <3> QED BY <2>1, <3>1, <3>2, CountsAssumption
  <2>4. disk.inode[n].links \in Nat
    BY <2>3, InodeIs DEF DiskInv
  <2>5. n \in Owners
    BY <2>2, <2>3, <2>4 DEF Owners, InUse
  <2> QED BY <1>3, <2>1, <2>2, <2>5
<1>4. ASSUME NEW n \in Owners, r \in LeavesOf(disk, n)
      PROVE  \E i \in disk.ibit : r \in LeavesOf(disk, i + 1)
  <2>1. n - 1 \in disk.ibit
    BY DEF Listed
  <2>2. (n - 1) + 1 = n
    BY DEF Owners
  <2>3. PICK i : i = n - 1
    OBVIOUS
  <2> QED BY <1>4, <2>1, <2>2, <2>3
<1> QED BY <1>2, <1>3, <1>4

Triple(r) == <<r.inum, r.offset, r.ref>>
Place(x) == <<x[1], Offset(x), Target(x)>>

(* What is told of a pointer names its place.                               *)
LEMMA ToldAt ==
  ASSUME NEW n \in Owners, NEW m \in 1..3, NEW p \in [1..m -> Digits], NEW r, Told(n, m, p, r)
  PROVE  Triple(r) = Place(<<n, 11 + m, p>>) /\ Target(<<n, 11 + m, p>>) # 0
<1>0. PICK x : x = <<n, 11 + m, p>>
  OBVIOUS
<1>1. PICK o, t : o = 12 + Position(11 + m, p) /\ t = Target(x)
  OBVIOUS
<1>2. r = Leaf(n, o, t) /\ t # 0
  BY <1>0, <1>1 DEF Told
<1>3. Offset(x) = o
  BY <1>0, <1>1, OffsetIs
<1>4. r.inum = n /\ r.offset = o /\ r.ref = t
  BY <1>2 DEF Leaf
<1>5. x[1] = n
  BY <1>0
<1> QED BY <1>0, <1>1, <1>2, <1>3, <1>4, <1>5 DEF Triple, Place

LEMMA SlotTold ==
  ASSUME NEW n \in Owners, NEW m \in 1..3, NEW p \in [1..m -> Digits],
         Target(<<n, 11 + m, p>>) # 0
  PROVE  \E r : Told(n, m, p, r)
BY DEF Told

LEMMA OffsetsLogical == DiskInv => IndirectOffsetsLogical
<1> SUFFICES ASSUME DiskInv, phase = "listed", Listed
             PROVE  {<<r.inum, r.offset, r.ref>> :
                       r \in {r \in Range(rows) : r.row = "INDIRECT" /\ r.level = 1}}
                    = {<<x[1], Offset(x), Target(x)>> :
                         x \in {x \in Places : /\ disk.inode[x[1]].type = "f"
                                               /\ IsSlot(x) /\ Target(x) # 0}}
  BY DEF IndirectOffsetsLogical
<1> DEFINE R == {r \in Range(rows) : IsLeaf(r)}
           X == {x \in Places : disk.inode[x[1]].type = "f" /\ IsSlot(x) /\ Target(x) # 0}
<1>1. \A n \in Owners : disk.inode[n].links # 0
  BY DEF Owners, InUse
<1>2. ASSUME NEW r \in R
      PROVE  \E x \in X : Triple(r) = Place(x)
  <2>1. PICK n \in Owners : disk.inode[n].type = "f" /\ r \in LeavesOf(disk, n)
    BY FilesFound
  <2>2. PICK m \in 1..3 : \E p \in [1..m -> Digits] : Told(n, m, p, r)
    BY <1>1, <2>1, FileLeaves
  <2>3. PICK p \in [1..m -> Digits] : Told(n, m, p, r)
    BY <2>2
  <2>4. PICK x : x = <<n, 11 + m, p>>
    OBVIOUS
  <2>5. Triple(r) = Place(x) /\ Target(x) # 0
    <3> HIDE DEF R, X
    <3> QED BY <2>3, <2>4, ToldAt, Zenon
  <2>6. x \in Slots(n)
    BY <2>4, SlotsAre
  <2>7. x \in X
    BY <2>1, <2>5, <2>6 DEF Slots
  <2> QED BY <2>5, <2>7
<1>3. ASSUME NEW x \in X
      PROVE  \E r \in R : Triple(r) = Place(x)
  <2>1. PICK n \in Owners : n = x[1]
    <3>1. PICK n \in Owners :
            x \in {<<n, k, <<>>>> : k \in 0..14} \cup {<<n, k, p>> : k \in 12..14, p \in Paths(3)}
      BY DEF Places
    <3> QED BY <3>1
  <2>2. x \in Slots(n) /\ disk.inode[n].type = "f" /\ Target(x) # 0
    BY <2>1 DEF Slots
  <2>3. PICK m \in 1..3 : \E p \in [1..m -> Digits] : x = <<n, 11 + m, p>>
    BY <2>2, SlotsAre
  <2>4. PICK p \in [1..m -> Digits] : x = <<n, 11 + m, p>>
    BY <2>3
  <2>5. PICK r : Told(n, m, p, r)
    BY <2>2, <2>4, SlotTold
  <2>6. Triple(r) = Place(x)
    <3> HIDE DEF R, X
    <3> QED BY <2>4, <2>5, ToldAt, Zenon
  <2>7. r \in LeavesOf(disk, n)
    BY <1>1, <2>2, <2>5, FileLeaves
  <2>8. r \in R
    BY <2>2, <2>7, FilesFound
  <2> QED BY <2>6, <2>8
<1>4. R = {r \in Range(rows) : r.row = "INDIRECT" /\ r.level = 1}
  BY DEF IsLeaf
<1> HIDE DEF R, X
<1>5. {Triple(r) : r \in R} = {Place(x) : x \in X}
  BY <1>2, <1>3
<1> QED BY <1>4, <1>5 DEF R, X, Triple, Place

(* lab3a gives every data block below an indirect one of a regular file the  *)
(* inode, the number and the place in the file that the image gives it, at  *)
(* every level, and lists no other (lab3.c's read_indir_block()): whatever   *)
(* the sound image was, however often and wherever it is damaged, as long    *)
(* as the bits lead lab3a to every inode in use (Listed).                   *)
THEOREM IndirectOffsets == Spec => []IndirectOffsetsLogical
BY Readable, OffsetsLogical, PTL
=============================================================================
