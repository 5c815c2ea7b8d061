------------------------------ MODULE WalkProofs ------------------------------
(***************************************************************************)
(* The code-vs-data walker for every forest and every answer of the        *)
(* callback: the context threaded through the recursion is that of the     *)
(* reader macros around a datum.                                           *)
(***************************************************************************)
EXTENDS WalkProperties, SequenceTheorems, FiniteSetTheorems, WellFoundedInduction, TLAPS

Size == Len(forest.kind)

\* A datum is directly inside d.
Kids(d) == {c \in Inside(d) : \A e \in Inside(d) : e < c => last(e) < c}

\* How far the quasiquotes outweigh the unquotes from a on.
Opened(d, a) == Cardinality({b \in Counting(d) : b >= a} \intersect Under({"Quasiquote"}))
Closed(d, a) == Cardinality({b \in Counting(d) : b >= a} \intersect Under({"Unquote"}))

\* The depth is that of the innermost steps in which most is left open.
Depth(d, q) ==
  /\ \A a \in Counting(d) : Opened(d, a) - Closed(d, a) <= q
  /\ q = 0 \/ \E a \in Counting(d) : Opened(d, a) - Closed(d, a) = q

\* The context a datum must be given, however the walk comes there.
Right(d, ctx) ==
  /\ ctx.hard_quote <=> Counting(d) \intersect Sealing # {}
  /\ ~ctx.hard_quote => Depth(d, ctx.qq)

Contexts == [hard_quote : BOOLEAN, qq : Nat]

\* A datum on its way to the callback or the iterator.
Placed == {it \in [node : Data, ctx : Contexts] :
             it.ctx.qq < it.node /\ Right(it.node, it.ctx)}

Seen == {s \in [node : Data, region : {"Code", "SealedData", "PorousData"},
                answer : {"Descend", "Skip", "Stop"}] : s.region = RegionOf(s.node)}

-----------------------------------------------------------------------------
(* Sets of numbers in order.                                               *)

LEMMA LeastExists ==
  ASSUME NEW S, S \subseteq Nat, S # {}
  PROVE  \E x \in S : \A y \in S : x <= y
  <1> DEFINE R == OpToRel(<, Nat)
  <1>1. IsWellFoundedOn(R, Nat)
    BY NatLessThanWellFounded
  <1>2. \A x, y \in Nat : y < x => <<y, x>> \in R
    BY DEF OpToRel
  <1> HIDE DEF R
  <1>3. PICK x \in S : \A y \in S : ~(<<y, x>> \in R)
    BY <1>1, WFMin
  <1>4. \A y \in S : y \in Nat /\ x \in Nat /\ ~(y < x)
    BY <1>2, <1>3
  <1>5. QED
    BY <1>4

\* The members of ds up to d.
UpTo(ds, d) == {e \in ds : e <= d}

LEMMA UpToIs ==
  ASSUME NEW ds, ds \subseteq Nat, IsFiniteSet(ds)
  PROVE  /\ \A d, e \in ds : e \in UpTo(ds, d) <=> e <= d
         /\ \A d : UpTo(ds, d) \subseteq ds
         /\ \A T : T \subseteq ds => IsFiniteSet(T) /\ Cardinality(T) \in Nat
                                     /\ Cardinality(T) <= Cardinality(ds)
                                     /\ (Cardinality(T) = Cardinality(ds) => T = ds)
  <1>1. ASSUME NEW T, T \subseteq ds
        PROVE  /\ IsFiniteSet(T) /\ Cardinality(T) \in Nat
               /\ Cardinality(T) <= Cardinality(ds)
               /\ Cardinality(T) = Cardinality(ds) => T = ds
    <2>1. T \in SUBSET ds
      BY <1>1
    <2>2. /\ IsFiniteSet(T) /\ Cardinality(T) <= Cardinality(ds)
          /\ Cardinality(T) = Cardinality(ds) => T = ds
      BY <2>1, FS_Subset
    <2>3. QED
      BY <2>2, FS_CardinalityType
  <1>2. QED
    BY <1>1 DEF UpTo

\* For every k up to its size, a set has a member with k members up to it.
LEMMA RankExists ==
  ASSUME NEW ds, ds \subseteq Nat, IsFiniteSet(ds), NEW k \in 1..Cardinality(ds)
  PROVE  \E d \in ds : Cardinality(UpTo(ds, d)) = k
  <1> DEFINE Bad == {j \in 1..Cardinality(ds) : ~\E d \in ds : Cardinality(UpTo(ds, d)) = j}
  <1>1. Cardinality(ds) \in Nat
    BY FS_CardinalityType
  <1>2. SUFFICES ASSUME Bad # {} PROVE FALSE
    OBVIOUS
  <1>3. PICK j \in Bad : \A h \in Bad : j <= h
    <2>1. Bad \subseteq Nat
      BY <1>1
    <2> HIDE DEF Bad
    <2>2. QED
      BY <1>2, <2>1, LeastExists
  <1>4. j \in Nat /\ 1 <= j /\ j <= Cardinality(ds)
    BY <1>1
  <1>5. \E T : T \subseteq ds /\ Cardinality(T) = j - 1 /\ \A t \in T : UpTo(ds, t) \subseteq T
    <2>1. CASE j = 1
      <3>1. Cardinality({}) = j - 1
        BY <2>1, FS_EmptySet
      <3>2. QED
        BY <3>1
    <2>2. CASE j # 1
      <3>1. j - 1 \in 1..Cardinality(ds) /\ ~(j <= j - 1)
        BY <1>1, <1>4, <2>2
      <3>2. j - 1 \notin Bad
        BY <1>3, <3>1
      <3>3. PICK d \in ds : Cardinality(UpTo(ds, d)) = j - 1
        BY <3>1, <3>2
      <3>4. ASSUME NEW t \in UpTo(ds, d), NEW b \in UpTo(ds, t) PROVE b \in UpTo(ds, d)
        <4>1. b \in ds /\ t \in ds /\ b <= t /\ t <= d
          BY DEF UpTo
        <4>2. b \in Nat /\ t \in Nat /\ d \in Nat
          BY <4>1
        <4>3. b <= d
          BY <4>1, <4>2
        <4>4. QED
          BY <4>1, <4>3 DEF UpTo
      <3>5. QED
        BY <3>3, <3>4, UpToIs
    <2>3. QED
      BY <2>1, <2>2
  <1>6. PICK T : T \subseteq ds /\ Cardinality(T) = j - 1 /\ \A t \in T : UpTo(ds, t) \subseteq T
    BY <1>5
  <1>7. ds \ T # {} /\ ds \ T \subseteq Nat
    <2>1. Cardinality(T) # Cardinality(ds)
      BY <1>1, <1>4, <1>6
    <2>2. T # ds
      BY <2>1
    <2>3. QED
      BY <1>6, <2>2
  <1>8. PICK m \in ds \ T : \A y \in ds \ T : m <= y
    BY <1>7, LeastExists
  <1>9. UpTo(ds, m) = T \union {m}
    <2>1. \A e \in ds : e \in Nat /\ m \in Nat
      OBVIOUS
    <2>2. \A e \in UpTo(ds, m) : e \in T \union {m}
      BY <1>8, <2>1 DEF UpTo
    <2>3. ASSUME NEW e \in T PROVE e \in UpTo(ds, m)
      <3>1. m \in UpTo(ds, e) => m \in T
        BY <1>6
      <3>2. ~(m <= e)
        BY <1>6, <1>8, <3>1 DEF UpTo
      <3>3. QED
        BY <1>6, <2>1, <3>2 DEF UpTo
    <2>4. m \in UpTo(ds, m)
      BY <2>1 DEF UpTo
    <2>5. QED
      BY <2>2, <2>3, <2>4
  <1>10. Cardinality(UpTo(ds, m)) = j
    <2>1. IsFiniteSet(T)
      BY <1>6, UpToIs
    <2>2. Cardinality(T \union {m}) = Cardinality(T) + 1
      BY <1>8, <2>1, FS_AddElement
    <2>3. QED
      BY <1>4, <1>6, <1>9, <2>2
  <1>11. QED
    BY <1>3, <1>8, <1>10

\* Ordered enumerates the set, smaller members first.
LEMMA OrderedIs ==
  ASSUME NEW ds, ds \subseteq Nat, IsFiniteSet(ds)
  PROVE  /\ Ordered(ds) \in Seq(ds) /\ Len(Ordered(ds)) = Cardinality(ds)
         /\ Cardinality(ds) \in Nat
         /\ \A k, l \in 1..Cardinality(ds) : k < l => Ordered(ds)[k] < Ordered(ds)[l]
         /\ \A d \in ds : \E k \in 1..Cardinality(ds) : Ordered(ds)[k] = d
         /\ \A k \in 1..Cardinality(ds) : Cardinality(UpTo(ds, Ordered(ds)[k])) = k
         /\ \A d, e \in ds : Cardinality(UpTo(ds, d)) = Cardinality(UpTo(ds, e)) => d = e
  <1> DEFINE n == Cardinality(ds)
             s == Ordered(ds)
  <1>1. n \in Nat
    BY FS_CardinalityType
  <1>2. s = [k \in 1..n |-> CHOOSE d \in ds : Cardinality(UpTo(ds, d)) = k]
    BY DEF Ordered, UpTo
  <1>3. \A k \in 1..n : s[k] \in ds /\ Cardinality(UpTo(ds, s[k])) = k
    <2>1. ASSUME NEW k \in 1..n PROVE s[k] \in ds /\ Cardinality(UpTo(ds, s[k])) = k
      <3>1. s[k] = CHOOSE d \in ds : Cardinality(UpTo(ds, d)) = k
        BY <1>2
      <3>2. \E d \in ds : Cardinality(UpTo(ds, d)) = k
        BY RankExists
      <3>3. QED
        BY <3>1, <3>2, Zenon
    <2>2. QED
      BY <2>1
  <1>4. \A d \in ds : d \in Nat /\ Cardinality(UpTo(ds, d)) \in Nat
                      /\ IsFiniteSet(UpTo(ds, d)) /\ Cardinality(UpTo(ds, d)) <= n
    BY UpToIs
  <1> HIDE DEF n, s
  <1>5. s \in Seq(ds) /\ Len(s) = n
    <2>1. s = [k \in 1..n |-> s[k]]
      BY <1>2
    <2>2. QED
      BY <1>1, <1>3, <2>1
  <1>6. \A d, e \in ds : e <= d => Cardinality(UpTo(ds, e)) <= Cardinality(UpTo(ds, d))
                                   /\ (Cardinality(UpTo(ds, e)) = Cardinality(UpTo(ds, d)) => e = d)
    <2>1. TAKE d, e \in ds
    <2>2. HAVE e <= d
    <2>3. UpTo(ds, e) \subseteq UpTo(ds, d) /\ d \in UpTo(ds, d)
      <3>1. d \in Nat /\ e \in Nat
        BY <1>4
      <3>2. ASSUME NEW b \in ds, b <= e PROVE b <= d
        <4>1. b \in Nat
          BY <1>4
        <4>2. QED
          BY <2>2, <3>1, <3>2, <4>1
      <3>3. d <= d
        BY <3>1
      <3>4. d \in UpTo(ds, d)
        BY <3>3 DEF UpTo
      <3>5. UpTo(ds, e) \subseteq UpTo(ds, d)
        BY <3>2 DEF UpTo
      <3>6. QED
        BY <3>4, <3>5
    <2>4. /\ Cardinality(UpTo(ds, e)) <= Cardinality(UpTo(ds, d))
          /\ Cardinality(UpTo(ds, e)) = Cardinality(UpTo(ds, d)) => UpTo(ds, e) = UpTo(ds, d)
      BY <1>4, <2>3, FS_Subset
    <2>5. UpTo(ds, e) = UpTo(ds, d) => d <= e
      BY <2>3 DEF UpTo
    <2>6. QED
      BY <1>4, <2>2, <2>4, <2>5
  <1>7. \A k, l \in 1..n : k < l => s[k] < s[l]
    <2>1. TAKE k, l \in 1..n
    <2>2. HAVE k < l
    <2>3. s[l] <= s[k] => l <= k
      <3>1. HAVE s[l] <= s[k]
      <3>2. Cardinality(UpTo(ds, s[l])) <= Cardinality(UpTo(ds, s[k]))
        BY <1>3, <1>6, <3>1
      <3>3. QED
        BY <1>3, <3>2
    <2>4. s[l] \in Nat /\ s[k] \in Nat
      BY <1>3, <1>4
    <2>5. QED
      BY <1>1, <2>2, <2>3, <2>4
  <1>8. ASSUME NEW d \in ds PROVE \E k \in 1..n : s[k] = d
    <2> DEFINE k == Cardinality(UpTo(ds, d))
    <2>1. k \in 1..n
      <3>1. d \in UpTo(ds, d)
        BY <1>4 DEF UpTo
      <3>2. k # 0
        BY <1>4, <3>1, FS_EmptySet
      <3>3. QED
        BY <1>1, <1>4, <3>2
    <2>2. s[k] \in ds /\ Cardinality(UpTo(ds, s[k])) = Cardinality(UpTo(ds, d))
      BY <1>3, <2>1
    <2> HIDE DEF k
    <2>3. s[k] <= d \/ d <= s[k]
      <3>1. s[k] \in Nat /\ d \in Nat
        BY <1>4, <2>2
      <3>2. QED
        BY <3>1
    <2>4. s[k] = d
      <3>1. CASE s[k] <= d
        BY <1>6, <2>2, <3>1
      <3>2. CASE d <= s[k]
        BY <1>6, <2>2, <3>2
      <3>3. QED
        BY <2>3, <3>1, <3>2
    <2>5. QED
      BY <2>1, <2>4
  <1>9. \A d, e \in ds : Cardinality(UpTo(ds, d)) = Cardinality(UpTo(ds, e)) => d = e
    <2>1. \A d, e \in ds : d <= e \/ e <= d
      BY <1>4
    <2>2. QED
      BY <1>6, <2>1
  <1>10. QED
    BY <1>1, <1>3, <1>5, <1>7, <1>8, <1>9 DEF n, s

-----------------------------------------------------------------------------
(* The shape of a forest.                                                  *)

LEMMA ForestTyped ==
  ASSUME forest \in Forests
  PROVE  /\ Size \in Nat /\ Data = 1..Size
         /\ \A d \in Data : d \in Nat /\ last(d) \in Nat /\ d <= last(d) /\ last(d) <= Size
         /\ \A d \in Data : kind(d) \in Kinds
         /\ \A d, e \in Data : d <= e /\ e <= last(d) => last(e) <= last(d)
         /\ \A ds : ds \subseteq Data => ds \subseteq Nat /\ IsFiniteSet(ds)
  <1>1. /\ forest.kind \in Seq(Kinds) /\ forest.last \in Seq(Nat)
        /\ Len(forest.last) = Len(forest.kind)
        /\ \A d \in DOMAIN forest.kind :
             /\ forest.last[d] \in d..Len(forest.last)
             /\ \A e \in d..forest.last[d] : forest.last[e] <= forest.last[d]
    BY WalkAssumption
  <1>2. Size \in Nat /\ Data = 1..Size
    BY <1>1 DEF Size, Data
  <1>3. \A d \in Data : d \in Nat /\ last(d) \in Nat /\ d <= last(d) /\ last(d) <= Size
    BY <1>1, <1>2 DEF Size, Data, last
  <1>4. \A d \in Data : kind(d) \in Kinds
    BY <1>1 DEF Data, kind
  <1>5. ASSUME NEW d \in Data, NEW e \in Data, d <= e, e <= last(d)
        PROVE  last(e) <= last(d)
    <2>1. e \in d..last(d)
      BY <1>2, <1>3, <1>5
    <2>2. QED
      BY <1>1, <2>1 DEF Data, last
  <1>6. ASSUME NEW ds, ds \subseteq Data PROVE ds \subseteq Nat /\ IsFiniteSet(ds)
    <2>1. Data \subseteq Nat
      BY <1>3
    <2>2. IsFiniteSet(Data)
      BY <1>2, FS_Interval
    <2>3. ds \in SUBSET Data
      BY <1>6
    <2>4. QED
      BY <2>1, <2>2, <2>3, FS_Subset
  <1>7. QED
    BY <1>2, <1>3, <1>4, <1>5, <1>6

\* A child lies inside its parent, behind all that begins before it there.
LEMMA KidInside ==
  ASSUME forest \in Forests, NEW d \in Data, NEW c \in Kids(d)
  PROVE  /\ c \in Data /\ d < c /\ c <= last(d) /\ last(c) <= last(d)
         /\ \A e \in Data : d < e /\ e < c => last(e) < c
  <1>1. /\ d \in Nat /\ last(d) \in Nat /\ last(d) <= Size /\ Size \in Nat
        /\ Data = 1..Size /\ d \in 1..Size
    BY ForestTyped
  <1>2. Inside(d) = d + 1..last(d)
    BY <1>1 DEF Inside
  <1>3. c \in d + 1..last(d) /\ \A e \in d + 1..last(d) : e < c => last(e) < c
    BY <1>2 DEF Kids
  <1>4. c \in Data /\ d < c /\ c <= last(d) /\ c \in Nat
    BY <1>1, <1>3
  <1>5. ASSUME NEW e \in Data, d < e, e < c PROVE last(e) < c
    <2>1. e \in d + 1..last(d)
      BY <1>1, <1>4, <1>5
    <2>2. QED
      BY <1>3, <1>5, <2>1
  <1>6. last(c) <= last(d)
    BY <1>1, <1>4, ForestTyped
  <1>7. QED
    BY <1>4, <1>5, <1>6

LEMMA AroundIs ==
  ASSUME forest \in Forests, NEW d \in Data
  PROVE  /\ d \in Around(d) /\ Around(d) \subseteq Data
         /\ \A a \in Around(d) : a <= d /\ d <= last(a) /\ a \in Nat
  BY ForestTyped DEF Around

\* Around a child are the data around its parent, and itself.
LEMMA AroundChild ==
  ASSUME forest \in Forests, NEW d \in Data, NEW c \in Kids(d)
  PROVE  Around(c) = Around(d) \union {c} /\ c \notin Around(d) /\ ParentOf(c) = d
  <1>1. /\ c \in Data /\ d < c /\ c <= last(d) /\ last(c) <= last(d)
        /\ \A e \in Data : d < e /\ e < c => last(e) < c
    BY KidInside
  <1>2. c \in Nat /\ d \in Nat /\ last(d) \in Nat /\ last(c) \in Nat
    BY <1>1, ForestTyped
  <1>3. c \in Around(c) /\ d \in Around(d)
    BY <1>1, AroundIs
  <1>4. ASSUME NEW a \in Around(d) PROVE a \in Around(c)
    <2>1. a \in Data /\ a <= d /\ d <= last(a) /\ a \in Nat /\ last(a) \in Nat
      BY AroundIs, ForestTyped
    <2>2. last(d) <= last(a)
      BY <2>1, ForestTyped
    <2>3. a <= c /\ c <= last(a)
      BY <1>1, <1>2, <2>1, <2>2
    <2>4. QED
      BY <2>1, <2>3 DEF Around
  <1>5. ASSUME NEW a \in Around(c), a # c PROVE a \in Around(d)
    <2>1. a \in Data /\ a <= c /\ c <= last(a) /\ a \in Nat /\ last(a) \in Nat
      BY <1>1, AroundIs, ForestTyped
    <2>2. a < c
      BY <1>2, <1>5, <2>1
    <2>3. ~(d < a)
      <3>1. d < a => last(a) < c
        BY <1>1, <2>1, <2>2
      <3>2. QED
        BY <1>2, <2>1, <3>1
    <2>4. a <= d /\ d <= last(a)
      BY <1>1, <1>2, <2>1, <2>3
    <2>5. QED
      BY <2>1, <2>4 DEF Around
  <1>6. c \notin Around(d)
    <2>1. ~(c <= d)
      BY <1>1, <1>2
    <2>2. QED
      BY <2>1, AroundIs
  <1>7. Around(c) = Around(d) \union {c} /\ Around(c) \ {c} = Around(d)
    BY <1>3, <1>4, <1>5, <1>6
  <1>8. ParentOf(c) = d
    <2>1. \A a \in Around(d) : a <= d /\ a \in Nat
      BY AroundIs
    <2>2. \A p \in Around(d) : (\A a \in Around(d) : a <= p) => p = d
      <3>1. ASSUME NEW p \in Around(d), \A a \in Around(d) : a <= p PROVE p = d
        <4>1. d <= p /\ p <= d /\ p \in Nat
          BY <1>3, <2>1, <3>1
        <4>2. QED
          BY <1>2, <4>1
      <3>2. QED
        BY <3>1
    <2>3. Around(d) # {}
      BY <1>3
    <2>4. ParentOf(c) = CHOOSE p \in Around(d) : \A a \in Around(d) : a <= p
      BY <1>7, <2>3 DEF ParentOf
    <2>5. \E p \in Around(d) : \A a \in Around(d) : a <= p
      BY <1>3, <2>1
    <2>6. QED
      BY <2>2, <2>4, <2>5
  <1>9. QED
    BY <1>6, <1>7, <1>8

\* Around a top-level datum there is nothing else.
LEMMA AroundTop ==
  ASSUME forest \in Forests, NEW c \in Kids(0)
  PROVE  c \in Data /\ Around(c) = {c} /\ ParentOf(c) = 0
  <1>1. c \in Data /\ \A e \in Data : e < c => last(e) < c
    BY DEF Kids, Inside
  <1>2. c \in Nat
    BY <1>1, ForestTyped
  <1>3. ASSUME NEW a \in Around(c) PROVE a = c
    <2>1. a \in Data /\ a <= c /\ c <= last(a) /\ a \in Nat /\ last(a) \in Nat
      BY <1>1, AroundIs, ForestTyped
    <2>2. a < c => last(a) < c
      BY <1>1, <2>1
    <2>3. QED
      BY <1>2, <2>1, <2>2
  <1>4. c \in Around(c)
    BY <1>1, AroundIs
  <1>5. Around(c) = {c} /\ Around(c) \ {c} = {}
    BY <1>3, <1>4
  <1>6. QED
    BY <1>1, <1>5 DEF ParentOf

\* The children of a datum are its kids, and all but the last end before it does.
LEMMA ChildrenIs ==
  ASSUME forest \in Forests, NEW d \in Data \union {0}
  PROVE  /\ children(d) \in Seq(Kids(d)) /\ Kids(d) \subseteq Data
         /\ \A i, j \in DOMAIN children(d) : i < j => children(d)[i] < children(d)[j]
         /\ \A c \in Kids(d) : \E i \in DOMAIN children(d) : children(d)[i] = c
  <1>1. Kids(d) \subseteq Data
    BY KidInside, AroundTop
  <1>2. children(d) = Ordered(Kids(d))
    BY DEF children, Kids
  <1>3. Kids(d) \subseteq Nat /\ IsFiniteSet(Kids(d))
    BY <1>1, ForestTyped
  <1>4. /\ Ordered(Kids(d)) \in Seq(Kids(d)) /\ Len(Ordered(Kids(d))) = Cardinality(Kids(d))
        /\ Cardinality(Kids(d)) \in Nat
        /\ \A k, l \in 1..Cardinality(Kids(d)) : k < l => Ordered(Kids(d))[k] < Ordered(Kids(d))[l]
        /\ \A c \in Kids(d) : \E k \in 1..Cardinality(Kids(d)) : Ordered(Kids(d))[k] = c
    BY <1>3, OrderedIs
  <1>5. DOMAIN Ordered(Kids(d)) = 1..Cardinality(Kids(d))
    BY <1>4
  <1>6. QED
    BY <1>1, <1>2, <1>4, <1>5

\* The last datum inside d; 0 stands for the source file.
LastIn(d) == IF d = 0 THEN Size ELSE last(d)

LEMMA InsideIs ==
  ASSUME forest \in Forests, NEW d \in Data \union {0}
  PROVE  /\ d \in Nat /\ LastIn(d) \in Nat /\ d <= LastIn(d)
         /\ \A e : e \in Inside(d) <=> e \in Data /\ d < e /\ e <= LastIn(d)
         /\ Kids(d) \subseteq Inside(d)
         /\ \A c \in Inside(d) : last(c) <= LastIn(d)
  <1>1. /\ Size \in Nat /\ Data = 1..Size
        /\ \A e \in Data : e \in Nat /\ last(e) \in Nat /\ e <= last(e) /\ last(e) <= Size
    BY ForestTyped
  <1>2. Kids(d) \subseteq Inside(d)
    BY DEF Kids
  <1>3. CASE d = 0
    <2>1. LastIn(d) = Size /\ Inside(d) = Data
      BY <1>3 DEF LastIn, Inside
    <2>2. QED
      BY <1>1, <1>2, <1>3, <2>1
  <1>4. CASE d # 0
    <2>1. LastIn(d) = last(d) /\ Inside(d) = d + 1..last(d) /\ d \in Data
      BY <1>4 DEF LastIn, Inside
    <2>2. \A e : e \in Inside(d) <=> e \in Data /\ d < e /\ e <= LastIn(d)
      BY <1>1, <2>1
    <2>3. \A c \in Inside(d) : last(c) <= LastIn(d)
      <3>1. TAKE c \in Inside(d)
      <3>2. c \in Data /\ d < c /\ c <= last(d)
        BY <2>1, <2>2
      <3>3. d <= c
        BY <1>1, <2>1, <3>2
      <3>4. QED
        BY <2>1, <3>2, <3>3, ForestTyped
    <2>4. QED
      BY <1>1, <1>2, <2>1, <2>2, <2>3
  <1>5. QED
    BY <1>3, <1>4

\* Behind a child the next one begins, as long as its parent goes on.
LEMMA NextKid ==
  ASSUME forest \in Forests, NEW d \in Data \union {0}, NEW c \in Kids(d),
         last(c) < LastIn(d)
  PROVE  last(c) + 1 \in Kids(d) /\ last(c) + 1 \in Nat
  <1> DEFINE m == last(c) + 1
  <1>1. /\ d \in Nat /\ LastIn(d) \in Nat
        /\ \A e : e \in Inside(d) <=> e \in Data /\ d < e /\ e <= LastIn(d)
        /\ c \in Inside(d)
    BY InsideIs
  <1>2. c \in Data /\ d < c /\ \A e \in Inside(d) : e < c => last(e) < c
    BY <1>1 DEF Kids
  <1>3. c \in Nat /\ last(c) \in Nat /\ c <= last(c)
    BY <1>2, ForestTyped
  <1>4. m \in Nat /\ c < m /\ m <= LastIn(d) /\ d < m /\ \A e \in Nat : e < m <=> e <= last(c)
    BY <1>1, <1>2, <1>3
  <1>5. m \in Data
    <2>1. Size \in Nat /\ Data = 1..Size /\ \A e \in Data : last(e) <= Size
      BY ForestTyped
    <2>2. LastIn(d) <= Size
      BY <2>1 DEF LastIn
    <2>3. QED
      BY <1>1, <1>4, <2>1, <2>2
  <1> HIDE DEF m
  <1>6. ASSUME NEW e \in Inside(d), e < m PROVE last(e) < m
    <2>1. e \in Data /\ e \in Nat /\ last(e) \in Nat
      BY <1>1, ForestTyped
    <2>2. e <= last(c)
      BY <1>4, <1>6, <2>1
    <2>3. CASE e < c
      <3>1. last(e) < c
        BY <1>2, <2>3
      <3>2. QED
        BY <1>3, <1>4, <2>1, <3>1
    <2>4. CASE ~(e < c)
      <3>1. c <= e
        BY <1>3, <2>1, <2>4
      <3>2. last(e) <= last(c)
        BY <1>2, <2>1, <2>2, <3>1, ForestTyped
      <3>3. QED
        BY <1>4, <2>1, <3>2
    <2>5. QED
      BY <2>3, <2>4
  <1>7. m \in Kids(d)
    BY <1>1, <1>4, <1>5, <1>6 DEF Kids
  <1>8. QED
    BY <1>4, <1>7 DEF m

\* The last child of a datum is the one that ends where it does.
LEMMA InnerLast ==
  ASSUME forest \in Forests, NEW d \in Data, NEW i \in DOMAIN children(d)
  PROVE  IsInner(children(d)[i]) <=> ~(i < Len(children(d)))
  <1> DEFINE cs == children(d)
             c == cs[i]
  <1>1. /\ cs \in Seq(Kids(d)) /\ Kids(d) \subseteq Data
        /\ \A k, l \in DOMAIN cs : k < l => cs[k] < cs[l]
        /\ \A e \in Kids(d) : \E k \in DOMAIN cs : cs[k] = e
    BY ChildrenIs
  <1>2. DOMAIN cs = 1..Len(cs) /\ Len(cs) \in Nat /\ i \in 1..Len(cs)
    BY <1>1
  <1>3. c \in Kids(d)
    BY <1>1
  <1> HIDE DEF cs
  <1>4. /\ c \in Data /\ d < c /\ c <= last(d) /\ last(c) <= last(d)
        /\ \A e \in Data : d < e /\ e < c => last(e) < c
    BY <1>3, KidInside
  <1>5. ParentOf(c) = d
    BY <1>3, AroundChild
  <1>6. c \in Nat /\ d \in Nat /\ last(c) \in Nat /\ last(d) \in Nat /\ c <= last(c)
    BY <1>4, ForestTyped
  <1>7. ASSUME i < Len(cs) PROVE last(c) # last(d)
    <2>1. i + 1 \in DOMAIN cs /\ i < i + 1
      BY <1>2, <1>7
    <2> DEFINE m == cs[i + 1]
    <2>2. c < m /\ m \in Kids(d)
      BY <1>1, <1>2, <2>1
    <2> HIDE DEF m
    <2>3. m \in Nat /\ m <= last(d) /\ (d < c /\ c < m => last(c) < m)
      BY <1>4, <2>2, KidInside, ForestTyped
    <2>4. QED
      BY <1>4, <1>6, <2>2, <2>3
  <1>8. ASSUME ~(i < Len(cs)), last(c) # last(d) PROVE FALSE
    <2> DEFINE m == last(c) + 1
    <2>1. c < m
      BY <1>6
    <2>2. last(c) < last(d)
      BY <1>4, <1>6, <1>8
    <2>3. m \in Kids(d) /\ m \in Nat
      <3>1. LastIn(d) = last(d)
        <4>1. d # 0
          BY ForestTyped
        <4>2. QED
          BY <4>1 DEF LastIn
      <3>2. d \in Data \union {0} /\ last(c) < LastIn(d)
        BY <2>2, <3>1
      <3>3. QED
        BY <1>3, <3>2, NextKid
    <2> HIDE DEF m
    <2>4. PICK k \in DOMAIN cs : cs[k] = m
      BY <1>1, <2>3
    <2>5. k < i \/ k = i
      BY <1>2, <1>8
    <2>6. CASE k < i
      <3>1. m < c
        BY <1>1, <1>2, <2>4, <2>6
      <3>2. QED
        BY <1>6, <2>1, <2>3, <3>1
    <2>7. CASE k = i
      BY <1>6, <2>1, <2>4, <2>7
    <2>8. QED
      BY <2>5, <2>6, <2>7
  <1>9. QED
    BY <1>5, <1>7, <1>8 DEF IsInner, cs

-----------------------------------------------------------------------------
(* The step into a child.                                                  *)

\* What a child adds is decided by its parent's kind and by which child it is.
LEMMA StepIs ==
  ASSUME forest \in Forests, NEW d \in Data, NEW i \in DOMAIN children(d)
  PROVE  LET c == children(d)[i]
             inner == ~(i < Len(children(d)))
         IN  /\ \A K : K \subseteq Prefix => (c \in Under(K) <=> kind(d) \in K /\ inner)
             /\ c \in Sealing <=> \/ kind(d) \in {"Quote", "Discard"} /\ inner
                                  \/ kind(d) \in Prefix /\ ~inner
                                  \/ kind(d) = "HashLiteral"
             /\ c \in ReadTime <=> kind(d) = "ReadEval" /\ inner
  <1> DEFINE c == children(d)[i]
             inner == ~(i < Len(children(d)))
  <1>1. c \in Kids(d)
    BY ChildrenIs
  <1>2. c \in Data /\ ParentOf(c) = d /\ d # 0
    BY <1>1, KidInside, AroundChild, ForestTyped
  <1>3. IsInner(c) <=> inner
    BY InnerLast
  <1> HIDE DEF c, inner
  <1>4. \A K : In(c, K) <=> kind(d) \in K
    BY <1>2 DEF In
  <1>5. \A K : c \in Under(K) <=> kind(d) \in K /\ inner
    BY <1>2, <1>3, <1>4 DEF Under
  <1>6. c \in Auxiliary <=> kind(d) \in Prefix /\ ~inner
    BY <1>2, <1>3, <1>4 DEF Auxiliary
  <1>7. c \in Contents <=> kind(d) = "HashLiteral"
    BY <1>2, <1>4 DEF Contents
  <1>8. c \in Sealing <=> \/ kind(d) \in {"Quote", "Discard"} /\ inner
                          \/ kind(d) \in Prefix /\ ~inner
                          \/ kind(d) = "HashLiteral"
    BY <1>5, <1>6, <1>7 DEF Sealing
  <1>9. c \in ReadTime <=> kind(d) = "ReadEval" /\ inner
    BY <1>5 DEF ReadTime
  <1>10. QED
    BY <1>5, <1>8, <1>9 DEF c, inner

LEMMA CountingIs ==
  ASSUME forest \in Forests, NEW d \in Data
  PROVE  /\ Counting(d) \subseteq Around(d) /\ Counting(d) \subseteq Data
         /\ \A a \in Counting(d) : a <= d
  BY AroundIs DEF Counting

\* The steps that count start anew at `#.', and otherwise go on.
LEMMA CountingStep ==
  ASSUME forest \in Forests, NEW d \in Data, NEW c \in Kids(d)
  PROVE  /\ c \in ReadTime => Counting(c) = {c}
         /\ c \notin ReadTime => Counting(c) = Counting(d) \union {c}
         /\ c \notin Counting(d)
  <1>1. Around(c) = Around(d) \union {c} /\ c \notin Around(d)
    BY AroundChild
  <1>2. c \in Data /\ d < c /\ c \in Nat /\ d \in Nat
    BY KidInside, ForestTyped
  <1>3. \A a \in Around(d) : a < c /\ ~(a >= c) /\ c >= a
    <2>1. \A a \in Around(d) : a <= d /\ a \in Nat
      BY AroundIs
    <2>2. QED
      BY <1>2, <2>1
  <1>4. c >= c
    BY <1>2
  <1>5. ASSUME c \in ReadTime PROVE Counting(c) = {c}
    <2>1. \A a \in Counting(c) : a \in Around(c) /\ a >= c
      BY <1>1, <1>5 DEF Counting
    <2>2. c \in Counting(c)
      BY <1>1, <1>3, <1>4 DEF Counting
    <2>3. QED
      BY <1>1, <1>3, <2>1, <2>2
  <1>6. ASSUME c \notin ReadTime PROVE Counting(c) = Counting(d) \union {c}
    <2>1. ReadTime \intersect Around(c) = ReadTime \intersect Around(d)
      BY <1>1, <1>6
    <2>2. c \in Counting(c)
      BY <1>1, <1>3, <1>4 DEF Counting
    <2>3. \A a \in Around(d) : a \in Counting(c) <=> a \in Counting(d)
      BY <1>1, <2>1 DEF Counting
    <2>4. Counting(c) \subseteq Around(c) /\ Counting(d) \subseteq Around(d)
      BY DEF Counting
    <2>5. QED
      BY <1>1, <2>2, <2>3, <2>4
  <1>7. QED
    BY <1>1, <1>5, <1>6, CountingIs

\* How many of the steps that count for d, from a on, are in U.
Of(d, a, U) == Cardinality({b \in Counting(d) : b >= a} \intersect U)

LEMMA OfTyped ==
  ASSUME forest \in Forests, NEW d \in Data, NEW a, NEW U
  PROVE  Of(d, a, U) \in Nat /\ IsFiniteSet({b \in Counting(d) : b >= a} \intersect U)
  <1>1. {b \in Counting(d) : b >= a} \intersect U \subseteq Data
    BY CountingIs
  <1>2. QED
    BY <1>1, ForestTyped, FS_CardinalityType DEF Of

\* From itself on there is but the one step.
LEMMA OfLast ==
  ASSUME forest \in Forests, NEW c \in Data, c \in Counting(c), NEW U
  PROVE  Of(c, c, U) = IF c \in U THEN 1 ELSE 0
  <1>1. \A b \in Counting(c) : b >= c <=> b = c
    <2>1. \A b \in Counting(c) : b <= c /\ b \in Nat /\ c \in Nat
      BY CountingIs, ForestTyped
    <2>2. QED
      BY <2>1
  <1>2. {b \in Counting(c) : b >= c} = {c}
    BY <1>1
  <1>3. {c} \intersect U = IF c \in U THEN {c} ELSE {}
    OBVIOUS
  <1>4. Cardinality({c}) = 1 /\ Cardinality({}) = 0
    BY FS_Singleton, FS_EmptySet
  <1>5. QED
    BY <1>2, <1>3, <1>4 DEF Of

\* A child adds its own step to every tally of its parent's.
LEMMA OfStep ==
  ASSUME forest \in Forests, NEW d \in Data, NEW c \in Kids(d), c \notin ReadTime,
         NEW a \in Counting(d), NEW U
  PROVE  Of(c, a, U) = Of(d, a, U) + IF c \in U THEN 1 ELSE 0
  <1> DEFINE S == {b \in Counting(d) : b >= a} \intersect U
             T == {b \in Counting(c) : b >= a} \intersect U
  <1>1. Counting(c) = Counting(d) \union {c} /\ c \notin Counting(d)
    BY CountingStep
  <1>2. c >= a
    <2>1. a <= d /\ a \in Nat /\ d \in Nat /\ c \in Nat /\ d < c
      BY CountingIs, KidInside, ForestTyped
    <2>2. QED
      BY <2>1
  <1>3. T = IF c \in U THEN S \union {c} ELSE S
    BY <1>1, <1>2
  <1>4. c \notin S /\ IsFiniteSet(S) /\ Of(d, a, U) = Cardinality(S) /\ Of(c, a, U) = Cardinality(T)
    BY <1>1, OfTyped DEF Of
  <1>5. Of(d, a, U) \in Nat
    BY OfTyped
  <1> HIDE DEF S, T
  <1>6. Cardinality(S \union {c}) = Cardinality(S) + 1
    BY <1>4, FS_AddElement
  <1>7. QED
    BY <1>3, <1>4, <1>5, <1>6

\* The step into a child changes what is left open by at most one.
LEMMA DepthStep ==
  ASSUME forest \in Forests, NEW d \in Data, NEW c \in Kids(d), c \notin ReadTime,
         NEW q \in Nat, Depth(d, q)
  PROVE  /\ c \in Under({"Quasiquote"}) /\ c \notin Under({"Unquote"}) => Depth(c, q + 1)
         /\ c \notin Under({"Quasiquote"}) /\ c \in Under({"Unquote"})
              => Depth(c, IF q = 0 THEN 0 ELSE q - 1)
         /\ c \notin Under({"Quasiquote"}) /\ c \notin Under({"Unquote"}) => Depth(c, q)
  <1> DEFINE UQ == Under({"Quasiquote"})
             UU == Under({"Unquote"})
             Open(a) == Opened(d, a) - Closed(d, a)
             step == (IF c \in UQ THEN 1 ELSE 0) - (IF c \in UU THEN 1 ELSE 0)
  <1>1. Counting(c) = Counting(d) \union {c} /\ c \in Data
    BY CountingStep, KidInside
  <1>2. \A e, a : Opened(e, a) = Of(e, a, UQ) /\ Closed(e, a) = Of(e, a, UU)
    BY DEF Opened, Closed, Of
  <1>3. Opened(c, c) - Closed(c, c) = step
    BY <1>1, <1>2, OfLast
  <1>4. \A a \in Counting(d) : Opened(d, a) \in Nat /\ Closed(d, a) \in Nat
    BY <1>2, OfTyped
  <1>5. \A a \in Counting(d) : Opened(c, a) - Closed(c, a) = Open(a) + step /\ Open(a) \in Int
    <2>1. TAKE a \in Counting(d)
    <2>2. /\ Opened(c, a) = Opened(d, a) + IF c \in UQ THEN 1 ELSE 0
          /\ Closed(c, a) = Closed(d, a) + IF c \in UU THEN 1 ELSE 0
      BY <1>2, OfStep
    <2>3. QED
      BY <1>4, <2>2
  <1>6. /\ \A a \in Counting(d) : Open(a) <= q
        /\ q = 0 \/ \E a \in Counting(d) : Open(a) = q
    BY DEF Depth
  <1> HIDE DEF UQ, UU, Open
  <1>7. ASSUME c \in UQ, c \notin UU PROVE Depth(c, q + 1)
    <2>1. step = 1
      BY <1>7
    <2>2. \A a \in Counting(c) : Opened(c, a) - Closed(c, a) <= q + 1
      BY <1>1, <1>3, <1>5, <1>6, <2>1
    <2>3. \E a \in Counting(c) : Opened(c, a) - Closed(c, a) = q + 1
      BY <1>1, <1>3, <1>5, <1>6, <2>1
    <2>4. QED
      BY <2>2, <2>3 DEF Depth
  <1>8. ASSUME c \notin UQ, c \in UU PROVE Depth(c, IF q = 0 THEN 0 ELSE q - 1)
    <2>1. step = -1
      BY <1>8
    <2>2. CASE q = 0
      <3>1. \A a \in Counting(c) : Opened(c, a) - Closed(c, a) <= 0
        BY <1>1, <1>3, <1>5, <1>6, <2>1, <2>2
      <3>2. QED
        BY <2>2, <3>1 DEF Depth
    <2>3. CASE q # 0
      <3>1. \A a \in Counting(c) : Opened(c, a) - Closed(c, a) <= q - 1
        BY <1>1, <1>3, <1>5, <1>6, <2>1, <2>3
      <3>2. \E a \in Counting(c) : Opened(c, a) - Closed(c, a) = q - 1
        BY <1>1, <1>5, <1>6, <2>1, <2>3
      <3>3. QED
        BY <2>3, <3>1, <3>2 DEF Depth
    <2>4. QED
      BY <2>2, <2>3
  <1>9. ASSUME c \notin UQ, c \notin UU PROVE Depth(c, q)
    <2>1. step = 0
      BY <1>9
    <2>2. \A a \in Counting(c) : Opened(c, a) - Closed(c, a) <= q
      BY <1>1, <1>3, <1>5, <1>6, <2>1
    <2>3. q = 0 \/ \E a \in Counting(c) : Opened(c, a) - Closed(c, a) = q
      BY <1>1, <1>5, <1>6, <2>1
    <2>4. QED
      BY <2>2, <2>3 DEF Depth
  <1>10. QED
    BY <1>7, <1>8, <1>9 DEF UQ, UU

\* A step that starts the count anew leaves nothing open.
LEMMA DepthFresh ==
  ASSUME forest \in Forests, NEW c \in Data, Counting(c) = {c},
         c \notin Under({"Quasiquote"})
  PROVE  Depth(c, 0)
  <1>1. Opened(c, c) = 0
    BY OfLast DEF Opened, Of
  <1>2. Closed(c, c) \in Nat
    BY OfTyped DEF Closed, Of
  <1>3. Opened(c, c) - Closed(c, c) <= 0
    BY <1>1, <1>2
  <1>4. QED
    BY <1>3 DEF Depth

-----------------------------------------------------------------------------
(* The threaded context is right at every datum.                           *)

LEMMA RightTop ==
  ASSUME forest \in Forests, NEW c \in Kids(0)
  PROVE  Right(c, TOP)
  <1>1. c \in Data /\ Around(c) = {c} /\ ParentOf(c) = 0
    BY AroundTop
  <1>2. \A K : c \notin Under(K)
    BY <1>1 DEF Under, In
  <1>3. c \notin Sealing /\ c \notin ReadTime
    BY <1>1, <1>2 DEF Sealing, Auxiliary, Contents, In, ReadTime
  <1>4. Counting(c) = {c}
    BY <1>1, <1>3 DEF Counting
  <1>5. Depth(c, 0)
    BY <1>1, <1>2, <1>4, DepthFresh
  <1>6. QED
    BY <1>3, <1>4, <1>5 DEF Right, TOP

\* A child's context is right when its parent's is.
LEMMA RightChild ==
  ASSUME forest \in Forests, NEW d \in Data, NEW ctx \in Contexts, Right(d, ctx),
         NEW i \in DOMAIN children(d)
  PROVE  LET x == for_each_child(d, ctx)[i].ctx
         IN  Right(children(d)[i], x) /\ x \in Contexts /\ x.qq <= ctx.qq + 1
  <1> DEFINE cs == children(d)
             c == cs[i]
             inner == ~(i < Len(cs))
             x == for_each_child(d, ctx)[i].ctx
  <1>1. c \in Kids(d) /\ Kids(d) \subseteq Data
    BY ChildrenIs
  <1>2. /\ \A K : K \subseteq Prefix => (c \in Under(K) <=> kind(d) \in K /\ inner)
        /\ c \in Sealing <=> \/ kind(d) \in {"Quote", "Discard"} /\ inner
                             \/ kind(d) \in Prefix /\ ~inner
                             \/ kind(d) = "HashLiteral"
        /\ c \in ReadTime <=> kind(d) = "ReadEval" /\ inner
    BY StepIs
  <1>3. x = CASE kind(d) \in Prefix -> IF inner THEN inner_ctx(kind(d), ctx) ELSE DATA
              [] kind(d) = "HashLiteral" -> DATA
              [] OTHER -> ctx
    BY DEF for_each_child
  <1>4. /\ c \in Under({"Quasiquote"}) <=> kind(d) = "Quasiquote" /\ inner
        /\ c \in Under({"Unquote"}) <=> kind(d) = "Unquote" /\ inner
    BY <1>2 DEF Prefix
  <1>5. kind(d) \in Kinds
    BY ForestTyped
  <1>6. /\ c \in ReadTime => Counting(c) = {c}
        /\ c \notin ReadTime => Counting(c) = Counting(d) \union {c}
    BY <1>1, CountingStep
  <1>7. /\ ctx.hard_quote \in BOOLEAN /\ ctx.qq \in Nat
        /\ ctx.hard_quote <=> Counting(d) \intersect Sealing # {}
        /\ ~ctx.hard_quote => Depth(d, ctx.qq)
    BY DEF Contexts, Right
  <1>8. DATA \in Contexts /\ TOP \in Contexts /\ DATA.hard_quote /\ ~TOP.hard_quote
        /\ DATA.qq = 0 /\ TOP.qq = 0
    BY DEF DATA, TOP, Contexts
  <1> HIDE DEF c, inner, x
  <1>9. CASE c \in Sealing
    <2>1. x = DATA
      BY <1>2, <1>3, <1>9 DEF inner_ctx, Prefix
    <2>2. Counting(c) \intersect Sealing # {}
      BY <1>6, <1>9
    <2>3. QED
      BY <1>7, <1>8, <2>1, <2>2 DEF Right, c, x
  <1>10. CASE c \in ReadTime
    <2>1. x = TOP /\ c \notin Sealing /\ c \notin Under({"Quasiquote"})
      BY <1>2, <1>3, <1>4, <1>10 DEF inner_ctx, Prefix
    <2>2. Counting(c) = {c}
      BY <1>6, <1>10
    <2>3. Depth(c, 0)
      BY <1>1, <2>1, <2>2, DepthFresh
    <2>4. QED
      BY <1>7, <1>8, <2>1, <2>2, <2>3 DEF Right, c, x
  <1>11. CASE c \notin Sealing /\ c \notin ReadTime
    <2>1. Counting(c) \intersect Sealing = Counting(d) \intersect Sealing
      BY <1>6, <1>11
    <2>2. x = IF c \in Under({"Quasiquote"}) THEN [ctx EXCEPT !.qq = @ + 1]
              ELSE IF c \in Under({"Unquote"}) THEN [ctx EXCEPT !.qq = IF @ = 0 THEN 0 ELSE @ - 1]
              ELSE ctx
      BY <1>2, <1>3, <1>4, <1>5, <1>11 DEF inner_ctx, Prefix, Kinds
    <2>3. ~(c \in Under({"Quasiquote"}) /\ c \in Under({"Unquote"}))
      BY <1>4
    <2>4. /\ x \in Contexts /\ x.hard_quote = ctx.hard_quote
          /\ x.qq = IF c \in Under({"Quasiquote"}) THEN ctx.qq + 1
                    ELSE IF c \in Under({"Unquote"}) THEN IF ctx.qq = 0 THEN 0 ELSE ctx.qq - 1
                    ELSE ctx.qq
      BY <1>7, <2>2 DEF Contexts
    <2>5. ~ctx.hard_quote => Depth(c, x.qq)
      BY <1>1, <1>7, <1>11, <2>3, <2>4, DepthStep
    <2>6. x.qq <= ctx.qq + 1
      BY <1>7, <2>4
    <2>7. QED
      BY <1>7, <2>1, <2>4, <2>5, <2>6 DEF Right, c, x
  <1>12. QED
    BY <1>9, <1>10, <1>11

\* A right context tells the region of a datum.
LEMMA RegionRight ==
  ASSUME forest \in Forests, NEW d \in Data, NEW ctx \in Contexts, Right(d, ctx)
  PROVE  node_region(d, ctx) = RegionOf(d)
  <1>1. /\ ctx.hard_quote \in BOOLEAN /\ ctx.qq \in Nat
        /\ ctx.hard_quote <=> Counting(d) \intersect Sealing # {}
        /\ ~ctx.hard_quote => Depth(d, ctx.qq)
    BY DEF Contexts, Right
  <1>2. InTemplate(d) <=> \E a \in Counting(d) : Opened(d, a) > Closed(d, a)
    BY DEF InTemplate, Opened, Closed
  <1>3. \A a \in Counting(d) : Opened(d, a) \in Nat /\ Closed(d, a) \in Nat
    BY OfTyped DEF Opened, Closed, Of
  <1>4. ~ctx.hard_quote => (InTemplate(d) <=> ctx.qq > 0)
    <2>1. HAVE ~ctx.hard_quote
    <2>2. /\ \A a \in Counting(d) : Opened(d, a) - Closed(d, a) <= ctx.qq
          /\ ctx.qq = 0 \/ \E a \in Counting(d) : Opened(d, a) - Closed(d, a) = ctx.qq
      BY <1>1, <2>1 DEF Depth
    <2>3. QED
      BY <1>1, <1>2, <1>3, <2>2
  <1>5. QED
    BY <1>1, <1>4 DEF node_region, region, RegionOf

LEMMA PlacedIs ==
  ASSUME NEW d \in Data, NEW ctx \in Contexts, ctx.qq < d, Right(d, ctx)
  PROVE  [node |-> d, ctx |-> ctx] \in Placed
  <1> DEFINE it == [node |-> d, ctx |-> ctx]
  <1>1. it \in [node : Data, ctx : Contexts] /\ it.node = d /\ it.ctx = ctx
    OBVIOUS
  <1> HIDE DEF it
  <1>2. it \in Placed
    BY <1>1 DEF Placed
  <1>3. QED
    BY <1>2 DEF it

LEMMA ChildrenPlaced ==
  ASSUME forest \in Forests, NEW it \in Placed
  PROVE  for_each_child(it.node, it.ctx) \in Seq(Placed)
  <1> DEFINE d == it.node
             cs == children(d)
             kids == for_each_child(d, it.ctx)
  <1>1. d \in Data /\ it.ctx \in Contexts /\ it.ctx.qq < d /\ Right(d, it.ctx)
    BY DEF Placed
  <1>2. cs \in Seq(Kids(d)) /\ Kids(d) \subseteq Data
    BY <1>1, ChildrenIs
  <1>3. \A i \in DOMAIN cs : kids[i].node = cs[i] /\ kids[i] = [node |-> cs[i], ctx |-> kids[i].ctx]
    BY DEF for_each_child
  <1>4. kids = [i \in 1..Len(cs) |-> kids[i]] /\ Len(cs) \in Nat /\ DOMAIN cs = 1..Len(cs)
    BY <1>2 DEF for_each_child
  <1>5. ASSUME NEW i \in DOMAIN cs PROVE kids[i] \in Placed
    <2>1. /\ Right(cs[i], kids[i].ctx) /\ kids[i].ctx \in Contexts
          /\ kids[i].ctx.qq <= it.ctx.qq + 1
      BY <1>1, RightChild
    <2>2. cs[i] \in Data /\ d < cs[i] /\ cs[i] \in Nat /\ d \in Nat
      BY <1>1, <1>2, KidInside, ForestTyped
    <2>3. kids[i].ctx.qq < cs[i]
      BY <1>1, <2>1, <2>2 DEF Contexts
    <2> HIDE DEF kids, cs
    <2>4. QED
      BY <1>3, <2>1, <2>2, <2>3, PlacedIs
  <1> HIDE DEF kids, cs
  <1>6. kids \in Seq(Placed)
    BY <1>4, <1>5
  <1>7. QED
    BY <1>6 DEF kids

LEMMA TopPlaced ==
  ASSUME forest \in Forests
  PROVE  TopLevel \in Seq(Placed)
  <1> DEFINE ds == children(0)
  <1>1. ds \in Seq(Kids(0)) /\ Kids(0) \subseteq Data
    BY ChildrenIs
  <1>2. TopLevel = [i \in 1..Len(ds) |-> [node |-> ds[i], ctx |-> TOP]] /\ DOMAIN ds = 1..Len(ds)
        /\ Len(ds) \in Nat
    BY <1>1 DEF TopLevel
  <1>3. ASSUME NEW i \in DOMAIN ds PROVE [node |-> ds[i], ctx |-> TOP] \in Placed
    <2>1. ds[i] \in Kids(0) /\ ds[i] \in Data
      BY <1>1
    <2>2. Right(ds[i], TOP)
      BY <2>1, RightTop
    <2> HIDE DEF ds
    <2>3. ds[i] \in 1..Size /\ Size \in Nat
      BY <2>1, ForestTyped
    <2>4. TOP \in Contexts /\ TOP.qq < ds[i]
      BY <2>3 DEF TOP, Contexts
    <2>5. QED
      BY <2>1, <2>2, <2>4, PlacedIs
  <1> HIDE DEF ds
  <1>4. \A i \in 1..Len(ds) : TopLevel[i] \in Placed
    BY <1>2, <1>3
  <1>5. TopLevel = [i \in 1..Len(ds) |-> TopLevel[i]]
    BY <1>2
  <1>6. QED
    BY <1>2, <1>4, <1>5

-----------------------------------------------------------------------------
(* The inductive invariant.                                                *)

LEMMA LastFront ==
  ASSUME NEW S, NEW s \in Seq(S), s # <<>>
  PROVE  Last(s) \in S /\ Front(s) \in Seq(S) /\ Len(s) \in DOMAIN s
         /\ Len(Front(s)) = Len(s) - 1 /\ Last(s) = s[Len(s)]
  <1>1. Len(s) \in Nat /\ Len(s) # 0 /\ DOMAIN s = 1..Len(s)
    BY EmptySeq
  <1>2. Len(s) \in 1..Len(s)
    BY <1>1
  <1>3. Front(s) \in Seq(S) /\ Len(Front(s)) = Len(s) - 1
    <2>1. 1 \in 1..Len(s) + 1 /\ Len(s) - 1 \in 0..Len(s)
      BY <1>1
    <2>2. Front(s) = [i \in 1..Len(s) - 1 |-> s[i]]
      BY <1>1 DEF Front
    <2>3. QED
      BY <1>1, <2>2
  <1>4. QED
    BY <1>1, <1>2, <1>3 DEF Last

LEMMA ReverseTyped ==
  ASSUME NEW S, NEW s \in Seq(S)
  PROVE  Reverse(s) \in Seq(S)
  <1>1. \A i \in 1..Len(s) : Len(s) - i + 1 \in 1..Len(s)
    OBVIOUS
  <1>2. QED
    BY <1>1 DEF Reverse

\* Whatever is still to be visited or iterated has its right context, and
\* the callback has been given nothing but right regions.
IInv ==
  /\ forest \in Forests
  /\ calls \in Seq(Seq(Placed)) /\ calls # <<>>
  /\ flow \in {"Continue", "Break"}
  /\ seen \in Seq(Seen)
  /\ work \in Seq(Placed)
  /\ yielded \in Seq(Data)
  /\ pc \in {"walk", "iterate", "done"}

\* Where a datum must be placed depends on the forest alone.
LEMMA ForestFrame ==
  forest' = forest => Placed' = Placed /\ Seen' = Seen /\ Data' = Data
  <1> SUFFICES ASSUME forest' = forest
               PROVE  Placed' = Placed /\ Seen' = Seen /\ Data' = Data
    OBVIOUS
  <1> USE DEF Data, kind, last
  <1>1. Data' = Data
    OBVIOUS
  <1>2. \A d : Around(d)' = Around(d)
    BY DEF Around
  <1>3. \A d : ParentOf(d)' = ParentOf(d)
    BY DEF ParentOf, Around
  <1>4. \A K : Under(K)' = Under(K)
    BY DEF Under, In, IsInner, ParentOf, Around
  <1>5. Sealing' = Sealing /\ ReadTime' = ReadTime
    BY DEF Sealing, ReadTime, Auxiliary, Contents, Under, In, IsInner, ParentOf, Around
  <1>6. \A d : Counting(d)' = Counting(d)
    BY <1>2, <1>5 DEF Counting
  <1>7. \A d : RegionOf(d)' = RegionOf(d)
    BY <1>4, <1>5, <1>6 DEF RegionOf, InTemplate
  <1>8. \A d, q : Depth(d, q)' = Depth(d, q)
    BY <1>4, <1>6 DEF Depth, Opened, Closed
  <1>9. \A d, ctx : Right(d, ctx)' = Right(d, ctx)
    BY <1>5, <1>6, <1>8 DEF Right
  <1>10. QED
    BY <1>1, <1>7, <1>9 DEF Placed, Seen, Contexts

LEMMA Begins ==
  ASSUME Init
  PROVE  IInv
  <1>1. forest \in Forests /\ calls = <<TopLevel>> /\ flow = "Continue" /\ seen = <<>>
        /\ work = <<>> /\ yielded = <<>> /\ pc = "walk"
    BY DEF Init
  <1>2. TopLevel \in Seq(Placed)
    BY <1>1, TopPlaced
  <1>3. calls \in Seq(Seq(Placed)) /\ calls # <<>>
    BY <1>1, <1>2
  <1>4. QED
    BY <1>1, <1>3 DEF IInv

LEMMA VisitKeeps ==
  ASSUME IInv, NEW answer \in {"Descend", "Skip", "Stop"}, Visit(answer)
  PROVE  IInv'
  <1> DEFINE loop == Last(calls)
             d == Head(loop)
             rest == [calls EXCEPT ![Len(calls)] = Tail(@)]
             s == [node |-> d.node, region |-> node_region(d.node, d.ctx), answer |-> answer]
  <1>1. /\ loop # <<>> /\ seen' = Append(seen, s)
        /\ calls' = IF answer = "Descend" THEN Append(rest, for_each_child(d.node, d.ctx)) ELSE rest
        /\ flow' = IF answer = "Stop" THEN "Break" ELSE "Continue"
        /\ UNCHANGED <<forest, work, yielded, pc>>
    BY DEF Visit
  <1>2. /\ forest \in Forests /\ calls \in Seq(Seq(Placed)) /\ calls # <<>>
        /\ seen \in Seq(Seen) /\ work \in Seq(Placed) /\ yielded \in Seq(Data)
        /\ pc \in {"walk", "iterate", "done"}
    BY DEF IInv
  <1>3. loop \in Seq(Placed) /\ Len(calls) \in DOMAIN calls /\ loop = calls[Len(calls)]
    BY <1>2, LastFront
  <1> HIDE DEF loop
  <1>4. d \in Placed /\ Tail(loop) \in Seq(Placed)
    BY <1>1, <1>3
  <1>5. rest \in Seq(Seq(Placed)) /\ rest # <<>>
    <2>1. rest = [calls EXCEPT ![Len(calls)] = Tail(loop)]
      BY <1>3
    <2>2. rest \in Seq(Seq(Placed)) /\ Len(rest) = Len(calls)
      BY <1>2, <1>3, <1>4, <2>1
    <2>3. QED
      BY <1>2, <2>2
  <1> HIDE DEF d, rest
  <1>6. for_each_child(d.node, d.ctx) \in Seq(Placed)
    BY <1>2, <1>4, ChildrenPlaced
  <1>7. calls' \in Seq(Seq(Placed)) /\ calls' # <<>>
    <2> DEFINE kids == for_each_child(d.node, d.ctx)
    <2> HIDE DEF kids
    <2>1. kids \in Seq(Placed) /\ calls' = IF answer = "Descend" THEN Append(rest, kids) ELSE rest
      BY <1>1, <1>6 DEF kids
    <2>2. Append(rest, kids) \in Seq(Seq(Placed)) /\ Append(rest, kids) # <<>>
      BY <1>5, <2>1, AppendProperties
    <2>3. QED
      BY <1>5, <2>1, <2>2
  <1>8. s \in Seen
    <2>1. d.node \in Data /\ d.ctx \in Contexts /\ Right(d.node, d.ctx)
      BY <1>4 DEF Placed
    <2>2. node_region(d.node, d.ctx) = RegionOf(d.node)
      BY <1>2, <2>1, RegionRight
    <2>3. RegionOf(d.node) \in {"Code", "SealedData", "PorousData"}
      BY DEF RegionOf
    <2>4. s.region = RegionOf(s.node)
      BY <2>2
    <2>5. QED
      BY <2>1, <2>2, <2>3, <2>4 DEF Seen
  <1> HIDE DEF s
  <1>9. seen' \in Seq(Seen)
    BY <1>1, <1>2, <1>8
  <1>10. Placed' = Placed /\ Seen' = Seen /\ Data' = Data
    BY <1>1, ForestFrame
  <1>11. flow' \in {"Continue", "Break"}
    BY <1>1
  <1>12. QED
    BY <1>1, <1>2, <1>7, <1>9, <1>10, <1>11 DEF IInv

LEMMA IterateKeeps ==
  ASSUME IInv, work # <<>>
  PROVE  popped \in Placed /\ Front(work) \in Seq(Placed) /\ pushed \in Seq(Placed)
  <1>1. forest \in Forests /\ work \in Seq(Placed)
    BY DEF IInv
  <1>2. popped \in Placed /\ Front(work) \in Seq(Placed)
    BY <1>1, LastFront DEF popped
  <1> DEFINE kids == for_each_child(popped.node, popped.ctx)
  <1>3. kids \in Seq(Placed)
    BY <1>1, <1>2, ChildrenPlaced
  <1> HIDE DEF kids
  <1>4. Reverse(kids) \in Seq(Placed)
    BY <1>3, ReverseTyped
  <1>5. Front(work) \o Reverse(kids) \in Seq(Placed)
    BY <1>2, <1>4
  <1>6. QED
    BY <1>2, <1>5 DEF pushed, kids

LEMMA StepKeeps ==
  ASSUME IInv, [Next]_vars
  PROVE  IInv'
  <1>1. /\ forest \in Forests /\ calls \in Seq(Seq(Placed)) /\ calls # <<>>
        /\ flow \in {"Continue", "Break"}
        /\ seen \in Seq(Seen) /\ work \in Seq(Placed) /\ yielded \in Seq(Data)
        /\ pc \in {"walk", "iterate", "done"}
    BY DEF IInv
  <1>2. ASSUME NEW answer \in {"Descend", "Skip", "Stop"}, Visit(answer)
        PROVE  IInv'
    BY <1>2, VisitKeeps
  <1>3. CASE Return
    <2>1. /\ Len(calls) > 1 /\ calls' = Front(calls)
          /\ UNCHANGED <<forest, flow, seen, work, yielded, pc>>
      BY <1>3 DEF Return
    <2>2. Front(calls) \in Seq(Seq(Placed)) /\ Len(Front(calls)) = Len(calls) - 1
      BY <1>1, LastFront
    <2>3. Len(calls) \in Nat
      BY <1>1
    <2>4. Len(Front(calls)) > 0
      BY <2>1, <2>2, <2>3
    <2>5. Front(calls) # <<>>
      BY <2>4
    <2>6. Placed' = Placed /\ Seen' = Seen /\ Data' = Data
      BY <2>1, ForestFrame
    <2>7. QED
      BY <1>1, <2>1, <2>2, <2>5, <2>6 DEF IInv
  <1>4. CASE WalkEnd
    <2>1. /\ work' = Reverse(TopLevel) /\ pc' = "iterate"
          /\ UNCHANGED <<forest, calls, flow, seen, yielded>>
      BY <1>4 DEF WalkEnd
    <2>2. work' \in Seq(Placed)
      BY <1>1, <2>1, TopPlaced, ReverseTyped
    <2>3. Placed' = Placed /\ Seen' = Seen /\ Data' = Data
      BY <2>1, ForestFrame
    <2>4. QED
      BY <1>1, <2>1, <2>2, <2>3 DEF IInv
  <1>5. CASE Prune
    <2>1. work # <<>> /\ work' = Front(work) /\ UNCHANGED <<forest, calls, flow, seen, yielded, pc>>
      BY <1>5 DEF Prune
    <2>2. work' \in Seq(Placed)
      BY <2>1, IterateKeeps
    <2>3. Placed' = Placed /\ Seen' = Seen /\ Data' = Data
      BY <2>1, ForestFrame
    <2>4. QED
      BY <1>1, <2>1, <2>2, <2>3 DEF IInv
  <1>6. CASE DescendPorous
    <2>1. work # <<>> /\ work' = pushed /\ UNCHANGED <<forest, calls, flow, seen, yielded, pc>>
      BY <1>6 DEF DescendPorous
    <2>2. work' \in Seq(Placed)
      BY <2>1, IterateKeeps
    <2>3. Placed' = Placed /\ Seen' = Seen /\ Data' = Data
      BY <2>1, ForestFrame
    <2>4. QED
      BY <1>1, <2>1, <2>2, <2>3 DEF IInv
  <1>7. CASE Yield
    <2>1. /\ work # <<>> /\ work' = pushed /\ yielded' = Append(yielded, popped.node)
          /\ UNCHANGED <<forest, calls, flow, seen, pc>>
      BY <1>7 DEF Yield
    <2>2. work' \in Seq(Placed) /\ popped \in Placed
      BY <2>1, IterateKeeps
    <2>3. popped.node \in Data
      BY <2>2 DEF Placed
    <2>4. yielded' \in Seq(Data)
      BY <1>1, <2>1, <2>3
    <2>5. Placed' = Placed /\ Seen' = Seen /\ Data' = Data
      BY <2>1, ForestFrame
    <2>6. QED
      BY <1>1, <2>1, <2>2, <2>4, <2>5 DEF IInv
  <1>8. CASE IterateEnd
    <2>1. pc' = "done" /\ UNCHANGED <<forest, calls, flow, seen, work, yielded>>
      BY <1>8 DEF IterateEnd
    <2>2. Placed' = Placed /\ Seen' = Seen /\ Data' = Data
      BY <2>1, ForestFrame
    <2>3. QED
      BY <1>1, <2>1, <2>2 DEF IInv
  <1>9. CASE UNCHANGED vars
    <2>1. UNCHANGED <<forest, calls, flow, seen, work, yielded, pc>>
      BY <1>9 DEF vars
    <2>2. Placed' = Placed /\ Seen' = Seen /\ Data' = Data
      BY <2>1, ForestFrame
    <2>3. QED
      BY <1>1, <2>1, <2>2 DEF IInv
  <1>10. QED
    BY <1>2, <1>3, <1>4, <1>5, <1>6, <1>7, <1>8, <1>9 DEF Next

LEMMA Inductive == Spec => []IInv
  <1>1. Init => IInv
    BY Begins
  <1>2. IInv /\ [Next]_vars => IInv'
    BY StepKeeps
  <1>3. QED
    BY <1>1, <1>2, PTL DEF Spec

\* Whatever datum the callback of walk_regions is called on, and whatever it
\* answered before, it is given the region that the reader macros around that
\* datum make: sealed inside a quotation, an auxiliary datum or a hash literal,
\* porous inside an open template, code again from the innermost `#.' on.
THEOREM CallbackToldRight == Spec => []RegionsRight
  <1>1. IInv => RegionsRight
    <2>1. SUFFICES ASSUME IInv, seen # <<>>
                   PROVE  Last(seen).region = RegionOf(Last(seen).node)
      BY DEF RegionsRight
    <2>2. seen \in Seq(Seen)
      BY <2>1 DEF IInv
    <2>3. Last(seen) \in Seen
      BY <2>1, <2>2, LastFront
    <2>4. QED
      BY <2>3 DEF Seen
  <1>2. QED
    BY <1>1, Inductive, PTL

\* The types, and with them that the quasiquote depth stays between none and
\* one for every datum: it never falls below zero and nothing overflows it.
THEOREM WalkTyped == Spec => []TypeOK
  <1>1. IInv => TypeOK
    <2>1. SUFFICES ASSUME IInv PROVE TypeOK
      OBVIOUS
    <2>2. /\ forest \in Forests /\ calls \in Seq(Seq(Placed))
          /\ flow \in {"Continue", "Break"}
          /\ seen \in Seq(Seen) /\ work \in Seq(Placed) /\ yielded \in Seq(Data)
          /\ pc \in {"walk", "iterate", "done"}
      BY <2>1 DEF IInv
    <2>3. ASSUME NEW it \in Placed PROVE it \in Item
      <3>1. it \in [node : Data, ctx : Contexts] /\ it.ctx.qq < it.node
        BY DEF Placed
      <3>2. it.node \in 1..Size /\ Size \in Nat /\ Size = Len(forest.kind)
        BY <2>2, <3>1, ForestTyped DEF Size
      <3>3. it.ctx \in Contexts /\ it.ctx.qq \in Nat
        BY <3>1 DEF Contexts
      <3>4. it.ctx.qq \in 0..Len(forest.kind)
        BY <3>1, <3>2, <3>3
      <3>5. it.ctx \in [hard_quote : BOOLEAN, qq : 0..Len(forest.kind)]
        BY <3>3, <3>4 DEF Contexts
      <3>6. QED
        BY <3>1, <3>5 DEF Item
    <2>4. \A i \in DOMAIN calls : \A j \in DOMAIN calls[i] : calls[i][j] \in Item
      BY <2>2, <2>3
    <2>5. \A i \in DOMAIN work : work[i] \in Item
      BY <2>2, <2>3
    <2>6. \A i \in DOMAIN yielded : yielded[i] \in Data
      BY <2>2
    <2>7. \A i \in DOMAIN seen : seen[i] \in
            [node : Data, region : {"Code", "SealedData", "PorousData"},
             answer : {"Descend", "Skip", "Stop"}]
      <3>1. \A s \in Seen : s \in
              [node : Data, region : {"Code", "SealedData", "PorousData"},
               answer : {"Descend", "Skip", "Stop"}]
        BY DEF Seen
      <3>2. \A i \in DOMAIN seen : seen[i] \in Seen
        BY <2>2
      <3>3. QED
        BY <3>1, <3>2
    <2>8. QED
      BY <2>2, <2>4, <2>5, <2>6, <2>7 DEF TypeOK
  <1>2. QED
    BY <1>1, Inductive, PTL

-----------------------------------------------------------------------------
(* The order of the walk.                                                  *)

\* Data before a greater one keep their places.
LEMMA OrderedAppend ==
  ASSUME NEW ds, ds \subseteq Nat, IsFiniteSet(ds), NEW n \in Nat, \A d \in ds : d < n
  PROVE  Ordered(ds \union {n}) = Append(Ordered(ds), n)
  <1> DEFINE es == ds \union {n}
             s == Ordered(ds)
             t == Ordered(es)
             k == Cardinality(ds)
  <1>1. es \subseteq Nat /\ IsFiniteSet(es) /\ n \notin ds
    BY FS_AddElement
  <1>2. Cardinality(es) = k + 1 /\ k \in Nat
    BY <1>1, FS_AddElement, FS_CardinalityType
  <1>3. /\ s \in Seq(ds) /\ Len(s) = k
        /\ \A j \in 1..k : Cardinality(UpTo(ds, s[j])) = j
    BY OrderedIs
  <1>4. /\ t \in Seq(es) /\ Len(t) = k + 1
        /\ \A j \in 1..k + 1 : Cardinality(UpTo(es, t[j])) = j
        /\ \A d, e \in es : Cardinality(UpTo(es, d)) = Cardinality(UpTo(es, e)) => d = e
    BY <1>1, <1>2, OrderedIs
  <1>5. \A d \in ds : UpTo(es, d) = UpTo(ds, d)
    <2>1. ASSUME NEW d \in ds PROVE ~(n <= d)
      <3>1. d \in Nat /\ d < n
        OBVIOUS
      <3>2. QED
        BY <3>1
    <2>2. QED
      BY <2>1 DEF UpTo
  <1>6. UpTo(es, n) = es
    <2>1. ASSUME NEW d \in es PROVE d <= n
      <3>1. d \in Nat /\ (d < n \/ d = n)
        BY <1>1
      <3>2. QED
        BY <3>1
    <2>2. QED
      BY <2>1 DEF UpTo
  <1> HIDE DEF es, s, t, k
  <1>7. ASSUME NEW j \in 1..k PROVE t[j] = s[j]
    <2>1. s[j] \in ds /\ s[j] \in es /\ j \in 1..k + 1
      BY <1>2, <1>3 DEF es
    <2>2. t[j] \in es
      BY <1>2, <1>4, <2>1
    <2>3. Cardinality(UpTo(es, s[j])) = j /\ Cardinality(UpTo(es, t[j])) = j
      BY <1>3, <1>4, <1>5, <2>1
    <2>4. QED
      BY <1>4, <2>1, <2>2, <2>3
  <1>8. t[k + 1] = n
    <2>1. k + 1 \in 1..k + 1 /\ n \in es
      BY <1>2 DEF es
    <2>2. t[k + 1] \in es
      BY <1>2, <1>4, <2>1
    <2>3. Cardinality(UpTo(es, n)) = k + 1
      BY <1>2, <1>6
    <2>4. QED
      BY <1>4, <2>1, <2>2, <2>3
  <1>9. s \in Seq(es) /\ n \in es
    <2>1. ds \subseteq es /\ n \in es
      BY DEF es
    <2>2. QED
      BY <1>3, <2>1, SeqMonotonic
  <1>10. /\ Append(s, n) \in Seq(es) /\ Len(Append(s, n)) = k + 1
         /\ Append(s, n)[k + 1] = n /\ \A j \in 1..k : Append(s, n)[j] = s[j]
    BY <1>3, <1>9, AppendProperties
  <1>11. ASSUME NEW j \in 1..k + 1 PROVE t[j] = Append(s, n)[j]
    <2>1. CASE j \in 1..k
      BY <1>7, <1>10, <2>1
    <2>2. CASE j = k + 1
      BY <1>8, <1>10, <2>2
    <2>3. j \in 1..k \/ j = k + 1
      BY <1>2
    <2>4. QED
      BY <2>1, <2>2, <2>3
  <1>12. t = Append(s, n)
    BY <1>4, <1>10, <1>11
  <1>13. QED
    BY <1>12 DEF t, s, es

LEMMA OrderedNone == Ordered({}) = <<>>
  <1>1. Cardinality({}) = 0 /\ IsFiniteSet({})
    BY FS_EmptySet
  <1>2. Len(Ordered({})) = 0 /\ Ordered({}) \in Seq({})
    BY <1>1, OrderedIs
  <1>3. QED
    BY <1>2

\* The data of s and what is inside them are the data behind `from' up to
\* `to', each once; l tells the last datum inside each.
Covers(l, s, from, to) ==
  IF s = <<>> THEN from = to
  ELSE /\ s[1] = from + 1
       /\ \A k \in 1..Len(s) - 1 : s[k + 1] = l[s[k]] + 1
       /\ l[s[Len(s)]] = to

LEMMA ChildrenCover ==
  ASSUME forest \in Forests, NEW d \in Data \union {0}
  PROVE  Covers(forest.last, children(d), d, LastIn(d))
  <1> DEFINE cs == children(d)
             ks == Kids(d)
  <1>1. /\ cs \in Seq(ks) /\ ks \subseteq Data
        /\ \A k, l \in DOMAIN cs : k < l => cs[k] < cs[l]
        /\ \A e \in ks : \E k \in DOMAIN cs : cs[k] = e
    BY ChildrenIs
  <1>2. DOMAIN cs = 1..Len(cs) /\ Len(cs) \in Nat
    BY <1>1
  <1>3. /\ d \in Nat /\ LastIn(d) \in Nat /\ d <= LastIn(d)
        /\ \A e : e \in Inside(d) <=> e \in Data /\ d < e /\ e <= LastIn(d)
        /\ ks \subseteq Inside(d)
        /\ \A c \in Inside(d) : last(c) <= LastIn(d)
    BY InsideIs
  <1>4. \A c \in ks : /\ c \in Nat /\ last(c) \in Nat /\ c <= last(c) /\ d < c
                       /\ c <= LastIn(d) /\ last(c) <= LastIn(d)
                       /\ \A e \in ks : e < c => last(e) < c
    <2>1. \A c \in ks : /\ c \in Nat /\ last(c) \in Nat /\ c <= last(c) /\ d < c
                         /\ c <= LastIn(d) /\ last(c) <= LastIn(d)
      BY <1>1, <1>3, ForestTyped
    <2>2. \A c \in ks : \A e \in ks : e < c => last(e) < c
      BY <1>3 DEF Kids
    <2>3. QED
      BY <2>1, <2>2
  <1>5. d < LastIn(d) => d + 1 \in ks
    <2>1. HAVE d < LastIn(d)
    <2>2. Size \in Nat /\ Data = 1..Size /\ \A e \in Data : e \in Nat /\ last(e) <= Size /\ last(e) \in Nat
      BY ForestTyped
    <2>3. LastIn(d) <= Size
      BY <2>2 DEF LastIn
    <2>4. d + 1 \in Data /\ d < d + 1 /\ d + 1 <= LastIn(d)
      BY <1>3, <2>1, <2>2, <2>3
    <2>5. \A e \in Inside(d) : ~(e < d + 1)
      <3>1. \A e \in Inside(d) : e \in Nat /\ d < e
        BY <1>3, <2>2
      <3>2. QED
        BY <1>3, <3>1
    <2>6. QED
      BY <1>3, <2>4, <2>5 DEF Kids
  <1>6. \A c \in ks : last(c) < LastIn(d) => last(c) + 1 \in ks
    BY NextKid
  <1> HIDE DEF cs, ks
  <1>7. CASE cs = <<>>
    <2>1. ~(d < LastIn(d))
      BY <1>1, <1>2, <1>5, <1>7
    <2>2. d = LastIn(d)
      BY <1>3, <2>1
    <2>3. QED
      BY <1>7, <2>2 DEF Covers, cs
  <1>8. CASE cs # <<>>
    <2>1. Len(cs) >= 1 /\ 1 \in DOMAIN cs /\ Len(cs) \in DOMAIN cs
      BY <1>1, <1>2, <1>8, EmptySeq
    <2>2. cs[1] = d + 1
      <3>1. cs[1] \in ks /\ d + 1 \in ks
        <4>1. cs[1] \in ks
          BY <1>1, <2>1
        <4>2. d < LastIn(d)
          BY <1>3, <1>4, <4>1
        <4>3. QED
          BY <1>5, <4>1, <4>2
      <3>2. PICK k \in DOMAIN cs : cs[k] = d + 1
        BY <1>1, <3>1
      <3>3. k = 1 \/ 1 < k
        BY <1>2
      <3>4. k # 1 => cs[1] < d + 1
        BY <1>1, <2>1, <3>2, <3>3
      <3>5. QED
        BY <1>3, <1>4, <3>1, <3>2, <3>4
    <2>3. ASSUME NEW k \in 1..Len(cs) - 1 PROVE cs[k + 1] = last(cs[k]) + 1
      <3>1. k \in DOMAIN cs /\ k + 1 \in DOMAIN cs /\ k < k + 1
        BY <1>2
      <3> DEFINE c == cs[k]
                 b == cs[k + 1]
      <3>2. c \in ks /\ b \in ks /\ c < b
        BY <1>1, <3>1
      <3> HIDE DEF c, b
      <3>3. last(c) < b /\ last(c) < LastIn(d)
        <4>1. last(c) < b /\ b <= LastIn(d) /\ last(c) \in Nat /\ b \in Nat
          BY <1>4, <3>2
        <4>2. QED
          BY <1>3, <4>1
      <3>4. PICK j \in DOMAIN cs : cs[j] = last(c) + 1
        BY <1>1, <1>6, <3>2, <3>3
      <3>5. c < last(c) + 1 /\ last(c) + 1 <= b /\ c \in Nat /\ b \in Nat /\ last(c) \in Nat
        BY <1>4, <3>2, <3>3
      <3>6. ~(j < k) /\ j # k
        <4>1. j < k => cs[j] < c
          BY <1>1, <3>1 DEF c
        <4>2. QED
          BY <3>4, <3>5, <4>1 DEF c
      <3>7. ~(k + 1 < j)
        <4>1. k + 1 < j => b < cs[j]
          BY <1>1, <3>1 DEF b
        <4>2. QED
          BY <3>4, <3>5, <4>1
      <3>8. j = k + 1
        BY <1>2, <3>6, <3>7
      <3>9. QED
        BY <3>4, <3>8 DEF c
    <2>4. last(cs[Len(cs)]) = LastIn(d)
      <3> DEFINE c == cs[Len(cs)]
      <3>1. c \in ks
        BY <1>1, <2>1
      <3>2. SUFFICES ASSUME last(c) # LastIn(d) PROVE FALSE
        OBVIOUS
      <3>3. c \in Nat /\ last(c) \in Nat /\ c <= last(c) /\ last(c) <= LastIn(d)
        BY <1>4, <3>1
      <3> HIDE DEF c
      <3>4. last(c) < LastIn(d)
        BY <1>3, <3>2, <3>3
      <3>5. PICK j \in DOMAIN cs : cs[j] = last(c) + 1
        BY <1>1, <1>6, <3>1, <3>4
      <3>6. j < Len(cs) \/ j = Len(cs)
        BY <1>2
      <3>7. j < Len(cs) => cs[j] < c
        BY <1>1, <2>1 DEF c
      <3>8. QED
        BY <3>3, <3>5, <3>6, <3>7 DEF c
    <2>5. QED
      BY <1>8, <2>2, <2>3, <2>4 DEF Covers, cs, last
  <1>9. QED
    BY <1>7, <1>8

Nodes(s) == [k \in DOMAIN s |-> s[k].node]

LEMMA NodesIs ==
  ASSUME NEW S, NEW s \in Seq(S), NEW T, \A e \in S : e.node \in T
  PROVE  /\ Nodes(s) \in Seq(T) /\ Len(Nodes(s)) = Len(s) /\ Len(s) \in Nat
         /\ \A k \in 1..Len(s) : Nodes(s)[k] = s[k].node
  <1>1. Len(s) \in Nat /\ DOMAIN s = 1..Len(s) /\ \A k \in 1..Len(s) : s[k] \in S
    BY LenProperties, ElementOfSeq
  <1>2. Nodes(s) = [k \in 1..Len(s) |-> s[k].node]
    BY <1>1 DEF Nodes
  <1>3. QED
    BY <1>1, <1>2

LEMMA NodesAppend ==
  ASSUME NEW S, NEW s \in Seq(S), NEW e \in S
  PROVE  Nodes(Append(s, e)) = Append(Nodes(s), e.node)
  <1> DEFINE T == {x.node : x \in S}
             a == Append(s, e)
             b == Append(Nodes(s), e.node)
  <1>0. e.node \in T /\ \A x \in S : x.node \in T
    OBVIOUS
  <1> HIDE DEF T
  <1>1. /\ a \in Seq(S) /\ Len(a) = Len(s) + 1 /\ a[Len(s) + 1] = e
        /\ \A k \in 1..Len(s) : a[k] = s[k]
    BY AppendProperties
  <1>2. /\ Nodes(s) \in Seq(T) /\ Len(Nodes(s)) = Len(s) /\ Len(s) \in Nat
        /\ \A k \in 1..Len(s) : Nodes(s)[k] = s[k].node
    BY <1>0, NodesIs
  <1>3. /\ Nodes(a) \in Seq(T) /\ Len(Nodes(a)) = Len(a)
        /\ \A k \in 1..Len(a) : Nodes(a)[k] = a[k].node
    BY <1>0, <1>1, NodesIs
  <1>4. /\ b \in Seq(T) /\ Len(b) = Len(s) + 1 /\ b[Len(s) + 1] = e.node
        /\ \A k \in 1..Len(s) : b[k] = Nodes(s)[k]
    BY <1>0, <1>2, AppendProperties
  <1> HIDE DEF a, b
  <1>5. ASSUME NEW k \in 1..Len(s) + 1 PROVE Nodes(a)[k] = b[k]
    <2>1. k \in 1..Len(s) \/ k = Len(s) + 1
      BY <1>2
    <2>2. Nodes(a)[k] = a[k].node
      BY <1>1, <1>3
    <2>3. QED
      BY <1>1, <1>2, <1>4, <2>1, <2>2
  <1>6. Nodes(a) = b
    BY <1>1, <1>3, <1>4, <1>5, SeqEqual
  <1>7. QED
    BY <1>6 DEF a, b

\* The children with their contexts cover the datum they are in.
LEMMA EachChildCovers ==
  ASSUME forest \in Forests
  PROVE  /\ \A d \in Data : \A ctx :
              Covers(forest.last, Nodes(for_each_child(d, ctx)), d, forest.last[d])
         /\ Covers(forest.last, Nodes(TopLevel), 0, Size)
  <1>1. ASSUME NEW d \in Data, NEW ctx
        PROVE  Covers(forest.last, Nodes(for_each_child(d, ctx)), d, forest.last[d])
    <2>1. children(d) \in Seq(Kids(d))
      BY ChildrenIs
    <2>2. Nodes(for_each_child(d, ctx)) = [k \in DOMAIN children(d) |-> children(d)[k]]
      BY DEF Nodes, for_each_child
    <2>3. Nodes(for_each_child(d, ctx)) = children(d)
      BY <2>1, <2>2
    <2>4. d # 0
      BY ForestTyped
    <2>5. QED
      BY <2>3, <2>4, ChildrenCover DEF LastIn, last
  <1>2. Covers(forest.last, Nodes(TopLevel), 0, Size)
    <2>1. children(0) \in Seq(Kids(0))
      BY ChildrenIs
    <2>2. Nodes(TopLevel) = [k \in DOMAIN children(0) |-> children(0)[k]]
      BY DEF Nodes, TopLevel
    <2>3. Nodes(TopLevel) = children(0)
      BY <2>1, <2>2
    <2>4. QED
      BY <2>3, ChildrenCover DEF LastIn
  <1>3. QED
    BY <1>1, <1>2

\* The first datum is the next one, and the rest goes on behind it.
LEMMA CoversTail ==
  ASSUME NEW S, NEW s \in Seq(S), s # <<>>, NEW l, NEW from, NEW to,
         Covers(l, Nodes(s), from, to)
  PROVE  Head(s).node = from + 1 /\ Covers(l, Nodes(Tail(s)), l[from + 1], to)
  <1> DEFINE T == {x.node : x \in S}
             t == Tail(s)
  <1>0. \A x \in S : x.node \in T
    OBVIOUS
  <1> HIDE DEF T
  <1>1. /\ Nodes(s) \in Seq(T) /\ Len(Nodes(s)) = Len(s) /\ Len(s) \in Nat
        /\ \A k \in 1..Len(s) : Nodes(s)[k] = s[k].node
    BY <1>0, NodesIs
  <1>2. /\ t \in Seq(S) /\ Len(t) = Len(s) - 1 /\ Head(s) = s[1]
        /\ \A k \in 1..Len(s) - 1 : t[k] = s[k + 1]
    OBVIOUS
  <1>3. Len(s) # 0 /\ Nodes(s) # <<>>
    <2>1. Len(s) # 0
      BY EmptySeq
    <2>2. Len(Nodes(s)) # Len(<<>>)
      BY <1>1, <2>1, EmptySeq
    <2>3. QED
      BY <2>1, <2>2
  <1> HIDE DEF t
  <1>4. /\ Nodes(t) \in Seq(T) /\ Len(Nodes(t)) = Len(t)
        /\ \A k \in 1..Len(t) : Nodes(t)[k] = t[k].node
    BY <1>0, <1>2, NodesIs
  <1>5. /\ Nodes(s)[1] = from + 1
        /\ \A k \in 1..Len(s) - 1 : Nodes(s)[k + 1] = l[Nodes(s)[k]] + 1
        /\ l[Nodes(s)[Len(s)]] = to
    BY <1>1, <1>3 DEF Covers
  <1>6. Head(s).node = from + 1
    <2>1. 1 \in 1..Len(s)
      BY <1>1, <1>3
    <2>2. QED
      BY <1>1, <1>2, <1>5, <2>1
  <1>7. \A k \in 1..Len(s) - 1 : Nodes(t)[k] = Nodes(s)[k + 1]
    <2>1. TAKE k \in 1..Len(s) - 1
    <2>2. k + 1 \in 1..Len(s)
      BY <1>1
    <2>3. QED
      BY <1>1, <1>2, <1>4, <2>2
  <1>8. CASE Len(s) = 1
    <2>1. Len(t) = 0
      BY <1>2, <1>8
    <2>2. Nodes(t) = <<>>
      BY <1>4, <2>1
    <2>3. QED
      BY <1>5, <1>6, <1>8, <2>2 DEF Covers, t
  <1>9. CASE Len(s) # 1
    <2>1. Len(s) - 1 \in Nat /\ Len(s) - 1 >= 1 /\ 1 \in 1..Len(s) - 1 /\ Len(s) - 1 \in 1..Len(s) - 1
          /\ Len(s) - 1 + 1 = Len(s) /\ 1 + 1 = 2
      BY <1>1, <1>3, <1>9
    <2>2. Nodes(t) # <<>>
      BY <1>2, <1>4, <2>1, EmptySeq
    <2>3. Nodes(t)[1] = l[from + 1] + 1
      BY <1>5, <1>7, <2>1
    <2>4. ASSUME NEW k \in 1..Len(Nodes(t)) - 1 PROVE Nodes(t)[k + 1] = l[Nodes(t)[k]] + 1
      <3>1. k \in 1..Len(s) - 1 /\ k + 1 \in 1..Len(s) - 1
        BY <1>2, <1>4, <2>1
      <3>2. QED
        BY <1>5, <1>7, <3>1
    <2>5. l[Nodes(t)[Len(Nodes(t))]] = to
      BY <1>2, <1>4, <1>5, <1>7, <2>1
    <2>6. QED
      BY <1>6, <2>2, <2>3, <2>4, <2>5 DEF Covers, t
  <1>10. QED
    BY <1>8, <1>9

-----------------------------------------------------------------------------
(* What the callback has been called on, q, and what is still to come.     *)

Skipped(q) == {q[i].node : i \in {j \in DOMAIN q : q[j].answer = "Skip"}}

\* The data up to u the callback is due to see.
Due(l, q, u) == {d \in 1..u : \A s \in Skipped(q) : d \notin s + 1..l[s]}

\* The last datum the callback was called on, and the last one disposed of.
Reached(q) == IF q = <<>> THEN 0 ELSE Last(q).node
Handled(l, q) ==
  IF q = <<>> THEN 0 ELSE IF Last(q).answer = "Skip" THEN l[Last(q).node] ELSE Last(q).node

SkipsBehind(l, q) == \A s \in Skipped(q) : l[s] <= Handled(l, q)

LEMMA SkippedTyped ==
  ASSUME NEW q \in Seq(Seen)
  PROVE  Skipped(q) \subseteq Data
  <1>1. \A i \in DOMAIN q : q[i] \in Seen
    OBVIOUS
  <1>2. \A s \in Seen : s.node \in Data
    BY DEF Seen
  <1>3. QED
    BY <1>1, <1>2 DEF Skipped

LEMMA LastIs ==
  ASSUME NEW S, NEW q \in Seq(S), q # <<>>
  PROVE  Last(q) \in S /\ Len(q) \in DOMAIN q /\ q[Len(q)] = Last(q)
  BY LastFront

LEMMA HandledTyped ==
  ASSUME forest \in Forests, NEW q \in Seq(Seen)
  PROVE  /\ Reached(q) \in Nat /\ Handled(forest.last, q) \in Nat
         /\ Reached(q) <= Handled(forest.last, q)
  <1>1. CASE q = <<>>
    BY <1>1 DEF Reached, Handled
  <1>2. CASE q # <<>>
    <2>1. Last(q) \in Seen
      BY <1>2, LastIs
    <2>2. Last(q).node \in Data
      BY <2>1 DEF Seen
    <2>3. Last(q).node \in Nat /\ last(Last(q).node) \in Nat /\ Last(q).node <= last(Last(q).node)
      BY <2>2, ForestTyped
    <2>4. QED
      BY <1>2, <2>3 DEF Reached, Handled, last
  <1>3. QED
    BY <1>1, <1>2

\* Of what is disposed of, nothing behind the last call is due.
LEMMA DueHandled ==
  ASSUME forest \in Forests, NEW q \in Seq(Seen)
  PROVE  Due(forest.last, q, Handled(forest.last, q)) = Due(forest.last, q, Reached(q))
  <1> DEFINE l == forest.last
             h == Handled(l, q)
             m == Reached(q)
  <1>1. m \in Nat /\ h \in Nat /\ m <= h
    BY HandledTyped
  <1>2. m # h => m \in Skipped(q) /\ h = l[m]
    <2>1. HAVE m # h
    <2>2. q # <<>>
      BY <2>1 DEF Reached, Handled
    <2>3. Last(q).answer = "Skip" /\ m = Last(q).node /\ h = l[m]
      BY <2>1, <2>2 DEF Reached, Handled
    <2>4. Len(q) \in DOMAIN q /\ q[Len(q)] = Last(q)
      BY <2>2, LastIs
    <2>5. QED
      BY <2>3, <2>4 DEF Skipped
  <1> HIDE DEF h, m
  <1>3. ASSUME NEW d \in Due(l, q, h) PROVE d \in Due(l, q, m)
    <2>1. d \in 1..h /\ \A s \in Skipped(q) : d \notin s + 1..l[s]
      BY DEF Due
    <2>2. d \in 1..m
      <3>1. CASE m = h
        BY <2>1, <3>1
      <3>2. CASE m # h
        <4>1. d \notin m + 1..h
          BY <1>2, <2>1, <3>2
        <4>2. QED
          BY <1>1, <2>1, <4>1
      <3>3. QED
        BY <3>1, <3>2
    <2>3. QED
      BY <2>1, <2>2 DEF Due
  <1>4. ASSUME NEW d \in Due(l, q, m) PROVE d \in Due(l, q, h)
    <2>1. d \in 1..m /\ \A s \in Skipped(q) : d \notin s + 1..l[s]
      BY DEF Due
    <2>2. d \in 1..h
      BY <1>1, <2>1
    <2>3. QED
      BY <2>1, <2>2 DEF Due
  <1>5. QED
    BY <1>3, <1>4 DEF h, m

LEMMA SkippedNext ==
  ASSUME NEW q \in Seq(Seen), NEW s \in Seen
  PROVE  /\ Skipped(Append(q, s)) = Skipped(q) \union (IF s.answer = "Skip" THEN {s.node} ELSE {})
         /\ Append(q, s) # <<>> /\ Last(Append(q, s)) = s /\ Append(q, s) \in Seq(Seen)
  <1> DEFINE r == Append(q, s)
  <1>1. /\ r \in Seq(Seen) /\ Len(r) = Len(q) + 1 /\ r[Len(q) + 1] = s
        /\ \A k \in 1..Len(q) : r[k] = q[k]
    BY AppendProperties
  <1>2. Len(q) \in Nat /\ DOMAIN q = 1..Len(q)
    OBVIOUS
  <1> HIDE DEF r
  <1>3. DOMAIN r = 1..Len(q) + 1
    BY <1>1, LenProperties
  <1>4. \A i \in 1..Len(q) + 1 : i \in 1..Len(q) \/ i = Len(q) + 1
    BY <1>2
  <1>5. \A i \in 1..Len(q) : i \in 1..Len(q) + 1
    BY <1>2
  <1>6. Len(q) + 1 \in 1..Len(q) + 1
    BY <1>2
  <1>7. ASSUME NEW d \in Skipped(r)
        PROVE  d \in Skipped(q) \union (IF s.answer = "Skip" THEN {s.node} ELSE {})
    <2>1. PICK i \in DOMAIN r : r[i].answer = "Skip" /\ d = r[i].node
      BY DEF Skipped
    <2>2. CASE i \in 1..Len(q)
      BY <1>1, <1>2, <2>1, <2>2 DEF Skipped
    <2>3. CASE i = Len(q) + 1
      BY <1>1, <2>1, <2>3
    <2>4. QED
      BY <1>3, <1>4, <2>2, <2>3
  <1>8. ASSUME NEW d \in Skipped(q) PROVE d \in Skipped(r)
    <2>1. PICK i \in DOMAIN q : q[i].answer = "Skip" /\ d = q[i].node
      BY DEF Skipped
    <2>2. i \in DOMAIN r /\ r[i] = q[i]
      BY <1>1, <1>2, <1>3, <1>5
    <2>3. QED
      BY <2>1, <2>2 DEF Skipped
  <1>9. s.answer = "Skip" => s.node \in Skipped(r)
    BY <1>1, <1>3, <1>6 DEF Skipped
  <1>10. r # <<>> /\ Last(r) = s
    <2>1. Len(r) # 0
      BY <1>1, <1>2
    <2>2. r # <<>>
      BY <2>1, EmptySeq
    <2>3. QED
      BY <1>1, <2>2 DEF Last
  <1>11. QED
    BY <1>1, <1>7, <1>8, <1>9, <1>10 DEF r

\* The callback is called on the next datum: it is due, and nothing between is.
LEMMA DueNext ==
  ASSUME forest \in Forests, NEW q \in Seq(Seen), NEW s \in Seen,
         s.node = Handled(forest.last, q) + 1, SkipsBehind(forest.last, q)
  PROVE  LET r == Append(q, s)
         IN  /\ Due(forest.last, r, Reached(r)) = Due(forest.last, q, Reached(q)) \union {s.node}
             /\ \A d \in Due(forest.last, q, Reached(q)) : d < s.node
             /\ SkipsBehind(forest.last, r)
  <1> DEFINE l == forest.last
             r == Append(q, s)
             h == Handled(l, q)
             n == s.node
  <1>1. /\ Skipped(r) = Skipped(q) \union (IF s.answer = "Skip" THEN {n} ELSE {})
        /\ r # <<>> /\ Last(r) = s
    BY SkippedNext
  <1> HIDE DEF r
  <1>2. h \in Nat /\ n = h + 1
    BY HandledTyped
  <1>3. Due(l, q, Reached(q)) = Due(l, q, h)
    BY DueHandled
  <1>4. \A t \in Skipped(q) : t \in Nat /\ l[t] \in Nat /\ l[t] <= h
    <2>1. \A t \in Skipped(q) : t \in Data
      BY SkippedTyped
    <2>2. QED
      BY <2>1, ForestTyped DEF SkipsBehind, last
  <1>5. Reached(r) = n
    BY <1>1 DEF Reached
  <1>6. n \in Data /\ n <= l[n] /\ l[n] \in Nat
    BY ForestTyped DEF Seen, last
  <1> HIDE DEF h, n
  <1>7. \A d \in Due(l, q, h) : d < n
    BY <1>2 DEF Due
  <1>8. ASSUME NEW d \in Due(l, r, n), d # n PROVE d \in Due(l, q, h)
    <2>1. d \in 1..n /\ \A t \in Skipped(r) : d \notin t + 1..l[t]
      BY DEF Due
    <2>2. d \in 1..h
      BY <1>2, <1>8, <2>1
    <2>3. QED
      BY <1>1, <2>1, <2>2 DEF Due
  <1>9. ASSUME NEW d \in Due(l, q, h) PROVE d \in Due(l, r, n)
    <2>1. d \in 1..h /\ \A t \in Skipped(q) : d \notin t + 1..l[t]
      BY DEF Due
    <2>2. d \in 1..n /\ d \notin n + 1..l[n]
      BY <1>2, <1>6, <2>1
    <2>3. QED
      BY <1>1, <2>1, <2>2 DEF Due
  <1>10. n \in Due(l, r, n)
    <2>1. n \in 1..n /\ n \notin n + 1..l[n]
      BY <1>2, <1>6
    <2>2. \A t \in Skipped(q) : n \notin t + 1..l[t]
      BY <1>2, <1>4
    <2>3. QED
      BY <1>1, <2>1, <2>2 DEF Due
  <1>11. SkipsBehind(l, r)
    <2>1. Handled(l, r) = IF s.answer = "Skip" THEN l[n] ELSE n
      BY <1>1 DEF Handled, n
    <2>2. h <= Handled(l, r)
      BY <1>2, <1>6, <2>1
    <2>3. \A t \in Skipped(q) : l[t] <= Handled(l, r)
      BY <1>2, <1>4, <1>6, <2>1
    <2>4. s.answer = "Skip" => l[n] <= Handled(l, r)
      BY <1>6, <2>1
    <2>5. QED
      BY <1>1, <2>3, <2>4 DEF SkipsBehind
  <1>12. QED
    BY <1>3, <1>5, <1>7, <1>8, <1>9, <1>10, <1>11 DEF r, h, n

\* The loops in progress, cs, have the data behind `from' up to `to' to come:
\* each goes on where the ones inside it end.
Ahead(l, cs, from, to) ==
  \E x \in [1..Len(cs) + 1 -> Nat] :
    /\ x[1] = to /\ x[Len(cs) + 1] = from
    /\ \A i \in 1..Len(cs) : Covers(l, Nodes(cs[i]), x[i + 1], x[i])

\* Taking the next datum of the innermost loop.
LEMMA AheadTake ==
  ASSUME NEW S, NEW cs \in Seq(Seq(S)), cs # <<>>, Last(cs) # <<>>, NEW l, NEW from, NEW to,
         Ahead(l, cs, from, to), l[from + 1] \in Nat
  PROVE  /\ Head(Last(cs)).node = from + 1
         /\ Ahead(l, [cs EXCEPT ![Len(cs)] = Tail(@)], l[from + 1], to)
  <1> DEFINE n == Len(cs)
             rest == [cs EXCEPT ![n] = Tail(@)]
  <1>1. n \in Nat /\ n >= 1 /\ n \in 1..n /\ DOMAIN cs = 1..n
    BY EmptySeq
  <1>2. Last(cs) = cs[n] /\ cs[n] \in Seq(S) /\ cs[n] # <<>>
    BY <1>1, LastIs, ElementOfSeq
  <1>3. /\ Len(rest) = n /\ rest[n] = Tail(cs[n])
        /\ \A i \in 1..n : i # n => rest[i] = cs[i]
    <2>1. Tail(cs[n]) \in Seq(S)
      BY <1>2
    <2>2. rest = [cs EXCEPT ![n] = Tail(cs[n])]
      BY <1>1
    <2>3. QED
      BY <1>1, <2>1, <2>2, ExceptSeq
  <1>4. PICK x \in [1..n + 1 -> Nat] :
          /\ x[1] = to /\ x[n + 1] = from
          /\ \A i \in 1..n : Covers(l, Nodes(cs[i]), x[i + 1], x[i])
    BY DEF Ahead
  <1> HIDE DEF n, rest
  <1>5. Head(cs[n]).node = from + 1 /\ Covers(l, Nodes(Tail(cs[n])), l[from + 1], x[n])
    <2>1. Covers(l, Nodes(cs[n]), from, x[n])
      BY <1>1, <1>4
    <2>2. QED
      BY <1>2, <2>1, CoversTail
  <1> DEFINE y == [x EXCEPT ![n + 1] = l[from + 1]]
  <1>6. /\ y \in [1..n + 1 -> Nat] /\ y[n + 1] = l[from + 1]
        /\ \A i \in 1..n : y[i] = x[i]
    <2>1. n + 1 \in 1..n + 1 /\ \A i \in 1..n : i \in 1..n + 1 /\ i # n + 1
      BY <1>1
    <2>2. QED
      BY <1>4, <2>1
  <1>7. y[1] = to
    <2>1. 1 \in 1..n
      BY <1>1
    <2>2. QED
      BY <1>4, <1>6, <2>1
  <1> HIDE DEF y
  <1>8. ASSUME NEW i \in 1..n PROVE Covers(l, Nodes(rest[i]), y[i + 1], y[i])
    <2>1. CASE i = n
      BY <1>3, <1>5, <1>6, <2>1
    <2>2. CASE i # n
      <3>1. i + 1 \in 1..n
        BY <1>1, <2>2
      <3>2. QED
        BY <1>3, <1>4, <1>6, <2>2, <3>1
    <2>3. QED
      BY <2>1, <2>2
  <1>9. Ahead(l, rest, l[from + 1], to)
    BY <1>3, <1>6, <1>7, <1>8 DEF Ahead
  <1>10. QED
    BY <1>2, <1>5, <1>9 DEF rest, n

\* A loop over all there is inside the datum before.
LEMMA AheadCall ==
  ASSUME NEW S, NEW cs \in Seq(Seq(S)), NEW kids \in Seq(S), NEW l, NEW d \in Nat, NEW to,
         Ahead(l, cs, l[d], to), Covers(l, Nodes(kids), d, l[d])
  PROVE  Ahead(l, Append(cs, kids), d, to)
  <1> DEFINE n == Len(cs)
             r == Append(cs, kids)
  <1>1. n \in Nat
    OBVIOUS
  <1>2. /\ Len(r) = n + 1 /\ r[n + 1] = kids /\ \A i \in 1..n : r[i] = cs[i]
    BY AppendProperties
  <1>3. PICK x \in [1..n + 1 -> Nat] :
          /\ x[1] = to /\ x[n + 1] = l[d]
          /\ \A i \in 1..n : Covers(l, Nodes(cs[i]), x[i + 1], x[i])
    BY DEF Ahead
  <1> HIDE DEF n, r
  <1> DEFINE y == [i \in 1..n + 1 + 1 |-> IF i = n + 1 + 1 THEN d ELSE x[i]]
  <1>4. /\ y \in [1..n + 1 + 1 -> Nat] /\ y[n + 1 + 1] = d
        /\ \A i \in 1..n + 1 : y[i] = x[i]
    <2>1. /\ n + 1 + 1 \in 1..n + 1 + 1
          /\ \A i \in 1..n + 1 : i \in 1..n + 1 + 1 /\ i # n + 1 + 1
          /\ \A i \in 1..n + 1 + 1 : i # n + 1 + 1 => i \in 1..n + 1
      BY <1>1
    <2>2. QED
      BY <1>3, <2>1
  <1> HIDE DEF y
  <1>5. y[1] = to
    <2>1. 1 \in 1..n + 1
      BY <1>1
    <2>2. QED
      BY <1>3, <1>4, <2>1
  <1>6. ASSUME NEW i \in 1..n + 1 PROVE Covers(l, Nodes(r[i]), y[i + 1], y[i])
    <2>1. CASE i = n + 1
      BY <1>2, <1>3, <1>4, <2>1
    <2>2. CASE i # n + 1
      <3>1. i \in 1..n /\ i + 1 \in 1..n + 1
        BY <1>1, <2>2
      <3>2. QED
        BY <1>2, <1>3, <1>4, <3>1
    <2>3. QED
      BY <2>1, <2>2
  <1>7. Ahead(l, r, d, to)
    BY <1>2, <1>4, <1>5, <1>6 DEF Ahead
  <1>8. QED
    BY <1>7 DEF r

\* A loop with nothing left returns.
LEMMA AheadReturn ==
  ASSUME NEW S, NEW cs \in Seq(Seq(S)), cs # <<>>, Last(cs) = <<>>, NEW l, NEW from, NEW to,
         Ahead(l, cs, from, to)
  PROVE  IF Len(cs) = 1 THEN from = to ELSE Ahead(l, Front(cs), from, to)
  <1> DEFINE n == Len(cs)
  <1>1. n \in Nat /\ n >= 1 /\ n \in 1..n
    BY EmptySeq
  <1>2. cs[n] = <<>> /\ Len(Front(cs)) = n - 1 /\ \A i \in 1..n - 1 : Front(cs)[i] = cs[i]
    <2>1. \A i \in 1..n - 1 : Front(cs)[i] = cs[i]
      BY <1>1 DEF Front
    <2>2. QED
      BY <2>1, LastFront
  <1>3. PICK x \in [1..n + 1 -> Nat] :
          /\ x[1] = to /\ x[n + 1] = from
          /\ \A i \in 1..n : Covers(l, Nodes(cs[i]), x[i + 1], x[i])
    BY DEF Ahead
  <1> HIDE DEF n
  <1>4. x[n] = from
    <2>1. Covers(l, Nodes(<<>>), from, x[n])
      BY <1>1, <1>2, <1>3
    <2>2. Nodes(<<>>) = <<>>
      BY DEF Nodes
    <2>3. QED
      BY <2>1, <2>2 DEF Covers
  <1>5. CASE n = 1
    BY <1>3, <1>4, <1>5 DEF n
  <1>6. CASE n # 1
    <2> DEFINE y == [i \in 1..n |-> x[i]]
               f == Front(cs)
    <2>1. /\ n - 1 + 1 = n /\ 1 \in 1..n
          /\ \A i \in 1..n - 1 : i \in 1..n /\ i + 1 \in 1..n
          /\ \A i \in 1..n : i \in 1..n + 1
      BY <1>1
    <2>2. y \in [1..n -> Nat] /\ y[1] = to /\ y[n] = from /\ \A i \in 1..n : y[i] = x[i]
      BY <1>1, <1>3, <1>4, <2>1
    <2> HIDE DEF y, f
    <2>3. ASSUME NEW i \in 1..n - 1 PROVE Covers(l, Nodes(f[i]), y[i + 1], y[i])
      <3>1. f[i] = cs[i] /\ y[i + 1] = x[i + 1] /\ y[i] = x[i]
        BY <1>2, <2>1, <2>2 DEF f
      <3>2. QED
        BY <1>3, <2>1, <3>1
    <2>4. Len(f) = n - 1
      BY <1>2 DEF f
    <2>5. Ahead(l, f, from, to)
      BY <2>1, <2>2, <2>3, <2>4 DEF Ahead
    <2>6. QED
      BY <1>6, <2>5 DEF f, n
  <1>7. QED
    BY <1>5, <1>6

-----------------------------------------------------------------------------
(* The walk visits in order.                                               *)

\* How far what the callback is due to see goes.
Upto == IF pc = "walk" \/ flow = "Break" THEN Reached(seen) ELSE Size

InOrder(l, q, u) == Nodes(q) = Ordered(Due(l, q, u))

\* The callback has seen what it was due to see, and as long as it has not said
\* Stop the loops in progress have just the rest of the data to come.
Walking ==
  /\ InOrder(forest.last, seen, Upto)
  /\ flow = "Break" => seen # <<>>
  /\ \A i \in DOMAIN seen : seen[i].answer = "Stop" <=> i = Len(seen) /\ flow = "Break"
  /\ SkipsBehind(forest.last, seen)
  /\ pc = "walk" /\ flow = "Continue" =>
       Ahead(forest.last, calls, Handled(forest.last, seen), Size)

LEMMA WalkingBegins ==
  ASSUME Init
  PROVE  Walking
  <1>1. forest \in Forests /\ calls = <<TopLevel>> /\ flow = "Continue" /\ seen = <<>> /\ pc = "walk"
    BY DEF Init
  <1>2. Due(forest.last, seen, 0) = {} /\ Nodes(seen) = <<>>
    BY <1>1 DEF Due, Nodes
  <1>3. InOrder(forest.last, seen, Upto)
    BY <1>1, <1>2, OrderedNone DEF InOrder, Upto, Reached
  <1>4. SkipsBehind(forest.last, seen)
    BY <1>1 DEF SkipsBehind, Skipped
  <1>5. Ahead(forest.last, calls, 0, Size)
    <2>1. Covers(forest.last, Nodes(TopLevel), 0, Size) /\ Size \in Nat
      BY <1>1, EachChildCovers, ForestTyped
    <2> DEFINE x == [i \in 1..2 |-> IF i = 1 THEN Size ELSE 0]
    <2>2. x \in [1..2 -> Nat] /\ x[1] = Size /\ x[2] = 0
      BY <2>1
    <2>3. Len(calls) = 1 /\ calls[1] = TopLevel /\ 1 + 1 = 2
      BY <1>1
    <2> HIDE DEF x
    <2>4. \A i \in 1..1 : Covers(forest.last, Nodes(calls[i]), x[i + 1], x[i])
      BY <2>1, <2>2, <2>3
    <2>5. QED
      BY <2>2, <2>3, <2>4 DEF Ahead
  <1>6. QED
    BY <1>1, <1>3, <1>4, <1>5 DEF Walking, Handled

LEMMA VisitOrders ==
  ASSUME IInv, Walking, NEW answer \in {"Descend", "Skip", "Stop"}, Visit(answer)
  PROVE  Walking'
  <1> DEFINE l == forest.last
             h == Handled(l, seen)
             d == Head(Last(calls))
             rest == [calls EXCEPT ![Len(calls)] = Tail(@)]
             s == [node |-> d.node, region |-> node_region(d.node, d.ctx), answer |-> answer]
             kids == for_each_child(d.node, d.ctx)
  <1>1. /\ pc = "walk" /\ flow = "Continue" /\ Last(calls) # <<>>
        /\ seen' = Append(seen, s)
        /\ calls' = IF answer = "Descend" THEN Append(rest, kids) ELSE rest
        /\ flow' = IF answer = "Stop" THEN "Break" ELSE "Continue"
        /\ forest' = forest /\ pc' = pc
    BY DEF Visit
  <1>2. /\ forest \in Forests /\ calls \in Seq(Seq(Placed)) /\ calls # <<>> /\ seen \in Seq(Seen)
    BY DEF IInv
  <1>3. /\ InOrder(l, seen, Reached(seen)) /\ SkipsBehind(l, seen)
        /\ \A i \in DOMAIN seen : seen[i].answer # "Stop"
        /\ Ahead(l, calls, h, Size)
    BY <1>1 DEF Walking, Upto
  <1>4. d \in Placed /\ rest \in Seq(Seq(Placed)) /\ seen' \in Seq(Seen)
    <2>1. Last(calls) \in Seq(Placed) /\ Len(calls) \in DOMAIN calls /\ Last(calls) = calls[Len(calls)]
      BY <1>2, LastIs
    <2>2. d \in Placed /\ Tail(Last(calls)) \in Seq(Placed)
      BY <1>1, <2>1, HeadTailProperties
    <2>3. rest = [calls EXCEPT ![Len(calls)] = Tail(Last(calls))]
      BY <2>1
    <2>4. Len(calls) \in 1..Len(calls)
      BY <1>2, <2>1, LenProperties
    <2>5. rest \in Seq(Seq(Placed))
      BY <1>2, <2>2, <2>3, <2>4, ExceptSeq
    <2>6. seen' \in Seq(Seen)
      <3>1. IInv'
        BY VisitKeeps
      <3>2. Seen' = Seen
        BY <1>1, ForestFrame
      <3>3. QED
        BY <3>1, <3>2 DEF IInv
    <2>7. QED
      BY <2>2, <2>5, <2>6
  <1>5. h \in Nat
    BY <1>2, HandledTyped
  <1>6. /\ d.node = h + 1
        /\ Ahead(l, rest, l[d.node], Size)
    <2>1. Ahead(l, calls, h, Size) => h + 1 = d.node
      <3>1. PICK x \in [1..Len(calls) + 1 -> Nat] :
              /\ x[Len(calls) + 1] = h
              /\ \A i \in 1..Len(calls) : Covers(l, Nodes(calls[i]), x[i + 1], x[i])
        BY <1>3 DEF Ahead
      <3>2. /\ Last(calls) = calls[Len(calls)] /\ Len(calls) \in 1..Len(calls)
            /\ Last(calls) \in Seq(Placed)
        BY <1>2, LastIs, LenProperties
      <3>3. Covers(l, Nodes(Last(calls)), h, x[Len(calls)])
        BY <3>1, <3>2
      <3>4. QED
        BY <1>1, <3>2, <3>3, CoversTail
    <2>2. l[h + 1] \in Nat
      <3>1. d.node \in Data
        BY <1>4 DEF Placed
      <3>2. QED
        BY <1>2, <1>3, <2>1, <3>1, ForestTyped DEF last
    <2>3. Ahead(l, rest, l[h + 1], Size)
      BY <1>1, <1>2, <1>3, <2>2, AheadTake
    <2>4. QED
      BY <1>3, <2>1, <2>3
  <1>7. s \in Seen
    <2>1. seen' = Append(seen, s) /\ Len(seen) \in Nat
      BY <1>1, <1>2
    <2>2. s = seen'[Len(seen) + 1]
      BY <1>2, <2>1
    <2>3. Len(seen') = Len(seen) + 1
      BY <1>2, <2>1
    <2> HIDE DEF s
    <2>4. Len(seen) + 1 \in 1..Len(seen')
      BY <2>1, <2>3
    <2>5. QED
      BY <1>4, <2>2, <2>4, ElementOfSeq
  <1>8. s.node = d.node /\ s.answer = answer
    OBVIOUS
  <1>9. kids \in Seq(Placed) /\ Covers(l, Nodes(kids), d.node, l[d.node]) /\ d.node \in Nat
    <2>1. d.node \in Data
      BY <1>4 DEF Placed
    <2>2. QED
      BY <1>2, <1>4, <2>1, ChildrenPlaced, EachChildCovers, ForestTyped
  <1> HIDE DEF d, rest, s, kids, h
  <1>10. /\ Due(l, seen', Reached(seen')) = Due(l, seen, Reached(seen)) \union {d.node}
         /\ \A e \in Due(l, seen, Reached(seen)) : e < d.node
         /\ SkipsBehind(l, seen')
    BY <1>1, <1>2, <1>3, <1>6, <1>7, <1>8, DueNext DEF h
  <1>11. /\ seen' # <<>> /\ Last(seen') = s
    BY <1>1, <1>2, <1>7, SkippedNext
  <1>12. InOrder(l, seen', Reached(seen'))
    <2>1. Nodes(seen') = Append(Nodes(seen), d.node)
      BY <1>1, <1>2, <1>7, <1>8, NodesAppend
    <2> DEFINE ds == Due(l, seen, Reached(seen))
    <2>2. ds \subseteq Nat /\ IsFiniteSet(ds)
      <3>1. Reached(seen) \in Nat
        BY <1>2, HandledTyped
      <3>2. ds \in SUBSET (1..Reached(seen)) /\ IsFiniteSet(1..Reached(seen))
        BY <3>1, FS_Interval DEF Due
      <3>3. IsFiniteSet(ds)
        BY <3>2, FS_Subset
      <3>4. QED
        BY <3>2, <3>3
    <2> HIDE DEF ds
    <2>3. Ordered(ds \union {d.node}) = Append(Ordered(ds), d.node)
      BY <1>9, <1>10, <2>2, OrderedAppend DEF ds
    <2>4. QED
      BY <1>3, <1>10, <2>1, <2>3 DEF InOrder, ds
  <1>13. \A i \in DOMAIN seen' : seen'[i].answer = "Stop" <=> i = Len(seen') /\ flow' = "Break"
    <2>1. /\ Len(seen') = Len(seen) + 1 /\ seen'[Len(seen) + 1] = s
          /\ \A k \in 1..Len(seen) : seen'[k] = seen[k]
      BY <1>1, <1>2, <1>7, AppendProperties
    <2>2. Len(seen) \in Nat /\ DOMAIN seen = 1..Len(seen) /\ DOMAIN seen' = 1..Len(seen')
      BY <1>2, <1>4, LenProperties
    <2>3. flow' = "Break" <=> s.answer = "Stop"
      BY <1>1, <1>8
    <2>4. TAKE i \in DOMAIN seen'
    <2>5. CASE i \in 1..Len(seen)
      <3>1. i # Len(seen')
        BY <2>1, <2>2, <2>5
      <3>2. seen'[i].answer # "Stop"
        BY <1>3, <2>1, <2>2, <2>5
      <3>3. QED
        BY <3>1, <3>2
    <2>6. CASE i = Len(seen) + 1
      BY <2>1, <2>3, <2>6
    <2>7. i \in 1..Len(seen) \/ i = Len(seen) + 1
      BY <2>1, <2>2
    <2>8. QED
      BY <2>5, <2>6, <2>7
  <1>14. flow' = "Continue" => Ahead(l, calls', Handled(l, seen'), Size)
    <2>1. HAVE flow' = "Continue"
    <2>2. CASE answer = "Skip"
      <3>1. Handled(l, seen') = l[d.node] /\ calls' = rest
        BY <1>1, <1>8, <1>11, <2>2 DEF Handled
      <3>2. QED
        BY <1>6, <3>1
    <2>3. CASE answer = "Descend"
      <3>1. Handled(l, seen') = d.node /\ calls' = Append(rest, kids)
        BY <1>1, <1>8, <1>11, <2>3 DEF Handled
      <3>2. QED
        BY <1>4, <1>6, <1>9, <3>1, AheadCall
    <2>4. answer # "Stop"
      BY <1>1, <2>1
    <2>5. QED
      BY <2>2, <2>3, <2>4
  <1>15. forest'.last = l
    BY <1>1
  <1>16. pc' = "walk"
    BY <1>1
  <1>17. Upto' = Reached(seen')
    BY <1>16 DEF Upto
  <1>18. Size' = Size
    BY <1>1 DEF Size
  <1>19. flow' = "Break" => seen' # <<>>
    BY <1>11
  <1> HIDE DEF l
  <1>20. QED
    BY <1>10, <1>12, <1>13, <1>14, <1>15, <1>17, <1>18, <1>19 DEF Walking

LEMMA WalkingSteps ==
  ASSUME IInv, Walking, [Next]_vars
  PROVE  Walking'
  <1> DEFINE l == forest.last
             h == Handled(l, seen)
  <1>1. /\ forest \in Forests /\ calls \in Seq(Seq(Placed)) /\ calls # <<>> /\ seen \in Seq(Seen)
        /\ flow \in {"Continue", "Break"}
    BY DEF IInv
  <1>2. /\ InOrder(l, seen, Upto)
        /\ flow = "Break" => seen # <<>>
        /\ \A i \in DOMAIN seen : seen[i].answer = "Stop" <=> i = Len(seen) /\ flow = "Break"
        /\ SkipsBehind(l, seen)
        /\ pc = "walk" /\ flow = "Continue" => Ahead(l, calls, h, Size)
    BY DEF Walking
  <1>3. forest' = forest => forest'.last = l /\ Size' = Size
    BY DEF Size
  <1> HIDE DEF l
  <1>4. ASSUME forest' = forest, seen' = seen, flow' = flow, Upto' = Upto,
               pc' = "walk" /\ flow = "Continue" => Ahead(l, calls', h, Size)
        PROVE  Walking'
    BY <1>2, <1>3, <1>4 DEF Walking
  <1>5. ASSUME NEW answer \in {"Descend", "Skip", "Stop"}, Visit(answer)
        PROVE  Walking'
    BY <1>5, VisitOrders
  <1>6. CASE Return
    <2>1. /\ pc = "walk" /\ Len(calls) > 1 /\ (Last(calls) = <<>> \/ flow = "Break")
          /\ calls' = Front(calls) /\ UNCHANGED <<forest, flow, seen, pc>>
      BY <1>6 DEF Return
    <2>2. flow = "Continue" => Ahead(l, Front(calls), h, Size)
      <3>1. HAVE flow = "Continue"
      <3>2. Len(calls) # 1
        <4>1. Len(calls) \in Nat
          BY <1>1, LenProperties
        <4>2. QED
          BY <2>1, <4>1
      <3>3. QED
        BY <1>1, <1>2, <2>1, <3>1, <3>2, AheadReturn
    <2>3. Upto' = Upto
      BY <2>1 DEF Upto
    <2>4. QED
      BY <1>4, <2>1, <2>2, <2>3
  <1>7. CASE WalkEnd
    <2>1. /\ pc = "walk" /\ Len(calls) = 1 /\ (calls[1] = <<>> \/ flow = "Break")
          /\ pc' = "iterate" /\ UNCHANGED <<forest, calls, flow, seen>>
      BY <1>7 DEF WalkEnd
    <2>2. CASE flow = "Break"
      <3>1. Upto' = Upto
        BY <2>1, <2>2 DEF Upto
      <3>2. QED
        BY <1>4, <2>1, <3>1
    <2>3. CASE flow = "Continue"
      <3>1. h = Size
        <4>1. Last(calls) = <<>>
          BY <1>1, <2>1, <2>3, LastIs
        <4>2. QED
          BY <1>1, <1>2, <2>1, <2>3, <4>1, AheadReturn
      <3>2. Upto = Reached(seen) /\ Upto' = Size
        BY <1>3, <2>1, <2>3 DEF Upto
      <3>3. InOrder(l, seen, Size)
        BY <1>1, <1>2, <3>1, <3>2, DueHandled DEF InOrder, l
      <3>4. QED
        BY <1>2, <1>3, <2>1, <3>2, <3>3 DEF Walking
    <2>4. QED
      BY <1>1, <2>2, <2>3
  <1>8. CASE Prune \/ DescendPorous \/ Yield \/ IterateEnd
    <2>1. /\ pc = "iterate" /\ pc' \in {"iterate", "done"}
          /\ UNCHANGED <<forest, calls, flow, seen>>
      BY <1>8 DEF Prune, DescendPorous, Yield, IterateEnd
    <2>2. Upto' = Upto
      BY <1>3, <2>1 DEF Upto
    <2>3. QED
      BY <1>4, <2>1, <2>2
  <1>9. CASE UNCHANGED vars
    <2>1. UNCHANGED <<forest, calls, flow, seen, pc>>
      BY <1>9 DEF vars
    <2>2. Upto' = Upto
      BY <1>3, <2>1 DEF Upto
    <2>3. QED
      BY <1>2, <1>4, <2>1, <2>2
  <1>10. QED
    BY <1>5, <1>6, <1>7, <1>8, <1>9 DEF Next

LEMMA WalkingHolds == Spec => []Walking
  <1>1. Init => Walking
    BY WalkingBegins
  <1>2. IInv /\ Walking /\ [Next]_vars => Walking'
    BY WalkingSteps
  <1>3. QED
    BY <1>1, <1>2, Inductive, PTL DEF Spec

LEMMA AnsweredSkips == Answered("Skip") = Skipped(seen)
  BY DEF Answered, Skipped

LEMMA DueStands ==
  ASSUME NEW u
  PROVE  {d \in 1..u : \A s \in Answered("Skip") : d \notin s + 1..last(s)}
           = Due(forest.last, seen, u)
  BY AnsweredSkips DEF Due, last

\* Whatever the callback answers, walk_regions calls it on every datum up to
\* some one, in source order, but those inside a datum it skipped, and on none
\* after it has said Stop, however deep the loops are that it stands in.
THEOREM CallbackInOrder == Spec => []VisitsInOrder
  <1>1. IInv /\ Walking => VisitsInOrder
    <2>1. SUFFICES ASSUME IInv, Walking PROVE VisitsInOrder
      OBVIOUS
    <2>2. /\ forest \in Forests /\ seen \in Seq(Seen) /\ flow \in {"Continue", "Break"}
      BY <2>1 DEF IInv
    <2>3. /\ InOrder(forest.last, seen, Upto)
          /\ flow = "Break" => seen # <<>>
          /\ \A i \in DOMAIN seen : seen[i].answer = "Stop" <=> i = Len(seen) /\ flow = "Break"
      BY <2>1 DEF Walking
    <2> DEFINE upto == IF seen = <<>> THEN 0
                       ELSE IF pc = "walk" \/ Last(seen).answer = "Stop" THEN Last(seen).node
                       ELSE Len(forest.kind)
    <2>4. seen # <<>> => upto = Upto
      <3>1. HAVE seen # <<>>
      <3>2. Len(seen) \in DOMAIN seen /\ seen[Len(seen)] = Last(seen)
        BY <2>2, <3>1, LastIs
      <3>3. Last(seen).answer = "Stop" <=> flow = "Break"
        BY <2>3, <3>2
      <3>4. QED
        BY <3>1, <3>3 DEF Upto, Reached, Size
    <2>5. Nodes(seen) = Ordered(Due(forest.last, seen, upto))
      <3>1. CASE seen # <<>>
        BY <2>3, <2>4, <3>1 DEF InOrder
      <3>2. CASE seen = <<>>
        <4>1. Due(forest.last, seen, 0) = {} /\ Nodes(seen) = <<>>
          BY <3>2 DEF Due, Nodes
        <4>2. QED
          BY <3>2, <4>1, OrderedNone
      <3>3. QED
        BY <3>1, <3>2
    <2> HIDE DEF upto
    <2>6. [i \in DOMAIN seen |-> seen[i].node]
            = Ordered({d \in 1..upto : \A s \in Answered("Skip") : d \notin s + 1..last(s)})
      BY <2>5, DueStands DEF Nodes
    <2>7. \A i \in DOMAIN seen : seen[i].answer = "Stop" => i = Len(seen)
      BY <2>3
    <2>8. QED
      BY <2>6, <2>7 DEF VisitsInOrder, upto
  <1>2. QED
    BY <1>1, Inductive, WalkingHolds, PTL

\* A visitor that skips just what is_prunable calls prunable sees every datum of
\* the code, but for code that `#.' brings into sealed data.
THEOREM PruningIsSafe == Spec => []PruningKeepsCode
  <1>1. IInv /\ Walking => PruningKeepsCode
    <2>1. SUFFICES ASSUME IInv, Walking, pc = "done", Answered("Stop") = {},
                          \A i \in DOMAIN seen : seen[i].answer = "Skip" => seen[i].region = "SealedData",
                          NEW d \in Code, ~Within(d, Sealed)
                   PROVE  d \in {seen[i].node : i \in DOMAIN seen}
      BY DEF PruningKeepsCode
    <2>2. /\ forest \in Forests /\ seen \in Seq(Seen) /\ flow \in {"Continue", "Break"}
      BY <2>1 DEF IInv
    <2>3. d \in Data /\ Data = 1..Size /\ Size \in Nat
      BY <2>2, ForestTyped DEF Code
    <2>4. Upto = Size
      <3>1. flow # "Break"
        <4>1. SUFFICES ASSUME flow = "Break" PROVE FALSE
          OBVIOUS
        <4>2. seen # <<>>
          BY <2>1, <4>1 DEF Walking
        <4>3. Len(seen) \in DOMAIN seen
          BY <2>2, <4>2, LastIs
        <4>4. seen[Len(seen)].answer = "Stop"
          BY <2>1, <4>1, <4>3 DEF Walking
        <4>5. QED
          BY <2>1, <4>3, <4>4 DEF Answered
      <3>2. QED
        BY <2>1, <3>1 DEF Upto
    <2>5. Nodes(seen) = Ordered(Due(forest.last, seen, Size))
      BY <2>1, <2>4 DEF Walking, InOrder
    <2>6. d \in Due(forest.last, seen, Size)
      <3>1. SUFFICES ASSUME NEW s \in Skipped(seen), d \in s + 1..forest.last[s] PROVE FALSE
        BY <2>3 DEF Due
      <3>2. PICK i \in DOMAIN seen : seen[i].answer = "Skip" /\ s = seen[i].node
        BY DEF Skipped
      <3>3. seen[i] \in Seen
        BY <2>2
      <3>4. s \in Data /\ RegionOf(s) = "SealedData"
        BY <2>1, <3>2, <3>3 DEF Seen
      <3>5. s \in Nat /\ last(s) \in Nat /\ d \in Nat
        BY <2>2, <2>3, <3>4, ForestTyped
      <3>6. s <= d /\ d <= last(s)
        BY <3>1, <3>5 DEF last
      <3>7. s \in Around(d) /\ s \in Sealed
        BY <3>4, <3>6 DEF Around, Sealed
      <3>8. QED
        BY <2>1, <3>7 DEF Within
    <2> DEFINE ds == Due(forest.last, seen, Size)
    <2>7. ds \subseteq Nat /\ IsFiniteSet(ds)
      <3>1. ds \subseteq Data
        BY <2>3 DEF Due
      <3>2. QED
        BY <2>2, <3>1, ForestTyped
    <2> HIDE DEF ds
    <2>8. PICK k \in 1..Cardinality(ds) : Ordered(ds)[k] = d
      BY <2>6, <2>7, OrderedIs DEF ds
    <2>9. Len(Ordered(ds)) = Cardinality(ds) /\ Ordered(ds) \in Seq(ds)
      BY <2>7, OrderedIs
    <2>10. k \in DOMAIN Nodes(seen) /\ Nodes(seen)[k] = d
      BY <2>5, <2>8, <2>9 DEF ds
    <2>11. k \in DOMAIN seen /\ seen[k].node = d
      BY <2>10 DEF Nodes
    <2>12. QED
      BY <2>11
  <1>2. QED
    BY <1>1, Inductive, WalkingHolds, PTL

-----------------------------------------------------------------------------
(* The iterator yields in order.                                           *)

LEMMA ReverseIs ==
  ASSUME NEW S, NEW s \in Seq(S)
  PROVE  /\ Reverse(s) \in Seq(S) /\ Len(Reverse(s)) = Len(s) /\ Len(s) \in Nat
         /\ \A k \in 1..Len(s) : Reverse(s)[k] = s[Len(s) - k + 1]
  <1>1. Len(s) \in Nat
    BY LenProperties
  <1>2. Reverse(s) = [k \in 1..Len(s) |-> s[Len(s) - k + 1]]
    BY DEF Reverse
  <1>3. Len(Reverse(s)) = Len(s)
    BY <1>1, <1>2
  <1>4. QED
    BY <1>1, <1>2, <1>3, ReverseTyped

\* The top of the worklist is what comes first.
LEMMA ReversePop ==
  ASSUME NEW S, NEW s \in Seq(S), s # <<>>
  PROVE  /\ Reverse(s) # <<>> /\ Head(Reverse(s)) = Last(s)
         /\ Tail(Reverse(s)) = Reverse(Front(s))
  <1> DEFINE n == Len(s)
             r == Reverse(s)
             f == Front(s)
  <1>1. n \in Nat /\ n >= 1 /\ Last(s) = s[n]
    BY EmptySeq DEF Last
  <1>2. /\ r \in Seq(S) /\ Len(r) = n /\ \A k \in 1..n : r[k] = s[n - k + 1]
    BY ReverseIs
  <1>3. f \in Seq(S) /\ Len(f) = n - 1 /\ \A k \in 1..n - 1 : f[k] = s[k]
    <2>1. \A k \in 1..n - 1 : f[k] = s[k]
      BY <1>1 DEF Front
    <2>2. QED
      BY <2>1, LastFront
  <1> HIDE DEF n, r, f
  <1>4. r # <<>>
    <2>1. Len(r) # 0
      BY <1>1, <1>2
    <2>2. QED
      BY <2>1, EmptySeq
  <1>5. Head(r) = Last(s)
    <2>1. 1 \in 1..n /\ n - 1 + 1 = n
      BY <1>1
    <2>2. r[1] = s[n]
      BY <1>2, <2>1
    <2>3. QED
      BY <1>1, <1>2, <1>4, <2>2
  <1>6. /\ Tail(r) \in Seq(S) /\ Len(Tail(r)) = n - 1
        /\ \A k \in 1..n - 1 : Tail(r)[k] = r[k + 1]
    BY <1>1, <1>2, <1>4
  <1>7. /\ Reverse(f) \in Seq(S) /\ Len(Reverse(f)) = n - 1
        /\ \A k \in 1..n - 1 : Reverse(f)[k] = f[n - 1 - k + 1]
    BY <1>3, ReverseIs
  <1>8. ASSUME NEW k \in 1..n - 1 PROVE Tail(r)[k] = Reverse(f)[k]
    <2>1. /\ k + 1 \in 1..n /\ n - 1 - k + 1 \in 1..n - 1
          /\ n - (k + 1) + 1 = n - 1 - k + 1
      BY <1>1
    <2>2. r[k + 1] = s[n - 1 - k + 1]
      BY <1>2, <2>1
    <2>3. QED
      BY <1>3, <1>6, <1>7, <2>1, <2>2
  <1>9. Tail(r) = Reverse(f)
    BY <1>6, <1>7, <1>8, SeqEqual
  <1>10. QED
    BY <1>4, <1>5, <1>9 DEF r, f

LEMMA ConcatIs ==
  ASSUME NEW S, NEW s \in Seq(S), NEW t \in Seq(S)
  PROVE  /\ s \o t \in Seq(S) /\ Len(s \o t) = Len(s) + Len(t)
         /\ \A i \in 1..Len(s) : (s \o t)[i] = s[i]
         /\ \A i \in Len(s) + 1..Len(s) + Len(t) : (s \o t)[i] = t[i - Len(s)]
  <1>1. Len(s) \in Nat /\ Len(t) \in Nat
    BY LenProperties
  <1>2. /\ s \o t \in Seq(S) /\ Len(s \o t) = Len(s) + Len(t)
        /\ \A i \in 1..Len(s) + Len(t) :
             (s \o t)[i] = IF i <= Len(s) THEN s[i] ELSE t[i - Len(s)]
    BY ConcatProperties
  <1>3. \A i \in 1..Len(s) : i \in 1..Len(s) + Len(t) /\ i <= Len(s)
    BY <1>1
  <1>4. \A i \in Len(s) + 1..Len(s) + Len(t) : i \in 1..Len(s) + Len(t) /\ ~(i <= Len(s))
    BY <1>1
  <1>5. \A i \in 1..Len(s) : (s \o t)[i] = s[i]
    BY <1>2, <1>3
  <1>6. \A i \in Len(s) + 1..Len(s) + Len(t) : (s \o t)[i] = t[i - Len(s)]
    BY <1>2, <1>4
  <1>7. QED
    BY <1>2, <1>5, <1>6

\* What is pushed in reverse comes first, and in order.
LEMMA ReversePush ==
  ASSUME NEW S, NEW s \in Seq(S), NEW t \in Seq(S)
  PROVE  Reverse(s \o Reverse(t)) = t \o Reverse(s)
  <1>0. SUFFICES ASSUME NEW rs \in Seq(S), NEW rt \in Seq(S),
                        rs = Reverse(s), rt = Reverse(t)
                 PROVE  Reverse(s \o rt) = t \o rs
    BY ReverseTyped
  <1> DEFINE m == Len(s)
             n == Len(t)
             a == s \o rt
             b == t \o rs
  <1>1. /\ Len(rt) = n /\ n \in Nat
        /\ \A k \in 1..n : rt[k] = t[n - k + 1]
    BY <1>0, ReverseIs
  <1>2. /\ Len(rs) = m /\ m \in Nat
        /\ \A k \in 1..m : rs[k] = s[m - k + 1]
    BY <1>0, ReverseIs
  <1>3. /\ a \in Seq(S) /\ Len(a) = m + n
        /\ \A i \in 1..m : a[i] = s[i]
        /\ \A i \in m + 1..m + n : a[i] = rt[i - m]
    <2>1. /\ a \in Seq(S) /\ Len(a) = m + Len(rt)
          /\ \A i \in 1..m : a[i] = s[i]
          /\ \A i \in m + 1..m + Len(rt) : a[i] = rt[i - m]
      BY ConcatIs
    <2> HIDE DEF a, m, n
    <2>2. QED
      BY <1>1, <1>2, <2>1
  <1>4. /\ b \in Seq(S) /\ Len(b) = n + m
        /\ \A i \in 1..n : b[i] = t[i]
        /\ \A i \in n + 1..n + m : b[i] = rs[i - n]
    <2>1. /\ b \in Seq(S) /\ Len(b) = n + Len(rs)
          /\ \A i \in 1..n : b[i] = t[i]
          /\ \A i \in n + 1..n + Len(rs) : b[i] = rs[i - n]
      BY ConcatIs
    <2> HIDE DEF b, m, n
    <2>2. QED
      BY <1>1, <1>2, <2>1
  <1> HIDE DEF m, n, a, b
  <1> DEFINE ra == Reverse(a)
  <1>5. /\ ra \in Seq(S) /\ Len(ra) = m + n
        /\ \A k \in 1..m + n : ra[k] = a[m + n - k + 1]
    <2>1. /\ ra \in Seq(S) /\ Len(ra) = Len(a)
          /\ \A k \in 1..Len(a) : ra[k] = a[Len(a) - k + 1]
      BY <1>3, ReverseIs
    <2> HIDE DEF ra
    <2>2. Len(a) = m + n
      BY <1>3
    <2>3. ASSUME NEW k \in 1..m + n PROVE ra[k] = a[m + n - k + 1]
      <3>1. k \in 1..Len(a) /\ Len(a) - k + 1 = m + n - k + 1
        BY <1>1, <1>2, <2>2
      <3>2. ra[k] = a[Len(a) - k + 1]
        BY <2>1, <3>1
      <3>3. QED
        BY <3>1, <3>2
    <2>4. QED
      BY <2>1, <2>2, <2>3
  <1> HIDE DEF ra
  <1>6. ASSUME NEW k \in 1..m + n PROVE ra[k] = b[k]
    <2>1. CASE k <= n
      <3> DEFINE i == m + n - k + 1
                 j == i - m
      <3>1. /\ i \in m + 1..m + n /\ j \in 1..n /\ n - j + 1 = k /\ k \in 1..n
        BY <1>1, <1>2, <2>1
      <3>2. ra[k] = a[i]
        BY <1>5
      <3>3. a[i] = rt[j]
        BY <1>3, <3>1
      <3> HIDE DEF i, j
      <3>4. rt[j] = t[k]
        BY <1>1, <3>1
      <3>5. b[k] = t[k]
        BY <1>4, <3>1
      <3>6. QED
        BY <3>2, <3>3, <3>4, <3>5
    <2>2. CASE ~(k <= n)
      <3> DEFINE i == m + n - k + 1
                 j == k - n
      <3>1. /\ i \in 1..m /\ j \in 1..m /\ m - j + 1 = i /\ k \in n + 1..n + m
        BY <1>1, <1>2, <2>2
      <3>2. ra[k] = a[i]
        BY <1>5
      <3>3. b[k] = rs[j]
        BY <1>4, <3>1
      <3> HIDE DEF i, j
      <3>4. rs[j] = s[i]
        BY <1>2, <3>1
      <3>5. a[i] = s[i]
        BY <1>3, <3>1
      <3>6. QED
        BY <3>2, <3>3, <3>4, <3>5
    <2>3. QED
      BY <2>1, <2>2
  <1>7. n + m = m + n
    BY <1>1, <1>2
  <1>8. ra = b
    BY <1>4, <1>5, <1>6, <1>7, SeqEqual
  <1>9. QED
    BY <1>8 DEF a, b, ra

LEMMA CoversConcat ==
  ASSUME NEW S, NEW s \in Seq(S), NEW t \in Seq(S), NEW l, NEW from, NEW mid, NEW to,
         Covers(l, Nodes(s), from, mid), Covers(l, Nodes(t), mid, to)
  PROVE  Covers(l, Nodes(s \o t), from, to)
  <1> DEFINE T == {e.node : e \in S}
             m == Len(s)
             n == Len(t)
             a == s \o t
  <1>1. \A e \in S : e.node \in T
    OBVIOUS
  <1> HIDE DEF T
  <1>2. /\ Nodes(s) \in Seq(T) /\ Len(Nodes(s)) = m /\ m \in Nat
        /\ \A k \in 1..m : Nodes(s)[k] = s[k].node
    BY <1>1, NodesIs
  <1>3. /\ Nodes(t) \in Seq(T) /\ Len(Nodes(t)) = n /\ n \in Nat
        /\ \A k \in 1..n : Nodes(t)[k] = t[k].node
    BY <1>1, NodesIs
  <1>4. /\ a \in Seq(S) /\ Len(a) = m + n
        /\ \A i \in 1..m : a[i] = s[i]
        /\ \A i \in m + 1..m + n : a[i] = t[i - m]
    BY ConcatIs
  <1>5. /\ Nodes(a) \in Seq(T) /\ Len(Nodes(a)) = m + n
        /\ \A k \in 1..m + n : Nodes(a)[k] = a[k].node
    BY <1>1, <1>4, NodesIs
  <1> HIDE DEF m, n, a
  <1>6. \A k \in 1..m : Nodes(a)[k] = Nodes(s)[k]
    <2>1. \A k \in 1..m : k \in 1..m + n
      BY <1>2, <1>3
    <2>2. QED
      BY <1>2, <1>4, <1>5, <2>1
  <1>7. \A k \in 1..n : Nodes(a)[m + k] = Nodes(t)[k]
    <2>1. TAKE k \in 1..n
    <2> DEFINE i == m + k
    <2>2. i \in 1..m + n /\ i \in m + 1..m + n /\ i - m = k
      BY <1>2, <1>3
    <2> HIDE DEF i
    <2>3. a[i] = t[k]
      BY <1>4, <2>2
    <2>4. Nodes(a)[i] = a[i].node /\ Nodes(t)[k] = t[k].node
      BY <1>3, <1>5, <2>2
    <2>5. QED
      BY <2>3, <2>4 DEF i
  <1>8. CASE m = 0
    <2>1. Nodes(s) = <<>> /\ from = mid
      <3>1. Nodes(s) = <<>>
        BY <1>2, <1>8, EmptySeq
      <3>2. QED
        BY <3>1 DEF Covers
    <2>2. Nodes(a) = Nodes(t)
      <3>1. m + n = n /\ \A k \in 1..n : m + k = k
        BY <1>3, <1>8
      <3>2. \A k \in 1..n : Nodes(a)[k] = Nodes(t)[k]
        BY <1>7, <3>1
      <3>3. QED
        BY <1>3, <1>5, <3>1, <3>2, SeqEqual
    <2>3. QED
      BY <2>1, <2>2 DEF a
  <1>9. CASE n = 0
    <2>1. Nodes(t) = <<>> /\ mid = to
      <3>1. Nodes(t) = <<>>
        BY <1>3, <1>9, EmptySeq
      <3>2. QED
        BY <3>1 DEF Covers
    <2>2. Nodes(a) = Nodes(s)
      <3>1. m + n = m
        BY <1>2, <1>9
      <3>2. QED
        BY <1>2, <1>5, <1>6, <3>1, SeqEqual
    <2>3. QED
      BY <2>1, <2>2 DEF a
  <1>10. CASE m # 0 /\ n # 0
    <2>1. Nodes(s) # <<>> /\ Nodes(t) # <<>> /\ Nodes(a) # <<>>
      <3>1. Len(<<>>) = 0 /\ m + n # 0
        BY <1>2, <1>3, <1>10
      <3>2. QED
        BY <1>2, <1>3, <1>5, <1>10, <3>1
    <2>2. /\ Nodes(s)[1] = from + 1
          /\ \A k \in 1..m - 1 : Nodes(s)[k + 1] = l[Nodes(s)[k]] + 1
          /\ l[Nodes(s)[m]] = mid
      BY <1>2, <2>1 DEF Covers
    <2>3. /\ Nodes(t)[1] = mid + 1
          /\ \A k \in 1..n - 1 : Nodes(t)[k + 1] = l[Nodes(t)[k]] + 1
          /\ l[Nodes(t)[n]] = to
      BY <1>3, <2>1 DEF Covers
    <2>4. Nodes(a)[1] = from + 1
      <3>1. 1 \in 1..m
        BY <1>2, <1>10
      <3>2. QED
        BY <1>6, <2>2, <3>1
    <2>5. l[Nodes(a)[m + n]] = to
      <3>1. n \in 1..n
        BY <1>3, <1>10
      <3>2. QED
        BY <1>7, <2>3, <3>1
    <2>6. ASSUME NEW k \in 1..m + n - 1 PROVE Nodes(a)[k + 1] = l[Nodes(a)[k]] + 1
      <3>1. CASE k < m
        <4>1. k \in 1..m - 1 /\ k \in 1..m /\ k + 1 \in 1..m
          BY <1>2, <3>1
        <4>2. QED
          BY <1>6, <2>2, <4>1
      <3>2. CASE k = m
        <4>1. m \in 1..m /\ 1 \in 1..n
          BY <1>2, <1>3, <1>10
        <4>2. QED
          BY <1>6, <1>7, <2>2, <2>3, <3>2, <4>1
      <3>3. CASE k > m
        <4> DEFINE j == k - m
        <4>1. j \in 1..n - 1 /\ j \in 1..n /\ j + 1 \in 1..n /\ m + j = k /\ m + (j + 1) = k + 1
          BY <1>2, <1>3, <3>3
        <4> HIDE DEF j
        <4>2. Nodes(a)[m + j] = Nodes(t)[j] /\ Nodes(a)[m + (j + 1)] = Nodes(t)[j + 1]
          BY <1>7, <4>1
        <4>3. Nodes(t)[j + 1] = l[Nodes(t)[j]] + 1
          BY <2>3, <4>1
        <4>4. QED
          BY <4>1, <4>2, <4>3
      <3>4. QED
        BY <1>2, <3>1, <3>2, <3>3
    <2> DEFINE q == Nodes(a)
    <2>7. /\ \A k \in 1..Len(q) - 1 : q[k + 1] = l[q[k]] + 1
          /\ l[q[Len(q)]] = to
      <3>1. Len(q) = m + n
        BY <1>5
      <3>2. \A k \in 1..m + n - 1 : q[k + 1] = l[q[k]] + 1
        BY <2>6
      <3>3. l[q[m + n]] = to
        BY <2>5
      <3> HIDE DEF q
      <3>4. Len(q) - 1 = m + n - 1
        BY <1>2, <1>3, <3>1
      <3>5. \A k \in 1..Len(q) - 1 : k \in 1..m + n - 1
        BY <1>2, <1>3, <3>4
      <3>6. QED
        BY <3>1, <3>2, <3>3, <3>5
    <2>8. Covers(l, Nodes(a), from, to)
      BY <2>1, <2>4, <2>7 DEF Covers
    <2>9. QED
      BY <2>8 DEF a
  <1>11. QED
    BY <1>8, <1>9, <1>10

-----------------------------------------------------------------------------
(* The iterator: what stands around a pending datum is not sealed, and the *)
(* pending data and all inside them are just what is still to come.        *)

\* The code outside sealed data, and that of it up to h.
Yields == {d \in Code : ~Within(d, Sealed)}
YieldsUpTo(h) == {d \in Yields : d <= h}

\* A pending datum with nothing sealed around it.
Open == {it \in Placed : (Around(it.node) \ {it.node}) \intersect Sealed = {}}

Iterating ==
  /\ pc = "walk" => yielded = <<>>
  /\ pc = "iterate" =>
       /\ work \in Seq(Open)
       /\ \E h \in Nat : /\ Covers(forest.last, Nodes(Reverse(work)), h, Size)
                         /\ yielded = Ordered(YieldsUpTo(h))
  /\ pc = "done" => yielded = Ordered(Yields)

LEMMA YieldsFrame ==
  forest' = forest => Open' = Open /\ Yields' = Yields /\ Size' = Size
  <1> SUFFICES ASSUME forest' = forest
               PROVE  Open' = Open /\ Yields' = Yields /\ Size' = Size
    OBVIOUS
  <1>1. Placed' = Placed
    BY ForestFrame
  <1> USE DEF Data, kind, last
  <1>2. Data' = Data /\ Size' = Size
    BY DEF Size
  <1>3. \A d : Around(d)' = Around(d)
    BY DEF Around
  <1>4. \A K : Under(K)' = Under(K)
    BY DEF Under, In, IsInner, ParentOf, Around
  <1>5. Sealing' = Sealing /\ ReadTime' = ReadTime
    BY DEF Sealing, ReadTime, Auxiliary, Contents, Under, In, IsInner, ParentOf, Around
  <1>6. \A d : Counting(d)' = Counting(d)
    BY <1>3, <1>5 DEF Counting
  <1>7. \A d : RegionOf(d)' = RegionOf(d)
    BY <1>4, <1>5, <1>6 DEF RegionOf, InTemplate
  <1>8. Sealed' = Sealed /\ Code' = Code
    BY <1>2, <1>7 DEF Sealed, Code
  <1> USE DEF Within
  <1>9. QED
    BY <1>1, <1>2, <1>3, <1>8 DEF Open, Yields

LEMMA YieldsTyped ==
  ASSUME forest \in Forests
  PROVE  /\ Yields \subseteq Data
         /\ \A h : YieldsUpTo(h) \subseteq Nat /\ IsFiniteSet(YieldsUpTo(h))
         /\ YieldsUpTo(0) = {} /\ YieldsUpTo(Size) = Yields
  <1>1. Yields \subseteq Data
    BY DEF Yields, Code
  <1>2. \A h : YieldsUpTo(h) \subseteq Data
    BY <1>1 DEF YieldsUpTo
  <1>3. \A d \in Data : ~(d <= 0) /\ d <= Size
    BY ForestTyped
  <1>4. YieldsUpTo(0) = {} /\ YieldsUpTo(Size) = Yields
    BY <1>1, <1>3 DEF YieldsUpTo
  <1>5. QED
    BY <1>1, <1>2, <1>4, ForestTyped

\* The iterator takes the next datum, and what is left begins behind it.
LEMMA PopsNext ==
  ASSUME forest \in Forests, work \in Seq(Open), work # <<>>,
         NEW h \in Nat, Covers(forest.last, Nodes(Reverse(work)), h, Size)
  PROVE  /\ popped \in Open /\ popped.node = h + 1 /\ h + 1 \in Data
         /\ Front(work) \in Seq(Open) /\ forest.last[h + 1] \in Nat
         /\ Covers(forest.last, Nodes(Reverse(Front(work))), forest.last[h + 1], Size)
  <1> DEFINE r == Reverse(work)
  <1>1. r \in Seq(Open)
    BY ReverseIs
  <1>2. r # <<>> /\ Head(r) = Last(work) /\ Tail(r) = Reverse(Front(work))
    BY ReversePop
  <1>3. popped \in Open /\ Front(work) \in Seq(Open)
    BY LastFront DEF popped
  <1>4. Covers(forest.last, Nodes(r), h, Size)
    OBVIOUS
  <1> HIDE DEF r
  <1>5. /\ Head(r).node = h + 1
        /\ Covers(forest.last, Nodes(Tail(r)), forest.last[h + 1], Size)
    BY <1>1, <1>2, <1>4, CoversTail
  <1>6. popped.node = h + 1
    BY <1>2, <1>5 DEF popped
  <1>7. h + 1 \in Data
    BY <1>3, <1>6 DEF Open, Placed
  <1>8. forest.last[h + 1] \in Nat
    BY <1>7, ForestTyped DEF last
  <1>9. QED
    BY <1>2, <1>3, <1>5, <1>6, <1>7, <1>8

\* What is inside a datum that is not sealed comes before what is behind it.
LEMMA PushesInside ==
  ASSUME forest \in Forests, work \in Seq(Open), work # <<>>,
         NEW h \in Nat, Covers(forest.last, Nodes(Reverse(work)), h, Size),
         popped.node \notin Sealed
  PROVE  pushed \in Seq(Open) /\ Covers(forest.last, Nodes(Reverse(pushed)), h + 1, Size)
  <1> DEFINE d == popped.node
             kids == for_each_child(d, popped.ctx)
             l == forest.last
             f == Front(work)
             cs == children(d)
  <1>1. /\ popped \in Open /\ d = h + 1 /\ d \in Data /\ f \in Seq(Open)
        /\ Covers(l, Nodes(Reverse(f)), l[d], Size)
    BY PopsNext
  <1>2. popped \in Placed /\ (Around(d) \ {d}) \intersect Sealed = {}
    BY <1>1 DEF Open
  <1>3. kids \in Seq(Placed)
    BY <1>2, ChildrenPlaced
  <1>4. cs \in Seq(Kids(d))
    BY <1>1, ChildrenIs
  <1>5. DOMAIN kids = DOMAIN cs /\ \A i \in DOMAIN cs : kids[i].node = cs[i]
    BY DEF for_each_child
  <1>6. Covers(l, Nodes(kids), d, l[d])
    BY <1>1, EachChildCovers
  <1>a. pushed = f \o Reverse(kids)
    BY DEF pushed
  <1>b. d \notin Sealed
    OBVIOUS
  <1> HIDE DEF d, kids, f, cs
  <1>7. ASSUME NEW i \in DOMAIN kids PROVE kids[i] \in Open
    <2>1. kids[i] \in Placed
      BY <1>3
    <2>2. cs[i] \in Kids(d)
      BY <1>4, <1>5
    <2>3. Around(cs[i]) \ {cs[i]} = Around(d)
      BY <1>1, <2>2, AroundChild
    <2>4. Around(d) \intersect Sealed = {}
      BY <1>2, <1>b
    <2>5. kids[i].node = cs[i]
      BY <1>5
    <2>6. (Around(kids[i].node) \ {kids[i].node}) \intersect Sealed = {}
      BY <2>3, <2>4, <2>5
    <2>7. QED
      BY <2>1, <2>6 DEF Open
  <1>8. kids \in Seq(Open)
    <2>1. DOMAIN kids = 1..Len(kids) /\ Len(kids) \in Nat /\ kids = [i \in 1..Len(kids) |-> kids[i]]
      BY <1>3
    <2>2. QED
      BY <1>7, <2>1
  <1>9. pushed \in Seq(Open)
    <2>1. Reverse(kids) \in Seq(Open)
      BY <1>8, ReverseIs
    <2> DEFINE rk == Reverse(kids)
    <2> HIDE DEF rk
    <2>2. f \o rk \in Seq(Open)
      BY <1>1, <2>1, ConcatIs DEF rk
    <2>3. QED
      BY <1>a, <2>2 DEF rk
  <1>10. Reverse(pushed) = kids \o Reverse(f)
    BY <1>1, <1>8, <1>a, ReversePush
  <1>11. Covers(l, Nodes(kids \o Reverse(f)), d, Size)
    <2> DEFINE rf == Reverse(f)
    <2>1. rf \in Seq(Open) /\ Covers(l, Nodes(rf), l[d], Size)
      BY <1>1, ReverseIs
    <2> HIDE DEF rf, l
    <2>2. Covers(l, Nodes(kids \o rf), d, Size)
      BY <1>6, <1>8, <2>1, CoversConcat
    <2>3. QED
      BY <2>2 DEF rf
  <1>12. QED
    BY <1>1, <1>9, <1>10, <1>11

\* Inside sealed data there is nothing to yield.
LEMMA NothingSealed ==
  ASSUME forest \in Forests, NEW h \in Nat, h + 1 \in Sealed
  PROVE  YieldsUpTo(forest.last[h + 1]) = YieldsUpTo(h)
  <1>1. h + 1 \in Data
    BY DEF Sealed
  <1>2. last(h + 1) \in Nat /\ h + 1 <= last(h + 1) /\ last(h + 1) = forest.last[h + 1]
    BY <1>1, ForestTyped DEF last
  <1>3. ASSUME NEW e \in Yields, e <= last(h + 1) PROVE e <= h
    <2>1. e \in Data /\ e \in Nat
      BY YieldsTyped, ForestTyped
    <2>2. SUFFICES ASSUME h + 1 <= e PROVE FALSE
      BY <2>1
    <2>3. h + 1 \in Around(e)
      BY <1>1, <1>3, <2>2 DEF Around
    <2>4. Within(e, Sealed)
      BY <2>3 DEF Within
    <2>5. QED
      BY <2>4 DEF Yields
  <1>4. ASSUME NEW e \in Yields, e <= h PROVE e <= last(h + 1)
    <2>1. e \in Nat
      BY YieldsTyped, ForestTyped
    <2>2. QED
      BY <1>2, <1>4, <2>1
  <1>5. QED
    BY <1>2, <1>3, <1>4 DEF YieldsUpTo

LEMMA NextYields ==
  ASSUME forest \in Forests, NEW h \in Nat
  PROVE  /\ h + 1 \notin Yields => YieldsUpTo(h + 1) = YieldsUpTo(h)
         /\ h + 1 \in Yields =>
              Ordered(YieldsUpTo(h + 1)) = Append(Ordered(YieldsUpTo(h)), h + 1)
  <1>1. \A e \in Yields : e \in Nat /\ (e <= h + 1 <=> e <= h \/ e = h + 1)
    BY YieldsTyped, ForestTyped
  <1>2. h + 1 \notin Yields => YieldsUpTo(h + 1) = YieldsUpTo(h)
    BY <1>1 DEF YieldsUpTo
  <1>3. h + 1 \in Yields => YieldsUpTo(h + 1) = YieldsUpTo(h) \union {h + 1}
    BY <1>1 DEF YieldsUpTo
  <1>4. \A e \in YieldsUpTo(h) : e < h + 1
    BY <1>1 DEF YieldsUpTo
  <1> DEFINE ds == YieldsUpTo(h)
  <1>5. ds \subseteq Nat /\ IsFiniteSet(ds) /\ h + 1 \in Nat
    BY YieldsTyped
  <1> HIDE DEF ds
  <1>6. Ordered(ds \union {h + 1}) = Append(Ordered(ds), h + 1)
    BY <1>4, <1>5, OrderedAppend DEF ds
  <1>7. QED
    BY <1>2, <1>3, <1>6 DEF ds

LEMMA PoppedRegion ==
  ASSUME forest \in Forests, popped \in Open
  PROVE  popped_region = RegionOf(popped.node)
  <1>1. popped \in Placed
    BY DEF Open
  <1>2. popped.node \in Data /\ popped.ctx \in Contexts /\ Right(popped.node, popped.ctx)
    BY <1>1 DEF Placed
  <1>3. QED
    BY <1>2, RegionRight DEF popped_region

LEMMA IteratingSteps ==
  ASSUME IInv, Iterating, [Next]_vars
  PROVE  Iterating'
  <1> DEFINE l == forest.last
  <1>1. /\ forest \in Forests /\ seen \in Seq(Seen) /\ work \in Seq(Placed)
    BY DEF IInv
  <1>2. /\ pc = "walk" => yielded = <<>>
        /\ pc = "iterate" => /\ work \in Seq(Open)
                             /\ \E h \in Nat : /\ Covers(l, Nodes(Reverse(work)), h, Size)
                                               /\ yielded = Ordered(YieldsUpTo(h))
        /\ pc = "done" => yielded = Ordered(Yields)
    BY DEF Iterating
  <1>3. /\ Size \in Nat /\ YieldsUpTo(0) = {} /\ YieldsUpTo(Size) = Yields
    BY <1>1, ForestTyped, YieldsTyped
  <1>4. forest' = forest => /\ Open' = Open /\ Yields' = Yields /\ Size' = Size
                            /\ \A h : YieldsUpTo(h)' = YieldsUpTo(h)
    BY YieldsFrame DEF YieldsUpTo
  <1>5. ASSUME forest' = forest, pc' = "iterate", work' \in Seq(Open),
               NEW h \in Nat, Covers(l, Nodes(Reverse(work')), h, Size),
               yielded' = Ordered(YieldsUpTo(h))
        PROVE  Iterating'
    <2>1. Open' = Open /\ Size' = Size /\ forest'.last = l /\ YieldsUpTo(h)' = YieldsUpTo(h)
      BY <1>4, <1>5
    <2> HIDE DEF l
    <2>2. /\ Covers(forest'.last, Nodes(Reverse(work')), h, Size')
          /\ yielded' = Ordered(YieldsUpTo(h)')
      BY <1>5, <2>1
    <2>3. QED
      BY <1>5, <2>1, <2>2 DEF Iterating
  <1>6. CASE (\E answer \in {"Descend", "Skip", "Stop"} : Visit(answer)) \/ Return
    <2>1. pc' = "walk" /\ yielded' = <<>>
      BY <1>2, <1>6 DEF Visit, Return
    <2>2. QED
      BY <2>1 DEF Iterating
  <1>7. CASE WalkEnd
    <2>1. /\ pc = "walk" /\ pc' = "iterate" /\ work' = Reverse(TopLevel)
          /\ forest' = forest /\ yielded' = yielded
      BY <1>7 DEF WalkEnd
    <2> DEFINE top == TopLevel
    <2>2. top \in Seq(Placed) /\ Covers(l, Nodes(top), 0, Size)
      BY <1>1, TopPlaced, EachChildCovers
    <2>3. top \in Seq(Open)
      <3>1. ASSUME NEW i \in DOMAIN top PROVE top[i] \in Open
        <4>1. top[i] \in Placed
          BY <2>2
        <4>2. children(0) \in Seq(Kids(0)) /\ i \in DOMAIN children(0)
              /\ top[i].node = children(0)[i]
          BY <1>1, ChildrenIs DEF TopLevel
        <4> HIDE DEF top
        <4>3. top[i].node \in Kids(0)
          BY <4>2
        <4>4. Around(top[i].node) = {top[i].node}
          BY <1>1, <4>3, AroundTop
        <4>5. QED
          BY <4>1, <4>4 DEF Open
      <3> HIDE DEF top
      <3>2. DOMAIN top = 1..Len(top) /\ Len(top) \in Nat /\ top = [i \in 1..Len(top) |-> top[i]]
        BY <2>2
      <3>3. QED
        BY <3>1, <3>2
    <2> HIDE DEF top
    <2>4. work' = Reverse(top)
      BY <2>1 DEF top
    <2>5. work' \in Seq(Open)
      BY <2>3, <2>4, ReverseIs
    <2>6. Reverse(work') = top
      <3>1. <<>> \in Seq(Open) /\ Reverse(<<>>) = <<>>
        BY DEF Reverse
      <3>2. Reverse(<<>> \o Reverse(top)) = top \o Reverse(<<>>)
        BY <2>3, <3>1, ReversePush
      <3>3. <<>> \o Reverse(top) = Reverse(top) /\ top \o <<>> = top
        <4>1. Reverse(top) \in Seq(Open)
          BY <2>4, <2>5
        <4>2. QED
          BY <2>3, <4>1
      <3>4. QED
        BY <2>4, <3>1, <3>2, <3>3
    <2>7. yielded' = Ordered(YieldsUpTo(0))
      BY <1>2, <1>3, <2>1, OrderedNone
    <2>8. QED
      BY <1>5, <2>1, <2>2, <2>5, <2>6, <2>7
  <1>8. CASE Prune
    <2>1. /\ pc = "iterate" /\ work # <<>> /\ popped_region = "SealedData" /\ work' = Front(work)
          /\ pc' = pc /\ forest' = forest /\ yielded' = yielded
      BY <1>8 DEF Prune
    <2>2. PICK h \in Nat : /\ work \in Seq(Open) /\ Covers(l, Nodes(Reverse(work)), h, Size)
                           /\ yielded = Ordered(YieldsUpTo(h))
      BY <1>2, <2>1
    <2>3. /\ popped \in Open /\ popped.node = h + 1 /\ h + 1 \in Data
          /\ Front(work) \in Seq(Open) /\ l[h + 1] \in Nat
          /\ Covers(l, Nodes(Reverse(Front(work))), l[h + 1], Size)
      BY <1>1, <2>1, <2>2, PopsNext
    <2>4. h + 1 \in Sealed
      <3>1. RegionOf(h + 1) = "SealedData"
        BY <1>1, <2>1, <2>3, PoppedRegion
      <3>2. QED
        BY <2>3, <3>1 DEF Sealed
    <2>5. YieldsUpTo(l[h + 1]) = YieldsUpTo(h)
      BY <1>1, <2>4, NothingSealed
    <2> HIDE DEF l
    <2>6. QED
      BY <1>5, <2>1, <2>2, <2>3, <2>5
  <1>9. CASE DescendPorous \/ Yield
    <2>1. /\ pc = "iterate" /\ work # <<>> /\ popped_region \in {"PorousData", "Code"}
          /\ work' = pushed /\ pc' = pc /\ forest' = forest
          /\ yielded' = IF popped_region = "Code" THEN Append(yielded, popped.node) ELSE yielded
      BY <1>9 DEF DescendPorous, Yield
    <2>2. PICK h \in Nat : /\ work \in Seq(Open) /\ Covers(l, Nodes(Reverse(work)), h, Size)
                           /\ yielded = Ordered(YieldsUpTo(h))
      BY <1>2, <2>1
    <2>3. popped \in Open /\ popped.node = h + 1 /\ h + 1 \in Data
      BY <1>1, <2>1, <2>2, PopsNext
    <2>4. RegionOf(h + 1) = popped_region
      BY <1>1, <2>1, <2>3, PoppedRegion
    <2>5. h + 1 \notin Sealed /\ (h + 1 \in Code <=> popped_region = "Code")
      BY <2>1, <2>3, <2>4 DEF Sealed, Code
    <2>6. pushed \in Seq(Open) /\ Covers(l, Nodes(Reverse(pushed)), h + 1, Size)
      BY <1>1, <2>1, <2>2, <2>3, <2>5, PushesInside
    <2>7. h + 1 \in Yields <=> popped_region = "Code"
      <3>1. (Around(h + 1) \ {h + 1}) \intersect Sealed = {}
        BY <2>3 DEF Open
      <3>2. ~Within(h + 1, Sealed)
        BY <2>5, <3>1 DEF Within
      <3>3. QED
        BY <2>5, <3>2 DEF Yields
    <2>8. yielded' = Ordered(YieldsUpTo(h + 1))
      BY <1>1, <2>1, <2>2, <2>3, <2>7, NextYields
    <2>9. h + 1 \in Nat
      OBVIOUS
    <2> HIDE DEF l
    <2>10. QED
      BY <1>5, <2>1, <2>6, <2>8, <2>9
  <1>10. CASE IterateEnd
    <2>1. /\ pc = "iterate" /\ work = <<>> /\ pc' = "done" /\ forest' = forest /\ yielded' = yielded
      BY <1>10 DEF IterateEnd
    <2>2. PICK h \in Nat : /\ Covers(l, Nodes(Reverse(work)), h, Size)
                           /\ yielded = Ordered(YieldsUpTo(h))
      BY <1>2, <2>1
    <2>3. Nodes(Reverse(work)) = <<>>
      BY <2>1 DEF Nodes, Reverse
    <2>4. h = Size
      BY <2>2, <2>3 DEF Covers
    <2>5. yielded' = Ordered(Yields)
      BY <1>3, <2>1, <2>2, <2>4
    <2>6. Yields' = Yields
      BY <1>4, <2>1
    <2>7. yielded' = Ordered(Yields')
      BY <2>5, <2>6
    <2>8. QED
      BY <2>1, <2>7 DEF Iterating
  <1>11. CASE UNCHANGED vars
    <2>1. UNCHANGED <<forest, work, yielded, pc>>
      BY <1>11 DEF vars
    <2>2. CASE pc = "iterate"
      <3>1. PICK h \in Nat : /\ work \in Seq(Open) /\ Covers(l, Nodes(Reverse(work)), h, Size)
                             /\ yielded = Ordered(YieldsUpTo(h))
        BY <1>2, <2>2
      <3>2. QED
        BY <1>5, <2>1, <2>2, <3>1
    <2>3. CASE pc # "iterate"
      <3>1. Yields' = Yields
        BY <1>4, <2>1
      <3>2. pc' = "done" => yielded' = Ordered(Yields')
        BY <1>2, <2>1, <3>1
      <3>3. QED
        BY <1>2, <2>1, <2>3, <3>2 DEF Iterating
    <2>4. QED
      BY <2>2, <2>3
  <1>12. QED
    BY <1>6, <1>7, <1>8, <1>9, <1>10, <1>11 DEF Next

\* The iterator code_nodes, run to its end, has yielded just the code outside
\* sealed data, each datum once and in source order: its worklist, pushed in
\* reverse, neither loses nor repeats nor reorders what it descends into.
THEOREM IteratorInOrder == Spec => []YieldsInOrder
  <1>1. Init => Iterating
    BY DEF Init, Iterating
  <1>2. IInv /\ Iterating /\ [Next]_vars => Iterating'
    BY IteratingSteps
  <1>3. Iterating => YieldsInOrder
    <2>1. Yields = {d \in Code : ~Within(d, Sealed)}
      BY DEF Yields
    <2>2. QED
      BY <2>1 DEF Iterating, YieldsInOrder
  <1>4. QED
    BY <1>1, <1>2, <1>3, Inductive, PTL DEF Spec
=============================================================================
