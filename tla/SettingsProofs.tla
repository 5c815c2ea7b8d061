--------------------------- MODULE SettingsProofs ---------------------------
(***************************************************************************)
(* What is proved of Settings: the dialect a project is taken for does not *)
(* depend on the order of its files, the file-local binding in force is    *)
(* the last of the block, and the directory-local one is that of the       *)
(* nearest group.  The lists of the code are put together from pieces      *)
(* (FlattenSeq); LastIn(s, field, x), the last element with x in a field,  *)
(* is what all three come down to, and the first section says what it is   *)
(* of sequences that are appended or gathered.                             *)
(***************************************************************************)
EXTENDS SettingsProperties, FiniteSetTheorems, WellFoundedInduction, TLAPS

-----------------------------------------------------------------------------
(* Loops over positions.                                                   *)

LEMMA Upwards ==
  ASSUME NEW l \in Nat, NEW S, 0 \in S, \A n \in 1..l : n - 1 \in S => n \in S
  PROVE  0..l \subseteq S
  <1> DEFINE T == {n \in 0..l : n \notin S}
             R == OpToRel(<, Nat)
  <1> SUFFICES ASSUME T # {}
               PROVE  FALSE
    OBVIOUS
  <1>1. T \subseteq Nat
    OBVIOUS
  <1>2. IsWellFoundedOn(R, Nat)
    BY NatLessThanWellFounded
  <1>3. \A x, y \in Nat : y < x => <<y, x>> \in R
    BY DEF OpToRel
  <1> HIDE DEF R
  <1>4. PICK n \in T : \A y \in T : ~(<<y, n>> \in R)
    BY <1>1, <1>2, WFMin
  <1>5. n \in 1..l /\ n - 1 \in Nat /\ n - 1 < n
    OBVIOUS
  <1>6. n - 1 \notin T
    BY <1>1, <1>3, <1>4, <1>5
  <1>7. QED
    BY <1>5, <1>6

\* The states of a loop over l turns, the first of which is base.
HasRun(l, T, base, step) ==
  \E f \in [0..l -> T] : f[0] = base /\ \A n \in 1..l : f[n] = step[n][f[n - 1]]

\* A loop whose turns map a state in T to one in T has a run.
LEMMA LoopRuns ==
  ASSUME NEW l \in Nat, NEW T, NEW base \in T, NEW step \in [1..l -> [T -> T]]
  PROVE  HasRun(l, T, base, step)
  <1> DEFINE Upto(f, m) == f[0] = base /\ \A n \in 1..m : f[n] = step[n][f[n - 1]]
             S == {m \in 0..l : \E f \in [0..l -> T] : Upto(f, m)}
  <1>1. 0 \in S
    <2> DEFINE f == [n \in 0..l |-> base]
    <2>1. f \in [0..l -> T] /\ Upto(f, 0) /\ 0 \in 0..l
      OBVIOUS
    <2> HIDE DEF f, Upto
    <2>2. QED
      BY <2>1
  <1>2. ASSUME NEW m \in 1..l, m - 1 \in S
        PROVE  m \in S
    <2>1. PICK f \in [0..l -> T] : Upto(f, m - 1)
      BY <1>2
    <2> DEFINE g == [f EXCEPT ![m] = step[m][f[m - 1]]]
    <2>2. g \in [0..l -> T]
      OBVIOUS
    <2>3. Upto(g, m)
      BY <2>1
    <2> HIDE DEF g, Upto
    <2>4. QED
      BY <2>2, <2>3
  <1> HIDE DEF S
  <1>3. 0..l \subseteq S
    BY <1>1, <1>2, Upwards
  <1>4. QED
    BY <1>3 DEF S, HasRun

LEMMA LastOf ==
  ASSUME NEW l \in Nat, NEW S, S \subseteq 1..l, S # {}
  PROVE  Max(S) \in S /\ \A n \in S : Max(S) >= n
  <1> DEFINE R == {l - n : n \in S}
             rel == OpToRel(<, Nat)
  <1>0. \A n \in S : n \in Nat /\ l - n \in Nat
    OBVIOUS
  <1>1. R \subseteq Nat /\ R # {}
    BY <1>0
  <1>2. IsWellFoundedOn(rel, Nat)
    BY NatLessThanWellFounded
  <1>3. \A x, y \in Nat : y < x => <<y, x>> \in rel
    BY DEF OpToRel
  <1> HIDE DEF rel
  <1>4. PICK r \in R : \A y \in R : ~(<<y, r>> \in rel)
    BY <1>1, <1>2, WFMin
  <1>5. PICK n \in S : r = l - n
    BY <1>4
  <1>6. ASSUME NEW y \in S
        PROVE  n >= y
    <2>1. l - y \in R /\ l - y \in Nat /\ l - n \in Nat /\ y \in Nat /\ n \in Nat
      BY <1>0
    <2>2. ~(l - y < l - n)
      BY <1>3, <1>4, <1>5, <2>1
    <2> HIDE DEF R
    <2>3. QED
      BY <2>1, <2>2
  <1>7. Max(S) = CHOOSE x \in S : \A y \in S : x >= y
    BY DEF Max
  <1>8. QED
    BY <1>6, <1>7

-----------------------------------------------------------------------------
(* Sequences put together from pieces, and the last element of a kind.     *)

\* How FlattenSeq puts the pieces together.
Gathers(f, pieces, S) ==
  /\ f \in [0..Len(pieces) -> Seq(S)]
  /\ f[0] = <<>> /\ \A n \in 1..Len(pieces) : f[n] = f[n - 1] \o pieces[n]
  /\ FlattenSeq(pieces) = f[Len(pieces)]

LEMMA Gathered ==
  ASSUME NEW S, NEW pieces \in Seq(Seq(S))
  PROVE  \E f : Gathers(f, pieces, S)
  <1> DEFINE l == Len(pieces)
             step == [n \in 1..l |-> [s \in Seq(S) |-> s \o pieces[n]]]
             F(g) == [n \in 1..l |-> IF n = 1 THEN pieces[n] ELSE g[n - 1] \o pieces[n]]
             flat == CHOOSE g : g = F(g)
  <1>0. l \in Nat /\ \A n \in 1..l : pieces[n] \in Seq(S)
    OBVIOUS
  <1>1. step \in [1..l -> [Seq(S) -> Seq(S)]]
    BY <1>0
  <1>2. HasRun(l, Seq(S), <<>>, step)
    <2> HIDE DEF step, l
    <2>1. <<>> \in Seq(S)
      OBVIOUS
    <2>2. QED
      BY <1>0, <1>1, <2>1, LoopRuns
  <1>3. PICK f \in [0..l -> Seq(S)] : f[0] = <<>> /\ \A n \in 1..l : f[n] = step[n][f[n - 1]]
    <2> HIDE DEF step, l
    <2>1. QED
      BY <1>2 DEF HasRun
  <1>4. \A n \in 1..l : f[n - 1] \in Seq(S) /\ f[n] = f[n - 1] \o pieces[n]
    <2> TAKE n \in 1..l
    <2>1. n - 1 \in 0..l
      BY <1>0
    <2>2. f[n - 1] \in Seq(S)
      <3> HIDE DEF l
      <3>1. QED
        BY <1>3, <2>1
    <2>3. step[n] = [s \in Seq(S) |-> s \o pieces[n]]
      OBVIOUS
    <2> HIDE DEF step, l
    <2>4. QED
      BY <1>3, <2>2, <2>3
  <1>a. l # 0 => f[1] = pieces[1]
    <2> SUFFICES ASSUME l # 0
                 PROVE  f[1] = pieces[1]
      OBVIOUS
    <2>1. 1 \in 1..l /\ 1 - 1 = 0
      BY <1>0
    <2> HIDE DEF l
    <2>2. f[1] = f[1 - 1] \o pieces[1] /\ pieces[1] \in Seq(S)
      BY <1>0, <1>4, <2>1
    <2>3. f[1] = <<>> \o pieces[1]
      BY <1>3, <2>1, <2>2
    <2>4. QED
      BY <2>2, <2>3
  <1>5. CASE l = 0
    BY <1>3, <1>5 DEF FlattenSeq, Gathers
  <1>6. CASE l # 0
    <2>1. FlattenSeq(pieces) = flat[l]
      BY <1>6 DEF FlattenSeq
    <2>2. \E g : g = F(g)
      <3> DEFINE g == [n \in 1..l |-> f[n]]
      <3>1. f[1] = pieces[1]
        BY <1>a
      <3>2. \A n \in 1..l : f[n] = IF n = 1 THEN pieces[n] ELSE g[n - 1] \o pieces[n]
        <4> TAKE n \in 1..l
        <4>1. CASE n = 1
          BY <3>1, <4>1
        <4>2. CASE n # 1
          <5>1. n - 1 \in 1..l
            BY <1>0, <4>2
          <5>2. g[n - 1] = f[n - 1]
            BY <5>1
          <5> HIDE DEF g, l
          <5>3. QED
            BY <1>4, <4>2, <5>2
        <4>3. QED
          BY <4>1, <4>2
      <3>3. g = F(g)
        BY <3>2
      <3>4. QED
        BY <3>3
    <2>3. flat = F(flat)
      <3> HIDE DEF F
      <3>1. QED
        BY <2>2
    <2> HIDE DEF flat
    <2> DEFINE A == {n \in 0..l : n = 0 \/ flat[n] = f[n]}
    <2>4. 0 \in A
      BY <1>0
    <2>5. ASSUME NEW n \in 1..l, n - 1 \in A
          PROVE  n \in A
      <3>0. n \in 0..l
        BY <1>0
      <3>1. CASE n = 1
        <4>1. flat[1] = pieces[1]
          BY <2>3, <3>1
        <4>2. f[1] = pieces[1]
          BY <1>a
        <4>3. QED
          BY <3>0, <3>1, <4>1, <4>2
      <3>2. CASE n # 1
        <4>1. flat[n] = flat[n - 1] \o pieces[n]
          BY <2>3, <3>2
        <4>2. flat[n - 1] = f[n - 1]
          BY <2>5, <3>2
        <4>3. f[n] = f[n - 1] \o pieces[n]
          BY <1>4
        <4>4. QED
          BY <3>0, <4>1, <4>2, <4>3
      <3>3. QED
        BY <3>1, <3>2
    <2>6. 0..l \subseteq A
      <3> HIDE DEF A, l
      <3>1. QED
        BY <1>0, <2>4, <2>5, Upwards
    <2>7. flat[l] = f[l]
      BY <1>0, <1>6, <2>6
    <2>8. QED
      BY <1>3, <1>4, <2>1, <2>7 DEF Gathers
  <1>7. QED
    BY <1>5, <1>6

LEMMA GatherStep ==
  ASSUME NEW S, NEW pieces \in Seq(Seq(S)), NEW f, Gathers(f, pieces, S)
  PROVE  \A n \in 1..Len(pieces) :
           f[n - 1] \in Seq(S) /\ pieces[n] \in Seq(S) /\ f[n] = f[n - 1] \o pieces[n]
  <1> DEFINE l == Len(pieces)
  <1>1. l \in Nat /\ \A n \in 1..l : pieces[n] \in Seq(S)
    OBVIOUS
  <1>2. f \in [0..l -> Seq(S)] /\ \A n \in 1..l : f[n] = f[n - 1] \o pieces[n]
    BY DEF Gathers
  <1> HIDE DEF l
  <1>3. \A n \in 1..l : n - 1 \in 0..l
    BY <1>1
  <1>4. \A n \in 1..l : f[n - 1] \in Seq(S)
    BY <1>2, <1>3
  <1>5. QED
    BY <1>1, <1>2, <1>4 DEF l

LEMMA FlatTyped ==
  ASSUME NEW S, NEW pieces \in Seq(Seq(S))
  PROVE  FlattenSeq(pieces) \in Seq(S)
  <1>1. PICK f : Gathers(f, pieces, S)
    BY Gathered
  <1>2. Len(pieces) \in 0..Len(pieces)
    OBVIOUS
  <1>3. QED
    BY <1>1, <1>2 DEF Gathers

\* The last of the elements of s with x in a field.
LastIn(s, field, x) ==
  LET K == {k \in DOMAIN s : s[k][field] = x} IN IF K = {} THEN <<>> ELSE <<s[Max(K)]>>

\* It is the one behind which there is no other.
LEMMA LastInIs ==
  ASSUME NEW S, NEW s \in Seq(S), NEW field, NEW x, NEW k \in DOMAIN s, s[k][field] = x,
         \A n \in DOMAIN s : s[n][field] = x => n <= k
  PROVE  LastIn(s, field, x) = <<s[k]>>
  <1> DEFINE K == {n \in DOMAIN s : s[n][field] = x}
  <1>1. Len(s) \in Nat /\ K \subseteq 1..Len(s) /\ k \in K
    OBVIOUS
  <1>2. Max(K) \in K /\ \A n \in K : Max(K) >= n
    <2> HIDE DEF K
    <2>1. QED
      BY <1>1, LastOf
  <1>3. Max(K) = k
    <2>1. \A n \in K : n \in DOMAIN s /\ s[n][field] = x /\ n \in Nat
      BY <1>1
    <2> HIDE DEF K
    <2>2. QED
      BY <1>1, <1>2, <2>1
  <1>4. LastIn(s, field, x) = <<s[Max(K)]>>
    BY <1>1 DEF LastIn
  <1>5. QED
    BY <1>3, <1>4

LEMMA LastInNone ==
  ASSUME NEW s, NEW field, NEW x
  PROVE  LastIn(s, field, x) = <<>> <=> \A n \in DOMAIN s : s[n][field] # x
  BY DEF LastIn

LEMMA LastInSome ==
  ASSUME NEW S, NEW s \in Seq(S), NEW field, NEW x, LastIn(s, field, x) # <<>>
  PROVE  \E k \in DOMAIN s : /\ s[k][field] = x /\ LastIn(s, field, x) = <<s[k]>>
                             /\ \A n \in DOMAIN s : s[n][field] = x => n <= k
  <1> DEFINE K == {n \in DOMAIN s : s[n][field] = x}
  <1>1. Len(s) \in Nat /\ K \subseteq 1..Len(s) /\ K # {}
    BY DEF LastIn
  <1>2. Max(K) \in K /\ \A n \in K : Max(K) >= n
    <2> HIDE DEF K
    <2>1. QED
      BY <1>1, LastOf
  <1>3. LastIn(s, field, x) = <<s[Max(K)]>>
    BY <1>1 DEF LastIn
  <1>4. QED
    BY <1>1, <1>2, <1>3

LEMMA LastInAppended ==
  ASSUME NEW S, NEW a \in Seq(S), NEW b \in Seq(S), NEW field, NEW x
  PROVE  LastIn(a \o b, field, x) = IF LastIn(b, field, x) = <<>> THEN LastIn(a, field, x) ELSE LastIn(b, field, x)
  <1> DEFINE c == a \o b
  <1>1. /\ c \in Seq(S) /\ DOMAIN c = 1..Len(a) + Len(b)
        /\ \A n \in 1..Len(a) : c[n] = a[n] /\ \A m \in 1..Len(b) : c[Len(a) + m] = b[m]
    OBVIOUS
  <1>2. \A m \in 1..Len(b) : c[Len(a) + m] = b[m]
    OBVIOUS
  <1>3. Len(a) \in Nat /\ Len(b) \in Nat /\ DOMAIN a = 1..Len(a) /\ DOMAIN b = 1..Len(b)
    OBVIOUS
  <1> HIDE DEF c
  <1>4. \A n \in DOMAIN c : n \in DOMAIN a \/ (n - Len(a) \in DOMAIN b /\ c[n] = b[n - Len(a)] /\ n > Len(a))
    <2> TAKE n \in DOMAIN c
    <2>1. CASE n > Len(a)
      <3>1. n - Len(a) \in 1..Len(b) /\ Len(a) + (n - Len(a)) = n
        BY <1>1, <1>3, <2>1
      <3>2. c[Len(a) + (n - Len(a))] = b[n - Len(a)]
        BY <1>2, <3>1
      <3>3. QED
        BY <1>3, <2>1, <3>1, <3>2
    <2>2. QED
      BY <1>1, <1>3, <2>1
  <1>5. CASE LastIn(b, field, x) # <<>>
    <2>1. PICK k \in DOMAIN b : /\ b[k][field] = x /\ LastIn(b, field, x) = <<b[k]>>
                                /\ \A n \in DOMAIN b : b[n][field] = x => n <= k
      BY <1>5, LastInSome
    <2>2. Len(a) + k \in DOMAIN c /\ c[Len(a) + k] = b[k]
      BY <1>1, <1>2, <1>3
    <2>3. \A n \in DOMAIN c : c[n][field] = x => n <= Len(a) + k
      <3> TAKE n \in DOMAIN c
      <3>1. CASE n \in DOMAIN a
        BY <1>3, <3>1
      <3>2. CASE n - Len(a) \in DOMAIN b /\ c[n] = b[n - Len(a)]
        <4>1. c[n][field] = x => n - Len(a) <= k
          BY <2>1, <3>2
        <4>2. QED
          BY <1>1, <1>3, <4>1
      <3>3. QED
        BY <1>4, <3>1, <3>2
    <2>4. LastIn(c, field, x) = <<b[k]>>
      <3>1. PICK m \in DOMAIN c : m = Len(a) + k
        BY <2>2
      <3>2. c[m] = b[k] /\ c[m][field] = x
        BY <2>1, <2>2, <3>1
      <3>3. \A n \in DOMAIN c : c[n][field] = x => n <= m
        BY <2>3, <3>1
      <3>4. LastIn(c, field, x) = <<c[m]>>
        <4>1. c \in Seq(S) /\ c[m][field] = x
          BY <1>1, <3>2
        <4>2. QED
          BY <3>3, <4>1, LastInIs
      <3>5. QED
        BY <3>2, <3>4
    <2>5. QED
      BY <1>5, <2>1, <2>4 DEF c
  <1>6. CASE LastIn(b, field, x) = <<>> /\ LastIn(a, field, x) # <<>>
    <2>1. PICK k \in DOMAIN a : /\ a[k][field] = x /\ LastIn(a, field, x) = <<a[k]>>
                                /\ \A n \in DOMAIN a : a[n][field] = x => n <= k
      BY <1>6, LastInSome
    <2>2. k \in DOMAIN c /\ c[k] = a[k]
      BY <1>1, <1>3
    <2>3. \A n \in DOMAIN b : b[n][field] # x
      BY <1>6, LastInNone
    <2>4. \A n \in DOMAIN c : c[n][field] = x => n <= k
      <3> TAKE n \in DOMAIN c
      <3>1. CASE n \in DOMAIN a
        BY <1>1, <1>3, <2>1, <3>1
      <3>2. CASE n - Len(a) \in DOMAIN b /\ c[n] = b[n - Len(a)]
        BY <2>3, <3>2
      <3>3. QED
        BY <1>4, <3>1, <3>2
    <2>5. LastIn(c, field, x) = <<a[k]>>
      <3>1. c[k][field] = x
        BY <2>1, <2>2
      <3>2. LastIn(c, field, x) = <<c[k]>>
        BY <1>1, <2>2, <2>4, <3>1, LastInIs
      <3>3. QED
        BY <2>2, <3>2
    <2>6. QED
      BY <1>6, <2>1, <2>5 DEF c
  <1>7. CASE LastIn(b, field, x) = <<>> /\ LastIn(a, field, x) = <<>>
    <2>1. \A n \in DOMAIN c : c[n][field] # x
      <3>1. \A n \in DOMAIN b : b[n][field] # x
        BY <1>7, LastInNone
      <3>2. \A n \in DOMAIN a : a[n][field] # x
        BY <1>7, LastInNone
      <3>3. QED
        BY <1>1, <1>3, <1>4, <3>1, <3>2
    <2>2. LastIn(c, field, x) = <<>>
      BY <2>1, LastInNone
    <2>3. QED
      BY <1>7, <2>2 DEF c
  <1>8. QED
    BY <1>5, <1>6, <1>7

\* In a sequence put together from pieces, it is in the last piece that has one.
LEMMA LastInFlat ==
  ASSUME NEW S, NEW pieces \in Seq(Seq(S)), NEW field, NEW x,
         NEW k \in DOMAIN pieces, LastIn(pieces[k], field, x) # <<>>,
         \A n \in DOMAIN pieces : LastIn(pieces[n], field, x) # <<>> => n <= k
  PROVE  LastIn(FlattenSeq(pieces), field, x) = LastIn(pieces[k], field, x)
  <1> DEFINE l == Len(pieces)
  <1>1. l \in Nat /\ DOMAIN pieces = 1..l /\ \A n \in 1..l : pieces[n] \in Seq(S)
    OBVIOUS
  <1>2. PICK f : Gathers(f, pieces, S)
    BY Gathered
  <1>3. \A n \in 1..l : f[n - 1] \in Seq(S) /\ f[n] = f[n - 1] \o pieces[n]
    BY <1>1, <1>2, GatherStep
  <1> DEFINE A == {n \in 0..l : n >= k => LastIn(f[n], field, x) = LastIn(pieces[k], field, x)}
  <1> HIDE DEF l
  <1>4. 0 \in A
    BY <1>1
  <1>5. ASSUME NEW n \in 1..l, n - 1 \in A
        PROVE  n \in A
    <2>0. f[n] = f[n - 1] \o pieces[n] /\ f[n - 1] \in Seq(S) /\ pieces[n] \in Seq(S)
      BY <1>1, <1>3
    <2>1. LastIn(f[n], field, x) = IF LastIn(pieces[n], field, x) = <<>> THEN LastIn(f[n - 1], field, x) ELSE LastIn(pieces[n], field, x)
      BY <2>0, LastInAppended
    <2>2. CASE n = k
      BY <2>1, <2>2
    <2>3. CASE n < k
      BY <1>1, <2>3
    <2>4. CASE n > k
      <3>1. LastIn(pieces[n], field, x) = <<>>
        BY <1>1, <2>4
      <3>2. n - 1 >= k
        BY <1>1, <2>4
      <3>3. LastIn(f[n - 1], field, x) = LastIn(pieces[k], field, x)
        BY <1>5, <3>2
      <3>4. QED
        BY <2>1, <3>1, <3>3
    <2>5. QED
      BY <1>1, <2>2, <2>3, <2>4
  <1> HIDE DEF A
  <1>6. 0..l \subseteq A
    BY <1>1, <1>4, <1>5, Upwards
  <1>7. l \in A /\ l >= k
    BY <1>1, <1>6
  <1>8. QED
    BY <1>2, <1>7 DEF A, l, Gathers

LEMMA LastInFlatNone ==
  ASSUME NEW S, NEW pieces \in Seq(Seq(S)), NEW field, NEW x,
         \A n \in DOMAIN pieces : LastIn(pieces[n], field, x) = <<>>
  PROVE  LastIn(FlattenSeq(pieces), field, x) = <<>>
  <1> DEFINE l == Len(pieces)
  <1>1. l \in Nat /\ DOMAIN pieces = 1..l /\ \A n \in 1..l : pieces[n] \in Seq(S)
    OBVIOUS
  <1>2. PICK f : Gathers(f, pieces, S)
    BY Gathered
  <1>3. \A n \in 1..l : f[n - 1] \in Seq(S) /\ f[n] = f[n - 1] \o pieces[n]
    BY <1>1, <1>2, GatherStep
  <1> DEFINE A == {n \in 0..l : LastIn(f[n], field, x) = <<>>}
  <1>4. 0 \in A
    BY <1>1, <1>2 DEF Gathers, LastIn
  <1> HIDE DEF l
  <1>5. ASSUME NEW n \in 1..l, n - 1 \in A
        PROVE  n \in A
    <2>0. f[n] = f[n - 1] \o pieces[n] /\ f[n - 1] \in Seq(S) /\ pieces[n] \in Seq(S)
      BY <1>1, <1>3
    <2>1. LastIn(f[n], field, x) = IF LastIn(pieces[n], field, x) = <<>> THEN LastIn(f[n - 1], field, x) ELSE LastIn(pieces[n], field, x)
      BY <2>0, LastInAppended
    <2>2. LastIn(pieces[n], field, x) = <<>>
      BY <1>1
    <2>3. LastIn(f[n - 1], field, x) = <<>> /\ n \in 0..l
      BY <1>1, <1>5
    <2>4. QED
      BY <2>1, <2>2, <2>3
  <1> HIDE DEF A
  <1>6. 0..l \subseteq A
    BY <1>1, <1>4, <1>5, Upwards
  <1>7. l \in A
    BY <1>1, <1>6
  <1>8. QED
    BY <1>2, <1>7 DEF A, l, Gathers

\* A range of positions, and the last of a set of them.
LEMMA MaxIs ==
  ASSUME NEW l \in Nat, NEW K, K \subseteq 1..l, NEW k \in K, \A n \in K : n <= k
  PROVE  Max(K) = k
  <1>1. Max(K) \in K /\ \A n \in K : Max(K) >= n
    BY LastOf
  <1>2. Max(K) \in 1..l /\ k \in 1..l
    BY <1>1
  <1>3. Max(K) <= k /\ Max(K) >= k
    BY <1>1
  <1>4. QED
    BY <1>2, <1>3

LEMMA SequenceIs ==
  ASSUME NEW s, IsSequence(s)
  PROVE  Len(s) \in Nat /\ DOMAIN s = 1..Len(s)
  BY DEF IsSequence

-----------------------------------------------------------------------------
(* The file-local variables.                                               *)

LEMMA MarkerIs ==
  ASSUME NEW lines, IsSequence(lines)
  PROVE  /\ marker(lines) \in 0..Len(lines) /\ Len(lines) \in Nat /\ DOMAIN lines = 1..Len(lines)
         /\ marker(lines) = 0 => \A k \in DOMAIN lines : lines[k].kind # "marker"
         /\ marker(lines) # 0 => /\ lines[marker(lines)].kind = "marker"
                                 /\ \A k \in DOMAIN lines : lines[k].kind = "marker" => k <= marker(lines)
  <1> DEFINE K == {k \in 1..Len(lines) : lines[k].kind = "marker"}
  <1>1. Len(lines) \in Nat /\ DOMAIN lines = 1..Len(lines)
    BY DEF IsSequence
  <1>2. marker(lines) = IF K # {} THEN Max(K) ELSE 0
    BY DEF marker, SelectLastInSeq
  <1>3. CASE K = {}
    BY <1>1, <1>2, <1>3
  <1>4. CASE K # {}
    <2>1. Max(K) \in K /\ \A k \in K : Max(K) >= k
      <3>1. K \subseteq 1..Len(lines)
        OBVIOUS
      <3> HIDE DEF K
      <3>2. QED
        BY <1>1, <1>4, <3>1, LastOf
    <2>2. marker(lines) = Max(K)
      BY <1>2, <1>4
    <2>3. \A k \in DOMAIN lines : lines[k].kind = "marker" => k \in K
      BY <1>1
    <2>4. \A k \in K : k \in 1..Len(lines) /\ lines[k].kind = "marker"
      OBVIOUS
    <2> HIDE DEF K
    <2>5. QED
      BY <1>1, <2>1, <2>2, <2>3, <2>4
  <1>5. QED
    BY <1>3, <1>4

LEMMA Pushed ==
  ASSUME NEW k, NEW v, NEW c
  PROVE  /\ push(k, v) \in Seq({[key |-> k, value |-> v]})
         /\ LastIn(push(k, v), "key", c) =
              IF k = c /\ k # key(Bare, "") THEN << [key |-> k, value |-> v] >> ELSE <<>>
  <1> DEFINE e == [key |-> k, value |-> v]
  <1>1. CASE k = key(Bare, "")
    <2>1. push(k, v) = <<>>
      BY <1>1 DEF push
    <2>2. LastIn(push(k, v), "key", c) = <<>>
      BY <2>1 DEF LastIn
    <2>3. push(k, v) \in Seq({e})
      BY <2>1
    <2>4. QED
      BY <1>1, <2>2, <2>3
  <1>2. CASE k # key(Bare, "")
    <2>1. push(k, v) = <<e>>
      BY <1>2 DEF push
    <2>2. e["key"] = k
      OBVIOUS
    <2> HIDE DEF e
    <2>3. push(k, v) \in Seq({e}) /\ DOMAIN push(k, v) = 1..1 /\ push(k, v)[1] = e
      BY <2>1
    <2>4. CASE k = c
      <3>1. LastIn(push(k, v), "key", c) = <<push(k, v)[1]>>
        BY <2>2, <2>3, <2>4, LastInIs
      <3>2. QED
        BY <1>2, <2>3, <2>4, <3>1 DEF e
    <2>5. CASE k # c
      <3>1. LastIn(push(k, v), "key", c) = <<>>
        BY <2>2, <2>3, <2>5, LastInNone
      <3>2. QED
        BY <2>3, <2>5, <3>1 DEF e
    <2>6. QED
      BY <2>4, <2>5
  <1>3. QED
    BY <1>1, <1>2

LEMMA GetIsLast ==
  ASSUME NEW vs, NEW called
  PROVE  LET e == LastIn(vs, "key", key(Bare, called))
         IN  get(vs, called) = IF e = <<>> THEN <<>> ELSE << e[1].value >>
  <1> DEFINE K == {k \in DOMAIN vs : vs[k].key = key(Bare, called)}
             e == LastIn(vs, "key", key(Bare, called))
  <1>1. K = {k \in DOMAIN vs : vs[k]["key"] = key(Bare, called)}
    OBVIOUS
  <1>2. e = IF K = {} THEN <<>> ELSE <<vs[Max(K)]>>
    BY <1>1 DEF LastIn
  <1>3. get(vs, called) = IF K = {} THEN <<>> ELSE <<vs[Max(K)].value>>
    BY DEF get
  <1> HIDE DEF K, e
  <1>4. CASE K = {}
    BY <1>2, <1>3, <1>4 DEF e
  <1>5. CASE K # {}
    <2>1. e = <<vs[Max(K)]>> /\ e # <<>> /\ e[1] = vs[Max(K)]
      BY <1>2, <1>5
    <2>2. get(vs, called) = <<e[1].value>>
      BY <1>3, <1>5, <2>1
    <2>3. QED
      BY <2>1, <2>2 DEF e
  <1>6. QED
    BY <1>4, <1>5

\* What is appended to the bindings decides, if it binds the variable.
LEMMA GetAppended ==
  ASSUME NEW S, NEW a \in Seq(S), NEW b \in Seq(S), NEW called
  PROVE  get(a \o b, called) = IF get(b, called) = <<>> THEN get(a, called) ELSE get(b, called)
  <1> DEFINE k == key(Bare, called)
             A == LastIn(a, "key", k)
             B == LastIn(b, "key", k)
             C == LastIn(a \o b, "key", k)
  <1>1. C = IF B = <<>> THEN A ELSE B
    <2> HIDE DEF k
    <2>1. QED
      BY LastInAppended
  <1>2. /\ get(a \o b, called) = IF C = <<>> THEN <<>> ELSE << C[1].value >>
        /\ get(a, called) = IF A = <<>> THEN <<>> ELSE << A[1].value >>
        /\ get(b, called) = IF B = <<>> THEN <<>> ELSE << B[1].value >>
    BY GetIsLast
  <1> HIDE DEF A, B, C
  <1>3. \A v : <<v>> # <<>>
    OBVIOUS
  <1>4. QED
    BY <1>1, <1>2, <1>3

LEMMA GetPushed ==
  ASSUME NEW prefix, NEW name, NEW v, NEW called, called # ""
  PROVE  /\ prefix = Bare /\ name = called => get(push(key(prefix, name), v), called) = <<v>>
         /\ prefix # Bare \/ name # called => get(push(key(prefix, name), v), called) = <<>>
  <1> DEFINE k == key(prefix, name)
             p == push(k, v)
             e == LastIn(p, "key", key(Bare, called))
  <1>1. k = key(Bare, called) <=> prefix = Bare /\ name = called
    BY DEF key
  <1>2. key(Bare, called) # key(Bare, "")
    BY DEF key
  <1>3. e = IF k = key(Bare, called) /\ k # key(Bare, "") THEN << [key |-> k, value |-> v] >> ELSE <<>>
    BY Pushed
  <1>4. get(p, called) = IF e = <<>> THEN <<>> ELSE << e[1].value >>
    BY GetIsLast
  <1> HIDE DEF k, p, e
  <1>5. CASE prefix = Bare /\ name = called
    <2>1. e = << [key |-> k, value |-> v] >>
      BY <1>1, <1>2, <1>3, <1>5
    <2>2. QED
      BY <1>4, <1>5, <2>1 DEF p, k
  <1>6. CASE ~(prefix = Bare /\ name = called)
    <2>1. e = <<>>
      BY <1>1, <1>3, <1>6
    <2>2. QED
      BY <1>4, <1>6, <2>1 DEF p, k
  <1>7. QED
    BY <1>5, <1>6

\* The places where a variable is bound, and the bindings a cookie's pairs are.
Binding(pairs, called) == {p \in DOMAIN pairs : pairs[p].name = called}
Bindings(pairs) == [p \in DOMAIN pairs |-> push(key(Bare, pairs[p].name), pairs[p].value)]

LEMMA BindingsTyped ==
  ASSUME NEW pairs, IsSequence(pairs)
  PROVE  \E S : Bindings(pairs) \in Seq(Seq(S))
  <1> DEFINE S == UNION {{[key |-> key(Bare, pairs[p].name), value |-> pairs[p].value]} : p \in DOMAIN pairs}
  <1>1. Len(pairs) \in Nat /\ DOMAIN pairs = 1..Len(pairs)
    BY SequenceIs
  <1>2. ASSUME NEW p \in DOMAIN pairs
        PROVE  push(key(Bare, pairs[p].name), pairs[p].value) \in Seq(S)
    <2> DEFINE e == [key |-> key(Bare, pairs[p].name), value |-> pairs[p].value]
    <2>1. push(key(Bare, pairs[p].name), pairs[p].value) \in Seq({e})
      BY Pushed
    <2>2. e \in S
      OBVIOUS
    <2> HIDE DEF e, S
    <2>3. QED
      BY <2>1, <2>2
  <1> HIDE DEF S
  <1>3. Bindings(pairs) \in [1..Len(pairs) -> Seq(S)]
    BY <1>1, <1>2 DEF Bindings
  <1>4. Bindings(pairs) \in Seq(Seq(S))
    BY <1>1, <1>3
  <1>5. QED
    BY <1>4

LEMMA PairsSay ==
  ASSUME NEW pairs, IsSequence(pairs), NEW called, called # ""
  PROVE  get(FlattenSeq(Bindings(pairs)), called) =
           IF Binding(pairs, called) = {} THEN <<>> ELSE <<pairs[Max(Binding(pairs, called))].value>>
  <1> DEFINE said == {p \in DOMAIN pairs : pairs[p].name = called}
             b == Bindings(pairs)
             k == key(Bare, called)
  <1>0. said = Binding(pairs, called)
    BY DEF Binding
  <1>1. Len(pairs) \in Nat /\ DOMAIN pairs = 1..Len(pairs)
    BY SequenceIs
  <1>2. PICK S : b \in Seq(Seq(S))
    BY BindingsTyped
  <1>3. DOMAIN b = 1..Len(pairs)
    BY <1>1 DEF Bindings
  <1>4. \A p \in DOMAIN pairs : LastIn(b[p], "key", k) =
          IF pairs[p].name = called THEN << [key |-> k, value |-> pairs[p].value] >> ELSE <<>>
    <2> TAKE p \in DOMAIN pairs
    <2> DEFINE kp == key(Bare, pairs[p].name)
    <2>1. b[p] = push(kp, pairs[p].value)
      BY DEF Bindings
    <2>2. kp = k <=> pairs[p].name = called
      BY DEF key
    <2>3. k # key(Bare, "")
      BY DEF key
    <2>4. LastIn(push(kp, pairs[p].value), "key", k) =
            IF kp = k /\ kp # key(Bare, "") THEN << [key |-> kp, value |-> pairs[p].value] >> ELSE <<>>
      BY Pushed
    <2> HIDE DEF k, kp, b
    <2>5. QED
      BY <2>1, <2>2, <2>3, <2>4
  <1>5. get(FlattenSeq(b), called) = LET e == LastIn(FlattenSeq(b), "key", k) IN IF e = <<>> THEN <<>> ELSE << e[1].value >>
    BY GetIsLast
  <1> HIDE DEF b, k
  <1>6. CASE said = {}
    <2>1. \A n \in DOMAIN b : LastIn(b[n], "key", k) = <<>>
      BY <1>1, <1>3, <1>4, <1>6
    <2>2. LastIn(FlattenSeq(b), "key", k) = <<>>
      BY <1>2, <2>1, LastInFlatNone
    <2>3. QED
      BY <1>0, <1>5, <1>6, <2>2 DEF b
  <1>7. CASE said # {}
    <2>1. Max(said) \in said /\ \A n \in said : Max(said) >= n
      <3>1. said \subseteq 1..Len(pairs)
        BY <1>1
      <3> HIDE DEF said
      <3>2. QED
        BY <1>1, <1>7, <3>1, LastOf
    <2>2. PICK m \in DOMAIN pairs : m = Max(said) /\ pairs[m].name = called
      BY <2>1
    <2>3. LastIn(b[m], "key", k) = << [key |-> k, value |-> pairs[m].value] >>
      BY <1>4, <2>2
    <2>4. \A n \in DOMAIN b : LastIn(b[n], "key", k) # <<>> => n <= m
      <3> TAKE n \in DOMAIN b
      <3>1. n \in said => n <= m
        BY <1>1, <2>1, <2>2
      <3>2. n \notin said => LastIn(b[n], "key", k) = <<>>
        BY <1>1, <1>3, <1>4
      <3>3. QED
        BY <3>1, <3>2
    <2>5. LastIn(FlattenSeq(b), "key", k) = LastIn(b[m], "key", k)
      <3>1. m \in DOMAIN b /\ LastIn(b[m], "key", k) # <<>>
        <4>1. m \in DOMAIN b
          BY <1>1, <1>3
        <4>2. \A v : <<v>> # <<>>
          OBVIOUS
        <4>3. QED
          BY <2>3, <4>1, <4>2
      <3>2. QED
        BY <1>2, <2>4, <3>1, LastInFlat
    <2>6. get(FlattenSeq(b), called) = <<pairs[m].value>>
      <3> DEFINE e == LastIn(FlattenSeq(b), "key", k)
      <3>1. e = << [key |-> k, value |-> pairs[m].value] >>
        BY <2>3, <2>5
      <3>2. get(FlattenSeq(b), called) = IF e = <<>> THEN <<>> ELSE << e[1].value >>
        BY <1>5
      <3> HIDE DEF e
      <3>3. QED
        BY <3>1, <3>2
    <2>7. QED
      BY <1>0, <1>7, <2>2, <2>6 DEF b
  <1>8. QED
    BY <1>6, <1>7

\* The bindings that the line a cookie counts on consists of, if it is one.
Cookie(l) == IF l.mode = "" THEN l.pairs ELSE << [name |-> "mode", value |-> l.mode] >>
Says(lines, called) ==
  LET n    == header(lines)
      said == Binding(Cookie(lines[n]), called)
  IN  IF n > Len(lines) \/ lines[n].kind # "cookie" \/ said = {} THEN <<>>
      ELSE <<Cookie(lines[n])[Max(said)].value>>

LEMMA HeaderSays ==
  ASSUME NEW p \in Projects
  PROVE  /\ \E S : read_header(p.lines) \in Seq(S)
         /\ \A called : called # "" => get(read_header(p.lines), called) = Says(p.lines, called)
  <1>1. IsSequence(p.lines) /\ \A k \in DOMAIN p.lines : IsLine(p.lines[k])
    BY SettingsAssumption DEF IsProject
  <1> DEFINE lines == p.lines
             n == header(lines)
             l == lines[n]
             c == Cookie(l)
             none == n > Len(lines) \/ l.kind # "cookie"
  <1>2. Len(lines) \in Nat /\ DOMAIN lines = 1..Len(lines)
    BY <1>1, SequenceIs
  <1>3. n \in 1..2
    BY DEF header
  <1>4. ~none => IsSequence(c)
    <2> SUFFICES ASSUME ~none
                 PROVE  IsSequence(c)
      OBVIOUS
    <2>1. n \in DOMAIN lines
      BY <1>2, <1>3
    <2>2. IsSequence(l.pairs)
      BY <1>1, <2>1 DEF IsLine
    <2>3. \A e : IsSequence(<<e>>)
      BY DEF IsSequence
    <2>4. QED
      BY <2>2, <2>3 DEF Cookie
  <1>5. /\ none => read_header(lines) = <<>>
        /\ ~none /\ l.mode # "" => read_header(lines) = push(key(Bare, "mode"), l.mode)
        /\ ~none /\ l.mode = "" => read_header(lines) = FlattenSeq(Bindings(l.pairs))
    BY Zenon DEF read_header, Bindings
  <1>6. ASSUME NEW called, NEW said, said = Binding(c, called)
        PROVE  /\ none \/ said = {} => Says(lines, called) = <<>>
               /\ ~none /\ said # {} => Says(lines, called) = <<c[Max(said)].value>>
    BY <1>6, Zenon DEF Says
  <1>7. CASE none
    <2>1. read_header(lines) = <<>>
      BY <1>5, <1>7
    <2>2. \A called : Says(lines, called) = <<>>
      BY <1>6, <1>7
    <2>3. <<>> \in Seq({}) /\ \A called : get(<<>>, called) = <<>>
      BY DEF get
    <2>4. QED
      BY <2>1, <2>2, <2>3
  <1>8. CASE ~none
    <2>1. \A e : FlattenSeq(<<e>>) = e
      BY DEF FlattenSeq
    <2>2. read_header(lines) = FlattenSeq(Bindings(c))
      <3>1. CASE l.mode = ""
        BY <1>5, <1>8, <3>1 DEF Cookie
      <3>2. CASE l.mode # ""
        <4>1. read_header(lines) = push(key(Bare, "mode"), l.mode)
          BY <1>5, <1>8, <3>2
        <4>2. Bindings(<< [name |-> "mode", value |-> l.mode] >>) = << push(key(Bare, "mode"), l.mode) >>
          BY DEF Bindings
        <4>3. c = << [name |-> "mode", value |-> l.mode] >>
          BY <3>2 DEF Cookie
        <4>4. QED
          BY <2>1, <4>1, <4>2, <4>3
      <3>3. QED
        BY <3>1, <3>2
    <2>3. IsSequence(c)
      BY <1>4, <1>8
    <2> HIDE DEF c
    <2>4. \E S : FlattenSeq(Bindings(c)) \in Seq(S)
      BY <2>3, BindingsTyped, FlatTyped
    <2>5. ASSUME NEW called, called # ""
          PROVE  get(read_header(lines), called) = Says(lines, called)
      <3> DEFINE said == Binding(c, called)
      <3>1. get(FlattenSeq(Bindings(c)), called) = IF said = {} THEN <<>> ELSE <<c[Max(said)].value>>
        BY <2>3, <2>5, PairsSay
      <3>2. /\ said = {} => Says(lines, called) = <<>>
            /\ said # {} => Says(lines, called) = <<c[Max(said)].value>>
        BY <1>6, <1>8
      <3> HIDE DEF said, lines
      <3>3. QED
        BY <2>2, <3>1, <3>2
    <2>6. QED
      BY <2>2, <2>4, <2>5
  <1>9. QED
    BY <1>7, <1>8

LEMMA CookieIsHeader == \A called : CookieSays(called) = Says(project.lines, called)
  <1> TAKE called
  <1> DEFINE lines == project.lines
             n     == header(lines)
             pairs == IF lines[n].mode = "" THEN lines[n].pairs
                      ELSE << [name |-> "mode", value |-> lines[n].mode] >>
             said  == {p \in DOMAIN pairs : pairs[p].name = called}
  <1>1. CookieSays(called) = IF n > Len(lines) \/ lines[n].kind # "cookie" \/ said = {} THEN <<>>
                             ELSE <<pairs[Max(said)].value>>
    BY Zenon DEF CookieSays, header
  <1>2. pairs = Cookie(lines[n])
    BY Zenon DEF Cookie
  <1>3. said = Binding(Cookie(lines[n]), called)
    BY <1>2, Zenon DEF Binding
  <1>4. Says(lines, called) =
          IF n > Len(lines) \/ lines[n].kind # "cookie" \/ Binding(Cookie(lines[n]), called) = {} THEN <<>>
          ELSE <<Cookie(lines[n])[Max(Binding(Cookie(lines[n]), called))].value>>
    BY Zenon DEF Says
  <1> HIDE DEF lines, n, pairs, said
  <1>5. QED
    BY <1>1, <1>2, <1>3, <1>4 DEF lines

\* What is in force after some lines of the block.
Told(lines, called, block) == {k \in block : lines[k].kind = "pair" /\ lines[k].name = called}
Holds(lines, called, block) ==
  LET told == Told(lines, called, block) IN
  IF told = {} THEN Says(lines, called) ELSE <<lines[Max(told)].value>>
Lined(lines) == \A k \in DOMAIN lines, n \in DOMAIN lines :
                  lines[k].kind = "marker" /\ k < n => lines[n].prefix = lines[k].prefix

LEMMA GetNone == \A called : get(<<>>, called) = <<>>
  BY DEF get

\* What one line of the block binds.
LEMMA LineTyped ==
  ASSUME NEW mark, NEW l
  PROVE  \E S : read_line(mark, l) \in Seq(S)
  <1>1. \A k, v : \E S : push(k, v) \in Seq(S)
    BY Pushed
  <1>2. <<>> \in Seq({})
    OBVIOUS
  <1> DEFINE body == body_prefix(mark, l)
  <1>3. \/ read_line(mark, l) = push(key(body, l.name), l.value)
        \/ read_line(mark, l) = push(key(body, "End"), "")
        \/ read_line(mark, l) = push(key("-*-", l.pairs[1].name), l.pairs[1].value)
        \/ read_line(mark, l) = <<>>
    BY Zenon DEF read_line
  <1> HIDE DEF body
  <1>4. QED
    BY <1>1, <1>2, <1>3

LEMMA LineSays ==
  ASSUME NEW mark, NEW l, ~ ends_block(mark, l), l.prefix = mark.prefix, NEW called, called # ""
  PROVE  get(read_line(mark, l), called) =
           IF l.kind = "pair" /\ l.name = called THEN <<l.value>> ELSE <<>>
  <1> DEFINE body == body_prefix(mark, l)
  <1>0. called # ""
    OBVIOUS
  <1>1. body = Bare
    BY DEF body_prefix
  <1>2. l.kind # "end"
    BY <1>1 DEF ends_block
  <1>3. CASE l.kind = "pair"
    <2>1. read_line(mark, l) = push(key(body, l.name), l.value)
      BY <1>3 DEF read_line
    <2>2. /\ body = Bare /\ l.name = called => get(push(key(body, l.name), l.value), called) = <<l.value>>
          /\ body # Bare \/ l.name # called => get(push(key(body, l.name), l.value), called) = <<>>
      <3> DEFINE lname == l.name lvalue == l.value
      <3> HIDE DEF body, lname, lvalue
      <3>1. /\ body = Bare /\ lname = called => get(push(key(body, lname), lvalue), called) = <<lvalue>>
            /\ body # Bare \/ lname # called => get(push(key(body, lname), lvalue), called) = <<>>
        BY GetPushed
      <3>2. QED
        BY <3>1 DEF lname, lvalue
    <2> HIDE DEF body
    <2>3. QED
      BY <1>1, <1>3, <2>1, <2>2
  <1>4. CASE l.kind = "cookie" /\ l.pairs # <<>>
    <2> DEFINE lname == l.pairs[1].name lvalue == l.pairs[1].value
    <2>1. read_line(mark, l) = push(key("-*-", lname), lvalue)
      BY <1>4 DEF read_line
    <2>2. "-*-" # Bare
      BY DEF Bare
    <2> HIDE DEF lname, lvalue
    <2>3. get(push(key("-*-", lname), lvalue), called) = <<>>
      <3> DEFINE prefix == "-*-"
      <3> HIDE DEF prefix
      <3>1. prefix # Bare => get(push(key(prefix, lname), lvalue), called) = <<>>
        BY GetPushed
      <3>2. QED
        BY <2>2, <3>1 DEF prefix
    <2>4. QED
      BY <1>4, <2>1, <2>2, <2>3
  <1>5. CASE l.kind \notin {"pair", "end"} /\ ~(l.kind = "cookie" /\ l.pairs # <<>>)
    <2>1. read_line(mark, l) = <<>>
      BY <1>5 DEF read_line
    <2>2. get(<<>>, called) = <<>>
      BY GetNone
    <2>3. QED
      BY <1>5, <2>1, <2>2
  <1>6. QED
    BY <1>2, <1>3, <1>4, <1>5

-----------------------------------------------------------------------------
(* The loop over the block.                                                *)

\* After the marker, every line up to the one looked at was read, and what the
\* bindings so far put in force is what those lines put in force.
LInv ==
  LET lines == project.lines
      m     == marker(lines)
  IN  /\ project \in Projects
      /\ pc \in {"votes", "header", "footer", "elements", "done"}
      /\ pc # "votes" /\ pc # "header" => \E S : locals \in Seq(S)
      /\ pc = "footer" =>
           /\ m # 0 /\ i \in m + 1..Len(lines) + 1
           /\ \A n \in m + 1..i - 1 : ~ ends_block(marked, lines[n])
           /\ Lined(lines) => \A called : called # "" => get(locals, called) = Holds(lines, called, m + 1..i - 1)
      /\ pc = "elements" /\ Lined(lines) =>
           \A called : called # "" => get(locals, called) = Holds(lines, called, Block)

\* One more line.
LEMMA OneMoreLine ==
  ASSUME NEW lines, NEW a \in Nat, NEW z \in Nat, a <= z + 1, NEW called
  PROVE  Holds(lines, called, a..z + 1) =
           IF lines[z + 1].kind = "pair" /\ lines[z + 1].name = called THEN <<lines[z + 1].value>>
           ELSE Holds(lines, called, a..z)
  <1> DEFINE was == Told(lines, called, a..z)
             is  == Told(lines, called, a..z + 1)
             here == lines[z + 1].kind = "pair" /\ lines[z + 1].name = called
  <1>1. CASE here
    <2>1. is \subseteq 1..z + 1 \/ a = 0
      BY DEF Told
    <2>2. z + 1 \in is /\ \A k \in is : k <= z + 1 /\ k \in Nat
      BY <1>1 DEF Told
    <2>3. Max(is) = z + 1
      <3>1. Max(is) = CHOOSE x \in is : \A y \in is : x >= y
        BY DEF Max
      <3> HIDE DEF is
      <3>2. \A x \in is : (\A y \in is : x >= y) => x = z + 1
        BY <2>2
      <3>3. \A y \in is : z + 1 >= y
        BY <2>2
      <3>4. QED
        BY <2>2, <3>1, <3>2, <3>3
    <2>4. Holds(lines, called, a..z + 1) = <<lines[Max(is)].value>>
      BY <2>2 DEF Holds
    <2>5. QED
      BY <1>1, <2>3, <2>4
  <1>2. CASE ~here
    <2>1. is = was
      BY <1>2 DEF Told
    <2>2. Holds(lines, called, a..z + 1) = Holds(lines, called, a..z)
      BY <2>1 DEF Holds
    <2>3. QED
      BY <1>2, <2>2
  <1>3. QED
    BY <1>1, <1>2

\* The block, when the lines up to z are in it and the one after is its end.
LEMMA BlockIs ==
  ASSUME project \in Projects, Lined(project.lines), marker(project.lines) # 0,
         NEW z \in Nat, z \in marker(project.lines)..Len(project.lines),
         \A n \in marker(project.lines) + 1..z : ~ ends_block(marked, project.lines[n]),
         z < Len(project.lines) => ends_block(marked, project.lines[z + 1])
  PROVE  Block = marker(project.lines) + 1..z
  <1> DEFINE lines == project.lines
             m == marker(lines)
             from == {k \in DOMAIN lines : lines[k].kind = "marker"}
             IsOpen(k, n) == \A e \in k..n : lines[e].kind # "end"
  <1>0. IsSequence(lines)
    BY SettingsAssumption DEF IsProject
  <1>1. /\ Len(lines) \in Nat /\ DOMAIN lines = 1..Len(lines)
        /\ m \in DOMAIN lines /\ lines[m].kind = "marker"
        /\ \A k \in DOMAIN lines : lines[k].kind = "marker" => k <= m
    BY <1>0, MarkerIs
  <1>2. \A k \in from : (\A e \in from : e <= k) <=> k = m
    BY <1>1
  <1>3. Block = {n \in DOMAIN lines : \E k \in from : /\ k < n /\ \A e \in from : e <= k
                                                       /\ IsOpen(k, n)}
    BY Zenon DEF Block
  <1>4. m \in from
    BY <1>1
  <1>5. \A n \in DOMAIN lines : n > m => (ends_block(marked, lines[n]) <=> lines[n].kind = "end")
    BY <1>1 DEF Lined, ends_block, body_prefix, marked
  <1> HIDE DEF from, m, lines
  <1>6. Block = {n \in DOMAIN lines : m < n /\ IsOpen(m, n)}
    BY <1>2, <1>3, <1>4
  <1>7. \A n \in m + 1..z : IsOpen(m, n)
    <2> TAKE n \in m + 1..z
    <2> SUFFICES ASSUME NEW e \in m..n
                 PROVE  lines[e].kind # "end"
      OBVIOUS
    <2>1. CASE e = m
      BY <1>1, <2>1
    <2>2. CASE e # m
      <3>1. e \in m + 1..z /\ e \in DOMAIN lines /\ e > m
        BY <1>1, <2>2 DEF lines, m
      <3>2. ~ ends_block(marked, lines[e])
        BY <3>1 DEF lines, m
      <3>3. QED
        BY <1>5, <3>1, <3>2
    <2>3. QED
      BY <2>1, <2>2
  <1>8. \A n \in DOMAIN lines : n > z => ~ IsOpen(m, n)
    <2> SUFFICES ASSUME NEW n \in DOMAIN lines, n > z
                 PROVE  ~ IsOpen(m, n)
      OBVIOUS
    <2>1. z \in m..Len(lines)
      BY DEF lines, m
    <2>2. z + 1 \in DOMAIN lines /\ z < Len(lines) /\ z + 1 > m /\ z + 1 \in m..n
      BY <1>1, <2>1
    <2>3. ends_block(marked, lines[z + 1])
      BY <2>2 DEF lines
    <2>4. lines[z + 1].kind = "end"
      BY <1>5, <2>2, <2>3
    <2>5. QED
      BY <2>2, <2>4
  <1>9. \A n \in m + 1..z : n \in DOMAIN lines /\ m < n
    BY <1>1 DEF lines, m
  <1>10. \A n \in DOMAIN lines : n \in m + 1..z <=> m < n /\ ~(n > z)
    BY <1>1
  <1> HIDE DEF IsOpen
  <1>11. \A n : n \in Block <=> n \in m + 1..z
    BY <1>6, <1>7, <1>8, <1>9, <1>10
  <1>12. QED
    BY <1>11 DEF m, lines

LEMMA LInvInit == Init => LInv
  BY DEF Init, LInv

LEMMA LInvStep == LInv /\ [Next]_vars => LInv'
  <1> SUFFICES ASSUME LInv, [Next]_vars
               PROVE  LInv'
    OBVIOUS
  <1> DEFINE lines == project.lines
             m == marker(lines)
  <1>0. IsSequence(lines)
    BY SettingsAssumption DEF LInv, IsProject
  <1>1. /\ Len(lines) \in Nat /\ DOMAIN lines = 1..Len(lines) /\ m \in 0..Len(lines)
        /\ m = 0 => \A k \in DOMAIN lines : lines[k].kind # "marker"
        /\ m # 0 => m \in DOMAIN lines /\ lines[m].kind = "marker"
    BY <1>0, MarkerIs
  <1>2. CASE Vote
    BY <1>2 DEF Vote, LInv
  <1>3. CASE Decide
    BY <1>3 DEF Decide, LInv
  <1>4. CASE ReadHeader
    <2>1. /\ locals' = read_header(lines) /\ project' = project /\ project \in Projects
          /\ m = 0 => pc' = "elements"
          /\ m # 0 => pc' = "footer" /\ i' = m + 1
      BY <1>4 DEF ReadHeader, LInv
    <2>2. \E S : read_header(lines) \in Seq(S)
      BY <2>1, HeaderSays
    <2>3. \A called : called # "" => get(locals', called) = Says(lines, called)
      BY <2>1, HeaderSays
    <2>4. CASE m = 0
      <3>1. Block = {}
        BY <1>1, <2>4 DEF Block
      <3>2. Block' = {}
        BY <2>1, <3>1 DEF Block
      <3>3. \A called : Holds(lines, called, {}) = Says(lines, called)
        BY DEF Holds, Told
      <3>4. \A called : called # "" => get(locals', called) = Holds(lines, called, Block')
        BY <2>3, <3>2, <3>3
      <3>5. QED
        BY <2>1, <2>2, <2>4, <3>4 DEF LInv
    <2>5. CASE m # 0
      <3>1. \A called : Holds(lines, called, m + 1..m) = Says(lines, called)
        <4>1. \A called : Told(lines, called, m + 1..m) = {}
          BY <1>1 DEF Told
        <4>2. QED
          BY <4>1 DEF Holds
      <3>2. i' - 1 = m /\ i' \in m + 1..Len(lines) + 1 /\ m + 1..i' - 1 = {}
        BY <1>1, <2>1, <2>5
      <3>3. \A called : called # "" => get(locals', called) = Holds(lines, called, m + 1..i' - 1)
        BY <2>3, <3>1, <3>2
      <3>4. QED
        BY <2>1, <2>2, <2>5, <3>2, <3>3 DEF LInv
    <2>6. QED
      BY <2>4, <2>5
  <1>5. CASE ReadLine
    <2> DEFINE l == lines[i]
               more == read_line(marked, l)
    <2>1. /\ pc = "footer" /\ pc' = "footer" /\ project' = project /\ i' = i + 1
          /\ i <= Len(lines) /\ ~ ends_block(marked, l) /\ locals' = locals \o more
      BY <1>5 DEF ReadLine, InBlock
    <2>2. /\ project \in Projects /\ m # 0 /\ i \in m + 1..Len(lines) + 1
          /\ \A n \in m + 1..i - 1 : ~ ends_block(marked, lines[n])
      BY <2>1 DEF LInv
    <2>3. PICK S : locals \in Seq(S)
      BY <2>1 DEF LInv
    <2>4. PICK T : more \in Seq(T)
      BY LineTyped
    <2>5. locals \in Seq(S \union T) /\ more \in Seq(S \union T)
      BY <2>3, <2>4
    <2>6. locals' \in Seq(S \union T)
      <3> HIDE DEF more
      <3>1. QED
        BY <2>1, <2>5
    <2>7. \A called : get(locals', called) = IF get(more, called) = <<>> THEN get(locals, called) ELSE get(more, called)
      <3> HIDE DEF more
      <3>1. QED
        BY <2>1, <2>5, GetAppended
    <2>8. ASSUME Lined(lines), NEW called, called # ""
          PROVE  get(locals', called) = Holds(lines, called, m + 1..i)
      <3>1. get(locals, called) = Holds(lines, called, m + 1..i - 1)
        BY <2>1, <2>8 DEF LInv
      <3>2. l.prefix = marked.prefix
        <4>1. i \in DOMAIN lines /\ m \in DOMAIN lines /\ m < i /\ lines[m].kind = "marker"
          BY <1>1, <2>1, <2>2
        <4>2. marked = lines[m]
          BY DEF marked
        <4> HIDE DEF lines, m
        <4>3. lines[i].prefix = lines[m].prefix
          BY <2>8, <4>1 DEF Lined
        <4>4. QED
          BY <4>2, <4>3
      <3>3. get(more, called) = IF l.kind = "pair" /\ l.name = called THEN <<l.value>> ELSE <<>>
        BY <2>1, <2>8, <3>2, LineSays
      <3>4. Holds(lines, called, m + 1..i) =
              IF l.kind = "pair" /\ l.name = called THEN <<l.value>> ELSE Holds(lines, called, m + 1..i - 1)
        <4> DEFINE a == m + 1
                   z == i - 1
        <4>1. a \in Nat /\ z \in Nat /\ a <= z + 1 /\ z + 1 = i
          BY <1>1, <2>2
        <4> HIDE DEF a, z, lines, m
        <4>2. Holds(lines, called, a..z + 1) =
                IF lines[z + 1].kind = "pair" /\ lines[z + 1].name = called
                THEN <<lines[z + 1].value>> ELSE Holds(lines, called, a..z)
          BY <4>1, OneMoreLine
        <4>3. QED
          BY <4>1, <4>2 DEF a, z
      <3>5. \A v : <<v>> # <<>>
        OBVIOUS
      <3> HIDE DEF more, l
      <3>6. CASE l.kind = "pair" /\ l.name = called
        BY <2>7, <3>3, <3>4, <3>5, <3>6
      <3>7. CASE ~(l.kind = "pair" /\ l.name = called)
        BY <2>7, <3>1, <3>3, <3>4, <3>7
      <3>8. QED
        BY <3>6, <3>7
    <2>9. i' \in m + 1..Len(lines) + 1 /\ i' - 1 = i /\ \A n \in m + 1..i : n = i \/ n \in m + 1..i - 1
      BY <1>1, <2>1, <2>2
    <2>10. \A n \in m + 1..i : ~ ends_block(marked, lines[n])
      BY <2>1, <2>2, <2>9
    <2>11. marked' = marked
      BY <2>1 DEF marked
    <2>12. \A n \in m + 1..i' - 1 : ~ ends_block(marked', lines[n])
      BY <2>9, <2>10, <2>11
    <2>13. Lined(lines) => \A called : called # "" => get(locals', called) = Holds(lines, called, m + 1..i' - 1)
      BY <2>8, <2>9
    <2> HIDE DEF more, l
    <2>14. QED
      BY <2>1, <2>2, <2>6, <2>9, <2>12, <2>13 DEF LInv
  <1>6. CASE EndBlock
    <2>1. /\ pc = "footer" /\ pc' = "elements" /\ project' = project /\ locals' = locals
          /\ i <= Len(lines) => ends_block(marked, lines[i])
      BY <1>6 DEF EndBlock, InBlock
    <2>2. /\ project \in Projects /\ m # 0 /\ i \in m + 1..Len(lines) + 1
          /\ \A n \in m + 1..i - 1 : ~ ends_block(marked, lines[n])
          /\ \E S : locals \in Seq(S)
      BY <2>1 DEF LInv
    <2>3. ASSUME Lined(lines)
          PROVE  Block = m + 1..i - 1
      <3> DEFINE z == i - 1
      <3>1. z \in Nat /\ z \in m..Len(lines) /\ z + 1 = i
        BY <1>1, <2>2
      <3>2. \A n \in m + 1..z : ~ ends_block(marked, lines[n])
        BY <2>2
      <3>3. z < Len(lines) => ends_block(marked, lines[z + 1])
        BY <1>1, <2>1, <3>1
      <3> HIDE DEF z
      <3>4. Block = m + 1..z
        BY <2>2, <2>3, <3>1, <3>2, <3>3, BlockIs
      <3>5. QED
        BY <3>4 DEF z
    <2>4. Block' = Block
      BY <2>1 DEF Block
    <2>5. ASSUME Lined(lines), NEW called, called # ""
          PROVE  get(locals, called) = Holds(lines, called, Block')
      <3>1. get(locals, called) = Holds(lines, called, m + 1..i - 1)
        BY <2>1, <2>5 DEF LInv
      <3>2. QED
        BY <2>3, <2>4, <2>5, <3>1
    <2>6. QED
      BY <2>1, <2>2, <2>5 DEF LInv
  <1>7. CASE Collect
    <2>1. project' = project /\ pc = "elements" /\ pc' = "elements" /\ locals' = locals
      BY <1>7 DEF Collect
    <2>2. Block' = Block
      BY <2>1 DEF Block
    <2>3. QED
      BY <2>1, <2>2 DEF LInv
  <1>8. CASE Resolve
    BY <1>8 DEF Resolve, LInv
  <1>9. CASE UNCHANGED vars
    <2>1. project' = project /\ pc' = pc /\ locals' = locals /\ i' = i
      BY <1>9 DEF vars
    <2>2. Block' = Block /\ marked' = marked
      BY <2>1 DEF Block, marked
    <2>3. QED
      BY <2>1, <2>2 DEF LInv
  <1>10. QED
    BY <1>2, <1>3, <1>4, <1>5, <1>6, <1>7, <1>8, <1>9 DEF Next

\* In a file whose block is aligned, the value in force for a variable is the last
\* one the last block gives it, or the cookie's: whatever the file is.
THEOREM LastBindingInForce == Spec => []LocalsInForce
  <1>1. Init => LInv
    BY LInvInit
  <1>2. LInv /\ [Next]_vars => LInv'
    BY LInvStep
  <1>3. LInv => LocalsInForce
    <2> SUFFICES ASSUME LInv, pc = "elements", Aligned, NEW called \in NamedInFile \ {""}
                 PROVE  LET said == {k \in Block : project.lines[k].kind = "pair" /\ project.lines[k].name = called}
                        IN  get(locals, called) = IF said = {} THEN CookieSays(called) ELSE <<project.lines[Max(said)].value>>
      BY DEF LocalsInForce
    <2>1. Lined(project.lines)
      BY DEF Lined, Aligned
    <2>2. get(locals, called) = Holds(project.lines, called, Block) /\ called # ""
      BY <2>1 DEF LInv
    <2>3. QED
      BY <2>2, CookieIsHeader DEF Holds, Told
  <1>4. QED
    BY <1>1, <1>2, <1>3, PTL DEF Spec

-----------------------------------------------------------------------------
(* What is detected of a file.                                             *)

LEMMA FirstOf ==
  ASSUME NEW S, S \subseteq Nat, S # {}
  PROVE  Min(S) \in S /\ \A n \in S : Min(S) <= n
  <1> DEFINE rel == OpToRel(<, Nat)
  <1>1. IsWellFoundedOn(rel, Nat)
    BY NatLessThanWellFounded
  <1>2. \A x, y \in Nat : y < x => <<y, x>> \in rel
    BY DEF OpToRel
  <1> HIDE DEF rel
  <1>3. PICK r \in S : \A y \in S : ~(<<y, r>> \in rel)
    BY <1>1, WFMin
  <1>4. \A y \in S : r <= y
    <2> TAKE y \in S
    <2>1. y \in Nat /\ r \in Nat
      OBVIOUS
    <2>2. ~(y < r)
      BY <1>2, <1>3, <2>1
    <2>3. QED
      BY <2>1, <2>2
  <1>5. Min(S) = CHOOSE x \in S : \A y \in S : x <= y
    BY DEF Min
  <1>6. QED
    BY <1>4, <1>5

Dialects == {ALL[k] : k \in DOMAIN ALL}
Confidences == {"High", "Medium", "Low"}
Detections == {some(d, c) : d \in Dialects, c \in Confidences}

LEMMA AllIs == /\ DOMAIN ALL = 1..19 /\ Len(ALL) = 19
               /\ {"Scheme", "Guile", "Racket", "SchemeSuperset", "Clojure", "Phel", "Edn", "CommonLisp",
                   "EmacsLisp", "AutoLisp", "Janet", "Hy", "Fennel", "Lfe", "Wat"} \subseteq Dialects
  <1>1. DOMAIN ALL = 1..19 /\ Len(ALL) = 19
    BY DEF ALL
  <1>2. /\ ALL[1] = "Scheme" /\ ALL[2] = "Guile" /\ ALL[3] = "Racket" /\ ALL[7] = "SchemeSuperset"
        /\ ALL[8] = "Clojure" /\ ALL[9] = "Phel" /\ ALL[10] = "Edn" /\ ALL[11] = "CommonLisp"
        /\ ALL[12] = "EmacsLisp" /\ ALL[14] = "AutoLisp" /\ ALL[15] = "Janet" /\ ALL[16] = "Hy"
        /\ ALL[17] = "Fennel" /\ ALL[18] = "Lfe" /\ ALL[19] = "Wat"
    BY DEF ALL
  <1>3. \A k \in 1..19 : ALL[k] \in Dialects
    BY <1>1 DEF Dialects
  <1>4. QED
    BY <1>1, <1>2, <1>3

\* Where a dialect stands in Dialect::ALL.
LEMMA IndexIs ==
  ASSUME NEW d \in Dialects
  PROVE  /\ all_index(d) \in DOMAIN ALL /\ ALL[all_index(d)] = d
         /\ \A k \in DOMAIN ALL : ALL[k] = d => all_index(d) <= k
  <1> DEFINE I == {k \in 1..Len(ALL) : ALL[k] = d}
  <1>1. all_index(d) = IF I # {} THEN Min(I) ELSE 0
    BY DEF all_index, SelectInSeq
  <1>2. I # {} /\ I \subseteq Nat
    BY AllIs DEF Dialects
  <1>3. \A k : k \in I <=> k \in DOMAIN ALL /\ ALL[k] = d
    BY AllIs
  <1> HIDE DEF I
  <1>4. Min(I) \in I /\ \A k \in I : Min(I) <= k
    BY <1>2, FirstOf
  <1>5. QED
    BY <1>1, <1>2, <1>3, <1>4

LEMMA LookedUp ==
  ASSUME NEW rows, NEW called
  PROVE  \/ look_up(rows, called) = <<>>
         \/ \E row \in rows : look_up(rows, called) = row[2]
  <1> DEFINE found == {row \in rows : called \in row[1]}
             row == CHOOSE row \in found : TRUE
  <1>1. found # {} => row \in found
    BY Zenon
  <1>2. look_up(rows, called) = IF found = {} THEN <<>> ELSE row[2]
    BY DEF look_up
  <1>3. QED
    BY <1>1, <1>2

LEMMA ExtensionDetects ==
  ASSUME NEW f
  PROVE  extension_dialect(f) = <<>> \/ extension_dialect(f) \in Detections
  <1> DEFINE cands == look_up(from_extension, f.ext)
  <1>1. \/ cands = <<>> \/ \E row \in from_extension : cands = row[2]
    BY LookedUp
  <1>2. \A row \in from_extension : /\ Len(row[2]) \in 1..2
                                    /\ Len(row[2]) = 1 => row[2][1] \in Dialects
    BY AllIs DEF from_extension
  <1>3. Len(cands) \in 0..2 /\ (Len(cands) = 1 => cands[1] \in Dialects)
    BY <1>1, <1>2
  <1>4. disambiguate(cands, f) \in Dialects
    BY AllIs DEF disambiguate
  <1>5. extension_dialect(f) = CASE Len(cands) = 0 -> <<>>
                                 [] Len(cands) = 1 -> some(cands[1], "High")
                                 [] Len(cands) > 1 -> some(disambiguate(cands, f), "Medium")
    BY Zenon DEF extension_dialect
  <1> HIDE DEF cands
  <1>6. CASE Len(cands) = 0
    BY <1>5, <1>6
  <1>7. CASE Len(cands) = 1
    <2>1. extension_dialect(f) = some(cands[1], "High")
      BY <1>5, <1>7
    <2>2. QED
      BY <1>3, <1>7, <2>1 DEF Detections, Confidences
  <1>8. CASE Len(cands) = 2
    <2>1. extension_dialect(f) = some(disambiguate(cands, f), "Medium")
      BY <1>5, <1>8
    <2>2. QED
      BY <1>4, <2>1 DEF Detections, Confidences
  <1>9. QED
    BY <1>3, <1>6, <1>7, <1>8

LEMMA ShebangDetects ==
  ASSUME NEW f, IsFile(f)
  PROVE  shebang_dialect(f) = <<>> \/ shebang_dialect(f) \in Detections
  <1> DEFINE of(k) == look_up(interpreters, f.shebang[k])
             known == {k \in DOMAIN f.shebang : of(k) # <<>>}
  <1>1. shebang_dialect(f) = IF known = {} THEN <<>> ELSE some(of(Max(known))[1], "High")
    BY DEF shebang_dialect
  <1>2. Len(f.shebang) \in Nat /\ DOMAIN f.shebang = 1..Len(f.shebang)
    BY SequenceIs DEF IsFile
  <1>3. CASE known # {}
    <2>1. Max(known) \in known
      <3>1. known \subseteq 1..Len(f.shebang)
        BY <1>2
      <3> HIDE DEF known
      <3>2. QED
        BY <1>2, <1>3, <3>1, LastOf
    <2> DEFINE v == of(Max(known))
    <2>2. v # <<>>
      BY <2>1
    <2>3. v = <<>> \/ \E row \in interpreters : v = row[2]
      BY LookedUp
    <2>4. \A row \in interpreters : row[2][1] \in Dialects
      BY AllIs DEF interpreters
    <2>5. v[1] \in Dialects
      BY <2>2, <2>3, <2>4
    <2>6. shebang_dialect(f) = some(v[1], "High")
      BY <1>1, <1>3
    <2> HIDE DEF v
    <2>7. QED
      BY <2>5, <2>6 DEF Detections, Confidences
  <1>4. QED
    BY <1>1, <1>3

LEMMA Detected ==
  ASSUME NEW f, IsFile(f)
  PROVE  detect(f) = <<>> \/ detect(f) \in Detections
  <1> DEFINE Fine(x) == x = <<>> \/ x \in Detections
  <1>1. \A a, b : Fine(a) /\ Fine(b) => Fine(Or(a, b))
    BY DEF Or
  <1>2. \A m : \A d \in Dialects : Fine(IF m \in f.content THEN some(d, "Low") ELSE <<>>)
    BY DEF Detections, Confidences
  <1>3. Fine(IF f.lang THEN some("Racket", "High") ELSE <<>>)
    BY AllIs DEF Detections, Confidences
  <1>4. Fine(shebang_dialect(f)) /\ Fine(extension_dialect(f))
    BY ShebangDetects, ExtensionDetects
  <1>5. {"Scheme", "CommonLisp", "EmacsLisp", "Clojure"} \subseteq Dialects
    BY AllIs
  <1> DEFINE sign(m, d) == IF m \in f.content THEN some(d, "Low") ELSE <<>>
  <1>6. /\ Fine(sign("library", "Scheme")) /\ Fine(sign("package", "CommonLisp"))
        /\ Fine(sign("emacs", "EmacsLisp")) /\ Fine(sign("ns", "Clojure"))
    BY <1>2, <1>5
  <1>7. content_dialect(f) = Or(sign("library", "Scheme"), Or(sign("package", "CommonLisp"),
                                Or(sign("emacs", "EmacsLisp"), sign("ns", "Clojure"))))
    BY DEF content_dialect
  <1> HIDE DEF Fine, sign
  <1>8. Fine(content_dialect(f))
    BY <1>1, <1>6, <1>7
  <1>9. Fine(detect(f))
    BY <1>1, <1>3, <1>4, <1>8 DEF detect
  <1>10. QED
    BY <1>9 DEF Fine

-----------------------------------------------------------------------------
(* The votes.                                                              *)

\* The files up to one that surely, probably, or perhaps are of a dialect.
Sure(files, d, c, n) == {k \in 1..n : detect(files[k]) = some(d, c)}
Votes(files, d, n) == 3 * Cardinality(Sure(files, d, "High", n)) + 2 * Cardinality(Sure(files, d, "Medium", n))
                        + Cardinality(Sure(files, d, "Low", n))

LEMMA SureIsFinite ==
  ASSUME NEW files, NEW d, NEW c, NEW n \in Nat
  PROVE  IsFiniteSet(Sure(files, d, c, n)) /\ Cardinality(Sure(files, d, c, n)) \in Nat
  <1>1. IsFiniteSet(1..n)
    BY FS_Interval
  <1>2. Sure(files, d, c, n) \subseteq 1..n
    BY DEF Sure
  <1>3. QED
    BY <1>1, <1>2, FS_Subset, FS_CardinalityType

LEMMA SureOfMore ==
  ASSUME NEW files, NEW d, NEW c, NEW n \in Nat
  PROVE  Cardinality(Sure(files, d, c, n + 1)) =
           IF detect(files[n + 1]) = some(d, c) THEN Cardinality(Sure(files, d, c, n)) + 1
           ELSE Cardinality(Sure(files, d, c, n))
  <1> DEFINE was == Sure(files, d, c, n)
             is  == Sure(files, d, c, n + 1)
  <1>1. IsFiniteSet(was) /\ n + 1 \notin was
    BY SureIsFinite DEF Sure
  <1>2. CASE detect(files[n + 1]) = some(d, c)
    <2>1. is = was \union {n + 1}
      BY <1>2 DEF Sure
    <2> HIDE DEF is, was
    <2>2. Cardinality(is) = Cardinality(was) + 1
      BY <1>1, <2>1, FS_AddElement
    <2>3. QED
      BY <1>2, <2>2 DEF is, was
  <1>3. CASE detect(files[n + 1]) # some(d, c)
    <2>1. is = was
      BY <1>3 DEF Sure
    <2>2. QED
      BY <1>3, <2>1
  <1>4. QED
    BY <1>2, <1>3

LEMMA SomeIsOne ==
  \A d, c, e, g : some(d, c) = some(e, g) => d = e /\ c = g
  BY DEF some

LEMMA VotesTyped ==
  ASSUME NEW files, NEW d, NEW n \in Nat
  PROVE  Votes(files, d, n) \in Nat
  <1>1. /\ Cardinality(Sure(files, d, "High", n)) \in Nat /\ Cardinality(Sure(files, d, "Medium", n)) \in Nat
        /\ Cardinality(Sure(files, d, "Low", n)) \in Nat
    BY SureIsFinite
  <1>2. QED
    BY <1>1 DEF Votes

\* A file adds the weight of what is detected of it to the votes of one dialect.
LEMMA VotesOfMore ==
  ASSUME NEW files, NEW n \in Nat, NEW d
  PROVE  /\ detect(files[n + 1]) = <<>> => Votes(files, d, n + 1) = Votes(files, d, n)
         /\ \A e : \A c \in Confidences : detect(files[n + 1]) = some(e, c) =>
              Votes(files, d, n + 1) = IF d = e THEN Votes(files, d, n) + confidence_weight[c] ELSE Votes(files, d, n)
  <1> DEFINE S(c, m) == Cardinality(Sure(files, d, c, m))
             found(c) == detect(files[n + 1]) = some(d, c)
  <1>1. \A c : S(c, n) \in Nat
    BY SureIsFinite
  <1>2. \A c : S(c, n + 1) = IF found(c) THEN S(c, n) + 1 ELSE S(c, n)
    BY SureOfMore
  <1>3. \A m : Votes(files, d, m) = 3 * S("High", m) + 2 * S("Medium", m) + S("Low", m)
    BY DEF Votes
  <1> HIDE DEF S
  <1>4. ASSUME detect(files[n + 1]) = <<>>
        PROVE  Votes(files, d, n + 1) = Votes(files, d, n)
    <2>1. \A c : ~found(c)
      BY <1>4 DEF some
    <2>2. QED
      BY <1>2, <1>3, <2>1
  <1>5. ASSUME NEW e, NEW c \in Confidences, detect(files[n + 1]) = some(e, c)
        PROVE  Votes(files, d, n + 1) = IF d = e THEN Votes(files, d, n) + confidence_weight[c] ELSE Votes(files, d, n)
    <2>1. \A g : found(g) <=> d = e /\ g = c
      BY <1>5, SomeIsOne
    <2>2. confidence_weight["High"] = 3 /\ confidence_weight["Medium"] = 2 /\ confidence_weight["Low"] = 1
      BY DEF confidence_weight
    <2> HIDE DEF found
    <2>3. CASE d # e
      BY <1>2, <1>3, <2>1, <2>3
    <2>4. CASE d = e /\ c = "High"
      <3>1. S("High", n + 1) = S("High", n) + 1 /\ S("Medium", n + 1) = S("Medium", n) /\ S("Low", n + 1) = S("Low", n)
        BY <1>2, <2>1, <2>4
      <3>2. QED
        BY <1>1, <1>3, <2>2, <2>4, <3>1
    <2>5. CASE d = e /\ c = "Medium"
      <3>1. S("High", n + 1) = S("High", n) /\ S("Medium", n + 1) = S("Medium", n) + 1 /\ S("Low", n + 1) = S("Low", n)
        BY <1>2, <2>1, <2>5
      <3>2. QED
        BY <1>1, <1>3, <2>2, <2>5, <3>1
    <2>6. CASE d = e /\ c = "Low"
      <3>1. S("High", n + 1) = S("High", n) /\ S("Medium", n + 1) = S("Medium", n) /\ S("Low", n + 1) = S("Low", n) + 1
        BY <1>2, <2>1, <2>6
      <3>2. QED
        BY <1>1, <1>3, <2>2, <2>6, <3>1
    <2>7. QED
      BY <2>3, <2>4, <2>5, <2>6 DEF Confidences
  <1>6. QED
    BY <1>4, <1>5

LEMMA NoVotesYet ==
  ASSUME NEW files, NEW d
  PROVE  Votes(files, d, 0) = 0
  <1>1. \A c : Sure(files, d, c, 0) = {}
    BY DEF Sure
  <1>2. Cardinality({}) = 0
    BY FS_EmptySet
  <1>3. Votes(files, d, 0) = 3 * Cardinality({}) + 2 * Cardinality({}) + Cardinality({})
    BY <1>1 DEF Votes
  <1>4. QED
    BY <1>2, <1>3

\* The scores are the votes of the first n files, a dialect at a time.
Scores == [dialect : Dialects, score : Nat]
Tallied(sc, files, n) ==
  /\ sc \in Seq(Scores)
  /\ \A k, e \in DOMAIN sc : sc[k].dialect = sc[e].dialect => k = e
  /\ \A k \in DOMAIN sc : sc[k].score = Votes(files, sc[k].dialect, n) /\ sc[k].score > 0
  /\ \A d : Votes(files, d, n) > 0 => \E k \in DOMAIN sc : sc[k].dialect = d

LEMMA VoteTallies ==
  ASSUME NEW sc, NEW files, NEW n \in Nat, Tallied(sc, files, n), IsFile(files[n + 1])
  PROVE  Tallied(vote(sc, files[n + 1]), files, n + 1)
  <1> DEFINE f == files[n + 1]
             new == vote(sc, f)
             V(d) == Votes(files, d, n)
             W(d) == Votes(files, d, n + 1)
  <1>1. \A d : V(d) \in Nat
    BY VotesTyped
  <1>2. /\ sc \in Seq(Scores)
        /\ \A k, e \in DOMAIN sc : sc[k].dialect = sc[e].dialect => k = e
        /\ \A k \in DOMAIN sc : sc[k].score = V(sc[k].dialect) /\ sc[k].score > 0
        /\ \A d : V(d) > 0 => \E k \in DOMAIN sc : sc[k].dialect = d
    BY DEF Tallied
  <1>3. CASE detect(f) = <<>>
    <2>1. new = sc
      BY <1>3 DEF vote
    <2>2. \A d : W(d) = V(d)
      BY <1>3, VotesOfMore
    <2>3. QED
      BY <1>2, <2>1, <2>2 DEF Tallied
  <1>4. CASE detect(f) # <<>>
    <2>1. PICK d \in Dialects, c \in Confidences : detect(f) = some(d, c)
      BY <1>4, Detected DEF Detections
    <2> DEFINE weight == confidence_weight[c]
               I == {x \in 1..Len(sc) : sc[x].dialect = d}
    <2>2. weight \in 1..3
      BY DEF confidence_weight, Confidences
    <2>3. \A e : W(e) = IF d = e THEN V(e) + weight ELSE V(e)
      <3> TAKE e
      <3>1. \A g : \A h \in Confidences : detect(files[n + 1]) = some(g, h) =>
              Votes(files, e, n + 1) = IF e = g THEN Votes(files, e, n) + confidence_weight[h] ELSE Votes(files, e, n)
        BY VotesOfMore
      <3>2. QED
        BY <2>1, <3>1
    <2>4. detect(f)[1].dialect = d /\ detect(f)[1].confidence = c
      BY <2>1 DEF some
    <2>5. new = LET k == IF I # {} THEN Min(I) ELSE 0
                IN  IF k > 0 THEN [sc EXCEPT ![k].score = @ + weight]
                    ELSE Append(sc, [dialect |-> d, score |-> weight])
      BY <1>4, <2>4 DEF vote, SelectInSeq
    <2>6. Len(sc) \in Nat /\ DOMAIN sc = 1..Len(sc) /\ \A k \in DOMAIN sc : sc[k] \in Scores
      BY <1>2
    <2> HIDE DEF weight, new, V, W
    <2>7. CASE I # {}
      <3> DEFINE m == Min(I)
      <3>1. m \in I
        <4>1. I \subseteq Nat
          OBVIOUS
        <4> HIDE DEF I
        <4>2. QED
          BY <2>7, <4>1, FirstOf
      <3>2. m \in DOMAIN sc /\ sc[m].dialect = d /\ m > 0
        BY <2>6, <3>1
      <3>3. new = [sc EXCEPT ![m].score = @ + weight]
        BY <2>5, <2>7, <3>2
      <3> HIDE DEF m, I
      <3> DEFINE r == [sc[m] EXCEPT !.score = @ + weight]
      <3>4. /\ DOMAIN new = DOMAIN sc /\ new = [sc EXCEPT ![m] = r]
            /\ \A k \in DOMAIN sc : new[k] = IF k = m THEN r ELSE sc[k]
        BY <2>6, <3>2, <3>3
      <3>5. r \in Scores /\ r.dialect = d /\ r.score = sc[m].score + weight
        BY <2>2, <2>6, <3>2 DEF Scores
      <3> HIDE DEF r
      <3>6. new \in Seq(Scores)
        BY <1>2, <2>6, <3>2, <3>4, <3>5
      <3>7. \A k \in DOMAIN new : new[k].dialect = sc[k].dialect
        BY <3>2, <3>4, <3>5
      <3>8. \A k \in DOMAIN new : new[k].score = W(new[k].dialect) /\ new[k].score > 0
        <4> TAKE k \in DOMAIN new
        <4>1. CASE k = m
          BY <1>1, <1>2, <2>2, <2>3, <3>2, <3>4, <3>5, <4>1
        <4>2. CASE k # m
          <5>1. new[k] = sc[k] /\ sc[k].dialect # d
            BY <1>2, <3>2, <3>4, <4>2
          <5>2. QED
            BY <1>2, <2>3, <3>4, <5>1
        <4>3. QED
          BY <4>1, <4>2
      <3>9. \A e : W(e) > 0 => \E k \in DOMAIN new : new[k].dialect = e
        BY <1>1, <1>2, <2>3, <3>2, <3>4, <3>7
      <3>10. QED
        BY <1>2, <3>4, <3>6, <3>7, <3>8, <3>9 DEF Tallied, new, W
    <2>8. CASE I = {}
      <3> DEFINE r == [dialect |-> d, score |-> weight]
                 l == Len(sc)
      <3>1. new = Append(sc, r)
        BY <2>5, <2>8
      <3>2. r \in Scores /\ r.dialect = d /\ r.score = weight
        BY <2>2 DEF Scores
      <3>3. \A k \in DOMAIN sc : sc[k].dialect # d
        BY <2>6, <2>8
      <3> HIDE DEF r, I
      <3>4. /\ new \in Seq(Scores) /\ DOMAIN new = 1..l + 1 /\ new[l + 1] = r
            /\ \A k \in 1..l : new[k] = sc[k]
        BY <1>2, <2>6, <3>1, <3>2
      <3>5. V(d) = 0
        BY <1>1, <1>2, <3>3
      <3> HIDE DEF l
      <3>6. l \in Nat /\ DOMAIN sc = 1..l /\ \A k \in DOMAIN new : k = l + 1 \/ k \in DOMAIN sc
        BY <2>6, <3>4 DEF l
      <3>7. \A k, e \in DOMAIN new : new[k].dialect = new[e].dialect => k = e
        BY <1>2, <3>2, <3>3, <3>4, <3>6
      <3>8. \A k \in DOMAIN new : new[k].score = W(new[k].dialect) /\ new[k].score > 0
        <4> TAKE k \in DOMAIN new
        <4>1. CASE k = l + 1
          BY <2>2, <2>3, <3>2, <3>4, <3>5, <4>1
        <4>2. CASE k \in DOMAIN sc
          BY <1>2, <2>3, <3>3, <3>4, <3>6, <4>2
        <4>3. QED
          BY <3>6, <4>1, <4>2
      <3>9. \A e : W(e) > 0 => \E k \in DOMAIN new : new[k].dialect = e
        <4> TAKE e
        <4>1. CASE e = d
          <5>1. l + 1 \in DOMAIN new /\ new[l + 1].dialect = d
            BY <3>2, <3>4, <3>6
          <5>2. QED
            BY <4>1, <5>1
        <4>2. CASE e # d
          BY <1>2, <2>3, <3>4, <3>6, <4>2
        <4>3. QED
          BY <4>1, <4>2
      <3>10. QED
        BY <3>4, <3>7, <3>8, <3>9 DEF Tallied, new, W
    <2>9. QED
      BY <2>7, <2>8
  <1>5. QED
    BY <1>3, <1>4

\* Iterator::max_by finds one that is not less than any other.
LEMMA BestIs ==
  ASSUME NEW sc \in Seq(Scores), sc # <<>>
  PROVE  \E m \in DOMAIN sc : argmax(sc) = sc[m] /\ \A e \in DOMAIN sc : ~ less(sc[m], sc[e])
  <1> DEFINE l == Len(sc)
             Best(k, n) == \A e \in 1..n : ~ less(sc[k], sc[e])
             K == {k \in DOMAIN sc : \A e \in DOMAIN sc : ~ less(sc[k], sc[e])}
             A == {n \in 0..l : n = 0 \/ \E k \in 1..n : Best(k, n)}
  <1>1. l \in Nat /\ l > 0 /\ DOMAIN sc = 1..l /\ \A k \in 1..l : sc[k] \in Scores
    OBVIOUS
  <1> HIDE DEF l
  <1>2. \A k \in 1..l : sc[k].score \in Nat /\ all_index(sc[k].dialect) \in Nat
    <2> TAKE k \in 1..l
    <2>1. sc[k].score \in Nat /\ sc[k].dialect \in Dialects
      BY <1>1 DEF Scores
    <2>2. all_index(sc[k].dialect) \in 1..19
      BY <2>1, IndexIs, AllIs
    <2>3. QED
      BY <2>1, <2>2
  <1>3. \A a, b, c \in 1..l : ~less(sc[a], sc[b]) /\ ~less(sc[b], sc[c]) => ~less(sc[a], sc[c])
    BY <1>2 DEF less
  <1>4. \A a, b \in 1..l : ~less(sc[a], sc[b]) \/ ~less(sc[b], sc[a])
    BY <1>2 DEF less
  <1>5. 0 \in A
    BY <1>1
  <1>6. ASSUME NEW n \in 1..l, n - 1 \in A
        PROVE  n \in A
    <2>1. n \in 0..l /\ n \in 1..n /\ ~less(sc[n], sc[n])
      BY <1>1, <1>4
    <2>2. CASE n = 1
      <3>1. Best(1, 1)
        BY <2>1, <2>2
      <3> HIDE DEF Best
      <3>2. QED
        BY <2>1, <2>2, <3>1
    <2>3. CASE n # 1
      <3>1. PICK k \in 1..n - 1 : Best(k, n - 1)
        BY <1>6, <2>3
      <3>2. k \in 1..l /\ k \in 1..n /\ \A e \in 1..n : e \in 1..l /\ (e = n \/ e \in 1..n - 1)
        BY <1>1
      <3>3. CASE ~less(sc[k], sc[n])
        <4>1. Best(k, n)
          BY <3>1, <3>2, <3>3
        <4> HIDE DEF Best
        <4>2. QED
          BY <2>1, <3>2, <4>1
      <3>4. CASE less(sc[k], sc[n])
        <4>1. ~less(sc[n], sc[k])
          BY <1>4, <3>2, <3>4
        <4>2. Best(n, n)
          BY <1>3, <2>1, <3>1, <3>2, <4>1
        <4> HIDE DEF Best
        <4>3. QED
          BY <2>1, <4>2
      <3>5. QED
        BY <3>3, <3>4
    <2>4. QED
      BY <2>2, <2>3
  <1> HIDE DEF A
  <1>7. 0..l \subseteq A
    BY <1>1, <1>5, <1>6, Upwards
  <1>8. \E k \in 1..l : Best(k, l)
    <2>1. l \in A
      BY <1>1, <1>7
    <2> HIDE DEF Best
    <2>2. QED
      BY <1>1, <2>1 DEF A
  <1>9. K # {} /\ K \subseteq 1..l
    BY <1>1, <1>8
  <1>10. argmax(sc) = sc[Max(K)]
    BY DEF argmax
  <1>11. \A k \in K : k \in DOMAIN sc /\ \A e \in DOMAIN sc : ~ less(sc[k], sc[e])
    OBVIOUS
  <1> HIDE DEF K
  <1>12. Max(K) \in K
    BY <1>1, <1>9, LastOf
  <1>13. QED
    BY <1>10, <1>11, <1>12

\* The dialect with the most votes, and of those the first of Dialect::ALL.
Elected(files, n) ==
  LET votes   == [k \in DOMAIN ALL |-> Votes(files, ALL[k], n)]
      Leading == {k \in DOMAIN ALL : \A e \in DOMAIN ALL : votes[e] <= votes[k]}
  IN  IF \A k \in DOMAIN ALL : votes[k] = 0 THEN <<>>
      ELSE << ALL[CHOOSE k \in Leading : \A e \in Leading : k <= e] >>

LEMMA Counted ==
  ASSUME NEW sc, NEW files, NEW n \in Nat, Tallied(sc, files, n)
  PROVE  (IF sc = <<>> THEN <<>> ELSE <<argmax(sc).dialect>>) = Elected(files, n)
  <1> DEFINE votes == [k \in DOMAIN ALL |-> Votes(files, ALL[k], n)]
             Leading == {k \in DOMAIN ALL : \A e \in DOMAIN ALL : votes[e] <= votes[k]}
             first == CHOOSE k \in Leading : \A e \in Leading : k <= e
  <1>1. /\ sc \in Seq(Scores)
        /\ \A k \in DOMAIN sc : sc[k].score = Votes(files, sc[k].dialect, n) /\ sc[k].score > 0
        /\ \A d : Votes(files, d, n) > 0 => \E k \in DOMAIN sc : sc[k].dialect = d
    BY DEF Tallied
  <1>2. Elected(files, n) = IF \A k \in DOMAIN ALL : votes[k] = 0 THEN <<>> ELSE << ALL[first] >>
    BY DEF Elected
  <1>3. \A k \in DOMAIN ALL : votes[k] = Votes(files, ALL[k], n) /\ votes[k] \in Nat
    BY VotesTyped
  <1> DEFINE Typed(s) == s.score \in Nat /\ s.dialect \in Dialects
  <1>7. \A x \in DOMAIN sc : Typed(sc[x])
    <2>1. \A s \in Scores : Typed(s)
      BY DEF Scores
    <2> HIDE DEF Typed
    <2>2. QED
      BY <1>1, <2>1
  <1>4. CASE sc = <<>>
    <2>1. \A d : ~(Votes(files, d, n) > 0)
      BY <1>1, <1>4
    <2>2. \A k \in DOMAIN ALL : votes[k] = 0
      BY <1>3, <2>1
    <2>3. QED
      BY <1>2, <1>4, <2>2
  <1>5. CASE sc # <<>>
    <2>1. PICK m \in DOMAIN sc : argmax(sc) = sc[m] /\ \A e \in DOMAIN sc : ~ less(sc[m], sc[e])
      BY <1>1, <1>5, BestIs
    <2> DEFINE d == sc[m].dialect
               j == all_index(d)
    <2>2. d \in Dialects /\ sc[m].score \in Nat
      BY <1>7
    <2>3. j \in DOMAIN ALL /\ ALL[j] = d /\ DOMAIN ALL = 1..19
      BY <2>2, IndexIs, AllIs
    <2>4. votes[j] = sc[m].score /\ votes[j] > 0
      BY <1>1, <1>3, <2>3
    <2>5. \A x \in DOMAIN sc : /\ sc[x].score \in Nat /\ all_index(sc[x].dialect) \in 1..19
                               /\ sc[x].score <= sc[m].score
                               /\ sc[x].score = sc[m].score => j <= all_index(sc[x].dialect)
      <3> TAKE x \in DOMAIN sc
      <3>1. sc[x].score \in Nat /\ sc[x].dialect \in Dialects
        BY <1>7
      <3>2. all_index(sc[x].dialect) \in 1..19
        BY <3>1, IndexIs, AllIs
      <3>3. QED
        BY <2>1, <2>2, <2>3, <3>1, <3>2 DEF less
    <2>6. \A e \in DOMAIN ALL : /\ votes[e] <= votes[j]
                                /\ votes[e] = votes[j] => j <= e
      <3> TAKE e \in DOMAIN ALL
      <3>1. CASE votes[e] = 0
        <4>1. votes[j] > 0 /\ votes[j] \in Nat
          BY <1>3, <2>3, <2>4
        <4> HIDE DEF votes, j
        <4>2. votes[e] <= votes[j] /\ votes[e] # votes[j]
          BY <3>1, <4>1
        <4>3. QED
          BY <4>2
      <3>2. CASE votes[e] # 0
        <4>1. votes[e] > 0
          BY <1>3, <3>2
        <4>2. PICK x \in DOMAIN sc : sc[x].dialect = ALL[e]
          BY <1>1, <1>3, <4>1
        <4>3. votes[e] = sc[x].score
          BY <1>1, <1>3, <4>2
        <4>4. ALL[e] \in Dialects
          BY DEF Dialects
        <4>5. all_index(ALL[e]) <= e /\ all_index(ALL[e]) \in DOMAIN ALL
          BY <4>4, IndexIs
        <4> HIDE DEF votes
        <4>6. QED
          BY <2>3, <2>4, <2>5, <4>2, <4>3, <4>5
      <3>3. QED
        BY <3>1, <3>2
    <2> HIDE DEF d, j, votes
    <2>7. j \in Leading
      BY <2>3, <2>6
    <2>8. \A e \in Leading : j <= e
      <3> TAKE e \in Leading
      <3>1. e \in DOMAIN ALL /\ votes[j] <= votes[e]
        BY <2>3
      <3>2. votes[e] = votes[j]
        BY <1>3, <2>3, <2>6, <3>1
      <3>3. QED
        BY <2>6, <3>1, <3>2
    <2>9. \A e \in Leading : e \in 1..19
      BY <2>3
    <2> HIDE DEF Leading
    <2>10. first = j
      <3>1. \A k \in Leading : (\A e \in Leading : k <= e) => k = j
        BY <2>7, <2>8, <2>9
      <3>2. QED
        BY <2>7, <2>8, <3>1
    <2>11. ~(\A k \in DOMAIN ALL : votes[k] = 0)
      BY <2>3, <2>4
    <2> HIDE DEF first
    <2>12. Elected(files, n) = << ALL[first] >>
      BY <1>2, <2>11
    <2>13. argmax(sc).dialect = d
      BY <2>1 DEF d
    <2>14. QED
      BY <1>5, <2>3, <2>10, <2>12, <2>13
  <1>6. QED
    BY <1>4, <1>5

\* The votes are those of the files so far, and what was decided follows from them.
VInv ==
  /\ project \in Projects
  /\ pc = "votes" => i \in 1..Len(project.files) + 1 /\ Tallied(scores, project.files, i - 1)
  /\ pc = "header" => dialect = Elected(project.files, Len(project.files))

LEMMA VInvInit == Init => VInv
  <1> SUFFICES ASSUME Init
               PROVE  VInv
    OBVIOUS
  <1>1. project \in Projects /\ pc = "votes" /\ i = 1 /\ scores = <<>>
    BY DEF Init
  <1>2. Len(project.files) \in Nat
    BY <1>1, SettingsAssumption, SequenceIs DEF IsProject
  <1>3. Tallied(scores, project.files, 0)
    <2>1. \A d : Votes(project.files, d, 0) = 0
      BY NoVotesYet
    <2>2. <<>> \in Seq(Scores) /\ DOMAIN scores = {}
      BY <1>1
    <2>3. QED
      BY <1>1, <2>1, <2>2 DEF Tallied
  <1>4. i - 1 = 0 /\ i \in 1..Len(project.files) + 1
    BY <1>1, <1>2
  <1>5. QED
    BY <1>1, <1>3, <1>4 DEF VInv

LEMMA VInvStep == VInv /\ [Next]_vars => VInv'
  <1> SUFFICES ASSUME VInv, [Next]_vars
               PROVE  VInv'
    OBVIOUS
  <1> DEFINE files == project.files
  <1>1. project \in Projects
    BY DEF VInv
  <1>2. /\ Len(files) \in Nat /\ DOMAIN files = 1..Len(files)
        /\ \A k \in DOMAIN files : IsFile(files[k])
    BY <1>1, SettingsAssumption, SequenceIs DEF IsProject
  <1>3. CASE Vote
    <2>1. /\ pc = "votes" /\ pc' = "votes" /\ project' = project /\ i <= Len(files)
          /\ scores' = vote(scores, files[i]) /\ i' = i + 1
      BY <1>3 DEF Vote
    <2>2. i \in 1..Len(files) + 1 /\ Tallied(scores, files, i - 1)
      BY <2>1 DEF VInv
    <2> HIDE DEF files
    <2>3. PICK n \in Nat : n = i - 1 /\ n + 1 = i /\ n + 1 \in DOMAIN files /\ i' = n + 2
      BY <1>2, <2>1, <2>2
    <2>4. Tallied(vote(scores, files[n + 1]), files, n + 1)
      BY <1>2, <2>2, <2>3, VoteTallies
    <2>5. Tallied(scores', files, i' - 1) /\ i' \in 1..Len(files) + 1
      <3>1. i' - 1 = n + 1
        BY <2>3
      <3>2. i' \in 1..Len(files) + 1
        BY <1>2, <2>1, <2>2
      <3>3. QED
        BY <2>1, <2>3, <2>4, <3>1, <3>2
    <2>6. QED
      BY <1>1, <2>1, <2>5 DEF VInv, files
  <1>4. CASE Decide
    <2>1. /\ pc = "votes" /\ pc' = "header" /\ project' = project /\ i > Len(files)
          /\ dialect' = IF scores = <<>> THEN <<>> ELSE <<argmax(scores).dialect>>
      BY <1>4 DEF Decide
    <2>2. i \in 1..Len(files) + 1 /\ Tallied(scores, files, i - 1)
      BY <2>1 DEF VInv
    <2>3. i - 1 = Len(files)
      BY <1>2, <2>1, <2>2
    <2>4. (IF scores = <<>> THEN <<>> ELSE <<argmax(scores).dialect>>) = Elected(files, Len(files))
      <3> HIDE DEF files
      <3>1. QED
        BY <1>2, <2>2, <2>3, Counted
    <2>5. QED
      BY <1>1, <2>1, <2>4 DEF VInv
  <1>5. CASE ReadHeader
    <2>1. project' = project /\ pc' \in {"elements", "footer"}
      BY <1>5 DEF ReadHeader
    <2>2. QED
      BY <1>1, <2>1 DEF VInv
  <1>6. CASE ReadLine
    BY <1>1, <1>6 DEF ReadLine, VInv
  <1>7. CASE EndBlock
    BY <1>1, <1>7 DEF EndBlock, VInv
  <1>8. CASE Collect
    BY <1>1, <1>8 DEF Collect, VInv
  <1>9. CASE Resolve
    BY <1>1, <1>9 DEF Resolve, VInv
  <1>10. CASE UNCHANGED vars
    BY <1>10 DEF vars, VInv
  <1>11. QED
    BY <1>3, <1>4, <1>5, <1>6, <1>7, <1>8, <1>9, <1>10 DEF Next

\* The dialect of a project is the one with the most votes, and the first of
\* Dialect::ALL among those: the order of its files is nothing to it.
THEOREM OrderOfFilesIsNothing == Spec => []VotesOrderFree
  <1>1. Init => VInv
    BY VInvInit
  <1>2. VInv /\ [Next]_vars => VInv'
    BY VInvStep
  <1>3. VInv => VotesOrderFree
    <2> SUFFICES ASSUME VInv, pc = "header"
                 PROVE  VotesOrderFree
      BY DEF VotesOrderFree
    <2>1. DOMAIN project.files = 1..Len(project.files)
      BY SettingsAssumption, SequenceIs DEF IsProject, VInv
    <2>2. \A d : VotesFor(d) = Votes(project.files, d, Len(project.files))
      BY <2>1 DEF VotesFor, Votes, Sure
    <2>3. dialect = Elected(project.files, Len(project.files))
      BY DEF VInv
    <2>4. QED
      BY <2>2, <2>3, Zenon DEF VotesOrderFree, Elected
  <1>4. QED
    BY <1>1, <1>2, <1>3, PTL DEF Spec

-----------------------------------------------------------------------------
(* The directory-local variables.                                          *)

Has(s, x) == \E k \in DOMAIN s : s[k] = x

LEMMA HasAppended ==
  ASSUME NEW S, NEW a \in Seq(S), NEW b \in Seq(S), NEW x
  PROVE  Has(a \o b, x) <=> Has(a, x) \/ Has(b, x)
  <1> DEFINE c == a \o b
  <1>1. /\ DOMAIN c = 1..Len(a) + Len(b) /\ Len(a) \in Nat /\ Len(b) \in Nat
        /\ DOMAIN a = 1..Len(a) /\ DOMAIN b = 1..Len(b)
    OBVIOUS
  <1>2. \A k \in 1..Len(a) : c[k] = a[k]
    OBVIOUS
  <1>3. \A k \in 1..Len(b) : c[Len(a) + k] = b[k]
    OBVIOUS
  <1> HIDE DEF c
  <1>4. Has(a, x) => Has(c, x)
    BY <1>1, <1>2 DEF Has
  <1>5. ASSUME Has(b, x)
        PROVE  Has(c, x)
    <2>1. PICK k \in 1..Len(b) : b[k] = x
      BY <1>1, <1>5 DEF Has
    <2>2. Len(a) + k \in DOMAIN c /\ c[Len(a) + k] = x
      BY <1>1, <1>3, <2>1
    <2>3. QED
      BY <2>2 DEF Has
  <1>6. ASSUME Has(c, x)
        PROVE  Has(a, x) \/ Has(b, x)
    <2>1. PICK k \in DOMAIN c : c[k] = x
      BY <1>6 DEF Has
    <2>2. CASE k <= Len(a)
      <3>1. k \in 1..Len(a)
        BY <1>1, <2>2
      <3>2. QED
        BY <1>1, <1>2, <2>1, <3>1 DEF Has
    <2>3. CASE k > Len(a)
      <3>1. PICK n \in 1..Len(b) : Len(a) + n = k
        <4>1. k - Len(a) \in 1..Len(b) /\ Len(a) + (k - Len(a)) = k
          BY <1>1, <2>3
        <4>2. QED
          BY <4>1
      <3>2. b[n] = x
        BY <1>3, <2>1, <3>1
      <3>3. QED
        BY <1>1, <3>2 DEF Has
    <2>4. QED
      BY <1>1, <2>2, <2>3
  <1>7. QED
    BY <1>4, <1>5, <1>6 DEF c

LEMMA HasFlat ==
  ASSUME NEW S, NEW pieces \in Seq(Seq(S)), NEW x
  PROVE  Has(FlattenSeq(pieces), x) <=> \E k \in DOMAIN pieces : Has(pieces[k], x)
  <1> DEFINE l == Len(pieces)
  <1>1. l \in Nat /\ DOMAIN pieces = 1..l
    OBVIOUS
  <1>2. PICK f : Gathers(f, pieces, S)
    BY Gathered
  <1>3. \A n \in 1..l : f[n - 1] \in Seq(S) /\ pieces[n] \in Seq(S) /\ f[n] = f[n - 1] \o pieces[n]
    BY <1>2, GatherStep
  <1> DEFINE A == {n \in 0..l : Has(f[n], x) <=> \E k \in 1..n : Has(pieces[k], x)}
  <1>4. 0 \in A
    <2>1. ~ Has(f[0], x)
      BY <1>2 DEF Gathers, Has
    <2>2. QED
      BY <1>1, <2>1
  <1> HIDE DEF l
  <1>5. ASSUME NEW n \in 1..l, n - 1 \in A
        PROVE  n \in A
    <2>1. Has(f[n], x) <=> Has(f[n - 1], x) \/ Has(pieces[n], x)
      <3>1. PICK a \in Seq(S), b \in Seq(S) : a = f[n - 1] /\ b = pieces[n] /\ f[n] = a \o b
        BY <1>3
      <3>2. Has(a \o b, x) <=> Has(a, x) \/ Has(b, x)
        BY HasAppended
      <3>3. QED
        BY <3>1, <3>2
    <2>2. Has(f[n - 1], x) <=> \E k \in 1..n - 1 : Has(pieces[k], x)
      BY <1>5
    <2>3. n \in 0..l /\ \A k : k \in 1..n <=> k \in 1..n - 1 \/ k = n
      BY <1>1
    <2>4. QED
      BY <2>1, <2>2, <2>3
  <1> HIDE DEF A
  <1>6. 0..l \subseteq A
    BY <1>1, <1>4, <1>5, Upwards
  <1>7. l \in A
    BY <1>1, <1>6
  <1>8. Has(f[l], x) <=> \E k \in 1..l : Has(pieces[k], x)
    BY <1>7 DEF A
  <1>9. QED
    BY <1>1, <1>2, <1>8 DEF l, Gathers

\* The pieces in the order of what their elements are sorted by.
LEMMA FlatSorted ==
  ASSUME NEW S, NEW pieces \in Seq(Seq(S)), NEW rank \in [S -> Nat],
         \A n \in DOMAIN pieces : \A q \in DOMAIN pieces[n] : rank[pieces[n][q]] = n
  PROVE  \A a, b \in DOMAIN FlattenSeq(pieces) :
           a <= b => rank[FlattenSeq(pieces)[a]] <= rank[FlattenSeq(pieces)[b]]
  <1> DEFINE l == Len(pieces)
  <1>1. l \in Nat /\ DOMAIN pieces = 1..l
    OBVIOUS
  <1>2. PICK f : Gathers(f, pieces, S)
    BY Gathered
  <1>3. \A n \in 1..l : f[n - 1] \in Seq(S) /\ pieces[n] \in Seq(S) /\ f[n] = f[n - 1] \o pieces[n]
    BY <1>2, GatherStep
  <1> DEFINE Below(s, n) == \A a \in DOMAIN s : rank[s[a]] \in 0..n
             Sorted(s) == \A a, b \in DOMAIN s : a <= b => rank[s[a]] <= rank[s[b]]
             A == {n \in 0..l : Below(f[n], n) /\ Sorted(f[n])}
  <1>4. 0 \in A
    <2>1. DOMAIN f[0] = {}
      BY <1>2 DEF Gathers
    <2>2. QED
      BY <1>1, <2>1
  <1>5. ASSUME NEW n \in 1..l, n - 1 \in A
        PROVE  n \in A
    <2>1. PICK a \in Seq(S), b \in Seq(S) : a = f[n - 1] /\ b = pieces[n] /\ f[n] = a \o b
      BY <1>3
    <2> DEFINE c == a \o b
    <2>2. /\ DOMAIN c = 1..Len(a) + Len(b) /\ Len(a) \in Nat /\ Len(b) \in Nat
          /\ DOMAIN a = 1..Len(a) /\ DOMAIN b = 1..Len(b)
      OBVIOUS
    <2>3. \A k \in 1..Len(a) : c[k] = a[k]
      OBVIOUS
    <2>4. \A k \in 1..Len(b) : c[Len(a) + k] = b[k]
      OBVIOUS
    <2> HIDE DEF c
    <2>5. \A k \in 1..Len(a) : rank[a[k]] \in 0..n - 1
      BY <1>5, <2>1, <2>2
    <2>6. \A k, m \in 1..Len(a) : k <= m => rank[a[k]] <= rank[a[m]]
      BY <1>5, <2>1, <2>2
    <2>7. \A k \in 1..Len(b) : rank[b[k]] = n
      BY <1>1, <2>1, <2>2
    <2>8. \A k \in DOMAIN c : \/ k \in 1..Len(a) /\ rank[c[k]] = rank[a[k]]
                              \/ k > Len(a) /\ rank[c[k]] = n
      <3> TAKE k \in DOMAIN c
      <3>1. CASE k <= Len(a)
        BY <2>2, <2>3, <3>1
      <3>2. CASE k > Len(a)
        <4>1. k - Len(a) \in 1..Len(b) /\ Len(a) + (k - Len(a)) = k
          BY <2>2, <3>2
        <4>2. c[Len(a) + (k - Len(a))] = b[k - Len(a)]
          BY <2>4, <4>1
        <4>3. QED
          BY <2>7, <3>2, <4>1, <4>2
      <3>3. QED
        BY <2>2, <3>1, <3>2
    <2>9. Below(c, n)
      <3>1. n \in Nat /\ n >= 1
        BY <1>1
      <3> TAKE k \in DOMAIN c
      <3>2. CASE k \in 1..Len(a) /\ rank[c[k]] = rank[a[k]]
        <4>1. rank[a[k]] \in 0..n - 1
          BY <2>5, <3>2
        <4>2. QED
          BY <3>1, <3>2, <4>1
      <3>3. CASE rank[c[k]] = n
        BY <3>1, <3>3
      <3>4. QED
        BY <2>8, <3>2, <3>3
    <2>10. Sorted(c)
      <3> TAKE k, m \in DOMAIN c
      <3> HAVE k <= m
      <3>1. CASE m > Len(a) /\ rank[c[m]] = n
        <4>1. rank[c[k]] \in 0..n
          BY <2>9
        <4>2. QED
          BY <3>1, <4>1
      <3>2. CASE m \in 1..Len(a) /\ rank[c[m]] = rank[a[m]]
        <4>1. k \in 1..Len(a) /\ rank[c[k]] = rank[a[k]]
          BY <2>2, <2>8, <3>2
        <4>2. QED
          BY <2>6, <3>2, <4>1
      <3>3. QED
        BY <2>8, <3>1, <3>2
    <2> HIDE DEF Below, Sorted
    <2>11. n \in 0..l /\ f[n] = c
      BY <1>1, <2>1 DEF c
    <2>12. QED
      BY <2>9, <2>10, <2>11
  <1> HIDE DEF A
  <1>6. 0..l \subseteq A
    BY <1>1, <1>4, <1>5, Upwards
  <1>7. l \in A
    BY <1>1, <1>6
  <1>8. Sorted(f[l])
    BY <1>7 DEF A
  <1>9. FlattenSeq(pieces) = f[l]
    BY <1>2 DEF Gathers
  <1>10. QED
    BY <1>8, <1>9

LEMMA LastPiece ==
  ASSUME NEW S, NEW pieces \in Seq(Seq(S)), NEW field, NEW x
  PROVE  \/ /\ LastIn(FlattenSeq(pieces), field, x) = <<>>
            /\ \A n \in DOMAIN pieces : LastIn(pieces[n], field, x) = <<>>
         \/ \E k \in DOMAIN pieces :
              /\ LastIn(pieces[k], field, x) # <<>>
              /\ LastIn(FlattenSeq(pieces), field, x) = LastIn(pieces[k], field, x)
              /\ \A n \in DOMAIN pieces : LastIn(pieces[n], field, x) # <<>> => n <= k
  <1> DEFINE K == {n \in DOMAIN pieces : LastIn(pieces[n], field, x) # <<>>}
  <1>1. K \subseteq 1..Len(pieces) /\ Len(pieces) \in Nat
    OBVIOUS
  <1>2. CASE K = {}
    <2>1. \A n \in DOMAIN pieces : LastIn(pieces[n], field, x) = <<>>
      BY <1>2
    <2>2. QED
      BY <2>1, LastInFlatNone
  <1>3. CASE K # {}
    <2>1. \E k \in K : \A n \in K : n <= k
      <3> HIDE DEF K
      <3>1. Max(K) \in K /\ \A n \in K : Max(K) >= n
        BY <1>1, <1>3, LastOf
      <3>2. \A n \in K : n \in Nat
        BY <1>1
      <3>3. QED
        BY <3>1, <3>2
    <2>2. PICK k \in K : \A n \in K : n <= k
      BY <2>1
    <2>3. k \in DOMAIN pieces /\ LastIn(pieces[k], field, x) # <<>>
      OBVIOUS
    <2>4. \A n \in DOMAIN pieces : LastIn(pieces[n], field, x) # <<>> => n <= k
      BY <2>2
    <2>5. LastIn(FlattenSeq(pieces), field, x) = LastIn(pieces[k], field, x)
      BY <2>3, <2>4, LastInFlat
    <2>6. QED
      BY <2>3, <2>4, <2>5
  <1>4. QED
    BY <1>2, <1>3

-----------------------------------------------------------------------------
(* The bindings of the groups of one directory.                            *)

IsGroup(g) ==
  /\ IsSequence(g.vars)
  /\ g.subdir = <<>> \/ \E dir : g.subdir = <<dir>> /\ IsSequence(dir.path)
IsGroups(es) == IsSequence(es) /\ \A e \in DOMAIN es : IsGroup(es[e])

\* The binding p of group e is one of a variable, for some directory and mode.
Binds(es, scope, md, c, e, p) ==
  /\ e \in DOMAIN es /\ p \in DOMAIN es[e].vars
  /\ es[e].subdir = scope /\ es[e].mode = md /\ es[e].vars[p].name = c
Before(f, q, e, p) == f < e \/ (f = e /\ q <= p)

AllVars(es) == UNION {{es[e].vars[p] : p \in DOMAIN es[e].vars} : e \in DOMAIN es}

LEMMA EmitSays ==
  ASSUME NEW es, IsGroups(es), NEW scope, NEW md, NEW c
  PROVE  LET last == LastIn(emit(es, scope, md), "name", c) IN
         /\ emit(es, scope, md) \in Seq(AllVars(es))
         /\ last = <<>> => \A e, p : ~ Binds(es, scope, md, c, e, p)
         /\ last # <<>> => \E e, p : /\ Binds(es, scope, md, c, e, p) /\ last = <<es[e].vars[p]>>
                                     /\ \A f, q : Binds(es, scope, md, c, f, q) => Before(f, q, e, p)
  <1> DEFINE Fits(k) == es[k].subdir = scope /\ es[k].mode = md
             pieces == [k \in DOMAIN es |-> IF Fits(k) THEN es[k].vars ELSE <<>>]
             S == AllVars(es)
             last == LastIn(emit(es, scope, md), "name", c)
             L(k) == LastIn(pieces[k], "name", c)
  <1>1. Len(es) \in Nat /\ DOMAIN es = 1..Len(es)
    BY SequenceIs DEF IsGroups
  <1>2. \A k \in DOMAIN es : es[k].vars \in Seq(S)
    <2> TAKE k \in DOMAIN es
    <2> DEFINE vs == es[k].vars
    <2>1. IsSequence(vs)
      BY DEF IsGroups, IsGroup
    <2>2. {vs[p] : p \in DOMAIN vs} \subseteq S
      BY DEF AllVars
    <2> HIDE DEF vs, S
    <2>3. vs \in Seq({vs[p] : p \in DOMAIN vs})
      BY <2>1 DEF IsSequence
    <2> DEFINE R == {vs[p] : p \in DOMAIN vs}
    <2> HIDE DEF R
    <2>4. vs \in Seq(S)
      BY <2>2, <2>3 DEF R
    <2>5. QED
      BY <2>4 DEF vs
  <1>3. /\ \A k \in DOMAIN es : Fits(k) => pieces[k] = es[k].vars
        /\ \A k \in DOMAIN es : ~Fits(k) => pieces[k] = <<>>
        /\ DOMAIN pieces = DOMAIN es
    OBVIOUS
  <1>4. emit(es, scope, md) = FlattenSeq(pieces)
    BY DEF emit
  <1> HIDE DEF S, pieces
  <1>5. \A k \in DOMAIN es : pieces[k] \in Seq(S)
    <2>1. <<>> \in Seq(S)
      OBVIOUS
    <2>2. QED
      BY <1>2, <1>3, <2>1
  <1>6. pieces \in [1..Len(es) -> Seq(S)]
    <2>1. pieces = [k \in DOMAIN es |-> pieces[k]]
      BY DEF pieces
    <2>2. QED
      BY <1>1, <1>5, <2>1
  <1>7. pieces \in Seq(Seq(S))
    BY <1>1, <1>6
  <1>8. emit(es, scope, md) \in Seq(S)
    BY <1>4, <1>7, FlatTyped
  <1>9. \A e, p : Binds(es, scope, md, c, e, p) =>
          e \in DOMAIN es /\ Fits(e) /\ p \in DOMAIN pieces[e] /\ pieces[e][p].name = c
    BY <1>3 DEF Binds
  <1>10. \A e \in DOMAIN es : \A p : p \in DOMAIN pieces[e] /\ pieces[e][p].name = c =>
           Binds(es, scope, md, c, e, p) /\ pieces[e][p] = es[e].vars[p]
    <2> TAKE e \in DOMAIN es
    <2> TAKE p
    <2> HAVE p \in DOMAIN pieces[e] /\ pieces[e][p].name = c
    <2>1. Fits(e)
      <3>1. DOMAIN pieces[e] # {}
        OBVIOUS
      <3>2. \A s : s = <<>> => DOMAIN s = {}
        OBVIOUS
      <3>3. QED
        BY <1>3, <3>1, <3>2
    <2>2. QED
      BY <1>3, <2>1 DEF Binds
  <1>11. \A s, k : s[k]["name"] = s[k].name
    OBVIOUS
  <1>12. \/ last = <<>> /\ \A n \in DOMAIN pieces : L(n) = <<>>
         \/ \E k \in DOMAIN pieces : /\ L(k) # <<>> /\ last = L(k)
                                     /\ \A n \in DOMAIN pieces : L(n) # <<>> => n <= k
    <2>1. LET flat == FlattenSeq(pieces) IN
          \/ /\ LastIn(flat, "name", c) = <<>>
             /\ \A n \in DOMAIN pieces : LastIn(pieces[n], "name", c) = <<>>
          \/ \E k \in DOMAIN pieces :
               /\ LastIn(pieces[k], "name", c) # <<>>
               /\ LastIn(flat, "name", c) = LastIn(pieces[k], "name", c)
               /\ \A n \in DOMAIN pieces : LastIn(pieces[n], "name", c) # <<>> => n <= k
      BY <1>7, LastPiece
    <2>2. QED
      BY <1>4, <2>1
  <1>13. \A e, p : Binds(es, scope, md, c, e, p) => L(e) # <<>>
    BY <1>9, <1>11, LastInNone
  <1>14. ASSUME last = <<>>
         PROVE  \A e, p : ~ Binds(es, scope, md, c, e, p)
    BY <1>3, <1>9, <1>12, <1>13, <1>14
  <1>15. ASSUME last # <<>>
         PROVE  \E e, p : /\ Binds(es, scope, md, c, e, p) /\ last = <<es[e].vars[p]>>
                          /\ \A f, q : Binds(es, scope, md, c, f, q) => Before(f, q, e, p)
    <2>1. PICK e \in DOMAIN es : /\ L(e) # <<>> /\ last = L(e)
                                 /\ \A n \in DOMAIN es : L(n) # <<>> => n <= e
      BY <1>3, <1>12, <1>15
    <2>2. PICK p \in DOMAIN pieces[e] : /\ pieces[e][p]["name"] = c /\ L(e) = <<pieces[e][p]>>
                                        /\ \A n \in DOMAIN pieces[e] : pieces[e][n]["name"] = c => n <= p
      <3>1. pieces[e] \in Seq(S) /\ LastIn(pieces[e], "name", c) # <<>>
        BY <1>5, <2>1
      <3>2. QED
        BY <3>1, LastInSome
    <2>3. Binds(es, scope, md, c, e, p) /\ pieces[e][p] = es[e].vars[p]
      BY <1>10, <1>11, <2>2
    <2>4. ASSUME NEW f, NEW q, Binds(es, scope, md, c, f, q)
          PROVE  Before(f, q, e, p)
      <3>1. f \in DOMAIN es /\ L(f) # <<>> /\ q \in DOMAIN pieces[f] /\ pieces[f][q]["name"] = c
        BY <1>9, <1>11, <1>13, <2>4
      <3>2. f <= e
        BY <2>1, <3>1
      <3>3. f = e => q <= p
        BY <2>2, <3>1
      <3>4. QED
        BY <1>1, <3>1, <3>2, <3>3 DEF Before
    <2>5. QED
      BY <2>1, <2>2, <2>3, <2>4
  <1>16. QED
    BY <1>8, <1>14, <1>15 DEF S

\* A binding for one directory, for the mode or for all.
Applies(es, scope, m, c, e, p) == \E md \in {<<>>, <<m>>} : Binds(es, scope, md, c, e, p)

\* What a directory has for the mode itself counts for more, then what comes later.
Behind(es, f, q, e, p) ==
  \/ es[f].mode = <<>> /\ es[e].mode # <<>>
  \/ es[f].mode = es[e].mode /\ Before(f, q, e, p)

LEMMA ScopeSays ==
  ASSUME NEW es, IsGroups(es), NEW scope, NEW m, NEW c
  PROVE  LET last == LastIn(emit_scope(es, scope, m), "name", c) IN
         /\ emit_scope(es, scope, m) \in Seq(AllVars(es))
         /\ last = <<>> => \A e, p : ~ Applies(es, scope, m, c, e, p)
         /\ last # <<>> => \E e, p : /\ Applies(es, scope, m, c, e, p) /\ last = <<es[e].vars[p]>>
                                     /\ \A f, q : Applies(es, scope, m, c, f, q) => Behind(es, f, q, e, p)
  <1> DEFINE A == emit(es, scope, <<>>)
             B == emit(es, scope, <<m>>)
             a == LastIn(A, "name", c)
             b == LastIn(B, "name", c)
             last == LastIn(emit_scope(es, scope, m), "name", c)
  <1>1. emit_scope(es, scope, m) = A \o B
    BY DEF emit_scope
  <1>2. /\ A \in Seq(AllVars(es))
        /\ a = <<>> => \A e, p : ~ Binds(es, scope, <<>>, c, e, p)
        /\ a # <<>> => \E e, p : /\ Binds(es, scope, <<>>, c, e, p) /\ a = <<es[e].vars[p]>>
                                 /\ \A f, q : Binds(es, scope, <<>>, c, f, q) => Before(f, q, e, p)
    BY EmitSays
  <1>3. /\ B \in Seq(AllVars(es))
        /\ b = <<>> => \A e, p : ~ Binds(es, scope, <<m>>, c, e, p)
        /\ b # <<>> => \E e, p : /\ Binds(es, scope, <<m>>, c, e, p) /\ b = <<es[e].vars[p]>>
                                 /\ \A f, q : Binds(es, scope, <<m>>, c, f, q) => Before(f, q, e, p)
    <2> DEFINE md == <<m>>
    <2> HIDE DEF md
    <2>1. LET l == LastIn(emit(es, scope, md), "name", c) IN
          /\ emit(es, scope, md) \in Seq(AllVars(es))
          /\ l = <<>> => \A e, p : ~ Binds(es, scope, md, c, e, p)
          /\ l # <<>> => \E e, p : /\ Binds(es, scope, md, c, e, p) /\ l = <<es[e].vars[p]>>
                                   /\ \A f, q : Binds(es, scope, md, c, f, q) => Before(f, q, e, p)
      BY EmitSays
    <2>2. QED
      BY <2>1 DEF md
  <1> HIDE DEF A, B
  <1>4. LastIn(A \o B, "name", c) = IF b = <<>> THEN a ELSE b
    BY <1>2, <1>3, LastInAppended
  <1>5. emit_scope(es, scope, m) \in Seq(AllVars(es)) /\ (last = IF b = <<>> THEN a ELSE b)
    BY <1>1, <1>2, <1>3, <1>4
  <1>6. \A e, p : Applies(es, scope, m, c, e, p) <=>
                    Binds(es, scope, <<>>, c, e, p) \/ Binds(es, scope, <<m>>, c, e, p)
    BY DEF Applies
  <1>7. \A e, p, md : Binds(es, scope, md, c, e, p) => es[e].mode = md
    BY DEF Binds
  <1>8. <<m>> # <<>>
    OBVIOUS
  <1> HIDE DEF a, b, last
  <1>9. CASE b # <<>>
    <2>1. PICK e, p : /\ Binds(es, scope, <<m>>, c, e, p) /\ b = <<es[e].vars[p]>>
                      /\ \A f, q : Binds(es, scope, <<m>>, c, f, q) => Before(f, q, e, p)
      BY <1>3, <1>9
    <2>2. \A f, q : Applies(es, scope, m, c, f, q) => Behind(es, f, q, e, p)
      BY <1>6, <1>7, <1>8, <2>1 DEF Behind
    <2>3. Applies(es, scope, m, c, e, p) /\ last = <<es[e].vars[p]>> /\ last # <<>>
      BY <1>5, <1>6, <1>9, <2>1
    <2>4. QED
      BY <1>5, <2>2, <2>3 DEF last
  <1>10. CASE b = <<>> /\ a # <<>>
    <2>1. PICK e, p : /\ Binds(es, scope, <<>>, c, e, p) /\ a = <<es[e].vars[p]>>
                      /\ \A f, q : Binds(es, scope, <<>>, c, f, q) => Before(f, q, e, p)
      BY <1>2, <1>10
    <2>2. \A f, q : Applies(es, scope, m, c, f, q) => Behind(es, f, q, e, p)
      BY <1>3, <1>6, <1>7, <1>10, <2>1 DEF Behind
    <2>3. Applies(es, scope, m, c, e, p) /\ last = <<es[e].vars[p]>> /\ last # <<>>
      BY <1>5, <1>6, <1>10, <2>1
    <2>4. QED
      BY <1>5, <2>2, <2>3 DEF last
  <1>11. CASE b = <<>> /\ a = <<>>
    <2>1. last = <<>> /\ \A e, p : ~ Applies(es, scope, m, c, e, p)
      BY <1>2, <1>3, <1>5, <1>6, <1>11
    <2>2. QED
      BY <1>5, <2>1 DEF last
  <1>12. QED
    BY <1>9, <1>10, <1>11

-----------------------------------------------------------------------------
(* The directories above the file.                                         *)

Above(es, rel, e) == es[e].subdir # <<>> /\ under_dir(rel, es[e].subdir[1])

\* Directories of one depth that a file lies under are the same.
LEMMA OneEachDepth ==
  ASSUME NEW rel, NEW a, NEW b, under_dir(rel, a), under_dir(rel, b), depth(a) = depth(b),
         IsSequence(a.path), IsSequence(b.path), IsSequence(rel)
  PROVE  a.path = b.path
  <1> DEFINE s == a.path
             t == b.path
             n == Len(s)
  <1>1. s \in Seq({s[k] : k \in DOMAIN s}) /\ t \in Seq({t[k] : k \in DOMAIN t}) /\ Len(t) = n
    BY DEF IsSequence, depth
  <1>2. SubSeq(s, 1, n) = SubSeq(rel, 1, n) /\ SubSeq(t, 1, n) = SubSeq(rel, 1, n)
    BY <1>1 DEF under_dir, IsStrictPrefix, IsPrefix
  <1> HIDE DEF s, t
  <1>3. SubSeq(s, 1, n) = s
    <2> DEFINE R == {s[k] : k \in DOMAIN s}
    <2>1. s \in Seq(R)
      BY <1>1
    <2> HIDE DEF R
    <2>2. QED
      BY <2>1
  <1>4. SubSeq(t, 1, n) = t
    <2> DEFINE R == {t[k] : k \in DOMAIN t}
    <2>1. t \in Seq(R) /\ n = Len(t)
      BY <1>1
    <2> HIDE DEF R, n
    <2>2. QED
      BY <2>1
  <1>5. QED
    BY <1>2, <1>3, <1>4 DEF s, t

LEMMA DepthIs ==
  ASSUME NEW rel, NEW dir, under_dir(rel, dir), IsSequence(dir.path), IsSequence(rel)
  PROVE  depth(dir) \in DOMAIN rel /\ DOMAIN rel = 1..Len(rel) /\ Len(rel) \in Nat
  <1>1. /\ Len(dir.path) \in Nat /\ DOMAIN dir.path = 1..Len(dir.path)
        /\ Len(rel) \in Nat /\ DOMAIN rel = 1..Len(rel)
    BY SequenceIs
  <1>2. dir.path # <<>> /\ Len(dir.path) <= Len(rel)
    BY DEF under_dir, IsStrictPrefix, IsPrefix
  <1>3. Len(dir.path) # 0
    <2> DEFINE s == dir.path
               R == {s[k] : k \in DOMAIN s}
    <2>1. s \in Seq(R) /\ s # <<>>
      BY <1>2 DEF IsSequence
    <2> HIDE DEF R, s
    <2>2. Len(s) # 0
      BY <2>1
    <2>3. QED
      BY <2>2 DEF s
  <1>4. QED
    BY <1>1, <1>2, <1>3 DEF depth

\* Those directories, as groups name them, are all there and in order of depth.
LEMMA DirsAre ==
  ASSUME NEW es, IsGroups(es), NEW rel, IsSequence(rel)
  PROVE  LET dirs == shallow_first(matching(es, rel), rel) IN
         /\ IsSequence(dirs)
         /\ \A k \in DOMAIN dirs : \E e \in DOMAIN es : Above(es, rel, e) /\ es[e].subdir = <<dirs[k]>>
         /\ \A e \in DOMAIN es : Above(es, rel, e) => \E k \in DOMAIN dirs : es[e].subdir = <<dirs[k]>>
         /\ \A a, b \in DOMAIN dirs : a <= b => depth(dirs[a]) <= depth(dirs[b])
  <1> DEFINE D == {es[e].subdir[1] : e \in {f \in DOMAIN es : Above(es, rel, f)}}
             M(k) == Above(es, rel, k) /\ \A e \in 1..k - 1 : es[e].subdir # es[k].subdir
             found == [k \in DOMAIN es |-> IF M(k) THEN es[k].subdir ELSE <<>>]
             dirs == shallow_first(matching(es, rel), rel)
  <1>1. Len(es) \in Nat /\ DOMAIN es = 1..Len(es) /\ Len(rel) \in Nat /\ DOMAIN rel = 1..Len(rel)
    BY SequenceIs DEF IsGroups
  <1>2. \A e \in DOMAIN es : Above(es, rel, e) =>
          /\ es[e].subdir = <<es[e].subdir[1]>> /\ IsSequence(es[e].subdir[1].path)
          /\ es[e].subdir[1] \in D
    <2> TAKE e \in DOMAIN es
    <2> HAVE Above(es, rel, e)
    <2>1. PICK dir : es[e].subdir = <<dir>> /\ IsSequence(dir.path)
      BY DEF IsGroups, IsGroup, Above
    <2>2. es[e].subdir[1] = dir
      BY <2>1
    <2>3. QED
      BY <2>1, <2>2
  <1>3. \A d \in D : /\ IsSequence(d.path) /\ under_dir(rel, d)
                     /\ \E e \in DOMAIN es : Above(es, rel, e) /\ es[e].subdir = <<d>>
    <2> TAKE d \in D
    <2>1. PICK e \in DOMAIN es : Above(es, rel, e) /\ d = es[e].subdir[1]
      OBVIOUS
    <2> HIDE DEF D
    <2>2. QED
      BY <1>2, <2>1 DEF Above
  <1>4. \A d \in D : depth(d) \in DOMAIN rel
    BY <1>3, DepthIs
  <1>5. matching(es, rel) = FlattenSeq(found)
    <2>1. found = [k \in DOMAIN es |-> LET dir == es[k].subdir IN
                    IF dir # <<>> /\ under_dir(rel, dir[1]) /\ \A e \in 1..k - 1 : es[e].subdir # dir
                    THEN dir ELSE <<>>]
      BY DEF Above
    <2> HIDE DEF found
    <2>2. QED
      BY <2>1 DEF matching
  <1>6. \A k \in DOMAIN es : (M(k) => found[k] = es[k].subdir) /\ (~M(k) => found[k] = <<>>)
    OBVIOUS
  <1>7. found \in [1..Len(es) -> Seq(D)]
    <2>1. \A k \in DOMAIN es : found[k] \in Seq(D)
      <3> TAKE k \in DOMAIN es
      <3>1. CASE M(k)
        <4>1. found[k] = <<es[k].subdir[1]>> /\ es[k].subdir[1] \in D
          BY <1>2, <1>6, <3>1
        <4> HIDE DEF D, found
        <4>2. QED
          BY <4>1
      <3>2. CASE ~M(k)
        <4>1. found[k] = <<>>
          BY <1>6, <3>2
        <4> HIDE DEF D, found
        <4>2. QED
          BY <4>1
      <3>3. QED
        BY <3>1, <3>2
    <2>2. found = [k \in DOMAIN es |-> found[k]]
      OBVIOUS
    <2> HIDE DEF found
    <2>3. QED
      BY <1>1, <2>1, <2>2
  <1> HIDE DEF D, found
  <1>8. found \in Seq(Seq(D)) /\ DOMAIN found = DOMAIN es
    BY <1>1, <1>7
  <1> DEFINE flat == FlattenSeq(found)
  <1>9. flat \in Seq(D)
    BY <1>8, FlatTyped
  <1>10. \A e \in DOMAIN es : Above(es, rel, e) => Has(flat, es[e].subdir[1])
    <2> TAKE e \in DOMAIN es
    <2> HAVE Above(es, rel, e)
    <2> DEFINE S == {f \in DOMAIN es : es[f].subdir = es[e].subdir}
    <2>1. S \subseteq Nat /\ S # {}
      BY <1>1
    <2>2. \E n \in S : \A f \in S : n <= f
      <3> HIDE DEF S
      <3>1. QED
        BY <2>1, FirstOf
    <2>3. PICK n \in S : \A f \in S : n <= f
      BY <2>2
    <2>4. M(n) /\ n \in DOMAIN es /\ es[n].subdir = es[e].subdir
      <3>1. n \in DOMAIN es /\ es[n].subdir = es[e].subdir
        OBVIOUS
      <3>2. \A f \in 1..n - 1 : f \in DOMAIN es /\ f < n
        BY <1>1
      <3>3. \A f \in 1..n - 1 : es[f].subdir # es[n].subdir
        BY <1>1, <2>3, <3>1, <3>2
      <3>4. Above(es, rel, n)
        BY <3>1 DEF Above
      <3>5. QED
        BY <3>1, <3>3, <3>4
    <2>5. found[n] = <<es[e].subdir[1]>>
      BY <1>2, <1>6, <2>4
    <2>6. Has(found[n], es[e].subdir[1])
      BY <2>5 DEF Has
    <2>7. QED
      BY <1>8, <2>4, <2>6, HasFlat
  <1> HIDE DEF flat
  <1> DEFINE row(n) == [k \in DOMAIN flat |-> IF depth(flat[k]) = n THEN <<flat[k]>> ELSE <<>>]
             rows == [n \in DOMAIN rel |-> FlattenSeq(row(n))]
  <1>11. dirs = FlattenSeq(rows)
    BY <1>5 DEF shallow_first, flat
  <1>12. \A n, k : k \in DOMAIN flat =>
           /\ depth(flat[k]) = n => row(n)[k] = <<flat[k]>>
           /\ depth(flat[k]) # n => row(n)[k] = <<>>
    OBVIOUS
  <1>13. \A n : DOMAIN row(n) = 1..Len(flat) /\ Len(flat) \in Nat /\ DOMAIN flat = 1..Len(flat)
    BY <1>9
  <1>14. \A k \in DOMAIN flat : flat[k] \in D
    BY <1>9
  <1>15. \A n : row(n) \in Seq(Seq(D))
    <2> TAKE n
    <2>1. \A k \in DOMAIN flat : row(n)[k] \in Seq(D)
      <3> TAKE k \in DOMAIN flat
      <3>1. CASE depth(flat[k]) = n
        <4>1. row(n)[k] = <<flat[k]>> /\ flat[k] \in D
          BY <1>12, <1>14, <3>1
        <4> HIDE DEF row
        <4>2. QED
          BY <4>1
      <3>2. CASE depth(flat[k]) # n
        <4>1. row(n)[k] = <<>>
          BY <1>12, <3>2
        <4> HIDE DEF row
        <4>2. QED
          BY <4>1
      <3>3. QED
        BY <3>1, <3>2
    <2>2. row(n) = [k \in DOMAIN flat |-> row(n)[k]]
      OBVIOUS
    <2> HIDE DEF row
    <2>3. row(n) \in [1..Len(flat) -> Seq(D)]
      BY <1>13, <2>1, <2>2
    <2>4. QED
      BY <1>13, <2>3
  <1>16. \A n, d : Has(FlattenSeq(row(n)), d) <=> Has(flat, d) /\ depth(d) = n
    <2> TAKE n, d
    <2>1. Has(FlattenSeq(row(n)), d) <=> \E k \in DOMAIN row(n) : Has(row(n)[k], d)
      <3> DEFINE r == row(n)
      <3>1. r \in Seq(Seq(D))
        BY <1>15
      <3> HIDE DEF r
      <3>2. Has(FlattenSeq(r), d) <=> \E k \in DOMAIN r : Has(r[k], d)
        BY <3>1, HasFlat
      <3>3. QED
        BY <3>2 DEF r
    <2>2. \A k \in DOMAIN flat : Has(row(n)[k], d) <=> d = flat[k] /\ depth(d) = n
      <3> TAKE k \in DOMAIN flat
      <3>1. Has(<<flat[k]>>, d) <=> d = flat[k]
        BY DEF Has
      <3>2. ~ Has(<<>>, d)
        BY DEF Has
      <3>3. QED
        BY <1>12, <3>1, <3>2
    <2> HIDE DEF row
    <2>3. QED
      BY <1>13, <2>1, <2>2 DEF Has
  <1>17. rows \in Seq(Seq(D)) /\ DOMAIN rows = DOMAIN rel /\ \A n \in DOMAIN rel : rows[n] = FlattenSeq(row(n))
    <2>1. \A n \in DOMAIN rel : FlattenSeq(row(n)) \in Seq(D)
      <3> TAKE n \in DOMAIN rel
      <3> DEFINE r == row(n)
      <3>1. r \in Seq(Seq(D))
        BY <1>15
      <3> HIDE DEF r
      <3>2. FlattenSeq(r) \in Seq(D)
        BY <3>1, FlatTyped
      <3>3. QED
        BY <3>2 DEF r
    <2> HIDE DEF row
    <2>2. rows \in [1..Len(rel) -> Seq(D)]
      BY <1>1, <2>1
    <2>3. QED
      BY <1>1, <2>2
  <1> HIDE DEF rows, row
  <1>18. dirs \in Seq(D)
    BY <1>11, <1>17, FlatTyped
  <1>19. \A d : Has(dirs, d) <=> \E n \in DOMAIN rel : Has(flat, d) /\ depth(d) = n
    <2> TAKE d
    <2>1. Has(FlattenSeq(rows), d) <=> \E n \in DOMAIN rows : Has(rows[n], d)
      BY <1>17, HasFlat
    <2>2. QED
      BY <1>11, <1>16, <1>17, <2>1
  <1>20. \A a, b \in DOMAIN dirs : a <= b => depth(dirs[a]) <= depth(dirs[b])
    <2> DEFINE rank == [d \in D |-> depth(d)]
    <2>1. rank \in [D -> Nat] /\ \A d \in D : rank[d] = depth(d)
      BY <1>1, <1>4
    <2>2. \A n \in DOMAIN rows : \A q \in DOMAIN rows[n] : rank[rows[n][q]] = n
      <3> TAKE n \in DOMAIN rows
      <3> TAKE q \in DOMAIN rows[n]
      <3>1. rows[n] \in Seq(D)
        BY <1>17
      <3>2. rows[n][q] \in D
        BY <3>1
      <3>3. Has(rows[n], rows[n][q])
        BY DEF Has
      <3>4. depth(rows[n][q]) = n
        BY <1>16, <1>17, <3>3
      <3> HIDE DEF rank
      <3>5. QED
        BY <2>1, <3>2, <3>4
    <2> HIDE DEF rank
    <2>3. \A a, b \in DOMAIN FlattenSeq(rows) :
            a <= b => rank[FlattenSeq(rows)[a]] <= rank[FlattenSeq(rows)[b]]
      BY <1>17, <2>1, <2>2, FlatSorted
    <2>4. \A a \in DOMAIN dirs : dirs[a] \in D
      BY <1>18
    <2> HIDE DEF dirs
    <2>5. QED
      BY <1>11, <2>1, <2>3, <2>4
  <1>21. \A k \in DOMAIN dirs : dirs[k] \in D
    BY <1>18
  <1>22. IsSequence(dirs)
    <2>1. Len(dirs) \in Nat /\ DOMAIN dirs = 1..Len(dirs) /\ dirs = [k \in 1..Len(dirs) |-> dirs[k]]
      BY <1>18
    <2> HIDE DEF dirs
    <2> DEFINE R == {dirs[k] : k \in DOMAIN dirs}
    <2>2. \A k \in 1..Len(dirs) : dirs[k] \in R
      BY <2>1
    <2> HIDE DEF R
    <2>3. dirs \in Seq(R)
      BY <2>1, <2>2
    <2>4. QED
      BY <2>3 DEF IsSequence, R
  <1> HIDE DEF dirs
  <1>23. \A e \in DOMAIN es : Above(es, rel, e) => \E k \in DOMAIN dirs : es[e].subdir = <<dirs[k]>>
    <2> TAKE e \in DOMAIN es
    <2> HAVE Above(es, rel, e)
    <2>1. Has(flat, es[e].subdir[1]) /\ depth(es[e].subdir[1]) \in DOMAIN rel
      BY <1>2, <1>4, <1>10
    <2>2. Has(dirs, es[e].subdir[1])
      BY <1>19, <2>1
    <2>3. QED
      BY <1>2, <2>2 DEF Has
  <1>24. QED
    BY <1>3, <1>20, <1>21, <1>22, <1>23 DEF dirs

\* The bindings that have a say, and which of two has more of it.
InForce(es, rel, m, c, e, p) ==
  /\ e \in DOMAIN es /\ p \in DOMAIN es[e].vars /\ es[e].vars[p].name = c
  /\ es[e].mode \in {<<>>, <<m>>}
  /\ es[e].subdir # <<>> => under_dir(rel, es[e].subdir[1])
Level(es, e) == IF es[e].subdir = <<>> THEN 0 ELSE depth(es[e].subdir[1])
Weaker(es, f, q, e, p) == Level(es, f) < Level(es, e) \/ (Level(es, f) = Level(es, e) /\ Behind(es, f, q, e, p))
OneSpelling(es) ==
  \A a \in DOMAIN es, b \in DOMAIN es :
    es[a].subdir # <<>> /\ es[b].subdir # <<>> /\ es[a].subdir[1].path = es[b].subdir[1].path =>
    es[a].subdir = es[b].subdir

LEMMA PathSays ==
  ASSUME NEW es, IsGroups(es), NEW rel, IsSequence(rel), NEW m, NEW c, OneSpelling(es)
  PROVE  LET last == LastIn(for_path(es, m, rel), "name", c) IN
         /\ last = <<>> => \A e, p : ~ InForce(es, rel, m, c, e, p)
         /\ last # <<>> => \E e, p : /\ InForce(es, rel, m, c, e, p) /\ last = <<es[e].vars[p]>>
                                     /\ \A f, q : InForce(es, rel, m, c, f, q) => Weaker(es, f, q, e, p)
  <1> DEFINE dirs == shallow_first(matching(es, rel), rel)
             S == AllVars(es)
             top == emit_scope(es, <<>>, m)
             scopes == [k \in DOMAIN dirs |-> emit_scope(es, <<dirs[k]>>, m)]
             sub == FlattenSeq(scopes)
             last == LastIn(for_path(es, m, rel), "name", c)
             t == LastIn(top, "name", c)
             s == LastIn(sub, "name", c)
             Sub(e, p) == \E k \in DOMAIN dirs : Applies(es, <<dirs[k]>>, m, c, e, p)
  <1>1. for_path(es, m, rel) = top \o sub
    BY DEF for_path
  <1>2. /\ IsSequence(dirs)
        /\ \A k \in DOMAIN dirs : \E e \in DOMAIN es : Above(es, rel, e) /\ es[e].subdir = <<dirs[k]>>
        /\ \A e \in DOMAIN es : Above(es, rel, e) => \E k \in DOMAIN dirs : es[e].subdir = <<dirs[k]>>
        /\ \A a, b \in DOMAIN dirs : a <= b => depth(dirs[a]) <= depth(dirs[b])
    BY DirsAre
  <1>3. Len(dirs) \in Nat /\ DOMAIN dirs = 1..Len(dirs)
    BY <1>2, SequenceIs
  <1> HIDE DEF dirs, S, top
  <1>4. \A k \in DOMAIN dirs :
          /\ IsSequence(dirs[k].path) /\ under_dir(rel, dirs[k])
          /\ depth(dirs[k]) \in Nat /\ depth(dirs[k]) > 0
    <2> TAKE k \in DOMAIN dirs
    <2>1. PICK e \in DOMAIN es : Above(es, rel, e) /\ es[e].subdir = <<dirs[k]>>
      BY <1>2
    <2>2. PICK dir : es[e].subdir = <<dir>> /\ IsSequence(dir.path)
      BY <2>1 DEF IsGroups, IsGroup, Above
    <2>3. dir = dirs[k] /\ under_dir(rel, dirs[k])
      BY <2>1, <2>2 DEF Above
    <2>4. depth(dirs[k]) \in 1..Len(rel) /\ Len(rel) \in Nat
      BY <2>2, <2>3, DepthIs
    <2>5. QED
      BY <2>2, <2>3, <2>4
  <1>5. ASSUME NEW scope
        PROVE  LET l == LastIn(emit_scope(es, scope, m), "name", c) IN
               /\ emit_scope(es, scope, m) \in Seq(S)
               /\ l = <<>> => \A e, p : ~ Applies(es, scope, m, c, e, p)
               /\ l # <<>> => \E e, p : /\ Applies(es, scope, m, c, e, p) /\ l = <<es[e].vars[p]>>
                                        /\ \A f, q : Applies(es, scope, m, c, f, q) => Behind(es, f, q, e, p)
    BY ScopeSays DEF S
  <1>6. scopes \in Seq(Seq(S)) /\ DOMAIN scopes = DOMAIN dirs
        /\ \A k \in DOMAIN dirs : scopes[k] = emit_scope(es, <<dirs[k]>>, m)
    <2>1. \A k \in DOMAIN dirs : emit_scope(es, <<dirs[k]>>, m) \in Seq(S)
      BY <1>5
    <2>2. scopes \in [1..Len(dirs) -> Seq(S)]
      BY <1>3, <2>1
    <2>3. QED
      BY <1>3, <2>2
  <1> HIDE DEF scopes
  <1>7. top \in Seq(S) /\ sub \in Seq(S)
    <2>1. sub \in Seq(S)
      BY <1>6, FlatTyped
    <2>2. top \in Seq(S)
      BY <1>5 DEF top
    <2>3. QED
      BY <2>1, <2>2
  <1> HIDE DEF sub
  <1>8. last = IF s = <<>> THEN t ELSE s
    <2>1. LastIn(top \o sub, "name", c) = IF s = <<>> THEN t ELSE s
      BY <1>7, LastInAppended
    <2>2. QED
      BY <1>1, <2>1
  <1>9. \A e, p : InForce(es, rel, m, c, e, p) <=> Applies(es, <<>>, m, c, e, p) \/ Sub(e, p)
    <2> TAKE e, p
    <2>1. Applies(es, <<>>, m, c, e, p) => InForce(es, rel, m, c, e, p)
      BY DEF Applies, Binds, InForce
    <2>2. ASSUME NEW k \in DOMAIN dirs, Applies(es, <<dirs[k]>>, m, c, e, p)
          PROVE  InForce(es, rel, m, c, e, p)
      <3>1. e \in DOMAIN es /\ p \in DOMAIN es[e].vars /\ es[e].vars[p].name = c
            /\ es[e].mode \in {<<>>, <<m>>} /\ es[e].subdir = <<dirs[k]>>
        BY <2>2 DEF Applies, Binds
      <3>2. es[e].subdir[1] = dirs[k]
        BY <3>1
      <3>3. QED
        BY <1>4, <3>1, <3>2 DEF InForce
    <2>3. ASSUME InForce(es, rel, m, c, e, p), es[e].subdir = <<>>
          PROVE  Applies(es, <<>>, m, c, e, p)
      BY <2>3 DEF Applies, Binds, InForce
    <2>4. ASSUME InForce(es, rel, m, c, e, p), es[e].subdir # <<>>
          PROVE  Sub(e, p)
      <3>1. Above(es, rel, e) /\ e \in DOMAIN es
        BY <2>4 DEF InForce, Above
      <3>2. PICK k \in DOMAIN dirs : es[e].subdir = <<dirs[k]>>
        BY <1>2, <3>1
      <3>3. Applies(es, <<dirs[k]>>, m, c, e, p)
        BY <2>4, <3>2 DEF Applies, Binds, InForce
      <3>4. QED
        BY <3>3
    <2>5. QED
      BY <2>1, <2>2, <2>3, <2>4
  <1>10. \A e, p : Applies(es, <<>>, m, c, e, p) => Level(es, e) = 0
    BY DEF Applies, Binds, Level
  <1>11. \A e, p : \A k \in DOMAIN dirs : Applies(es, <<dirs[k]>>, m, c, e, p) =>
           Level(es, e) = depth(dirs[k]) /\ es[e].subdir = <<dirs[k]>> /\ e \in DOMAIN es
    <2> TAKE e, p
    <2> TAKE k \in DOMAIN dirs
    <2> HAVE Applies(es, <<dirs[k]>>, m, c, e, p)
    <2>1. es[e].subdir = <<dirs[k]>> /\ e \in DOMAIN es
      BY DEF Applies, Binds
    <2>2. es[e].subdir # <<>> /\ es[e].subdir[1] = dirs[k]
      BY <2>1
    <2>3. QED
      BY <2>1, <2>2 DEF Level
  <1> DEFINE At(k) == LastIn(scopes[k], "name", c)
  <1>12. \/ s = <<>> /\ \A n \in DOMAIN dirs : At(n) = <<>>
         \/ \E k \in DOMAIN dirs : /\ At(k) # <<>> /\ s = At(k)
                                   /\ \A n \in DOMAIN dirs : At(n) # <<>> => n <= k
    <2>1. LET flat == FlattenSeq(scopes) IN
          \/ /\ LastIn(flat, "name", c) = <<>>
             /\ \A n \in DOMAIN scopes : LastIn(scopes[n], "name", c) = <<>>
          \/ \E k \in DOMAIN scopes :
               /\ LastIn(scopes[k], "name", c) # <<>>
               /\ LastIn(flat, "name", c) = LastIn(scopes[k], "name", c)
               /\ \A n \in DOMAIN scopes : LastIn(scopes[n], "name", c) # <<>> => n <= k
      BY <1>6, LastPiece
    <2>2. QED
      BY <1>6, <2>1 DEF sub
  <1>13. \A k \in DOMAIN dirs :
           /\ At(k) = <<>> => \A e, p : ~ Applies(es, <<dirs[k]>>, m, c, e, p)
           /\ At(k) # <<>> => \E e, p :
                /\ Applies(es, <<dirs[k]>>, m, c, e, p) /\ At(k) = <<es[e].vars[p]>>
                /\ \A f, q : Applies(es, <<dirs[k]>>, m, c, f, q) => Behind(es, f, q, e, p)
    <2> TAKE k \in DOMAIN dirs
    <2> DEFINE scope == <<dirs[k]>>
    <2> HIDE DEF scope
    <2>1. LET l == LastIn(emit_scope(es, scope, m), "name", c) IN
          /\ l = <<>> => \A e, p : ~ Applies(es, scope, m, c, e, p)
          /\ l # <<>> => \E e, p : /\ Applies(es, scope, m, c, e, p) /\ l = <<es[e].vars[p]>>
                                   /\ \A f, q : Applies(es, scope, m, c, f, q) => Behind(es, f, q, e, p)
      BY <1>5
    <2>2. At(k) = LastIn(emit_scope(es, scope, m), "name", c)
      BY <1>6 DEF scope
    <2>3. QED
      BY <2>1, <2>2 DEF scope
  <1>14. /\ t = <<>> => \A e, p : ~ Applies(es, <<>>, m, c, e, p)
         /\ t # <<>> => \E e, p : /\ Applies(es, <<>>, m, c, e, p) /\ t = <<es[e].vars[p]>>
                                  /\ \A f, q : Applies(es, <<>>, m, c, f, q) => Behind(es, f, q, e, p)
    BY <1>5 DEF top
  <1> HIDE DEF last, s, t, At
  <1>15. CASE s = <<>>
    <2>1. \A v : <<v>> # <<>>
      OBVIOUS
    <2>2. \A n \in DOMAIN dirs : At(n) = <<>>
      <3>1. ~ \E k \in DOMAIN dirs : At(k) # <<>> /\ s = At(k)
        BY <1>15
      <3>2. QED
        BY <1>12, <3>1
    <2>3. \A e, p : ~ Sub(e, p)
      BY <1>13, <2>2
    <2>4. \A e, p : InForce(es, rel, m, c, e, p) <=> Applies(es, <<>>, m, c, e, p)
      BY <1>9, <2>3
    <2>5. last = t
      BY <1>8, <1>15
    <2>6. ASSUME t # <<>>
          PROVE  \E e, p : /\ InForce(es, rel, m, c, e, p) /\ last = <<es[e].vars[p]>>
                           /\ \A f, q : InForce(es, rel, m, c, f, q) => Weaker(es, f, q, e, p)
      <3>1. PICK e, p : /\ Applies(es, <<>>, m, c, e, p) /\ t = <<es[e].vars[p]>>
                        /\ \A f, q : Applies(es, <<>>, m, c, f, q) => Behind(es, f, q, e, p)
        BY <1>14, <2>6
      <3>2. \A f, q : InForce(es, rel, m, c, f, q) => Weaker(es, f, q, e, p)
        BY <1>10, <2>4, <3>1 DEF Weaker
      <3>3. QED
        BY <2>4, <2>5, <3>1, <3>2
    <2>7. t = <<>> => \A e, p : ~ InForce(es, rel, m, c, e, p)
      BY <1>14, <2>4
    <2>8. QED
      BY <2>5, <2>6, <2>7 DEF last
  <1>16. CASE s # <<>>
    <2>1. PICK k \in DOMAIN dirs : /\ At(k) # <<>> /\ s = At(k)
                                   /\ \A n \in DOMAIN dirs : At(n) # <<>> => n <= k
      BY <1>12, <1>16
    <2>2. PICK e, p : /\ Applies(es, <<dirs[k]>>, m, c, e, p) /\ s = <<es[e].vars[p]>>
                      /\ \A f, q : Applies(es, <<dirs[k]>>, m, c, f, q) => Behind(es, f, q, e, p)
      BY <1>13, <2>1
    <2>3. Level(es, e) = depth(dirs[k]) /\ es[e].subdir = <<dirs[k]>> /\ e \in DOMAIN es
      BY <1>11, <2>2
    <2>4. ASSUME NEW f, NEW q, InForce(es, rel, m, c, f, q)
          PROVE  Weaker(es, f, q, e, p)
      <3>1. CASE Applies(es, <<>>, m, c, f, q)
        BY <1>4, <1>10, <2>3, <3>1 DEF Weaker
      <3>2. CASE Sub(f, q)
        <4>1. PICK n \in DOMAIN dirs : Applies(es, <<dirs[n]>>, m, c, f, q)
          BY <3>2
        <4>2. n <= k
          BY <1>13, <2>1, <4>1
        <4>3. depth(dirs[n]) <= depth(dirs[k])
          BY <1>2, <4>2
        <4>4. Level(es, f) = depth(dirs[n]) /\ es[f].subdir = <<dirs[n]>> /\ f \in DOMAIN es
          BY <1>11, <4>1
        <4>5. CASE depth(dirs[n]) = depth(dirs[k])
          <5>1. dirs[n].path = dirs[k].path
            BY <1>4, <4>5, OneEachDepth
          <5>2. /\ es[f].subdir # <<>> /\ es[f].subdir[1] = dirs[n]
                /\ es[e].subdir # <<>> /\ es[e].subdir[1] = dirs[k]
            BY <2>3, <4>4
          <5>3. es[f].subdir = es[e].subdir
            BY <2>3, <4>4, <5>1, <5>2 DEF OneSpelling
          <5>4. Behind(es, f, q, e, p)
            BY <2>2, <2>3, <4>1, <4>4, <5>3
          <5>5. QED
            BY <2>3, <4>4, <4>5, <5>4 DEF Weaker
        <4>6. CASE depth(dirs[n]) # depth(dirs[k])
          <5>1. depth(dirs[n]) < depth(dirs[k])
            BY <1>4, <4>3, <4>6
          <5>2. QED
            BY <2>3, <4>4, <5>1 DEF Weaker
        <4>7. QED
          BY <4>5, <4>6
      <3>3. QED
        BY <1>9, <2>4, <3>1, <3>2
    <2>5. InForce(es, rel, m, c, e, p) /\ last = <<es[e].vars[p]>> /\ last # <<>>
      <3>1. Sub(e, p)
        BY <2>2
      <3>2. QED
        BY <1>8, <1>9, <1>16, <2>2, <3>1
    <2>6. QED
      BY <2>4, <2>5 DEF last
  <1>17. QED
    BY <1>15, <1>16

\* What an element of the alist adds is groups.
GroupSeq(s) == \E S : s \in Seq(S) /\ \A g \in S : IsGroup(g)

LEMMA GroupSeqIs == ASSUME NEW s, GroupSeq(s) PROVE IsGroups(s)
  <1>1. PICK S : s \in Seq(S) /\ \A g \in S : IsGroup(g)
    BY DEF GroupSeq
  <1>2. Len(s) \in Nat /\ DOMAIN s = 1..Len(s) /\ s = [k \in 1..Len(s) |-> s[k]] /\ \A k \in DOMAIN s : s[k] \in S
    BY <1>1
  <1> DEFINE R == {s[k] : k \in DOMAIN s}
  <1>3. \A k \in 1..Len(s) : s[k] \in R
    BY <1>2
  <1> HIDE DEF R
  <1>4. s \in Seq(R)
    BY <1>2, <1>3
  <1>5. QED
    BY <1>1, <1>2, <1>4 DEF IsGroups, IsSequence, R

LEMMA OneGroup == ASSUME NEW g, IsGroup(g) PROVE GroupSeq(<<g>>)
  <1>1. PICK S : S = {g}
    OBVIOUS
  <1>2. <<g>> \in Seq(S)
    BY <1>1
  <1>3. \A h \in S : IsGroup(h)
    BY <1>1
  <1>4. QED
    BY <1>2, <1>3 DEF GroupSeq

LEMMA GroupsJoined == ASSUME NEW a, NEW b, GroupSeq(a), GroupSeq(b) PROVE GroupSeq(a \o b)
  <1>1. PICK A : a \in Seq(A) /\ \A g \in A : IsGroup(g)
    BY DEF GroupSeq
  <1>2. PICK B : b \in Seq(B) /\ \A g \in B : IsGroup(g)
    BY DEF GroupSeq
  <1>3. a \in Seq(A \cup B) /\ b \in Seq(A \cup B)
    BY <1>1, <1>2
  <1>4. a \o b \in Seq(A \cup B)
    BY <1>3
  <1>5. QED
    BY <1>1, <1>2, <1>4 DEF GroupSeq

LEMMA RestIs ==
  ASSUME NEW d, IsDatum(d), d.items # <<>>
  PROVE  /\ Len(rest_items(d)) \in Nat /\ DOMAIN rest_items(d) = 1..Len(rest_items(d))
         /\ \A k \in DOMAIN rest_items(d) : rest_items(d)[k] \in Inside(d)
  <1> DEFINE s == d.items
             r == rest_items(d)
  <1>1. IsSequence(s) /\ IsSequence(d.tail) /\ \A t \in DOMAIN d.tail : IsSequence(d.tail[t].items)
    BY DEF IsDatum
  <1>2. CASE d.tail = <<>>
    <2>1. r = Tail(s)
      BY <1>2 DEF rest_items
    <2>2. \A k \in DOMAIN s : s[k] \in Inside(d)
      BY DEF Inside
    <2> HIDE DEF r, s
    <2> DEFINE R == {s[k] : k \in DOMAIN s}
    <2>3. s \in Seq(R) /\ s # <<>>
      BY <1>1 DEF IsSequence, s
    <2>4. \A x \in R : x \in Inside(d)
      BY <2>2
    <2> HIDE DEF R
    <2>5. Tail(s) \in Seq(R)
      BY <2>3
    <2>6. Len(r) \in Nat /\ DOMAIN r = 1..Len(r) /\ \A k \in DOMAIN r : r[k] \in R
      BY <2>1, <2>5
    <2>7. QED
      BY <2>4, <2>6 DEF r
  <1>3. CASE d.tail # <<>> /\ d.tail[1].kind = "list"
    <2>1. r = d.tail[1].items
      BY <1>3 DEF rest_items
    <2>2. 1 \in DOMAIN d.tail
      <3> DEFINE t == d.tail
                 R == {t[k] : k \in DOMAIN t}
      <3>1. t \in Seq(R) /\ t # <<>>
        BY <1>1, <1>3 DEF IsSequence
      <3> HIDE DEF t, R
      <3>2. 1 \in DOMAIN t
        BY <3>1
      <3>3. QED
        BY <3>2 DEF t
    <2>3. Len(r) \in Nat /\ DOMAIN r = 1..Len(r)
      BY <1>1, <2>1, <2>2, SequenceIs
    <2>4. \A k \in DOMAIN r : r[k] \in Inside(d)
      BY <2>1, <2>2 DEF Inside
    <2>5. QED
      BY <2>3, <2>4
  <1>4. CASE d.tail # <<>> /\ d.tail[1].kind # "list"
    <2>1. r = <<>>
      BY <1>4 DEF rest_items
    <2>2. QED
      BY <2>1
  <1>5. QED
    BY <1>2, <1>3, <1>4

LEMMA PairIs ==
  ASSUME NEW d
  PROVE  pair(d) = <<>> \/ \E b : pair(d) = <<b>>
  <1> DEFINE none == d.kind # "list" \/ d.items = <<>> \/ (d.tail = <<>> /\ Len(d.items) # 2)
             b == [name |-> d.items[1].text, value |-> IF d.tail # <<>> THEN d.tail[1].text ELSE d.items[2].text]
  <1>1. pair(d) = IF none THEN <<>> ELSE <<b>>
    BY Zenon DEF pair
  <1> HIDE DEF none, b
  <1>2. QED
    BY <1>1

LEMMA ModeGroupTyped ==
  ASSUME NEW d, IsDatum(d), NEW subdir, subdir = <<>> \/ \E dir : subdir = <<dir>> /\ IsSequence(dir.path)
  PROVE  GroupSeq(mode_group(d, subdir))
  <1> DEFINE r == rest_items(d)
             pairs == [k \in DOMAIN r |-> pair(r[k])]
             S == {pair(r[k])[1] : k \in DOMAIN r}
             vars1 == FlattenSeq(pairs)
             md == IF d.items[1].text = "nil" THEN <<>> ELSE <<d.items[1].text>>
             g == [subdir |-> subdir, mode |-> md, vars |-> vars1]
  <1>1. CASE ~ opens(d, "symbol")
    <2>1. mode_group(d, subdir) = <<>>
      BY <1>1 DEF mode_group
    <2>2. <<>> \in Seq({})
      OBVIOUS
    <2>3. QED
      BY <2>1, <2>2 DEF GroupSeq
  <1>2. CASE opens(d, "symbol")
    <2>1. mode_group(d, subdir) = <<g>>
      BY <1>2, Zenon DEF mode_group
    <2>2. Len(r) \in Nat /\ DOMAIN r = 1..Len(r)
      BY <1>2, RestIs DEF opens
    <2> HIDE DEF r
    <2>3. \A k \in DOMAIN r : pair(r[k]) \in Seq(S)
      <3> TAKE k \in DOMAIN r
      <3>1. pair(r[k])[1] \in S
        OBVIOUS
      <3>2. CASE pair(r[k]) = <<>>
        <4> HIDE DEF S
        <4>1. QED
          BY <3>2
      <3>3. CASE \E b : pair(r[k]) = <<b>>
        <4>1. PICK b : pair(r[k]) = <<b>>
          BY <3>3
        <4>2. b \in S
          BY <3>1, <4>1
        <4> HIDE DEF S
        <4>3. QED
          BY <4>1, <4>2
      <3>4. QED
        BY <3>2, <3>3, PairIs
    <2> HIDE DEF S
    <2>4. pairs \in [1..Len(r) -> Seq(S)]
      BY <2>2, <2>3
    <2>5. pairs \in Seq(Seq(S))
      BY <2>2, <2>4
    <2> HIDE DEF pairs
    <2>6. vars1 \in Seq(S)
      BY <2>5, FlatTyped
    <2> HIDE DEF vars1
    <2>7. Len(vars1) \in Nat /\ DOMAIN vars1 = 1..Len(vars1) /\ vars1 = [k \in 1..Len(vars1) |-> vars1[k]]
      BY <2>6
    <2> DEFINE R == {vars1[k] : k \in DOMAIN vars1}
    <2>8. \A k \in 1..Len(vars1) : vars1[k] \in R
      BY <2>7
    <2> HIDE DEF R
    <2>9. vars1 \in Seq(R)
      BY <2>7, <2>8
    <2>10. IsSequence(vars1)
      BY <2>9 DEF IsSequence, R
    <2>11. g.vars = vars1 /\ g.subdir = subdir
      OBVIOUS
    <2>12. IsGroup(g)
      BY <2>10, <2>11 DEF IsGroup
    <2> HIDE DEF g
    <2>13. QED
      BY <2>1, <2>12, OneGroup
  <1>3. QED
    BY <1>1, <1>2

LEMMA CollectTyped ==
  ASSUME NEW d, IsDatum(d), \A x \in Inside(d) : IsDatum(x)
  PROVE  GroupSeq(collect_entry(d))
  <1>1. CASE ~ opens(d, "str")
    <2>1. collect_entry(d) = mode_group(d, <<>>)
      BY <1>1 DEF collect_entry
    <2>2. QED
      BY <2>1, ModeGroupTyped
  <1>2. CASE opens(d, "str")
    <2> DEFINE r == rest_items(d)
               scope == <<d.items[1].text>>
               groups == [k \in DOMAIN r |-> mode_group(r[k], scope)]
               G == UNION {{mode_group(r[k], scope)[j] : j \in DOMAIN mode_group(r[k], scope)} : k \in DOMAIN r}
    <2>1. collect_entry(d) = FlattenSeq(groups)
      BY <1>2 DEF collect_entry
    <2>2. /\ Len(r) \in Nat /\ DOMAIN r = 1..Len(r) /\ \A k \in DOMAIN r : r[k] \in Inside(d)
      BY <1>2, RestIs DEF opens
    <2>3. IsSequence(d.items[1].text.path)
      <3>1. 1 \in DOMAIN d.items
        <4> DEFINE s == d.items
                   R == {s[k] : k \in DOMAIN s}
        <4>1. s \in Seq(R) /\ s # <<>>
          BY <1>2 DEF IsDatum, IsSequence, opens
        <4> HIDE DEF s, R
        <4>2. 1 \in DOMAIN s
          BY <4>1
        <4>3. QED
          BY <4>2 DEF s
      <3>2. d.items[1] \in Inside(d)
        BY <3>1 DEF Inside
      <3>3. QED
        BY <1>2, <3>2 DEF IsDatum, opens
    <2> HIDE DEF r
    <2>4. \A k \in DOMAIN r : GroupSeq(mode_group(r[k], scope))
      <3> TAKE k \in DOMAIN r
      <3>1. IsDatum(r[k])
        BY <2>2
      <3>2. \E dir : scope = <<dir>> /\ IsSequence(dir.path)
        BY <2>3
      <3> HIDE DEF scope
      <3>3. QED
        BY <3>1, <3>2, ModeGroupTyped
    <2> HIDE DEF scope
    <2>5. \A k \in DOMAIN r : /\ mode_group(r[k], scope) \in Seq(G)
                              /\ \A j \in DOMAIN mode_group(r[k], scope) : IsGroup(mode_group(r[k], scope)[j])
      <3> TAKE k \in DOMAIN r
      <3> DEFINE m == mode_group(r[k], scope)
      <3>1. \A j \in DOMAIN m : m[j] \in G
        OBVIOUS
      <3>2. IsGroups(m)
        BY <2>4, GroupSeqIs
      <3> HIDE DEF m, G
      <3>3. \A j \in DOMAIN m : IsGroup(m[j])
        BY <3>2 DEF IsGroups
      <3> DEFINE R == {m[j] : j \in DOMAIN m}
      <3>4. m \in Seq(R) /\ \A x \in R : x \in G
        BY <3>1, <3>2 DEF IsGroups, IsSequence
      <3> HIDE DEF R
      <3>5. m \in Seq(G)
        BY <3>4
      <3>6. QED
        BY <3>3, <3>5 DEF m
    <2>6. \A g \in G : IsGroup(g)
      BY <2>5
    <2> HIDE DEF G
    <2>7. groups \in [1..Len(r) -> Seq(G)]
      BY <2>2, <2>5
    <2>8. groups \in Seq(Seq(G))
      BY <2>2, <2>7
    <2> HIDE DEF groups
    <2>9. FlattenSeq(groups) \in Seq(G)
      BY <2>8, FlatTyped
    <2>10. QED
      BY <2>1, <2>6, <2>9 DEF GroupSeq
  <1>3. QED
    BY <1>1, <1>2

-----------------------------------------------------------------------------
\* The entries are groups, and the settings what for_path makes of them.
EInv ==
  /\ project \in Projects
  /\ GroupSeq(entries)
  /\ pc = "elements" => i \in Nat \ {0}
  /\ pc = "done" => settings = for_path(entries, mode, project.rel)

LEMMA ElementIs ==
  ASSUME NEW p \in Projects, NEW k \in Nat \ {0}, k <= Len(elements(p.data))
  PROVE  LET d == elements(p.data)[k] IN IsDatum(d) /\ \A x \in Inside(d) : IsDatum(x)
  <1> DEFINE es == elements(p.data)
             a == p.data[1]
  <1>1. IsSequence(p.data) /\ \A n \in DOMAIN p.data : IsAlist(p.data[n])
    BY SettingsAssumption DEF IsProject
  <1>2. CASE p.data = <<>> \/ a.kind # "list"
    <2>1. es = <<>>
      BY <1>2 DEF elements
    <2>2. Len(es) = 0
      BY <2>1
    <2>3. QED
      BY <2>2
  <1>3. CASE p.data # <<>> /\ a.kind = "list"
    <2>1. es = a.items
      BY <1>3 DEF elements
    <2>2. 1 \in DOMAIN p.data
      <3> DEFINE s == p.data
                 R == {s[n] : n \in DOMAIN s}
      <3>1. s \in Seq(R) /\ s # <<>>
        BY <1>1, <1>3 DEF IsSequence
      <3> HIDE DEF s, R
      <3>2. 1 \in DOMAIN s
        BY <3>1
      <3>3. QED
        BY <3>2 DEF s
    <2>3. IsAlist(a)
      BY <1>1, <2>2
    <2>4. Len(es) \in Nat /\ DOMAIN es = 1..Len(es)
      BY <2>1, <2>3, SequenceIs DEF IsAlist, IsDatum
    <2>5. es[k] \in Inside(a)
      BY <2>1, <2>4 DEF Inside
    <2>6. QED
      BY <2>3, <2>5 DEF IsAlist
  <1>4. QED
    BY <1>2, <1>3

LEMMA EInvInit == Init => EInv
  <1>1. <<>> \in Seq({})
    OBVIOUS
  <1>2. QED
    BY <1>1 DEF Init, EInv, GroupSeq

LEMMA EInvStep == EInv /\ [Next]_vars => EInv'
  <1> SUFFICES ASSUME EInv, [Next]_vars
               PROVE  EInv'
    OBVIOUS
  <1>0. project \in Projects /\ GroupSeq(entries)
    BY DEF EInv
  <1>1. CASE Vote
    BY <1>0, <1>1 DEF Vote, EInv
  <1>2. CASE Decide
    BY <1>0, <1>2 DEF Decide, EInv
  <1>3. CASE ReadHeader
    <2>1. project' = project /\ entries' = entries /\ pc' \in {"elements", "footer"} /\ (pc' = "elements" => i' = 1)
      BY <1>3 DEF ReadHeader
    <2>2. QED
      BY <1>0, <2>1 DEF EInv
  <1>4. CASE ReadLine
    <2>1. project' = project /\ entries' = entries /\ pc' = "footer"
      BY <1>4 DEF ReadLine
    <2>2. QED
      BY <1>0, <2>1 DEF EInv
  <1>5. CASE EndBlock
    BY <1>0, <1>5 DEF EndBlock, EInv
  <1>6. CASE Collect
    <2>1. /\ pc = "elements" /\ pc' = "elements" /\ project' = project /\ i <= Len(elements(project.data))
          /\ entries' = entries \o collect_entry(elements(project.data)[i]) /\ i' = i + 1
      BY <1>6 DEF Collect
    <2>2. i \in Nat \ {0}
      BY <2>1 DEF EInv
    <2>3. GroupSeq(collect_entry(elements(project.data)[i]))
      <3> DEFINE d == elements(project.data)[i]
      <3>1. IsDatum(d) /\ \A x \in Inside(d) : IsDatum(x)
        BY <1>0, <2>1, <2>2, ElementIs
      <3> HIDE DEF d
      <3>2. GroupSeq(collect_entry(d))
        BY <3>1, CollectTyped
      <3>3. QED
        BY <3>2 DEF d
    <2>4. GroupSeq(entries')
      BY <1>0, <2>1, <2>3, GroupsJoined
    <2>5. QED
      BY <1>0, <2>1, <2>2, <2>4 DEF EInv
  <1>7. CASE Resolve
    <2>1. /\ project' = project /\ entries' = entries /\ pc' = "done" /\ locals' = locals
          /\ settings' = for_path(entries, mode, project.rel)
      BY <1>7 DEF Resolve
    <2>2. mode' = mode
      BY <2>1 DEF mode
    <2>3. QED
      BY <1>0, <2>1, <2>2 DEF EInv
  <1>8. CASE UNCHANGED vars
    <2>1. mode' = mode
      BY <1>8 DEF vars, mode
    <2>2. QED
      BY <1>0, <1>8, <2>1 DEF EInv, vars
  <1>9. QED
    BY <1>1, <1>2, <1>3, <1>4, <1>5, <1>6, <1>7, <1>8 DEF Next

LEMMA InForceTyped ==
  ASSUME NEW es, IsGroups(es), NEW rel, NEW m, NEW c, NEW e, NEW p, InForce(es, rel, m, c, e, p)
  PROVE  e \in Nat /\ p \in Nat /\ Level(es, e) \in Nat
  <1>1. e \in DOMAIN es /\ p \in DOMAIN es[e].vars
    BY DEF InForce
  <1>2. DOMAIN es = 1..Len(es) /\ DOMAIN es[e].vars = 1..Len(es[e].vars)
    BY <1>1, SequenceIs DEF IsGroups, IsGroup
  <1>3. CASE es[e].subdir = <<>>
    BY <1>1, <1>2, <1>3 DEF Level
  <1>4. CASE es[e].subdir # <<>>
    <2>1. PICK dir : es[e].subdir = <<dir>> /\ IsSequence(dir.path)
      BY <1>1, <1>4 DEF IsGroups, IsGroup
    <2>2. es[e].subdir[1] = dir
      BY <2>1
    <2>3. depth(dir) \in Nat
      BY <2>1, SequenceIs DEF depth
    <2>4. QED
      BY <1>1, <1>2, <1>4, <2>2, <2>3 DEF Level
  <1>5. QED
    BY <1>3, <1>4

\* Of two bindings that have a say, no nearer and weaker are the same.
LEMMA NoNearer ==
  ASSUME IsGroups(entries), IsSequence(project.rel), NEW called,
         NEW e, NEW p, NEW f, NEW q,
         InForce(entries, project.rel, mode, called, e, p),
         InForce(entries, project.rel, mode, called, f, q)
  PROVE  AsNear(<<f, q>>, <<e, p>>) <=> Weaker(entries, f, q, e, p)
  <1> DEFINE b == <<f, q>>
             c == <<e, p>>
             N(n) == Nearness(b)[n]
             M(n) == Nearness(c)[n]
  <1>1. e \in Nat /\ p \in Nat /\ f \in Nat /\ q \in Nat
    BY InForceTyped
  <1>2. Level(entries, f) \in Nat /\ Level(entries, e) \in Nat
    BY InForceTyped
  <1>3. \A a, k : LET g == entries[a] IN
          /\ Nearness(<<a, k>>)[1] = Level(entries, a)
          /\ Nearness(<<a, k>>)[2] = IF g.mode = <<>> THEN 0 ELSE 1
          /\ Nearness(<<a, k>>)[3] = a /\ Nearness(<<a, k>>)[4] = k
    BY DEF Nearness, Level
  <1>4. AsNear(b, c) <=> \/ b = c
                         \/ \E n \in 1..4 : /\ N(n) < M(n)
                                            /\ \A j \in 1..(n - 1) : N(j) = M(j)
    BY DEF AsNear
  <1> HIDE DEF N, M
  <1>5. AsNear(b, c) <=> \/ b = c
                         \/ N(1) < M(1)
                         \/ N(1) = M(1) /\ N(2) < M(2)
                         \/ N(1) = M(1) /\ N(2) = M(2) /\ N(3) < M(3)
                         \/ N(1) = M(1) /\ N(2) = M(2) /\ N(3) = M(3) /\ N(4) < M(4)
    <2>1. \A n \in 1..4 : n = 1 \/ n = 2 \/ n = 3 \/ n = 4
      OBVIOUS
    <2>2. \A j : (j \in 1..(1 - 1) <=> FALSE) /\ (j \in 1..(2 - 1) <=> j = 1)
                 /\ (j \in 1..(3 - 1) <=> j = 1 \/ j = 2) /\ (j \in 1..(4 - 1) <=> j = 1 \/ j = 2 \/ j = 3)
      OBVIOUS
    <2>3. 1 \in 1..4 /\ 2 \in 1..4 /\ 3 \in 1..4 /\ 4 \in 1..4
      OBVIOUS
    <2>4. QED
      BY <1>4, <2>1, <2>2, <2>3
  <1>6. b = c <=> f = e /\ q = p
    OBVIOUS
  <1>7. /\ N(1) = Level(entries, f) /\ M(1) = Level(entries, e)
        /\ N(2) = (IF entries[f].mode = <<>> THEN 0 ELSE 1)
        /\ M(2) = (IF entries[e].mode = <<>> THEN 0 ELSE 1)
        /\ N(3) = f /\ M(3) = e /\ N(4) = q /\ M(4) = p
    BY <1>3 DEF N, M
  <1>8. entries[f].mode \in {<<>>, <<mode>>} /\ entries[e].mode \in {<<>>, <<mode>>}
    BY DEF InForce
  <1>9. /\ (N(2) < M(2) <=> entries[f].mode = <<>> /\ entries[e].mode # <<>>)
        /\ (N(2) = M(2) <=> entries[f].mode = entries[e].mode)
    <2>1. <<mode>> # <<>>
      OBVIOUS
    <2> HIDE DEF b, c
    <2>2. QED
      BY <1>7, <1>8, <2>1
  <1> HIDE DEF b, c
  <1>10. AsNear(b, c) <=> Weaker(entries, f, q, e, p)
    BY <1>1, <1>2, <1>5, <1>6, <1>7, <1>9 DEF Weaker, Behind, Before
  <1>11. QED
    BY <1>10 DEF b, c

\* Of two bindings that have a say, only one is the stronger.
LEMMA OneIsStronger ==
  ASSUME NEW es, IsGroups(es), NEW rel, IsSequence(rel), NEW m, NEW c, NEW e, NEW p, NEW f, NEW q,
         InForce(es, rel, m, c, e, p), InForce(es, rel, m, c, f, q),
         Weaker(es, e, p, f, q), Weaker(es, f, q, e, p)
  PROVE  f = e /\ q = p
  <1>1. e \in Nat /\ p \in Nat /\ f \in Nat /\ q \in Nat /\ Level(es, e) \in Nat /\ Level(es, f) \in Nat
    BY InForceTyped
  <1>2. Behind(es, e, p, f, q) /\ Behind(es, f, q, e, p)
    BY <1>1 DEF Weaker
  <1>3. Before(e, p, f, q) /\ Before(f, q, e, p)
    BY <1>2 DEF Behind
  <1>4. QED
    BY <1>1, <1>3 DEF Before

LEMMA NearestWins == EInv => NearestScopeWins
  <1> SUFFICES ASSUME EInv, pc = "done", SpelledOnce, NEW called
               PROVE  LET said     == {k \in DOMAIN settings : settings[k].name = called}
                          applying == Applicable(called)
                          nearest  == CHOOSE b \in applying : \A c \in applying : AsNear(c, b)
                      IN  /\ said = {} <=> applying = {}
                          /\ applying # {} =>
                               settings[Max(said)].value = entries[nearest[1]].vars[nearest[2]].value
    BY DEF NearestScopeWins
  <1> DEFINE es == entries
             rel == project.rel
             said == {k \in DOMAIN settings : settings[k].name = called}
             A == Applicable(called)
             nearest == CHOOSE b \in A : \A c \in A : AsNear(c, b)
             last == LastIn(settings, "name", called)
             F(e, p) == InForce(es, rel, mode, called, e, p)
  <1>1. IsGroups(es) /\ IsSequence(rel) /\ OneSpelling(es) /\ settings = for_path(es, mode, rel)
    <2>1. GroupSeq(es)
      BY DEF EInv
    <2>2. IsGroups(es)
      BY <2>1, GroupSeqIs
    <2>3. IsSequence(rel)
      BY SettingsAssumption DEF EInv, IsProject
    <2>4. QED
      BY <2>2, <2>3 DEF EInv, SpelledOnce, OneSpelling
  <1>2. last = IF said = {} THEN <<>> ELSE <<settings[Max(said)]>>
    <2>1. said = {k \in DOMAIN settings : settings[k]["name"] = called}
      OBVIOUS
    <2>2. QED
      BY <2>1 DEF LastIn
  <1>3. \A b : b \in A <=> \E e, p : b = <<e, p>> /\ F(e, p)
    <2>1. \A b : b \in A => \E e, p : b = <<e, p>> /\ F(e, p)
      <3> TAKE b
      <3> HAVE b \in A
      <3>1. PICK e \in DOMAIN es : b \in {<<e, p>> : p \in DOMAIN es[e].vars}
        BY DEF Applicable
      <3>2. PICK p \in DOMAIN es[e].vars : b = <<e, p>>
        BY <3>1
      <3>3. b[1] = e /\ b[2] = p
        BY <3>2
      <3>4. QED
        BY <3>2, <3>3 DEF Applicable, InForce
    <2>2. \A e, p : F(e, p) => <<e, p>> \in A
      <3> TAKE e, p
      <3> HAVE F(e, p)
      <3> DEFINE b == <<e, p>>
                 U == UNION {{<<a, k>> : k \in DOMAIN entries[a].vars} : a \in DOMAIN entries}
                 G(x) == LET group == entries[x[1]] IN
                         /\ group.vars[x[2]].name = called
                         /\ group.mode \in {<<>>, <<mode>>}
                         /\ group.subdir # <<>> => under_dir(project.rel, group.subdir[1])
      <3>1. b \in U
        BY DEF InForce
      <3>2. b[1] = e /\ b[2] = p
        OBVIOUS
      <3>3. G(b)
        BY <3>2 DEF InForce
      <3>4. A = {x \in U : G(x)}
        BY DEF Applicable
      <3> HIDE DEF U, G, A, b
      <3>5. b \in A
        BY <3>1, <3>3, <3>4
      <3>6. QED
        BY <3>5 DEF b
    <2> HIDE DEF A, F
    <2>3. QED
      BY <2>1, <2>2
  <1>4. \A e, p, f, q : F(e, p) /\ F(f, q) => (AsNear(<<f, q>>, <<e, p>>) <=> Weaker(es, f, q, e, p))
    BY <1>1, NoNearer
  <1>5. /\ last = <<>> => \A e, p : ~ F(e, p)
        /\ last # <<>> => \E e, p : /\ F(e, p) /\ last = <<es[e].vars[p]>>
                                    /\ \A f, q : F(f, q) => Weaker(es, f, q, e, p)
    BY <1>1, PathSays
  <1> HIDE DEF A, F, last, said
  <1>6. \A v : <<v>> # <<>>
    OBVIOUS
  <1>7. said = {} <=> last = <<>>
    BY <1>2, <1>6
  <1>8. CASE last = <<>>
    <2>1. A = {}
      BY <1>3, <1>5, <1>8
    <2>2. QED
      BY <1>7, <1>8, <2>1 DEF A, said
  <1>9. CASE last # <<>>
    <2>1. PICK e, p : /\ F(e, p) /\ last = <<es[e].vars[p]>>
                      /\ \A f, q : F(f, q) => Weaker(es, f, q, e, p)
      BY <1>5, <1>9
    <2>2. <<e, p>> \in A /\ \A c \in A : AsNear(c, <<e, p>>)
      BY <1>3, <1>4, <2>1
    <2>3. \A b \in A : (\A c \in A : AsNear(c, b)) => b = <<e, p>>
      <3> TAKE b \in A
      <3> HAVE \A c \in A : AsNear(c, b)
      <3>1. PICK f, q : b = <<f, q>> /\ F(f, q)
        BY <1>3
      <3>2. Weaker(es, e, p, f, q) /\ Weaker(es, f, q, e, p)
        BY <1>4, <2>1, <2>2, <3>1
      <3>3. AsNear(<<f, q>>, <<e, p>>) /\ AsNear(<<e, p>>, <<f, q>>)
        BY <2>2, <3>1
      <3>4. f = e /\ q = p
        BY <1>1, <2>1, <3>1, <3>2, OneIsStronger DEF F
      <3>5. QED
        BY <3>1, <3>4
    <2>4. nearest = <<e, p>>
      BY <2>2, <2>3
    <2> HIDE DEF nearest
    <2>5. nearest[1] = e /\ nearest[2] = p
      BY <2>4
    <2>6. settings[Max(said)] = es[e].vars[p] /\ said # {}
      <3>1. said # {} /\ last = <<settings[Max(said)]>>
        BY <1>2, <1>7, <1>9
      <3>2. <<settings[Max(said)]>> = <<es[e].vars[p]>>
        BY <2>1, <3>1
      <3> DEFINE x == settings[Max(said)] y == es[e].vars[p]
      <3> HIDE DEF x, y
      <3>3. <<x>> = <<y>> => x = y
        OBVIOUS
      <3>4. QED
        BY <3>1, <3>2, <3>3 DEF x, y
    <2>7. QED
      BY <2>2, <2>5, <2>6 DEF A, said, nearest
  <1>10. QED
    BY <1>8, <1>9

\* Whatever the alist and wherever the file lies, what for_path puts last for a
\* variable is what the group nearest to the file has for it.
THEOREM NearestGroupWins == Spec => []NearestScopeWins
  BY EInvInit, EInvStep, NearestWins, PTL DEF Spec
=============================================================================
