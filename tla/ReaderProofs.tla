---------------------------- MODULE ReaderProofs ----------------------------
(***************************************************************************)
(* Proofs, for every set of inputs and options and every depth cap, of     *)
(* what ReaderProperties states and TLC checks on small instances.  First  *)
(* what holds in every state; then what parse_datum and skip_balanced      *)
(* promise their callers: None only in front of a close or at the end of   *)
(* the input, a token consumed by every top-level call, a skipped region   *)
(* that ends where it balances.  Last what the top-level calls promise     *)
(* together, the refinement of TopForms: nothing of the input is passed    *)
(* over without a reason the caller can see, and reading ends only when    *)
(* the whole input has been worked through.                                *)
(***************************************************************************)
EXTENDS ReaderProperties, TLAPS, SequenceTheorems, FiniteSetTheorems

-----------------------------------------------------------------------------
(* The call stack as a sequence: its last frame, its front, and the frames *)
(* pushed, popped or replaced.                                             *)

\* A nonempty sequence is its front and its last element.
LEMMA LastFront ==
  ASSUME NEW S, NEW s \in Seq(S), s # <<>>
  PROVE  /\ Len(s) \in Nat \ {0}
         /\ Last(s) = s[Len(s)]
         /\ Last(s) \in S
         /\ Front(s) \in Seq(S)
         /\ Len(Front(s)) = Len(s) - 1
         /\ \A i \in 1..Len(s) - 1 : Front(s)[i] = s[i]
  <1>1. Len(s) \in Nat \ {0}
    BY EmptySeq
  <1>2. Last(s) = s[Len(s)] /\ Last(s) \in S
    BY <1>1, ElementOfSeq DEF Last
  <1>3. \A i \in 1..Len(s) - 1 : s[i] \in S
    BY <1>1, ElementOfSeq
  <1> DEFINE n == Len(s) - 1
  <1>4. n \in Int /\ n >= 0 /\ n = Len(s) - 1
    BY <1>1
  <1>5. Front(s) = SubSeq(s, 1, n)
    BY DEF Front
  <1> HIDE DEF n
  <1>6. /\ SubSeq(s, 1, n) \in Seq(S)
        /\ Len(SubSeq(s, 1, n)) = IF 1 <= n THEN n - 1 + 1 ELSE 0
        /\ \A i \in 1..n - 1 + 1 : SubSeq(s, 1, n)[i] = s[1 + i - 1]
    <2>1. \A i \in 1..n : s[i] \in S
      BY <1>3, <1>4
    <2>2. QED
      BY <1>4, <2>1, SubSeqProperties
  <1>7. Len(Front(s)) = n
    BY <1>4, <1>5, <1>6
  <1>8. \A i \in 1..n : Front(s)[i] = s[i]
    <2> TAKE i \in 1..n
    <2>1. i \in 1..n - 1 + 1 /\ 1 + i - 1 = i
      BY <1>4
    <2>2. QED
      BY <1>5, <1>6, <2>1
  <1>9. QED
    BY <1>1, <1>2, <1>4, <1>5, <1>6, <1>7, <1>8

\* Replacing the last frame.
LEMMA ReplaceLast ==
  ASSUME NEW S, NEW s \in Seq(S), s # <<>>, NEW e \in S,
         NEW r, r = [s EXCEPT ![Len(s)] = e]
  PROVE  /\ r \in Seq(S) /\ Len(r) = Len(s) /\ r # <<>> /\ Last(r) = e
         /\ r[Len(s)] = e
         /\ \A i \in 1..Len(s) - 1 : r[i] = s[i]
  <1>1. Len(s) \in Nat \ {0} /\ Len(s) \in 1..Len(s)
    BY EmptySeq
  <1>2. /\ r \in Seq(S) /\ Len(r) = Len(s)
        /\ \A j \in 1..Len(s) : r[j] = IF j = Len(s) THEN e ELSE s[j]
    BY <1>1, ExceptSeq
  <1>3. r # <<>>
    BY <1>1, <1>2, EmptySeq
  <1>4. Last(r) = r[Len(r)]
    BY <1>2, <1>3, LastFront
  <1>5. r[Len(s)] = e
    BY <1>1, <1>2
  <1>6. ASSUME NEW i \in 1..Len(s) - 1 PROVE r[i] = s[i]
    <2>1. i \in 1..Len(s) /\ i # Len(s)
      BY <1>1
    <2>2. QED
      BY <1>2, <2>1
  <1>7. QED
    BY <1>2, <1>3, <1>4, <1>5, <1>6

\* The number of list frames of a stack that is pushed, popped or whose last
\* frame is replaced by one of the same sort.
IsList(frame) == frame.fn \in {"list", "skip"}

LEMMA ListsFinite ==
  ASSUME NEW S, NEW s \in Seq(S)
  PROVE  /\ IsFiniteSet(ListsIn(s)) /\ Cardinality(ListsIn(s)) \in Nat
         /\ \A i : i \in ListsIn(s) <=> i \in 1..Len(s) /\ IsList(s[i])
  <1>1. /\ ListsIn(s) \subseteq 1..Len(s)
        /\ \A i : i \in ListsIn(s) <=> i \in 1..Len(s) /\ IsList(s[i])
    BY LenProperties DEF ListsIn, IsList
  <1>2. IsFiniteSet(1..Len(s))
    BY FS_Interval, LenProperties
  <1>3. QED
    BY <1>1, <1>2, FS_Subset, FS_CardinalityType

LEMMA ListsPush ==
  ASSUME NEW S, NEW s \in Seq(S), NEW f \in S, NEW t, t = Append(s, f)
  PROVE  Cardinality(ListsIn(t)) =
           IF IsList(f) THEN Cardinality(ListsIn(s)) + 1 ELSE Cardinality(ListsIn(s))
  <1>1. /\ t \in Seq(S) /\ Len(t) = Len(s) + 1 /\ t[Len(s) + 1] = f
        /\ \A i \in 1..Len(s) : t[i] = s[i]
        /\ Len(s) \in Nat
    BY AppendProperties, LenProperties
  <1>2. \A i : i \in ListsIn(t) <=> i \in 1..Len(t) /\ IsList(t[i])
    BY <1>1, ListsFinite
  <1>3. \A i : i \in ListsIn(s) <=> i \in 1..Len(s) /\ IsList(s[i])
    BY ListsFinite
  <1>4. Len(s) + 1 \notin ListsIn(s)
    BY <1>1, <1>3
  <1>5. CASE IsList(f)
    <2>1. ListsIn(t) = ListsIn(s) \union {Len(s) + 1}
      BY <1>1, <1>2, <1>3, <1>5
    <2>2. QED
      BY <1>4, <1>5, <2>1, ListsFinite, FS_AddElement
  <1>6. CASE ~IsList(f)
    <2>1. ListsIn(t) = ListsIn(s)
      BY <1>1, <1>2, <1>3, <1>6
    <2>2. QED
      BY <1>6, <2>1
  <1>7. QED
    BY <1>5, <1>6

LEMMA ListsPop ==
  ASSUME NEW S, NEW s \in Seq(S), s # <<>>
  PROVE  Cardinality(ListsIn(s)) =
           IF IsList(Last(s)) THEN Cardinality(ListsIn(Front(s))) + 1
                              ELSE Cardinality(ListsIn(Front(s)))
  <1> DEFINE t == Front(s)
  <1>1. /\ t \in Seq(S) /\ Len(t) = Len(s) - 1 /\ Last(s) = s[Len(s)]
        /\ \A i \in 1..Len(s) - 1 : t[i] = s[i]
        /\ Len(s) \in Nat \ {0}
    BY LastFront
  <1> HIDE DEF t
  <1>2. \A i : i \in ListsIn(t) <=> i \in 1..Len(t) /\ IsList(t[i])
    BY <1>1, ListsFinite
  <1>3. \A i : i \in ListsIn(s) <=> i \in 1..Len(s) /\ IsList(s[i])
    BY ListsFinite
  <1>4. Len(s) \notin ListsIn(t)
    BY <1>1, <1>2
  <1>5. CASE IsList(Last(s))
    <2>1. ListsIn(s) = ListsIn(t) \union {Len(s)}
      BY <1>1, <1>2, <1>3, <1>5
    <2>2. IsFiniteSet(ListsIn(t))
      BY <1>1, ListsFinite
    <2>3. Cardinality(ListsIn(s)) = Cardinality(ListsIn(t)) + 1
      BY <1>4, <2>1, <2>2, FS_AddElement
    <2>4. QED
      BY <1>5, <2>3 DEF t
  <1>6. CASE ~IsList(Last(s))
    <2>1. ASSUME NEW i PROVE i \in ListsIn(s) <=> i \in ListsIn(t)
      <3>1. CASE i \in 1..Len(s) - 1
        BY <1>1, <1>2, <1>3, <3>1
      <3>2. CASE i = Len(s)
        BY <1>1, <1>3, <1>4, <1>6, <3>2
      <3>3. CASE i \notin 1..Len(s)
        BY <1>1, <1>2, <1>3, <3>3
      <3>4. QED
        BY <1>1, <3>1, <3>2, <3>3
    <2>2. ListsIn(s) = ListsIn(t)
      BY <2>1
    <2>3. QED
      BY <1>6, <2>2 DEF t
  <1>7. QED
    BY <1>5, <1>6

LEMMA ListsReplace ==
  ASSUME NEW S, NEW s \in Seq(S), s # <<>>, NEW e \in S,
         NEW r, r = [s EXCEPT ![Len(s)] = e],
         IsList(e) <=> IsList(Last(s))
  PROVE  ListsIn(r) = ListsIn(s)
  <1>1. /\ r \in Seq(S) /\ Len(r) = Len(s) /\ r[Len(s)] = e
        /\ \A i \in 1..Len(s) - 1 : r[i] = s[i]
    BY ReplaceLast
  <1>2. Last(s) = s[Len(s)] /\ Len(s) \in Nat \ {0}
    BY LastFront
  <1>3. ASSUME NEW i \in 1..Len(s) PROVE IsList(r[i]) <=> IsList(s[i])
    <2>1. CASE i = Len(s)
      BY <1>1, <1>2, <2>1
    <2>2. CASE i # Len(s)
      <3>1. i \in 1..Len(s) - 1
        BY <1>2, <2>2
      <3>2. r[i] = s[i]
        BY <1>1, <3>1
      <3>3. QED
        BY <3>2
    <2>3. QED
      BY <2>1, <2>2
  <1>4. /\ \A i : i \in ListsIn(r) <=> i \in 1..Len(r) /\ IsList(r[i])
        /\ \A i : i \in ListsIn(s) <=> i \in 1..Len(s) /\ IsList(s[i])
    BY <1>1, ListsFinite
  <1>5. QED
    BY <1>1, <1>3, <1>4

-----------------------------------------------------------------------------
(* How the nesting of calls survives a push, a pop and a replacement.      *)

LEMMA NestedPush ==
  ASSUME NEW S, NEW s \in Seq(S), NEW f \in S, NEW p, NEW q, Nested(s, p),
         p \in {"top", "datum"}, q \in {"datum", "list", "skip"},
         f.fn = "top" <=> p = "top",
         f.fn = "skip" <=> q = "skip",
         q = "list" => f.fn = "list"
  PROVE  Nested(Append(s, f), q)
  <1> DEFINE t == Append(s, f)
  <1>1. /\ t \in Seq(S) /\ Len(t) = Len(s) + 1 /\ t[Len(s) + 1] = f
        /\ \A i \in 1..Len(s) : t[i] = s[i]
        /\ Len(s) \in Nat /\ t # <<>>
    BY AppendProperties, LenProperties
  <1> HIDE DEF t
  <1>2. Last(t) = f
    BY <1>1, LastFront
  <1>3. p = "top" <=> Len(s) = 0
    BY EmptySeq, <1>1 DEF Nested
  <1>4. ASSUME NEW i \in 1..Len(t)
        PROVE  /\ t[i].fn = "top" <=> i = 1
               /\ t[i].fn = "skip" <=> q = "skip" /\ i = Len(t)
    <2>1. CASE i \in 1..Len(s)
      BY <1>1, <1>3, <2>1 DEF Nested
    <2>2. CASE i = Len(s) + 1
      BY <1>1, <1>3, <2>2
    <2>3. QED
      BY <1>1, <2>1, <2>2
  <1>5. QED
    BY <1>1, <1>2, <1>4 DEF Nested, t

LEMMA NestedPop ==
  ASSUME NEW S, NEW s \in Seq(S), s # <<>>, NEW p, NEW q, Nested(s, p),
         IF Last(s).fn = "top" THEN q \in {"top", "done"} ELSE q \in {"datum", "return"}
  PROVE  Nested(Front(s), q)
  <1> DEFINE t == Front(s)
  <1>1. /\ t \in Seq(S) /\ Len(t) = Len(s) - 1 /\ Last(s) = s[Len(s)]
        /\ \A i \in 1..Len(s) - 1 : t[i] = s[i]
        /\ Len(s) \in Nat \ {0}
    BY LastFront
  <1> HIDE DEF t
  <1>2. Last(s).fn = "top" <=> Len(t) = 0
    BY <1>1 DEF Nested
  <1>3. t = <<>> <=> Len(t) = 0
    BY <1>1, EmptySeq
  <1>4. ASSUME NEW i \in 1..Len(t)
        PROVE  /\ t[i].fn = "top" <=> i = 1
               /\ t[i].fn # "skip"
    <2>1. i \in 1..Len(s) - 1 /\ i \in 1..Len(s) /\ i # Len(s)
      BY <1>1
    <2>2. QED
      BY <1>1, <2>1 DEF Nested
  <1>5. QED
    BY <1>2, <1>3, <1>4 DEF Nested, t

LEMMA NestedReplace ==
  ASSUME NEW S, NEW s \in Seq(S), s # <<>>, NEW p, NEW q, Nested(s, p), NEW f \in S,
         NEW t, t = [s EXCEPT ![Len(s)] = f],
         f.fn = "top" <=> Last(s).fn = "top",
         f.fn = "skip" <=> Last(s).fn = "skip",
         q \in {"datum", "list", "skip"}, q = "skip" <=> p = "skip",
         q = "list" => f.fn = "list"
  PROVE  Nested(t, q)
  <1>1. /\ t \in Seq(S) /\ Len(t) = Len(s) /\ t[Len(s)] = f
        /\ \A i \in 1..Len(s) - 1 : t[i] = s[i]
    BY ReplaceLast
  <1>2. Last(s) = s[Len(s)] /\ Len(s) \in Nat \ {0}
    BY LastFront
  <1>5. t # <<>>
    <2>1. Len(t) # 0
      BY <1>1, <1>2
    <2>2. QED
      BY <1>1, <2>1, EmptySeq
  <1>6. Last(t) = f
    BY <1>1, <1>2, <1>5 DEF Last
  <1>3. ASSUME NEW i \in 1..Len(s)
        PROVE  /\ t[i].fn = "top" <=> i = 1
               /\ t[i].fn = "skip" <=> q = "skip" /\ i = Len(s)
    <2>1. CASE i = Len(s)
      BY <1>1, <1>2, <2>1 DEF Nested
    <2>2. CASE i # Len(s)
      <3>1. i \in 1..Len(s) - 1
        BY <1>2, <2>2
      <3>2. t[i] = s[i]
        BY <1>1, <3>1
      <3>3. QED
        BY <1>2, <2>2, <3>1, <3>2 DEF Nested
    <2>3. QED
      BY <2>1, <2>2
  <1>4. QED
    BY <1>1, <1>3, <1>5, <1>6 DEF Nested

LEMMA NestedSame ==
  ASSUME NEW s, NEW p, NEW q, Nested(s, p),
         p \notin {"top", "done", "skip"}, q \notin {"top", "done", "skip"},
         q = "list" => Last(s).fn = "list"
  PROVE  Nested(s, q)
  BY DEF Nested

-----------------------------------------------------------------------------
(* Types.                                                                  *)

\* A sequence over 1..n is one over 1..m for every larger m, and so is every
\* datum and every frame that refers to data among 1..n.
LEMMA TypesGrow ==
  ASSUME NEW n \in Nat, NEW m \in Nat, n <= m
  PROVE  /\ Seq(1..n) \subseteq Seq(1..m)
         /\ NodeType(n) \subseteq NodeType(m) /\ FrameType(n) \subseteq FrameType(m)
         /\ Seq(NodeType(n)) \subseteq Seq(NodeType(m))
         /\ Seq(FrameType(n)) \subseteq Seq(FrameType(m))
  <1>1. 1..n \subseteq 1..m /\ 0..n \subseteq 0..m
    OBVIOUS
  <1>2. Seq(1..n) \subseteq Seq(1..m)
    BY <1>1, SeqMonotonic
  <1>3. NodeType(n) \subseteq NodeType(m)
    BY <1>1, <1>2 DEF NodeType
  <1>4. FrameType(n) \subseteq FrameType(m)
    BY <1>1, <1>2 DEF FrameType
  <1>5. QED
    BY <1>2, <1>3, <1>4, SeqMonotonic

\* A token that can be peeked at lies in the input.
LEMMA PeekInside ==
  ASSUME TypeOK
  PROVE  /\ peek # EOF => pos \in Index /\ pos + 1 \in 1..Len(tokens) + 1
         /\ peek = EOF => pos = Len(tokens) + 1
  <1>1. Len(tokens) \in Nat /\ \A i \in 1..Len(tokens) : tokens[i] \in AllKinds
    BY LenProperties, ElementOfSeq DEF TypeOK
  <1>2. EOF \notin AllKinds
    BY DEF EOF, AllKinds, Opens, HashOpens, Closes, Leaves, ReaderMacros, Tag, Label,
           Malformed
  <1>3. QED
    BY <1>1, <1>2 DEF TypeOK, peek, Index

LEMMA NewFrame ==
  ASSUME NEW n \in Nat, NEW fn \in FrameKinds, NEW at \in Index
  PROVE  Frame(fn, at) \in FrameType(n) /\ Frame(fn, at).fn = fn
  <1>1. Len(tokens) \in Nat => 0 \in 0..Len(tokens)
    OBVIOUS
  <1>2. <<>> \in Seq(1..n)
    BY EmptySeq
  <1>3. QED
    BY <1>1, <1>2 DEF Frame, FrameType, None, Index

-----------------------------------------------------------------------------
(* What a step leaves well typed, and Parser::depth equal to the number of *)
(* lists being read.                                                       *)

IInv == TypeOK /\ DepthCounted

\* The parts of a successor state that make it well typed.  (NodeType and the
\* other types depend on the input, which no step changes.)
LEMMA TypesKept ==
  ASSUME TypeOK, UNCHANGED input,
         pos' \in 1..Len(tokens) + 1, depth' \in 0..MAX_DEPTH + 1,
         errors' \in Seq(ErrorType), data' \in Seq(1..Len(heap')),
         heap' \in Seq(NodeType(Len(heap'))), stack' \in Seq(FrameType(Len(heap'))),
         pc' \in {"top", "datum", "list", "skip", "return", "done"},
         ret' \in 0..Len(heap'), Nested(stack', pc')
  PROVE  TypeOK'
  <1>1. tokens' = tokens /\ opts' = opts
    BY DEF input
  <1>2. Index' = Index
    BY <1>1 DEF Index
  <1>3. ErrorType' = ErrorType
    BY <1>2 DEF ErrorType
  <1>4. NodeType(Len(heap))' = NodeType(Len(heap'))
    BY <1>1, <1>2 DEF NodeType
  <1>5. FrameType(Len(heap))' = FrameType(Len(heap'))
    BY <1>1, <1>2 DEF FrameType
  <1>6. Nested(stack, pc)' = Nested(stack', pc')
    BY DEF Nested
  <1>7. Ids' = 1..Len(heap')
    BY DEF Ids
  <1>8. QED
    BY <1>1, <1>3, <1>4, <1>5, <1>6, <1>7 DEF TypeOK

LEMMA DepthKept ==
  ASSUME depth' = Cardinality(ListsIn(stack')), depth' > MAX_DEPTH <=> pc' = "skip"
  PROVE  DepthCounted'
  <1>1. ListsIn(stack)' = ListsIn(stack')
    BY DEF ListsIn
  <1>2. QED
    BY <1>1 DEF DepthCounted

\* Lengths, and the depth cap as a bound on depth.
LEMMA Bounds ==
  ASSUME IInv
  PROVE  /\ Len(tokens) \in Nat /\ Len(heap) \in Nat /\ MAX_DEPTH \in Nat
         /\ depth \in Nat /\ depth <= MAX_DEPTH + 1
         /\ pc # "skip" => depth <= MAX_DEPTH
         /\ pc \notin {"top", "done"} => stack # <<>>
  <1>1. Len(tokens) \in Nat /\ Len(heap) \in Nat
    BY LenProperties DEF IInv, TypeOK
  <1>2. MAX_DEPTH \in Nat /\ depth \in 0..MAX_DEPTH + 1
    BY ReaderAssumption DEF IInv, TypeOK
  <1>3. pc # "skip" => depth <= MAX_DEPTH
    BY <1>2 DEF IInv, DepthCounted
  <1>4. pc \notin {"top", "done"} => stack # <<>>
    BY DEF IInv, TypeOK, Nested
  <1>5. QED
    BY <1>1, <1>2, <1>3, <1>4

\* A diagnostic is typed.
LEMMA ErrorTyped ==
  ASSUME IInv, NEW kind \in ErrorKinds, NEW at \in Index
  PROVE  Append(errors, [kind |-> kind, at |-> at]) \in Seq(ErrorType)
  <1>1. [kind |-> kind, at |-> at] \in ErrorType
    BY DEF ErrorType
  <1>2. QED
    BY <1>1, AppendProperties DEF IInv, TypeOK

\* The innermost call and the calls around it.
LEMMA TopTyped ==
  ASSUME IInv, stack # <<>>
  PROVE  /\ top \in FrameType(Len(heap)) /\ top = stack[Len(stack)]
         /\ Front(stack) \in Seq(FrameType(Len(heap)))
         /\ top.fn \in FrameKinds /\ top.at \in Index /\ top.items \in Seq(1..Len(heap))
         /\ top.tail \in 0..Len(heap) /\ top.dot \in 0..Len(tokens)
         /\ top.after \in 0..Len(tokens) /\ top.arg \in 0..Len(heap)
         /\ top.nesting \in Nat /\ top.end \in 0..Len(tokens)
  <1>1. stack \in Seq(FrameType(Len(heap)))
    BY DEF IInv, TypeOK
  <1>2. /\ top \in FrameType(Len(heap)) /\ top = stack[Len(stack)]
        /\ Front(stack) \in Seq(FrameType(Len(heap)))
    BY <1>1, LastFront DEF top
  <1>3. QED
    BY <1>2 DEF FrameType

\* A call is pushed that is not a list's.
LEMMA CallPushed ==
  ASSUME IInv, NEW fn \in FrameKinds \ {"list", "skip"}, NEW at \in Index,
         pc \in {"top", "datum"}, fn = "top" <=> pc = "top",
         call(Frame(fn, at))
  PROVE  /\ stack' \in Seq(FrameType(Len(heap))) /\ pc' = "datum" /\ Nested(stack', pc')
         /\ Cardinality(ListsIn(stack')) = depth /\ depth <= MAX_DEPTH
  <1> DEFINE f == Frame(fn, at)
  <1>1. f \in FrameType(Len(heap)) /\ f.fn = fn
    BY Bounds, NewFrame
  <1>2. stack' = Append(stack, f) /\ pc' = "datum"
    BY DEF call
  <1> HIDE DEF f
  <1>3. stack \in Seq(FrameType(Len(heap))) /\ Nested(stack, pc)
    BY DEF IInv, TypeOK
  <1>4. Nested(Append(stack, f), "datum")
    BY <1>1, <1>3, NestedPush
  <1>5. ~IsList(f)
    BY <1>1 DEF IsList
  <1>6. Cardinality(ListsIn(stack')) = depth
    BY <1>1, <1>2, <1>3, <1>5, ListsPush DEF IInv, DepthCounted
  <1>7. QED
    BY <1>1, <1>2, <1>3, <1>4, <1>6, AppendProperties, Bounds

\* A call that is not a list's returns.
LEMMA CallPopped ==
  ASSUME IInv, pc = "return", ~IsList(top), stack' = Front(stack), NEW q,
         IF top.fn = "top" THEN q \in {"top", "done"} ELSE q \in {"datum", "return"}
  PROVE  /\ stack' \in Seq(FrameType(Len(heap))) /\ Nested(stack', q)
         /\ Cardinality(ListsIn(stack')) = depth /\ depth <= MAX_DEPTH
  <1>1. stack # <<>> /\ depth <= MAX_DEPTH
    BY Bounds
  <1>2. stack \in Seq(FrameType(Len(heap))) /\ Nested(stack, pc)
    BY DEF IInv, TypeOK
  <1>3. top = Last(stack)
    BY DEF top
  <1>4. Nested(Front(stack), q)
    BY <1>1, <1>2, <1>3, NestedPop
  <1>5. Cardinality(ListsIn(Front(stack))) = depth
    BY <1>1, <1>2, <1>3, ListsPop DEF IInv, DepthCounted
  <1>6. QED
    BY <1>1, <1>4, <1>5, TopTyped

\* The innermost call goes on, with new locals.
LEMMA CallResumed ==
  ASSUME IInv, stack # <<>>, NEW f \in FrameType(Len(heap)), NEW q,
         resume(f),
         f.fn = "top" <=> top.fn = "top", f.fn = "skip" <=> top.fn = "skip",
         f.fn = "list" <=> top.fn = "list",
         q \in {"datum", "list", "skip"}, q = "skip" <=> pc = "skip",
         q = "list" => f.fn = "list"
  PROVE  /\ stack' \in Seq(FrameType(Len(heap))) /\ Nested(stack', q)
         /\ Cardinality(ListsIn(stack')) = depth
  <1>1. stack' = [stack EXCEPT ![Len(stack)] = f]
    BY DEF resume
  <1>2. stack \in Seq(FrameType(Len(heap))) /\ Nested(stack, pc)
    BY DEF IInv, TypeOK
  <1>3. top = Last(stack)
    BY DEF top
  <1>4. Nested(stack', q)
    BY <1>1, <1>2, <1>3, NestedReplace
  <1>5. IsList(f) <=> IsList(top)
    BY DEF IsList
  <1>6. ListsIn(stack') = ListsIn(stack)
    BY <1>1, <1>2, <1>3, <1>5, ListsReplace
  <1>7. stack' \in Seq(FrameType(Len(heap)))
    BY <1>1, <1>2, ReplaceLast
  <1>8. QED
    BY <1>4, <1>6, <1>7 DEF IInv, DepthCounted

-----------------------------------------------------------------------------
(* Data are only ever added.                                               *)

LEMMA NewNode ==
  ASSUME IInv, NEW kind \in NodeKinds, NEW n \in Nat, NEW first \in Index,
         NEW end \in 0..Len(tokens), NEW items \in Seq(1..n)
  PROVE  Node(kind, first, end, items) \in NodeType(n)
  <1>1. 0 \in 0..Len(tokens) /\ 0 \in 0..n
    BY Bounds
  <1>2. QED
    BY <1>1 DEF Node, NodeType, None

\* The end of a datum that exists.
LEMMA EndTyped ==
  ASSUME IInv, NEW d \in Ids
  PROVE  /\ heap[d] \in NodeType(Len(heap)) /\ heap[d].first \in Index
         /\ heap[d].end \in 0..Len(tokens)
  <1>1. heap[d] \in NodeType(Len(heap))
    BY ElementOfSeq DEF IInv, TypeOK, Ids
  <1>2. QED
    BY <1>1 DEF NodeType

\* One more datum: what referred to the data so far still has its type.
LEMMA HeapGrows ==
  ASSUME IInv, NEW m \in {Len(heap) + 1, Len(heap) + 2}
  PROVE  /\ data \in Seq(1..m) /\ heap \in Seq(NodeType(m))
         /\ Seq(FrameType(Len(heap))) \subseteq Seq(FrameType(m))
         /\ NodeType(Len(heap)) \subseteq NodeType(m)
         /\ 0..Len(heap) \subseteq 0..m
  <1>1. Len(heap) \in Nat /\ m \in Nat /\ Len(heap) <= m
    BY Bounds
  <1>2. /\ Seq(1..Len(heap)) \subseteq Seq(1..m)
        /\ NodeType(Len(heap)) \subseteq NodeType(m)
        /\ Seq(NodeType(Len(heap))) \subseteq Seq(NodeType(m))
        /\ Seq(FrameType(Len(heap))) \subseteq Seq(FrameType(m))
    BY <1>1, TypesGrow
  <1>3. data \in Seq(1..Len(heap)) /\ heap \in Seq(NodeType(Len(heap)))
    BY DEF IInv, TypeOK, Ids
  <1>4. QED
    BY <1>1, <1>2, <1>3

LEMMA OneAdded ==
  ASSUME IInv, NEW n \in NodeType(Len(heap) + 1), heap' = Append(heap, n)
  PROVE  /\ Len(heap') = Len(heap) + 1 /\ heap' \in Seq(NodeType(Len(heap')))
         /\ data \in Seq(1..Len(heap'))
         /\ Seq(FrameType(Len(heap))) \subseteq Seq(FrameType(Len(heap')))
         /\ Len(heap) + 1 \in 1..Len(heap') /\ Len(heap) + 1 # None
  <1>1. /\ data \in Seq(1..Len(heap) + 1) /\ heap \in Seq(NodeType(Len(heap) + 1))
        /\ Seq(FrameType(Len(heap))) \subseteq Seq(FrameType(Len(heap) + 1))
    BY HeapGrows
  <1>2. heap' \in Seq(NodeType(Len(heap) + 1)) /\ Len(heap') = Len(heap) + 1
    BY <1>1, AppendProperties
  <1>3. QED
    BY <1>1, <1>2, Bounds DEF None

\* Folding keeps a list a datum.
LEMMA FoldTyped ==
  ASSUME IInv, NEW list \in NodeType(Len(heap))
  PROVE  FoldLonghand(list) \in NodeType(Len(heap))
  <1>1. CASE folds(list)
    <2>1. list.items \in Seq(1..Len(heap)) /\ Len(list.items) = 2
          /\ list.first \in Index /\ list.end \in 0..Len(tokens)
      BY <1>1 DEF folds, pair, NodeType
    <2>2. list.items[2] \in 1..Len(heap)
      BY <2>1, ElementOfSeq
    <2>3. <<list.items[2]>> \in Seq(1..Len(heap))
      BY <2>2
    <2>4. FoldLonghand(list) = Node("prefix", list.first, list.end, <<list.items[2]>>)
      BY <1>1 DEF FoldLonghand
    <2>5. QED
      BY <2>1, <2>3, <2>4, Bounds, NewNode DEF NodeKinds
  <1>2. CASE ~folds(list)
    <2>1. None \in 0..Len(tokens)
      BY Bounds DEF None
    <2>2. [list EXCEPT !.dot = None] \in NodeType(Len(heap))
      BY <2>1 DEF NodeType
    <2>3. FoldLonghand(list) = list \/ FoldLonghand(list) = [list EXCEPT !.dot = None]
      BY <1>2 DEF FoldLonghand
    <2>4. QED
      BY <2>2, <2>3
  <1>3. QED
    BY <1>1, <1>2

\* finish_list returns, from any of its four ways out.
LEMMA Completed ==
  ASSUME IInv, pc \in {"list", "skip", "return"}, IsList(top),
         NEW list \in NodeType(Len(heap)), Complete(list), UNCHANGED <<input, data>>,
         pos' \in 1..Len(tokens) + 1, errors' \in Seq(ErrorType)
  PROVE  TypeOK' /\ DepthCounted'
  <1>1. stack # <<>> /\ Len(heap) \in Nat
    BY Bounds
  <1>2. stack \in Seq(FrameType(Len(heap))) /\ Nested(stack, pc)
    BY DEF IInv, TypeOK
  <1>3. top = Last(stack) /\ top.fn # "top"
    BY DEF top, IsList
  <1>4. Nested(Front(stack), "return")
    BY <1>1, <1>2, <1>3, NestedPop
  <1>5. Cardinality(ListsIn(Front(stack))) = depth - 1
        /\ Cardinality(ListsIn(Front(stack))) \in Nat
    <2>1. depth = Cardinality(ListsIn(Front(stack))) + 1
      BY <1>1, <1>2, <1>3, ListsPop DEF IInv, DepthCounted
    <2>2. Front(stack) \in Seq(FrameType(Len(heap)))
      BY <1>1, TopTyped
    <2>3. Cardinality(ListsIn(Front(stack))) \in Nat
      BY <2>2, ListsFinite
    <2>4. QED
      BY <2>1, <2>3
  <1>6. depth' = depth - 1 /\ stack' = Front(stack) /\ pc' = "return"
    BY DEF Complete, return
  <1>7. depth' \in 0..MAX_DEPTH + 1 /\ ~(depth' > MAX_DEPTH)
    BY <1>5, <1>6, Bounds
  <1>8. DepthCounted'
    BY <1>5, <1>6, <1>7, DepthKept
  <1>9. /\ heap' \in Seq(NodeType(Len(heap'))) /\ ret' \in 0..Len(heap')
        /\ data \in Seq(1..Len(heap'))
        /\ Seq(FrameType(Len(heap))) \subseteq Seq(FrameType(Len(heap')))
    <2>1. CASE tokens[list.first] \in HashOpens
      <3> DEFINE h == Node("hash", list.first, list.end, <<Len(heap) + 1>>)
      <3>1. heap' = heap \o <<list, h>> /\ ret' = Len(heap) + 2
        BY <2>1 DEF Complete, return
      <3>2. h \in NodeType(Len(heap) + 2)
        <4>1. list.first \in Index /\ list.end \in 0..Len(tokens)
          BY DEF NodeType
        <4>2. <<Len(heap) + 1>> \in Seq(1..Len(heap) + 2)
          BY <1>1
        <4>3. "hash" \in NodeKinds /\ Len(heap) + 2 \in Nat
          BY <1>1 DEF NodeKinds
        <4>4. QED
          BY <4>1, <4>2, <4>3, NewNode
      <3> HIDE DEF h
      <3>3. /\ data \in Seq(1..Len(heap) + 2) /\ heap \in Seq(NodeType(Len(heap) + 2))
            /\ Seq(FrameType(Len(heap))) \subseteq Seq(FrameType(Len(heap) + 2))
            /\ list \in NodeType(Len(heap) + 2)
        BY HeapGrows
      <3>4. <<list, h>> \in Seq(NodeType(Len(heap) + 2)) /\ Len(<<list, h>>) = 2
        BY <3>2, <3>3
      <3>5. heap' \in Seq(NodeType(Len(heap) + 2)) /\ Len(heap') = Len(heap) + 2
        BY <3>1, <3>3, <3>4, ConcatProperties
      <3>6. QED
        BY <1>1, <3>1, <3>3, <3>5
    <2>2. CASE tokens[list.first] \notin HashOpens
      <3>1. heap' = Append(heap, FoldLonghand(list)) /\ ret' = Len(heap) + 1
        BY <2>2 DEF Complete, return
      <3>2. FoldLonghand(list) \in NodeType(Len(heap) + 1)
        BY FoldTyped, HeapGrows
      <3>3. QED
        BY <1>1, <3>1, <3>2, OneAdded
    <2>3. QED
      BY <2>1, <2>2
  <1>10. stack' \in Seq(FrameType(Len(heap')))
    BY <1>1, <1>6, <1>9, TopTyped
  <1>11. Nested(stack', pc')
    BY <1>4, <1>6
  <1>12. data' = data
    OBVIOUS
  <1>13. TypeOK'
    BY <1>6, <1>7, <1>9, <1>10, <1>11, <1>12, TypesKept DEF IInv
  <1>14. QED
    BY <1>8, <1>13

-----------------------------------------------------------------------------
(* One step of parse_top_level.                                            *)

\* A step that changes neither the calls nor the data.
LEMMA CallsSame ==
  ASSUME IInv, NEW q, Nested(stack, q),
         q \in {"top", "datum", "list", "return", "done"}, pc # "skip",
         UNCHANGED <<input, depth, data, heap, stack>>, pc' = q,
         pos' \in 1..Len(tokens) + 1, errors' \in Seq(ErrorType), ret' \in 0..Len(heap)
  PROVE  TypeOK' /\ DepthCounted'
  <1>1. /\ data \in Seq(1..Len(heap)) /\ heap \in Seq(NodeType(Len(heap)))
        /\ stack \in Seq(FrameType(Len(heap))) /\ depth \in 0..MAX_DEPTH + 1
    BY DEF IInv, TypeOK, Ids
  <1>2. data' = data /\ heap' = heap /\ stack' = stack /\ depth' = depth
    OBVIOUS
  <1>3. depth <= MAX_DEPTH /\ depth = Cardinality(ListsIn(stack))
    BY Bounds DEF IInv, DepthCounted
  <1>4. TypeOK'
    BY <1>1, <1>2, TypesKept DEF IInv
  <1>5. DepthCounted'
    <2>1. ~(depth' > MAX_DEPTH)
      BY <1>2, <1>3, Bounds
    <2>2. QED
      BY <1>2, <1>3, <2>1, DepthKept
  <1>6. QED
    BY <1>4, <1>5

\* A step whose new calls are typed, and that adds no datum.
LEMMA CallsChange ==
  ASSUME IInv, UNCHANGED <<input, depth, heap>>,
         stack' \in Seq(FrameType(Len(heap))), Nested(stack', pc'),
         Cardinality(ListsIn(stack')) = depth, pc' = "skip" <=> pc = "skip",
         pc' \in {"top", "datum", "list", "skip", "return", "done"},
         data' \in Seq(Ids), pos' \in 1..Len(tokens) + 1, errors' \in Seq(ErrorType),
         ret' \in 0..Len(heap)
  PROVE  TypeOK' /\ DepthCounted'
  <1>1. heap \in Seq(NodeType(Len(heap))) /\ depth \in 0..MAX_DEPTH + 1
    BY DEF IInv, TypeOK
  <1>2. heap' = heap /\ depth' = depth /\ data' \in Seq(1..Len(heap))
    BY DEF Ids
  <1>3. depth > MAX_DEPTH <=> pc = "skip"
    BY DEF IInv, DepthCounted
  <1>4. TypeOK'
    BY <1>1, <1>2, TypesKept DEF IInv
  <1>5. DepthCounted'
    BY <1>2, <1>3, DepthKept
  <1>6. QED
    BY <1>4, <1>5

\* A call of a prefix, a label or a tag returns the datum it has built.
LEMMA CallBuilds ==
  ASSUME IInv, pc = "return", ~IsList(top), top.fn # "top",
         NEW n \in NodeType(Len(heap) + 1), heap' = Append(heap, n),
         stack' = Front(stack), pc' = "return", ret' = Len(heap) + 1,
         UNCHANGED <<input, depth, pos, data>>, errors' \in Seq(ErrorType)
  PROVE  TypeOK' /\ DepthCounted'
  <1>1. /\ stack' \in Seq(FrameType(Len(heap))) /\ Nested(stack', "return")
        /\ Cardinality(ListsIn(stack')) = depth /\ depth <= MAX_DEPTH
    BY CallPopped
  <1>2. /\ Len(heap') = Len(heap) + 1 /\ heap' \in Seq(NodeType(Len(heap')))
        /\ data \in Seq(1..Len(heap'))
        /\ Seq(FrameType(Len(heap))) \subseteq Seq(FrameType(Len(heap')))
    BY OneAdded
  <1>3. pos \in 1..Len(tokens) + 1 /\ depth \in 0..MAX_DEPTH + 1
    BY DEF IInv, TypeOK
  <1>4. pos' = pos /\ data' = data /\ depth' = depth
    OBVIOUS
  <1>5. ret' \in 0..Len(heap')
    BY <1>2, Bounds
  <1>6. stack' \in Seq(FrameType(Len(heap')))
    BY <1>1, <1>2
  <1>7. Nested(stack', pc')
    BY <1>1
  <1>8. TypeOK'
    BY <1>2, <1>3, <1>4, <1>5, <1>6, <1>7, TypesKept DEF IInv
  <1>9. ~(depth' > MAX_DEPTH)
    BY <1>1, <1>4, Bounds
  <1>10. QED
    BY <1>1, <1>4, <1>8, <1>9, DepthKept

-----------------------------------------------------------------------------
(* The invariant, one action at a time.                                    *)

LEMMA TopSteps ==
  ASSUME IInv, TopStrayClose \/ TopCall \/ TopTake \/ TopEnd
  PROVE  TypeOK' /\ DepthCounted'
  <1>1. /\ peek # EOF => pos \in Index /\ pos + 1 \in 1..Len(tokens) + 1
        /\ pos \in 1..Len(tokens) + 1 /\ errors \in Seq(ErrorType)
        /\ ret \in 0..Len(heap) /\ data \in Seq(Ids) /\ Nested(stack, pc)
    BY PeekInside DEF IInv, TypeOK
  <1>2. EOF \notin Closes
    BY DEF EOF, Closes
  <1>3. CASE TopStrayClose
    <2>1. pos \in Index /\ pos' \in 1..Len(tokens) + 1
      BY <1>1, <1>2, <1>3 DEF TopStrayClose
    <2>2. errors' \in Seq(ErrorType)
      BY <1>3, <2>1, ErrorTyped DEF TopStrayClose, error, ErrorKinds
    <2>3. ret' \in 0..Len(heap) /\ Nested(stack, "top")
      BY <1>1, <1>3 DEF TopStrayClose
    <2>4. /\ pc = "top" /\ pc' = "top"
          /\ UNCHANGED <<input, depth, data, heap, stack>>
      BY <1>3 DEF TopStrayClose
    <2>5. QED
      BY <2>1, <2>2, <2>3, <2>4, CallsSame
  <1>4. CASE TopCall
    <2>1. /\ pos \in Index /\ pc = "top" /\ call(Frame("top", pos))
          /\ UNCHANGED <<input, pos, depth, errors, data, heap, ret>>
      BY <1>1, <1>4 DEF TopCall
    <2>2. "top" \in FrameKinds \ {"list", "skip"}
      BY DEF FrameKinds
    <2>3. /\ stack' \in Seq(FrameType(Len(heap))) /\ pc' = "datum" /\ Nested(stack', pc')
          /\ Cardinality(ListsIn(stack')) = depth
      BY <2>1, <2>2, CallPushed
    <2>4. QED
      BY <1>1, <2>1, <2>3, CallsChange
  <1>5. CASE TopTake
    <2>1. /\ pc = "return" /\ top.fn = "top" /\ stack' = Front(stack)
          /\ pc' \in {"top", "done"} /\ UNCHANGED <<input, depth, errors, heap, ret>>
      BY <1>5 DEF TopTake
    <2>2. /\ stack' \in Seq(FrameType(Len(heap))) /\ Nested(stack', pc')
          /\ Cardinality(ListsIn(stack')) = depth
      BY <2>1, CallPopped DEF IsList
    <2>3. data' \in Seq(Ids) /\ pos' \in 1..Len(tokens) + 1
      <3>1. ret # None => ret \in Ids
        BY <1>1, Bounds DEF Ids, None
      <3>2. CASE ret # None
        BY <1>1, <1>5, <3>1, <3>2, AppendProperties DEF TopTake
      <3>3. CASE ret = None
        BY <1>1, <1>5, <3>3, Bounds DEF TopTake
      <3>4. QED
        BY <3>2, <3>3
    <2>4. QED
      BY <1>1, <2>1, <2>2, <2>3, CallsChange
  <1>6. CASE TopEnd
    <2>1. /\ pc = "top" /\ pc' = "done"
          /\ UNCHANGED <<input, pos, depth, errors, data, heap, stack, ret>>
      BY <1>6 DEF TopEnd
    <2>2. Nested(stack, "done")
      BY <1>1, <2>1 DEF Nested
    <2>3. QED
      BY <1>1, <2>1, <2>2, CallsSame
  <1>7. QED
    BY <1>3, <1>4, <1>5, <1>6

LEMMA DatumSteps ==
  ASSUME IInv,
         DatumNone \/ DatumMalformed \/ DatumLeaf \/ DatumOperand \/ DatumOpen
  PROVE  TypeOK' /\ DepthCounted'
  <1>1. /\ pc = "datum" /\ stack # <<>> /\ depth <= MAX_DEPTH
        /\ pos \in 1..Len(tokens) + 1 /\ errors \in Seq(ErrorType)
        /\ ret \in 0..Len(heap) /\ data \in Seq(Ids) /\ Nested(stack, pc)
        /\ stack \in Seq(FrameType(Len(heap))) /\ depth = Cardinality(ListsIn(stack))
    <2>1. pc = "datum"
      BY DEF DatumNone, DatumMalformed, DatumLeaf, DatumOperand, DatumOpen
    <2>2. QED
      BY <2>1, Bounds DEF IInv, TypeOK, DepthCounted
  <1>2. peek # EOF => pos \in Index /\ pos + 1 \in 1..Len(tokens) + 1
    BY PeekInside DEF IInv
  <1>3. Nested(stack, "datum") /\ Nested(stack, "return")
    BY <1>1, NestedSame
  <1>4. CASE DatumNone
    <2>1. /\ pc' = "return" /\ ret' = None
          /\ UNCHANGED <<input, pos, depth, errors, data, heap, stack>>
      BY <1>4 DEF DatumNone, return
    <2>2. ret' \in 0..Len(heap)
      BY <2>1, Bounds DEF None
    <2>3. QED
      BY <1>1, <1>3, <2>1, <2>2, CallsSame
  <1>5. CASE DatumMalformed
    <2>1. /\ pos' = pos + 1 /\ error("MalformedToken", pos) /\ peek = Malformed
          /\ UNCHANGED <<input, depth, data, heap, stack, pc, ret>>
      BY <1>5 DEF DatumMalformed
    <2>2. pos \in Index /\ pos' \in 1..Len(tokens) + 1
      BY <1>2, <2>1 DEF Malformed, EOF
    <2>3. errors' \in Seq(ErrorType)
      BY <2>1, <2>2, ErrorTyped DEF error, ErrorKinds
    <2>4. QED
      BY <1>1, <1>3, <2>1, <2>2, <2>3, CallsSame
  <1>6. CASE DatumLeaf
    <2>1. /\ pos' = pos + 1 /\ heap' = Append(heap, Node("leaf", pos, pos, <<>>))
          /\ pc' = "return" /\ ret' = Len(heap) + 1 /\ peek \in Leaves
          /\ UNCHANGED <<input, depth, errors, data, stack>>
      BY <1>6 DEF DatumLeaf, return
    <2>2. pos \in Index /\ pos' \in 1..Len(tokens) + 1
      BY <1>2, <2>1 DEF Leaves, EOF
    <2>3. Node("leaf", pos, pos, <<>>) \in NodeType(Len(heap) + 1)
      <3>1. pos \in 0..Len(tokens) /\ Len(heap) + 1 \in Nat /\ <<>> \in Seq(1..Len(heap) + 1)
        BY <2>2, Bounds DEF Index
      <3>2. QED
        BY <2>2, <3>1, NewNode DEF NodeKinds
    <2>4. /\ Len(heap') = Len(heap) + 1 /\ heap' \in Seq(NodeType(Len(heap')))
          /\ data \in Seq(1..Len(heap'))
          /\ Seq(FrameType(Len(heap))) \subseteq Seq(FrameType(Len(heap')))
      BY <2>1, <2>3, OneAdded
    <2>5. stack' \in Seq(FrameType(Len(heap'))) /\ Nested(stack', pc')
      BY <1>1, <1>3, <2>1, <2>4
    <2>6. ret' \in 0..Len(heap') /\ depth' \in 0..MAX_DEPTH + 1
      BY <1>1, <2>1, <2>4, Bounds
    <2>7. data' = data /\ errors' = errors /\ depth' = depth /\ stack' = stack
      BY <2>1
    <2>8. TypeOK'
      BY <1>1, <2>1, <2>2, <2>4, <2>5, <2>6, <2>7, TypesKept DEF IInv
    <2>9. ~(depth' > MAX_DEPTH)
      BY <1>1, <2>7, Bounds
    <2>10. QED
      BY <1>1, <2>1, <2>7, <2>8, <2>9, DepthKept
  <1>7. CASE DatumOperand
    <2>1. pos' = pos + 1 /\ UNCHANGED <<input, depth, errors, data, heap, ret>>
      BY <1>7 DEF DatumOperand
    <2>2. \E fn \in {"discard", "prefix", "arg", "label", "tag"} : call(Frame(fn, pos))
      BY <1>7 DEF DatumOperand
    <2>3. PICK fn \in {"discard", "prefix", "arg", "label", "tag"} : call(Frame(fn, pos))
      BY <2>2
    <2>4. peek # EOF
      BY <1>7 DEF DatumOperand, Generic, TwoOperands, Label, Tag, EOF
    <2>5. pos \in Index /\ pos' \in 1..Len(tokens) + 1
      BY <1>2, <2>1, <2>4
    <2>6. fn \in FrameKinds \ {"list", "skip"} /\ (fn = "top" <=> pc = "top")
      BY <1>1 DEF FrameKinds
    <2>7. /\ stack' \in Seq(FrameType(Len(heap))) /\ pc' = "datum" /\ Nested(stack', pc')
          /\ Cardinality(ListsIn(stack')) = depth
      BY <1>1, <2>3, <2>5, <2>6, CallPushed
    <2>8. QED
      BY <1>1, <2>1, <2>5, <2>7, CallsChange
  <1>8. CASE DatumOpen
    <2>1. /\ pos' = pos + 1 /\ depth' = depth + 1 /\ peek \in Opens \union HashOpens
          /\ UNCHANGED <<input, data, heap, ret>>
      BY <1>8 DEF DatumOpen
    <2>2. pos \in Index /\ pos' \in 1..Len(tokens) + 1
      BY <1>2, <2>1 DEF Opens, HashOpens, EOF
    <2>3. PICK f \in FrameType(Len(heap)) :
            /\ stack' = Append(stack, f)
            /\ IF depth' > MAX_DEPTH THEN f.fn = "skip" /\ pc' = "skip"
                                     ELSE f.fn = "list" /\ pc' = "list"
      <3>1. CASE depth' > MAX_DEPTH
        <4>1. Frame("skip", pos) \in FrameType(Len(heap))
              /\ Frame("skip", pos).fn = "skip"
          BY <2>2, Bounds, NewFrame DEF FrameKinds
        <4>2. [Frame("skip", pos) EXCEPT !.nesting = 1] \in FrameType(Len(heap))
              /\ [Frame("skip", pos) EXCEPT !.nesting = 1].fn = "skip"
          BY <4>1 DEF FrameType
        <4>3. stack' = Append(stack, [Frame("skip", pos) EXCEPT !.nesting = 1])
              /\ pc' = "skip"
          BY <1>8, <3>1 DEF DatumOpen, TooDeep
        <4>4. QED
          BY <3>1, <4>2, <4>3
      <3>2. CASE ~(depth' > MAX_DEPTH)
        <4>1. Frame("list", pos) \in FrameType(Len(heap))
              /\ Frame("list", pos).fn = "list"
          BY <2>2, Bounds, NewFrame DEF FrameKinds
        <4>2. stack' = Append(stack, Frame("list", pos)) /\ pc' = "list"
          BY <1>8, <3>2 DEF DatumOpen, TooDeep
        <4>3. QED
          BY <3>2, <4>1, <4>2
      <3>3. QED
        BY <3>1, <3>2
    <2>4. errors' \in Seq(ErrorType)
      <3>1. Append(errors, [kind |-> "DepthLimitExceeded", at |-> pos]) \in Seq(ErrorType)
        BY <2>2, ErrorTyped DEF ErrorKinds
      <3>2. errors' = errors
            \/ errors' = Append(errors, [kind |-> "DepthLimitExceeded", at |-> pos])
        BY <1>8 DEF DatumOpen, error
      <3>3. QED
        BY <1>1, <3>1, <3>2
    <2>5. Nested(stack', pc')
      BY <1>1, <2>3, NestedPush
    <2>6. Cardinality(ListsIn(stack')) = depth + 1
      BY <1>1, <2>3, ListsPush DEF IsList
    <2>7. stack' \in Seq(FrameType(Len(heap)))
      BY <1>1, <2>3, AppendProperties
    <2>8. depth' \in 0..MAX_DEPTH + 1
      BY <1>1, <2>1, Bounds
    <2>9. heap \in Seq(NodeType(Len(heap))) /\ data \in Seq(1..Len(heap))
      BY DEF IInv, TypeOK, Ids
    <2>10. heap' = heap /\ data' = data /\ ret' = ret
      BY <2>1
    <2>11. pc' \in {"skip", "list"}
      BY <2>3
    <2>12. TypeOK'
      BY <1>1, <2>1, <2>2, <2>4, <2>5, <2>7, <2>8, <2>9, <2>10, <2>11, TypesKept DEF IInv
    <2>13. QED
      BY <2>1, <2>3, <2>6, <2>12, DepthKept
  <1>9. QED
    BY <1>4, <1>5, <1>6, <1>7, <1>8

LEMMA OperandSteps ==
  ASSUME IInv, DiscardTake \/ ArgTake \/ PrefixTake \/ TagTake
  PROVE  TypeOK' /\ DepthCounted'
  <1>1. pc = "return" /\ stack # <<>> /\ top.fn \in {"discard", "arg", "prefix", "label", "tag"}
    <2>1. pc = "return" /\ top.fn \in {"discard", "arg", "prefix", "label", "tag"}
      BY DEF DiscardTake, ArgTake, PrefixTake, TagTake
    <2>2. QED
      BY <2>1, Bounds
  <1>2. /\ pos \in 1..Len(tokens) + 1 /\ errors \in Seq(ErrorType) /\ data \in Seq(Ids)
        /\ ret \in 0..Len(heap) /\ depth <= MAX_DEPTH
    BY <1>1, Bounds DEF IInv, TypeOK
  <1>3. ~IsList(top) /\ top.fn # "top"
    BY <1>1 DEF IsList
  <1>4. top \in FrameType(Len(heap)) /\ top.at \in Index /\ top.arg \in 0..Len(heap)
    BY <1>1, TopTyped
  <1>5. ret # None => ret \in Ids /\ heap[ret].end \in 0..Len(tokens)
    BY <1>2, Bounds, EndTyped DEF Ids, None
  <1>6. \A kind \in ErrorKinds :
          Append(errors, [kind |-> kind, at |-> top.at]) \in Seq(ErrorType)
    BY <1>4, ErrorTyped
  <1>7. "DanglingPrefix" \in ErrorKinds /\ "DanglingLabel" \in ErrorKinds
        /\ "DanglingTag" \in ErrorKinds
    BY DEF ErrorKinds
  <1>8. CASE DiscardTake
    <2>1. /\ stack' = Front(stack) /\ pc' = "datum"
          /\ UNCHANGED <<input, pos, depth, data, heap, ret>>
      BY <1>8 DEF DiscardTake
    <2>2. /\ stack' \in Seq(FrameType(Len(heap))) /\ Nested(stack', "datum")
          /\ Cardinality(ListsIn(stack')) = depth
      BY <1>1, <1>3, <2>1, CallPopped
    <2>3. errors' \in Seq(ErrorType)
      BY <1>2, <1>6, <1>7, <1>8 DEF DiscardTake, error
    <2>4. QED
      BY <1>1, <1>2, <2>1, <2>2, <2>3, CallsChange
  <1>9. CASE ArgTake
    <2>1. /\ resume([top EXCEPT !.fn = "prefix", !.arg = ret]) /\ pc' = "datum"
          /\ top.fn = "arg" /\ UNCHANGED <<input, pos, depth, errors, data, heap, ret>>
      BY <1>9 DEF ArgTake
    <2>2. /\ [top EXCEPT !.fn = "prefix", !.arg = ret] \in FrameType(Len(heap))
          /\ [top EXCEPT !.fn = "prefix", !.arg = ret].fn = "prefix"
      BY <1>2, <1>4 DEF FrameType, FrameKinds
    <2> DEFINE f == [top EXCEPT !.fn = "prefix", !.arg = ret]
    <2>3. f \in FrameType(Len(heap)) /\ f.fn = "prefix" /\ resume(f)
      BY <2>1, <2>2
    <2> HIDE DEF f
    <2>4. /\ stack' \in Seq(FrameType(Len(heap))) /\ Nested(stack', "datum")
          /\ Cardinality(ListsIn(stack')) = depth
      BY <1>1, <2>1, <2>3, CallResumed
    <2>5. QED
      BY <1>1, <1>2, <2>1, <2>4, CallsChange
  <1>10. CASE PrefixTake
    <2>1. /\ stack' = Front(stack) /\ UNCHANGED <<input, pos, depth, data>>
          /\ top.fn \in {"prefix", "label"}
      BY <1>10 DEF PrefixTake
    <2>2. CASE ret # None
      <3> DEFINE n == [Node(top.fn, top.at, heap[ret].end, <<ret>>) EXCEPT !.arg = top.arg]
      <3>1. heap' = Append(heap, n) /\ pc' = "return" /\ ret' = Len(heap) + 1
            /\ errors' = errors
        BY <1>10, <2>2 DEF PrefixTake, return
      <3>2. Node(top.fn, top.at, heap[ret].end, <<ret>>) \in NodeType(Len(heap) + 1)
        <4>1. ret \in 1..Len(heap) + 1 /\ Len(heap) + 1 \in Nat
          BY <1>5, <2>2, Bounds DEF Ids
        <4>2. <<ret>> \in Seq(1..Len(heap) + 1) /\ top.fn \in NodeKinds
          BY <2>1, <4>1 DEF NodeKinds
        <4>3. QED
          BY <1>4, <1>5, <2>2, <4>1, <4>2, NewNode
      <3>3. top.arg \in 0..Len(heap) + 1
        BY <1>4, Bounds
      <3>4. n \in NodeType(Len(heap) + 1)
        BY <3>2, <3>3 DEF NodeType
      <3> HIDE DEF n
      <3>5. QED
        BY <1>1, <1>2, <1>3, <2>1, <3>1, <3>4, CallBuilds
    <2>3. CASE ret = None
      <3>1. pc' = "return" /\ ret' = None /\ heap' = heap
        BY <1>10, <2>3 DEF PrefixTake, return
      <3>2. errors' \in Seq(ErrorType)
        BY <1>6, <1>7, <1>10, <2>3 DEF PrefixTake, error
      <3>3. /\ stack' \in Seq(FrameType(Len(heap))) /\ Nested(stack', "return")
            /\ Cardinality(ListsIn(stack')) = depth
        BY <1>1, <1>3, <2>1, CallPopped
      <3>4. ret' \in 0..Len(heap)
        BY <3>1, Bounds DEF None
      <3>5. QED
        BY <1>1, <1>2, <2>1, <3>1, <3>2, <3>3, <3>4, CallsChange
    <2>4. QED
      BY <2>2, <2>3
  <1>11. CASE TagTake
    <2>1. /\ stack' = Front(stack) /\ pc' = "return" /\ ret' = Len(heap) + 1
          /\ UNCHANGED <<input, pos, depth, data>>
      BY <1>11 DEF TagTake, return
    <2>2. errors' \in Seq(ErrorType)
      BY <1>2, <1>6, <1>7, <1>11 DEF TagTake, error
    <2>3. PICK n \in NodeType(Len(heap) + 1) : heap' = Append(heap, n)
      <3>1. "hash" \in NodeKinds /\ Len(heap) + 1 \in Nat
        BY Bounds DEF NodeKinds
      <3>2. CASE ret # None
        <4>1. <<ret>> \in Seq(1..Len(heap) + 1)
          BY <1>5, <3>1, <3>2, Bounds DEF Ids
        <4>2. Node("hash", top.at, heap[ret].end, <<ret>>) \in NodeType(Len(heap) + 1)
          BY <1>4, <1>5, <3>1, <3>2, <4>1, NewNode
        <4>3. QED
          BY <1>11, <3>2, <4>2 DEF TagTake
      <3>3. CASE ret = None
        <4>1. <<>> \in Seq(1..Len(heap) + 1) /\ top.at \in 0..Len(tokens)
          BY <1>4, Bounds DEF Index
        <4>2. Node("hash", top.at, top.at, <<>>) \in NodeType(Len(heap) + 1)
          BY <1>4, <3>1, <4>1, NewNode
        <4>3. QED
          BY <1>11, <3>3, <4>2 DEF TagTake
      <3>4. QED
        BY <3>2, <3>3
    <2>4. QED
      BY <1>1, <1>3, <2>1, <2>2, <2>3, CallBuilds
  <1>12. QED
    BY <1>8, <1>9, <1>10, <1>11

\* The list a frame has read, and where it ends.
LEMMA ListTyped ==
  ASSUME IInv, stack # <<>>, NEW end \in 0..Len(tokens)
  PROVE  List(top, end) \in NodeType(Len(heap))
  <1>1. /\ top.at \in Index /\ top.items \in Seq(1..Len(heap))
        /\ top.tail \in 0..Len(heap) /\ top.dot \in 0..Len(tokens)
    BY TopTyped
  <1>2. Node("list", top.at, end, top.items) \in NodeType(Len(heap))
    BY <1>1, Bounds, NewNode DEF NodeKinds
  <1>3. QED
    BY <1>1, <1>2 DEF List, NodeType

LEMMA UnclosedEndTyped ==
  ASSUME IInv, stack # <<>>
  PROVE  UnclosedEnd(top) \in 0..Len(tokens)
  <1>1. top.at \in Index /\ top.items \in Seq(1..Len(heap))
    BY TopTyped
  <1>2. CASE top.items = <<>>
    BY <1>1, <1>2, Bounds DEF UnclosedEnd, Index
  <1>3. CASE top.items # <<>>
    <2>1. Last(top.items) \in Ids
      BY <1>1, <1>3, LastFront DEF Ids
    <2>2. QED
      BY <1>3, <2>1, EndTyped DEF UnclosedEnd
  <1>4. QED
    BY <1>2, <1>3

LEMMA ItemsWithTailTyped ==
  ASSUME IInv, stack # <<>>
  PROVE  ItemsWithTail(top) \in Seq(1..Len(heap))
  <1>1. top.tail \in 0..Len(heap) /\ top.items \in Seq(1..Len(heap))
    BY TopTyped
  <1>2. top.tail # None => top.tail \in 1..Len(heap)
    BY <1>1, Bounds DEF None
  <1>3. QED
    BY <1>1, <1>2, AppendProperties DEF ItemsWithTail

LEMMA ListSteps ==
  ASSUME IInv, ListEof \/ ListClose \/ ListDot \/ ListTakeTail \/ ListItem
                 \/ ListTakeItem \/ ListNoItem
  PROVE  TypeOK' /\ DepthCounted'
  <1>1. /\ pc \in {"list", "return"} /\ stack # <<>> /\ Nested(stack, pc)
        /\ top.fn = "list" /\ depth <= MAX_DEPTH
    <2>1. pc = "list" \/ (pc = "return" /\ top.fn = "list")
      <3>1. ListEof \/ ListClose \/ ListDot \/ ListItem => pc = "list"
        BY DEF ListEof, ListClose, ListDot, ListItem
      <3>2. ListTakeTail => pc = "return" /\ top.fn = "list"
        BY DEF ListTakeTail
      <3>3. ListTakeItem => pc = "return" /\ top.fn = "list"
        BY DEF ListTakeItem
      <3>4. ListNoItem => pc = "return" /\ top.fn = "list"
        BY DEF ListNoItem
      <3>5. QED
        BY <3>1, <3>2, <3>3, <3>4
    <2>2. stack # <<>> /\ Nested(stack, pc)
      BY <2>1, Bounds DEF IInv, TypeOK
    <2>3. pc = "list" => top.fn = "list"
      BY <2>2 DEF Nested, top
    <2>4. QED
      BY <2>1, <2>2, <2>3, Bounds
  <1>2. /\ pos \in 1..Len(tokens) + 1 /\ errors \in Seq(ErrorType) /\ data \in Seq(Ids)
        /\ ret \in 0..Len(heap)
    BY DEF IInv, TypeOK
  <1>3. IsList(top)
    BY <1>1 DEF IsList
  <1>4. /\ top.at \in Index /\ top.items \in Seq(1..Len(heap)) /\ top.tail \in 0..Len(heap)
        /\ top.dot \in 0..Len(tokens) /\ top.after \in 0..Len(tokens)
        /\ top \in FrameType(Len(heap))
    BY <1>1, TopTyped
  <1>5. \A kind \in ErrorKinds, at \in Index :
          Append(errors, [kind |-> kind, at |-> at]) \in Seq(ErrorType)
    BY ErrorTyped
  <1>6. {"UnclosedList", "MismatchedDelimiter", "ItemAfterDottedTail", "DanglingDot"}
          \subseteq ErrorKinds
    BY DEF ErrorKinds
  <1>7. peek # EOF => pos \in Index /\ pos + 1 \in 1..Len(tokens) + 1
    BY PeekInside DEF IInv
  <1>8. Nested(stack, "datum") /\ Nested(stack, "list")
    BY <1>1, NestedSame DEF top
  <1>9. List(top, UnclosedEnd(top)) \in NodeType(Len(heap))
    BY <1>1, UnclosedEndTyped, ListTyped
  <1>10. CASE ListEof
    <2>1. /\ error("UnclosedList", top.at) /\ Complete(List(top, UnclosedEnd(top)))
          /\ UNCHANGED <<input, pos, data>>
      BY <1>10 DEF ListEof
    <2>2. errors' \in Seq(ErrorType)
      BY <1>4, <1>5, <1>6, <2>1 DEF error
    <2>3. pos' \in 1..Len(tokens) + 1
      BY <1>2, <2>1
    <2>4. QED
      BY <1>1, <1>3, <1>9, <2>1, <2>2, <2>3, Completed
  <1>11. CASE ListClose
    <2>1. /\ pos' = pos + 1 /\ peek \in Closes /\ Complete(List(top, pos))
          /\ UNCHANGED <<input, data>>
      BY <1>11 DEF ListClose
    <2>2. pos \in Index /\ pos' \in 1..Len(tokens) + 1
      BY <1>7, <2>1 DEF Closes, EOF
    <2>3. errors' \in Seq(ErrorType)
      <3>1. errors' = errors \/ error("MismatchedDelimiter", pos)
        BY <1>11 DEF ListClose
      <3>2. QED
        BY <1>2, <1>5, <1>6, <2>2, <3>1 DEF error
    <2>4. List(top, pos) \in NodeType(Len(heap))
      BY <1>1, <2>2, ListTyped, Bounds DEF Index
    <2>5. QED
      BY <1>1, <1>3, <2>1, <2>2, <2>3, <2>4, Completed
  <1>12. CASE ListDot
    <2>1. /\ pos' = pos + 1 /\ peek = "." /\ pc = "list" /\ pc' = "datum"
          /\ resume([top EXCEPT !.items = ItemsWithTail(top), !.tail = None, !.after = pos])
          /\ UNCHANGED <<input, depth, data, heap, ret>>
      BY <1>12 DEF ListDot, IsDot
    <2>2. pos \in Index /\ pos' \in 1..Len(tokens) + 1
      BY <1>7, <2>1 DEF EOF
    <2>3. errors' \in Seq(ErrorType)
      <3>1. errors' = errors \/ error("ItemAfterDottedTail", pos)
        BY <1>12 DEF ListDot
      <3>2. QED
        BY <1>2, <1>5, <1>6, <2>2, <3>1 DEF error
    <2>4. PICK f \in FrameType(Len(heap)) : f.fn = "list" /\ resume(f)
      <3> DEFINE f == [top EXCEPT !.items = ItemsWithTail(top), !.tail = None, !.after = pos]
      <3>1. ItemsWithTail(top) \in Seq(1..Len(heap)) /\ pos \in 0..Len(tokens)
            /\ None \in 0..Len(heap)
        BY <1>1, <2>2, Bounds, ItemsWithTailTyped DEF Index, None
      <3>2. f \in FrameType(Len(heap)) /\ f.fn = "list"
        BY <1>1, <1>4, <3>1 DEF FrameType
      <3>3. resume(f)
        BY <2>1
      <3>4. QED
        BY <3>2, <3>3
    <2>5. /\ stack' \in Seq(FrameType(Len(heap))) /\ Nested(stack', "datum")
          /\ Cardinality(ListsIn(stack')) = depth
      BY <1>1, <2>1, <2>4, CallResumed
    <2>6. QED
      BY <1>2, <2>1, <2>2, <2>3, <2>5, CallsChange
  <1>13. CASE ListTakeTail
    <2>1. /\ pc = "return" /\ pc' = "list" /\ top.after # None
          /\ UNCHANGED <<input, pos, depth, data, heap, ret>>
      BY <1>13 DEF ListTakeTail
    <2>2. top.after \in Index
      BY <1>4, <2>1, Bounds DEF Index, None
    <2>3. errors' \in Seq(ErrorType)
      <3>1. errors' = errors \/ error("DanglingDot", top.after)
        BY <1>13 DEF ListTakeTail
      <3>2. QED
        BY <1>2, <1>5, <1>6, <2>2, <3>1 DEF error
    <2>4. PICK f \in FrameType(Len(heap)) : f.fn = "list" /\ resume(f)
      <3>1. None \in 0..Len(tokens)
        BY Bounds DEF None
      <3>2. CASE ret # None
        <4> DEFINE f == [top EXCEPT !.tail = ret, !.dot = top.after, !.after = None]
        <4>1. f \in FrameType(Len(heap)) /\ f.fn = "list"
          BY <1>1, <1>2, <1>4, <3>1 DEF FrameType
        <4>2. resume(f)
          BY <1>13, <3>2 DEF ListTakeTail
        <4>3. QED
          BY <4>1, <4>2
      <3>3. CASE ret = None
        <4> DEFINE f == [top EXCEPT !.after = None]
        <4>1. f \in FrameType(Len(heap)) /\ f.fn = "list"
          BY <1>1, <1>4, <3>1 DEF FrameType
        <4>2. resume(f)
          BY <1>13, <3>3 DEF ListTakeTail
        <4>3. QED
          BY <4>1, <4>2
      <3>4. QED
        BY <3>2, <3>3
    <2>5. /\ stack' \in Seq(FrameType(Len(heap))) /\ Nested(stack', "list")
          /\ Cardinality(ListsIn(stack')) = depth
      BY <1>1, <2>1, <2>4, CallResumed
    <2>6. QED
      BY <1>2, <2>1, <2>3, <2>5, CallsChange
  <1>14. CASE ListItem
    <2>1. /\ pc = "list" /\ pc' = "datum"
          /\ UNCHANGED <<input, pos, depth, errors, data, heap, stack, ret>>
      BY <1>14 DEF ListItem
    <2>2. QED
      BY <1>2, <1>8, <2>1, CallsSame
  <1>15. CASE ListTakeItem
    <2>1. /\ pc = "return" /\ pc' = "list" /\ ret # None
          /\ UNCHANGED <<input, pos, depth, data, heap, ret>>
      BY <1>15 DEF ListTakeItem
    <2>2. ret \in Ids
      BY <1>2, <2>1, Bounds DEF Ids, None
    <2>3. errors' \in Seq(ErrorType)
      <3>1. errors' = errors \/ error("ItemAfterDottedTail", heap[ret].first)
        BY <1>15 DEF ListTakeItem
      <3>2. heap[ret].first \in Index
        BY <2>2, EndTyped
      <3>3. QED
        BY <1>2, <1>5, <1>6, <3>1, <3>2 DEF error
    <2>4. PICK f \in FrameType(Len(heap)) : f.fn = "list" /\ resume(f)
      <3> DEFINE f == [top EXCEPT !.items = Append(ItemsWithTail(top), ret),
                                  !.tail = None,
                                  !.dot = IF top.tail = None THEN @ ELSE None]
      <3>1. ItemsWithTail(top) \in Seq(1..Len(heap))
        BY <1>1, ItemsWithTailTyped
      <3>2. Append(ItemsWithTail(top), ret) \in Seq(1..Len(heap))
        BY <2>2, <3>1, AppendProperties DEF Ids
      <3>3. None \in 0..Len(heap) /\ None \in 0..Len(tokens)
        BY Bounds DEF None
      <3>4. f \in FrameType(Len(heap)) /\ f.fn = "list"
        BY <1>1, <1>4, <3>2, <3>3 DEF FrameType
      <3>5. resume(f)
        BY <1>15 DEF ListTakeItem
      <3>6. QED
        BY <3>4, <3>5
    <2>5. /\ stack' \in Seq(FrameType(Len(heap))) /\ Nested(stack', "list")
          /\ Cardinality(ListsIn(stack')) = depth
      BY <1>1, <2>1, <2>4, CallResumed
    <2>6. QED
      BY <1>2, <2>1, <2>3, <2>5, CallsChange
  <1>16. CASE ListNoItem
    <2>1. pc = "return" /\ UNCHANGED <<input, pos, data>>
      BY <1>16 DEF ListNoItem
    <2>2. CASE peek \in Closes
      <3>1. pc' = "list" /\ UNCHANGED <<depth, errors, heap, stack, ret>>
        BY <1>16, <2>2 DEF ListNoItem
      <3>2. QED
        BY <1>2, <1>8, <2>1, <3>1, CallsSame
    <2>3. CASE peek \notin Closes
      <3>1. error("UnclosedList", top.at) /\ Complete(List(top, UnclosedEnd(top)))
        BY <1>16, <2>3 DEF ListNoItem
      <3>2. errors' \in Seq(ErrorType)
        BY <1>4, <1>5, <1>6, <3>1 DEF error
      <3>3. pos' \in 1..Len(tokens) + 1
        BY <1>2, <2>1
      <3>4. QED
        BY <1>1, <1>3, <1>9, <2>1, <3>1, <3>2, <3>3, Completed
    <2>4. QED
      BY <2>2, <2>3
  <1>17. QED
    BY <1>10, <1>11, <1>12, <1>13, <1>14, <1>15, <1>16

LEMMA SkipSteps ==
  ASSUME IInv, SkipToken \/ SkipClose \/ SkipEof
  PROVE  TypeOK' /\ DepthCounted'
  <1>1. pc = "skip"
    BY DEF SkipToken, SkipClose, SkipEof
  <1>2. stack # <<>> /\ Nested(stack, pc) /\ stack \in Seq(FrameType(Len(heap)))
    BY <1>1, Bounds DEF IInv, TypeOK
  <1>3. top.fn = "skip"
    <2>1. top = stack[Len(stack)]
      BY <1>2, TopTyped
    <2>2. Len(stack) \in 1..Len(stack)
      BY <1>2, EmptySeq
    <2>3. QED
      BY <1>1, <1>2, <2>1, <2>2 DEF Nested
  <1>4. /\ pos \in 1..Len(tokens) + 1 /\ errors \in Seq(ErrorType) /\ data \in Seq(Ids)
        /\ ret \in 0..Len(heap)
    BY DEF IInv, TypeOK
  <1>5. /\ top.at \in Index /\ top.nesting \in Nat /\ top.end \in 0..Len(tokens)
        /\ top \in FrameType(Len(heap)) /\ IsList(top)
    BY <1>2, <1>3, TopTyped DEF IsList
  <1>6. peek # EOF => pos \in Index /\ pos + 1 \in 1..Len(tokens) + 1
    BY PeekInside DEF IInv
  <1>7. ASSUME NEW end \in 0..Len(tokens)
        PROVE  Node("list", top.at, end, <<>>) \in NodeType(Len(heap))
    <2>1. <<>> \in Seq(1..Len(heap)) /\ "list" \in NodeKinds
      BY DEF NodeKinds
    <2>2. QED
      BY <1>5, <2>1, Bounds, NewNode
  <1>8. CASE SkipToken
    <2>1. /\ pos' = pos + 1 /\ pc' = pc
          /\ UNCHANGED <<input, depth, errors, data, heap, ret>>
      BY <1>8 DEF SkipToken
    <2>2. pos \in Index /\ pos' \in 1..Len(tokens) + 1
      BY <1>6, <1>8 DEF SkipToken
    <2>3. PICK f \in FrameType(Len(heap)) : f.fn = "skip" /\ resume(f)
      <3> DEFINE n == IF Deeper(peek) THEN top.nesting + 1 ELSE top.nesting
                 f == [top EXCEPT !.end = pos, !.nesting = n]
      <3>1. n \in Nat /\ pos \in 0..Len(tokens)
        BY <1>5, <2>2, Bounds DEF Index
      <3>2. resume(f)
        BY <1>8 DEF SkipToken
      <3> HIDE DEF n
      <3>3. f \in FrameType(Len(heap)) /\ f.fn = "skip"
        BY <1>3, <1>5, <3>1 DEF FrameType
      <3>4. QED
        BY <3>2, <3>3
    <2>4. /\ stack' \in Seq(FrameType(Len(heap))) /\ Nested(stack', "skip")
          /\ Cardinality(ListsIn(stack')) = depth
      BY <1>1, <1>2, <1>3, <2>3, CallResumed
    <2>5. QED
      BY <1>1, <1>4, <2>1, <2>2, <2>4, CallsChange
  <1>9. CASE SkipClose
    <2>1. pos' = pos + 1 /\ peek \in Closes /\ UNCHANGED <<input, data>>
      BY <1>9 DEF SkipClose
    <2>2. pos \in Index /\ pos' \in 1..Len(tokens) + 1 /\ pos \in 0..Len(tokens)
      <3>1. peek # EOF
        BY <2>1 DEF Closes, EOF
      <3>2. pos \in Index /\ pos + 1 \in 1..Len(tokens) + 1
        BY <1>6, <3>1
      <3>3. pos \in 0..Len(tokens)
        BY <3>2, Bounds DEF Index
      <3>4. QED
        BY <2>1, <3>2, <3>3
    <2>3. CASE top.nesting > 1
      <3>1. UNCHANGED <<depth, errors, heap, pc, ret>>
        BY <1>9, <2>3 DEF SkipClose
      <3>2. PICK f \in FrameType(Len(heap)) : f.fn = "skip" /\ resume(f)
        <4> DEFINE n == top.nesting - 1
                   f == [top EXCEPT !.end = pos, !.nesting = n]
        <4>1. n \in Nat
          BY <1>5, <2>3
        <4>2. resume(f)
          BY <1>9, <2>3 DEF SkipClose
        <4> HIDE DEF n
        <4>3. f \in FrameType(Len(heap)) /\ f.fn = "skip"
          BY <1>3, <1>5, <2>2, <4>1 DEF FrameType
        <4>4. QED
          BY <4>2, <4>3
      <3>3. /\ stack' \in Seq(FrameType(Len(heap))) /\ Nested(stack', "skip")
            /\ Cardinality(ListsIn(stack')) = depth
        BY <1>1, <1>2, <1>3, <3>2, CallResumed
      <3>4. QED
        BY <1>1, <1>4, <2>1, <2>2, <3>1, <3>3, CallsChange
    <2>4. CASE ~(top.nesting > 1)
      <3>1. Complete(Node("list", top.at, pos, <<>>))
            /\ (errors' = errors \/ error("MismatchedDelimiter", pos))
        BY <1>9, <2>4 DEF SkipClose
      <3>2. errors' \in Seq(ErrorType)
        BY <1>4, <2>2, <3>1, ErrorTyped DEF error, ErrorKinds
      <3>3. Node("list", top.at, pos, <<>>) \in NodeType(Len(heap))
        BY <1>7, <2>2
      <3>4. QED
        BY <1>1, <1>5, <2>1, <2>2, <3>1, <3>2, <3>3, Completed
    <2>5. QED
      BY <2>3, <2>4
  <1>10. CASE SkipEof
    <2>1. Complete(Node("list", top.at, top.end, <<>>))
          /\ UNCHANGED <<input, pos, errors, data>>
      BY <1>10 DEF SkipEof
    <2>2. Node("list", top.at, top.end, <<>>) \in NodeType(Len(heap))
      BY <1>5, <1>7
    <2>3. pos' \in 1..Len(tokens) + 1 /\ errors' \in Seq(ErrorType)
      BY <1>4, <2>1
    <2>4. QED
      BY <1>1, <1>5, <2>1, <2>2, <2>3, Completed
  <1>11. QED
    BY <1>8, <1>9, <1>10

-----------------------------------------------------------------------------
(* The theorems.                                                           *)

LEMMA InitEstablishes == Init => IInv
  <1> SUFFICES ASSUME Init PROVE IInv
    OBVIOUS
  <1>1. tokens \in Seq(AllKinds) /\ opts \in [Flags -> BOOLEAN]
    BY ReaderAssumption DEF Init
  <1>2. /\ pos = 1 /\ depth = 0 /\ errors = <<>> /\ data = <<>> /\ heap = <<>>
        /\ stack = <<>> /\ pc = "top" /\ ret = 0
    BY DEF Init, None
  <1>3. Len(tokens) \in Nat /\ MAX_DEPTH \in Nat /\ Len(heap) = 0
    BY <1>1, <1>2, LenProperties, ReaderAssumption
  <1>4. Nested(stack, pc)
    BY <1>2 DEF Nested
  <1>5. TypeOK
    BY <1>1, <1>2, <1>3, <1>4 DEF TypeOK
  <1>6. ListsIn(stack) = {}
    BY <1>2 DEF ListsIn
  <1>7. DepthCounted
    BY <1>2, <1>3, <1>6, FS_EmptySet DEF DepthCounted
  <1>8. QED
    BY <1>5, <1>7 DEF IInv

LEMMA StepPreserves == IInv /\ [Next]_vars => IInv'
  <1> SUFFICES ASSUME IInv, [Next]_vars PROVE IInv'
    OBVIOUS
  <1>1. CASE UNCHANGED vars
    <2>1. TypeOK'
      BY <1>1 DEF IInv, vars, TypeOK, Nested, NodeType, FrameType, ErrorType, Ids, Index
    <2>2. DepthCounted'
      BY <1>1 DEF IInv, vars, DepthCounted, ListsIn
    <2>3. QED
      BY <2>1, <2>2 DEF IInv
  <1>2. CASE TopStrayClose \/ TopCall \/ TopTake \/ TopEnd
    BY <1>2, TopSteps DEF IInv
  <1>3. CASE DatumNone \/ DatumMalformed \/ DatumLeaf \/ DatumOperand \/ DatumOpen
    BY <1>3, DatumSteps DEF IInv
  <1>4. CASE DiscardTake \/ ArgTake \/ PrefixTake \/ TagTake
    BY <1>4, OperandSteps DEF IInv
  <1>5. CASE ListEof \/ ListClose \/ ListDot \/ ListTakeTail \/ ListItem
               \/ ListTakeItem \/ ListNoItem
    BY <1>5, ListSteps DEF IInv
  <1>6. CASE SkipToken \/ SkipClose \/ SkipEof
    BY <1>6, SkipSteps DEF IInv
  <1>7. QED
    BY <1>1, <1>2, <1>3, <1>4, <1>5, <1>6 DEF Next, ReadDatum

LEMMA Invariance == Spec => []IInv
  BY InitEstablishes, StepPreserves, PTL DEF Spec

\* For every source and every choice of options, every state the reader can be
\* in is well typed: the offsets and children of every datum exist, and the
\* calls nest as parse_top_level, parse_datum, finish_list and skip_balanced do.
THEOREM TypeCorrect == Spec => []TypeOK
  <1>1. IInv => TypeOK
    BY DEF IInv
  <1>2. QED
    BY <1>1, Invariance, PTL

\* For every source and depth cap, Parser::depth is the number of lists being
\* read on every path in and out of finish_list (reader.rs:428-446, 531), and
\* passes the cap only while a region past it is skipped.
THEOREM DepthIsCounted == Spec => []DepthCounted
  <1>1. IInv => DepthCounted
    BY DEF IInv
  <1>2. QED
    BY <1>1, Invariance, PTL


-----------------------------------------------------------------------------
(* The calls in progress after a call, a return and a resumption.          *)

LEMMA Pushed ==
  ASSUME IInv, NEW f, stack' = Append(stack, f)
  PROVE  /\ Len(stack) \in Nat /\ Len(stack') = Len(stack) + 1
         /\ stack'[Len(stack) + 1] = f /\ stack' # <<>>
         /\ \A i \in 1..Len(stack) : stack'[i] = stack[i]
  <1> DEFINE S == FrameType(Len(heap)) \union {f}
  <1>1. stack \in Seq(S)
    BY SeqMonotonic DEF IInv, TypeOK
  <1>2. f \in S
    OBVIOUS
  <1> HIDE DEF S
  <1>3. Len(stack) \in Nat
    BY <1>1, LenProperties
  <1>4. /\ stack' \in Seq(S) /\ Len(stack') = Len(stack) + 1
        /\ stack'[Len(stack) + 1] = f
        /\ \A i \in 1..Len(stack) : stack'[i] = stack[i]
    BY <1>1, <1>2, AppendProperties
  <1>5. stack' # <<>>
    BY <1>3, <1>4, EmptySeq
  <1>6. QED
    BY <1>3, <1>4, <1>5

LEMMA Popped ==
  ASSUME IInv, stack # <<>>, stack' = Front(stack)
  PROVE  /\ Len(stack) \in Nat \ {0} /\ Len(stack') = Len(stack) - 1
         /\ \A i \in 1..Len(stack) - 1 : stack'[i] = stack[i]
  <1>1. stack \in Seq(FrameType(Len(heap)))
    BY DEF IInv, TypeOK
  <1>2. QED
    BY <1>1, LastFront

LEMMA Resumed ==
  ASSUME IInv, stack # <<>>, NEW f, resume(f)
  PROVE  /\ Len(stack) \in Nat \ {0} /\ Len(stack') = Len(stack)
         /\ stack'[Len(stack)] = f /\ stack' # <<>>
         /\ \A i \in 1..Len(stack) - 1 : stack'[i] = stack[i]
  <1> DEFINE S == FrameType(Len(heap)) \union {f}
  <1>1. stack \in Seq(S)
    BY SeqMonotonic DEF IInv, TypeOK
  <1>2. f \in S
    OBVIOUS
  <1> HIDE DEF S
  <1>3. Len(stack) \in Nat \ {0}
    BY <1>1, EmptySeq
  <1>4. stack' = [stack EXCEPT ![Len(stack)] = f]
    BY DEF resume
  <1>5. QED
    BY <1>1, <1>2, <1>3, <1>4, ReplaceLast

\* What finish_list and skip_balanced run on is not parse_top_level's call.
LEMMA NotOutermost ==
  ASSUME IInv, pc \in {"list", "skip"}
  PROVE  stack # <<>> /\ top.fn = pc
  <1>1. stack # <<>> /\ Nested(stack, pc)
    BY Bounds DEF IInv, TypeOK
  <1>2. top = stack[Len(stack)] /\ Len(stack) \in 1..Len(stack)
    <2>1. Len(stack) \in 1..Len(stack)
      BY <1>1, EmptySeq, LenProperties DEF IInv, TypeOK
    <2>2. QED
      BY <1>1, <2>1, TopTyped
  <1>3. QED
    BY <1>1, <1>2 DEF Nested, top

-----------------------------------------------------------------------------
(* None means stop.                                                        *)

LEMMA NoneMeansStopStep ==
  ASSUME IInv, NoneMeansStop, Next
  PROVE  NoneMeansStop'
  <1>1. Len(heap) \in Nat
    BY Bounds
  <1>2. \/ pc' # "return"
        \/ ret' # None
        \/ peek \in Closes \union {EOF} /\ UNCHANGED <<input, pos>>
    <2>1. CASE TopStrayClose \/ TopCall \/ TopTake \/ TopEnd
      <3>1. CASE TopStrayClose
        BY <3>1 DEF TopStrayClose
      <3>2. CASE TopCall
        BY <3>2 DEF TopCall, call
      <3>3. CASE TopTake
        BY <3>3 DEF TopTake
      <3>4. CASE TopEnd
        BY <3>4 DEF TopEnd
      <3>5. QED
        BY <2>1, <3>1, <3>2, <3>3, <3>4
    <2>2. CASE DatumNone
      BY <2>2 DEF DatumNone
    <2>3. CASE DatumMalformed
      BY <2>3 DEF DatumMalformed
    <2>4. CASE DatumLeaf
      BY <1>1, <2>4 DEF DatumLeaf, return, None
    <2>5. CASE DatumOperand
      BY <2>5 DEF DatumOperand, call
    <2>6. CASE DatumOpen
      BY <2>6 DEF DatumOpen
    <2>7. CASE DiscardTake
      BY <2>7 DEF DiscardTake
    <2>8. CASE ArgTake
      BY <2>8 DEF ArgTake
    <2>9. CASE PrefixTake
      <3>1. CASE ret # None
        BY <1>1, <2>9, <3>1 DEF PrefixTake, return, None
      <3>2. CASE ret = None
        <4>1. pc = "return" /\ UNCHANGED <<input, pos>>
          BY <2>9 DEF PrefixTake
        <4>2. QED
          BY <3>2, <4>1 DEF NoneMeansStop
      <3>3. QED
        BY <3>1, <3>2
    <2>10. CASE TagTake
      BY <1>1, <2>10 DEF TagTake, return, None
    <2>11. ASSUME NEW list, Complete(list) PROVE ret' # None
      BY <1>1, <2>11 DEF Complete, return, None
    <2>12. CASE ListEof
      BY <2>11, <2>12 DEF ListEof
    <2>13. CASE ListClose
      BY <2>11, <2>13 DEF ListClose
    <2>14. CASE ListDot
      BY <2>14 DEF ListDot
    <2>15. CASE ListTakeTail
      BY <2>15 DEF ListTakeTail
    <2>16. CASE ListItem
      BY <2>16 DEF ListItem
    <2>17. CASE ListTakeItem
      BY <2>17 DEF ListTakeItem
    <2>18. CASE ListNoItem
      BY <2>11, <2>18 DEF ListNoItem
    <2>19. CASE SkipToken
      BY <2>19 DEF SkipToken
    <2>20. CASE SkipClose
      BY <2>11, <2>20 DEF SkipClose
    <2>21. CASE SkipEof
      BY <2>11, <2>21 DEF SkipEof
    <2>22. QED
      BY <2>1, <2>2, <2>3, <2>4, <2>5, <2>6, <2>7, <2>8, <2>9, <2>10, <2>12, <2>13,
         <2>14, <2>15, <2>16, <2>17, <2>18, <2>19, <2>20, <2>21 DEF Next, ReadDatum
  <1>3. UNCHANGED <<input, pos>> => peek' = peek
    BY DEF peek, input
  <1>4. QED
    BY <1>2, <1>3 DEF NoneMeansStop

\* For every source: parse_datum returns None only when the next token is a
\* close or the input has ended (reader.rs:240), so finish_list's branches on
\* None (reader.rs:494, 520) are right about what they have in front of them.
THEOREM NoneIsAStop == Spec => []NoneMeansStop
  <1>1. Init => NoneMeansStop
    BY DEF Init, NoneMeansStop
  <1>2. IInv /\ NoneMeansStop /\ [Next]_vars => NoneMeansStop'
    <2>1. CASE UNCHANGED vars
      BY <2>1 DEF vars, NoneMeansStop, peek
    <2>2. QED
      BY <2>1, NoneMeansStopStep
  <1>3. QED
    BY <1>1, <1>2, Invariance, PTL DEF Spec

-----------------------------------------------------------------------------
(* Every top-level call consumes a token.                                  *)

\* The reader is past the token parse_top_level called parse_datum on, or the
\* call has only just begun, on a token parse_datum consumes.
Begun ==
  stack # <<>> =>
    \/ pos > stack[1].at
    \/ pos = stack[1].at /\ pc = "datum" /\ peek \notin Closes \union {EOF}

\* The outermost call is the same after a step of one of the inner calls.
LEMMA OuterPushed ==
  ASSUME IInv, stack # <<>>, NEW f, stack' = Append(stack, f)
  PROVE  stack'[1] = stack[1]
  <1> DEFINE S == FrameType(Len(heap)) \union {f}
  <1>1. stack \in Seq(S)
    BY SeqMonotonic DEF IInv, TypeOK
  <1> HIDE DEF S
  <1>2. 1 \in 1..Len(stack)
    BY <1>1, EmptySeq, LenProperties
  <1>3. f \in S
    BY DEF S
  <1>4. QED
    BY <1>1, <1>2, <1>3, AppendProperties

LEMMA OuterPopped ==
  ASSUME IInv, stack # <<>>, stack' = Front(stack), stack' # <<>>
  PROVE  stack'[1] = stack[1]
  <1>1. stack \in Seq(FrameType(Len(heap)))
    BY DEF IInv, TypeOK
  <1>2. /\ Front(stack) \in Seq(FrameType(Len(heap)))
        /\ Len(Front(stack)) = Len(stack) - 1
        /\ \A i \in 1..Len(stack) - 1 : Front(stack)[i] = stack[i]
    BY <1>1, LastFront
  <1>3. 1 \in 1..Len(Front(stack))
    BY <1>2, EmptySeq, LenProperties
  <1>4. QED
    BY <1>2, <1>3

LEMMA OuterResumed ==
  ASSUME IInv, stack # <<>>, NEW f, resume(f), f.at = top.at
  PROVE  stack'[1].at = stack[1].at
  <1> DEFINE S == FrameType(Len(heap)) \union {f}
  <1>1. stack \in Seq(S)
    BY SeqMonotonic DEF IInv, TypeOK
  <1> HIDE DEF S
  <1>2. 1 \in 1..Len(stack) /\ Len(stack) \in Nat
    BY <1>1, EmptySeq, LenProperties
  <1>3. stack' = [stack EXCEPT ![Len(stack)] = f] /\ f \in S
    BY DEF resume, S
  <1>4. /\ stack'[Len(stack)] = f
        /\ \A i \in 1..Len(stack) - 1 : stack'[i] = stack[i]
    BY <1>1, <1>3, ReplaceLast
  <1>5. top = stack[Len(stack)]
    BY TopTyped
  <1>6. CASE Len(stack) = 1
    BY <1>4, <1>5, <1>6
  <1>7. CASE Len(stack) # 1
    <2>1. 1 \in 1..Len(stack) - 1
      BY <1>2, <1>7
    <2>2. QED
      BY <1>4, <2>1
  <1>8. QED
    BY <1>6, <1>7

\* While a top-level call is in progress, no step moves back, and parse_datum
\* consumes the token it begins on.
LEMMA Onward ==
  ASSUME IInv, Next, stack # <<>>, stack' # <<>>
  PROVE  /\ stack'[1].at = stack[1].at
         /\ pos' >= pos
         /\ pc = "datum" /\ peek \notin Closes \union {EOF} => pos' > pos
  <1>1. pos \in Int /\ pc \notin {"top", "done"}
    BY DEF IInv, TypeOK, Nested
  <1>2. stack' = Front(stack) \/ stack' = stack \/ (\E f : stack' = Append(stack, f))
          => stack'[1] = stack[1]
    BY OuterPushed, OuterPopped
  <1>3. ASSUME NEW list, Complete(list) PROVE stack' = Front(stack)
    BY <1>3 DEF Complete
  <1>4. CASE TopStrayClose \/ TopCall \/ TopEnd
    BY <1>1, <1>4 DEF TopStrayClose, TopCall, TopEnd
  <1>5. CASE TopTake
    <2>1. pc = "return" /\ stack' = Front(stack) /\ pos' \in {pos, pos + 1}
      BY <1>5 DEF TopTake
    <2>2. QED
      BY <1>1, <1>2, <2>1
  <1>6. CASE DatumNone
    BY <1>1, <1>2, <1>6 DEF DatumNone
  <1>7. CASE DatumMalformed
    BY <1>1, <1>2, <1>7 DEF DatumMalformed
  <1>8. CASE DatumLeaf
    BY <1>1, <1>2, <1>8 DEF DatumLeaf
  <1>9. CASE DatumOperand
    <2>1. pos' = pos + 1 /\ \E f : stack' = Append(stack, f)
      BY <1>9 DEF DatumOperand, call
    <2>2. QED
      BY <1>1, <1>2, <2>1
  <1>10. CASE DatumOpen
    <2>1. pos' = pos + 1 /\ \E f : stack' = Append(stack, f)
      BY <1>10 DEF DatumOpen
    <2>2. QED
      BY <1>1, <1>2, <2>1
  <1>11. CASE DiscardTake \/ PrefixTake \/ TagTake
    <2>1. pc = "return" /\ pos' = pos /\ stack' = Front(stack)
      BY <1>11 DEF DiscardTake, PrefixTake, TagTake
    <2>2. QED
      BY <1>1, <1>2, <2>1
  <1>12. CASE ArgTake
    <2>1. pc = "return" /\ pos' = pos /\ resume([top EXCEPT !.fn = "prefix", !.arg = ret])
      BY <1>12 DEF ArgTake
    <2>2. [top EXCEPT !.fn = "prefix", !.arg = ret].at = top.at
      BY TopTyped DEF FrameType
    <2>3. stack'[1].at = stack[1].at
      BY <2>1, <2>2, OuterResumed
    <2>4. QED
      BY <1>1, <2>1, <2>3
  <1>13. CASE ListEof
    BY <1>1, <1>2, <1>3, <1>13 DEF ListEof
  <1>14. CASE ListClose
    <2>1. pc = "list" /\ pos' = pos + 1 /\ Complete(List(top, pos))
      BY <1>14 DEF ListClose
    <2>2. QED
      BY <1>1, <1>2, <1>3, <2>1
  <1>15. CASE ListDot \/ ListTakeTail \/ ListTakeItem
    <2>1. top \in FrameType(Len(heap))
      BY TopTyped
    <2>2. PICK f : resume(f) /\ f.at = top.at
      <3>1. CASE ListDot
        <4> DEFINE f == [top EXCEPT !.items = ItemsWithTail(top), !.tail = None,
                                    !.after = pos]
        <4>1. f.at = top.at
          BY <2>1 DEF FrameType
        <4>2. resume(f)
          BY <3>1 DEF ListDot
        <4>3. QED
          BY <4>1, <4>2
      <3>2. CASE ListTakeTail
        <4> DEFINE f == [top EXCEPT !.tail = ret, !.dot = top.after, !.after = None]
                   g == [top EXCEPT !.after = None]
        <4>1. f.at = top.at /\ g.at = top.at
          BY <2>1 DEF FrameType
        <4>2. resume(f) \/ resume(g)
          BY <3>2 DEF ListTakeTail
        <4>3. QED
          BY <4>1, <4>2
      <3>3. CASE ListTakeItem
        <4> DEFINE f == [top EXCEPT !.items = Append(ItemsWithTail(top), ret),
                                    !.tail = None,
                                    !.dot = IF top.tail = None THEN @ ELSE None]
        <4>1. f.at = top.at
          BY <2>1 DEF FrameType
        <4>2. resume(f)
          BY <3>3 DEF ListTakeItem
        <4>3. QED
          BY <4>1, <4>2
      <3>4. QED
        BY <1>15, <3>1, <3>2, <3>3
    <2>3. pc \in {"list", "return"} /\ pos' \in {pos, pos + 1}
      <3>1. CASE ListDot
        BY <3>1 DEF ListDot
      <3>2. CASE ListTakeTail
        BY <3>2 DEF ListTakeTail
      <3>3. CASE ListTakeItem
        BY <3>3 DEF ListTakeItem
      <3>4. QED
        BY <1>15, <3>1, <3>2, <3>3
    <2>4. stack'[1].at = stack[1].at
      BY <2>2, OuterResumed
    <2>5. QED
      BY <1>1, <2>3, <2>4
  <1>16. CASE ListItem
    BY <1>1, <1>2, <1>16 DEF ListItem
  <1>17. CASE ListNoItem
    BY <1>1, <1>2, <1>3, <1>17 DEF ListNoItem
  <1>18. CASE SkipToken
    <2> DEFINE f == [top EXCEPT !.end = pos,
                       !.nesting = IF Deeper(peek) THEN @ + 1 ELSE @]
    <2>1. f.at = top.at
      BY TopTyped DEF FrameType
    <2>2. pc = "skip" /\ pos' = pos + 1 /\ resume(f)
      BY <1>18 DEF SkipToken
    <2> HIDE DEF f
    <2>3. stack'[1].at = stack[1].at
      BY <2>1, <2>2, OuterResumed
    <2>4. QED
      BY <1>1, <2>2, <2>3
  <1>19. CASE SkipClose
    <2>1. pc = "skip" /\ pos' = pos + 1
      BY <1>19 DEF SkipClose
    <2>2. CASE top.nesting > 1
      <3> DEFINE f == [top EXCEPT !.end = pos, !.nesting = @ - 1]
      <3>1. f.at = top.at
        BY TopTyped DEF FrameType
      <3>2. resume(f)
        BY <1>19, <2>2 DEF SkipClose
      <3> HIDE DEF f
      <3>3. stack'[1].at = stack[1].at
        BY <3>1, <3>2, OuterResumed
      <3>4. QED
        BY <1>1, <2>1, <3>3
    <2>3. CASE ~(top.nesting > 1)
      <3>1. Complete(Node("list", top.at, pos, <<>>))
        BY <1>19, <2>3 DEF SkipClose
      <3>2. QED
        BY <1>1, <1>2, <1>3, <2>1, <3>1
    <2>4. QED
      BY <2>2, <2>3
  <1>20. CASE SkipEof
    BY <1>1, <1>2, <1>3, <1>20 DEF SkipEof
  <1>21. QED
    BY <1>4, <1>5, <1>6, <1>7, <1>8, <1>9, <1>10, <1>11, <1>12, <1>13, <1>14, <1>15,
       <1>16, <1>17, <1>18, <1>19, <1>20 DEF Next, ReadDatum

LEMMA BegunStep ==
  ASSUME IInv, Begun, Next
  PROVE  Begun'
  <1> SUFFICES ASSUME stack' # <<>>
               PROVE  \/ pos' > stack'[1].at
                      \/ /\ pos' = stack'[1].at /\ pc' = "datum"
                         /\ peek' \notin Closes \union {EOF}
    BY DEF Begun, Closes, EOF
  <1>1. CASE stack = <<>>
    <2>1. pc \in {"top", "done"}
      BY <1>1 DEF IInv, TypeOK, Nested
    <2>2. TopCall
      <3>1. TopStrayClose \/ TopEnd => stack' = stack
        BY DEF TopStrayClose, TopEnd
      <3>2. TopTake => pc = "return"
        BY DEF TopTake
      <3>3. DatumNone \/ DatumMalformed \/ DatumLeaf \/ DatumOperand \/ DatumOpen
              => pc = "datum"
        BY DEF DatumNone, DatumMalformed, DatumLeaf, DatumOperand, DatumOpen
      <3>4. DiscardTake \/ ArgTake \/ PrefixTake \/ TagTake => pc = "return"
        BY DEF DiscardTake, ArgTake, PrefixTake, TagTake
      <3>5. ListEof \/ ListClose \/ ListDot \/ ListItem => pc = "list"
        BY DEF ListEof, ListClose, ListDot, ListItem
      <3>6. ListTakeTail \/ ListTakeItem => pc = "return"
        BY DEF ListTakeTail, ListTakeItem
      <3>7. ListNoItem => pc = "return"
        BY DEF ListNoItem
      <3>8. SkipToken \/ SkipClose \/ SkipEof => pc = "skip"
        BY DEF SkipToken, SkipClose, SkipEof
      <3>9. QED
        BY <1>1, <2>1, <3>1, <3>2, <3>3, <3>4, <3>5, <3>6, <3>7, <3>8 DEF Next, ReadDatum
    <2>3. /\ stack' = Append(stack, Frame("top", pos)) /\ pc' = "datum"
          /\ peek \notin Closes \union {EOF} /\ UNCHANGED <<input, pos>>
      BY <2>2 DEF TopCall, call
    <2>4. peek' = peek
      BY <2>3 DEF peek, input
    <2>5. stack'[1].at = pos
      BY <1>1, <2>3 DEF Frame
    <2>6. QED
      BY <2>3, <2>4, <2>5
  <1>2. CASE stack # <<>>
    <2>1. /\ stack'[1].at = stack[1].at /\ pos' >= pos
          /\ pc = "datum" /\ peek \notin Closes \union {EOF} => pos' > pos
      BY <1>2, Onward
    <2>2. pos \in Int /\ pos' \in Int /\ stack[1].at \in Int
      <3>1. pos \in Int /\ Len(tokens) \in Nat
        BY Bounds DEF IInv, TypeOK
      <3>2. IInv'
        BY StepPreserves
      <3>3. pos' \in Int
        BY <3>2 DEF IInv, TypeOK
      <3>4. stack[1] \in FrameType(Len(heap))
        BY <1>2, EmptySeq, LenProperties, ElementOfSeq DEF IInv, TypeOK
      <3>5. stack[1].at \in Int
        BY <3>1, <3>4 DEF FrameType, Index
      <3>6. QED
        BY <3>1, <3>3, <3>5
    <2>3. CASE pos > stack[1].at
      BY <2>1, <2>2, <2>3
    <2>4. CASE pos = stack[1].at /\ pc = "datum" /\ peek \notin Closes \union {EOF}
      BY <2>1, <2>2, <2>4
    <2>5. QED
      BY <1>2, <2>3, <2>4 DEF Begun
  <1>3. QED
    BY <1>1, <1>2

\* For every source: a call of parse_datum by parse_top_level consumes at least
\* one token, whatever it returns, so the "guarantee progress" branch of the
\* loop (reader.rs:228) is never needed and nothing is skipped by it.
THEOREM TopLevelProgress == Spec => []CallsConsume
  <1>1. Init => Begun
    BY DEF Init, Begun
  <1>2. IInv /\ Begun /\ [Next]_vars => Begun'
    <2>1. CASE UNCHANGED vars
      BY <2>1 DEF vars, Begun, peek
    <2>2. QED
      BY <2>1, BegunStep
  <1>3. IInv /\ Begun => CallsConsume
    <2> SUFFICES ASSUME IInv, Begun, pc = "return", top.fn = "top"
                 PROVE  pos > top.at
      BY DEF CallsConsume
    <2>1. stack # <<>> /\ stack \in Seq(FrameType(Len(heap))) /\ Nested(stack, pc)
      BY Bounds DEF IInv, TypeOK
    <2>2. top = stack[Len(stack)] /\ Len(stack) \in 1..Len(stack)
      <3>1. Len(stack) \in 1..Len(stack)
        BY <2>1, EmptySeq, LenProperties
      <3>2. QED
        BY <2>1, <3>1, TopTyped
    <2>3. Len(stack) = 1
      BY <2>1, <2>2 DEF Nested
    <2>4. QED
      BY <2>1, <2>2, <2>3 DEF Begun
  <1>4. QED
    BY <1>1, <1>2, <1>3, Invariance, PTL DEF Spec

-----------------------------------------------------------------------------
(* skip_balanced counts right.                                             *)

\* One more token counted.
LEMMA CountNext ==
  ASSUME NEW S, NEW from \in Int, NEW to \in Int, from <= to + 1
  PROVE  /\ Count(S, from, to) \in Nat
         /\ Count(S, from, to + 1) =
              IF tokens[to + 1] \in S THEN Count(S, from, to) + 1 ELSE Count(S, from, to)
  <1> DEFINE A == {i \in from..to : tokens[i] \in S}
             B == {i \in from..to + 1 : tokens[i] \in S}
  <1>1. IsFiniteSet(A) /\ Cardinality(A) \in Nat
    <2>1. IsFiniteSet(from..to)
      BY FS_Interval
    <2>2. QED
      BY <2>1, FS_Subset, FS_CardinalityType
  <1>2. to + 1 \notin A
    OBVIOUS
  <1>3. CASE tokens[to + 1] \in S
    <2>1. B = A \union {to + 1}
      BY <1>3
    <2> HIDE DEF A, B
    <2>2. Cardinality(B) = Cardinality(A) + 1
      BY <1>1, <1>2, <2>1, FS_AddElement
    <2>3. QED
      BY <1>1, <1>3, <2>2 DEF Count, A, B
  <1>4. CASE tokens[to + 1] \notin S
    <2>1. B = A
      BY <1>4
    <2>2. QED
      BY <1>1, <1>4, <2>1 DEF Count
  <1>5. QED
    BY <1>3, <1>4

LEMMA CountNone ==
  ASSUME NEW S, NEW at \in Int
  PROVE  Count(S, at, at - 1) = 0
  <1>1. {i \in at..at - 1 : tokens[i] \in S} = {}
    OBVIOUS
  <1>2. QED
    BY <1>1, FS_EmptySet DEF Count

\* skip_balanced's counter, on the tokens from the open it was called for.
SkipCounts ==
  pc = "skip" =>
    /\ top.at < pos /\ top.nesting >= 1
    /\ top.nesting = Count(Opens \union HashOpens, top.at, pos - 1)
                       - Count(Closes, top.at, pos - 1)

LEMMA SkipCountsStep ==
  ASSUME IInv, SkipCounts, Next
  PROVE  SkipCounts'
  <1> SUFFICES ASSUME pc' = "skip" PROVE SkipCounts'
    BY DEF SkipCounts
  <1> DEFINE O(from, to) == Count(Opens \union HashOpens, from, to)
             C(from, to) == Count(Closes, from, to)
  <1>1. ASSUME NEW list, Complete(list) PROVE FALSE
    BY <1>1 DEF Complete, return
  <1>2. DatumOpen \/ SkipToken \/ (SkipClose /\ top.nesting > 1)
    <2>1. ~(TopStrayClose \/ TopCall \/ TopTake \/ TopEnd)
      BY DEF TopStrayClose, TopCall, TopTake, TopEnd, call
    <2>2. ~(DatumNone \/ DatumMalformed \/ DatumLeaf \/ DatumOperand)
      BY DEF DatumNone, DatumMalformed, DatumLeaf, DatumOperand, call, return
    <2>3. ~(DiscardTake \/ ArgTake \/ PrefixTake \/ TagTake)
      BY DEF DiscardTake, ArgTake, PrefixTake, TagTake, return
    <2>4. ~(ListEof \/ ListClose \/ ListNoItem)
      BY <1>1 DEF ListEof, ListClose, ListNoItem
    <2>5. ~(ListDot \/ ListTakeTail \/ ListItem \/ ListTakeItem)
      BY DEF ListDot, ListTakeTail, ListItem, ListTakeItem
    <2>6. ~SkipEof /\ (SkipClose => top.nesting > 1)
      BY <1>1 DEF SkipEof, SkipClose
    <2>7. QED
      BY <2>1, <2>2, <2>3, <2>4, <2>5, <2>6 DEF Next, ReadDatum
  <1>3. pos \in Nat /\ peek = tokens[pos]
    <2>1. peek # EOF
      BY <1>2 DEF DatumOpen, SkipToken, SkipClose, Opens, HashOpens, Closes, EOF
    <2>2. peek = tokens[pos]
      BY <2>1 DEF peek
    <2>3. pos \in Nat
      BY Bounds DEF IInv, TypeOK
    <2>4. QED
      BY <2>2, <2>3
  <1>4. tokens' = tokens /\ pos' = pos + 1
    BY <1>2 DEF DatumOpen, SkipToken, SkipClose, input
  <1>5. \A from, to : O(from, to)' = O(from', to') /\ C(from, to)' = C(from', to')
    BY <1>4 DEF Count
  <1>6. Deeper(tokens[pos]) <=> tokens[pos] \in Opens \union HashOpens
    BY DEF Deeper
  <1>7. (Opens \union HashOpens) \cap Closes = {}
    BY DEF Opens, HashOpens, Closes
  <1>8. SUFFICES \E at, n :
                   /\ at \in Int
                   /\ stack' # <<>> /\ Last(stack') = stack'[Len(stack')]
                   /\ Last(stack').at = at /\ Last(stack').nesting = n
                   /\ at <= pos /\ n \in Int /\ n >= 1
                   /\ n = O(at, pos) - C(at, pos)
    <2>1. \A S, at : Count(S, at, pos)' = Count(S, at, pos')
      BY <1>4 DEF Count
    <2>2. QED
      BY <1>3, <1>4, <1>8 DEF SkipCounts, top, Count
  <1>9. CASE DatumOpen
    <2> DEFINE f == [Frame("skip", pos) EXCEPT !.nesting = 1]
    <2>1. stack' = Append(stack, f) /\ peek \in Opens \union HashOpens
      BY <1>9 DEF DatumOpen
    <2>2. f.at = pos /\ f.nesting = 1
      BY DEF Frame
    <2> HIDE DEF f
    <2>3. stack' # <<>> /\ Last(stack') = stack'[Len(stack')] /\ Last(stack') = f
      BY <2>1, Pushed DEF Last
    <2>4. O(pos, pos) = 1 /\ C(pos, pos) = 0
      <3>1. pos - 1 \in Int /\ pos <= pos - 1 + 1 /\ pos - 1 + 1 = pos /\ pos \in Int
        BY <1>3
      <3>2. \A S : Count(S, pos, pos - 1) = 0
        BY <3>1, CountNone
      <3>3. \A S : Count(S, pos, pos) = IF tokens[pos] \in S THEN 0 + 1 ELSE 0
        BY <3>1, <3>2, CountNext
      <3>4. QED
        BY <1>3, <1>7, <2>1, <3>3
    <2>5. QED
      BY <1>3, <2>2, <2>3, <2>4
  <1>10. CASE SkipToken \/ SkipClose
    <2>1. pc = "skip"
      BY <1>10 DEF SkipToken, SkipClose
    <2>2. /\ stack # <<>> /\ top \in FrameType(Len(heap))
          /\ top.at \in Int /\ top.nesting \in Int
      <3>1. stack # <<>>
        BY <2>1, Bounds
      <3>2. QED
        BY <3>1, TopTyped, Bounds DEF Index
    <2>3. /\ top.at < pos /\ top.nesting >= 1
          /\ top.nesting = O(top.at, pos - 1) - C(top.at, pos - 1)
      BY <2>1 DEF SkipCounts
    <2>4. \A S : /\ Count(S, top.at, pos - 1) \in Nat
                 /\ Count(S, top.at, pos) =
                      IF tokens[pos] \in S THEN Count(S, top.at, pos - 1) + 1
                                           ELSE Count(S, top.at, pos - 1)
      <3>1. pos - 1 \in Int /\ top.at <= pos - 1 + 1 /\ pos - 1 + 1 = pos
        BY <1>3, <2>2, <2>3
      <3>2. QED
        BY <2>2, <3>1, CountNext
    <2>5. ASSUME NEW f, resume(f)
          PROVE  stack' # <<>> /\ Last(stack') = stack'[Len(stack')] /\ Last(stack') = f
      BY <2>2, <2>5, Resumed DEF Last
    <2>6. CASE SkipToken
      <3> DEFINE f == [top EXCEPT !.end = pos,
                         !.nesting = IF Deeper(peek) THEN @ + 1 ELSE @]
      <3>1. resume(f) /\ peek \notin Closes
        BY <2>6 DEF SkipToken
      <3>2. f.at = top.at
            /\ f.nesting = IF Deeper(peek) THEN top.nesting + 1 ELSE top.nesting
        BY <2>2 DEF FrameType
      <3> HIDE DEF f
      <3>3. stack' # <<>> /\ Last(stack') = stack'[Len(stack')] /\ Last(stack') = f
        BY <2>5, <3>1
      <3>4. f.nesting = O(top.at, pos) - C(top.at, pos) /\ f.nesting >= 1
            /\ f.nesting \in Int
        BY <1>3, <1>6, <2>2, <2>3, <2>4, <3>1, <3>2
      <3>5. QED
        BY <1>3, <2>2, <2>3, <3>2, <3>3, <3>4
    <2>7. CASE SkipClose /\ top.nesting > 1
      <3> DEFINE f == [top EXCEPT !.end = pos, !.nesting = @ - 1]
      <3>1. resume(f) /\ peek \in Closes
        BY <2>7 DEF SkipClose
      <3>2. f.at = top.at /\ f.nesting = top.nesting - 1
        BY <2>2 DEF FrameType
      <3> HIDE DEF f
      <3>3. stack' # <<>> /\ Last(stack') = stack'[Len(stack')] /\ Last(stack') = f
        BY <2>5, <3>1
      <3>4. tokens[pos] \in Closes /\ tokens[pos] \notin Opens \union HashOpens
        BY <1>3, <1>7, <3>1
      <3>5. /\ O(top.at, pos) = O(top.at, pos - 1)
            /\ C(top.at, pos) = C(top.at, pos - 1) + 1
            /\ O(top.at, pos - 1) \in Nat /\ C(top.at, pos - 1) \in Nat
        BY <2>4, <3>4
      <3>6. f.nesting = O(top.at, pos) - C(top.at, pos) /\ f.nesting >= 1
            /\ f.nesting \in Int
        BY <2>2, <2>3, <2>7, <3>2, <3>5
      <3>7. QED
        BY <1>3, <2>2, <2>3, <3>2, <3>3, <3>6
    <2>8. QED
      BY <1>2, <1>10, <2>1, <2>6, <2>7 DEF DatumOpen
  <1>11. QED
    BY <1>2, <1>9, <1>10

\* For every source: skip_balanced (reader.rs:554-580) stops at the close that
\* balances the open it was called for, since its counter is the number of opens
\* minus that of closes passed since, whatever their shapes.
THEOREM SkipsTheRegion == Spec => []SkipNesting
  <1>1. Init => SkipCounts
    BY DEF Init, SkipCounts
  <1>2. IInv /\ SkipCounts /\ [Next]_vars => SkipCounts'
    <2>1. CASE UNCHANGED vars
      BY <2>1 DEF vars, SkipCounts, Count, top
    <2>2. QED
      BY <2>1, SkipCountsStep
  <1>3. SkipCounts => SkipNesting
    BY DEF SkipCounts, SkipNesting
  <1>4. QED
    BY <1>1, <1>2, <1>3, Invariance, PTL DEF Spec

-----------------------------------------------------------------------------
(* One step seen from the calls in progress.                               *)

\* What a step of parse_datum, or of what it calls, does to the calls: they
\* stay, a call begins on the next token, the innermost one returns, or it goes
\* on with new locals.
LEMMA CallsMove ==
  ASSUME IInv, ReadDatum
  PROVE  /\ stack # <<>> /\ pos' \in {pos, pos + 1}
         /\ \/ stack' = stack
            \/ \E f : /\ stack' = Append(stack, f) /\ f.at = pos
                      /\ pc = "datum" /\ pos' = pos + 1
                      /\ f.fn = "discard" => peek = "#;" /\ ~opts.keep_discarded
            \/ stack' = Front(stack) /\ top.fn # "top"
            \/ \E f : /\ resume(f) /\ f.at = top.at /\ top.fn # "top"
                      /\ f.fn = IF top.fn = "arg" THEN "prefix" ELSE top.fn
  <1>1. ASSUME pc \notin {"top", "done"} PROVE stack # <<>> /\ top \in FrameType(Len(heap))
    BY <1>1, Bounds, TopTyped
  <1>2. ASSUME NEW list, Complete(list) PROVE stack' = Front(stack)
    BY <1>2 DEF Complete
  <1>3. CASE DatumNone \/ DatumMalformed \/ DatumLeaf
    BY <1>1, <1>3 DEF DatumNone, DatumMalformed, DatumLeaf
  <1>4. CASE DatumOperand
    <2>1. pc = "datum" /\ pos' = pos + 1
      BY <1>4 DEF DatumOperand
    <2>2. \/ peek = "#;" /\ ~opts.keep_discarded /\ call(Frame("discard", pos))
          \/ \E fn \in FrameKinds \ {"discard"} : call(Frame(fn, pos))
      BY <1>4 DEF DatumOperand, FrameKinds
    <2>3. PICK fn : /\ stack' = Append(stack, Frame(fn, pos))
                    /\ fn = "discard" => peek = "#;" /\ ~opts.keep_discarded
      BY <2>2 DEF call
    <2>4. Frame(fn, pos).at = pos /\ Frame(fn, pos).fn = fn
      BY DEF Frame
    <2>5. QED
      BY <1>1, <2>1, <2>3, <2>4
  <1>5. CASE DatumOpen
    <2>1. pc = "datum" /\ pos' = pos + 1
      BY <1>5 DEF DatumOpen
    <2>2. PICK fn \in {"list", "skip"}, k \in {0, 1} :
            stack' = Append(stack, [Frame(fn, pos) EXCEPT !.nesting = k])
      <3>1. Frame("list", pos) = [Frame("list", pos) EXCEPT !.nesting = 0]
        BY DEF Frame
      <3>2. QED
        BY <1>5, <3>1 DEF DatumOpen
    <2>3. [Frame(fn, pos) EXCEPT !.nesting = k].at = pos
          /\ [Frame(fn, pos) EXCEPT !.nesting = k].fn = fn
      BY DEF Frame
    <2>4. QED
      BY <1>1, <2>1, <2>2, <2>3
  <1>6. CASE DiscardTake \/ PrefixTake \/ TagTake
    BY <1>1, <1>6 DEF DiscardTake, PrefixTake, TagTake
  <1>7. CASE ArgTake
    <2> DEFINE f == [top EXCEPT !.fn = "prefix", !.arg = ret]
    <2>1. pc = "return" /\ top.fn = "arg" /\ resume(f) /\ pos' = pos
      BY <1>7 DEF ArgTake
    <2>2. f.at = top.at /\ f.fn = "prefix"
      BY <1>1, <2>1 DEF FrameType
    <2> HIDE DEF f
    <2>3. QED
      BY <1>1, <2>1, <2>2
  <1>8. CASE ListEof
    BY <1>1, <1>2, <1>8, NotOutermost DEF ListEof
  <1>9. CASE ListClose
    <2>1. pc = "list" /\ pos' = pos + 1 /\ Complete(List(top, pos))
      BY <1>9 DEF ListClose
    <2>2. QED
      BY <1>1, <1>2, <2>1, NotOutermost
  <1>10. CASE ListDot
    <2> DEFINE f == [top EXCEPT !.items = ItemsWithTail(top), !.tail = None, !.after = pos]
    <2>1. pc = "list" /\ resume(f) /\ pos' = pos + 1
      BY <1>10 DEF ListDot
    <2>2. f.at = top.at /\ f.fn = top.fn
      BY <1>1, <2>1 DEF FrameType
    <2> HIDE DEF f
    <2>3. QED
      BY <1>1, <2>1, <2>2, NotOutermost
  <1>11. CASE ListTakeTail
    <2> DEFINE f == [top EXCEPT !.tail = ret, !.dot = top.after, !.after = None]
               g == [top EXCEPT !.after = None]
    <2>1. pc = "return" /\ top.fn = "list" /\ (resume(f) \/ resume(g)) /\ pos' = pos
      BY <1>11 DEF ListTakeTail
    <2>2. f.at = top.at /\ f.fn = top.fn /\ g.at = top.at /\ g.fn = top.fn
      BY <1>1, <2>1 DEF FrameType
    <2> HIDE DEF f, g
    <2>3. QED
      BY <1>1, <2>1, <2>2
  <1>12. CASE ListItem
    BY <1>1, <1>12 DEF ListItem
  <1>13. CASE ListTakeItem
    <2> DEFINE f == [top EXCEPT !.items = Append(ItemsWithTail(top), ret), !.tail = None,
                                !.dot = IF top.tail = None THEN @ ELSE None]
    <2>1. pc = "return" /\ top.fn = "list" /\ resume(f) /\ pos' = pos
      BY <1>13 DEF ListTakeItem
    <2>2. f.at = top.at /\ f.fn = top.fn
      BY <1>1, <2>1 DEF FrameType
    <2> HIDE DEF f
    <2>3. QED
      BY <1>1, <2>1, <2>2
  <1>14. CASE ListNoItem
    BY <1>1, <1>2, <1>14 DEF ListNoItem
  <1>15. CASE SkipToken
    <2> DEFINE f == [top EXCEPT !.end = pos,
                       !.nesting = IF Deeper(peek) THEN @ + 1 ELSE @]
    <2>1. pc = "skip" /\ resume(f) /\ pos' = pos + 1
      BY <1>15 DEF SkipToken
    <2>2. f.at = top.at /\ f.fn = top.fn
      BY <1>1, <2>1 DEF FrameType
    <2> HIDE DEF f
    <2>3. QED
      BY <1>1, <2>1, <2>2, NotOutermost
  <1>16. CASE SkipClose
    <2> DEFINE f == [top EXCEPT !.end = pos, !.nesting = @ - 1]
    <2>1. pc = "skip" /\ pos' = pos + 1 /\ (resume(f) \/ stack' = Front(stack))
      BY <1>2, <1>16 DEF SkipClose
    <2>2. f.at = top.at /\ f.fn = top.fn
      BY <1>1, <2>1 DEF FrameType
    <2> HIDE DEF f
    <2>3. QED
      BY <1>1, <2>1, <2>2, NotOutermost
  <1>17. CASE SkipEof
    BY <1>1, <1>2, <1>17, NotOutermost DEF SkipEof
  <1>18. QED
    BY <1>3, <1>4, <1>5, <1>6, <1>7, <1>8, <1>9, <1>10, <1>11, <1>12, <1>13, <1>14,
       <1>15, <1>16, <1>17 DEF ReadDatum

\* The outermost call while parse_datum runs.
LEMMA InnerCall ==
  ASSUME IInv, stack # <<>>
  PROVE  /\ Len(stack) \in Nat \ {0} /\ top = stack[Len(stack)]
         /\ top.fn # "top" <=> Len(stack) >= 2
         /\ \A i \in 1..Len(stack) : stack[i] \in FrameType(Len(heap)) /\ stack[i].at \in Int
  <1>1. stack \in Seq(FrameType(Len(heap))) /\ Nested(stack, pc)
    BY DEF IInv, TypeOK
  <1>2. Len(stack) \in Nat \ {0} /\ top = stack[Len(stack)]
    BY <1>1, EmptySeq, TopTyped
  <1>3. top.fn # "top" <=> Len(stack) >= 2
    BY <1>1, <1>2 DEF Nested
  <1>4. ASSUME NEW i \in 1..Len(stack)
        PROVE  stack[i] \in FrameType(Len(heap)) /\ stack[i].at \in Int
    <2>1. stack[i] \in FrameType(Len(heap))
      BY <1>1, ElementOfSeq
    <2>2. stack[i].at \in Index
      BY <2>1 DEF FrameType
    <2>3. QED
      BY <2>1, <2>2, Bounds DEF Index
  <1>5. QED
    BY <1>2, <1>3, <1>4

LEMMA OuterKept ==
  ASSUME IInv, ReadDatum
  PROVE  stack' # <<>> /\ stack'[1].at = stack[1].at
  <1>1. stack # <<>>
    BY CallsMove
  <1>2. stack' # <<>>
    <2>1. CASE stack' = stack
      BY <1>1, <2>1
    <2>2. CASE \E f : stack' = Append(stack, f)
      BY <2>2, Pushed
    <2>3. CASE stack' = Front(stack) /\ top.fn # "top"
      <3>1. Len(stack') = Len(stack) - 1 /\ Len(stack) \in Nat /\ Len(stack) >= 2
        BY <1>1, <2>3, Popped, InnerCall
      <3>2. Len(stack') # 0
        BY <3>1
      <3>3. QED
        BY <3>2
    <2>4. CASE \E f : resume(f)
      BY <1>1, <2>4, Resumed
    <2>5. QED
      BY <2>1, <2>2, <2>3, <2>4, CallsMove
  <1>3. QED
    BY <1>1, <1>2, Onward DEF Next

\* What a step of parse_top_level does to the calls.
LEMMA TopMoves ==
  ASSUME IInv, TopStrayClose \/ TopCall \/ TopTake \/ TopEnd
  PROVE  \/ (TopStrayClose \/ TopEnd) /\ stack = <<>> /\ stack' = <<>>
         \/ TopCall /\ stack = <<>> /\ stack' = <<Frame("top", pos)>> /\ pos' = pos
         \/ TopTake /\ Len(stack) = 1 /\ stack # <<>> /\ stack' = <<>>
  <1>1. CASE TopStrayClose \/ TopCall \/ TopEnd
    <2>1. pc = "top"
      BY <1>1 DEF TopStrayClose, TopCall, TopEnd
    <2>2. stack = <<>>
      BY <2>1 DEF IInv, TypeOK, Nested
    <2>3. CASE TopStrayClose
      BY <2>2, <2>3 DEF TopStrayClose
    <2>4. CASE TopCall
      <3>1. stack' = Append(stack, Frame("top", pos)) /\ pos' = pos
        BY <2>4 DEF TopCall, call
      <3> DEFINE f == Frame("top", pos)
      <3> HIDE DEF f
      <3>2. Append(<<>>, f) = <<f>>
        OBVIOUS
      <3>3. QED
        BY <2>2, <2>4, <3>1, <3>2 DEF f
    <2>5. CASE TopEnd
      BY <2>2, <2>5 DEF TopEnd
    <2>6. QED
      BY <1>1, <2>3, <2>4, <2>5
  <1>2. CASE TopTake
    <2>1. pc = "return" /\ top.fn = "top" /\ stack' = Front(stack)
      BY <1>2 DEF TopTake
    <2>2. stack # <<>> /\ stack \in Seq(FrameType(Len(heap)))
      BY <2>1, Bounds DEF IInv, TypeOK
    <2>3. Len(stack) = 1
      <3>1. Len(stack) \in Nat \ {0} /\ ~(Len(stack) >= 2)
        BY <2>1, <2>2, InnerCall
      <3>2. QED
        BY <3>1
    <2>4. Front(stack) \in Seq(FrameType(Len(heap))) /\ Len(Front(stack)) = 0
      BY <2>2, <2>3, LastFront
    <2>5. Front(stack) = <<>>
      BY <2>4, EmptySeq
    <2>6. QED
      BY <1>2, <2>1, <2>2, <2>3, <2>5
  <1>3. QED
    BY <1>1, <1>2

-----------------------------------------------------------------------------
(* What no step takes back: the data built and the diagnostics reported.   *)

LEMMA HeapKept ==
  ASSUME IInv, Next
  PROVE  /\ Len(heap) \in Nat /\ Len(heap') \in Nat /\ Len(heap) <= Len(heap')
         /\ \A d \in Ids : d \in 1..Len(heap') /\ heap'[d] = heap[d]
  <1>1. IInv'
    BY StepPreserves
  <1>2. heap \in Seq(NodeType(Len(heap))) /\ Len(heap) \in Nat
    BY Bounds DEF IInv, TypeOK
  <1>3. \/ heap' = heap
        \/ \E n : heap' = Append(heap, n)
        \/ \E a, b : heap' = heap \o <<a, b>>
    <2>1. ASSUME NEW list, Complete(list)
          PROVE  \/ \E n : heap' = Append(heap, n)
                 \/ \E a, b : heap' = heap \o <<a, b>>
      BY <2>1 DEF Complete
    <2>2. CASE TopStrayClose \/ TopCall \/ TopTake \/ TopEnd
      BY <2>2 DEF TopStrayClose, TopCall, TopTake, TopEnd
    <2>3. CASE DatumNone \/ DatumMalformed \/ DatumLeaf \/ DatumOperand \/ DatumOpen
      BY <2>3 DEF DatumNone, DatumMalformed, DatumLeaf, DatumOperand, DatumOpen
    <2>4. CASE DiscardTake \/ ArgTake \/ PrefixTake \/ TagTake
      BY <2>4 DEF DiscardTake, ArgTake, PrefixTake, TagTake
    <2>5. CASE ListEof \/ ListClose
      BY <2>1, <2>5 DEF ListEof, ListClose
    <2>6. CASE ListDot \/ ListTakeTail \/ ListItem \/ ListTakeItem
      BY <2>6 DEF ListDot, ListTakeTail, ListItem, ListTakeItem
    <2>7. CASE ListNoItem
      BY <2>1, <2>7 DEF ListNoItem
    <2>8. CASE SkipToken
      BY <2>8 DEF SkipToken
    <2>9. CASE SkipClose \/ SkipEof
      BY <2>1, <2>9 DEF SkipClose, SkipEof
    <2>10. QED
      BY <2>2, <2>3, <2>4, <2>5, <2>6, <2>7, <2>8, <2>9 DEF Next, ReadDatum
  <1>4. CASE heap' = heap
    BY <1>2, <1>4 DEF Ids
  <1>5. ASSUME NEW n, heap' = Append(heap, n)
        PROVE  Len(heap') = Len(heap) + 1 /\ \A d \in 1..Len(heap) : heap'[d] = heap[d]
    <2> DEFINE S == NodeType(Len(heap)) \union {n}
    <2>1. heap \in Seq(S) /\ n \in S
      BY <1>2, SeqMonotonic
    <2> HIDE DEF S
    <2>2. QED
      BY <1>5, <2>1, AppendProperties
  <1>6. ASSUME NEW a, NEW b, heap' = heap \o <<a, b>>
        PROVE  Len(heap') = Len(heap) + 2 /\ \A d \in 1..Len(heap) : heap'[d] = heap[d]
    <2> DEFINE S == NodeType(Len(heap)) \union {a, b}
    <2>1. heap \in Seq(S)
      BY <1>2, SeqMonotonic
    <2>2. <<a, b>> \in Seq(S) /\ Len(<<a, b>>) = 2
      OBVIOUS
    <2> HIDE DEF S
    <2>3. QED
      BY <1>6, <2>1, <2>2, ConcatProperties
  <1>7. /\ Len(heap') = Len(heap) \/ Len(heap') = Len(heap) + 1 \/ Len(heap') = Len(heap) + 2
        /\ \A d \in 1..Len(heap) : heap'[d] = heap[d]
    BY <1>3, <1>4, <1>5, <1>6
  <1>8. \A d \in 1..Len(heap) : d \in 1..Len(heap')
    BY <1>2, <1>7
  <1>9. QED
    BY <1>2, <1>7, <1>8 DEF Ids

LEMMA ErrorsKept ==
  ASSUME IInv, Next
  PROVE  /\ errors \in Seq(ErrorType) /\ Len(errors) \in Nat
         /\ \/ errors' = errors
            \/ \E e \in ErrorType : errors' = Append(errors, e)
         /\ \A i \in DOMAIN errors : i \in DOMAIN errors' /\ errors'[i] = errors[i]
  <1>1. errors \in Seq(ErrorType) /\ Len(errors) \in Nat
    BY LenProperties DEF IInv, TypeOK
  <1>2. errors' \in Seq(ErrorType)
    <2>1. IInv' /\ input' = input
      <3>1. input' = input
        BY DEF Next, ReadDatum, TopStrayClose, TopCall, TopTake, TopEnd, DatumNone,
               DatumMalformed, DatumLeaf, DatumOperand, DatumOpen, DiscardTake, ArgTake,
               PrefixTake, TagTake, ListEof, ListClose, ListDot, ListTakeTail, ListItem,
               ListTakeItem, ListNoItem, SkipToken, SkipClose, SkipEof
      <3>2. QED
        BY <3>1, StepPreserves
    <2>2. ErrorType' = ErrorType
      BY <2>1 DEF ErrorType, Index, input
    <2>3. QED
      BY <2>1, <2>2 DEF IInv, TypeOK
  <1>3. errors' = errors \/ \E kind, at : error(kind, at)
    <2>1. CASE TopStrayClose \/ TopCall \/ TopTake \/ TopEnd
      BY <2>1 DEF TopStrayClose, TopCall, TopTake, TopEnd
    <2>2. CASE DatumNone \/ DatumMalformed \/ DatumLeaf \/ DatumOperand
      BY <2>2 DEF DatumNone, DatumMalformed, DatumLeaf, DatumOperand
    <2>3. CASE DatumOpen
      BY <2>3 DEF DatumOpen
    <2>4. CASE DiscardTake \/ ArgTake
      BY <2>4 DEF DiscardTake, ArgTake
    <2>5. CASE PrefixTake \/ TagTake
      BY <2>5 DEF PrefixTake, TagTake
    <2>6. CASE ListEof \/ ListClose
      BY <2>6 DEF ListEof, ListClose
    <2>7. CASE ListDot \/ ListTakeTail \/ ListItem \/ ListTakeItem
      BY <2>7 DEF ListDot, ListTakeTail, ListItem, ListTakeItem
    <2>8. CASE ListNoItem
      BY <2>8 DEF ListNoItem
    <2>9. CASE SkipToken \/ SkipClose \/ SkipEof
      BY <2>9 DEF SkipToken, SkipClose, SkipEof
    <2>10. QED
      BY <2>1, <2>2, <2>3, <2>4, <2>5, <2>6, <2>7, <2>8, <2>9 DEF Next, ReadDatum
  <1>4. CASE errors' = errors
    BY <1>1, <1>4
  <1>5. ASSUME NEW kind, NEW at, error(kind, at)
        PROVE  /\ \E e \in ErrorType : errors' = Append(errors, e)
               /\ \A i \in DOMAIN errors : i \in DOMAIN errors' /\ errors'[i] = errors[i]
    <2> DEFINE e == [kind |-> kind, at |-> at]
               S == ErrorType \union {e}
    <2>1. errors' = Append(errors, e)
      BY <1>5 DEF error
    <2>2. errors \in Seq(S) /\ e \in S
      BY <1>1, SeqMonotonic
    <2> HIDE DEF S, e
    <2>3. /\ errors' \in Seq(S) /\ Len(errors') = Len(errors) + 1
          /\ errors'[Len(errors) + 1] = e
          /\ \A i \in 1..Len(errors) : errors'[i] = errors[i]
      BY <2>1, <2>2, AppendProperties
    <2>4. Len(errors) + 1 \in 1..Len(errors')
      BY <1>1, <2>3
    <2>5. e \in ErrorType
      BY <1>2, <2>3, <2>4, ElementOfSeq
    <2>6. ASSUME NEW i \in DOMAIN errors
          PROVE  i \in DOMAIN errors' /\ errors'[i] = errors[i]
      <3>1. i \in 1..Len(errors) /\ DOMAIN errors' = 1..Len(errors')
        BY <1>1, <2>3, LenProperties
      <3>2. QED
        BY <1>1, <2>3, <3>1
    <2>7. QED
      BY <2>1, <2>5, <2>6
  <1>6. QED
    BY <1>1, <1>3, <1>4, <1>5

-----------------------------------------------------------------------------
(* Where the calls and what they return begin.                             *)

\* Every call made by the current top-level call began between its token and
\* the next one to read.
CallsInside ==
  stack # <<>> =>
    \A i \in 2..Len(stack) : stack[1].at <= stack[i].at /\ stack[i].at < pos

LEMMA CallsInsideStep ==
  ASSUME IInv, Begun, CallsInside, Next
  PROVE  CallsInside'
  <1>1. CASE TopStrayClose \/ TopCall \/ TopTake \/ TopEnd
    <2>1. stack' = <<>> \/ stack' = <<Frame("top", pos)>>
      BY <1>1, TopMoves
    <2>2. stack' = <<>> => CallsInside'
      BY DEF CallsInside
    <2>3. ASSUME NEW f, stack' = <<f>> PROVE Len(stack') = 1
      BY <2>3
    <2>4. Len(stack') = 1 => CallsInside'
      BY DEF CallsInside
    <2>5. QED
      BY <2>1, <2>2, <2>3, <2>4
  <1>2. CASE ReadDatum
    <2> SUFFICES ASSUME NEW i \in 2..Len(stack')
                 PROVE  stack'[1].at <= stack'[i].at /\ stack'[i].at < pos'
      BY DEF CallsInside
    <2>1. /\ stack # <<>> /\ pos' \in {pos, pos + 1} /\ pos \in Int
          /\ Len(stack) \in Nat \ {0} /\ stack'[1].at = stack[1].at
          /\ stack[1].at \in Int /\ stack[1].at <= pos
          /\ \A j \in 1..Len(stack) : stack[j].at \in Int
      <3>1. stack # <<>> /\ pos' \in {pos, pos + 1}
        BY <1>2, CallsMove
      <3>2. pos \in Int
        BY DEF IInv, TypeOK
      <3>3. /\ Len(stack) \in Nat \ {0}
            /\ \A j \in 1..Len(stack) : stack[j].at \in Int
        BY <3>1, InnerCall
      <3>4. stack'[1].at = stack[1].at
        BY <1>2, OuterKept
      <3>5. stack[1].at \in Int
        BY <3>3
      <3>6. QED
        BY <3>1, <3>2, <3>3, <3>4, <3>5 DEF Begun
    <2>2. \A j \in 2..Len(stack) : stack[1].at <= stack[j].at /\ stack[j].at < pos
      BY <2>1 DEF CallsInside
    <2>3. CASE stack' = stack
      BY <2>1, <2>2, <2>3
    <2>4. CASE \E f : stack' = Append(stack, f) /\ f.at = pos /\ pos' = pos + 1
      <3>1. PICK f : stack' = Append(stack, f) /\ f.at = pos /\ pos' = pos + 1
        BY <2>4
      <3>2. /\ Len(stack') = Len(stack) + 1 /\ stack'[Len(stack) + 1] = f
            /\ \A j \in 1..Len(stack) : stack'[j] = stack[j]
        BY <3>1, Pushed
      <3>3. CASE i = Len(stack) + 1
        BY <2>1, <3>1, <3>2, <3>3
      <3>4. CASE i # Len(stack) + 1
        <4>1. i \in 2..Len(stack) /\ stack'[i] = stack[i]
          BY <2>1, <3>2, <3>4
        <4>2. QED
          BY <2>1, <2>2, <4>1
      <3>5. QED
        BY <3>3, <3>4
    <2>5. CASE stack' = Front(stack)
      <3>1. Len(stack') = Len(stack) - 1 /\ \A j \in 1..Len(stack) - 1 : stack'[j] = stack[j]
        BY <2>1, <2>5, Popped
      <3>2. i \in 2..Len(stack) /\ stack'[i] = stack[i]
        BY <2>1, <3>1
      <3>3. QED
        BY <2>1, <2>2, <3>2
    <2>6. CASE \E f : resume(f) /\ f.at = top.at
      <3>1. PICK f : resume(f) /\ f.at = top.at
        BY <2>6
      <3>2. /\ Len(stack') = Len(stack) /\ stack'[Len(stack)] = f
            /\ \A j \in 1..Len(stack) - 1 : stack'[j] = stack[j]
        BY <2>1, <3>1, Resumed
      <3>3. i \in 2..Len(stack) /\ stack'[i].at = stack[i].at
        <4>1. CASE i = Len(stack)
          <5>1. top = stack[Len(stack)]
            BY <2>1, InnerCall
          <5>2. QED
            BY <2>1, <3>1, <3>2, <4>1, <5>1
        <4>2. CASE i # Len(stack)
          BY <2>1, <3>2, <4>2
        <4>3. QED
          BY <4>1, <4>2
      <3>4. QED
        BY <2>1, <2>2, <3>3
    <2>7. QED
      BY <1>2, <2>3, <2>4, <2>5, <2>6, CallsMove
  <1>3. QED
    BY <1>1, <1>2 DEF Next

\* The datum a call returns begins on the token the call began on; a leaf is
\* the next token itself.
LEMMA ReturnBegins ==
  ASSUME IInv, ReadDatum, pc' = "return", ret' # None
  PROVE  \/ pc = "datum" /\ pos' = pos + 1 /\ heap'[ret'].first = pos /\ stack' = stack
         \/ /\ pc # "datum" /\ heap'[ret'].first = top.at /\ stack' = Front(stack)
            /\ top.fn # "top"
  <1>1. Len(heap) \in Nat /\ heap \in Seq(NodeType(Len(heap)))
    BY Bounds DEF IInv, TypeOK
  <1>2. ASSUME NEW n, heap' = Append(heap, n)
        PROVE  heap'[Len(heap) + 1] = n
    <2> DEFINE S == NodeType(Len(heap)) \union {n}
    <2>1. heap \in Seq(S) /\ n \in S
      BY <1>1, SeqMonotonic
    <2> HIDE DEF S
    <2>2. QED
      BY <1>2, <2>1, AppendProperties
  <1>3. ASSUME NEW list, Complete(list), pc # "datum", list.first = top.at
        PROVE  heap'[ret'].first = top.at /\ stack' = Front(stack)
    <2>1. stack' = Front(stack)
      BY <1>3 DEF Complete
    <2>2. CASE tokens[list.first] \in HashOpens
      <3> DEFINE h == Node("hash", list.first, list.end, <<Len(heap) + 1>>)
                 S == NodeType(Len(heap)) \union {list, h}
      <3>1. heap' = heap \o <<list, h>> /\ ret' = Len(heap) + 2
        BY <1>3, <2>2 DEF Complete, return
      <3>2. h.first = top.at
        BY <1>3 DEF Node
      <3>3. heap \in Seq(S) /\ <<list, h>> \in Seq(S) /\ Len(<<list, h>>) = 2
        BY <1>1, SeqMonotonic
      <3>4. <<list, h>>[2] = h
        OBVIOUS
      <3> HIDE DEF S, h
      <3>5. heap'[Len(heap) + 2] = h
        <4>1. \A i \in 1..Len(<<list, h>>) : (heap \o <<list, h>>)[Len(heap) + i] = <<list, h>>[i]
          BY <1>1, <3>3, ConcatProperties
        <4>2. QED
          BY <3>1, <3>3, <3>4, <4>1
      <3>6. QED
        BY <2>1, <3>1, <3>2, <3>5
    <2>3. CASE tokens[list.first] \notin HashOpens
      <3>1. heap' = Append(heap, FoldLonghand(list)) /\ ret' = Len(heap) + 1
        BY <1>3, <2>3 DEF Complete, return
      <3>2. FoldLonghand(list).first = top.at
        <4>1. CASE folds(list)
          BY <1>3, <4>1 DEF FoldLonghand, Node
        <4>2. CASE ~folds(list)
          <5>1. [list EXCEPT !.dot = None].first = list.first
            OBVIOUS
          <5>2. FoldLonghand(list) \in {list, [list EXCEPT !.dot = None]}
            BY <4>2 DEF FoldLonghand
          <5>3. QED
            BY <1>3, <5>1, <5>2
        <4>3. QED
          BY <4>1, <4>2
      <3>3. QED
        BY <1>2, <2>1, <3>1, <3>2
    <2>4. QED
      BY <2>2, <2>3
  <1>4. ASSUME NEW f, NEW end PROVE List(f, end).first = f.at
    BY DEF List, Node
  <1>5. ASSUME NEW kind, NEW at, NEW end, NEW items
        PROVE  Node(kind, at, end, items).first = at
    BY DEF Node
  <1>6. CASE DatumNone \/ DatumMalformed \/ DatumOperand \/ DatumOpen
    <2>1. DatumNone => ret' = None
      BY DEF DatumNone, return
    <2>2. DatumMalformed => pc' = "datum"
      BY DEF DatumMalformed
    <2>3. DatumOperand => pc' = "datum"
      BY DEF DatumOperand, call
    <2>4. DatumOpen => pc' \in {"skip", "list"}
      BY DEF DatumOpen
    <2>5. QED
      BY <1>6, <2>1, <2>2, <2>3, <2>4
  <1>7. CASE DatumLeaf
    <2>1. /\ pc = "datum" /\ pos' = pos + 1 /\ stack' = stack
          /\ heap' = Append(heap, Node("leaf", pos, pos, <<>>)) /\ ret' = Len(heap) + 1
      BY <1>7 DEF DatumLeaf, return
    <2>2. QED
      BY <1>2, <1>5, <2>1
  <1>8. CASE DiscardTake \/ ArgTake
    BY <1>8 DEF DiscardTake, ArgTake
  <1>9. CASE PrefixTake
    <2> DEFINE m == Node(top.fn, top.at, heap[ret].end, <<ret>>)
               n == [m EXCEPT !.arg = top.arg]
    <2>1. /\ pc = "return" /\ top.fn \in {"prefix", "label"} /\ stack' = Front(stack)
          /\ heap' = Append(heap, n) /\ ret' = Len(heap) + 1
      BY <1>9 DEF PrefixTake, return
    <2>2. n.first = top.at
      BY DEF Node
    <2> HIDE DEF n
    <2>3. QED
      BY <1>2, <2>1, <2>2
  <1>10. CASE TagTake
    <2>1. /\ pc = "return" /\ top.fn = "tag" /\ stack' = Front(stack)
          /\ \E end, items : heap' = Append(heap, Node("hash", top.at, end, items))
          /\ ret' = Len(heap) + 1
      BY <1>10 DEF TagTake, return
    <2>2. QED
      BY <1>2, <1>5, <2>1
  <1>11. CASE ListEof \/ ListClose
    <2>1. pc = "list" /\ \E end : Complete(List(top, end))
      BY <1>11 DEF ListEof, ListClose
    <2>2. top.fn = "list"
      BY <2>1, NotOutermost
    <2>3. QED
      BY <1>3, <1>4, <2>1, <2>2
  <1>12. CASE ListDot \/ ListTakeTail \/ ListItem \/ ListTakeItem
    BY <1>12 DEF ListDot, ListTakeTail, ListItem, ListTakeItem
  <1>13. CASE ListNoItem
    <2>1. pc = "return" /\ top.fn = "list" /\ Complete(List(top, UnclosedEnd(top)))
      BY <1>13 DEF ListNoItem
    <2>2. QED
      BY <1>3, <1>4, <2>1
  <1>14. CASE SkipToken
    BY <1>14 DEF SkipToken
  <1>15. CASE SkipClose \/ SkipEof
    <2>1. pc = "skip" /\ \E end : Complete(Node("list", top.at, end, <<>>))
      BY <1>15 DEF SkipClose, SkipEof
    <2>2. top.fn = "skip"
      BY <2>1, NotOutermost
    <2>3. QED
      BY <1>3, <1>5, <2>1, <2>2
  <1>16. QED
    BY <1>6, <1>7, <1>8, <1>9, <1>10, <1>11, <1>12, <1>13, <1>14, <1>15 DEF ReadDatum

\* A datum being returned begins between the token of the current top-level
\* call and the next one to read.
ReturnInside ==
  pc = "return" /\ ret # None => heap[ret].first \in stack[1].at..pos - 1

LEMMA ReturnInsideStep ==
  ASSUME IInv, Begun, CallsInside, Next
  PROVE  ReturnInside'
  <1> SUFFICES ASSUME pc' = "return", ret' # None
               PROVE  heap'[ret'].first \in stack'[1].at..pos' - 1
    BY DEF ReturnInside, None
  <1>1. ReadDatum
    BY DEF Next, TopStrayClose, TopCall, TopTake, TopEnd, call
  <1>2. /\ stack # <<>> /\ pos' \in {pos, pos + 1} /\ pos \in Int
        /\ stack'[1].at = stack[1].at
    <2>1. pos \in Int
      BY DEF IInv, TypeOK
    <2>2. QED
      BY <1>1, <2>1, CallsMove, OuterKept
  <1>3. /\ Len(stack) \in Nat \ {0} /\ top = stack[Len(stack)]
        /\ top.fn # "top" => Len(stack) >= 2
        /\ stack[1].at \in Int /\ top.at \in Int
    BY <1>2, InnerCall
  <1>4. CASE pc = "datum" /\ pos' = pos + 1 /\ heap'[ret'].first = pos
    BY <1>2, <1>3, <1>4 DEF Begun
  <1>5. CASE heap'[ret'].first = top.at /\ top.fn # "top"
    <2>1. stack[1].at <= top.at /\ top.at < pos
      BY <1>2, <1>3, <1>5 DEF CallsInside
    <2>2. QED
      BY <1>2, <1>3, <1>5, <2>1
  <1>6. QED
    BY <1>1, <1>4, <1>5, ReturnBegins

-----------------------------------------------------------------------------
(* What is passed over is accounted for.                                   *)

\* The calls of parse_datum's `#;' arm began on such a token.
DiscardsHide ==
  \A i \in 1..Len(stack) : stack[i].fn = "discard" => tokens[stack[i].at] \in Comments

LEMMA DiscardsHideStep ==
  ASSUME IInv, DiscardsHide, Next
  PROVE  DiscardsHide'
  <1>1. tokens' = tokens /\ opts' = opts
    BY DEF Next, ReadDatum, TopStrayClose, TopCall, TopTake, TopEnd, DatumNone,
           DatumMalformed, DatumLeaf, DatumOperand, DatumOpen, DiscardTake, ArgTake,
           PrefixTake, TagTake, ListEof, ListClose, ListDot, ListTakeTail, ListItem,
           ListTakeItem, ListNoItem, SkipToken, SkipClose, SkipEof, input
  <1>2. Comments' = Comments
    BY <1>1 DEF Comments
  <1> SUFFICES ASSUME NEW i \in 1..Len(stack'), stack'[i].fn = "discard"
               PROVE  tokens[stack'[i].at] \in Comments
    BY <1>1, <1>2 DEF DiscardsHide
  <1>3. CASE TopStrayClose \/ TopCall \/ TopTake \/ TopEnd
    <2>1. stack' = <<>> \/ stack' = <<Frame("top", pos)>>
      BY <1>3, TopMoves
    <2>2. stack' # <<>> /\ i = 1
      BY <2>1
    <2>3. stack'[i].fn = "top"
      BY <2>1, <2>2 DEF Frame
    <2>4. QED
      BY <2>3
  <1>4. CASE ReadDatum
    <2>1. stack # <<>> /\ Len(stack) \in Nat \ {0} /\ top = stack[Len(stack)]
      BY <1>4, CallsMove, InnerCall
    <2>2. CASE stack' = stack
      BY <2>2 DEF DiscardsHide
    <2>3. ASSUME NEW f, stack' = Append(stack, f), f.at = pos,
                 f.fn = "discard" => peek = "#;" /\ ~opts.keep_discarded
          PROVE  tokens[stack'[i].at] \in Comments
      <3>1. /\ Len(stack') = Len(stack) + 1 /\ stack'[Len(stack) + 1] = f
            /\ \A j \in 1..Len(stack) : stack'[j] = stack[j]
        BY <2>3, Pushed
      <3>2. CASE i = Len(stack) + 1
        <4>1. peek = "#;" /\ ~opts.keep_discarded
          BY <2>3, <3>1, <3>2
        <4>2. tokens[pos] = "#;"
          BY <4>1 DEF peek, EOF
        <4>3. QED
          BY <2>3, <3>1, <3>2, <4>1, <4>2 DEF Comments
      <3>3. CASE i # Len(stack) + 1
        <4>1. i \in 1..Len(stack) /\ stack'[i] = stack[i]
          BY <2>1, <3>1, <3>3
        <4>2. QED
          BY <4>1 DEF DiscardsHide
      <3>4. QED
        BY <3>2, <3>3
    <2>4. CASE stack' = Front(stack)
      <3>1. Len(stack') = Len(stack) - 1 /\ \A j \in 1..Len(stack) - 1 : stack'[j] = stack[j]
        BY <2>1, <2>4, Popped
      <3>2. i \in 1..Len(stack) /\ stack'[i] = stack[i]
        BY <2>1, <3>1
      <3>3. QED
        BY <3>2 DEF DiscardsHide
    <2>5. ASSUME NEW f, resume(f), f.at = top.at,
                 f.fn = IF top.fn = "arg" THEN "prefix" ELSE top.fn
          PROVE  tokens[stack'[i].at] \in Comments
      <3>1. /\ Len(stack') = Len(stack) /\ stack'[Len(stack)] = f
            /\ \A j \in 1..Len(stack) - 1 : stack'[j] = stack[j]
        BY <2>1, <2>5, Resumed
      <3>2. i \in 1..Len(stack)
        BY <3>1
      <3>3. CASE i = Len(stack)
        <4>1. top.fn = "discard"
          BY <2>5, <3>1, <3>3
        <4>2. tokens[top.at] \in Comments
          BY <2>1, <3>2, <3>3, <4>1 DEF DiscardsHide
        <4>3. QED
          BY <2>5, <3>1, <3>3, <4>2
      <3>4. CASE i # Len(stack)
        <4>1. stack'[i] = stack[i]
          BY <2>1, <3>1, <3>2, <3>4
        <4>2. QED
          BY <3>2, <4>1 DEF DiscardsHide
      <3>5. QED
        BY <3>3, <3>4
    <2>6. QED
      BY <1>4, <2>2, <2>3, <2>4, <2>5, CallsMove
  <1>5. QED
    BY <1>3, <1>4 DEF Next

\* A reason the caller can see why the tokens from..to - 1 yield no datum.
Excuse(from, to) ==
  \/ \E i \in from..to - 1 : tokens[i] \in Comments
  \/ \E i \in DOMAIN errors : errors[i].at \in from..to - 1

\* While parse_top_level's own call of parse_datum has consumed tokens without
\* starting a datum, or returns None, there is a reason for it.
Accounted ==
  /\ Len(stack) = 1
  /\ (pc = "datum" /\ pos > stack[1].at) \/ (pc = "return" /\ ret = None)
  => Excuse(stack[1].at, pos)

\* The steps after which that is the case.
LEMMA PassingOver ==
  ASSUME IInv, ReadDatum, Len(stack') = 1,
         pc' = "datum" \/ (pc' = "return" /\ ret' = None)
  PROVE  \/ pc = "datum" /\ stack' = stack /\ (DatumNone \/ DatumMalformed)
         \/ stack' = Front(stack) /\ DiscardTake
         \/ stack' = Front(stack) /\ PrefixTake /\ ret = None
  <1>1. stack # <<>> /\ Len(stack) \in Nat \ {0} /\ Len(heap) \in Nat
    BY CallsMove, InnerCall, Bounds
  <1>2. ASSUME NEW f, stack' = Append(stack, f) PROVE FALSE
    BY <1>1, <1>2, Pushed
  <1>3. ASSUME NEW f, resume(f), top.fn # "top" PROVE FALSE
    BY <1>1, <1>3, Resumed, InnerCall
  <1>4. ASSUME NEW list, Complete(list) PROVE FALSE
    BY <1>1, <1>4 DEF Complete, return, None
  <1>5. CASE DatumNone \/ DatumMalformed
    BY <1>5 DEF DatumNone, DatumMalformed
  <1>6. CASE DatumLeaf
    BY <1>1, <1>6 DEF DatumLeaf, return, None
  <1>7. CASE DatumOperand
    BY <1>2, <1>7 DEF DatumOperand, call
  <1>8. CASE DatumOpen
    BY <1>2, <1>8 DEF DatumOpen
  <1>9. CASE DiscardTake
    BY <1>9 DEF DiscardTake
  <1>10. CASE ArgTake
    <2>1. top.fn = "arg" /\ \E f : resume(f)
      BY <1>10 DEF ArgTake
    <2>2. QED
      BY <1>3, <2>1
  <1>11. CASE PrefixTake
    BY <1>1, <1>11 DEF PrefixTake, return, None
  <1>12. CASE TagTake
    BY <1>1, <1>12 DEF TagTake, return, None
  <1>13. CASE ListEof \/ ListClose
    BY <1>4, <1>13 DEF ListEof, ListClose
  <1>14. CASE ListDot
    <2>1. top.fn = "list" /\ \E f : resume(f)
      BY <1>14, NotOutermost DEF ListDot
    <2>2. QED
      BY <1>3, <2>1
  <1>15. CASE ListTakeTail \/ ListTakeItem
    BY <1>15 DEF ListTakeTail, ListTakeItem
  <1>16. CASE ListItem
    <2>1. pc = "list" /\ stack' = stack
      BY <1>16 DEF ListItem
    <2>2. top.fn = "list"
      BY <2>1, NotOutermost
    <2>3. Len(stack) >= 2
      BY <1>1, <2>2, InnerCall
    <2>4. Len(stack) = 1
      BY <2>1
    <2>5. QED
      BY <2>3, <2>4
  <1>17. CASE ListNoItem
    BY <1>4, <1>17 DEF ListNoItem
  <1>18. CASE SkipToken
    BY <1>18 DEF SkipToken
  <1>19. CASE SkipClose
    BY <1>4, <1>19 DEF SkipClose
  <1>20. CASE SkipEof
    BY <1>4, <1>20 DEF SkipEof
  <1>21. QED
    BY <1>5, <1>6, <1>7, <1>8, <1>9, <1>10, <1>11, <1>12, <1>13, <1>14, <1>15, <1>16,
       <1>17, <1>18, <1>19, <1>20 DEF ReadDatum

LEMMA AccountedStep ==
  ASSUME IInv, Begun, CallsInside, DiscardsHide, Accounted, Next
  PROVE  Accounted'
  <1>1. tokens' = tokens /\ opts' = opts
    BY DEF Next, ReadDatum, TopStrayClose, TopCall, TopTake, TopEnd, DatumNone,
           DatumMalformed, DatumLeaf, DatumOperand, DatumOpen, DiscardTake, ArgTake,
           PrefixTake, TagTake, ListEof, ListClose, ListDot, ListTakeTail, ListItem,
           ListTakeItem, ListNoItem, SkipToken, SkipClose, SkipEof, input
  <1>2. Comments' = Comments
    BY <1>1 DEF Comments
  <1> SUFFICES ASSUME Len(stack') = 1,
                      \/ pc' = "datum" /\ pos' > stack'[1].at
                      \/ pc' = "return" /\ ret' = None
               PROVE  \/ \E i \in stack'[1].at..pos' - 1 : tokens[i] \in Comments
                      \/ \E i \in DOMAIN errors' : errors'[i].at \in stack'[1].at..pos' - 1
    BY <1>1, <1>2 DEF Accounted, Excuse, None
  <1>3. pos \in Int
    BY DEF IInv, TypeOK
  <1>4. ReadDatum
    <2>1. CASE TopStrayClose \/ TopCall \/ TopTake \/ TopEnd
      <3>1. stack' # <<>>
        OBVIOUS
      <3>2. stack' = <<Frame("top", pos)>> /\ pos' = pos /\ TopCall
        BY <2>1, <3>1, TopMoves
      <3>3. pc' = "datum" /\ stack'[1].at = pos
        BY <3>2 DEF TopCall, call, Frame
      <3>4. QED
        BY <1>3, <3>2, <3>3
    <2>2. QED
      BY <2>1 DEF Next
  <1>5. /\ stack # <<>> /\ Len(stack) \in Nat \ {0} /\ top = stack[Len(stack)]
        /\ stack'[1].at = stack[1].at /\ stack[1].at \in Int /\ top.at \in Int
    <2>1. stack # <<>> /\ stack'[1].at = stack[1].at
      BY <1>4, CallsMove, OuterKept
    <2>2. /\ Len(stack) \in Nat \ {0} /\ top = stack[Len(stack)]
          /\ \A i \in 1..Len(stack) : stack[i].at \in Int
      BY <2>1, InnerCall
    <2>3. 1 \in 1..Len(stack) /\ Len(stack) \in 1..Len(stack)
      BY <2>2
    <2>4. QED
      BY <2>1, <2>2, <2>3
  <1>6. errors' = errors \/ \E e \in ErrorType : errors' = Append(errors, e)
    BY ErrorsKept
  <1>7. \A i \in DOMAIN errors : i \in DOMAIN errors' /\ errors'[i] = errors[i]
    BY ErrorsKept
  <1>8. ASSUME NEW kind, NEW at \in stack'[1].at..pos' - 1, error(kind, at)
        PROVE  \E i \in DOMAIN errors' : errors'[i].at \in stack'[1].at..pos' - 1
    <2> DEFINE e == [kind |-> kind, at |-> at]
               S == ErrorType \union {e}
    <2>1. errors' = Append(errors, e) /\ e.at = at
      BY <1>8 DEF error
    <2>2. errors \in Seq(S) /\ e \in S /\ Len(errors) \in Nat
      BY ErrorsKept, SeqMonotonic
    <2> HIDE DEF S, e
    <2>3. /\ errors' \in Seq(S) /\ Len(errors') = Len(errors) + 1
          /\ errors'[Len(errors) + 1] = e
      BY <2>1, <2>2, AppendProperties
    <2>4. Len(errors) + 1 \in DOMAIN errors'
      BY <2>2, <2>3, LenProperties
    <2>5. QED
      BY <2>1, <2>3, <2>4
  <1>9. CASE pc = "datum" /\ stack' = stack /\ (DatumNone \/ DatumMalformed)
    <2>1. CASE DatumNone
      <3>1. pos' = pos /\ errors' = errors /\ peek \in Closes \union {EOF}
        BY <2>1 DEF DatumNone
      <3>2. pos > stack[1].at
        BY <1>5, <1>9, <3>1 DEF Begun
      <3>3. Excuse(stack[1].at, pos)
        BY <1>9, <3>2 DEF Accounted
      <3>4. QED
        BY <1>5, <3>1, <3>3 DEF Excuse
    <2>2. CASE DatumMalformed
      <3>1. pos' = pos + 1 /\ error("MalformedToken", pos)
        BY <2>2 DEF DatumMalformed
      <3>2. stack[1].at <= pos
        BY <1>3, <1>5 DEF Begun
      <3>3. pos \in stack'[1].at..pos' - 1
        BY <1>3, <1>5, <3>1, <3>2
      <3>4. QED
        BY <1>8, <3>1, <3>3
    <2>3. QED
      BY <1>9, <2>1, <2>2
  <1>10. ASSUME stack' = Front(stack), pos' = pos
         PROVE  Len(stack) = 2 /\ top.at \in stack'[1].at..pos' - 1
    <2>1. Len(stack) = 2
      <3>1. Len(stack') = Len(stack) - 1
        BY <1>5, <1>10, Popped
      <3>2. 1 = Len(stack) - 1 /\ Len(stack) \in Nat
        BY <1>5, <3>1
      <3>3. QED
        BY <3>2
    <2>2. stack[1].at <= top.at /\ top.at < pos
      BY <1>5, <2>1 DEF CallsInside
    <2>3. QED
      BY <1>3, <1>5, <1>10, <2>1, <2>2
  <1>11. CASE stack' = Front(stack) /\ DiscardTake
    <2>1. top.fn = "discard" /\ pos' = pos
          /\ (ret = None => error("DanglingPrefix", top.at))
      BY <1>11 DEF DiscardTake
    <2>2. top.at \in stack'[1].at..pos' - 1
      BY <1>10, <1>11, <2>1
    <2>3. tokens[top.at] \in Comments
      BY <1>5, <2>1 DEF DiscardsHide
    <2>4. QED
      BY <2>2, <2>3
  <1>12. CASE stack' = Front(stack) /\ PrefixTake /\ ret = None
    <2>1. pos' = pos /\ \E kind : error(kind, top.at)
      BY <1>12 DEF PrefixTake
    <2>2. top.at \in stack'[1].at..pos' - 1
      BY <1>10, <1>12, <2>1
    <2>3. QED
      BY <1>8, <2>1, <2>2
  <1>13. QED
    BY <1>4, <1>9, <1>11, <1>12, PassingOver

-----------------------------------------------------------------------------
(* The invariant the refinement rests on.                                  *)

PInv == IInv /\ Begun /\ CallsInside /\ ReturnInside /\ DiscardsHide /\ Accounted

LEMMA PInvariance == Spec => []PInv
  <1>1. Init => PInv
    <2> SUFFICES ASSUME Init PROVE PInv
      OBVIOUS
    <2>1. IInv
      BY InitEstablishes
    <2>2. stack = <<>> /\ Len(stack) = 0 /\ pc = "top"
      BY DEF Init
    <2>3. QED
      BY <2>1, <2>2 DEF PInv, Begun, CallsInside, ReturnInside, DiscardsHide, Accounted
  <1>2. PInv /\ [Next]_vars => PInv'
    <2> SUFFICES ASSUME PInv, [Next]_vars PROVE PInv'
      OBVIOUS
    <2>1. CASE UNCHANGED vars
      BY <2>1, StepPreserves DEF vars, PInv, Begun, CallsInside, ReturnInside,
                  DiscardsHide, Accounted, Excuse, Comments, peek
    <2>2. CASE Next
      BY <2>2, StepPreserves, BegunStep, CallsInsideStep, ReturnInsideStep,
         DiscardsHideStep, AccountedStep DEF PInv
    <2>3. QED
      BY <2>1, <2>2
  <1>3. QED
    BY <1>1, <1>2, PTL DEF Spec

-----------------------------------------------------------------------------
(* The steps of the reader as steps of TopForms.                           *)

\* What the refinement mapping leaves alone in every step.
LEMMA InputsKept ==
  ASSUME Next
  PROVE  tokens' = tokens /\ opts' = opts /\ Comments' = Comments
  <1>1. tokens' = tokens /\ opts' = opts
    BY DEF Next, ReadDatum, TopStrayClose, TopCall, TopTake, TopEnd, DatumNone,
           DatumMalformed, DatumLeaf, DatumOperand, DatumOpen, DiscardTake, ArgTake,
           PrefixTake, TagTake, ListEof, ListClose, ListDot, ListTakeTail, ListItem,
           ListTakeItem, ListNoItem, SkipToken, SkipClose, SkipEof, input
  <1>2. QED
    BY <1>1 DEF Comments

\* A datum already in the result keeps its place.
LEMMA FormsKept ==
  ASSUME IInv, Next, data' = data
  PROVE  Forms' = Forms
  <1>1. \A i \in DOMAIN data : data[i] \in Ids
    BY LenProperties, ElementOfSeq DEF IInv, TypeOK
  <1>2. \A i \in DOMAIN data : heap'[data[i]] = heap[data[i]]
    BY <1>1, HeapKept
  <1>3. QED
    BY <1>2 DEF Forms

\* A function on 1..n is a sequence of length n.
LEMMA MappedSeq ==
  ASSUME NEW S, NEW n \in Nat, NEW f \in [1..n -> S]
  PROVE  f \in Seq(S) /\ Len(f) = n
  <1>1. f \in Seq(S)
    BY SeqDef
  <1>2. DOMAIN f = 1..n /\ DOMAIN f = 1..Len(f) /\ Len(f) \in Nat
    BY <1>1, LenProperties
  <1>3. Len(f) = n
    <2>1. n > 0 => n \in 1..Len(f)
      BY <1>2
    <2>2. Len(f) > 0 => Len(f) \in 1..n
      BY <1>2
    <2>3. QED
      BY <1>2, <2>1, <2>2
  <1>4. QED
    BY <1>1, <1>3

\* One more element of a sequence whose elements are mapped is one more mapped.
LEMMA MappedAppend ==
  ASSUME NEW S, NEW n \in Nat, NEW f \in [1..n -> S], NEW g \in [1..n + 1 -> S],
         \A i \in 1..n : g[i] = f[i]
  PROVE  g = Append(f, g[n + 1])
  <1>1. f \in Seq(S) /\ Len(f) = n /\ g \in Seq(S) /\ Len(g) = n + 1
    BY MappedSeq
  <1>2. g[n + 1] \in S
    OBVIOUS
  <1> DEFINE h == Append(f, g[n + 1])
  <1>3. /\ h \in Seq(S) /\ Len(h) = n + 1 /\ h[n + 1] = g[n + 1]
        /\ \A i \in 1..n : h[i] = f[i]
    BY <1>1, <1>2, AppendProperties
  <1> HIDE DEF h
  <1>4. ASSUME NEW i \in 1..Len(g) PROVE g[i] = h[i]
    <2>1. CASE i = n + 1
      BY <1>3, <2>1
    <2>2. CASE i # n + 1
      <3>1. i \in 1..n
        BY <1>1, <2>2
      <3>2. QED
        BY <1>3, <3>1
    <2>3. QED
      BY <2>1, <2>2
  <1>5. g = h
    BY <1>1, <1>3, <1>4, SeqEqual
  <1>6. QED
    BY <1>5 DEF h

\* The form of the datum parse_top_level takes.
LEMMA FormsGrow ==
  ASSUME IInv, Next, NEW d \in Ids, data' = Append(data, d)
  PROVE  Forms' = Append(Forms, heap[d].first)
  <1>1. data \in Seq(Ids) /\ Len(data) \in Nat
    BY LenProperties DEF IInv, TypeOK
  <1>2. /\ data' \in Seq(Ids) /\ Len(data') = Len(data) + 1 /\ data'[Len(data) + 1] = d
        /\ \A i \in 1..Len(data) : data'[i] = data[i]
    BY <1>1, AppendProperties
  <1>3. DOMAIN data = 1..Len(data) /\ DOMAIN data' = 1..Len(data) + 1
    BY <1>1, <1>2, LenProperties
  <1>4. \A i \in Ids : heap'[i] = heap[i] /\ heap[i].first \in Index
    BY HeapKept, EndTyped
  <1>5. /\ \A i \in 1..Len(data) : data[i] \in Ids
        /\ \A i \in 1..Len(data) + 1 : data'[i] \in Ids
    <2>1. \A i \in 1..Len(data) : data[i] \in Ids
      BY <1>1, ElementOfSeq
    <2>2. ASSUME NEW i \in 1..Len(data) + 1 PROVE data'[i] \in Ids
      BY <1>2, ElementOfSeq
    <2>3. QED
      BY <2>1, <2>2
  <1>6. Forms \in [1..Len(data) -> Index]
    BY <1>3, <1>4, <1>5 DEF Forms
  <1>7. Forms' = [i \in 1..Len(data) + 1 |-> heap'[data'[i]].first]
    BY <1>3 DEF Forms
  <1>8. Forms' \in [1..Len(data) + 1 -> Index]
    BY <1>4, <1>5, <1>7
  <1>9. \A i \in 1..Len(data) : Forms'[i] = Forms[i]
    <2> TAKE i \in 1..Len(data)
    <2>1. i \in 1..Len(data) + 1
      BY <1>1
    <2>2. Forms'[i] = heap'[data'[i]].first
      BY <1>7, <2>1
    <2>3. Forms[i] = heap[data[i]].first
      BY <1>3 DEF Forms
    <2>4. QED
      BY <1>2, <1>4, <1>5, <2>2, <2>3
  <1>10. Forms'[Len(data) + 1] = heap[d].first
    <2>1. Len(data) + 1 \in 1..Len(data) + 1
      BY <1>1
    <2>2. QED
      BY <1>2, <1>4, <1>7, <2>1
  <1>11. QED
    BY <1>1, <1>6, <1>8, <1>9, <1>10, MappedAppend

LEMMA DefectsTyped ==
  ASSUME IInv
  PROVE  Defects \in Seq(Index) /\ DOMAIN Defects = DOMAIN errors
  <1>1. errors \in Seq(ErrorType) /\ Len(errors) \in Nat /\ DOMAIN errors = 1..Len(errors)
    BY LenProperties DEF IInv, TypeOK
  <1>2. \A i \in 1..Len(errors) : errors[i].at \in Index
    <2>1. \A f \in ErrorType : f.at \in Index
      BY DEF ErrorType
    <2>2. \A i \in 1..Len(errors) : errors[i] \in ErrorType
      BY <1>1, ElementOfSeq
    <2>3. QED
      BY <2>1, <2>2
  <1>3. Defects \in [1..Len(errors) -> Index]
    BY <1>1, <1>2 DEF Defects
  <1>4. QED
    BY <1>1, <1>3, MappedSeq DEF Defects

\* A diagnostic reported is a defect at its place.
LEMMA DefectsGrow ==
  ASSUME IInv, Next, NEW e \in ErrorType, errors' = Append(errors, e)
  PROVE  Defects' = Append(Defects, e.at)
  <1>1. errors \in Seq(ErrorType) /\ Len(errors) \in Nat
    BY LenProperties DEF IInv, TypeOK
  <1>2. /\ errors' \in Seq(ErrorType) /\ Len(errors') = Len(errors) + 1
        /\ errors'[Len(errors) + 1] = e
        /\ \A i \in 1..Len(errors) : errors'[i] = errors[i]
    BY <1>1, AppendProperties
  <1>3. DOMAIN errors = 1..Len(errors) /\ DOMAIN errors' = 1..Len(errors) + 1
    BY <1>1, <1>2, LenProperties
  <1>4. /\ \A i \in 1..Len(errors) : errors[i].at \in Index
        /\ \A i \in 1..Len(errors) + 1 : errors'[i].at \in Index
    <2>1. \A f \in ErrorType : f.at \in Index
      BY DEF ErrorType
    <2>2. \A i \in 1..Len(errors) : errors[i] \in ErrorType
      BY <1>1, ElementOfSeq
    <2>3. ASSUME NEW i \in 1..Len(errors) + 1 PROVE errors'[i] \in ErrorType
      BY <1>2, ElementOfSeq
    <2>4. QED
      BY <2>1, <2>2, <2>3
  <1>5. Defects \in [1..Len(errors) -> Index]
    BY <1>3, <1>4 DEF Defects
  <1>6. Defects' = [i \in 1..Len(errors) + 1 |-> errors'[i].at]
    BY <1>3 DEF Defects
  <1>7. Defects' \in [1..Len(errors) + 1 -> Index]
    BY <1>4, <1>6
  <1>8. \A i \in 1..Len(errors) : Defects'[i] = Defects[i]
    <2> TAKE i \in 1..Len(errors)
    <2>1. i \in 1..Len(errors) + 1
      BY <1>1
    <2>2. Defects'[i] = errors'[i].at
      BY <1>6, <2>1
    <2>3. Defects[i] = errors[i].at
      BY <1>3 DEF Defects
    <2>4. QED
      BY <1>2, <2>2, <2>3
  <1>9. Defects'[Len(errors) + 1] = e.at
    <2>1. Len(errors) + 1 \in 1..Len(errors) + 1
      BY <1>1
    <2>2. QED
      BY <1>2, <1>6, <2>1
  <1>10. QED
    BY <1>1, <1>5, <1>7, <1>8, <1>9, MappedAppend

LEMMA StepRefines ==
  ASSUME PInv, Next
  PROVE  [Promise!Next]_(Promise!vars)
  <1> USE DEF PInv
  <1>1. tokens' = tokens /\ Comments' = Comments
    BY InputsKept
  <1>2. pos \in 1..Len(tokens) + 1 /\ Len(tokens) \in Nat /\ pos \in Int
    BY Bounds DEF IInv, TypeOK
  <1>3. CASE TopStrayClose
    <2>1. /\ stack = <<>> /\ stack' = <<>> /\ pos' = pos + 1 /\ data' = data /\ pc' = pc
          /\ peek # EOF /\ error("UnexpectedDelimiter", pos)
      <3>1. stack = <<>> /\ stack' = <<>>
        <4>1. pc = "top"
          BY <1>3 DEF TopStrayClose
        <4>2. stack = <<>>
          BY <4>1 DEF IInv, TypeOK, Nested
        <4>3. QED
          BY <1>3, <4>2 DEF TopStrayClose
      <3>2. QED
        BY <1>3, <3>1 DEF TopStrayClose, Closes, EOF
    <2>2. pos \in Index /\ pos + 1 \in pos + 1..Len(tokens) + 1
      <3>1. pos \in Index /\ pos + 1 \in 1..Len(tokens) + 1
        BY <2>1, PeekInside DEF IInv
      <3>2. QED
        BY <1>2, <3>1
    <2>3. Cursor = pos /\ Cursor' = pos + 1
      BY <2>1 DEF Cursor
    <2>4. Forms' = Forms /\ Finished' = Finished
      BY <2>1, FormsKept DEF Finished
    <2>5. Defects' = Append(Defects, pos)
      <3> DEFINE e == [kind |-> "UnexpectedDelimiter", at |-> pos]
      <3>1. e \in ErrorType /\ e.at = pos
        BY <2>2 DEF ErrorType, ErrorKinds
      <3>2. errors' = Append(errors, e)
        BY <2>1 DEF error
      <3> HIDE DEF e
      <3>3. QED
        BY <3>1, <3>2, DefectsGrow
    <2>6. pos \in Cursor..pos + 1 - 1
      BY <1>2, <2>3
    <2>7. \E i \in DOMAIN Defects' : Defects'[i] \in Cursor..pos + 1 - 1
      <3>1. Defects \in Seq(Index)
        BY DefectsTyped
      <3>2. Len(Defects) \in Nat /\ Defects' \in Seq(Index)
            /\ Len(Defects') = Len(Defects) + 1 /\ Defects'[Len(Defects) + 1] = pos
        BY <2>2, <2>5, <3>1, AppendProperties, LenProperties
      <3>3. Len(Defects) + 1 \in DOMAIN Defects'
        BY <3>2, LenProperties
      <3>4. QED
        BY <2>6, <3>2, <3>3
    <2>8. Promise!PassOver(pos + 1)
      BY <1>1, <2>3, <2>4, <2>5, <2>6, <2>7 DEF Promise!PassOver, Promise!Excused
    <2>9. pos + 1 \in Cursor + 1..Len(tokens) + 1
      BY <2>2, <2>3
    <2>10. QED
      BY <2>8, <2>9 DEF Promise!Next
  <1>4. CASE TopCall
    <2>1. stack = <<>> /\ stack' = <<Frame("top", pos)>> /\ pos' = pos
      <3>1. pc = "top"
        BY <1>4 DEF TopCall
      <3>2. stack = <<>>
        BY <3>1 DEF IInv, TypeOK, Nested
      <3>3. stack' # <<>>
        <4>1. stack' = Append(stack, Frame("top", pos))
          BY <1>4 DEF TopCall, call
        <4>2. QED
          BY <4>1, Pushed
      <3>4. QED
        BY <1>4, <3>2, <3>3, TopMoves
    <2>2. Frame("top", pos).at = pos
      BY DEF Frame
    <2>3. Cursor = pos /\ Cursor' = pos
      BY <2>1, <2>2 DEF Cursor
    <2>4. Forms' = Forms /\ Defects' = Defects
      BY <1>4, FormsKept DEF TopCall, Defects
    <2>5. Finished' = Finished
      BY <1>4 DEF TopCall, call, Finished
    <2>6. QED
      BY <1>1, <2>3, <2>4, <2>5 DEF Promise!vars
  <1>5. CASE TopTake
    <2>1. /\ stack # <<>> /\ stack' = <<>> /\ Len(stack) = 1 /\ pc = "return"
          /\ errors' = errors
      <3>1. pc = "return"
        BY <1>5 DEF TopTake
      <3>2. stack # <<>>
        BY <3>1, Bounds
      <3>3. errors' = errors
        BY <1>5 DEF TopTake
      <3>4. QED
        BY <1>5, <3>1, <3>2, <3>3, TopMoves
    <2>2. top = stack[1] /\ stack[1].at \in Int
      BY <2>1, InnerCall
    <2>3. pos > top.at
      BY <2>1, <2>2 DEF Begun
    <2>4. pos' = pos
      BY <1>2, <1>5, <2>2, <2>3 DEF TopTake
    <2>5. Cursor = stack[1].at /\ Cursor' = pos
      BY <2>1, <2>4 DEF Cursor
    <2>6. pos \in Cursor + 1..Len(tokens) + 1
      BY <1>2, <2>2, <2>3, <2>5
    <2>7. Defects' = Defects
      BY <2>1 DEF Defects
    <2>8. CASE ret # None
      <3>1. ret \in Ids
        BY <2>8, Bounds DEF IInv, TypeOK, Ids, None
      <3>2. data' = Append(data, ret) /\ pc' = "top"
        BY <1>5, <2>8 DEF TopTake
      <3>3. Forms' = Append(Forms, heap[ret].first)
        BY <3>1, <3>2, FormsGrow
      <3>4. heap[ret].first \in Cursor..pos - 1
        BY <2>1, <2>5, <2>8 DEF ReturnInside
      <3>5. Finished' = Finished
        BY <2>1, <3>2 DEF Finished
      <3>6. Promise!ReadForm(pos)
        BY <1>1, <2>5, <2>7, <3>3, <3>4, <3>5 DEF Promise!ReadForm
      <3>7. QED
        BY <2>6, <3>6 DEF Promise!Next
    <2>9. ASSUME ret = None
          PROVE  /\ Forms' = Forms
                 /\ \/ \E i \in Cursor..pos - 1 : tokens[i] \in Comments
                    \/ \E i \in DOMAIN Defects : Defects[i] \in Cursor..pos - 1
      <3>1. data' = data
        BY <1>5, <2>9 DEF TopTake
      <3>2. Forms' = Forms
        BY <3>1, FormsKept
      <3>3. Excuse(stack[1].at, pos)
        BY <2>1, <2>9 DEF Accounted
      <3>4. QED
        BY <2>5, <3>2, <3>3 DEF Excuse, Defects
    <2>10. CASE ret = None /\ pos <= Len(tokens)
      <3>1. pc' = "top"
        BY <1>2, <1>5, <2>10 DEF TopTake
      <3>2. Finished' = Finished
        BY <2>1, <3>1 DEF Finished
      <3>3. Promise!PassOver(pos)
        BY <1>1, <2>5, <2>7, <2>9, <2>10, <3>2 DEF Promise!PassOver, Promise!Excused
      <3>4. QED
        BY <2>6, <3>3 DEF Promise!Next
    <2>11. CASE ret = None /\ ~(pos <= Len(tokens))
      <3>1. pc' = "done" /\ pos = Len(tokens) + 1
        BY <1>2, <1>5, <2>11 DEF TopTake
      <3>2. Finished' = TRUE
        BY <3>1 DEF Finished
      <3>3. Promise!Finish
        BY <1>1, <2>5, <2>7, <2>9, <2>11, <3>1, <3>2 DEF Promise!Finish, Promise!Excused
      <3>4. QED
        BY <3>3 DEF Promise!Next
    <2>12. QED
      BY <2>8, <2>10, <2>11
  <1>6. CASE TopEnd
    <2>1. /\ pc = "top" /\ peek = EOF /\ pc' = "done"
          /\ UNCHANGED <<pos, data, errors, stack>>
      BY <1>6 DEF TopEnd
    <2>2. stack = <<>>
      BY <2>1 DEF IInv, TypeOK, Nested
    <2>3. pos = Len(tokens) + 1
      BY <2>1, PeekInside DEF IInv
    <2>4. Cursor = Len(tokens) + 1 /\ Cursor' = Len(tokens) + 1
      BY <2>1, <2>2, <2>3 DEF Cursor
    <2>5. Forms' = Forms /\ Defects' = Defects
      BY <2>1, FormsKept DEF Defects
    <2>6. Finished' = TRUE
      BY <2>1 DEF Finished
    <2>7. Promise!Finish
      BY <1>1, <2>4, <2>5, <2>6 DEF Promise!Finish
    <2>8. QED
      BY <2>7 DEF Promise!Next
  <1>7. CASE ReadDatum
    <2>1. stack # <<>> /\ stack' # <<>> /\ stack'[1].at = stack[1].at
      BY <1>7, CallsMove, OuterKept
    <2>2. Cursor' = Cursor
      BY <2>1 DEF Cursor
    <2>3. Finished' = Finished
      <3>1. pc \notin {"top", "done"}
        BY <2>1 DEF IInv, TypeOK, Nested
      <3>2. IInv'
        BY StepPreserves
      <3>3. pc' \notin {"top", "done"}
        BY <2>1, <3>2 DEF IInv, TypeOK, Nested
      <3>4. QED
        BY <3>1, <3>3 DEF Finished
    <2>4. Forms' = Forms
      <3>1. data' = data
        BY <1>7 DEF ReadDatum, DatumNone, DatumMalformed, DatumLeaf, DatumOperand,
             DatumOpen, DiscardTake, ArgTake, PrefixTake, TagTake, ListEof, ListClose,
             ListDot, ListTakeTail, ListItem, ListTakeItem, ListNoItem, SkipToken,
             SkipClose, SkipEof
      <3>2. QED
        BY <3>1, FormsKept
    <2>5. CASE errors' = errors
      <3>1. Defects' = Defects
        BY <2>5 DEF Defects
      <3>2. QED
        BY <1>1, <2>2, <2>3, <2>4, <3>1 DEF Promise!vars
    <2>6. ASSUME NEW e \in ErrorType, errors' = Append(errors, e)
          PROVE  Promise!Report
      <3>1. Defects' = Append(Defects, e.at)
        BY <2>6, DefectsGrow
      <3>2. e.at \in DOMAIN tokens
        <4>1. e.at \in Index
          BY DEF ErrorType
        <4>2. DOMAIN tokens = Index
          BY LenProperties DEF IInv, TypeOK, Index
        <4>3. QED
          BY <4>1, <4>2
      <3>3. QED
        BY <1>1, <2>2, <2>3, <2>4, <3>1, <3>2 DEF Promise!Report
    <2>7. QED
      BY <2>5, <2>6, ErrorsKept DEF Promise!Next
  <1>8. QED
    BY <1>3, <1>4, <1>5, <1>6, <1>7 DEF Next

\* For every source, every choice of options and every depth cap, the reader
\* implements TopForms: parse works through the input from left to right, every
\* stretch of it yields one top-level form or is passed over because of a defect
\* reported inside it or a datum comment (reader.rs:190-238), and parse returns
\* only when the whole input has been worked through.
THEOREM PromiseKept == Spec => RefinesTopForms
  <1>1. Init => Promise!Init
    <2> SUFFICES ASSUME Init PROVE Promise!Init
      OBVIOUS
    <2>1. /\ pos = 1 /\ stack = <<>> /\ data = <<>> /\ errors = <<>> /\ pc = "top"
      BY DEF Init
    <2>2. Cursor = 1
      BY <2>1 DEF Cursor
    <2>3. Forms = <<>> /\ Defects = <<>>
      BY <2>1 DEF Forms, Defects
    <2>4. Finished = FALSE
      BY <2>1 DEF Finished
    <2>5. QED
      BY <2>2, <2>3, <2>4 DEF Promise!Init
  <1>2. PInv /\ [Next]_vars => [Promise!Next]_(Promise!vars)
    <2> SUFFICES ASSUME PInv, [Next]_vars PROVE [Promise!Next]_(Promise!vars)
      OBVIOUS
    <2>1. CASE UNCHANGED vars
      <3>1. /\ tokens' = tokens /\ opts' = opts /\ pos' = pos /\ errors' = errors
            /\ data' = data /\ heap' = heap /\ stack' = stack /\ pc' = pc
        BY <2>1 DEF vars
      <3>2. /\ Comments' = Comments /\ Cursor' = Cursor /\ Forms' = Forms
            /\ Defects' = Defects /\ Finished' = Finished
        BY <3>1 DEF Comments, Cursor, Forms, Defects, Finished
      <3>3. QED
        BY <3>1, <3>2 DEF Promise!vars
    <2>2. QED
      BY <2>1, StepRefines
  <1>3. QED
    BY <1>1, <1>2, PInvariance, PTL DEF Spec, RefinesTopForms, Promise!Spec
=============================================================================
