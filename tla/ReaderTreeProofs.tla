--------------------------- MODULE ReaderTreeProofs ---------------------------
(***************************************************************************)
(* The tree the reader builds, for every source, every choice of options   *)
(* and every depth cap: no datum is lost on any path through recovery, and *)
(* the spans of the data nest.                                             *)
(***************************************************************************)
EXTENDS ReaderProofs

-----------------------------------------------------------------------------
(* What each call in progress can hold.                                    *)

\* Only finish_list collects items and a tail, only a two-operand prefix holds
\* its first operand, and a list that waits for a tail has none.
FrameShape(f) ==
  /\ f.fn # "list" => f.items = <<>> /\ f.tail = None /\ f.after = None
  /\ f.fn # "prefix" => f.arg = None
  /\ f.after # None => f.tail = None
Shaped == \A i \in 1..Len(stack) : FrameShape(stack[i])

LEMMA TopShaped ==
  ASSUME IInv, Shaped, stack # <<>>
  PROVE  FrameShape(top)
  <1>1. Len(stack) \in 1..Len(stack) /\ top = stack[Len(stack)]
    BY InnerCall
  <1>2. QED
    BY <1>1 DEF Shaped

\* A call that begins, and one that goes on with new locals.
LEMMA MoveShaped ==
  ASSUME IInv, Shaped, ReadDatum
  PROVE  \/ stack' = stack
         \/ \E f : stack' = Append(stack, f) /\ FrameShape(f)
         \/ stack' = Front(stack)
         \/ \E f : resume(f) /\ FrameShape(f)
  <1>1. stack # <<>> /\ FrameShape(top) /\ top \in FrameType(Len(heap))
    <2>1. stack # <<>>
      BY CallsMove
    <2>2. QED
      BY <2>1, TopShaped, TopTyped
  <1>2. ASSUME NEW fn, NEW at, NEW k
        PROVE  FrameShape(Frame(fn, at)) /\ FrameShape([Frame(fn, at) EXCEPT !.nesting = k])
    BY DEF Frame, FrameShape, None
  <1>3. ASSUME NEW list, Complete(list) PROVE stack' = Front(stack)
    BY <1>3 DEF Complete
  <1>4. CASE DatumNone \/ DatumMalformed \/ DatumLeaf
    BY <1>4 DEF DatumNone, DatumMalformed, DatumLeaf
  <1>5. CASE DatumOperand
    <2>1. \E fn : stack' = Append(stack, Frame(fn, pos))
      BY <1>5 DEF DatumOperand, call
    <2>2. QED
      BY <1>2, <2>1
  <1>6. CASE DatumOpen
    <2>1. \/ stack' = Append(stack, Frame("list", pos))
          \/ stack' = Append(stack, [Frame("skip", pos) EXCEPT !.nesting = 1])
      BY <1>6 DEF DatumOpen
    <2>2. QED
      BY <1>2, <2>1
  <1>7. CASE DiscardTake \/ PrefixTake \/ TagTake
    BY <1>7 DEF DiscardTake, PrefixTake, TagTake
  <1>8. CASE ArgTake
    <2> DEFINE f == [top EXCEPT !.fn = "prefix", !.arg = ret]
    <2>1. top.fn = "arg" /\ resume(f)
      BY <1>8 DEF ArgTake
    <2>2. f.fn = "prefix" /\ f.items = top.items /\ f.tail = top.tail /\ f.after = top.after
      BY <1>1 DEF FrameType
    <2>3. FrameShape(f)
      BY <1>1, <2>1, <2>2 DEF FrameShape
    <2> HIDE DEF f
    <2>4. QED
      BY <2>1, <2>3
  <1>9. CASE ListEof \/ ListClose \/ ListNoItem
    BY <1>3, <1>9 DEF ListEof, ListClose, ListNoItem
  <1>10. CASE ListDot
    <2> DEFINE f == [top EXCEPT !.items = ItemsWithTail(top), !.tail = None, !.after = pos]
    <2>1. top.fn = "list" /\ resume(f)
      BY <1>10, NotOutermost DEF ListDot
    <2>2. f.fn = top.fn /\ f.arg = top.arg /\ f.tail = None
      BY <1>1 DEF FrameType
    <2>3. FrameShape(f)
      BY <1>1, <2>1, <2>2 DEF FrameShape
    <2> HIDE DEF f
    <2>4. QED
      BY <2>1, <2>3
  <1>11. CASE ListTakeTail
    <2> DEFINE f == [top EXCEPT !.tail = ret, !.dot = top.after, !.after = None]
               g == [top EXCEPT !.after = None]
    <2>1. top.fn = "list" /\ (resume(f) \/ resume(g))
      BY <1>11 DEF ListTakeTail
    <2>2. /\ f.fn = top.fn /\ f.arg = top.arg /\ f.after = None
          /\ g.fn = top.fn /\ g.arg = top.arg /\ g.after = None
      BY <1>1 DEF FrameType
    <2>3. FrameShape(f) /\ FrameShape(g)
      BY <1>1, <2>1, <2>2 DEF FrameShape
    <2> HIDE DEF f, g
    <2>4. QED
      BY <2>1, <2>3
  <1>12. CASE ListItem
    BY <1>12 DEF ListItem
  <1>13. CASE ListTakeItem
    <2> DEFINE f == [top EXCEPT !.items = Append(ItemsWithTail(top), ret), !.tail = None,
                                !.dot = IF top.tail = None THEN @ ELSE None]
    <2>1. top.fn = "list" /\ resume(f)
      BY <1>13 DEF ListTakeItem
    <2>2. f.fn = top.fn /\ f.arg = top.arg /\ f.tail = None
      BY <1>1 DEF FrameType
    <2>3. FrameShape(f)
      BY <1>1, <2>1, <2>2 DEF FrameShape
    <2> HIDE DEF f
    <2>4. QED
      BY <2>1, <2>3
  <1>14. CASE SkipToken
    <2> DEFINE f == [top EXCEPT !.end = pos,
                       !.nesting = IF Deeper(peek) THEN @ + 1 ELSE @]
    <2>1. resume(f)
      BY <1>14 DEF SkipToken
    <2>2. /\ f.fn = top.fn /\ f.arg = top.arg /\ f.tail = top.tail
          /\ f.items = top.items /\ f.after = top.after
      BY <1>1 DEF FrameType
    <2>3. FrameShape(f)
      BY <1>1, <2>2 DEF FrameShape
    <2> HIDE DEF f
    <2>4. QED
      BY <2>1, <2>3
  <1>15. CASE SkipClose
    <2> DEFINE f == [top EXCEPT !.end = pos, !.nesting = @ - 1]
    <2>1. resume(f) \/ stack' = Front(stack)
      BY <1>3, <1>15 DEF SkipClose
    <2>2. /\ f.fn = top.fn /\ f.arg = top.arg /\ f.tail = top.tail
          /\ f.items = top.items /\ f.after = top.after
      BY <1>1 DEF FrameType
    <2>3. FrameShape(f)
      BY <1>1, <2>2 DEF FrameShape
    <2> HIDE DEF f
    <2>4. QED
      BY <2>1, <2>3
  <1>16. CASE SkipEof
    BY <1>3, <1>16 DEF SkipEof
  <1>17. QED
    BY <1>4, <1>5, <1>6, <1>7, <1>8, <1>9, <1>10, <1>11, <1>12, <1>13, <1>14, <1>15,
       <1>16 DEF ReadDatum

LEMMA ShapedStep ==
  ASSUME IInv, Shaped, Next
  PROVE  Shaped'
  <1>1. CASE TopStrayClose \/ TopCall \/ TopTake \/ TopEnd
    <2>1. stack' = <<>> \/ stack' = <<Frame("top", pos)>>
      BY <1>1, TopMoves
    <2>2. \A i \in 1..Len(stack') : FrameShape(stack'[i])
      BY <2>1 DEF FrameShape, Frame, None
    <2>3. QED
      BY <2>2 DEF Shaped, FrameShape, None
  <1>2. CASE ReadDatum
    <2> SUFFICES ASSUME NEW i \in 1..Len(stack')
                 PROVE  FrameShape(stack'[i])
      BY DEF Shaped, FrameShape, None
    <2>1. stack # <<>> /\ Len(stack) \in Nat \ {0}
      BY <1>2, CallsMove, InnerCall
    <2>2. CASE stack' = stack
      BY <2>2 DEF Shaped
    <2>3. ASSUME NEW f, stack' = Append(stack, f), FrameShape(f)
          PROVE  FrameShape(stack'[i])
      <3>1. /\ Len(stack') = Len(stack) + 1 /\ stack'[Len(stack) + 1] = f
            /\ \A j \in 1..Len(stack) : stack'[j] = stack[j]
        BY <2>3, Pushed
      <3>2. i \in 1..Len(stack) \/ i = Len(stack) + 1
        BY <2>1, <3>1
      <3>3. QED
        BY <2>3, <3>1, <3>2 DEF Shaped
    <2>4. CASE stack' = Front(stack)
      <3>1. Len(stack') = Len(stack) - 1 /\ \A j \in 1..Len(stack) - 1 : stack'[j] = stack[j]
        BY <2>1, <2>4, Popped
      <3>2. i \in 1..Len(stack) /\ stack'[i] = stack[i]
        BY <2>1, <3>1
      <3>3. QED
        BY <3>2 DEF Shaped
    <2>5. ASSUME NEW f, resume(f), FrameShape(f)
          PROVE  FrameShape(stack'[i])
      <3>1. /\ Len(stack') = Len(stack) /\ stack'[Len(stack)] = f
            /\ \A j \in 1..Len(stack) - 1 : stack'[j] = stack[j]
        BY <2>1, <2>5, Resumed
      <3>2. i \in 1..Len(stack) /\ (i \in 1..Len(stack) - 1 \/ i = Len(stack))
        BY <2>1, <3>1
      <3>3. QED
        BY <2>5, <3>1, <3>2 DEF Shaped
    <2>6. QED
      BY <1>2, <2>2, <2>3, <2>4, <2>5, MoveShaped
  <1>3. QED
    BY <1>1, <1>2 DEF Next

-----------------------------------------------------------------------------
(* Who holds a datum.                                                      *)

LEMMA ToSetAppend ==
  ASSUME NEW S, NEW s \in Seq(S), NEW e
  PROVE  ToSet(Append(s, e)) = ToSet(s) \union {e}
  <1> DEFINE T == S \union {e}
             t == Append(s, e)
  <1>1. s \in Seq(T) /\ e \in T
    BY SeqMonotonic
  <1> HIDE DEF T
  <1>2. /\ Len(t) = Len(s) + 1 /\ t[Len(s) + 1] = e /\ Len(s) \in Nat
        /\ \A i \in 1..Len(s) : t[i] = s[i]
        /\ DOMAIN t = 1..Len(t) /\ DOMAIN s = 1..Len(s)
    BY <1>1, AppendProperties, LenProperties
  <1> HIDE DEF t
  <1>3. ASSUME NEW x \in ToSet(t) PROVE x \in ToSet(s) \union {e}
    <2>1. PICK i \in 1..Len(s) + 1 : x = t[i]
      BY <1>2 DEF ToSet
    <2>2. i \in 1..Len(s) \/ i = Len(s) + 1
      BY <1>2, <2>1
    <2>3. QED
      BY <1>2, <2>1, <2>2 DEF ToSet
  <1>4. ASSUME NEW x \in ToSet(s) PROVE x \in ToSet(t)
    <2>1. PICK i \in 1..Len(s) : x = s[i]
      BY <1>2 DEF ToSet
    <2>2. i \in DOMAIN t /\ t[i] = x
      BY <1>2, <2>1
    <2>3. QED
      BY <2>2 DEF ToSet
  <1>5. e \in ToSet(t)
    <2>1. Len(s) + 1 \in DOMAIN t
      BY <1>2
    <2>2. QED
      BY <1>2, <2>1 DEF ToSet
  <1>6. QED
    BY <1>3, <1>4, <1>5 DEF t

\* The data added by a step are where the code puts them.
LEMMA Added ==
  ASSUME IInv, NEW n, heap' = Append(heap, n)
  PROVE  Len(heap') = Len(heap) + 1 /\ heap'[Len(heap) + 1] = n
  <1> DEFINE S == NodeType(Len(heap)) \union {n}
  <1>1. heap \in Seq(S) /\ n \in S
    BY SeqMonotonic DEF IInv, TypeOK
  <1> HIDE DEF S
  <1>2. QED
    BY <1>1, AppendProperties

LEMMA TwoAdded ==
  ASSUME IInv, NEW a, NEW b, heap' = heap \o <<a, b>>
  PROVE  /\ Len(heap') = Len(heap) + 2
         /\ heap'[Len(heap) + 1] = a /\ heap'[Len(heap) + 2] = b
  <1> DEFINE S == NodeType(Len(heap)) \union {a, b}
             t == <<a, b>>
  <1>1. heap \in Seq(S) /\ t \in Seq(S) /\ Len(t) = 2 /\ t[1] = a /\ t[2] = b
    BY SeqMonotonic DEF IInv, TypeOK
  <1>2. heap' = heap \o t
    OBVIOUS
  <1> HIDE DEF S, t
  <1>3. /\ Len(heap \o t) = Len(heap) + Len(t)
        /\ \A i \in 1..Len(heap) + Len(t) :
             (heap \o t)[i] = IF i <= Len(heap) THEN heap[i] ELSE t[i - Len(heap)]
    BY <1>1, ConcatProperties
  <1>4. Len(heap) \in Nat
    BY Bounds
  <1>5. \A i \in {1, 2} : (heap \o t)[Len(heap) + i] = t[i]
    <2> TAKE i \in {1, 2}
    <2>1. /\ Len(heap) + i \in 1..Len(heap) + Len(t) /\ ~(Len(heap) + i <= Len(heap))
          /\ Len(heap) + i - Len(heap) = i
      BY <1>1, <1>4
    <2>2. QED
      BY <1>3, <2>1
  <1>6. QED
    BY <1>1, <1>3, <1>5, <1>2

\* Held, taken apart.
LEMMA HeldBy ==
  ASSUME NEW d
  PROVE  d \in Held <=>
           \/ \E i \in DOMAIN data : data[i] = d
           \/ \E e \in 1..Len(heap) : d \in Owned(heap[e])
           \/ \E i \in DOMAIN stack : d \in Owned(stack[i])
           \/ pc = "return" /\ ret # None /\ ret = d
  <1> DEFINE D == ToSet(data)
             H == UNION {Owned(heap[e]) : e \in Ids}
             C == UNION {Owned(stack[i]) : i \in DOMAIN stack}
             R == IF pc = "return" THEN {ret} \ {None} ELSE {}
  <1>1. Held = D \union H \union C \union R
    BY DEF Held
  <1>2. d \in D <=> \E i \in DOMAIN data : data[i] = d
    BY DEF ToSet
  <1>3. d \in H <=> \E e \in 1..Len(heap) : d \in Owned(heap[e])
    BY DEF Ids
  <1>4. d \in C <=> \E i \in DOMAIN stack : d \in Owned(stack[i])
    OBVIOUS
  <1>5. d \in R <=> pc = "return" /\ ret # None /\ ret = d
    OBVIOUS
  <1> HIDE DEF D, H, C, R
  <1>6. QED
    BY <1>1, <1>2, <1>3, <1>4, <1>5

LEMMA HeldNext ==
  ASSUME NEW d
  PROVE  d \in Held' <=>
           \/ \E i \in DOMAIN data' : data'[i] = d
           \/ \E e \in 1..Len(heap') : d \in Owned(heap'[e])
           \/ \E i \in DOMAIN stack' : d \in Owned(stack'[i])
           \/ pc' = "return" /\ ret' # None /\ ret' = d
  <1> DEFINE D == ToSet(data')
             H == UNION {Owned(heap'[e]) : e \in 1..Len(heap')}
             C == UNION {Owned(stack'[i]) : i \in DOMAIN stack'}
             R == IF pc' = "return" THEN {ret'} \ {None} ELSE {}
  <1>1. Held' = D \union H \union C \union R
    BY DEF Held, Ids, Owned, None
  <1>2. d \in D <=> \E i \in DOMAIN data' : data'[i] = d
    BY DEF ToSet
  <1>3. d \in H <=> \E e \in 1..Len(heap') : d \in Owned(heap'[e])
    OBVIOUS
  <1>4. d \in C <=> \E i \in DOMAIN stack' : d \in Owned(stack'[i])
    OBVIOUS
  <1>5. d \in R <=> pc' = "return" /\ ret' # None /\ ret' = d
    OBVIOUS
  <1> HIDE DEF D, H, C, R
  <1>6. QED
    BY <1>1, <1>2, <1>3, <1>4, <1>5

\* The result only grows.
LEMMA DataKept ==
  ASSUME IInv, Next, NEW i \in DOMAIN data
  PROVE  i \in DOMAIN data' /\ data'[i] = data[i]
  <1>1. data \in Seq(Ids) /\ Len(data) \in Nat /\ DOMAIN data = 1..Len(data)
    BY LenProperties DEF IInv, TypeOK
  <1>2. data' = data \/ (ret # None /\ data' = Append(data, ret))
    <2>1. CASE TopStrayClose \/ TopCall \/ TopEnd
      BY <2>1 DEF TopStrayClose, TopCall, TopEnd
    <2>2. CASE TopTake
      BY <2>2 DEF TopTake
    <2>3. CASE ReadDatum
      BY <2>3 DEF ReadDatum, DatumNone, DatumMalformed, DatumLeaf, DatumOperand,
           DatumOpen, DiscardTake, ArgTake, PrefixTake, TagTake, ListEof, ListClose,
           ListDot, ListTakeTail, ListItem, ListTakeItem, ListNoItem, SkipToken,
           SkipClose, SkipEof
    <2>4. QED
      BY <2>1, <2>2, <2>3 DEF Next
  <1>3. CASE data' = data
    BY <1>3
  <1>4. CASE ret # None /\ data' = Append(data, ret)
    <2>1. ret \in Ids
      BY <1>4, Bounds DEF IInv, TypeOK, Ids, None
    <2>2. /\ data' \in Seq(Ids) /\ Len(data') = Len(data) + 1
          /\ \A j \in 1..Len(data) : data'[j] = data[j]
      BY <1>1, <1>4, <2>1, AppendProperties
    <2>3. DOMAIN data' = 1..Len(data) + 1
      BY <2>2, LenProperties
    <2>4. QED
      BY <1>1, <2>2, <2>3
  <1>5. QED
    BY <1>2, <1>3, <1>4

\* What a step must say for itself: where the data of the innermost call, the
\* datum returned to it and the data just built are now.
LEMMA Enough ==
  ASSUME IInv, Next, stack # <<>>,
         \/ stack' = stack
         \/ \E f : stack' = Append(stack, f)
         \/ stack' = Front(stack)
         \/ \E f : resume(f),
         \A d \in Owned(top) : d \in Held' \/ d \in Dropped,
         pc = "return" /\ ret # None => ret \in Held' \/ ret \in Dropped,
         \A d \in 1..Len(heap') : d \in Ids \/ d \in Held',
         NEW d \in 1..Len(heap')
  PROVE  d \in Held' \/ (d \in Ids \ Held) \/ d \in Dropped
  <1> SUFFICES ASSUME d \in Held PROVE d \in Held' \/ d \in Dropped
    OBVIOUS
  <1>1. Len(stack) \in Nat \ {0} /\ top = stack[Len(stack)] /\ DOMAIN stack = 1..Len(stack)
    BY InnerCall, LenProperties DEF IInv, TypeOK
  <1>2. CASE \E i \in DOMAIN data : data[i] = d
    BY <1>2, DataKept, HeldNext
  <1>3. CASE \E e \in 1..Len(heap) : d \in Owned(heap[e])
    BY <1>3, HeapKept, HeldNext DEF Ids
  <1>4. ASSUME NEW i \in 1..Len(stack) - 1
        PROVE  i \in DOMAIN stack' /\ stack'[i] = stack[i]
    <2>1. i \in 1..Len(stack)
      BY <1>1
    <2>2. \E S : stack' \in Seq(S)
      <3>1. IInv'
        BY StepPreserves
      <3>2. stack' \in Seq(FrameType(Len(heap))')
        BY <3>1 DEF IInv, TypeOK
      <3>3. QED
        BY <3>2
    <2>3. DOMAIN stack' = 1..Len(stack')
      BY <2>2, LenProperties
    <2>4. CASE stack' = stack
      BY <1>1, <2>1, <2>4
    <2>5. CASE \E f : stack' = Append(stack, f)
      <3>1. Len(stack') = Len(stack) + 1 /\ \A j \in 1..Len(stack) : stack'[j] = stack[j]
        BY <2>5, Pushed
      <3>2. i \in 1..Len(stack')
        BY <1>1, <3>1
      <3>3. QED
        BY <2>1, <2>3, <3>1, <3>2
    <2>6. CASE stack' = Front(stack)
      <3>1. Len(stack') = Len(stack) - 1 /\ \A j \in 1..Len(stack) - 1 : stack'[j] = stack[j]
        BY <2>6, Popped
      <3>2. QED
        BY <2>3, <3>1
    <2>7. CASE \E f : resume(f)
      <3>1. Len(stack') = Len(stack) /\ \A j \in 1..Len(stack) - 1 : stack'[j] = stack[j]
        BY <2>7, Resumed
      <3>2. QED
        BY <2>1, <2>3, <3>1
    <2>8. QED
      BY <2>4, <2>5, <2>6, <2>7
  <1>5. ASSUME NEW i \in DOMAIN stack, d \in Owned(stack[i])
        PROVE  d \in Held' \/ d \in Dropped
    <2>1. CASE i = Len(stack)
      BY <1>1, <1>5, <2>1
    <2>2. CASE i # Len(stack)
      <3>1. i \in 1..Len(stack) - 1
        BY <1>1, <2>2
      <3>2. QED
        BY <1>4, <1>5, <3>1, HeldNext
    <2>3. QED
      BY <2>1, <2>2
  <1>6. QED
    BY <1>2, <1>3, <1>5, HeldBy

\* A list that returns holds what its frame held, except for the head symbol
\* that fold_longhand drops.
LEMMA CompleteHolds ==
  ASSUME IInv, Next, stack # <<>>, NEW list \in NodeType(Len(heap)), Complete(list),
         Owned(list) = Owned(top), list.items = top.items, list.arg = None,
         folds(list) => Dropped = {top.items[1]}
  PROVE  /\ stack' = Front(stack)
         /\ \A d \in Owned(top) : d \in Held' \/ d \in Dropped
         /\ \A d \in 1..Len(heap') : d \in Ids \/ d \in Held'
  <1>1. stack' = Front(stack) /\ pc' = "return" /\ Len(heap) \in Nat
    BY Bounds DEF Complete, return
  <1>2. top.items \in Seq(1..Len(heap))
    BY TopTyped
  <1>3. CASE tokens[list.first] \in HashOpens
    <2> DEFINE h == Node("hash", list.first, list.end, <<Len(heap) + 1>>)
    <2>1. heap' = heap \o <<list, h>> /\ ret' = Len(heap) + 2
      BY <1>3 DEF Complete, return
    <2>2. Len(heap) + 1 \in Owned(h)
      <3>1. h.items = <<Len(heap) + 1>>
        BY DEF Node
      <3>2. ToSet(<<Len(heap) + 1>>) = {Len(heap) + 1}
        BY DEF ToSet
      <3>3. QED
        BY <3>1, <3>2 DEF Owned
    <2> HIDE DEF h
    <2>3. /\ Len(heap') = Len(heap) + 2
          /\ heap'[Len(heap) + 1] = list /\ heap'[Len(heap) + 2] = h
      BY <2>1, TwoAdded
    <2>4. \A d \in Owned(list) : d \in Held'
      <3>1. Len(heap) + 1 \in 1..Len(heap')
        BY <1>1, <2>3
      <3>2. QED
        BY <2>3, <3>1, HeldNext
    <2>5. Len(heap) + 1 \in Held'
      <3>1. Len(heap) + 2 \in 1..Len(heap')
        BY <1>1, <2>3
      <3>2. QED
        BY <2>2, <2>3, <3>1, HeldNext
    <2>6. Len(heap) + 2 \in Held'
      BY <1>1, <2>1, HeldNext DEF None
    <2>7. \A d \in 1..Len(heap') : d \in Ids \/ d = Len(heap) + 1 \/ d = Len(heap) + 2
      BY <1>1, <2>3 DEF Ids
    <2>8. QED
      BY <1>1, <2>4, <2>5, <2>6, <2>7
  <1>4. CASE tokens[list.first] \notin HashOpens
    <2> DEFINE n == FoldLonghand(list)
    <2>1. heap' = Append(heap, n) /\ ret' = Len(heap) + 1
      BY <1>4 DEF Complete, return
    <2>2. \A d \in Owned(top) : d \in Owned(n) \/ d \in Dropped
      <3>1. CASE folds(list)
        <4>1. Len(list.items) = 2 /\ list.tail = None
          BY <3>1 DEF folds, pair
        <4>2. n = Node("prefix", list.first, list.end, <<list.items[2]>>)
          BY <3>1 DEF FoldLonghand
        <4>3. n.items = <<list.items[2]>>
          BY <4>2 DEF Node
        <4>4. list.items[2] \in Owned(n)
          BY <4>3 DEF Owned, ToSet
        <4>5. ToSet(list.items) = {list.items[1], list.items[2]}
          <5>1. DOMAIN list.items = 1..2
            BY <1>2, <4>1, LenProperties
          <5>2. QED
            BY <5>1 DEF ToSet
        <4>6. Owned(list) = {list.items[1], list.items[2]}
          BY <4>1, <4>5 DEF Owned
        <4>7. QED
          BY <3>1, <4>4, <4>6
      <3>2. CASE ~folds(list)
        <4>1. n = list \/ n = [list EXCEPT !.dot = None]
          BY <3>2 DEF FoldLonghand
        <4>2. n.items = list.items /\ n.tail = list.tail /\ n.arg = list.arg
          BY <4>1 DEF NodeType
        <4>3. Owned(n) = Owned(list)
          BY <4>2 DEF Owned
        <4>4. QED
          BY <4>3
      <3>3. QED
        BY <3>1, <3>2
    <2> HIDE DEF n
    <2>3. Len(heap') = Len(heap) + 1 /\ heap'[Len(heap) + 1] = n
      BY <2>1, Added
    <2>4. \A d \in Owned(n) : d \in Held'
      <3>1. Len(heap) + 1 \in 1..Len(heap')
        BY <1>1, <2>3
      <3>2. QED
        BY <2>3, <3>1, HeldNext
    <2>5. Len(heap) + 1 \in Held'
      BY <1>1, <2>1, HeldNext DEF None
    <2>6. \A d \in 1..Len(heap') : d \in Ids \/ d = Len(heap) + 1
      BY <1>1, <2>3 DEF Ids
    <2>7. QED
      BY <1>1, <2>2, <2>4, <2>5, <2>6
  <1>5. QED
    BY <1>3, <1>4

\* What finish_list and skip_balanced return is what their frame holds.
LEMMA ListHolds ==
  ASSUME IInv, Shaped, stack # <<>>, NEW end
  PROVE  /\ top.fn = "list" =>
              LET list == List(top, end) IN
              /\ Owned(list) = Owned(top) /\ list.items = top.items /\ list.arg = None
              /\ stack' = Front(stack) /\ folds(list) => Dropped = {top.items[1]}
         /\ top.fn = "skip" =>
              LET list == Node("list", top.at, end, <<>>) IN
              /\ Owned(list) = Owned(top) /\ list.items = top.items /\ list.arg = None
              /\ ~folds(list)
  <1>1. FrameShape(top) /\ top \in FrameType(Len(heap))
    BY TopShaped, TopTyped
  <1>2. ASSUME top.fn = "list"
        PROVE  LET list == List(top, end) IN
               /\ Owned(list) = Owned(top) /\ list.items = top.items /\ list.arg = None
               /\ stack' = Front(stack) /\ folds(list) => Dropped = {top.items[1]}
    <2> DEFINE list == List(top, end)
    <2>1. /\ list.items = top.items /\ list.tail = top.tail /\ list.arg = None
          /\ list.first = top.at
      BY DEF List, Node
    <2>2. top.arg = None
      BY <1>1, <1>2 DEF FrameShape
    <2>3. Owned(list) = Owned(top)
      BY <2>1, <2>2 DEF Owned
    <2>4. ASSUME stack' = Front(stack), folds(list)
          PROVE  Dropped = {top.items[1]}
      <3> DEFINE l == List(top, pos)
      <3>1. l.items = top.items /\ l.tail = top.tail /\ l.first = top.at
        BY DEF List, Node
      <3> HIDE DEF l, list
      <3>2. folds(l)
        BY <2>1, <2>4, <3>1 DEF folds, pair
      <3>3. folds(List(top, pos))
        BY <3>2 DEF l
      <3>4. QED
        BY <1>2, <2>4, <3>3 DEF Dropped
    <2>5. QED
      BY <2>1, <2>3, <2>4
  <1>3. ASSUME top.fn = "skip"
        PROVE  LET list == Node("list", top.at, end, <<>>) IN
               /\ Owned(list) = Owned(top) /\ list.items = top.items /\ list.arg = None
               /\ ~folds(list)
    <2> DEFINE list == Node("list", top.at, end, <<>>)
    <2>1. list.items = <<>> /\ list.tail = None /\ list.arg = None
      BY DEF Node
    <2>2. top.items = <<>> /\ top.tail = None /\ top.arg = None
      BY <1>1, <1>3 DEF FrameShape
    <2>3. Owned(list) = Owned(top)
      BY <2>1, <2>2 DEF Owned
    <2>4. ~folds(list)
      <3>1. Len(list.items) = 0
        BY <2>1
      <3> HIDE DEF list
      <3>2. QED
        BY <3>1 DEF folds, pair
    <2>5. QED
      BY <2>1, <2>2, <2>3, <2>4
  <1>4. QED
    BY <1>2, <1>3

LEMMA TopHolds ==
  ASSUME IInv, Shaped, stack # <<>>
  PROVE  /\ top.fn \notin {"list", "prefix"} => Owned(top) = {}
         /\ top.fn = "prefix" => Owned(top) = {top.arg} \ {None}
         /\ top.fn = "list" => Owned(top) = ToSet(top.items) \union ({top.tail} \ {None})
  <1>1. FrameShape(top)
    BY TopShaped
  <1>2. ToSet(<<>>) = {}
    BY DEF ToSet
  <1>3. QED
    BY <1>1, <1>2 DEF FrameShape, Owned

LEMMA TailAmongItems ==
  ASSUME NEW S, NEW f, f.items \in Seq(S)
  PROVE  ToSet(ItemsWithTail(f)) = ToSet(f.items) \union ({f.tail} \ {None})
  <1>1. CASE f.tail = None
    BY <1>1 DEF ItemsWithTail
  <1>2. CASE f.tail # None
    BY <1>2, ToSetAppend DEF ItemsWithTail
  <1>3. QED
    BY <1>1, <1>2

LEMMA NothingLost ==
  ASSUME IInv, Shaped, ReadDatum \/ TopTake, NEW d \in 1..Len(heap')
  PROVE  d \in Held' \/ (d \in Ids \ Held) \/ d \in Dropped
  <1>1. Next /\ stack # <<>> /\ Len(heap) \in Nat /\ ret \in 0..Len(heap)
    <2>1. stack # <<>>
      <3>1. TopTake => pc = "return"
        BY DEF TopTake
      <3>2. QED
        BY <3>1, CallsMove, Bounds
    <2>2. QED
      BY <2>1, Bounds DEF Next, IInv, TypeOK
  <1>2. top \in FrameType(Len(heap)) /\ top.items \in Seq(1..Len(heap))
    BY <1>1, TopTyped
  <1>3. heap' = heap => \A e \in 1..Len(heap') : e \in Ids
    BY DEF Ids
  <1>4. ASSUME NEW n, heap' = Append(heap, n), pc' = "return", ret' = Len(heap) + 1
        PROVE  /\ \A e \in 1..Len(heap') : e \in Ids \/ e \in Held'
               /\ \A e \in Owned(n) : e \in Held'
    <2>1. Len(heap') = Len(heap) + 1 /\ heap'[Len(heap) + 1] = n
      BY <1>4, Added
    <2>2. Len(heap) + 1 \in Held'
      BY <1>1, <1>4, HeldNext DEF None
    <2>3. \A e \in 1..Len(heap') : e \in Ids \/ e = Len(heap) + 1
      BY <1>1, <2>1 DEF Ids
    <2>4. Len(heap) + 1 \in 1..Len(heap')
      BY <1>1, <2>1
    <2>5. \A e \in Owned(n) : e \in Held'
      BY <2>1, <2>4, HeldNext
    <2>6. QED
      BY <2>2, <2>3, <2>5
  <1>5. ASSUME stack' = stack \/ \E f : stack' = Append(stack, f)
        PROVE  \A e \in Owned(top) : e \in Held'
    <2>1. Len(stack) \in Nat \ {0} /\ top = stack[Len(stack)] /\ DOMAIN stack = 1..Len(stack)
      BY <1>1, InnerCall, LenProperties DEF IInv, TypeOK
    <2>2. DOMAIN stack' = 1..Len(stack')
      <3>1. IInv'
        BY <1>1, StepPreserves
      <3>2. stack' \in Seq(FrameType(Len(heap))')
        BY <3>1 DEF IInv, TypeOK
      <3>3. QED
        BY <3>2, LenProperties
    <2>3. Len(stack) \in DOMAIN stack' /\ stack'[Len(stack)] = top
      <3>1. CASE stack' = stack
        BY <2>1, <3>1
      <3>2. CASE \E f : stack' = Append(stack, f)
        <4>1. /\ Len(stack') = Len(stack) + 1
              /\ \A j \in 1..Len(stack) : stack'[j] = stack[j]
          BY <3>2, Pushed
        <4>2. QED
          BY <2>1, <2>2, <4>1
      <3>3. QED
        BY <1>5, <3>1, <3>2
    <2>4. QED
      BY <2>3, HeldNext
  <1>6. ASSUME NEW f, resume(f), NEW e \in Owned(f)
        PROVE  e \in Held'
    <2>1. Len(stack') = Len(stack) /\ stack'[Len(stack)] = f /\ Len(stack) \in Nat \ {0}
      BY <1>1, <1>6, Resumed
    <2>2. DOMAIN stack' = 1..Len(stack')
      <3>1. IInv'
        BY <1>1, StepPreserves
      <3>2. stack' \in Seq(FrameType(Len(heap))')
        BY <3>1 DEF IInv, TypeOK
      <3>3. QED
        BY <3>2, LenProperties
    <2>3. QED
      BY <1>6, <2>1, <2>2, HeldNext
  <1>7. CASE TopTake
    <2>1. pc = "return" /\ top.fn = "top" /\ stack' = Front(stack) /\ heap' = heap
      BY <1>7 DEF TopTake
    <2>2. Owned(top) = {}
      BY <1>1, <2>1, TopHolds
    <2>3. ASSUME ret # None PROVE ret \in Held'
      <3>1. data' = Append(data, ret) /\ data \in Seq(Ids) /\ ret \in Ids
        BY <1>1, <1>7, <2>3 DEF TopTake, IInv, TypeOK, Ids, None
      <3>2. /\ data' \in Seq(Ids) /\ Len(data') = Len(data) + 1 /\ Len(data) \in Nat
            /\ data'[Len(data) + 1] = ret
        BY <3>1, AppendProperties, LenProperties
      <3>3. Len(data) + 1 \in DOMAIN data'
        BY <3>2, LenProperties
      <3>4. QED
        BY <3>2, <3>3, HeldNext
    <2>4. QED
      BY <1>1, <1>3, <2>1, <2>2, <2>3, Enough
  <1>8. CASE DatumNone \/ DatumMalformed
    <2>1. pc = "datum" /\ stack' = stack /\ heap' = heap
      BY <1>8 DEF DatumNone, DatumMalformed
    <2>2. QED
      BY <1>1, <1>3, <1>5, <2>1, Enough
  <1>9. CASE DatumLeaf
    <2>1. /\ pc = "datum" /\ stack' = stack /\ pc' = "return" /\ ret' = Len(heap) + 1
          /\ \E n : heap' = Append(heap, n)
      BY <1>9 DEF DatumLeaf, return
    <2>2. QED
      BY <1>1, <1>4, <1>5, <2>1, Enough
  <1>10. CASE DatumOperand \/ DatumOpen
    <2>1. pc = "datum" /\ (\E f : stack' = Append(stack, f)) /\ heap' = heap
      BY <1>10 DEF DatumOperand, DatumOpen, call
    <2>2. QED
      BY <1>1, <1>3, <1>5, <2>1, Enough
  <1>11. CASE DiscardTake
    <2>1. pc = "return" /\ top.fn = "discard" /\ stack' = Front(stack) /\ heap' = heap
      BY <1>11 DEF DiscardTake
    <2>2. Owned(top) = {}
      BY <1>1, <2>1, TopHolds
    <2>3. Dropped = {ret}
      BY <1>1, <2>1 DEF Dropped
    <2>4. QED
      BY <1>1, <1>3, <2>1, <2>2, <2>3, Enough
  <1>12. CASE ArgTake
    <2> DEFINE f == [top EXCEPT !.fn = "prefix", !.arg = ret]
    <2>1. pc = "return" /\ top.fn = "arg" /\ resume(f) /\ heap' = heap
      BY <1>12 DEF ArgTake
    <2>2. Owned(top) = {}
      BY <1>1, <2>1, TopHolds
    <2>3. f.arg = ret
      BY <1>2 DEF FrameType
    <2>4. ret # None => ret \in Owned(f)
      BY <2>3 DEF Owned
    <2> HIDE DEF f
    <2>5. ret # None => ret \in Held'
      BY <1>6, <2>1, <2>4
    <2>6. QED
      BY <1>1, <1>3, <2>1, <2>2, <2>5, Enough
  <1>13. CASE PrefixTake
    <2>1. /\ pc = "return" /\ top.fn \in {"prefix", "label"} /\ stack' = Front(stack)
          /\ pc' = "return"
      BY <1>13 DEF PrefixTake, return
    <2>2. Owned(top) \subseteq {top.arg} \ {None}
      BY <1>1, <2>1, TopHolds
    <2>3. CASE ret # None
      <3> DEFINE m == Node(top.fn, top.at, heap[ret].end, <<ret>>)
                 n == [m EXCEPT !.arg = top.arg]
      <3>1. heap' = Append(heap, n) /\ ret' = Len(heap) + 1
        BY <1>13, <2>3 DEF PrefixTake, return
      <3>2. n.items = <<ret>> /\ n.arg = top.arg
        BY DEF Node
      <3>3. ret \in Owned(n) /\ {top.arg} \ {None} \subseteq Owned(n)
        BY <3>2 DEF Owned, ToSet
      <3> HIDE DEF n
      <3>4. /\ \A e \in 1..Len(heap') : e \in Ids \/ e \in Held'
            /\ \A e \in Owned(n) : e \in Held'
        BY <1>4, <2>1, <3>1
      <3>5. QED
        BY <1>1, <2>1, <2>2, <3>3, <3>4, Enough
    <2>4. CASE ret = None
      <3>1. heap' = heap
        BY <1>13, <2>4 DEF PrefixTake
      <3>2. CASE top.fn = "prefix"
        <4>1. Dropped = {top.arg}
          BY <1>1, <2>1, <2>4, <3>2 DEF Dropped
        <4>2. QED
          BY <1>1, <1>3, <2>1, <2>2, <2>4, <3>1, <4>1, Enough
      <3>3. CASE top.fn = "label"
        <4>1. Owned(top) = {}
          BY <1>1, <3>3, TopHolds
        <4>2. QED
          BY <1>1, <1>3, <2>1, <2>4, <3>1, <4>1, Enough
      <3>4. QED
        BY <2>1, <3>2, <3>3
    <2>5. QED
      BY <2>3, <2>4
  <1>14. CASE TagTake
    <2>1. /\ pc = "return" /\ top.fn = "tag" /\ stack' = Front(stack)
          /\ pc' = "return" /\ ret' = Len(heap) + 1
      BY <1>14 DEF TagTake, return
    <2>2. Owned(top) = {}
      BY <1>1, <2>1, TopHolds
    <2>3. PICK n : heap' = Append(heap, n) /\ (ret # None => ret \in Owned(n))
      <3>1. CASE ret # None
        <4> DEFINE n == Node("hash", top.at, heap[ret].end, <<ret>>)
        <4>1. heap' = Append(heap, n)
          BY <1>14, <3>1 DEF TagTake
        <4>2. ret \in Owned(n)
          BY DEF Node, Owned, ToSet
        <4>3. QED
          BY <4>1, <4>2
      <3>2. CASE ret = None
        BY <1>14, <3>2 DEF TagTake
      <3>3. QED
        BY <3>1, <3>2
    <2>4. /\ \A e \in 1..Len(heap') : e \in Ids \/ e \in Held'
          /\ \A e \in Owned(n) : e \in Held'
      BY <1>4, <2>1, <2>3
    <2>5. QED
      BY <1>1, <2>1, <2>2, <2>3, <2>4, Enough
  <1>15. CASE ListEof \/ ListClose \/ (ListNoItem /\ stack' # stack)
    <2>1. PICK end \in 0..Len(tokens) : Complete(List(top, end))
      <3>1. pos \in 1..Len(tokens) + 1 /\ Len(tokens) \in Nat
        BY Bounds DEF IInv, TypeOK
      <3>2. CASE ListEof
        <4>1. UnclosedEnd(top) \in 0..Len(tokens)
          BY <1>1, UnclosedEndTyped
        <4>2. QED
          BY <3>2, <4>1 DEF ListEof
      <3>3. CASE ListClose
        <4>1. peek # EOF
          BY <3>3 DEF ListClose, Closes, EOF
        <4>2. pos \in 0..Len(tokens)
          BY <3>1, <4>1, PeekInside DEF IInv, Index
        <4>3. QED
          BY <3>3, <4>2 DEF ListClose
      <3>4. CASE ListNoItem /\ stack' # stack
        <4>1. UnclosedEnd(top) \in 0..Len(tokens)
          BY <1>1, UnclosedEndTyped
        <4>2. QED
          BY <3>4, <4>1 DEF ListNoItem
      <3>5. QED
        BY <1>15, <3>2, <3>3, <3>4
    <2>2. top.fn = "list" /\ (pc = "return" => ret = None)
      BY <1>15, NotOutermost DEF ListEof, ListClose, ListNoItem
    <2> DEFINE list == List(top, end)
    <2>3. list \in NodeType(Len(heap))
      BY <1>1, ListTyped
    <2>4. stack' = Front(stack)
      BY <2>1 DEF Complete
    <2>5. /\ Owned(list) = Owned(top) /\ list.items = top.items /\ list.arg = None
          /\ folds(list) => Dropped = {top.items[1]}
      BY <1>1, <2>2, <2>4, ListHolds
    <2> HIDE DEF list
    <2>6. Complete(list)
      BY <2>1 DEF list
    <2>7. /\ \A e \in Owned(top) : e \in Held' \/ e \in Dropped
          /\ \A e \in 1..Len(heap') : e \in Ids \/ e \in Held'
      BY <1>1, <2>3, <2>5, <2>6, CompleteHolds
    <2>8. QED
      BY <1>1, <2>2, <2>4, <2>7, Enough
  <1>16. CASE ListNoItem /\ stack' = stack
    <2>1. pc = "return" /\ ret = None
      BY <1>16 DEF ListNoItem
    <2>2. heap' = heap
      <3>1. ASSUME Complete(List(top, UnclosedEnd(top))) PROVE FALSE
        <4>1. stack' = Front(stack)
          BY <3>1 DEF Complete
        <4>2. Len(stack') = Len(stack) - 1 /\ Len(stack) \in Nat
          BY <1>1, <4>1, Popped
        <4>3. Len(stack) = Len(stack) - 1
          BY <1>16, <4>2
        <4>4. QED
          BY <4>2, <4>3
      <3>2. QED
        BY <1>16, <3>1 DEF ListNoItem
    <2>3. QED
      BY <1>1, <1>3, <1>5, <1>16, <2>1, <2>2, Enough
  <1>17. CASE ListDot
    <2> DEFINE f == [top EXCEPT !.items = ItemsWithTail(top), !.tail = None, !.after = pos]
    <2>1. pc = "list" /\ resume(f) /\ heap' = heap
      BY <1>17 DEF ListDot
    <2>2. top.fn = "list"
      BY <2>1, NotOutermost
    <2>3. f.items = ItemsWithTail(top)
      BY <1>2 DEF FrameType
    <2>4. Owned(top) \subseteq Owned(f)
      BY <1>1, <1>2, <2>2, <2>3, TopHolds, TailAmongItems DEF Owned
    <2> HIDE DEF f
    <2>5. QED
      BY <1>1, <1>3, <1>6, <2>1, <2>4, Enough
  <1>18. CASE ListTakeTail
    <2> DEFINE f == [top EXCEPT !.tail = ret, !.dot = top.after, !.after = None]
               g == [top EXCEPT !.after = None]
    <2>1. /\ pc = "return" /\ top.fn = "list" /\ top.after # None /\ heap' = heap
          /\ ret # None => resume(f)
          /\ ret = None => resume(g)
      BY <1>18 DEF ListTakeTail
    <2>2. /\ f.items = top.items /\ f.tail = ret
          /\ g.items = top.items /\ g.tail = top.tail
      BY <1>2 DEF FrameType
    <2>3. top.tail = None
      BY <1>1, <2>1, TopShaped DEF FrameShape
    <2>4. Owned(top) \subseteq Owned(f) /\ Owned(top) \subseteq Owned(g)
      BY <1>1, <2>1, <2>2, <2>3, TopHolds DEF Owned
    <2>5. ret # None => ret \in Owned(f)
      BY <2>2 DEF Owned
    <2> HIDE DEF f, g
    <2>6. CASE ret # None
      BY <1>1, <1>3, <1>6, <2>1, <2>4, <2>5, <2>6, Enough
    <2>7. CASE ret = None
      BY <1>1, <1>3, <1>6, <2>1, <2>4, <2>7, Enough
    <2>8. QED
      BY <2>6, <2>7
  <1>19. CASE ListItem
    <2>1. pc = "list" /\ stack' = stack /\ heap' = heap
      BY <1>19 DEF ListItem
    <2>2. QED
      BY <1>1, <1>3, <1>5, <2>1, Enough
  <1>20. CASE ListTakeItem
    <2> DEFINE f == [top EXCEPT !.items = Append(ItemsWithTail(top), ret), !.tail = None,
                                !.dot = IF top.tail = None THEN @ ELSE None]
    <2>1. pc = "return" /\ top.fn = "list" /\ ret # None /\ resume(f) /\ heap' = heap
      BY <1>20 DEF ListTakeItem
    <2>2. f.items = Append(ItemsWithTail(top), ret)
      BY <1>2 DEF FrameType
    <2>3. ToSet(f.items) = ToSet(ItemsWithTail(top)) \union {ret}
      <3>1. ItemsWithTail(top) \in Seq(1..Len(heap))
        BY <1>1, ItemsWithTailTyped
      <3> HIDE DEF f
      <3>2. QED
        BY <2>2, <3>1, ToSetAppend
    <2>4. Owned(top) \subseteq Owned(f) /\ ret \in Owned(f)
      BY <1>1, <1>2, <2>1, <2>3, TopHolds, TailAmongItems DEF Owned
    <2> HIDE DEF f
    <2>5. QED
      BY <1>1, <1>3, <1>6, <2>1, <2>4, Enough
  <1>21. CASE SkipToken \/ (SkipClose /\ top.nesting > 1)
    <2>1. pc = "skip" /\ heap' = heap /\ \E f : resume(f)
      BY <1>21 DEF SkipToken, SkipClose
    <2>2. Owned(top) = {}
      BY <1>1, <2>1, NotOutermost, TopHolds
    <2>3. QED
      BY <1>1, <1>3, <2>1, <2>2, Enough
  <1>22. CASE SkipEof \/ (SkipClose /\ ~(top.nesting > 1))
    <2>1. pc = "skip"
      BY <1>22 DEF SkipEof, SkipClose
    <2>2. top.fn = "skip"
      BY <2>1, NotOutermost
    <2>3. PICK end \in 0..Len(tokens) : Complete(Node("list", top.at, end, <<>>))
      <3>1. CASE SkipEof
        <4>1. top.end \in 0..Len(tokens)
          BY <1>1, TopTyped
        <4>2. QED
          BY <3>1, <4>1 DEF SkipEof
      <3>2. CASE SkipClose /\ ~(top.nesting > 1)
        <4>1. peek # EOF
          BY <3>2 DEF SkipClose, Closes, EOF
        <4>2. pos \in Index
          BY <4>1, PeekInside DEF IInv
        <4>3. pos \in 0..Len(tokens)
          BY <4>2, Bounds DEF Index
        <4>4. QED
          BY <3>2, <4>3 DEF SkipClose
      <3>3. QED
        BY <1>22, <3>1, <3>2
    <2> DEFINE list == Node("list", top.at, end, <<>>)
    <2>4. list \in NodeType(Len(heap))
      <3>1. top.at \in Index /\ "list" \in NodeKinds /\ <<>> \in Seq(1..Len(heap))
        BY <1>1, TopTyped DEF NodeKinds
      <3>2. QED
        BY <1>1, <3>1, NewNode
    <2>5. /\ Owned(list) = Owned(top) /\ list.items = top.items /\ list.arg = None
          /\ ~folds(list)
      BY <1>1, <2>2, ListHolds
    <2> HIDE DEF list
    <2>6. Complete(list)
      BY <2>3 DEF list
    <2>7. /\ stack' = Front(stack)
          /\ \A e \in Owned(top) : e \in Held' \/ e \in Dropped
          /\ \A e \in 1..Len(heap') : e \in Ids \/ e \in Held'
      BY <1>1, <2>4, <2>5, <2>6, CompleteHolds
    <2>8. QED
      BY <1>1, <2>1, <2>7, Enough
  <1>23. QED
    BY <1>7, <1>8, <1>9, <1>10, <1>11, <1>12, <1>13, <1>14, <1>15, <1>16, <1>17, <1>18,
       <1>19, <1>20, <1>21, <1>22 DEF ReadDatum

\* parse_top_level's own steps build nothing and hold nothing.
LEMMA NothingLostAtTop ==
  ASSUME IInv, TopStrayClose \/ TopCall \/ TopEnd, NEW d \in 1..Len(heap')
  PROVE  d \in Held' \/ (d \in Ids \ Held)
  <1>1. heap' = heap /\ data' = data /\ pc = "top"
    BY DEF TopStrayClose, TopCall, TopEnd
  <1>2. stack = <<>> /\ Len(stack) = 0
    BY <1>1 DEF IInv, TypeOK, Nested
  <1>3. DOMAIN stack = {}
    BY <1>2
  <1>4. ASSUME d \in Held PROVE d \in Held'
    <2>1. \/ \E i \in DOMAIN data : data[i] = d
          \/ \E e \in 1..Len(heap) : d \in Owned(heap[e])
      BY <1>1, <1>3, <1>4, HeldBy
    <2>2. QED
      BY <1>1, <2>1, HeldNext
  <1>5. QED
    BY <1>1, <1>4 DEF Ids

\* Whatever parse has built stays in its result, in a parent or in a call in
\* progress, through every recovery path (reader.rs:449, 468, 498): a step may
\* drop only the operand of `#;', the first operand of a prefix that lacks its
\* second, and the head symbol of a folded `(quote x)'.
THEOREM NoneLost == Spec => NoDatumLost
  <1>1. Init => Shaped
    BY DEF Init, Shaped
  <1>2. IInv /\ Shaped /\ [Next]_vars => Shaped'
    <2>1. ASSUME Shaped, UNCHANGED vars PROVE Shaped'
      BY <2>1 DEF vars, Shaped, FrameShape, None
    <2>2. QED
      BY <2>1, ShapedStep
  <1>3. IInv /\ Shaped /\ [Next]_vars =>
          [\A d \in 1..Len(heap') : d \in Held' \/ (d \in Ids \ Held) \/ d \in Dropped]_vars
    <2> SUFFICES ASSUME IInv, Shaped, Next, NEW d \in 1..Len(heap')
                 PROVE  d \in Held' \/ (d \in Ids \ Held) \/ d \in Dropped
      OBVIOUS
    <2>1. CASE ReadDatum \/ TopTake
      BY <2>1, NothingLost
    <2>2. CASE TopStrayClose \/ TopCall \/ TopEnd
      BY <2>2, NothingLostAtTop
    <2>3. QED
      BY <2>1, <2>2 DEF Next
  <1>4. QED
    BY <1>1, <1>2, <1>3, Invariance, PTL DEF Spec, NoDatumLost
-----------------------------------------------------------------------------
(* Where the data lie: what holds of the spans while the tree is built.    *)

\* The data of seq lie in source order between two tokens.
Laid(h, seq, from, to) ==
  /\ \A i \in 1..Len(seq) : from <= h[seq[i]].first /\ h[seq[i]].end < to
  /\ \A i, j \in 1..Len(seq) : i < j => h[seq[i]].end < h[seq[j]].first

\* A tail comes after a dot that comes after the last item.
DotBetween(h, n) ==
  n.tail # None =>
    n.items # <<>> /\ h[Last(n.items)].end < n.dot /\ n.dot < h[n.tail].first

\* What a call in progress holds lies between its first token and the token
\* `to', where it or the call it waits for goes on.
Waits(h, f, to) ==
  /\ f.at <= to
  /\ Laid(h, ItemsWithTail(f), f.at, to)
  /\ f.arg # None => Laid(h, <<f.arg>>, f.at, to)
  /\ f.after # None => f.items # <<>> /\ h[Last(f.items)].end < f.after /\ f.after < to
  /\ DotBetween(h, f)

\* The children of a datum in source order.
Kids(n) == IF n.arg = None THEN ItemsWithTail(n) ELSE <<n.arg, n.items[1]>>

\* A datum encloses its children and lies before the token `to'; a list that
\* was reported as unclosed, one of `unclosed', may leave out its tail.
Encloses(h, unclosed, to, n) ==
  /\ n.arg # None => Len(n.items) = 1 /\ n.tail = None
  /\ n.first <= n.end /\ n.end < to
  /\ Laid(h, Kids(n), n.first, to)
  /\ \A i \in 1..Len(n.items) : h[n.items[i]].end <= n.end
  /\ n.arg # None => h[n.arg].end <= n.end
  /\ n.tail # None => h[n.tail].end <= n.end \/ n.first \in unclosed
  /\ n.kind = "list" => DotBetween(h, n)

Unclosed == {at \in Index : Reported("UnclosedList", at)}

\* Where the call after stack[i] began, or what is returned to it begins, or
\* reading goes on.
Limit(i) ==
  CASE i < Len(stack) -> stack[i + 1].at
    [] i = Len(stack) /\ pc = "return" /\ ret # None -> heap[ret].first
    [] OTHER -> pos

Tree ==
  /\ \A d \in Ids : Encloses(heap, Unclosed, pos, heap[d])
  /\ \A i \in 1..Len(stack) : Waits(heap, stack[i], Limit(i))
  /\ Laid(heap, data, 1, Limit(0))

\* The end of the region skipped so far, 0 as long as nothing was skipped.
SkipEnd == pc = "skip" => top.end = 0 \/ (top.at < top.end /\ top.end < pos)

-----------------------------------------------------------------------------
LEMMA LaidLater ==
  ASSUME NEW D, NEW h, NEW g, NEW s \in Seq(D),
         \A d \in D : g[d] = h[d] /\ h[d].first \in Int /\ h[d].end \in Int,
         NEW from \in Int, NEW to \in Int, NEW later \in Int, to <= later,
         Laid(h, s, from, to)
  PROVE  Laid(g, s, from, later)
  <1>1. \A i \in 1..Len(s) : s[i] \in D
    BY ElementOfSeq
  <1>2. QED
    BY <1>1 DEF Laid

LEMMA LaidAppend ==
  ASSUME NEW D, NEW h, NEW s \in Seq(D), NEW x \in D,
         \A d \in D : h[d].first \in Int /\ h[d].end \in Int,
         NEW from \in Int, NEW to \in Int, NEW later \in Int, from <= to, to <= h[x].first,
         h[x].first <= h[x].end, h[x].end < later,
         Laid(h, s, from, to)
  PROVE  Laid(h, Append(s, x), from, later)
  <1> DEFINE t == Append(s, x)
  <1>1. /\ Len(t) = Len(s) + 1 /\ t[Len(s) + 1] = x /\ Len(s) \in Nat
        /\ \A i \in 1..Len(s) : t[i] = s[i]
    BY AppendProperties, LenProperties
  <1>2. \A i \in 1..Len(s) : s[i] \in D
    BY ElementOfSeq
  <1> HIDE DEF t
  <1>3. ASSUME NEW i \in 1..Len(t)
        PROVE  from <= h[t[i]].first /\ h[t[i]].end < later
    <2>1. CASE i \in 1..Len(s)
      BY <1>1, <1>2, <2>1 DEF Laid
    <2>2. CASE i = Len(s) + 1
      BY <1>1, <2>2
    <2>3. QED
      BY <1>1, <2>1, <2>2
  <1>4. ASSUME NEW i \in 1..Len(t), NEW j \in 1..Len(t), i < j
        PROVE  h[t[i]].end < h[t[j]].first
    <2>1. i \in 1..Len(s)
      BY <1>1, <1>4
    <2>2. CASE j \in 1..Len(s)
      BY <1>1, <1>4, <2>1, <2>2 DEF Laid
    <2>3. CASE j = Len(s) + 1
      BY <1>1, <1>2, <2>1, <2>3 DEF Laid
    <2>4. QED
      BY <1>1, <2>2, <2>3
  <1>5. QED
    BY <1>3, <1>4 DEF Laid, t

LEMMA LaidOne ==
  ASSUME NEW h, NEW x, NEW from, NEW to, from <= h[x].first, h[x].end < to
  PROVE  Laid(h, <<x>>, from, to)
  BY DEF Laid

LEMMA LaidNone ==
  ASSUME NEW h, NEW from, NEW to
  PROVE  Laid(h, <<>>, from, to)
  BY DEF Laid

\* The items of a list with its tail.
LEMMA WithTail ==
  ASSUME NEW D, NEW f, f.items \in Seq(D), f.tail # None => f.tail \in D
  PROVE  /\ ItemsWithTail(f) \in Seq(D)
         /\ Len(f.items) \in Nat
         /\ f.items # <<>> => Len(f.items) >= 1
         /\ f.items # <<>> => Last(f.items) = f.items[Len(f.items)] /\ Last(f.items) \in D
         /\ \A i \in 1..Len(f.items) : f.items[i] \in D
         /\ \A i \in 1..Len(f.items) : i \in 1..Len(ItemsWithTail(f))
                                       /\ ItemsWithTail(f)[i] = f.items[i]
         /\ f.tail = None => Len(ItemsWithTail(f)) = Len(f.items)
         /\ f.tail # None => Len(ItemsWithTail(f)) = Len(f.items) + 1
                             /\ ItemsWithTail(f)[Len(f.items) + 1] = f.tail
  <1>1. /\ Len(f.items) \in Nat /\ \A i \in 1..Len(f.items) : f.items[i] \in D
    BY LenProperties, ElementOfSeq
  <1>2. ASSUME f.items # <<>>
        PROVE  /\ Len(f.items) >= 1
               /\ Last(f.items) = f.items[Len(f.items)] /\ Last(f.items) \in D
    <2>1. Len(f.items) \in Nat \ {0}
      BY <1>2, EmptySeq
    <2>2. Last(f.items) = f.items[Len(f.items)]
      BY DEF Last
    <2>3. QED
      BY <1>1, <2>1, <2>2
  <1>3. CASE f.tail = None
    BY <1>1, <1>2, <1>3 DEF ItemsWithTail
  <1>4. CASE f.tail # None
    <2>1. ItemsWithTail(f) = Append(f.items, f.tail)
      BY <1>4 DEF ItemsWithTail
    <2>2. /\ ItemsWithTail(f) \in Seq(D) /\ Len(ItemsWithTail(f)) = Len(f.items) + 1
          /\ ItemsWithTail(f)[Len(f.items) + 1] = f.tail
          /\ \A i \in 1..Len(f.items) : ItemsWithTail(f)[i] = f.items[i]
      BY <1>4, <2>1, AppendProperties
    <2>3. QED
      BY <1>1, <1>2, <1>4, <2>2
  <1>5. QED
    BY <1>3, <1>4

LEMMA WaitsLater ==
  ASSUME NEW n \in Nat, NEW f \in FrameType(n), Len(tokens) \in Nat,
         NEW h, NEW g,
         \A d \in 1..n : g[d] = h[d] /\ h[d].first \in Int /\ h[d].end \in Int,
         NEW to \in Int, NEW later \in Int, to <= later,
         Waits(h, f, to)
  PROVE  Waits(g, f, later)
  <1>1. /\ f.at \in Int /\ f.items \in Seq(1..n) /\ f.tail \in 0..n /\ f.arg \in 0..n
        /\ f.dot \in Int /\ f.after \in Int
    BY DEF FrameType, Index
  <1>2. f.tail # None => f.tail \in 1..n
    BY <1>1 DEF None
  <1>3. /\ ItemsWithTail(f) \in Seq(1..n)
        /\ f.items # <<>> => Last(f.items) \in 1..n
    BY <1>1, <1>2, WithTail
  <1>4. Laid(g, ItemsWithTail(f), f.at, later)
    <2>1. Laid(h, ItemsWithTail(f), f.at, to)
      BY DEF Waits
    <2>2. QED
      BY <1>1, <1>3, <2>1, LaidLater
  <1>5. f.arg # None => Laid(g, <<f.arg>>, f.at, later)
    <2> SUFFICES ASSUME f.arg # None PROVE Laid(g, <<f.arg>>, f.at, later)
      OBVIOUS
    <2>1. <<f.arg>> \in Seq(1..n)
      <3>1. f.arg \in 1..n
        BY <1>1 DEF None
      <3>2. QED
        BY <3>1
    <2>2. Laid(h, <<f.arg>>, f.at, to)
      BY DEF Waits
    <2>3. QED
      BY <1>1, <2>1, <2>2, LaidLater
  <1>6. f.after # None => f.items # <<>> /\ g[Last(f.items)].end < f.after /\ f.after < later
    BY <1>1, <1>3 DEF Waits
  <1>7. DotBetween(g, f)
    BY <1>1, <1>2, <1>3 DEF Waits, DotBetween
  <1>8. f.at <= later
    BY <1>1 DEF Waits
  <1>9. QED
    BY <1>4, <1>5, <1>6, <1>7, <1>8 DEF Waits

\* The children of a datum, typed.
LEMMA KidsTyped ==
  ASSUME NEW m \in Nat, NEW n \in NodeType(m), Len(tokens) \in Nat,
         n.arg # None => Len(n.items) = 1 /\ n.tail = None
  PROVE  /\ Kids(n) \in Seq(1..m)
         /\ n.first \in Int /\ n.end \in Int /\ n.dot \in Int
         /\ n.items \in Seq(1..m) /\ Len(n.items) \in Nat
         /\ n.tail # None => n.tail \in 1..m
         /\ n.arg # None => n.arg \in 1..m
         /\ \A i \in 1..Len(n.items) : n.items[i] \in 1..m
         /\ n.items # <<>> => Last(n.items) \in 1..m
  <1>1. /\ n.first \in Int /\ n.end \in Int /\ n.dot \in Int /\ n.items \in Seq(1..m)
        /\ n.tail \in 0..m /\ n.arg \in 0..m
    BY DEF NodeType, Index
  <1>2. (n.tail # None => n.tail \in 1..m) /\ (n.arg # None => n.arg \in 1..m)
    BY <1>1 DEF None
  <1>3. /\ ItemsWithTail(n) \in Seq(1..m) /\ Len(n.items) \in Nat
        /\ \A i \in 1..Len(n.items) : n.items[i] \in 1..m
        /\ n.items # <<>> => Last(n.items) \in 1..m
    BY <1>1, <1>2, WithTail
  <1>4. Kids(n) \in Seq(1..m)
    <2>1. CASE n.arg = None
      BY <1>3, <2>1 DEF Kids
    <2>2. CASE n.arg # None
      <3>1. n.arg \in 1..m /\ n.items[1] \in 1..m
        BY <1>2, <1>3, <2>2
      <3>2. <<n.arg, n.items[1]>> \in Seq(1..m)
        BY <3>1
      <3>3. QED
        BY <2>2, <3>2 DEF Kids
    <2>3. QED
      BY <2>1, <2>2
  <1>5. QED
    BY <1>1, <1>2, <1>3, <1>4

LEMMA EnclosesLater ==
  ASSUME NEW m \in Nat, NEW n \in NodeType(m), Len(tokens) \in Nat,
         NEW h, NEW g,
         \A d \in 1..m : g[d] = h[d] /\ h[d].first \in Int /\ h[d].end \in Int,
         NEW to \in Int, NEW later \in Int, to <= later,
         NEW u, NEW v, u \subseteq v,
         Encloses(h, u, to, n)
  PROVE  Encloses(g, v, later, n)
  <1>1. n.arg # None => Len(n.items) = 1 /\ n.tail = None
    BY DEF Encloses
  <1>2. /\ Kids(n) \in Seq(1..m)
        /\ n.first \in Int /\ n.end \in Int /\ n.dot \in Int
        /\ n.tail # None => n.tail \in 1..m
        /\ n.arg # None => n.arg \in 1..m
        /\ \A i \in 1..Len(n.items) : n.items[i] \in 1..m
        /\ n.items # <<>> => Last(n.items) \in 1..m
    BY <1>1, KidsTyped
  <1>3. Laid(g, Kids(n), n.first, later)
    <2>1. Laid(h, Kids(n), n.first, to)
      BY DEF Encloses
    <2>2. QED
      BY <1>2, <2>1, LaidLater
  <1>4. n.kind = "list" => DotBetween(g, n)
    BY <1>2 DEF Encloses, DotBetween
  <1>5. n.first <= n.end /\ n.end < later
    BY <1>2 DEF Encloses
  <1>6. /\ \A i \in 1..Len(n.items) : g[n.items[i]].end <= n.end
        /\ n.arg # None => g[n.arg].end <= n.end
        /\ n.tail # None => g[n.tail].end <= n.end \/ n.first \in v
    BY <1>2 DEF Encloses
  <1>7. QED
    BY <1>1, <1>3, <1>4, <1>5, <1>6 DEF Encloses

-----------------------------------------------------------------------------
(* The tree from one step to the next.                                     *)

LEMMA Offsets ==
  ASSUME IInv
  PROVE  /\ pos \in Int /\ 1 <= pos /\ Len(tokens) \in Nat /\ Len(heap) \in Nat
         /\ \A d \in 1..Len(heap) : /\ heap[d] \in NodeType(Len(heap))
                                    /\ heap[d].first \in Int /\ heap[d].end \in Int
                                    /\ 1 <= heap[d].first
         /\ ret # None => ret \in 1..Len(heap)
  <1>1. Len(tokens) \in Nat /\ Len(heap) \in Nat
    BY Bounds
  <1>2. pos \in Int /\ 1 <= pos
    BY <1>1 DEF IInv, TypeOK
  <1>3. ret # None => ret \in 1..Len(heap)
    BY <1>1 DEF IInv, TypeOK, None
  <1>4. ASSUME NEW d \in 1..Len(heap)
        PROVE  /\ heap[d] \in NodeType(Len(heap))
               /\ heap[d].first \in Int /\ heap[d].end \in Int /\ 1 <= heap[d].first
    <2>1. /\ heap[d] \in NodeType(Len(heap)) /\ heap[d].first \in Index
          /\ heap[d].end \in 0..Len(tokens)
      BY <1>4, EndTyped DEF Ids
    <2>2. QED
      BY <1>1, <2>1 DEF Index
  <1>5. QED
    BY <1>1, <1>2, <1>3, <1>4

LEMMA LimitTyped ==
  ASSUME IInv, NEW i \in 0..Len(stack)
  PROVE  Limit(i) \in Int
  <1>1. Len(stack) \in Nat
    BY LenProperties DEF IInv, TypeOK
  <1>2. CASE i < Len(stack)
    <2>1. stack # <<>> /\ i + 1 \in 1..Len(stack)
      BY <1>1, <1>2
    <2>2. stack[i + 1].at \in Int
      BY <2>1, InnerCall
    <2>3. QED
      BY <1>2, <2>2 DEF Limit
  <1>3. CASE ~(i < Len(stack))
    <2>1. Limit(i) = pos \/ (ret # None /\ Limit(i) = heap[ret].first)
      BY <1>3 DEF Limit
    <2>2. QED
      BY <2>1, Offsets
  <1>4. QED
    BY <1>2, <1>3

\* The innermost call, and where what it waits for may begin at the latest.
LEMMA TopWaits ==
  ASSUME IInv, Tree, stack # <<>>
  PROVE  /\ Waits(heap, top, Limit(Len(stack))) /\ top.at <= Limit(Len(stack))
         /\ Limit(Len(stack)) \in Int /\ Limit(Len(stack)) <= pos
         /\ pc = "return" /\ ret # None => Limit(Len(stack)) = heap[ret].first
         /\ ~(pc = "return" /\ ret # None) => Limit(Len(stack)) = pos
  <1>1. Len(stack) \in Nat \ {0} /\ top = stack[Len(stack)]
    BY InnerCall
  <1>2. Waits(heap, top, Limit(Len(stack))) /\ Limit(Len(stack)) \in Int
    <2>1. Len(stack) \in 1..Len(stack) /\ Len(stack) \in 0..Len(stack)
      BY <1>1
    <2>2. QED
      BY <1>1, <2>1, LimitTyped DEF Tree
  <1>3. /\ pc = "return" /\ ret # None => Limit(Len(stack)) = heap[ret].first
        /\ ~(pc = "return" /\ ret # None) => Limit(Len(stack)) = pos
    BY <1>1 DEF Limit
  <1>4. Limit(Len(stack)) <= pos
    <2>1. CASE pc = "return" /\ ret # None
      <3>1. /\ ret \in 1..Len(heap) /\ heap[ret].first \in Int /\ heap[ret].end \in Int
            /\ pos \in Int
        BY <2>1, Offsets
      <3>2. heap[ret].first <= heap[ret].end /\ heap[ret].end < pos
        BY <3>1 DEF Tree, Encloses, Ids
      <3>3. QED
        BY <1>3, <2>1, <3>1, <3>2
    <2>2. CASE ~(pc = "return" /\ ret # None)
      BY <1>3, <2>2, Offsets
    <2>3. QED
      BY <2>1, <2>2
  <1>5. QED
    BY <1>2, <1>3, <1>4 DEF Waits

LEMMA LimitNext ==
  ASSUME NEW i \in Nat, Len(stack') \in Nat
  PROVE  /\ i < Len(stack') => Limit(i)' = stack'[i + 1].at
         /\ i = Len(stack') /\ pc' = "return" /\ ret' # None => Limit(i)' = heap'[ret'].first
         /\ i = Len(stack') /\ ~(pc' = "return" /\ ret' # None) => Limit(i)' = pos'
  BY DEF Limit, None

LEMMA LimitGrows ==
  ASSUME IInv, Tree, ReadDatum, NEW i \in 0..Len(stack), i <= Len(stack'),
         i < Len(stack) \/ stack' = stack \/ \E f : stack' = Append(stack, f)
  PROVE  Limit(i) <= Limit(i)'
  <1>1. /\ stack # <<>> /\ pos \in Int /\ pos' \in {pos, pos + 1}
        /\ Len(stack) \in Nat \ {0} /\ top = stack[Len(stack)]
        /\ \A j \in 1..Len(stack) : stack[j].at \in Int
        /\ i \in Nat /\ Limit(i) \in Int
    <2>1. stack # <<>> /\ pos' \in {pos, pos + 1} /\ pos \in Int
      BY CallsMove, Offsets
    <2>2. QED
      BY <2>1, InnerCall, LimitTyped
  <1>2. /\ top.at \in Int /\ top.at <= pos /\ Limit(Len(stack)) <= pos
    <2>1. /\ top.at <= Limit(Len(stack)) /\ Limit(Len(stack)) \in Int
          /\ Limit(Len(stack)) <= pos
      BY <1>1, TopWaits
    <2>2. top.at \in Int
      BY <1>1
    <2>3. QED
      BY <1>1, <2>1, <2>2
  <1>3. i < Len(stack) => Limit(i) = stack[i + 1].at /\ i + 1 \in 1..Len(stack)
    BY <1>1 DEF Limit
  <1>4. pc' = "return" /\ ret' # None =>
          \/ heap'[ret'].first = pos /\ stack' = stack
          \/ heap'[ret'].first = top.at /\ stack' = Front(stack)
    BY ReturnBegins
  <1>5. CASE stack' = stack
    <2>1. stack' # Front(stack)
      <3>1. ASSUME stack' = Front(stack) PROVE FALSE
        <4>1. Len(stack') = Len(stack) - 1
          BY <1>1, <3>1, Popped
        <4>2. Len(stack) = Len(stack) - 1
          BY <1>5, <4>1
        <4>3. QED
          BY <1>1, <4>2
      <3>2. QED
        BY <3>1
    <2>2. CASE i < Len(stack)
      <3>1. Limit(i)' = stack[i + 1].at
        BY <1>1, <1>5, <2>2, LimitNext
      <3>2. QED
        BY <1>1, <1>3, <2>2, <3>1
    <2>3. CASE i = Len(stack)
      <3>1. Limit(i)' \in {pos, pos'}
        BY <1>1, <1>4, <1>5, <2>1, <2>3, LimitNext
      <3>2. QED
        BY <1>1, <1>2, <2>3, <3>1
    <2>4. QED
      BY <1>1, <2>2, <2>3
  <1>6. ASSUME NEW f, stack' = Append(stack, f), f.at = pos
        PROVE  Limit(i) <= Limit(i)'
    <2>1. /\ Len(stack') = Len(stack) + 1 /\ stack'[Len(stack) + 1] = f
          /\ \A j \in 1..Len(stack) : stack'[j] = stack[j]
      BY <1>6, Pushed
    <2>2. Len(stack') \in Nat /\ i < Len(stack')
      BY <1>1, <2>1
    <2>3. Limit(i)' = stack'[i + 1].at
      BY <1>1, <2>2, LimitNext
    <2>4. CASE i < Len(stack)
      BY <1>1, <1>3, <2>1, <2>3, <2>4
    <2>5. CASE i = Len(stack)
      BY <1>1, <1>2, <1>6, <2>1, <2>3, <2>5
    <2>6. QED
      BY <1>1, <2>4, <2>5
  <1>7. CASE stack' = Front(stack)
    <2>1. /\ Len(stack') = Len(stack) - 1
          /\ \A j \in 1..Len(stack) - 1 : stack'[j] = stack[j]
      BY <1>1, <1>7, Popped
    <2>2. Len(stack') \in Nat /\ stack' # stack
      BY <1>1, <2>1
    <2>3. CASE i < Len(stack')
      <3>1. Limit(i)' = stack'[i + 1].at /\ i + 1 \in 1..Len(stack) - 1 /\ i < Len(stack)
        BY <1>1, <2>1, <2>2, <2>3, LimitNext
      <3>2. QED
        BY <1>1, <1>3, <2>1, <3>1
    <2>4. CASE i = Len(stack')
      <3>1. Limit(i) = top.at
        BY <1>1, <1>3, <2>1, <2>4
      <3>2. Limit(i)' \in {top.at, pos'}
        BY <1>1, <1>4, <2>2, <2>4, LimitNext
      <3>3. QED
        BY <1>1, <1>2, <3>1, <3>2
    <2>5. QED
      BY <1>1, <2>2, <2>3, <2>4
  <1>8. ASSUME NEW f, resume(f), f.at = top.at, i < Len(stack)
        PROVE  Limit(i) <= Limit(i)'
    <2>1. /\ Len(stack') = Len(stack) /\ stack'[Len(stack)] = f
          /\ \A j \in 1..Len(stack) - 1 : stack'[j] = stack[j]
      BY <1>1, <1>8, Resumed
    <2>2. Limit(i)' = stack'[i + 1].at
      BY <1>1, <1>8, <2>1, LimitNext
    <2>3. stack'[i + 1].at = stack[i + 1].at
      <3>1. CASE i + 1 = Len(stack)
        BY <1>1, <1>8, <2>1, <3>1
      <3>2. CASE i + 1 # Len(stack)
        <4>1. i + 1 \in 1..Len(stack) - 1
          BY <1>1, <1>8, <3>2
        <4>2. QED
          BY <2>1, <4>1
      <3>3. QED
        BY <3>1, <3>2
    <2>4. QED
      BY <1>1, <1>3, <1>8, <2>2, <2>3
  <1>9. CASE i < Len(stack)
    BY <1>5, <1>6, <1>7, <1>8, <1>9, CallsMove
  <1>10. CASE ~(i < Len(stack))
    <2>1. CASE stack' = stack
      BY <1>5, <2>1
    <2>2. CASE \E f : stack' = Append(stack, f)
      <3>1. PICK f : stack' = Append(stack, f)
        BY <2>2
      <3>2. Len(stack') = Len(stack) + 1
        BY <3>1, Pushed
      <3>3. \E g : stack' = Append(stack, g) /\ g.at = pos
        <4>1. stack' # stack
          BY <1>1, <3>2
        <4>2. stack' # Front(stack)
          <5>1. stack' = Front(stack) => Len(stack') = Len(stack) - 1
            BY <1>1, Popped
          <5>2. QED
            BY <1>1, <3>2, <5>1
        <4>3. \A g : ~resume(g)
          <5>1. \A g : resume(g) => Len(stack') = Len(stack)
            BY <1>1, Resumed
          <5>2. QED
            BY <1>1, <3>2, <5>1
        <4>4. QED
          BY <4>1, <4>2, <4>3, CallsMove
      <3>4. QED
        BY <1>6, <3>3
    <2>3. QED
      BY <1>10, <2>1, <2>2
  <1>11. QED
    BY <1>9, <1>10

LEMMA LimitsTypedNext == IInv' => (\A i \in 0..Len(stack) : Limit(i) \in Int)'
  <1>1. IInv => \A i \in 0..Len(stack) : Limit(i) \in Int
    BY LimitTyped
  <1>2. QED
    BY <1>1, PTL

LEMMA UnclosedKept ==
  ASSUME IInv, Next
  PROVE  Unclosed \subseteq Unclosed'
  <1>1. tokens' = tokens
    BY InputsKept
  <1>2. ASSUME NEW at \in Index, Reported("UnclosedList", at)
        PROVE  Reported("UnclosedList", at)'
    BY <1>2, ErrorsKept DEF Reported
  <1>3. QED
    BY <1>1, <1>2 DEF Unclosed, Index

\* A list reported as unclosed by a step.
LEMMA UnclosedNow ==
  ASSUME IInv, NEW at \in Index, error("UnclosedList", at), tokens' = tokens
  PROVE  at \in Unclosed'
  <1> DEFINE e == [kind |-> "UnclosedList", at |-> at]
  <1>1. errors \in Seq(ErrorType) /\ e \in ErrorType /\ errors' = Append(errors, e)
    BY DEF IInv, TypeOK, ErrorType, ErrorKinds, error
  <1> HIDE DEF e
  <1>2. /\ errors' \in Seq(ErrorType) /\ Len(errors) \in Nat
        /\ Len(errors') = Len(errors) + 1 /\ errors'[Len(errors) + 1] = e
    BY <1>1, AppendProperties, LenProperties
  <1>3. Len(errors) + 1 \in DOMAIN errors'
    BY <1>2, LenProperties
  <1>4. Reported("UnclosedList", at)'
    BY <1>2, <1>3 DEF Reported, e
  <1>5. QED
    BY <1>4 DEF Unclosed, Index

LEMMA TreeNext ==
  ASSUME \A d \in 1..Len(heap') : Encloses(heap', Unclosed', pos', heap'[d]),
         \A i \in 1..Len(stack') : Waits(heap', stack'[i], Limit(i)'),
         Laid(heap', data', 1, Limit(0)')
  PROVE  Tree'
  <1>1. \A d \in Ids' : Encloses(heap, Unclosed, pos, heap[d])'
    BY DEF Ids, Encloses, Laid, Kids, DotBetween, ItemsWithTail, None
  <1>2. \A i \in 1..Len(stack') : Waits(heap, stack[i], Limit(i))'
    BY DEF Waits, Laid, DotBetween, ItemsWithTail, None
  <1>3. Laid(heap, data, 1, Limit(0))'
    BY DEF Laid
  <1>4. QED
    BY <1>1, <1>2, <1>3 DEF Tree

\* What was in place stays in place.
LEMMA TreeKept ==
  ASSUME IInv, Tree, ReadDatum,
         \A d \in 1..Len(heap') : d \in Ids \/ Encloses(heap', Unclosed', pos', heap'[d]),
         \/ stack' = stack
         \/ \E f : stack' = Append(stack, f) /\ Waits(heap', f, pos') /\ pc' # "return"
         \/ stack' = Front(stack)
         \/ \E f : resume(f) /\ Waits(heap', f, pos') /\ pc' # "return"
  PROVE  Tree'
  <1>1. Next /\ IInv' /\ data' = data
    <2>1. Next
      BY DEF Next
    <2>2. data' = data
      BY DEF ReadDatum, DatumNone, DatumMalformed, DatumLeaf, DatumOperand,
           DatumOpen, DiscardTake, ArgTake, PrefixTake, TagTake, ListEof, ListClose,
           ListDot, ListTakeTail, ListItem, ListTakeItem, ListNoItem, SkipToken,
           SkipClose, SkipEof
    <2>3. QED
      BY <2>1, <2>2, StepPreserves
  <1>2. /\ pos \in Int /\ pos' \in Int /\ pos <= pos' /\ Len(tokens) \in Nat
        /\ Len(heap) \in Nat
        /\ \A d \in 1..Len(heap) : /\ heap[d] \in NodeType(Len(heap))
                                   /\ heap[d].first \in Int /\ heap[d].end \in Int
    <2>1. /\ pos \in Int /\ Len(tokens) \in Nat /\ Len(heap) \in Nat
          /\ \A d \in 1..Len(heap) : /\ heap[d] \in NodeType(Len(heap))
                                     /\ heap[d].first \in Int /\ heap[d].end \in Int
      BY Offsets
    <2>2. pos' \in Int /\ pos <= pos'
      <3>1. pos' \in {pos, pos + 1}
        BY CallsMove
      <3>2. QED
        BY <2>1, <3>1
    <2>3. QED
      BY <2>1, <2>2
  <1>3. \A d \in 1..Len(heap) : d \in 1..Len(heap') /\ heap'[d] = heap[d]
    BY <1>1, HeapKept DEF Ids
  <1>4. /\ stack # <<>> /\ Len(stack) \in Nat \ {0}
        /\ \A i \in 1..Len(stack) : stack[i] \in FrameType(Len(heap))
    BY CallsMove, InnerCall
  <1>5. ASSUME NEW d \in 1..Len(heap')
        PROVE  Encloses(heap', Unclosed', pos', heap'[d])
    <2> SUFFICES ASSUME d \in Ids PROVE Encloses(heap', Unclosed', pos', heap'[d])
      OBVIOUS
    <2>1. d \in 1..Len(heap) /\ heap'[d] = heap[d] /\ Encloses(heap, Unclosed, pos, heap[d])
      BY <1>3 DEF Tree, Ids
    <2>2. Unclosed \subseteq Unclosed'
      BY <1>1, UnclosedKept
    <2>3. heap[d] \in NodeType(Len(heap))
      BY <1>2, <2>1
    <2>4. Encloses(heap', Unclosed', pos', heap[d])
      BY <1>2, <1>3, <2>1, <2>2, <2>3, EnclosesLater
    <2>5. QED
      BY <2>1, <2>4
  <1>6. ASSUME NEW i \in 0..Len(stack), i <= Len(stack'),
               i < Len(stack) \/ stack' = stack \/ \E f : stack' = Append(stack, f)
        PROVE  Limit(i) \in Int /\ Limit(i)' \in Int /\ Limit(i) <= Limit(i)'
    <2>1. i \in 0..Len(stack') /\ Len(stack') \in Nat
      BY <1>1, <1>6, LenProperties DEF IInv, TypeOK
    <2>2. Limit(i)' \in Int
      BY <1>1, <2>1, LimitsTypedNext
    <2>3. QED
      BY <1>6, <2>2, LimitTyped, LimitGrows
  <1>7. ASSUME NEW i \in 1..Len(stack), i <= Len(stack'), stack'[i] = stack[i],
               i < Len(stack) \/ stack' = stack \/ \E f : stack' = Append(stack, f)
        PROVE  Waits(heap', stack'[i], Limit(i)')
    <2>1. i \in 0..Len(stack)
      BY <1>4
    <2>2. /\ Limit(i) \in Int /\ Limit(i)' \in Int /\ Limit(i) <= Limit(i)'
          /\ Waits(heap, stack[i], Limit(i))
      BY <1>6, <1>7, <2>1 DEF Tree
    <2>3. stack[i] \in FrameType(Len(heap))
      BY <1>4
    <2>4. Waits(heap', stack[i], Limit(i)')
      BY <1>2, <1>3, <2>2, <2>3, WaitsLater
    <2>5. QED
      BY <1>7, <2>4
  <1>8. ASSUME NEW i \in 1..Len(stack')
        PROVE  Waits(heap', stack'[i], Limit(i)')
    <2>1. CASE stack' = stack
      BY <1>4, <1>7, <2>1
    <2>2. ASSUME NEW f, stack' = Append(stack, f), Waits(heap', f, pos'), pc' # "return"
          PROVE  Waits(heap', stack'[i], Limit(i)')
      <3>1. /\ Len(stack') = Len(stack) + 1 /\ stack'[Len(stack) + 1] = f
            /\ \A j \in 1..Len(stack) : stack'[j] = stack[j]
        BY <2>2, Pushed
      <3>2. CASE i = Len(stack) + 1
        <4>1. Limit(i)' = pos'
          BY <1>4, <2>2, <3>1, <3>2, LimitNext
        <4>2. QED
          BY <2>2, <3>1, <3>2, <4>1
      <3>3. CASE i # Len(stack) + 1
        <4>1. i \in 1..Len(stack) /\ stack'[i] = stack[i] /\ i <= Len(stack')
          BY <1>4, <3>1, <3>3
        <4>2. QED
          BY <1>7, <2>2, <4>1
      <3>4. QED
        BY <3>2, <3>3
    <2>3. CASE stack' = Front(stack)
      <3>1. Len(stack') = Len(stack) - 1 /\ \A j \in 1..Len(stack) - 1 : stack'[j] = stack[j]
        BY <1>4, <2>3, Popped
      <3>2. i \in 1..Len(stack) /\ i < Len(stack) /\ i <= Len(stack') /\ stack'[i] = stack[i]
        BY <1>4, <3>1
      <3>3. QED
        BY <1>7, <3>2
    <2>4. ASSUME NEW f, resume(f), Waits(heap', f, pos'), pc' # "return"
          PROVE  Waits(heap', stack'[i], Limit(i)')
      <3>1. /\ Len(stack') = Len(stack) /\ stack'[Len(stack)] = f
            /\ \A j \in 1..Len(stack) - 1 : stack'[j] = stack[j]
        BY <1>4, <2>4, Resumed
      <3>2. CASE i = Len(stack)
        <4>1. Limit(i)' = pos'
          BY <1>4, <2>4, <3>1, <3>2, LimitNext
        <4>2. QED
          BY <2>4, <3>1, <3>2, <4>1
      <3>3. CASE i # Len(stack)
        <4>1. /\ i \in 1..Len(stack) /\ i < Len(stack) /\ i <= Len(stack')
              /\ stack'[i] = stack[i]
          BY <1>4, <3>1, <3>3
        <4>2. QED
          BY <1>7, <4>1
      <3>4. QED
        BY <3>2, <3>3
    <2>5. QED
      BY <2>1, <2>2, <2>3, <2>4
  <1>9. Laid(heap', data', 1, Limit(0)')
    <2>1. 0 \in 0..Len(stack) /\ 0 < Len(stack) /\ 0 <= Len(stack')
      <3>1. Len(stack') \in Nat
        BY <1>1, LenProperties DEF IInv, TypeOK
      <3>2. QED
        BY <1>4, <3>1
    <2>2. Limit(0) \in Int /\ Limit(0)' \in Int /\ Limit(0) <= Limit(0)'
      BY <1>6, <2>1
    <2>3. data \in Seq(1..Len(heap)) /\ Laid(heap, data, 1, Limit(0)) /\ 1 \in Int
      BY DEF IInv, TypeOK, Ids, Tree
    <2>4. Laid(heap', data, 1, Limit(0)')
      BY <1>2, <1>3, <2>2, <2>3, LaidLater
    <2>5. QED
      BY <1>1, <2>4
  <1>10. QED
    BY <1>5, <1>8, <1>9, TreeNext

LEMMA TopTree ==
  ASSUME IInv, Tree, TopStrayClose \/ TopCall \/ TopTake \/ TopEnd
  PROVE  Tree'
  <1>1. Next /\ IInv' /\ heap' = heap
    <2>1. Next
      BY DEF Next
    <2>2. QED
      BY <2>1, StepPreserves DEF TopStrayClose, TopCall, TopTake, TopEnd
  <1>2. /\ pos \in Int /\ Len(tokens) \in Nat /\ Len(heap) \in Nat
        /\ \A d \in 1..Len(heap) : /\ heap[d] \in NodeType(Len(heap))
                                   /\ heap[d].first \in Int /\ heap[d].end \in Int
    BY Offsets
  <1>3. pos' \in Int /\ pos <= pos'
    <2>1. pos' \in {pos, pos + 1}
      BY DEF TopStrayClose, TopCall, TopTake, TopEnd
    <2>2. QED
      BY <1>2, <2>1
  <1>4. ASSUME NEW d \in 1..Len(heap')
        PROVE  Encloses(heap', Unclosed', pos', heap'[d])
    <2>1. d \in 1..Len(heap) /\ Encloses(heap, Unclosed, pos, heap[d])
      BY <1>1 DEF Tree, Ids
    <2>2. Unclosed \subseteq Unclosed'
      BY <1>1, UnclosedKept
    <2>3. heap[d] \in NodeType(Len(heap))
      BY <1>2, <2>1
    <2>4. Encloses(heap, Unclosed', pos', heap[d])
      BY <1>2, <1>3, <2>1, <2>2, <2>3, EnclosesLater
    <2>5. QED
      BY <1>1, <2>4
  <1>5. ASSUME NEW i \in 1..Len(stack')
        PROVE  Waits(heap', stack'[i], Limit(i)')
    <2> DEFINE f == Frame("top", pos)
    <2>1. f.at = pos /\ f.items = <<>> /\ f.tail = None /\ f.arg = None /\ f.after = None
      BY DEF Frame
    <2>2. stack' # <<>>
      OBVIOUS
    <2>3. TopCall /\ stack' = <<f>> /\ pos' = pos
      BY <2>2, TopMoves
    <2> HIDE DEF f
    <2>4. Len(stack') = 1 /\ i = 1 /\ stack'[i] = f
      BY <2>3
    <2>5. pc' = "datum"
      BY <2>3 DEF TopCall, call
    <2>6. Limit(i)' = pos'
      BY <2>4, <2>5, LimitNext
    <2>7. ItemsWithTail(f) = <<>>
      BY <2>1 DEF ItemsWithTail
    <2>8. f.at <= pos' /\ Laid(heap', ItemsWithTail(f), f.at, pos')
      BY <1>2, <2>1, <2>3, <2>7, LaidNone
    <2>9. QED
      BY <2>1, <2>4, <2>6, <2>8 DEF Waits, DotBetween
  <1>6. Laid(heap', data', 1, Limit(0)')
    <2>1. data \in Seq(1..Len(heap)) /\ Laid(heap, data, 1, Limit(0)) /\ 1 \in Int
      BY DEF IInv, TypeOK, Ids, Tree
    <2>2. CASE TopStrayClose \/ TopCall \/ TopEnd
      <3>1. stack = <<>> /\ Len(stack) = 0 /\ pc = "top" /\ data' = data
        BY <2>2 DEF TopStrayClose, TopCall, TopEnd, IInv, TypeOK, Nested
      <3>2. Limit(0) = pos
        BY <3>1 DEF Limit
      <3>3. Limit(0)' = pos'
        <4>1. CASE TopCall
          <5>1. TopCall /\ ~TopStrayClose /\ ~TopEnd /\ ~TopTake
            BY <3>1, <4>1 DEF TopCall, TopStrayClose, TopEnd, TopTake
          <5>2. stack' = <<Frame("top", pos)>> /\ pos' = pos
            BY <5>1, TopMoves
          <5>3. Len(stack') = 1 /\ stack'[1].at = pos
            BY <5>2 DEF Frame
          <5>4. QED
            BY <5>2, <5>3, LimitNext
        <4>2. CASE TopStrayClose \/ TopEnd
          <5>1. stack' = <<>> /\ Len(stack') = 0
            BY <3>1, <4>2 DEF TopStrayClose, TopEnd
          <5>2. pc' # "return"
            BY <3>1, <4>2 DEF TopStrayClose, TopEnd
          <5>3. QED
            BY <5>1, <5>2, LimitNext
        <4>3. QED
          BY <2>2, <4>1, <4>2
      <3>4. Laid(heap, data, 1, pos')
        BY <1>2, <1>3, <2>1, <3>2, LaidLater
      <3>5. QED
        BY <1>1, <3>1, <3>3, <3>4
    <2>3. CASE TopTake
      <3>1. /\ pc = "return" /\ pc' # "return"
            /\ IF ret # None THEN data' = Append(data, ret) ELSE data' = data
        BY <2>3 DEF TopTake
      <3>2. Len(stack) = 1 /\ stack # <<>> /\ stack' = <<>>
        BY <2>3, <3>1, TopMoves DEF TopStrayClose, TopCall, TopEnd
      <3>3. Len(stack') = 0 /\ Limit(0)' = pos'
        BY <3>1, <3>2, LimitNext
      <3>4. Limit(0) = top.at
        BY <3>2, TopTyped DEF Limit
      <3>5. /\ top.at <= Limit(Len(stack)) /\ Limit(Len(stack)) <= pos
            /\ Limit(Len(stack)) \in Int
            /\ ret # None => Limit(Len(stack)) = heap[ret].first
        BY <3>1, <3>2, TopWaits
      <3>6. top.at \in Int /\ 1 <= top.at
        <4>1. top.at \in Index
          BY <3>2, TopTyped
        <4>2. QED
          BY <1>2, <4>1 DEF Index
      <3>7. CASE ret = None
        <4>1. top.at <= pos'
          BY <1>2, <1>3, <3>5, <3>6
        <4>2. Laid(heap, data, 1, pos')
          BY <1>2, <1>3, <2>1, <3>4, <3>6, <4>1, LaidLater
        <4>3. QED
          BY <1>1, <3>1, <3>3, <3>7, <4>2
      <3>8. CASE ret # None
        <4>1. ret \in 1..Len(heap)
          BY <3>8, Offsets
        <4>2. heap[ret].first <= heap[ret].end /\ heap[ret].end < pos'
          <5>1. heap[ret].first <= heap[ret].end /\ heap[ret].end < pos
            BY <4>1 DEF Tree, Encloses, Ids
          <5>2. QED
            BY <1>2, <1>3, <4>1, <5>1
        <4>3. top.at <= heap[ret].first
          BY <3>5, <3>8
        <4>4. \A d \in 1..Len(heap) : heap[d].first \in Int /\ heap[d].end \in Int
          BY <1>2
        <4>5. Laid(heap, Append(data, ret), 1, pos')
          BY <1>3, <2>1, <3>4, <3>6, <4>1, <4>2, <4>3, <4>4, LaidAppend
        <4>6. QED
          BY <1>1, <3>1, <3>3, <3>8, <4>5
      <3>9. QED
        BY <3>7, <3>8
    <2>4. QED
      BY <2>2, <2>3
  <1>7. QED
    BY <1>4, <1>5, <1>6, TreeNext

-----------------------------------------------------------------------------
(* What a call holds after a step.                                         *)

\* A call inside parse_top_level's began on a token already consumed.
LEMMA TopBefore ==
  ASSUME IInv, CallsInside, stack # <<>>, top.fn # "top"
  PROVE  top.at \in Int /\ top.at < pos
  <1>1. /\ Len(stack) \in Nat /\ Len(stack) >= 2 /\ top = stack[Len(stack)]
        /\ \A i \in 1..Len(stack) : stack[i].at \in Int
    BY InnerCall
  <1>2. Len(stack) \in 2..Len(stack) /\ Len(stack) \in 1..Len(stack)
    BY <1>1
  <1>3. QED
    BY <1>1, <1>2 DEF CallsInside

LEMMA FreshWaits ==
  ASSUME NEW h, NEW fn, NEW at \in Int, NEW to \in Int, at <= to
  PROVE  /\ Waits(h, Frame(fn, at), to)
         /\ Waits(h, [Frame(fn, at) EXCEPT !.nesting = 1], to)
  <1>1. ASSUME NEW f, f.at = at, f.items = <<>>, f.tail = None, f.arg = None, f.after = None
        PROVE  Waits(h, f, to)
    <2>1. ItemsWithTail(f) = <<>>
      BY <1>1 DEF ItemsWithTail
    <2>2. Laid(h, ItemsWithTail(f), f.at, to)
      BY <2>1, LaidNone
    <2>3. QED
      BY <1>1, <2>2 DEF Waits, DotBetween
  <1>2. \A f \in {Frame(fn, at), [Frame(fn, at) EXCEPT !.nesting = 1]} :
          /\ f.at = at /\ f.items = <<>> /\ f.tail = None /\ f.arg = None
          /\ f.after = None
    BY DEF Frame
  <1>3. QED
    BY <1>1, <1>2

\* A call that goes on holding what it held.
LEMMA SameWaits ==
  ASSUME NEW h, NEW f, NEW g, NEW to, Waits(h, f, to),
         g.at = f.at, g.items = f.items, g.tail = f.tail, g.arg = f.arg,
         g.after = f.after \/ g.after = None, g.dot = f.dot
  PROVE  Waits(h, g, to)
  BY DEF Waits, DotBetween, ItemsWithTail

\* The innermost call in front of the next token.
LEMMA TopLater ==
  ASSUME IInv, Tree, stack # <<>>, NEW to \in Int, pos <= to
  PROVE  Waits(heap, top, to)
  <1>1. /\ Waits(heap, top, Limit(Len(stack))) /\ Limit(Len(stack)) \in Int
        /\ Limit(Len(stack)) <= pos
    BY TopWaits
  <1>2. /\ pos \in Int /\ Len(tokens) \in Nat /\ Len(heap) \in Nat
        /\ \A d \in 1..Len(heap) : heap[d].first \in Int /\ heap[d].end \in Int
    BY Offsets
  <1>3. top \in FrameType(Len(heap)) /\ Limit(Len(stack)) <= to
    BY <1>1, <1>2, TopTyped
  <1>4. QED
    BY <1>1, <1>2, <1>3, WaitsLater

LEMMA ReturnedLies ==
  ASSUME IInv, Tree, pc = "return", ret # None
  PROVE  /\ ret \in 1..Len(heap) /\ top.at <= heap[ret].first
         /\ heap[ret].first <= heap[ret].end /\ heap[ret].end < pos
         /\ Waits(heap, top, heap[ret].first)
  <1>1. stack # <<>> /\ ret \in 1..Len(heap)
    BY Bounds, Offsets
  <1>2. QED
    BY <1>1, TopWaits DEF Tree, Encloses, Ids

LEMMA ArgWaits ==
  ASSUME IInv, Shaped, Tree, ArgTake
  PROVE  \E f : resume(f) /\ Waits(heap', f, pos') /\ pc' # "return"
  <1> DEFINE f == [top EXCEPT !.fn = "prefix", !.arg = ret]
  <1>1. /\ pc = "return" /\ top.fn = "arg" /\ resume(f) /\ heap' = heap /\ pos' = pos
        /\ pc' = "datum" /\ stack # <<>>
    BY Bounds DEF ArgTake
  <1>2. /\ f.arg = ret /\ f.at = top.at /\ f.items = top.items /\ f.tail = top.tail
        /\ f.after = top.after
    BY <1>1, TopTyped DEF FrameType
  <1> HIDE DEF f
  <1>3. f.items = <<>> /\ f.tail = None /\ f.after = None
    BY <1>1, <1>2, TopShaped DEF FrameShape
  <1>4. f.at <= pos
    <2>1. top.at \in Int
      BY <1>1, InnerCall
    <2>2. /\ top.at <= Limit(Len(stack)) /\ Limit(Len(stack)) <= pos
          /\ Limit(Len(stack)) \in Int /\ pos \in Int
      BY <1>1, TopWaits, Offsets
    <2>3. QED
      BY <1>2, <2>1, <2>2
  <1>5. f.arg # None => Laid(heap, <<f.arg>>, f.at, pos)
    BY <1>1, <1>2, ReturnedLies, LaidOne
  <1>6. Laid(heap, ItemsWithTail(f), f.at, pos)
    BY <1>3, LaidNone DEF ItemsWithTail
  <1>7. Waits(heap, f, pos)
    BY <1>3, <1>4, <1>5, <1>6 DEF Waits, DotBetween
  <1>8. QED
    BY <1>1, <1>7

LEMMA DotWaits ==
  ASSUME IInv, Shaped, Tree, ListDot
  PROVE  \E f : resume(f) /\ Waits(heap', f, pos') /\ pc' # "return"
  <1> DEFINE f == [top EXCEPT !.items = ItemsWithTail(top), !.tail = None, !.after = pos]
  <1>1. /\ pc = "list" /\ top.items # <<>> /\ resume(f) /\ heap' = heap /\ pos' = pos + 1
        /\ pc' = "datum" /\ stack # <<>>
    BY Bounds DEF ListDot, IsDot
  <1>2. /\ f.items = ItemsWithTail(top) /\ f.at = top.at /\ f.tail = None
        /\ f.after = pos /\ f.arg = top.arg
    BY <1>1, TopTyped DEF FrameType
  <1> HIDE DEF f
  <1>3. top.fn = "list" /\ f.arg = None
    BY <1>1, <1>2, TopShaped, NotOutermost DEF FrameShape
  <1>4. pos \in Int /\ pos <= pos + 1
    BY Offsets
  <1>5. Waits(heap, top, pos) /\ Waits(heap, top, pos + 1)
    BY <1>1, <1>4, TopLater
  <1>6. ItemsWithTail(f) = ItemsWithTail(top)
    BY <1>2 DEF ItemsWithTail
  <1>7. f.items # <<>> /\ heap[Last(f.items)].end < pos
    <2>1. /\ ItemsWithTail(top) \in Seq(1..Len(heap))
          /\ Len(ItemsWithTail(top)) >= 1
      <3>1. /\ top.items \in Seq(1..Len(heap))
            /\ top.tail # None => top.tail \in 1..Len(heap)
        <4>1. Len(heap) \in Nat /\ top.tail \in 0..Len(heap)
          BY <1>1, TopTyped, Bounds
        <4>2. QED
          BY <1>1, <4>1, TopTyped DEF None
      <3>2. /\ ItemsWithTail(top) \in Seq(1..Len(heap))
            /\ Len(top.items) \in Nat /\ Len(top.items) >= 1
            /\ Len(ItemsWithTail(top)) \in {Len(top.items), Len(top.items) + 1}
        BY <1>1, <3>1, WithTail
      <3>3. QED
        BY <3>2
    <2>2. Len(f.items) \in Nat /\ Len(f.items) >= 1 /\ f.items # <<>>
      BY <1>2, <2>1, LenProperties
    <2>3. Last(f.items) = f.items[Len(f.items)] /\ Len(f.items) \in 1..Len(f.items)
      BY <2>2 DEF Last
    <2>4. Laid(heap, f.items, f.at, pos)
      BY <1>2, <1>5 DEF Waits
    <2>5. QED
      BY <2>2, <2>3, <2>4 DEF Laid
  <1>8. f.at <= pos + 1 /\ Laid(heap, ItemsWithTail(f), f.at, pos + 1)
    BY <1>2, <1>5, <1>6 DEF Waits
  <1>9. Waits(heap, f, pos + 1)
    BY <1>2, <1>3, <1>4, <1>7, <1>8 DEF Waits, DotBetween
  <1>10. QED
    BY <1>1, <1>9

\* A list to which a datum is returned goes on with the datum at its end.
LEMMA ItemWaits ==
  ASSUME IInv, Shaped, Tree, pc = "return", top.fn = "list", ret # None,
         NEW f, f.at = top.at, f.after = None, f.arg = top.arg,
         NEW s \in Seq(1..Len(heap)), Laid(heap, s, top.at, heap[ret].first),
         ItemsWithTail(f) = Append(s, ret),
         DotBetween(heap, f)
  PROVE  Waits(heap, f, pos)
  <1>1. stack # <<>>
    BY Bounds
  <1>2. /\ pos \in Int /\ \A d \in 1..Len(heap) : heap[d].first \in Int /\ heap[d].end \in Int
    BY Offsets
  <1>3. top.at \in Int
    BY <1>1, InnerCall
  <1>4. /\ ret \in 1..Len(heap) /\ top.at <= heap[ret].first
        /\ heap[ret].first <= heap[ret].end /\ heap[ret].end < pos
    BY ReturnedLies
  <1>5. heap[ret].first \in Int /\ heap[ret].end \in Int
    BY <1>2, <1>4
  <1>6. Laid(heap, Append(s, ret), top.at, pos)
    <2>1. pos \in Int /\ heap[ret].first <= heap[ret].first
      BY <1>2, <1>5
    <2>2. \A d \in 1..Len(heap) : heap[d].first \in Int /\ heap[d].end \in Int
      BY <1>2
    <2>3. QED
      BY <1>3, <1>4, <1>5, <2>1, <2>2, LaidAppend
  <1>7. f.at <= pos
    BY <1>2, <1>3, <1>4, <1>5
  <1>8. f.arg = None
    BY <1>1, TopShaped DEF FrameShape
  <1>9. QED
    BY <1>6, <1>7, <1>8 DEF Waits

LEMMA TailWaits ==
  ASSUME IInv, Shaped, Tree, ListTakeTail
  PROVE  \E f : resume(f) /\ Waits(heap', f, pos') /\ pc' # "return"
  <1> DEFINE f == [top EXCEPT !.tail = ret, !.dot = top.after, !.after = None]
             g == [top EXCEPT !.after = None]
  <1>1. /\ pc = "return" /\ top.fn = "list" /\ top.after # None /\ heap' = heap
        /\ pos' = pos /\ pc' = "list" /\ stack # <<>>
        /\ IF ret # None THEN resume(f) ELSE resume(g)
    BY Bounds DEF ListTakeTail
  <1>2. /\ f.items = top.items /\ f.at = top.at /\ f.tail = ret /\ f.dot = top.after
        /\ f.after = None /\ f.arg = top.arg
        /\ g.items = top.items /\ g.at = top.at /\ g.tail = top.tail /\ g.dot = top.dot
        /\ g.after = None /\ g.arg = top.arg
    BY <1>1, TopTyped DEF FrameType
  <1> HIDE DEF f, g
  <1>3. CASE ret # None
    <2>1. top.tail = None
      BY <1>1, TopShaped DEF FrameShape
    <2>2. Waits(heap, top, heap[ret].first)
      BY <1>1, <1>3, ReturnedLies
    <2>3. top.items \in Seq(1..Len(heap)) /\ Laid(heap, top.items, top.at, heap[ret].first)
      BY <1>1, <2>1, <2>2, TopTyped DEF Waits, ItemsWithTail
    <2>4. ItemsWithTail(f) = Append(top.items, ret)
      BY <1>2, <1>3 DEF ItemsWithTail
    <2>5. DotBetween(heap, f)
      BY <1>1, <1>2, <2>2 DEF Waits, DotBetween
    <2>6. Waits(heap, f, pos)
      BY <1>1, <1>2, <1>3, <2>3, <2>4, <2>5, ItemWaits
    <2>7. QED
      BY <1>1, <1>3, <2>6
  <1>4. CASE ret = None
    <2>1. Waits(heap, top, pos)
      BY <1>1, Offsets, TopLater
    <2>2. Waits(heap, g, pos)
      BY <1>2, <2>1, SameWaits
    <2>3. QED
      BY <1>1, <1>4, <2>2
  <1>5. QED
    BY <1>3, <1>4

LEMMA TakeWaits ==
  ASSUME IInv, Shaped, Tree, ListTakeItem
  PROVE  \E f : resume(f) /\ Waits(heap', f, pos') /\ pc' # "return"
  <1> DEFINE f == [top EXCEPT !.items = Append(ItemsWithTail(top), ret), !.tail = None,
                              !.dot = IF top.tail = None THEN @ ELSE None]
  <1>1. /\ pc = "return" /\ top.fn = "list" /\ top.after = None /\ ret # None
        /\ resume(f) /\ heap' = heap /\ pos' = pos /\ pc' = "list" /\ stack # <<>>
    BY Bounds DEF ListTakeItem
  <1>2. /\ f.items = Append(ItemsWithTail(top), ret) /\ f.at = top.at /\ f.tail = None
        /\ f.after = None /\ f.arg = top.arg
    BY <1>1, TopTyped DEF FrameType
  <1> HIDE DEF f
  <1>3. ItemsWithTail(f) = Append(ItemsWithTail(top), ret) /\ DotBetween(heap, f)
    BY <1>2 DEF ItemsWithTail, DotBetween
  <1>4. /\ ItemsWithTail(top) \in Seq(1..Len(heap))
        /\ Laid(heap, ItemsWithTail(top), top.at, heap[ret].first)
    BY <1>1, ReturnedLies, ItemsWithTailTyped DEF Waits
  <1>5. Waits(heap, f, pos)
    BY <1>1, <1>2, <1>3, <1>4, ItemWaits
  <1>6. QED
    BY <1>1, <1>5

LEMMA SkipWaits ==
  ASSUME IInv, Tree, SkipToken \/ (SkipClose /\ top.nesting > 1)
  PROVE  \E f : resume(f) /\ Waits(heap', f, pos') /\ pc' # "return"
  <1> DEFINE f == [top EXCEPT !.end = pos,
                     !.nesting = IF Deeper(peek) THEN @ + 1 ELSE @]
             g == [top EXCEPT !.end = pos, !.nesting = @ - 1]
  <1>1. /\ pc = "skip" /\ heap' = heap /\ pos' = pos + 1 /\ pc' = "skip" /\ stack # <<>>
        /\ resume(f) \/ resume(g)
    BY Bounds DEF SkipToken, SkipClose
  <1>2. \A e \in {f, g} : /\ e.items = top.items /\ e.at = top.at /\ e.tail = top.tail
                          /\ e.dot = top.dot /\ e.after = top.after /\ e.arg = top.arg
    BY <1>1, TopTyped DEF FrameType
  <1> HIDE DEF f, g
  <1>3. Waits(heap, top, pos + 1)
    <2>1. pos + 1 \in Int /\ pos <= pos + 1
      BY Offsets
    <2>2. QED
      BY <1>1, <2>1, TopLater
  <1>4. \A e \in {f, g} : Waits(heap, e, pos + 1)
    BY <1>2, <1>3, SameWaits
  <1>5. QED
    BY <1>1, <1>4

-----------------------------------------------------------------------------
(* What a step builds.                                                     *)

LEMMA OneEncloses ==
  ASSUME IInv, ReadDatum, NEW n \in NodeType(Len(heap)), heap' = Append(heap, n),
         Encloses(heap, Unclosed', pos', n)
  PROVE  \A d \in 1..Len(heap') : d \in Ids \/ Encloses(heap', Unclosed', pos', heap'[d])
  <1>1. Next
    BY DEF Next
  <1>2. /\ pos \in Int /\ Len(tokens) \in Nat /\ Len(heap) \in Nat
        /\ \A d \in 1..Len(heap) : heap[d].first \in Int /\ heap[d].end \in Int
    BY Offsets
  <1>3. pos' \in Int /\ pos' <= pos'
    <2>1. pos' \in {pos, pos + 1}
      BY CallsMove
    <2>2. QED
      BY <1>2, <2>1
  <1>4. \A d \in 1..Len(heap) : /\ heap'[d] = heap[d]
                                /\ heap[d].first \in Int /\ heap[d].end \in Int
    BY <1>1, <1>2, HeapKept DEF Ids
  <1>5. Encloses(heap', Unclosed', pos', n)
    <2> DEFINE u == Unclosed'
    <2> HIDE DEF u
    <2>1. Encloses(heap, u, pos', n)
      BY DEF u
    <2>2. Encloses(heap', u, pos', n)
      BY <1>2, <1>3, <1>4, <2>1, EnclosesLater
    <2>3. QED
      BY <2>2 DEF u
  <1>6. Len(heap') = Len(heap) + 1 /\ heap'[Len(heap) + 1] = n
    BY Added
  <1>7. \A d \in 1..Len(heap') : d \in Ids \/ d = Len(heap) + 1
    BY <1>2, <1>6 DEF Ids
  <1>8. QED
    BY <1>5, <1>6, <1>7

\* A list returned as it is, folded, or wrapped in a hash literal.
LEMMA CompleteEncloses ==
  ASSUME IInv, ReadDatum, NEW list \in NodeType(Len(heap)), Complete(list),
         list.arg = None, Encloses(heap, Unclosed', pos', list)
  PROVE  \A d \in 1..Len(heap') : d \in Ids \/ Encloses(heap', Unclosed', pos', heap'[d])
  <1>1. /\ list.first \in Int /\ list.end \in Int /\ list.items \in Seq(1..Len(heap))
        /\ Len(list.items) \in Nat /\ Len(heap) \in Nat /\ Len(tokens) \in Nat
    <2>1. Len(heap) \in Nat /\ Len(tokens) \in Nat
      BY Bounds
    <2>2. list.arg # None => Len(list.items) = 1 /\ list.tail = None
      OBVIOUS
    <2>3. QED
      BY <2>1, <2>2, KidsTyped
  <1>2. /\ list.first <= list.end /\ list.end < pos'
        /\ Laid(heap, ItemsWithTail(list), list.first, pos')
        /\ \A i \in 1..Len(list.items) : heap[list.items[i]].end <= list.end
    BY DEF Encloses, Kids
  <1>3. CASE tokens[list.first] \in HashOpens
    <2> DEFINE h == Node("hash", list.first, list.end, <<Len(heap) + 1>>)
               m == Len(heap) + 2
    <2>1. heap' = heap \o <<list, h>>
      BY <1>3 DEF Complete
    <2>2. /\ h.first = list.first /\ h.end = list.end /\ h.items = <<Len(heap) + 1>>
          /\ h.tail = None /\ h.arg = None /\ h.kind = "hash"
      BY DEF Node
    <2> HIDE DEF h
    <2>3. Len(heap') = m /\ heap'[Len(heap) + 1] = list /\ heap'[m] = h
      BY <2>1, TwoAdded
    <2>4. Encloses(heap', Unclosed', pos', list)
      <3> DEFINE u == Unclosed'
      <3> HIDE DEF u
      <3>1. \A d \in 1..Len(heap) : /\ heap'[d] = heap[d]
                                    /\ heap[d].first \in Int /\ heap[d].end \in Int
        BY HeapKept, Offsets DEF Ids, Next
      <3>2. pos' \in Int /\ pos' <= pos'
        <4>1. pos' \in {pos, pos + 1} /\ pos \in Int
          BY CallsMove, Offsets
        <4>2. QED
          BY <4>1
      <3>3. Encloses(heap, u, pos', list)
        BY DEF u
      <3>4. Encloses(heap', u, pos', list)
        BY <1>1, <3>1, <3>2, <3>3, EnclosesLater
      <3>5. QED
        BY <3>4 DEF u
    <2>5. Encloses(heap', Unclosed', pos', h)
      <3>1. Kids(h) = <<Len(heap) + 1>> /\ Len(h.items) = 1
        BY <2>2 DEF Kids, ItemsWithTail
      <3>2. Laid(heap', <<Len(heap) + 1>>, h.first, pos')
        <4>1. h.first <= heap'[Len(heap) + 1].first /\ heap'[Len(heap) + 1].end < pos'
          BY <1>1, <1>2, <2>2, <2>3
        <4>2. QED
          BY <4>1, LaidOne
      <3>3. \A i \in 1..Len(h.items) : heap'[h.items[i]].end <= h.end
        BY <1>1, <2>2, <2>3, <3>1
      <3>4. h.first <= h.end /\ h.end < pos'
        BY <1>2, <2>2
      <3>5. QED
        BY <2>2, <3>1, <3>2, <3>3, <3>4 DEF Encloses
    <2>6. \A d \in 1..Len(heap') : d \in Ids \/ d = Len(heap) + 1 \/ d = m
      BY <1>1, <2>3 DEF Ids
    <2>7. QED
      BY <2>3, <2>4, <2>5, <2>6
  <1>4. CASE tokens[list.first] \notin HashOpens
    <2> DEFINE n == FoldLonghand(list)
    <2>1. heap' = Append(heap, n) /\ n \in NodeType(Len(heap))
      BY <1>4, FoldTyped DEF Complete
    <2>2. Encloses(heap, Unclosed', pos', n)
      <3>1. CASE folds(list)
        <4> DEFINE k == list.items[2]
                   p == Node("prefix", list.first, list.end, <<k>>)
        <4>1. n = p /\ Len(list.items) = 2 /\ list.tail = None
          BY <3>1 DEF FoldLonghand, folds, pair
        <4>2. /\ p.first = list.first /\ p.end = list.end /\ p.items = <<k>>
              /\ p.tail = None /\ p.arg = None /\ p.kind = "prefix"
          BY DEF Node
        <4> HIDE DEF n, p
        <4>3. ItemsWithTail(list) = list.items
          BY <4>1 DEF ItemsWithTail
        <4>4. list.first <= heap[k].first /\ heap[k].end < pos' /\ heap[k].end <= list.end
          <5>1. 2 \in 1..Len(list.items)
            BY <4>1
          <5>2. QED
            BY <1>2, <4>3, <5>1 DEF Laid
        <4> HIDE DEF k
        <4>5. Kids(p) = <<k>> /\ Len(p.items) = 1
          BY <4>2 DEF Kids, ItemsWithTail
        <4>6. Laid(heap, Kids(p), p.first, pos')
          BY <4>2, <4>4, <4>5, LaidOne
        <4>7. \A i \in 1..Len(p.items) : heap[p.items[i]].end <= p.end
          BY <4>2, <4>4, <4>5
        <4>8. QED
          BY <1>2, <4>1, <4>2, <4>6, <4>7 DEF Encloses
      <3>2. CASE ~folds(list)
        <4>1. n = list \/ (list.tail = None /\ n = [list EXCEPT !.dot = None])
          BY <3>2 DEF FoldLonghand, pair
        <4>2. /\ n.items = list.items /\ n.tail = list.tail /\ n.arg = list.arg
              /\ n.first = list.first /\ n.end = list.end /\ n.kind = list.kind
              /\ n.tail # None => n.dot = list.dot
          BY <4>1 DEF NodeType
        <4> HIDE DEF n
        <4>3. QED
          BY <4>2 DEF Encloses, Kids, ItemsWithTail, DotBetween
      <3>3. QED
        BY <3>1, <3>2
    <2> HIDE DEF n
    <2>3. QED
      BY <2>1, <2>2, OneEncloses
  <1>5. QED
    BY <1>3, <1>4

\* What finish_list returns.
LEMMA ListEncloses ==
  ASSUME IInv, Shaped, Tree, stack # <<>>, top.fn = "list",
         ~(pc = "return" /\ ret # None),
         NEW end \in Int, NEW u, NEW to \in Int, pos <= to, top.at <= end, end < to,
         \A i \in 1..Len(top.items) : heap[top.items[i]].end <= end,
         top.tail # None => heap[top.tail].end <= end \/ top.at \in u
  PROVE  Encloses(heap, u, to, List(top, end))
  <1> DEFINE list == List(top, end)
  <1>1. /\ list.first = top.at /\ list.end = end /\ list.items = top.items
        /\ list.tail = top.tail /\ list.dot = top.dot /\ list.arg = None
        /\ list.kind = "list"
    BY DEF List, Node
  <1>2. Waits(heap, top, to)
    BY TopLater
  <1> HIDE DEF list
  <1>3. Laid(heap, Kids(list), list.first, to) /\ DotBetween(heap, list)
    BY <1>1, <1>2 DEF Waits, Kids, ItemsWithTail, DotBetween
  <1>4. Encloses(heap, u, to, list)
    BY <1>1, <1>3 DEF Encloses
  <1>5. QED
    BY <1>4 DEF list

\* Where the items of a list end before it is closed.
LEMMA ItemsEnd ==
  ASSUME IInv, CallsInside, Tree, stack # <<>>, top.fn = "list",
         ~(pc = "return" /\ ret # None)
  PROVE  /\ top.at \in Int /\ UnclosedEnd(top) \in Int
         /\ top.at <= UnclosedEnd(top) /\ UnclosedEnd(top) < pos
         /\ \A i \in 1..Len(top.items) : /\ heap[top.items[i]].end \in Int
                                         /\ heap[top.items[i]].end <= UnclosedEnd(top)
         /\ top.tail # None => heap[top.tail].end \in Int /\ heap[top.tail].end < pos
  <1>1. /\ top.at \in Int /\ top.at < pos /\ pos \in Int /\ pos <= pos
        /\ \A d \in 1..Len(heap) : heap[d].first \in Int /\ heap[d].end \in Int
    BY TopBefore, Offsets
  <1>2. Laid(heap, ItemsWithTail(top), top.at, pos)
    BY <1>1, TopLater DEF Waits
  <1>3. /\ top.items \in Seq(1..Len(heap)) /\ Len(heap) \in Nat
        /\ top.tail # None => top.tail \in 1..Len(heap)
    <2>1. Len(heap) \in Nat /\ top.tail \in 0..Len(heap) /\ top.items \in Seq(1..Len(heap))
      BY TopTyped, Bounds
    <2>2. QED
      BY <2>1 DEF None
  <1> DEFINE s == ItemsWithTail(top)
             k == Len(top.items)
  <1>4. /\ k \in Nat
        /\ top.items # <<>> => Last(top.items) = top.items[k]
        /\ \A i \in 1..k : /\ top.items[i] \in 1..Len(heap)
                           /\ i \in 1..Len(s) /\ s[i] = top.items[i]
        /\ top.tail # None => Len(s) = k + 1 /\ s[k + 1] = top.tail
    BY <1>3, WithTail
  <1> HIDE DEF s
  <1>5. \A i \in 1..k : /\ top.at <= heap[top.items[i]].first
                        /\ heap[top.items[i]].end < pos
    BY <1>2, <1>4 DEF Laid, s
  <1>6. \A i, j \in 1..k : i < j => heap[top.items[i]].end < heap[top.items[j]].first
    BY <1>2, <1>4 DEF Laid, s
  <1>7. ASSUME top.tail # None PROVE heap[top.tail].end \in Int /\ heap[top.tail].end < pos
    <2>1. k + 1 \in 1..Len(s) /\ s[k + 1] = top.tail
      BY <1>4, <1>7
    <2>2. heap[s[k + 1]].end < pos
      BY <1>2, <2>1 DEF Laid, s
    <2>3. QED
      BY <1>1, <1>3, <1>7, <2>1, <2>2
  <1>8. CASE top.items = <<>>
    <2>1. UnclosedEnd(top) = top.at /\ k = 0
      BY <1>8 DEF UnclosedEnd
    <2>2. QED
      BY <1>1, <1>7, <2>1
  <1>9. CASE top.items # <<>>
    <2>1. k >= 1
      <3>1. k # 0
        BY <1>3, <1>9, EmptySeq
      <3>2. QED
        BY <1>4, <3>1
    <2>2. k \in 1..k /\ UnclosedEnd(top) = heap[top.items[k]].end
      BY <1>4, <1>9, <2>1 DEF UnclosedEnd
    <2>3. top.items[k] \in 1..Len(heap)
      BY <1>4, <2>2
    <2>4. heap[top.items[k]].first <= heap[top.items[k]].end
      BY <2>3 DEF Tree, Encloses, Ids
    <2>5. /\ heap[top.items[k]].first \in Int /\ heap[top.items[k]].end \in Int
          /\ top.at <= heap[top.items[k]].first /\ heap[top.items[k]].end < pos
      BY <1>1, <1>5, <2>2, <2>3
    <2>6. ASSUME NEW i \in 1..k
          PROVE  /\ heap[top.items[i]].end \in Int
                 /\ heap[top.items[i]].end <= heap[top.items[k]].end
      <3>1. heap[top.items[i]].end \in Int
        BY <1>1, <1>4, <2>6
      <3>2. CASE i = k
        BY <2>5, <3>2
      <3>3. CASE i # k
        <4>1. i < k
          BY <1>4, <2>6, <3>3
        <4>2. heap[top.items[i]].end < heap[top.items[k]].first
          BY <1>6, <2>2, <2>6, <4>1
        <4>3. QED
          BY <2>4, <2>5, <3>1, <4>2
      <3>4. QED
        BY <3>2, <3>3
    <2>7. top.at <= heap[top.items[k]].end
      BY <1>1, <2>4, <2>5
    <2>8. QED
      BY <1>1, <1>7, <2>2, <2>5, <2>6, <2>7
  <1>10. QED
    BY <1>8, <1>9

\* A prefix, label or tag with its operands.
LEMMA PrefixEncloses ==
  ASSUME IInv, Shaped, Tree, pc = "return", stack # <<>>, top.fn \in {"prefix", "label", "tag"},
         ret # None, NEW kind \in NodeKinds \ {"list"}, NEW n,
         n = [Node(kind, top.at, heap[ret].end, <<ret>>) EXCEPT !.arg = top.arg],
         NEW u
  PROVE  n \in NodeType(Len(heap)) /\ Encloses(heap, u, pos, n)
  <1>1. /\ n.first = top.at /\ n.end = heap[ret].end /\ n.items = <<ret>> /\ n.tail = None
        /\ n.arg = top.arg /\ n.kind = kind
    BY DEF Node
  <1>2. /\ ret \in 1..Len(heap) /\ top.at <= heap[ret].first
        /\ heap[ret].first <= heap[ret].end /\ heap[ret].end < pos
        /\ Waits(heap, top, heap[ret].first)
    BY ReturnedLies
  <1>3. /\ top.at \in Int /\ pos \in Int /\ heap[ret].first \in Int /\ heap[ret].end \in Int
        /\ \A d \in 1..Len(heap) : heap[d].first \in Int /\ heap[d].end \in Int
    BY <1>2, Offsets, InnerCall
  <1>4. n \in NodeType(Len(heap))
    <2> DEFINE m == Node(kind, top.at, heap[ret].end, <<ret>>)
    <2>1. /\ top.at \in Index /\ top.arg \in 0..Len(heap) /\ Len(heap) \in Nat
          /\ heap[ret].end \in 0..Len(tokens) /\ <<ret>> \in Seq(1..Len(heap))
      <3>1. top.at \in Index /\ top.arg \in 0..Len(heap) /\ Len(heap) \in Nat
        BY TopTyped, Bounds
      <3>2. heap[ret].end \in 0..Len(tokens)
        BY <1>2, EndTyped DEF Ids
      <3>3. <<ret>> \in Seq(1..Len(heap))
        BY <1>2
      <3>4. QED
        BY <3>1, <3>2, <3>3
    <2>2. m \in NodeType(Len(heap))
      BY <2>1, NewNode
    <2> HIDE DEF m
    <2>3. n = [m EXCEPT !.arg = top.arg]
      BY DEF m
    <2>4. QED
      BY <2>1, <2>2, <2>3 DEF NodeType
  <1>5. Len(n.items) = 1 /\ \A i \in 1..Len(n.items) : n.items[i] = ret
    BY <1>1
  <1>6. Laid(heap, Kids(n), n.first, pos) /\ (n.arg # None => heap[n.arg].end <= n.end)
    <2>1. CASE n.arg = None
      <3>1. Kids(n) = <<ret>>
        BY <1>1, <2>1 DEF Kids, ItemsWithTail
      <3>2. QED
        BY <1>1, <1>2, <2>1, <3>1, LaidOne
    <2>2. CASE n.arg # None
      <3> DEFINE a == top.arg
                 s == <<a, ret>>
      <3>1. Kids(n) = s
        BY <1>1, <2>2 DEF Kids
      <3>2. top.at <= heap[a].first /\ heap[a].end < heap[ret].first
        <4>1. Laid(heap, <<a>>, top.at, heap[ret].first)
          BY <1>1, <1>2, <2>2 DEF Waits
        <4>2. Len(<<a>>) = 1 /\ <<a>>[1] = a
          OBVIOUS
        <4>3. QED
          BY <4>1, <4>2 DEF Laid
      <3>3. a \in 1..Len(heap)
        <4>1. a \in 0..Len(heap) /\ Len(heap) \in Nat
          BY TopTyped, Bounds
        <4>2. QED
          BY <1>1, <2>2, <4>1 DEF None
      <3>4. heap[a].end \in Int /\ heap[a].end < pos /\ heap[a].end <= heap[ret].end
        <4>1. heap[a].end \in Int
          BY <1>3, <3>3
        <4>2. QED
          BY <1>2, <1>3, <3>2, <4>1
      <3>5. Len(s) = 2 /\ s[1] = a /\ s[2] = ret
        OBVIOUS
      <3> HIDE DEF s, a
      <3>6. Laid(heap, s, top.at, pos)
        <4>1. \A i \in 1..Len(s) : i = 1 \/ i = 2
          BY <3>5
        <4>2. \A i \in 1..Len(s) : top.at <= heap[s[i]].first /\ heap[s[i]].end < pos
          BY <1>2, <3>2, <3>4, <3>5, <4>1
        <4>3. \A i, j \in 1..Len(s) : i < j => i = 1 /\ j = 2
          BY <4>1
        <4>4. \A i, j \in 1..Len(s) : i < j => heap[s[i]].end < heap[s[j]].first
          BY <3>2, <3>5, <4>3
        <4>5. QED
          BY <4>2, <4>4 DEF Laid
      <3>7. QED
        BY <1>1, <3>1, <3>4, <3>6 DEF a
    <2>3. QED
      BY <2>1, <2>2
  <1>7. n.first <= n.end /\ n.end < pos
    BY <1>1, <1>2, <1>3
  <1>8. \A i \in 1..Len(n.items) : heap[n.items[i]].end <= n.end
    BY <1>1, <1>3, <1>5
  <1>9. n.kind # "list"
    BY <1>1
  <1>10. QED
    BY <1>1, <1>4, <1>5, <1>6, <1>7, <1>8, <1>9 DEF Encloses

\* A datum without children.
LEMMA BareEncloses ==
  ASSUME NEW h, NEW u, NEW kind, NEW first, NEW end, NEW to, first <= end, end < to
  PROVE  Encloses(h, u, to, Node(kind, first, end, <<>>))
  <1> DEFINE n == Node(kind, first, end, <<>>)
  <1>1. /\ n.first = first /\ n.end = end /\ n.items = <<>> /\ n.tail = None
        /\ n.arg = None
    BY DEF Node
  <1> HIDE DEF n
  <1>2. Kids(n) = <<>>
    BY <1>1 DEF Kids, ItemsWithTail
  <1>3. Laid(h, Kids(n), n.first, to)
    BY <1>2, LaidNone
  <1>4. Len(n.items) = 0
    BY <1>1
  <1>5. Encloses(h, u, to, n)
    BY <1>1, <1>3, <1>4 DEF Encloses, DotBetween
  <1>6. QED
    BY <1>5 DEF n

LEMMA SkipEndStep ==
  ASSUME IInv, CallsInside, SkipEnd, Next
  PROVE  SkipEnd'
  <1> SUFFICES ASSUME pc' = "skip" PROVE SkipEnd'
    BY DEF SkipEnd
  <1> USE DEF SkipEnd
  <1>1. CASE TopStrayClose \/ TopCall \/ TopTake \/ TopEnd
    BY <1>1 DEF TopStrayClose, TopCall, TopTake, TopEnd, call
  <1>2. CASE DatumOpen
    <2> DEFINE f == [Frame("skip", pos) EXCEPT !.nesting = 1]
    <2>1. stack' = Append(stack, f)
      BY <1>2 DEF DatumOpen
    <2>2. f.end = 0
      BY DEF Frame
    <2> HIDE DEF f
    <2>3. Len(stack') = Len(stack) + 1 /\ stack'[Len(stack) + 1] = f
      BY <2>1, Pushed
    <2>4. Last(stack') = f
      BY <2>3 DEF Last
    <2>5. QED
      BY <2>2, <2>4 DEF top
  <1>3. CASE SkipToken \/ (SkipClose /\ top.nesting > 1)
    <2> DEFINE f == [top EXCEPT !.end = pos,
                       !.nesting = IF Deeper(peek) THEN @ + 1 ELSE @]
               g == [top EXCEPT !.end = pos, !.nesting = @ - 1]
    <2>1. /\ pc = "skip" /\ pos' = pos + 1 /\ stack # <<>> /\ (resume(f) \/ resume(g))
      BY <1>3, Bounds DEF SkipToken, SkipClose
    <2>2. \A e \in {f, g} : e.end = pos /\ e.at = top.at
      BY <2>1, TopTyped DEF FrameType
    <2> HIDE DEF f, g
    <2>3. PICK e \in {f, g} : resume(e)
      BY <2>1
    <2>4. Len(stack') = Len(stack) /\ stack'[Len(stack)] = e
      BY <2>1, <2>3, Resumed
    <2>5. Last(stack') = e
      BY <2>4 DEF Last
    <2>6. top.at \in Int /\ top.at < pos
      BY <2>1, NotOutermost, TopBefore
    <2>7. pos \in Int
      BY Offsets
    <2>8. QED
      BY <2>1, <2>2, <2>5, <2>6, <2>7 DEF top
  <1>4. CASE (SkipClose /\ ~(top.nesting > 1)) \/ SkipEof
    BY <1>4 DEF SkipClose, SkipEof, Complete, return
  <1>5. CASE DatumNone \/ DatumMalformed \/ DatumLeaf \/ DatumOperand \/ DiscardTake
               \/ ArgTake \/ PrefixTake \/ TagTake
    BY <1>5 DEF DatumNone, DatumMalformed, DatumLeaf, DatumOperand, DiscardTake,
         ArgTake, PrefixTake, TagTake, call, return
  <1>6. CASE ListEof \/ ListClose \/ ListDot \/ ListTakeTail \/ ListItem
               \/ ListTakeItem \/ ListNoItem
    BY <1>6 DEF ListEof, ListClose, ListDot, ListTakeTail, ListItem, ListTakeItem,
         ListNoItem, Complete, return
  <1>7. QED
    BY <1>1, <1>2, <1>3, <1>4, <1>5, <1>6 DEF Next, ReadDatum

\* The steps that build nothing.
LEMMA TreeUnbuilt ==
  ASSUME IInv, Tree, ReadDatum, heap' = heap,
         \/ stack' = stack
         \/ \E f : stack' = Append(stack, f) /\ Waits(heap', f, pos') /\ pc' # "return"
         \/ stack' = Front(stack)
         \/ \E f : resume(f) /\ Waits(heap', f, pos') /\ pc' # "return"
  PROVE  Tree'
  <1>1. \A d \in 1..Len(heap') : d \in Ids
    BY DEF Ids
  <1>2. QED
    BY <1>1, TreeKept

LEMMA TreeStep ==
  ASSUME IInv, CallsInside, Shaped, SkipEnd, Tree, ReadDatum, ~EndsAtZero'
  PROVE  Tree'
  <1>1. /\ stack # <<>> /\ pos \in Int /\ Len(tokens) \in Nat /\ Len(heap) \in Nat
        /\ tokens' = tokens /\ <<>> \in Seq(1..Len(heap))
    <2>1. stack # <<>> /\ tokens' = tokens
      BY CallsMove, InputsKept DEF Next
    <2>2. QED
      BY <2>1, Offsets
  <1>2. ASSUME peek # EOF PROVE pos \in Index /\ pos \in 0..Len(tokens)
    <2>1. pos \in Index
      BY <1>2, PeekInside DEF IInv
    <2>2. QED
      BY <1>1, <2>1 DEF Index
  <1>3. CASE DatumNone \/ DatumMalformed
    <2>1. stack' = stack /\ heap' = heap
      BY <1>3 DEF DatumNone, DatumMalformed
    <2>2. QED
      BY <2>1, TreeUnbuilt
  <1>4. CASE DatumLeaf
    <2> DEFINE n == Node("leaf", pos, pos, <<>>)
    <2>1. /\ peek # EOF /\ pos' = pos + 1 /\ heap' = Append(heap, n) /\ stack' = stack
      BY <1>4 DEF DatumLeaf, Leaves, EOF
    <2>2. Encloses(heap, Unclosed', pos', n)
      <3>1. pos <= pos /\ pos < pos'
        BY <1>1, <2>1
      <3>2. QED
        BY <3>1, BareEncloses
    <2>3. n \in NodeType(Len(heap))
      BY <1>1, <1>2, <2>1, NewNode DEF NodeKinds
    <2> HIDE DEF n
    <2>4. \A d \in 1..Len(heap') : d \in Ids \/ Encloses(heap', Unclosed', pos', heap'[d])
      BY <2>1, <2>2, <2>3, OneEncloses
    <2>5. QED
      BY <2>1, <2>4, TreeKept
  <1>5. CASE DatumOperand \/ DatumOpen
    <2>1. /\ pos' = pos + 1 /\ heap' = heap /\ pc' # "return"
          /\ \E fn : \/ stack' = Append(stack, Frame(fn, pos))
                     \/ stack' = Append(stack, [Frame(fn, pos) EXCEPT !.nesting = 1])
      BY <1>5 DEF DatumOperand, DatumOpen, call
    <2>2. pos' \in Int /\ pos <= pos'
      BY <1>1, <2>1
    <2>3. \E f : stack' = Append(stack, f) /\ Waits(heap', f, pos') /\ pc' # "return"
      BY <1>1, <2>1, <2>2, FreshWaits
    <2>4. QED
      BY <2>1, <2>3, TreeUnbuilt
  <1>6. CASE DiscardTake
    <2>1. stack' = Front(stack) /\ heap' = heap
      BY <1>6 DEF DiscardTake
    <2>2. QED
      BY <2>1, TreeUnbuilt
  <1>7. CASE ArgTake
    <2>1. heap' = heap
      BY <1>7 DEF ArgTake
    <2>2. QED
      BY <1>7, <2>1, ArgWaits, TreeUnbuilt
  <1>8. CASE PrefixTake
    <2>1. /\ pc = "return" /\ top.fn \in {"prefix", "label"} /\ stack' = Front(stack)
          /\ pos' = pos
      BY <1>8 DEF PrefixTake
    <2>2. CASE ret # None
      <3> DEFINE n == [Node(top.fn, top.at, heap[ret].end, <<ret>>) EXCEPT !.arg = top.arg]
      <3>1. heap' = Append(heap, n)
        BY <1>8, <2>2 DEF PrefixTake
      <3>2. top.fn \in NodeKinds \ {"list"}
        BY <2>1 DEF NodeKinds
      <3>3. n \in NodeType(Len(heap)) /\ Encloses(heap, Unclosed', pos', n)
        BY <1>1, <2>1, <2>2, <3>2, PrefixEncloses
      <3> HIDE DEF n
      <3>4. \A d \in 1..Len(heap') : d \in Ids \/ Encloses(heap', Unclosed', pos', heap'[d])
        BY <3>1, <3>3, OneEncloses
      <3>5. QED
        BY <2>1, <3>4, TreeKept
    <2>3. CASE ret = None
      <3>1. heap' = heap
        BY <1>8, <2>3 DEF PrefixTake
      <3>2. QED
        BY <2>1, <3>1, TreeUnbuilt
    <2>4. QED
      BY <2>2, <2>3
  <1>9. CASE TagTake
    <2>1. pc = "return" /\ top.fn = "tag" /\ stack' = Front(stack) /\ pos' = pos
      BY <1>9 DEF TagTake
    <2>2. PICK n \in NodeType(Len(heap)) :
            heap' = Append(heap, n) /\ Encloses(heap, Unclosed', pos', n)
      <3>1. CASE ret # None
        <4> DEFINE m == Node("hash", top.at, heap[ret].end, <<ret>>)
        <4>1. heap' = Append(heap, m)
          BY <1>9, <3>1 DEF TagTake
        <4>2. top.arg = None
          BY <1>1, <2>1, TopShaped DEF FrameShape
        <4>3. m = [m EXCEPT !.arg = top.arg]
          BY <4>2 DEF Node
        <4>4. "hash" \in NodeKinds \ {"list"}
          BY DEF NodeKinds
        <4>5. m \in NodeType(Len(heap)) /\ Encloses(heap, Unclosed', pos', m)
          BY <1>1, <2>1, <3>1, <4>3, <4>4, PrefixEncloses
        <4>6. QED
          BY <4>1, <4>5
      <3>2. CASE ret = None
        <4> DEFINE m == Node("hash", top.at, top.at, <<>>)
        <4>1. heap' = Append(heap, m)
          BY <1>9, <3>2 DEF TagTake
        <4>2. top.at \in Int /\ top.at < pos' /\ top.at <= top.at
          BY <1>1, <2>1, TopBefore
        <4>3. Encloses(heap, Unclosed', pos', m)
          BY <4>2, BareEncloses
        <4>4. m \in NodeType(Len(heap))
          <5>1. top.at \in Index /\ top.at \in 0..Len(tokens)
            BY <1>1, TopTyped DEF Index
          <5>2. QED
            BY <1>1, <5>1, NewNode DEF NodeKinds
        <4>5. QED
          BY <4>1, <4>3, <4>4
      <3>3. QED
        BY <3>1, <3>2
    <2>3. \A d \in 1..Len(heap') : d \in Ids \/ Encloses(heap', Unclosed', pos', heap'[d])
      BY <2>2, OneEncloses
    <2>4. QED
      BY <2>1, <2>3, TreeKept
  <1>10. CASE ListClose
    <2> DEFINE list == List(top, pos)
    <2>1. /\ pc = "list" /\ peek # EOF /\ pos' = pos + 1 /\ Complete(list)
      BY <1>10 DEF ListClose, Closes, EOF
    <2>2. top.fn = "list"
      BY <2>1, NotOutermost
    <2>3. /\ top.at \in Int /\ UnclosedEnd(top) \in Int
          /\ top.at <= UnclosedEnd(top) /\ UnclosedEnd(top) < pos
          /\ \A i \in 1..Len(top.items) : /\ heap[top.items[i]].end \in Int
                                          /\ heap[top.items[i]].end <= UnclosedEnd(top)
          /\ top.tail # None => heap[top.tail].end \in Int /\ heap[top.tail].end < pos
      BY <1>1, <2>1, <2>2, ItemsEnd
    <2>4. /\ top.at <= pos /\ pos < pos' /\ pos' \in Int /\ pos <= pos'
          /\ \A i \in 1..Len(top.items) : heap[top.items[i]].end <= pos
          /\ top.tail # None => heap[top.tail].end <= pos
      BY <1>1, <2>1, <2>3
    <2>5. Encloses(heap, Unclosed', pos', list)
      BY <1>1, <2>1, <2>2, <2>4, ListEncloses
    <2>6. list \in NodeType(Len(heap)) /\ list.arg = None
      BY <1>1, <1>2, <2>1, ListTyped DEF List, Node
    <2> HIDE DEF list
    <2>7. \A d \in 1..Len(heap') : d \in Ids \/ Encloses(heap', Unclosed', pos', heap'[d])
      BY <2>1, <2>5, <2>6, CompleteEncloses
    <2>8. QED
      BY <2>1, <2>7, TreeKept DEF Complete
  <1>11. CASE ListEof \/ (ListNoItem /\ ~(peek \in Closes))
    <2> DEFINE list == List(top, UnclosedEnd(top))
    <2>1. /\ pc \in {"list", "return"} /\ ~(pc = "return" /\ ret # None) /\ pos' = pos
          /\ Complete(list) /\ error("UnclosedList", top.at)
      BY <1>11 DEF ListEof, ListNoItem
    <2>2. top.fn = "list"
      BY <1>11, <2>1, NotOutermost DEF ListEof, ListNoItem
    <2>3. /\ top.at \in Int /\ UnclosedEnd(top) \in Int
          /\ top.at <= UnclosedEnd(top) /\ UnclosedEnd(top) < pos
          /\ \A i \in 1..Len(top.items) : heap[top.items[i]].end <= UnclosedEnd(top)
      BY <1>1, <2>1, <2>2, ItemsEnd
    <2>4. top.at \in Unclosed'
      <3>1. top.at \in Index
        BY <1>1, TopTyped
      <3>2. QED
        BY <1>1, <2>1, <3>1, UnclosedNow
    <2>5. Encloses(heap, Unclosed', pos', list)
      <3>1. pos' \in Int /\ pos <= pos' /\ UnclosedEnd(top) < pos'
        BY <1>1, <2>1, <2>3
      <3>2. QED
        BY <1>1, <2>1, <2>2, <2>3, <2>4, <3>1, ListEncloses
    <2>6. list \in NodeType(Len(heap)) /\ list.arg = None
      BY <1>1, ListTyped, UnclosedEndTyped DEF List, Node
    <2> HIDE DEF list
    <2>7. \A d \in 1..Len(heap') : d \in Ids \/ Encloses(heap', Unclosed', pos', heap'[d])
      BY <2>1, <2>5, <2>6, CompleteEncloses
    <2>8. QED
      BY <2>1, <2>7, TreeKept DEF Complete
  <1>12. CASE ListNoItem /\ peek \in Closes
    <2>1. stack' = stack /\ heap' = heap
      BY <1>12 DEF ListNoItem
    <2>2. QED
      BY <2>1, TreeUnbuilt
  <1>13. CASE ListDot
    <2>1. heap' = heap
      BY <1>13 DEF ListDot
    <2>2. QED
      BY <1>13, <2>1, DotWaits, TreeUnbuilt
  <1>14. CASE ListTakeTail
    <2>1. heap' = heap
      BY <1>14 DEF ListTakeTail
    <2>2. QED
      BY <1>14, <2>1, TailWaits, TreeUnbuilt
  <1>15. CASE ListItem
    <2>1. stack' = stack /\ heap' = heap
      BY <1>15 DEF ListItem
    <2>2. QED
      BY <2>1, TreeUnbuilt
  <1>16. CASE ListTakeItem
    <2>1. heap' = heap
      BY <1>16 DEF ListTakeItem
    <2>2. QED
      BY <1>16, <2>1, TakeWaits, TreeUnbuilt
  <1>17. CASE SkipToken \/ (SkipClose /\ top.nesting > 1)
    <2>1. heap' = heap
      BY <1>17 DEF SkipToken, SkipClose
    <2>2. QED
      BY <1>17, <2>1, SkipWaits, TreeUnbuilt
  <1>18. CASE SkipEof \/ (SkipClose /\ ~(top.nesting > 1))
    <2>1. pc = "skip"
      BY <1>18 DEF SkipEof, SkipClose
    <2>2. top.at \in Int /\ top.at < pos
      BY <1>1, <2>1, NotOutermost, TopBefore
    <2>3. PICK end \in 0..Len(tokens) :
            /\ Complete(Node("list", top.at, end, <<>>))
            /\ end = 0 \/ (top.at <= end /\ end < pos')
      <3>1. CASE SkipEof
        <4>1. top.end \in 0..Len(tokens) /\ top.end \in Int
          BY <1>1, TopTyped
        <4>2. Complete(Node("list", top.at, top.end, <<>>)) /\ pos' = pos
          BY <3>1 DEF SkipEof
        <4>3. top.end = 0 \/ (top.at <= top.end /\ top.end < pos')
          BY <2>1, <2>2, <4>1, <4>2 DEF SkipEnd
        <4>4. QED
          BY <4>1, <4>2, <4>3
      <3>2. CASE SkipClose /\ ~(top.nesting > 1)
        <4>1. peek # EOF /\ Complete(Node("list", top.at, pos, <<>>)) /\ pos' = pos + 1
          BY <3>2 DEF SkipClose, Closes, EOF
        <4>2. top.at <= pos /\ pos < pos'
          BY <1>1, <2>2, <4>1
        <4>3. QED
          BY <1>2, <4>1, <4>2
      <3>3. QED
        BY <1>18, <3>1, <3>2
    <2> DEFINE list == Node("list", top.at, end, <<>>)
    <2>4. list \in NodeType(Len(heap))
      <3>1. top.at \in Index
        BY <1>1, TopTyped
      <3>2. QED
        BY <1>1, <3>1, NewNode DEF NodeKinds
    <2>5. list.end = end /\ list.items = <<>> /\ list.tail = None /\ list.arg = None
      BY DEF Node
    <2>6. end # 0
      <3> SUFFICES ASSUME end = 0 PROVE FALSE
        OBVIOUS
      <3> HIDE DEF list
      <3>1. Complete(list) /\ list.end = 0
        BY <2>3, <2>5 DEF list
      <3>2. Len(list.items) = 0
        BY <2>5
      <3>3. Len(heap) + 1 \in 1..Len(heap') /\ heap'[Len(heap) + 1] = list
        <4>1. CASE tokens[list.first] \in HashOpens
          <5>1. heap' = heap \o <<list, Node("hash", list.first, list.end, <<Len(heap) + 1>>)>>
            BY <3>1, <4>1 DEF Complete
          <5>2. Len(heap') = Len(heap) + 2 /\ heap'[Len(heap) + 1] = list
            BY <5>1, TwoAdded
          <5>3. QED
            BY <1>1, <5>2
        <4>2. CASE tokens[list.first] \notin HashOpens
          <5>1. heap' = Append(heap, FoldLonghand(list))
            BY <3>1, <4>2 DEF Complete
          <5>2. FoldLonghand(list) = list
            BY <3>2 DEF FoldLonghand, folds, pair
          <5>3. Len(heap') = Len(heap) + 1 /\ heap'[Len(heap) + 1] = list
            BY <5>1, <5>2, Added
          <5>4. QED
            BY <1>1, <5>3
        <4>3. QED
          BY <4>1, <4>2
      <3>4. \E d \in 1..Len(heap') : heap'[d].end = 0
        BY <3>1, <3>3
      <3>5. QED
        BY <3>4 DEF EndsAtZero, Ids
    <2>7. Encloses(heap, Unclosed', pos', list)
      BY <2>3, <2>6, BareEncloses
    <2> HIDE DEF list
    <2>8. Complete(list)
      BY <2>3 DEF list
    <2>9. \A d \in 1..Len(heap') : d \in Ids \/ Encloses(heap', Unclosed', pos', heap'[d])
      BY <2>4, <2>5, <2>7, <2>8, CompleteEncloses
    <2>10. QED
      BY <2>8, <2>9, TreeKept DEF Complete
  <1>19. QED
    BY <1>3, <1>4, <1>5, <1>6, <1>7, <1>8, <1>9, <1>10, <1>11, <1>12, <1>13, <1>14,
       <1>15, <1>16, <1>17, <1>18 DEF ReadDatum

-----------------------------------------------------------------------------
(* The spans nest.                                                         *)

LEMMA ChildrenAreKids ==
  ASSUME NEW m \in Nat, NEW n \in NodeType(m), Len(tokens) \in Nat,
         n.arg # None => Len(n.items) = 1 /\ n.tail = None
  PROVE  Children(n) = Kids(n)
  <1>1. /\ n.items \in Seq(1..m) /\ n.tail # None => n.tail \in 1..m
        /\ n.arg # None => n.arg \in 1..m
        /\ \A i \in 1..Len(n.items) : n.items[i] \in 1..m
    BY KidsTyped
  <1>2. n.items \in Seq(1..m)
    BY KidsTyped
  <1>3. CASE n.arg = None
    <2>1. <<>> \o n.items = n.items /\ n.items \o <<>> = n.items
      BY <1>2, ConcatEmptySeq
    <2>2. Children(n) = n.items \o Optional(n.tail)
      BY <1>3, <2>1 DEF Children, Optional
    <2>3. CASE n.tail = None
      BY <1>3, <2>1, <2>2, <2>3 DEF Optional, Kids, ItemsWithTail
    <2>4. CASE n.tail # None
      <3>1. n.tail \in 1..m
        BY <2>4, KidsTyped
      <3>2. Append(n.items, n.tail) = n.items \o <<n.tail>>
        BY <1>2, <3>1, AppendIsConcat
      <3>3. QED
        BY <1>3, <2>2, <2>4, <3>2 DEF Optional, Kids, ItemsWithTail
    <2>5. QED
      BY <2>3, <2>4
  <1>4. CASE n.arg # None
    <2> DEFINE a == n.arg
               s == n.items
               u == <<a>>
               t == u \o s
    <2>1. a \in 1..m /\ s \in Seq(1..m) /\ Len(s) = 1 /\ s[1] \in 1..m
      BY <1>1, <1>2, <1>4
    <2>2. Kids(n) = <<a, s[1]>>
      BY <1>4 DEF Kids
    <2>3. Children(n) = t \o <<>>
      BY <1>4 DEF Children, Optional
    <2> HIDE DEF a, s
    <2>4. u \in Seq(1..m) /\ Len(u) = 1 /\ u[1] = a
      BY <2>1
    <2> HIDE DEF u
    <2>5. /\ t \in Seq(1..m) /\ Len(t) = 2
          /\ t[1] = a /\ t[2] = s[1]
      <3>1. /\ t \in Seq(1..m) /\ Len(t) = Len(u) + Len(s)
            /\ \A i \in 1..Len(u) + Len(s) :
                 t[i] = IF i <= Len(u) THEN u[i] ELSE s[i - Len(u)]
        BY <2>1, <2>4, ConcatProperties
      <3> HIDE DEF t
      <3>2. \A i \in 1..2 : t[i] = IF i <= 1 THEN u[i] ELSE s[i - 1]
        BY <2>1, <2>4, <3>1
      <3>3. t[1] = u[1] /\ t[2] = s[1]
        BY <3>2
      <3>4. QED
        BY <2>1, <2>4, <3>1, <3>3
    <2> HIDE DEF t
    <2>6. <<a, s[1]>> \in Seq(1..m) /\ Len(<<a, s[1]>>) = 2
          /\ <<a, s[1]>>[1] = a /\ <<a, s[1]>>[2] = s[1]
      BY <2>1
    <2>7. \A i \in 1..Len(t) : t[i] = <<a, s[1]>>[i]
      <3>1. \A i \in 1..Len(t) : i = 1 \/ i = 2
        BY <2>5
      <3>2. QED
        BY <2>5, <2>6, <3>1
    <2>8. t = <<a, s[1]>>
      BY <2>5, <2>6, <2>7, SeqEqual
    <2>9. t \o <<>> = t
      BY <2>5, ConcatEmptySeq
    <2>10. QED
      BY <2>2, <2>3, <2>8, <2>9
  <1>5. QED
    BY <1>3, <1>4

LEMMA TreeNests == IInv /\ Tree => SpansNest
  <1> SUFFICES ASSUME IInv, Tree PROVE SpansNest
    OBVIOUS
  <1>1. /\ Len(heap) \in Nat /\ Len(tokens) \in Nat
        /\ \A d \in 1..Len(heap) : /\ heap[d] \in NodeType(Len(heap))
                                   /\ heap[d].first \in Int /\ heap[d].end \in Int
    BY Offsets
  <1>2. ASSUME NEW D, NEW s \in Seq(D), NEW from, NEW to, Laid(heap, s, from, to)
        PROVE  InOrder(s)
    <2>1. Len(s) \in Nat
      BY LenProperties
    <2>2. \A i \in 1..Len(s) - 1 : i \in 1..Len(s) /\ i + 1 \in 1..Len(s) /\ i < i + 1
      BY <2>1
    <2>3. QED
      BY <1>2, <2>2 DEF Laid, InOrder
  <1>3. InOrder(data)
    <2>1. data \in Seq(Ids) /\ Laid(heap, data, 1, Limit(0))
      BY DEF IInv, TypeOK, Tree
    <2>2. QED
      BY <1>2, <2>1
  <1>4. ASSUME NEW d \in Ids
        PROVE  LET n == heap[d]  kids == Children(n) IN
               /\ n.first <= n.end /\ n.end < pos
               /\ InOrder(kids)
               /\ kids # <<>> => n.first <= heap[Head(kids)].first
               /\ \A i \in DOMAIN kids :
                    \/ heap[kids[i]].end <= n.end
                    \/ kids[i] = n.tail /\ Reported("UnclosedList", n.first)
               /\ n.kind = "list" /\ n.tail # None =>
                    heap[Last(n.items)].end < n.dot /\ n.dot < heap[n.tail].first
    <2> DEFINE n == heap[d]
               kids == Children(n)
    <2>1. n \in NodeType(Len(heap)) /\ Encloses(heap, Unclosed, pos, n)
      BY <1>1 DEF Ids, Tree
    <2> HIDE DEF n
    <2>2. n.arg # None => Len(n.items) = 1 /\ n.tail = None
      BY <2>1 DEF Encloses
    <2>3. /\ Kids(n) \in Seq(1..Len(heap)) /\ Len(n.items) \in Nat
          /\ n.items \in Seq(1..Len(heap))
      BY <1>1, <2>1, <2>2, KidsTyped
    <2>4. n.tail # None => n.tail \in 1..Len(heap)
      BY <1>1, <2>1, <2>2, KidsTyped
    <2>5. kids = Kids(n)
      BY <1>1, <2>1, <2>2, ChildrenAreKids
    <2> HIDE DEF kids
    <2>6. Laid(heap, kids, n.first, pos) /\ kids \in Seq(1..Len(heap))
      BY <2>1, <2>3, <2>5 DEF Encloses
    <2>7. DOMAIN kids = 1..Len(kids) /\ Len(kids) \in Nat
      BY <2>6, LenProperties
    <2>8. InOrder(kids)
      BY <1>2, <2>6
    <2>9. kids # <<>> => n.first <= heap[Head(kids)].first
      <3> SUFFICES ASSUME kids # <<>> PROVE n.first <= heap[Head(kids)].first
        OBVIOUS
      <3>1. Len(kids) # 0
        BY <2>6, EmptySeq
      <3>2. 1 \in 1..Len(kids) /\ Head(kids) = kids[1]
        BY <2>6, <2>7, <3>1
      <3>3. QED
        BY <2>6, <3>2 DEF Laid
    <2>10. ASSUME NEW i \in DOMAIN kids
           PROVE  \/ heap[kids[i]].end <= n.end
                  \/ kids[i] = n.tail /\ Reported("UnclosedList", n.first)
      <3>1. CASE n.arg = None
        <4>1. kids = ItemsWithTail(n)
          BY <2>5, <3>1 DEF Kids
        <4>2. /\ \A j \in 1..Len(n.items) : kids[j] = n.items[j]
              /\ n.tail = None => Len(kids) = Len(n.items)
              /\ n.tail # None => Len(kids) = Len(n.items) + 1
                                  /\ kids[Len(n.items) + 1] = n.tail
          BY <2>3, <2>4, <4>1, WithTail
        <4>3. i \in 1..Len(n.items) \/ (n.tail # None /\ i = Len(n.items) + 1)
          <5>1. Len(n.items) \in Nat /\ i \in 1..Len(kids)
            BY <2>3, <2>7
          <5>2. CASE n.tail = None
            BY <4>2, <5>1, <5>2
          <5>3. CASE n.tail # None
            <6>1. i \in 1..Len(n.items) + 1
              BY <4>2, <5>1, <5>3
            <6>2. QED
              BY <5>1, <5>3, <6>1
          <5>4. QED
            BY <5>2, <5>3
        <4>4. CASE i \in 1..Len(n.items)
          BY <2>1, <4>2, <4>4 DEF Encloses
        <4>5. CASE n.tail # None /\ i = Len(n.items) + 1
          BY <2>1, <4>2, <4>5 DEF Encloses, Unclosed
        <4>6. QED
          BY <4>3, <4>4, <4>5
      <3>2. CASE n.arg # None
        <4>1. kids = <<n.arg, n.items[1]>>
          BY <2>5, <3>2 DEF Kids
        <4>2. i \in {1, 2} /\ kids[1] = n.arg /\ kids[2] = n.items[1]
          BY <2>7, <4>1
        <4>3. 1 \in 1..Len(n.items)
          <5>1. Len(n.items) = 1
            BY <2>2, <3>2
          <5>2. QED
            BY <5>1
        <4>4. heap[n.arg].end <= n.end /\ heap[n.items[1]].end <= n.end
          BY <2>1, <3>2, <4>3 DEF Encloses
        <4>5. QED
          BY <4>2, <4>4
      <3>3. QED
        BY <3>1, <3>2
    <2>11. n.kind = "list" /\ n.tail # None =>
             heap[Last(n.items)].end < n.dot /\ n.dot < heap[n.tail].first
      BY <2>1 DEF Encloses, DotBetween
    <2>12. n.first <= n.end /\ n.end < pos
      BY <2>1 DEF Encloses
    <2>13. QED
      BY <2>8, <2>9, <2>10, <2>11, <2>12 DEF n, kids
  <1>5. QED
    BY <1>3, <1>4 DEF SpansNest

\* The invariant: but for the lists past the depth cap that the input ends in,
\* what is built and what is being built lies in source order.
Nesting == Shaped /\ SkipEnd /\ (EndsAtZero \/ Tree)

\* Every datum lies inside its parent, the children of a datum and the
\* top-level data lie in source order without overlap, and a dot lies between
\* the last item and the tail, for every input, well formed or not: the walker,
\* the line index and the annotator take it for granted.  Only a list past the
\* depth cap with which the input ends breaks it (skip_balanced's end of 0,
\* reader.rs:556), and only its tail sticks out of an unclosed list.
THEOREM SpansAreNested == Spec => []SpansNest
  <1>1. Init => Nesting
    <2> SUFFICES ASSUME Init PROVE Nesting
      OBVIOUS
    <2>1. /\ stack = <<>> /\ Len(stack) = 0 /\ pc = "top" /\ heap = <<>> /\ Len(heap) = 0
          /\ data = <<>>
      BY DEF Init
    <2>2. Tree
      BY <2>1, LaidNone DEF Tree, Ids
    <2>3. QED
      BY <2>1, <2>2 DEF Nesting, Shaped, SkipEnd
  <1>2. PInv /\ Nesting /\ [Next]_vars => Nesting'
    <2> SUFFICES ASSUME PInv, Nesting, [Next]_vars PROVE Nesting'
      OBVIOUS
    <2>1. IInv /\ CallsInside /\ Shaped /\ SkipEnd
      BY DEF PInv, Nesting
    <2>2. CASE UNCHANGED vars
      <3>1. Shaped'
        BY <2>1, <2>2 DEF vars, Shaped, FrameShape, None
      <3>2. SkipEnd'
        BY <2>1, <2>2 DEF vars, SkipEnd, top
      <3>3. EndsAtZero => EndsAtZero'
        BY <2>2 DEF vars, EndsAtZero, Ids
      <3>4. ASSUME Tree PROVE Tree'
        <4>1. heap' = heap /\ stack' = stack /\ pos' = pos /\ data' = data
          BY <2>2 DEF vars
        <4>2. Unclosed' = Unclosed
          BY <2>2 DEF vars, Unclosed, Reported, Index
        <4>3. \A i : Limit(i)' = Limit(i)
          BY <2>2 DEF vars, Limit, None
        <4>4. QED
          BY <3>4, <4>1, <4>2, <4>3, TreeNext DEF Tree, Ids
      <3>5. QED
        BY <3>1, <3>2, <3>3, <3>4 DEF Nesting
    <2>3. CASE Next
      <3>1. EndsAtZero => EndsAtZero'
        BY <2>1, <2>3, HeapKept DEF EndsAtZero, Ids
      <3>2. ASSUME Tree PROVE Tree' \/ EndsAtZero'
        BY <2>1, <2>3, <3>2, TopTree, TreeStep DEF Next
      <3>3. QED
        BY <2>1, <2>3, <3>1, <3>2, ShapedStep, SkipEndStep DEF Nesting
    <2>4. QED
      BY <2>2, <2>3
  <1>3. IInv /\ Nesting => SpansNest
    BY TreeNests DEF Nesting, SpansNest
  <1>4. QED
    BY <1>1, <1>2, <1>3, Invariance, PInvariance, PTL DEF Spec
=============================================================================
