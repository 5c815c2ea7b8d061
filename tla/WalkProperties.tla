--------------------------- MODULE WalkProperties ---------------------------
(***************************************************************************)
(* What the walker of module Walk guarantees, against a definition of code *)
(* and data that threads no context: the region of a datum is read off the *)
(* reader macros between the top level and the datum.                      *)
(***************************************************************************)
EXTENDS Walk

\* The data around d, d included, outermost first in the order of their numbers.
Around(d) == {a \in Data : a <= d /\ d <= last(a)}
ParentOf(d) == LET outer == Around(d) \ {d} IN
               IF outer = {} THEN 0 ELSE CHOOSE p \in outer : \A a \in outer : a <= p

\* What the step into d does: it is the inner datum of its parent, or what
\* stands before it.
In(d, kinds) == ParentOf(d) # 0 /\ kind(ParentOf(d)) \in kinds
IsInner(d) == last(d) = last(ParentOf(d))
Under(prefixes) == {d \in Data : In(d, prefixes) /\ IsInner(d)}
Auxiliary == {d \in Data : In(d, Prefix) /\ ~IsInner(d)}
Contents  == {d \in Data : In(d, {"HashLiteral"})}
Sealing   == Under({"Quote", "Discard"}) \union Auxiliary \union Contents
ReadTime  == Under({"ReadEval"})

\* The steps that count: those from the innermost `#.' on.
Counting(d) == {a \in Around(d) : \A r \in ReadTime \intersect Around(d) : a >= r}
\* An unquote cancels the innermost quasiquote it stands in: what is left open
\* shows in some innermost part of the steps.
InTemplate(d) ==
  \E a \in Counting(d) : Cardinality({b \in Counting(d) : b >= a} \intersect Under({"Quasiquote"}))
                           > Cardinality({b \in Counting(d) : b >= a} \intersect Under({"Unquote"}))

RegionOf(d) ==
  IF kind(d) \in {"HashLiteral", "LabelRef"} \/ Counting(d) \intersect Sealing # {}
  THEN "SealedData"
  ELSE IF InTemplate(d) THEN "PorousData" ELSE "Code"

Sealed == {d \in Data : RegionOf(d) = "SealedData"}
Code   == {d \in Data : RegionOf(d) = "Code"}
Within(d, ds) == Around(d) \intersect ds # {}

-----------------------------------------------------------------------------
Item == [node : Data, ctx : [hard_quote : BOOLEAN, qq : 0..Len(forest.kind)]]

TypeOK ==
  /\ \A i \in DOMAIN calls : \A j \in DOMAIN calls[i] : calls[i][j] \in Item
  /\ flow \in {"Continue", "Break"}
  /\ \A i \in DOMAIN seen : seen[i] \in
       [node : Data, region : {"Code", "SealedData", "PorousData"},
        answer : {"Descend", "Skip", "Stop"}]
  /\ \A i \in DOMAIN work : work[i] \in Item
  /\ \A i \in DOMAIN yielded : yielded[i] \in Data
  /\ pc \in {"walk", "iterate", "done"}

Answered(answer) == {seen[i].node : i \in {j \in DOMAIN seen : seen[j].answer = answer}}

\* The data the callback should have seen up to some datum: all of them, in
\* source order, but those inside one it skipped; none after a Stop.
VisitsInOrder ==
  LET upto == IF seen = <<>> THEN 0
              ELSE IF pc = "walk" \/ Last(seen).answer = "Stop" THEN Last(seen).node
              ELSE Len(forest.kind)
      due == {d \in 1..upto : \A s \in Answered("Skip") : d \notin s + 1..last(s)}
  IN  /\ [i \in DOMAIN seen |-> seen[i].node] = Ordered(due)
      /\ \A i \in DOMAIN seen : seen[i].answer = "Stop" => i = Len(seen)

\* Whatever datum the callback is called on, and however the walk came there,
\* it is given the region of that datum.
RegionsRight == seen # <<>> => Last(seen).region = RegionOf(Last(seen).node)

\* Skipping what is_prunable, and only that, loses no code, except code that
\* `#.' brings into sealed data.
PruningKeepsCode ==
  pc = "done" /\ Answered("Stop") = {}
    /\ (\A i \in DOMAIN seen : seen[i].answer = "Skip" => seen[i].region = "SealedData")
  => \A d \in Code : Within(d, Sealed) \/ d \in {seen[i].node : i \in DOMAIN seen}

\* A drained iterator has yielded the code outside sealed data, each datum once,
\* a parent before its children and in source order.
YieldsInOrder == pc = "done" => yielded = Ordered({d \in Code : ~Within(d, Sealed)})

\* Both loops end.
Ends == <>(pc = "done")

-----------------------------------------------------------------------------
(* A statement of the repository that the code does not meet.              *)

\* "The iterator's fixed prune/descend policy must agree, node-for-node and in
\* order, with descending everything and keeping the code nodes" (walk.rs:690).
IteratorAgrees ==
  pc = "done" /\ Answered("Skip") \union Answered("Stop") = {} =>
    yielded = [i \in DOMAIN SelectSeq(seen, LAMBDA s : s.region = "Code") |->
                 SelectSeq(seen, LAMBDA s : s.region = "Code")[i].node]
=============================================================================
