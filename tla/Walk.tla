-------------------------------- MODULE Walk --------------------------------
(***************************************************************************)
(* The code-vs-data walker of lispexp (src/src/walk.rs, ADR-0026): the     *)
(* visitor walk_regions, whose callback may descend, skip or stop at every *)
(* datum, and the iterator code_nodes.  A consumer runs the one and then   *)
(* the other over the same data; the two share only for_each_child and the *)
(* region contexts.                                                        *)
(***************************************************************************)
EXTENDS Integers, Sequences, FiniteSets, SequencesExt

\* A forest is its data in pre-order, numbered from 1: what each is, and the
\* last datum inside it.  "Symbol" stands for every leaf but a label reference,
\* "List" also for a label, which passes its context on like a list of one;
\* "Unquote" also for UnquoteSplicing, "Meta" for the prefixes that carry an
\* auxiliary datum, "HashFn" for the other context-transparent ones.
Prefix == {"Quote", "Quasiquote", "Unquote", "ReadEval", "Meta", "HashFn", "Discard"}
Kinds  == Prefix \union {"List", "HashLiteral", "Symbol", "LabelRef"}

CONSTANTS Forests   (* the data considered *)

ASSUME WalkAssumption ==
  \A f \in Forests :
    /\ f.kind \in Seq(Kinds) /\ f.last \in Seq(Nat) /\ Len(f.last) = Len(f.kind)
    /\ \A d \in DOMAIN f.kind :
         /\ f.last[d] \in d..Len(f.last)
         /\ \A e \in d..f.last[d] : f.last[e] <= f.last[d]

VARIABLES
  forest,   (* the data walked; never changes                              *)
  calls,    (* walk_datum's recursion: for every for_each_child in         *)
            (* progress the children still to come, innermost last; the    *)
            (* first is walk_regions' own loop over the top-level data     *)
  flow,     (* "Continue", or "Break" once the callback has said Stop      *)
  seen,     (* the callback's calls: datum, region, and its answer         *)
  work,     (* CodeNodes::stack                                            *)
  yielded,  (* the data the iterator has yielded                           *)
  pc        (* "walk", "iterate", "done"                                   *)

vars == <<forest, calls, flow, seen, work, yielded, pc>>

Data == DOMAIN forest.kind
kind(d) == forest.kind[d]
last(d) == forest.last[d]

\* A set of data in source order: the k-th is the one with k up to it.
Ordered(ds) == [k \in 1..Cardinality(ds) |->
                  CHOOSE d \in ds : Cardinality({e \in ds : e <= d}) = k]

\* The data directly inside d, in source order; 0 stands for the source file.
Inside(d)   == IF d = 0 THEN Data ELSE d + 1..last(d)
children(d) == Ordered({c \in Inside(d) : \A e \in Inside(d) : e < c => last(e) < c})

-----------------------------------------------------------------------------
(* Ctx, inner_ctx, node_region, for_each_child.                            *)

TOP  == [hard_quote |-> FALSE, qq |-> 0]
DATA == [hard_quote |-> TRUE, qq |-> 0]

regionPorousAsSealed(ctx) ==   \* faulty: takes a template for sealed data
  IF ctx.hard_quote \/ ctx.qq > 0 THEN "SealedData" ELSE "Code"

region(ctx) ==
  CASE ctx.hard_quote -> "SealedData"
    [] ~ctx.hard_quote /\ ctx.qq > 0 -> "PorousData"
    [] OTHER -> "Code"

inner_ctxUnclamped(prefix, ctx) ==   \* faulty: steps below depth 0
  CASE prefix \in {"Quote", "Discard"} -> DATA
    [] prefix = "Quasiquote" -> [ctx EXCEPT !.qq = @ + 1]
    [] prefix = "Unquote" -> [ctx EXCEPT !.qq = @ - 1]
    [] prefix = "ReadEval" -> TOP
    [] OTHER -> ctx

inner_ctxResetting(prefix, ctx) ==   \* faulty: `@x' leaves the template
  CASE prefix \in {"Quote", "Discard"} -> DATA
    [] prefix = "Quasiquote" -> [ctx EXCEPT !.qq = @ + 1]
    [] prefix = "Unquote" -> [ctx EXCEPT !.qq = IF @ = 0 THEN 0 ELSE @ - 1]
    [] prefix \in {"ReadEval", "HashFn"} -> TOP
    [] OTHER -> ctx

\* The context of a prefix's inner datum.
inner_ctx(prefix, ctx) ==
  CASE prefix \in {"Quote", "Discard"} -> DATA
    [] prefix = "Quasiquote" -> [ctx EXCEPT !.qq = @ + 1]
    [] prefix = "Unquote" -> [ctx EXCEPT !.qq = IF @ = 0 THEN 0 ELSE @ - 1]
    [] prefix = "ReadEval" -> TOP
    [] prefix \in {"Meta", "HashFn"} -> ctx

node_region(d, ctx) ==
  IF kind(d) \in {"HashLiteral", "LabelRef"} THEN "SealedData" ELSE region(ctx)

\* The children of d with their contexts, in source order.  The datum before a
\* prefix's inner datum is its auxiliary one.
for_each_child(d, ctx) ==
  LET cs == children(d)
      child_ctx(i) == CASE kind(d) \in Prefix ->
                             IF i < Len(cs) THEN DATA ELSE inner_ctx(kind(d), ctx)
                        [] kind(d) = "HashLiteral" -> DATA
                        [] OTHER -> ctx
  IN  [i \in DOMAIN cs |-> [node |-> cs[i], ctx |-> child_ctx(i)]]

TopLevel == LET ds == children(0) IN [i \in DOMAIN ds |-> [node |-> ds[i], ctx |-> TOP]]

-----------------------------------------------------------------------------
(* walk_regions, walk_datum                                                *)

\* The callback is called on the next datum of the innermost loop.
Visit(answer) ==
  /\ pc = "walk" /\ flow = "Continue" /\ Last(calls) # <<>>
  /\ LET d == Head(Last(calls))
         rest == [calls EXCEPT ![Len(calls)] = Tail(@)]
     IN  /\ seen' = Append(seen, [node |-> d.node, region |-> node_region(d.node, d.ctx),
                                  answer |-> answer])
         /\ calls' = IF answer = "Descend" THEN Append(rest, for_each_child(d.node, d.ctx))
                                           ELSE rest
  /\ flow' = IF answer = "Stop" THEN "Break" ELSE "Continue"
  /\ UNCHANGED <<forest, work, yielded, pc>>

\* Faulty: the caller's loop goes on after a Stop.
ReturnContinuing ==
  /\ pc = "walk" /\ Len(calls) > 1 /\ (Last(calls) = <<>> \/ flow = "Break")
  /\ calls' = Front(calls)
  /\ flow' = "Continue"
  /\ UNCHANGED <<forest, seen, work, yielded, pc>>

\* walk_datum returns; after a Stop the rest of its loop calls nothing.
Return ==
  /\ pc = "walk" /\ Len(calls) > 1 /\ (Last(calls) = <<>> \/ flow = "Break")
  /\ calls' = Front(calls)
  /\ UNCHANGED <<forest, flow, seen, work, yielded, pc>>

\* walk_regions returns; the consumer makes an iterator (code_nodes).
WalkEnd ==
  /\ pc = "walk" /\ Len(calls) = 1 /\ (calls[1] = <<>> \/ flow = "Break")
  /\ work' = Reverse(TopLevel)
  /\ pc' = "iterate"
  /\ UNCHANGED <<forest, calls, flow, seen, yielded>>

-----------------------------------------------------------------------------
(* CodeNodes::next, one turn of its loop.                                  *)

popped == Last(work)
popped_region == node_region(popped.node, popped.ctx)

pushedUnreversed == Front(work) \o for_each_child(popped.node, popped.ctx)   \* faulty
pushed == Front(work) \o Reverse(for_each_child(popped.node, popped.ctx))

\* Faulty: looks at the datum without popping it.
PruneInPlace ==
  /\ pc = "iterate" /\ work # <<>> /\ popped_region = "SealedData"
  /\ UNCHANGED vars

Prune ==
  /\ pc = "iterate" /\ work # <<>> /\ popped_region = "SealedData"
  /\ work' = Front(work)
  /\ UNCHANGED <<forest, calls, flow, seen, yielded, pc>>

DescendPorous ==
  /\ pc = "iterate" /\ work # <<>> /\ popped_region = "PorousData"
  /\ work' = pushed
  /\ UNCHANGED <<forest, calls, flow, seen, yielded, pc>>

Yield ==
  /\ pc = "iterate" /\ work # <<>> /\ popped_region = "Code"
  /\ work' = pushed
  /\ yielded' = Append(yielded, popped.node)
  /\ UNCHANGED <<forest, calls, flow, seen, pc>>

IterateEnd ==
  /\ pc = "iterate" /\ work = <<>>
  /\ pc' = "done"
  /\ UNCHANGED <<forest, calls, flow, seen, work, yielded>>

-----------------------------------------------------------------------------
Init ==
  /\ forest \in Forests
  /\ calls = <<TopLevel>> /\ flow = "Continue" /\ seen = <<>>
  /\ work = <<>> /\ yielded = <<>> /\ pc = "walk"

Next ==
  \/ \E answer \in {"Descend", "Skip", "Stop"} : Visit(answer)
  \/ Return \/ WalkEnd
  \/ Prune \/ DescendPorous \/ Yield \/ IterateEnd

Spec == Init /\ [][Next]_vars

\* Both are loops of a sequential program over finite data.
FairSpec == Spec /\ WF_vars(Next)

=============================================================================
