-------------------------- MODULE ReaderProperties --------------------------
(***************************************************************************)
(* What the reader of module Reader guarantees.                            *)
(***************************************************************************)
EXTENDS Reader

Ids   == 1..Len(heap)
Index == 1..Len(tokens)

NodeKinds  == {"leaf", "prefix", "label", "hash", "list"}
FrameKinds == {"top", "discard", "arg", "prefix", "label", "tag", "list", "skip"}

\* Data and frames that refer to data among 1..n.
NodeType(n) ==
  [kind : NodeKinds, first : Index, end : 0..Len(tokens), items : Seq(1..n),
   tail : 0..n, dot : 0..Len(tokens), arg : 0..n]
FrameType(n) ==
  [fn : FrameKinds, at : Index, items : Seq(1..n), tail : 0..n, dot : 0..Len(tokens),
   after : 0..Len(tokens), arg : 0..n, nesting : Nat, end : 0..Len(tokens)]

ErrorKinds == {"UnexpectedDelimiter", "MismatchedDelimiter", "UnclosedList",
               "MalformedToken", "DanglingPrefix", "DanglingTag", "DanglingLabel",
               "DanglingDot", "ItemAfterDottedTail", "DepthLimitExceeded"}
ErrorType == [kind : ErrorKinds, at : Index]

\* The innermost call is the one that runs: parse_top_level's is the outermost
\* frame, skip_balanced calls nothing, and finish_list runs on a list's frame.
Nested(calls, control) ==
  /\ calls = <<>> <=> control \in {"top", "done"}
  /\ \A i \in 1..Len(calls) : calls[i].fn = "top" <=> i = 1
  /\ \A i \in 1..Len(calls) :
       calls[i].fn = "skip" <=> control = "skip" /\ i = Len(calls)
  /\ control = "list" => Last(calls).fn = "list"

\* Every variable has its type; in particular every offset of a datum and
\* every datum held by a call in progress exists.
TypeOK ==
  /\ tokens \in Seq(AllKinds) /\ opts \in [Flags -> BOOLEAN]
  /\ pos \in 1..Len(tokens) + 1
  /\ depth \in 0..MAX_DEPTH + 1
  /\ errors \in Seq(ErrorType)
  /\ data \in Seq(Ids)
  /\ heap \in Seq(NodeType(Len(heap)))
  /\ stack \in Seq(FrameType(Len(heap)))
  /\ pc \in {"top", "datum", "list", "skip", "return", "done"}
  /\ ret \in 0..Len(heap)
  /\ Nested(stack, pc)

-----------------------------------------------------------------------------
(* Calls.                                                                  *)

\* parse_datum returns None only when the next token is a close or the input
\* has ended (its doc, reader.rs:240).  finish_list relies on it: its "a stray
\* close was seen" branch would otherwise report a list as unclosed in the
\* middle of the input.
NoneMeansStop ==
  pc = "return" /\ ret = None => peek \in Closes \union {EOF}

\* A call of parse_datum by parse_top_level consumes a token whatever it
\* returns: the loop's "guarantee progress" branch (reader.rs:228) never runs.
CallsConsume ==
  pc = "return" /\ top.fn = "top" => pos > top.at

\* Parser::depth counts exactly the lists being read, on every path in and
\* out of finish_list, and exceeds the cap only while a region is skipped.
\* A leak would silently lower the cap for the rest of the file.
ListsIn(calls) == {i \in DOMAIN calls : calls[i].fn \in {"list", "skip"}}
DepthCounted ==
  /\ depth = Cardinality(ListsIn(stack))
  /\ depth > MAX_DEPTH <=> pc = "skip"

\* skip_balanced stops at the close that balances the open it was called for:
\* its counter is the number of opens minus closes since.
Count(S, from, to) == Cardinality({i \in from..to : tokens[i] \in S})
SkipNesting ==
  pc = "skip" => /\ top.nesting >= 1
                 /\ top.nesting = Count(Opens \union HashOpens, top.at, pos - 1)
                                    - Count(Closes, top.at, pos - 1)

-----------------------------------------------------------------------------
(* The tree.                                                               *)

Optional(d) == IF d = None THEN <<>> ELSE <<d>>
Children(n) == Optional(n.arg) \o n.items \o Optional(n.tail)

InOrder(seq) ==
  \A i \in 1..Len(seq) - 1 : heap[seq[i]].end < heap[seq[i + 1]].first

Reported(kind, at) == \E i \in DOMAIN errors : errors[i] = [kind |-> kind, at |-> at]

\* The only data whose end is wrong are those around a list that exceeds the
\* depth cap with the last token of the input: skip_balanced then ends at 0.
EndsAtZero == \E d \in Ids : heap[d].end = 0

\* Children lie in source order and inside their parent, the dot of a list
\* lies between its last item and its tail, the top-level data do not overlap.
\* (The span of an unclosed list may leave out its tail: its end is that of its
\* last item, reader.rs:456.)
SpansNest ==
  EndsAtZero \/
  /\ \A d \in Ids : LET n == heap[d]  kids == Children(n) IN
       /\ n.first <= n.end /\ n.end < pos
       /\ InOrder(kids)
       /\ kids # <<>> => n.first <= heap[Head(kids)].first
       /\ \A i \in DOMAIN kids :
            \/ heap[kids[i]].end <= n.end
            \/ kids[i] = n.tail /\ Reported("UnclosedList", n.first)
       /\ n.kind = "list" /\ n.tail # None =>
            heap[Last(n.items)].end < n.dot /\ n.dot < heap[n.tail].first
  /\ InOrder(data)

\* The data some owner still refers to: the result, a parent, a call in
\* progress, or the value being returned.
Owned(n) == ToSet(n.items) \union ({n.tail, n.arg} \ {None})
Held ==
  ToSet(data) \union (UNION {Owned(heap[d]) : d \in Ids})
    \union (UNION {Owned(stack[i]) : i \in DOMAIN stack})
    \union (IF pc = "return" THEN {ret} \ {None} ELSE {})

\* The data the code drops on purpose: the operand of `#;', the first operand
\* of a prefix that lacks its second, the head symbol of `(quote x)'.
Dropped ==
  CASE stack = <<>> -> {}
    [] pc = "return" /\ top.fn = "discard" -> {ret}
    [] pc = "return" /\ top.fn = "prefix" /\ ret = None -> {top.arg}
    [] top.fn = "list" /\ stack' = Front(stack) /\ folds(List(top, pos)) ->
         {top.items[1]}
    [] OTHER -> {}

\* No step loses a datum: what has been built stays in the result, in a parent
\* or in a call in progress, through every recovery path (reader.rs:468, 498).
NoDatumLost ==
  [][\A d \in 1..Len(heap') : d \in Held' \/ (d \in Ids \ Held) \/ d \in Dropped]_vars

-----------------------------------------------------------------------------
(* Diagnostics and recovery.                                               *)

\* Reading top-level forms as TopForms promises it: nothing is passed over
\* without a reason the caller can see, and the whole input is worked through.
Comments == IF opts.keep_discarded THEN {} ELSE {"#;"}
Cursor   == IF stack = <<>> THEN pos ELSE stack[1].at
Forms    == [i \in DOMAIN data |-> heap[data[i]].first]
Defects  == [i \in DOMAIN errors |-> errors[i].at]
Finished == pc = "done"
Promise == INSTANCE TopForms WITH
  input <- tokens, comments <- Comments, cursor <- Cursor, forms <- Forms,
  defects <- Defects, finished <- Finished
RefinesTopForms == Promise!Spec

\* The reader stops on every input.
Terminates == <>(pc = "done")

-----------------------------------------------------------------------------
(* Statements of the repository that the code does not meet.               *)

\* "Some iff tail is Some" (datum.rs:33), "kept in lockstep" (reader.rs:449).
DotIffTail ==
  \A d \in Ids : heap[d].kind = "list" => (heap[d].dot # None <=> heap[d].tail # None)

\* Span is `[start, end)' (span.rs:3): it does not end before it starts.
SpansForward == \A d \in Ids : heap[d].first <= heap[d].end
=============================================================================
