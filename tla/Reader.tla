------------------------------- MODULE Reader -------------------------------
(***************************************************************************)
(* The Reader of lispexp (src/src/reader.rs): the recursive-descent parser *)
(* that turns the significant tokens of a source text into a tree of data  *)
(* and a list of diagnostics.                                              *)
(*                                                                         *)
(* The Rust call stack is explicit here: `stack' holds one frame for every *)
(* call of parse_top_level, parse_datum's waiting arms, finish_list and    *)
(* skip_balanced that has not returned, and `pc' says which function runs. *)
(* Offsets are abstracted to token indices: a datum covers the tokens      *)
(* first..end, so `end' is the index of the token whose end offset the     *)
(* code stores, and 0 is the byte offset 0.  Tokens never overlap and are  *)
(* never empty, so comparing indices is comparing offsets.                 *)
(***************************************************************************)
EXTENDS Integers, Sequences, FiniteSets, SequencesExt

CONSTANTS
  Cases,      (* the calls parse(source, options) considered: records of   *)
              (* the significant tokens of source and of the options       *)
  MAX_DEPTH   (* the reader's nesting cap (200 in the code)                *)

\* Token kinds, named by a glyph that lexes to them.  "atom" stands for every
\* leaf token (TokenKind::Atom, Str, Char, Bool, LabelRef) whose text is
\* neither "." nor the name of a quote form ("quote").
Opens     == {"(", "[", "{", "#{"}
HashOpens == {"#(", "#["}
Closes    == {")", "]", "}"}
Leaves    == {"atom", ".", "quote"}
ReaderMacros  == {"'", "#;", "^", "#+"}
Tag       == "#tag"
Label     == "#0="
Malformed == "unterminated"
AllKinds  == Opens \union HashOpens \union Closes \union Leaves \union ReaderMacros
               \union {Tag, Label, Malformed}
EOF       == "eof"

\* The options the reader consults:
\*   keep_discarded      build a datum for `#;form' instead of dropping it
\*   dotted_pairs        `.' separates the tail of an improper list
\*   dotted_pairs_infix  a dot may be followed by further items
\*   fold_longhand       `(quote x)' reads as the datum 'x
\*   feature_conditional `#+feature form' takes two data
Flags == {"keep_discarded", "dotted_pairs", "dotted_pairs_infix", "fold_longhand",
          "feature_conditional"}

\* What the lexer can produce: `#+' needs feature_conditional (lexer.rs:526),
\* `#tag' needs tagged_literals (lexer.rs:663) and `#0=' its absence (lexer.rs:652).
\* Anything may follow an unterminated lexeme: text given back may begin with a
\* block comment (WAT), which is no significant token.
Lexable(c) ==
  /\ "#+" \in ToSet(c.tokens) => c.opts.feature_conditional
  /\ ~({Tag, Label} \subseteq ToSet(c.tokens))

ASSUME ReaderAssumption ==
  /\ Cases \subseteq [tokens : Seq(AllKinds), opts : [Flags -> BOOLEAN]]
  /\ \A c \in Cases : Lexable(c)
  /\ MAX_DEPTH \in Nat

VARIABLES
  tokens,   (* Parser::tokens, the significant tokens; never changes       *)
  opts,     (* Parser::opts; never changes                                 *)
  pos,      (* Parser::pos, one-based: the next token to consume           *)
  depth,    (* Parser::depth                                               *)
  errors,   (* Parser::errors: the diagnostics, in the order reported      *)
  data,     (* parse_top_level's result: the top-level data, as heap ids   *)
  heap,     (* every datum built so far; a datum is named by its index     *)
  stack,    (* the calls in progress, innermost last                       *)
  pc,       (* what runs: "top", "datum", "list", "skip", "return", "done" *)
  ret       (* what parse_datum returned: a heap id, or None               *)

input == <<tokens, opts>>
vars == <<tokens, opts, pos, depth, errors, data, heap, stack, pc, ret>>

None == 0

-----------------------------------------------------------------------------
(* Tokens, data, frames.                                                   *)

Matches == {<<"(", ")">>, <<"#(", ")">>, <<"[", "]">>, <<"#[", "]">>,
            <<"{", "}">>, <<"#{", "}">>}
close_matches(open, close) == <<open, close>> \in Matches

peek == IF pos <= Len(tokens) THEN tokens[pos] ELSE EOF

Node(kind, first, end, items) ==
  [kind |-> kind, first |-> first, end |-> end, items |-> items,
   tail |-> None, dot |-> None, arg |-> None]

\* A frame: the function, the token it was entered on, and the locals that
\* survive its calls: a list's items, tail and dot, the dot whose tail is
\* being read (`after'), the first operand of a two-operand prefix (`arg'),
\* and the nesting count and end offset of skip_balanced.
Frame(fn, at) ==
  [fn |-> fn, at |-> at, items |-> <<>>, tail |-> None, dot |-> None,
   after |-> None, arg |-> None, nesting |-> 0, end |-> 0]

top == Last(stack)

error(kind, at) == errors' = Append(errors, [kind |-> kind, at |-> at])

call(frame) == stack' = Append(stack, frame) /\ pc' = "datum"
resume(frame) == stack' = [stack EXCEPT ![Len(stack)] = frame]
return(d) == pc' = "return" /\ ret' = d

\* A prefix whose only operand is the datum it applies to.
Generic(t) == \/ t = "'"
              \/ t = "#;" /\ opts.keep_discarded
              \/ t = "#+" /\ ~opts.feature_conditional
\* A prefix that reads an auxiliary datum first.
TwoOperands(t) == t = "^" \/ (t = "#+" /\ opts.feature_conditional)

-----------------------------------------------------------------------------
(* parse_top_level                                                         *)

TopStrayClose ==
  /\ pc = "top" /\ peek \in Closes
  /\ pos' = pos + 1
  /\ error("UnexpectedDelimiter", pos)
  /\ UNCHANGED <<input, depth, data, heap, stack, pc, ret>>

TopCall ==
  /\ pc = "top" /\ peek \notin Closes \union {EOF}
  /\ call(Frame("top", pos))
  /\ UNCHANGED <<input, pos, depth, errors, data, heap, ret>>

\* Faulty: takes the None of a dangling prefix for the end of the input.
TopTakeStopsAtNone ==
  /\ pc = "return" /\ top.fn = "top"
  /\ stack' = Front(stack)
  /\ IF ret # None THEN data' = Append(data, ret) /\ pc' = "top"
                   ELSE data' = data /\ pc' = "done"
  /\ UNCHANGED <<input, pos, depth, errors, heap, ret>>

TopTake ==
  /\ pc = "return" /\ top.fn = "top"
  /\ stack' = Front(stack)
  /\ \/ ret # None /\ data' = Append(data, ret) /\ pos' = pos /\ pc' = "top"
     \/ /\ ret = None /\ pos <= Len(tokens)
        /\ pos' = IF pos = top.at THEN pos + 1 ELSE pos
        /\ data' = data /\ pc' = "top"
     \/ ret = None /\ pos > Len(tokens) /\ pc' = "done" /\ UNCHANGED <<data, pos>>
  /\ UNCHANGED <<input, depth, errors, heap, ret>>

TopEnd ==
  /\ pc = "top" /\ peek = EOF
  /\ pc' = "done"
  /\ UNCHANGED <<input, pos, depth, errors, data, heap, stack, ret>>

-----------------------------------------------------------------------------
(* parse_datum                                                             *)

\* Faulty: leaves a malformed token to the caller.
DatumNoneAtMalformed ==
  /\ pc = "datum" /\ peek \in Closes \union {EOF, Malformed}
  /\ return(None)
  /\ UNCHANGED <<input, pos, depth, errors, data, heap, stack>>

\* Nothing to read: the end of the input, or a close left to the caller.
DatumNone ==
  /\ pc = "datum" /\ peek \in Closes \union {EOF}
  /\ return(None)
  /\ UNCHANGED <<input, pos, depth, errors, data, heap, stack>>

\* Faulty: gives up on the datum after a malformed token.
DatumMalformedGivesUp ==
  /\ pc = "datum" /\ peek = Malformed
  /\ pos' = pos + 1
  /\ error("MalformedToken", pos)
  /\ return(None)
  /\ UNCHANGED <<input, depth, data, heap, stack>>

DatumMalformed ==
  /\ pc = "datum" /\ peek = Malformed
  /\ pos' = pos + 1
  /\ error("MalformedToken", pos)
  /\ UNCHANGED <<input, depth, data, heap, stack, pc, ret>>

DatumLeaf ==
  /\ pc = "datum" /\ peek \in Leaves
  /\ pos' = pos + 1
  /\ heap' = Append(heap, Node("leaf", pos, pos, <<>>))
  /\ return(Len(heap) + 1)
  /\ UNCHANGED <<input, depth, errors, data, stack>>

\* An arm that reads one operand (or the first of two) and waits for it.
DatumOperand ==
  /\ pc = "datum"
  /\ \/ peek = "#;" /\ ~opts.keep_discarded /\ call(Frame("discard", pos))
     \/ Generic(peek) /\ call(Frame("prefix", pos))
     \/ TwoOperands(peek) /\ call(Frame("arg", pos))
     \/ peek = Label /\ call(Frame("label", pos))
     \/ peek = Tag /\ call(Frame("tag", pos))
  /\ pos' = pos + 1
  /\ UNCHANGED <<input, depth, errors, data, heap, ret>>

TooDeepByTwo(d) == d > MAX_DEPTH + 1   \* faulty: off by one
TooDeep(d) == d > MAX_DEPTH

\* finish_list's head: descend, or skip the region past the depth cap.
DatumOpen ==
  /\ pc = "datum" /\ peek \in Opens \union HashOpens
  /\ pos' = pos + 1
  /\ depth' = depth + 1
  /\ IF TooDeep(depth')
     THEN /\ IF depth' = MAX_DEPTH + 1 THEN error("DepthLimitExceeded", pos)
                                       ELSE errors' = errors
          /\ stack' = Append(stack, [Frame("skip", pos) EXCEPT !.nesting = 1])
          /\ pc' = "skip"
     ELSE /\ stack' = Append(stack, Frame("list", pos))
          /\ pc' = "list"
          /\ errors' = errors
  /\ UNCHANGED <<input, data, heap, ret>>

\* The datum after `#;' is dropped and the same call of parse_datum goes on.
DiscardTake ==
  /\ pc = "return" /\ top.fn = "discard"
  /\ stack' = Front(stack)
  /\ pc' = "datum"
  /\ IF ret = None THEN error("DanglingPrefix", top.at) ELSE errors' = errors
  /\ UNCHANGED <<input, pos, depth, data, heap, ret>>

ArgTake ==
  /\ pc = "return" /\ top.fn = "arg"
  /\ resume([top EXCEPT !.fn = "prefix", !.arg = ret])
  /\ pc' = "datum"
  /\ UNCHANGED <<input, pos, depth, errors, data, heap, ret>>

PrefixTake ==
  /\ pc = "return" /\ top.fn \in {"prefix", "label"}
  /\ stack' = Front(stack)
  /\ IF ret # None
     THEN /\ heap' = Append(heap, [Node(top.fn, top.at, heap[ret].end, <<ret>>)
                                     EXCEPT !.arg = top.arg])
          /\ return(Len(heap) + 1)
          /\ errors' = errors
     ELSE /\ error(IF top.fn = "label" THEN "DanglingLabel" ELSE "DanglingPrefix",
                   top.at)
          /\ return(None)
          /\ heap' = heap
  /\ UNCHANGED <<input, pos, depth, data>>

TagTake ==
  /\ pc = "return" /\ top.fn = "tag"
  /\ stack' = Front(stack)
  /\ IF ret # None
     THEN /\ heap' = Append(heap, Node("hash", top.at, heap[ret].end, <<ret>>))
          /\ errors' = errors
     ELSE /\ heap' = Append(heap, Node("hash", top.at, top.at, <<>>))
          /\ error("DanglingTag", top.at)
  /\ return(Len(heap) + 1)
  /\ UNCHANGED <<input, pos, depth, data>>

-----------------------------------------------------------------------------
(* finish_list, finish_hash, fold_longhand                                 *)

\* `(quote x)' becomes the datum 'x; the head symbol is dropped.  A list of
\* that shape with another head is built again, without a dot.
pair(list) ==
  /\ opts.fold_longhand /\ tokens[list.first] = "("
  /\ Len(list.items) = 2 /\ list.tail = None
folds(list) ==
  /\ pair(list)
  /\ heap[list.items[1]].kind = "leaf" /\ tokens[heap[list.items[1]].first] = "quote"

FoldLonghand(list) ==
  CASE folds(list) -> Node("prefix", list.first, list.end, <<list.items[2]>>)
    [] pair(list) /\ ~folds(list) -> [list EXCEPT !.dot = None]
    [] OTHER -> list

CompleteLeakingDepth(list) ==   \* faulty: forgets to leave the nesting level
  /\ depth' = depth
  /\ stack' = Front(stack)
  /\ heap' = Append(heap, FoldLonghand(list))
  /\ return(Len(heap) + 1)

\* The list is complete: leave the frame and return it, folded, or wrapped in
\* a hash literal when it was opened by `#('.
Complete(list) ==
  /\ depth' = depth - 1
  /\ stack' = Front(stack)
  /\ IF tokens[list.first] \in HashOpens
     THEN /\ heap' = heap \o <<list, Node("hash", list.first, list.end,
                                          <<Len(heap) + 1>>)>>
          /\ return(Len(heap) + 2)
     ELSE /\ heap' = Append(heap, FoldLonghand(list))
          /\ return(Len(heap) + 1)

List(frame, end) ==
  [Node("list", frame.at, end, frame.items) EXCEPT !.tail = frame.tail,
                                                   !.dot = frame.dot]

UnclosedEndAtOpen(frame) == frame.at   \* faulty: at the open delimiter
\* Where a list that is never closed ends: at its last item.
UnclosedEnd(frame) ==
  IF frame.items = <<>> THEN frame.at ELSE heap[Last(frame.items)].end

ListEof ==
  /\ pc = "list" /\ peek = EOF
  /\ error("UnclosedList", top.at)
  /\ Complete(List(top, UnclosedEnd(top)))
  /\ UNCHANGED <<input, pos, data>>

ListClose ==
  /\ pc = "list" /\ peek \in Closes
  /\ pos' = pos + 1
  /\ IF close_matches(tokens[top.at], peek) THEN errors' = errors
                                            ELSE error("MismatchedDelimiter", pos)
  /\ Complete(List(top, pos))
  /\ UNCHANGED <<input, data>>

IsDotAnywhere == opts.dotted_pairs /\ peek = "."   \* faulty: also before any item
IsDotAfterTwo == opts.dotted_pairs /\ Len(top.items) > 1 /\ peek = "."   \* faulty: off by one
IsDot == opts.dotted_pairs /\ top.items # <<>> /\ peek = "."

ItemsWithoutTail(frame) == frame.items   \* faulty: forgets the tail
\* A tail that turns out not to be the last datum becomes an ordinary item.
ItemsWithTail(frame) ==
  IF frame.tail = None THEN frame.items ELSE Append(frame.items, frame.tail)

ListDot ==
  /\ pc = "list" /\ IsDot
  /\ pos' = pos + 1
  /\ resume([top EXCEPT !.items = ItemsWithTail(top), !.tail = None, !.after = pos])
  /\ pc' = "datum"
  /\ IF top.tail # None /\ ~opts.dotted_pairs_infix THEN error("ItemAfterDottedTail", pos)
                                               ELSE errors' = errors
  /\ UNCHANGED <<input, depth, data, heap, ret>>

ListTakeTail ==
  /\ pc = "return" /\ top.fn = "list" /\ top.after # None
  /\ IF ret # None
     THEN /\ resume([top EXCEPT !.tail = ret, !.dot = top.after, !.after = None])
          /\ errors' = errors
     ELSE /\ resume([top EXCEPT !.after = None])
          /\ error("DanglingDot", top.after)
  /\ pc' = "list"
  /\ UNCHANGED <<input, pos, depth, data, heap, ret>>

ListItem ==
  /\ pc = "list" /\ peek \notin Closes \union {EOF} /\ ~IsDot
  /\ pc' = "datum"
  /\ UNCHANGED <<input, pos, depth, errors, data, heap, stack, ret>>

ListTakeItem ==
  /\ pc = "return" /\ top.fn = "list" /\ top.after = None /\ ret # None
  /\ resume([top EXCEPT !.items = Append(ItemsWithTail(top), ret),
                        !.tail = None,
                        !.dot = IF top.tail = None THEN @ ELSE None])
  /\ IF top.tail # None /\ ~opts.dotted_pairs_infix
     THEN error("ItemAfterDottedTail", heap[ret].first)
     ELSE errors' = errors
  /\ pc' = "list"
  /\ UNCHANGED <<input, pos, depth, data, heap, ret>>

ListNoItem ==
  /\ pc = "return" /\ top.fn = "list" /\ top.after = None /\ ret = None
  /\ IF peek \in Closes
     THEN pc' = "list" /\ UNCHANGED <<depth, errors, heap, stack, ret>>
     ELSE /\ error("UnclosedList", top.at)
          /\ Complete(List(top, UnclosedEnd(top)))
  /\ UNCHANGED <<input, pos, data>>

-----------------------------------------------------------------------------
(* skip_balanced, and the empty list finish_list returns for the region.   *)
(* The end offset starts as 0 at the end of the input; otherwise its       *)
(* initial value is overwritten by the first token consumed.               *)

DeeperNotHash(t) == t \in Opens   \* faulty: a `#(' is not counted
Deeper(t) == t \in Opens \union HashOpens

SkipToken ==
  /\ pc = "skip" /\ peek \notin Closes \union {EOF}
  /\ pos' = pos + 1
  /\ resume([top EXCEPT !.end = pos,
               !.nesting = IF Deeper(peek) THEN @ + 1 ELSE @])
  /\ UNCHANGED <<input, depth, errors, data, heap, pc, ret>>

SkipClose ==
  /\ pc = "skip" /\ peek \in Closes
  /\ pos' = pos + 1
  /\ IF top.nesting > 1
     THEN /\ resume([top EXCEPT !.end = pos, !.nesting = @ - 1])
          /\ UNCHANGED <<depth, errors, heap, pc, ret>>
     ELSE /\ IF close_matches(tokens[top.at], peek)
             THEN errors' = errors
             ELSE error("MismatchedDelimiter", pos)
          /\ Complete(Node("list", top.at, pos, <<>>))
  /\ UNCHANGED <<input, data>>

\* Faulty: waits for the region to balance.
SkipEofIfBalanced ==
  /\ pc = "skip" /\ peek = EOF /\ top.nesting = 0
  /\ Complete(Node("list", top.at, top.end, <<>>))
  /\ UNCHANGED <<input, pos, errors, data>>

SkipEof ==
  /\ pc = "skip" /\ peek = EOF
  /\ Complete(Node("list", top.at, top.end, <<>>))
  /\ UNCHANGED <<input, pos, errors, data>>

-----------------------------------------------------------------------------
Init ==
  /\ \E c \in Cases : tokens = c.tokens /\ opts = c.opts
  /\ pos = 1 /\ depth = 0
  /\ errors = <<>> /\ data = <<>> /\ heap = <<>>
  /\ stack = <<>> /\ pc = "top" /\ ret = None

\* parse_datum and everything it calls.
ReadDatum ==
  \/ DatumNone \/ DatumMalformed \/ DatumLeaf \/ DatumOperand \/ DatumOpen
  \/ DiscardTake \/ ArgTake \/ PrefixTake \/ TagTake
  \/ ListEof \/ ListClose \/ ListDot \/ ListTakeTail
  \/ ListItem \/ ListTakeItem \/ ListNoItem
  \/ SkipToken \/ SkipClose \/ SkipEof

Next == TopStrayClose \/ TopCall \/ TopTake \/ TopEnd \/ ReadDatum

Spec == Init /\ [][Next]_vars

\* parse is a sequential function: it runs until it returns.
FairSpec == Spec /\ WF_vars(Next)
=============================================================================
