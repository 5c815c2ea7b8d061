----------------------------- MODULE FileLocals -----------------------------
(***************************************************************************)
(* Emacs file-local variables                                              *)
(* (src/crates/lispexp-emacs/src/local_vars.rs): the `-*- ... -*-' cookie  *)
(* and the `Local Variables:' block.  A line of a source is what stands    *)
(* before its first letter (prefix) and one of: a "shebang"; a "cookie"    *)
(* with its bindings, or with the bare name of a mode; the "marker" that   *)
(* opens a block, its "End:"; a "pair" `key: value'; and other "text".     *)
(***************************************************************************)
EXTENDS Integers, Sequences, SequencesExt

\* A key is what stands before it on the line, unless that was stripped, and its
\* name.
key(prefix, called) == <<prefix, called>>
Bare == ""   \* no prefix

push(k, value) == IF k = key(Bare, "") THEN <<>> ELSE << [key |-> k, value |-> value] >>

\* The line a cookie counts on: the first, or the second when the first is a
\* shebang.
header(lines) == IF lines # <<>> /\ lines[1].kind = "shebang" THEN 2 ELSE 1

\* `-*- ModeName -*-' is short for a binding of `mode'.
read_header(lines) ==
  LET n == header(lines)
      pairs == lines[n].pairs
  IN  IF n > Len(lines) \/ lines[n].kind # "cookie" THEN <<>>
      ELSE IF lines[n].mode # "" THEN push(key(Bare, "mode"), lines[n].mode)
      ELSE FlattenSeq([p \in DOMAIN pairs |-> push(key(Bare, pairs[p].name), pairs[p].value)])

markerFirst(lines) == SelectInSeq(lines, LAMBDA l : l.kind = "marker")   \* faulty: str::find
\* str::rfind; 0 when there is no block.
marker(lines) == SelectLastInSeq(lines, LAMBDA l : l.kind = "marker")

\* The prefix of the marker's line is taken off every line of the block; a line
\* without it keeps whatever it begins with.  No prefix begins with another.
body_prefix(marked, l) == IF l.prefix \in {marked.prefix, Bare} THEN Bare ELSE l.prefix

ends_block(marked, l) == l.kind = "end" /\ body_prefix(marked, l) = Bare

\* What one line of the block binds.  An `End:' that was not recognised and a
\* cookie are lines with a colon, too.
read_line(marked, l) ==
  CASE l.kind = "pair" -> push(key(body_prefix(marked, l), l.name), l.value)
    [] l.kind = "end"  -> push(key(body_prefix(marked, l), "End"), "")
    [] l.kind = "cookie" /\ l.pairs # <<>> -> push(key("-*-", l.pairs[1].name), l.pairs[1].value)
    [] OTHER -> <<>>

\* FileLocals::get.
get(vars, called) ==
  LET K == {k \in DOMAIN vars : vars[k].key = key(Bare, called)}
  IN  IF K = {} THEN <<>> ELSE <<vars[Max(K)].value>>
=============================================================================
