------------------------------- MODULE Grammar -------------------------------
(***************************************************************************)
(* What the documentation calls structurally clean text (ADR-0030,         *)
(* error.rs:34-66), as a grammar of token sequences and independently of   *)
(* how the reader works.  It is the reference the reader's diagnostics are *)
(* compared with.                                                          *)
(*                                                                         *)
(* A rule gives all the positions before which a part of the grammar may   *)
(* end that begins with token i of the text, at nesting level d.  Its      *)
(* argument `ends' has what all rules give for the text behind i.          *)
(***************************************************************************)
EXTENDS Reader

\* A datum comment, which hides the datum after it.
Hides(t) == t = "#;" /\ ~opts.keep_discarded

\* A dot that can only separate the tail of a list, never be a datum.
Separates(t) == t = "." /\ opts.dotted_pairs

\* Where `part' may end that begins where something before it, at S, ended.
Then(ends, part, S, d) == UNION {ends[<<part, k, d>>] : k \in S}

\* One datum, with the datum comments in front of it.
Datum(ends, text, i, d) ==
  LET t == text[i]
      operand == ends[<<"datum", i + 1, d>>]
  IN  CASE i > Len(text) -> {}
        [] i <= Len(text) /\ t \in Leaves -> IF Separates(t) THEN {} ELSE {i + 1}
        [] i <= Len(text) /\ (Generic(t) \/ t \in {Tag, Label}) -> operand
        [] i <= Len(text) /\ (TwoOperands(t) \/ Hides(t)) -> Then(ends, "datum", operand, d)
        [] OTHER ->
             {j + 1 : j \in {k \in i + 1..Len(text) :
                /\ <<t, text[k]>> \in Matches
                /\ d < MAX_DEPTH /\ k \in ends[<<"empty", i + 1, d + 1>>]}}

\* What stands between the delimiters of a list, after no item ("empty"), an
\* item or a tail: datum comments anywhere, a dot and a tail after an item, and
\* after a tail nothing, or what may follow an item where dots may be infix.
Body(ends, text, after, i, d) ==
  {i} \union
    (IF i > Len(text) THEN {}
     ELSE IF Hides(text[i]) THEN Then(ends, after, ends[<<"datum", i + 1, d>>], d)
     ELSE IF after = "tail" /\ ~opts.dotted_pairs_infix THEN {}
     ELSE IF after # "empty" /\ Separates(text[i])
          THEN Then(ends, "tail", ends[<<"datum", i + 1, d>>], d)
          ELSE Then(ends, "item", Datum(ends, text, i, d), d))

\* Data one after the other, with datum comments anywhere.
TopData(ends, text, i, d) ==
  {i} \union
    (IF i <= Len(text) /\ Hides(text[i])
     THEN Then(ends, "top", ends[<<"datum", i + 1, d>>], d)
     ELSE Then(ends, "top", Datum(ends, text, i, d), d))

Parts == {"datum", "empty", "item", "tail", "top"}
Rule(ends, text, part, i, d) ==
  CASE part = "datum" -> Datum(ends, text, i, d)
    [] part = "top"   -> TopData(ends, text, i, d)
    [] OTHER          -> Body(ends, text, part, i, d)

Ends(text) ==
  LET E[x \in Parts \X (1..Len(text) + 1) \X (0..MAX_DEPTH)] ==
        Rule(E, text, x[1], x[2], x[3])
  IN  E

\* The whole text is data, with datum comments.
WellFormed(text) == Len(text) + 1 \in Ends(text)[<<"top", 1, 0>>]

-----------------------------------------------------------------------------
\* The dots the reader took for a symbol named `.', and the source as it took
\* it: with an ordinary symbol in place of each of them.
DotsTaken ==
  {heap[d].first : d \in {d \in DOMAIN heap : heap[d].kind = "leaf"}}
    \intersect {i \in DOMAIN tokens : tokens[i] = "."}
AsRead == [i \in DOMAIN tokens |-> IF i \in DotsTaken THEN "atom" ELSE tokens[i]]

\* Well-formed text is never complained about, and of the defects of a text only
\* one passes silently: a dot that the reader took for a symbol.  With such dots
\* replaced by symbols, parse reports nothing just when the text is well-formed.
\* (The reader takes a dot for a separator only directly after an item or a
\* tail, reader.rs:476.  A dot in an empty list, after a prefix, at top level or
\* after a datum comment is a symbol to it, against error.rs:57.)
DiagnosticFree ==
  pc = "done" =>
    /\ WellFormed(tokens) => errors = <<>>
    /\ errors = <<>> <=> WellFormed(AsRead)

\* Where dots separate, the reader takes none for a symbol that stands directly
\* behind an item or the tail of a list, however that datum was put together and
\* whatever was recovered from before (reader.rs:470-510).  But for a datum
\* skipped at the end of the text, whose end is wrong (reader.rs:556).
DotsSeparate ==
  pc = "done" /\ opts.dotted_pairs =>
    \A list \in {d \in DOMAIN heap : heap[d].kind = "list"} :
      \A d \in (Range(heap[list].items) \union {heap[list].tail}) \ {None} :
        heap[d].first <= heap[d].end => heap[d].end + 1 \notin DotsTaken
=============================================================================
