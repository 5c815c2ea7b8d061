------------------------------ MODULE MCReader ------------------------------
(***************************************************************************)
(* Small instances of the reader: every input up to a length, over a wide  *)
(* alphabet for short inputs and over narrower ones for longer inputs.     *)
(***************************************************************************)
EXTENDS ReaderProperties, Grammar

On(flags) == [f \in Flags |-> f \in flags]
Racket  == On({"dotted_pairs", "dotted_pairs_infix", "fold_longhand"})
Strict  == On({"dotted_pairs", "feature_conditional", "fold_longhand"})
Keeping == On({"keep_discarded"})

Upto(n, kinds) == UNION {[1..k -> kinds] : k \in 0..n}
CasesOf(inputs, options) == {c \in [tokens : inputs, opts : options] : Lexable(c)}

Everything == {"(", "#(", "[", ")", "]", "atom", ".", "quote", "'", "#;", "^",
               "#+", Tag, Label, Malformed}
Lists  == {"(", ")", "]", "atom", ".", "#;"}
Dotted == {"(", ")", "atom", "."}
Hashes == {"(", "#(", ")", "'"}

MCCases ==
  CasesOf(Upto(3, Everything), {Racket, Keeping})
    \union CasesOf(Upto(4, Everything), {Strict})
    \union CasesOf(Upto(5, Lists), {Strict})
    \union CasesOf(Upto(6, Dotted), {Racket, Strict})
    \union CasesOf(Upto(6, Hashes), {Strict})
=============================================================================
