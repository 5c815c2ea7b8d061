------------------------------ MODULE MCFormAt ------------------------------
(***************************************************************************)
(* Small instances of a consumer of parse_form_at.                         *)
(***************************************************************************)
EXTENDS FormAt

On(flags) == [f \in Flags |-> f \in flags]
Strict == On({"dotted_pairs", "feature_conditional", "fold_longhand"})
Upto(n, kinds) == UNION {[1..k -> kinds] : k \in 0..n}

MCCases ==
  {c \in [tokens : Upto(4, {"(", ")", "]", "atom", "'", "#;", "^", Tag, Malformed})
                     \union Upto(6, {"(", ")", "'"})
                     \union Upto(5, {"(", ")", "atom", "."}),
          opts : {Strict}] : Lexable(c)}
=============================================================================
