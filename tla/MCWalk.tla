------------------------------- MODULE MCWalk -------------------------------
(***************************************************************************)
(* Small forests: every one of at most MaxData data over all kinds, of     *)
(* MaxTree data over the kinds of a template and its code, and every chain *)
(* of MaxChain - 1 reader macros over the ones that shift regions.         *)
(***************************************************************************)
EXTENDS WalkProperties

CONSTANTS MaxData, MaxTree, MaxChain

Arities(k) == CASE k \in {"Symbol", "LabelRef"} -> {0}
                [] k = "HashLiteral" -> {0, 1}
                [] k = "Meta" -> {1, 2}
                [] k = "List" -> 0..MaxTree
                [] OTHER -> {1}

Nests(lasts, n) == \A d \in 1..n : \A e \in d..lasts[d] : lasts[e] <= lasts[d]
Shapes(n) == {lasts \in [1..n -> 1..n] : (\A d \in 1..n : lasts[d] >= d) /\ Nests(lasts, n)}
Arity(lasts, d) ==
  Cardinality({c \in d + 1..lasts[d] : \A e \in d + 1..c - 1 : lasts[e] < c})

All(n, kinds) ==
  UNION {[kind : {ks \in [1..n -> kinds] : \A d \in 1..n : Arity(lasts, d) \in Arities(ks[d])},
          last : {lasts}] : lasts \in Shapes(n)}

Shifts == {"Quote", "Quasiquote", "Unquote", "ReadEval", "List", "HashFn"}
Chains(n) == [kind : {Append(ks, "Symbol") : ks \in [1..n - 1 -> Shifts]},
              last : {[d \in 1..n |-> n]}]

MCForests == UNION {All(n, Kinds) : n \in 0..MaxData}
               \union All(MaxTree, {"Quasiquote", "Unquote", "List", "Symbol"})
               \union Chains(MaxChain)
=============================================================================
