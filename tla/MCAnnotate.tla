----------------------------- MODULE MCAnnotate -----------------------------
(***************************************************************************)
(* Small plans: every way to layer a few tables and sources; one macro     *)
(* definition with every short parameter list or pattern, and uses of it;  *)
(* and short forms under every bundled head.                               *)
(***************************************************************************)
EXTENDS AnnotateProperties

CONSTANTS MaxLayers, MaxParams, MaxItems

Harvest(forms, lasts) == [op |-> "harvest", source |-> [form |-> forms, last |-> lasts]]
Plan(dialect, layers, uses) == [dialect |-> dialect, layers |-> layers, uses |-> uses]
Use(head, items) == [head |-> head, items |-> items]

-----------------------------------------------------------------------------
\* Layers: a consumer's own specs, those of another registry, and sources in
\* which a definition stands twice or inside another, and indentation is said
\* twice in one form, nested, quoted, in a vector and by `put'.
Consumer == FormSpec(<<"Name">>, None, TRUE, "Consumer")
Deft(params, clauses) == [Form("defmacro", <<params>>) EXCEPT !.clauses = clauses]
Indent(s)   == [key |-> "indent", spec |-> s]
Clause(k)   == [key |-> k, spec |-> "nil"]
Putting(s)  == [Form("put", <<>>) EXCEPT !.put = <<s>>]
Data(shape) == [Form("other", <<>>) EXCEPT !.name = None, !.shape = shape]

Layers ==
  { [op |-> "insert", head |-> "deft", spec |-> Consumer, indent |-> "0"],
    [op |-> "insert", head |-> "defun", spec |-> Consumer, indent |-> "text"],
    [op |-> "remove", head |-> "deft"],
    [op |-> "merge", specs |-> [h \in {"deft", "defun"} |-> [Consumer EXCEPT !.body = FALSE]],
     indents |-> [h \in {"deft", "defun"} |-> "1"]],
    Harvest(<<Deft(<<"name", "&rest", "x">>, <<Indent("1"), Indent("defun")>>),
              Deft(<<"x">>, <<>>)>>, <<1, 2>>),
    Harvest(<<Data("Round"), Deft(<<"name">>, <<Indent("2"), Clause("debug")>>), Putting("nil")>>,
            <<2, 2, 3>>),
    Harvest(<<Deft(<<"args">>, <<Clause("doc-string"), Indent("nil")>>), Putting("0"),
              Data("Prefixed"), Putting("text"), Data("Square"), Deft(<<>>, <<Indent("2")>>)>>,
            <<2, 2, 4, 4, 6, 6>>),
    Harvest(<<Deft(<<>>, <<Indent("2")>>),
              [Form("defun", <<>>) EXCEPT !.clauses = <<Indent("0")>>]>>, <<2, 2>>) }

LayerPlans == {Plan("EmacsLisp", ls, {Use("deft", <<"Symbol", "Str">>), Use("defun", <<"Symbol">>)}) :
                 ls \in SeqOf(Layers, MaxLayers)}

-----------------------------------------------------------------------------
\* Parameter lists as a compiler takes them: markers in order, one parameter
\* behind a rest marker; and at most one docstring.
WellFormed(ps) ==
  /\ \A j \in DOMAIN ps :
       CASE ps[j] \in HyRest -> j = Len(ps)
         [] ps[j] = "..." -> j = Len(ps) /\ j > 1
         [] ps[j] = "&rest" -> j = Len(ps) - 1 /\ ps[j + 1] \in Symbols
         [] ps[j] = "&optional" -> j < Len(ps) /\ \A l \in 1..j - 1 : ps[l] # "&optional"
         [] ps[j] = "doc" -> \A l \in 1..j - 1 : ps[l] # "doc"
         [] OTHER -> TRUE
LambdaLists(params, n) == {ps \in SeqOf(params, n) : WellFormed(ps)}

\* Uses that tell positions apart: strings, lists and symbols everywhere.
Uses == {Use("deft", items) : items \in
           {<<"Symbol", "Str", "Round", "Symbol">>, <<"Symbol", "Round", "Str", "Other">>,
            <<"Named", "Square", "Symbol", "Str">>, <<"Str", "Str", "Declare", "Str">>,
            <<"Symbol", "Symbol">>, <<"Square", "Interactive", "Str">>, <<>>}}
Defines(dialect, f) == Plan(dialect, <<Harvest(<<f>>, <<1>>)>>, Uses \union {AsUse(f)})

Markers(d)   == IF d = "Hy" THEN HyRest ELSE {"&rest"}

ArglistPlans ==
  {Defines("EmacsLisp", Form("defmacro", <<ps>>)) :
     ps \in LambdaLists(Symbols \union {"&rest", "&optional", "list"}, MaxParams)}
  \union UNION {{Defines(d, [Form(h, <<ps>>) EXCEPT !.doc_first = first]) :
                   h \in harvest_profile[d].macro_heads, first \in BOOLEAN,
                   ps \in LambdaLists(Symbols \union Markers(d), 3)} : d \in DOMAIN harvest_profile}
  \union {Defines("EmacsLisp", Deft(ps, <<Clause(k)>>)) :
            ps \in LambdaLists(Symbols, 2), k \in {"doc-string", "debug"}}

\* Clojure's metadata, on the name and in an attribute map.
Metas == {NoMeta, [NoMeta EXCEPT !.style = <<2>>], [NoMeta EXCEPT !.arglists = << <<"x">> >>],
          [NoMeta EXCEPT !.arglists = << <<"name", "args">> >>, !.style = <<0>>]}
MetaPlans ==
  {Defines("Clojure", [Form("defmacro", <<ps>>) EXCEPT !.wrapped = m # NoMeta, !.meta = m,
                                                       !.attr = a]) :
     m \in Metas, a \in Metas, ps \in {<<"x", "&rest", "body">>, <<"name", "doc", "x">>}}

PatternPlans ==
  {Defines(d, [Form(h, <<>>) EXCEPT !.patterns = <<ps>>]) :
     d \in {"Scheme", "Racket"}, h \in {"define-syntax", "define-syntax-rule"},
     ps \in LambdaLists(Symbols \union {"list", "..."}, 3)}
  \union {Defines("Guile", [Form("define-syntax", <<>>) EXCEPT !.patterns = alternatives]) :
            alternatives \in SeqOf({<<>>, <<"name">>, <<"x", "x">>, <<"name", "body">>}, 3)}
  \union {Defines("Gambit", [Form("define-macro", <<ps>>) EXCEPT !.tail = dotted]) :
            ps \in LambdaLists(Symbols, 3), dotted \in BOOLEAN}

-----------------------------------------------------------------------------
BundledUses(head) == {Use(head, items) : items \in SeqOf({"Symbol", "Round", "Square", "Str"}, MaxItems)}
BundledPlans == UNION {{Plan(d, <<>>, BundledUses(h)) : h \in DOMAIN bundled_registry[d]} :
                         d \in DOMAIN bundled_registry}

MCPlans == LayerPlans \union ArglistPlans \union MetaPlans \union PatternPlans \union BundledPlans
=============================================================================
