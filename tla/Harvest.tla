------------------------------- MODULE Harvest -------------------------------
(***************************************************************************)
(* What lispexp learns from the macro definitions of a source: the role of *)
(* each argument of a use (src/src/annotate.rs, ADR-0031, ADR-0032) and    *)
(* the indentation the source declares (src/src/indent.rs, ADR-0022).      *)
(* Nothing is expanded: roles come from the names of the parameters.       *)
(***************************************************************************)
EXTENDS Builtins, Integers, SequencesExt

\* A parameter is a token: a symbol stands for its class in classify_param ("x"
\* for a name of no class), "&rest" also for `&body' and `&', "&optional" for
\* every other `&' marker and `:rest', "#*args" and "#*x" for Hy's rest
\* parameters, "list" for a destructuring sub-list, "..." for an ellipsis.
classify_param == [name |-> "Name", args |-> "Arglist", doc |-> "Docstring", body |-> "Body",
                   x |-> None]
Symbols == DOMAIN classify_param
class(p) == IF p \in Symbols THEN classify_param[p] ELSE None
HyRest  == {"#*args", "#*x"}
Params  == Symbols \union HyRest \union {"&rest", "&optional", "list", "..."}

\* A form of a source.  `name' is the symbol its second datum is or carries,
\* `wrapped' whether that symbol is inside `^' metadata; `params' is the list
\* behind the name and behind any docstring (doc_first) and attribute map, as an
\* option like the other sequences of length one; `clauses' are those of its
\* declare forms, `put' is the spec of a `(put 'name 'lisp-indent-function ...)'.
NoMeta == [arglists |-> <<>>, style |-> <<>>]
Form(head, params) ==
  [shape |-> "Round", head |-> head, name |-> "deft", wrapped |-> FALSE, doc_first |-> FALSE,
   params |-> params, tail |-> FALSE, patterns |-> <<>>, meta |-> NoMeta, attr |-> NoMeta,
   clauses |-> <<>>, put |-> <<>>]

\* An option is a sequence of at most one element.
IsOption(o, S) == o \in Seq(S) /\ Len(o) <= 1
IsMeta(m) == IsOption(m.arglists, Seq(Params)) /\ IsOption(m.style, Nat)

\* Option::or_else.
Or(option, other) == IF option # <<>> THEN option ELSE other

confidence(matched, declared) ==
  IF declared THEN "Declared" ELSE IF matched THEN "Inferred" ELSE "Weak"

-----------------------------------------------------------------------------
(* The arglist heuristic: classify_arglist_params, harvest_defmacro.       *)

Unread == [leading |-> <<>>, docstring |-> FALSE, body |-> FALSE, matched |-> FALSE,
           declared |-> FALSE, rest |-> FALSE, done |-> FALSE]

\* Pushed: the role of a fixed slot; a parameter of no class holds one, too.
Slot(role) == IF role = None THEN "Other" ELSE role

read_symbolRestIsSlot(r, role) ==   \* faulty: the rest parameter is one more fixed argument
  LET known == [r EXCEPT !.matched = @ \/ role # None] IN
  CASE role = "Body" -> [known EXCEPT !.body = TRUE, !.done = TRUE]
    [] role = "Docstring" -> [known EXCEPT !.docstring = TRUE]
    [] OTHER -> [known EXCEPT !.leading = Append(@, Slot(role)), !.body = r.rest,
                              !.done = r.rest]

read_symbol(r, role) ==
  LET known == [r EXCEPT !.matched = @ \/ role # None] IN
  CASE r.rest \/ role = "Body" -> [known EXCEPT !.body = TRUE, !.done = TRUE]
    [] ~r.rest /\ role = "Docstring" -> [known EXCEPT !.docstring = TRUE]
    [] OTHER -> [known EXCEPT !.leading = Append(@, Slot(role))]

read_param(r, p) ==
  CASE r.done \/ p \in {"&optional", "list"} -> r
    [] ~r.done /\ p = "&rest" -> [r EXCEPT !.rest = TRUE]
    [] ~r.done /\ p \in HyRest ->
         [r EXCEPT !.matched = @ \/ p = "#*args", !.body = TRUE, !.rest = TRUE]
    [] OTHER -> read_symbol(r, class(p))

classify_arglist_params(params) ==
  LET read[n \in 0..Len(params)] ==   \* after n parameters
        IF n = 0 THEN Unread ELSE read_param(read[n - 1], params[n])
  IN  read[Len(params)]

\* HarvestProfile.
profile(macro_heads, doc_policy) ==
  [macro_heads |-> macro_heads, doc_policy |-> doc_policy, use_declare |-> FALSE,
   clojure_meta |-> FALSE]
harvest_profile ==
  Table({entry("EmacsLisp", [profile({"defmacro", "cl-defmacro"}, "LeadingOrLone")
                             EXCEPT !.use_declare = TRUE]),
         [d \in {"CommonLisp", "Lfe"} |-> profile({"defmacro"}, "Leading")],
         [d \in {"Clojure", "Phel"} |-> [profile({"defmacro"}, "Leading") EXCEPT !.clojure_meta = TRUE]],
         entry("Fennel", profile({"macro"}, "Leading")),
         entry("Janet", profile({"defmacro", "defmacro-"}, "Leading")),
         entry("Hy", profile({"defmacro"}, "LeadingOrLone")),
         entry("Islisp", profile({"defmacro"}, None))})

\* What is known of a form, and whether it was declared.
refine_declare(known, f) ==
  LET keys == {f.clauses[c].key : c \in DOMAIN f.clauses} IN
  [known EXCEPT !.docstring = @ \/ "doc-string" \in keys,
                !.declared = keys \intersect {"doc-string", "debug"} # {}]

\* Vec::resize, to no fewer.
widened(roles, n) == [k \in 1..Max({n, Len(roles)}) |->
                        IF k \in DOMAIN roles THEN roles[k] ELSE "Other"]
\* `:arglists' replaces what the parameters say if it names any role, else
\* `:style/indent' fixes where the body begins (0 stands for `:defn', `:form').
refine_meta(known, f) ==
  LET arglist == Or(f.meta.arglists, f.attr.arglists)
      style   == Or(f.meta.style, f.attr.style)
      given   == IF arglist = <<>> THEN Unread ELSE classify_arglist_params(arglist[1])
  IN  CASE given.matched -> [given EXCEPT !.declared = TRUE]
        [] ~given.matched /\ style # <<>> ->
             [known EXCEPT !.leading = widened(@, style[1]), !.body = TRUE, !.matched = TRUE,
                           !.declared = TRUE]
        [] OTHER -> known

harvest_defmacro(f, p) ==
  IF f.head \notin p.macro_heads \/ f.name = None \/ f.params = <<>> THEN <<>>
  ELSE LET read  == classify_arglist_params(f.params[1])
           known == CASE p.use_declare -> refine_declare(read, f)
                      [] p.clojure_meta -> refine_meta(read, f)
                      [] OTHER -> read
       IN  << FormSpec(known.leading, IF known.docstring THEN p.doc_policy ELSE None, known.body,
                       confidence(known.matched, known.declared)) >>

-----------------------------------------------------------------------------
(* The syntax-rules harvester: classify_pattern, harvest_scheme_macro.     *)

read_element(r, p) ==
  LET counted == [r EXCEPT !.matched = @ + 1] IN
  CASE r.done -> r
    [] ~r.done /\ p = "..." ->   \* the element before it repeats
         [counted EXCEPT !.leading = IF @ = <<>> THEN @ ELSE Front(@), !.body = TRUE, !.done = TRUE]
    [] ~r.done /\ p = "body" -> [counted EXCEPT !.body = TRUE, !.done = TRUE]
    [] ~r.done /\ p = "list" -> [counted EXCEPT !.leading = Append(@, "Arglist")]
    [] ~r.done /\ p \in Symbols \ {"body", "x"} ->
         [counted EXCEPT !.leading = Append(@, classify_param[p])]
    [] OTHER -> [r EXCEPT !.leading = Append(@, "Other")]

\* A pattern is taken without its first element, the macro's keyword.
Unmatched == [leading |-> <<>>, body |-> FALSE, matched |-> 0, done |-> FALSE]
classify_pattern(pattern) ==
  LET read[n \in 0..Len(pattern)] ==
        IF n = 0 THEN Unmatched ELSE read_element(read[n - 1], pattern[n])
  IN  read[Len(pattern)]

better(r, best) ==
  \/ r.matched > best.matched
  \/ r.matched = best.matched /\ Len(r.leading) > Len(best.leading)

\* The pattern with most known roles, then the longest, then the first.
richest(patterns) ==
  LET read == [n \in DOMAIN patterns |-> classify_pattern(patterns[n])]
      best[n \in 0..Len(patterns)] ==
        IF n = 0 THEN <<>>
        ELSE IF best[n - 1] = <<>> THEN <<read[n]>>
        ELSE IF better(read[n], best[n - 1][1]) THEN <<read[n]>> ELSE best[n - 1]
  IN  best[Len(patterns)]

harvest_define_macro(f) ==
  IF f.name = None \/ f.params = <<>> THEN <<>>
  ELSE LET read == classify_arglist_params(f.params[1]) IN
       << FormSpec(read.leading, None, read.body \/ f.tail, confidence(read.matched, FALSE)) >>

harvest_scheme_macro(f) ==
  CASE f.head = "define-macro" -> harvest_define_macro(f)
    [] f.head \in {"define-syntax-rule", "define-syntax", "define-syntax-parameter"}
         /\ f.name # None ->
         LET best == richest(f.patterns) IN
         IF best = <<>> THEN <<>>
         ELSE << FormSpec(best[1].leading, None, best[1].body,
                          confidence(best[1].matched > 0, FALSE)) >>
    [] OTHER -> <<>>

-----------------------------------------------------------------------------
is_syntax_rules_dialect == {"Scheme", "Guile", "Gauche", "Mosh", "Gambit", "SchemeSuperset",
                            "Racket"}

\* What harvest_source_for registers for one top-level datum, under its name.
harvested(dialect, f) ==
  CASE f.shape = "Prefixed" -> <<>>
    [] f.shape # "Prefixed" /\ dialect \in is_syntax_rules_dialect -> harvest_scheme_macro(f)
    [] f.shape # "Prefixed" /\ dialect \in DOMAIN harvest_profile ->
         harvest_defmacro(f, harvest_profile[dialect])
    [] OTHER -> <<>>

-----------------------------------------------------------------------------
(* Indentation.  A spec is a token: "nil", "defun", a number, or any other *)
(* text, which stands for the name of a function and for raw text.         *)

IndentSpecs == {"defun", "0", "1", "2", "text"}
Declarable  == IndentSpecs \union {"nil"}

\* What the harvesters may find in a form.
IsForm(f) ==
  /\ IsOption(f.params, Seq(Params)) /\ f.tail \in BOOLEAN /\ f.patterns \in Seq(Seq(Params))
  /\ IsMeta(f.meta) /\ IsMeta(f.attr)
  /\ DOMAIN f.clauses = 1..Len(f.clauses)
  /\ \A c \in DOMAIN f.clauses : f.clauses[c].spec \in Declarable
  /\ IsOption(f.put, Declarable)

indent_spec(spec) == IF spec = "nil" THEN <<>> ELSE <<spec>>

def_heads == {"def", "defun", "defmacro", "cl-defmacro", "define-macro", "define-syntax"}

\* What harvest_put and harvest_declare insert for one round list, under its name:
\* of several clauses the last that is not `nil' stays.
harvest_put(f) ==
  IF f.head # "put" \/ f.name = None \/ f.put = <<>> THEN <<>> ELSE indent_spec(f.put[1])
harvest_declare(f) ==
  LET said == {c \in DOMAIN f.clauses : f.clauses[c].key = "indent" /\ f.clauses[c].spec # "nil"}
  IN  IF f.head \notin def_heads \/ f.name = None \/ f.wrapped \/ said = {} THEN <<>>
      ELSE indent_spec(f.clauses[Max(said)].spec)
indents_of(f) == Or(harvest_declare(f), harvest_put(f))

bundled_table(dialect) ==
  IF dialect = "EmacsLisp"
  THEN Table({entry("defun", "2"), entry("deftheme", "1"), entry("define-skeleton", "defun")})
  ELSE NoSpecs
=============================================================================
