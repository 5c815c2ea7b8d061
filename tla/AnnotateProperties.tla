------------------------- MODULE AnnotateProperties -------------------------
(***************************************************************************)
(* What the annotator of module Annotate guarantees: which of several      *)
(* specs for a head is in force, and that the roles it gives the arguments *)
(* of a use are those the parameters of the macro's definition name.       *)
(***************************************************************************)
EXTENDS Annotate, FiniteSets

\* The parts tagged so far are the items from the head on, each exactly once and
\* in order, and the next item to tag is the one after them (annotate_form).
PartsTile ==
  /\ i \in 1..Len(form.items) + 1
  /\ \A k \in DOMAIN parts : parts[k].datum = k - 1
  /\ pc \in {"leading", "dispatch", "docstring", "body", "annotated"} => Len(parts) = i

\* Every variable has its type, and the parts tile the form.
TypeOK ==
  /\ layer \in 1..Len(plan.layers) + 1
  /\ pc \in {"specs", "indents"} => layer <= Len(plan.layers) /\ at \in 1..Len(source.form) + 1
  /\ \A h \in DOMAIN registry : registry[h] \in FormSpecs
  /\ \A s \in DOMAIN indents : indents[s] \in IndentSpecs
  /\ \A k \in DOMAIN parts : parts[k].role \in Role
  /\ PartsTile
  /\ pc \in {"layers", "specs", "indents", "leading", "dispatch", "docstring", "body",
             "annotated", "none"}

-----------------------------------------------------------------------------
(* The layers, read without running them.                                  *)

\* What a layer says of a key: pairs of a place in the layer and an option.  A
\* harvest registers the data no other contains, and reads indentation off the
\* forms that are not inside anything but round lists.
Executed(s, d) == \A a \in 1..d : d <= s.last[a] => s.form[a].shape = "Round"
TopLevel(s, d) == \A a \in 1..d - 1 : s.last[a] < d

SpecsSaid(dialect, l, key) ==
  CASE l.op = "insert" -> {<<1, <<l.spec>> >> : k \in {l.head} \intersect {key}}
    [] l.op = "remove" -> {<<1, <<>> >> : k \in {l.head} \intersect {key}}
    [] l.op = "merge"  -> {<<1, <<l.specs[k]>> >> : k \in DOMAIN l.specs \intersect {key}}
    [] l.op = "harvest" ->
         LET f == l.source.form IN
         {<<d, harvested(dialect, f[d])>> : d \in {d \in DOMAIN f :
            TopLevel(l.source, d) /\ f[d].name = key /\ harvested(dialect, f[d]) # <<>>}}

IndentsSaid(dialect, l, key) ==
  CASE l.op = "insert" -> {<<1, <<l.indent>> >> : k \in {l.head} \intersect {key}}
    [] l.op = "remove" -> {<<1, <<>> >> : k \in {l.head} \intersect {key}}
    [] l.op = "merge"  -> {<<1, <<l.indents[k]>> >> : k \in DOMAIN l.indents \intersect {key}}
    [] l.op = "harvest" ->
         LET f == l.source.form IN
         {<<d, indents_of(f[d])>> : d \in {d \in DOMAIN f : /\ dialect = "EmacsLisp"
            /\ Executed(l.source, d) /\ f[d].name = key /\ indents_of(f[d]) # <<>>}}

\* The last thing said of a key, or the bundled entry when nothing is said.
Entry(table, key) == IF key \in DOMAIN table THEN <<table[key]>> ELSE <<>>
LastSaid(said) == (CHOOSE e \in said : \A o \in said : o[1] <= e[1])[2]
InForce(said, bundled) ==
  LET spoken == {k \in DOMAIN said : said[k] # {}} IN
  IF spoken = {} THEN bundled ELSE LastSaid(said[Max(spoken)])

\* Whatever the layers are, a head has the spec, and a symbol the indentation,
\* that the last layer to mention it gave; later forms of a source beat earlier
\* ones, data and nested definitions do not count.
LaterLayersWin ==
  pc = "layers" /\ layer > Len(plan.layers) =>
    LET d == plan.dialect IN
    \A h \in {u.head : u \in plan.uses} :
      /\ Entry(registry, h) = InForce([k \in DOMAIN plan.layers |-> SpecsSaid(d, plan.layers[k], h)],
                                      Entry(bundled_registry[d], h))
      /\ Entry(indents, h) = InForce([k \in DOMAIN plan.layers |-> IndentsSaid(d, plan.layers[k], h)],
                                     Entry(bundled_table(d), h))

-----------------------------------------------------------------------------
(* The roles of a use, read off the definition of its macro.               *)

\* A plan with one definition, of which a spec is harvested, and what is declared
\* of its arguments: the pattern of its only rule, or its parameters, or what
\* Clojure's metadata says instead.
Alone == /\ Len(plan.layers) = 1 /\ plan.layers[1].op = "harvest"
         /\ Len(plan.layers[1].source.form) = 1
definition == plan.layers[1].source.form[1]
Used == /\ Alone /\ pc = "annotated" /\ form.head = definition.name
        /\ harvested(plan.dialect, definition) # <<>>
ByPattern(f) == f.head \in {"define-syntax", "define-syntax-rule", "define-syntax-parameter"}
Attested(f) == IF plan.dialect \in {"Clojure", "Phel"} THEN Or(f.meta.arglists, f.attr.arglists)
               ELSE <<>>
Declared(f) == IF ByPattern(f) THEN f.patterns[1] ELSE Or(Attested(f), f.params)[1]

\* Up to the first parameter that takes all that is left, each binds one argument;
\* in a pattern the element before an ellipsis takes what is left.
Takers == HyRest \union {"&rest", "body"}
Open(f) == f.tail \/ Range(Declared(f)) \intersect (Takers \union {"..."}) # {}
slots(ps) ==
  LET taken(n) == \E l \in 1..n : ps[l] \in Takers \/ (l < Len(ps) /\ ps[l + 1] = "...")
      among[n \in 0..Len(ps)] ==
        IF n = 0 THEN <<>>
        ELSE IF taken(n) \/ ps[n] = "&optional" THEN among[n - 1] ELSE Append(among[n - 1], ps[n])
  IN  among[Len(ps)]
Slots(f) == slots(Declared(f))

Roles(f, j) ==
  IF j <= Len(Slots(f)) THEN {IF Slots(f)[j] = "list" THEN "Arglist" ELSE Slot(class(Slots(f)[j]))}
  ELSE IF Open(f) THEN {"Body", "Declare", "Interactive"} ELSE {}
RolesGiven(j) == {parts[k].role : k \in {k \in DOMAIN parts : parts[k].datum = j}}

Documents(f, j) == ~ByPattern(f) /\ j <= Len(Slots(f)) /\ Slots(f)[j] = "doc"

\* Parameters are names, and one stands behind a rest marker, the last; nothing
\* stands behind a rest parameter, and something before an ellipsis.
Lambda(ps) ==
  /\ \A j \in DOMAIN ps : /\ ps[j] \notin {"list", "..."}
                          /\ ps[j] = "&rest" => j = Len(ps) - 1 /\ ps[j + 1] \in Symbols
                          /\ ps[j] \in HyRest => j = Len(ps)
Template(ps) ==
  /\ ps \in Seq(Symbols \union {"list", "..."})
  /\ ps # <<>> => ps[1] # "..."

\* Nothing else is said of the arguments: one pattern, no `:style/indent', no
\* `declare', `:arglists' that name a role; in a dialect that has docstrings if a
\* parameter is called one, and with a dotted tail only where it is read.
Plainly(f) ==
  /\ IF ByPattern(f) THEN Len(f.patterns) = 1 /\ Template(Declared(f)) ELSE Lambda(Declared(f))
  /\ f.meta.style = <<>> /\ f.attr.style = <<>> /\ f.clauses = <<>>
  /\ Attested(f) # <<>> => Range(Declared(f)) \intersect (Symbols \ {"x"}) # {}
  /\ (\E j \in DOMAIN Slots(f) : Documents(f, j)) =>
       plan.dialect \in DOMAIN harvest_profile \ {"Islisp"}
  /\ f.tail => f.head = "define-macro"

\* The use gives a string where a docstring is expected, and something after it
\* unless the dialect takes a lone string for documentation.
Suits(f) == \A j \in DOMAIN form.items : Documents(f, j) =>
              /\ form.items[j] = "Str"
              /\ j < Len(form.items) \/ plan.dialect \in {"EmacsLisp", "Hy"}

Follows(f) == \A j \in DOMAIN form.items :
                LET given == RolesGiven(j) IN given \subseteq Roles(f, j) /\ (Roles(f, j) # {} => given # {})

\* The argument a parameter binds gets the role the parameter's name stands for,
\* and what a rest parameter binds is body; a docstring parameter, if there is
\* one, is the last before the body.
RolesFollowParameters ==
  /\ Used /\ Plainly(definition) /\ Suits(definition)
  /\ \A j \in DOMAIN Slots(definition) : Documents(definition, j) => j = Len(Slots(definition))
  => Follows(definition)

-----------------------------------------------------------------------------
\* How a source's own macro definitions look to the annotator.
AsUse(f) ==
  [head |-> f.head,
   items |-> << IF f.wrapped THEN "Meta" ELSE "Symbol" >>
               \o (IF f.doc_first THEN <<"Str">> ELSE <<>>)
               \o (IF f.attr # NoMeta THEN <<"Curly">> ELSE <<>>) \o <<"Round", "Other">>]

\* Where the parameters stand in it.
ArglistAt(f) == Len(AsUse(f).items) - 1

\* Dialects in which a docstring may stand between the name and the arglist.
DocFirst == {"Clojure", "Phel", "Janet"}

\* What the annotator makes of a definition that the harvester registered.  A
\* name inside `^' metadata, which the harvester looks through, is no name to
\* the annotator: it gives the definition up.  Any other it annotates, and finds
\* the registered name.  Where a docstring may stand before the parameters it
\* finds that docstring, and the parameters, which the harvester reads the roles
\* from, are body to it; in the other dialects what follows the name is the
\* Arglist.  Not said of a source that redefines the form it defines macros with.
DefinitionsRecognised ==
  /\ Alone /\ pc \in {"annotated", "none"} /\ form = AsUse(definition)
  /\ plan.dialect \in DOMAIN harvest_profile
  /\ definition.name # definition.head /\ harvested(plan.dialect, definition) # <<>>
  => IF definition.wrapped THEN pc = "none"
     ELSE /\ pc = "annotated" /\ RolesGiven(1) = {"Name"}
          /\ IF plan.dialect \in DocFirst
             THEN /\ definition.doc_first => RolesGiven(2) = {"Docstring"}
                  /\ RolesGiven(ArglistAt(definition)) = {"Body"}
             ELSE RolesGiven(2) = {"Arglist"}

\* A string in last position is a value in Common Lisp and its kin: only Emacs
\* Lisp and Hy take a lone string for documentation, and a variable's string
\* counts only behind its value.
DocstringsAreNoValues ==
  pc = "annotated" /\ plan.dialect \notin is_syntax_rules_dialect =>
    \A j \in DOMAIN form.items : RolesGiven(j) = {"Docstring"} =>
      /\ form.items[j] = "Str"
      /\ (j = Len(form.items) /\ plan.dialect \notin {"EmacsLisp", "Hy"} => ~spec.body /\ j = 3)

-----------------------------------------------------------------------------
(* A statement of the repository that the code does not meet.              *)

\* "such a macro gets a Weak/partial spec, never a fabricated one" (ADR-0032):
\* the roles follow the parameters wherever the docstring parameter stands.
RolesFollowEveryParameter ==
  Used /\ Plainly(definition) /\ Suits(definition) => Follows(definition)
=============================================================================
