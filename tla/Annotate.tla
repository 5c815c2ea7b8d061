------------------------------ MODULE Annotate ------------------------------
(***************************************************************************)
(* The definition-form annotator of lispexp (src/src/annotate.rs) and the  *)
(* tables it reads.  A consumer starts from the tables bundled for its     *)
(* dialect, layers specs on top (its own, those of another registry, those *)
(* harvested from sources) and then annotates a form.                      *)
(***************************************************************************)
EXTENDS Harvest

CONSTANTS Plans   (* what the consumer does: the dialect, the layers in    *)
                  (* order, the forms it may annotate                      *)

\* A layer is a record with the field `op'; a source is its data in pre-order
\* (`form') with the last datum inside each (`last'); a use is its head and the
\* shapes of its arguments.
Shapes == {"Symbol", "Named", "Round", "Square", "Curly", "Str", "Declare", "Interactive", "Meta",
           "Other"}
IsSource(s) ==
  /\ DOMAIN s.form = 1..Len(s.form) /\ DOMAIN s.last = 1..Len(s.form)
  /\ \A d \in DOMAIN s.form :
       /\ IsForm(s.form[d]) /\ s.last[d] \in d..Len(s.form)
       /\ \A e \in d..s.last[d] : s.last[e] <= s.last[d]
IsLayer(l) ==
  \/ l.op = "insert" /\ l.spec \in FormSpecs /\ l.indent \in IndentSpecs
  \/ l.op = "remove"
  \/ /\ l.op = "merge"
     /\ l.specs \in [DOMAIN l.specs -> FormSpecs] /\ l.indents \in [DOMAIN l.indents -> IndentSpecs]
  \/ l.op = "harvest" /\ IsSource(l.source)

ASSUME AnnotateAssumption ==
  \A p \in Plans :
    /\ p.dialect \in DOMAIN bundled_registry
    /\ DOMAIN p.layers = 1..Len(p.layers)
    /\ \A k \in DOMAIN p.layers : IsLayer(p.layers[k])
    /\ \A u \in p.uses : u.items \in Seq(Shapes)

VARIABLES
  plan,       (* never changes                                             *)
  layer, at,  (* the layer at work, and in a harvest the datum looked at   *)
  registry,   (* Registry::specs                                           *)
  indents,    (* IndentTable::specs                                        *)
  form,       (* annotate_form: the form, ...                              *)
  i, parts,   (* ... the argument looked at, and the parts tagged so far   *)
  pc          (* "layers", "specs", "indents", "leading", "dispatch",      *)
              (* "docstring", "body", "annotated", "none"                  *)

vars == <<plan, layer, at, registry, indents, form, i, parts, pc>>
annotation == <<form, i, parts>>

-----------------------------------------------------------------------------
(* The layers: Registry::insert, remove, merge, their counterparts in      *)
(* IndentTable, and the two harvesters.                                    *)

Applies(op) == pc = "layers" /\ layer <= Len(plan.layers) /\ plan.layers[layer].op = op
this == plan.layers[layer]
NextLayer == layer' = layer + 1 /\ pc' = "layers" /\ UNCHANGED <<plan, at, annotation>>

mergedKeepingOwn(table, other) ==   \* faulty: an entry that is there stays
  [k \in DOMAIN table \union DOMAIN other |-> IF k \in DOMAIN table THEN table[k] ELSE other[k]]
merged(table, other) ==
  [k \in DOMAIN table \union DOMAIN other |-> IF k \in DOMAIN other THEN other[k] ELSE table[k]]
without(table, key) == [k \in DOMAIN table \ {key} |-> table[k]]

InsertSpec ==
  /\ Applies("insert") /\ NextLayer
  /\ registry' = merged(registry, entry(this.head, this.spec))
  /\ indents'  = merged(indents, entry(this.head, this.indent))

RemoveSpec ==
  /\ Applies("remove") /\ NextLayer
  /\ registry' = without(registry, this.head) /\ indents' = without(indents, this.head)

MergeTables ==
  /\ Applies("merge") /\ NextLayer
  /\ registry' = merged(registry, this.specs) /\ indents' = merged(indents, this.indents)

source == this.source
datum  == source.form[at]

StartHarvest ==
  /\ Applies("harvest")
  /\ at' = 1 /\ pc' = "specs"
  /\ UNCHANGED <<plan, layer, registry, indents, annotation>>

\* One turn of the loop of harvest_source_for: top-level data only.
HarvestDatum ==
  /\ pc = "specs" /\ at <= Len(source.form)
  /\ LET found == harvested(plan.dialect, datum) IN
     registry' = IF found = <<>> THEN registry ELSE merged(registry, entry(datum.name, found[1]))
  /\ at' = source.last[at] + 1
  /\ UNCHANGED <<plan, layer, indents, annotation, pc>>

\* Only Emacs Lisp sources declare indentation.
HarvestIndents ==
  /\ pc = "specs" /\ at > Len(source.form) /\ plan.dialect = "EmacsLisp"
  /\ at' = 1 /\ pc' = "indents"
  /\ UNCHANGED <<plan, layer, registry, indents, annotation>>

\* One call of harvest_form; it descends into round lists.
HarvestForm ==
  /\ pc = "indents" /\ at <= Len(source.form) /\ datum.shape = "Round"
  /\ LET said == indents_of(datum) IN
     indents' = IF said = <<>> THEN indents ELSE merged(indents, entry(datum.name, said[1]))
  /\ at' = at + 1
  /\ UNCHANGED <<plan, layer, registry, annotation, pc>>

SkipForm ==
  /\ pc = "indents" /\ at <= Len(source.form) /\ datum.shape # "Round"
  /\ at' = source.last[at] + 1
  /\ UNCHANGED <<plan, layer, registry, indents, annotation, pc>>

HarvestEnd ==
  /\ pc \in {"specs", "indents"} /\ at > Len(source.form)
  /\ pc = "specs" => plan.dialect # "EmacsLisp"
  /\ NextLayer /\ UNCHANGED <<registry, indents>>

-----------------------------------------------------------------------------
(* annotate_form.  Its `items' also holds the head, at 0: argument i is    *)
(* items[i] there and here.                                                *)

Lists == {"Named", "Round", "Square", "Curly", "Declare", "Interactive"}   \* is_delimited_list
NameShaped == {"Symbol", "Named", "Declare", "Interactive"}                \* is_name_shaped
here    == form.items[i]
more    == i <= Len(form.items)
spec    == registry[form.head]
tables  == <<plan, layer, at, registry, indents, form>>

Push(roles) ==
  /\ parts' = parts \o [k \in DOMAIN roles |-> [role |-> roles[k], datum |-> i + k - 1]]
  /\ i' = i + Len(roles)

Lookup(use) ==
  /\ pc = "layers" /\ layer > Len(plan.layers)
  /\ form' = use /\ i' = 1
  /\ IF use.head \in DOMAIN registry
     THEN parts' = <<[role |-> "Keyword", datum |-> 0]>> /\ pc' = "leading"
     ELSE parts' = <<>> /\ pc' = "none"
  /\ UNCHANGED <<plan, layer, at, registry, indents>>

AtSlot == i <= Len(spec.leading) /\ more
Misnamed == spec.leading[i] = "Name" /\ here \notin NameShaped

TagLeading ==
  /\ pc = "leading" /\ AtSlot /\ ~Misnamed
  /\ Push(<<spec.leading[i]>>)
  /\ UNCHANGED <<tables, pc>>

NotNamed ==
  /\ pc = "leading" /\ AtSlot /\ Misnamed
  /\ parts' = <<>> /\ pc' = "none"
  /\ UNCHANGED <<tables, i>>

LeadingEnd ==
  /\ pc = "leading" /\ ~AtSlot
  /\ pc' = "dispatch"
  /\ UNCHANGED <<tables, i, parts>>

TagQualifier ==
  /\ pc = "dispatch" /\ spec.dispatch = "Qualifiers" /\ more /\ here \notin Lists
  /\ Push(<<"Qualifier">>)
  /\ UNCHANGED <<tables, pc>>

TagSpecializedArglist ==
  /\ pc = "dispatch" /\ spec.dispatch = "Qualifiers" /\ more /\ here \in Lists
  /\ Push(<<"SpecializedArglist">>)
  /\ pc' = "docstring" /\ UNCHANGED tables

TagDispatchValueWithArglist ==   \* faulty: takes for granted that an arglist follows
  /\ pc = "dispatch" /\ spec.dispatch = "Value" /\ more
  /\ Push(<<"DispatchValue", "Arglist">>)
  /\ pc' = "docstring" /\ UNCHANGED tables

TagDispatchValue ==
  /\ pc = "dispatch" /\ spec.dispatch = "Value" /\ more
  /\ Push(IF i < Len(form.items) /\ form.items[i + 1] = "Square"
          THEN <<"DispatchValue", "Arglist">> ELSE <<"DispatchValue">>)
  /\ pc' = "docstring" /\ UNCHANGED tables

NoDispatch ==
  /\ pc = "dispatch" /\ (spec.dispatch = None \/ ~more)
  /\ pc' = "docstring"
  /\ UNCHANGED <<tables, i, parts>>

acceptedLone ==   \* faulty: counts the form itself among the forms after it
  more /\ here = "Str" /\ CASE spec.docstring = None -> FALSE
                            [] spec.docstring = "Leading" -> i < Len(form.items) + 1
                            [] spec.docstring = "LeadingOrLone" -> TRUE

accepted ==
  more /\ here = "Str" /\ CASE spec.docstring = None -> FALSE
                            [] spec.docstring = "Leading" -> i < Len(form.items)
                            [] spec.docstring = "LeadingOrLone" -> TRUE

TagDocstring ==
  /\ pc = "docstring"
  /\ Push(IF accepted THEN <<"Docstring">> ELSE <<>>)
  /\ pc' = "body" /\ UNCHANGED tables

body_role(item) == IF item \in {"Declare", "Interactive"} THEN item ELSE "Body"

TagBody ==
  /\ pc = "body"
  /\ LET rest == SubSeq(form.items, i, Len(form.items))
     IN  Push(IF spec.body THEN [k \in DOMAIN rest |-> body_role(rest[k])] ELSE <<>>)
  /\ pc' = "annotated" /\ UNCHANGED tables

-----------------------------------------------------------------------------
Init ==
  /\ plan \in Plans
  /\ layer = 1 /\ at = 1
  /\ registry = bundled_registry[plan.dialect] /\ indents = bundled_table(plan.dialect)
  /\ form = [head |-> None, items |-> <<>>] /\ i = 1 /\ parts = <<>> /\ pc = "layers"

Next ==
  \/ InsertSpec \/ RemoveSpec \/ MergeTables
  \/ StartHarvest \/ HarvestDatum \/ HarvestIndents \/ HarvestForm \/ SkipForm \/ HarvestEnd
  \/ \E use \in plan.uses : Lookup(use)
  \/ TagLeading \/ NotNamed \/ LeadingEnd
  \/ TagQualifier \/ TagSpecializedArglist \/ TagDispatchValue \/ NoDispatch
  \/ TagDocstring \/ TagBody

Spec == Init /\ [][Next]_vars
=============================================================================
