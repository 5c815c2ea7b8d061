--------------------------- MODULE AnnotateProofs ---------------------------
(***************************************************************************)
(* Theorems about the annotator, for every dialect, every sequence of      *)
(* layers and every form: annotate_form tags each argument once and in     *)
(* order, the tables hold specs, a string that is a value is never taken   *)
(* for documentation, the last layer to mention a head decides, and what   *)
(* is harvested from a definition says how the definition and its uses are *)
(* annotated.                                                              *)
(***************************************************************************)
EXTENDS AnnotateProperties, FunctionTheorems, SequenceTheorems, WellFoundedInduction, TLAPS

-----------------------------------------------------------------------------
(* Loops over a sequence: what they compute stays in a set.                *)

LEMMA Upwards ==
  ASSUME NEW l \in Nat, NEW S, 0 \in S, \A n \in 1..l : n - 1 \in S => n \in S
  PROVE  0..l \subseteq S
  <1> DEFINE T == {n \in 0..l : n \notin S}
             R == OpToRel(<, Nat)
  <1> SUFFICES ASSUME T # {}
               PROVE  FALSE
    OBVIOUS
  <1>1. T \subseteq Nat
    OBVIOUS
  <1>2. IsWellFoundedOn(R, Nat)
    BY NatLessThanWellFounded
  <1>3. \A x, y \in Nat : y < x => <<y, x>> \in R
    BY DEF OpToRel
  <1> HIDE DEF R
  <1>4. PICK n \in T : \A y \in T : ~(<<y, n>> \in R)
    BY <1>1, <1>2, WFMin
  <1>5. n \in 1..l /\ n - 1 \in Nat /\ n - 1 < n
    OBVIOUS
  <1>6. n - 1 \notin T
    BY <1>1, <1>3, <1>4, <1>5
  <1>7. QED
    BY <1>5, <1>6

\* The states of a loop over l turns, the first of which is base.
HasRun(l, T, base, step) ==
  \E f \in [0..l -> T] : f[0] = base /\ \A n \in 1..l : f[n] = step[n][f[n - 1]]

\* A loop whose turns map a state in T to one in T has a run.
LEMMA LoopRuns ==
  ASSUME NEW l \in Nat, NEW T, NEW base \in T, NEW step \in [1..l -> [T -> T]]
  PROVE  HasRun(l, T, base, step)
  <1> DEFINE Upto(f, m) == f[0] = base /\ \A n \in 1..m : f[n] = step[n][f[n - 1]]
             S == {m \in 0..l : \E f \in [0..l -> T] : Upto(f, m)}
  <1>1. 0 \in S
    <2> DEFINE f == [n \in 0..l |-> base]
    <2>1. f \in [0..l -> T] /\ Upto(f, 0) /\ 0 \in 0..l
      OBVIOUS
    <2> HIDE DEF f, Upto
    <2>2. QED
      BY <2>1
  <1>2. ASSUME NEW m \in 1..l, m - 1 \in S
        PROVE  m \in S
    <2>1. PICK f \in [0..l -> T] : Upto(f, m - 1)
      BY <1>2
    <2> DEFINE g == [f EXCEPT ![m] = step[m][f[m - 1]]]
    <2>2. g \in [0..l -> T]
      OBVIOUS
    <2>3. Upto(g, m)
      BY <2>1
    <2> HIDE DEF g, Upto
    <2>4. QED
      BY <2>2, <2>3
  <1> HIDE DEF S
  <1>3. 0..l \subseteq S
    BY <1>1, <1>2, Upwards
  <1>4. QED
    BY <1>3 DEF S, HasRun

Reads == [leading : Seq({"Name", "Arglist", "Other"}), docstring : BOOLEAN, body : BOOLEAN,
          matched : BOOLEAN, declared : BOOLEAN, rest : BOOLEAN, done : BOOLEAN]

LEMMA ParamReads ==
  ASSUME NEW r \in Reads, NEW p \in Params
  PROVE  read_param(r, p) \in Reads
  <1>1. class(p) \in {"Name", "Arglist", "Docstring", "Body", None}
    BY DEF class, Symbols, classify_param
  <1>2. ASSUME NEW role \in {"Name", "Arglist", "Docstring", "Body", None}
        PROVE  read_symbol(r, role) \in Reads
    <2> DEFINE m == r.matched \/ role # None
               known == [r EXCEPT !.matched = m]
    <2>1. m \in BOOLEAN
      OBVIOUS
    <2>2. known \in Reads
      <3> HIDE DEF m
      <3>1. QED
        BY <2>1 DEF Reads
    <2>3. read_symbol(r, role) =
            CASE r.rest \/ role = "Body" -> [known EXCEPT !.body = TRUE, !.done = TRUE]
                [] ~r.rest /\ role = "Docstring" -> [known EXCEPT !.docstring = TRUE]
                [] OTHER -> [known EXCEPT !.leading = Append(@, Slot(role))]
      BY DEF read_symbol
    <2> HIDE DEF known
    <2>4. CASE r.rest \/ role = "Body"
      BY <2>2, <2>3, <2>4 DEF Reads
    <2>5. CASE ~r.rest /\ role = "Docstring"
      BY <2>2, <2>3, <2>5 DEF Reads
    <2>6. CASE ~(r.rest \/ role = "Body") /\ ~(~r.rest /\ role = "Docstring")
      <3>1. read_symbol(r, role) = [known EXCEPT !.leading = Append(@, Slot(role))]
        BY <2>3, <2>6
      <3>2. Slot(role) \in {"Name", "Arglist", "Other"}
        BY <2>6 DEF Slot, None
      <3>3. Append(known.leading, Slot(role)) \in Seq({"Name", "Arglist", "Other"})
        BY <2>2, <3>2 DEF Reads
      <3>4. QED
        BY <2>2, <3>1, <3>3 DEF Reads
    <2>7. QED
      BY <2>4, <2>5, <2>6
  <1>3. CASE r.done \/ p \in {"&optional", "list"}
    <2>1. read_param(r, p) = r
      BY <1>3 DEF read_param, HyRest
    <2>2. QED
      BY <2>1
  <1>4. CASE ~r.done /\ p = "&rest"
    <2>1. read_param(r, p) = [r EXCEPT !.rest = TRUE]
      BY <1>4 DEF read_param, HyRest
    <2>2. QED
      BY <2>1 DEF Reads
  <1>5. CASE ~r.done /\ p \in HyRest
    <2> DEFINE m == r.matched \/ p = "#*args"
    <2>1. read_param(r, p) = [r EXCEPT !.matched = m, !.body = TRUE, !.rest = TRUE]
      BY <1>5 DEF read_param, HyRest
    <2>2. m \in BOOLEAN
      OBVIOUS
    <2> HIDE DEF m
    <2>3. QED
      BY <2>1, <2>2 DEF Reads
  <1>6. CASE ~r.done /\ p \notin {"&optional", "list", "&rest"} \union HyRest
    <2>1. read_param(r, p) = read_symbol(r, class(p))
      BY <1>6 DEF read_param
    <2>2. QED
      BY <1>1, <1>2, <2>1
  <1>7. QED
    BY <1>3, <1>4, <1>5, <1>6

LEMMA ArglistRun ==
  ASSUME NEW params \in Seq(Params)
  PROVE  \E read \in [0..Len(params) -> Reads] :
           /\ read[0] = Unread /\ \A n \in 1..Len(params) : read[n] = read_param(read[n - 1], params[n])
           /\ classify_arglist_params(params) = read[Len(params)]
  <1> DEFINE l == Len(params)
             step == [n \in 1..l |-> [r \in Reads |-> read_param(r, params[n])]]
             F(f) == [n \in 0..l |-> IF n = 0 THEN Unread ELSE read_param(f[n - 1], params[n])]
             read == CHOOSE f : f = F(f)
  <1>0. l \in Nat
    OBVIOUS
  <1>1. l \in Nat /\ \A n \in 1..l : params[n] \in Params
    OBVIOUS
  <1>2. Unread \in Reads
    BY DEF Unread, Reads
  <1>3. step \in [1..l -> [Reads -> Reads]]
    BY <1>1, ParamReads
  <1>4. HasRun(l, Reads, Unread, step)
    <2> HIDE DEF step, l
    <2>1. QED
      BY <1>0, <1>2, <1>3, LoopRuns
  <1>5. \E f : f = F(f)
    <2>1. PICK f \in [0..l -> Reads] : f[0] = Unread /\ \A n \in 1..l : f[n] = step[n][f[n - 1]]
      BY <1>4 DEF HasRun
    <2>2. \A n \in 0..l : f[n] = IF n = 0 THEN Unread ELSE read_param(f[n - 1], params[n])
      BY <1>1, <2>1
    <2>3. f = F(f)
      BY <2>2
    <2>4. QED
      BY <2>3
  <1>6. read = F(read)
    <2> HIDE DEF F
    <2>1. QED
      BY <1>5
  <1>7. classify_arglist_params(params) = read[l]
    BY DEF classify_arglist_params
  <1> HIDE DEF read
  <1> DEFINE S == {n \in 0..l : read[n] \in Reads}
  <1>8. 0 \in S
    BY <1>1, <1>2, <1>6
  <1>9. ASSUME NEW n \in 1..l, n - 1 \in S
        PROVE  n \in S
    <2>1. read[n] = read_param(read[n - 1], params[n])
      BY <1>1, <1>6
    <2>2. QED
      BY <1>1, <1>9, <2>1, ParamReads
  <1> HIDE DEF S
  <1>10. 0..l \subseteq S
    <2> HIDE DEF l
    <2>1. QED
      BY <1>1, <1>8, <1>9, Upwards
  <1>11. \A n \in 0..l : read[n] \in Reads
    BY <1>10 DEF S
  <1>12. read \in [0..l -> Reads]
    BY <1>6, <1>11
  <1>13. read[0] = Unread /\ \A n \in 1..l : read[n] = read_param(read[n - 1], params[n])
    BY <1>0, <1>6
  <1>14. QED
    BY <1>7, <1>12, <1>13

LEMMA ArglistReads ==
  ASSUME NEW params \in Seq(Params)
  PROVE  classify_arglist_params(params) \in Reads
  <1>1. PICK read \in [0..Len(params) -> Reads] : classify_arglist_params(params) = read[Len(params)]
    BY ArglistRun
  <1>2. QED
    BY <1>1

-----------------------------------------------------------------------------
(* Tables, and the specs bundled for each dialect.                         *)

\* A table of values in S.
IsTable(t, S) == t \in [DOMAIN t -> S]

\* What is in a table is in one of those it was put together from.
LEMMA RowOfTable ==
  ASSUME NEW rows, NEW k \in DOMAIN Table(rows)
  PROVE  \E row \in rows : k \in DOMAIN row /\ Table(rows)[k] = row[k]
  <1> DEFINE row == CHOOSE row \in rows : k \in DOMAIN row
  <1>1. k \in UNION {DOMAIN r : r \in rows} /\ Table(rows)[k] = row[k]
    BY DEF Table
  <1>2. \E r \in rows : k \in DOMAIN r
    BY <1>1
  <1>3. row \in rows /\ k \in DOMAIN row
    BY <1>2
  <1>4. QED
    BY <1>1, <1>3

LEMMA TablesUnite ==
  ASSUME NEW S, NEW rows, \A row \in rows : IsTable(row, S)
  PROVE  IsTable(Table(rows), S)
  <1> DEFINE t == Table(rows)
  <1>1. t = [k \in DOMAIN t |-> t[k]]
    BY DEF Table
  <1>2. ASSUME NEW k \in DOMAIN t
        PROVE  t[k] \in S
    <2>1. PICK row \in rows : k \in DOMAIN row /\ t[k] = row[k]
      BY RowOfTable
    <2>2. QED
      BY <2>1 DEF IsTable
  <1> HIDE DEF t
  <1>3. IsTable(t, S)
    BY <1>1, <1>2 DEF IsTable
  <1>4. QED
    BY <1>3 DEF t

\* The profiles, dialect by dialect.
ProfileIs(p, heads, policy, declare, meta) ==
  /\ p.macro_heads = heads /\ p.doc_policy = policy
  /\ p.use_declare = declare /\ p.clojure_meta = meta
Profiled(d, p) ==
  \/ d \in {"EmacsLisp"} /\ ProfileIs(p, {"defmacro", "cl-defmacro"}, "LeadingOrLone", TRUE, FALSE)
  \/ d \in {"CommonLisp", "Lfe"} /\ ProfileIs(p, {"defmacro"}, "Leading", FALSE, FALSE)
  \/ d \in {"Clojure", "Phel"} /\ ProfileIs(p, {"defmacro"}, "Leading", FALSE, TRUE)
  \/ d \in {"Fennel"} /\ ProfileIs(p, {"macro"}, "Leading", FALSE, FALSE)
  \/ d \in {"Janet"} /\ ProfileIs(p, {"defmacro", "defmacro-"}, "Leading", FALSE, FALSE)
  \/ d \in {"Hy"} /\ ProfileIs(p, {"defmacro"}, "LeadingOrLone", FALSE, FALSE)
  \/ d \in {"Islisp"} /\ ProfileIs(p, {"defmacro"}, None, FALSE, FALSE)

LEMMA ProfileOf ==
  ASSUME NEW d \in DOMAIN harvest_profile
  PROVE  Profiled(d, harvest_profile[d])
  <1> DEFINE r1 == entry("EmacsLisp", [profile({"defmacro", "cl-defmacro"}, "LeadingOrLone")
               EXCEPT !.use_declare = TRUE])
             r2 == [x \in {"CommonLisp", "Lfe"} |-> profile({"defmacro"}, "Leading")]
             r3 == [x \in {"Clojure", "Phel"} |-> [profile({"defmacro"}, "Leading")
               EXCEPT !.clojure_meta = TRUE]]
             r4 == entry("Fennel", profile({"macro"}, "Leading"))
             r5 == entry("Janet", profile({"defmacro", "defmacro-"}, "Leading"))
             r6 == entry("Hy", profile({"defmacro"}, "LeadingOrLone"))
             r7 == entry("Islisp", profile({"defmacro"}, None))
             rows == {r1, r2, r3, r4, r5, r6, r7}
  <1>1. \A heads, policy : ProfileIs(profile(heads, policy), heads, policy, FALSE, FALSE)
    BY DEF profile, ProfileIs
  <1>2. \A heads, policy : ProfileIs([profile(heads, policy) EXCEPT !.use_declare = TRUE], heads,
          policy, TRUE, FALSE)
    BY DEF profile, ProfileIs
  <1>3. \A heads, policy : ProfileIs([profile(heads, policy) EXCEPT !.clojure_meta = TRUE], heads,
          policy, FALSE, TRUE)
    BY DEF profile, ProfileIs
  <1>r1. \A k \in DOMAIN r1 : k \in {"EmacsLisp"}
           /\ ProfileIs(r1[k], {"defmacro", "cl-defmacro"}, "LeadingOrLone", TRUE, FALSE)
    BY <1>2 DEF entry
  <1>r2. \A k \in DOMAIN r2 : k \in {"CommonLisp", "Lfe"}
           /\ ProfileIs(r2[k], {"defmacro"}, "Leading", FALSE, FALSE)
    BY <1>1 DEF entry
  <1>r3. \A k \in DOMAIN r3 : k \in {"Clojure", "Phel"}
           /\ ProfileIs(r3[k], {"defmacro"}, "Leading", FALSE, TRUE)
    BY <1>3 DEF entry
  <1>r4. \A k \in DOMAIN r4 : k \in {"Fennel"} /\ ProfileIs(r4[k], {"macro"}, "Leading", FALSE, FALSE)
    BY <1>1 DEF entry
  <1>r5. \A k \in DOMAIN r5 : k \in {"Janet"}
           /\ ProfileIs(r5[k], {"defmacro", "defmacro-"}, "Leading", FALSE, FALSE)
    BY <1>1 DEF entry
  <1>r6. \A k \in DOMAIN r6 : k \in {"Hy"} /\ ProfileIs(r6[k], {"defmacro"}, "LeadingOrLone", FALSE, FALSE)
    BY <1>1 DEF entry
  <1>r7. \A k \in DOMAIN r7 : k \in {"Islisp"} /\ ProfileIs(r7[k], {"defmacro"}, None, FALSE, FALSE)
    BY <1>1 DEF entry
  <1>4. harvest_profile = Table(rows)
    BY DEF harvest_profile
  <1> HIDE DEF r1, r2, r3, r4, r5, r6, r7
  <1>5. \A row \in rows : \A k \in DOMAIN row : Profiled(k, row[k])
    BY <1>r1, <1>r2, <1>r3, <1>r4, <1>r5, <1>r6, <1>r7 DEF Profiled
  <1> HIDE DEF rows
  <1>6. PICK row \in rows : d \in DOMAIN row /\ harvest_profile[d] = row[d]
    BY <1>4, RowOfTable
  <1>7. QED
    BY <1>5, <1>6

\* Only Emacs Lisp and Hy take a lone string for documentation.
LEMMA ProfilesSober ==
  ASSUME NEW d \in DOMAIN harvest_profile
  PROVE  /\ harvest_profile[d].doc_policy \in Docstrings
         /\ harvest_profile[d].doc_policy = "LeadingOrLone" => d \in {"EmacsLisp", "Hy"}
  <1>1. Profiled(d, harvest_profile[d])
    BY ProfileOf
  <1>2. QED
    BY <1>1 DEF Profiled, ProfileIs, Docstrings, None

Sober(d, s) ==
  /\ \A k \in DOMAIN s.leading : s.leading[k] # "Docstring"
  /\ s.docstring = "LeadingOrLone" /\ d \notin {"EmacsLisp", "Hy"} =>
       ~s.body /\ Len(s.leading) = 2 /\ s.dispatch = None
SoberSpecs(d) == {s \in FormSpecs : Sober(d, s)}

LEMMA SpecIsSober ==
  ASSUME NEW d, NEW leading \in {name, fnlike, varlike, <<"Name", "Other", "Other">>},
         NEW docstring \in Docstrings, NEW body \in BOOLEAN, NEW category \in Categories,
         docstring = "LeadingOrLone" /\ d \notin {"EmacsLisp", "Hy"} => ~body /\ leading = varlike
  PROVE  [FormSpec(leading, docstring, body, "Builtin") EXCEPT !.category = category] \in SoberSpecs(d)
  <1>1. leading \in Seq(Role) /\ \A k \in DOMAIN leading : leading[k] # "Docstring"
    <2>1. CASE leading = name
      BY <2>1 DEF name, Role
    <2>2. CASE leading = fnlike
      BY <2>2 DEF fnlike, Role
    <2>3. CASE leading = varlike
      BY <2>3 DEF varlike, Role
    <2>4. CASE leading = <<"Name", "Other", "Other">>
      BY <2>4 DEF Role
    <2>5. QED
      BY <2>1, <2>2, <2>3, <2>4
  <1>2. leading = varlike => Len(leading) = 2
    BY DEF varlike
  <1> DEFINE s == [FormSpec(leading, docstring, body, "Builtin") EXCEPT !.category = category]
  <1>3. s = [leading |-> leading, docstring |-> docstring, body |-> body, category |-> category,
             dispatch |-> None, confidence |-> "Builtin"]
    BY DEF FormSpec
  <1>4. s \in FormSpecs
    BY <1>1, <1>3 DEF FormSpecs, Dispatches, Confidences
  <1> HIDE DEF s
  <1>5. s.leading = leading /\ s.docstring = docstring /\ s.body = body /\ s.dispatch = None
    BY <1>3
  <1>6. Sober(d, s)
    BY <1>1, <1>2, <1>5 DEF Sober
  <1>7. QED
    BY <1>4, <1>6 DEF SoberSpecs, s

LEMMA RowsSober ==
  ASSUME NEW d, NEW heads, NEW leading \in {name, fnlike, varlike, <<"Name", "Other", "Other">>},
         NEW docstring \in Docstrings, NEW body \in BOOLEAN, NEW category \in Categories,
         docstring = "LeadingOrLone" /\ d \notin {"EmacsLisp", "Hy"} => ~body /\ leading = varlike
  PROVE  IsTable(def(heads, leading, docstring, body, category), SoberSpecs(d))
  <1> DEFINE s == [FormSpec(leading, docstring, body, "Builtin") EXCEPT !.category = category]
  <1>1. s \in SoberSpecs(d)
    BY SpecIsSober
  <1>2. def(heads, leading, docstring, body, category) = [h \in heads |-> s]
    BY DEF def
  <1> HIDE DEF s
  <1>3. QED
    BY <1>1, <1>2 DEF IsTable

LEMMA MethodsSober ==
  ASSUME NEW d, NEW head, NEW dispatch \in Dispatches, NEW docstring \in Docstrings,
         docstring = "LeadingOrLone" => d \in {"EmacsLisp", "Hy"}
  PROVE  IsTable(method(head, dispatch, docstring), SoberSpecs(d))
  <1> DEFINE s == [FormSpec(<<"Name">>, docstring, TRUE, "Builtin")
                     EXCEPT !.category = "Method", !.dispatch = dispatch]
  <1> DEFINE named == <<"Name">>
             f == FormSpec(named, docstring, TRUE, "Builtin")
  <1>0. named \in Seq(Role) /\ \A k \in DOMAIN named : named[k] # "Docstring"
    BY DEF Role
  <1> HIDE DEF named
  <1>a. f = [leading |-> named, docstring |-> docstring, body |-> TRUE, category |-> None,
             dispatch |-> None, confidence |-> "Builtin"]
    BY DEF FormSpec
  <1>b. s = [f EXCEPT !.category = "Method", !.dispatch = dispatch]
    BY DEF named
  <1> HIDE DEF s, f
  <1>1. s = [leading |-> named, docstring |-> docstring, body |-> TRUE, category |-> "Method",
             dispatch |-> dispatch, confidence |-> "Builtin"]
    BY <1>a, <1>b
  <1>2. s \in FormSpecs
    BY <1>0, <1>1 DEF FormSpecs, Confidences, Categories
  <1>3. method(head, dispatch, docstring) = [h \in {head} |-> s]
    BY DEF method, entry, s
  <1>4. s.leading = named /\ s.docstring = docstring
    BY <1>1
  <1>5. Sober(d, s)
    BY <1>0, <1>4 DEF Sober
  <1>6. QED
    BY <1>2, <1>3, <1>5 DEF IsTable, SoberSpecs

\* The bundled registries hold specs that keep to their dialect's docstrings.
LEMMA BuiltinsSober ==
  ASSUME NEW d \in DOMAIN bundled_registry
  PROVE  IsTable(bundled_registry[d], SoberSpecs(d))
  <1> DEFINE S == SoberSpecs(d)
             elisp == d \in {"EmacsLisp", "Hy"}
  <1>1. None \in Docstrings /\ "Leading" \in Docstrings /\ "LeadingOrLone" \in Docstrings
    BY DEF Docstrings
  <1>2. /\ {None, "Function", "Macro", "Variable", "Constant", "Class", "Struct", "Generic", "Method",
            "Type", "Test"} \subseteq Categories
        /\ {None, "Qualifiers", "Value"} \subseteq Dispatches
    BY DEF Categories, Dispatches
  <1>3. ASSUME NEW heads, NEW leading \in {name, fnlike, varlike, <<"Name", "Other", "Other">>},
               NEW docstring \in {None, "Leading"}, NEW body \in BOOLEAN, NEW category \in Categories
        PROVE  IsTable(def(heads, leading, docstring, body, category), S)
    BY <1>1, RowsSober DEF None
  <1>4. ASSUME NEW heads, NEW leading \in {name, fnlike, varlike, <<"Name", "Other", "Other">>},
               NEW body \in BOOLEAN, NEW category \in Categories, elisp
        PROVE  IsTable(def(heads, leading, "LeadingOrLone", body, category), S)
    BY <1>1, <1>4, RowsSober
  <1>5. ASSUME NEW heads, NEW category \in Categories
        PROVE  IsTable(def(heads, varlike, "LeadingOrLone", FALSE, category), S)
    BY <1>1, RowsSober
  <1>6. ASSUME NEW head, NEW dispatch \in Dispatches, NEW docstring \in {None, "Leading"}
        PROVE  IsTable(method(head, dispatch, docstring), S)
    BY <1>1, MethodsSober DEF None
  <1>7. ASSUME NEW head, NEW dispatch \in Dispatches, elisp
        PROVE  IsTable(method(head, dispatch, "LeadingOrLone"), S)
    BY <1>1, <1>7, MethodsSober
  <1> HIDE DEF S, elisp
  <1>8. elisp => IsTable(emacs_lisp_builtins, S)
    <2> SUFFICES ASSUME elisp
                 PROVE  IsTable(emacs_lisp_builtins, S)
      OBVIOUS
    <2> DEFINE r1 == def({"defun", "defsubst", "cl-defun", "cl-defsubst", "define-inline"},
                         fnlike, "LeadingOrLone", TRUE, "Function")
               r2 == def({"defmacro", "cl-defmacro"}, fnlike, "LeadingOrLone", TRUE, "Macro")
               r3 == def({"cl-defgeneric"}, fnlike, "LeadingOrLone", TRUE, "Generic")
               r4 == method("cl-defmethod", "Qualifiers", "LeadingOrLone")
               r5 == def({"defvar", "defvar-local"}, varlike, "LeadingOrLone", FALSE, "Variable")
               r6 == def({"defconst"}, varlike, "LeadingOrLone", FALSE, "Constant")
               r7 == def({"defcustom", "defface"}, varlike, "LeadingOrLone", TRUE, "Variable")
               r8 == def({"defgroup"}, varlike, "LeadingOrLone", TRUE, None)
               r9 == def({"defvar-keymap"}, name, None, TRUE, "Variable")
               r10 == def({"define-minor-mode", "define-global-minor-mode"}, name,
                          "LeadingOrLone", TRUE, None)
               r11 == def({"define-derived-mode"}, <<"Name", "Other", "Other">>, "LeadingOrLone",
                          TRUE, None)
               r12 == def({"cl-defstruct"}, name, "LeadingOrLone", TRUE, "Struct")
               r13 == def({"ert-deftest"}, fnlike, "LeadingOrLone", TRUE, "Test")
    <2>1. IsTable(r1, S) /\ IsTable(r2, S) /\ IsTable(r3, S) /\ IsTable(r4, S)
      BY <1>2, <1>3, <1>4, <1>5, <1>6, <1>7
    <2>2. IsTable(r5, S) /\ IsTable(r6, S) /\ IsTable(r7, S) /\ IsTable(r8, S)
      BY <1>2, <1>3, <1>4, <1>5, <1>6, <1>7
    <2>3. IsTable(r9, S) /\ IsTable(r10, S) /\ IsTable(r11, S) /\ IsTable(r12, S)
      BY <1>2, <1>3, <1>4, <1>5, <1>6, <1>7
    <2>4. IsTable(r13, S)
      BY <1>2, <1>3, <1>4, <1>5, <1>6, <1>7
    <2>5. emacs_lisp_builtins = Table({r1, r2, r3, r4, r5, r6, r7, r8, r9, r10, r11, r12, r13})
      BY DEF emacs_lisp_builtins
    <2> HIDE DEF r1, r2, r3, r4, r5, r6, r7, r8, r9, r10, r11, r12, r13
    <2>6. QED
      BY <2>1, <2>2, <2>3, <2>4, <2>5, TablesUnite
  <1>9. IsTable(scheme_builtins, S)
    <2> DEFINE r1 == def({"define", "define-values", "define-library"}, name, None, TRUE, None)
               r2 == def({"define-syntax"}, name, None, TRUE, "Macro")
               r3 == def({"define-record-type"}, name, None, TRUE, "Type")
    <2>1. IsTable(r1, S) /\ IsTable(r2, S) /\ IsTable(r3, S)
      BY <1>2, <1>3, <1>4, <1>5, <1>6, <1>7
    <2>2. scheme_builtins = Table({r1, r2, r3})
      BY DEF scheme_builtins
    <2> HIDE DEF r1, r2, r3
    <2>3. QED
      BY <2>1, <2>2, TablesUnite
  <1>10. IsTable(scheme_extended_builtins, S)
    <2> DEFINE r1 == def({"define-class"}, name, None, TRUE, "Class")
               r2 == def({"define-generic"}, name, None, FALSE, "Generic")
               r3 == def({"define-constant"}, varlike, None, FALSE, "Constant")
               r4 == def({"define-syntax-rule"}, name, None, TRUE, "Macro")
               r5 == def({"define-inline", "define*", "define-public"}, name, None, TRUE, None)
    <2>1. IsTable(r1, S) /\ IsTable(r2, S) /\ IsTable(r3, S) /\ IsTable(r4, S)
      BY <1>2, <1>3, <1>4, <1>5, <1>6, <1>7
    <2>2. IsTable(r5, S)
      BY <1>2, <1>3, <1>4, <1>5, <1>6, <1>7
    <2>3. scheme_extended_builtins = Table({r1, r2, r3, r4, r5, scheme_builtins})
      BY DEF scheme_extended_builtins
    <2> HIDE DEF r1, r2, r3, r4, r5
    <2>4. QED
      BY <2>1, <2>2, <2>3, <1>9, TablesUnite
  <1>11. IsTable(racket_builtins, S)
    <2> DEFINE r1 == def({"struct"}, name, None, TRUE, "Struct")
               r2 == def({"define-syntax-rule"}, name, None, TRUE, "Macro")
               r3 == def({"define/public", "define/private", "define/override"}, name, None, TRUE,
                         "Method")
    <2>1. IsTable(r1, S) /\ IsTable(r2, S) /\ IsTable(r3, S)
      BY <1>2, <1>3, <1>4, <1>5, <1>6, <1>7
    <2>2. racket_builtins = Table({r1, r2, r3, scheme_builtins})
      BY DEF racket_builtins
    <2> HIDE DEF r1, r2, r3
    <2>3. QED
      BY <2>1, <2>2, <1>9, TablesUnite
  <1>12. IsTable(common_lisp_builtins, S)
    <2> DEFINE r1 == def({"defun"}, fnlike, "Leading", TRUE, "Function")
               r2 == def({"defmacro"}, fnlike, "Leading", TRUE, "Macro")
               r3 == def({"deftype"}, fnlike, "Leading", TRUE, "Type")
               r4 == def({"defgeneric"}, fnlike, None, TRUE, "Generic")
               r5 == method("defmethod", "Qualifiers", "Leading")
               r6 == def({"defvar", "defparameter"}, varlike, "LeadingOrLone", FALSE, "Variable")
               r7 == def({"defconstant"}, varlike, "LeadingOrLone", FALSE, "Constant")
               r8 == def({"defclass", "define-condition"}, name, None, TRUE, "Class")
               r9 == def({"defstruct"}, name, "Leading", TRUE, "Struct")
               r10 == def({"defpackage"}, name, None, TRUE, None)
    <2>1. IsTable(r1, S) /\ IsTable(r2, S) /\ IsTable(r3, S) /\ IsTable(r4, S)
      BY <1>2, <1>3, <1>4, <1>5, <1>6, <1>7
    <2>2. IsTable(r5, S) /\ IsTable(r6, S) /\ IsTable(r7, S) /\ IsTable(r8, S)
      BY <1>2, <1>3, <1>4, <1>5, <1>6, <1>7
    <2>3. IsTable(r9, S) /\ IsTable(r10, S)
      BY <1>2, <1>3, <1>4, <1>5, <1>6, <1>7
    <2>4. common_lisp_builtins = Table({r1, r2, r3, r4, r5, r6, r7, r8, r9, r10})
      BY DEF common_lisp_builtins
    <2> HIDE DEF r1, r2, r3, r4, r5, r6, r7, r8, r9, r10
    <2>5. QED
      BY <2>1, <2>2, <2>3, <2>4, TablesUnite
  <1>13. IsTable(clojure_builtins, S)
    <2> DEFINE r1 == def({"defn", "defn-", "definline"}, name, "Leading", TRUE, "Function")
               r2 == def({"defmacro"}, name, "Leading", TRUE, "Macro")
               r3 == def({"def", "ns"}, name, "Leading", TRUE, None)
               r4 == def({"defonce", "deftype"}, name, None, TRUE, None)
               r5 == def({"defmulti", "defprotocol"}, name, "Leading", TRUE, "Generic")
               r6 == method("defmethod", "Value", None)
               r7 == def({"definterface"}, name, None, TRUE, "Type")
               r8 == def({"defrecord"}, name, None, TRUE, "Struct")
               r9 == def({"deftest"}, name, None, TRUE, "Test")
    <2>1. IsTable(r1, S) /\ IsTable(r2, S) /\ IsTable(r3, S) /\ IsTable(r4, S)
      BY <1>2, <1>3, <1>4, <1>5, <1>6, <1>7
    <2>2. IsTable(r5, S) /\ IsTable(r6, S) /\ IsTable(r7, S) /\ IsTable(r8, S)
      BY <1>2, <1>3, <1>4, <1>5, <1>6, <1>7
    <2>3. IsTable(r9, S)
      BY <1>2, <1>3, <1>4, <1>5, <1>6, <1>7
    <2>4. clojure_builtins = Table({r1, r2, r3, r4, r5, r6, r7, r8, r9})
      BY DEF clojure_builtins
    <2> HIDE DEF r1, r2, r3, r4, r5, r6, r7, r8, r9
    <2>5. QED
      BY <2>1, <2>2, <2>3, <2>4, TablesUnite
  <1>14. IsTable(fennel_builtins, S)
    <2> DEFINE r1 == def({"fn", "lambda", "greek lambda"}, fnlike, "Leading", TRUE, "Function")
               r2 == def({"macro"}, fnlike, "Leading", TRUE, "Macro")
               r3 == def({"macros"}, name, None, TRUE, "Macro")
               r4 == def({"local", "var", "global"}, name, None, TRUE, "Variable")
    <2>1. IsTable(r1, S) /\ IsTable(r2, S) /\ IsTable(r3, S) /\ IsTable(r4, S)
      BY <1>2, <1>3, <1>4, <1>5, <1>6, <1>7
    <2>2. fennel_builtins = Table({r1, r2, r3, r4})
      BY DEF fennel_builtins
    <2> HIDE DEF r1, r2, r3, r4
    <2>3. QED
      BY <2>1, <2>2, TablesUnite
  <1>15. IsTable(janet_builtins, S)
    <2> DEFINE r1 == def({"defn", "defn-"}, name, "Leading", TRUE, "Function")
               r2 == def({"defmacro", "defmacro-"}, name, "Leading", TRUE, "Macro")
               r3 == def({"def", "def-"}, name, "Leading", TRUE, None)
               r4 == def({"var", "var-"}, name, "Leading", TRUE, "Variable")
    <2>1. IsTable(r1, S) /\ IsTable(r2, S) /\ IsTable(r3, S) /\ IsTable(r4, S)
      BY <1>2, <1>3, <1>4, <1>5, <1>6, <1>7
    <2>2. janet_builtins = Table({r1, r2, r3, r4})
      BY DEF janet_builtins
    <2> HIDE DEF r1, r2, r3, r4
    <2>3. QED
      BY <2>1, <2>2, TablesUnite
  <1>16. elisp => IsTable(hy_builtins, S)
    <2> SUFFICES ASSUME elisp
                 PROVE  IsTable(hy_builtins, S)
      OBVIOUS
    <2> DEFINE r1 == def({"defn"}, fnlike, "LeadingOrLone", TRUE, "Function")
               r2 == def({"defmacro"}, fnlike, "LeadingOrLone", TRUE, "Macro")
               r3 == def({"defclass"}, name, "LeadingOrLone", TRUE, "Class")
               r4 == def({"setv"}, name, None, TRUE, None)
    <2>1. IsTable(r1, S) /\ IsTable(r2, S) /\ IsTable(r3, S) /\ IsTable(r4, S)
      BY <1>2, <1>3, <1>4, <1>5, <1>6, <1>7
    <2>2. hy_builtins = Table({r1, r2, r3, r4})
      BY DEF hy_builtins
    <2> HIDE DEF r1, r2, r3, r4
    <2>3. QED
      BY <2>1, <2>2, TablesUnite
  <1>17. IsTable(lfe_builtins, S)
    <2> DEFINE r1 == def({"defun"}, fnlike, "Leading", TRUE, "Function")
               r2 == def({"defmacro"}, fnlike, "Leading", TRUE, "Macro")
               r3 == def({"defrecord"}, name, None, TRUE, "Struct")
               r4 == def({"defmodule"}, name, None, TRUE, None)
    <2>1. IsTable(r1, S) /\ IsTable(r2, S) /\ IsTable(r3, S) /\ IsTable(r4, S)
      BY <1>2, <1>3, <1>4, <1>5, <1>6, <1>7
    <2>2. lfe_builtins = Table({r1, r2, r3, r4})
      BY DEF lfe_builtins
    <2> HIDE DEF r1, r2, r3, r4
    <2>3. QED
      BY <2>1, <2>2, TablesUnite
  <1>18. IsTable(islisp_builtins, S)
    <2> DEFINE r1 == def({"defun"}, fnlike, None, TRUE, "Function")
               r2 == def({"defmacro"}, fnlike, None, TRUE, "Macro")
               r3 == def({"defgeneric"}, fnlike, None, TRUE, "Generic")
               r4 == method("defmethod", "Qualifiers", None)
               r5 == def({"defclass"}, name, None, TRUE, "Class")
               r6 == def({"defconstant"}, name, None, TRUE, "Constant")
               r7 == def({"defglobal", "defdynamic"}, name, None, TRUE, "Variable")
    <2>1. IsTable(r1, S) /\ IsTable(r2, S) /\ IsTable(r3, S) /\ IsTable(r4, S)
      BY <1>2, <1>3, <1>4, <1>5, <1>6, <1>7
    <2>2. IsTable(r5, S) /\ IsTable(r6, S) /\ IsTable(r7, S)
      BY <1>2, <1>3, <1>4, <1>5, <1>6, <1>7
    <2>3. islisp_builtins = Table({r1, r2, r3, r4, r5, r6, r7})
      BY DEF islisp_builtins
    <2> HIDE DEF r1, r2, r3, r4, r5, r6, r7
    <2>4. QED
      BY <2>1, <2>2, <2>3, TablesUnite
  <1>19. IsTable(autolisp_builtins, S) /\ IsTable(NoSpecs, S)
    <2>1. IsTable(autolisp_builtins, S)
      BY <1>2, <1>3 DEF autolisp_builtins
    <2>2. NoSpecs = [k \in {} |-> k]
      BY DEF NoSpecs
    <2>3. IsTable(NoSpecs, S)
      BY <2>2 DEF IsTable
    <2>4. QED
      BY <2>1, <2>3
  <1> DEFINE Right(row) == d \in DOMAIN row => IsTable(row[d], S)
             d1 == entry("EmacsLisp", emacs_lisp_builtins)
             d2 == entry("Scheme", scheme_builtins)
             d3 == [x \in {"Guile", "Gauche", "Mosh", "Gambit", "SchemeSuperset"} |->
                      scheme_extended_builtins]
             d4 == entry("Racket", racket_builtins)
             d5 == entry("CommonLisp", common_lisp_builtins)
             d6 == [x \in {"Clojure", "Phel"} |-> clojure_builtins]
             d7 == entry("Fennel", fennel_builtins)
             d8 == entry("Janet", janet_builtins)
             d9 == entry("Hy", hy_builtins)
             d10 == entry("Lfe", lfe_builtins)
             d11 == entry("Islisp", islisp_builtins)
             d12 == entry("AutoLisp", autolisp_builtins)
             d13 == [x \in {"Edn", "Wat"} |-> NoSpecs]
  <1>20. Right(d1) /\ Right(d9)
    BY <1>8, <1>16 DEF entry, elisp
  <1>21. Right(d2) /\ Right(d3) /\ Right(d4) /\ Right(d5)
    BY <1>9, <1>10, <1>11, <1>12 DEF entry
  <1>22. Right(d6) /\ Right(d7) /\ Right(d8)
    BY <1>13, <1>14, <1>15 DEF entry
  <1>23. Right(d10) /\ Right(d11) /\ Right(d12) /\ Right(d13)
    BY <1>17, <1>18, <1>19 DEF entry
  <1>24. bundled_registry = Table({d1, d2, d3, d4, d5, d6, d7, d8, d9, d10, d11, d12, d13})
    BY DEF bundled_registry
  <1> HIDE DEF d1, d2, d3, d4, d5, d6, d7, d8, d9, d10, d11, d12, d13, Right
  <1> DEFINE rows == {d1, d2, d3, d4, d5, d6, d7, d8, d9, d10, d11, d12, d13}
  <1>25. \A row \in rows : Right(row)
    BY <1>20, <1>21, <1>22, <1>23
  <1> HIDE DEF rows
  <1>26. PICK row \in rows : d \in DOMAIN row /\ bundled_registry[d] = row[d]
    BY <1>24, RowOfTable DEF rows
  <1>27. QED
    BY <1>25, <1>26 DEF Right, S

-----------------------------------------------------------------------------
(* What a definition teaches.                                              *)

LeadingNames == {"Name", "Arglist", "Docstring", "Other"}
PatternReads == [leading : Seq(LeadingNames), body : BOOLEAN, matched : Nat, done : BOOLEAN]

LEMMA ElementReads ==
  ASSUME NEW r \in PatternReads, NEW p \in Params
  PROVE  read_element(r, p) \in PatternReads
  <1> DEFINE counted == [r EXCEPT !.matched = @ + 1]
  <1>1. counted \in PatternReads /\ counted.leading \in Seq(LeadingNames)
    BY DEF PatternReads
  <1>2. \A role \in LeadingNames : Append(counted.leading, role) \in Seq(LeadingNames)
    BY <1>1
  <1>3. IF counted.leading = <<>> THEN TRUE ELSE Front(counted.leading) \in Seq(LeadingNames)
    BY <1>1 DEF Front
  <1>4. read_element(r, p) =
          CASE r.done -> r
            [] ~r.done /\ p = "..." ->
                 [counted EXCEPT !.leading = IF @ = <<>> THEN @ ELSE Front(@), !.body = TRUE, !.done = TRUE]
            [] ~r.done /\ p = "body" -> [counted EXCEPT !.body = TRUE, !.done = TRUE]
            [] ~r.done /\ p = "list" -> [counted EXCEPT !.leading = Append(@, "Arglist")]
            [] ~r.done /\ p \in Symbols \ {"body", "x"} ->
                 [counted EXCEPT !.leading = Append(@, classify_param[p])]
            [] OTHER -> [r EXCEPT !.leading = Append(@, "Other")]
    BY DEF read_element
  <1>5. Symbols = {"name", "args", "doc", "body", "x"}
    BY DEF Symbols, classify_param
  <1>6. p \in Symbols \ {"body", "x"} => classify_param[p] \in LeadingNames
    BY <1>5 DEF classify_param, LeadingNames
  <1> HIDE DEF counted
  <1>7. CASE r.done
    <2>1. read_element(r, p) = r
      BY <1>4, <1>5, <1>7
    <2>2. QED
      BY <2>1
  <1>8. CASE ~r.done /\ p = "..."
    <2> DEFINE kept == IF counted.leading = <<>> THEN counted.leading ELSE Front(counted.leading)
    <2>1. read_element(r, p) = [counted EXCEPT !.leading = kept, !.body = TRUE, !.done = TRUE]
      BY <1>4, <1>5, <1>8
    <2>2. kept \in Seq(LeadingNames)
      BY <1>1, <1>3
    <2> HIDE DEF kept
    <2>3. QED
      BY <1>1, <2>1, <2>2 DEF PatternReads
  <1>9. CASE ~r.done /\ p = "body"
    <2>1. read_element(r, p) = [counted EXCEPT !.body = TRUE, !.done = TRUE]
      BY <1>4, <1>5, <1>9
    <2>2. QED
      BY <1>1, <2>1 DEF PatternReads
  <1>10. CASE ~r.done /\ p \in {"list"} \union (Symbols \ {"body", "x"})
    <2> DEFINE role == IF p = "list" THEN "Arglist" ELSE classify_param[p]
    <2>1. read_element(r, p) = [counted EXCEPT !.leading = Append(@, role)]
      BY <1>4, <1>5, <1>10
    <2>2. role \in LeadingNames
      BY <1>6, <1>10 DEF LeadingNames
    <2> HIDE DEF role
    <2>3. Append(counted.leading, role) \in Seq(LeadingNames)
      BY <1>2, <2>2
    <2>4. QED
      BY <1>1, <2>1, <2>3 DEF PatternReads
  <1>11. CASE ~r.done /\ p \notin {"...", "body", "list"} \union (Symbols \ {"body", "x"})
    <2>1. read_element(r, p) = [r EXCEPT !.leading = Append(@, "Other")]
      BY <1>4, <1>5, <1>11
    <2>2. Append(r.leading, "Other") \in Seq(LeadingNames)
      BY DEF PatternReads, LeadingNames
    <2>3. QED
      BY <2>1, <2>2 DEF PatternReads
  <1>12. QED
    BY <1>7, <1>8, <1>9, <1>10, <1>11

LEMMA PatternRun ==
  ASSUME NEW pattern \in Seq(Params)
  PROVE  \E read \in [0..Len(pattern) -> PatternReads] :
           /\ read[0] = Unmatched /\ \A n \in 1..Len(pattern) : read[n] = read_element(read[n - 1],
              pattern[n])
           /\ classify_pattern(pattern) = read[Len(pattern)]
  <1> DEFINE l == Len(pattern)
             step == [n \in 1..l |-> [r \in PatternReads |-> read_element(r, pattern[n])]]
             F(f) == [n \in 0..l |-> IF n = 0 THEN Unmatched ELSE read_element(f[n - 1], pattern[n])]
             read == CHOOSE f : f = F(f)
  <1>0. l \in Nat
    OBVIOUS
  <1>1. l \in Nat /\ \A n \in 1..l : pattern[n] \in Params
    OBVIOUS
  <1>2. Unmatched \in PatternReads
    BY DEF Unmatched, PatternReads
  <1>3. step \in [1..l -> [PatternReads -> PatternReads]]
    BY <1>1, ElementReads
  <1>4. HasRun(l, PatternReads, Unmatched, step)
    <2> HIDE DEF step, l
    <2>1. QED
      BY <1>0, <1>2, <1>3, LoopRuns
  <1>5. \E f : f = F(f)
    <2>1. PICK f \in [0..l -> PatternReads] :
            f[0] = Unmatched /\ \A n \in 1..l : f[n] = step[n][f[n - 1]]
      BY <1>4 DEF HasRun
    <2>2. \A n \in 0..l : f[n] = IF n = 0 THEN Unmatched ELSE read_element(f[n - 1], pattern[n])
      BY <1>1, <2>1
    <2>3. f = F(f)
      BY <2>2
    <2>4. QED
      BY <2>3
  <1>6. read = F(read)
    <2> HIDE DEF F
    <2>1. QED
      BY <1>5
  <1>7. classify_pattern(pattern) = read[l]
    BY DEF classify_pattern
  <1> HIDE DEF read
  <1> DEFINE S == {n \in 0..l : read[n] \in PatternReads}
  <1>8. 0 \in S
    BY <1>1, <1>2, <1>6
  <1>9. ASSUME NEW n \in 1..l, n - 1 \in S
        PROVE  n \in S
    <2>1. read[n] = read_element(read[n - 1], pattern[n])
      BY <1>1, <1>6
    <2>2. QED
      BY <1>1, <1>9, <2>1, ElementReads
  <1> HIDE DEF S
  <1>10. 0..l \subseteq S
    <2> HIDE DEF l
    <2>1. QED
      BY <1>1, <1>8, <1>9, Upwards
  <1>11. \A n \in 0..l : read[n] \in PatternReads
    BY <1>10 DEF S
  <1>12. read \in [0..l -> PatternReads]
    BY <1>6, <1>11
  <1>13. read[0] = Unmatched /\ \A n \in 1..l : read[n] = read_element(read[n - 1], pattern[n])
    BY <1>0, <1>6
  <1>14. QED
    BY <1>7, <1>12, <1>13

LEMMA PatternRead ==
  ASSUME NEW pattern \in Seq(Params)
  PROVE  classify_pattern(pattern) \in PatternReads
  <1>1. PICK read \in [0..Len(pattern) -> PatternReads] : classify_pattern(pattern) = read[Len(pattern)]
    BY PatternRun
  <1>2. QED
    BY <1>1

LEMMA RichestRead ==
  ASSUME NEW patterns \in Seq(Seq(Params))
  PROVE  richest(patterns) = <<>> \/ \E r \in PatternReads : richest(patterns) = <<r>>
  <1> DEFINE l == Len(patterns)
             T == {<<>>} \union {<<r>> : r \in PatternReads}
             read == [n \in DOMAIN patterns |-> classify_pattern(patterns[n])]
             turn(b, n) == IF b = <<>> THEN <<read[n]>>
                           ELSE IF better(read[n], b[1]) THEN <<read[n]>> ELSE b
             step == [n \in 1..l |-> [b \in T |-> turn(b, n)]]
             F(f) == [n \in 0..l |-> IF n = 0 THEN <<>> ELSE turn(f[n - 1], n)]
             best == CHOOSE f : f = F(f)
  <1>1. l \in Nat
    OBVIOUS
  <1>2. \A n \in 1..l : read[n] \in PatternReads
    BY PatternRead
  <1>3. richest(patterns) = best[l]
    BY DEF richest
  <1> HIDE DEF read
  <1>4. \A n \in 1..l : \A b \in T : turn(b, n) \in T
    BY <1>2
  <1>5. step \in [1..l -> [T -> T]] /\ <<>> \in T
    <2> HIDE DEF T, turn
    <2>1. step \in [1..l -> [T -> T]]
      BY <1>4
    <2>2. QED
      BY <2>1 DEF T
  <1>6. HasRun(l, T, <<>>, step)
    <2> HIDE DEF step, l, T
    <2>1. QED
      BY <1>1, <1>5, LoopRuns
  <1> HIDE DEF T, turn
  <1>7. \E f : f = F(f)
    <2>1. PICK f \in [0..l -> T] : f[0] = <<>> /\ \A n \in 1..l : f[n] = step[n][f[n - 1]]
      BY <1>6 DEF HasRun
    <2>a. \A n \in 1..l : \A b \in T : step[n][b] = turn(b, n)
      OBVIOUS
    <2>b. \A n \in 1..l : f[n - 1] \in T
      <3> HIDE DEF l
      <3>1. QED
        BY <1>1, <2>1
    <2> HIDE DEF step
    <2>c. \A n \in 1..l : f[n] = turn(f[n - 1], n)
      BY <2>1, <2>a, <2>b
    <2>2. \A n \in 0..l : f[n] = IF n = 0 THEN <<>> ELSE turn(f[n - 1], n)
      BY <1>1, <2>1, <2>c
    <2>3. f = F(f)
      BY <2>2
    <2>4. QED
      BY <2>3
  <1>8. best = F(best)
    <2> HIDE DEF F
    <2>1. QED
      BY <1>7
  <1> HIDE DEF best
  <1> DEFINE S == {n \in 0..l : best[n] \in T}
  <1>9. 0 \in S
    BY <1>1, <1>5, <1>8
  <1>10. ASSUME NEW n \in 1..l, n - 1 \in S
         PROVE  n \in S
    <2>1. best[n] = turn(best[n - 1], n)
      BY <1>1, <1>8
    <2>2. QED
      BY <1>4, <1>10, <2>1
  <1> HIDE DEF S
  <1>11. 0..l \subseteq S
    <2> HIDE DEF l
    <2>1. QED
      BY <1>1, <1>9, <1>10, Upwards
  <1>12. QED
    BY <1>1, <1>3, <1>11 DEF S, T

\* What a definition form may be taken for: a spec made of roles that were read.
LEMMA SpecIsTyped ==
  ASSUME NEW leading \in Seq(LeadingNames), NEW docstring \in Docstrings, NEW body \in BOOLEAN,
         NEW c \in Confidences
  PROVE  FormSpec(leading, docstring, body, c) \in FormSpecs
  <1>1. leading \in Seq(Role)
    <2>1. \A k \in 1..Len(leading) : leading[k] \in Role
      BY DEF LeadingNames, Role
    <2>2. QED
      BY <2>1
  <1>2. QED
    BY <1>1 DEF FormSpec, FormSpecs, Categories, Dispatches

LEMMA ConfidenceTyped == \A matched, declared : confidence(matched, declared) \in Confidences
  BY DEF confidence, Confidences

LEMMA ReadIsSober ==
  ASSUME NEW leading \in Seq({"Name", "Arglist", "Other"}), NEW docstring \in Docstrings,
         NEW body \in BOOLEAN, NEW c \in Confidences, NEW d,
         docstring = "LeadingOrLone" => d \in {"EmacsLisp", "Hy"}
  PROVE  FormSpec(leading, docstring, body, c) \in SoberSpecs(d)
  <1>1. leading \in Seq(LeadingNames)
    <2>1. \A k \in 1..Len(leading) : leading[k] \in LeadingNames
      BY DEF LeadingNames
    <2>2. QED
      BY <2>1
  <1> DEFINE s == FormSpec(leading, docstring, body, c)
  <1>2. s \in FormSpecs
    BY <1>1, SpecIsTyped
  <1>3. s.leading = leading /\ s.docstring = docstring
    BY DEF FormSpec
  <1>4. \A k \in DOMAIN leading : leading[k] # "Docstring"
    OBVIOUS
  <1> HIDE DEF s
  <1>5. Sober(d, s)
    BY <1>3, <1>4 DEF Sober
  <1>6. QED
    BY <1>2, <1>5 DEF SoberSpecs, s

LEMMA OptionHolds ==
  ASSUME NEW S, NEW o, IsOption(o, S), o # <<>>
  PROVE  o[1] \in S
  BY DEF IsOption

LEMMA WidenedTyped ==
  ASSUME NEW S, "Other" \in S, NEW roles \in Seq(S), NEW n \in Nat
  PROVE  widened(roles, n) \in Seq(S)
  <1> DEFINE m == Max({n, Len(roles)})
  <1>1. m \in {n, Len(roles)} /\ m \in Nat
    <2>1. Len(roles) \in Nat
      OBVIOUS
    <2>2. \E x \in {n, Len(roles)} : \A y \in {n, Len(roles)} : x >= y
      BY <2>1
    <2>3. m = CHOOSE x \in {n, Len(roles)} : \A y \in {n, Len(roles)} : x >= y
      BY DEF Max
    <2>4. m \in {n, Len(roles)}
      BY <2>2, <2>3
    <2>5. QED
      BY <2>1, <2>4
  <1>2. widened(roles, n) = [k \in 1..m |-> IF k \in DOMAIN roles THEN roles[k] ELSE "Other"]
    BY DEF widened
  <1> HIDE DEF m
  <1>3. \A k \in 1..m : (IF k \in DOMAIN roles THEN roles[k] ELSE "Other") \in S
    OBVIOUS
  <1>4. QED
    BY <1>1, <1>2, <1>3

LEMMA RefinedReads ==
  ASSUME NEW known \in Reads, NEW f, IsForm(f)
  PROVE  refine_declare(known, f) \in Reads /\ refine_meta(known, f) \in Reads
  <1>1. refine_declare(known, f) \in Reads
    <2> DEFINE keys == {f.clauses[c].key : c \in DOMAIN f.clauses}
               documented == known.docstring \/ "doc-string" \in keys
               declared == keys \intersect {"doc-string", "debug"} # {}
    <2>1. refine_declare(known, f) = [known EXCEPT !.docstring = documented, !.declared = declared]
      BY DEF refine_declare
    <2>2. documented \in BOOLEAN /\ declared \in BOOLEAN
      OBVIOUS
    <2> HIDE DEF documented, declared
    <2>3. QED
      BY <2>1, <2>2 DEF Reads
  <1>2. refine_meta(known, f) \in Reads
    <2> DEFINE arglist == Or(f.meta.arglists, f.attr.arglists)
               style == Or(f.meta.style, f.attr.style)
               given == IF arglist = <<>> THEN Unread ELSE classify_arglist_params(arglist[1])
    <2>1. IsOption(arglist, Seq(Params)) /\ IsOption(style, Nat)
      BY DEF IsForm, IsMeta, Or
    <2>2. given \in Reads
      <3>1. CASE arglist = <<>>
        BY <3>1 DEF Unread, Reads
      <3>2. CASE arglist # <<>>
        <4>1. arglist[1] \in Seq(Params)
          <5> HIDE DEF arglist
          <5>1. QED
            BY <2>1, <3>2, OptionHolds
        <4>2. QED
          BY <3>2, <4>1, ArglistReads
      <3>3. QED
        BY <3>1, <3>2
    <2>3. refine_meta(known, f) =
            CASE given.matched -> [given EXCEPT !.declared = TRUE]
              [] ~given.matched /\ style # <<>> ->
                   [known EXCEPT !.leading = widened(@, style[1]), !.body = TRUE, !.matched = TRUE,
                                 !.declared = TRUE]
              [] OTHER -> known
      BY DEF refine_meta
    <2> HIDE DEF arglist, style, given
    <2>4. CASE given.matched
      <3>1. refine_meta(known, f) = [given EXCEPT !.declared = TRUE]
        BY <2>3, <2>4
      <3>2. QED
        BY <2>2, <3>1 DEF Reads
    <2>5. CASE ~given.matched /\ style # <<>>
      <3> DEFINE wide == widened(known.leading, style[1])
      <3>1. refine_meta(known, f) = [known EXCEPT !.leading = wide, !.body = TRUE, !.matched = TRUE,
                                                  !.declared = TRUE]
        BY <2>3, <2>5
      <3>2. style[1] \in Nat
        BY <2>1, <2>5, OptionHolds
      <3>3. known.leading \in Seq({"Name", "Arglist", "Other"})
        BY DEF Reads
      <3>4. wide \in Seq({"Name", "Arglist", "Other"})
        BY <3>2, <3>3, WidenedTyped
      <3> HIDE DEF wide
      <3>5. QED
        BY <3>1, <3>4 DEF Reads
    <2>6. CASE ~given.matched /\ style = <<>>
      BY <2>3, <2>6
    <2>7. QED
      BY <2>4, <2>5, <2>6
  <1>3. QED
    BY <1>1, <1>2

LEMMA RoleSetsNested ==
  ASSUME NEW leading \in Seq({"Name", "Arglist", "Other"})
  PROVE  leading \in Seq(LeadingNames)
  <1>1. \A k \in 1..Len(leading) : leading[k] \in LeadingNames
    BY DEF LeadingNames
  <1>2. QED
    BY <1>1

\* What the arglist harvester registers.
LEMMA DefmacroSober ==
  ASSUME NEW f, IsForm(f), NEW d \in DOMAIN harvest_profile
  PROVE  LET o == harvest_defmacro(f, harvest_profile[d]) IN o = <<>> \/ \E s \in SoberSpecs(d) : o = <<s>>
  <1> DEFINE p == harvest_profile[d]
             o == harvest_defmacro(f, p)
             read == classify_arglist_params(f.params[1])
             known == CASE p.use_declare -> refine_declare(read, f)
                        [] p.clojure_meta -> refine_meta(read, f)
                        [] OTHER -> read
             policy == IF known.docstring THEN p.doc_policy ELSE None
             c == confidence(known.matched, known.declared)
             s == FormSpec(known.leading, policy, known.body, c)
  <1> SUFFICES ASSUME o # <<>>
               PROVE  \E t \in SoberSpecs(d) : o = <<t>>
    OBVIOUS
  <1>1. ~(f.head \notin p.macro_heads \/ f.name = None \/ f.params = <<>>) /\ o = <<s>>
    BY DEF harvest_defmacro
  <1>2. read \in Reads
    <2>1. f.params[1] \in Seq(Params)
      BY <1>1, OptionHolds DEF IsForm
    <2>2. QED
      BY <2>1, ArglistReads
  <1>3. p.doc_policy \in Docstrings /\ (p.doc_policy = "LeadingOrLone" => d \in {"EmacsLisp", "Hy"})
    BY ProfilesSober
  <1> HIDE DEF p, o, read
  <1>4. known \in Reads
    <2>1. refine_declare(read, f) \in Reads /\ refine_meta(read, f) \in Reads
      BY <1>2, RefinedReads
    <2>2. QED
      BY <1>2, <2>1
  <1> HIDE DEF known
  <1>5. policy \in Docstrings /\ (policy = "LeadingOrLone" => d \in {"EmacsLisp", "Hy"})
    BY <1>3 DEF Docstrings, None
  <1>6. c \in Confidences
    BY ConfidenceTyped
  <1> HIDE DEF policy, c
  <1>7. s \in SoberSpecs(d)
    <2>1. known.leading \in Seq({"Name", "Arglist", "Other"}) /\ known.body \in BOOLEAN
      BY <1>4 DEF Reads
    <2>2. QED
      BY <1>5, <1>6, <2>1, ReadIsSober
  <1>8. QED
    BY <1>1, <1>7

\* What the syntax-rules harvester registers.
LEMMA SchemeMacroTyped ==
  ASSUME NEW f, IsForm(f)
  PROVE  harvest_scheme_macro(f) = <<>> \/ \E s \in FormSpecs : harvest_scheme_macro(f) = <<s>>
  <1> DEFINE o == harvest_scheme_macro(f)
             best == richest(f.patterns)
  <1>0. None \in Docstrings
    BY DEF Docstrings
  <1>1. CASE f.head = "define-macro"
    <2> DEFINE read == classify_arglist_params(f.params[1])
               open == read.body \/ f.tail
               c == confidence(read.matched, FALSE)
               s == FormSpec(read.leading, None, open, c)
    <2>1. o = harvest_define_macro(f)
      BY <1>1 DEF harvest_scheme_macro
    <2>2. CASE f.name = None \/ f.params = <<>>
      BY <2>1, <2>2 DEF harvest_define_macro
    <2>3. CASE ~(f.name = None \/ f.params = <<>>)
      <3>1. o = <<s>>
        BY <2>1, <2>3 DEF harvest_define_macro
      <3>2. read \in Reads
        <4>1. f.params[1] \in Seq(Params)
          BY <2>3, OptionHolds DEF IsForm
        <4>2. QED
          BY <4>1, ArglistReads
      <3> HIDE DEF read
      <3>3. open \in BOOLEAN /\ read.leading \in Seq(LeadingNames)
        <4>1. read.leading \in Seq({"Name", "Arglist", "Other"})
          BY <3>2 DEF Reads
        <4>2. QED
          BY <4>1, RoleSetsNested
      <3>4. c \in Confidences
        BY ConfidenceTyped
      <3> HIDE DEF open, c
      <3>5. s \in FormSpecs
        BY <1>0, <3>3, <3>4, SpecIsTyped
      <3>6. QED
        BY <3>1, <3>5
    <2>4. QED
      BY <2>2, <2>3
  <1>2. CASE /\ f.head \in {"define-syntax-rule", "define-syntax", "define-syntax-parameter"}
             /\ f.name # None
    <2> DEFINE c == confidence(best[1].matched > 0, FALSE)
               s == FormSpec(best[1].leading, None, best[1].body, c)
    <2>1. o = IF best = <<>> THEN <<>> ELSE <<s>>
      BY <1>2 DEF harvest_scheme_macro
    <2>2. best = <<>> \/ \E r \in PatternReads : best = <<r>>
      BY RichestRead DEF IsForm
    <2> HIDE DEF best
    <2>3. CASE best = <<>>
      BY <2>1, <2>3
    <2>4. CASE best # <<>>
      <3>1. best[1] \in PatternReads
        BY <2>2, <2>4
      <3>2. best[1].leading \in Seq(LeadingNames) /\ best[1].body \in BOOLEAN
        BY <3>1 DEF PatternReads
      <3>3. c \in Confidences
        BY ConfidenceTyped
      <3> HIDE DEF c
      <3>4. s \in FormSpecs
        BY <1>0, <3>2, <3>3, SpecIsTyped
      <3>5. QED
        BY <2>1, <2>4, <3>4
    <2>5. QED
      BY <2>3, <2>4
  <1>3. CASE /\ f.head # "define-macro"
             /\ ~(/\ f.head \in {"define-syntax-rule", "define-syntax", "define-syntax-parameter"}
                  /\ f.name # None)
    BY <1>3 DEF harvest_scheme_macro
  <1>4. QED
    BY <1>1, <1>2, <1>3

\* No dialect has both harvesters.
LEMMA HarvestersApart == \A d \in DOMAIN harvest_profile : d \notin is_syntax_rules_dialect
  <1>1. DOMAIN harvest_profile = {"EmacsLisp", "CommonLisp", "Lfe", "Clojure", "Phel", "Fennel", "Janet",
                                  "Hy", "Islisp"}
    BY DEF harvest_profile, Table, entry
  <1>2. QED
    BY <1>1 DEF is_syntax_rules_dialect

\* What a harvest registers of one datum, whatever the dialect.
LEMMA HarvestedTyped ==
  ASSUME NEW d, NEW f, IsForm(f), harvested(d, f) # <<>>
  PROVE  /\ harvested(d, f)[1] \in FormSpecs
         /\ d \notin is_syntax_rules_dialect => harvested(d, f)[1] \in SoberSpecs(d)
  <1>1. CASE d \in is_syntax_rules_dialect
    <2>1. harvested(d, f) = harvest_scheme_macro(f)
      BY <1>1, HarvestersApart DEF harvested
    <2>2. QED
      BY <1>1, <2>1, SchemeMacroTyped
  <1>2. CASE d \notin is_syntax_rules_dialect
    <2>1. d \in DOMAIN harvest_profile /\ harvested(d, f) = harvest_defmacro(f, harvest_profile[d])
      BY <1>2 DEF harvested
    <2>2. \E s \in SoberSpecs(d) : harvested(d, f) = <<s>>
      BY <2>1, DefmacroSober
    <2>3. QED
      BY <2>2 DEF SoberSpecs
  <1>3. QED
    BY <1>1, <1>2

-----------------------------------------------------------------------------
\* The last of some turns of a loop.
LEMMA LastOf ==
  ASSUME NEW l \in Nat, NEW S, S \subseteq 1..l, S # {}
  PROVE  Max(S) \in S /\ \A n \in S : Max(S) >= n
  <1> DEFINE R == {l - n : n \in S}
             rel == OpToRel(<, Nat)
  <1>0. \A n \in S : n \in Nat /\ l - n \in Nat
    OBVIOUS
  <1>1. R \subseteq Nat /\ R # {}
    BY <1>0
  <1>2. IsWellFoundedOn(rel, Nat)
    BY NatLessThanWellFounded
  <1>3. \A x, y \in Nat : y < x => <<y, x>> \in rel
    BY DEF OpToRel
  <1> HIDE DEF rel
  <1>4. PICK r \in R : \A y \in R : ~(<<y, r>> \in rel)
    BY <1>1, <1>2, WFMin
  <1>5. PICK n \in S : r = l - n
    BY <1>4
  <1>6. ASSUME NEW y \in S
        PROVE  n >= y
    <2>1. l - y \in R /\ l - y \in Nat /\ l - n \in Nat /\ y \in Nat /\ n \in Nat
      BY <1>0
    <2>2. ~(l - y < l - n)
      BY <1>3, <1>4, <1>5, <2>1
    <2> HIDE DEF R
    <2>3. QED
      BY <2>1, <2>2
  <1>7. Max(S) = CHOOSE x \in S : \A y \in S : x >= y
    BY DEF Max
  <1>8. QED
    BY <1>6, <1>7

\* What a source may say of an indentation.
LEMMA IndentsTyped ==
  ASSUME NEW f, IsForm(f)
  PROVE  indents_of(f) = <<>> \/ \E s \in IndentSpecs : indents_of(f) = <<s>>
  <1>0. \A s \in Declarable : indent_spec(s) = <<>> \/ (s \in IndentSpecs /\ indent_spec(s) = <<s>>)
    BY DEF Declarable, indent_spec
  <1>1. harvest_put(f) = <<>> \/ \E s \in IndentSpecs : harvest_put(f) = <<s>>
    <2>1. CASE f.head # "put" \/ f.name = None \/ f.put = <<>>
      BY <2>1 DEF harvest_put
    <2>2. CASE ~(f.head # "put" \/ f.name = None \/ f.put = <<>>)
      <3>1. harvest_put(f) = indent_spec(f.put[1])
        BY <2>2 DEF harvest_put
      <3>2. f.put[1] \in Declarable
        BY <2>2, OptionHolds DEF IsForm
      <3>3. QED
        BY <1>0, <3>1, <3>2
    <2>3. QED
      BY <2>1, <2>2
  <1>2. harvest_declare(f) = <<>> \/ \E s \in IndentSpecs : harvest_declare(f) = <<s>>
    <2> DEFINE said == {c \in DOMAIN f.clauses : f.clauses[c].key = "indent" /\ f.clauses[c].spec # "nil"}
    <2>1. CASE f.head \notin def_heads \/ f.name = None \/ f.wrapped \/ said = {}
      BY <2>1 DEF harvest_declare
    <2>2. CASE ~(f.head \notin def_heads \/ f.name = None \/ f.wrapped \/ said = {})
      <3>1. harvest_declare(f) = indent_spec(f.clauses[Max(said)].spec)
        BY <2>2 DEF harvest_declare
      <3>2. Max(said) \in said
        <4>0. DOMAIN f.clauses = 1..Len(f.clauses) /\ said # {}
          BY <2>2 DEF IsForm
        <4>1. PICK l \in Nat : DOMAIN f.clauses = 1..l
          BY <4>0 DEF IsForm
        <4>2. said \subseteq 1..l
          BY <4>1
        <4> HIDE DEF said
        <4>3. QED
          BY <4>0, <4>1, <4>2, LastOf
      <3>3. f.clauses[Max(said)].spec \in Declarable
        BY <3>2 DEF IsForm
      <3>4. QED
        BY <1>0, <3>1, <3>3
    <2>3. QED
      BY <2>1, <2>2
  <1>3. QED
    BY <1>1, <1>2 DEF indents_of, Or

LEMMA BundledIndentsTyped == \A d : IsTable(bundled_table(d), IndentSpecs)
  <1> SUFFICES ASSUME NEW d
               PROVE  IsTable(bundled_table(d), IndentSpecs)
    OBVIOUS
  <1> DEFINE r1 == entry("defun", "2")
             r2 == entry("deftheme", "1")
             r3 == entry("define-skeleton", "defun")
  <1>1. IsTable(r1, IndentSpecs) /\ IsTable(r2, IndentSpecs) /\ IsTable(r3, IndentSpecs)
    BY DEF IsTable, entry, IndentSpecs
  <1>2. IsTable(NoSpecs, IndentSpecs)
    BY DEF IsTable, NoSpecs
  <1>3. IsTable(Table({r1, r2, r3}), IndentSpecs)
    <2> HIDE DEF r1, r2, r3
    <2>1. \A row \in {r1, r2, r3} : IsTable(row, IndentSpecs)
      BY <1>1
    <2>2. QED
      BY <2>1, TablesUnite
  <1>4. QED
    BY <1>2, <1>3 DEF bundled_table

-----------------------------------------------------------------------------
(* annotate_form tags every argument once and in order.                    *)

Tagging == {"leading", "dispatch", "docstring", "body", "annotated"}

\* The parts hold the items up to i; no type is needed of their roles.
Tiled(ps, n) == ps = [k \in 1..n |-> [role |-> ps[k].role, datum |-> k - 1]]

IInv ==
  /\ plan \in Plans
  /\ form.items \in Seq(Shapes)
  /\ i \in Nat /\ i >= 1 /\ i <= Len(form.items) + 1
  /\ parts = <<>> \/ Tiled(parts, i)
  /\ pc \in Tagging => Tiled(parts, i)

-----------------------------------------------------------------------------
\* Parts for the next arguments are put behind those that are there.
LEMMA PushTiles ==
  ASSUME NEW R, NEW roles \in Seq(R), Push(roles), Tiled(parts, i), i \in Nat, i >= 1
  PROVE  Tiled(parts', i') /\ i' = i + Len(roles)
  <1> DEFINE n == Len(roles)
             new == [k \in DOMAIN roles |-> [role |-> roles[k], datum |-> i + k - 1]]
             S == {parts[k] : k \in DOMAIN parts} \union {new[k] : k \in DOMAIN new}
  <1>1. n \in Nat /\ DOMAIN roles = 1..n
    OBVIOUS
  <1>2. parts \in Seq(S) /\ Len(parts) = i
    BY DEF Tiled
  <1>3. new \in Seq(S) /\ Len(new) = n
    BY <1>1
  <1>4. parts' = parts \o new /\ i' = i + n
    BY DEF Push
  <1>5. /\ parts' = [k \in 1..i + n |-> parts'[k]]
        /\ \A k \in 1..i : parts'[k] = parts[k]
        /\ \A k \in 1..n : parts'[i + k] = new[k]
    BY <1>1, <1>2, <1>3, <1>4
  <1>6. \A k \in 1..i + n : parts'[k] = [role |-> parts'[k].role, datum |-> k - 1]
    <2>1. TAKE k \in 1..i + n
    <2>2. CASE k \in 1..i
      BY <1>5, <2>2 DEF Tiled
    <2>3. CASE k \notin 1..i
      <3>1. k - i \in 1..n /\ i + (k - i) = k
        BY <1>1, <2>3
      <3>2. parts'[k] = [role |-> roles[k - i], datum |-> i + (k - i) - 1]
        BY <1>1, <1>5, <3>1
      <3>3. QED
        BY <3>1, <3>2
    <2>4. QED
      BY <2>2, <2>3
  <1>7. QED
    BY <1>4, <1>5, <1>6 DEF Tiled

\* The common part of the steps that tag: the table and the form stay.
LEMMA TagKeeps ==
  ASSUME IInv, NEW R, NEW roles \in Seq(R), Push(roles), pc \in Tagging, UNCHANGED tables,
         i + Len(roles) <= Len(form.items) + 1
  PROVE  IInv'
  <1>1. Tiled(parts', i') /\ i' = i + Len(roles)
    BY PushTiles DEF IInv
  <1>2. Len(roles) \in Nat
    OBVIOUS
  <1>3. plan' = plan /\ form' = form
    BY DEF tables
  <1>4. QED
    BY <1>1, <1>2, <1>3 DEF IInv

LEMMA InitIInv == Init => IInv
  BY DEF Init, IInv, Tagging

\* The layers leave the annotation alone, and end where it begins.
LEMMA LayerStep ==
  ASSUME IInv,
         \/ InsertSpec \/ RemoveSpec \/ MergeTables \/ StartHarvest \/ HarvestDatum
         \/ HarvestIndents \/ HarvestForm \/ SkipForm \/ HarvestEnd
  PROVE  IInv'
  <1>1. UNCHANGED <<plan, annotation>> /\ pc' \notin Tagging
    BY DEF InsertSpec, RemoveSpec, MergeTables, StartHarvest, HarvestDatum, HarvestIndents,
           HarvestForm, SkipForm, HarvestEnd, NextLayer, Tagging
  <1>2. QED
    BY <1>1 DEF IInv, annotation

LEMMA LookupStep ==
  ASSUME IInv, NEW use \in plan.uses, Lookup(use)
  PROVE  IInv'
  <1>1. use.items \in Seq(Shapes)
    BY AnnotateAssumption DEF IInv
  <1>2. form' = use /\ i' = 1 /\ plan' = plan
    BY DEF Lookup
  <1>3. \/ parts' = <<[role |-> "Keyword", datum |-> 0]>>
        \/ parts' = <<>> /\ pc' = "none"
    BY DEF Lookup
  <1>4. CASE parts' = <<[role |-> "Keyword", datum |-> 0]>>
    <2>1. Tiled(parts', i')
      BY <1>2, <1>4 DEF Tiled
    <2>2. QED
      BY <1>1, <1>2, <2>1 DEF IInv
  <1>5. CASE parts' = <<>> /\ pc' = "none"
    BY <1>1, <1>2, <1>5 DEF IInv, Tagging
  <1>6. QED
    BY <1>3, <1>4, <1>5

\* The steps that tag nothing.
LEMMA IdleStep ==
  ASSUME IInv, NotNamed \/ LeadingEnd \/ NoDispatch
  PROVE  IInv'
  <1>1. CASE NotNamed
    BY <1>1 DEF NotNamed, IInv, tables, Tagging
  <1>2. CASE LeadingEnd
    BY <1>2 DEF LeadingEnd, IInv, tables, Tagging
  <1>3. CASE NoDispatch
    BY <1>3 DEF NoDispatch, IInv, tables, Tagging
  <1>4. QED
    BY <1>1, <1>2, <1>3

LEMMA TagStep ==
  ASSUME IInv, TagLeading \/ TagQualifier \/ TagSpecializedArglist \/ TagDispatchValue
                 \/ TagDocstring \/ TagBody
  PROVE  IInv'
  <1>1. Len(form.items) \in Nat /\ i \in Nat /\ i <= Len(form.items) + 1
    BY DEF IInv
  <1>2. ASSUME NEW r, Push(<<r>>), pc \in Tagging, UNCHANGED tables, i <= Len(form.items)
        PROVE  IInv'
    <2> DEFINE roles == <<r>>
    <2>1. roles \in Seq({r}) /\ Len(roles) = 1 /\ Push(roles)
      BY <1>2
    <2> HIDE DEF roles
    <2>2. i + Len(roles) <= Len(form.items) + 1
      BY <1>1, <1>2, <2>1
    <2>3. QED
      BY <1>2, <2>1, <2>2, TagKeeps
  <1>3. ASSUME Push(<<>>), pc \in Tagging, UNCHANGED tables
        PROVE  IInv'
    <2> DEFINE roles == <<>>
    <2>1. roles \in Seq({}) /\ Len(roles) = 0 /\ Push(roles)
      BY <1>3
    <2> HIDE DEF roles
    <2>2. i + Len(roles) <= Len(form.items) + 1
      BY <1>1, <2>1
    <2>3. QED
      BY <1>3, <2>1, <2>2, TagKeeps
  <1>4. CASE TagLeading
    BY <1>2, <1>4 DEF TagLeading, AtSlot, more, Tagging, tables
  <1>5. CASE TagQualifier
    BY <1>2, <1>5 DEF TagQualifier, more, Tagging, tables
  <1>6. CASE TagSpecializedArglist
    BY <1>2, <1>6 DEF TagSpecializedArglist, more, Tagging, tables
  <1>7. CASE TagDispatchValue
    <2>1. pc \in Tagging /\ UNCHANGED tables /\ i <= Len(form.items)
      BY <1>7 DEF TagDispatchValue, more, Tagging
    <2>2. CASE i < Len(form.items) /\ form.items[i + 1] = "Square"
      <3> DEFINE roles == <<"DispatchValue", "Arglist">>
      <3>1. Push(roles)
        BY <1>7, <2>2 DEF TagDispatchValue
      <3>2. roles \in Seq({"DispatchValue", "Arglist"}) /\ Len(roles) = 2
        OBVIOUS
      <3> HIDE DEF roles
      <3>3. i + Len(roles) <= Len(form.items) + 1
        BY <1>1, <2>2, <3>2
      <3>4. QED
        BY <2>1, <3>1, <3>2, <3>3, TagKeeps
    <2>3. CASE ~(i < Len(form.items) /\ form.items[i + 1] = "Square")
      <3>1. Push(<<"DispatchValue">>)
        BY <1>7, <2>3 DEF TagDispatchValue
      <3>2. QED
        BY <1>2, <2>1, <3>1
    <2>4. QED
      BY <2>2, <2>3
  <1>8. CASE TagDocstring
    <2>1. pc \in Tagging /\ UNCHANGED tables
      BY <1>8 DEF TagDocstring, Tagging
    <2>2. CASE accepted
      <3>1. Push(<<"Docstring">>) /\ i <= Len(form.items)
        BY <1>8, <2>2 DEF TagDocstring, accepted, more
      <3>2. QED
        BY <1>2, <2>1, <3>1
    <2>3. CASE ~accepted
      <3>1. Push(<<>>)
        BY <1>8, <2>3 DEF TagDocstring
      <3>2. QED
        BY <1>3, <2>1, <3>1
    <2>4. QED
      BY <2>2, <2>3
  <1>9. CASE TagBody
    <2> DEFINE rest == SubSeq(form.items, i, Len(form.items))
               roles == [k \in DOMAIN rest |-> body_role(rest[k])]
               R == {body_role(rest[k]) : k \in DOMAIN rest}
    <2>1. pc \in Tagging /\ UNCHANGED tables
      BY <1>9 DEF TagBody, Tagging
    <2>2. CASE spec.body
      <3>1. Push(roles)
        BY <1>9, <2>2 DEF TagBody
      <3>2. rest \in Seq(Shapes) /\ Len(rest) = Len(form.items) + 1 - i
        BY <1>1 DEF IInv
      <3>3. roles \in Seq(R) /\ Len(roles) = Len(form.items) + 1 - i
        <4> HIDE DEF rest
        <4>1. DOMAIN rest = 1..Len(rest) /\ Len(rest) \in Nat
          BY <3>2
        <4>2. QED
          BY <1>1, <3>2, <4>1
      <3>4. i + Len(roles) <= Len(form.items) + 1
        BY <1>1, <3>3
      <3>5. QED
        BY <2>1, <3>1, <3>3, <3>4, TagKeeps
    <2>3. CASE ~spec.body
      <3>1. Push(<<>>)
        BY <1>9, <2>3 DEF TagBody
      <3>2. QED
        BY <1>3, <2>1, <3>1
    <2>4. QED
      BY <2>2, <2>3
  <1>10. QED
    BY <1>4, <1>5, <1>6, <1>7, <1>8, <1>9

\* The arguments of a form are tagged once each and in order, whatever the
\* dialect, the layers and the form are (annotate_form).
THEOREM PartsTileForms == Spec => []PartsTile
  <1>1. IInv /\ [Next]_vars => IInv'
    <2> SUFFICES ASSUME IInv, [Next]_vars PROVE IInv'
      OBVIOUS
    <2>1. CASE UNCHANGED vars
      BY <2>1 DEF vars, IInv
    <2>2. CASE Next
      BY <2>2, LayerStep, LookupStep, IdleStep, TagStep DEF Next
    <2>3. QED
      BY <2>1, <2>2
  <1>2. IInv => PartsTile
    <2> SUFFICES ASSUME IInv PROVE PartsTile
      OBVIOUS
    <2>1. i \in 1..Len(form.items) + 1
      BY DEF IInv
    <2>2. \A k \in DOMAIN parts : parts[k].datum = k - 1
      BY DEF IInv, Tiled
    <2>3. pc \in Tagging => Len(parts) = i
      BY DEF IInv, Tiled
    <2>4. QED
      BY <2>1, <2>2, <2>3 DEF PartsTile, Tagging
  <1>3. QED
    BY InitIInv, <1>1, <1>2, PTL DEF Spec

-----------------------------------------------------------------------------
(* The layers, and what their tables hold.                                 *)

LEMMA MergedTyped ==
  ASSUME NEW S, NEW t, NEW o, IsTable(t, S), IsTable(o, S)
  PROVE  IsTable(merged(t, o), S)
  BY DEF IsTable, merged

LEMMA EntryTyped ==
  ASSUME NEW S, NEW k, NEW v \in S
  PROVE  IsTable(entry(k, v), S)
  BY DEF IsTable, entry

LEMMA WithoutTyped ==
  ASSUME NEW S, NEW t, NEW k, IsTable(t, S)
  PROVE  IsTable(without(t, k), S)
  BY DEF IsTable, without

\* What the layers of the plan give for specs is in S.
GivesSpecs(S) ==
  \A k \in DOMAIN plan.layers :
    LET l == plan.layers[k] IN
    /\ l.op = "insert" => l.spec \in S
    /\ l.op = "merge" => IsTable(l.specs, S)
    /\ l.op = "harvest" => \A d \in DOMAIN l.source.form :
         harvested(plan.dialect, l.source.form[d]) # <<>> =>
           harvested(plan.dialect, l.source.form[d])[1] \in S

Positioned ==
  /\ plan \in Plans
  /\ layer \in 1..Len(plan.layers) + 1
  /\ pc \in {"specs", "indents"} => /\ layer <= Len(plan.layers) /\ this.op = "harvest"
                                    /\ at \in 1..Len(source.form) + 1

LEMMA PlanTyped ==
  ASSUME Positioned
  PROVE  /\ Len(plan.layers) \in Nat /\ layer \in Nat /\ DOMAIN plan.layers = 1..Len(plan.layers)
         /\ layer <= Len(plan.layers) => IsLayer(this)
  <1>1. DOMAIN plan.layers = 1..Len(plan.layers) /\ \A k \in DOMAIN plan.layers : IsLayer(plan.layers[k])
    BY AnnotateAssumption DEF Positioned
  <1>2. Len(plan.layers) \in Nat /\ layer \in Nat
    BY <1>1 DEF Positioned
  <1>3. QED
    BY <1>1, <1>2 DEF Positioned, this

LEMMA SourceTyped ==
  ASSUME Positioned, pc \in {"specs", "indents"}
  PROVE  /\ IsSource(source) /\ Len(source.form) \in Nat /\ at \in Nat
         /\ at <= Len(source.form) => /\ at \in DOMAIN source.form /\ IsForm(datum)
                                      /\ source.last[at] \in at..Len(source.form)
  <1>1. IsSource(source)
    <2>1. IsLayer(this) /\ this.op = "harvest"
      BY PlanTyped DEF Positioned
    <2>2. QED
      BY <2>1 DEF IsLayer, source
  <1>2. Len(source.form) \in Nat /\ at \in Nat /\ at >= 1
    BY <1>1 DEF IsSource, Positioned
  <1>3. QED
    BY <1>1, <1>2 DEF IsSource, datum

\* The steps of the layers.
LEMMA LayersPositioned ==
  ASSUME Positioned,
         \/ InsertSpec \/ RemoveSpec \/ MergeTables \/ StartHarvest \/ HarvestDatum
         \/ HarvestIndents \/ HarvestForm \/ SkipForm \/ HarvestEnd
  PROVE  Positioned' /\ pc' \in {"layers", "specs", "indents"} /\ UNCHANGED <<plan, annotation>>
  <1>1. CASE InsertSpec \/ RemoveSpec \/ MergeTables \/ HarvestEnd
    <2>1. NextLayer /\ layer <= Len(plan.layers)
      BY <1>1 DEF InsertSpec, RemoveSpec, MergeTables, HarvestEnd, Applies, Positioned
    <2>2. QED
      BY <2>1, PlanTyped DEF NextLayer, Positioned, annotation
  <1>2. CASE StartHarvest
    <2>1. /\ layer <= Len(plan.layers) /\ this.op = "harvest" /\ at' = 1 /\ pc' = "specs"
          /\ UNCHANGED <<plan, layer, registry, indents, annotation>>
      BY <1>2 DEF StartHarvest, Applies, this
    <2>2. this' = this /\ source' = source
      BY <2>1 DEF this, source
    <2>3. IsSource(source)
      BY <2>1, PlanTyped DEF IsLayer, source
    <2>4. 1 \in 1..Len(source.form) + 1
      BY <2>3 DEF IsSource
    <2>5. QED
      BY <2>1, <2>2, <2>4 DEF Positioned, annotation
  <1>3. CASE HarvestDatum \/ HarvestIndents \/ HarvestForm \/ SkipForm
    <2>1. /\ pc \in {"specs", "indents"} /\ UNCHANGED <<plan, layer, annotation>>
          /\ pc' \in {"specs", "indents"}
          /\ \/ at' = 1
             \/ at <= Len(source.form) /\ at' \in {at + 1, source.last[at] + 1}
      BY <1>3 DEF HarvestDatum, HarvestIndents, HarvestForm, SkipForm
    <2>2. this' = this /\ source' = source
      BY <2>1 DEF this, source
    <2>3. at' \in 1..Len(source.form) + 1
      BY <2>1, SourceTyped
    <2>4. QED
      BY <2>1, <2>2, <2>3 DEF Positioned, annotation
  <1>4. QED
    BY <1>1, <1>2, <1>3

LEMMA LayersTyped ==
  ASSUME Positioned, NEW S, GivesSpecs(S), IsTable(registry, S), IsTable(indents, IndentSpecs),
         \/ InsertSpec \/ RemoveSpec \/ MergeTables \/ StartHarvest \/ HarvestDatum
         \/ HarvestIndents \/ HarvestForm \/ SkipForm \/ HarvestEnd
  PROVE  IsTable(registry', S) /\ IsTable(indents', IndentSpecs)
  <1>1. CASE InsertSpec
    <2>1. /\ this.op = "insert" /\ layer \in DOMAIN plan.layers /\ IsLayer(this)
          /\ registry' = merged(registry, entry(this.head, this.spec))
          /\ indents' = merged(indents, entry(this.head, this.indent))
      BY <1>1, PlanTyped DEF InsertSpec, Applies, this, Positioned
    <2>2. this.spec \in S /\ this.indent \in IndentSpecs
      BY <2>1 DEF GivesSpecs, this, IsLayer
    <2>3. QED
      BY <2>1, <2>2, EntryTyped, MergedTyped
  <1>2. CASE RemoveSpec
    BY <1>2, WithoutTyped DEF RemoveSpec
  <1>3. CASE MergeTables
    <2>1. /\ this.op = "merge" /\ layer \in DOMAIN plan.layers /\ IsLayer(this)
          /\ registry' = merged(registry, this.specs)
          /\ indents' = merged(indents, this.indents)
      BY <1>3, PlanTyped DEF MergeTables, Applies, this, Positioned
    <2>2. IsTable(this.specs, S) /\ IsTable(this.indents, IndentSpecs)
      BY <2>1 DEF GivesSpecs, this, IsLayer, IsTable
    <2>3. QED
      BY <2>1, <2>2, MergedTyped
  <1>4. CASE HarvestDatum
    <2> DEFINE found == harvested(plan.dialect, datum)
    <2>1. /\ registry' = IF found = <<>> THEN registry ELSE merged(registry, entry(datum.name, found[1]))
          /\ indents' = indents /\ pc = "specs" /\ at <= Len(source.form)
      BY <1>4 DEF HarvestDatum
    <2>2. found # <<>> => found[1] \in S
      <3>1. layer \in DOMAIN plan.layers /\ this.op = "harvest" /\ at \in DOMAIN source.form
        BY <2>1, PlanTyped, SourceTyped DEF Positioned
      <3>2. QED
        BY <3>1 DEF GivesSpecs, this, source, datum
    <2> HIDE DEF found
    <2>3. QED
      BY <2>1, <2>2, EntryTyped, MergedTyped
  <1>5. CASE HarvestForm
    <2> DEFINE said == indents_of(datum)
    <2>1. /\ indents' = IF said = <<>> THEN indents ELSE merged(indents, entry(datum.name, said[1]))
          /\ registry' = registry /\ pc = "indents" /\ at <= Len(source.form)
      BY <1>5 DEF HarvestForm
    <2>2. said # <<>> => said[1] \in IndentSpecs
      <3>1. said = <<>> \/ \E s \in IndentSpecs : said = <<s>>
        BY <2>1, SourceTyped, IndentsTyped
      <3>2. QED
        BY <3>1
    <2> HIDE DEF said
    <2>3. QED
      BY <2>1, <2>2, EntryTyped, MergedTyped
  <1>6. CASE StartHarvest \/ HarvestIndents \/ SkipForm \/ HarvestEnd
    BY <1>6 DEF StartHarvest, HarvestIndents, SkipForm, HarvestEnd
  <1>7. QED
    BY <1>1, <1>2, <1>3, <1>4, <1>5, <1>6

\* What the layers give has its type, and is sober unless a consumer's is not.
LEMMA LayersGive ==
  ASSUME Positioned
  PROVE  GivesSpecs(FormSpecs)
  <1> SUFFICES ASSUME NEW k \in DOMAIN plan.layers
               PROVE  LET l == plan.layers[k] IN
                      /\ l.op = "insert" => l.spec \in FormSpecs
                      /\ l.op = "merge" => IsTable(l.specs, FormSpecs)
                      /\ l.op = "harvest" => \A d \in DOMAIN l.source.form :
                           harvested(plan.dialect, l.source.form[d]) # <<>> =>
                             harvested(plan.dialect, l.source.form[d])[1] \in FormSpecs
    BY DEF GivesSpecs
  <1> DEFINE l == plan.layers[k]
  <1>1. IsLayer(l)
    BY AnnotateAssumption DEF Positioned
  <1>2. l.op = "harvest" => \A d \in DOMAIN l.source.form : IsForm(l.source.form[d])
    BY <1>1 DEF IsLayer, IsSource
  <1> HIDE DEF l
  <1>3. l.op = "harvest" => \A d \in DOMAIN l.source.form :
          harvested(plan.dialect, l.source.form[d]) # <<>> =>
            harvested(plan.dialect, l.source.form[d])[1] \in FormSpecs
    BY <1>2, HarvestedTyped
  <1>4. QED
    BY <1>1, <1>3 DEF IsLayer, IsTable, l

\* A consumer's own specs treat strings as their dialect does.
LayersSober(p) ==
  \A k \in DOMAIN p.layers :
    LET l == p.layers[k] IN
    /\ l.op = "insert" => Sober(p.dialect, l.spec)
    /\ l.op = "merge" => \A h \in DOMAIN l.specs : Sober(p.dialect, l.specs[h])

LEMMA SoberLayersGive ==
  ASSUME Positioned, LayersSober(plan), plan.dialect \notin is_syntax_rules_dialect
  PROVE  GivesSpecs(SoberSpecs(plan.dialect))
  <1> DEFINE S == SoberSpecs(plan.dialect)
  <1> SUFFICES ASSUME NEW k \in DOMAIN plan.layers
               PROVE  LET l == plan.layers[k] IN
                      /\ l.op = "insert" => l.spec \in S
                      /\ l.op = "merge" => IsTable(l.specs, S)
                      /\ l.op = "harvest" => \A d \in DOMAIN l.source.form :
                           harvested(plan.dialect, l.source.form[d]) # <<>> =>
                             harvested(plan.dialect, l.source.form[d])[1] \in S
    BY DEF GivesSpecs
  <1> DEFINE l == plan.layers[k]
  <1>1. IsLayer(l)
    BY AnnotateAssumption DEF Positioned
  <1>2. l.op = "harvest" => \A d \in DOMAIN l.source.form : IsForm(l.source.form[d])
    BY <1>1 DEF IsLayer, IsSource
  <1>3. /\ l.op = "insert" => Sober(plan.dialect, l.spec)
        /\ l.op = "merge" => \A h \in DOMAIN l.specs : Sober(plan.dialect, l.specs[h])
    BY DEF LayersSober
  <1> HIDE DEF l
  <1>4. l.op = "harvest" => \A d \in DOMAIN l.source.form :
          harvested(plan.dialect, l.source.form[d]) # <<>> =>
            harvested(plan.dialect, l.source.form[d])[1] \in S
    BY <1>2, HarvestedTyped
  <1>5. l.op = "insert" => l.spec \in S
    BY <1>1, <1>3 DEF IsLayer, SoberSpecs
  <1>6. l.op = "merge" => IsTable(l.specs, S)
    BY <1>1, <1>3 DEF IsLayer, SoberSpecs, IsTable
  <1>7. QED
    BY <1>4, <1>5, <1>6 DEF l

\* A part is one that was there, or one of those just tagged.
LEMMA PushedParts ==
  ASSUME NEW R, NEW roles \in Seq(R), Push(roles), Tiled(parts, i), i \in Nat, i >= 1
  PROVE  \A k \in DOMAIN parts' :
           \/ \E m \in DOMAIN parts : parts'[k] = parts[m]
           \/ \E m \in DOMAIN roles : parts'[k] = [role |-> roles[m], datum |-> i + m - 1]
  <1> DEFINE n == Len(roles)
             new == [k \in DOMAIN roles |-> [role |-> roles[k], datum |-> i + k - 1]]
             S == {parts[k] : k \in DOMAIN parts} \union {new[k] : k \in DOMAIN new}
  <1>1. n \in Nat /\ DOMAIN roles = 1..n
    OBVIOUS
  <1>2. parts \in Seq(S) /\ Len(parts) = i
    BY DEF Tiled
  <1>3. new \in Seq(S) /\ Len(new) = n
    BY <1>1
  <1>4. parts' = parts \o new
    BY DEF Push
  <1>5. /\ parts' = [k \in 1..i + n |-> parts'[k]]
        /\ \A k \in 1..i : parts'[k] = parts[k]
        /\ \A k \in 1..n : parts'[i + k] = new[k]
    BY <1>1, <1>2, <1>3, <1>4
  <1>6. ASSUME NEW k \in 1..i + n
        PROVE  \/ \E m \in DOMAIN parts : parts'[k] = parts[m]
               \/ \E m \in DOMAIN roles : parts'[k] = [role |-> roles[m], datum |-> i + m - 1]
    <2>1. CASE k \in 1..i
      BY <1>2, <1>5, <2>1 DEF Tiled
    <2>2. CASE k \notin 1..i
      <3>1. k - i \in 1..n /\ i + (k - i) = k
        BY <1>1, <2>2
      <3>2. parts'[k] = new[k - i]
        BY <1>5, <3>1
      <3>3. QED
        BY <1>1, <3>1, <3>2
    <2>3. QED
      BY <2>1, <2>2
  <1>7. QED
    BY <1>5, <1>6

Registered == pc \in Tagging => form.head \in DOMAIN registry
PartsTyped == \A k \in DOMAIN parts : parts[k].role \in Role
KnownPc == pc \in {"layers", "specs", "indents", "leading", "dispatch", "docstring", "body", "annotated",
                   "none"}

TInv ==
  /\ IInv /\ Positioned
  /\ IsTable(registry, FormSpecs) /\ IsTable(indents, IndentSpecs)
  /\ Registered /\ PartsTyped /\ KnownPc

\* Every step of annotate_form that tags takes its roles from those of the
\* registered spec, but for the docstring's.
LEMMA RolesTagged ==
  ASSUME TInv, TagLeading \/ TagQualifier \/ TagSpecializedArglist \/ TagDispatchValue \/ TagBody,
         NEW S, Role \ {"Docstring"} \subseteq S, spec.leading \in Seq(S)
  PROVE  /\ UNCHANGED tables /\ pc \in Tagging /\ pc' \in Tagging
         /\ \E roles \in Seq(S) : Push(roles)
  <1>0. {"Qualifier", "SpecializedArglist", "DispatchValue", "Arglist", "Declare", "Interactive", "Body"}
          \subseteq S
    BY DEF Role
  <1>1. ASSUME NEW r \in S, Push(<<r>>)
        PROVE  \E roles \in Seq(S) : Push(roles)
    <2> DEFINE roles == <<r>>
    <2>1. roles \in Seq(S) /\ Push(roles)
      BY <1>1
    <2> HIDE DEF roles
    <2>2. QED
      BY <2>1
  <1>2. CASE TagLeading
    <2>1. spec.leading[i] \in S
      BY <1>2 DEF TagLeading, AtSlot, TInv, IInv
    <2>2. QED
      BY <1>1, <1>2, <2>1 DEF TagLeading, Tagging
  <1>3. CASE TagQualifier
    BY <1>0, <1>1, <1>3 DEF TagQualifier, Tagging
  <1>4. CASE TagSpecializedArglist
    BY <1>0, <1>1, <1>4 DEF TagSpecializedArglist, Tagging
  <1>5. CASE TagDispatchValue
    <2>1. UNCHANGED tables /\ pc \in Tagging /\ pc' \in Tagging
      BY <1>5 DEF TagDispatchValue, Tagging
    <2>2. CASE i < Len(form.items) /\ form.items[i + 1] = "Square"
      <3> DEFINE roles == <<"DispatchValue", "Arglist">>
      <3>1. Push(roles) /\ roles \in Seq(S)
        BY <1>0, <1>5, <2>2 DEF TagDispatchValue
      <3> HIDE DEF roles
      <3>2. QED
        BY <2>1, <3>1
    <2>3. CASE ~(i < Len(form.items) /\ form.items[i + 1] = "Square")
      <3>1. Push(<<"DispatchValue">>)
        BY <1>5, <2>3 DEF TagDispatchValue
      <3>2. QED
        BY <1>0, <1>1, <2>1, <3>1
    <2>4. QED
      BY <2>2, <2>3
  <1>6. CASE TagBody
    <2> DEFINE rest == SubSeq(form.items, i, Len(form.items))
               roles == [k \in DOMAIN rest |-> body_role(rest[k])]
    <2>1. UNCHANGED tables /\ pc \in Tagging /\ pc' \in Tagging
      BY <1>6 DEF TagBody, Tagging
    <2>2. CASE spec.body
      <3>1. Push(roles)
        BY <1>6, <2>2 DEF TagBody
      <3>2. rest \in Seq(Shapes)
        BY DEF TInv, IInv
      <3> HIDE DEF rest
      <3>3. \A k \in DOMAIN rest : body_role(rest[k]) \in S
        BY <1>0 DEF body_role
      <3>4. roles \in Seq(S)
        <4>1. DOMAIN rest = 1..Len(rest) /\ Len(rest) \in Nat
          BY <3>2
        <4>2. QED
          BY <3>3, <4>1
      <3> HIDE DEF roles
      <3>5. QED
        BY <2>1, <3>1, <3>4
    <2>3. CASE ~spec.body
      <3> DEFINE none == <<>>
      <3>1. Push(none) /\ none \in Seq(S)
        BY <1>6, <2>3 DEF TagBody
      <3> HIDE DEF none
      <3>2. QED
        BY <2>1, <3>1
    <2>4. QED
      BY <2>2, <2>3
  <1>7. QED
    BY <1>2, <1>3, <1>4, <1>5, <1>6

LEMMA DocstringTagged ==
  ASSUME TagDocstring
  PROVE  /\ UNCHANGED tables /\ pc = "docstring" /\ pc' = "body"
         /\ \E roles \in Seq({"Docstring"}) : Push(roles)
            /\ (roles = <<>> \/ (roles = <<"Docstring">> /\ accepted))
  <1>1. UNCHANGED tables /\ pc = "docstring" /\ pc' = "body"
    BY DEF TagDocstring
  <1> DEFINE roles == IF accepted THEN <<"Docstring">> ELSE <<>>
  <1>2. Push(roles)
    BY DEF TagDocstring
  <1>3. roles \in Seq({"Docstring"}) /\ (roles = <<>> \/ (roles = <<"Docstring">> /\ accepted))
    <2>1. CASE accepted
      <3>1. roles = <<"Docstring">>
        BY <2>1
      <3> HIDE DEF roles
      <3>2. QED
        BY <2>1, <3>1
    <2>2. CASE ~accepted
      <3>1. roles = <<>>
        BY <2>2
      <3> HIDE DEF roles
      <3>2. QED
        BY <3>1
    <2>3. QED
      BY <2>1, <2>2
  <1> HIDE DEF roles
  <1>4. QED
    BY <1>1, <1>2, <1>3

LEMMA SpecInForce ==
  ASSUME TInv, pc \in Tagging
  PROVE  spec \in FormSpecs /\ spec.leading \in Seq(Role)
  <1>1. spec \in FormSpecs
    BY DEF TInv, Registered, IsTable, spec
  <1>2. QED
    BY <1>1 DEF FormSpecs

LEMMA Tagged ==
  ASSUME TInv, TagLeading \/ TagQualifier \/ TagSpecializedArglist \/ TagDispatchValue
                 \/ TagDocstring \/ TagBody
  PROVE  /\ UNCHANGED tables /\ pc \in Tagging /\ pc' \in Tagging
         /\ \E roles \in Seq(Role) : Push(roles)
  <1>1. CASE TagDocstring
    <2>1. PICK roles \in Seq({"Docstring"}) : Push(roles)
      BY <1>1, DocstringTagged
    <2>2. \A k \in 1..Len(roles) : roles[k] \in Role
      BY DEF Role
    <2>3. roles \in Seq(Role)
      BY <2>2
    <2>4. QED
      BY <1>1, <2>1, <2>3, DocstringTagged DEF Tagging
  <1>2. CASE TagLeading \/ TagQualifier \/ TagSpecializedArglist \/ TagDispatchValue \/ TagBody
    <2>1. pc \in Tagging
      BY <1>2 DEF TagLeading, TagQualifier, TagSpecializedArglist, TagDispatchValue, TagBody, Tagging
    <2>2. Role \ {"Docstring"} \subseteq Role /\ spec.leading \in Seq(Role)
      BY <2>1, SpecInForce
    <2>3. QED
      BY <1>2, <2>2, RolesTagged
  <1>3. QED
    BY <1>1, <1>2

LEMMA TInvStep ==
  ASSUME TInv, [Next]_vars
  PROVE  TInv'
  <1>0. IInv'
    <2>1. CASE UNCHANGED vars
      BY <2>1 DEF vars, IInv, TInv, Tiled, Tagging
    <2>2. CASE Next
      BY <2>2, LayerStep, LookupStep, IdleStep, TagStep DEF Next, TInv
    <2>3. QED
      BY <2>1, <2>2
  <1>1. CASE UNCHANGED vars
    <2>1. UNCHANGED <<this, source>>
      BY <1>1 DEF vars, this, source
    <2>2. QED
      BY <1>0, <1>1, <2>1 DEF vars, TInv, Positioned, Registered, PartsTyped, KnownPc, IsTable, Tagging
  <1>2. CASE \/ InsertSpec \/ RemoveSpec \/ MergeTables \/ StartHarvest \/ HarvestDatum
             \/ HarvestIndents \/ HarvestForm \/ SkipForm \/ HarvestEnd
    <2>1. Positioned' /\ pc' \in {"layers", "specs", "indents"} /\ UNCHANGED <<plan, annotation>>
      BY <1>2, LayersPositioned DEF TInv
    <2>2. IsTable(registry', FormSpecs) /\ IsTable(indents', IndentSpecs)
      BY <1>2, LayersTyped, LayersGive DEF TInv
    <2>3. Registered' /\ KnownPc'
      BY <2>1 DEF Registered, KnownPc, Tagging
    <2>4. PartsTyped'
      BY <2>1 DEF TInv, PartsTyped, annotation
    <2>5. QED
      BY <1>0, <2>1, <2>2, <2>3, <2>4 DEF TInv
  <1>3. CASE \E use \in plan.uses : Lookup(use)
    <2>1. PICK use \in plan.uses : Lookup(use)
      BY <1>3
    <2>2. /\ UNCHANGED <<plan, layer, registry, indents>> /\ form' = use
          /\ \/ /\ use.head \in DOMAIN registry /\ pc' = "leading"
                /\ parts' = <<[role |-> "Keyword", datum |-> 0]>>
             \/ parts' = <<>> /\ pc' = "none"
      BY <2>1 DEF Lookup
    <2>3. Positioned'
      BY <2>2 DEF TInv, Positioned
    <2>4. Registered' /\ KnownPc'
      BY <2>2 DEF Registered, KnownPc, Tagging
    <2>5. PartsTyped'
      BY <2>2 DEF PartsTyped, Role
    <2>6. QED
      BY <1>0, <2>2, <2>3, <2>4, <2>5 DEF TInv, IsTable
  <1>4. CASE NotNamed \/ LeadingEnd \/ NoDispatch
    <2>1. /\ UNCHANGED tables /\ pc \in Tagging /\ pc' \in {"none", "dispatch", "docstring"}
          /\ parts' \in {parts, <<>>}
      BY <1>4 DEF NotNamed, LeadingEnd, NoDispatch, Tagging
    <2>2. UNCHANGED <<plan, layer, at, registry, indents, form>>
      BY <2>1 DEF tables
    <2>3. Positioned'
      BY <2>1, <2>2 DEF TInv, Positioned
    <2>4. Registered' /\ KnownPc' /\ PartsTyped'
      BY <2>1, <2>2 DEF TInv, Registered, KnownPc, PartsTyped, Tagging
    <2>5. QED
      BY <1>0, <2>2, <2>3, <2>4 DEF TInv, IsTable
  <1>5. CASE TagLeading \/ TagQualifier \/ TagSpecializedArglist \/ TagDispatchValue
               \/ TagDocstring \/ TagBody
    <2>1. UNCHANGED tables /\ pc \in Tagging /\ pc' \in Tagging
      BY <1>5, Tagged
    <2>2. PICK roles \in Seq(Role) : Push(roles)
      BY <1>5, Tagged
    <2>3. UNCHANGED <<plan, layer, at, registry, indents, form>>
      BY <2>1 DEF tables
    <2>4. Positioned'
      BY <2>1, <2>3 DEF TInv, Positioned, Tagging
    <2>5. PartsTyped'
      <3>1. Tiled(parts, i) /\ i \in Nat /\ i >= 1
        BY <2>1 DEF TInv, IInv
      <3>2. \A k \in DOMAIN parts' :
              \/ \E m \in DOMAIN parts : parts'[k] = parts[m]
              \/ \E m \in DOMAIN roles : parts'[k] = [role |-> roles[m], datum |-> i + m - 1]
        BY <2>2, <3>1, PushedParts
      <3>3. QED
        BY <3>2 DEF TInv, PartsTyped
    <2>6. Registered' /\ KnownPc'
      BY <2>1, <2>3 DEF TInv, Registered, KnownPc, Tagging
    <2>7. QED
      BY <1>0, <2>3, <2>4, <2>5, <2>6 DEF TInv, IsTable
  <1>6. QED
    BY <1>1, <1>2, <1>3, <1>4, <1>5 DEF Next

LEMMA TInvInit == Init => TInv
  <1> SUFFICES ASSUME Init
               PROVE  TInv
    OBVIOUS
  <1>1. /\ plan \in Plans /\ layer = 1 /\ parts = <<>> /\ pc = "layers"
        /\ registry = bundled_registry[plan.dialect] /\ indents = bundled_table(plan.dialect)
    BY DEF Init
  <1>2. Positioned
    <2>1. DOMAIN plan.layers = 1..Len(plan.layers)
      BY <1>1, AnnotateAssumption
    <2>2. 1 \in 1..Len(plan.layers) + 1
      BY <2>1
    <2>3. QED
      BY <1>1, <2>2 DEF Positioned
  <1>3. IsTable(registry, SoberSpecs(plan.dialect))
    BY <1>1, AnnotateAssumption, BuiltinsSober
  <1>4. IsTable(registry, FormSpecs)
    BY <1>3 DEF IsTable, SoberSpecs
  <1>5. IsTable(indents, IndentSpecs)
    BY <1>1, BundledIndentsTyped
  <1>6. Registered /\ PartsTyped /\ KnownPc
    BY <1>1 DEF Registered, PartsTyped, KnownPc, Tagging
  <1>7. QED
    BY <1>2, <1>4, <1>5, <1>6, InitIInv DEF TInv

\* The tables an annotator has put together hold specs, whatever the layers are;
\* harvests stay inside their source, and every part has a role (Registry,
\* IndentTable, harvest_source_for, annotate_form).
THEOREM AnnotatorTyped == Spec => []TypeOK
  <1>1. TInv /\ [Next]_vars => TInv'
    BY TInvStep
  <1>2. TInv => TypeOK
    <2> SUFFICES ASSUME TInv
                 PROVE  TypeOK
      OBVIOUS
    <2>1. PartsTile
      <3>1. i \in 1..Len(form.items) + 1
        BY DEF TInv, IInv
      <3>2. \A k \in DOMAIN parts : parts[k].datum = k - 1
        BY DEF TInv, IInv, Tiled
      <3>3. pc \in Tagging => Len(parts) = i
        BY DEF TInv, IInv, Tiled
      <3>4. QED
        BY <3>1, <3>2, <3>3 DEF PartsTile, Tagging
    <2>2. QED
      BY <2>1 DEF TInv, Positioned, IsTable, PartsTyped, KnownPc, TypeOK
  <1>3. QED
    BY TInvInit, <1>1, <1>2, PTL DEF Spec

-----------------------------------------------------------------------------
(* Docstrings.                                                             *)

\* A docstring stands where the dialect documents.
Documentary(j) ==
  /\ form.items[j] = "Str"
  /\ j = Len(form.items) /\ plan.dialect \notin {"EmacsLisp", "Hy"} => ~spec.body /\ j = 3

\* While annotate_form is at work, the argument it looks at follows the leading
\* ones, unless the dispatch has taken some; and what is tagged a docstring is one.
DocInv ==
  /\ IsTable(registry, SoberSpecs(plan.dialect))
  /\ pc = "leading" => i <= Len(spec.leading) + 1
  /\ pc \in {"dispatch", "docstring"} /\ spec.dispatch = None /\ more => i = Len(spec.leading) + 1
  /\ pc \notin Tagging => parts = <<>>
  /\ \A k \in DOMAIN parts : parts[k].role = "Docstring" => Documentary(parts[k].datum)
Docs == plan.dialect \notin is_syntax_rules_dialect => DocInv

LEMMA SpecSober ==
  ASSUME DocInv, Registered, pc \in Tagging
  PROVE  spec \in FormSpecs /\ Sober(plan.dialect, spec)
  BY DEF DocInv, Registered, IsTable, SoberSpecs, spec

LEMMA DocsOfLayers ==
  ASSUME TInv, DocInv, LayersSober(plan), plan.dialect \notin is_syntax_rules_dialect,
         \/ InsertSpec \/ RemoveSpec \/ MergeTables \/ StartHarvest \/ HarvestDatum
         \/ HarvestIndents \/ HarvestForm \/ SkipForm \/ HarvestEnd
  PROVE  DocInv'
  <1> DEFINE S == SoberSpecs(plan.dialect)
  <1>0. pc \in {"layers", "specs", "indents"}
    BY DEF InsertSpec, RemoveSpec, MergeTables, StartHarvest, HarvestDatum, HarvestIndents, HarvestForm,
           SkipForm, HarvestEnd, Applies
  <1>1. pc' \in {"layers", "specs", "indents"} /\ UNCHANGED <<plan, annotation>>
    BY LayersPositioned DEF TInv
  <1>2. IsTable(registry', S)
    <2>1. GivesSpecs(S)
      BY SoberLayersGive DEF TInv
    <2>2. IsTable(registry, S) /\ Positioned /\ IsTable(indents, IndentSpecs)
      BY DEF DocInv, TInv
    <2> HIDE DEF S
    <2>3. QED
      BY <2>1, <2>2, LayersTyped
  <1>3. parts' = <<>>
    BY <1>0, <1>1 DEF DocInv, Tagging, annotation
  <1>4. QED
    BY <1>1, <1>2, <1>3 DEF DocInv

\* The steps of annotate_form leave the tables and what was a docstring alone.
LEMMA DocsKept ==
  ASSUME TInv, DocInv, UNCHANGED tables, pc \in Tagging, pc' \in Tagging,
         pc' = "leading" => i' <= Len(spec.leading) + 1,
         pc' \in {"dispatch", "docstring"} /\ spec.dispatch = None /\ i' <= Len(form.items) =>
           i' = Len(spec.leading) + 1,
         NEW R, NEW roles \in Seq(R), Push(roles),
         \A k \in DOMAIN roles : roles[k] = "Docstring" => k = 1 /\ Documentary(i)
  PROVE  DocInv'
  <1>1. UNCHANGED <<plan, registry, form, spec, Len(form.items)>>
    BY DEF tables, spec
  <1>2. \A j : Documentary(j)' <=> Documentary(j)
    BY <1>1 DEF Documentary
  <1>3. Tiled(parts, i) /\ i \in Nat /\ i >= 1
    BY DEF TInv, IInv
  <1>4. \A k \in DOMAIN parts' : parts'[k].role = "Docstring" => Documentary(parts'[k].datum)
    <2>1. SUFFICES ASSUME NEW k \in DOMAIN parts', parts'[k].role = "Docstring"
                   PROVE  Documentary(parts'[k].datum)
      OBVIOUS
    <2>2. \/ \E m \in DOMAIN parts : parts'[k] = parts[m]
          \/ \E m \in DOMAIN roles : parts'[k] = [role |-> roles[m], datum |-> i + m - 1]
      BY <1>3, PushedParts
    <2>3. CASE \E m \in DOMAIN parts : parts'[k] = parts[m]
      BY <2>1, <2>3 DEF DocInv
    <2>4. CASE \E m \in DOMAIN roles : parts'[k] = [role |-> roles[m], datum |-> i + m - 1]
      <3>1. PICK m \in DOMAIN roles : parts'[k] = [role |-> roles[m], datum |-> i + m - 1]
        BY <2>4
      <3>2. roles[m] = "Docstring" /\ parts'[k].datum = i + m - 1
        BY <2>1, <3>1
      <3>3. m = 1 /\ Documentary(i)
        BY <3>2
      <3>4. i + m - 1 = i
        BY <1>3, <3>3
      <3>5. QED
        BY <3>2, <3>3, <3>4
    <2>5. QED
      BY <2>2, <2>3, <2>4
  <1>5. QED
    BY <1>1, <1>2, <1>4 DEF DocInv, more

LEMMA DocsOfTags ==
  ASSUME TInv, DocInv,
         TagLeading \/ TagQualifier \/ TagSpecializedArglist \/ TagDispatchValue \/ TagDocstring \/ TagBody
  PROVE  DocInv'
  <1>0. UNCHANGED tables /\ pc \in Tagging /\ pc' \in Tagging
    BY Tagged
  <1>1. spec \in FormSpecs /\ Sober(plan.dialect, spec)
    BY <1>0, SpecSober DEF TInv
  <1>2. Tiled(parts, i) /\ i \in Nat /\ i >= 1 /\ i <= Len(form.items) + 1 /\ Len(form.items) \in Nat
    BY <1>0 DEF TInv, IInv
  <1>3. spec.leading \in Seq(Role) /\ Len(spec.leading) \in Nat
    BY <1>1 DEF FormSpecs
  <1> DEFINE S == Role \ {"Docstring"}
  <1>4. spec.leading \in Seq(S)
    <2>1. \A k \in 1..Len(spec.leading) : spec.leading[k] \in S
      BY <1>1, <1>3 DEF Sober
    <2>2. QED
      BY <1>3, <2>1
  <1>5. CASE TagLeading
    <2>1. PICK roles \in Seq(S) : Push(roles)
      BY <1>4, <1>5, RolesTagged
    <2>2. \A k \in DOMAIN roles : roles[k] # "Docstring"
      OBVIOUS
    <2> HIDE DEF S
    <2>3. pc' = "leading" /\ i' = i + 1 /\ i <= Len(spec.leading)
      <3>1. pc = "leading" /\ pc' = pc /\ i <= Len(spec.leading) /\ Push(<<spec.leading[i]>>)
        BY <1>5 DEF TagLeading, AtSlot
      <3>2. i' = i + 1
        BY <3>1 DEF Push
      <3>3. QED
        BY <3>1, <3>2
    <2>4. i' <= Len(spec.leading) + 1
      BY <1>2, <1>3, <2>3
    <2>5. QED
      BY <1>0, <2>1, <2>2, <2>3, <2>4, DocsKept
  <1>6. CASE TagQualifier \/ TagSpecializedArglist \/ TagDispatchValue
    <2>1. PICK roles \in Seq(S) : Push(roles)
      BY <1>4, <1>6, RolesTagged
    <2>2. \A k \in DOMAIN roles : roles[k] # "Docstring"
      OBVIOUS
    <2> HIDE DEF S
    <2>3. spec.dispatch # None /\ pc' # "leading"
      BY <1>6 DEF TagQualifier, TagSpecializedArglist, TagDispatchValue, None
    <2>4. QED
      BY <1>0, <2>1, <2>2, <2>3, DocsKept
  <1>7. CASE TagBody
    <2>1. PICK roles \in Seq(S) : Push(roles)
      BY <1>4, <1>7, RolesTagged
    <2>2. \A k \in DOMAIN roles : roles[k] # "Docstring"
      OBVIOUS
    <2> HIDE DEF S
    <2>3. pc' = "annotated"
      BY <1>7 DEF TagBody
    <2>4. QED
      BY <1>0, <2>1, <2>2, <2>3, DocsKept
  <1>8. CASE TagDocstring
    <2>1. PICK roles \in Seq({"Docstring"}) :
            Push(roles) /\ (roles = <<>> \/ (roles = <<"Docstring">> /\ accepted))
      BY <1>8, DocstringTagged
    <2>2. pc = "docstring" /\ pc' = "body"
      BY <1>8, DocstringTagged
    <2>3. accepted => Documentary(i)
      <3>1. SUFFICES ASSUME accepted
                     PROVE  Documentary(i)
        OBVIOUS
      <3>2. more /\ form.items[i] = "Str"
        BY <3>1 DEF accepted, here
      <3>3. CASE i = Len(form.items) /\ plan.dialect \notin {"EmacsLisp", "Hy"}
        <4>1. spec.docstring \in {None, "Leading", "LeadingOrLone"}
          BY <1>1 DEF FormSpecs, Docstrings
        <4>2. spec.docstring = "LeadingOrLone"
          <5>1. ~(i < Len(form.items))
            BY <1>2, <3>3
          <5>2. spec.docstring # None /\ spec.docstring # "Leading"
            BY <3>1, <5>1 DEF accepted, None
          <5>3. QED
            BY <4>1, <5>2
        <4>3. ~spec.body /\ Len(spec.leading) = 2 /\ spec.dispatch = None
          BY <1>1, <3>3, <4>2 DEF Sober
        <4>4. i = 3
          BY <2>2, <3>2, <4>3 DEF DocInv
        <4>5. QED
          BY <3>2, <4>3, <4>4 DEF Documentary
      <3>4. CASE ~(i = Len(form.items) /\ plan.dialect \notin {"EmacsLisp", "Hy"})
        BY <3>2, <3>4 DEF Documentary
      <3>5. QED
        BY <3>3, <3>4
    <2>4. \A k \in DOMAIN roles : roles[k] = "Docstring" => k = 1 /\ Documentary(i)
      BY <2>1, <2>3
    <2>5. QED
      BY <1>0, <2>1, <2>2, <2>4, DocsKept
  <1>9. QED
    BY <1>5, <1>6, <1>7, <1>8

LEMMA DocsStep ==
  ASSUME TInv, Docs, LayersSober(plan), [Next]_vars
  PROVE  Docs'
  <1>0. plan' = plan
    BY DEF Next, vars, InsertSpec, RemoveSpec, MergeTables, StartHarvest, HarvestDatum, HarvestIndents,
           HarvestForm, SkipForm, HarvestEnd, NextLayer, Lookup, TagLeading, NotNamed, LeadingEnd,
           TagQualifier, TagSpecializedArglist, TagDispatchValue, NoDispatch, TagDocstring, TagBody, tables
  <1> SUFFICES ASSUME plan.dialect \notin is_syntax_rules_dialect, DocInv
               PROVE  DocInv'
    BY <1>0 DEF Docs
  <1>1. CASE UNCHANGED vars
    BY <1>1 DEF vars, DocInv, spec, more, Documentary
  <1>2. CASE \/ InsertSpec \/ RemoveSpec \/ MergeTables \/ StartHarvest \/ HarvestDatum
             \/ HarvestIndents \/ HarvestForm \/ SkipForm \/ HarvestEnd
    BY <1>2, DocsOfLayers
  <1>3. CASE \E use \in plan.uses : Lookup(use)
    <2>1. PICK use \in plan.uses : Lookup(use)
      BY <1>3
    <2>2. /\ UNCHANGED <<plan, registry>> /\ form' = use /\ i' = 1
          /\ \/ /\ use.head \in DOMAIN registry /\ pc' = "leading"
                /\ parts' = <<[role |-> "Keyword", datum |-> 0]>>
             \/ parts' = <<>> /\ pc' = "none"
      BY <2>1 DEF Lookup
    <2>3. pc' = "leading" => i' <= Len(spec'.leading) + 1
      <3> SUFFICES ASSUME pc' = "leading"
                   PROVE  i' <= Len(spec'.leading) + 1
        OBVIOUS
      <3>1. spec' = registry[use.head] /\ use.head \in DOMAIN registry
        BY <2>2 DEF spec
      <3>2. spec' \in FormSpecs
        BY <3>1 DEF TInv, IsTable
      <3>3. Len(spec'.leading) \in Nat
        BY <3>2 DEF FormSpecs
      <3>4. QED
        BY <2>2, <3>3
    <2>4. \A k \in DOMAIN parts' : parts'[k].role # "Docstring"
      BY <2>2
    <2>5. QED
      BY <2>2, <2>3, <2>4 DEF DocInv, Tagging
  <1>4. CASE NotNamed \/ LeadingEnd \/ NoDispatch
    <2>1. UNCHANGED tables /\ pc \in Tagging
      BY <1>4 DEF NotNamed, LeadingEnd, NoDispatch, Tagging
    <2>2. UNCHANGED <<plan, registry, form, spec, Len(form.items)>>
      BY <2>1 DEF tables, spec
    <2>3. \A j : Documentary(j)' <=> Documentary(j)
      BY <2>2 DEF Documentary
    <2>4. CASE NotNamed
      BY <2>2, <2>4 DEF NotNamed, DocInv, Tagging
    <2>5. CASE LeadingEnd
      <3>1. pc = "leading" /\ ~AtSlot /\ pc' = "dispatch" /\ UNCHANGED <<i, parts>>
        BY <2>5 DEF LeadingEnd
      <3>2. Len(spec.leading) \in Nat /\ i \in Nat
        BY <2>1, SpecInForce DEF TInv, IInv
      <3>3. more => i = Len(spec.leading) + 1
        BY <3>1, <3>2 DEF AtSlot, DocInv
      <3>4. QED
        BY <2>2, <2>3, <3>1, <3>3 DEF DocInv, more, Tagging
    <2>6. CASE NoDispatch
      <3>1. pc = "dispatch" /\ pc' = "docstring" /\ UNCHANGED <<i, parts>>
        BY <2>6 DEF NoDispatch
      <3>2. QED
        BY <2>2, <2>3, <3>1 DEF DocInv, more, Tagging
    <2>7. QED
      BY <1>4, <2>4, <2>5, <2>6
  <1>5. CASE TagLeading \/ TagQualifier \/ TagSpecializedArglist \/ TagDispatchValue
               \/ TagDocstring \/ TagBody
    BY <1>5, DocsOfTags
  <1>6. QED
    BY <1>1, <1>2, <1>3, <1>4, <1>5 DEF Next

\* A string in last position is a value, but in Emacs Lisp and Hy, and behind
\* the value of a variable: if the specs a consumer adds himself respect that, so
\* do those of the bundled registries and all that is harvested, in every order
\* of layers and for every form (Builtins, harvest_profile, annotate_form).
THEOREM ValuesStayValues ==
  ASSUME \A p \in Plans : LayersSober(p)
  PROVE  Spec => []DocstringsAreNoValues
  <1>1. Init => TInv /\ Docs
    <2> SUFFICES ASSUME Init
                 PROVE  Docs
      BY TInvInit
    <2>1. plan \in Plans /\ registry = bundled_registry[plan.dialect] /\ pc = "layers" /\ parts = <<>>
      BY DEF Init
    <2>2. IsTable(registry, SoberSpecs(plan.dialect))
      BY <2>1, AnnotateAssumption, BuiltinsSober
    <2>3. QED
      BY <2>1, <2>2 DEF Docs, DocInv
  <1>2. TInv /\ Docs /\ [Next]_vars => TInv' /\ Docs'
    <2> SUFFICES ASSUME TInv, Docs, [Next]_vars
                 PROVE  TInv' /\ Docs'
      OBVIOUS
    <2>1. LayersSober(plan)
      BY DEF TInv, IInv
    <2>2. QED
      BY <2>1, TInvStep, DocsStep
  <1>3. TInv /\ Docs => DocstringsAreNoValues
    <2> SUFFICES ASSUME TInv, Docs, pc = "annotated", plan.dialect \notin is_syntax_rules_dialect,
                        NEW j \in DOMAIN form.items, RolesGiven(j) = {"Docstring"}
                 PROVE  /\ form.items[j] = "Str"
                        /\ (j = Len(form.items) /\ plan.dialect \notin {"EmacsLisp", "Hy"} =>
                              ~spec.body /\ j = 3)
      BY DEF DocstringsAreNoValues
    <2>1. PICK k \in DOMAIN parts : parts[k].datum = j /\ parts[k].role = "Docstring"
      BY DEF RolesGiven
    <2>2. QED
      BY <2>1 DEF Docs, DocInv, Documentary
  <1>4. QED
    BY <1>1, <1>2, <1>3, PTL DEF Spec

-----------------------------------------------------------------------------
(* The last layer to mention a key.                                        *)

\* What is in force changes when, and only when, something is said after all else.
Grows(m, k, said, more2, new) ==
  /\ m \in Nat /\ k \in 1..m
  /\ said = [j \in 1..m |-> said[j]] /\ more2 = [j \in 1..m |-> more2[j]]
  /\ \A j \in 1..m : j # k => more2[j] = said[j]
  /\ \A j \in 1..m : j > k => said[j] = {}
  /\ more2[k] = said[k] \union new
  /\ \/ new = {}
     \/ \E n \in Nat : \E v : new = {<<n, v>>} /\ \A e \in said[k] : e[1] \in Nat /\ e[1] < n

LEMMA Spoken ==
  ASSUME NEW m, NEW k, NEW said, NEW more2, NEW b, NEW new, Grows(m, k, said, more2, new)
  PROVE  /\ new = {} => InForce(more2, b) = InForce(said, b)
         /\ \A n, v : new = {<<n, v>>} => InForce(more2, b) = v
  <1>0. /\ m \in Nat /\ k \in 1..m
        /\ said = [j \in 1..m |-> said[j]] /\ more2 = [j \in 1..m |-> more2[j]]
        /\ \A j \in 1..m : j # k => more2[j] = said[j]
        /\ \A j \in 1..m : j > k => said[j] = {}
        /\ more2[k] = said[k] \union new
        /\ \/ new = {}
           \/ \E n \in Nat : \E v : new = {<<n, v>>} /\ \A e \in said[k] : e[1] \in Nat /\ e[1] < n
    BY DEF Grows
  <1>1. new = {} => InForce(more2, b) = InForce(said, b)
    <2> SUFFICES ASSUME new = {}
                 PROVE  InForce(more2, b) = InForce(said, b)
      BY <1>0
    <2>1. \A j \in 1..m : more2[j] = said[j]
      BY <1>0
    <2>2. more2 = said
      BY <1>0, <2>1
    <2>3. QED
      BY <1>0, <2>2
  <1>2. ASSUME NEW n, NEW v, new = {<<n, v>>}
        PROVE  InForce(more2, b) = v
    <2> DEFINE spoken == {j \in DOMAIN more2 : more2[j] # {}}
    <2>1. n \in Nat /\ \A e \in said[k] : e[1] \in Nat /\ e[1] < n
      <3>1. PICK p, w : p \in Nat /\ new = {<<p, w>>} /\ \A e \in said[k] : e[1] \in Nat /\ e[1] < p
        BY <1>0, <1>2
      <3>2. <<p, w>> = <<n, v>>
        BY <1>0, <1>2, <3>1
      <3>3. QED
        BY <1>0, <3>1, <3>2
    <2>2. DOMAIN more2 = 1..m
      BY <1>0
    <2>3. k \in spoken /\ spoken \subseteq 1..m
      BY <1>0, <1>2, <2>2
    <2>4. \A j \in spoken : j <= k
      BY <1>0, <2>2
    <2>5. Max(spoken) \in spoken /\ \A j \in spoken : Max(spoken) >= j
      <3> HIDE DEF spoken
      <3>1. QED
        BY <1>0, <2>3, LastOf
    <2>6. Max(spoken) = k
      <3> DEFINE last == Max(spoken)
      <3>1. last \in spoken /\ last >= k
        BY <1>0, <2>3, <2>5
      <3> HIDE DEF last
      <3>2. last <= k /\ last \in 1..m
        BY <1>0, <2>3, <2>4, <3>1
      <3>3. last = k
        BY <1>0, <3>1, <3>2
      <3>4. QED
        BY <1>0, <3>3 DEF last
    <2>7. InForce(more2, b) = LastSaid(more2[k])
      BY <1>0, <2>3, <2>6 DEF InForce
    <2> HIDE DEF spoken
    <2> DEFINE latest(e) == e \in more2[k] /\ \A o \in more2[k] : o[1] <= e[1]
               top == <<n, v>>
    <2>8. more2[k] = said[k] \union {top}
      BY <1>0, <1>2
    <2>9. top[1] = n /\ top[2] = v
      BY <1>0
    <2> HIDE DEF top
    <2>10. latest(top)
      BY <1>0, <2>1, <2>8, <2>9
    <2>11. \A e : latest(e) => e = top
      BY <1>0, <2>1, <2>8, <2>9
    <2>12. LastSaid(more2[k]) = v
      BY <1>0, <2>9, <2>10, <2>11 DEF LastSaid
    <2>13. QED
      BY <1>0, <2>7, <2>12
  <1>3. QED
    BY <1>0, <1>1, <1>2

LEMMA EntryMerged ==
  \A t, o, h : Entry(merged(t, o), h) = IF h \in DOMAIN o THEN <<o[h]>> ELSE Entry(t, h)
  BY DEF Entry, merged

LEMMA EntryAdded ==
  \A t, k, v, h : Entry(merged(t, entry(k, v)), h) = IF h = k THEN <<v>> ELSE Entry(t, h)
  BY DEF Entry, merged, entry

LEMMA EntryWithout ==
  \A t, k, h : Entry(without(t, k), h) = IF h = k THEN <<>> ELSE Entry(t, h)
  BY DEF Entry, without

\* Only places of the layer are named.
LEMMA SaidPlaced ==
  ASSUME NEW d, NEW l, IsLayer(l), NEW h
  PROVE  /\ \A e \in SpecsSaid(d, l, h) : e[1] \in Nat /\ e[1] >= 1
         /\ \A e \in IndentsSaid(d, l, h) : e[1] \in Nat /\ e[1] >= 1
         /\ l.op = "harvest" => /\ \A e \in SpecsSaid(d, l, h) : e[1] <= Len(l.source.form)
                                /\ \A e \in IndentsSaid(d, l, h) : e[1] <= Len(l.source.form)
  <1>1. CASE l.op = "insert"
    BY <1>1 DEF SpecsSaid, IndentsSaid
  <1>2. CASE l.op = "remove"
    BY <1>2 DEF SpecsSaid, IndentsSaid
  <1>3. CASE l.op = "merge"
    BY <1>3 DEF SpecsSaid, IndentsSaid
  <1>4. CASE l.op = "harvest"
    <2>1. IsSource(l.source)
      BY <1>4 DEF IsLayer
    <2>2. DOMAIN l.source.form = 1..Len(l.source.form) /\ Len(l.source.form) \in Nat
      BY <2>1 DEF IsSource
    <2>3. \A e \in SpecsSaid(d, l, h) : e[1] \in DOMAIN l.source.form
      BY <1>4 DEF SpecsSaid
    <2>4. \A e \in IndentsSaid(d, l, h) : e[1] \in DOMAIN l.source.form
      BY <1>4 DEF IndentsSaid
    <2>5. QED
      BY <2>2, <2>3, <2>4
  <1>5. QED
    BY <1>1, <1>2, <1>3, <1>4 DEF IsLayer

\* What is harvested, and what is declared, is at most one spec.
LEMMA HarvestedIsOption ==
  ASSUME NEW d, NEW f, IsForm(f)
  PROVE  harvested(d, f) = <<>> \/ \E s : harvested(d, f) = <<s>>
  <1>1. CASE d \in is_syntax_rules_dialect
    <2>1. harvested(d, f) \in {<<>>, harvest_scheme_macro(f)}
      BY <1>1, HarvestersApart DEF harvested
    <2>2. QED
      BY <2>1, SchemeMacroTyped
  <1>2. CASE d \in DOMAIN harvest_profile
    <2>1. harvested(d, f) \in {<<>>, harvest_defmacro(f, harvest_profile[d])}
      BY <1>2, HarvestersApart DEF harvested
    <2>2. QED
      BY <1>2, <2>1, DefmacroSober
  <1>3. CASE d \notin is_syntax_rules_dialect /\ d \notin DOMAIN harvest_profile
    BY <1>3 DEF harvested
  <1>4. QED
    BY <1>1, <1>2, <1>3

\* What has been said so far, by the layers already applied and by the part of a
\* source already harvested.
Sofar(all, k, phase, l, p, a) ==
  IF k < l THEN all
  ELSE IF k = l /\ p = phase THEN {e \in all : e[1] < a}
  ELSE IF k = l /\ phase = "specs" /\ p = "indents" THEN all
  ELSE {}
SpecsSofar(h) ==
  [k \in DOMAIN plan.layers |-> Sofar(SpecsSaid(plan.dialect, plan.layers[k], h), k, "specs", layer, pc,
    at)]
IndentsSofar(h) ==
  [k \in DOMAIN plan.layers |-> Sofar(IndentsSaid(plan.dialect, plan.layers[k], h), k, "indents", layer,
    pc, at)]

\* A harvest stands before a datum nothing else contains, or only round lists.
Standing ==
  /\ pc = "specs" => \A a \in 1..at - 1 : source.last[a] < at
  /\ pc = "indents" => \A a \in 1..at - 1 : at <= source.last[a] => source.form[a].shape = "Round"
  /\ pc = "indents" => plan.dialect = "EmacsLisp"

LEMMA StandingStep ==
  ASSUME TInv, Standing,
         \/ InsertSpec \/ RemoveSpec \/ MergeTables \/ StartHarvest \/ HarvestDatum
         \/ HarvestIndents \/ HarvestForm \/ SkipForm \/ HarvestEnd
  PROVE  Standing'
  <1>1. CASE InsertSpec \/ RemoveSpec \/ MergeTables \/ HarvestEnd
    <2>1. pc' = "layers"
      BY <1>1 DEF InsertSpec, RemoveSpec, MergeTables, HarvestEnd, NextLayer
    <2>2. QED
      BY <2>1 DEF Standing
  <1>2. CASE StartHarvest \/ HarvestIndents
    <2>1. at' = 1 /\ pc' \in {"specs", "indents"} /\ plan' = plan
          /\ (pc' = "indents" => plan.dialect = "EmacsLisp")
      BY <1>2 DEF StartHarvest, HarvestIndents
    <2>2. QED
      BY <2>1 DEF Standing
  <1>3. CASE HarvestDatum \/ HarvestForm \/ SkipForm
    <2>1. pc \in {"specs", "indents"} /\ pc' = pc /\ at <= Len(source.form) /\ UNCHANGED <<plan, layer>>
      BY <1>3 DEF HarvestDatum, HarvestForm, SkipForm
    <2>2. this' = this /\ source' = source
      BY <2>1 DEF this, source
    <2>3. IsSource(source) /\ at \in Nat /\ at \in DOMAIN source.form /\ Len(source.form) \in Nat
          /\ source.last[at] \in at..Len(source.form)
      BY <2>1, SourceTyped DEF TInv
    <2>4. /\ \A a \in 1..Len(source.form) : source.last[a] \in a..Len(source.form)
          /\ \A e \in at..source.last[at] : source.last[e] <= source.last[at]
      BY <2>3 DEF IsSource
    <2>5. CASE HarvestDatum
      <3>1. pc = "specs" /\ at' = source.last[at] + 1
        BY <2>5 DEF HarvestDatum
      <3>2. \A a \in 1..source.last[at] : source.last[a] < source.last[at] + 1
        <4> SUFFICES ASSUME NEW a \in 1..source.last[at]
                     PROVE  source.last[a] < source.last[at] + 1
          OBVIOUS
        <4>1. CASE a < at
          BY <2>3, <2>4, <3>1, <4>1 DEF Standing
        <4>2. CASE a >= at
          BY <2>3, <2>4, <4>2
        <4>3. QED
          BY <2>3, <4>1, <4>2
      <3>3. at' - 1 = source.last[at]
        BY <2>3, <3>1
      <3>4. QED
        BY <2>1, <2>2, <3>1, <3>2, <3>3 DEF Standing
    <2>6. CASE HarvestForm
      <3>1. pc = "indents" /\ at' = at + 1 /\ source.form[at].shape = "Round" /\ at' - 1 = at
        BY <2>3, <2>6 DEF HarvestForm, datum
      <3>2. \A a \in 1..at : at + 1 <= source.last[a] => source.form[a].shape = "Round"
        <4> SUFFICES ASSUME NEW a \in 1..at, at + 1 <= source.last[a]
                     PROVE  source.form[a].shape = "Round"
          OBVIOUS
        <4>1. CASE a < at
          BY <2>3, <2>4, <3>1, <4>1 DEF Standing
        <4>2. CASE a = at
          BY <3>1, <4>2
        <4>3. QED
          BY <2>3, <4>1, <4>2
      <3>3. QED
        BY <2>1, <2>2, <3>1, <3>2 DEF Standing
    <2>7. CASE SkipForm
      <3>1. pc = "indents" /\ at' = source.last[at] + 1 /\ at' - 1 = source.last[at]
        BY <2>3, <2>7 DEF SkipForm
      <3>2. \A a \in 1..source.last[at] :
              source.last[at] + 1 <= source.last[a] => source.form[a].shape = "Round"
        <4> SUFFICES ASSUME NEW a \in 1..source.last[at], source.last[at] + 1 <= source.last[a]
                     PROVE  source.form[a].shape = "Round"
          OBVIOUS
        <4>1. CASE a < at
          BY <2>3, <2>4, <3>1, <4>1 DEF Standing
        <4>2. CASE a >= at
          BY <2>3, <2>4, <4>2
        <4>3. QED
          BY <2>3, <4>1, <4>2
      <3>3. QED
        BY <2>1, <2>2, <3>1, <3>2 DEF Standing
    <2>8. QED
      BY <1>3, <2>5, <2>6, <2>7
  <1>4. QED
    BY <1>1, <1>2, <1>3

LEMMA SpecsStep ==
  ASSUME TInv, Standing,
         \/ InsertSpec \/ RemoveSpec \/ MergeTables \/ StartHarvest \/ HarvestDatum
         \/ HarvestIndents \/ HarvestForm \/ SkipForm \/ HarvestEnd,
         NEW h, NEW b, Entry(registry, h) = InForce(SpecsSofar(h), b)
  PROVE  Entry(registry', h) = InForce(SpecsSofar(h)', b)
  <1> DEFINE m == Len(plan.layers)
             all(k) == SpecsSaid(plan.dialect, plan.layers[k], h)
             said == SpecsSofar(h)
             said2 == SpecsSofar(h)'
  <1>1. /\ m \in Nat /\ layer \in 1..m + 1 /\ DOMAIN plan.layers = 1..m
        /\ plan \in Plans /\ \A k \in 1..m : IsLayer(plan.layers[k])
    BY PlanTyped, AnnotateAssumption DEF TInv, Positioned
  <1>2. plan' = plan
    BY LayersPositioned DEF TInv
  <1>3. /\ said = [k \in 1..m |-> Sofar(all(k), k, "specs", layer, pc, at)]
        /\ said2 = [k \in 1..m |-> Sofar(all(k), k, "specs", layer', pc', at')]
    BY <1>1, <1>2 DEF SpecsSofar
  <1>4. \A k \in 1..m : /\ \A e \in all(k) : e[1] \in Nat /\ e[1] >= 1
                        /\ plan.layers[k].op = "harvest" =>
                             \A e \in all(k) : e[1] <= Len(plan.layers[k].source.form)
    BY <1>1, SaidPlaced
  <1>5. all(layer) = SpecsSaid(plan.dialect, this, h)
    BY DEF this
  <1> HIDE DEF said, said2, all, m
  <1>6. CASE InsertSpec \/ RemoveSpec \/ MergeTables
    <2>1. pc = "layers" /\ pc' = "layers" /\ layer \in 1..m /\ layer' = layer + 1
      BY <1>1, <1>6 DEF InsertSpec, RemoveSpec, MergeTables, Applies, NextLayer, m
    <2>2. /\ \A k \in 1..m : k # layer => said2[k] = said[k]
          /\ \A k \in 1..m : k > layer => said[k] = {}
          /\ said[layer] = {} /\ said2[layer] = said[layer] \union all(layer)
      BY <1>1, <1>3, <2>1 DEF Sofar
    <2>3. \/ all(layer) = {} /\ Entry(registry', h) = Entry(registry, h)
          \/ \E v : all(layer) = {<<1, v>>} /\ Entry(registry', h) = v
      <3>1. CASE InsertSpec
        <4>1. this.op = "insert" /\ registry' = merged(registry, entry(this.head, this.spec))
          BY <3>1 DEF InsertSpec, Applies, this
        <4>2. all(layer) = {<<1, <<this.spec>> >> : k \in {this.head} \intersect {h}}
          BY <1>5, <4>1 DEF SpecsSaid
        <4>3. all(layer) = IF this.head = h THEN {<<1, <<this.spec>> >>} ELSE {}
          BY <4>2
        <4>4. Entry(registry', h) = IF h = this.head THEN <<this.spec>> ELSE Entry(registry, h)
          BY <4>1, EntryAdded
        <4>5. QED
          BY <4>3, <4>4
      <3>2. CASE RemoveSpec
        <4>1. this.op = "remove" /\ registry' = without(registry, this.head)
          BY <3>2 DEF RemoveSpec, Applies, this
        <4>2. all(layer) = {<<1, <<>> >> : k \in {this.head} \intersect {h}}
          BY <1>5, <4>1 DEF SpecsSaid
        <4>3. all(layer) = IF this.head = h THEN {<<1, <<>> >>} ELSE {}
          BY <4>2
        <4>4. Entry(registry', h) = IF h = this.head THEN <<>> ELSE Entry(registry, h)
          BY <4>1, EntryWithout
        <4>5. QED
          BY <4>3, <4>4
      <3>3. CASE MergeTables
        <4>1. this.op = "merge" /\ registry' = merged(registry, this.specs)
          BY <3>3 DEF MergeTables, Applies, this
        <4>2. all(layer) = {<<1, <<this.specs[k]>> >> : k \in DOMAIN this.specs \intersect {h}}
          BY <1>5, <4>1 DEF SpecsSaid
        <4>3. QED
          BY <4>1, <4>2, EntryMerged
      <3>4. QED
        BY <1>6, <3>1, <3>2, <3>3
    <2>4. \/ all(layer) = {}
          \/ \E n \in Nat : \E v : all(layer) = {<<n, v>>} /\ \A e \in said[layer] : e[1] \in Nat
             /\ e[1] < n
      BY <2>2, <2>3
    <2>5. said = [k \in 1..m |-> said[k]] /\ said2 = [k \in 1..m |-> said2[k]]
      BY <1>3
    <2>6. /\ all(layer) = {} => InForce(said2, b) = InForce(said, b)
          /\ \A n, v : all(layer) = {<<n, v>>} => InForce(said2, b) = v
      <3>1. Grows(m, layer, said, said2, all(layer))
        BY <1>1, <2>1, <2>2, <2>4, <2>5 DEF Grows
      <3>2. QED
        BY <3>1, Spoken
    <2>7. QED
      BY <2>3, <2>6 DEF said, said2
  <1>7. CASE HarvestDatum
    <2> DEFINE found == harvested(plan.dialect, datum)
               new == {e \in all(layer) : e[1] >= at /\ e[1] < at'}
    <2>1. /\ pc = "specs" /\ pc' = "specs" /\ layer \in 1..m /\ layer' = layer /\ at \in Nat
          /\ at <= Len(source.form) /\ at' = source.last[at] + 1
          /\ registry' = IF found = <<>> THEN registry ELSE merged(registry, entry(datum.name, found[1]))
      BY <1>1, <1>7, SourceTyped DEF HarvestDatum, TInv, Positioned, m
    <2>2. /\ IsSource(source) /\ at \in DOMAIN source.form /\ Len(source.form) \in Nat
          /\ source.last[at] \in at..Len(source.form) /\ IsForm(datum) /\ this.op = "harvest"
      BY <2>1, SourceTyped DEF TInv, Positioned
    <2>3. at' \in Nat /\ at' > at
      BY <2>1, <2>2
    <2>4. /\ \A k \in 1..m : k # layer => said2[k] = said[k]
          /\ \A k \in 1..m : k > layer => said[k] = {}
          /\ said[layer] = {e \in all(layer) : e[1] < at}
          /\ said2[layer] = {e \in all(layer) : e[1] < at'}
      BY <1>1, <1>3, <2>1 DEF Sofar
    <2>5. said2[layer] = said[layer] \union new
      BY <1>4, <2>1, <2>3, <2>4
    <2>6. all(layer) = {<<d, harvested(plan.dialect, source.form[d])>> : d \in {d \in DOMAIN source.form :
            TopLevel(source, d) /\ source.form[d].name = h
              /\ harvested(plan.dialect, source.form[d]) # <<>>}}
      BY <1>5, <2>2 DEF SpecsSaid, source
    <2>7. TopLevel(source, at)
      BY <2>1 DEF Standing, TopLevel
    <2>8. \A d \in DOMAIN source.form : at < d /\ d < at' => ~TopLevel(source, d)
      <3> SUFFICES ASSUME NEW d \in DOMAIN source.form, at < d, d < at', TopLevel(source, d)
                   PROVE  FALSE
        OBVIOUS
      <3>1. d \in Nat /\ at \in 1..d - 1 /\ source.last[at] >= d
        BY <2>1, <2>2 DEF IsSource
      <3>2. QED
        BY <2>2, <3>1 DEF TopLevel
    <2>9. new = IF datum.name = h /\ found # <<>> THEN {<<at, found>>} ELSE {}
      <3>1. \A e \in new : e = <<at, found>> /\ datum.name = h /\ found # <<>>
        <4> SUFFICES ASSUME NEW e \in new
                     PROVE  e = <<at, found>> /\ datum.name = h /\ found # <<>>
          OBVIOUS
        <4>1. PICK d \in DOMAIN source.form : /\ e = <<d, harvested(plan.dialect, source.form[d])>>
                /\ TopLevel(source, d) /\ source.form[d].name = h
                /\ harvested(plan.dialect, source.form[d]) # <<>>
          BY <2>6
        <4>2. e[1] = d /\ d >= at /\ d < at'
          BY <4>1
        <4>3. d \in Nat
          BY <2>2 DEF IsSource
        <4>4. d = at
          BY <2>1, <2>8, <4>1, <4>2, <4>3
        <4>5. QED
          BY <4>1, <4>4 DEF datum
      <3>2. datum.name = h /\ found # <<>> => <<at, found>> \in new
        <4> SUFFICES ASSUME datum.name = h, found # <<>>
                     PROVE  <<at, found>> \in new
          OBVIOUS
        <4> DEFINE e == <<at, found>>
        <4>1. e \in all(layer)
          BY <2>2, <2>6, <2>7 DEF datum
        <4>2. e[1] = at
          OBVIOUS
        <4> HIDE DEF e
        <4>3. e \in new
          BY <2>1, <2>3, <4>1, <4>2
        <4>4. QED
          BY <4>3 DEF e
      <3>3. QED
        BY <3>1, <3>2
    <2>10. \A e \in said[layer] : e[1] \in Nat /\ e[1] < at
      BY <1>4, <2>1, <2>4
    <2>11. said = [k \in 1..m |-> said[k]] /\ said2 = [k \in 1..m |-> said2[k]]
      BY <1>3
    <2>12. found # <<>> => <<found[1]>> = found
      <3>1. found = <<>> \/ \E v : found = <<v>>
        BY <2>2, HarvestedIsOption
      <3>2. QED
        BY <3>1
    <2> HIDE DEF new, found
    <2>13. \/ new = {}
           \/ \E n \in Nat : \E v : new = {<<n, v>>} /\ \A e \in said[layer] : e[1] \in Nat /\ e[1] < n
      BY <2>1, <2>9, <2>10
    <2>14. /\ new = {} => InForce(said2, b) = InForce(said, b)
           /\ \A n, v : new = {<<n, v>>} => InForce(said2, b) = v
      <3>1. Grows(m, layer, said, said2, new)
        BY <1>1, <2>1, <2>4, <2>5, <2>11, <2>13 DEF Grows
      <3>2. QED
        BY <3>1, Spoken
    <2>15. CASE datum.name = h /\ found # <<>>
      <3>1. InForce(said2, b) = found
        BY <2>9, <2>14, <2>15
      <3>2. Entry(registry', h) = <<found[1]>>
        BY <2>1, <2>15, EntryAdded
      <3>3. QED
        BY <2>12, <2>15, <3>1, <3>2 DEF said2
    <2>16. CASE ~(datum.name = h /\ found # <<>>)
      BY <2>1, <2>9, <2>14, <2>16, EntryAdded DEF said, said2
    <2>17. QED
      BY <2>15, <2>16
  <1>8. CASE StartHarvest \/ HarvestIndents \/ HarvestForm \/ SkipForm \/ HarvestEnd
    <2>1. registry' = registry
      BY <1>8 DEF StartHarvest, HarvestIndents, HarvestForm, SkipForm, HarvestEnd
    <2>2. \A k \in 1..m : said2[k] = said[k]
      <3>1. CASE StartHarvest
        <4>1. pc = "layers" /\ pc' = "specs" /\ at' = 1 /\ layer' = layer
          BY <3>1 DEF StartHarvest, Applies
        <4>2. \A k \in 1..m : {e \in all(k) : e[1] < 1} = {}
          BY <1>4
        <4>3. QED
          BY <1>1, <1>3, <4>1, <4>2 DEF Sofar
      <3>2. CASE HarvestIndents
        <4>1. pc = "specs" /\ pc' = "indents" /\ at > Len(source.form) /\ layer' = layer
          BY <3>2 DEF HarvestIndents
        <4>2. {e \in all(layer) : e[1] < at} = all(layer)
          BY <1>1, <1>4, <4>1, SourceTyped DEF TInv, Positioned, source, this, m
        <4>3. QED
          BY <1>1, <1>3, <4>1, <4>2 DEF Sofar
      <3>3. CASE HarvestForm \/ SkipForm
        <4>1. pc = "indents" /\ pc' = "indents" /\ layer' = layer
          BY <3>3 DEF HarvestForm, SkipForm
        <4>2. QED
          BY <1>1, <1>3, <4>1 DEF Sofar
      <3>4. CASE HarvestEnd
        <4>1. pc \in {"specs", "indents"} /\ pc' = "layers" /\ at > Len(source.form) /\ layer' = layer + 1
          BY <3>4 DEF HarvestEnd, NextLayer
        <4>2. {e \in all(layer) : e[1] < at} = all(layer)
          BY <1>1, <1>4, <4>1, SourceTyped DEF TInv, Positioned, source, this, m
        <4>3. \A k \in 1..m : k = layer => {e \in all(k) : e[1] < at} = all(k)
          BY <4>2
        <4>4. \A k \in 1..m : k < layer + 1 <=> k < layer \/ k = layer
          BY <1>1
        <4>5. QED
          BY <1>1, <1>3, <4>1, <4>3, <4>4 DEF Sofar
      <3>5. QED
        BY <1>8, <3>1, <3>2, <3>3, <3>4
    <2>3. said2 = said
      BY <1>3, <2>2
    <2>4. QED
      BY <2>1, <2>3 DEF said, said2
  <1>9. QED
    BY <1>6, <1>7, <1>8

LEMMA IndentsStep ==
  ASSUME TInv, Standing,
         \/ InsertSpec \/ RemoveSpec \/ MergeTables \/ StartHarvest \/ HarvestDatum
         \/ HarvestIndents \/ HarvestForm \/ SkipForm \/ HarvestEnd,
         NEW h, NEW b, Entry(indents, h) = InForce(IndentsSofar(h), b)
  PROVE  Entry(indents', h) = InForce(IndentsSofar(h)', b)
  <1> DEFINE m == Len(plan.layers)
             all(k) == IndentsSaid(plan.dialect, plan.layers[k], h)
             said == IndentsSofar(h)
             said2 == IndentsSofar(h)'
  <1>1. /\ m \in Nat /\ layer \in 1..m + 1 /\ DOMAIN plan.layers = 1..m
        /\ plan \in Plans /\ \A k \in 1..m : IsLayer(plan.layers[k])
    BY PlanTyped, AnnotateAssumption DEF TInv, Positioned
  <1>2. plan' = plan
    BY LayersPositioned DEF TInv
  <1>3. /\ said = [k \in 1..m |-> Sofar(all(k), k, "indents", layer, pc, at)]
        /\ said2 = [k \in 1..m |-> Sofar(all(k), k, "indents", layer', pc', at')]
    BY <1>1, <1>2 DEF IndentsSofar
  <1>4. \A k \in 1..m : /\ \A e \in all(k) : e[1] \in Nat /\ e[1] >= 1
                        /\ plan.layers[k].op = "harvest" =>
                             \A e \in all(k) : e[1] <= Len(plan.layers[k].source.form)
    BY <1>1, SaidPlaced
  <1>5. all(layer) = IndentsSaid(plan.dialect, this, h)
    BY DEF this
  <1> HIDE DEF said, said2, all, m
  <1>6. CASE InsertSpec \/ RemoveSpec \/ MergeTables
    <2>1. pc = "layers" /\ pc' = "layers" /\ layer \in 1..m /\ layer' = layer + 1
      BY <1>1, <1>6 DEF InsertSpec, RemoveSpec, MergeTables, Applies, NextLayer, m
    <2>2. /\ \A k \in 1..m : k # layer => said2[k] = said[k]
          /\ \A k \in 1..m : k > layer => said[k] = {}
          /\ said[layer] = {} /\ said2[layer] = said[layer] \union all(layer)
      BY <1>1, <1>3, <2>1 DEF Sofar
    <2>3. \/ all(layer) = {} /\ Entry(indents', h) = Entry(indents, h)
          \/ \E v : all(layer) = {<<1, v>>} /\ Entry(indents', h) = v
      <3>1. CASE InsertSpec
        <4>1. this.op = "insert" /\ indents' = merged(indents, entry(this.head, this.indent))
          BY <3>1 DEF InsertSpec, Applies, this
        <4>2. all(layer) = {<<1, <<this.indent>> >> : k \in {this.head} \intersect {h}}
          BY <1>5, <4>1 DEF IndentsSaid
        <4>3. all(layer) = IF this.head = h THEN {<<1, <<this.indent>> >>} ELSE {}
          BY <4>2
        <4>4. Entry(indents', h) = IF h = this.head THEN <<this.indent>> ELSE Entry(indents, h)
          BY <4>1, EntryAdded
        <4>5. QED
          BY <4>3, <4>4
      <3>2. CASE RemoveSpec
        <4>1. this.op = "remove" /\ indents' = without(indents, this.head)
          BY <3>2 DEF RemoveSpec, Applies, this
        <4>2. all(layer) = {<<1, <<>> >> : k \in {this.head} \intersect {h}}
          BY <1>5, <4>1 DEF IndentsSaid
        <4>3. all(layer) = IF this.head = h THEN {<<1, <<>> >>} ELSE {}
          BY <4>2
        <4>4. Entry(indents', h) = IF h = this.head THEN <<>> ELSE Entry(indents, h)
          BY <4>1, EntryWithout
        <4>5. QED
          BY <4>3, <4>4
      <3>3. CASE MergeTables
        <4>1. this.op = "merge" /\ indents' = merged(indents, this.indents)
          BY <3>3 DEF MergeTables, Applies, this
        <4>2. all(layer) = {<<1, <<this.indents[k]>> >> : k \in DOMAIN this.indents \intersect {h}}
          BY <1>5, <4>1 DEF IndentsSaid
        <4>3. QED
          BY <4>1, <4>2, EntryMerged
      <3>4. QED
        BY <1>6, <3>1, <3>2, <3>3
    <2>4. \/ all(layer) = {}
          \/ \E n \in Nat : \E v : all(layer) = {<<n, v>>} /\ \A e \in said[layer] : e[1] \in Nat
             /\ e[1] < n
      BY <2>2, <2>3
    <2>5. said = [k \in 1..m |-> said[k]] /\ said2 = [k \in 1..m |-> said2[k]]
      BY <1>3
    <2>6. /\ all(layer) = {} => InForce(said2, b) = InForce(said, b)
          /\ \A n, v : all(layer) = {<<n, v>>} => InForce(said2, b) = v
      <3>1. Grows(m, layer, said, said2, all(layer))
        BY <1>1, <2>1, <2>2, <2>4, <2>5 DEF Grows
      <3>2. QED
        BY <3>1, Spoken
    <2>7. QED
      BY <2>3, <2>6 DEF said, said2
  <1>7. CASE HarvestForm \/ SkipForm
    <2> DEFINE found == IF datum.shape = "Round" THEN indents_of(datum) ELSE <<>>
               new == {e \in all(layer) : e[1] >= at /\ e[1] < at'}
    <2>1. /\ pc = "indents" /\ pc' = "indents" /\ layer \in 1..m /\ layer' = layer /\ at \in Nat
          /\ at <= Len(source.form)
      BY <1>1, <1>7, SourceTyped DEF HarvestForm, SkipForm, TInv, Positioned, m
    <2>2. /\ IsSource(source) /\ at \in DOMAIN source.form /\ Len(source.form) \in Nat
          /\ source.last[at] \in at..Len(source.form) /\ IsForm(datum) /\ this.op = "harvest"
      BY <2>1, SourceTyped DEF TInv, Positioned
    <2>a. /\ indents' = IF found = <<>> THEN indents ELSE merged(indents, entry(datum.name, found[1]))
          /\ at' = IF datum.shape = "Round" THEN at + 1 ELSE source.last[at] + 1
      BY <1>7 DEF HarvestForm, SkipForm
    <2>3. at' \in Nat /\ at' > at
      BY <2>1, <2>2, <2>a
    <2>4. /\ \A k \in 1..m : k # layer => said2[k] = said[k]
          /\ \A k \in 1..m : k > layer => said[k] = {}
          /\ said[layer] = {e \in all(layer) : e[1] < at}
          /\ said2[layer] = {e \in all(layer) : e[1] < at'}
      BY <1>1, <1>3, <2>1 DEF Sofar
    <2>5. said2[layer] = said[layer] \union new
      BY <1>4, <2>1, <2>3, <2>4
    <2>6. all(layer) = {<<d, indents_of(source.form[d])>> : d \in {d \in DOMAIN source.form :
            /\ plan.dialect = "EmacsLisp" /\ Executed(source, d) /\ source.form[d].name = h
            /\ indents_of(source.form[d]) # <<>>}}
      BY <1>5, <2>2 DEF IndentsSaid, source
    <2>7. datum.shape = "Round" => Executed(source, at)
      <3> SUFFICES ASSUME datum.shape = "Round", NEW a \in 1..at, at <= source.last[a]
                   PROVE  source.form[a].shape = "Round"
        BY DEF Executed
      <3>1. CASE a < at
        BY <2>1, <3>1 DEF Standing
      <3>2. CASE a = at
        BY <3>2 DEF datum
      <3>3. QED
        BY <2>1, <3>1, <3>2
    <2>8. \A d \in DOMAIN source.form : at <= d /\ d < at' /\ Executed(source, d) =>
            d = at /\ datum.shape = "Round"
      <3> SUFFICES ASSUME NEW d \in DOMAIN source.form, at <= d, d < at', Executed(source, d)
                   PROVE  d = at /\ datum.shape = "Round"
        OBVIOUS
      <3>1. d \in Nat /\ at \in 1..d
        BY <2>1, <2>2 DEF IsSource
      <3>2. CASE datum.shape = "Round"
        BY <2>1, <2>a, <3>1, <3>2
      <3>3. CASE datum.shape # "Round"
        <4>1. d <= source.last[at]
          BY <2>2, <2>a, <3>1, <3>3
        <4>2. QED
          BY <3>1, <3>3, <4>1 DEF Executed, datum
      <3>4. QED
        BY <3>2, <3>3
    <2>9. new = IF datum.name = h /\ found # <<>> THEN {<<at, found>>} ELSE {}
      <3>1. \A e \in new : e = <<at, found>> /\ datum.name = h /\ found # <<>>
        <4> SUFFICES ASSUME NEW e \in new
                     PROVE  e = <<at, found>> /\ datum.name = h /\ found # <<>>
          OBVIOUS
        <4>1. PICK d \in DOMAIN source.form : /\ e = <<d, indents_of(source.form[d])>>
                /\ Executed(source, d) /\ source.form[d].name = h
                /\ indents_of(source.form[d]) # <<>>
          BY <2>6
        <4>2. e[1] = d /\ d >= at /\ d < at'
          BY <4>1
        <4>3. d \in Nat
          BY <2>2 DEF IsSource
        <4>4. d = at /\ datum.shape = "Round"
          BY <2>1, <2>8, <4>1, <4>2, <4>3
        <4>5. QED
          BY <4>1, <4>4 DEF datum
      <3>2. datum.name = h /\ found # <<>> => <<at, found>> \in new
        <4> SUFFICES ASSUME datum.name = h, found # <<>>
                     PROVE  <<at, found>> \in new
          OBVIOUS
        <4> DEFINE e == <<at, found>>
        <4>1. e \in all(layer)
          BY <2>1, <2>2, <2>6, <2>7 DEF datum, Standing
        <4>2. e[1] = at
          OBVIOUS
        <4> HIDE DEF e
        <4>3. e \in new
          BY <2>1, <2>3, <4>1, <4>2
        <4>4. QED
          BY <4>3 DEF e
      <3>3. QED
        BY <3>1, <3>2
    <2>10. \A e \in said[layer] : e[1] \in Nat /\ e[1] < at
      BY <1>4, <2>1, <2>4
    <2>11. said = [k \in 1..m |-> said[k]] /\ said2 = [k \in 1..m |-> said2[k]]
      BY <1>3
    <2>12. found # <<>> => <<found[1]>> = found
      <3>1. found = <<>> \/ \E v : found = <<v>>
        BY <2>2, IndentsTyped
      <3>2. QED
        BY <3>1
    <2> HIDE DEF new, found
    <2>13. \/ new = {}
           \/ \E n \in Nat : \E v : new = {<<n, v>>} /\ \A e \in said[layer] : e[1] \in Nat /\ e[1] < n
      BY <2>1, <2>9, <2>10
    <2>14. /\ new = {} => InForce(said2, b) = InForce(said, b)
           /\ \A n, v : new = {<<n, v>>} => InForce(said2, b) = v
      <3>1. Grows(m, layer, said, said2, new)
        BY <1>1, <2>1, <2>4, <2>5, <2>11, <2>13 DEF Grows
      <3>2. new = {} => InForce(said2, b) = InForce(said, b)
        BY <3>1, Spoken
      <3>3. \A n, v : new = {<<n, v>>} => InForce(said2, b) = v
        BY <3>1, Spoken
      <3>4. QED
        BY <3>2, <3>3
    <2>15. CASE datum.name = h /\ found # <<>>
      <3>1. InForce(said2, b) = found
        BY <2>9, <2>14, <2>15
      <3>2. Entry(indents', h) = <<found[1]>>
        BY <2>a, <2>15, EntryAdded
      <3>3. QED
        BY <2>12, <2>15, <3>1, <3>2 DEF said2
    <2>16. CASE ~(datum.name = h /\ found # <<>>)
      BY <2>a, <2>9, <2>14, <2>16, EntryAdded DEF said, said2
    <2>17. QED
      BY <2>15, <2>16
  <1>8. CASE StartHarvest \/ HarvestDatum \/ HarvestIndents \/ HarvestEnd
    <2>1. indents' = indents
      BY <1>8 DEF StartHarvest, HarvestDatum, HarvestIndents, HarvestEnd
    <2>2. \A k \in 1..m : said2[k] = said[k]
      <3>1. CASE StartHarvest
        <4>1. pc = "layers" /\ pc' = "specs" /\ layer' = layer
          BY <3>1 DEF StartHarvest, Applies
        <4>2. QED
          BY <1>1, <1>3, <4>1 DEF Sofar
      <3>2. CASE HarvestDatum
        <4>1. pc = "specs" /\ pc' = "specs" /\ layer' = layer
          BY <3>2 DEF HarvestDatum
        <4>2. QED
          BY <1>1, <1>3, <4>1 DEF Sofar
      <3>3. CASE HarvestIndents
        <4>1. pc = "specs" /\ pc' = "indents" /\ at' = 1 /\ layer' = layer
          BY <3>3 DEF HarvestIndents
        <4>2. \A k \in 1..m : {e \in all(k) : e[1] < 1} = {}
          BY <1>4
        <4>3. QED
          BY <1>1, <1>3, <4>1, <4>2 DEF Sofar
      <3>4. CASE HarvestEnd
        <4>1. /\ pc \in {"specs", "indents"} /\ pc' = "layers" /\ at > Len(source.form)
              /\ layer' = layer + 1 /\ (pc = "specs" => plan.dialect # "EmacsLisp")
          BY <3>4 DEF HarvestEnd, NextLayer
        <4>2. \A k \in 1..m : k < layer + 1 <=> k < layer \/ k = layer
          BY <1>1
        <4>3. CASE pc = "indents"
          <5>1. {e \in all(layer) : e[1] < at} = all(layer)
            BY <1>1, <1>4, <4>1, SourceTyped DEF TInv, Positioned, source, this, m
          <5>2. \A k \in 1..m : k = layer => {e \in all(k) : e[1] < at} = all(k)
            BY <5>1
          <5>3. QED
            BY <1>1, <1>3, <4>1, <4>2, <4>3, <5>2 DEF Sofar
        <4>4. CASE pc = "specs"
          <5>1. all(layer) = {}
            <6>1. this.op = "harvest"
              BY <4>4 DEF TInv, Positioned
            <6>2. QED
              BY <1>5, <4>1, <4>4, <6>1 DEF IndentsSaid
          <5>2. \A k \in 1..m : k = layer => all(k) = {}
            BY <5>1
          <5>3. QED
            BY <1>1, <1>3, <4>1, <4>2, <4>4, <5>2 DEF Sofar
        <4>5. QED
          BY <4>1, <4>3, <4>4
      <3>5. QED
        BY <1>8, <3>1, <3>2, <3>3, <3>4
    <2>3. said2 = said
      BY <1>3, <2>2
    <2>4. QED
      BY <2>1, <2>3 DEF said, said2
  <1>9. QED
    BY <1>6, <1>7, <1>8

WInv ==
  /\ TInv /\ Standing
  /\ pc \in {"layers", "specs", "indents"} =>
       \A h : /\ Entry(registry, h) = InForce(SpecsSofar(h), Entry(bundled_registry[plan.dialect], h))
              /\ Entry(indents, h) = InForce(IndentsSofar(h), Entry(bundled_table(plan.dialect), h))

LEMMA WInvStep ==
  ASSUME WInv, [Next]_vars
  PROVE  WInv'
  <1>0. TInv'
    BY TInvStep DEF WInv
  <1>1. CASE UNCHANGED vars
    <2>1. UNCHANGED <<source, this, plan, layer, at, pc, registry, indents>>
      BY <1>1 DEF vars, source, this
    <2>2. Standing'
      BY <2>1 DEF WInv, Standing
    <2>3. \A h : SpecsSofar(h)' = SpecsSofar(h) /\ IndentsSofar(h)' = IndentsSofar(h)
      BY <2>1 DEF SpecsSofar, IndentsSofar
    <2>4. QED
      BY <1>0, <2>1, <2>2, <2>3 DEF WInv
  <1>2. CASE \/ InsertSpec \/ RemoveSpec \/ MergeTables \/ StartHarvest \/ HarvestDatum
             \/ HarvestIndents \/ HarvestForm \/ SkipForm \/ HarvestEnd
    <2>1. plan' = plan /\ pc \in {"layers", "specs", "indents"}
      <3>1. plan' = plan
        BY <1>2, LayersPositioned DEF WInv, TInv
      <3>2. pc \in {"layers", "specs", "indents"}
        BY <1>2 DEF InsertSpec, RemoveSpec, MergeTables, StartHarvest, HarvestDatum, HarvestIndents,
                    HarvestForm, SkipForm, HarvestEnd, Applies
      <3>3. QED
        BY <3>1, <3>2
    <2>2. Standing'
      BY <1>2, StandingStep DEF WInv
    <2>3. ASSUME NEW h
          PROVE  /\ Entry(registry', h) = InForce(SpecsSofar(h)', Entry(bundled_registry[plan.dialect], h))
                 /\ Entry(indents', h) = InForce(IndentsSofar(h)', Entry(bundled_table(plan.dialect), h))
      <3> DEFINE b == Entry(bundled_registry[plan.dialect], h)
                 c == Entry(bundled_table(plan.dialect), h)
      <3>1. /\ TInv /\ Standing /\ Entry(registry, h) = InForce(SpecsSofar(h), b)
            /\ Entry(indents, h) = InForce(IndentsSofar(h), c)
        BY <2>1 DEF WInv
      <3> HIDE DEF b, c
      <3>2. Entry(registry', h) = InForce(SpecsSofar(h)', b)
        BY <1>2, <3>1, SpecsStep
      <3>3. Entry(indents', h) = InForce(IndentsSofar(h)', c)
        BY <1>2, <3>1, IndentsStep
      <3>4. QED
        BY <3>2, <3>3 DEF b, c
    <2>4. QED
      BY <1>0, <2>1, <2>2, <2>3 DEF WInv
  <1>3. CASE \/ \E use \in plan.uses : Lookup(use)
             \/ NotNamed \/ LeadingEnd \/ NoDispatch
             \/ TagLeading \/ TagQualifier \/ TagSpecializedArglist \/ TagDispatchValue
             \/ TagDocstring \/ TagBody
    <2>1. pc' \in Tagging \union {"none"}
      BY <1>3 DEF Lookup, NotNamed, LeadingEnd, NoDispatch, TagLeading, TagQualifier,
                  TagSpecializedArglist, TagDispatchValue, TagDocstring, TagBody, Tagging
    <2>2. pc' \notin {"layers", "specs", "indents"}
      BY <2>1 DEF Tagging
    <2>3. QED
      BY <1>0, <2>2 DEF WInv, Standing
  <1>4. QED
    BY <1>1, <1>2, <1>3 DEF Next

LEMMA WInvInit == Init => WInv
  <1> SUFFICES ASSUME Init
               PROVE  WInv
    OBVIOUS
  <1>1. /\ layer = 1 /\ pc = "layers" /\ registry = bundled_registry[plan.dialect]
        /\ indents = bundled_table(plan.dialect)
    BY DEF Init
  <1>2. TInv /\ DOMAIN plan.layers = 1..Len(plan.layers)
    BY TInvInit, PlanTyped DEF TInv
  <1>3. \A h : /\ \A k \in DOMAIN SpecsSofar(h) : SpecsSofar(h)[k] = {}
               /\ \A k \in DOMAIN IndentsSofar(h) : IndentsSofar(h)[k] = {}
    <2>1. \A k \in DOMAIN plan.layers : ~(k < layer)
      BY <1>1, <1>2
    <2>2. \A k \in DOMAIN plan.layers : \A all, phase :
            phase \in {"specs", "indents"} => Sofar(all, k, phase, layer, pc, at) = {}
      BY <1>1, <2>1 DEF Sofar
    <2>3. QED
      BY <2>2 DEF SpecsSofar, IndentsSofar
  <1>4. ASSUME NEW said, \A k \in DOMAIN said : said[k] = {}, NEW b
        PROVE  InForce(said, b) = b
    BY <1>4 DEF InForce
  <1>5. \A h, b : InForce(SpecsSofar(h), b) = b /\ InForce(IndentsSofar(h), b) = b
    BY <1>3, <1>4
  <1>6. QED
    BY <1>1, <1>2, <1>5 DEF WInv, Standing

\* The last layer to mention a head or a symbol decides, for every number of
\* layers and every source: of a source the last definition that no other datum
\* contains, and the last declaration inside nothing but round lists
\* (Registry::insert, remove and merge, harvest_source_for, harvest_form).
THEOREM LastLayerWins == Spec => []LaterLayersWin
  <1>1. WInv /\ [Next]_vars => WInv'
    BY WInvStep
  <1>2. WInv => LaterLayersWin
    <2> SUFFICES ASSUME WInv, pc = "layers", layer > Len(plan.layers), NEW h
                 PROVE  LET d == plan.dialect IN
                        /\ Entry(registry, h) =
                             InForce([k \in DOMAIN plan.layers |-> SpecsSaid(d, plan.layers[k], h)],
                                     Entry(bundled_registry[d], h))
                        /\ Entry(indents, h) =
                             InForce([k \in DOMAIN plan.layers |-> IndentsSaid(d, plan.layers[k], h)],
                                     Entry(bundled_table(d), h))
      BY DEF LaterLayersWin
    <2>1. \A k \in DOMAIN plan.layers : k < layer
      BY PlanTyped DEF WInv, TInv
    <2>2. /\ SpecsSofar(h) = [k \in DOMAIN plan.layers |-> SpecsSaid(plan.dialect, plan.layers[k], h)]
          /\ IndentsSofar(h) = [k \in DOMAIN plan.layers |-> IndentsSaid(plan.dialect, plan.layers[k], h)]
      BY <2>1 DEF SpecsSofar, IndentsSofar, Sofar
    <2>3. QED
      BY <2>2 DEF WInv
  <1>3. QED
    BY WInvInit, <1>1, <1>2, PTL DEF Spec

-----------------------------------------------------------------------------
(* The parameters of a definition and the roles read off them.             *)

TakenUpto(ps, n) == \E l \in 1..n : ps[l] \in Takers \/ (l < Len(ps) /\ ps[l + 1] = "...")

LEMMA ClassOf ==
  /\ Symbols = {"name", "args", "doc", "body", "x"}
  /\ class("name") = "Name" /\ class("args") = "Arglist" /\ class("doc") = "Docstring"
  /\ class("body") = "Body" /\ class("x") = None
  /\ HyRest = {"#*args", "#*x"} /\ Takers = {"#*args", "#*x", "&rest", "body"}
  <1>1. Symbols = {"name", "args", "doc", "body", "x"}
    BY DEF Symbols, classify_param
  <1>2. QED
    BY <1>1 DEF class, classify_param, HyRest, Takers

\* The slots among the parameters, counted along them.
LEMMA SlotsRun ==
  ASSUME NEW ps \in Seq(Params)
  PROVE  \E among \in [0..Len(ps) -> Seq(Params)] :
           /\ among[0] = <<>> /\ slots(ps) = among[Len(ps)]
           /\ \A n \in 1..Len(ps) :
                among[n] = IF TakenUpto(ps, n) \/ ps[n] = "&optional" THEN among[n - 1]
                           ELSE Append(among[n - 1], ps[n])
  <1> DEFINE l == Len(ps)
             T == Seq(Params)
             turn(a, n) == IF TakenUpto(ps, n) \/ ps[n] = "&optional" THEN a ELSE Append(a, ps[n])
             step == [n \in 1..l |-> [a \in T |-> turn(a, n)]]
             F(f) == [n \in 0..l |-> IF n = 0 THEN <<>> ELSE turn(f[n - 1], n)]
             among == CHOOSE f : f = F(f)
  <1>1. l \in Nat /\ \A n \in 1..l : ps[n] \in Params
    OBVIOUS
  <1>2. \A n \in 1..l : \A a \in T : turn(a, n) \in T
    BY <1>1
  <1>3. slots(ps) = among[l]
    BY DEF slots, TakenUpto
  <1> HIDE DEF turn
  <1>4. step \in [1..l -> [T -> T]] /\ <<>> \in T
    BY <1>2
  <1>5. HasRun(l, T, <<>>, step)
    <2> HIDE DEF step, l, T
    <2>1. QED
      BY <1>1, <1>4, LoopRuns
  <1>6. \E f \in [0..l -> T] : f = F(f)
    <2>1. PICK f \in [0..l -> T] : f[0] = <<>> /\ \A n \in 1..l : f[n] = step[n][f[n - 1]]
      BY <1>5 DEF HasRun
    <2>2. \A n \in 1..l : \A a \in T : step[n][a] = turn(a, n)
      OBVIOUS
    <2>3. \A n \in 1..l : f[n - 1] \in T
      <3> HIDE DEF l
      <3>1. QED
        BY <1>1, <2>1
    <2> HIDE DEF step
    <2>4. \A n \in 1..l : f[n] = turn(f[n - 1], n)
      BY <1>1, <2>1, <2>2, <2>3
    <2>5. \A n \in 0..l : f[n] = IF n = 0 THEN <<>> ELSE turn(f[n - 1], n)
      BY <1>1, <2>1, <2>4
    <2>6. f = F(f)
      BY <2>5
    <2>7. QED
      BY <2>6
  <1>7. among = F(among)
    <2> HIDE DEF F
    <2>1. QED
      BY <1>6
  <1> HIDE DEF among
  <1> DEFINE S == {n \in 0..l : among[n] \in T}
  <1>8. 0 \in S
    BY <1>1, <1>4, <1>7
  <1>9. ASSUME NEW n \in 1..l, n - 1 \in S
        PROVE  n \in S
    <2>1. among[n] = turn(among[n - 1], n)
      BY <1>1, <1>7
    <2>2. QED
      BY <1>2, <1>9, <2>1
  <1> HIDE DEF S
  <1>10. 0..l \subseteq S
    <2> HIDE DEF l
    <2>1. QED
      BY <1>1, <1>8, <1>9, Upwards
  <1>11. \A n \in 0..l : among[n] \in T
    BY <1>10 DEF S
  <1>12. among \in [0..l -> T]
    BY <1>7, <1>11
  <1>13. among[0] = <<>> /\ \A n \in 1..l : among[n] = turn(among[n - 1], n)
    BY <1>1, <1>7
  <1>14. QED
    BY <1>3, <1>12, <1>13 DEF turn

\* The leading roles are those of the slots, but for a docstring's, the last.
DocLast(a) == \A j \in DOMAIN a : a[j] = "doc" => j = Len(a)
Mirrors(r, a) ==
  /\ \A j \in DOMAIN r.leading : a[j] # "doc" /\ r.leading[j] = Slot(class(a[j]))
  /\ IF r.docstring THEN Len(a) = Len(r.leading) + 1 /\ a[Len(a)] = "doc"
     ELSE Len(a) = Len(r.leading)

Telling(ps, n) == \E l \in 1..n : ps[l] \in Symbols \ {"x"}

\* What is known after n parameters of a lambda list.
ParamInv(ps, n, r, a) ==
  /\ TakenUpto(ps, n) <=> r.rest \/ r.done
  /\ r.rest /\ ~r.done => n > 0 /\ ((ps[n] = "&rest" /\ n < Len(ps)) \/ (n = Len(ps) /\ r.body))
  /\ r.done => r.body
  /\ r.body => r.rest \/ r.done
  /\ Telling(ps, n) => r.matched
  /\ r.done => n = Len(ps) \/ r.matched
  /\ DocLast(a) => Mirrors(r, a)

LEMMA DocLastPrefix ==
  ASSUME NEW a \in Seq(Params), NEW p \in Params, DocLast(Append(a, p))
  PROVE  DocLast(a) /\ \A j \in DOMAIN a : a[j] # "doc"
  <1>1. \A j \in DOMAIN a : j \in DOMAIN Append(a, p) /\ Append(a, p)[j] = a[j] /\ j # Len(Append(a, p))
    OBVIOUS
  <1>2. QED
    BY <1>1 DEF DocLast

LEMMA MirrorsSlot ==
  ASSUME NEW r \in Reads, NEW a \in Seq(Params), NEW p \in Params, p # "doc",
         DocLast(a) => Mirrors(r, a), DocLast(Append(a, p)),
         NEW q, q.leading = Append(r.leading, Slot(class(p))), q.docstring = r.docstring
  PROVE  Mirrors(q, Append(a, p))
  <1>1. DocLast(a) /\ \A j \in DOMAIN a : a[j] # "doc"
    BY DocLastPrefix
  <1>2. r.leading \in Seq({"Name", "Arglist", "Other"}) /\ r.docstring \in BOOLEAN
    BY DEF Reads
  <1>3. Mirrors(r, a)
    BY <1>1
  <1>4. ~r.docstring
    <2>1. r.docstring => Len(a) = Len(r.leading) + 1 /\ a[Len(a)] = "doc"
      BY <1>3 DEF Mirrors
    <2>2. r.docstring => Len(a) \in DOMAIN a
      BY <1>2, <2>1
    <2>3. QED
      BY <1>1, <2>1, <2>2
  <1>5. Len(a) = Len(r.leading) /\ \A j \in DOMAIN r.leading : a[j] # "doc"
          /\ r.leading[j] = Slot(class(a[j]))
    BY <1>3, <1>4 DEF Mirrors
  <1>6. Len(Append(a, p)) = Len(q.leading) /\ DOMAIN q.leading = 1..Len(a) + 1
    BY <1>2, <1>5
  <1>7. \A j \in DOMAIN q.leading : Append(a, p)[j] # "doc" /\ q.leading[j] = Slot(class(Append(a, p)[j]))
    <2>1. TAKE j \in DOMAIN q.leading
    <2>2. CASE j \in 1..Len(a)
      BY <1>2, <1>5, <2>2
    <2>3. CASE j = Len(a) + 1
      BY <1>2, <1>5, <2>3
    <2>4. QED
      BY <1>6, <2>2, <2>3
  <1>8. QED
    BY <1>4, <1>6, <1>7 DEF Mirrors

LEMMA MirrorsDoc ==
  ASSUME NEW r \in Reads, NEW a \in Seq(Params),
         DocLast(a) => Mirrors(r, a), DocLast(Append(a, "doc")),
         NEW q, q.leading = r.leading, q.docstring = TRUE, "doc" \in Params
  PROVE  Mirrors(q, Append(a, "doc"))
  <1>1. DocLast(a) /\ \A j \in DOMAIN a : a[j] # "doc"
    BY DocLastPrefix
  <1>2. r.leading \in Seq({"Name", "Arglist", "Other"}) /\ r.docstring \in BOOLEAN
    BY DEF Reads
  <1>3. Mirrors(r, a)
    BY <1>1
  <1>4. ~r.docstring
    <2>1. r.docstring => Len(a) = Len(r.leading) + 1 /\ a[Len(a)] = "doc"
      BY <1>3 DEF Mirrors
    <2>2. r.docstring => Len(a) \in DOMAIN a
      BY <1>2, <2>1
    <2>3. QED
      BY <1>1, <2>1, <2>2
  <1>5. Len(a) = Len(r.leading) /\ \A j \in DOMAIN r.leading : a[j] # "doc"
          /\ r.leading[j] = Slot(class(a[j]))
    BY <1>3, <1>4 DEF Mirrors
  <1>6. \A j \in DOMAIN r.leading : Append(a, "doc")[j] = a[j]
    BY <1>2, <1>5
  <1>7. Len(Append(a, "doc")) = Len(a) + 1 /\ Append(a, "doc")[Len(a) + 1] = "doc"
    OBVIOUS
  <1>8. QED
    BY <1>5, <1>6, <1>7 DEF Mirrors

LEMMA ParamStep ==
  ASSUME NEW ps \in Seq(Params), Lambda(ps), NEW n \in 1..Len(ps), NEW r \in Reads, NEW a \in Seq(Params),
         ParamInv(ps, n - 1, r, a)
  PROVE  ParamInv(ps, n, read_param(r, ps[n]),
                  IF TakenUpto(ps, n) \/ ps[n] = "&optional" THEN a ELSE Append(a, ps[n]))
  <1> DEFINE p == ps[n]
             q == read_param(r, p)
             b == IF TakenUpto(ps, n) \/ p = "&optional" THEN a ELSE Append(a, p)
  <1>1. /\ p \in {"name", "args", "doc", "body", "x", "#*args", "#*x", "&rest", "&optional"}
        /\ p = "&rest" => n = Len(ps) - 1 /\ ps[n + 1] \in Symbols
        /\ p \in {"#*args", "#*x"} => n = Len(ps)
    BY ClassOf DEF Lambda, Params
  <1>2. TakenUpto(ps, n) <=> TakenUpto(ps, n - 1) \/ p \in Takers
    <2>1. ~(n < Len(ps) /\ ps[n + 1] = "...")
      BY DEF Lambda
    <2>2. 1..n = (1..n - 1) \union {n}
      OBVIOUS
    <2>3. QED
      BY <2>1, <2>2 DEF TakenUpto
  <1>3. Telling(ps, n) <=> Telling(ps, n - 1) \/ p \in Symbols \ {"x"}
    <2>1. 1..n = (1..n - 1) \union {n}
      OBVIOUS
    <2>2. QED
      BY <2>1 DEF Telling
  <1>4. /\ r.rest \in BOOLEAN /\ r.done \in BOOLEAN /\ r.body \in BOOLEAN /\ r.matched \in BOOLEAN
        /\ r = [leading |-> r.leading, docstring |-> r.docstring, body |-> r.body, matched |-> r.matched,
                declared |-> r.declared, rest |-> r.rest, done |-> r.done]
    BY DEF Reads
  <1>5. n \in Nat /\ Len(ps) \in Nat /\ n <= Len(ps)
    OBVIOUS
  <1> HIDE DEF p
  <1>6. CASE r.done
    <2>1. q = r
      BY <1>6 DEF read_param
    <2>2. b = a
      BY <1>2, <1>6 DEF ParamInv
    <2>3. r.matched
      BY <1>5, <1>6 DEF ParamInv
    <2>4. ParamInv(ps, n, r, a)
      BY <1>2, <1>6, <2>3 DEF ParamInv
    <2>5. QED
      BY <2>1, <2>2, <2>4 DEF p
  <1>7. CASE ~r.done /\ r.rest
    <2>1. ps[n - 1] = "&rest" /\ n > 1
      BY <1>5, <1>7 DEF ParamInv
    <2>2. n = Len(ps) /\ p \in Symbols
      BY <1>5, <2>1 DEF Lambda, p
    <2>3. q = [r EXCEPT !.matched = @ \/ class(p) # None, !.body = TRUE, !.done = TRUE]
      <3>1. q = read_symbol(r, class(p))
        BY <1>7, <2>2, ClassOf DEF read_param
      <3>2. QED
        BY <1>7, <3>1 DEF read_symbol
    <2>4. /\ q.leading = r.leading /\ q.docstring = r.docstring /\ q.body = TRUE /\ q.done = TRUE
          /\ q.matched = (r.matched \/ class(p) # None) /\ q.rest = r.rest
      BY <1>4, <2>3
    <2>5. b = a
      BY <1>2, <1>7 DEF ParamInv
    <2>6. p \in Symbols \ {"x"} => class(p) # None
      BY ClassOf DEF None
    <2> HIDE DEF q, b
    <2>7. DocLast(b) => Mirrors(q, b)
      BY <2>4, <2>5 DEF ParamInv, Mirrors
    <2>8. ParamInv(ps, n, q, b)
      BY <1>2, <1>3, <1>7, <2>2, <2>4, <2>6, <2>7 DEF ParamInv
    <2>9. QED
      BY <2>8 DEF p, q, b
  <1>8. CASE ~r.done /\ ~r.rest
    <2>0. ~TakenUpto(ps, n - 1) /\ ~r.body
      BY <1>8 DEF ParamInv
    <2>1. CASE p = "&optional"
      <3>1. q = r /\ b = a
        BY <2>1 DEF read_param, HyRest
      <3>2. ParamInv(ps, n, r, a)
        BY <1>2, <1>3, <1>8, <2>0, <2>1, ClassOf DEF ParamInv
      <3>3. QED
        BY <3>1, <3>2 DEF p
    <2>2. CASE p = "&rest"
      <3>1. q = [r EXCEPT !.rest = TRUE]
        BY <1>8, <2>2 DEF read_param, HyRest
      <3>2. b = a
        BY <1>2, <2>2, ClassOf
      <3>3. /\ q.leading = r.leading /\ q.docstring = r.docstring /\ q.body = r.body /\ q.done = r.done
            /\ q.matched = r.matched /\ q.rest = TRUE
        BY <1>4, <3>1
      <3>4. ps[n] = "&rest" /\ n < Len(ps)
        BY <1>1, <1>5, <2>2 DEF p
      <3>5. p \in Takers /\ p \notin Symbols
        BY <2>2, ClassOf
      <3> HIDE DEF q, b
      <3>6. DocLast(b) => Mirrors(q, b)
        BY <3>2, <3>3 DEF ParamInv, Mirrors
      <3>7. ParamInv(ps, n, q, b)
        BY <1>2, <1>3, <1>5, <1>8, <2>0, <3>3, <3>4, <3>5, <3>6 DEF ParamInv
      <3>8. QED
        BY <3>7 DEF p, q, b
    <2>3. CASE p \in {"#*args", "#*x"}
      <3>1. q = [r EXCEPT !.matched = @ \/ p = "#*args", !.body = TRUE, !.rest = TRUE]
        BY <1>8, <2>3 DEF read_param, HyRest
      <3>2. p \in Takers /\ p \notin Symbols /\ n = Len(ps)
        BY <1>1, <2>3, ClassOf
      <3>3. b = a
        BY <1>2, <3>2
      <3>4. /\ q.leading = r.leading /\ q.docstring = r.docstring /\ q.body = TRUE /\ q.done = r.done
            /\ q.matched = (r.matched \/ p = "#*args") /\ q.rest = TRUE
        BY <1>4, <3>1
      <3> HIDE DEF q, b
      <3>6. DocLast(b) => Mirrors(q, b)
        BY <3>3, <3>4 DEF ParamInv, Mirrors
      <3>7. Telling(ps, n) => q.matched
        <4>1. Telling(ps, n) => r.matched
          BY <1>3, <3>2 DEF ParamInv
        <4>2. QED
          BY <3>4, <4>1
      <3>8. (TakenUpto(ps, n) <=> q.rest \/ q.done) /\ q.body /\ q.rest
        BY <1>2, <3>2, <3>4
      <3>9. ParamInv(ps, n, q, b)
        BY <1>5, <1>8, <3>2, <3>4, <3>6, <3>7, <3>8 DEF ParamInv
      <3>10. QED
        BY <3>9 DEF p, q, b
    <2>4. CASE p = "body"
      <3>1. q = [r EXCEPT !.matched = @ \/ class(p) # None, !.body = TRUE, !.done = TRUE]
        <4>1. q = read_symbol(r, class(p))
          BY <1>8, <2>4, ClassOf DEF read_param
        <4>2. QED
          BY <1>8, <2>4, <4>1, ClassOf DEF read_symbol
      <3>2. p \in Takers /\ p \in Symbols \ {"x"} /\ class(p) # None
        BY <2>4, ClassOf DEF None
      <3>3. b = a
        BY <1>2, <3>2
      <3>4. /\ q.leading = r.leading /\ q.docstring = r.docstring /\ q.body = TRUE /\ q.done = TRUE
            /\ q.matched = TRUE /\ q.rest = r.rest
        BY <1>4, <3>1, <3>2
      <3> HIDE DEF q, b
      <3>6. DocLast(b) => Mirrors(q, b)
        BY <3>3, <3>4 DEF ParamInv, Mirrors
      <3>7. ParamInv(ps, n, q, b)
        BY <1>2, <1>3, <1>5, <1>8, <2>0, <3>2, <3>4, <3>6 DEF ParamInv
      <3>8. QED
        BY <3>7 DEF p, q, b
    <2>5. CASE p = "doc"
      <3>1. q = [r EXCEPT !.matched = @ \/ class(p) # None, !.docstring = TRUE]
        <4>1. q = read_symbol(r, class(p))
          BY <1>8, <2>5, ClassOf DEF read_param
        <4>a. class(p) = "Docstring"
          BY <2>5, ClassOf
        <4>2. QED
          BY <1>8, <4>a, <4>1 DEF read_symbol
      <3>2. p \notin Takers /\ p \in Symbols \ {"x"} /\ class(p) # None /\ p # "&optional"
        BY <2>5, ClassOf DEF None
      <3>3. b = Append(a, "doc")
        BY <1>2, <2>0, <2>5, <3>2
      <3>4. /\ q.leading = r.leading /\ q.docstring = TRUE /\ q.body = r.body /\ q.done = r.done
            /\ q.matched = TRUE /\ q.rest = r.rest
        BY <1>4, <3>1, <3>2
      <3> HIDE DEF q, b
      <3>6. DocLast(b) => Mirrors(q, b)
        <4>1. "doc" \in Params /\ (DocLast(a) => Mirrors(r, a))
          BY ClassOf DEF Params, ParamInv
        <4>2. QED
          BY <3>3, <3>4, <4>1, MirrorsDoc
      <3>7. ParamInv(ps, n, q, b)
        BY <1>2, <1>3, <1>5, <1>8, <2>0, <3>2, <3>4, <3>6 DEF ParamInv
      <3>8. QED
        BY <3>7 DEF p, q, b
    <2>6. CASE p \in {"name", "args", "x"}
      <3>0. class(p) \notin {"Body", "Docstring"} /\ p \in Symbols
        BY <2>6, ClassOf DEF None
      <3>1. q = [r EXCEPT !.matched = @ \/ class(p) # None, !.leading = Append(@, Slot(class(p)))]
        <4>1. q = read_symbol(r, class(p))
          BY <1>8, <2>6, <3>0, ClassOf DEF read_param
        <4>2. QED
          BY <1>8, <3>0, <4>1 DEF read_symbol
      <3>2. p \notin Takers /\ (p \in Symbols \ {"x"} => class(p) # None) /\ p # "&optional" /\ p # "doc"
        BY <2>6, ClassOf DEF None
      <3>3. b = Append(a, p)
        BY <1>2, <2>0, <3>2
      <3>4. /\ q.leading = Append(r.leading, Slot(class(p))) /\ q.docstring = r.docstring
            /\ q.body = r.body /\ q.done = r.done
            /\ q.matched = (r.matched \/ class(p) # None) /\ q.rest = r.rest
        BY <1>4, <3>1
      <3> HIDE DEF q, b
      <3>6. DocLast(b) => Mirrors(q, b)
        <4>1. p \in Params /\ (DocLast(a) => Mirrors(r, a))
          BY <3>0 DEF Params, ParamInv
        <4>2. QED
          BY <3>2, <3>3, <3>4, <4>1, MirrorsSlot
      <3>7. ParamInv(ps, n, q, b)
        BY <1>2, <1>3, <1>5, <1>8, <2>0, <3>2, <3>4, <3>6 DEF ParamInv
      <3>8. QED
        BY <3>7 DEF p, q, b
    <2>7. QED
      BY <1>1, <2>1, <2>2, <2>3, <2>4, <2>5, <2>6
  <1>9. QED
    BY <1>4, <1>6, <1>7, <1>8

\* The roles harvested from a lambda list are those of its slots.
LEMMA ArglistFollows ==
  ASSUME NEW ps \in Seq(Params), Lambda(ps)
  PROVE  LET r == classify_arglist_params(ps) IN
         /\ r.body <=> Range(ps) \intersect Takers # {}
         /\ Range(ps) \intersect (Symbols \ {"x"}) # {} => r.matched
         /\ DocLast(slots(ps)) => Mirrors(r, slots(ps))
  <1> DEFINE l == Len(ps)
  <1>1. PICK read \in [0..Len(ps) -> Reads] :
          /\ read[0] = Unread /\ \A n \in 1..Len(ps) : read[n] = read_param(read[n - 1], ps[n])
          /\ classify_arglist_params(ps) = read[Len(ps)]
    BY ArglistRun
  <1>2. PICK among \in [0..Len(ps) -> Seq(Params)] :
          /\ among[0] = <<>> /\ slots(ps) = among[Len(ps)]
          /\ \A n \in 1..Len(ps) :
               among[n] = IF TakenUpto(ps, n) \/ ps[n] = "&optional" THEN among[n - 1]
                          ELSE Append(among[n - 1], ps[n])
    BY SlotsRun
  <1>3. l \in Nat
    OBVIOUS
  <1> DEFINE S == {n \in 0..l : ParamInv(ps, n, read[n], among[n])}
  <1>4. 0 \in S
    <2>1. ~TakenUpto(ps, 0) /\ ~Telling(ps, 0)
      BY DEF TakenUpto, Telling
    <2>2. ParamInv(ps, 0, Unread, <<>>)
      BY <2>1 DEF ParamInv, Unread, Mirrors
    <2>3. QED
      BY <1>1, <1>2, <1>3, <2>2
  <1>5. ASSUME NEW n \in 1..l, n - 1 \in S
        PROVE  n \in S
    <2>1. read[n - 1] \in Reads /\ among[n - 1] \in Seq(Params)
      BY <1>1, <1>2, <1>3
    <2>2. ParamInv(ps, n - 1, read[n - 1], among[n - 1])
      BY <1>5
    <2>3. ParamInv(ps, n, read[n], among[n])
      BY <1>1, <1>2, <2>1, <2>2, ParamStep
    <2>4. QED
      BY <1>3, <2>3
  <1> HIDE DEF S
  <1>6. 0..l \subseteq S
    <2> HIDE DEF l
    <2>1. QED
      BY <1>3, <1>4, <1>5, Upwards
  <1>7. ParamInv(ps, l, read[l], among[l]) /\ read[l] \in Reads
    BY <1>1, <1>3, <1>6 DEF S
  <1>8. TakenUpto(ps, l) <=> Range(ps) \intersect Takers # {}
    <2>1. \A k \in 1..l : ps[k] # "..."
      BY DEF Lambda
    <2>2. Range(ps) = {ps[k] : k \in 1..l}
      BY DEF Range
    <2>3. QED
      BY <1>3, <2>1, <2>2 DEF TakenUpto
  <1>9. Range(ps) \intersect (Symbols \ {"x"}) # {} => Telling(ps, l)
    BY <1>3 DEF Range, Telling
  <1>10. read[l].body <=> read[l].rest \/ read[l].done
    <2>1. /\ read[l].rest \in BOOLEAN /\ read[l].done \in BOOLEAN /\ read[l].body \in BOOLEAN
      BY <1>7 DEF Reads
    <2>2. QED
      BY <1>3, <1>7, <2>1 DEF ParamInv
  <1>11. QED
    BY <1>1, <1>2, <1>7, <1>8, <1>9, <1>10 DEF ParamInv

-----------------------------------------------------------------------------
\* What is known after n elements of a pattern: while an ellipsis is next, the
\* element before it still stands among the roles.
RoleOf(p) == IF p = "list" THEN "Arglist" ELSE Slot(class(p))
Repeats(ps, n) == n < Len(ps) /\ ps[n + 1] = "..."
Images(r, a) == \A j \in DOMAIN a : j \in DOMAIN r.leading /\ r.leading[j] = RoleOf(a[j])
ElementInv(ps, n, r, a) ==
  /\ TakenUpto(ps, n) <=> r.done \/ Repeats(ps, n)
  /\ r.body <=> r.done
  /\ Images(r, a)
  /\ Len(r.leading) = IF ~r.done /\ Repeats(ps, n) THEN Len(a) + 1 ELSE Len(a)

LEMMA ElementStep ==
  ASSUME NEW ps \in Seq(Params), Template(ps), NEW n \in 1..Len(ps), NEW r \in PatternReads,
         NEW a \in Seq(Params), ElementInv(ps, n - 1, r, a)
  PROVE  ElementInv(ps, n, read_element(r, ps[n]),
                    IF TakenUpto(ps, n) \/ ps[n] = "&optional" THEN a ELSE Append(a, ps[n]))
  <1> DEFINE p == ps[n]
             q == read_element(r, p)
             b == IF TakenUpto(ps, n) \/ p = "&optional" THEN a ELSE Append(a, p)
  <1>1. p \in {"name", "args", "doc", "body", "x", "list", "..."}
    BY ClassOf DEF Template
  <1>2. TakenUpto(ps, n) <=> TakenUpto(ps, n - 1) \/ p \in Takers \/ Repeats(ps, n)
    <2>1. 1..n = (1..n - 1) \union {n}
      OBVIOUS
    <2>2. QED
      BY <2>1 DEF TakenUpto, Repeats
  <1>3. Repeats(ps, n - 1) <=> p = "..."
    BY DEF Repeats
  <1>4. /\ r.done \in BOOLEAN /\ r.body \in BOOLEAN /\ r.leading \in Seq(LeadingNames) /\ r.matched \in Nat
        /\ r = [leading |-> r.leading, body |-> r.body, matched |-> r.matched, done |-> r.done]
    BY DEF PatternReads
  <1>5. a \in Seq(Params) /\ Len(a) \in Nat
    OBVIOUS
  <1> HIDE DEF p
  <1>6. CASE r.done
    <2>1. q = r
      BY <1>6 DEF read_element
    <2>2. b = a
      BY <1>2, <1>6 DEF ElementInv
    <2>3. ElementInv(ps, n, r, a)
      BY <1>2, <1>6 DEF ElementInv
    <2>4. QED
      BY <2>1, <2>2, <2>3 DEF p
  <1>7. CASE ~r.done /\ p = "..."
    <2>1. Len(r.leading) = Len(a) + 1 /\ TakenUpto(ps, n) /\ ~r.body
      BY <1>2, <1>3, <1>7 DEF ElementInv
    <2>2. b = a
      BY <2>1
    <2>3. q = [[r EXCEPT !.matched = @ + 1]
                 EXCEPT !.leading = IF @ = <<>> THEN @ ELSE Front(@), !.body = TRUE, !.done = TRUE]
      BY <1>7, ClassOf DEF read_element
    <2>4. q.body = TRUE /\ q.done = TRUE
            /\ q.leading = IF r.leading = <<>> THEN r.leading ELSE Front(r.leading)
      BY <1>4, <2>3
    <2>5. q.leading = Front(r.leading)
      BY <1>4, <2>1, <2>4
    <2>6. Len(q.leading) = Len(a) /\ \A j \in DOMAIN a : j \in DOMAIN q.leading
            /\ q.leading[j] = r.leading[j]
      BY <1>4, <1>5, <2>1, <2>5 DEF Front
    <2> HIDE DEF q, b
    <2>7. Images(q, b)
      BY <2>2, <2>6 DEF ElementInv, Images
    <2>8. ElementInv(ps, n, q, b)
      BY <2>1, <2>2, <2>4, <2>6, <2>7 DEF ElementInv
    <2>9. QED
      BY <2>8 DEF p, q, b
  <1>8. CASE ~r.done /\ p = "body"
    <2>1. Len(r.leading) = Len(a) /\ TakenUpto(ps, n)
      BY <1>2, <1>3, <1>8, ClassOf DEF ElementInv
    <2>2. b = a
      BY <2>1
    <2>3. q = [[r EXCEPT !.matched = @ + 1] EXCEPT !.body = TRUE, !.done = TRUE]
      BY <1>8 DEF read_element
    <2>4. q.body = TRUE /\ q.done = TRUE /\ q.leading = r.leading
      BY <1>4, <2>3
    <2> HIDE DEF q, b
    <2>7. Images(q, b)
      BY <2>2, <2>4 DEF ElementInv, Images
    <2>8. ElementInv(ps, n, q, b)
      BY <2>1, <2>2, <2>4, <2>7 DEF ElementInv
    <2>9. QED
      BY <2>8 DEF p, q, b
  <1>9. CASE ~r.done /\ p \in {"name", "args", "doc", "x", "list"}
    <2>1. Len(r.leading) = Len(a) /\ ~TakenUpto(ps, n - 1) /\ ~r.body
      BY <1>3, <1>9 DEF ElementInv
    <2>2. q.leading = Append(r.leading, RoleOf(p)) /\ q.body = r.body /\ q.done = r.done
      <3>1. CASE p = "list"
        <4>1. q = [[r EXCEPT !.matched = @ + 1] EXCEPT !.leading = Append(@, "Arglist")]
          BY <1>9, <3>1, ClassOf DEF read_element
        <4>2. RoleOf(p) = "Arglist"
          BY <3>1 DEF RoleOf
        <4>3. QED
          BY <1>4, <4>1, <4>2
      <3>2. CASE p \in {"name", "args", "doc"}
        <4>0. p \in Symbols \ {"body", "x"} /\ p # "list"
          BY <3>2, ClassOf
        <4>1. q = [[r EXCEPT !.matched = @ + 1] EXCEPT !.leading = Append(@, classify_param[p])]
          BY <1>9, <3>2, <4>0 DEF read_element
        <4>2. RoleOf(p) = classify_param[p]
          BY <3>2, <4>0, ClassOf DEF RoleOf, Slot, class, None
        <4>3. QED
          BY <1>4, <4>1, <4>2
      <3>3. CASE p = "x"
        <4>1. q = [r EXCEPT !.leading = Append(@, "Other")]
          BY <1>9, <3>3 DEF read_element
        <4>2. RoleOf(p) = "Other"
          BY <3>3, ClassOf DEF RoleOf, Slot
        <4>3. QED
          BY <1>4, <4>1, <4>2
      <3>4. QED
        BY <1>9, <3>1, <3>2, <3>3
    <2>3. TakenUpto(ps, n) <=> Repeats(ps, n)
      BY <1>2, <1>9, <2>1, ClassOf
    <2>4. p \in Params /\ p # "&optional"
      BY <1>9, ClassOf DEF Params
    <2>5. Len(q.leading) = Len(a) + 1 /\ \A j \in DOMAIN r.leading : j \in DOMAIN q.leading
            /\ q.leading[j] = r.leading[j]
      <3> DEFINE role == RoleOf(p)
      <3> HIDE DEF role, q
      <3>1. q.leading = Append(r.leading, role)
        BY <2>2 DEF role
      <3>2. QED
        BY <1>4, <2>1, <3>1
    <2>6. q.leading[Len(a) + 1] = RoleOf(p)
      <3> DEFINE role == RoleOf(p)
      <3> HIDE DEF role, q
      <3>1. q.leading = Append(r.leading, role)
        BY <2>2 DEF role
      <3>2. q.leading[Len(a) + 1] = role
        BY <1>4, <2>1, <3>1
      <3>3. QED
        BY <3>2 DEF role
    <2> HIDE DEF q
    <2>7. Images(q, a)
      BY <2>5 DEF ElementInv, Images
    <2>8. CASE Repeats(ps, n)
      <3>1. b = a
        BY <2>3, <2>8
      <3> HIDE DEF b
      <3>2. ElementInv(ps, n, q, b)
        BY <1>9, <2>1, <2>2, <2>3, <2>5, <2>7, <2>8, <3>1 DEF ElementInv
      <3>3. QED
        BY <3>2 DEF p, q, b
    <2>9. CASE ~Repeats(ps, n)
      <3>1. b = Append(a, p)
        BY <2>3, <2>4, <2>9
      <3> HIDE DEF b
      <3>2. Len(b) = Len(a) + 1 /\ b[Len(a) + 1] = p /\ \A j \in DOMAIN a : b[j] = a[j]
        BY <2>4, <3>1
      <3>3. DOMAIN b = 1..Len(a) + 1 /\ DOMAIN a = 1..Len(a)
        BY <2>4, <3>1
      <3>4. Len(a) + 1 \in DOMAIN q.leading
        <4> DEFINE role == RoleOf(p)
        <4> HIDE DEF role
        <4>1. q.leading = Append(r.leading, role)
          BY <2>2 DEF role
        <4>2. QED
          BY <1>4, <2>1, <4>1
      <3>5. Images(q, b)
        <4>1. SUFFICES ASSUME NEW j \in DOMAIN b
                       PROVE  j \in DOMAIN q.leading /\ q.leading[j] = RoleOf(b[j])
          BY DEF Images
        <4>2. CASE j \in DOMAIN a
          BY <2>7, <3>2, <4>2 DEF Images
        <4>3. CASE j = Len(a) + 1
          BY <2>6, <3>2, <3>4, <4>3
        <4>4. QED
          BY <1>5, <3>3, <4>2, <4>3
      <3>6. ElementInv(ps, n, q, b)
        BY <1>9, <2>1, <2>2, <2>3, <2>5, <2>9, <3>2, <3>5 DEF ElementInv
      <3>7. QED
        BY <3>6 DEF p, q, b
    <2>10. QED
      BY <2>8, <2>9
  <1>10. QED
    BY <1>1, <1>4, <1>6, <1>7, <1>8, <1>9

\* The roles harvested from a pattern are those of its slots.
LEMMA PatternFollows ==
  ASSUME NEW ps \in Seq(Params), Template(ps)
  PROVE  LET r == classify_pattern(ps) IN
         /\ r.body <=> Range(ps) \intersect (Takers \union {"..."}) # {}
         /\ Images(r, slots(ps)) /\ Len(r.leading) = Len(slots(ps))
  <1> DEFINE l == Len(ps)
  <1>1. PICK read \in [0..Len(ps) -> PatternReads] :
          /\ read[0] = Unmatched /\ \A n \in 1..Len(ps) : read[n] = read_element(read[n - 1], ps[n])
          /\ classify_pattern(ps) = read[Len(ps)]
    BY PatternRun
  <1>2. PICK among \in [0..Len(ps) -> Seq(Params)] :
          /\ among[0] = <<>> /\ slots(ps) = among[Len(ps)]
          /\ \A n \in 1..Len(ps) :
               among[n] = IF TakenUpto(ps, n) \/ ps[n] = "&optional" THEN among[n - 1]
                          ELSE Append(among[n - 1], ps[n])
    BY SlotsRun
  <1>3. l \in Nat
    OBVIOUS
  <1>a. \A k \in 1..l : ps[k] = "..." => k # 1
    BY DEF Template
  <1> DEFINE S == {n \in 0..l : ElementInv(ps, n, read[n], among[n])}
  <1>4. 0 \in S
    <2>1. ~TakenUpto(ps, 0) /\ ~Repeats(ps, 0)
      BY <1>3, <1>a DEF TakenUpto, Repeats
    <2>2. ElementInv(ps, 0, Unmatched, <<>>)
      BY <2>1 DEF ElementInv, Unmatched, Images
    <2>3. QED
      BY <1>1, <1>2, <1>3, <2>2
  <1>5. ASSUME NEW n \in 1..l, n - 1 \in S
        PROVE  n \in S
    <2>1. read[n - 1] \in PatternReads /\ among[n - 1] \in Seq(Params)
      BY <1>1, <1>2, <1>3
    <2>2. ElementInv(ps, n - 1, read[n - 1], among[n - 1])
      BY <1>5
    <2>3. ElementInv(ps, n, read[n], among[n])
      BY <1>1, <1>2, <2>1, <2>2, ElementStep
    <2>4. QED
      BY <1>3, <2>3
  <1> HIDE DEF S
  <1>6. 0..l \subseteq S
    <2> HIDE DEF l
    <2>1. QED
      BY <1>3, <1>4, <1>5, Upwards
  <1>7. ElementInv(ps, l, read[l], among[l]) /\ read[l] \in PatternReads
    BY <1>1, <1>3, <1>6 DEF S
  <1>8. ~Repeats(ps, l)
    BY <1>3 DEF Repeats
  <1>9. TakenUpto(ps, l) <=> Range(ps) \intersect (Takers \union {"..."}) # {}
    <2>1. Range(ps) = {ps[k] : k \in 1..l}
      BY DEF Range
    <2>2. ASSUME NEW k \in 1..l, ps[k] = "..."
          PROVE  TakenUpto(ps, l)
      <3>1. k - 1 \in 1..l /\ k - 1 < Len(ps) /\ ps[(k - 1) + 1] = "..."
        BY <1>3, <1>a, <2>2
      <3>2. QED
        BY <3>1 DEF TakenUpto
    <2>3. \A k \in 1..l : ps[k] \in Takers => TakenUpto(ps, l)
      BY DEF TakenUpto
    <2>4. TakenUpto(ps, l) => \E k \in 1..l : ps[k] \in Takers \union {"..."}
      <3>1. ASSUME NEW k \in 1..l, k < Len(ps) /\ ps[k + 1] = "..."
            PROVE  \E m \in 1..l : ps[m] \in Takers \union {"..."}
        <4>1. k + 1 \in 1..l
          BY <1>3, <3>1
        <4>2. QED
          BY <3>1, <4>1
      <3>2. QED
        BY <3>1 DEF TakenUpto
    <2>5. QED
      BY <2>1, <2>2, <2>3, <2>4
  <1>10. QED
    BY <1>1, <1>2, <1>7, <1>8, <1>9 DEF ElementInv

LEMMA RichestOfOne ==
  ASSUME NEW patterns \in Seq(Seq(Params)), Len(patterns) = 1
  PROVE  richest(patterns) = <<classify_pattern(patterns[1])>>
  <1> DEFINE read == [n \in DOMAIN patterns |-> classify_pattern(patterns[n])]
             turn(b, n) == IF b = <<>> THEN <<read[n]>>
                           ELSE IF better(read[n], b[1]) THEN <<read[n]>> ELSE b
             F(f) == [n \in 0..Len(patterns) |-> IF n = 0 THEN <<>> ELSE turn(f[n - 1], n)]
             best == CHOOSE f : f = F(f)
             g == [n \in 0..1 |-> IF n = 0 THEN <<>> ELSE <<read[1]>>]
  <1>1. richest(patterns) = best[1]
    BY DEF richest
  <1>2. turn(<<>>, 1) = <<read[1]>> /\ read[1] = classify_pattern(patterns[1])
    OBVIOUS
  <1> HIDE DEF turn, read
  <1>3. g[0] = <<>> /\ g[1] = <<read[1]>>
    OBVIOUS
  <1>4. \A n \in 0..1 : g[n] = IF n = 0 THEN <<>> ELSE turn(g[n - 1], n)
    <2> HIDE DEF g
    <2>1. 0..1 = {0, 1}
      OBVIOUS
    <2>2. g[1] = turn(g[1 - 1], 1)
      BY <1>2, <1>3
    <2>3. QED
      BY <1>3, <2>1, <2>2
  <1>5. g = F(g)
    BY <1>4
  <1> HIDE DEF g
  <1>6. best = F(best)
    <2> HIDE DEF F
    <2>1. QED
      BY <1>5
  <1> HIDE DEF best
  <1>7. best[0] = <<>> /\ best[1] = turn(best[0], 1)
    BY <1>6
  <1>8. QED
    BY <1>1, <1>2, <1>7

-----------------------------------------------------------------------------
(* What annotate_form makes of each argument, where nothing is dispatched. *)

AcceptsAt(j) ==
  form.items[j] = "Str" /\ CASE spec.docstring = None -> FALSE
                             [] spec.docstring = "Leading" -> j < Len(form.items)
                             [] spec.docstring = "LeadingOrLone" -> TRUE
Slotted == Len(spec.leading)
RoleAt(j) ==
  IF j <= Slotted THEN spec.leading[j]
  ELSE IF j = Slotted + 1 /\ AcceptsAt(j) THEN "Docstring" ELSE body_role(form.items[j])
TaggedAt(j) == j <= Slotted \/ (j = Slotted + 1 /\ AcceptsAt(j)) \/ spec.body

\* A form is given up at a name slot, or because its head has no spec.
GivenUp ==
  \/ form.head \notin DOMAIN registry
  \/ \E j \in DOMAIN form.items : j <= Slotted /\ spec.leading[j] = "Name"
     /\ form.items[j] \notin NameShaped

Sequential ==
  /\ \A k \in 2..i : parts[k].role = RoleAt(k - 1)
  /\ pc = "leading" => i <= Slotted + 1
  /\ pc \in {"dispatch", "docstring"} => i <= Slotted + 1 /\ (more => i = Slotted + 1)
  /\ pc = "body" => /\ i <= Slotted + 2 /\ (i = Slotted + 2 => AcceptsAt(Slotted + 1))
                    /\ more => i >= Slotted + 1 /\ (AcceptsAt(Slotted + 1) => i = Slotted + 2)
  /\ pc = "annotated" => \A j \in DOMAIN form.items : j < i <=> TaggedAt(j)
\* The name slots looked at so far hold names.
NamedSoFar == \A j \in DOMAIN form.items :
  j < i /\ j <= Slotted /\ spec.leading[j] = "Name" => form.items[j] \in NameShaped
AInv ==
  /\ pc \in Tagging /\ spec.dispatch = None => Sequential
  /\ pc = "leading" => NamedSoFar
  /\ pc \in Tagging \ {"leading"} => ~GivenUp
  /\ pc = "none" => GivenUp

LEMMA PushAdds ==
  ASSUME NEW R, NEW roles \in Seq(R), Push(roles), Tiled(parts, i), i \in Nat, i >= 1
  PROVE  /\ i' = i + Len(roles)
         /\ \A k \in 1..i : parts'[k] = parts[k]
         /\ \A k \in 1..Len(roles) : parts'[i + k].role = roles[k]
  <1> DEFINE n == Len(roles)
             new == [k \in DOMAIN roles |-> [role |-> roles[k], datum |-> i + k - 1]]
             S == {parts[k] : k \in DOMAIN parts} \union {new[k] : k \in DOMAIN new}
  <1>1. n \in Nat /\ DOMAIN roles = 1..n
    OBVIOUS
  <1>2. parts \in Seq(S) /\ Len(parts) = i
    BY DEF Tiled
  <1>3. new \in Seq(S) /\ Len(new) = n
    BY <1>1
  <1>4. parts' = parts \o new /\ i' = i + n
    BY DEF Push
  <1>6. \A k \in 1..n : new[k].role = roles[k]
    BY <1>1
  <1> HIDE DEF new, S, n
  <1>5. /\ \A k \in 1..i : parts'[k] = parts[k]
        /\ \A k \in 1..n : parts'[i + k] = new[k]
    BY <1>1, <1>2, <1>3, <1>4
  <1>7. QED
    BY <1>4, <1>5, <1>6 DEF n

LEMMA SameReading ==
  ASSUME UNCHANGED tables
  PROVE  /\ spec' = spec /\ form' = form /\ Slotted' = Slotted /\ (GivenUp <=> GivenUp')
         /\ \A j : (AcceptsAt(j) <=> AcceptsAt(j)') /\ RoleAt(j)' = RoleAt(j)
            /\ (TaggedAt(j) <=> TaggedAt(j)')
  <1>1. registry' = registry /\ form' = form
    BY DEF tables
  <1>2. spec' = spec
    BY <1>1 DEF spec
  <1>3. \A j : AcceptsAt(j) <=> AcceptsAt(j)'
    BY <1>1, <1>2 DEF AcceptsAt
  <1>4. Slotted' = Slotted
    BY <1>2 DEF Slotted
  <1>5. QED
    BY <1>1, <1>2, <1>3, <1>4 DEF RoleAt, TaggedAt, GivenUp

\* The parts that were there keep their roles.
LEMMA RolesStay ==
  ASSUME Sequential, UNCHANGED tables, Tiled(parts, i), i \in Nat, i >= 1,
         NEW R, NEW roles \in Seq(R), Push(roles),
         \A k \in 1..Len(roles) : roles[k] = RoleAt(i + k - 1)
  PROVE  \A k \in 2..i' : parts'[k].role = RoleAt(k - 1)'
  <1>1. /\ i' = i + Len(roles)
        /\ \A k \in 1..i : parts'[k] = parts[k]
        /\ \A k \in 1..Len(roles) : parts'[i + k].role = roles[k]
    BY PushAdds
  <1>2. Len(roles) \in Nat
    OBVIOUS
  <1>3. TAKE k \in 2..i'
  <1>4. CASE k <= i
    BY <1>1, <1>4, SameReading DEF Sequential
  <1>5. CASE k > i
    <2>1. k - i \in 1..Len(roles) /\ i + (k - i) = k
      BY <1>1, <1>2, <1>5
    <2>2. parts'[k].role = roles[k - i]
      BY <1>1, <2>1
    <2>3. roles[k - i] = RoleAt(i + (k - i) - 1)
      BY <2>1
    <2>4. i + (k - i) - 1 = k - 1
      BY <2>1
    <2>5. QED
      BY <2>2, <2>3, <2>4, SameReading
  <1>6. QED
    BY <1>1, <1>2, <1>4, <1>5

LEMMA NoRoles ==
  ASSUME Sequential, UNCHANGED tables, Tiled(parts, i), i \in Nat, i >= 1, Push(<<>>)
  PROVE  i' = i /\ \A k \in 2..i' : parts'[k].role = RoleAt(k - 1)'
  <1> DEFINE roles == <<>>
  <1>1. roles \in Seq({}) /\ Push(roles) /\ Len(roles) = 0
    OBVIOUS
  <1> HIDE DEF roles
  <1>2. i' = i + Len(roles)
    BY <1>1, PushAdds
  <1>3. \A k \in 1..Len(roles) : roles[k] = RoleAt(i + k - 1)
    BY <1>1
  <1>4. \A k \in 2..i' : parts'[k].role = RoleAt(k - 1)'
    BY <1>1, <1>3, RolesStay
  <1>5. QED
    BY <1>1, <1>2, <1>4

LEMMA OneRole ==
  ASSUME Sequential, UNCHANGED tables, Tiled(parts, i), i \in Nat, i >= 1, NEW r, Push(<<r>>), r = RoleAt(i)
  PROVE  i' = i + 1 /\ \A k \in 2..i' : parts'[k].role = RoleAt(k - 1)'
  <1> DEFINE roles == <<r>>
  <1>1. roles \in Seq({r}) /\ Push(roles) /\ Len(roles) = 1 /\ roles[1] = r
    OBVIOUS
  <1> HIDE DEF roles
  <1>2. i' = i + Len(roles)
    BY <1>1, PushAdds
  <1>3. \A k \in 1..Len(roles) : roles[k] = RoleAt(i + k - 1)
    <2>1. i + 1 - 1 = i
      OBVIOUS
    <2>2. QED
      BY <1>1, <2>1
  <1>4. QED
    BY <1>1, <1>2, <1>3, RolesStay

LEMMA TagsInOrder ==
  ASSUME TInv, AInv, spec.dispatch = None, pc \in Tagging,
         \/ TagLeading \/ LeadingEnd \/ TagQualifier \/ TagSpecializedArglist \/ TagDispatchValue
         \/ NoDispatch \/ TagDocstring \/ TagBody
  PROVE  Sequential'
  <1>1. /\ spec \in FormSpecs /\ spec.leading \in Seq(Role) /\ Slotted \in Nat
        /\ spec.docstring \in Docstrings /\ spec.body \in BOOLEAN
    BY SpecInForce DEF FormSpecs, Slotted
  <1>2. /\ Tiled(parts, i) /\ i \in Nat /\ i >= 1 /\ form.items \in Seq(Shapes) /\ i <= Len(form.items) + 1
        /\ Len(form.items) \in Nat
    BY DEF TInv, IInv
  <1>3. Sequential
    BY DEF AInv
  <1>4. None # "Qualifiers" /\ None # "Value"
    BY DEF None
  <1>5. CASE TagLeading
    <2>1. UNCHANGED tables /\ pc' = "leading" /\ pc = "leading"
      BY <1>5 DEF TagLeading
    <2>2. i <= Slotted /\ Push(<<spec.leading[i]>>)
      BY <1>5 DEF TagLeading, AtSlot, Slotted
    <2>3. spec.leading[i] = RoleAt(i)
      BY <2>2 DEF RoleAt
    <2>4. i' = i + 1 /\ \A k \in 2..i' : parts'[k].role = RoleAt(k - 1)'
      BY <1>2, <1>3, <2>1, <2>2, <2>3, OneRole
    <2>5. QED
      BY <1>1, <1>2, <2>1, <2>2, <2>4, SameReading DEF Sequential
  <1>6. CASE LeadingEnd
    <2>1. UNCHANGED tables /\ pc' = "dispatch" /\ pc = "leading" /\ UNCHANGED <<i, parts>> /\ ~AtSlot
      BY <1>6 DEF LeadingEnd
    <2>2. i <= Slotted + 1 /\ (more => i = Slotted + 1)
      BY <1>1, <1>2, <1>3, <2>1 DEF Sequential, AtSlot, Slotted
    <2>3. more' <=> more
      BY <2>1, SameReading DEF more
    <2>4. QED
      BY <1>3, <2>1, <2>2, <2>3, SameReading DEF Sequential
  <1>7. CASE NoDispatch
    <2>1. UNCHANGED tables /\ pc' = "docstring" /\ pc = "dispatch" /\ UNCHANGED <<i, parts>>
      BY <1>7 DEF NoDispatch
    <2>2. more' <=> more
      BY <2>1, SameReading DEF more
    <2>3. QED
      BY <1>3, <2>1, <2>2, SameReading DEF Sequential
  <1>8. CASE TagQualifier \/ TagSpecializedArglist \/ TagDispatchValue
    BY <1>4, <1>8 DEF TagQualifier, TagSpecializedArglist, TagDispatchValue
  <1>9. CASE TagDocstring
    <2>1. UNCHANGED tables /\ pc' = "body" /\ pc = "docstring"
      BY <1>9 DEF TagDocstring
    <2>2. i <= Slotted + 1 /\ (more => i = Slotted + 1)
      BY <1>3, <2>1 DEF Sequential
    <2>3. accepted <=> more /\ AcceptsAt(i)
      BY DEF accepted, AcceptsAt, here
    <2>4. CASE accepted
      <3>1. Push(<<"Docstring">>) /\ i = Slotted + 1 /\ AcceptsAt(i)
        BY <1>9, <2>2, <2>3, <2>4 DEF TagDocstring
      <3>2. RoleAt(i) = "Docstring"
        BY <1>1, <3>1 DEF RoleAt
      <3>3. i' = i + 1 /\ \A k \in 2..i' : parts'[k].role = RoleAt(k - 1)'
        BY <1>2, <1>3, <2>1, <3>1, <3>2, OneRole
      <3>4. QED
        BY <1>1, <1>2, <2>1, <3>1, <3>3, SameReading DEF Sequential
    <2>5. CASE ~accepted
      <3>1. Push(<<>>)
        BY <1>9, <2>5 DEF TagDocstring
      <3>2. i' = i /\ \A k \in 2..i' : parts'[k].role = RoleAt(k - 1)'
        BY <1>2, <1>3, <2>1, <3>1, NoRoles
      <3>3. more' <=> more
        BY <2>1, <3>2, SameReading DEF more
      <3>4. more => ~AcceptsAt(Slotted + 1)
        BY <2>2, <2>3, <2>5
      <3>5. QED
        BY <1>1, <1>2, <2>1, <2>2, <3>2, <3>3, <3>4, SameReading DEF Sequential
    <2>6. QED
      BY <2>4, <2>5
  <1>10. CASE TagBody
    <2>1. UNCHANGED tables /\ pc' = "annotated" /\ pc = "body"
      BY <1>10 DEF TagBody
    <2> DEFINE n == Len(form.items)
               rest == SubSeq(form.items, i, n)
               roles == [k \in DOMAIN rest |-> body_role(rest[k])]
    <2>2. /\ i <= Slotted + 2 /\ (i = Slotted + 2 => AcceptsAt(Slotted + 1))
          /\ i <= n => i >= Slotted + 1 /\ (AcceptsAt(Slotted + 1) => i = Slotted + 2)
      BY <1>3, <2>1 DEF Sequential, more
    <2>3. DOMAIN form.items = 1..n
      BY <1>2
    <2>4. CASE spec.body
      <3>1. Push(roles)
        BY <1>10, <2>4 DEF TagBody
      <3>2. rest \in Seq(Shapes) /\ Len(rest) = n + 1 - i
              /\ \A k \in 1..n + 1 - i : rest[k] = form.items[i + k - 1]
        BY <1>2
      <3> DEFINE R == {body_role(rest[k]) : k \in DOMAIN rest}
      <3>3. roles \in Seq(R) /\ Len(roles) = n + 1 - i
              /\ \A k \in 1..n + 1 - i : roles[k] = body_role(form.items[i + k - 1])
        <4> HIDE DEF rest
        <4>1. DOMAIN rest = 1..n + 1 - i /\ n + 1 - i \in Nat
          BY <1>2, <3>2
        <4>2. \A k \in 1..n + 1 - i : roles[k] = body_role(form.items[i + k - 1])
          BY <3>2, <4>1
        <4>3. QED
          BY <4>1, <4>2
      <3>4. ASSUME NEW k \in 1..n + 1 - i
            PROVE  body_role(form.items[i + k - 1]) = RoleAt(i + k - 1)
        <4>1. i + k - 1 > Slotted /\ (i + k - 1 = Slotted + 1 => ~AcceptsAt(i + k - 1))
          BY <1>1, <1>2, <2>2
        <4>2. QED
          BY <1>1, <1>2, <4>1 DEF RoleAt
      <3> HIDE DEF roles, R
      <3>5. \A k \in 1..Len(roles) : roles[k] = RoleAt(i + k - 1)
        BY <3>3, <3>4
      <3>6. \A k \in 2..i' : parts'[k].role = RoleAt(k - 1)'
        BY <1>2, <1>3, <2>1, <3>1, <3>3, <3>5, RolesStay
      <3>7. i' = n + 1
        <4>1. i' = i + Len(roles)
          BY <1>2, <3>1, <3>3, PushAdds
        <4>2. QED
          BY <1>2, <3>3, <4>1
      <3>8. \A j \in DOMAIN form.items : j < i' /\ TaggedAt(j)
        BY <1>2, <2>3, <2>4, <3>7 DEF TaggedAt
      <3>9. QED
        BY <2>1, <3>6, <3>8, SameReading DEF Sequential
    <2>5. CASE ~spec.body
      <3>1. Push(<<>>)
        BY <1>10, <2>5 DEF TagBody
      <3>2. i' = i /\ \A k \in 2..i' : parts'[k].role = RoleAt(k - 1)'
        BY <1>2, <1>3, <2>1, <3>1, NoRoles
      <3>3. \A j \in DOMAIN form.items : j < i <=> TaggedAt(j)
        <4>1. TAKE j \in DOMAIN form.items
        <4>2. j \in Nat /\ j <= n
          BY <2>3
        <4>3. TaggedAt(j) <=> j <= Slotted \/ (j = Slotted + 1 /\ AcceptsAt(Slotted + 1))
          BY <2>5 DEF TaggedAt
        <4>4. QED
          BY <1>1, <1>2, <2>2, <4>2, <4>3
      <3>4. QED
        BY <2>1, <3>2, <3>3, SameReading DEF Sequential
    <2>6. QED
      BY <2>4, <2>5
  <1>11. QED
    BY <1>5, <1>6, <1>7, <1>8, <1>9, <1>10

\* Whoever gets past the leading slots has a name in every name slot.
LEMMA NamesSeen ==
  ASSUME TInv, AInv, pc \in Tagging, UNCHANGED tables,
         \/ TagLeading \/ LeadingEnd \/ TagQualifier \/ TagSpecializedArglist \/ TagDispatchValue
         \/ NoDispatch \/ TagDocstring \/ TagBody
  PROVE  /\ pc' = "leading" => NamedSoFar'
         /\ pc' # "leading" => ~GivenUp'
  <1>1. /\ i \in Nat /\ DOMAIN form.items = 1..Len(form.items) /\ Len(form.items) \in Nat
        /\ Slotted \in Nat /\ form.head \in DOMAIN registry
    <2>1. i \in Nat /\ form.items \in Seq(Shapes)
      BY DEF TInv, IInv
    <2>2. spec.leading \in Seq(Role)
      BY SpecInForce
    <2>3. form.head \in DOMAIN registry
      BY DEF TInv, Registered
    <2>4. QED
      BY <2>1, <2>2, <2>3 DEF Slotted
  <1>2. /\ spec' = spec /\ form' = form /\ Slotted' = Slotted /\ (GivenUp <=> GivenUp')
    BY SameReading
  <1>3. CASE TagLeading
    <2>1. pc = "leading" /\ pc' = "leading" /\ i' = i + Len(<<spec.leading[i]>>) /\ ~Misnamed
      BY <1>3 DEF TagLeading, Push
    <2>2. i' = i + 1
      BY <2>1
    <2>3. NamedSoFar
      BY <2>1 DEF AInv
    <2>4. SUFFICES ASSUME NEW j \in DOMAIN form.items, j < i + 1, j <= Slotted, spec.leading[j] = "Name"
                   PROVE  form.items[j] \in NameShaped
      BY <1>2, <2>1, <2>2 DEF NamedSoFar
    <2>5. j < i \/ j = i
      BY <1>1, <2>4
    <2>6. QED
      BY <2>1, <2>3, <2>4, <2>5 DEF NamedSoFar, Misnamed, here
  <1>4. CASE LeadingEnd
    <2>1. pc = "leading" /\ pc' = "dispatch" /\ ~AtSlot
      BY <1>4 DEF LeadingEnd
    <2>2. NamedSoFar
      BY <2>1 DEF AInv
    <2>3. \A j \in DOMAIN form.items : j <= Slotted => j < i
      BY <1>1, <2>1 DEF AtSlot, more, Slotted
    <2>4. ~GivenUp
      BY <1>1, <2>2, <2>3 DEF GivenUp, NamedSoFar
    <2>5. QED
      BY <1>2, <2>1, <2>4
  <1>5. CASE \/ TagQualifier \/ TagSpecializedArglist \/ TagDispatchValue
             \/ NoDispatch \/ TagDocstring \/ TagBody
    <2>1. pc # "leading" /\ pc' # "leading"
      BY <1>5 DEF TagQualifier, TagSpecializedArglist, TagDispatchValue, NoDispatch, TagDocstring, TagBody
    <2>2. QED
      BY <1>2, <2>1 DEF AInv
  <1>6. QED
    BY <1>3, <1>4, <1>5

LEMMA AInvStep ==
  ASSUME TInv, AInv, [Next]_vars
  PROVE  AInv'
  <1>0. TInv'
    BY TInvStep
  <1>1. CASE UNCHANGED vars
    <2>1. UNCHANGED tables /\ UNCHANGED <<i, parts, pc>>
      BY <1>1 DEF vars, tables
    <2>2. more' <=> more
      BY <2>1, SameReading DEF more
    <2>3. Sequential => Sequential'
      BY <2>1, <2>2, SameReading DEF Sequential
    <2>4. NamedSoFar <=> NamedSoFar'
      BY <2>1, SameReading DEF NamedSoFar
    <2>5. QED
      BY <2>1, <2>3, <2>4, SameReading DEF AInv
  <1>2. CASE \/ InsertSpec \/ RemoveSpec \/ MergeTables \/ StartHarvest \/ HarvestDatum
             \/ HarvestIndents \/ HarvestForm \/ SkipForm \/ HarvestEnd
    <2>1. pc' \notin Tagging \union {"none"}
      BY <1>2 DEF InsertSpec, RemoveSpec, MergeTables, StartHarvest, HarvestDatum, HarvestIndents,
             HarvestForm, SkipForm, HarvestEnd, NextLayer, Tagging
    <2>2. QED
      BY <2>1 DEF AInv, Tagging
  <1>3. ASSUME NEW use \in plan.uses, Lookup(use)
        PROVE  AInv'
    <2>1. /\ i' = 1
          /\ \/ form'.head \in DOMAIN registry' /\ pc' = "leading"
             \/ form'.head \notin DOMAIN registry' /\ pc' = "none"
      BY <1>3 DEF Lookup
    <2>2. CASE pc' = "leading" /\ form'.head \in DOMAIN registry'
      <3>1. spec' \in FormSpecs
        BY <1>0, <2>2 DEF TInv, Registered, IsTable, spec
      <3>2. Slotted' \in Nat
        BY <3>1 DEF FormSpecs, Slotted
      <3>c. i' = 1
        BY <2>1
      <3>d. i' <= Slotted' + 1
        BY <3>c, <3>2 DEF Slotted
      <3>a. \A k \in 2..i' : FALSE
        BY <3>c
      <3>b. \A k \in 2..i' : parts'[k].role = RoleAt(k - 1)'
        BY <3>a
      <3>3. Sequential'
        BY <2>2, <3>d, <3>b DEF Sequential
      <3>4. NamedSoFar'
        <4>1. form'.items \in Seq(Shapes)
          BY <1>0 DEF TInv, IInv
        <4>2. \A j \in DOMAIN form'.items : ~(j < i')
          BY <3>c, <4>1
        <4>3. QED
          BY <4>2 DEF NamedSoFar
      <3>5. QED
        BY <2>2, <3>3, <3>4 DEF AInv
    <2>3. CASE pc' = "none" /\ form'.head \notin DOMAIN registry'
      BY <2>3 DEF AInv, Tagging, GivenUp
    <2>4. QED
      BY <2>1, <2>2, <2>3
  <1>4. CASE NotNamed
    <2>1. UNCHANGED tables /\ pc' = "none" /\ AtSlot /\ Misnamed
      BY <1>4 DEF NotNamed
    <2>2. i \in DOMAIN form.items
      BY <2>1 DEF AtSlot, more, TInv, IInv
    <2>3. GivenUp
      BY <2>1, <2>2 DEF GivenUp, AtSlot, Misnamed, here, Slotted
    <2>4. QED
      BY <2>1, <2>3, SameReading DEF AInv, Tagging
  <1>5. CASE \/ TagLeading \/ LeadingEnd \/ TagQualifier \/ TagSpecializedArglist \/ TagDispatchValue
             \/ NoDispatch \/ TagDocstring \/ TagBody
    <2>1. UNCHANGED tables /\ pc \in Tagging /\ pc' \in Tagging
      <3>1. CASE LeadingEnd \/ NoDispatch
        BY <3>1 DEF LeadingEnd, NoDispatch, Tagging
      <3>2. CASE ~(LeadingEnd \/ NoDispatch)
        BY <1>5, <3>2, Tagged
      <3>3. QED
        BY <3>1, <3>2
    <2>2. spec.dispatch = None => Sequential'
      BY <1>5, <2>1, TagsInOrder
    <2>3. /\ pc' = "leading" => NamedSoFar'
          /\ pc' # "leading" => ~GivenUp'
      BY <1>5, <2>1, NamesSeen
    <2>4. QED
      BY <2>1, <2>2, <2>3, SameReading DEF AInv, Tagging
  <1>6. QED
    BY <1>1, <1>2, <1>3, <1>4, <1>5 DEF Next

\* The roles of a form that is annotated, argument by argument.
LEMMA RolesAsRead ==
  ASSUME TInv, AInv, pc = "annotated", spec.dispatch = None, NEW j \in DOMAIN form.items
  PROVE  RolesGiven(j) = IF TaggedAt(j) THEN {RoleAt(j)} ELSE {}
  <1>1. Tiled(parts, i) /\ i \in Nat /\ i >= 1 /\ form.items \in Seq(Shapes) /\ pc \in Tagging
    BY DEF TInv, IInv, Tagging
  <1>2. j \in Nat /\ j >= 1
    BY <1>1
  <1>3. DOMAIN parts = 1..i /\ \A k \in 1..i : parts[k].datum = k - 1
    BY <1>1 DEF Tiled
  <1>4. Sequential
    BY <1>1 DEF AInv
  <1>5. j < i <=> TaggedAt(j)
    BY <1>4 DEF Sequential
  <1>6. CASE j < i
    <2>1. j + 1 \in 2..i /\ (j + 1) - 1 = j
      BY <1>1, <1>2, <1>6
    <2>2. parts[j + 1].role = RoleAt(j)
      BY <1>4, <2>1 DEF Sequential
    <2>3. {k \in DOMAIN parts : parts[k].datum = j} = {j + 1}
      BY <1>1, <1>2, <1>3, <2>1
    <2>4. RolesGiven(j) = {parts[j + 1].role}
      BY <2>3 DEF RolesGiven
    <2>5. QED
      BY <1>5, <1>6, <2>2, <2>4
  <1>7. CASE ~(j < i)
    <2>1. {k \in DOMAIN parts : parts[k].datum = j} = {}
      BY <1>1, <1>2, <1>3, <1>7
    <2>2. RolesGiven(j) = {}
      BY <2>1 DEF RolesGiven
    <2>3. QED
      BY <1>5, <1>7, <2>2
  <1>8. QED
    BY <1>6, <1>7

-----------------------------------------------------------------------------
(* The bundled specs of the forms that define macros.                      *)

\* A key that only one row holds.
LEMMA OnlyRow ==
  ASSUME NEW rows, NEW row \in rows, NEW k \in DOMAIN row, \A r \in rows : r = row \/ k \notin DOMAIN r
  PROVE  k \in DOMAIN Table(rows) /\ Table(rows)[k] = row[k]
  <1>1. k \in DOMAIN Table(rows)
    BY DEF Table
  <1>2. PICK r \in rows : k \in DOMAIN r /\ Table(rows)[k] = r[k]
    BY <1>1, RowOfTable
  <1>3. QED
    BY <1>1, <1>2

MacroSpec(s, early) ==
  /\ s.dispatch = None /\ s.body
  /\ s.leading = IF early THEN name ELSE fnlike
  /\ early => s.docstring = "Leading"

LEMMA MacroRow ==
  ASSUME NEW heads, NEW leading \in {name, fnlike}, NEW docstring, NEW early \in BOOLEAN,
         leading = IF early THEN name ELSE fnlike, early => docstring = "Leading"
  PROVE  LET row == def(heads, leading, docstring, TRUE, "Macro") IN
         DOMAIN row = heads /\ \A h \in heads : MacroSpec(row[h], early)
  <1> DEFINE b == FormSpec(leading, docstring, TRUE, "Builtin")
             s == [b EXCEPT !.category = "Macro"]
  <1>1. /\ b = [leading |-> leading, docstring |-> docstring, body |-> TRUE, category |-> None,
                dispatch |-> None, confidence |-> "Builtin"]
    BY DEF FormSpec
  <1> HIDE DEF b
  <1>2. s.dispatch = None /\ s.leading = leading /\ s.docstring = docstring /\ s.body
    BY <1>1
  <1>5. MacroSpec(s, early)
    BY <1>2 DEF MacroSpec
  <1>3. def(heads, leading, docstring, TRUE, "Macro") = [h \in heads |-> s]
    BY DEF def, b
  <1> HIDE DEF s
  <1>4. QED
    BY <1>5, <1>3

LEMMA MacrosOfEmacsLisp ==
  ASSUME NEW h \in {"defmacro", "cl-defmacro"}
  PROVE  h \in DOMAIN emacs_lisp_builtins /\ MacroSpec(emacs_lisp_builtins[h], FALSE)
  <1> DEFINE r1 == def({"defun", "defsubst", "cl-defun", "cl-defsubst", "define-inline"}, fnlike,
               "LeadingOrLone", TRUE, "Function")
             r2 == def({"defmacro", "cl-defmacro"}, fnlike, "LeadingOrLone", TRUE, "Macro")
             r3 == def({"cl-defgeneric"}, fnlike, "LeadingOrLone", TRUE, "Generic")
             r4 == method("cl-defmethod", "Qualifiers", "LeadingOrLone")
             r5 == def({"defvar", "defvar-local"}, varlike, "LeadingOrLone", FALSE, "Variable")
             r6 == def({"defconst"}, varlike, "LeadingOrLone", FALSE, "Constant")
             r7 == def({"defcustom", "defface"}, varlike, "LeadingOrLone", TRUE, "Variable")
             r8 == def({"defgroup"}, varlike, "LeadingOrLone", TRUE, None)
             r9 == def({"defvar-keymap"}, name, None, TRUE, "Variable")
             r10 == def({"define-minor-mode", "define-global-minor-mode"}, name, "LeadingOrLone", TRUE,
               None)
             r11 == def({"define-derived-mode"}, <<"Name", "Other", "Other">>, "LeadingOrLone", TRUE, None)
             r12 == def({"cl-defstruct"}, name, "LeadingOrLone", TRUE, "Struct")
             r13 == def({"ert-deftest"}, fnlike, "LeadingOrLone", TRUE, "Test")
             rows == {r1, r2, r3, r4, r5, r6, r7, r8, r9, r10, r11, r12, r13}
  <1>1. emacs_lisp_builtins = Table(rows)
    BY DEF emacs_lisp_builtins
  <1>2. h \notin DOMAIN r1 /\ h \notin DOMAIN r3 /\ h \notin DOMAIN r4 /\ h \notin DOMAIN r5
    BY DEF def, method, entry
  <1>3. h \notin DOMAIN r6 /\ h \notin DOMAIN r7 /\ h \notin DOMAIN r8 /\ h \notin DOMAIN r9
    BY DEF def, method, entry
  <1>4. h \notin DOMAIN r10 /\ h \notin DOMAIN r11 /\ h \notin DOMAIN r12 /\ h \notin DOMAIN r13
    BY DEF def, method, entry
  <1>5. h \in DOMAIN r2 /\ MacroSpec(r2[h], FALSE)
    BY MacroRow
  <1> HIDE DEF r1, r2, r3, r4, r5, r6, r7, r8, r9, r10, r11, r12, r13
  <1>6. r2 \in rows /\ \A r \in rows : r = r2 \/ h \notin DOMAIN r
    BY <1>2, <1>3, <1>4
  <1> HIDE DEF rows
  <1>7. QED
    BY <1>1, <1>5, <1>6, OnlyRow

LEMMA MacrosOfCommonLisp ==
  ASSUME NEW h \in {"defmacro"}
  PROVE  h \in DOMAIN common_lisp_builtins /\ MacroSpec(common_lisp_builtins[h], FALSE)
  <1> DEFINE r1 == def({"defun"}, fnlike, "Leading", TRUE, "Function")
             r2 == def({"defmacro"}, fnlike, "Leading", TRUE, "Macro")
             r3 == def({"deftype"}, fnlike, "Leading", TRUE, "Type")
             r4 == def({"defgeneric"}, fnlike, None, TRUE, "Generic")
             r5 == method("defmethod", "Qualifiers", "Leading")
             r6 == def({"defvar", "defparameter"}, varlike, "LeadingOrLone", FALSE, "Variable")
             r7 == def({"defconstant"}, varlike, "LeadingOrLone", FALSE, "Constant")
             r8 == def({"defclass", "define-condition"}, name, None, TRUE, "Class")
             r9 == def({"defstruct"}, name, "Leading", TRUE, "Struct")
             r10 == def({"defpackage"}, name, None, TRUE, None)
             rows == {r1, r2, r3, r4, r5, r6, r7, r8, r9, r10}
  <1>1. common_lisp_builtins = Table(rows)
    BY DEF common_lisp_builtins
  <1>2. h \notin DOMAIN r1 /\ h \notin DOMAIN r3 /\ h \notin DOMAIN r4 /\ h \notin DOMAIN r5
    BY DEF def, method, entry
  <1>3. h \notin DOMAIN r6 /\ h \notin DOMAIN r7 /\ h \notin DOMAIN r8 /\ h \notin DOMAIN r9
    BY DEF def, method, entry
  <1>4. h \notin DOMAIN r10
    BY DEF def, method, entry
  <1>5. h \in DOMAIN r2 /\ MacroSpec(r2[h], FALSE)
    BY MacroRow
  <1> HIDE DEF r1, r2, r3, r4, r5, r6, r7, r8, r9, r10
  <1>6. r2 \in rows /\ \A r \in rows : r = r2 \/ h \notin DOMAIN r
    BY <1>2, <1>3, <1>4
  <1> HIDE DEF rows
  <1>7. QED
    BY <1>1, <1>5, <1>6, OnlyRow

LEMMA MacrosOfClojure ==
  ASSUME NEW h \in {"defmacro"}
  PROVE  h \in DOMAIN clojure_builtins /\ MacroSpec(clojure_builtins[h], TRUE)
  <1> DEFINE r1 == def({"defn", "defn-", "definline"}, name, "Leading", TRUE, "Function")
             r2 == def({"defmacro"}, name, "Leading", TRUE, "Macro")
             r3 == def({"def", "ns"}, name, "Leading", TRUE, None)
             r4 == def({"defonce", "deftype"}, name, None, TRUE, None)
             r5 == def({"defmulti", "defprotocol"}, name, "Leading", TRUE, "Generic")
             r6 == method("defmethod", "Value", None)
             r7 == def({"definterface"}, name, None, TRUE, "Type")
             r8 == def({"defrecord"}, name, None, TRUE, "Struct")
             r9 == def({"deftest"}, name, None, TRUE, "Test")
             rows == {r1, r2, r3, r4, r5, r6, r7, r8, r9}
  <1>1. clojure_builtins = Table(rows)
    BY DEF clojure_builtins
  <1>2. h \notin DOMAIN r1 /\ h \notin DOMAIN r3 /\ h \notin DOMAIN r4 /\ h \notin DOMAIN r5
    BY DEF def, method, entry
  <1>3. h \notin DOMAIN r6 /\ h \notin DOMAIN r7 /\ h \notin DOMAIN r8 /\ h \notin DOMAIN r9
    BY DEF def, method, entry
  <1>4. h \in DOMAIN r2 /\ MacroSpec(r2[h], TRUE)
    BY MacroRow
  <1> HIDE DEF r1, r2, r3, r4, r5, r6, r7, r8, r9
  <1>5. r2 \in rows /\ \A r \in rows : r = r2 \/ h \notin DOMAIN r
    BY <1>2, <1>3
  <1> HIDE DEF rows
  <1>6. QED
    BY <1>1, <1>4, <1>5, OnlyRow

LEMMA MacrosOfFennel ==
  ASSUME NEW h \in {"macro"}
  PROVE  h \in DOMAIN fennel_builtins /\ MacroSpec(fennel_builtins[h], FALSE)
  <1> DEFINE r1 == def({"fn", "lambda", "greek lambda"}, fnlike, "Leading", TRUE, "Function")
             r2 == def({"macro"}, fnlike, "Leading", TRUE, "Macro")
             r3 == def({"macros"}, name, None, TRUE, "Macro")
             r4 == def({"local", "var", "global"}, name, None, TRUE, "Variable")
             rows == {r1, r2, r3, r4}
  <1>1. fennel_builtins = Table(rows)
    BY DEF fennel_builtins
  <1>2. h \notin DOMAIN r1 /\ h \notin DOMAIN r3 /\ h \notin DOMAIN r4
    BY DEF def, method, entry
  <1>3. h \in DOMAIN r2 /\ MacroSpec(r2[h], FALSE)
    BY MacroRow
  <1> HIDE DEF r1, r2, r3, r4
  <1>4. r2 \in rows /\ \A r \in rows : r = r2 \/ h \notin DOMAIN r
    BY <1>2
  <1> HIDE DEF rows
  <1>5. QED
    BY <1>1, <1>3, <1>4, OnlyRow

LEMMA MacrosOfJanet ==
  ASSUME NEW h \in {"defmacro", "defmacro-"}
  PROVE  h \in DOMAIN janet_builtins /\ MacroSpec(janet_builtins[h], TRUE)
  <1> DEFINE r1 == def({"defn", "defn-"}, name, "Leading", TRUE, "Function")
             r2 == def({"defmacro", "defmacro-"}, name, "Leading", TRUE, "Macro")
             r3 == def({"def", "def-"}, name, "Leading", TRUE, None)
             r4 == def({"var", "var-"}, name, "Leading", TRUE, "Variable")
             rows == {r1, r2, r3, r4}
  <1>1. janet_builtins = Table(rows)
    BY DEF janet_builtins
  <1>2. h \notin DOMAIN r1 /\ h \notin DOMAIN r3 /\ h \notin DOMAIN r4
    BY DEF def, method, entry
  <1>3. h \in DOMAIN r2 /\ MacroSpec(r2[h], TRUE)
    BY MacroRow
  <1> HIDE DEF r1, r2, r3, r4
  <1>4. r2 \in rows /\ \A r \in rows : r = r2 \/ h \notin DOMAIN r
    BY <1>2
  <1> HIDE DEF rows
  <1>5. QED
    BY <1>1, <1>3, <1>4, OnlyRow

LEMMA MacrosOfHy ==
  ASSUME NEW h \in {"defmacro"}
  PROVE  h \in DOMAIN hy_builtins /\ MacroSpec(hy_builtins[h], FALSE)
  <1> DEFINE r1 == def({"defn"}, fnlike, "LeadingOrLone", TRUE, "Function")
             r2 == def({"defmacro"}, fnlike, "LeadingOrLone", TRUE, "Macro")
             r3 == def({"defclass"}, name, "LeadingOrLone", TRUE, "Class")
             r4 == def({"setv"}, name, None, TRUE, None)
             rows == {r1, r2, r3, r4}
  <1>1. hy_builtins = Table(rows)
    BY DEF hy_builtins
  <1>2. h \notin DOMAIN r1 /\ h \notin DOMAIN r3 /\ h \notin DOMAIN r4
    BY DEF def, method, entry
  <1>3. h \in DOMAIN r2 /\ MacroSpec(r2[h], FALSE)
    BY MacroRow
  <1> HIDE DEF r1, r2, r3, r4
  <1>4. r2 \in rows /\ \A r \in rows : r = r2 \/ h \notin DOMAIN r
    BY <1>2
  <1> HIDE DEF rows
  <1>5. QED
    BY <1>1, <1>3, <1>4, OnlyRow

LEMMA MacrosOfLfe ==
  ASSUME NEW h \in {"defmacro"}
  PROVE  h \in DOMAIN lfe_builtins /\ MacroSpec(lfe_builtins[h], FALSE)
  <1> DEFINE r1 == def({"defun"}, fnlike, "Leading", TRUE, "Function")
             r2 == def({"defmacro"}, fnlike, "Leading", TRUE, "Macro")
             r3 == def({"defrecord"}, name, None, TRUE, "Struct")
             r4 == def({"defmodule"}, name, None, TRUE, None)
             rows == {r1, r2, r3, r4}
  <1>1. lfe_builtins = Table(rows)
    BY DEF lfe_builtins
  <1>2. h \notin DOMAIN r1 /\ h \notin DOMAIN r3 /\ h \notin DOMAIN r4
    BY DEF def, method, entry
  <1>3. h \in DOMAIN r2 /\ MacroSpec(r2[h], FALSE)
    BY MacroRow
  <1> HIDE DEF r1, r2, r3, r4
  <1>4. r2 \in rows /\ \A r \in rows : r = r2 \/ h \notin DOMAIN r
    BY <1>2
  <1> HIDE DEF rows
  <1>5. QED
    BY <1>1, <1>3, <1>4, OnlyRow

LEMMA MacrosOfIslisp ==
  ASSUME NEW h \in {"defmacro"}
  PROVE  h \in DOMAIN islisp_builtins /\ MacroSpec(islisp_builtins[h], FALSE)
  <1> DEFINE r1 == def({"defun"}, fnlike, None, TRUE, "Function")
             r2 == def({"defmacro"}, fnlike, None, TRUE, "Macro")
             r3 == def({"defgeneric"}, fnlike, None, TRUE, "Generic")
             r4 == method("defmethod", "Qualifiers", None)
             r5 == def({"defclass"}, name, None, TRUE, "Class")
             r6 == def({"defconstant"}, name, None, TRUE, "Constant")
             r7 == def({"defglobal", "defdynamic"}, name, None, TRUE, "Variable")
             rows == {r1, r2, r3, r4, r5, r6, r7}
  <1>1. islisp_builtins = Table(rows)
    BY DEF islisp_builtins
  <1>2. h \notin DOMAIN r1 /\ h \notin DOMAIN r3 /\ h \notin DOMAIN r4 /\ h \notin DOMAIN r5
    BY DEF def, method, entry
  <1>3. h \notin DOMAIN r6 /\ h \notin DOMAIN r7
    BY DEF def, method, entry
  <1>4. h \in DOMAIN r2 /\ MacroSpec(r2[h], FALSE)
    BY MacroRow
  <1> HIDE DEF r1, r2, r3, r4, r5, r6, r7
  <1>5. r2 \in rows /\ \A r \in rows : r = r2 \/ h \notin DOMAIN r
    BY <1>2, <1>3
  <1> HIDE DEF rows
  <1>6. QED
    BY <1>1, <1>4, <1>5, OnlyRow

LEMMA RegistryOf ==
  /\ bundled_registry["EmacsLisp"] = emacs_lisp_builtins
     /\ bundled_registry["CommonLisp"] = common_lisp_builtins
  /\ bundled_registry["Clojure"] = clojure_builtins /\ bundled_registry["Phel"] = clojure_builtins
  /\ bundled_registry["Fennel"] = fennel_builtins /\ bundled_registry["Janet"] = janet_builtins
  /\ bundled_registry["Hy"] = hy_builtins /\ bundled_registry["Lfe"] = lfe_builtins
  /\ bundled_registry["Islisp"] = islisp_builtins
  <1> DEFINE r1 == entry("EmacsLisp", emacs_lisp_builtins)
             r2 == entry("Scheme", scheme_builtins)
             r3 == [d \in {"Guile", "Gauche", "Mosh", "Gambit", "SchemeSuperset"}
                      |-> scheme_extended_builtins]
             r4 == entry("Racket", racket_builtins)
             r5 == entry("CommonLisp", common_lisp_builtins)
             r6 == [d \in {"Clojure", "Phel"} |-> clojure_builtins]
             r7 == entry("Fennel", fennel_builtins)
             r8 == entry("Janet", janet_builtins)
             r9 == entry("Hy", hy_builtins)
             r10 == entry("Lfe", lfe_builtins)
             r11 == entry("Islisp", islisp_builtins)
             r12 == entry("AutoLisp", autolisp_builtins)
             r13 == [d \in {"Edn", "Wat"} |-> NoSpecs]
             rows == {r1, r2, r3, r4, r5, r6, r7, r8, r9, r10, r11, r12, r13}
  <1>1. bundled_registry = Table(rows)
    BY DEF bundled_registry
  <1>2. /\ DOMAIN r1 = {"EmacsLisp"} /\ \A d \in {"EmacsLisp"} : r1[d] = emacs_lisp_builtins
        /\ DOMAIN r2 = {"Scheme"} /\ \A d \in {"Scheme"} : r2[d] = scheme_builtins
        /\ DOMAIN r3 = {"Guile", "Gauche", "Mosh", "Gambit", "SchemeSuperset"}
        /\ \A d \in DOMAIN r3 : r3[d] = scheme_extended_builtins
        /\ DOMAIN r4 = {"Racket"} /\ \A d \in {"Racket"} : r4[d] = racket_builtins
        /\ DOMAIN r5 = {"CommonLisp"} /\ \A d \in {"CommonLisp"} : r5[d] = common_lisp_builtins
        /\ DOMAIN r6 = {"Clojure", "Phel"} /\ \A d \in {"Clojure", "Phel"} : r6[d] = clojure_builtins
        /\ DOMAIN r7 = {"Fennel"} /\ \A d \in {"Fennel"} : r7[d] = fennel_builtins
        /\ DOMAIN r8 = {"Janet"} /\ \A d \in {"Janet"} : r8[d] = janet_builtins
        /\ DOMAIN r9 = {"Hy"} /\ \A d \in {"Hy"} : r9[d] = hy_builtins
        /\ DOMAIN r10 = {"Lfe"} /\ \A d \in {"Lfe"} : r10[d] = lfe_builtins
        /\ DOMAIN r11 = {"Islisp"} /\ \A d \in {"Islisp"} : r11[d] = islisp_builtins
        /\ DOMAIN r12 = {"AutoLisp"} /\ \A d \in {"AutoLisp"} : r12[d] = autolisp_builtins
        /\ DOMAIN r13 = {"Edn", "Wat"} /\ \A d \in {"Edn", "Wat"} : r13[d] = NoSpecs
    BY DEF entry
  <1> HIDE DEF r1, r2, r3, r4, r5, r6, r7, r8, r9, r10, r11, r12, r13
  <1>3. bundled_registry["EmacsLisp"] = emacs_lisp_builtins
    <2>1. r1 \in rows /\ \A r \in rows : r = r1 \/ "EmacsLisp" \notin DOMAIN r
      BY <1>2
    <2> HIDE DEF rows
    <2>2. QED
      BY <1>1, <1>2, <2>1, OnlyRow
  <1>4. bundled_registry["CommonLisp"] = common_lisp_builtins
    <2>1. r5 \in rows /\ \A r \in rows : r = r5 \/ "CommonLisp" \notin DOMAIN r
      BY <1>2
    <2> HIDE DEF rows
    <2>2. QED
      BY <1>1, <1>2, <2>1, OnlyRow
  <1>5. bundled_registry["Clojure"] = clojure_builtins
    <2>1. r6 \in rows /\ \A r \in rows : r = r6 \/ "Clojure" \notin DOMAIN r
      BY <1>2
    <2> HIDE DEF rows
    <2>2. QED
      BY <1>1, <1>2, <2>1, OnlyRow
  <1>6. bundled_registry["Phel"] = clojure_builtins
    <2>1. r6 \in rows /\ \A r \in rows : r = r6 \/ "Phel" \notin DOMAIN r
      BY <1>2
    <2> HIDE DEF rows
    <2>2. QED
      BY <1>1, <1>2, <2>1, OnlyRow
  <1>7. bundled_registry["Fennel"] = fennel_builtins
    <2>1. r7 \in rows /\ \A r \in rows : r = r7 \/ "Fennel" \notin DOMAIN r
      BY <1>2
    <2> HIDE DEF rows
    <2>2. QED
      BY <1>1, <1>2, <2>1, OnlyRow
  <1>8. bundled_registry["Janet"] = janet_builtins
    <2>1. r8 \in rows /\ \A r \in rows : r = r8 \/ "Janet" \notin DOMAIN r
      BY <1>2
    <2> HIDE DEF rows
    <2>2. QED
      BY <1>1, <1>2, <2>1, OnlyRow
  <1>9. bundled_registry["Hy"] = hy_builtins
    <2>1. r9 \in rows /\ \A r \in rows : r = r9 \/ "Hy" \notin DOMAIN r
      BY <1>2
    <2> HIDE DEF rows
    <2>2. QED
      BY <1>1, <1>2, <2>1, OnlyRow
  <1>10. bundled_registry["Lfe"] = lfe_builtins
    <2>1. r10 \in rows /\ \A r \in rows : r = r10 \/ "Lfe" \notin DOMAIN r
      BY <1>2
    <2> HIDE DEF rows
    <2>2. QED
      BY <1>1, <1>2, <2>1, OnlyRow
  <1>11. bundled_registry["Islisp"] = islisp_builtins
    <2>1. r11 \in rows /\ \A r \in rows : r = r11 \/ "Islisp" \notin DOMAIN r
      BY <1>2
    <2> HIDE DEF rows
    <2>2. QED
      BY <1>1, <1>2, <2>1, OnlyRow
  <1>12. QED
    BY <1>3, <1>4, <1>5, <1>6, <1>7, <1>8, <1>9, <1>10, <1>11

-----------------------------------------------------------------------------
(* What is in force while a form is annotated.                             *)

Settled ==
  \A h : Entry(registry, h) =
           InForce([k \in DOMAIN plan.layers |-> SpecsSaid(plan.dialect, plan.layers[k], h)],
                   Entry(bundled_registry[plan.dialect], h))
RInv == WInv /\ AInv /\ (pc \in Tagging \union {"none"} => Settled)

LEMMA RInvStep ==
  ASSUME RInv, [Next]_vars
  PROVE  RInv'
  <1>0. WInv' /\ AInv'
    BY WInvStep, AInvStep DEF RInv, WInv
  <1>1. CASE UNCHANGED vars
    BY <1>0, <1>1 DEF RInv, Settled, vars
  <1>2. CASE \/ InsertSpec \/ RemoveSpec \/ MergeTables \/ StartHarvest \/ HarvestDatum
             \/ HarvestIndents \/ HarvestForm \/ SkipForm \/ HarvestEnd
    <2>1. pc' \notin Tagging \union {"none"}
      BY <1>2 DEF InsertSpec, RemoveSpec, MergeTables, StartHarvest, HarvestDatum, HarvestIndents,
             HarvestForm, SkipForm, HarvestEnd, NextLayer, Tagging
    <2>2. QED
      BY <1>0, <2>1 DEF RInv
  <1>3. ASSUME NEW use \in plan.uses, Lookup(use)
        PROVE  RInv'
    <2>1. /\ pc = "layers" /\ layer > Len(plan.layers)
          /\ UNCHANGED <<plan, registry>>
      BY <1>3 DEF Lookup
    <2>2. \A k \in DOMAIN plan.layers : k < layer
      BY <2>1, PlanTyped DEF RInv, WInv, TInv
    <2>3. \A h : SpecsSofar(h) = [k \in DOMAIN plan.layers |-> SpecsSaid(plan.dialect, plan.layers[k], h)]
      BY <2>2 DEF SpecsSofar, Sofar
    <2>4. Settled
      BY <2>1, <2>3 DEF RInv, WInv, Settled
    <2>5. QED
      BY <1>0, <2>1, <2>4 DEF RInv, Settled
  <1>4. CASE NotNamed \/ LeadingEnd \/ NoDispatch \/ TagLeading \/ TagQualifier \/ TagSpecializedArglist
             \/ TagDispatchValue \/ TagDocstring \/ TagBody
    <2>1. UNCHANGED <<plan, registry>> /\ pc \in Tagging
      BY <1>4 DEF NotNamed, LeadingEnd, NoDispatch, TagLeading, TagQualifier,
                  TagSpecializedArglist, TagDispatchValue, TagDocstring, TagBody, Tagging, tables
    <2>2. QED
      BY <1>0, <2>1 DEF RInv, Settled
  <1>5. QED
    BY <1>1, <1>2, <1>3, <1>4 DEF Next

LEMMA RInvInit == Init => RInv
  <1>1. Init => pc = "layers"
    BY DEF Init
  <1>2. QED
    BY <1>1, WInvInit DEF RInv, AInv, Tagging

\* Of a plan with one definition, its own name has what was harvested, and every
\* other name what is bundled.
LEMMA SettledAlone ==
  ASSUME TInv, Settled, Alone, NEW h
  PROVE  LET o == harvested(plan.dialect, definition) IN
         /\ IsForm(definition)
         /\ Entry(registry, h) = IF definition.name = h /\ o # <<>> THEN o
                                 ELSE Entry(bundled_registry[plan.dialect], h)
  <1> DEFINE o == harvested(plan.dialect, definition)
             l == plan.layers[1]
             f == l.source.form
             X == SpecsSaid(plan.dialect, l, h)
             b == Entry(bundled_registry[plan.dialect], h)
             said == [k \in DOMAIN plan.layers |-> SpecsSaid(plan.dialect, plan.layers[k], h)]
  <1>1. DOMAIN plan.layers = {1} /\ l.op = "harvest" /\ IsLayer(l)
    <2>1. plan \in Plans
      BY DEF TInv, Positioned
    <2>2. DOMAIN plan.layers = 1..Len(plan.layers) /\ \A k \in DOMAIN plan.layers : IsLayer(plan.layers[k])
      BY <2>1, AnnotateAssumption
    <2>3. Len(plan.layers) = 1 /\ l.op = "harvest"
      BY DEF Alone
    <2>4. 1 \in 1..1 /\ 1..1 = {1}
      OBVIOUS
    <2>5. QED
      BY <2>2, <2>3, <2>4
  <1>2. DOMAIN f = {1} /\ IsForm(f[1]) /\ f[1] = definition
    <2>1. IsSource(l.source)
      BY <1>1 DEF IsLayer
    <2>2. Len(f) = 1 /\ f[1] = definition
      BY DEF Alone, definition
    <2>3. QED
      BY <2>1, <2>2 DEF IsSource
  <1>3. X = IF definition.name = h /\ o # <<>> THEN {<<1, o>>} ELSE {}
    <2>1. TopLevel(l.source, 1)
      BY DEF TopLevel
    <2>2. X = {<<d, harvested(plan.dialect, f[d])>> : d \in {d \in DOMAIN f :
                  TopLevel(l.source, d) /\ f[d].name = h /\ harvested(plan.dialect, f[d]) # <<>>}}
      BY <1>1 DEF SpecsSaid
    <2> HIDE DEF f, X, l
    <2>3. {d \in DOMAIN f : TopLevel(l.source, d) /\ f[d].name = h /\ harvested(plan.dialect, f[d]) # <<>>}
            = IF definition.name = h /\ o # <<>> THEN {1} ELSE {}
      BY <1>2, <2>1
    <2>4. QED
      BY <1>2, <2>2, <2>3
  <1>4. said = [k \in {1} |-> X]
    BY <1>1
  <1>5. Entry(registry, h) = InForce(said, b)
    BY DEF Settled
  <1> HIDE DEF said, X, o, b
  <1>6. CASE definition.name = h /\ o # <<>>
    <2>1. {k \in DOMAIN said : said[k] # {}} = {1} /\ said[1] = {<<1, o>>}
      BY <1>3, <1>4, <1>6
    <2>2. Max({1}) = 1
      <3>1. Max({1}) \in {1}
        BY LastOf
      <3>2. QED
        BY <3>1
    <2>3. LastSaid({<<1, o>>}) = o
      <3> DEFINE e == <<1, o>>
      <3>1. e[1] = 1 /\ e[2] = o
        OBVIOUS
      <3> HIDE DEF e
      <3>2. e \in {e} /\ \A u \in {e} : u[1] <= e[1]
        BY <3>1
      <3>3. (CHOOSE u \in {e} : \A v \in {e} : v[1] <= u[1]) \in {e}
        BY <3>2
      <3>4. LastSaid({e}) = o
        BY <3>1, <3>3 DEF LastSaid
      <3>5. QED
        BY <3>4 DEF e
    <2>4. QED
      BY <1>2, <1>5, <1>6, <2>1, <2>2, <2>3 DEF InForce, o
  <1>7. CASE ~(definition.name = h /\ o # <<>>)
    <2>1. {k \in DOMAIN said : said[k] # {}} = {}
      BY <1>3, <1>4, <1>7
    <2>2. QED
      BY <1>2, <1>5, <1>7, <2>1 DEF InForce, o, b
  <1>8. QED
    BY <1>6, <1>7 DEF o, b

\* Every form that defines macros has a bundled spec that names what it defines.
LEMMA MacroHeads ==
  ASSUME NEW d \in DOMAIN harvest_profile, NEW h \in harvest_profile[d].macro_heads
  PROVE  h \in DOMAIN bundled_registry[d] /\ MacroSpec(bundled_registry[d][h], d \in DocFirst)
  <1>1. Profiled(d, harvest_profile[d])
    BY ProfileOf
  <1>2. CASE d = "EmacsLisp"
    <2>1. h \in {"defmacro", "cl-defmacro"}
      BY <1>1, <1>2 DEF Profiled, ProfileIs
    <2>2. (d \in DocFirst) = FALSE
      BY <1>2 DEF DocFirst
    <2>3. QED
      BY <1>2, <2>1, <2>2, MacrosOfEmacsLisp, RegistryOf
  <1>3. CASE d = "CommonLisp"
    <2>1. h \in {"defmacro"}
      BY <1>1, <1>3 DEF Profiled, ProfileIs
    <2>2. (d \in DocFirst) = FALSE
      BY <1>3 DEF DocFirst
    <2>3. QED
      BY <1>3, <2>1, <2>2, MacrosOfCommonLisp, RegistryOf
  <1>4. CASE d = "Lfe"
    <2>1. h \in {"defmacro"}
      BY <1>1, <1>4 DEF Profiled, ProfileIs
    <2>2. (d \in DocFirst) = FALSE
      BY <1>4 DEF DocFirst
    <2>3. QED
      BY <1>4, <2>1, <2>2, MacrosOfLfe, RegistryOf
  <1>5. CASE d = "Clojure"
    <2>1. h \in {"defmacro"}
      BY <1>1, <1>5 DEF Profiled, ProfileIs
    <2>2. (d \in DocFirst) = TRUE
      BY <1>5 DEF DocFirst
    <2>3. QED
      BY <1>5, <2>1, <2>2, MacrosOfClojure, RegistryOf
  <1>6. CASE d = "Phel"
    <2>1. h \in {"defmacro"}
      BY <1>1, <1>6 DEF Profiled, ProfileIs
    <2>2. (d \in DocFirst) = TRUE
      BY <1>6 DEF DocFirst
    <2>3. QED
      BY <1>6, <2>1, <2>2, MacrosOfClojure, RegistryOf
  <1>7. CASE d = "Fennel"
    <2>1. h \in {"macro"}
      BY <1>1, <1>7 DEF Profiled, ProfileIs
    <2>2. (d \in DocFirst) = FALSE
      BY <1>7 DEF DocFirst
    <2>3. QED
      BY <1>7, <2>1, <2>2, MacrosOfFennel, RegistryOf
  <1>8. CASE d = "Janet"
    <2>1. h \in {"defmacro", "defmacro-"}
      BY <1>1, <1>8 DEF Profiled, ProfileIs
    <2>2. (d \in DocFirst) = TRUE
      BY <1>8 DEF DocFirst
    <2>3. QED
      BY <1>8, <2>1, <2>2, MacrosOfJanet, RegistryOf
  <1>9. CASE d = "Hy"
    <2>1. h \in {"defmacro"}
      BY <1>1, <1>9 DEF Profiled, ProfileIs
    <2>2. (d \in DocFirst) = FALSE
      BY <1>9 DEF DocFirst
    <2>3. QED
      BY <1>9, <2>1, <2>2, MacrosOfHy, RegistryOf
  <1>10. CASE d = "Islisp"
    <2>1. h \in {"defmacro"}
      BY <1>1, <1>10 DEF Profiled, ProfileIs
    <2>2. (d \in DocFirst) = FALSE
      BY <1>10 DEF DocFirst
    <2>3. QED
      BY <1>10, <2>1, <2>2, MacrosOfIslisp, RegistryOf
  <1>11. QED
    BY <1>1, <1>2, <1>3, <1>4, <1>5, <1>6, <1>7, <1>8, <1>9, <1>10 DEF Profiled

-----------------------------------------------------------------------------
(* Definitions of macros as uses of what defines them.                     *)

LEMMA Joined ==
  ASSUME NEW S, NEW x \in Seq(S), NEW y \in Seq(S)
  PROVE  x \o y \in Seq(S) /\ Len(x \o y) = Len(x) + Len(y)
  OBVIOUS

LEMMA FirstOfJoined ==
  ASSUME NEW S, NEW x \in Seq(S), NEW y \in Seq(S), Len(x) = 1
  PROVE  (x \o y)[1] = x[1] /\ (Len(y) >= 1 => (x \o y)[2] = y[1])
  <1>1. \A k \in 1..Len(x) + Len(y) : (x \o y)[k] = IF k <= Len(x) THEN x[k] ELSE y[k - Len(x)]
    BY ConcatProperties, Zenon
  <1>2. Len(y) \in Nat
    OBVIOUS
  <1> DEFINE z == x \o y
  <1> HIDE DEF z
  <1>3. \A k \in 1..Len(x) + Len(y) : z[k] = IF k <= Len(x) THEN x[k] ELSE y[k - Len(x)]
    BY <1>1 DEF z
  <1>4. z[1] = x[1] /\ (Len(y) >= 1 => z[2] = y[1])
    <2>1. 1 \in 1..Len(x) + Len(y) /\ 1 <= Len(x) /\ ~(2 <= Len(x)) /\ 2 - Len(x) = 1
          /\ (Len(y) >= 1 => 2 \in 1..Len(x) + Len(y))
      BY <1>2
    <2>2. QED
      BY <1>3, <2>1
  <1>5. QED
    BY <1>4 DEF z

LEMMA ItemsOfUse ==
  ASSUME NEW f
  PROVE  LET items == AsUse(f).items IN
         /\ AsUse(f).head = f.head
         /\ 1 \in DOMAIN items /\ 2 \in DOMAIN items /\ Len(items) >= 3 /\ Len(items) \in Nat
         /\ items[1] = IF f.wrapped THEN "Meta" ELSE "Symbol"
         /\ f.doc_first => items[2] = "Str"
         /\ ArglistAt(f) \in DOMAIN items /\ ArglistAt(f) >= 2 /\ items[ArglistAt(f)] = "Round"
  <1> DEFINE a == << IF f.wrapped THEN "Meta" ELSE "Symbol" >>
             b == IF f.doc_first THEN <<"Str">> ELSE <<>>
             c == IF f.attr # NoMeta THEN <<"Curly">> ELSE <<>>
             d == <<"Round", "Other">>
  <1>1. a \in Seq(Shapes) /\ Len(a) = 1 /\ a[1] = IF f.wrapped THEN "Meta" ELSE "Symbol"
    BY DEF Shapes
  <1>2. b \in Seq(Shapes) /\ Len(b) \in 0..1 /\ (f.doc_first => Len(b) = 1 /\ b[1] = "Str")
    <2>1. <<"Str">> \in Seq(Shapes) /\ Len(<<"Str">>) = 1 /\ <<>> \in Seq(Shapes) /\ Len(<<>>) = 0
      BY DEF Shapes
    <2>2. QED
      BY <2>1
  <1>3. c \in Seq(Shapes) /\ Len(c) \in 0..1
    <2>1. <<"Curly">> \in Seq(Shapes) /\ Len(<<"Curly">>) = 1 /\ <<>> \in Seq(Shapes) /\ Len(<<>>) = 0
      BY DEF Shapes
    <2>2. QED
      BY <2>1
  <1>4. d \in Seq(Shapes) /\ Len(d) = 2 /\ d[1] = "Round"
    BY DEF Shapes
  <1>5. AsUse(f).items = a \o b \o c \o d /\ AsUse(f).head = f.head
    BY DEF AsUse
  <1> HIDE DEF a, b, c, d
  <1> DEFINE items == a \o b \o c \o d
  <1>a. a \in Seq(Shapes) /\ Len(a) = 1 /\ b \in Seq(Shapes) /\ Len(b) \in 0..1
    BY <1>1, <1>2
  <1>b. c \in Seq(Shapes) /\ Len(c) \in 0..1 /\ d \in Seq(Shapes) /\ Len(d) = 2
    BY <1>3, <1>4
  <1>6. items \in Seq(Shapes) /\ Len(items) = 1 + Len(b) + Len(c) + 2
    <2>a. a \in Seq(Shapes) /\ Len(a) = 1 /\ b \in Seq(Shapes) /\ Len(b) \in Nat
      BY <1>a
    <2>b. c \in Seq(Shapes) /\ Len(c) \in Nat /\ d \in Seq(Shapes) /\ Len(d) = 2
      BY <1>b
    <2>1. a \o b \in Seq(Shapes) /\ Len(a \o b) = 1 + Len(b)
      BY <2>a, Joined
    <2>2. a \o b \o c \in Seq(Shapes) /\ Len(a \o b \o c) = 1 + Len(b) + Len(c)
      BY <2>a, <2>b, <2>1, Joined
    <2>3. items \in Seq(Shapes) /\ Len(items) = Len(a \o b \o c) + Len(d)
      BY <2>b, <2>2, Joined
    <2>4. QED
      BY <2>a, <2>b, <2>2, <2>3
  <1>7. /\ items[1] = a[1] /\ (Len(b) = 1 => items[2] = b[1])
        /\ items[Len(items) - 1] = d[1]
    <2>1. items[1] = a[1] /\ (Len(b) = 1 => items[2] = b[1])
      <3> DEFINE g == c \o d
      <3>1. g \in Seq(Shapes) /\ items = a \o (b \o g)
        BY <1>a, <1>b
      <3> HIDE DEF g, items
      <3>2. b \o g \in Seq(Shapes) /\ (Len(b) = 1 => Len(b \o g) >= 1 /\ (b \o g)[1] = b[1])
        <4>1. b \o g \in Seq(Shapes) /\ Len(b \o g) = Len(b) + Len(g) /\ Len(g) \in Nat
          BY <1>a, <3>1, Joined
        <4>2. Len(b) = 1 => (b \o g)[1] = b[1]
          BY <1>a, <3>1, FirstOfJoined
        <4>3. QED
          BY <1>a, <4>1, <4>2
      <3>3. (a \o (b \o g))[1] = a[1] /\ (Len(b) = 1 => (a \o (b \o g))[2] = (b \o g)[1])
        BY <1>a, <3>2, FirstOfJoined
      <3>4. QED
        BY <3>1, <3>2, <3>3
    <2>2. a \o b \o c \in Seq(Shapes) /\ Len(a \o b \o c) = Len(items) - 2 /\ Len(items) \in Nat
      <3>1. a \o b \in Seq(Shapes) /\ Len(a \o b) = 1 + Len(b)
        BY <1>a, Joined
      <3>2. a \o b \o c \in Seq(Shapes) /\ Len(a \o b \o c) = Len(a \o b) + Len(c)
        BY <1>b, <3>1, Joined
      <3>3. QED
        BY <1>a, <1>b, <1>6, <3>1, <3>2
    <2>3. items[Len(a \o b \o c) + 1] = d[1]
      <3> DEFINE e == a \o b \o c
      <3>1. e \in Seq(Shapes) /\ items = e \o d
        BY <2>2
      <3> HIDE DEF e, items
      <3>2. (e \o d)[Len(e) + 1] = d[1]
        BY <1>b, <3>1
      <3>3. QED
        BY <3>1, <3>2 DEF e
    <2>4. QED
      BY <2>1, <2>2, <2>3
  <1> HIDE DEF items
  <1>8. DOMAIN items = 1..Len(items) /\ Len(items) >= 3
    BY <1>a, <1>b, <1>6
  <1>9. QED
    BY <1>1, <1>2, <1>4, <1>5, <1>6, <1>7, <1>8 DEF items, ArglistAt

LEMMA DefinesMacro ==
  ASSUME NEW d \in DOMAIN harvest_profile, NEW f, harvested(d, f) # <<>>
  PROVE  /\ f.head \in harvest_profile[d].macro_heads /\ f.name # None /\ f.params # <<>>
         /\ harvested(d, f) = harvest_defmacro(f, harvest_profile[d])
  <1>1. f.shape # "Prefixed" /\ d \notin is_syntax_rules_dialect
    BY HarvestersApart DEF harvested
  <1>2. harvested(d, f) = harvest_defmacro(f, harvest_profile[d])
    BY <1>1 DEF harvested
  <1>3. QED
    BY <1>2 DEF harvest_defmacro

\* Whatever a plan of one macro definition: that definition is given up if its
\* name is inside metadata, and else annotated, with the registered name as its
\* name, a docstring in front of the parameters as a docstring where one may
\* stand there, and the parameters as body there and as Arglist in the other
\* dialects (harvest_defmacro, annotate_form, the builtins).
THEOREM DefinitionsAreRecognised == Spec => []DefinitionsRecognised
  <1>1. RInv /\ [Next]_vars => RInv'
    BY RInvStep
  <1>2. RInv => DefinitionsRecognised
    <2> SUFFICES ASSUME RInv, Alone, pc \in {"annotated", "none"}, form = AsUse(definition),
                        plan.dialect \in DOMAIN harvest_profile,
                        definition.name # definition.head, harvested(plan.dialect, definition) # <<>>
                 PROVE  IF definition.wrapped THEN pc = "none"
                        ELSE /\ pc = "annotated" /\ RolesGiven(1) = {"Name"}
                             /\ IF plan.dialect \in DocFirst
                                THEN /\ definition.doc_first => RolesGiven(2) = {"Docstring"}
                                     /\ RolesGiven(ArglistAt(definition)) = {"Body"}
                                ELSE RolesGiven(2) = {"Arglist"}
      BY DEF DefinitionsRecognised
    <2> DEFINE d == plan.dialect
               h == definition.head
               early == d \in DocFirst
    <2>1. TInv /\ AInv /\ Settled
      BY DEF RInv, WInv, Tagging
    <2>2. h \in harvest_profile[d].macro_heads
      BY DefinesMacro
    <2>3. h \in DOMAIN bundled_registry[d] /\ MacroSpec(bundled_registry[d][h], early)
      BY <2>2, MacroHeads
    <2>4. Entry(registry, h) = Entry(bundled_registry[d], h)
      BY <2>1, SettledAlone
    <2>5. h \in DOMAIN registry /\ registry[h] = bundled_registry[d][h]
      BY <2>3, <2>4 DEF Entry
    <2> DEFINE at_list == ArglistAt(definition)
    <2>6. /\ form.head = h
          /\ 1 \in DOMAIN form.items /\ 2 \in DOMAIN form.items /\ Len(form.items) >= 3
          /\ Len(form.items) \in Nat
          /\ form.items[1] = IF definition.wrapped THEN "Meta" ELSE "Symbol"
          /\ definition.doc_first => form.items[2] = "Str"
          /\ at_list \in DOMAIN form.items /\ at_list >= 2 /\ form.items[at_list] = "Round"
      BY ItemsOfUse
    <2>7. /\ spec.dispatch = None /\ spec.body
          /\ spec.leading = IF early THEN name ELSE fnlike
          /\ early => spec.docstring = "Leading"
      BY <2>3, <2>5, <2>6 DEF MacroSpec, spec
    <2>8. /\ spec.leading[1] = "Name" /\ Slotted = IF early THEN 1 ELSE 2
          /\ ~early => spec.leading[2] = "Arglist"
      BY <2>7 DEF name, fnlike, Slotted
    <2>9. CASE definition.wrapped
      <3>1. form.items[1] \notin NameShaped /\ 1 <= Slotted
        BY <2>6, <2>8, <2>9 DEF NameShaped
      <3>2. GivenUp
        BY <2>6, <2>8, <3>1 DEF GivenUp
      <3>3. pc # "annotated"
        BY <2>1, <3>2 DEF AInv, Tagging
      <3>4. QED
        BY <2>9, <3>3
    <2>10. CASE ~definition.wrapped
      <3>1. ~GivenUp
        <4>1. SUFFICES ASSUME NEW j \in DOMAIN form.items, j <= Slotted, spec.leading[j] = "Name"
                       PROVE  form.items[j] \in NameShaped
          BY <2>5, <2>6 DEF GivenUp
        <4>2. form.items \in Seq(Shapes)
          BY <2>1 DEF TInv, IInv
        <4>3. j \in Nat /\ j >= 1
          BY <4>2
        <4>4. j = 1
          BY <2>8, <4>1, <4>3
        <4>5. QED
          BY <2>6, <2>10, <4>4 DEF NameShaped
      <3>2. pc = "annotated"
        BY <2>1, <3>1 DEF AInv
      <3>3. \A j \in DOMAIN form.items : RolesGiven(j) = IF TaggedAt(j) THEN {RoleAt(j)} ELSE {}
        BY <2>1, <2>7, <3>2, RolesAsRead
      <3>4. RolesGiven(1) = {"Name"}
        BY <2>6, <2>8, <3>3 DEF TaggedAt, RoleAt
      <3>5. CASE early
        <4>1. definition.doc_first => RolesGiven(2) = {"Docstring"}
          <5>1. SUFFICES ASSUME definition.doc_first
                         PROVE  RolesGiven(2) = {"Docstring"}
            OBVIOUS
          <5>2. spec.docstring = "Leading" /\ form.items[2] = "Str" /\ 2 < Len(form.items)
            BY <2>6, <2>7, <3>5, <5>1
          <5>3. AcceptsAt(2)
            BY <5>2 DEF AcceptsAt, None
          <5>4. QED
            BY <2>6, <2>8, <3>3, <3>5, <5>3 DEF TaggedAt, RoleAt
        <4>2. ~AcceptsAt(at_list) /\ body_role(form.items[at_list]) = "Body"
          BY <2>6 DEF AcceptsAt, body_role
        <4>3. at_list \in Nat /\ Slotted = 1
          BY <2>6, <2>8, <3>5
        <4>4. TaggedAt(at_list) /\ RoleAt(at_list) = "Body"
          BY <2>6, <2>7, <4>2, <4>3 DEF TaggedAt, RoleAt
        <4>5. RolesGiven(at_list) = {"Body"}
          BY <2>6, <3>3, <4>4
        <4>6. QED
          BY <2>10, <3>2, <3>4, <3>5, <4>1, <4>5
      <3>6. CASE ~early
        <4>1. RolesGiven(2) = {"Arglist"}
          BY <2>6, <2>8, <3>3, <3>6 DEF TaggedAt, RoleAt
        <4>2. QED
          BY <2>10, <3>2, <3>4, <3>6, <4>1
      <3>7. QED
        BY <3>5, <3>6
    <2>11. QED
      BY <2>9, <2>10
  <1>3. QED
    BY RInvInit, <1>1, <1>2, PTL DEF Spec

-----------------------------------------------------------------------------
(* The spec of a definition, against the roles read off its parameters.    *)

LEMMA LambdaSlots ==
  ASSUME NEW ps \in Seq(Params), Lambda(ps)
  PROVE  /\ slots(ps) \in Seq(Params)
         /\ \A j \in DOMAIN slots(ps) : slots(ps)[j] # "list"
  <1> DEFINE l == Len(ps)
             T == Params \ {"list"}
  <1>1. PICK among \in [0..l -> Seq(Params)] :
          /\ among[0] = <<>> /\ slots(ps) = among[l]
          /\ \A n \in 1..l : among[n] = IF TakenUpto(ps, n) \/ ps[n] = "&optional" THEN among[n - 1]
                                        ELSE Append(among[n - 1], ps[n])
    BY SlotsRun
  <1> DEFINE S == {n \in 0..l : among[n] \in Seq(T)}
  <1>2. l \in Nat /\ DOMAIN ps = 1..l
    OBVIOUS
  <1>3. 0 \in S
    BY <1>1, <1>2
  <1>4. ASSUME NEW n \in 1..l, n - 1 \in S
        PROVE  n \in S
    <2>1. ps[n] \in T /\ among[n - 1] \in Seq(T)
      BY <1>2, <1>4 DEF Lambda
    <2>2. among[n] \in {among[n - 1], Append(among[n - 1], ps[n])}
      BY <1>1
    <2> HIDE DEF T
    <2>4. Append(among[n - 1], ps[n]) \in Seq(T)
      BY <2>1
    <2>5. among[n] \in Seq(T)
      BY <2>1, <2>2, <2>4
    <2> HIDE DEF l
    <2>3. QED
      BY <1>2, <2>5
  <1> HIDE DEF S
  <1>5. 0..l \subseteq S
    BY <1>2, <1>3, <1>4, Upwards
  <1>6. among[l] \in Seq(T)
    BY <1>2, <1>5 DEF S
  <1>7. QED
    BY <1>1, <1>2, <1>6

\* What a docstring policy is for where docstrings are read at all.
Policed(policy) ==
  policy = IF plan.dialect \in {"EmacsLisp", "Hy"} THEN "LeadingOrLone" ELSE "Leading"

Faithful(s, f) ==
  /\ s.dispatch = None /\ (s.body <=> Open(f))
  /\ \A j \in 1..Len(s.leading) : j <= Len(Slots(f)) /\ Roles(f, j) = {s.leading[j]}
  /\ \/ Len(Slots(f)) = Len(s.leading) /\ s.docstring = None
     \/ /\ Len(Slots(f)) = Len(s.leading) + 1 /\ Documents(f, Len(Slots(f)))
        /\ Policed(s.docstring)

LEMMA PatternFaithful ==
  ASSUME NEW f, IsForm(f), ByPattern(f), Len(f.patterns) = 1, Template(Declared(f)), ~f.tail,
         NEW s, LET r == classify_pattern(f.patterns[1]) IN
                s.leading = r.leading /\ s.body = r.body,
         s.docstring = None, s.dispatch = None
  PROVE  Faithful(s, f)
  <1> DEFINE ps == Declared(f)
             r == classify_pattern(ps)
  <1>1. ps = f.patterns[1] /\ ps \in Seq(Params)
    BY DEF Declared, IsForm
  <1>2. /\ r.body <=> Range(ps) \intersect (Takers \union {"..."}) # {}
        /\ Images(r, slots(ps)) /\ Len(r.leading) = Len(slots(ps))
    BY <1>1, PatternFollows
  <1>3. s.leading = r.leading /\ s.body = r.body
    BY <1>1
  <1>4. slots(ps) \in Seq(Params)
    <2>1. PICK among \in [0..Len(ps) -> Seq(Params)] : slots(ps) = among[Len(ps)]
      BY <1>1, SlotsRun
    <2>2. QED
      BY <1>1, <2>1
  <1>5. Slots(f) = slots(ps) /\ (Open(f) <=> Range(ps) \intersect (Takers \union {"..."}) # {})
    BY DEF Slots, Open
  <1> HIDE DEF ps, r
  <1>6. ASSUME NEW j \in 1..Len(s.leading)
        PROVE  j <= Len(Slots(f)) /\ Roles(f, j) = {s.leading[j]}
    <2>1. j \in DOMAIN slots(ps) /\ j <= Len(Slots(f))
      BY <1>2, <1>3, <1>4, <1>5
    <2>2. s.leading[j] = RoleOf(slots(ps)[j])
      BY <1>2, <1>3, <2>1 DEF Images
    <2>3. Roles(f, j) = {RoleOf(slots(ps)[j])}
      BY <1>5, <2>1 DEF Roles, RoleOf
    <2>4. QED
      BY <2>1, <2>2, <2>3
  <1>7. QED
    BY <1>2, <1>3, <1>5, <1>6 DEF Faithful

LEMMA ArglistFaithful ==
  ASSUME NEW f, ~ByPattern(f), Declared(f) \in Seq(Params), Lambda(Declared(f)),
         \A j \in DOMAIN Slots(f) : Documents(f, j) => j = Len(Slots(f)),
         NEW policy, (\E j \in DOMAIN Slots(f) : Documents(f, j)) => Policed(policy),
         NEW s, LET r == classify_arglist_params(Declared(f)) IN
                /\ s.leading = r.leading /\ s.body = (r.body \/ f.tail)
                /\ s.docstring = IF r.docstring THEN policy ELSE None,
         s.dispatch = None
  PROVE  Faithful(s, f)
  <1> DEFINE ps == Declared(f)
             r == classify_arglist_params(ps)
             a == slots(ps)
  <1>1. /\ r.body <=> Range(ps) \intersect Takers # {}
        /\ DocLast(a) => Mirrors(r, a)
    BY ArglistFollows
  <1>2. a \in Seq(Params) /\ \A j \in DOMAIN a : a[j] # "list"
    BY LambdaSlots
  <1>3. Slots(f) = a /\ Len(a) \in Nat /\ DOMAIN a = 1..Len(a)
    BY <1>2 DEF Slots
  <1>4. r \in Reads
    BY ArglistReads
  <1>5. r.leading \in Seq({"Name", "Arglist", "Other"}) /\ r.docstring \in BOOLEAN /\ r.body \in BOOLEAN
    BY <1>4 DEF Reads
  <1>6. Open(f) <=> f.tail \/ r.body
    <2>1. "..." \notin Range(ps)
      BY DEF Lambda, Range
    <2>2. Open(f) <=> f.tail \/ Range(ps) \intersect (Takers \union {"..."}) # {}
      BY DEF Open
    <2>3. QED
      BY <1>1, <2>1, <2>2
  <1>7. /\ s.leading = r.leading /\ s.body = (r.body \/ f.tail)
        /\ s.docstring = IF r.docstring THEN policy ELSE None
    OBVIOUS
  <1>8. \A j \in DOMAIN a : a[j] = "doc" <=> Documents(f, j)
    BY <1>3 DEF Documents
  <1> HIDE DEF ps, r, a
  <1>9. DocLast(a) /\ Mirrors(r, a)
    BY <1>1, <1>3, <1>8 DEF DocLast
  <1>10. Len(r.leading) \in Nat /\ DOMAIN r.leading = 1..Len(r.leading)
    BY <1>5
  <1>11. Len(a) = IF r.docstring THEN Len(r.leading) + 1 ELSE Len(r.leading)
    BY <1>9 DEF Mirrors
  <1>12. ASSUME NEW j \in 1..Len(s.leading)
         PROVE  j <= Len(Slots(f)) /\ Roles(f, j) = {s.leading[j]}
    <2>1. j \in DOMAIN r.leading /\ j \in DOMAIN a /\ j <= Len(Slots(f))
      BY <1>3, <1>7, <1>10, <1>11
    <2>2. s.leading[j] = Slot(class(a[j]))
      BY <1>7, <1>9, <2>1 DEF Mirrors
    <2>3. Roles(f, j) = {Slot(class(a[j]))}
      BY <1>2, <1>3, <2>1 DEF Roles
    <2>4. QED
      BY <2>1, <2>2, <2>3
  <1>13. CASE r.docstring
    <2>a. a[Len(a)] = "doc"
      BY <1>9, <1>13 DEF Mirrors
    <2>1. Len(Slots(f)) = Len(s.leading) + 1 /\ a[Len(a)] = "doc" /\ Len(a) \in DOMAIN a
      BY <1>3, <1>7, <1>10, <1>11, <1>13, <2>a
    <2>2. Documents(f, Len(Slots(f)))
      BY <1>3, <1>8, <2>1
    <2>3. Policed(s.docstring)
      BY <1>3, <1>7, <1>13, <2>1, <2>2
    <2>4. QED
      BY <1>6, <1>7, <1>12, <2>1, <2>2, <2>3 DEF Faithful
  <1>14. CASE ~r.docstring
    BY <1>3, <1>6, <1>7, <1>11, <1>12, <1>14 DEF Faithful
  <1>15. QED
    BY <1>5, <1>13, <1>14

-----------------------------------------------------------------------------
LEMMA SyntaxFaithful ==
  ASSUME NEW f, IsForm(f), plan.dialect \in is_syntax_rules_dialect, Plainly(f),
         \A j \in DOMAIN Slots(f) : Documents(f, j) => j = Len(Slots(f)),
         harvested(plan.dialect, f) # <<>>
  PROVE  Faithful(harvested(plan.dialect, f)[1], f)
  <1> DEFINE o == harvested(plan.dialect, f)
  <1>1. o = harvest_scheme_macro(f) /\ o # <<>>
    <2>1. f.shape # "Prefixed"
      BY DEF harvested
    <2>2. QED
      BY <2>1, HarvestersApart DEF harvested
  <1>2. /\ IF ByPattern(f) THEN Len(f.patterns) = 1 /\ Template(Declared(f)) ELSE Lambda(Declared(f))
        /\ (\E j \in DOMAIN Slots(f) : Documents(f, j)) => plan.dialect \in DOMAIN harvest_profile
        /\ f.tail => f.head = "define-macro"
    BY DEF Plainly
  <1>3. plan.dialect \notin DOMAIN harvest_profile /\ plan.dialect \notin {"Clojure", "Phel"}
    BY HarvestersApart DEF is_syntax_rules_dialect
  <1>4. f.params \in Seq(Seq(Params)) /\ f.patterns \in Seq(Seq(Params)) /\ f.tail \in BOOLEAN
    BY DEF IsForm, IsOption
  <1> HIDE DEF o
  <1>5. CASE f.head = "define-macro"
    <2> DEFINE r == classify_arglist_params(f.params[1])
               c == confidence(r.matched, FALSE)
    <2>1. o = harvest_define_macro(f)
      BY <1>1, <1>5 DEF harvest_scheme_macro
    <2>2. f.params # <<>> /\ o = <<FormSpec(r.leading, None, r.body \/ f.tail, c)>>
      BY <1>1, <2>1 DEF harvest_define_macro
    <2>3. ~ByPattern(f)
      BY <1>5 DEF ByPattern
    <2>4. Declared(f) = f.params[1] /\ f.params[1] \in Seq(Params)
      BY <1>3, <1>4, <2>2, <2>3 DEF Declared, Attested, Or
    <2>5. /\ o[1].leading = r.leading /\ o[1].docstring = None /\ o[1].body = (r.body \/ f.tail)
          /\ o[1].dispatch = None
      BY <2>2 DEF FormSpec
    <2>6. \A j \in DOMAIN Slots(f) : ~Documents(f, j)
      BY <1>2, <1>3
    <2> DEFINE s == o[1]
    <2>7. LET q == classify_arglist_params(Declared(f)) IN
          /\ s.leading = q.leading /\ s.body = (q.body \/ f.tail)
          /\ s.docstring = IF q.docstring THEN None ELSE None
      BY <2>4, <2>5
    <2>8. Lambda(Declared(f)) /\ Declared(f) \in Seq(Params) /\ s.dispatch = None
      BY <1>2, <2>3, <2>4, <2>5
    <2> HIDE DEF s, r, c
    <2>9. Faithful(s, f)
      BY <2>3, <2>6, <2>7, <2>8, ArglistFaithful
    <2>10. QED
      BY <2>9 DEF s, o
  <1>6. CASE f.head # "define-macro"
    <2> DEFINE best == richest(f.patterns)
               r == classify_pattern(f.patterns[1])
               c == confidence(best[1].matched > 0, FALSE)
    <2>1. ByPattern(f) /\ best # <<>> /\ o = <<FormSpec(best[1].leading, None, best[1].body, c)>>
      BY <1>1, <1>6 DEF harvest_scheme_macro, ByPattern
    <2>2. best = <<r>>
      BY <1>2, <1>4, <2>1, RichestOfOne
    <2>3. best[1] = r
      BY <2>2
    <2>4. /\ o[1].leading = r.leading /\ o[1].docstring = None /\ o[1].body = r.body
          /\ o[1].dispatch = None
      BY <2>1, <2>3 DEF FormSpec
    <2>5. ~f.tail /\ Len(f.patterns) = 1 /\ Template(Declared(f))
      BY <1>2, <1>6, <2>1
    <2> DEFINE s == o[1]
    <2>6. LET q == classify_pattern(f.patterns[1]) IN s.leading = q.leading /\ s.body = q.body
      BY <2>4
    <2>7. s.docstring = None /\ s.dispatch = None
      BY <2>4
    <2> HIDE DEF s, r, c, best
    <2>8. Faithful(s, f)
      BY <2>1, <2>5, <2>6, <2>7, PatternFaithful
    <2>9. QED
      BY <2>8 DEF s, o
  <1>7. QED
    BY <1>5, <1>6

LEMMA DefmacroFaithful ==
  ASSUME NEW f, IsForm(f), plan.dialect \in DOMAIN harvest_profile, Plainly(f),
         \A j \in DOMAIN Slots(f) : Documents(f, j) => j = Len(Slots(f)),
         harvested(plan.dialect, f) # <<>>
  PROVE  Faithful(harvested(plan.dialect, f)[1], f)
  <1> DEFINE o == harvested(plan.dialect, f)
             p == harvest_profile[plan.dialect]
             read == classify_arglist_params(f.params[1])
             known == CASE p.use_declare -> refine_declare(read, f)
                        [] p.clojure_meta -> refine_meta(read, f)
                        [] OTHER -> read
             q == classify_arglist_params(Declared(f))
             c == confidence(known.matched, known.declared)
  <1>1. f.head \in p.macro_heads /\ f.params # <<>> /\ o = harvest_defmacro(f, p) /\ f.name # None
    BY DefinesMacro
  <1>2. o = <<FormSpec(known.leading, IF known.docstring THEN p.doc_policy ELSE None, known.body, c)>>
    BY <1>1 DEF harvest_defmacro
  <1>3. Profiled(plan.dialect, p)
    BY ProfileOf
  <1>4. f.head \in {"defmacro", "cl-defmacro", "macro", "defmacro-"}
    BY <1>1, <1>3 DEF Profiled, ProfileIs
  <1>5. ~ByPattern(f) /\ f.head # "define-macro"
    BY <1>4 DEF ByPattern
  <1>6. /\ Lambda(Declared(f)) /\ ~f.tail
        /\ f.meta.style = <<>> /\ f.attr.style = <<>> /\ f.clauses = <<>>
        /\ Attested(f) # <<>> => Range(Declared(f)) \intersect (Symbols \ {"x"}) # {}
        /\ (\E j \in DOMAIN Slots(f) : Documents(f, j)) => plan.dialect # "Islisp"
    BY <1>5 DEF Plainly
  <1>7. /\ f.params \in Seq(Seq(Params)) /\ f.tail \in BOOLEAN
        /\ f.meta.arglists \in Seq(Seq(Params)) /\ f.attr.arglists \in Seq(Seq(Params))
    BY DEF IsForm, IsMeta, IsOption
  <1>8. f.params[1] \in Seq(Params) /\ read \in Reads
    BY <1>1, <1>7, ArglistReads
  <1>9. Declared(f) = IF Attested(f) # <<>> THEN Attested(f)[1] ELSE f.params[1]
    BY <1>5 DEF Declared, Or
  <1>10. Attested(f) \in Seq(Seq(Params))
    BY <1>7 DEF Attested, Or
  <1>11. Declared(f) \in Seq(Params)
    BY <1>8, <1>9, <1>10
  <1>12. q \in Reads
    BY <1>11, ArglistReads
  <1> HIDE DEF o, read, q
  <1>13. /\ p.use_declare <=> plan.dialect = "EmacsLisp"
         /\ p.clojure_meta <=> plan.dialect \in {"Clojure", "Phel"}
         /\ plan.dialect # "Islisp" => Policed(p.doc_policy)
    BY <1>3 DEF Profiled, ProfileIs, Policed
  <1> HIDE DEF p
  <1>14. known.leading = q.leading /\ known.docstring = q.docstring /\ known.body = q.body
    <2>1. CASE p.use_declare
      <3>1. Attested(f) = <<>>
        BY <1>13, <2>1 DEF Attested
      <3>2. q = read
        BY <1>9, <3>1 DEF q, read
      <3>3. known = refine_declare(read, f)
        BY <1>13, <2>1
      <3>4. "doc-string" \notin {f.clauses[k].key : k \in DOMAIN f.clauses}
        BY <1>6
      <3> HIDE DEF known
      <3>5. known.leading = read.leading /\ known.docstring = read.docstring /\ known.body = read.body
        BY <1>8, <3>3, <3>4 DEF refine_declare, Reads
      <3>6. QED
        BY <3>2, <3>5
    <2>2. CASE p.clojure_meta
      <3> DEFINE arglist == Or(f.meta.arglists, f.attr.arglists)
                 style == Or(f.meta.style, f.attr.style)
                 given == IF arglist = <<>> THEN Unread ELSE classify_arglist_params(arglist[1])
      <3>1. known = refine_meta(read, f)
        BY <1>13, <2>2
      <3>2. Attested(f) = arglist
        BY <1>13, <2>2 DEF Attested
      <3>3. style = <<>>
        BY <1>6 DEF Or
      <3>4. refine_meta(read, f) = CASE given.matched -> [given EXCEPT !.declared = TRUE]
               [] ~given.matched /\ style # <<>> ->
                    [read EXCEPT !.leading = widened(@, style[1]), !.body = TRUE, !.matched = TRUE,
                                 !.declared = TRUE]
               [] OTHER -> read
        BY DEF refine_meta
      <3> HIDE DEF known, arglist, style
      <3>5. CASE arglist = <<>>
        <4>1. given.matched = FALSE
          BY <3>5 DEF Unread
        <4>2. known = read
          BY <3>1, <3>3, <3>4, <4>1
        <4>3. QED
          BY <1>9, <3>2, <3>5, <4>2 DEF q, read
      <3>6. CASE arglist # <<>>
        <4>1. given = q
          BY <1>9, <3>2, <3>6 DEF q
        <4>2. q.matched
          BY <1>6, <1>11, <3>2, <3>6, ArglistFollows DEF q
        <4> HIDE DEF given
        <4>3. known = [q EXCEPT !.declared = TRUE]
          BY <3>1, <3>4, <4>1, <4>2
        <4>4. QED
          BY <1>12, <4>3 DEF Reads
      <3>7. QED
        BY <3>5, <3>6
    <2>3. CASE ~p.use_declare /\ ~p.clojure_meta
      <3>1. Attested(f) = <<>> /\ known = read
        BY <1>13, <2>3 DEF Attested
      <3>2. QED
        BY <1>9, <3>1 DEF q, read
    <2>4. QED
      BY <2>1, <2>2, <2>3
  <1> DEFINE s == o[1]
             policy == p.doc_policy
  <1> HIDE DEF known, c
  <1>15. /\ s.leading = known.leading /\ s.body = known.body /\ s.dispatch = None
         /\ s.docstring = IF known.docstring THEN policy ELSE None
    BY <1>2 DEF FormSpec
  <1>16. LET r == classify_arglist_params(Declared(f)) IN
         /\ s.leading = r.leading /\ s.body = (r.body \/ f.tail)
         /\ s.docstring = IF r.docstring THEN policy ELSE None
    BY <1>6, <1>12, <1>14, <1>15 DEF q, Reads
  <1>17. (\E j \in DOMAIN Slots(f) : Documents(f, j)) => Policed(policy)
    BY <1>6, <1>13
  <1> HIDE DEF s, policy
  <1>18. Faithful(s, f)
    BY <1>5, <1>6, <1>11, <1>15, <1>16, <1>17, ArglistFaithful
  <1>19. QED
    BY <1>18 DEF s, o

LEMMA SpecFaithful ==
  ASSUME NEW f, IsForm(f), Plainly(f),
         \A j \in DOMAIN Slots(f) : Documents(f, j) => j = Len(Slots(f)),
         harvested(plan.dialect, f) # <<>>
  PROVE  Faithful(harvested(plan.dialect, f)[1], f)
  <1>1. plan.dialect \in is_syntax_rules_dialect \/ plan.dialect \in DOMAIN harvest_profile
    BY DEF harvested
  <1>2. QED
    BY <1>1, SyntaxFaithful, DefmacroFaithful

\* The roles of a use are those of the parameters, whatever the definition and
\* the use: the roles harvest_defmacro, harvest_define_macro and
\* harvest_scheme_macro read off it, at the positions annotate_form looks at.
THEOREM ParametersGiveRoles == Spec => []RolesFollowParameters
  <1>1. RInv /\ [Next]_vars => RInv'
    BY RInvStep
  <1>2. RInv => RolesFollowParameters
    <2> SUFFICES ASSUME RInv, Used, Plainly(definition), Suits(definition),
                        \A j \in DOMAIN Slots(definition) :
                          Documents(definition, j) => j = Len(Slots(definition)),
                        NEW j \in DOMAIN form.items
                 PROVE  /\ RolesGiven(j) \subseteq Roles(definition, j)
                        /\ Roles(definition, j) # {} => RolesGiven(j) # {}
      BY DEF RolesFollowParameters, Follows
    <2> DEFINE f == definition
               o == harvested(plan.dialect, f)
               n == Len(Slots(f))
    <2>1. /\ TInv /\ AInv /\ Settled /\ Alone /\ pc = "annotated" /\ form.head = f.name /\ o # <<>>
      BY DEF RInv, WInv, Tagging, Used
    <2>2. IsForm(f) /\ Entry(registry, form.head) = o
      BY <2>1, SettledAlone
    <2>3. spec = o[1]
      BY <2>1, <2>2 DEF Entry, spec
    <2>4. Faithful(spec, f)
      BY <2>1, <2>2, <2>3, SpecFaithful
    <2>5. spec \in FormSpecs /\ spec.leading \in Seq(Role)
      BY <2>1, SpecInForce DEF Tagging
    <2>6. Slotted \in Nat /\ spec.body \in BOOLEAN /\ form.items \in Seq(Shapes)
      BY <2>1, <2>5 DEF FormSpecs, Slotted, TInv, IInv
    <2>7. j \in Nat /\ j >= 1 /\ Len(form.items) \in Nat /\ j <= Len(form.items)
      BY <2>6
    <2>8. RolesGiven(j) = IF TaggedAt(j) THEN {RoleAt(j)} ELSE {}
      BY <2>1, <2>4, RolesAsRead DEF Faithful
    <2> HIDE DEF f
    <2>9. n = Slotted \/ n = Slotted + 1
      BY <2>4 DEF Faithful, Slotted
    <2>10. CASE j <= Slotted
      <3>1. j \in 1..Len(spec.leading)
        BY <2>6, <2>7, <2>10 DEF Slotted
      <3>2. Roles(f, j) = {spec.leading[j]}
        BY <2>4, <3>1 DEF Faithful
      <3>3. TaggedAt(j) /\ RoleAt(j) = spec.leading[j]
        BY <2>10 DEF TaggedAt, RoleAt
      <3>4. QED
        BY <2>8, <3>2, <3>3 DEF f
    <2>11. CASE j = Slotted + 1 /\ n = Slotted + 1
      <3>1. Documents(f, j) /\ Policed(spec.docstring)
        BY <2>4, <2>6, <2>11 DEF Faithful, Slotted
      <3>2. form.items[j] = "Str" /\ (j < Len(form.items) \/ plan.dialect \in {"EmacsLisp", "Hy"})
        BY <3>1 DEF Suits, f
      <3>3. AcceptsAt(j)
        BY <3>1, <3>2 DEF AcceptsAt, Policed, None
      <3>4. TaggedAt(j) /\ RoleAt(j) = "Docstring"
        BY <2>6, <2>11, <3>3 DEF TaggedAt, RoleAt
      <3>5. Slots(f)[j] = "doc" /\ j <= Len(Slots(f))
        BY <3>1 DEF Documents
      <3>6. Roles(f, j) = {"Docstring"}
        BY <3>5, ClassOf DEF Roles, Slot, None
      <3>7. QED
        BY <2>8, <3>4, <3>6 DEF f
    <2>12. CASE j > n
      <3>1. ~(j <= Slotted) /\ (j = Slotted + 1 => spec.docstring = None)
        BY <2>4, <2>6, <2>7, <2>9, <2>12 DEF Faithful, Slotted
      <3>2. j = Slotted + 1 => ~AcceptsAt(j)
        BY <3>1 DEF AcceptsAt, None
      <3>3. (TaggedAt(j) <=> spec.body) /\ RoleAt(j) = body_role(form.items[j])
        BY <3>1, <3>2 DEF TaggedAt, RoleAt
      <3>4. body_role(form.items[j]) \in {"Body", "Declare", "Interactive"}
        BY DEF body_role
      <3>5. Roles(f, j) = IF Open(f) THEN {"Body", "Declare", "Interactive"} ELSE {}
        BY <2>6, <2>7, <2>9, <2>12 DEF Roles
      <3>6. spec.body <=> Open(f)
        BY <2>4 DEF Faithful
      <3>7. QED
        BY <2>8, <3>3, <3>4, <3>5, <3>6 DEF f
    <2>13. QED
      BY <2>6, <2>7, <2>9, <2>10, <2>11, <2>12
  <1>3. QED
    BY RInvInit, <1>1, <1>2, PTL DEF Spec
=============================================================================
