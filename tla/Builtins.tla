------------------------------ MODULE Builtins ------------------------------
(***************************************************************************)
(* The registries of definition forms bundled with lispexp, one for each   *)
(* dialect (src/src/annotate.rs, ADR-0020): a function from head symbols   *)
(* to the FormSpec that says how the arguments of such a form are read.    *)
(***************************************************************************)
EXTENDS Sequences

None == "None"   \* Rust's None, where a choice is optional

Role == {"Keyword", "Name", "Qualifier", "DispatchValue", "SpecializedArglist", "Arglist",
         "Docstring", "Declare", "Interactive", "Body", "Other"}
Docstrings   == {None, "Leading", "LeadingOrLone"}
Categories   == {None, "Function", "Macro", "Variable", "Constant", "Class", "Struct", "Generic",
                 "Method", "Type", "Test"}
Dispatches   == {None, "Qualifiers", "Value"}
Confidences  == {"Builtin", "Declared", "Inferred", "Weak", "Consumer"}

FormSpecs == [leading : Seq(Role), docstring : Docstrings, body : BOOLEAN,
              category : Categories, dispatch : Dispatches, confidence : Confidences]

\* A table with one entry, and the table of all entries of some that share no key.
entry(key, value) == [k \in {key} |-> value]
Table(rows) == [k \in UNION {DOMAIN row : row \in rows} |-> (CHOOSE row \in rows : k \in DOMAIN row)[k]]

FormSpec(leading, docstring, body, confidence) ==
  [leading |-> leading, docstring |-> docstring, body |-> body, category |-> None,
   dispatch |-> None, confidence |-> confidence]

\* Builtins::def and Builtins::method, for several heads at once.
def(heads, leading, docstring, body, category) ==
  [h \in heads |-> [FormSpec(leading, docstring, body, "Builtin") EXCEPT !.category = category]]
method(head, dispatch, docstring) ==
  entry(head, [FormSpec(<<"Name">>, docstring, TRUE, "Builtin")
               EXCEPT !.category = "Method", !.dispatch = dispatch])

name    == <<"Name">>
fnlike  == <<"Name", "Arglist">>
varlike == <<"Name", "Other">>
NoSpecs == <<>>   \* Registry::new

-----------------------------------------------------------------------------
emacs_lisp_builtins ==
  Table({def({"defun", "defsubst", "cl-defun", "cl-defsubst", "define-inline"}, fnlike,
             "LeadingOrLone", TRUE, "Function"),
         def({"defmacro", "cl-defmacro"}, fnlike, "LeadingOrLone", TRUE, "Macro"),
         def({"cl-defgeneric"}, fnlike, "LeadingOrLone", TRUE, "Generic"),
         method("cl-defmethod", "Qualifiers", "LeadingOrLone"),
         def({"defvar", "defvar-local"}, varlike, "LeadingOrLone", FALSE, "Variable"),
         def({"defconst"}, varlike, "LeadingOrLone", FALSE, "Constant"),
         def({"defcustom", "defface"}, varlike, "LeadingOrLone", TRUE, "Variable"),
         def({"defgroup"}, varlike, "LeadingOrLone", TRUE, None),
         def({"defvar-keymap"}, name, None, TRUE, "Variable"),
         def({"define-minor-mode", "define-global-minor-mode"}, name, "LeadingOrLone", TRUE, None),
         def({"define-derived-mode"}, <<"Name", "Other", "Other">>, "LeadingOrLone", TRUE, None),
         def({"cl-defstruct"}, name, "LeadingOrLone", TRUE, "Struct"),
         def({"ert-deftest"}, fnlike, "LeadingOrLone", TRUE, "Test")})

scheme_builtins ==
  Table({def({"define", "define-values", "define-library"}, name, None, TRUE, None),
         def({"define-syntax"}, name, None, TRUE, "Macro"),
         def({"define-record-type"}, name, None, TRUE, "Type")})

scheme_extended_builtins ==
  Table({def({"define-class"}, name, None, TRUE, "Class"),
         def({"define-generic"}, name, None, FALSE, "Generic"),
         def({"define-constant"}, varlike, None, FALSE, "Constant"),
         def({"define-syntax-rule"}, name, None, TRUE, "Macro"),
         def({"define-inline", "define*", "define-public"}, name, None, TRUE, None),
         scheme_builtins})

racket_builtins ==
  Table({def({"struct"}, name, None, TRUE, "Struct"),
         def({"define-syntax-rule"}, name, None, TRUE, "Macro"),
         def({"define/public", "define/private", "define/override"}, name, None, TRUE, "Method"),
         scheme_builtins})

\* A lone trailing string is a value (CLHS 3.4.11), but not after the value of a
\* variable.
common_lisp_builtins ==
  Table({def({"defun"}, fnlike, "Leading", TRUE, "Function"),
         def({"defmacro"}, fnlike, "Leading", TRUE, "Macro"),
         def({"deftype"}, fnlike, "Leading", TRUE, "Type"),
         def({"defgeneric"}, fnlike, None, TRUE, "Generic"),
         method("defmethod", "Qualifiers", "Leading"),
         def({"defvar", "defparameter"}, varlike, "LeadingOrLone", FALSE, "Variable"),
         def({"defconstant"}, varlike, "LeadingOrLone", FALSE, "Constant"),
         def({"defclass", "define-condition"}, name, None, TRUE, "Class"),
         def({"defstruct"}, name, "Leading", TRUE, "Struct"),
         def({"defpackage"}, name, None, TRUE, None)})

clojure_builtins ==
  Table({def({"defn", "defn-", "definline"}, name, "Leading", TRUE, "Function"),
         def({"defmacro"}, name, "Leading", TRUE, "Macro"),
         def({"def", "ns"}, name, "Leading", TRUE, None),
         def({"defonce", "deftype"}, name, None, TRUE, None),
         def({"defmulti", "defprotocol"}, name, "Leading", TRUE, "Generic"),
         method("defmethod", "Value", None),
         def({"definterface"}, name, None, TRUE, "Type"),
         def({"defrecord"}, name, None, TRUE, "Struct"),
         def({"deftest"}, name, None, TRUE, "Test")})

fennel_builtins ==
  Table({def({"fn", "lambda", "greek lambda"}, fnlike, "Leading", TRUE, "Function"),
         def({"macro"}, fnlike, "Leading", TRUE, "Macro"),
         def({"macros"}, name, None, TRUE, "Macro"),
         def({"local", "var", "global"}, name, None, TRUE, "Variable")})

janet_builtinsAfterArglist ==   \* faulty: looks for the docstring after the arglist
  Table({def({"defn", "defn-"}, fnlike, "Leading", TRUE, "Function"),
         def({"defmacro", "defmacro-"}, fnlike, "Leading", TRUE, "Macro"),
         def({"def", "def-"}, name, "Leading", TRUE, None),
         def({"var", "var-"}, name, "Leading", TRUE, "Variable")})

janet_builtins ==
  Table({def({"defn", "defn-"}, name, "Leading", TRUE, "Function"),
         def({"defmacro", "defmacro-"}, name, "Leading", TRUE, "Macro"),
         def({"def", "def-"}, name, "Leading", TRUE, None),
         def({"var", "var-"}, name, "Leading", TRUE, "Variable")})

hy_builtins ==
  Table({def({"defn"}, fnlike, "LeadingOrLone", TRUE, "Function"),
         def({"defmacro"}, fnlike, "LeadingOrLone", TRUE, "Macro"),
         def({"defclass"}, name, "LeadingOrLone", TRUE, "Class"),
         def({"setv"}, name, None, TRUE, None)})

lfe_builtins ==
  Table({def({"defun"}, fnlike, "Leading", TRUE, "Function"),
         def({"defmacro"}, fnlike, "Leading", TRUE, "Macro"),
         def({"defrecord"}, name, None, TRUE, "Struct"),
         def({"defmodule"}, name, None, TRUE, None)})

islisp_builtins ==
  Table({def({"defun"}, fnlike, None, TRUE, "Function"),
         def({"defmacro"}, fnlike, None, TRUE, "Macro"),
         def({"defgeneric"}, fnlike, None, TRUE, "Generic"),
         method("defmethod", "Qualifiers", None),
         def({"defclass"}, name, None, TRUE, "Class"),
         def({"defconstant"}, name, None, TRUE, "Constant"),
         def({"defglobal", "defdynamic"}, name, None, TRUE, "Variable")})

autolisp_builtins == def({"defun"}, fnlike, None, TRUE, "Function")

bundled_registry ==
  Table({entry("EmacsLisp", emacs_lisp_builtins),
         entry("Scheme", scheme_builtins),
         [d \in {"Guile", "Gauche", "Mosh", "Gambit", "SchemeSuperset"} |-> scheme_extended_builtins],
         entry("Racket", racket_builtins),
         entry("CommonLisp", common_lisp_builtins),
         [d \in {"Clojure", "Phel"} |-> clojure_builtins],
         entry("Fennel", fennel_builtins), entry("Janet", janet_builtins), entry("Hy", hy_builtins),
         entry("Lfe", lfe_builtins), entry("Islisp", islisp_builtins), entry("AutoLisp", autolisp_builtins),
         [d \in {"Edn", "Wat"} |-> NoSpecs]})
=============================================================================
