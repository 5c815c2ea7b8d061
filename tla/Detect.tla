------------------------------- MODULE Detect -------------------------------
(***************************************************************************)
(* Dialect detection of lispexp (src/src/detect.rs, ADR-0034): the signals *)
(* of one file in their order of precedence, and the votes of a project.   *)
(* A file is what detect can tell of it: whether it begins with `#lang',   *)
(* the base names on its shebang line, its extension, and the structural   *)
(* markers its text contains.  Options are sequences of length at most 1.  *)
(***************************************************************************)
EXTENDS Integers, Sequences, FiniteSets, SequencesExt

\* Dialect::ALL.
ALL == <<"Scheme", "Guile", "Racket", "Gauche", "Mosh", "Gambit", "SchemeSuperset", "Clojure",
         "Phel", "Edn", "CommonLisp", "EmacsLisp", "Islisp", "AutoLisp", "Janet", "Hy", "Fennel",
         "Lfe", "Wat">>
all_index(d) == SelectInSeq(ALL, LAMBDA e : e = d)

\* A table is a set of rows: names, and a sequence of what they stand for.
look_up(rows, called) ==
  LET found == {row \in rows : called \in row[1]}
  IN  IF found = {} THEN <<>> ELSE (CHOOSE row \in found : TRUE)[2]

\* The candidates of an extension, likelier ones first; a dot and capitals are
\* gone by here.
from_extension ==
  { <<{"el", "eld"}, <<"EmacsLisp">> >>, <<{"scm"}, <<"SchemeSuperset", "Guile">> >>,
    <<{"ss", "sld", "sls"}, <<"Scheme">> >>, <<{"rkt", "rktl", "rktd"}, <<"Racket">> >>,
    <<{"clj", "cljs", "cljc", "cljx"}, <<"Clojure">> >>, <<{"edn"}, <<"Edn">> >>,
    <<{"phel"}, <<"Phel">> >>, <<{"fnl"}, <<"Fennel">> >>, <<{"janet", "jdn"}, <<"Janet">> >>,
    <<{"hy"}, <<"Hy">> >>, <<{"lfe"}, <<"Lfe">> >>, <<{"cl", "lisp"}, <<"CommonLisp">> >>,
    <<{"lsp"}, <<"CommonLisp", "AutoLisp">> >>, <<{"wat", "wast"}, <<"Wat">> >> }

interpreters ==
  { <<{"guile"}, <<"Guile">> >>, <<{"gosh"}, <<"SchemeSuperset">> >>,
    <<{"scheme", "chez", "chezscheme", "petite", "csi", "chibi-scheme"}, <<"Scheme">> >>,
    <<{"racket"}, <<"Racket">> >>, <<{"sbcl", "ccl", "clisp", "ecl", "abcl"}, <<"CommonLisp">> >>,
    <<{"clojure", "clj", "bb"}, <<"Clojure">> >>, <<{"janet"}, <<"Janet">> >>, <<{"hy"}, <<"Hy">> >>,
    <<{"fennel"}, <<"Fennel">> >>, <<{"emacs"}, <<"EmacsLisp">> >>,
    <<{"lfe", "lfescript"}, <<"Lfe">> >> }

\* A marker stands for the texts that mean the same: "guile" for a module form,
\* "autolisp" for `(defun c:' and its kin, "library" for a library form or an
\* import of standard libraries, "package", "emacs", and "ns".
Markers == {"guile", "autolisp", "library", "package", "emacs", "ns"}

-----------------------------------------------------------------------------
some(dialect, confidence) == << [dialect |-> dialect, confidence |-> confidence] >>

\* The last token on the line that is known.
shebang_dialect(f) ==
  LET of(k)  == look_up(interpreters, f.shebang[k])
      known == {k \in DOMAIN f.shebang : of(k) # <<>>}
  IN  IF known = {} THEN <<>> ELSE some(of(Max(known))[1], "High")

disambiguate(cands, f) ==
  IF Contains(cands, "Guile")
  THEN IF "guile" \in f.content THEN "Guile" ELSE "SchemeSuperset"
  ELSE IF "autolisp" \in f.content THEN "AutoLisp" ELSE "CommonLisp"

extension_dialect(f) ==
  LET cands == look_up(from_extension, f.ext) IN
  CASE Len(cands) = 0 -> <<>>
    [] Len(cands) = 1 -> some(cands[1], "High")
    [] Len(cands) > 1 -> some(disambiguate(cands, f), "Medium")

Or(a, b) == IF a = <<>> THEN b ELSE a
content_dialect(f) ==
  LET sign(marker, dialect) == IF marker \in f.content THEN some(dialect, "Low") ELSE <<>>
  IN  Or(sign("library", "Scheme"),
         Or(sign("package", "CommonLisp"), Or(sign("emacs", "EmacsLisp"), sign("ns", "Clojure"))))

\* What is detected of a file, if anything: the first signal in this order.
detect(f) ==
  Or(IF f.lang THEN some("Racket", "High") ELSE <<>>,
     Or(shebang_dialect(f), Or(extension_dialect(f), content_dialect(f))))

confidence_weight == [High |-> 3, Medium |-> 2, Low |-> 1]

\* One turn of the loop of detect_project: a dialect not seen yet is put last.
vote(scores, f) ==
  IF detect(f) = <<>> THEN scores
  ELSE LET d == detect(f)[1]
           weight == confidence_weight[d.confidence]
           k == SelectInSeq(scores, LAMBDA s : s.dialect = d.dialect)
       IN  IF k > 0 THEN [scores EXCEPT ![k].score = @ + weight]
           ELSE Append(scores, [dialect |-> d.dialect, score |-> weight])

lessByScore(a, b) == a.score < b.score   \* faulty: ties are left to the order of the votes
less(a, b) ==
  \/ a.score < b.score
  \/ a.score = b.score /\ all_index(a.dialect) > all_index(b.dialect)

\* Iterator::max_by: the last of the elements that are not less than another.
argmax(scores) ==
  scores[Max({k \in DOMAIN scores : \A e \in DOMAIN scores : ~ less(scores[k], scores[e])})]
=============================================================================
