----------------------------- MODULE MCSettings -----------------------------
(***************************************************************************)
(* Small projects: those that vary the files whose votes are counted,      *)
(* those that vary the lines of the opened file, and those that vary the   *)
(* .dir-locals.el, one of the three at a time.                             *)
(***************************************************************************)
EXTENDS SettingsProperties

CONSTANTS MaxFiles, MaxLines, MaxElements

UpTo(n, S) == UNION {[1..k -> S] : k \in 0..n}

Nothing == [files |-> <<>>, lines |-> <<>>, data |-> <<>>, mode |-> "m",
            rel |-> <<"foo", "bar", "x.el">>]

-----------------------------------------------------------------------------
\* Files: every signal, every weight, and dialects that can tie.
File == [lang |-> FALSE, shebang |-> <<>>, ext |-> "txt", content |-> {}]
Files ==
  { File,
    [File EXCEPT !.lang = TRUE, !.ext = "scm"],
    [File EXCEPT !.shebang = <<"env", "guile", "s">>, !.ext = "scm"],
    [File EXCEPT !.shebang = <<"env", "sbcl", "emacs">>],
    [File EXCEPT !.ext = "el", !.content = {"package"}],
    [File EXCEPT !.ext = "lsp", !.content = {"autolisp"}],
    [File EXCEPT !.ext = "lsp"],
    [File EXCEPT !.ext = "scm", !.content = {"guile", "library"}],
    [File EXCEPT !.ext = "scm"],
    [File EXCEPT !.content = {"library"}],
    [File EXCEPT !.content = {"ns", "package"}] }
VotingProjects == {[Nothing EXCEPT !.files = fs] : fs \in UpTo(MaxFiles, Files)}

-----------------------------------------------------------------------------
\* Lines: cookies of both kinds, blocks of two prefixes, an unlucky End:.
Line(kind, prefix, called, value) ==
  [kind |-> kind, prefix |-> prefix, name |-> called, value |-> value, mode |-> "", pairs |-> <<>>]
Cookie(pairs) == [Line("cookie", ";; ", "", "") EXCEPT !.pairs = pairs]
Lines ==
  { Line("shebang", Bare, "", ""),
    [Cookie(<<>>) EXCEPT !.mode = "lisp"],
    Cookie(<< [name |-> "width", value |-> "1"], [name |-> "width", value |-> "2"] >>),
    Line("marker", ";; ", "", ""), Line("marker", Bare, "", ""),
    Line("end", ";; ", "", ""),
    Line("pair", ";; ", "width", "4"), Line("pair", ";; ", "width", "8"),
    Line("pair", Bare, "mode", "m"),
    Line("text", Bare, "", "") }
ReadingProjects == {[Nothing EXCEPT !.lines = ls] : ls \in UpTo(MaxLines, Lines)}

-----------------------------------------------------------------------------
\* Directory locals: data of the Emacs Lisp reader.
Other(text)   == [kind |-> "other", text |-> text, items |-> <<>>, tail |-> <<>>]
Sym(text)     == [Other(text) EXCEPT !.kind = "symbol"]
Str(path, slash) == [Other([path |-> path, slash |-> slash]) EXCEPT !.kind = "str"]
List(items)   == [Other("") EXCEPT !.kind = "list", !.items = items]
Dotted(a, d)  == [List(<<a>>) EXCEPT !.tail = <<d>>]

Sets(value) == Dotted(Sym("width"), Other(value))
Group(called, value) == List(<<Sym(called), Sets(value)>>)
Elements ==
  { Group("nil", "a"), Group("m", "b"),
    Dotted(Sym("m"), List(<<List(<<Sym("width"), Other("c")>>), Sets("d")>>)),
    Dotted(Sym("other"), List(<<Sets("e")>>)),
    List(<<Str(<<"foo">>, FALSE), Group("m", "f"), Group("nil", "g")>>),
    List(<<Str(<<"foo">>, TRUE), Group("nil", "h")>>),
    Dotted(Str(<<"foo", "bar">>, FALSE), List(<<Group("nil", "i")>>)),
    List(<<Str(<<"foo", "bar", "x.el">>, FALSE), Group("m", "j")>>),
    List(<<Str(<<"ba">>, FALSE), Group("m", "k")>>),
    List(<<Str(<<"foo", "bar">>, FALSE), List(<<Str(<<"bar">>, FALSE), Group("m", "l")>>), Group("m", "m")>>),
    List(<<Sym("m"), Sym("width"), List(<<Sym("width")>>), Dotted(Sym("indent"), Other("n"))>>),
    Other("x"), List(<<>>) }
NestingProjects ==
  {[Nothing EXCEPT !.data = <<List(es)>>, !.rel = rel] :
     es \in UpTo(MaxElements, Elements),
     rel \in {<<>>, <<"x.el">>, <<"foo", "x.el">>, <<"foo", "bar", "x.el">>}}

\* A file that asks for a mode of its own; a .dir-locals.el that is no alist.
MixedProjects ==
  {[Nothing EXCEPT !.lines = <<[Cookie(<<>>) EXCEPT !.mode = "other"]>>, !.data = d] :
     d \in {<<>>, <<Other("x")>>} \cup {<<List(<<a, b>>)>> : a \in Elements, b \in Elements}}

MCProjects == VotingProjects \cup ReadingProjects \cup NestingProjects \cup MixedProjects
=============================================================================
