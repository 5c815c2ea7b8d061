------------------------------ MODULE MCLexer ------------------------------
(***************************************************************************)
(* Small instances of the lexer: for each dialect every text up to a       *)
(* length over the glyphs that have a meaning of their own in it.          *)
(***************************************************************************)
EXTENDS LexerProperties

Texts(options, glyphs, length) ==
  [source : UNION {[1..k -> glyphs] : k \in 0..length}, opts : options]

\* Lexemes common to several dialects.
Strings  == Texts({scheme}, {"dq", "esc", "newline", "(", "a"}, 6)
              \union Texts({wat}, {"dq", "newline", "cr", "(", "$", "space"}, 5)
Comments == Texts({scheme, lfe}, {"#", "|", "a"}, 7)
              \union Texts({wat}, {"(", ";", ")", "a"}, 7)
              \union Texts({autolisp, wat}, {";", "|", "newline", "cr"}, 5)
Regexps  == Texts({scheme_superset}, {"#", "/", "esc", "dq", "i"}, 5)

\* The surface of one dialect.
Surfaces ==
  UNION {
    Texts({scheme, islisp}, {"(", ")", "[", "dq", "esc", "newline", "#", "|", ";", "a"}, 3),
    Texts({scheme, scheme_superset, edn}, {"#", "t", "f", "x", "(", "0", "=", "vu8", "u8"}, 3),
    Texts({common_lisp, racket}, {"esc", "(", ")", "|", "a", "#", "newline"}, 4),
    Texts({common_lisp}, {"#", "'", ".", "+", ",", "@", "0", "a", "("}, 3),
    Texts({racket}, {"#", "lang", "!", "newline", "a", "{"}, 4),
    Texts({guile, fennel}, {"#", "{", "}", "(", "a", "'"}, 4),
    Texts({emacs_lisp}, {"?", "esc", "C", "-", "(", "^", "a"}, 4),
    Texts({clojure, phel, hy, edn}, {"#", "_", "(", "{", "dq", ",", "@", "^", "?", "~"}, 3),
    Texts({phel, clojure}, {"esc", "a", "_", "|", "(", ";", ","}, 4),
    Texts({janet}, {"bt", "#", "newline", "a", "(", "@", "|"}, 4),
    Texts({hy}, {"#", "[", "]", "a"}, 6)}
    \union {[source |-> <<"#", "[">> \o t, opts |-> scheme_superset] :
              t \in [1..6 -> {"[", ":", "a", "]"}] \union [1..4 -> {"esc", "[", ":", "^", "a", "]"}]}

MCCases == Strings \union Comments \union Regexps \union Surfaces
=============================================================================
