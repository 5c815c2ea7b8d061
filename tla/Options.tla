------------------------------ MODULE Options ------------------------------
(***************************************************************************)
(* What the lexer of lispexp consults of the Options of a dialect          *)
(* (src/src/options.rs): the switches that are on, the glyph of each role, *)
(* the comment syntax and the choices with more than two values.           *)
(***************************************************************************)
EXTENDS Sequences

\* Characters, named by their glyph or by a word.  A run of letters the lexer
\* looks ahead for as a whole is one character here: "t" and "f" also stand for
\* "true" and "false", "lang", "u8" and "vu8" for themselves; "x" is a radix
\* letter, "C" a modifier letter, "i" the regexp flag, "a" any other letter.
Letters == {"a", "t", "f", "x", "i", "C", "u8", "vu8", "lang"}
Alnum   == Letters \union {"0"}
Glyphs  == Alnum \union {"(", ")", "[", "]", "{", "}", "dq", "esc", "|", "#", ";", "/",
             "bt", "'", ",", "~", "@", "^", "?", "$", ":", "=", "+", "-", ".", "_", "!",
             "space", "newline", "cr"}
None    == "none"   \* Rust's None, where a character or a choice is optional

Flags ==
  {"comma_is_whitespace", "line_comment_in_atom", "line_comment_double", "cr_newline",
   "long_string_backtick", "square", "curly", "piped_symbols", "pipe_anon_fn",
   "hash_syntax", "quoted_identifiers", "symbol_escape", "lang_line", "shebang_line",
   "datum_comment", "discard_underscore", "hash_apostrophe", "read_eval",
   "feature_conditional", "reader_conditional", "regex_literal", "hash_curly_symbol",
   "set_literal", "regex_slash", "bytevector_vu8", "booleans", "tagged_literals",
   "datum_labels"}
Roles == {"quote", "quasiquote", "unquote", "splicing_suffix", "deref", "meta", "splice",
          "mutable", "short_fn"}

\* An empty `open' means the dialect has no block comments.
OptionsType ==
  [flags : SUBSET Flags, roles : [Roles -> Glyphs \union {None}], line_comment : Glyphs,
   block_comment : [open : Seq(Glyphs), close : Seq(Glyphs), nestable : BOOLEAN],
   char_syntax : {None, "HashBackslash", "Backslash", "BackslashFqn", "Question"},
   hash_paren : {None, "Vector", "HashFn"},
   hash_bracket : {None, "CharSet", "BracketString"}]

Block(open, close, nestable) == [open |-> open, close |-> close, nestable |-> nestable]
NoBlock == Block(<<>>, <<>>, FALSE)
Switch(base, on, off) == [base EXCEPT !.flags = (@ \ off) \union on]
NoRoles == [r \in Roles |-> IF r = "splicing_suffix" THEN "@" ELSE None]

-----------------------------------------------------------------------------
scheme_roles == [NoRoles EXCEPT !["quote"] = "'", !["quasiquote"] = "bt", !["unquote"] = ","]
clojure_roles == [scheme_roles EXCEPT !["unquote"] = "~", !["deref"] = "@", !["meta"] = "^"]

scheme ==
  [flags |-> {"datum_comment", "hash_syntax", "square", "booleans", "piped_symbols",
              "datum_labels"},
   roles |-> scheme_roles, line_comment |-> ";",
   block_comment |-> Block(<<"#", "|">>, <<"|", "#">>, TRUE),
   char_syntax |-> "HashBackslash", hash_paren |-> "Vector", hash_bracket |-> None]

clojure ==
  [scheme EXCEPT
     !.flags = {"comma_is_whitespace", "discard_underscore", "hash_syntax", "square", "curly",
                "set_literal", "regex_literal", "tagged_literals", "hash_apostrophe",
                "reader_conditional"},
     !.roles = clojure_roles, !.block_comment = NoBlock, !.char_syntax = "Backslash",
     !.hash_paren = "HashFn"]

common_lisp ==
  [scheme EXCEPT !.flags = {"hash_syntax", "hash_apostrophe", "feature_conditional", "read_eval",
                            "symbol_escape", "piped_symbols", "datum_labels"}]

emacs_lisp ==
  [scheme EXCEPT !.flags = {"hash_syntax", "square", "hash_apostrophe", "symbol_escape",
                            "datum_labels"},
                 !.block_comment = NoBlock, !.char_syntax = "Question"]

racket == Switch(scheme, {"curly", "hash_apostrophe", "symbol_escape", "lang_line",
                          "shebang_line"}, {})

janet ==
  [Switch(scheme, {"curly", "long_string_backtick"},
          {"datum_comment", "hash_syntax", "booleans", "piped_symbols", "datum_labels"})
   EXCEPT !.line_comment = "#", !.block_comment = NoBlock, !.char_syntax = None,
          !.hash_paren = None,
          !.roles = [scheme_roles EXCEPT !["quasiquote"] = "~", !["unquote"] = ",",
                       !["splice"] = ";", !["mutable"] = "@", !["short_fn"] = "|"]]

hy ==
  [Switch(scheme, {"discard_underscore", "curly", "set_literal", "tagged_literals"},
          {"datum_comment", "booleans", "piped_symbols", "datum_labels"})
   EXCEPT !.block_comment = NoBlock, !.char_syntax = None, !.hash_paren = None,
          !.roles = [scheme_roles EXCEPT !["unquote"] = "~"],
          !.hash_bracket = "BracketString"]

autolisp ==
  [Switch(scheme, {}, {"datum_comment", "hash_syntax", "square", "booleans", "piped_symbols",
                       "datum_labels"})
   EXCEPT !.block_comment = Block(<<";", "|">>, <<"|", ";">>, FALSE), !.char_syntax = None,
          !.hash_paren = None,
          !.roles = [scheme_roles EXCEPT !["quasiquote"] = None, !["unquote"] = None]]

guile == Switch(scheme, {"hash_apostrophe", "hash_curly_symbol"}, {})

phel == [Switch(clojure, {"line_comment_in_atom", "pipe_anon_fn"}, {})
         EXCEPT !.char_syntax = "BackslashFqn"]

edn == [Switch(clojure, {}, {"hash_apostrophe", "reader_conditional", "regex_literal"})
        EXCEPT !.hash_paren = None, !.roles = NoRoles]

fennel ==
  [Switch(scheme, {"curly"}, {"datum_comment", "booleans", "piped_symbols", "datum_labels"})
   EXCEPT !.block_comment = NoBlock, !.char_syntax = None, !.hash_paren = "HashFn"]

lfe == [Switch(scheme, {"regex_literal", "hash_apostrophe"}, {"booleans", "datum_labels"})
        EXCEPT !.block_comment = Block(<<"#", "|">>, <<"|", "#">>, FALSE)]

islisp == Switch(scheme, {"hash_apostrophe"}, {"square", "booleans", "datum_labels"})

scheme_superset == [Switch(scheme, {"regex_slash", "regex_literal", "bytevector_vu8"}, {})
                    EXCEPT !.hash_bracket = "CharSet"]

wat == [scheme EXCEPT !.flags = {"line_comment_double", "cr_newline", "quoted_identifiers"},
                      !.block_comment = Block(<<"(", ";">>, <<";", ")">>, TRUE),
                      !.char_syntax = None, !.hash_paren = None, !.roles = NoRoles]
=============================================================================
