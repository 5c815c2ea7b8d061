------------------------------- MODULE Lexer -------------------------------
(***************************************************************************)
(* The Lexer of lispexp (src/src/lexer.rs, ADR-0015): it cuts a source     *)
(* text into the tokens that tile it, character by character and driven by *)
(* the Options alone.  `mode' is the loop that runs, "next" the head of    *)
(* next_token; `start' is where the token being read begins.               *)
(***************************************************************************)
EXTENDS Options, Integers, FiniteSets

EOF   == "eof"
Radix == {"x", "i"}

CONSTANTS Cases   (* the calls lex(source, options) considered *)

ASSUME LexerAssumption ==
  \A c \in Cases :
    /\ c \in [source : Seq(Glyphs), opts : OptionsType]
    /\ c.opts.block_comment.open # <<>> => c.opts.block_comment.close # <<>>
    /\ ~({"hash_curly_symbol", "set_literal"} \subseteq c.opts.flags)

\* The characters the presets give to what a caller could set to any other.
ASSUME MarkersAssumption ==
  \A c \in Cases :
    /\ c.opts.line_comment \in {";", "#"}
    /\ c.opts.line_comment = "#" => "hash_syntax" \notin c.opts.flags
    /\ c.opts.block_comment.open \in {<<>>, <<"#", "|">>, <<"(", ";">>, <<";", "|">>}
    /\ c.opts.roles["splicing_suffix"] \notin {"(", ")", "[", "]", "{", "}"}

VARIABLES
  source,   (* Lexer::src; never changes                                   *)
  opts,     (* Lexer::opts; never changes                                  *)
  pos,      (* Lexer::pos, one-based                                       *)
  start,    (* where the token being read begins                           *)
  mode,     (* the loop that runs                                          *)
  kind,     (* the kind of the token being read, should it be completed    *)
  n,        (* the loop's counter: nesting depth, backticks, length of the *)
            (* bracket string's delimiter                                  *)
  tokens    (* the tokens produced: kind, first and last character         *)

input == <<source, opts>>
vars == <<source, opts, pos, start, mode, kind, n, tokens>>

On(flag) == flag \in opts.flags
role(r) == opts.roles[r]

-----------------------------------------------------------------------------
(* Looking at the source.                                                  *)

at(i) == IF i \in 1..Len(source) THEN source[i] ELSE EOF
peek == at(pos)
rest_starts_with(word) == \A k \in 1..Len(word) : at(pos + k - 1) = word[k]

PastUnchecked(i) == i   \* faulty: runs past the end after a last backslash
Past(i) == IF i > Len(source) THEN Len(source) + 1 ELSE i   \* bump stops at the end

Blanks == {"space", "newline", "cr"}
is_whitespace(c) == c \in Blanks \/ (c = "," /\ On("comma_is_whitespace"))
is_line_break(c) == c = "newline" \/ (c = "cr" /\ On("cr_newline"))
at_line_start == pos = 1 \/ is_line_break(at(pos - 1))

Opening == {"("} \union (IF On("square") THEN {"["} ELSE {})
                 \union (IF On("curly") THEN {"{"} ELSE {})
Closing == {")"} \union (IF On("square") THEN {"]"} ELSE {})
                 \union (IF On("curly") THEN {"}"} ELSE {})

is_terminatorNoClose(c) ==   \* faulty: a close does not end a symbol
  \/ is_whitespace(c) \/ c = "dq" \/ c \in Opening
  \/ c = opts.line_comment /\ ~On("line_comment_in_atom")

is_terminator(c) ==
  \/ is_whitespace(c) \/ c = "dq" \/ c \in Opening \union Closing
  \/ c = opts.line_comment /\ ~On("line_comment_in_atom")

InAtom(c) == c # EOF /\ ~is_terminator(c)

Least(S) == CHOOSE i \in S : \A j \in S : i <= j

\* How many backticks stand here.
Backticks == Least({k \in 0..Len(source) : at(pos + k) # "bt"})

\* Phel: what follows the `\' is no whitespace, and the character or character
\* name it begins with is not continued.
IdentCont == Alnum \union {"_", "-", "esc"}
backslash_opens_char ==
  at(pos + 1) # EOF /\ at(pos + 1) \notin Blanks /\ at(pos + 2) \notin IdentCont

boolean_endsAnywhere(i) == TRUE   \* faulty: `#thing' begins with a boolean
\* A boolean is one only if the character after it ends a symbol.
boolean_ends(i) == at(i) = EOF \/ is_terminator(at(i))

\* The lengths of a POSIX class `[:name:]' or `[:^name:]' that begins here (the
\* bound of 11 letters is out of reach of the instances).
posix_class_len ==
  {l \in 5..Len(source) :
     LET from == IF at(pos + 2) = "^" THEN pos + 3 ELSE pos + 2 IN
     /\ rest_starts_with(<<"[", ":">>)
     /\ pos + l - 3 >= from /\ \A i \in from..pos + l - 3 : at(i) \in Letters
     /\ at(pos + l - 2) = ":" /\ at(pos + l - 1) = "]"}

\* The open parentheses that begin a line after the quote at `start', where an
\* unterminated string may be cut.
LineStartParens(from) ==
  {i \in from..Len(source) :
     /\ at(i) = "("
     /\ \E b \in from..i - 1 :
          is_line_break(at(b)) /\ \A k \in b + 1..i - 1 : at(k) \in Blanks}
content_start == IF kind = "Atom" THEN start + 2 ELSE start + 1

-----------------------------------------------------------------------------
(* What a token begins with: the branches of next_token and lex_hash, in   *)
(* the order in which they are tried.  A row consumes `take' characters    *)
(* and completes the token, or enters a loop for the rest of it.           *)

Enter(when, take, loop, k) == [when |-> when, take |-> take, mode |-> loop, kind |-> k]
Emit(when, take, k) == Enter(when, take, "next", k)
First(rows) == rows[Least({i \in DOMAIN rows : rows[i].when})]

leads == <<
  Enter(is_whitespace(peek), 0, "space", "Whitespace"),
  Enter(opts.block_comment.open # <<>> /\ rest_starts_with(opts.block_comment.open),
        Len(opts.block_comment.open), "block", "BlockComment"),
  Enter(peek = opts.line_comment /\ (On("line_comment_double") => at(pos + 1) = opts.line_comment),
        0, "line", "LineComment"),
  Enter(peek = "bt" /\ On("long_string_backtick"), Backticks, "backticks", "Str"),
  Emit(peek \in Opening, 1, "Open"),
  Emit(peek \in Closing, 1, "Close"),
  Enter(peek = "dq", 1, "quoted", "Str"),
  Enter(peek = "|" /\ On("piped_symbols"), 1, "until", "Atom"),
  Emit(On("pipe_anon_fn") /\ rest_starts_with(<<"|", "(">>), 1, "Prefix"),
  Enter(peek = "#" /\ On("hash_syntax"), 0, "hash", "Atom"),
  Enter(On("quoted_identifiers") /\ rest_starts_with(<<"$", "dq">>), 2, "quoted", "Atom"),
  Enter(peek = "esc" /\ opts.char_syntax = "Backslash", 1, "char", "Char"),
  Enter(peek = "esc" /\ opts.char_syntax = "BackslashFqn" /\ backslash_opens_char,
        1, "char", "Char"),
  Enter(peek = "?" /\ opts.char_syntax = "Question", 1, "question", "Char"),
  Emit(peek \in {role("quote"), role("quasiquote")}, 1, "Prefix"),
  Emit(peek = role("unquote"), IF at(pos + 1) = role("splicing_suffix") THEN 2 ELSE 1, "Prefix"),
  Emit(peek \in {role(r) : r \in {"deref", "meta", "splice", "mutable", "short_fn"}}, 1, "Prefix"),
  Enter(TRUE, IF On("symbol_escape") /\ peek = "esc" THEN 2 ELSE 1, "atom", "Atom") >>

\* The characters that make a prefix of the `#' before them.
hash_prefixes == {<<";", "datum_comment">>, <<"_", "discard_underscore">>,
                  <<"'", "hash_apostrophe">>, <<".", "read_eval">>,
                  <<"+", "feature_conditional">>, <<"-", "feature_conditional">>}

\* The `#' is the current character; c is the next one.
hash_leads ==
  LET c == at(pos + 1) IN <<
  Enter(at_line_start /\ On("lang_line") /\ c = "lang", 0, "line", "LangLine"),
  Enter(at_line_start /\ On("shebang_line") /\ c = "!", 0, "line", "LineComment"),
  Emit(\E p \in hash_prefixes : c = p[1] /\ On(p[2]), 2, "Prefix"),
  Emit(c = "^" /\ role("meta") # None, 2, "Prefix"),
  Emit(c = "?" /\ On("reader_conditional"), IF at(pos + 2) = "@" THEN 3 ELSE 2, "Prefix"),
  Enter(c = "dq" /\ On("regex_literal"), 2, "until", "Str"),
  Enter(c = "{" /\ On("hash_curly_symbol"), 2, "curly", "Atom"),
  Emit(c = "{" /\ On("set_literal"), 2, "Open"),
  Enter(c = "[" /\ opts.hash_bracket = "CharSet", 2, "charset", "Str"),
  Enter(c = "[" /\ opts.hash_bracket = "BracketString", 2, "delim", "Str"),
  Enter(c = "/" /\ On("regex_slash"), 2, "until", "Str"),
  Emit(On("bytevector_vu8") /\ rest_starts_with(<<"#", "vu8", "(">>), 3, "HashOpen"),
  Emit(c \in Opening \ {"("}, 2, "HashOpen"),
  Emit(c = "(" /\ opts.hash_paren = "Vector", 2, "HashOpen"),
  Emit(c = "(" /\ opts.hash_paren = "HashFn", 1, "Prefix"),
  Enter(c = "(" /\ opts.hash_paren = None, 1, "plain", "Atom"),
  Enter(c = "esc" /\ opts.char_syntax = "HashBackslash", 2, "char", "Char"),
  Emit(opts.hash_paren = "Vector" /\ rest_starts_with(<<"#", "u8", "(">>), 3, "HashOpen"),
  Emit(c \in {"t", "f"} /\ On("booleans") /\ boolean_ends(pos + 2), 2, "Bool"),
  Enter(c \in Radix /\ ~On("tagged_literals"), 1, "plain", "Atom"),
  Enter(c = "0" /\ ~On("tagged_literals") /\ On("datum_labels"), 1, "digits", "Label"),
  Enter(c = "#" /\ On("tagged_literals"), 2, "plain", "Atom"),
  Enter(c # EOF /\ On("tagged_literals"), 1, "tag", "HashTag"),
  Enter(TRUE, 1, "tag", "Atom") >>

-----------------------------------------------------------------------------
(* Steps.                                                                  *)

\* k more characters are consumed and the loop goes on.
bump(k) == pos' = Past(pos + k) /\ UNCHANGED <<input, start, mode, kind, n, tokens>>

\* The token is completed; next is the first character after it.
complete(k, next) ==
  /\ tokens' = Append(tokens, [kind |-> k, first |-> start, last |-> next - 1])
  /\ pos' = next /\ start' = next /\ mode' = "next" /\ n' = 0
  /\ UNCHANGED <<input, kind>>
token(taken) == complete(kind, Past(pos + taken))
Unterminated == complete("Unterminated", pos)

Begin(l) ==
  IF l.mode = "next" THEN complete(l.kind, Past(pos + l.take))
  ELSE /\ pos' = Past(pos + l.take) /\ mode' = l.mode /\ kind' = l.kind
       /\ n' = CASE l.mode = "block" -> 1 [] l.mode = "backticks" -> l.take [] OTHER -> 0
       /\ UNCHANGED <<input, start, tokens>>

NextToken == mode = "next" /\ peek # EOF /\ \E l \in {First(leads)} : Begin(l)
LexHash   == mode = "hash" /\ \E l \in {First(hash_leads)} : Begin(l)

WhitespaceRun == mode = "space" /\ IF is_whitespace(peek) THEN bump(1) ELSE token(0)

ConsumeLineRest ==
  /\ mode = "line"
  /\ IF peek # EOF /\ ~is_line_break(peek) THEN bump(1) ELSE token(0)

Deepen ==
  /\ mode = "block" /\ peek # EOF
  /\ opts.block_comment.nestable /\ rest_starts_with(opts.block_comment.open)
  /\ pos' = pos + Len(opts.block_comment.open) /\ n' = n + 1
  /\ UNCHANGED <<input, start, mode, kind, tokens>>

InBlockCommentFirst ==   \* faulty: the first close ends a nested comment
  /\ mode = "block" /\ ~(opts.block_comment.nestable /\ rest_starts_with(opts.block_comment.open))
  /\ LET close == opts.block_comment.close IN
     CASE peek = EOF -> Unterminated
       [] rest_starts_with(close) -> token(Len(close))
       [] OTHER -> bump(1)

InBlockComment ==
  /\ mode = "block" /\ ~(opts.block_comment.nestable /\ rest_starts_with(opts.block_comment.open))
  /\ LET close == opts.block_comment.close IN
     CASE peek = EOF -> Unterminated
       [] rest_starts_with(close) /\ n = 1 -> token(Len(close))
       [] rest_starts_with(close) /\ n > 1 ->
            /\ pos' = pos + Len(close) /\ n' = n - 1
            /\ UNCHANGED <<input, start, mode, kind, tokens>>
       [] OTHER -> bump(1)

LexAtom ==
  /\ mode = "atom"
  /\ CASE peek = "esc" /\ On("symbol_escape") -> bump(2)
       [] InAtom(peek) /\ ~(peek = "esc" /\ On("symbol_escape")) -> bump(1)
       [] OTHER -> token(0)

\* consume_atom_body; a tag is one token with the open delimiter after it.
ConsumeAtomBody ==
  /\ mode \in {"plain", "tag"}
  /\ CASE InAtom(peek) -> bump(1)
       [] mode = "tag" /\ peek \in Opening -> complete("HashOpen", pos + 1)
       [] OTHER -> token(0)

\* consume_until_unescaped, and what its callers do when it is through.
close_quote == CASE mode = "quoted" -> "dq"
                 [] mode = "until" /\ at(start) = "|" -> "|"
                 [] OTHER -> at(start + 1)

UntilUnescapedSingle ==   \* faulty: the character after a `\' is looked at
  /\ mode \in {"quoted", "until"} /\ peek \notin {close_quote, EOF}
  /\ bump(1)

UntilUnescaped ==
  /\ mode \in {"quoted", "until"} /\ peek \notin {close_quote, EOF}
  /\ bump(IF peek = "esc" THEN 2 ELSE 1)

Unescaped ==
  /\ mode \in {"quoted", "until"} /\ peek = close_quote
  /\ token(IF peek = "/" /\ at(pos + 1) = "i" THEN 2 ELSE 1)

NeverClosed == mode = "until" /\ peek = EOF /\ Unterminated

FinishQuotedAtLast ==   \* faulty: resumes at the last such line
  /\ mode = "quoted" /\ peek = EOF
  /\ LET cuts == LineStartParens(content_start) IN
     IF cuts = {} THEN Unterminated
     ELSE complete("Unterminated", CHOOSE i \in cuts : \A j \in cuts : j <= i)

FinishQuotedFromSource ==   \* faulty: takes the cut for an offset of the source
  /\ mode = "quoted" /\ peek = EOF
  /\ LET cuts == LineStartParens(content_start) IN
     IF cuts = {} THEN Unterminated
     ELSE complete("Unterminated", Least(cuts) - content_start + 1)

\* finish_quoted at the end of the source: back to the first line that starts
\* with an open parenthesis, if there is one.
FinishQuoted ==
  /\ mode = "quoted" /\ peek = EOF
  /\ LET cuts == LineStartParens(content_start) IN
     IF cuts = {} THEN Unterminated ELSE complete("Unterminated", Least(cuts))

BacktickString ==
  /\ mode = "backticks"
  /\ CASE peek = EOF -> Unterminated
       [] peek = "bt" /\ Backticks >= n -> token(Backticks)
       [] peek = "bt" /\ Backticks < n -> bump(Backticks)
       [] OTHER -> bump(1)

BracketDelim ==
  /\ mode = "delim"
  /\ CASE peek = EOF -> Unterminated
       [] peek = "[" -> /\ n' = pos - (start + 2) /\ mode' = "bracket" /\ pos' = pos + 1
                        /\ UNCHANGED <<input, start, kind, tokens>>
       [] OTHER -> bump(1)

closer == <<"]">> \o SubSeq(source, start + 2, start + 1 + n) \o <<"]">>
BracketString ==
  /\ mode = "bracket"
  /\ CASE peek = EOF -> Unterminated
       [] rest_starts_with(closer) -> token(n + 2)
       [] OTHER -> bump(1)

CharSetStuck ==   \* faulty: waits for the `[' of something like a class to pass
  /\ mode = "charset"
  /\ CASE peek = EOF -> Unterminated
       [] peek = "]" -> token(1)
       [] peek = "esc" -> bump(2)
       [] peek = "[" -> bump(IF posix_class_len = {} THEN 0 ELSE Least(posix_class_len))
       [] OTHER -> bump(1)

CharSet ==
  /\ mode = "charset"
  /\ CASE peek = EOF -> Unterminated
       [] peek = "]" -> token(1)
       [] peek = "esc" -> bump(2)
       [] peek = "[" -> bump(IF posix_class_len = {} THEN 1 ELSE Least(posix_class_len))
       [] OTHER -> bump(1)

HashCurlySymbol ==
  /\ mode = "curly"
  /\ CASE peek = EOF -> Unterminated
       [] rest_starts_with(<<"}", "#">>) -> token(2)
       [] OTHER -> bump(1)

\* The character after the backslash; a letter may be the first of a name.
LexChar ==
  /\ mode = "char"
  /\ IF peek \in Letters
     THEN pos' = pos + 1 /\ mode' = "alnum" /\ UNCHANGED <<input, start, kind, n, tokens>>
     ELSE token(1)

Name == mode = "alnum" /\ IF peek \in Alnum THEN bump(1) ELSE token(0)

\* A modifier escape, or the final character after the modifiers.
QuestionChar ==
  /\ mode = "question"
  /\ CASE rest_starts_with(<<"esc", "C", "-">>) -> bump(3)
       [] rest_starts_with(<<"esc", "^">>) -> token(3)
       [] peek = "esc" /\ at(pos + 1) \in Alnum /\ ~rest_starts_with(<<"esc", "C", "-">>) ->
            pos' = pos + 2 /\ mode' = "alnum" /\ UNCHANGED <<input, start, kind, n, tokens>>
       [] peek = "esc" /\ at(pos + 1) \notin Alnum \union {"^"} -> token(2)
       [] OTHER -> token(1)

LexLabel ==
  /\ mode = "digits"
  /\ CASE peek = "0" -> bump(1)
       [] peek = "=" -> token(1)
       [] peek = "#" -> complete("LabelRef", pos + 1)
       [] OTHER -> mode' = "tag" /\ kind' = "Atom" /\ UNCHANGED <<input, pos, start, n, tokens>>

-----------------------------------------------------------------------------
Init ==
  /\ \E c \in Cases : source = c.source /\ opts = c.opts
  /\ pos = 1 /\ start = 1 /\ mode = "next" /\ kind = "Atom" /\ n = 0 /\ tokens = <<>>

Next ==
  \/ NextToken \/ LexHash \/ WhitespaceRun \/ ConsumeLineRest \/ Deepen \/ InBlockComment
  \/ LexAtom \/ ConsumeAtomBody \/ UntilUnescaped \/ Unescaped \/ NeverClosed \/ FinishQuoted
  \/ BacktickString \/ BracketDelim \/ BracketString \/ CharSet \/ HashCurlySymbol
  \/ LexChar \/ Name \/ QuestionChar \/ LexLabel

Spec == Init /\ [][Next]_vars

\* The iterator is drained: next_token runs until it returns None.
FairSpec == Spec /\ WF_vars(Next)
=============================================================================
