-------------------------- MODULE LexerProperties --------------------------
(***************************************************************************)
(* What the tokens of module Lexer guarantee, stated over the source with  *)
(* no loop of the lexer in it.                                             *)
(***************************************************************************)
EXTENDS Lexer

TokenKinds == {"Whitespace", "LineComment", "BlockComment", "LangLine", "Open", "Close", "HashOpen",
               "HashTag", "Prefix", "Str", "Char", "Bool", "Atom", "Label", "LabelRef",
               "Unterminated"}
Modes == {"next", "hash", "space", "line", "block", "backticks", "delim", "bracket", "charset",
          "quoted", "until", "curly", "char", "alnum", "question", "atom", "plain", "tag", "digits"}

TypeOK ==
  /\ [source |-> source, opts |-> opts] \in Cases
  /\ pos \in 1..Len(source) + 1 /\ start \in 1..pos /\ n \in 0..Len(source)
  /\ mode \in Modes /\ kind \in TokenKinds
  /\ \A k \in DOMAIN tokens :
       tokens[k].kind \in TokenKinds /\ {tokens[k].first, tokens[k].last} \subseteq 1..Len(source)

AtEnd == mode = "next" /\ peek = EOF
Of(kinds) == {k \in DOMAIN tokens : tokens[k].kind \in kinds}
Word(i, word) == \A j \in 1..Len(word) : at(i + j - 1) = word[j]   \* it stands at i

-----------------------------------------------------------------------------
\* The tokens tile the source: each begins where the one before it ends, none
\* is empty (the lexer advances with every call), and a drained lexer has
\* covered every character, backtracking included.
Tiles ==
  /\ \A k \in DOMAIN tokens :
       /\ tokens[k].first = IF k = 1 THEN 1 ELSE tokens[k - 1].last + 1
       /\ tokens[k].first <= tokens[k].last
  /\ AtEnd /\ source # <<>> => tokens # <<>> /\ tokens[Len(tokens)].last = Len(source)

-----------------------------------------------------------------------------
(* Lexemes that end at the first unescaped closing character: strings,     *)
(* regexps, piped symbols, quoted identifiers.                             *)

\* The one that begins at s, if there is one: what closes it, and where its
\* content begins.
Quoted(s) ==
  CASE Word(s, <<"dq">>) -> [close |-> "dq", from |-> s + 1]
    [] Word(s, <<"$", "dq">>) /\ On("quoted_identifiers") -> [close |-> "dq", from |-> s + 2]
    [] Word(s, <<"|">>) /\ On("piped_symbols") -> [close |-> "|", from |-> s + 1]
    [] Word(s, <<"#", "dq">>) /\ {"hash_syntax", "regex_literal"} \subseteq opts.flags ->
         [close |-> "dq", from |-> s + 2]
    [] Word(s, <<"#", "/">>) /\ {"hash_syntax", "regex_slash"} \subseteq opts.flags ->
         [close |-> "/", from |-> s + 2]
    [] OTHER -> [close |-> None, from |-> 0]

\* An odd number of backslashes stands before character i of the content.
Escaped(i, from) ==
  Cardinality({j \in from..i - 1 : \A h \in j..i - 1 : source[h] = "esc"}) % 2 = 1

Closers(s, until) ==
  {i \in Quoted(s).from..until : source[i] = Quoted(s).close /\ ~Escaped(i, Quoted(s).from)}

EndsRight(t) ==
  IF t.kind = "Unterminated" THEN Closers(t.first, Len(source)) = {}
  ELSE \E e \in Closers(t.first, t.last) :
         /\ Closers(t.first, t.last) = {e}
         /\ t.last = IF source[e] = "/" /\ at(e + 1) = "i" THEN e + 1 ELSE e

\* A closed lexeme ends at its first unescaped closing character (a regexp one
\* further with its flag), an unterminated one has none before the end of the
\* source.  A backslash may itself be escaped, so it is their parity that counts.
QuotedEndsRight ==
  \A k \in DOMAIN tokens : Quoted(tokens[k].first).close # None => EndsRight(tokens[k])

\* The position is the first on its line that is no blank, and is a `('.
Breaks == {i \in 1..Len(source) : source[i] = "newline" \/ (source[i] = "cr" /\ On("cr_newline"))}
BeginsLine(i) ==
  /\ at(i) = "("
  /\ \E b \in Breaks : b < i /\ \A j \in b + 1..i - 1 : source[j] \in Blanks

GivesBack(s) == Quoted(s).close = "dq" /\ at(s) # "#"
BeginsComment(s) == opts.block_comment.open # <<>> /\ Word(s, opts.block_comment.open)

CutRight(t) ==
  LET from == Quoted(t.first).from IN
  /\ t.last < Len(source) => GivesBack(t.first) /\ BeginsLine(t.last + 1)
  /\ GivesBack(t.first) => \A i \in from + 1..t.last :
       ~(BeginsLine(i) /\ \E b \in Breaks : from <= b /\ b < i)

\* An unterminated lexeme runs to the end of the source; only a string or quoted
\* identifier gives text back, and then at the first line that begins with `(',
\* so that the reader resumes with a list (in WAT possibly a block comment) and
\* the lexeme swallows no such line.
ResumesAtLineStart ==
  \A k \in Of({"Unterminated"}) :
    /\ CutRight(tokens[k])
    /\ tokens[k].last < Len(source) /\ k < Len(tokens) =>
         tokens[k + 1].kind = "Open" \/ BeginsComment(tokens[k + 1].first)

-----------------------------------------------------------------------------
(* Nesting as a grammar.                                                   *)

Opens(i)  == opts.block_comment.nestable /\ Word(i, opts.block_comment.open)
Closes(i) == ~Opens(i) /\ Word(i, opts.block_comment.close)

\* Behind the closes that stand at the positions S.
Behind(S) == {i + Len(opts.block_comment.close) : i \in {j \in S : Closes(j)}}

\* Up to where the text from i on may be made of comments and of characters at
\* which no marker stands.
Bodies[i \in 1..Len(source) + 1] ==
  {i} \union
    (IF Opens(i) THEN UNION {Bodies[e] : e \in Behind(Bodies[i + Len(opts.block_comment.open)])}
     ELSE IF Closes(i) \/ i > Len(source) THEN {}
     ELSE Bodies[i + 1])

\* What follows a comment that begins at s, if it is closed.
EndsOfComment(s) == Behind(Bodies[s + Len(opts.block_comment.open)])

\* A block comment is one well-nested comment of its dialect (nested only where
\* the dialect nests them), and one that is reported unterminated is not closed
\* anywhere in the source.
BlockCommentsNest ==
  \A k \in Of({"BlockComment", "Unterminated"}) :
    BeginsComment(tokens[k].first) =>
      EndsOfComment(tokens[k].first) =
        IF tokens[k].kind = "Unterminated" THEN {} ELSE {tokens[k].last + 1}

-----------------------------------------------------------------------------
\* A lexeme whose text is taken verbatim, or the character of a literal.
HashCurly(s) == Word(s, <<"#", "{">>) /\ {"hash_syntax", "hash_curly_symbol"} \subseteq opts.flags
Verbatim(t) ==
  \/ t.kind \in {"Str", "LineComment", "BlockComment", "LangLine", "Char", "Unterminated"}
  \/ Quoted(t.first).close # None
  \/ HashCurly(t.first)

Delimiters == Opening \union Closing
Shows(t) ==
  \A i \in t.first..t.last : source[i] \in Delimiters =>
    \/ t.kind \in {"Open", "Close", "HashOpen"} /\ i = t.last
    \/ t.kind = "Atom" /\ On("symbol_escape") /\ Escaped(i, t.first)

\* Every delimiter of the dialect that is no text of a lexeme is a token of its
\* own or the end of a `#(' or `#tag(', so that the reader sees every list open
\* and close.
DelimitersSeen == \A k \in DOMAIN tokens : ~Verbatim(tokens[k]) => Shows(tokens[k])

\* A name is read whole: what follows an atom, a boolean or a tag ends a symbol,
\* so that `#thing' is not read as `#t' and a symbol.
EndsName(t) == t.last = Len(source) \/ ~InAtom(source[t.last + 1])
NamesAreWhole ==
  \A k \in Of({"Atom", "Bool", "HashTag"}) : ~Verbatim(tokens[k]) => EndsName(tokens[k])

\* The lexer reaches the end of every source: no loop waits at a character.
Ends == <>AtEnd
=============================================================================
