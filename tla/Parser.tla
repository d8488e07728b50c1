------------------------------- MODULE Parser -------------------------------
(***************************************************************************)
(* The inline command parser (src/parser/parser.cpp).                      *)
(*                                                                         *)
(* A text is a sequence of symbols.  A symbol is a character the code      *)
(* tells apart ("CR", "LF", "SP" and "TAB" for white space, "DQ" and "SQ"  *)
(* for the quotes, "BS" for the backslash), a letter, a digit, or a fixed  *)
(* word that the code only ever compares as a whole ("OK", "(nil)").       *)
(***************************************************************************)
EXTENDS Lists

CR == "CR"
LF == "LF"
SP == "SP"
TAB == "TAB"
DQ == "DQ"
SQ == "SQ"
BS == "BS"

CONSTANT Alphabet       \* the symbols of a text

\* The ones that the code names.
ASSUME AlphabetAssumption ==
    /\ {CR, LF, SP, TAB, DQ, SQ, BS, "n", "t", "A", "B"} \subseteq Alphabet
    /\ {"0", "1", "2", "3", "4", "5", "6", "7", "8", "9"} \subseteq Alphabet
    /\ {"*", "$", "+", "-", ":", ")"} \subseteq Alphabet
    /\ {"OK", "PONG", "QUEUED", "QUIT", "ERR", "WRONGTYPE", "NOAUTH"} \subseteq Alphabet
    /\ {"(nil)", "(integer)", "(error)", "(empty list)", "(empty array)"} \subseteq Alphabet
    /\ {"subscribe", "unsubscribe", "message"} \subseteq Alphabet

\* The white space of std::isspace, of the symbols used here.
IsSpace(ch) == ch \in {CR, LF, SP, TAB}

NotSpace(ch) == ~IsSpace(ch)

\* What is left of text from its position i on.
From(text, i) == SubSeq(text, i, Len(text))

\* text without its leading white space.
SkipSpace(text) ==
    LET i == SelectInSeq(text, NotSpace) IN IF i = 0 THEN <<>> ELSE From(text, i)

\* What the escape sequence BS ch stands for inside double quotes.
Escape(ch) ==
    CASE ch \in {DQ, BS} -> <<ch>>
      [] ch = "n" -> <<LF>>
      [] ch = "t" -> <<TAB>>
      [] OTHER -> <<BS, ch>>

\* The scan of a double-quoted token: what it holds so far, what is left of
\* the text, and whether its closing quote has been seen.
Scan(token, rest, closed) == [token |-> token, rest |-> rest, closed |-> closed]

\* One round of it.
QuotedSymbol(s) ==
    IF s.closed \/ s.rest = <<>> THEN s
    ELSE IF Head(s.rest) = DQ THEN Scan(s.token, Tail(s.rest), TRUE)
    ELSE IF Head(s.rest) = BS /\ Len(s.rest) > 1
    THEN Scan(s.token \o Escape(s.rest[2]), From(s.rest, 3), FALSE)
    ELSE Scan(Append(s.token, Head(s.rest)), Tail(s.rest), FALSE)

\* The token that starts after an opening double quote, and what follows its
\* closing quote.  A quote that is never closed ends with the text.
DoubleQuoted(text) ==
    LET after[k \in 0 .. Len(text)] ==
            IF k = 0 THEN Scan(<<>>, text, FALSE) ELSE QuotedSymbol(after[k - 1])
    IN  after[Len(text)]

\* The token before the first symbol of stops, and what follows it, the
\* first skip symbols of that left out.
UpTo(text, stops, skip) ==
    LET Stop(ch) == ch \in stops
        i == SelectInSeq(text, Stop)
    IN  IF i = 0 THEN [token |-> text, rest |-> <<>>]
        ELSE [token |-> SubSeq(text, 1, i - 1), rest |-> From(text, i + skip)]

SingleQuoted(text) == UpTo(text, {SQ}, 1)

Unquoted(text) == UpTo(text, {CR, LF, SP, TAB}, 0)

\* The tokens so far, and what is left of the input.
Tokens(tokens, rest) == [tokens |-> tokens, rest |-> rest]

\* One round of tokenize: the next token of s.rest joins s.tokens.
NextToken(s) ==
    LET text == SkipSpace(s.rest)
        next == CASE Head(text) = DQ -> DoubleQuoted(Tail(text))
                  [] Head(text) = SQ -> SingleQuoted(Tail(text))
                  [] OTHER -> Unquoted(text)
    IN  IF text = <<>> THEN s ELSE Tokens(Append(s.tokens, next.token), next.rest)

\* Every token takes a symbol at least.
tokenize(input) ==
    LET after[k \in 0 .. Len(input)] ==
            IF k = 0 THEN Tokens(<<>>, input) ELSE NextToken(after[k - 1])
    IN  after[Len(input)].tokens

\* std::toupper, of the letters used here.
ToUpper(ch) == CASE ch = "a" -> "A" [] ch = "b" -> "B" [] OTHER -> ch

Upper(text) == [i \in 1 .. Len(text) |-> ToUpper(text[i])]

\* The command made of a non-empty sequence of words.
CommandOf(words) == [name |-> Upper(Head(words)), args |-> Tail(words)]

\* Parser::parse: the command of a line, or failure when it holds no token.
parse(input) ==
    LET tokens == tokenize(input)
    IN  IF tokens = <<>> THEN [ok |-> FALSE]
        ELSE [ok |-> TRUE, command |-> CommandOf(tokens)]

=============================================================================
