------------------------------ MODULE Scanner ------------------------------
(***************************************************************************)
(* Lexer::read_token on the characters of one source                       *)
(* (src/src/frontends/common/lexer.cpp), one character at a time, and what *)
(* parse_value reads in the numbers among its tokens (basic_parse.cpp).    *)
(* A character is a string of length one; "\n" is the end of a line, "?"   *)
(* stands for every character outside of 1 .. '~', which reads as -1.      *)
(***************************************************************************)
EXTENDS Integers, Sequences, SequencesExt, FiniteSets

CONSTANTS
    Texts,          \* the contents a source may have
    keywords,       \* Lexer::keywords, as sequences of characters
    Letters,        \* the letters that are not hexadecimal digits
    HexLetters,
    Digits,
    MaxBuilder      \* bounds the endless string of an unclosed quote

VARIABLES
    text,           \* history: the whole source
    rest,           \* what is left of it
    line, col,      \* Source's
    mode,           \* the loop of read_token that is active, or "start"
    builder,
    start,          \* where the current token began: [line, col]
    tokens,         \* the tokens made
    phase           \* "scanning", "done" or "error"

vars == <<text, rest, line, col, mode, builder, start, tokens, phase>>

Foreign    == "?"
HexDigits  == Digits \cup HexLetters
Alpha      == Letters \cup HexLetters
WordStart  == Alpha \cup {"_", "$"}
Operators  == {"+", "-", "|", "*", "/", "&", "<", ">", "="}
Spaces     == {" ", "\t"}
Punctuation == {":", ";", ",", ".", "{", "}", "(", ")", "[", "]"}

EOF == "eof"

Signs      == {"_", "$", "\n", "\"", "'", "\\", "!", Foreign} \cup Operators \cup Spaces \cup Punctuation
Characters == Signs \cup Alpha \cup Digits

\* A character is of one kind, as <cctype> has it; a keyword is a name; an
\* endless string is longer than the source.
ASSUME CharactersAssumption ==
    /\ Alpha \cap Digits = {}
    /\ (Signs \cup {EOF}) \cap (Alpha \cup Digits) = {}
    /\ "0" \in Digits /\ "x" \in Letters \ HexLetters

ASSUME KeywordsAssumption ==
    \A w \in keywords : w \in Seq(WordStart \cup Digits) /\ w # << >> /\ w[1] \in WordStart

ASSUME TextsAssumption ==
    /\ MaxBuilder \in Nat
    /\ \A t \in Texts : t \in Seq(Characters) /\ Len(t) <= MaxBuilder

\* (char) -1, which stands for whatever could not be read.
Unread == "0xff"

Init ==
    /\ text \in Texts
    /\ rest = text
    /\ line = 1 /\ col = 0
    /\ mode = "start"
    /\ builder = << >>
    /\ start = [line |-> 1, col |-> 0]
    /\ tokens = << >>
    /\ phase = "scanning"

-----------------------------------------------------------------------------
(* Source.                                                                 *)

\* The k-th character ahead.
peek(k) == IF k <= Len(rest) THEN rest[k] ELSE EOF

\* getchar of the next k characters, none of them behind an end of line. What
\* it counts beyond the end of the source, where only a loop that never ends
\* reads, is left out.
getchar(k) ==
    /\ rest' = SubSeq(rest, k + 1, Len(rest))
    /\ LET c == peek(k)
       IN  /\ line' = IF c = "\n" THEN line + 1 ELSE line
           /\ col' = IF c = "\n" THEN 0 ELSE IF c = EOF THEN col ELSE col + k

\* static_cast<char>
char(c) == IF c \in {Foreign, EOF} THEN Unread ELSE c

-----------------------------------------------------------------------------

TokenOf(ty, v, at) == [type |-> ty, value |-> v, line |-> at.line, srow |-> at.col]

Emit(ty, v, at) ==
    /\ tokens' = Append(tokens, TokenOf(ty, v, at))
    /\ mode' = "start"
    /\ builder' = << >>

here == [line |-> line, col |-> col]

\* builder << c; a loop that never ends fills it to its bound.
built_with(c) == IF Len(builder) < MaxBuilder THEN Append(builder, c) ELSE builder

\* The rest of a token is read by a loop of its own.
Enter(m, read) == mode' = m /\ builder' = read /\ UNCHANGED tokens

Throw ==
    /\ phase' = "error"
    /\ UNCHANGED <<text, rest, line, col, mode, builder, tokens>>

Punct(c) ==
    CASE c = ":" -> "Colon" [] c = ";" -> "SemiColon" [] c = "," -> "Comma" [] c = "." -> "Period"
      [] c = "{" -> "CurlyOpen" [] c = "}" -> "CurlyClose" [] c = "(" -> "BracesOpen"
      [] c = ")" -> "BracesClose" [] c = "[" -> "BlockOpen" [] c = "]" -> "BlockClose"

is_comment == peek(1) = "/" /\ peek(2) = "/"

is_hex == peek(1) = "0" /\ peek(2) = "x"

\* The first character decides.
Start ==
    /\ phase = "scanning" /\ mode = "start" /\ rest # << >>
    /\ LET c == peek(1)
       IN  \/ c = "\"" /\ getchar(1) /\ Enter("string", << >>)
           \/ is_comment /\ getchar(2) /\ Enter("comment", <<c>>)
           \/ c = "\n" /\ getchar(1) /\ Emit("Nl", <<c>>, here)
           \/ c \in Spaces /\ getchar(1) /\ Enter("space", <<c>>)
           \/ c \in WordStart /\ getchar(1) /\ Enter("identifier", <<c>>)
           \/ c = "'" /\ getchar(1) /\ Enter("character", <<c>>)
           \/ is_hex /\ getchar(2) /\ Enter("hex", <<"0", "x">>)
           \/ c \in Digits /\ ~ is_hex /\ getchar(1) /\ Enter("decimal", <<c>>)
           \/ c \in Operators /\ ~ is_comment /\ peek(2) = "="
                /\ getchar(2) /\ Emit("Operator", <<c, "=">>, here)
           \/ c \in Operators /\ ~ is_comment /\ peek(2) # "="
                /\ getchar(1) /\ Emit("Operator", <<c>>, here)
           \/ c \in Punctuation /\ getchar(1) /\ Emit(Punct(c), <<c>>, here)
    /\ start' = here
    /\ UNCHANGED <<text, phase>>

Known == {"\"", "\n", "'"} \cup Spaces \cup WordStart \cup Digits \cup Operators \cup Punctuation

Reject ==
    /\ phase = "scanning" /\ mode = "start" /\ rest # << >> /\ peek(1) \notin Known
    /\ start' = here
    /\ Throw

-----------------------------------------------------------------------------
(* The loops that look ahead.                                              *)

LoopModes == {"comment", "space", "identifier", "hex", "decimal"}

\* Mutant of goes_on: a comment does not end with its source.
goes_on_NoEof(m, c) ==
    CASE m = "comment"    -> c # "\n"
      [] m = "space"      -> c \in Spaces
      [] m = "identifier" -> c \in WordStart \cup Digits
      [] m = "hex"        -> c \in HexDigits
      [] m = "decimal"    -> c \in Digits

goes_on(m, c) ==
    CASE m = "comment"    -> c \notin {EOF, "\n"}
      [] m = "space"      -> c \in Spaces
      [] m = "identifier" -> c \in WordStart \cup Digits
      [] m = "hex"        -> c \in HexDigits
      [] m = "decimal"    -> c \in Digits

type_of(m, v) ==
    CASE m = "comment" -> "Comment" [] m = "space" -> "Whitespace"
      [] m = "identifier" -> IF v \in keywords THEN "Keyword" ELSE "Identifier"
      [] m = "hex" -> "Hexadecimal" [] m = "decimal" -> "Decimal"

GoOn ==
    /\ phase = "scanning" /\ mode \in LoopModes
    /\ IF goes_on(mode, peek(1))
       THEN getchar(1) /\ Enter(mode, built_with(char(peek(1))))
       ELSE /\ Emit(type_of(mode, builder), builder, start)
            /\ UNCHANGED <<rest, line, col>>
    /\ UNCHANGED <<text, start, phase>>

-----------------------------------------------------------------------------
(* Literals.                                                               *)

Escapes == {"\"", "\\", "/", "b", "f", "n", "r", "t"}

\* Mutant of unescaped: the character itself.
unescaped_Itself(c) == c

\* What a backslash and a character stand for.
unescaped(c) == IF c \in {"\"", "\\", "/"} THEN c ELSE "\\" \o c

InString == phase = "scanning" /\ mode = "string" /\ UNCHANGED <<text, start>>

StringEnd ==
    /\ InString /\ peek(1) = "\""
    /\ getchar(1)
    /\ Emit("StringLiteral", builder, start)
    /\ UNCHANGED phase

StringCharacter ==
    /\ InString /\ peek(1) \notin {"\"", "\n", "\\", EOF}
    /\ getchar(1)
    /\ Enter("string", built_with(char(peek(1))))
    /\ UNCHANGED phase

StringEscape ==
    /\ InString /\ peek(1) = "\\" /\ peek(2) \in Escapes \cup {"0"}
    /\ getchar(2)
    /\ Enter("string", built_with(unescaped(peek(2))))
    /\ UNCHANGED phase

StringRejected ==
    /\ InString
    /\ peek(1) = "\n" \/ (peek(1) = "\\" /\ peek(2) \notin Escapes \cup {"0"})
    /\ Throw

\* Nothing is left, and that is not what ends the loop.
StringForEver ==
    /\ InString /\ peek(1) = EOF
    /\ builder' = built_with(Unread)
    /\ UNCHANGED <<rest, line, col, mode, tokens, phase>>

\* The characters between the quotes.
literal_width == IF peek(1) = "\\" THEN 2 ELSE 1

\* `'c'` or `'\c'`, whatever c is.
CharacterLiteral ==
    /\ phase = "scanning" /\ mode = "character"
    /\ LET k == literal_width
       IN  IF peek(k + 1) = "'"
           THEN /\ rest' = SubSeq(rest, k + 2, Len(rest))
                /\ line' = IF peek(k) = "\n" THEN line + 1 ELSE line
                /\ col' = IF peek(k) = "\n" THEN 1 ELSE col + k + 1
                /\ Emit("Character_literal",
                        <<"'">> \o [i \in 1 .. k |-> char(peek(i))] \o <<"'">>, start)
                /\ UNCHANGED phase
           ELSE Throw
    /\ UNCHANGED <<text, start>>

-----------------------------------------------------------------------------

\* has_symbol: the source is exhausted between two tokens.
Finish ==
    /\ phase = "scanning" /\ mode = "start" /\ rest = << >>
    /\ phase' = "done"
    /\ UNCHANGED <<text, rest, line, col, mode, builder, start, tokens>>

Next ==
    \/ Start \/ Reject \/ GoOn \/ CharacterLiteral \/ Finish
    \/ StringEnd \/ StringCharacter \/ StringEscape \/ StringRejected \/ StringForEver

Fairness == WF_vars(Next)

Spec == Init /\ [][Next]_vars /\ Fairness

-----------------------------------------------------------------------------
(* What a word is, and what its token's value should be: the language of   *)
(* lexer.hpp:12-20, said of whole words, with no reading or looking ahead. *)
(* Where the scanner departs from that comment the words are those of      *)
(* lexer.cpp: an identifier may have one character and a `$` inside, where *)
(* lexer.hpp:18 has [_A-Za-z$]\w+ ; a character literal holds any          *)
(* character, or a backslash and any other, where lexer.hpp:17 has one of  *)
(* [ -~] only. White space, ends of lines, keywords, punctuation and       *)
(* strings are lexer.cpp's alone.                                          *)

Stored     == (Characters \ {Foreign}) \cup {Unread} \cup {"\\" \o c : c \in Escapes \cup {"0"}}
Names      == {"Decimal", "Hexadecimal", "Character_literal", "Identifier", "Keyword", "Operator",
               "Whitespace", "Comment", "Nl", "StringLiteral"} \cup {Punct(c) : c \in Punctuation}

From(w, S) == \A i \in DOMAIN w : w[i] \in S

\* The i-th character of u follows a backslash that is not itself escaped.
Escaped(u, i) ==
    \E k \in 1 .. i - 1 :
        /\ k % 2 = 1
        /\ \A j \in i - k .. i - 1 : u[j] = "\\"
        /\ i - k > 1 => u[i - k - 1] # "\\"

Backslash(u, i) == u[i] = "\\" /\ ~ Escaped(u, i)

\* What may stand between two quotes.
Inside(u) ==
    \A i \in DOMAIN u :
        IF Escaped(u, i) THEN u[i] \in Escapes \cup {"0"}
        ELSE u[i] \notin {"\"", "\n"} /\ (u[i] = "\\" => i < Len(u))

Quoted(w) ==
    /\ Len(w) >= 2 /\ w[1] = "\"" /\ w[Len(w)] = "\""
    /\ Inside(SubSeq(w, 2, Len(w) - 1))

IsWord(ty, w) ==
    \/ ty = "Decimal" /\ From(w, Digits)
    \/ /\ ty = "Hexadecimal" /\ Len(w) > 2 /\ w[1] = "0" /\ w[2] = "x"
       /\ From(SubSeq(w, 3, Len(w)), HexDigits)
    \/ /\ ty = "Character_literal" /\ Len(w) \in {3, 4} /\ w[1] = "'" /\ w[Len(w)] = "'"
       /\ (w[2] = "\\") <=> (Len(w) = 4)
    \/ ty = "Identifier" /\ w[1] \in WordStart /\ From(w, WordStart \cup Digits) /\ w \notin keywords
    \/ ty = "Keyword" /\ w \in keywords
    \/ ty = "Operator" /\ w[1] \in Operators /\ (Len(w) = 1 \/ (Len(w) = 2 /\ w[2] = "="))
    \/ ty = "Whitespace" /\ From(w, Spaces)
    \/ /\ ty = "Comment" /\ Len(w) > 1 /\ w[1] = "/" /\ w[2] = "/"
       /\ From(w, Characters \ {"\n"})
    \/ ty = "Nl" /\ w = <<"\n">>
    \/ ty = "StringLiteral" /\ Quoted(w)
    \/ Len(w) = 1 /\ w[1] \in Punctuation /\ ty = Punct(w[1])

\* The characters of u that stand for one, and what the i-th of u stands for.
Kept(u)       == {i \in DOMAIN u : ~ Backslash(u, i)}
Meaning(u, i) == IF Escaped(u, i) /\ u[i] \notin {"\"", "\\", "/"} THEN "\\" \o u[i] ELSE char(u[i])

\* v is what u means, character by character.
Reads(v, u) ==
    /\ Len(v) = Cardinality(Kept(u))
    /\ \A i \in Kept(u) : v[Cardinality({j \in Kept(u) : j <= i})] = Meaning(u, i)

\* v is the value of the word w.
Means(ty, w, v) ==
    IF ty = "StringLiteral" THEN Reads(v, SubSeq(w, 2, Len(w) - 1))
    ELSE IF ty = "Comment" THEN v = [i \in 1 .. Len(w) - 1 |-> char(w[i + 1])]
    ELSE v = [i \in 1 .. Len(w) |-> char(w[i])]

-----------------------------------------------------------------------------

\* Where the o-th character of the text ends.
PlaceOf(o) ==
    LET ends == {i \in 1 .. o : text[i] = "\n"}
        last == IF ends = {} THEN 0 ELSE CHOOSE i \in ends : \A j \in ends : j <= i
    IN  [line |-> Cardinality(ends) + 1, col |-> o - last]

OffsetOf(at) == CHOOSE o \in 0 .. Len(text) : PlaceOf(o) = at
Begins(i)    == OffsetOf([line |-> tokens[i].line, col |-> tokens[i].srow])

\* Where the i-th token ends: where the next begins.
Stops(i) ==
    IF i < Len(tokens) THEN Begins(i + 1)
    ELSE IF phase = "done" THEN Len(text) ELSE OffsetOf(start)

Lexeme(i) == SubSeq(text, Begins(i) + 1, Stops(i))

\* `0x` with no digit behind it, which the scanner takes for a number.
BareHex == \E i \in DOMAIN tokens : tokens[i].value = <<"0", "x">> /\ tokens[i].type = "Hexadecimal"

\* Types: what is stored has been read, and the rest is a suffix of the text
\* (lexer.cpp:84-106: no character is stored that getchar did not convert).
TypeOK ==
    /\ IsSuffix(rest, text)
    /\ mode \in LoopModes \cup {"start", "string", "character"}
    /\ From(builder, Stored)
    /\ \A i \in DOMAIN tokens : tokens[i].type \in Names /\ From(tokens[i].value, Stored)
    /\ phase \in {"scanning", "done", "error"}
    /\ [line |-> line, col |-> col] = PlaceOf(Len(text) - Len(rest))

\* At the end: every token is a word with its value, and no longer word begins
\* where it does.
LongestWords ==
    phase # "scanning" /\ ~ BareHex =>
        /\ tokens # << >> => Begins(1) = 0
        /\ \A i \in DOMAIN tokens :
              /\ Begins(i) < Stops(i)
              /\ IsWord(tokens[i].type, Lexeme(i))
              /\ Means(tokens[i].type, Lexeme(i), tokens[i].value)
              /\ \A o \in Stops(i) + 1 .. Len(text), ty \in Names :
                    ~ IsWord(ty, SubSeq(text, Begins(i) + 1, o))

\* Where a source is refused, no word begins.
RefusedRightly ==
    phase = "error" =>
        \A o \in OffsetOf(start) + 1 .. Len(text), ty \in Names :
            ~ IsWord(ty, SubSeq(text, OffsetOf(start) + 1, o))

\* The tokens of a source are the longest words it can be cut into, in their
\* order, with none of its characters left out or read twice; each has the value
\* its word means and says where the word begins (a token's line and column are
\* what every parse error shows). A source is refused only where no word begins
\* (lexer.cpp:140-304). What a word is follows lexer.hpp:12-20, but for character
\* literals and identifiers, which are wider, as lexer.cpp:224-248 has them: so
\* this says nothing of the difference.
ScansLanguage == TypeOK /\ LongestWords /\ RefusedRightly

\* The source ends inside a string.
Unclosed == mode = "string" /\ rest = << >>

\* The scanner comes to the end of every source or refuses it, but for a source
\* that ends inside a string: the loop of lexer.cpp:160 ends at a quote or at a
\* zero, and getchar gives -1 for ever.
Termination == <>(phase # "scanning" \/ Unclosed)

\* Every operator the grammar of README.md:71 and the parser's is_comparator
\* (parse.cpp:376-380) name is one the lexer makes: a source of operands and
\* operators is not refused.
OperatorsScan == phase # "error"

=============================================================================
