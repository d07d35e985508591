------------------------------- MODULE Tokens -------------------------------
(***************************************************************************)
(* What the lexer hands to a parser (src/src/frontends/common/lexer.hpp):  *)
(* a type and a value.  A number carries what its text says, a string      *)
(* literal its characters.                                                 *)
(***************************************************************************)
EXTENDS Integers, Sequences

Token(ty, v, k, cs) == [type |-> ty, value |-> v, n |-> k, chars |-> cs]

Keyword(v)    == Token("Keyword", v, 0, << >>)
Identifier(v) == Token("Identifier", v, 0, << >>)
Operator(v)   == Token("Operator", v, 0, << >>)
Hexadecimal(k) == Token("Hexadecimal", "", k, << >>)
Decimal(k)    == Token("Decimal", "", k, << >>)
Character(k)  == Token("Character_literal", "", k, << >>)

\* A backslash and a character that nothing stands for, between quotes.
UnknownEscape == Token("Character_literal", "unknown", 0, << >>)

String(v, cs) == Token("StringLiteral", v, 0, cs)

\* The tokens that are the only one of their type, and the ones parsers skip.
Mark(ty) == Token(ty, "", 0, << >>)

BracesOpen  == Mark("BracesOpen")
BracesClose == Mark("BracesClose")
BlockOpen   == Mark("BlockOpen")
BlockClose  == Mark("BlockClose")
CurlyOpen   == Mark("CurlyOpen")
CurlyClose  == Mark("CurlyClose")
Comma       == Mark("Comma")
Period      == Mark("Period")
SemiColon   == Mark("SemiColon")
Colon       == Mark("Colon")
Nl          == Mark("Nl")

skip_list == {"Whitespace", "Nl", "Comment"}

is_next(t, ty, values) == t.type = ty /\ t.value \in values

=============================================================================
