----------------------------- MODULE MCScanner -----------------------------
(***************************************************************************)
(* Scanner on every source of up to four characters of an alphabet that    *)
(* has one of each kind, and on longer ones that hold the other symbols,   *)
(* escapes and quotes.                                                     *)
(***************************************************************************)
EXTENDS Scanner

CONSTANT Length

MCLetters    == {"x", "n"}
MCHexLetters == {"b"}
MCDigits     == {"0"}
MCkeywords   == {<<"x", "b">>}

\* One of every kind of character the scanner tells apart.
Alphabet == {"x", "b", "0", "$", "=", "/", "\"", "'", "\\", "\n", " ", "!", Foreign}

Quotes == {"\"", "\\", "n", "b", Foreign}

Symbols ==
    { <<":", ";", ",", ".", "{", "}", "(", ")", "[", "]">>, <<"+", "-", "|", "=">>,
      <<"*", "&", "=", "<", "=", ">", "=">>, <<"_", "0", "\t", " ", "x", "_">>,
      <<"0", "0", "x", "0">>, <<"0", "x", "b", "0", "x">>, <<"'", "\\", "'", "'", "'", "'", "'">>,
      <<"x", "/", "/", "/", "\n", "'", "\n", "'", "b">>, <<"x", "b", "x", " ", "x", "b">> }

MCTexts ==
    UNION {[1 .. n -> Alphabet] : n \in 0 .. Length}
    \cup {<<"\"">> \o q : q \in [1 .. Length -> Quotes]}
    \cup {<<"\"">> \o q \o <<"\"">> : q \in [1 .. Length -> Quotes]}
    \cup Symbols

\* Two operands and a comparison.
Comparisons == {<<"x", c, "=", "b">> : c \in {"=", "<", ">", "!"}}

=============================================================================
