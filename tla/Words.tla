------------------------------- MODULE Words -------------------------------
(***************************************************************************)
(* Machine words: two's complement integers of WordBits bits (32 in the    *)
(* code), and the arithmetic on them.                                      *)
(***************************************************************************)
EXTENDS Integers, Bitwise

CONSTANT WordBits

ASSUME WordAssumption == WordBits \in Nat \ {0}

\* The integer that n becomes in two's complement of b bits.
Signed(n, b) == ((n + 2^(b - 1)) % 2^b) - 2^(b - 1)

Word == -(2^(WordBits - 1)) .. 2^(WordBits - 1) - 1

wrap(n) == Signed(n, WordBits)

\* The bits of a word, as a natural number.
bits(n) == n % 2^WordBits

arith(o, a, b) ==
    CASE o = "+" -> wrap(a + b)
      [] o = "-" -> wrap(a - b)
      [] o = "*" -> wrap(a * b)
      [] o = "&" -> wrap(bits(a) & bits(b))
      [] o = "|" -> wrap(bits(a) | bits(b))

=============================================================================
