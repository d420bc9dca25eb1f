------------------------------- MODULE Input -------------------------------
(***************************************************************************)
(* How src/src/lib/input.c derives numbers from the bytes of the input.    *)
(* Words of WordBits bits stand for the 64-bit integers that are read, and *)
(* a double has MantissaBits of precision instead of 53.  A double is      *)
(* counted in units of 1 / One.                                            *)
(***************************************************************************)
EXTENDS Integers

CONSTANTS WordBits, MantissaBits

ASSUME BitsAssumption ==
  WordBits \in Nat /\ MantissaBits \in 1..(WordBits - 1)

Words == 0..2^WordBits - 1

\* The distance between the numbers that the mantissa can hold, around a number
\* of a word times a word.
Spacing(n) ==
  LET Fits == {k \in 0..(2 * WordBits + 1) : n < 2^(MantissaBits + k)}
  IN 2^(CHOOSE k \in Fits : \A other \in Fits : k <= other)

\* Conversion and arithmetic round to the nearest number that the mantissa can
\* hold, and between two of them to the even one.
ToDouble(n) ==
  LET unit == Spacing(n)
      below == n \div unit
      twice == 2 * (n % unit)
  IN unit * (IF twice > unit \/ (twice = unit /\ below % 2 = 1) THEN below + 1 ELSE below)

\* (double)UINT64_MAX, which rounds to 2^64.
One == ToDouble(2^WordBits - 1)

\* input_derive_double: word / (double)UINT64_MAX.
DeriveDouble(word) == ToDouble(word)

\* input_derive_range: end + 1 wraps as an unsigned long does, the product and
\* the sum are doubles, and the result loses its fraction.  (A result that an
\* unsigned long cannot hold is undefined in C.)
DeriveRange(word, begin, end) ==
  LET product == ToDouble(DeriveDouble(word) * ToDouble((end + 1) % 2^WordBits))
      sum == ToDouble(product + One * ToDouble(begin))
  IN sum \div One
=============================================================================
