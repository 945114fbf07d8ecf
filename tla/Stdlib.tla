------------------------------- MODULE Stdlib -------------------------------
(***************************************************************************)
(* The conversions of src/klib/stdlib.c between numbers and strings, with  *)
(* integers of Nibbles * 4 bits.  A string is the sequence of its          *)
(* characters' distances from '0'; a hexadecimal digit is its value.       *)
(***************************************************************************)
EXTENDS Integers, Sequences, SequencesExt

CONSTANT Nibbles    \* hexadecimal digits of an int, 8

ASSUME StdlibAssumption == Nibbles \in Nat \ {0}

Wide == 16 ^ Nibbles
IntMax == Wide \div 2 - 1
IntMin == -IntMax - 1
Int32 == IntMin .. IntMax
Minus == -3      \* '-' - '0'

\* What an int holds of a result.
Wrap(x) == ((x - IntMin) % Wide) + IntMin

\* C's division rounds towards zero.
Quotient(n, d) == IF n < 0 THEN -((-n) \div d) ELSE n \div d
Remainder(n, d) == n - d * Quotient(n, d)

\* The do loop of itoa: the last digit first, and at least one.
Digits[n \in Int32] ==
  <<Remainder(n, 10)>>
    \o IF Quotient(n, 10) > 0 THEN Digits[Quotient(n, 10)] ELSE <<>>

itoa_unsigned(n) == Reverse(Digits[IF n < 0 THEN Wrap(-n) ELSE n])

itoa(n) ==
  Reverse(Digits[IF n < 0 THEN Wrap(-n) ELSE n]
            \o IF n < 0 THEN <<Minus>> ELSE <<>>)

\* The digits up to the first other character, after an optional sign.
atoi(str) ==
  LET signed == str # <<>> /\ str[1] = Minus
      rest == IF signed THEN Tail(str) ELSE str
      others == {i \in DOMAIN rest : rest[i] \notin 0 .. 9} \cup {Len(rest) + 1}
      number == SubSeq(rest, 1, Min(others) - 1)
      res == FoldLeft(LAMBDA r, d : Wrap(r * 10 + d), 0, number)
  IN  IF signed THEN Wrap(-res) ELSE res

Nibble(n, i) == ((n % Wide) \div 16 ^ (Nibbles - i)) % 16

\* All digits, without the leading zeros but for the last digit.
itoh(n) ==
  LET nonzero == {i \in 1 .. Nibbles : Nibble(n, i) # 0} \cup {Nibbles}
  IN  [i \in 1 .. Nibbles - Min(nonzero) + 1 |-> Nibble(n, Min(nonzero) + i - 1)]

-----------------------------------------------------------------------------
(* Properties *)

\* The positional value of a sequence of digits.
Value(digits, base) == FoldLeft(LAMBDA v, d : v * base + d, 0, digits)

\* What itoa prints is the number, with no leading zero, and atoi reads it
\* back, for every int but the least, whose negation overflows; itoh prints
\* the number's bits, with no leading zero, for every int.
Converts(n) ==
  /\ n # IntMin => LET magnitude == IF n < 0 THEN Tail(itoa(n)) ELSE itoa(n)
                   IN  /\ Value(magnitude, 10) = (IF n < 0 THEN -n ELSE n)
                       /\ magnitude[1] # 0 \/ Len(magnitude) = 1
                       /\ atoi(itoa(n)) = n
  /\ Value(itoh(n), 16) = n % Wide
  /\ itoh(n)[1] # 0 \/ Len(itoh(n)) = 1
=============================================================================
