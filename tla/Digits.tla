-------------------------------- MODULE Digits --------------------------------
(***************************************************************************)
(* Numbers and their digits: bytes in the data section, bits in a key.     *)
(***************************************************************************)
EXTENDS Integers, Sequences

\* Of digits, the most significant first, the number that they make behind first.
Horner(base, first, digits) ==
  LET number[i \in 0..Len(digits)] ==
        IF i = 0 THEN first ELSE base * number[i - 1] + digits[i]
  IN  number[Len(digits)]

Power256(k) == Horner(256, 1, [i \in 1..k |-> 0])
Power2(k) == Horner(2, 1, [i \in 1..k |-> 0])
=============================================================================
