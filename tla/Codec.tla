-------------------------------- MODULE Codec --------------------------------
(***************************************************************************)
(* The bytes that the data section's writer puts down: the header of a     *)
(* type and a size (writeTypeHeader), the bytes of a number, and pointers  *)
(* of four widths (RefMarker).  Wire reads them back.                      *)
(***************************************************************************)
EXTENDS Digits

TypePointer == 1
TypeString == 2
TypeFloat64 == 3
TypeBytes == 4
TypeUint16 == 5
TypeUint32 == 6
TypeInt32 == 8
TypeUint64 == 9
TypeUint128 == 10
TypeBool == 12
TypeFloat32 == 13
Numbers == {TypeUint16, TypeUint32, TypeInt32, TypeUint64, TypeUint128}

Byte == 0..255
\* The k bytes of n, the most significant first; a shift of a negative number
\* rounds down.
BigEndian(n, k) == [i \in 1..k |-> (n \div Power256(k - i)) % 256]
\* What reads them: uintFromBytes, and decodeUint with prefix 0.
FromBytes(prefix, bytes) == Horner(256, prefix, bytes)
-----------------------------------------------------------------------------
(***************************************************************************)
(* writeTypeHeader: five bits for the size, and up to three bytes more.    *)
(***************************************************************************)
SizeSmall == 29
SizeMedium == SizeSmall + 256
SizeLarge == SizeMedium + 65536
SizeMax == SizeLarge + 16777216

SizeField(size) ==
  IF size < SizeSmall THEN [bits |-> size, extra |-> <<>>]
  ELSE IF size < SizeMedium THEN [bits |-> 29, extra |-> BigEndian(size - SizeSmall, 1)]
  ELSE IF size < SizeLarge THEN [bits |-> 30, extra |-> BigEndian(size - SizeMedium, 2)]
  ELSE [bits |-> 31, extra |-> BigEndian(size - SizeLarge, 3)]
SizeTooLarge(size) == size >= SizeMax

Header(type, size) ==
  (IF type < 8 THEN <<32 * type + SizeField(size).bits>>
               ELSE <<SizeField(size).bits, type - 7>>) \o SizeField(size).extra

\* A number has no leading zero bytes, and no bytes at all when it is 0; the
\* four bytes of a negative one are its two's complement.
NumberSize(n) ==
  IF n < 0 THEN 4
  ELSE IF n = 0 THEN 0
  ELSE CHOOSE k \in 1..16 : n \div Power256(k - 1) \in 1..255
-----------------------------------------------------------------------------
(***************************************************************************)
(* RefMarker.                                                              *)
(***************************************************************************)
RefSize0 == 2048
RefSize1 == RefSize0 + 524288
RefSize2 == RefSize1 + 134217728

RefSize_Inclusive(ref) ==   \* mutant: <= at the first limit
  IF ref <= RefSize0 THEN 0 ELSE IF ref < RefSize1 THEN 1 ELSE IF ref < RefSize2 THEN 2 ELSE 3
RefSize(ref) ==
  IF ref < RefSize0 THEN 0 ELSE IF ref < RefSize1 THEN 1 ELSE IF ref < RefSize2 THEN 2 ELSE 3
RefLength_Payload(ref) == RefSize(ref)   \* mutant: Size for SerializedSize
RefLength(ref) == RefSize(ref) + 2

\* Control byte, with the three highest bits of the number but for the last width.
Ref(ref) ==
  LET size == RefSize(ref)
      v == CASE size = 1 -> ref - RefSize0
             [] size = 2 -> ref - RefSize1
             [] OTHER -> ref
      high == IF size = 3 THEN 0 ELSE (v \div Power256(size + 1)) % 8
  IN  <<32 * TypePointer + 8 * size + high>> \o BigEndian(v, size + 1)
=============================================================================
