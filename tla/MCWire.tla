-------------------------------- MODULE MCWire --------------------------------
(***************************************************************************)
(* Small instances of Wire for TLC: lengths, numbers and positions on both *)
(* sides of every limit (a number of TLC's stays below 2^31).              *)
(***************************************************************************)
EXTENDS Wire

SomePayloads ==
  [type : {TypeString}, holds : {"x"},
   size : {0, 1, 2, 3, 28, 29, 284, 285, 65820, 65821, 16843036, 16843037}]
    \cup [type : {TypeBytes}, holds : {"x"}, size : {2, 29}]
    \cup {[type |-> TypeFloat32, holds |-> "e", size |-> 4],
          [type |-> TypeFloat64, holds |-> "pi", size |-> 8]}
SomeIntegers ==
  [type : {TypeUint16}, n : {0, 255, 256, 65535}]
    \cup [type : {TypeUint32, TypeUint64}, n : {16777215, 2147483647}]
    \cup [type : {TypeUint128}, n : {1}]
    \cup [type : {TypeInt32}, n : {-2147483647, -129, -1, 127, 32768}]
SomeStarts == {0, 2045, 2046, 2047, 2048, 526335, 526336, 134744063, 134744064}
=============================================================================
