------------------------------- MODULE Murmur3 -------------------------------
(***************************************************************************)
(* The running hash of writer/murmur3.go, up to what its mixing computes:  *)
(* h1 is the sequence of the blocks that went into it, tail what waits for *)
(* a block to be full, clen the count of all.  Two inputs have one Sum     *)
(* here exactly when all three agree; that different ones may meet in 32   *)
(* bits is studied in BinaryTree.                                          *)
(***************************************************************************)
EXTENDS Integers, Sequences

BlockSize == 4   \* digest32.Size

\* Murmur3() and Reset.
NewDigest == [clen |-> 0, tail |-> <<>>, h1 |-> <<>>]

\* bmix: as many whole blocks of p as there are go into h1; the rest is left.
WholeBlocks(p) == BlockSize * (Len(p) \div BlockSize)
Bmix(h1, p) ==
  [h1 |-> h1 \o SubSeq(p, 1, WholeBlocks(p)),
   tail |-> SubSeq(p, WholeBlocks(p) + 1, Len(p))]

\* digest.Write: what waits is filled up to a block first, if p is longer than
\* the place that is free, and otherwise p is put behind it.
DigestWrite(d, p) ==
  LET free == BlockSize - Len(d.tail)
      fills == d.tail # <<>> /\ free < Len(p)
      first == Bmix(d.h1, d.tail \o SubSeq(p, 1, free))
      mixed == IF fills THEN Bmix(first.h1, SubSeq(p, free + 1, Len(p)))
               ELSE Bmix(d.h1, d.tail \o p)
  IN  [clen |-> d.clen + Len(p), tail |-> mixed.tail, h1 |-> mixed.h1]

\* Sum32: the blocks, then the tail, then the count.
Sum(d) == <<d.h1, d.tail, d.clen>>
=============================================================================
