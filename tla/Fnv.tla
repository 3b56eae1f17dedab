-------------------------------- MODULE Fnv --------------------------------
(***************************************************************************)
(* fnv1a of adapters/cluster.js, the hash behind shardBy, in the 32-bit    *)
(* arithmetic JavaScript gives it: a word is the set of its bits that are  *)
(* 1, bit 0 the lowest.  Nothing but the low 32 bits survives the final    *)
(* >>> 0, so neither the sign that ^ and << give a word nor the sum beyond *)
(* 2^32 matters.                                                           *)
(***************************************************************************)
EXTENDS Integers, SequencesExt

Bits == 0 .. 31

\* The word whose halves are high and low; a character code is one of 16 bits.
FromHalves(high, low) ==
  {i \in Bits : (IF i < 16 THEN low \div 2 ^ i ELSE high \div 2 ^ (i - 16)) % 2 = 1}

\* h ^ code
Xor(h, w) == SymDiff(h, w)

Shifts == {0, 1, 4, 7, 8, 24}

\* (h + ((h << 1) + (h << 4) + (h << 7) + (h << 8) + (h << 24))) >>> 0, column
\* by column with the carry from the column before.
ShiftSum(h) ==
  LET ones(i) == Cardinality({k \in Shifts : i - k \in h})
      carry[i \in Bits] == IF i = 0 THEN 0 ELSE (carry[i - 1] + ones(i - 1)) \div 2
  IN {i \in Bits : (carry[i] + ones(i)) % 2 = 1}

OffsetBasis == FromHalves(33052, 40389)     \* 0x811c, 0x9dc5

\* s is the sequence of its character codes.
Fnv1a(s) == FoldLeft(LAMBDA h, code : ShiftSum(Xor(h, FromHalves(0, code))), OffsetBasis, s)

\* h % n
WordMod(h, n) ==
  FoldLeft(LAMBDA r, i : (2 * r + (IF 32 - i \in h THEN 1 ELSE 0)) % n, 0, [i \in 1 .. 32 |-> i])

-----------------------------------------------------------------------------
(* FNV-1a as it is published, a product with the prime 0x01000193 modulo   *)
(* 2^32, here on the halves of a word.  It is published for octets; like   *)
(* charCodeAt, this takes a character code of 16 bits for one, so for      *)
(* codes above 255 it is the hash of no encoding of the key in octets.     *)

Half(h, from) == FoldLeft(LAMBDA x, i : 2 * x + (IF from + 16 - i \in h THEN 1 ELSE 0), 0, [i \in 1 .. 16 |-> i])

TimesPrime(h) ==
  LET low == Half(h, 0)
      high == Half(h, 16)
  IN FromHalves(((low * 403) \div 65536 + high * 403 + low * 256) % 65536, (low * 403) % 65536)

Published(s) == FoldLeft(LAMBDA h, code : TimesPrime(Xor(h, FromHalves(0, code))), OffsetBasis, s)
=============================================================================
