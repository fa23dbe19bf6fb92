------------------------------- MODULE BitMap -------------------------------
(***************************************************************************)
(* BitMap (userprog/bitmap.cc): the allocator of page frames, table        *)
(* entries and disk sectors.  A map is the set of its set bits; bits is    *)
(* the set 0..numBits-1.  A bit outside it fails an ASSERT in every        *)
(* operation; users state when that can happen.                            *)
(***************************************************************************)
EXTENDS Integers, FiniteSetsExt

InMap(i, bits) == i \in bits
Mark(map, i) == map \cup {i}
Clear(map, i) == map \ {i}
NumClear(map, bits) == Cardinality(bits \ map)

\* The first clear bit, which Find also sets; -1 when there is none.
Find(map, bits) == IF bits \subseteq map THEN -1 ELSE Min(bits \ map)

=============================================================================
