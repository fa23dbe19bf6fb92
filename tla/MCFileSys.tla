----------------------------- MODULE MCFileSys ------------------------------
(***************************************************************************)
(* Instances of FileSys for model checking.                                *)
(***************************************************************************)
EXTENDS FileSys

\* Within a sector and across two; with SectorSize 2 and NumDirect 2, size 5 overruns a header.
Texts == {<<1>>, <<2, 3>>}
Unix == <<4, 5, 6>>
Chunk == <<7>>

Symmetry == Permutations(Name)

=============================================================================
