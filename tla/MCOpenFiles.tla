---------------------------- MODULE MCOpenFiles -----------------------------
(***************************************************************************)
(* Instances of OpenFiles for model checking.                              *)
(***************************************************************************)
EXTENDS OpenFiles, TLC

Symmetry == Permutations(Proc) \cup Permutations(FileName)

Programs(rs, once, truncate, tame) ==
    [rs |-> rs, once |-> once, truncate |-> truncate, tame |-> tame, longer |-> {}]

\* Two names of which one begins with the other.
Similar == {f \in FileName \X FileName : f[1] # f[2]}

\* Programs that open a file once, with and without time slices; programs that open it again,
\* that truncate open files, that name identifiers that are not open, that use similar names.
AllSettings ==
    {Programs(TRUE, TRUE, FALSE, TRUE), Programs(FALSE, TRUE, TRUE, FALSE),
     Programs(FALSE, FALSE, FALSE, TRUE)}
    \cup {[Programs(FALSE, TRUE, FALSE, TRUE) EXCEPT !.longer = {l}] : l \in Similar}

=============================================================================
