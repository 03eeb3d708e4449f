-------------------------- MODULE MCJobAdmission --------------------------
(***************************************************************************)
(* Instances of JobAdmission for TLC: two directories, one in the other.   *)
(***************************************************************************)
EXTENDS JobAdmission, TLC

MCAbove    == {<<"repo", "repo_sub">>}
MCSymmetry == Permutations(Operator) \cup Permutations(Job) \cup Permutations(Owner)
=============================================================================
