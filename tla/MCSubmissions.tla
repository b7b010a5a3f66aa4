---------------------------- MODULE MCSubmissions ----------------------------
(***************************************************************************)
(* Submissions with two handlers of one user at a time.                    *)
(***************************************************************************)
EXTENDS Submissions, TLC

MCSymmetry == Permutations(Submitters) \cup Permutations(Queries)
=============================================================================
