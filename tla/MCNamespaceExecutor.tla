------------------------ MODULE MCNamespaceExecutor ------------------------
(* Instances of NamespaceExecutor for TLC.                                 *)
EXTENDS NamespaceExecutor, TLC

\* The jobs are alike: none is named by an action.
JobSymmetry == Permutations(Jobs)
=============================================================================
