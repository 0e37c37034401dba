-------------------------- MODULE MCAudioPlayback --------------------------
(* AudioPlayback for model checking: users and jobs are interchangeable.      *)
EXTENDS AudioPlayback, TLC

CONSTANTS u1, u2, j1, j2

Symmetry == Permutations(Users) \cup Permutations(JobIds)
=============================================================================
