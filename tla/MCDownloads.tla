----------------------------- MODULE MCDownloads -----------------------------
(* Downloads for TLC: jobs, files and repositories are interchangeable.    *)
EXTENDS Downloads, TLC

JobSymmetry == Permutations(Jobs) \cup Permutations(Files)
===============================================================================
