------------------------------ MODULE MCAdminAuth ------------------------------
(* One source with two requests at once; the ladder is scaled down.        *)
EXTENDS AdminAuth, TLC

MCLockSteps == <<1, 2>>
Symmetry    == Permutations(Requests) \cup Permutations(Tokens)
================================================================================
