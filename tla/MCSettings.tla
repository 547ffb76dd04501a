------------------------------- MODULE MCSettings -------------------------------
(* One device; a night that passes midnight, dim or without media, and no  *)
(* plan at all; a day of three minutes.                                    *)
EXTENDS Settings, TLC

CONSTANTS ops, dev1, cet, utc

MCKeySets == {{}, {ops}, {dev1}}
Night     == [start |-> 2, end |-> 1, percent |-> 30, hideMedia |-> TRUE]
MCPlans   == {{}, {Night}}
Symmetry  == Permutations({ops, dev1}) \cup Permutations({cet, utc})
================================================================================
