------------------------------- MODULE MCPackages -------------------------------
(* Three good builds, two of one version, a bad one, and a repository. *)
EXTENDS Packages

CONSTANTS v1, v2, one, rebuilt, two, bad, debs, door, first, second
MCBuilds    == {one, rebuilt, two, bad}
MCVersionOf == [b \in MCBuilds |-> IF b = two THEN v2 ELSE v1]
MCValid     == {one, rebuilt, two, debs}
================================================================================
