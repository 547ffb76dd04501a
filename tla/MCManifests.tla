------------------------------ MODULE MCManifests ------------------------------
(* One device and two templates.                                           *)
EXTENDS Manifests

CONSTANTS door, plain, snow, film

AllUploaded == [n \in Names |-> film]
================================================================================
