-------------------------------- MODULE MCMedia --------------------------------
(* One picture and two documents, which are alike.                         *)
EXTENDS Media

CONSTANTS picture, menu, map
MCContents == {picture, menu, map}
MCDocuments == {menu, map}
MCSymmetry == Permutations({menu, map})
================================================================================
