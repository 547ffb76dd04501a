--------------------------------- MODULE MCOta ---------------------------------
(* A small instance of Ota: a first version that works, a second one that   *)
(* works, and a dead one.                                                   *)
EXTENDS Ota
================================================================================
