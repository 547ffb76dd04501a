----------------------------- MODULE MCSupervisor -----------------------------
(* The supervisor with two scenes and two settings. *)
EXTENDS Supervisor
===============================================================================
