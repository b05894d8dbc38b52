-------------------------- MODULE MCActivityObserver --------------------------
(* Two views of one profile, which may take over from each other. *)
EXTENDS ActivityObserver

CONSTANTS v1, v2
=============================================================================
