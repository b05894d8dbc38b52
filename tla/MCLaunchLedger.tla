--------------------------- MODULE MCLaunchLedger ---------------------------
(* A small instance of LaunchLedger: a resume of s1 races a new conversation *)
(* for the same display name.                                               *)
EXTENDS LaunchLedger, TLC

CONSTANTS t1, t2, s1, s2, n1

OneName == (t1 :> n1) @@ (t2 :> n1)
ResumeIntent == (t1 :> s1) @@ (t2 :> None)
=============================================================================
