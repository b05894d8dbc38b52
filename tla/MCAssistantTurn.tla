---------------------------- MODULE MCAssistantTurn --------------------------
(* Small instances of AssistantTurn: two requests, one of which may follow   *)
(* the forgetting, the crash or the recovery of the other; and one alone.    *)
EXTENDS AssistantTurn, TLC

CONSTANTS q1, q2

RequestSymmetry == Permutations({q1, q2})
=============================================================================
