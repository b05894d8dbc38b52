---------------------------- MODULE MCExactResume ----------------------------
(* Small instances of ExactResume: rival launchers of one conversation.  The *)
(* wrapper and the provider of a launch are named after it.                  *)
EXTENDS ExactResume, TLC

CONSTANTS s1, n1, holder

OneName == [t \in Tokens |-> n1]
OneIntent == [t \in Tokens |-> s1]
SelfNamed == [t \in Tokens |-> t]
InertHolder == [t \in Tokens |-> holder]
LaunchGenerations == Tokens \union {holder}
AllHooks == ({"activity", "end"} \X BOOLEAN) \union {<<"heartbeat", FALSE>>}
PlainHooks == {<<"activity", FALSE>>}
LaunchSymmetry == Permutations(Tokens)
=============================================================================
