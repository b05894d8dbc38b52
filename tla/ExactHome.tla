------------------------------ MODULE ExactHome ------------------------------
(***************************************************************************)
(* What reopening a conversation promises, without reservations, hooks or  *)
(* terminals: a launch first claims the conversation, only the claimant    *)
(* may start a provider, and only while none runs.  A claim may be         *)
(* withdrawn at any time, and a provider may stop at any time.             *)
(***************************************************************************)
CONSTANTS Launches, Conversations, Nobody

VARIABLES
  claim,   \* the launch whose intent is pending, by conversation
  home     \* the launch whose provider runs, by conversation

homeVars == <<claim, home>>

HomeInit ==
  /\ claim = [c \in Conversations |-> Nobody]
  /\ home = [c \in Conversations |-> Nobody]

Claim(c, l) ==
  /\ claim[c] = Nobody
  /\ claim' = [claim EXCEPT ![c] = l]
  /\ UNCHANGED home

Withdraw(c) ==
  /\ claim[c] # Nobody
  /\ claim' = [claim EXCEPT ![c] = Nobody]
  /\ UNCHANGED home

Start(c, l) ==
  /\ claim[c] = l
  /\ home[c] = Nobody
  /\ home' = [home EXCEPT ![c] = l]
  /\ UNCHANGED claim

Stop(c) ==
  /\ home[c] # Nobody
  /\ home' = [home EXCEPT ![c] = Nobody]
  /\ UNCHANGED claim

HomeNext ==
  \E c \in Conversations :
    \/ \E l \in Launches : Claim(c, l) \/ Start(c, l)
    \/ Withdraw(c)
    \/ Stop(c)

HomeSpec == HomeInit /\ [][HomeNext]_homeVars
=============================================================================
