----------------------------- MODULE MCHostFair ------------------------------
(* Small instances of two components that share nothing, under the fairness  *)
(* of each: the reservation of a conversation, whose three launchers include *)
(* two that are given the same PID one after the other, and the board.  One  *)
(* of them runs, the other rests, and the fairness is that of the one that   *)
(* runs.                                                                     *)
EXTENDS ResumeLane, BoardStatus, TLC

CONSTANTS l1, l2, l3, c1, p1, p2, o1, o2

OneTarget == [t \in Launchers |-> c1]
ReusedPids == (l1 :> p1) @@ (l2 :> p1) @@ (l3 :> p2)

LaneRests == pc = [t \in Launchers |-> "idle"]
BoardRests == clock = 0 /\ scan = None

LaneRuns(t) == BoardRests /\ (Contend(t) \/ Work(t))
BoardRuns == LaneRests /\ Reconcile

HostInit == LaneInit /\ Init

HostNext ==
  \/ BoardRests /\ LaneNext /\ UNCHANGED vars
  \/ LaneRests /\ Next /\ UNCHANGED laneVars

HostFairness ==
  /\ \A t \in Launchers : WF_laneVars(LaneRuns(t))
  /\ WF_vars(BoardRuns)

HostSpec == HostInit /\ [][HostNext]_<<laneVars, vars>> /\ HostFairness
=============================================================================
