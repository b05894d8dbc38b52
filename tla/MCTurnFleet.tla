----------------------------- MODULE MCTurnFleet -----------------------------
(* Small instances of three components that share nothing: two requests of   *)
(* the assistant, one of which may follow the forgetting, the crash or the   *)
(* recovery of the other; one machine of the fleet; and the managed release. *)
(* Their product would show no more than each does: one of them runs, the    *)
(* others rest.                                                              *)
EXTENDS AssistantTurn, FleetRefresh, Updater, TLC

CONSTANTS q1, q2, k2

TurnsRest ==
  /\ host = Host("up") /\ service = ServiceOff /\ recovery = RecoveryOff /\ ~intent
  /\ board = "private" /\ allowance = 0 /\ ~contextBlocked
  /\ epoch = 0 /\ threads = 0 /\ crashes = 0 /\ recoveries = 0
FleetRests ==
  /\ status = Absent /\ removals = 0 /\ \A k \in Keepers : copy[k] = Unread
  /\ \A r \in Exchanges : RequestAt(r, "idle") /\ purpose[r] = "refresh"

\* The second keeper of the machine's row is at work only until a second request
\* begins.
FewAtOnce ==
  copy[k2] = Unread \/ \A r, q \in Exchanges : r # q => "idle" \in {step[r], step[q]}

UpdaterRests == root = "absent" /\ losses = 0 /\ \A j \in Jobs : JobAt(j, "idle")

TurnFleetInit ==
  /\ Init /\ FleetInit /\ UpdaterInit
  /\ \/ TurnsRest /\ (FleetRests \/ UpdaterRests)
     \/ FleetRests /\ UpdaterRests

TurnFleetNext ==
  \/ FleetRests /\ UpdaterRests /\ Next /\ UNCHANGED <<fleetVars, updaterVars>>
  \/ TurnsRest /\ UpdaterRests /\ FleetNext /\ FewAtOnce' /\ UNCHANGED <<vars, updaterVars>>
  \/ TurnsRest /\ FleetRests /\ UpdaterNext /\ UNCHANGED <<vars, fleetVars>>

TurnFleetSpec == TurnFleetInit /\ [][TurnFleetNext]_<<vars, fleetVars, updaterVars>>

\* Processes that are alike; jobs have the names of exchanges (TurnFleet.cfg).
ProcessSymmetry == Permutations(Requests) \union Permutations(Exchanges)
=============================================================================
