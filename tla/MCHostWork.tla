----------------------------- MODULE MCHostWork ------------------------------
(* Small instances of three components that share nothing: the expert cards, *)
(* the phone's operations and the review of the assistant's memory.  Their   *)
(* product would show no more than each does: one of them runs, the others   *)
(* rest.                                                                     *)
EXTENDS ExpertCards, MobileDelivery, MemoryMaintenance

ExpertsRest ==
  /\ \A r \in Runs : RunAt(r, "idle") /\ Scheduled(r)
  /\ \A c \in Conversations : turns[c] = 0 /\ untracks[c] = 0
  /\ cycle = 1
MobileRests ==
  /\ \A s \in Servers : ServerAt(s, "idle")
  /\ \A o \in Operations : deliveries[o] = "absent"
  /\ route = [token |-> 1, open |-> TRUE]
ReviewRests == Latest = 0 /\ faults = 0 /\ config.revision = 1 /\ driver = Driver("stopped")

\* Operations of different kinds meet nowhere but in the servers: one kind at
\* a time.
Untouched(ops) ==
  \A o \in ops : deliveries[o] = "absent" /\ \A s \in Servers : Op(s) # o
OneKind ==
  \E kind \in {Sends, NativeSends, Answers, Creations} : Untouched(Operations \ kind)

HostInit ==
  /\ ExpertInit /\ MobileInit /\ MaintenanceInit

HostNext ==
  \/ /\ MobileRests /\ ReviewRests /\ ExpertNext
     /\ UNCHANGED <<mobileVars, maintenanceVars>>
  \/ /\ ExpertsRest /\ ReviewRests /\ MobileNext /\ OneKind'
     /\ UNCHANGED <<expertVars, maintenanceVars>>
  \/ /\ ExpertsRest /\ MobileRests /\ MaintenanceNext
     /\ UNCHANGED <<expertVars, mobileVars>>

HostSpec ==
  HostInit /\ [][HostNext]_<<expertVars, mobileVars, maintenanceVars>>
=============================================================================
