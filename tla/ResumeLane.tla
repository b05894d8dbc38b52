----------------------------- MODULE ResumeLane ------------------------------
(***************************************************************************)
(* The launch_reservations table of src/src/store.rs: one row per          *)
(* conversation, held by the launcher that is reopening it.  A launcher    *)
(* that finds the row taken may reclaim it, but only after a complete      *)
(* process snapshot has shown that the holder's process generation (PID    *)
(* and start time) is gone, and only if the row is still the one it read.  *)
(* A launcher is one `pika NAME` process; its token names its generation.  *)
(***************************************************************************)
CONSTANTS
  Launchers,      \* launcher processes
  Conversations,
  Target,         \* the conversation each launcher reopens
  PidOf,          \* its PID; the kernel reuses the PIDs of ended processes
  Stages,         \* program counters of the work done under the reservation
  Nobody

Waiting == {"reserve", "contend", "prove", "reclaim"}
Working == {"observe", "release"} \union Stages
Stopped == {"idle", "done", "killed"}

ASSUME LaneConstants ==
  /\ Target \in [Launchers -> Conversations]
  /\ Nobody \notin Launchers
  /\ Stages \intersect (Waiting \union Stopped) = {}

VARIABLES
  pc,       \* where each launcher is
  lane,     \* launch_reservations: the holder of each conversation
  seen,     \* the row a launcher read after its insert was ignored
  revoked   \* history: launchers whose row untrack deleted under them

laneVars == <<pc, lane, seen, revoked>>

LaneInit ==
  /\ pc = [t \in Launchers |-> "idle"]
  /\ lane = [s \in Conversations |-> Nobody]
  /\ seen = [t \in Launchers |-> Nobody]
  /\ revoked = {}

At(t, here) == pc[t] = here
Go(t, next) == pc' = [pc EXCEPT ![t] = next]

\* A launcher's process, and so the generation in its row, exists.
Alive(t) == pc[t] \in Waiting \union Working

Begin(t) ==
  /\ At(t, "idle")
  /\ \A u \in Launchers : Alive(u) => PidOf[u] # PidOf[t]
  /\ Go(t, "reserve")
  /\ UNCHANGED <<lane, seen, revoked>>

\* INSERT OR IGNORE on (provider, session).
ReserveResume(t) ==
  /\ At(t, "reserve")
  /\ IF lane[Target[t]] = Nobody
     THEN lane' = [lane EXCEPT ![Target[t]] = t] /\ Go(t, "observe")
     ELSE UNCHANGED lane /\ Go(t, "contend")
  /\ UNCHANGED <<seen, revoked>>

\* Fault: the proof goes ahead although the row has gone meanwhile.
ReadNothing(t) ==
  /\ At(t, "contend")
  /\ seen' = [seen EXCEPT ![t] = lane[Target[t]]]
  /\ Go(t, "prove")
  /\ UNCHANGED <<lane, revoked>>

ReadReservation(t) ==
  /\ At(t, "contend")
  /\ seen' = [seen EXCEPT ![t] = lane[Target[t]]]
  /\ Go(t, IF lane[Target[t]] = Nobody THEN "done" ELSE "prove")
  /\ UNCHANGED <<lane, revoked>>

\* Fault: a process with the holder's PID is taken for the holder.
ProveByPid(t) ==
  /\ At(t, "prove")
  /\ IF \E u \in Launchers : Alive(u) /\ PidOf[u] = PidOf[seen[t]]
     THEN Go(t, "done") /\ seen' = [seen EXCEPT ![t] = Nobody]
     ELSE Go(t, "reclaim") /\ UNCHANGED seen
  /\ UNCHANGED <<lane, revoked>>

\* The snapshot holds the row's PID with the row's start time, or it does not.
ProveStale(t) ==
  /\ At(t, "prove")
  /\ IF Alive(seen[t])
     THEN Go(t, "done") /\ seen' = [seen EXCEPT ![t] = Nobody]
     ELSE Go(t, "reclaim") /\ UNCHANGED seen
  /\ UNCHANGED <<lane, revoked>>

\* Fault: whatever row is there now is replaced.
ReclaimAnyGeneration(t) ==
  /\ At(t, "reclaim")
  /\ lane' = [lane EXCEPT ![Target[t]] = t]
  /\ Go(t, "observe")
  /\ seen' = [seen EXCEPT ![t] = Nobody]
  /\ UNCHANGED revoked

\* Compare-and-swap on the whole row; a row names its token uniquely.
ReclaimResume(t) ==
  /\ At(t, "reclaim")
  /\ IF lane[Target[t]] = seen[t]
     THEN lane' = [lane EXCEPT ![Target[t]] = t] /\ Go(t, "observe")
     ELSE UNCHANGED lane /\ Go(t, "done")
  /\ seen' = [seen EXCEPT ![t] = Nobody]
  /\ UNCHANGED revoked

\* Fault: the launcher returns and leaves its row behind.
ReleaseForgotten(t) ==
  /\ At(t, "release")
  /\ Go(t, "done")
  /\ UNCHANGED <<lane, seen, revoked>>

\* release_resume deletes by token, on success and on every error path.
ReleaseResume(t) ==
  /\ At(t, "release")
  /\ lane' = [lane EXCEPT ![Target[t]] = IF @ = t THEN Nobody ELSE @]
  /\ Go(t, "done")
  /\ UNCHANGED <<seen, revoked>>

LauncherKilled(t) ==
  /\ Alive(t)
  /\ Go(t, "killed")
  /\ seen' = [seen EXCEPT ![t] = Nobody]
  /\ UNCHANGED <<lane, revoked>>

\* `pika doctor --repair-stale` deletes a row whose generation is gone; a row
\* names its token, so the proof cannot be outdated by the time it deletes.
RepairReservation(s) ==
  /\ lane[s] # Nobody /\ ~Alive(lane[s])
  /\ lane' = [lane EXCEPT ![s] = Nobody]
  /\ UNCHANGED <<pc, seen, revoked>>

\* Untracking, hiding or deleting the conversation deletes the row even while
\* its holder is at work.
RevokeReservation(s) ==
  /\ lane' = [lane EXCEPT ![s] = Nobody]
  /\ revoked' = revoked \union {t \in Launchers : lane[s] = t}
  /\ UNCHANGED <<pc, seen>>

\* Whatever is done under the reservation, step by step.
Work(t) ==
  /\ pc[t] \in Working \ {"release"}
  /\ \E next \in Stages \union {"release"} : Go(t, next)
  /\ UNCHANGED <<lane, seen, revoked>>

Contend(t) ==
  \/ ReserveResume(t) \/ ReadReservation(t) \/ ProveStale(t) \/ ReclaimResume(t)
  \/ ReleaseResume(t)

LaneNext ==
  \/ \E t \in Launchers : Begin(t) \/ Contend(t) \/ Work(t) \/ LauncherKilled(t)
  \/ \E s \in Conversations : RepairReservation(s) \/ RevokeReservation(s)

LaneSpec == LaneInit /\ [][LaneNext]_laneVars

\* A launcher process that exists is scheduled; nobody has to run the doctor.
LaneFairness ==
  /\ \A t \in Launchers : WF_laneVars(Contend(t))
  /\ \A t \in Launchers : WF_laneVars(Work(t))

FairLaneSpec == LaneSpec /\ LaneFairness

-----------------------------------------------------------------------------
(* Properties.                                                             *)

\* Every row names a launcher, and whoever proves or reclaims has a row in hand.
LaneTypeOK ==
  /\ pc \in [Launchers -> Waiting \union Working \union Stopped]
  /\ lane \in [Conversations -> Launchers \union {Nobody}]
  /\ seen \in [Launchers -> Launchers \union {Nobody}]
  /\ revoked \subseteq Launchers
  /\ \A t \in Launchers : pc[t] \in {"prove", "reclaim"} => seen[t] # Nobody

\* A launcher at work holds the reservation: rivals that read the row before
\* its holder changed cannot take it over (the compare-and-swap of
\* reclaim_resume_if_generation), nobody reclaims from a live generation, and
\* a slow release deletes only its own row.  Only the user's untrack may
\* delete it under a launcher at work.
LaneHeld ==
  \A t \in Launchers :
    pc[t] \in Working /\ t \notin revoked => lane[Target[t]] = t

\* The row of a killed launcher does not lock its conversation out: a launcher
\* that meets it gets past it without the doctor, even when another process
\* has been given the dead holder's PID (core.rs:423).
StaleLaneReclaimed ==
  \A t, u \in Launchers :
    (lane[Target[u]] = t /\ At(t, "killed") /\ At(u, "reserve"))
      ~> (lane[Target[u]] # t \/ At(u, "killed"))

\* A launcher's reservation ends with it or is left to its successors: it
\* never stays behind a launcher that returned (resume_session releases on
\* every path, core.rs:2355).
ReturnedReleases ==
  \A s \in Conversations :
    \A t \in Launchers : At(t, "done") => lane[s] # t
=============================================================================
