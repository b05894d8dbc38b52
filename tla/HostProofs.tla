----------------------------- MODULE HostProofs -----------------------------
(***************************************************************************)
(* What one machine promises for any number of launchers, conversations,   *)
(* owners, callbacks in flight and clock values.  The reservation of a     *)
(* conversation, whatever a launcher does under it.  And the board's row   *)
(* of a conversation: that it is what the stored evidence projects to, and *)
(* that neither a result the user has not seen nor a turn that runs is     *)
(* taken from it by a late hook, an exit, a stale reconciliation or an     *)
(* acknowledgement of something older.                                     *)
(***************************************************************************)
EXTENDS ResumeLane, BoardStatus, TLAPS

-----------------------------------------------------------------------------
(* Reservations.                                                           *)

\* A launcher that holds a row is at work or was killed while it was.
HolderAtWork ==
  \A s \in Conversations, t \in Launchers :
    lane[s] = t => Target[t] = s /\ pc[t] \in Working \union {"killed"}

\* The holder a rival has read was at work then; once the rival has proved it
\* gone, it stays gone.
SeenStaysGone ==
  \A t \in Launchers :
    /\ At(t, "prove") => pc[seen[t]] \in Working \union {"killed", "done"}
    /\ At(t, "reclaim") => pc[seen[t]] \in {"killed", "done"}

LaneInv == LaneTypeOK /\ HolderAtWork /\ SeenStaysGone /\ LaneHeld

\* An empty reservation table satisfies the strengthened invariant.
LEMMA LaneInvInit == LaneInit => LaneInv
BY LaneConstants
DEF LaneInit, LaneInv, LaneTypeOK, HolderAtWork, SeenStaysGone, LaneHeld, At,
    Waiting, Working, Stopped

\* Every step of a launcher, doctor or untrack keeps it (reserve_resume and after).
LEMMA LaneInvStep == LaneInv /\ [LaneNext]_laneVars => LaneInv'
<1> SUFFICES ASSUME LaneInv, [LaneNext]_laneVars PROVE LaneInv'
  OBVIOUS
<1> USE LaneConstants
    DEF LaneInv, LaneTypeOK, HolderAtWork, SeenStaysGone, LaneHeld,
        At, Go, Waiting, Working, Stopped
<1>1. ASSUME NEW t \in Launchers, Begin(t) PROVE LaneInv'
  BY <1>1 DEF Begin
<1>2. ASSUME NEW t \in Launchers, ReserveResume(t) PROVE LaneInv'
  BY <1>2 DEF ReserveResume
<1>3. ASSUME NEW t \in Launchers, ReadReservation(t) PROVE LaneInv'
  BY <1>3 DEF ReadReservation
<1>4. ASSUME NEW t \in Launchers, ProveStale(t) PROVE LaneInv'
  BY <1>4 DEF ProveStale, Alive
<1>5. ASSUME NEW t \in Launchers, ReclaimResume(t) PROVE LaneInv'
  BY <1>5 DEF ReclaimResume
<1>6. ASSUME NEW t \in Launchers, ReleaseResume(t) PROVE LaneInv'
  BY <1>6 DEF ReleaseResume
<1>7. ASSUME NEW t \in Launchers, Work(t) PROVE LaneInv'
  BY <1>7 DEF Work
<1>8. ASSUME NEW t \in Launchers, LauncherKilled(t) PROVE LaneInv'
  BY <1>8 DEF LauncherKilled, Alive
<1>9. ASSUME NEW s \in Conversations, RepairReservation(s) PROVE LaneInv'
  BY <1>9 DEF RepairReservation, Alive
<1>10. ASSUME NEW s \in Conversations, RevokeReservation(s) PROVE LaneInv'
  BY <1>10 DEF RevokeReservation
<1>11. CASE UNCHANGED laneVars
  BY <1>11 DEF laneVars
<1> QED BY <1>1, <1>2, <1>3, <1>4, <1>5, <1>6, <1>7, <1>8, <1>9, <1>10, <1>11
        DEF LaneNext, Contend

\* The strengthened invariant holds in every reachable state.
LEMMA LaneAlways == LaneSpec => []LaneInv
BY LaneInvInit, LaneInvStep, PTL DEF LaneSpec

\* The reservation table and the launchers keep their types.
THEOREM LaneTypes == LaneSpec => []LaneTypeOK
<1>1. LaneInv => LaneTypeOK
  BY DEF LaneInv
<1> QED BY <1>1, LaneAlways, PTL

\* However rivals read, prove and reclaim, a launcher at work keeps the lane
\* unless the user untracks the conversation (store.rs:1870).
THEOREM LaneStaysHeld == LaneSpec => []LaneHeld
<1>1. LaneInv => LaneHeld
  BY DEF LaneInv
<1> QED BY <1>1, LaneAlways, PTL

\* A launcher that has returned, on whatever path, holds no lane (core.rs:2355).
THEOREM LaneGivenBack == LaneSpec => []ReturnedReleases
<1>1. LaneInv => ReturnedReleases
  BY LaneConstants DEF LaneInv, HolderAtWork, ReturnedReleases, At, Working, Stopped
<1> QED BY <1>1, LaneAlways, PTL

-----------------------------------------------------------------------------
(* The board: shapes of its tables, and what they say of each other.       *)

Calls == [owner : Owners, event : HookEvents \union Callbacks, at : Times, attached : BOOLEAN]
Turns == [status : Unfinished \union {"IDLE", "WORKING"}, at : Times, by : Owners \union {None}]

BoardShapes ==
  /\ clock \in Times
  /\ proc \in [Owners -> {"new", "live", "gone"}]
  /\ turn \in Turns
  /\ record \in Records
  /\ attached \in BOOLEAN
  /\ flight \subseteq Calls
  /\ leases \in [Owners -> Times \union {None}]
  /\ recovery \in Owners \union {None}
  /\ obs \in [Kinds -> Observations \union {None}]
  /\ row \in Rows
  /\ scan \in Snapshots \union {None}
  /\ viewer \in Times \union {None}

\* Only safety says OPEN TWICE, only the runtime that a provider ended in error;
\* unread evidence of a turn is shown whether or not a process is live.
EvidenceFits(ob) ==
  /\ ob["safety"] # None => ob["safety"].status = "OPEN_TWICE" /\ ob["safety"].unread
  /\ ob["runtime"] # None => ob["runtime"].status = "EXITED"
  /\ ob["lifecycle"] # None /\ ob["lifecycle"].status # "OPEN_TWICE"
  /\ ob["lifecycle"].unread => ob["lifecycle"].status \in Unfinished \union {"EXITED"}

\* Nothing is dated ahead of the clock.
Dated ==
  /\ \A k \in Kinds : obs[k] # None => obs[k].at <= clock
  /\ row.event <= clock /\ row.activity <= clock
  /\ turn.at <= clock /\ record.at <= turn.at
  /\ \A h \in flight : h.at <= clock
  /\ scan # None => scan.row.activity <= clock
  /\ scan # None /\ scan.candidate # None => scan.candidate.at <= turn.at

\* A row that shows a turn is no older than what is known of it.
ShownTurn == row.status \notin {"OPEN_TWICE", "EXITED"} => obs["lifecycle"].at <= row.event

EvidenceInv == BoardShapes /\ EvidenceFits(obs) /\ Dated /\ ShownTurn /\ RowProjectsEvidence

Ends == {"end", "exit", "crash"}

\* The provider waits for the hooks of its turns.
CallsFit ==
  /\ \A h \in flight : h.event \in Ends => proc[h.owner] = "gone"
  /\ turn.status = "WORKING" => turn.by \in Owners /\ proc[turn.by] = "live"
  /\ turn.status = "WORKING" => \A h \in flight :
       /\ h.at = turn.at => h.event = "prompt" /\ h.owner = turn.by
       /\ h.at > turn.at => h.event \in Ends \union {"tool"}
  /\ turn.status \in Unfinished => \A h \in flight :
       /\ h.at = turn.at => h.event = turn.status /\ h.owner = turn.by /\ (h.attached => noticed)
       /\ h.at > turn.at => h.event \in Ends
       /\ h.at > turn.at /\ h.owner = turn.by /\ h.event # "crash" =>
            ~\E g \in flight : g.at = turn.at

\* A record is read once, and not past what the row has seen.
ReadingFits ==
  /\ record.read = "never" => record.status = None
  /\ scan # None /\ scan.candidate # None /\ scan.candidate.status # None =>
       scan.candidate.at > scan.row.activity

\* A snapshot that may still commit is of the ledger as it is.
SnapshotFits ==
  /\ scan # None /\ scan.fresh => scan.row = row
  /\ delivered => turn.at <= row.activity
  /\ scan # None /\ scan.fresh /\ delivered /\ turn.status = "WORKING" => turn.by \in scan.live

\* A result of time t is kept, or its hook may still record it.
Keeps(ob, t) ==
  /\ ob["lifecycle"].unread /\ t <= ob["lifecycle"].at
  /\ ob["runtime"] # None => ob["runtime"].unread

Awaits(ob, t) ==
  /\ ob["lifecycle"].unread \/ ob["lifecycle"].at <= t
  /\ ob["runtime"] # None => ob["runtime"].unread \/ ob["runtime"].at <= t

InFlight == \E g \in flight : g.at = turn.at

\* An announced result is unread in all its evidence.
ResultKept ==
  turn.status \in Unfinished /\ ~noticed /\ ~overruled =>
    /\ delivered => row.unread /\ Keeps(obs, turn.at)
    /\ InFlight => Awaits(obs, turn.at)

\* An announced turn is the newest there is, and its owner has a lease.
TurnKept ==
  turn.status = "WORKING" /\ ~overruled =>
    /\ delivered => /\ row.status \in {"WORKING", "OPEN_TWICE"}
                    /\ obs["lifecycle"].status = "WORKING" /\ turn.at <= obs["lifecycle"].at
                    /\ leases[turn.by] # None
    /\ InFlight => obs["lifecycle"].status = "WORKING" \/ obs["lifecycle"].at <= turn.at

WatchInv == EvidenceInv /\ CallsFit /\ ReadingFits /\ SnapshotFits /\ ResultKept /\ TurnKept


-----------------------------------------------------------------------------
(* Evidence and rows.                                                        *)

\* Evidence by kind, as the table holds it.
Table == [Kinds -> Observations \union {None}]

\* Whatever the evidence, exactly one of it is projected.
LEMMA Projected ==
  ASSUME NEW ob \in Table, EvidenceFits(ob), NEW live \in BOOLEAN
  PROVE  /\ Project(ob, live) \in Observations
         /\ \/ ob["safety"] # None /\ Project(ob, live) = ob["safety"]
            \/ /\ ob["safety"] = None /\ ob["runtime"] # None /\ ~live
               /\ Project(ob, live) = ob["runtime"]
            \/ /\ ob["safety"] = None /\ (ob["runtime"] = None \/ live)
               /\ IF Stands(ob["lifecycle"], live) THEN Project(ob, live) = ob["lifecycle"]
                  ELSE Project(ob, live) = Observation("PARKED", FALSE, ob["lifecycle"].at)
<1>1. ob["safety"] \in Observations \union {None} /\ ob["runtime"] \in Observations \union {None}
  BY DEF Table, Kinds
<1>2. ob["lifecycle"] \in Observations
  BY DEF Table, Kinds, EvidenceFits
<1>3. Observation("PARKED", FALSE, ob["lifecycle"].at) \in Observations
  BY <1>2 DEF Observation, Observations, Statuses
<1> QED BY <1>1, <1>2, <1>3 DEF Project

\* upsert_session: the row shows the projection, and the initial evidence it
\* inserts changes nothing of it.
LEMMA UpsertShows ==
  ASSUME NEW ob \in Table, EvidenceFits(ob), NEW live \in BOOLEAN, NEW activity \in Times,
         row \in Rows, Upsert(ob, live, activity)
  PROVE  /\ obs' \in Table /\ EvidenceFits(obs')
         /\ obs'["lifecycle"] = ob["lifecycle"] /\ obs'["safety"] = ob["safety"]
         /\ \/ obs'["runtime"] = ob["runtime"]
            \/ obs'["runtime"] = ob["lifecycle"] /\ ob["lifecycle"].status = "EXITED"
         /\ Project(obs', live) = Project(ob, live)
         /\ row' = [status |-> Project(ob, live).status, unread |-> Project(ob, live).unread,
                    event |-> Later(row.event, Project(ob, live).at),
                    activity |-> Later(row.activity, activity)]
         /\ row' \in Rows
<1> DEFINE shown == Project(ob, live)
           kind == InitialKind(shown.status)
<1>1. shown \in Observations
  BY Projected
<1>2. row' = [status |-> shown.status, unread |-> shown.unread,
              event |-> Later(row.event, shown.at), activity |-> Later(row.activity, activity)]
  BY DEF Upsert
<1>3. row' \in Rows
  BY <1>1, <1>2 DEF Rows, Observations, Later, Times
<1>4. obs' = IF ob[kind] = None THEN [ob EXCEPT ![kind] = shown] ELSE ob
  BY DEF Upsert
<1>5. ob["lifecycle"] # None
  BY DEF EvidenceFits
<1>6. CASE ob[kind] # None
  BY <1>2, <1>3, <1>4, <1>6 DEF EvidenceFits, Project
<1>7. CASE ob[kind] = None
  <2>1. shown.status # "OPEN_TWICE"
    <3>1. CASE shown = ob["safety"] /\ ob["safety"] # None
      BY <1>7, <3>1 DEF InitialKind, EvidenceFits
    <3>2. CASE ~(shown = ob["safety"] /\ ob["safety"] # None)
      BY <3>2, Projected DEF EvidenceFits, Observation
    <3> QED BY <3>1, <3>2
  <2>2. kind = "runtime" /\ shown.status = "EXITED" /\ ob["runtime"] = None
    BY <1>5, <1>7, <2>1 DEF InitialKind
  <2>3. shown = ob["lifecycle"] /\ ob["safety"] = None
    BY <2>2, Projected DEF EvidenceFits, Observation
  <2>4. obs' = [ob EXCEPT !["runtime"] = shown]
    BY <1>4, <1>7, <2>2
  <2>5. obs' \in Table
    BY <1>1, <2>4 DEF Table
  <2>6. /\ obs'["lifecycle"] = ob["lifecycle"] /\ obs'["safety"] = ob["safety"]
        /\ obs'["runtime"] = shown
    BY <2>4 DEF Table, Kinds
  <2>7. EvidenceFits(obs')
    BY <2>2, <2>6 DEF EvidenceFits
  <2>8. Project(obs', live) = shown
    BY <2>2, <2>3, <2>6 DEF Project, Stands
  <2> QED BY <1>2, <1>3, <2>2, <2>3, <2>5, <2>6, <2>7, <2>8
<1> QED BY <1>6, <1>7

\* An upsert dates the row by what it shows.
LEMMA UpsertDated ==
  ASSUME NEW ob \in Table, EvidenceFits(ob), NEW live \in BOOLEAN, NEW activity \in Times,
         row \in Rows, Upsert(ob, live, activity), clock' \in Times,
         \A k \in Kinds : ob[k] # None => ob[k].at <= clock',
         activity <= clock', row.event <= clock', row.activity <= clock'
  PROVE  /\ \A k \in Kinds : obs'[k] # None => obs'[k].at <= clock'
         /\ row'.event <= clock' /\ row'.activity <= clock'
         /\ ShownTurn' /\ RowProjectsEvidence'
<1> DEFINE shown == Project(ob, live)
<1>1. /\ obs' \in Table /\ EvidenceFits(obs')
      /\ obs'["lifecycle"] = ob["lifecycle"] /\ obs'["safety"] = ob["safety"]
      /\ obs'["runtime"] = ob["runtime"] \/ obs'["runtime"] = ob["lifecycle"]
      /\ Project(obs', live) = shown
      /\ row' = [status |-> shown.status, unread |-> shown.unread,
                 event |-> Later(row.event, shown.at), activity |-> Later(row.activity, activity)]
  BY UpsertShows
<1>2. shown \in Observations
  BY Projected
<1>3. ob["lifecycle"] # None
  BY DEF EvidenceFits
<1>4. \A k \in Kinds : obs'[k] # None => obs'[k].at <= clock'
  BY <1>1, <1>3 DEF Kinds
<1>5. shown.at <= clock'
  BY <1>3, Projected DEF Kinds, Observation
<1>6. row'.event <= clock' /\ row'.activity <= clock'
  BY <1>1, <1>5 DEF Later
<1>7. ShownTurn'
  <2>1. shown.status \notin {"OPEN_TWICE", "EXITED"} => shown.at = ob["lifecycle"].at
    BY Projected DEF EvidenceFits, Observation
  <2> QED BY <1>1, <1>2, <2>1 DEF ShownTurn, Later, Rows, Observations, Times
<1>8. RowProjectsEvidence'
  BY <1>1 DEF RowProjectsEvidence
<1> QED BY <1>4, <1>6, <1>7, <1>8

\* An unread row that is not the warning shows a result.
LEMMA UnreadResult ==
  ASSUME EvidenceInv, row.unread, row.status # "OPEN_TWICE"
  PROVE  row.status \in Unfinished \union {"EXITED"}
<1>1. PICK live \in BOOLEAN : row.status = Project(obs, live).status /\ Project(obs, live).unread
  BY DEF EvidenceInv, RowProjectsEvidence
<1>2. obs \in Table /\ EvidenceFits(obs)
  BY DEF EvidenceInv, BoardShapes, Table
<1> QED BY <1>1, <1>2, Projected DEF EvidenceFits, Observation

\* The upsert of an observation.
LEMMA RecordedAs ==
  ASSUME NEW ob \in Table, NEW kind \in Kinds, NEW new \in Observations
  PROVE  /\ Recorded(ob, kind, new) \in Table
         /\ \A k \in Kinds : Recorded(ob, kind, new)[k] =
              IF k = kind /\ (ob[k] = None \/ new.at >= ob[k].at) THEN new ELSE ob[k]
BY DEF Recorded, Table

\* Its removal.
LEMMA ClearedAs ==
  ASSUME NEW ob \in Table, NEW kind \in Kinds
  PROVE  /\ Cleared(ob, kind) \in Table
         /\ \A k \in Kinds : Cleared(ob, kind)[k] = IF k = kind THEN None ELSE ob[k]
BY DEF Cleared, Table

\* An observation is what it was made of.
LEMMA ObservationOf ==
  ASSUME NEW status \in Statuses, NEW unread \in BOOLEAN, NEW at \in Times
  PROVE  /\ Observation(status, unread, at) \in Observations
         /\ Observation(status, unread, at).status = status
         /\ Observation(status, unread, at).unread = unread
         /\ Observation(status, unread, at).at = at
BY DEF Observation, Observations

\* What a hook makes of the evidence.
HookEvidence(h) ==
  LET lifecycle == Recorded(obs, "lifecycle", HookObservation(h)) IN
  IF h.event = "end" THEN lifecycle ELSE ClearedThrough(lifecycle, "runtime", h.at)

\* A hook records its own observation, or the end of a session the unread result.
LEMMA HookRecords ==
  ASSUME EvidenceInv, NEW h \in flight, h.event \in HookEvents
  PROVE  /\ HookObservation(h) \in Observations
         /\ \/ h.event = "end" /\ KeptUnread /\ HookObservation(h).unread
            \/ ~(h.event = "end" /\ KeptUnread) /\ HookObservation(h) = Announced(h)
         /\ HookObservation(h).at <= clock
         /\ HookEvidence(h) \in Table /\ EvidenceFits(HookEvidence(h))
         /\ HookEvidence(h)["safety"] = obs["safety"]
         /\ HookEvidence(h)["lifecycle"] =
              IF HookObservation(h).at >= obs["lifecycle"].at THEN HookObservation(h)
                                                              ELSE obs["lifecycle"]
         /\ HookEvidence(h)["runtime"] =
              IF h.event # "end" /\ obs["runtime"] # None /\ obs["runtime"].at <= h.at THEN None
                                                              ELSE obs["runtime"]
<1> DEFINE new == HookObservation(h)
           kept == h.event = "end" /\ KeptUnread
<1>1. h \in Calls /\ obs \in Table /\ row \in Rows /\ EvidenceFits(obs)
      /\ h.at <= clock /\ row.event <= clock
  BY DEF EvidenceInv, BoardShapes, Table, Dated
<1>2. kept => /\ row.unread /\ row.status \in Unfinished \union {"EXITED"}
              /\ new = Observation(row.status, TRUE, row.event)
  BY UnreadResult DEF KeptUnread, HookObservation
<1>3. ~kept => new = Announced(h)
  BY DEF HookObservation
<1>4. /\ new \in Observations /\ new.at <= clock /\ (kept => new.unread)
      /\ new.status # "OPEN_TWICE" /\ (new.unread => new.status \in Unfinished \union {"EXITED"})
  <2>1. CASE kept
    <3>1. row.status \in Statuses /\ TRUE \in BOOLEAN /\ row.event \in Times
      BY <1>1 DEF Rows
    <3>2. /\ new \in Observations /\ new.status = row.status /\ new.unread = TRUE
          /\ new.at = row.event
      <4>1. new = Observation(row.status, TRUE, row.event)
        BY <1>2, <2>1
      <4> HIDE DEF new
      <4> QED BY <3>1, <4>1 DEF Observation, Observations
    <3> HIDE DEF new
    <3> QED BY <1>1, <1>2, <2>1, <3>2 DEF Unfinished
  <2>2. CASE ~kept
    <3>1. EventStatus(h.event) \in Unfinished \union {"WORKING", "PARKED"}
      BY DEF EventStatus, HookEvents, Unfinished
    <3>2. h.event \in Unfinished => EventStatus(h.event) = h.event
      BY DEF EventStatus, Unfinished
    <3> DEFINE unread == h.event \in Unfinished /\ ~(h.event = "READY" /\ h.attached)
    <3>3. EventStatus(h.event) \in Statuses /\ unread \in BOOLEAN /\ h.at \in Times
      BY <1>1, <3>1 DEF Statuses, Calls
    <3>4. new = Observation(EventStatus(h.event), unread, h.at)
      BY <1>3, <2>2 DEF Announced
    <3>5. unread => h.event \in Unfinished
      OBVIOUS
    <3> HIDE DEF unread
    <3>6. /\ new \in Observations /\ new.status = EventStatus(h.event)
          /\ new.unread = unread /\ new.at = h.at
      BY <3>3, <3>4, ObservationOf
    <3> HIDE DEF new
    <3> QED BY <1>1, <2>2, <3>1, <3>2, <3>5, <3>6 DEF Unfinished
  <2> QED BY <2>1, <2>2
<1>5. obs["lifecycle"] # None
  BY <1>1 DEF EvidenceFits
<1>6. LET first == Recorded(obs, "lifecycle", new) IN
      /\ first \in Table
      /\ first["safety"] = obs["safety"] /\ first["runtime"] = obs["runtime"]
      /\ first["lifecycle"] = IF new.at >= obs["lifecycle"].at THEN new ELSE obs["lifecycle"]
  BY <1>1, <1>4, <1>5, RecordedAs DEF Kinds
<1>7. /\ HookEvidence(h) \in Table
      /\ HookEvidence(h)["safety"] = obs["safety"]
      /\ HookEvidence(h)["lifecycle"] = IF new.at >= obs["lifecycle"].at THEN new
                                                                        ELSE obs["lifecycle"]
      /\ HookEvidence(h)["runtime"] =
           IF h.event # "end" /\ obs["runtime"] # None /\ obs["runtime"].at <= h.at THEN None
                                                                        ELSE obs["runtime"]
  <2> DEFINE first == Recorded(obs, "lifecycle", new)
  <2>1. HookEvidence(h) = IF /\ h.event # "end"
                             /\ first["runtime"] # None /\ first["runtime"].at <= h.at
                          THEN Cleared(first, "runtime") ELSE first
    BY DEF HookEvidence, ClearedThrough
  <2>2. Cleared(first, "runtime") \in Table
        /\ \A k \in Kinds : Cleared(first, "runtime")[k] = IF k = "runtime" THEN None ELSE first[k]
    <3>1. first \in Table /\ "runtime" \in Kinds
      BY <1>6 DEF Kinds
    <3> HIDE DEF first
    <3> QED BY <3>1, ClearedAs
  <2> HIDE DEF first
  <2>3. /\ first \in Table
        /\ first["safety"] = obs["safety"] /\ first["runtime"] = obs["runtime"]
        /\ first["lifecycle"] = IF new.at >= obs["lifecycle"].at THEN new ELSE obs["lifecycle"]
    BY <1>6 DEF first
  <2> QED BY <2>1, <2>2, <2>3 DEF Kinds
<1>8. EvidenceFits(HookEvidence(h))
  <2> HIDE DEF new
  <2> QED BY <1>1, <1>4, <1>5, <1>7, AbsentConstant DEF EvidenceFits
<1> QED BY <1>3, <1>4, <1>7, <1>8


\* What an exit callback makes of the evidence.
LEMMA ExitRecords ==
  ASSUME EvidenceInv, NEW h \in flight, h.event \in Callbacks
  PROVE  /\ ExitEvidence(h) \in Table /\ EvidenceFits(ExitEvidence(h))
         /\ \A k \in Kinds : ExitEvidence(h)[k] # None => ExitEvidence(h)[k].at <= clock
         /\ ExitEvidence(h)["safety"] = obs["safety"]
         /\ h.event = "crash" =>
              /\ ExitEvidence(h)["lifecycle"] = obs["lifecycle"]
              /\ ExitEvidence(h)["runtime"] \in {obs["runtime"], Observation("EXITED", TRUE, h.at)}
         /\ h.event # "crash" /\ row.unread => ExitEvidence(h) = obs
         /\ h.event # "crash" /\ ~row.unread =>
              /\ ExitEvidence(h)["runtime"] = None
              /\ ExitEvidence(h)["lifecycle"] =
                   IF h.at >= obs["lifecycle"].at THEN Observation("PARKED", FALSE, h.at)
                                                  ELSE obs["lifecycle"]
<1> DEFINE ended == Observation("EXITED", TRUE, h.at)
           parked == Observation("PARKED", FALSE, h.at)
           bare == Cleared(obs, "runtime")
<1>1. /\ obs \in Table /\ EvidenceFits(obs) /\ obs["lifecycle"] # None
      /\ h.at \in Times /\ h.at <= clock
      /\ \A k \in Kinds : obs[k] # None => obs[k].at <= clock
      /\ Kinds = {"safety", "runtime", "lifecycle"}
  BY DEF EvidenceInv, BoardShapes, Table, Dated, Calls, EvidenceFits, Kinds
<1>2. /\ ended \in Observations /\ ended.status = "EXITED" /\ ended.at = h.at
      /\ parked \in Observations /\ parked.status = "PARKED" /\ parked.unread = FALSE
      /\ parked.at = h.at
  BY <1>1 DEF Observation, Observations, Statuses
<1>3. /\ bare \in Table
      /\ \A k \in Kinds : bare[k] = IF k = "runtime" THEN None ELSE obs[k]
  BY <1>1, ClearedAs DEF Kinds
<1> HIDE DEF ended, parked, bare
<1>4. CASE h.event = "crash"
  <2> DEFINE ev == Recorded(obs, "runtime", ended)
  <2>1. ExitEvidence(h) = ev
    BY <1>4 DEF ExitEvidence, ended
  <2>2. /\ ev \in Table
        /\ \A k \in Kinds : ev[k] = IF k = "runtime" /\ (obs[k] = None \/ ended.at >= obs[k].at)
                                    THEN ended ELSE obs[k]
    BY <1>1, <1>2, RecordedAs DEF Kinds
  <2> HIDE DEF ev
  <2>3. EvidenceFits(ev)
    BY <1>1, <1>2, <2>2 DEF EvidenceFits
  <2>4. \A k \in Kinds : ev[k] # None => ev[k].at <= clock
    BY <1>1, <1>2, <2>2
  <2> QED BY <1>1, <1>4, <2>1, <2>2, <2>3, <2>4 DEF ended
<1>5. CASE h.event # "crash" /\ row.unread
  BY <1>1, <1>5 DEF ExitEvidence
<1>6. CASE h.event # "crash" /\ ~row.unread
  <2> DEFINE ev == Recorded(bare, "lifecycle", parked)
  <2>1. ExitEvidence(h) = ev
    BY <1>6 DEF ExitEvidence, parked, bare
  <2>2. /\ ev \in Table
        /\ \A k \in Kinds : ev[k] = IF k = "lifecycle" /\ (bare[k] = None \/ parked.at >= bare[k].at)
                                    THEN parked ELSE bare[k]
    BY <1>1, <1>2, <1>3, RecordedAs DEF Kinds
  <2> HIDE DEF ev
  <2>3. /\ ev["safety"] = obs["safety"] /\ ev["runtime"] = None
        /\ ev["lifecycle"] = IF h.at >= obs["lifecycle"].at THEN parked ELSE obs["lifecycle"]
    BY <1>1, <1>2, <1>3, <2>2
  <2>4. EvidenceFits(ev)
    BY <1>1, <1>2, <2>3, AbsentConstant DEF EvidenceFits
  <2>5. \A k \in Kinds : ev[k] # None => ev[k].at <= clock
    BY <1>1, <1>2, <2>3
  <2> QED BY <1>6, <2>1, <2>2, <2>3, <2>4, <2>5 DEF parked
<1> QED BY <1>4, <1>5, <1>6

\* What a reconciliation makes of it.
LEMMA ReconcileRecords ==
  ASSUME EvidenceInv, Unsuperseded, NEW later \in Times, clock <= later,
         Duplicate => Tick <= later
  PROVE  LET c == scan.candidate
             ev == WithSafety(CandidateEvidence(c)) IN
         /\ ev \in Table /\ EvidenceFits(ev)
         /\ \A k \in Kinds : ev[k] # None => ev[k].at <= later
         /\ ev["runtime"] = obs["runtime"]
         /\ c.status = None => ev["lifecycle"] = obs["lifecycle"]
         /\ \/ ev["lifecycle"] = obs["lifecycle"]
            \/ ev["lifecycle"].at = Later(c.at, scan.row.activity)
<1> DEFINE c == scan.candidate
           merged == CandidateEvidence(c)
           ev == WithSafety(merged)
           read == c.status = "READY" /\ c.at > scan.row.event /\ ~scan.attached
           at == Later(c.at, scan.row.activity)
           told == Observation(c.status, read, at)
           warning == Observation("OPEN_TWICE", TRUE, Tick)
<1>1. /\ obs \in Table /\ EvidenceFits(obs) /\ obs["lifecycle"] # None
      /\ clock \in Times /\ later \in Nat /\ clock \in Nat
      /\ \A k \in Kinds : obs[k] # None => obs[k].at \in Nat /\ obs[k].at <= clock
      /\ c \in Records /\ c.at \in Times /\ c.at <= clock
      /\ scan.row.activity \in Times /\ scan.row.activity <= clock
      /\ Kinds = {"safety", "runtime", "lifecycle"}
  <2>1. scan \in Snapshots /\ scan # None /\ c # None /\ c \in Records
    BY DEF Unsuperseded, EvidenceInv, BoardShapes, Snapshots
  <2>2. /\ c.at \in Times /\ turn.at \in Times /\ clock \in Times
        /\ c.at <= turn.at /\ turn.at <= clock
    BY <2>1 DEF EvidenceInv, BoardShapes, Dated, Records, Turns
  <2> QED BY <2>1, <2>2
          DEF EvidenceInv, BoardShapes, Table, Dated, EvidenceFits, Kinds, Snapshots,
              Rows, Observations, Times
<1>2. /\ at \in Times /\ at <= clock
      /\ Tick \in Times /\ clock <= Tick
  BY <1>1, BoardConstants DEF Later, Tick, Times
<1>3. merged = IF c.status = None THEN obs ELSE Recorded(obs, "lifecycle", told)
  BY DEF CandidateEvidence
<1>4. c.status # None => /\ told \in Observations /\ told.status = c.status
                         /\ told.unread = read /\ told.at = at
                         /\ c.status \in {"WORKING", "READY"}
  <2>1. read \in BOOLEAN
    OBVIOUS
  <2>2. c.status # None => c.status \in {"WORKING", "READY"} /\ c.status \in Statuses
    BY <1>1 DEF Records, Statuses, Unfinished
  <2> HIDE DEF read, at, c
  <2> QED BY <1>2, <2>1, <2>2, ObservationOf
<1>5. /\ warning \in Observations /\ warning.status = "OPEN_TWICE"
      /\ warning.unread /\ warning.at = Tick
  BY <1>2 DEF Observation, Observations, Statuses
<1>6. read => c.status = "READY"
  OBVIOUS
<1>7. ev = IF Duplicate THEN Recorded(merged, "safety", warning) ELSE Cleared(merged, "safety")
  BY DEF WithSafety
<1> HIDE DEF c, merged, ev, read, at, told, warning
<1>8. /\ merged \in Table
      /\ merged["safety"] = obs["safety"] /\ merged["runtime"] = obs["runtime"]
      /\ merged["lifecycle"] = IF c.status # None /\ told.at >= obs["lifecycle"].at
                               THEN told ELSE obs["lifecycle"]
  BY <1>1, <1>3, <1>4, RecordedAs
<1>9. /\ merged["lifecycle"] # None /\ merged["lifecycle"].at <= clock
      /\ merged["lifecycle"].status # "OPEN_TWICE"
      /\ merged["lifecycle"].unread => merged["lifecycle"].status \in Unfinished \union {"EXITED"}
  BY <1>1, <1>2, <1>4, <1>6, <1>8, AbsentConstant DEF EvidenceFits, Unfinished
<1>10. /\ ev \in Table
       /\ ev["runtime"] = merged["runtime"] /\ ev["lifecycle"] = merged["lifecycle"]
       /\ ev["safety"] \in {None, merged["safety"]} \/ (Duplicate /\ ev["safety"] = warning)
  <2>1. CASE Duplicate
    <3>1. "safety" \in Kinds /\ ev = Recorded(merged, "safety", warning)
      BY <1>1, <1>7, <2>1
    <3>2. /\ ev \in Table
          /\ \A k \in Kinds : ev[k] = IF k = "safety" /\ (merged[k] = None \/ warning.at >= merged[k].at)
                                      THEN warning ELSE merged[k]
      BY <1>5, <1>8, <3>1, RecordedAs
    <3> QED BY <1>1, <2>1, <3>2
  <2>2. CASE ~Duplicate
    <3>1. "safety" \in Kinds /\ ev = Cleared(merged, "safety")
      BY <1>1, <1>7, <2>2
    <3>2. ev \in Table /\ \A k \in Kinds : ev[k] = IF k = "safety" THEN None ELSE merged[k]
      BY <1>8, <3>1, ClearedAs
    <3> QED BY <1>1, <3>2
  <2> QED BY <2>1, <2>2
<1>11. EvidenceFits(ev)
  BY <1>1, <1>5, <1>8, <1>9, <1>10 DEF EvidenceFits
<1>12. \A k \in Kinds : ev[k] # None => ev[k].at <= later
  <2>1. ev["lifecycle"].at <= later
    <3>1. merged["lifecycle"].at \in Nat
      BY <1>8 , <1>9 DEF Table, Kinds, Observations, Times
    <3> QED BY <1>1, <1>9, <1>10, <3>1
  <2>2. ev["runtime"] # None => ev["runtime"].at <= later
    BY <1>1, <1>8, <1>10
  <2>3. ev["safety"] # None => ev["safety"].at <= later
    BY <1>1, <1>2, <1>5, <1>8, <1>10
  <2> QED BY <1>1, <2>1, <2>2, <2>3
<1>13. /\ c.status = None => ev["lifecycle"] = obs["lifecycle"]
       /\ ev["lifecycle"] = obs["lifecycle"] \/ ev["lifecycle"].at = at
  BY <1>4, <1>8, <1>10
<1> QED BY <1>8, <1>10, <1>11, <1>12, <1>13 DEF c, merged, ev, at

-----------------------------------------------------------------------------
(* The row is what its evidence projects to.                               *)

\* The provider's steps leave the ledger alone and move the clock forward.
LEMMA ProviderKeepsEvidence ==
  ASSUME EvidenceInv, NEW o \in Owners, ProviderStep(o)
  PROVE  EvidenceInv'
<1>1. UNCHANGED <<obs, row, acked, leases, recovery, scan, viewer, attached>>
  BY DEF ProviderStep, StartProvider, BeginTurn, UseTool, EndTurn, Quit, Crash, Kill,
         Leaves, Announce,
         ledgerVars
<1>0. /\ clock \in Times /\ Times = 0 .. MaxTime /\ MaxTime \in Nat /\ attached \in BOOLEAN
      /\ turn \in Turns /\ turn.at \in Times /\ turn.at <= clock
      /\ record \in Records /\ record.at \in Times /\ record.at <= turn.at
  BY BoardConstants DEF EvidenceInv, BoardShapes, Dated, Turns, Records, Times
<1>2. /\ clock' \in Times /\ clock <= clock'
      /\ \A h \in flight' : h \in flight \/ (h \in Calls /\ h.at <= clock')
      /\ proc' \in [Owners -> {"new", "live", "gone"}]
  <2>1. /\ clock' \in Times /\ clock <= clock'
        /\ \A h \in flight' : h \in flight \/ (h \in Calls /\ h.at <= clock')
    <3>1. ASSUME NEW event \in HookEvents \union Callbacks, NEW at \in Times
          PROVE  Sent(o, event, at) \in Calls /\ Sent(o, event, at).at = at
      BY <1>0, <3>1 DEF Sent, Calls
    <3>2. ASSUME NEW event \in HookEvents \union Callbacks, Announce(o, event)
          PROVE  /\ clock' \in Times /\ clock <= clock'
                 /\ \A h \in flight' : h \in flight \/ (h \in Calls /\ h.at <= clock')
      <4>1. /\ clock' = clock + 1 /\ clock < MaxTime
            /\ flight' = flight \union {Sent(o, event, clock')}
        BY <3>2 DEF Announce
      <4>2. clock' \in Times /\ clock <= clock'
        BY <1>0, <4>1
      <4>3. Sent(o, event, clock') \in Calls /\ Sent(o, event, clock').at = clock'
        BY <3>1, <4>2
      <4> QED BY <1>0, <4>1, <4>2, <4>3
    <3>3. CASE Quit(o)
      <4>1. /\ clock' = clock + 2 /\ clock + 2 <= MaxTime
            /\ flight' = flight \union {Sent(o, "end", clock + 1), Sent(o, "exit", clock + 2)}
        BY <3>3 DEF Quit
      <4>2. clock' \in Times /\ clock + 1 \in Times /\ clock + 2 \in Times /\ clock <= clock'
        BY <1>0, <4>1
      <4>3. "end" \in HookEvents \union Callbacks /\ "exit" \in HookEvents \union Callbacks
        BY DEF HookEvents, Callbacks
      <4>4. /\ Sent(o, "end", clock + 1) \in Calls /\ Sent(o, "end", clock + 1).at = clock + 1
            /\ Sent(o, "exit", clock + 2) \in Calls /\ Sent(o, "exit", clock + 2).at = clock + 2
        BY <3>1, <4>2, <4>3
      <4> QED BY <1>0, <4>1, <4>2, <4>4
    <3>4. CASE Kill(o)
      BY <1>0, <3>4 DEF Kill
    <3>5. /\ {"start", "prompt", "tool", "crash"} \subseteq HookEvents \union Callbacks
          /\ Unfinished \subseteq HookEvents \union Callbacks
      BY DEF HookEvents, Callbacks
    <3> QED BY <3>2, <3>3, <3>4, <3>5
               DEF ProviderStep, StartProvider, BeginTurn, UseTool, EndTurn, Crash
  <2>2. proc' \in [Owners -> {"new", "live", "gone"}]
    BY DEF ProviderStep, StartProvider, BeginTurn, UseTool, EndTurn, Quit, Crash,
           Kill, Leaves,
           providerVars, EvidenceInv, BoardShapes
  <2> QED BY <2>1, <2>2
<1>3. /\ turn' \in Turns /\ record' \in Records
      /\ turn'.at <= clock' /\ turn.at <= turn'.at /\ record'.at <= turn'.at
  <2>1. ASSUME NEW status \in Unfinished \union {"IDLE", "WORKING"}, NEW looked,
               NewTurn(o, status, looked), clock' = clock + 1
        PROVE  turn' \in Turns /\ turn'.at = clock'
    BY <1>2, <2>1 DEF NewTurn, Turns
  <2>2. ASSUME NEW status \in {"WORKING", "READY"}, Recording(status), clock' = clock + 1,
               turn'.at = clock'
        PROVE  record' \in Records /\ record'.at <= turn'.at
    <3>1. CASE record.read = "never"
      BY <1>0, <1>2, <2>2, <3>1 DEF Recording
    <3>2. CASE record.read # "never"
      <4>1. record' = [record EXCEPT !.status = status, !.at = clock']
        BY <2>2, <3>2 DEF Recording
      <4>2. record' \in Records /\ record'.at = clock'
        BY <1>0, <1>2, <4>1 DEF Records
      <4> QED BY <1>0, <1>2, <2>2, <4>2
    <3> QED BY <3>1, <3>2
  <2>3. CASE StartProvider(o)
    <3>1. clock' = clock + 1 /\ NewTurn(o, "IDLE", TRUE) /\ record' = record
      BY <2>3 DEF StartProvider, Announce
    <3>2. turn' \in Turns /\ turn'.at = clock'
      BY <2>1, <3>1
    <3> QED BY <1>0, <1>2, <3>1, <3>2
  <2>4. CASE BeginTurn(o)
    <3>1. clock' = clock + 1 /\ NewTurn(o, "WORKING", TRUE) /\ Recording("WORKING")
      BY <2>4 DEF BeginTurn, Announce
    <3>2. turn' \in Turns /\ turn'.at = clock'
      BY <2>1, <3>1
    <3>3. record' \in Records /\ record'.at <= turn'.at
      BY <2>2, <3>1, <3>2
    <3> QED BY <1>0, <1>2, <3>2, <3>3
  <2>5. ASSUME NEW result \in Unfinished, EndTurn(o, result)
        PROVE  /\ turn' \in Turns /\ record' \in Records
               /\ turn'.at <= clock' /\ turn.at <= turn'.at /\ record'.at <= turn'.at
    <3>1. clock' = clock + 1 /\ NewTurn(o, result, attached)
          /\ Recording(IF result = "NEEDS_YOU" THEN "WORKING" ELSE "READY")
      BY <2>5 DEF EndTurn, Announce
    <3>2. turn' \in Turns /\ turn'.at = clock'
      BY <2>1, <3>1
    <3>3. record' \in Records /\ record'.at <= turn'.at
      BY <2>2, <3>1, <3>2
    <3> QED BY <1>0, <1>2, <3>2, <3>3
  <2>6. CASE UseTool(o)
    BY <1>0, <1>2, <2>6 DEF UseTool, providerVars
  <2>7. CASE Quit(o) \/ Crash(o) \/ Kill(o)
    BY <1>0, <1>2, <2>7 DEF Quit, Crash, Kill, Leaves, Turns
  <2> QED BY <2>3, <2>4, <2>5, <2>6, <2>7 DEF ProviderStep
<1>4. BoardShapes'
  BY <1>1, <1>2, <1>3 DEF EvidenceInv, BoardShapes
<1>5. Dated'
  <2>1. clock \in Nat /\ clock' \in Nat /\ turn.at \in Nat /\ turn'.at \in Nat
    BY <1>2, <1>3 DEF EvidenceInv, BoardShapes, Times, Turns
  <2>2. \A k \in Kinds : obs'[k] # None => obs'[k].at <= clock'
    BY <1>1, <1>2, <2>1 DEF EvidenceInv, BoardShapes, Dated, Observations, Times
  <2>3. row'.event <= clock' /\ row'.activity <= clock'
    BY <1>1, <1>2, <2>1 DEF EvidenceInv, BoardShapes, Dated, Rows, Times
  <2>4. \A h \in flight' : h.at <= clock'
    BY <1>2, <2>1 DEF EvidenceInv, BoardShapes, Dated, Calls, Times
  <2>5. /\ scan' # None => scan'.row.activity <= clock'
        /\ scan' # None /\ scan'.candidate # None => scan'.candidate.at <= turn'.at
    BY <1>1, <1>2, <1>3, <2>1
       DEF EvidenceInv, BoardShapes, Dated, Snapshots, Rows, Records, Times
  <2> QED BY <1>3, <2>2, <2>3, <2>4, <2>5 DEF Dated
<1>6. EvidenceFits(obs')
  BY <1>1 DEF EvidenceInv
<1>7. ShownTurn' /\ RowProjectsEvidence'
  BY <1>1 DEF EvidenceInv, ShownTurn, RowProjectsEvidence
<1> QED BY <1>4, <1>5, <1>6, <1>7 DEF EvidenceInv

\* A hook.
LEMMA HookKeepsEvidence ==
  ASSUME EvidenceInv, NEW h \in flight, HandleHook(h)
  PROVE  EvidenceInv'
<1> DEFINE ev == HookEvidence(h)
           live == h.event # "end" \/ HasLease(leases')
<1>1. /\ h.event \in HookEvents /\ h \in Calls /\ h.at <= clock
      /\ UNCHANGED <<clock, proc, turn, record, attached, viewer, acked>>
      /\ flight' = flight \ {h} /\ leases' = UpdatedLeases(h)
      /\ recovery' = IF h.event = "start" THEN h.owner ELSE recovery
      /\ Committed
      /\ Upsert(ev, live, h.at)
  BY DEF HandleHook, HookEvidence, providerVars, EvidenceInv, BoardShapes, Dated
<1>2. /\ HookObservation(h).at <= clock /\ ev \in Table /\ EvidenceFits(ev)
      /\ ev["safety"] = obs["safety"]
      /\ ev["lifecycle"] \in {HookObservation(h), obs["lifecycle"]}
      /\ ev["runtime"] \in {None, obs["runtime"]}
  <2> HIDE DEF ev
  <2> QED BY <1>1, HookRecords DEF ev
<1> HIDE DEF ev
<1>3. \A k \in Kinds : ev[k] # None => ev[k].at <= clock
  BY <1>2 DEF EvidenceInv, Dated, Kinds, EvidenceFits
<1>4. /\ row \in Rows /\ h.at \in Times /\ clock' \in Times
      /\ \A k \in Kinds : ev[k] # None => ev[k].at <= clock'
      /\ h.at <= clock' /\ row.event <= clock' /\ row.activity <= clock'
      /\ live \in BOOLEAN
  BY <1>1, <1>3 DEF EvidenceInv, BoardShapes, Dated, Calls
<1> HIDE DEF live
<1>5. /\ obs' \in Table /\ EvidenceFits(obs') /\ row' \in Rows
  BY <1>1, <1>2, <1>4, UpsertShows
<1>6. /\ \A k \in Kinds : obs'[k] # None => obs'[k].at <= clock'
      /\ row'.event <= clock' /\ row'.activity <= clock'
      /\ ShownTurn' /\ RowProjectsEvidence'
  BY <1>1, <1>2, <1>4, UpsertDated
<1>7. scan' # None => scan # None /\ scan'.row = scan.row /\ scan'.candidate = scan.candidate
  BY <1>1 DEF Committed, EvidenceInv, BoardShapes, Snapshots
<1>8. scan' \in Snapshots \union {None}
  BY <1>1 DEF Committed, EvidenceInv, BoardShapes, Snapshots
<1>9. BoardShapes'
  BY <1>1, <1>5, <1>8 DEF EvidenceInv, BoardShapes, UpdatedLeases, Calls, Table
<1>10. Dated'
  BY <1>1, <1>6, <1>7, <1>8 DEF EvidenceInv, Dated
<1> QED BY <1>5, <1>6, <1>9, <1>10 DEF EvidenceInv

\* The exit callback of a provider.
LEMMA ExitKeepsEvidence ==
  ASSUME EvidenceInv, NEW h \in flight, HandleProcessExit(h)
  PROVE  EvidenceInv'
<1>1. /\ h \in Calls /\ h.at \in Times /\ h.at <= clock /\ obs \in Table /\ row \in Rows
      /\ EvidenceFits(obs) /\ obs["lifecycle"] # None /\ clock \in Times
      /\ UNCHANGED <<clock, proc, turn, record, attached, viewer, acked>>
      /\ flight' = flight \ {h} /\ h.event \in Callbacks
  BY DEF HandleProcessExit, providerVars, EvidenceInv, BoardShapes, Dated, Calls,
         Table, EvidenceFits
<1>2. CASE UNCHANGED <<ledgerVars, scan>>
  <2>1. UNCHANGED <<leases, recovery, obs, row, scan>>
    BY <1>2 DEF ledgerVars
  <2>2. BoardShapes' /\ Dated'
    BY <1>1, <2>1 DEF EvidenceInv, BoardShapes, Dated
  <2>3. EvidenceFits(obs')
    BY <2>1 DEF EvidenceInv
  <2> QED BY <1>1, <2>1, <2>2, <2>3 DEF EvidenceInv, ShownTurn, RowProjectsEvidence
<1>3. CASE ~UNCHANGED <<ledgerVars, scan>>
  <2>1. /\ leases' = [leases EXCEPT ![h.owner] = None]
        /\ recovery' = IF recovery = h.owner THEN None ELSE recovery
        /\ Committed
        /\ UNCHANGED <<row, obs>> \/ Upsert(ExitEvidence(h), FALSE, h.at)
    BY <1>3 DEF HandleProcessExit
  <2>2. scan' # None => scan # None /\ scan'.row = scan.row /\ scan'.candidate = scan.candidate
    BY <2>1 DEF Committed, EvidenceInv, BoardShapes, Snapshots
  <2>3. scan' \in Snapshots \union {None}
    BY <2>1 DEF Committed, EvidenceInv, BoardShapes, Snapshots
  <2>4. CASE UNCHANGED <<row, obs>>
    <3>1. BoardShapes'
      BY <1>1, <2>1, <2>3, <2>4 DEF EvidenceInv, BoardShapes, Calls
    <3>2. Dated'
      BY <1>1, <2>2, <2>4 DEF EvidenceInv, Dated
    <3>3. EvidenceFits(obs')
      BY <2>4 DEF EvidenceInv
    <3> QED BY <1>1, <2>4, <3>1, <3>2, <3>3
               DEF EvidenceInv, ShownTurn, RowProjectsEvidence
  <2>5. CASE Upsert(ExitEvidence(h), FALSE, h.at)
    <3> DEFINE ev == ExitEvidence(h)
    <3>1. ev \in Table /\ EvidenceFits(ev) /\ \A k \in Kinds : ev[k] # None => ev[k].at <= clock
      BY <1>1, ExitRecords DEF EvidenceInv
    <3>2. /\ \A k \in Kinds : ev[k] # None => ev[k].at <= clock'
          /\ h.at <= clock' /\ row.event <= clock' /\ row.activity <= clock' /\ clock' \in Times
      BY <1>1, <3>1 DEF EvidenceInv, Dated
    <3> HIDE DEF ev
    <3>3. Upsert(ev, FALSE, h.at) /\ FALSE \in BOOLEAN
      BY <2>5 DEF ev
    <3>4. /\ obs' \in Table /\ EvidenceFits(obs') /\ row' \in Rows
      BY <1>1, <3>1, <3>3, UpsertShows
    <3>5. /\ \A k \in Kinds : obs'[k] # None => obs'[k].at <= clock'
          /\ row'.event <= clock' /\ row'.activity <= clock'
          /\ ShownTurn' /\ RowProjectsEvidence'
      BY <1>1, <3>1, <3>2, <3>3, UpsertDated
    <3>6. BoardShapes'
      BY <1>1, <2>1, <2>3, <3>4 DEF EvidenceInv, BoardShapes, Calls, Table
    <3>7. Dated'
      BY <1>1, <2>2, <3>5 DEF EvidenceInv, Dated
    <3> QED BY <3>4, <3>5, <3>6, <3>7 DEF EvidenceInv
  <2> QED BY <2>1, <2>4, <2>5
<1> QED BY <1>2, <1>3

\* A reconciliation commits.
LEMMA ReconcileKeepsEvidence ==
  ASSUME EvidenceInv, CommitReconcile
  PROVE  EvidenceInv'
<1> DEFINE ev == WithSafety(CandidateEvidence(scan.candidate))
           live == scan.live # {}
           activity == Later(scan.row.activity, scan.candidate.at)
<1>1. /\ scan # None /\ scan \in Snapshots /\ scan.candidate # None /\ scan.candidate \in Records
      /\ scan.row \in Rows /\ clock \in Times /\ row \in Rows
      /\ scan.row.activity <= clock /\ scan.candidate.at <= turn.at /\ turn.at <= clock
      /\ scan.candidate.at \in Times /\ scan.row.activity \in Times /\ turn.at \in Times
      /\ UNCHANGED <<proc, turn, record, attached, flight, viewer, acked>>
      /\ leases' = [o \in Owners |-> IF o \in scan.live THEN leases[o] ELSE None]
      /\ recovery' = IF recovery \in scan.live THEN recovery ELSE None
      /\ scan' = None /\ Unsuperseded
      /\ Upsert(ev, live, activity)
  BY DEF CommitReconcile, Unsuperseded, providerVars, EvidenceInv, BoardShapes, Dated,
         Snapshots, Rows,
         Records, Turns
<1>2. /\ clock' = IF Duplicate THEN Tick ELSE clock
      /\ Tick \in Times /\ clock <= Tick /\ clock' \in Times /\ clock <= clock'
  BY <1>1, BoardConstants DEF CommitReconcile, Tick, Times
<1>3. /\ ev \in Table /\ EvidenceFits(ev)
      /\ \A k \in Kinds : ev[k] # None => ev[k].at <= clock'
  <2>1. Unsuperseded /\ clock' \in Times /\ clock <= clock' /\ (Duplicate => Tick <= clock')
    BY <1>1, <1>2 DEF Times
  <2> QED BY <2>1, ReconcileRecords DEF ev
<1>4. activity \in Times /\ activity <= clock'
  BY <1>1, <1>2 DEF Later, Times
<1>5. row.event <= clock' /\ row.activity <= clock'
  BY <1>1, <1>2 DEF EvidenceInv, Dated, Rows, Times
<1>6. live \in BOOLEAN
  OBVIOUS
<1> HIDE DEF ev, live, activity
<1>7. /\ obs' \in Table /\ EvidenceFits(obs') /\ row' \in Rows
  BY <1>1, <1>3, <1>4, <1>6, UpsertShows
<1>8. /\ \A k \in Kinds : obs'[k] # None => obs'[k].at <= clock'
      /\ row'.event <= clock' /\ row'.activity <= clock'
      /\ ShownTurn' /\ RowProjectsEvidence'
  BY <1>1, <1>2, <1>3, <1>4, <1>5, <1>6, UpsertDated
<1>9. BoardShapes'
  BY <1>1, <1>2, <1>7 DEF EvidenceInv, BoardShapes, Table
<1>10. Dated'
  <2>1. turn'.at <= clock' /\ record'.at <= turn'.at
    BY <1>1, <1>2 DEF EvidenceInv, Dated, Times
  <2>2. \A g \in flight' : g.at <= clock'
    BY <1>1, <1>2 DEF EvidenceInv, BoardShapes, Dated, Calls, Times
  <2> QED BY <1>1, <1>8, <2>1, <2>2 DEF Dated
<1> QED BY <1>7, <1>8, <1>9, <1>10 DEF EvidenceInv

\* The user acknowledges the event of a READY, FAILED or EXITED row.
LEMMA AcknowledgeKeepsEvidence ==
  ASSUME EvidenceInv, NEW attaching \in BOOLEAN, Acknowledge(attaching)
  PROVE  EvidenceInv'
<1>1. /\ obs \in Table /\ EvidenceFits(obs) /\ obs["lifecycle"] # None
      /\ row \in Rows /\ viewer \in Times /\ Kinds = {"safety", "runtime", "lifecycle"}
      /\ UNCHANGED <<clock, proc, turn, record, attached, flight, leases, recovery>>
      /\ viewer' = None
  BY DEF Acknowledge, providerVars, EvidenceInv, BoardShapes, Table, EvidenceFits, Kinds
<1>2. CASE Allowed(attaching)
  <2>1. /\ row.unread /\ row.event = viewer /\ row.status \in {"READY", "FAILED", "EXITED"}
        /\ row' = [row EXCEPT !.unread = FALSE]
        /\ obs' = [k \in Kinds |-> Read(obs[k])]
        /\ acked' = row.event
        /\ Committed
    BY <1>2 DEF Acknowledge, Allowed, Acknowledgeable
  <2>2. ASSUME NEW k \in Kinds
        PROVE  /\ obs'[k] \in Observations \union {None}
               /\ obs'[k] = None <=> obs[k] = None
               /\ obs[k] # None => /\ obs'[k].status = obs[k].status /\ obs'[k].at = obs[k].at
                                   /\ obs'[k].unread => obs[k].unread
                                   /\ obs'[k].unread # obs[k].unread => obs[k].status = row.status
    <3>1. obs'[k] = Read(obs[k]) /\ obs[k] \in Observations \union {None}
      BY <1>1, <2>1, <2>2 DEF Table
    <3> QED BY <3>1, AbsentConstant DEF Read, Observations
  <2>3. /\ obs' \in Table /\ row' \in Rows
        /\ row'.status = row.status /\ row'.unread = FALSE
        /\ row'.event = row.event /\ row'.activity = row.activity
    BY <1>1, <2>1, <2>2 DEF Table, Rows
  <2>4. EvidenceFits(obs')
    <3>1. obs["safety"] # None => obs'["safety"].unread = obs["safety"].unread
      BY <1>1, <2>1, <2>2 DEF EvidenceFits
    <3>2. obs["safety"] # None => obs["safety"].unread /\ obs'["safety"].unread
      BY <1>1, <3>1 DEF EvidenceFits
    <3> QED BY <1>1, <2>2, <3>2 DEF EvidenceFits
  <2>5. RowProjectsEvidence'
    <3>1. PICK live \in BOOLEAN : /\ row.status = Project(obs, live).status
                                  /\ row.unread => Project(obs, live).unread
      BY DEF EvidenceInv, RowProjectsEvidence
    <3>2. obs["safety"] = None /\ obs'["safety"] = None
      BY <1>1, <2>1, <2>2, <3>1, Projected DEF EvidenceFits, Observation
    <3>3. CASE row.status = "READY"
      <4>1. obs["lifecycle"].status = "READY"
        BY <1>1, <2>1, <3>1, <3>2, <3>3 DEF EvidenceFits, Project, Observation
      <4>2. Project(obs', TRUE).status = "READY"
        BY <1>1, <2>2, <3>2, <4>1 DEF Project, Stands
      <4> QED BY <2>1, <2>3, <3>3, <4>2 DEF RowProjectsEvidence
    <3>4. CASE row.status \in {"FAILED", "EXITED"}
      <4>1. CASE obs["runtime"] # None /\ ~live
        <5>1. Project(obs, live) = obs["runtime"] /\ Project(obs', live) = obs'["runtime"]
          BY <1>1, <2>2, <3>2, <4>1 DEF Project
        <5>2. Project(obs', live).status = row.status
          BY <1>1, <2>2, <3>1, <4>1, <5>1
        <5> QED BY <2>1, <2>3, <5>2 DEF RowProjectsEvidence
      <4>2. CASE ~(obs["runtime"] # None /\ ~live)
        <5>1. obs["lifecycle"].status = row.status
          BY <1>1, <3>1, <3>2, <3>4, <4>2 DEF Project, Observation
        <5>2. Project(obs', live).status = row.status
          BY <1>1, <2>2, <3>2, <3>4, <4>2, <5>1 DEF Project, Stands
        <5> QED BY <2>1, <2>3, <5>2 DEF RowProjectsEvidence
      <4> QED BY <4>1, <4>2
    <3> QED BY <2>1, <3>3, <3>4
  <2>6. scan' # None => scan # None /\ scan'.row = scan.row /\ scan'.candidate = scan.candidate
    BY <2>1 DEF Committed, EvidenceInv, BoardShapes, Snapshots
  <2>7. scan' \in Snapshots \union {None}
    BY <2>1 DEF Committed, EvidenceInv, BoardShapes, Snapshots
  <2>8. BoardShapes'
    BY <1>1, <2>3, <2>7 DEF EvidenceInv, BoardShapes, Table
  <2>9. Dated'
    BY <1>1, <2>2, <2>3, <2>6 DEF EvidenceInv, Dated
  <2>10. ShownTurn'
    BY <1>1, <2>2, <2>3 DEF EvidenceInv, ShownTurn
  <2> QED BY <2>4, <2>5, <2>8, <2>9, <2>10 DEF EvidenceInv
<1>3. CASE ~Allowed(attaching)
  <2>1. UNCHANGED <<row, obs, acked, scan>>
    BY <1>3 DEF Acknowledge
  <2>2. BoardShapes' /\ Dated'
    BY <1>1, <2>1 DEF EvidenceInv, BoardShapes, Dated
  <2>3. EvidenceFits(obs')
    BY <2>1 DEF EvidenceInv
  <2> QED BY <2>1, <2>2, <2>3 DEF EvidenceInv, ShownTurn, RowProjectsEvidence
<1> QED BY <1>2, <1>3

\* Snapshots, lost callbacks, attaching, detaching and viewing.
LEMMA OthersKeepEvidence ==
  ASSUME EvidenceInv,
         \/ BeginReconcile \/ ReadCandidate \/ AbandonReconcile \/ Attach \/ Detach \/ View
         \/ \E h \in flight : LoseCallback(h)
         \/ UNCHANGED vars
  PROVE  EvidenceInv'
<1>1. /\ UNCHANGED <<clock, proc, turn, record, obs, row, leases, recovery, acked>>
      /\ flight' \subseteq flight
  BY DEF BeginReconcile, ReadCandidate, AbandonReconcile, Attach, Detach, View,
         LoseCallback, vars,
         providerVars, ledgerVars
<1>2. attached' \in BOOLEAN /\ viewer' \in Times \union {None}
  BY DEF BeginReconcile, ReadCandidate, AbandonReconcile, Attach, Detach, View,
         LoseCallback, vars,
         EvidenceInv, BoardShapes, Rows
<1>3. /\ scan' \in Snapshots \union {None}
      /\ scan' # None => scan'.row.activity <= clock
      /\ scan' # None /\ scan'.candidate # None => scan'.candidate.at <= turn.at
  <2>1. CASE BeginReconcile
    <3>1. scan' = [row |-> row, live |-> Live, attached |-> attached,
                   candidate |-> IF record.read = "never" THEN record ELSE None, fresh |-> TRUE]
      BY <2>1 DEF BeginReconcile
    <3>2. Live \in SUBSET Owners
      BY DEF Live
    <3> QED BY <3>1, <3>2 DEF Snapshots, EvidenceInv, BoardShapes, Dated
  <2>2. CASE ReadCandidate
    <3>1. /\ scan # None /\ scan' = [scan EXCEPT !.candidate = Hydrated(scan.row.activity)]
          /\ scan \in Snapshots
      BY <2>2 DEF ReadCandidate, EvidenceInv, BoardShapes
    <3>2. /\ Hydrated(scan.row.activity) \in Records
          /\ Hydrated(scan.row.activity).at = record.at
      BY DEF Hydrated, Records, EvidenceInv, BoardShapes
    <3>3. scan' \in Snapshots /\ scan'.row = scan.row
          /\ scan'.candidate = Hydrated(scan.row.activity)
      BY <3>1, <3>2 DEF Snapshots
    <3> QED BY <3>1, <3>2, <3>3 DEF EvidenceInv, Dated
  <2>3. CASE ~BeginReconcile /\ ~ReadCandidate
    <3>1. scan' \in {scan, None}
      BY <2>3 DEF AbandonReconcile, Attach, Detach, View, LoseCallback, vars
    <3> QED BY <3>1 DEF EvidenceInv, BoardShapes, Dated
  <2> QED BY <2>1, <2>2, <2>3
<1>4. BoardShapes'
  BY <1>1, <1>2, <1>3 DEF EvidenceInv, BoardShapes
<1>5. Dated'
  BY <1>1, <1>3 DEF EvidenceInv, Dated
<1>6. EvidenceFits(obs')
  BY <1>1 DEF EvidenceInv
<1> QED BY <1>1, <1>4, <1>5, <1>6 DEF EvidenceInv, ShownTurn, RowProjectsEvidence

LEMMA EvidenceInit == Init => EvidenceInv
<1> SUFFICES ASSUME Init PROVE EvidenceInv
  OBVIOUS
<1>1. 0 \in Times
  BY BoardConstants DEF Times
<1>2. /\ obs \in [Kinds -> Observations \union {None}]
      /\ obs["safety"] = None /\ obs["runtime"] = None
      /\ obs["lifecycle"] = [status |-> "PARKED", unread |-> FALSE, at |-> 0]
  BY <1>1 DEF Init, Kinds, Observation, Observations, Statuses
<1>3. row = [status |-> "PARKED", unread |-> FALSE, event |-> 0, activity |-> 0]
  BY DEF Init
<1>4. record \in Records /\ record.at = 0
  BY <1>1 DEF Init, NoRecord, Records
<1>5. BoardShapes
  <2>1. turn \in Turns
    BY <1>1 DEF Init, Turns
  <2>2. row \in Rows
    BY <1>1, <1>3 DEF Rows, Statuses
  <2>3. /\ clock \in Times /\ proc \in [Owners -> {"new", "live", "gone"}]
        /\ attached \in BOOLEAN /\ flight \subseteq Calls
        /\ leases \in [Owners -> Times \union {None}] /\ recovery \in Owners \union {None}
        /\ scan \in Snapshots \union {None} /\ viewer \in Times \union {None}
    BY <1>1 DEF Init
  <2> QED BY <1>2, <1>4, <2>1, <2>2, <2>3 DEF BoardShapes
<1>6. EvidenceFits(obs) /\ Dated /\ ShownTurn
  <2>1. clock = 0 /\ turn.at = 0 /\ flight = {} /\ scan = None
    BY DEF Init
  <2>2. EvidenceFits(obs)
    <3>1. obs["lifecycle"] \in Observations
      BY <1>1, <1>2 DEF Observations, Statuses
    <3>2. obs["lifecycle"].status = "PARKED" /\ obs["lifecycle"].unread = FALSE
      BY <1>2
    <3> QED BY <1>2, <3>1, <3>2, AbsentConstant DEF EvidenceFits
  <2>3. Dated
    BY <1>1, <1>2, <1>3, <1>4, <2>1 DEF Dated, Kinds
  <2> QED BY <1>2, <1>3, <2>2, <2>3 DEF ShownTurn
<1>7. RowProjectsEvidence
  <2> DEFINE shown == Project(obs, TRUE)
  <2>1. shown = [status |-> "PARKED", unread |-> FALSE, at |-> 0]
    BY <1>2 DEF Project, Stands, Observation
  <2>2. row.status = "PARKED" /\ row.unread = FALSE
    BY <1>3
  <2> HIDE DEF shown
  <2>3. shown.status = "PARKED" /\ shown.unread = FALSE
    BY <2>1
  <2> QED BY <2>2, <2>3 DEF RowProjectsEvidence, shown
<1> QED BY <1>5, <1>6, <1>7 DEF EvidenceInv

LEMMA EvidenceStep == EvidenceInv /\ [Next]_vars => EvidenceInv'
<1> SUFFICES ASSUME EvidenceInv, [Next]_vars PROVE EvidenceInv'
  OBVIOUS
<1>1. CASE \E o \in Owners : ProviderStep(o)
  BY <1>1, ProviderKeepsEvidence
<1>2. ASSUME NEW h \in flight, HandleHook(h) \/ HandleProcessExit(h) \/ LoseCallback(h)
      PROVE  EvidenceInv'
  BY <1>2, HookKeepsEvidence, ExitKeepsEvidence, OthersKeepEvidence
<1>3. CASE Reconcile
  BY <1>3, ReconcileKeepsEvidence, OthersKeepEvidence DEF Reconcile
<1>4. CASE UserStep
  BY <1>4, AcknowledgeKeepsEvidence, OthersKeepEvidence DEF UserStep
<1>5. CASE UNCHANGED vars
  BY <1>5, OthersKeepEvidence
<1> QED BY <1>1, <1>2, <1>3, <1>4, <1>5 DEF Next, CallbackStep

\* The stored row is what its evidence projects to (status.rs:37), whichever of
\* hook, exit, reconciliation and user wrote last, however often evidence is
\* recorded late and the row keeps the later time (store.rs:4477).
THEOREM RowAlwaysProjectsEvidence == Spec => []RowProjectsEvidence
<1>1. EvidenceInv => RowProjectsEvidence
  BY DEF EvidenceInv
<1> QED BY <1>1, EvidenceInit, EvidenceStep, PTL DEF Spec

-----------------------------------------------------------------------------
(* What was announced is shown until the user looks.  The provider's own   *)
(* records are read once, or past what the row has seen: where they are    *)
(* read always, an old record overwrites the hook (see README).            *)

\* The shapes that the steps below compare by.
LEMMA Sizes ==
  ASSUME EvidenceInv
  PROVE  /\ clock \in Nat /\ turn \in Turns /\ turn.at \in Nat /\ turn.at <= clock
         /\ \A h \in flight : /\ h \in Calls /\ h.owner \in Owners
                               /\ h.at \in Times /\ h.at \in Nat /\ h.at <= clock
         /\ obs \in Table /\ EvidenceFits(obs) /\ row \in Rows
         /\ \A k \in Kinds : obs[k] # None => obs[k].at \in Nat /\ obs[k].at <= clock
         /\ obs["lifecycle"] # None /\ obs["lifecycle"].at \in Nat /\ obs["lifecycle"].at <= clock
         /\ obs["runtime"] # None => obs["runtime"].at \in Nat /\ obs["runtime"].at <= clock
         /\ row.event \in Nat /\ row.activity \in Nat
         /\ scan # None => scan \in Snapshots
<1>1. \A t \in Times : t \in Nat
  BY BoardConstants DEF Times
<1>2. \A k \in Kinds : obs[k] # None => obs[k].at \in Times /\ obs[k].at <= clock
  BY DEF EvidenceInv, BoardShapes, Dated, Observations
<1>3. \A h \in flight : h \in Calls /\ h.owner \in Owners /\ h.at \in Times /\ h.at <= clock
  BY DEF EvidenceInv, BoardShapes, Dated, Calls
<1>4. /\ clock \in Times /\ turn \in Turns /\ turn.at \in Times /\ turn.at <= clock
      /\ row \in Rows /\ row.event \in Times /\ row.activity \in Times
      /\ obs \in Table /\ EvidenceFits(obs) /\ obs["lifecycle"] # None
      /\ scan # None => scan \in Snapshots
  BY DEF EvidenceInv, BoardShapes, Dated, Turns, Rows, Table, EvidenceFits
<1> QED BY <1>1, <1>2, <1>3, <1>4 DEF Kinds

\* Unread evidence of a turn is shown.
LEMMA UnreadShown ==
  ASSUME NEW ob \in Table, EvidenceFits(ob), NEW live \in BOOLEAN, ob["lifecycle"].unread,
         ob["runtime"] # None => ob["runtime"].unread
  PROVE  Project(ob, live).unread
<1>1. Stands(ob["lifecycle"], live)
  BY DEF EvidenceFits, Stands, Unfinished
<1> QED BY <1>1, Projected DEF EvidenceFits

\* An upsert keeps a result that its evidence keeps.
LEMMA UpsertKeepsResult ==
  ASSUME NEW ob \in Table, EvidenceFits(ob), NEW live \in BOOLEAN, NEW activity \in Times,
         row \in Rows, Upsert(ob, live, activity), NEW t \in Nat
  PROVE  /\ Keeps(ob, t) => row'.unread /\ Keeps(obs', t)
         /\ Awaits(ob, t) => Awaits(obs', t)
<1>1. /\ obs'["lifecycle"] = ob["lifecycle"]
      /\ obs'["runtime"] = ob["runtime"] \/ obs'["runtime"] = ob["lifecycle"]
      /\ row'.unread = Project(ob, live).unread
  BY UpsertShows
<1>2. ASSUME Keeps(ob, t) PROVE row'.unread
  BY <1>1, <1>2, UnreadShown DEF Keeps
<1>3. Keeps(ob, t) => Keeps(obs', t)
  BY <1>1 DEF Keeps
<1>4. Awaits(ob, t) => Awaits(obs', t)
  BY <1>1 DEF Awaits
<1> QED BY <1>2, <1>3, <1>4

\* An upsert with a live owner shows the turn that runs.
LEMMA UpsertShowsTurn ==
  ASSUME NEW ob \in Table, EvidenceFits(ob), NEW live \in BOOLEAN, live, NEW activity \in Times,
         row \in Rows, Upsert(ob, live, activity), ob["lifecycle"].status = "WORKING"
  PROVE  row'.status \in {"WORKING", "OPEN_TWICE"} /\ obs'["lifecycle"] = ob["lifecycle"]
<1> DEFINE shown == Project(ob, live)
<1>1. /\ obs'["lifecycle"] = ob["lifecycle"]
      /\ row' = [status |-> shown.status, unread |-> shown.unread,
                 event |-> Later(row.event, shown.at), activity |-> Later(row.activity, activity)]
  BY UpsertShows
<1>2. Stands(ob["lifecycle"], live)
  BY DEF Stands
<1>3. shown.status \in {"WORKING", "OPEN_TWICE"}
  BY <1>2, Projected DEF EvidenceFits
<1> QED BY <1>1, <1>3

\* An upsert moves the row's activity forward only.
LEMMA UpsertAdvances ==
  ASSUME NEW ob, NEW live, NEW activity \in Nat, row.activity \in Nat, Upsert(ob, live, activity)
  PROVE  row'.activity \in Nat /\ row.activity <= row'.activity /\ activity <= row'.activity
BY DEF Upsert, Later

\* A step of the provider.  A turn is dated later than everything recorded, so its
\* hook finds nothing newer.
LEMMA ProviderKeepsCalls ==
  ASSUME WatchInv, NEW o \in Owners, ProviderStep(o)
  PROVE  CallsFit'
<1>1. /\ clock \in Nat /\ turn \in Turns /\ turn.at \in Nat /\ turn.at <= clock
      /\ \A h \in flight : h.owner \in Owners /\ h.at \in Nat /\ h.at <= clock
      /\ proc \in [Owners -> {"new", "live", "gone"}] /\ CallsFit
  BY Sizes DEF WatchInv, EvidenceInv, BoardShapes
<1>2. ASSUME NEW event, NEW at
      PROVE  /\ Sent(o, event, at).owner = o /\ Sent(o, event, at).event = event
             /\ Sent(o, event, at).at = at /\ Sent(o, event, at).attached = attached
  BY DEF Sent
<1>3. CASE StartProvider(o)
  <2>1. /\ proc[o] = "new" /\ proc' = [proc EXCEPT ![o] = "live"] /\ turn'.status = "IDLE"
        /\ flight' = flight \union {Sent(o, "start", clock + 1)}
    BY <1>3 DEF StartProvider, Announce, NewTurn
  <2>2. \A h \in flight' : h.event \in Ends => h \in flight
    BY <1>2, <2>1 DEF Ends
  <2>3. \A h \in flight' : h.event \in Ends => proc'[h.owner] = "gone"
    BY <1>1, <2>1, <2>2 DEF CallsFit
  <2> QED BY <2>1, <2>3 DEF CallsFit, Unfinished
<1>4. CASE BeginTurn(o)
  <2>1. /\ proc[o] = "live" /\ proc' = proc
        /\ turn' = [status |-> "WORKING", at |-> clock + 1, by |-> o]
        /\ flight' = flight \union {Sent(o, "prompt", clock + 1)}
    BY <1>4 DEF BeginTurn, Announce, NewTurn, Live
  <2>2. \A h \in flight' : h \in flight \/ (h.event = "prompt" /\ h.owner = o)
    BY <1>2, <2>1
  <2>3. \A h \in flight' : h.event \in Ends => proc'[h.owner] = "gone"
    BY <1>1, <2>1, <2>2 DEF CallsFit, Ends
  <2>4. \A h \in flight : h.at < turn'.at
    BY <1>1, <2>1
  <2>5. \A h \in flight' : /\ h.at = turn'.at => h.event = "prompt" /\ h.owner = o
                           /\ ~(h.at > turn'.at)
    BY <1>1, <1>2, <2>1, <2>4
  <2>6. turn'.status = "WORKING" /\ turn'.by = o
    BY <2>1
  <2> QED BY <2>1, <2>3, <2>5, <2>6 DEF CallsFit, Unfinished
<1>5. ASSUME NEW result \in Unfinished, EndTurn(o, result) PROVE CallsFit'
  <2>1. /\ proc' = proc /\ noticed' = attached
        /\ turn' = [status |-> result, at |-> clock + 1, by |-> o]
        /\ flight' = flight \union {Sent(o, result, clock + 1)}
    BY <1>5 DEF EndTurn, Announce, NewTurn
  <2>2. \A h \in flight' : h \in flight \/ (/\ h.event = result /\ h.owner = o
                                            /\ h.at = clock + 1 /\ h.attached = attached)
    BY <1>2, <2>1
  <2>3. \A h \in flight' : h.event \in Ends => proc'[h.owner] = "gone"
    BY <1>1, <2>1, <2>2 DEF CallsFit, Ends, Unfinished
  <2>4. turn'.status = result /\ turn'.at = clock + 1 /\ turn'.by = o /\ result # "WORKING"
    BY <2>1 DEF Unfinished
  <2>5. \A h \in flight' : /\ h.at = turn'.at => /\ h.event = result /\ h.owner = o
                                                 /\ h.attached => noticed'
                           /\ ~(h.at > turn'.at)
    BY <1>1, <2>1, <2>2, <2>4
  <2> QED BY <2>3, <2>4, <2>5 DEF CallsFit
<1>6. CASE UseTool(o)
  <2>1. /\ UNCHANGED <<proc, turn, noticed>> /\ turn.status = "WORKING"
        /\ flight' = flight \union {Sent(o, "tool", clock + 1)}
    BY <1>6 DEF UseTool, Announce, providerVars
  <2>2. \A h \in flight' : h \in flight \/ (h.event = "tool" /\ h.at > turn.at)
    BY <1>1, <1>2, <2>1
  <2> QED BY <1>1, <2>1, <2>2 DEF CallsFit, Ends, Unfinished
<1>7. CASE Quit(o) \/ Crash(o) \/ Kill(o)
  <2>1. /\ proc[o] = "live" /\ proc' = [proc EXCEPT ![o] = "gone"] /\ noticed' = noticed
        /\ turn' = IF turn.status = "WORKING" /\ turn.by = o
                   THEN [turn EXCEPT !.status = "IDLE"] ELSE turn
    BY <1>7 DEF Quit, Crash, Kill, Leaves, Live
  <2>2. /\ flight \subseteq flight'
        /\ \A h \in flight' : \/ h \in flight
                              \/ /\ h.event \in Ends /\ h.owner = o /\ h.at > turn.at
                                 /\ h.event # "crash" => Waited(o)
    <3>1. CASE Quit(o)
      BY <1>1, <1>2, <3>1 DEF Quit, Ends
    <3>2. CASE Crash(o)
      BY <1>1, <1>2, <3>2 DEF Crash, Announce, Ends
    <3>3. CASE Kill(o)
      BY <3>3 DEF Kill
    <3> QED BY <1>7, <3>1, <3>2, <3>3
  <2>3. \A h \in flight' : h.event \in Ends => proc'[h.owner] = "gone"
    BY <1>1, <2>1, <2>2 DEF CallsFit
  <2>4. CASE turn.status = "WORKING" /\ turn.by = o
    <3>1. turn'.status = "IDLE"
      BY <1>1, <2>1, <2>4 DEF Turns
    <3> QED BY <2>3, <3>1 DEF CallsFit, Unfinished
  <2>5. CASE ~(turn.status = "WORKING" /\ turn.by = o)
    <3>1. turn' = turn
      BY <2>1, <2>5
    <3>2. turn.status = "WORKING" => /\ turn.by \in Owners /\ proc'[turn.by] = "live"
                                     /\ \A h \in flight' :
                                          /\ h.at = turn.at => h.event = "prompt" /\ h.owner = turn.by
                                          /\ h.at > turn.at => h.event \in Ends \union {"tool"}
      BY <1>1, <2>1, <2>2, <2>5 DEF CallsFit
    <3>3. ASSUME turn.status \in Unfinished, NEW h \in flight'
          PROVE  /\ h.at = turn.at => /\ h.event = turn.status /\ h.owner = turn.by
                                      /\ h.attached => noticed'
                 /\ h.at > turn.at => h.event \in Ends
      BY <1>1, <2>1, <2>2, <3>3 DEF CallsFit
    <3>4. ASSUME turn.status \in Unfinished, NEW h \in flight', h.at > turn.at,
                 h.owner = turn.by, h.event # "crash", NEW g \in flight', g.at = turn.at
          PROVE  FALSE
      <4>1. g \in flight /\ g.owner = turn.by /\ g.event # "tool"
        BY <1>1, <2>2, <3>4 DEF CallsFit, Unfinished
      <4>2. CASE h \in flight
        BY <1>1, <3>4, <4>1, <4>2 DEF CallsFit
      <4>3. CASE h \notin flight
        BY <2>2, <3>4, <4>1, <4>3 DEF Waited
      <4> QED BY <4>2, <4>3
    <3> QED BY <2>3, <3>1, <3>2, <3>3, <3>4 DEF CallsFit
  <2> QED BY <2>4, <2>5
<1> QED BY <1>3, <1>4, <1>5, <1>6, <1>7 DEF ProviderStep

LEMMA ProviderKeepsResult ==
  ASSUME WatchInv, NEW o \in Owners, ProviderStep(o)
  PROVE  ReadingFits' /\ SnapshotFits' /\ ResultKept' /\ TurnKept'
<1>1. /\ clock \in Nat /\ turn \in Turns /\ turn.at \in Nat /\ turn.at <= clock
      /\ \A h \in flight : h.at \in Nat /\ h.at <= clock
      /\ obs["lifecycle"].at \in Nat /\ obs["lifecycle"].at <= clock
      /\ obs["runtime"] # None => obs["runtime"].at \in Nat /\ obs["runtime"].at <= clock
      /\ record \in Records
  BY Sizes DEF WatchInv, EvidenceInv, BoardShapes
<1>2. UNCHANGED <<obs, row, leases, scan>>
  BY DEF ProviderStep, StartProvider, BeginTurn, UseTool, EndTurn, Quit, Crash, Kill,
         Leaves,
         ledgerVars
<1>3. ReadingFits'
  <2>1. record'.read = "never" => record'.status = None
    <3>1. ASSUME NEW status, Recording(status) PROVE record'.read = "never" => record'.status = None
      BY <1>1, <3>1 DEF Recording, Records, WatchInv, ReadingFits
    <3>2. record' = record \/ \E status \in {"WORKING", "READY"} : Recording(status)
      BY DEF ProviderStep, StartProvider, BeginTurn, UseTool, EndTurn, Quit, Crash,
             Kill, Leaves,
             providerVars
    <3> QED BY <3>1, <3>2 DEF WatchInv, ReadingFits
  <2> QED BY <1>2, <2>1 DEF WatchInv, ReadingFits
<1>4. CASE StartProvider(o) \/ BeginTurn(o) \/ \E result \in Unfinished : EndTurn(o, result)
  <2>1. /\ turn'.at = clock + 1 /\ delivered' = FALSE
    BY <1>4 DEF StartProvider, BeginTurn, EndTurn, NewTurn
  <2>2. SnapshotFits'
    BY <1>2, <2>1 DEF WatchInv, SnapshotFits
  <2>3. Awaits(obs', turn'.at) /\ obs'["lifecycle"].at <= turn'.at
    BY <1>1, <1>2, <2>1 DEF Awaits
  <2> QED BY <1>3, <2>1, <2>2, <2>3 DEF ResultKept, TurnKept
<1>5. CASE UseTool(o) \/ Quit(o) \/ Crash(o) \/ Kill(o)
  <2>1. /\ UNCHANGED <<delivered, overruled, noticed>>
        /\ turn'.at = turn.at /\ turn'.by = turn.by
        /\ turn'.status = turn.status \/ turn'.status = "IDLE"
    BY <1>1, <1>5 DEF UseTool, Quit, Crash, Kill, Leaves, providerVars, announced, Turns
  <2>2. InFlight' => InFlight
    <3>1. \A h \in flight' : h \in flight \/ h.at > turn.at
      BY <1>1, <1>5 DEF UseTool, Quit, Crash, Kill, Announce, Sent
    <3> QED BY <1>1, <2>1, <3>1 DEF InFlight
  <2>3. SnapshotFits'
    BY <1>2, <2>1 DEF WatchInv, SnapshotFits
  <2>4. Keeps(obs', turn'.at) <=> Keeps(obs, turn.at)
    BY <1>2, <2>1 DEF Keeps
  <2>5. Awaits(obs', turn'.at) <=> Awaits(obs, turn.at)
    BY <1>2, <2>1 DEF Awaits
  <2>6. ResultKept'
    BY <1>2, <2>1, <2>2, <2>4, <2>5 DEF WatchInv, ResultKept, Unfinished
  <2>7. TurnKept'
    BY <1>2, <2>1, <2>2 DEF WatchInv, TurnKept
  <2> QED BY <1>3, <2>3, <2>6, <2>7
<1> QED BY <1>4, <1>5 DEF ProviderStep

\* Callbacks only leave: no other process joins them, and the user does not forget.
LEMMA FewerCallsFit ==
  ASSUME CallsFit, flight' \subseteq flight, UNCHANGED <<proc, turn>>, noticed => noticed'
  PROVE  CallsFit'
BY DEF CallsFit

\* A commit outdates the snapshot and leaves what it has read.
LEMMA CommitFits ==
  ASSUME WatchInv, Committed, UNCHANGED <<record, turn>>,
         row.activity \in Nat, row'.activity \in Nat, turn.at \in Nat,
         row.activity <= row'.activity,
         delivered' => delivered \/ turn.at <= row'.activity
  PROVE  ReadingFits' /\ SnapshotFits'
<1>1. scan # None => scan \in Snapshots
  BY Sizes DEF WatchInv
<1>2. /\ scan' # None => scan # None /\ scan'.row = scan.row /\ scan'.candidate = scan.candidate
      /\ scan' # None => scan'.fresh = FALSE
  BY <1>1 DEF Committed, Snapshots
<1>3. ReadingFits'
  BY <1>2 DEF WatchInv, ReadingFits
<1>4. delivered' => turn.at <= row'.activity
  BY DEF WatchInv, SnapshotFits
<1> QED BY <1>2, <1>3, <1>4 DEF SnapshotFits

\* What a hook announces.
LEMMA AnnouncedAs ==
  ASSUME NEW h \in Calls, h.event \in HookEvents
  PROVE  /\ Announced(h).status = EventStatus(h.event)
         /\ Announced(h).at = h.at
         /\ Announced(h).unread <=> h.event \in Unfinished /\ ~(h.event = "READY" /\ h.attached)
<1> DEFINE unread == h.event \in Unfinished /\ ~(h.event = "READY" /\ h.attached)
<1>1. EventStatus(h.event) \in Statuses /\ unread \in BOOLEAN /\ h.at \in Times
  <2>1. EventStatus(h.event) \in Unfinished \union {"WORKING", "PARKED"}
    BY DEF EventStatus, HookEvents, Unfinished
  <2> QED BY <2>1 DEF Calls, Statuses
<1>2. Announced(h) = Observation(EventStatus(h.event), unread, h.at)
  BY DEF Announced
<1> HIDE DEF unread
<1>3. /\ Announced(h).status = EventStatus(h.event) /\ Announced(h).unread = unread
      /\ Announced(h).at = h.at
  BY <1>1, <1>2, ObservationOf
<1> QED BY <1>3 DEF unread

\* A hook commits.
LEMMA HookKeepsWatch ==
  ASSUME WatchInv, NEW h \in flight, HandleHook(h)
  PROVE  CallsFit' /\ ReadingFits' /\ SnapshotFits' /\ ResultKept' /\ TurnKept'
<1> DEFINE ev == HookEvidence(h)
           new == HookObservation(h)
           live == h.event # "end" \/ HasLease(leases')
           t == turn.at
<1>1. /\ h.event \in HookEvents
      /\ UNCHANGED <<proc, turn, record, noticed>>
      /\ flight' = flight \ {h} /\ leases' = UpdatedLeases(h)
      /\ delivered' = (delivered \/ h.at = t) /\ overruled' = (overruled \/ Overrules(h))
      /\ Committed
      /\ Upsert(ev, live, h.at)
  BY DEF HandleHook, HookEvidence, providerVars
<1>2. /\ EvidenceInv /\ t \in Nat
      /\ h \in Calls /\ h.owner \in Owners /\ h.at \in Times /\ h.at \in Nat
      /\ obs \in Table /\ EvidenceFits(obs) /\ row \in Rows
      /\ obs["lifecycle"].at \in Nat
      /\ obs["runtime"] # None => obs["runtime"].at \in Nat
      /\ row.event \in Nat /\ row.activity \in Nat
  BY Sizes DEF WatchInv
<1>3. /\ new \in Observations /\ new.at \in Nat
      /\ \/ h.event = "end" /\ KeptUnread /\ new.unread
         \/ ~(h.event = "end" /\ KeptUnread) /\ new = Announced(h)
      /\ ev \in Table /\ EvidenceFits(ev)
      /\ ev["lifecycle"] = IF new.at >= obs["lifecycle"].at THEN new ELSE obs["lifecycle"]
      /\ ev["runtime"] = IF h.event # "end" /\ obs["runtime"] # None /\ obs["runtime"].at <= h.at
                         THEN None ELSE obs["runtime"]
  <2>1. new \in Observations => new.at \in Nat
    BY BoardConstants DEF Observations, Times
  <2> HIDE DEF new, ev
  <2> QED BY <1>1, <1>2, <2>1, HookRecords DEF new, ev
<1>4. Announced(h).at = h.at
  BY <1>1, <1>2, AnnouncedAs
<1>5. live \in BOOLEAN /\ (delivered' => delivered \/ h.at = t)
  BY <1>1
<1> HIDE DEF ev, new, live, t
<1>6. /\ obs'["lifecycle"] = ev["lifecycle"]
      /\ Keeps(ev, t) => row'.unread /\ Keeps(obs', t)
      /\ Awaits(ev, t) => Awaits(obs', t)
  BY <1>1, <1>2, <1>3, <1>5, UpsertShows, UpsertKeepsResult
<1>7. CallsFit' /\ ReadingFits' /\ SnapshotFits'
  <2>1. row'.activity \in Nat /\ row.activity <= row'.activity /\ h.at <= row'.activity
    BY <1>1, <1>2, UpsertAdvances
  <2>2. ReadingFits' /\ SnapshotFits'
    BY <1>1, <1>2, <2>1, CommitFits DEF t
  <2>3. CallsFit
    BY DEF WatchInv
  <2> QED BY <1>1, <2>2, <2>3, FewerCallsFit
\* The end of a session replaces a turn only by overruling it.
<1>8. ASSUME h.event = "end", ~Overrules(h), h.owner # turn.by \/ row.status = "OPEN_TWICE",
             turn.status = "WORKING" \/ ~ev["lifecycle"].unread
      PROVE  ev["lifecycle"] = obs["lifecycle"] \/ ev["lifecycle"].at <= t
  <2>1. ev["lifecycle"].at \in Nat
    BY <1>2, <1>3
  <2> QED BY <1>2, <1>6, <1>8, <2>1 DEF Overrules, t
<1>9. ResultKept'
  <2> SUFFICES ASSUME turn.status \in Unfinished, ~noticed, ~overruled, ~Overrules(h)
               PROVE  /\ delivered' => row'.unread /\ Keeps(obs', t)
                      /\ InFlight' => Awaits(obs', t)
    BY <1>1 DEF ResultKept, t
  <2>1. /\ delivered => row.unread /\ Keeps(obs, t)
        /\ InFlight => Awaits(obs, t)
    BY DEF WatchInv, ResultKept, t
  <2>2. InFlight' => InFlight
    BY <1>1 DEF InFlight
  <2>3. Keeps(ev, t) => Awaits(ev, t)
    BY DEF Keeps, Awaits
  <2>4. CASE h.at = t
    <3>1. h.event \in Unfinished /\ ~h.attached /\ InFlight
      BY <2>4 DEF WatchInv, CallsFit, InFlight, t
    <3>2. new.unread /\ new.at = t
      BY <1>1, <1>2, <1>3, <2>4, <3>1, AnnouncedAs DEF Unfinished
    <3>3. Keeps(ev, t)
      BY <1>2, <1>3, <2>1, <2>4, <3>1, <3>2 DEF Keeps, Awaits, Unfinished
    <3> QED BY <1>6, <2>3, <3>3
  <2>5. CASE h.at < t
    <3>1. delivered' => delivered
      BY <1>2, <1>5, <2>5
    <3>2. delivered => Keeps(ev, t)
      BY <1>2, <1>3, <1>4, <2>1, <2>5 DEF Keeps
    <3>3. InFlight => Awaits(ev, t)
      BY <1>2, <1>3, <1>4, <2>1, <2>5 DEF Awaits
    <3> QED BY <1>6, <2>2, <3>1, <3>2, <3>3
  <2>6. CASE h.at > t
    <3>1. h.event = "end" /\ (delivered' => delivered)
      BY <1>1, <1>2, <2>6 DEF WatchInv, CallsFit, Ends, HookEvents, Unfinished, t
    <3>2. ASSUME delivered PROVE Keeps(ev, t)
      <4>1. CASE KeptUnread
        BY <1>2, <1>3, <2>1, <3>1, <3>2, <4>1 DEF Keeps
      <4>2. CASE ~KeptUnread
        <5>1. row.status = "OPEN_TWICE"
          BY <2>1, <3>2, <4>2 DEF KeptUnread
        <5>2. new = Announced(h) /\ ~new.unread /\ new.at = h.at
          BY <1>1, <1>2, <1>3, <3>1, <4>2, AnnouncedAs DEF Unfinished
        <5>3. ev["lifecycle"] = obs["lifecycle"]
          BY <1>2, <1>3, <1>8, <2>6, <3>1, <5>1, <5>2
        <5> QED BY <1>3, <2>1, <3>1, <3>2, <5>3 DEF Keeps
      <4> QED BY <4>1, <4>2
    <3>3. ASSUME InFlight PROVE Awaits(ev, t)
      <4>1. h.owner # turn.by
        BY <2>6, <3>1, <3>3 DEF WatchInv, CallsFit, InFlight, t
      <4>2. CASE ev["lifecycle"].unread
        BY <1>3, <2>1, <3>1, <3>3, <4>2 DEF Awaits
      <4>3. CASE ~ev["lifecycle"].unread
        BY <1>3, <1>8, <2>1, <3>1, <3>3, <4>1, <4>3 DEF Awaits
      <4> QED BY <4>2, <4>3
    <3> QED BY <1>6, <2>2, <3>1, <3>2, <3>3
  <2> QED BY <1>2, <2>4, <2>5, <2>6
<1>10. TurnKept'
  <2> SUFFICES ASSUME turn.status = "WORKING", ~overruled, ~Overrules(h)
               PROVE  /\ delivered' => /\ row'.status \in {"WORKING", "OPEN_TWICE"}
                                       /\ obs'["lifecycle"].status = "WORKING"
                                       /\ t <= obs'["lifecycle"].at
                                       /\ leases'[turn.by] # None
                      /\ InFlight' => \/ obs'["lifecycle"].status = "WORKING"
                                      \/ obs'["lifecycle"].at <= t
    BY <1>1 DEF TurnKept, t
  <2>1. /\ delivered => /\ row.status \in {"WORKING", "OPEN_TWICE"}
                        /\ obs["lifecycle"].status = "WORKING" /\ t <= obs["lifecycle"].at
                        /\ leases[turn.by] # None
        /\ InFlight => obs["lifecycle"].status = "WORKING" \/ obs["lifecycle"].at <= t
    BY DEF WatchInv, TurnKept, t
  <2>2. InFlight' => InFlight
    BY <1>1 DEF InFlight
  <2>3. turn.by \in Owners /\ (h.event = "end" => h.owner # turn.by)
    BY DEF WatchInv, CallsFit, Ends
  <2>4. delivered' => leases'[turn.by] # None
    <3>1. leases \in [Owners -> Times \union {None}] /\ h.at # None
      BY <1>2, AbsentConstant DEF EvidenceInv, BoardShapes
    <3>2. CASE h.event = "end"
      <4>1. h.at # t
        BY <3>2 DEF WatchInv, CallsFit, t
      <4> QED BY <1>1, <2>1, <2>3, <3>1, <3>2, <4>1 DEF UpdatedLeases
    <3>3. CASE h.event # "end" /\ h.owner = turn.by
      BY <1>1, <2>3, <3>1, <3>3 DEF UpdatedLeases
    <3>4. CASE h.event # "end" /\ h.owner # turn.by
      <4>1. h.at # t
        BY <3>4 DEF WatchInv, CallsFit, t
      <4> QED BY <1>1, <1>2, <2>1, <2>3, <3>1, <3>4, <4>1 DEF UpdatedLeases
    <3> QED BY <3>2, <3>3, <3>4
  <2>5. delivered' => live
    BY <2>3, <2>4 DEF live, HasLease
  <2>6. /\ delivered' => ev["lifecycle"].status = "WORKING" /\ t <= ev["lifecycle"].at
        /\ InFlight => ev["lifecycle"].status = "WORKING" \/ ev["lifecycle"].at <= t
    <3>1. CASE h.event \in {"prompt", "tool"}
      <4>1. new.status = "WORKING" /\ new.at = h.at
        BY <1>1, <1>2, <1>3, <3>1, AnnouncedAs DEF EventStatus
      <4>2. CASE h.at = t
        <5>1. InFlight
          BY <4>2 DEF InFlight, t
        <5> QED BY <1>2, <1>3, <2>1, <4>1, <4>2, <5>1
      <4>3. CASE h.at # t
        BY <1>2, <1>3, <1>5, <2>1, <4>1, <4>3
      <4> QED BY <4>2, <4>3
    <3>2. CASE h.event = "end"
      <4>1. h.at # t
        BY <3>2 DEF WatchInv, CallsFit, t
      <4>2. ev["lifecycle"] = obs["lifecycle"] \/ ev["lifecycle"].at <= t
        BY <1>8, <2>3, <3>2
      <4>3. ASSUME delivered PROVE ev["lifecycle"] = obs["lifecycle"]
        <5>1. ~KeptUnread
          <6>1. row.status \notin Unfinished \union {"EXITED"}
            BY <2>1, <4>3 DEF Unfinished
          <6> QED BY <1>2, <6>1, UnreadResult DEF KeptUnread
        <5>2. new.at = h.at
          BY <1>3, <1>4, <5>1
        <5> QED BY <1>2, <1>3, <2>1, <4>1, <4>2, <4>3, <5>2
      <4> QED BY <1>1, <2>1, <4>1, <4>2, <4>3
    <3>3. CASE h.event \notin {"prompt", "tool", "end"}
      <4>1. h.at < t
        BY <1>1, <1>2, <3>3 DEF WatchInv, CallsFit, Ends, HookEvents, Unfinished, t
      <4>2. new.at = h.at
        BY <1>3, <1>4, <3>3
      <4> QED BY <1>2, <1>3, <1>5, <2>1, <4>1, <4>2
    <3> QED BY <3>1, <3>2, <3>3
  <2>7. delivered' => row'.status \in {"WORKING", "OPEN_TWICE"}
    BY <1>1, <1>2, <1>3, <1>5, <2>5, <2>6, UpsertShowsTurn
  <2> QED BY <1>6, <2>2, <2>4, <2>6, <2>7
<1> QED BY <1>7, <1>9, <1>10

\* The exit callback of a provider.
LEMMA ExitKeepsWatch ==
  ASSUME WatchInv, NEW h \in flight, HandleProcessExit(h)
  PROVE  CallsFit' /\ ReadingFits' /\ SnapshotFits' /\ ResultKept' /\ TurnKept'
<1> DEFINE ev == ExitEvidence(h)
           t == turn.at
<1>1. /\ h.event \in Callbacks /\ h.event \in Ends
      /\ UNCHANGED <<proc, turn, record, noticed, delivered>>
      /\ flight' = flight \ {h}
  BY DEF HandleProcessExit, providerVars, Callbacks, Ends
<1>2. /\ EvidenceInv /\ t \in Nat
      /\ h \in Calls /\ h.owner \in Owners /\ h.at \in Times /\ h.at \in Nat
      /\ obs \in Table /\ EvidenceFits(obs) /\ row \in Rows
      /\ obs["lifecycle"].at \in Nat
      /\ obs["runtime"] # None => obs["runtime"].at \in Nat
      /\ row.activity \in Nat /\ CallsFit
  BY Sizes DEF WatchInv
<1>3. CallsFit'
  BY <1>1, <1>2, FewerCallsFit
<1>4. InFlight' => InFlight
  BY <1>1 DEF InFlight
<1>5. CASE UNCHANGED <<leases, obs, row, scan, overruled>>
  <2>1. ReadingFits' /\ SnapshotFits'
    BY <1>1, <1>5 DEF WatchInv, ReadingFits, SnapshotFits
  <2>2. Keeps(obs', turn'.at) <=> Keeps(obs, turn.at)
    BY <1>1, <1>5 DEF Keeps
  <2>3. Awaits(obs', turn'.at) <=> Awaits(obs, turn.at)
    BY <1>1, <1>5 DEF Awaits
  <2>4. ResultKept'
    BY <1>1, <1>4, <1>5, <2>2, <2>3 DEF WatchInv, ResultKept
  <2>5. TurnKept'
    BY <1>1, <1>4, <1>5 DEF WatchInv, TurnKept
  <2> QED BY <1>3, <2>1, <2>4, <2>5
<1>6. CASE ExitAuthority(h)
  <2>1. /\ leases' = [leases EXCEPT ![h.owner] = None]
        /\ IF HasLease(leases') THEN UNCHANGED <<row, obs>> ELSE Upsert(ev, FALSE, h.at)
        /\ overruled' = (overruled \/ Overrules(h))
        /\ Committed
    BY <1>6 DEF HandleProcessExit
  <2>2. overruled' => overruled \/ Overrules(h)
    BY <2>1
  <2>3. ~overruled' => ~overruled /\ ~Overrules(h)
    BY <2>1
  <2>4. /\ row'.activity \in Nat /\ row.activity <= row'.activity
    <3>1. CASE UNCHANGED <<row, obs>>
      BY <1>2, <3>1
    <3>2. CASE Upsert(ev, FALSE, h.at)
      BY <1>2, <3>2, UpsertAdvances
    <3> QED BY <2>1, <3>1, <3>2
  <2>5. ReadingFits' /\ SnapshotFits'
    BY <1>1, <1>2, <2>1, <2>4, CommitFits DEF t
  \* The owner of a running turn is alive and has its lease.
  <2>6. turn.status = "WORKING" => /\ turn.by \in Owners /\ h.owner # turn.by
                                   /\ leases'[turn.by] = leases[turn.by]
    <3>1. turn.status = "WORKING" => turn.by \in Owners /\ h.owner # turn.by
      BY <1>1, <1>2 DEF CallsFit
    <3> QED BY <2>1, <3>1 DEF WatchInv, EvidenceInv, BoardShapes
  <2>7. CASE HasLease(leases')
    <3>1. UNCHANGED <<row, obs>>
      BY <2>1, <2>7
    <3>2. Keeps(obs', turn'.at) <=> Keeps(obs, turn.at)
      BY <1>1, <3>1 DEF Keeps
    <3>3. Awaits(obs', turn'.at) <=> Awaits(obs, turn.at)
      BY <1>1, <3>1 DEF Awaits
    <3>4. ResultKept'
      BY <1>1, <1>4, <2>3, <3>1, <3>2, <3>3 DEF WatchInv, ResultKept
    <3>5. TurnKept'
      BY <1>1, <1>4, <2>3, <2>6, <3>1 DEF WatchInv, TurnKept
    <3> QED BY <1>3, <2>5, <3>4, <3>5
  <2>8. CASE ~HasLease(leases')
    <3> DEFINE parked == Observation("PARKED", FALSE, h.at)
               ended == Observation("EXITED", TRUE, h.at)
    <3>1. /\ ev \in Table /\ EvidenceFits(ev)
          /\ h.event = "crash" => /\ ev["lifecycle"] = obs["lifecycle"]
                                  /\ ev["runtime"] \in {obs["runtime"], ended}
          /\ h.event # "crash" /\ row.unread => ev = obs
          /\ h.event # "crash" /\ ~row.unread =>
               /\ ev["runtime"] = None
               /\ ev["lifecycle"] = IF h.at >= obs["lifecycle"].at THEN parked ELSE obs["lifecycle"]
      BY <1>1, <1>2, ExitRecords
    <3>2. parked.unread = FALSE /\ parked.at = h.at /\ ended.unread
      BY DEF Observation
    <3> HIDE DEF parked, ended, ev, t
    <3>3. /\ obs'["lifecycle"] = ev["lifecycle"]
          /\ Keeps(ev, t) => row'.unread /\ Keeps(obs', t)
          /\ Awaits(ev, t) => Awaits(obs', t)
      <4>1. Upsert(ev, FALSE, h.at) /\ FALSE \in BOOLEAN
        BY <2>1, <2>8
      <4> QED BY <1>2, <3>1, <4>1, UpsertShows, UpsertKeepsResult
    <3>4. ASSUME h.event # "crash", ~Overrules(h), h.owner # turn.by,
                 turn.status = "WORKING" \/ ~ev["lifecycle"].unread
          PROVE  ev["lifecycle"] = obs["lifecycle"] \/ ev["lifecycle"].at <= t
      <4>1. ev["lifecycle"].at \in Nat
        BY <1>2, <3>1, <3>2, <3>4
      <4> QED BY <1>1, <1>2, <3>3, <3>4, <4>1 DEF Overrules, Callbacks, t
    <3>5. ResultKept'
      <4> SUFFICES ASSUME turn.status \in Unfinished, ~noticed, ~overruled, ~Overrules(h)
                   PROVE  /\ delivered => row'.unread /\ Keeps(obs', t)
                          /\ InFlight' => Awaits(obs', t)
        BY <1>1, <2>3 DEF ResultKept, t
      <4>1. /\ delivered => row.unread /\ Keeps(obs, t)
            /\ InFlight => Awaits(obs, t)
        BY DEF WatchInv, ResultKept, t
      <4>2. CASE h.event = "crash"
        <5>1. delivered => Keeps(ev, t)
          BY <3>1, <3>2, <4>1, <4>2 DEF Keeps
        <5>2. InFlight => Awaits(ev, t)
          BY <3>1, <3>2, <4>1, <4>2 DEF Awaits
        <5> QED BY <1>4, <3>3, <5>1, <5>2
      <4>3. CASE h.event # "crash" /\ row.unread
        BY <1>4, <3>1, <3>3, <4>1, <4>3
      <4>4. CASE h.event # "crash" /\ ~row.unread
        <5>1. ASSUME InFlight PROVE Awaits(ev, t)
          <6>1. h.at # t
            BY <1>1, <1>2 DEF CallsFit, Ends, Unfinished, t
          <6>2. CASE h.at < t
            BY <1>2, <3>1, <3>2, <4>1, <4>4, <5>1, <6>2 DEF Awaits
          <6>3. CASE h.at > t
            <7>1. h.owner # turn.by
              BY <1>2, <4>4, <5>1, <6>3 DEF CallsFit, InFlight, t
            <7>2. ~ev["lifecycle"].unread =>
                    ev["lifecycle"] = obs["lifecycle"] \/ ev["lifecycle"].at <= t
              BY <3>4, <4>4, <7>1
            <7> QED BY <3>1, <4>1, <4>4, <5>1, <7>2 DEF Awaits
          <6> QED BY <1>2, <6>1, <6>2, <6>3
        <5> QED BY <1>4, <3>3, <4>1, <4>4, <5>1
      <4> QED BY <4>2, <4>3, <4>4
    <3>6. TurnKept'
      <4> SUFFICES ASSUME turn.status = "WORKING", ~overruled, ~Overrules(h)
                   PROVE  /\ ~delivered
                          /\ InFlight => ev["lifecycle"].status = "WORKING" \/ ev["lifecycle"].at <= t
        BY <1>1, <1>4, <2>3, <3>3 DEF TurnKept, t
      <4>1. /\ delivered => leases[turn.by] # None
            /\ InFlight => obs["lifecycle"].status = "WORKING" \/ obs["lifecycle"].at <= t
        BY DEF WatchInv, TurnKept, t
      <4>2. ~delivered
        BY <2>6, <2>8, <4>1 DEF HasLease
      <4>3. h.event = "crash" => ev["lifecycle"] = obs["lifecycle"]
        BY <3>1
      <4>4. h.event # "crash" => ev["lifecycle"] = obs["lifecycle"] \/ ev["lifecycle"].at <= t
        BY <2>6, <3>4
      <4> QED BY <4>1, <4>2, <4>3, <4>4
    <3> QED BY <1>3, <2>5, <3>5, <3>6
  <2> QED BY <2>7, <2>8
<1> QED BY <1>5, <1>6 DEF HandleProcessExit, ledgerVars

\* A reconciliation commits: what it read of the record is older than the hook of
\* the turn, or is not there.
LEMMA ReconcileKeepsWatch ==
  ASSUME WatchInv, CommitReconcile
  PROVE  CallsFit' /\ ReadingFits' /\ SnapshotFits' /\ ResultKept' /\ TurnKept'
<1> DEFINE c == scan.candidate
           ev == WithSafety(CandidateEvidence(c))
           live == scan.live # {}
           activity == Later(scan.row.activity, c.at)
           t == turn.at
<1>1. /\ scan # None /\ scan \in Snapshots /\ c # None /\ scan.fresh /\ Unsuperseded
      /\ UNCHANGED <<proc, turn, record, flight, noticed, delivered, overruled>>
      /\ leases' = [o \in Owners |-> IF o \in scan.live THEN leases[o] ELSE None]
      /\ scan' = None
      /\ Upsert(ev, live, activity)
  BY Sizes DEF CommitReconcile, Unsuperseded, providerVars, announced, WatchInv
<1>2. /\ EvidenceInv /\ t \in Nat /\ obs \in Table /\ EvidenceFits(obs) /\ row \in Rows
      /\ obs["lifecycle"].at \in Nat
      /\ obs["runtime"] # None => obs["runtime"].at \in Nat
      /\ row.activity \in Nat /\ row.activity \in Times
  BY Sizes DEF WatchInv, Rows
<1>3. /\ scan.row = row /\ c \in Records /\ c.at \in Times /\ c.at \in Nat /\ c.at <= t
      /\ c.status # None => c.at > row.activity
      /\ delivered => t <= row.activity
  <2>1. \A n \in Times : n \in Nat
    BY BoardConstants DEF Times
  <2> QED BY <1>1, <2>1 DEF WatchInv, SnapshotFits, ReadingFits, EvidenceInv, Dated,
                            Snapshots, Records
<1>4. delivered => c.status = None
  BY <1>2, <1>3
<1>5. /\ ev \in Table /\ EvidenceFits(ev) /\ ev["runtime"] = obs["runtime"]
      /\ c.status = None => ev["lifecycle"] = obs["lifecycle"]
      /\ c.status # None => ev["lifecycle"] = obs["lifecycle"] \/ ev["lifecycle"].at = c.at
  <2>1. /\ clock \in Times /\ clock \in Nat /\ Tick \in Times /\ clock <= Tick
    BY BoardConstants DEF WatchInv, EvidenceInv, BoardShapes, Tick, Times
  <2>2. /\ ev \in Table /\ EvidenceFits(ev) /\ ev["runtime"] = obs["runtime"]
        /\ c.status = None => ev["lifecycle"] = obs["lifecycle"]
        /\ ev["lifecycle"] = obs["lifecycle"] \/ ev["lifecycle"].at = Later(c.at, scan.row.activity)
    <3>1. Tick <= Tick
      BY <2>1, BoardConstants DEF Times
    <3> QED BY <1>1, <1>2, <2>1, <3>1, ReconcileRecords
  <2>3. c.status # None => Later(c.at, scan.row.activity) = c.at
    BY <1>2, <1>3 DEF Later
  <2> QED BY <2>2, <2>3
<1>6. activity \in Times /\ activity \in Nat /\ live \in BOOLEAN
  <2>1. Later(row.activity, c.at) \in {row.activity, c.at}
    BY DEF Later
  <2> QED BY <1>2, <1>3, <2>1
<1> HIDE DEF ev, live, activity, t, c
<1>7. /\ obs'["lifecycle"] = ev["lifecycle"]
      /\ Keeps(ev, t) => row'.unread /\ Keeps(obs', t)
      /\ Awaits(ev, t) => Awaits(obs', t)
  BY <1>1, <1>2, <1>5, <1>6, UpsertShows, UpsertKeepsResult
<1>8. CallsFit'
  BY <1>1, FewerCallsFit DEF WatchInv
<1>9. ReadingFits' /\ SnapshotFits'
  <2>1. row'.activity \in Nat /\ row.activity <= row'.activity
    BY <1>1, <1>2, <1>6, UpsertAdvances
  <2>2. delivered' => turn'.at <= row'.activity
    BY <1>1, <1>2, <1>3, <2>1 DEF t
  <2>3. ReadingFits'
    BY <1>1 DEF WatchInv, ReadingFits
  <2> QED BY <1>1, <2>2, <2>3 DEF SnapshotFits
<1>10. InFlight' <=> InFlight
  BY <1>1 DEF InFlight
<1>11. ResultKept'
  <2> SUFFICES ASSUME turn.status \in Unfinished, ~noticed, ~overruled
               PROVE  /\ delivered => row'.unread /\ Keeps(obs', t)
                      /\ InFlight => Awaits(obs', t)
    BY <1>1, <1>10 DEF ResultKept, t
  <2>1. /\ delivered => row.unread /\ Keeps(obs, t)
        /\ InFlight => Awaits(obs, t)
    BY DEF WatchInv, ResultKept, t
  <2>2. delivered => Keeps(ev, t)
    BY <1>4, <1>5, <2>1 DEF Keeps
  <2>3. InFlight => Awaits(ev, t)
    BY <1>3, <1>5, <2>1 DEF Awaits
  <2> QED BY <1>7, <2>2, <2>3
<1>12. TurnKept'
  <2> SUFFICES ASSUME turn.status = "WORKING", ~overruled
               PROVE  /\ delivered => /\ row'.status \in {"WORKING", "OPEN_TWICE"}
                                      /\ obs'["lifecycle"].status = "WORKING"
                                      /\ t <= obs'["lifecycle"].at
                                      /\ leases'[turn.by] # None
                      /\ InFlight => \/ obs'["lifecycle"].status = "WORKING"
                                     \/ obs'["lifecycle"].at <= t
    BY <1>1, <1>10 DEF TurnKept, t
  <2>1. /\ delivered => /\ obs["lifecycle"].status = "WORKING" /\ t <= obs["lifecycle"].at
                        /\ leases[turn.by] # None
        /\ InFlight => obs["lifecycle"].status = "WORKING" \/ obs["lifecycle"].at <= t
    BY DEF WatchInv, TurnKept, t
  <2>2. delivered => turn.by \in scan.live /\ turn.by \in Owners /\ live
    BY <1>1 DEF WatchInv, SnapshotFits, CallsFit, live
  <2>3. delivered => ev["lifecycle"] = obs["lifecycle"]
    BY <1>4, <1>5
  <2>4. delivered => row'.status \in {"WORKING", "OPEN_TWICE"}
    BY <1>1, <1>2, <1>5, <1>6, <2>1, <2>2, <2>3, UpsertShowsTurn
  <2>5. delivered => leases'[turn.by] # None
    BY <1>1, <2>1, <2>2
  <2>6. InFlight => ev["lifecycle"].status = "WORKING" \/ ev["lifecycle"].at <= t
    BY <1>3, <1>5, <2>1
  <2> QED BY <1>7, <2>1, <2>3, <2>4, <2>5, <2>6
<1> QED BY <1>8, <1>9, <1>11, <1>12

\* The user acknowledges an event.  Whoever peeks at a READY row of the turn has
\* seen its result.
LEMMA AcknowledgeKeepsWatch ==
  ASSUME WatchInv, NEW attaching \in BOOLEAN, Acknowledge(attaching)
  PROVE  CallsFit' /\ ReadingFits' /\ SnapshotFits' /\ ResultKept' /\ TurnKept'
<1> DEFINE t == turn.at
<1>1. /\ UNCHANGED <<clock, proc, turn, record, attached, flight, leases, delivered, overruled>>
  BY DEF Acknowledge, providerVars, announced
<1>2. /\ EvidenceInv /\ t \in Nat /\ obs \in Table /\ EvidenceFits(obs) /\ row \in Rows
      /\ obs["lifecycle"] # None /\ obs["lifecycle"].at \in Nat
      /\ obs["runtime"] # None => obs["runtime"].at \in Nat
      /\ row.activity \in Nat /\ row.event \in Nat
  BY Sizes DEF WatchInv
<1>3. InFlight' <=> InFlight
  BY <1>1 DEF InFlight
<1>4. CASE Allowed(attaching)
  <2>1. /\ row.event = viewer
        /\ row.status \in {"READY"} \union (IF attaching THEN {"FAILED", "EXITED"} ELSE {})
        /\ row' = [row EXCEPT !.unread = FALSE]
        /\ obs' = [k \in Kinds |-> Read(obs[k])]
        /\ noticed' = (noticed \/ attaching \/ viewer >= turn.at)
        /\ Committed
    BY <1>4 DEF Acknowledge, Allowed, Acknowledgeable
  <2>2. /\ row'.status = row.status /\ row'.activity = row.activity
    BY <1>2, <2>1 DEF Rows
  <2>3. /\ noticed => noticed'
        /\ ~noticed' => ~noticed /\ ~attaching /\ ~(row.event >= t)
    BY <2>1
  <2>4. CallsFit'
    <3>1. CallsFit
      BY DEF WatchInv
    <3> QED BY <1>1, <2>3, <3>1 DEF CallsFit
  <2>5. ReadingFits' /\ SnapshotFits'
    <3>1. row.activity <= row'.activity /\ row'.activity \in Nat
      BY <1>2, <2>2
    <3> QED BY <1>1, <1>2, <2>1, <3>1, CommitFits
  <2>6. \A k \in {"lifecycle", "runtime"} :
          obs[k] # None => /\ obs'[k].status = obs[k].status /\ obs'[k].at = obs[k].at
                           /\ obs'[k].unread = obs[k].unread \/ obs[k].at = row.event
    <3> TAKE k \in {"lifecycle", "runtime"}
    <3>1. obs'[k] = Read(obs[k]) /\ obs[k] \in Observations \union {None}
      BY <1>2, <2>1 DEF Kinds, Table
    <3>2. CASE obs'[k] = obs[k]
      BY <3>2
    <3>3. CASE obs'[k] # obs[k]
      <4>1. obs'[k] = [obs[k] EXCEPT !.unread = FALSE] /\ obs[k].at = viewer /\ obs[k] # None
        BY <3>1, <3>3 DEF Read
      <4> QED BY <2>1, <3>1, <4>1 DEF Observations
    <3> QED BY <3>2, <3>3
  <2>7. obs["runtime"] = None => obs'["runtime"] = None
    BY <1>2, <2>1 DEF Read, Kinds
  <2>8. ResultKept'
    <3> SUFFICES ASSUME turn.status \in Unfinished, ~noticed', ~overruled
                 PROVE  ~delivered /\ (InFlight => Awaits(obs', t))
      BY <1>1, <1>3 DEF ResultKept
    <3>1. /\ delivered => Keeps(obs, t)
          /\ InFlight => Awaits(obs, t)
      BY <2>3 DEF WatchInv, ResultKept
    <3>2. row.status = "READY" /\ row.event < t
      BY <1>2, <2>1, <2>3
    <3>3. obs["lifecycle"].at <= row.event
      BY <1>2, <3>2 DEF EvidenceInv, ShownTurn
    <3>4. ~delivered
      BY <1>2, <3>1, <3>2, <3>3 DEF Keeps
    <3>5. InFlight => Awaits(obs', t)
      BY <1>2, <2>6, <2>7, <3>1, <3>2 DEF Awaits
    <3> QED BY <3>4, <3>5
  <2>9. TurnKept'
    <3>1. row.status \notin {"WORKING", "OPEN_TWICE"}
      BY <2>1
    <3>2. /\ obs'["lifecycle"].status = obs["lifecycle"].status
          /\ obs'["lifecycle"].at = obs["lifecycle"].at
      BY <1>2, <2>6
    <3> QED BY <1>1, <1>3, <3>1, <3>2 DEF WatchInv, TurnKept
  <2> QED BY <2>4, <2>5, <2>8, <2>9
<1>5. CASE ~Allowed(attaching)
  <2>1. UNCHANGED <<row, obs, noticed, scan>>
    BY <1>5 DEF Acknowledge
  <2>2. CallsFit' /\ ReadingFits' /\ SnapshotFits'
    BY <1>1, <2>1 DEF WatchInv, CallsFit, ReadingFits, SnapshotFits
  <2>3. Keeps(obs', turn'.at) <=> Keeps(obs, turn.at)
    BY <1>1, <2>1 DEF Keeps
  <2>4. Awaits(obs', turn'.at) <=> Awaits(obs, turn.at)
    BY <1>1, <2>1 DEF Awaits
  <2>5. ResultKept'
    BY <1>1, <1>3, <2>1, <2>3, <2>4 DEF WatchInv, ResultKept
  <2>6. TurnKept'
    BY <1>1, <1>3, <2>1 DEF WatchInv, TurnKept
  <2> QED BY <2>2, <2>5, <2>6
<1> QED BY <1>4, <1>5

\* The rest leaves the ledger alone.  Only here does it matter when the record is
\* read.
LEMMA OthersKeepWatch ==
  ASSUME WatchInv, "always" \notin Readings,
         \/ BeginReconcile \/ ReadCandidate \/ AbandonReconcile \/ Attach \/ Detach \/ View
         \/ \E h \in flight : LoseCallback(h)
         \/ UNCHANGED vars
  PROVE  CallsFit' /\ ReadingFits' /\ SnapshotFits' /\ ResultKept' /\ TurnKept'
<1>1. /\ UNCHANGED <<proc, turn, record, obs, row, leases, delivered, overruled>>
      /\ flight' \subseteq flight /\ (noticed => noticed')
  BY DEF BeginReconcile, ReadCandidate, AbandonReconcile, Attach, Detach, View,
         LoseCallback, vars,
         providerVars, ledgerVars, announced
<1>2. EvidenceInv /\ record \in Records /\ (scan # None => scan \in Snapshots)
  BY Sizes DEF WatchInv, EvidenceInv, BoardShapes
<1>3. CallsFit'
  <2>1. CallsFit
    BY DEF WatchInv
  <2> QED BY <1>1, <2>1, FewerCallsFit
<1>4. ReadingFits' /\ SnapshotFits'
  <2>1. CASE BeginReconcile
    <3>1. /\ scan' = [row |-> row, live |-> Live, attached |-> attached,
                      candidate |-> IF record.read = "never" THEN record ELSE None, fresh |-> TRUE]
      BY <2>1 DEF BeginReconcile
    <3>2. scan'.row = row /\ scan'.live = Live
          /\ scan'.candidate = IF record.read = "never" THEN record ELSE None
      BY <3>1
    <3>3. turn.status = "WORKING" => turn.by \in Live
      BY DEF WatchInv, CallsFit, Live
    <3> QED BY <1>1, <3>2, <3>3 DEF WatchInv, ReadingFits, SnapshotFits
  <2>2. CASE ReadCandidate
    <3> DEFINE read == Hydrated(scan.row.activity)
    <3>1. scan # None /\ scan' = [scan EXCEPT !.candidate = read]
      BY <2>2 DEF ReadCandidate
    <3>2. read.status # None => read.at > scan.row.activity
      <4>1. record.read \in {"never", "newer"}
        BY <1>2, BoardConstants DEF Records
      <4>2. CASE record.read = "never"
        BY <4>2 DEF Hydrated, WatchInv, ReadingFits
      <4>3. CASE record.read = "newer"
        <5>1. record.at \in Nat /\ scan.row.activity \in Nat
          BY <1>2, <3>1, BoardConstants DEF Records, Snapshots, Rows, Times
        <5> QED BY <1>2, <4>3, <5>1 DEF Hydrated, Records
      <4> QED BY <4>1, <4>2, <4>3
    <3> HIDE DEF read
    <3>3. scan'.row = scan.row /\ scan'.live = scan.live /\ scan'.fresh = scan.fresh
          /\ scan'.candidate = read
      BY <1>2, <3>1 DEF Snapshots
    <3> QED BY <1>1, <3>1, <3>2, <3>3 DEF WatchInv, ReadingFits, SnapshotFits
  <2>3. CASE ~BeginReconcile /\ ~ReadCandidate
    <3>1. scan' \in {scan, None}
      BY <2>3 DEF AbandonReconcile, Attach, Detach, View, LoseCallback, vars
    <3> QED BY <1>1, <3>1 DEF WatchInv, ReadingFits, SnapshotFits
  <2> QED BY <2>1, <2>2, <2>3
<1>5. InFlight' => InFlight
  BY <1>1 DEF InFlight
<1>6. Keeps(obs', turn'.at) <=> Keeps(obs, turn.at)
  BY <1>1 DEF Keeps
<1>7. Awaits(obs', turn'.at) <=> Awaits(obs, turn.at)
  BY <1>1 DEF Awaits
<1>8. ResultKept'
  BY <1>1, <1>5, <1>6, <1>7 DEF WatchInv, ResultKept
<1>9. TurnKept'
  BY <1>1, <1>5 DEF WatchInv, TurnKept
<1> QED BY <1>3, <1>4, <1>8, <1>9

LEMMA WatchInit == Init => WatchInv
<1> SUFFICES ASSUME Init PROVE WatchInv
  OBVIOUS
<1>1. /\ flight = {} /\ turn.status = "IDLE" /\ delivered = FALSE
      /\ scan = None /\ record.status = None
  BY DEF Init, NoRecord
<1>2. CallsFit /\ ReadingFits /\ SnapshotFits /\ ResultKept /\ TurnKept
  BY <1>1 DEF CallsFit, ReadingFits, SnapshotFits, ResultKept, TurnKept, Unfinished
<1> QED BY <1>2, EvidenceInit DEF WatchInv

LEMMA WatchStep ==
  ASSUME "always" \notin Readings, WatchInv, [Next]_vars
  PROVE  WatchInv'
<1>1. EvidenceInv'
  BY EvidenceStep DEF WatchInv
<1>2. CASE \E o \in Owners : ProviderStep(o)
  BY <1>1, <1>2, ProviderKeepsCalls, ProviderKeepsResult DEF WatchInv
<1>3. ASSUME NEW h \in flight, HandleHook(h) \/ HandleProcessExit(h) \/ LoseCallback(h)
      PROVE  WatchInv'
  BY <1>1, <1>3, HookKeepsWatch, ExitKeepsWatch, OthersKeepWatch DEF WatchInv
<1>4. CASE Reconcile
  BY <1>1, <1>4, ReconcileKeepsWatch, OthersKeepWatch DEF Reconcile, WatchInv
<1>5. CASE UserStep
  BY <1>1, <1>5, AcknowledgeKeepsWatch, OthersKeepWatch DEF UserStep, WatchInv
<1>6. CASE UNCHANGED vars
  BY <1>1, <1>6, OthersKeepWatch DEF WatchInv
<1> QED BY <1>2, <1>3, <1>4, <1>5, <1>6 DEF Next, CallbackStep

LEMMA WatchAlways ==
  ASSUME "always" \notin Readings
  PROVE  Spec => []WatchInv
<1>1. WatchInv /\ [Next]_vars => WatchInv'
  BY WatchStep
<1> QED BY <1>1, WatchInit, PTL DEF Spec

\* But for the end of a rival, or one under the warning, no late hook, session end
\* or exit callback, no stale reconciliation and no acknowledgement of an older
\* event takes a result from a user who has not looked, where the provider's
\* record is read past the row's cursor or not at all (hooks.rs:585, core.rs:526,
\* store.rs:1219).
THEOREM NoResultLost ==
  ASSUME "always" \notin Readings
  PROVE  Spec => []NoLostResult
<1>1. WatchInv => NoLostResult
  BY DEF WatchInv, ResultKept, NoLostResult, StaysUnread
<1> QED BY <1>1, WatchAlways, PTL

\* Nor is a turn that runs, and whose hook has arrived, shown as anything else: no
\* snapshot taken before it commits (core.rs:526), and no exit of another owner
\* parks it while its own lease stands (hooks.rs:1033).
THEOREM RunningTurnAlwaysShown ==
  ASSUME "always" \notin Readings
  PROVE  Spec => []RunningTurnShown
<1>1. WatchInv => RunningTurnShown
  BY DEF WatchInv, TurnKept, RunningTurnShown
<1> QED BY <1>1, WatchAlways, PTL
=============================================================================
