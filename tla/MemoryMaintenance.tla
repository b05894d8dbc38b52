-------------------------- MODULE MemoryMaintenance --------------------------
(***************************************************************************)
(* Paid review of the assistant's memory (assistant_maintenance.rs,        *)
(* assistant_maintenance_driver.rs, assistant_maintenance_worker.rs).  A   *)
(* driver thread of the host finds records to review, reserves a call,     *)
(* claims the records for a job, and runs one disposable worker that sends *)
(* them to the provider.  The bookkeeping is spread over four databases,   *)
(* memory.sqlite, policy.sqlite, owner.sqlite and the worker's journal, so *)
(* that one step may be in some of them and not in the others when the     *)
(* host dies, when the user forgets a record or changes the permission, or *)
(* when a foreground request takes priority.                               *)
(*                                                                         *)
(* One scope and one purpose: claims, signals and jobs are kept apart for  *)
(* each.  Record n is the one of revision n.  What a job learns is never   *)
(* evidence for another one (maintenance_outputs) and is left out.         *)
(***************************************************************************)
EXTENDS Integers, FiniteSets, FiniteSetsExt

CONSTANTS
  MaxRecords,      \* records ever appended
  MaxPending,      \* MAX_PENDING: selected for review and not yet claimed
  PageSize,        \* records read by one discovery
  MaxRoots,        \* calls ever reserved, and
  MaxCalls,        \* allowed
  MaxDecisions,    \* times the user forgets a record or changes the permission
  MaxFaults        \* deaths of the host and failed writes

ASSUME MaintenanceConstants ==
  /\ {MaxRecords, MaxPending, PageSize, MaxRoots} \subseteq Nat \ {0}
  /\ {MaxCalls, MaxDecisions, MaxFaults} \subseteq Nat

Records == 1..MaxRecords
Roots == 1..MaxRoots
JobIds == (SUBSET Records) \ {{}}    \* a job is named by a hash of what it selected

VARIABLES
  record,     \* memory_records: whether each is kept, what it succeeds, whether
              \* it is a reconsideration that waits for its time
  epoch,      \* forget_epoch
  config,     \* maintenance_config, with the saved approval of owner.sqlite
  signal,     \* maintenance_signals
  jobRow,     \* maintenance_jobs; a job with a row has claimed its records
  driverRoot, \* maintenance_driver_roots: the call reserved for a job
  charge,     \* each call in policy.sqlite (root, child) and owner.sqlite (life)
  turn,       \* each call in the worker's journal
  journal,    \* guard and epoch of that journal
  cleaning,   \* what the cleanup after forgetting has still to scrub
  blocked,    \* context_blocked
  driver, worker,
  admission,  \* the dispatch gate of the driver's job is open
  sentIn,     \* history: the records each call sent to the provider
  revived,    \* history: records whose successor was forgotten
  faults      \* deaths of the host and failed database writes

memoryStore == <<record, epoch, signal, jobRow, driverRoot>>
owner == <<config, blocked>>
journalStore == <<turn, journal>>
history == <<sentIn, revived, faults>>
maintenanceVars == <<memoryStore, owner, charge, journalStore, cleaning, driver, admission,
                     worker, history>>

NoWorker == [at |-> "ended", epoch |-> 0, stop |-> FALSE, result |-> "none"]
NoRow == [state |-> "none", epoch |-> 0, config |-> 0, result |-> FALSE]
Driver(at) == [at |-> at, job |-> {}, root |-> 0, epoch |-> 0, config |-> 0,
               result |-> "none", back |-> "recover"]

MaintenanceInit ==
  /\ record = [n \in Records |->
                 [state |-> "none", link |-> "none", parent |-> 0, waiting |-> FALSE]]
  /\ epoch = 0
  /\ config = [revision |-> 1, enabled |-> TRUE, approved |-> TRUE]
  /\ signal = [cursor |-> 0, target |-> 0, pending |-> {}]
  /\ jobRow = [j \in JobIds |-> NoRow]
  /\ driverRoot = [j \in JobIds |-> [root |-> 0, settled |-> TRUE]]
  /\ charge = [r \in Roots |->
                 [root |-> "none", child |-> "none", life |-> "none", confirmed |-> -1,
                  recovered |-> FALSE]]
  /\ turn = [r \in Roots |-> "none"]
  /\ journal = [guard |-> FALSE, epoch |-> 0]
  /\ cleaning = "none"
  /\ blocked = FALSE
  /\ driver = Driver("stopped")
  /\ worker = NoWorker
  /\ admission = FALSE
  /\ sentIn = [r \in Roots |-> {}]
  /\ revived = {}
  /\ faults = 0

MaxOf(S) == Max(S \union {0})
Decisions == epoch + config.revision - 1

-----------------------------------------------------------------------------
(* Records.                                                                *)

Kept(n) == record[n].state = "kept"
Latest == MaxOf({n \in Records : record[n].state # "none"})
Superseded(n) == \E m \in Records : Kept(m) /\ record[m].link = "supersedes" /\ record[m].parent = n
Active(n) == Kept(n) /\ ~Superseded(n)

\* A record that supersedes another, or asks to reconsider it later
\* (schedule_revisit), is linked to it.
AppendRecord ==
  /\ Latest < MaxRecords
  /\ \E link \in {"none", "supersedes", "reconsiders"},
        p \in {0} \union {n \in Records : Active(n)} :
       /\ (link = "none") = (p = 0)
       /\ record' = [record EXCEPT ![Latest + 1] =
            [state |-> "kept", link |-> link, parent |-> p, waiting |-> link = "reconsiders"]]
  /\ UNCHANGED <<epoch, signal, jobRow, driverRoot, owner, charge, journalStore, cleaning, driver,
                 admission, worker, history>>

\* forget: the record, and whatever was appended about it.
Below(n) ==
  LET about[m \in Records] == m = n \/ (record[m].parent # 0 /\ about[record[m].parent])
  IN  {m \in Records : Kept(m) /\ about[m]}

\* The trigger maintenance_forget_scrub takes part in the transaction.  The
\* request of a view waits until the driver has stopped; /forget in the native
\* surface (native_memory_control) does not wait.
Forget ==
  /\ Decisions < MaxDecisions /\ cleaning = "none"
  /\ \E n \in {m \in Records : Kept(m)} :
       LET gone == Below(n) IN
       /\ record' = [m \in Records |->
            IF m \in gone THEN [record[m] EXCEPT !.state = "forgotten"] ELSE record[m]]
       /\ revived' = revived \union ({record[m].parent : m \in gone} \ gone)
  /\ epoch' = epoch + 1
  /\ jobRow' = [j \in JobIds |->
       IF jobRow[j].state = "none" THEN NoRow
       ELSE [jobRow[j] EXCEPT !.result = FALSE,
                              !.state = IF @ = "completed" THEN @ ELSE "invalidated"]]
  /\ cleaning' = "journal"
  /\ UNCHANGED <<signal, driverRoot, owner, charge, journalStore, driver, admission, worker,
                 sentIn, faults>>

\* retention::cleanup, one database after the other.
CleanJournal ==
  /\ cleaning = "journal"
  /\ turn' = [r \in Roots |-> IF turn[r] = "none" THEN "none" ELSE "unknown"]
  /\ journal' = [guard |-> TRUE, epoch |-> epoch]
  /\ cleaning' = "owner"
  /\ UNCHANGED <<memoryStore, owner, charge, driver, admission, worker, history>>

CleanOwner ==
  /\ cleaning = "owner"
  /\ blocked' = TRUE
  /\ config' = [config EXCEPT !.approved = FALSE]
  /\ cleaning' = "none"
  /\ UNCHANGED <<memoryStore, charge, journalStore, driver, admission, worker, history>>

\* /maintenance: an approval and a new cadence, or off.
Configure ==
  /\ Decisions < MaxDecisions
  /\ \E on \in BOOLEAN :
       /\ config' = [revision |-> config.revision + 1, enabled |-> on, approved |-> on]
       /\ signal' = IF on THEN [signal EXCEPT !.target = Latest] ELSE signal
  /\ UNCHANGED <<record, epoch, jobRow, driverRoot, blocked, charge, journalStore, cleaning, driver,
                 admission, worker, history>>

\* A compaction or the cadence.
Signal ==
  /\ config.enabled /\ signal.target # Latest
  /\ signal' = [signal EXCEPT !.target = Latest]
  /\ UNCHANGED <<record, epoch, jobRow, driverRoot, owner, charge, journalStore, cleaning, driver,
                 admission, worker, history>>

-----------------------------------------------------------------------------
(* The host around the driver.                                             *)

DriverOnly == UNCHANGED <<memoryStore, owner, charge, journalStore, cleaning, admission, worker,
                          history>>

\* foreground_pending and tick: cancellation is sticky.
ForegroundArrives ==
  /\ admission
  /\ admission' = FALSE
  /\ UNCHANGED <<memoryStore, owner, charge, journalStore, cleaning, driver, worker, history>>

\* A new driver is made only after the old thread is gone.
StartDriver ==
  /\ driver.at \in {"stopped", "unavailable"} /\ cleaning = "none"
  /\ driver' = Driver("recover")
  /\ DriverOnly

Unresolved(r) ==
  \/ {charge[r].root, charge[r].child} \intersect {"reserved", "dispatched"} # {}
  \/ ~charge[r].recovered /\ "unknown" \in {charge[r].root, charge[r].child, charge[r].life}

\* Fresh-context recovery, after the driver has stopped: what the journal left
\* open becomes unknown in the ledger, and is acknowledged.
FreshContext ==
  /\ driver.at = "stopped" /\ cleaning = "none"
  /\ charge' = [r \in Roots |->
       LET open == turn[r] \in {"reserved", "in_flight", "unknown"}
                   /\ charge[r].child \in {"reserved", "dispatched"}
           child == IF open THEN "unknown" ELSE charge[r].child
       IN  [charge[r] EXCEPT !.child = child,
              !.recovered = @ \/ "unknown" \in {charge[r].root, child, charge[r].life}]]
  /\ turn' = [r \in Roots |-> IF turn[r] \in {"reserved", "in_flight", "unknown"} THEN "abandoned"
                              ELSE IF turn[r] = "completed" THEN "scrubbed" ELSE turn[r]]
  /\ journal' = [guard |-> FALSE, epoch |-> epoch]
  /\ blocked' = FALSE
  /\ UNCHANGED <<memoryStore, config, cleaning, driver, admission, worker, history>>

\* Lifecycle::open marks what the dead host left in owner.sqlite.
HostDies ==
  /\ faults < MaxFaults /\ faults' = faults + 1
  /\ driver' = Driver("stopped") /\ worker' = NoWorker /\ admission' = FALSE
  /\ charge' = [r \in Roots |-> [charge[r] EXCEPT !.life =
       CASE @ = "reserved" -> "abandoned" [] @ = "dispatched" -> "unknown" [] OTHER -> @]]
  /\ UNCHANGED <<memoryStore, owner, journalStore, cleaning, sentIn, revived>>

-----------------------------------------------------------------------------
(* The driver: recovery, discovery and admission.                          *)

At(here) == driver.at = here
Rest == driver' = Driver("idle")
To(next) == driver' = [driver EXCEPT !.at = next]
Assigned == driver.job
Root == driver.root

\* A refusal of the ledgers ends the thread, except where finish has reported it.
Bail == driver' = Driver(IF driver.back = "finish" THEN "idle" ELSE "unavailable")

LedgerOnly == UNCHANGED <<memoryStore, owner, journalStore, cleaning, admission, worker, history>>
MemoryOnly == UNCHANGED <<owner, charge, journalStore, cleaning, admission, worker, history>>
Claimed(n) == \E j \in JobIds : jobRow[j].state # "none" /\ n \in j
Valid(j, e, revision) ==
  /\ e = epoch /\ config.enabled /\ revision = config.revision
  /\ \A n \in j : Active(n)

\* release_undispatched_maintenance: nothing of the call was ever sent.
ChildReleased(r) == charge[r].child = "released"

\* Fault: a delivery that is unknown is taken for one that did not happen.
CanReleaseUnknown(r) ==
  charge[r].child # "dispatched" /\ charge[r].root \in {"reserved", "released"}

CanRelease(r) ==
  /\ charge[r].child = "none" \/ ChildReleased(r)
  /\ charge[r].root \in {"reserved", "released"}

HasReply(r) == turn[r] = "completed"

\* checkpoint_result keeps a reply only for the memory it was asked about.
Checkpointable(j) == jobRow[j].state \in {"claimed", "received"} /\ jobRow[j].epoch = epoch
Received(j) == [jobRow EXCEPT ![j].state = "received", ![j].result = TRUE]

\* outcome
Judged(j, state) ==
  IF jobRow[j].state \in {"none", "completed", "invalidated"} THEN jobRow
  ELSE [jobRow EXCEPT ![j].state = state]

\* recover_root, for a call that is not settled.
RecoverRoot ==
  /\ At("recover")
  /\ \E j \in JobIds :
       LET r == driverRoot[j].root
           unsent == /\ jobRow[j].state = "claimed" /\ CanRelease(r)
                     /\ ChildReleased(r) \/ charge[r].root = "released"
           here == [driver EXCEPT !.job = j, !.root = r, !.back = "recover", !.result = "none"]
       IN
       /\ ~driverRoot[j].settled
       /\ \/ /\ unsent \/ jobRow[j].state = "none"
             /\ driver' = [here EXCEPT !.at = IF CanRelease(r) THEN "release" ELSE "settle"]
             /\ UNCHANGED jobRow
          \/ /\ ~unsent /\ jobRow[j].state # "none"
             /\ driver' = [here EXCEPT !.at = "account",
                                       !.result = IF HasReply(r) THEN "completed" ELSE "unknown"]
             /\ jobRow' = IF HasReply(r) /\ Checkpointable(j) THEN Received(j) ELSE jobRow
  /\ UNCHANGED <<record, epoch, signal, driverRoot>> /\ MemoryOnly

\* domain::recover, after the last of them.  A received reply is committed if
\* the assignment is still valid, whatever the outcome of the call.
RecoverJobs ==
  /\ At("recover") /\ \A j \in JobIds : driverRoot[j].settled
  /\ \E malformed \in SUBSET {j \in JobIds : jobRow[j].state = "received"} :
       jobRow' = [j \in JobIds |->
         CASE jobRow[j].state = "received" /\ Valid(j, jobRow[j].epoch, jobRow[j].config)
                /\ j \notin malformed -> [jobRow[j] EXCEPT !.state = "completed", !.result = FALSE]
           [] jobRow[j].state = "received" -> [jobRow[j] EXCEPT !.state = "failed"]
           [] jobRow[j].state = "claimed" -> [jobRow[j] EXCEPT !.state = "unknown"]
           [] OTHER -> jobRow[j]]
  /\ driver' = Driver("due")
  /\ UNCHANGED <<record, epoch, signal, driverRoot>> /\ MemoryOnly

Tick ==
  /\ At("idle")
  /\ \/ driver' = Driver("recover")
     \/ driver' = Driver("stopped")
  /\ DriverOnly

SpentCalls ==
  Cardinality({r \in Roots : charge[r].life # "none" /\ charge[r].confirmed # 0})

\* maintenance_permission; an active job may be the last one.
Permitted(active) ==
  /\ ~blocked /\ config.approved
  /\ ~active => SpentCalls < MaxCalls /\ \A r \in Roots : ~Unresolved(r)

\* due_revisits: the scan goes back to a reconsideration whose time has come.
Due ==
  /\ At("due")
  /\ IF Permitted(FALSE)
     THEN \E ready \in SUBSET {n \in Records : record[n].waiting /\ Kept(n)} :
       LET back == {n - 1 : n \in {m \in ready : Active(m)}} IN
       /\ ready # {} => config.enabled
       /\ record' = [n \in Records |-> IF n \in ready THEN [record[n] EXCEPT !.waiting = FALSE]
                                                      ELSE record[n]]
       /\ signal' = IF back = {} THEN signal
                    ELSE [signal EXCEPT !.target = Latest, !.cursor = Min(back \union {@})]
       /\ To("prepare")
     ELSE Rest /\ UNCHANGED <<record, signal>>
  /\ UNCHANGED <<epoch, jobRow, driverRoot>> /\ MemoryOnly

\* discover: one page of active records beyond the cursor, up to the target.
\* When the pending ones are at their limit, the cursor stays before the first
\* that did not fit.
Discovered ==
  LET kept == {n \in signal.pending : Active(n) /\ ~Claimed(n)}
      rest == {n \in Records : Active(n) /\ signal.cursor < n /\ n <= signal.target}
      page == {n \in rest : Cardinality({m \in rest : m <= n}) <= PageSize}
      fresh == {n \in page : ~record[n].waiting /\ ~Claimed(n) /\ n \notin kept}
      room == MaxPending - Cardinality(kept)
      taken == {n \in fresh : Cardinality({m \in fresh : m <= n}) <= room}
      passed == {n \in page : \A m \in fresh \ taken : n < m}
      last == MaxOf(passed \union {signal.cursor})
  IN  IF room = 0 \/ signal.cursor >= signal.target THEN [signal EXCEPT !.pending = kept]
      ELSE [signal EXCEPT !.pending = kept \union taken,
              !.cursor = IF page = rest /\ Cardinality(kept \union taken) < MaxPending
                         THEN signal.target ELSE last]

\* prepare: the records that fit into the package, not always all of them.
Prepare ==
  /\ At("prepare")
  /\ signal' = IF config.enabled THEN Discovered ELSE signal
  /\ IF config.enabled /\ signal'.pending # {}
     THEN \E selected \in (SUBSET signal'.pending) \ {{}} :
            driver' = [driver EXCEPT !.at = "link", !.job = selected, !.epoch = epoch,
                                     !.config = config.revision, !.back = "admit"]
     ELSE Rest
  /\ UNCHANGED <<record, epoch, jobRow, driverRoot>> /\ MemoryOnly

\* The dispatch gate is opened for this job and the call is linked to it.
Link ==
  /\ At("link")
  /\ LET unused == {r \in Roots : charge[r].life = "none"} IN
       /\ unused # {}
       /\ driverRoot' = [driverRoot EXCEPT ![Assigned] = [root |-> Min(unused), settled |-> FALSE]]
       /\ driver' = [driver EXCEPT !.at = "reserve", !.root = Min(unused)]
  /\ admission' = TRUE
  /\ UNCHANGED <<record, epoch, signal, jobRow, owner, charge, journalStore, cleaning, worker,
                 history>>

\* A foreground request is there, or the driver stops.
GiveWay ==
  /\ At("link")
  /\ Rest /\ DriverOnly

\* reserve_maintenance: owner.sqlite, in two transactions, then policy.sqlite.
Reserve ==
  /\ At("reserve")
  /\ IF Permitted(FALSE) /\ config.revision = driver.config
     THEN charge' = [charge EXCEPT ![Root].life = "reserved"] /\ To("begin")
     ELSE To("settle") /\ UNCHANGED charge
  /\ LedgerOnly

BeginLife ==
  /\ At("begin")
  /\ IF config.approved /\ config.revision = driver.config
     THEN charge' = [charge EXCEPT ![Root].life = "dispatched"] /\ To("charge")
     ELSE To("settle") /\ UNCHANGED charge
  /\ LedgerOnly

ReserveCall ==
  /\ At("charge")
  /\ \/ charge' = [charge EXCEPT ![Root].root = "reserved"] /\ To("claim")
     \/ charge' = [charge EXCEPT ![Root].life = "failed"] /\ To("settle")
  /\ LedgerOnly

\* claim
Claim ==
  /\ At("claim")
  /\ IF Valid(Assigned, driver.epoch, driver.config) /\ \A n \in Assigned : ~Claimed(n)
     THEN /\ jobRow' = [jobRow EXCEPT ![Assigned] = [state |-> "claimed", epoch |-> epoch,
                                                 config |-> config.revision, result |-> FALSE]]
          /\ signal' = [signal EXCEPT !.pending = @ \ Assigned]
          /\ To("spawn")
          /\ UNCHANGED admission
     ELSE To("release") /\ admission' = FALSE /\ UNCHANGED <<jobRow, signal>>
  /\ UNCHANGED <<record, epoch, driverRoot, owner, charge, journalStore, cleaning, worker, history>>

\* start_worker.  Without a worker the delivery counts as unknown, and the call
\* is left to recovery.
Spawn ==
  /\ At("spawn")
  /\ \/ /\ To("running")
        /\ worker' = [NoWorker EXCEPT !.at = "open"]
        /\ UNCHANGED <<jobRow, admission>>
     \/ /\ driver' = [driver EXCEPT !.at = "account", !.result = "unknown", !.back = "spawn"]
        /\ jobRow' = Judged(Assigned, "unknown")
        /\ admission' = FALSE
        /\ UNCHANGED worker
  /\ UNCHANGED <<record, epoch, signal, driverRoot, owner, charge, journalStore, cleaning, history>>

-----------------------------------------------------------------------------
(* The driver: the end of a job.                                           *)

\* poll_active, and the end of run: the job is left when the worker has ended,
\* is no longer valid or permitted, is late, or the driver must stop.
PollActive ==
  /\ At("running")
  /\ driver' = [driver EXCEPT !.at = "joining", !.back = "finish",
                              !.result = IF worker.at = "ended" THEN worker.result ELSE "none"]
  /\ worker' = [worker EXCEPT !.stop = worker.at # "ended"]
  /\ UNCHANGED <<memoryStore, owner, charge, journalStore, cleaning, admission, history>>

\* finish, once the worker is joined.
Finish ==
  /\ At("joining") /\ worker.at = "ended"
  /\ LET result == IF driver.result # "none" THEN driver.result
                   ELSE IF HasReply(Root) THEN "completed" ELSE "none"
         unsent == /\ result = "none" /\ CanRelease(Root)
                   /\ ~admission \/ ChildReleased(Root)
         outcome == IF result = "none" THEN "unknown" ELSE result
     IN  /\ driver' = [driver EXCEPT !.at = IF unsent THEN "release" ELSE "account",
                                     !.result = outcome]
         /\ jobRow' = IF unsent \/ outcome = "completed" THEN jobRow
                      ELSE Judged(Assigned, outcome)
  /\ worker' = NoWorker /\ admission' = FALSE
  /\ UNCHANGED <<record, epoch, signal, driverRoot, owner, charge, journalStore, cleaning, history>>

\* release_undispatched_maintenance: policy.sqlite, then owner.sqlite.
ReleaseCall ==
  /\ At("release")
  /\ charge' = [charge EXCEPT ![Root].root = "released"]
  /\ To("releaseLife")
  /\ LedgerOnly

ReleaseLife ==
  /\ At("releaseLife")
  /\ IF charge[Root].life \in {"unknown", "dispatched", "completed"} /\ charge[Root].confirmed # 1
     THEN /\ charge' = [charge EXCEPT ![Root].life = "completed", ![Root].confirmed = 0]
          /\ To("unclaim")
     ELSE Bail /\ UNCHANGED charge
  /\ LedgerOnly

\* Fault: the claim is withdrawn and the scan stays where it is.
UnclaimInPlace ==
  /\ At("unclaim")
  /\ jobRow' = IF jobRow[Assigned].state = "claimed" THEN [jobRow EXCEPT ![Assigned] = NoRow]
               ELSE jobRow
  /\ To("settle")
  /\ UNCHANGED <<record, epoch, signal, driverRoot>> /\ MemoryOnly

\* release_pending: the scan goes back to what was claimed.
Unclaim ==
  /\ At("unclaim")
  /\ IF jobRow[Assigned].state = "claimed"
     THEN /\ signal' = [signal EXCEPT !.cursor = Min({@} \union {n - 1 : n \in Assigned})]
          /\ jobRow' = [jobRow EXCEPT ![Assigned] = NoRow]
     ELSE UNCHANGED <<signal, jobRow>>
  /\ To("settle")
  /\ UNCHANGED <<record, epoch, driverRoot>> /\ MemoryOnly

\* finish_maintenance: policy.sqlite, then owner.sqlite.
AccountCall ==
  /\ At("account")
  /\ charge' = IF charge[Root].root \in {"reserved", "dispatched"}
               THEN [charge EXCEPT ![Root].root = driver.result] ELSE charge
  /\ To("accountLife")
  /\ LedgerOnly

AccountLife ==
  /\ At("accountLife")
  /\ LET delivered == driver.result = "completed" /\ charge[Root].root = "completed"
         before == IF delivered /\ charge[Root].life = "unknown" THEN "completed"
                   ELSE charge[Root].life
         agreed == driver.result = "completed" => charge[Root].confirmed # 0
     IN  IF before \in {"dispatched", driver.result} /\ agreed
         THEN /\ charge' = [charge EXCEPT ![Root].life = driver.result,
                  ![Root].confirmed = IF driver.result = "completed" THEN 1 ELSE @]
              /\ IF driver.back = "spawn" THEN Rest
                 ELSE To(IF driver.result = "completed" /\ driver.back = "finish"
                         THEN "checkpoint" ELSE "settle")
         ELSE /\ charge' = [charge EXCEPT ![Root].life = before]
              /\ Bail
  /\ LedgerOnly

\* checkpoint_result.  A refusal leaves the call for recovery.
CheckpointResult ==
  /\ At("checkpoint")
  /\ IF Checkpointable(Assigned) THEN jobRow' = Received(Assigned) /\ To("commit")
     ELSE Rest /\ UNCHANGED jobRow
  /\ UNCHANGED <<record, epoch, signal, driverRoot>> /\ MemoryOnly

\* commit: a reply that is malformed, or an assignment no longer valid, is
\* refused and left for recovery.
Commit ==
  /\ At("commit")
  /\ \/ /\ Valid(Assigned, driver.epoch, driver.config) /\ jobRow[Assigned].state = "received"
        /\ jobRow' = [jobRow EXCEPT ![Assigned].state = "completed", ![Assigned].result = FALSE]
        /\ To("settle")
     \/ Rest /\ UNCHANGED jobRow
  /\ UNCHANGED <<record, epoch, signal, driverRoot>> /\ MemoryOnly

SettleRoot ==
  /\ At("settle")
  /\ driverRoot' = [driverRoot EXCEPT ![Assigned].settled = TRUE]
  /\ driver' = Driver(IF driver.back = "recover" THEN "recover" ELSE "idle")
  /\ UNCHANGED <<record, epoch, signal, jobRow>> /\ MemoryOnly

\* A database is busy: the rest is left for recovery.
WriteFails ==
  /\ driver.at \in {"release", "releaseLife", "unclaim", "account", "accountLife", "checkpoint",
                    "commit", "settle"}
  /\ faults < MaxFaults /\ faults' = faults + 1
  /\ Rest
  /\ UNCHANGED <<memoryStore, owner, charge, journalStore, cleaning, admission, worker, sentIn,
                 revived>>

-----------------------------------------------------------------------------
(* The worker.                                                             *)

WorkerAt(here) == worker.at = here /\ driver.at \in {"running", "joining"}
WorkerTo(next) == worker' = [worker EXCEPT !.at = next]
WorkerEnds(result) == worker' = [NoWorker EXCEPT !.result = result]
WorkerOnly == UNCHANGED <<memoryStore, owner, cleaning, driver, admission, revived, faults>>
SetTurn(state) == turn' = [turn EXCEPT ![Root] = state]
SetChild(state) == charge' = [charge EXCEPT ![Root].child = state]

\* scrub_context leaves the state of a turn and blocks the journal.
ScrubJournal ==
  /\ journal' = [journal EXCEPT !.guard = TRUE]
  /\ turn' = [r \in Roots |-> IF turn[r] = "completed" THEN "scrubbed" ELSE turn[r]]

\* validate_reservation, open_assignment and restore_state.
WorkerOpens ==
  /\ WorkerAt("open")
  /\ LET unresolved == \/ journal.guard
                       \/ \E r \in Roots : turn[r] \in {"reserved", "in_flight", "unknown"}
         stale == journal.epoch # epoch
     IN
     /\ IF unresolved \/ stale THEN WorkerEnds("none")
        ELSE \/ worker' = [worker EXCEPT !.at = "begin", !.epoch = epoch]
             \/ WorkerEnds("none")
     /\ IF ~unresolved /\ stale
        THEN /\ turn' = [r \in Roots |-> IF turn[r] = "none" THEN "none" ELSE "unknown"]
             /\ journal' = [journal EXCEPT !.guard = TRUE]
        ELSE UNCHANGED journalStore
  /\ UNCHANGED <<charge, sentIn>> /\ WorkerOnly

\* begin_background_turn: refused once foreground work has priority.
WorkerBegins ==
  /\ WorkerAt("begin")
  /\ IF worker.stop \/ ~admission \/ \E n \in Assigned : ~Kept(n)
     THEN WorkerEnds("none") /\ UNCHANGED journalStore
     ELSE IF worker.epoch # epoch
     THEN WorkerEnds("none") /\ ScrubJournal
     ELSE WorkerTo("child") /\ SetTurn("reserved") /\ UNCHANGED journal
  /\ UNCHANGED <<charge, sentIn>> /\ WorkerOnly

\* reserve_child
WorkerReserves ==
  /\ WorkerAt("child")
  /\ IF charge[Root].root = "reserved"
     THEN SetChild("reserved") /\ WorkerTo("dispatch") /\ UNCHANGED turn
     ELSE SetTurn("denied") /\ WorkerEnds("none") /\ UNCHANGED charge
  /\ UNCHANGED <<journal, sentIn>> /\ WorkerOnly

\* Fault: a cancelled dispatch is always taken for one that was not sent.
WorkerGivesUp ==
  /\ WorkerAt("dispatch")
  /\ \/ worker.stop /\ WorkerTo("withdraw") /\ UNCHANGED <<charge, turn>>
     \/ ~worker.stop /\ SetChild("dispatched") /\ WorkerTo("flight") /\ SetTurn("in_flight")
  /\ sentIn' \in {sentIn, [sentIn EXCEPT ![Root] = Assigned]}
  /\ UNCHANGED journal /\ WorkerOnly

\* dispatch_at_epoch_checked: memory is locked from the validation to the
\* provider's answer.  Cancelled after mark_dispatched, the delivery counts as
\* unknown.
WorkerDispatches ==
  /\ WorkerAt("dispatch")
  /\ \/ /\ worker.epoch = epoch /\ Valid(Assigned, driver.epoch, driver.config)
        /\ \/ ~worker.stop /\ SetChild("dispatched") /\ WorkerTo("flight") /\ SetTurn("in_flight")
              /\ sentIn' = [sentIn EXCEPT ![Root] = Assigned]
           \/ SetChild("unknown") /\ WorkerEnds("none") /\ SetTurn("unknown")
              /\ sentIn' \in {sentIn, [sentIn EXCEPT ![Root] = Assigned]}
     \/ /\ ~(worker.epoch = epoch /\ Valid(Assigned, driver.epoch, driver.config))
        /\ WorkerTo("withdraw")
        /\ UNCHANGED <<charge, turn, sentIn>>
  /\ UNCHANGED journal /\ WorkerOnly

\* release_before_dispatch
WorkerWithdraws ==
  /\ WorkerAt("withdraw")
  /\ SetChild("released")
  /\ WorkerTo("deny")
  /\ UNCHANGED <<journalStore, sentIn>> /\ WorkerOnly

WorkerDenies ==
  /\ WorkerAt("deny")
  /\ turn' = [turn EXCEPT ![Root] = "denied"]
  /\ journal' = [journal EXCEPT !.guard = @ \/ worker.epoch # epoch]
  /\ WorkerEnds("none")
  /\ UNCHANGED <<charge, sentIn>> /\ WorkerOnly

\* poll_turn and cancel: the answer or a failure; an answer that is given up, for
\* the deadline has passed or the worker is stopped (the provider's cancel never
\* confirms: an accepted interrupt is no end of the turn); or a forget is noticed.
WorkerPolls ==
  /\ WorkerAt("flight")
  /\ \/ /\ worker.epoch = epoch
        /\ \/ SetChild("completed") /\ WorkerTo("reply") /\ UNCHANGED journalStore
           \/ SetChild("failed") /\ SetTurn("failed") /\ WorkerEnds("failed") /\ UNCHANGED journal
     \/ SetChild("unknown") /\ SetTurn("unknown") /\ WorkerEnds("none") /\ UNCHANGED journal
     \/ /\ worker.epoch # epoch
        /\ SetChild("unknown") /\ WorkerEnds("none")
        /\ turn' = [r \in Roots |-> IF r = Root THEN "unknown"
                                    ELSE IF turn[r] = "completed" THEN "scrubbed" ELSE turn[r]]
        /\ journal' = [journal EXCEPT !.guard = TRUE]
  /\ UNCHANGED sentIn /\ WorkerOnly

WorkerReplies ==
  /\ WorkerAt("reply")
  /\ SetTurn("completed")
  /\ WorkerEnds("completed")
  /\ UNCHANGED <<charge, journal, sentIn>> /\ WorkerOnly

-----------------------------------------------------------------------------
HostStep ==
  \/ AppendRecord \/ Forget \/ CleanJournal \/ CleanOwner \/ Configure \/ Signal
  \/ ForegroundArrives \/ StartDriver \/ FreshContext \/ HostDies

DriverStep ==
  \/ RecoverRoot \/ RecoverJobs \/ Tick \/ Due \/ Prepare \/ Link \/ GiveWay
  \/ Reserve \/ BeginLife \/ ReserveCall \/ Claim \/ Spawn \/ PollActive \/ Finish
  \/ ReleaseCall \/ ReleaseLife \/ Unclaim \/ AccountCall \/ AccountLife
  \/ CheckpointResult \/ Commit \/ SettleRoot \/ WriteFails

WorkerStep ==
  \/ WorkerOpens \/ WorkerBegins \/ WorkerReserves \/ WorkerDispatches \/ WorkerWithdraws
  \/ WorkerDenies \/ WorkerPolls \/ WorkerReplies

MaintenanceNext == HostStep \/ DriverStep \/ WorkerStep

MaintenanceSpec == MaintenanceInit /\ [][MaintenanceNext]_maintenanceVars

-----------------------------------------------------------------------------
(* Properties.                                                             *)

\* No record is sent to the provider for review twice (comment of claim: "no
\* repaint/restart retry").
ReviewedOnce ==
  \A r, q \in Roots : r # q => sentIn[r] \intersect sentIn[q] = {}

\* Every record up to the signalled target is ahead of the scan, pending, or
\* claimed; what only forgetting made current again is not found.  The records
\* are of a size that a package takes: one over 12 KiB is passed by and reported
\* as omitted instead (assistant_maintenance.rs:367, docs/ASSISTANT.md:324).
NoSourceLost ==
  \A n \in Records :
    Active(n) /\ ~record[n].waiting /\ n <= signal.target /\ n \notin revived =>
      n > signal.cursor \/ n \in signal.pending \/ Claimed(n)

\* What may have been sent is never given back to the allowance.
SentIsCharged ==
  \A r \in Roots : sentIn[r] # {} => charge[r].root # "released" /\ charge[r].confirmed # 0

\* "Confirmed receipts can finish local bookkeeping after restart without
\* another call" (docs/ASSISTANT.md:327): no restart finds receipts that end
\* the driver.
BookkeepingFinishes == driver.at # "unavailable"
=============================================================================
