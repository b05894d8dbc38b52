--------------------------- MODULE ActivityObserver --------------------------
(***************************************************************************)
(* The observers of one profile (activity_observer.rs, activity_lease.rs,  *)
(* activity_feed.rs).  Every open view has a source with two threads: the  *)
(* local one reconciles conversations and publishes what the view shows,   *)
(* the remote one refreshes machines.  Of all sources, in one process or   *)
(* several, only the one that holds the file lock observer.lock may scan   *)
(* providers and machines; the others follow the database.                 *)
(*                                                                         *)
(* A database content is represented by the number of commits in it.       *)
(***************************************************************************)
EXTENDS Naturals

CONSTANTS
  Sources,
  MaxCommits,      \* bound on commits: hooks, reconciliations, machines
  MaxReadErrors,   \* bound on cached reads that fail
  NotWatching

ASSUME ObserverConstants ==
  MaxCommits \in Nat /\ MaxReadErrors \in Nat /\ NotWatching \notin Nat

VARIABLES
  commits,    \* commits in the profile's database
  view,       \* what the threads of a source share, and what it shows
  local,      \* the local thread
  remote,     \* the remote thread
  projected,  \* the content last written to the assistant's projection
  readErrors

observerVars == <<commits, view, local, remote, projected, readErrors>>

\* closing: how far Owner::drop has come; gate: observation_enabled; slot:
\* the file handle in ObservationLease.owner; fence: local_reconcile_fence;
\* gap (history): the first frame was read before the watcher began, and no
\* read has replaced it.
NewView == [closing |-> "unopened", gate |-> FALSE, slot |-> FALSE, inflight |-> FALSE,
            fence |-> 0, due |-> TRUE, observing |-> TRUE, watched |-> NotWatching,
            shown |-> 0, gap |-> TRUE]

\* lease: the thread holds a clone of the file handle.
NewLocal == [at |-> "start", lease |-> FALSE, generation |-> 0, base |-> 0, loaded |-> 0]
NewRemote == [at |-> "top", lease |-> FALSE]

ObserverInit ==
  /\ commits = 0
  /\ view = [s \in Sources |-> NewView]
  /\ local = [s \in Sources |-> NewLocal]
  /\ remote = [s \in Sources |-> NewRemote]
  /\ projected = 0
  /\ readErrors = 0

Opened(s) == view[s].closing # "unopened"
Cancelled(s) == view[s].closing # "open"

\* flock: the lock is taken while any clone of the handle is open.
HoldsLock(s) == view[s].slot \/ local[s].lease \/ remote[s].lease
LockFree == \A s \in Sources : ~HoldsLock(s)

LocalAt(s, here) == Opened(s) /\ local[s].at = here
LocalTo(s, next) == local' = [local EXCEPT ![s].at = next]
RemoteAt(s, here) == Opened(s) /\ remote[s].at = here

\* The end of a loop iteration drops the iteration's clone.
LocalTop(s) == local' = [local EXCEPT ![s] = [NewLocal EXCEPT !.at = "top"]]
LocalWait(s) ==
  local' = [local EXCEPT ![s] = [NewLocal EXCEPT !.at = "wait", !.lease = local[s].lease]]
LocalDone(s) == local' = [local EXCEPT ![s] = [NewLocal EXCEPT !.at = "done"]]

\* A commit may find nothing to write.
MayCommit == commits' \in {commits} \union {c \in {commits + 1} : c <= MaxCommits}

-----------------------------------------------------------------------------
(* Opening and closing a view.                                             *)

\* cached_source paints the durable state.  For an exact open the observation
\* is paused until the terminal is handed over.
OpenSource(s) ==
  /\ ~Opened(s)
  /\ \E handoff \in BOOLEAN :
       view' = [view EXCEPT ![s] = [@ EXCEPT !.closing = "open", !.gate = ~handoff,
                                             !.observing = ~handoff, !.shown = commits]]
  /\ UNCHANGED <<commits, local, remote, projected, readErrors>>

Activate(s) ==
  /\ Opened(s) /\ ~view[s].gate /\ ~Cancelled(s)
  /\ view' = [view EXCEPT ![s].gate = TRUE]
  /\ UNCHANGED <<commits, local, remote, projected, readErrors>>

\* Owner::drop: cancel the publishers and stop the threads.  What a closed
\* view showed and followed no longer matters.
Close(s) ==
  /\ view[s].closing = "open"
  /\ view' = [view EXCEPT ![s] = [@ EXCEPT !.closing = "stopped", !.shown = 0, !.gap = TRUE,
                                             !.watched = NotWatching]]
  /\ UNCHANGED <<commits, local, remote, projected, readErrors>>

\* Then fence a reading that is in flight and release the lease.  The remote
\* thread is joined, the local one is left to its reading.
FenceAndRelease(s) ==
  /\ view[s].closing = "stopped"
  /\ view' = [view EXCEPT ![s] =
       [@ EXCEPT !.closing = "fenced", !.slot = FALSE, !.fence = IF view[s].inflight THEN 1 ELSE 0]]
  /\ UNCHANGED <<commits, local, remote, projected, readErrors>>

\* A process that dies closes its handles.
ProcessDies(s) ==
  /\ Opened(s)
  /\ view' = [view EXCEPT ![s] = [NewView EXCEPT !.closing = "fenced"]]
  /\ LocalDone(s)
  /\ remote' = [remote EXCEPT ![s].at = "done", ![s].lease = FALSE]
  /\ UNCHANGED <<commits, projected, readErrors>>

HookCommits ==
  /\ commits < MaxCommits
  /\ commits' = commits + 1
  /\ UNCHANGED <<view, local, remote, projected, readErrors>>

ReadError == readErrors < MaxReadErrors /\ readErrors' = readErrors + 1

-----------------------------------------------------------------------------
(* The local thread.                                                       *)

StartWatching(s) ==
  /\ LocalAt(s, "start")
  /\ \/ view' = [view EXCEPT ![s].watched = commits] /\ UNCHANGED readErrors
     \/ ReadError /\ UNCHANGED view
  /\ LocalTop(s)
  /\ UNCHANGED <<commits, remote, projected>>

\* What the view shows, unless it has been cancelled.
Shown(s) ==
  [view[s] EXCEPT !.shown = IF Cancelled(s) THEN @ ELSE commits,
                  !.gap = @ /\ (Cancelled(s) \/ view[s].watched = NotWatching)]

\* The lease is released; nothing reads the thread's state any more.
EndLoop(s) ==
  /\ view' = [view EXCEPT ![s] = [NewView EXCEPT !.closing = view[s].closing]]
  /\ LocalDone(s)

LeaveLoop(s) ==
  /\ LocalAt(s, "top") /\ Cancelled(s)
  /\ EndLoop(s)
  /\ UNCHANGED <<commits, remote, projected, readErrors>>

StayPaused(s) ==
  /\ LocalAt(s, "top") /\ ~Cancelled(s) /\ ~view[s].gate
  /\ view' = [view EXCEPT ![s].slot = FALSE, ![s].due = TRUE]
  /\ UNCHANGED <<commits, local, remote, projected, readErrors>>

\* ObservationLease::acquire: the handle in the slot, or a new one.
Acquires(s) == view[s].slot \/ LockFree

\* Fault: the iteration relies on the slot and keeps no clone of its own.
ElectWithoutClone(s) ==
  /\ LocalAt(s, "top") /\ ~Cancelled(s) /\ view[s].gate /\ view[s].observing
  /\ view' = [view EXCEPT ![s].slot = Acquires(s)]
  /\ LocalTo(s, IF Acquires(s) /\ view[s].due THEN "begin" ELSE "wait")
  /\ UNCHANGED <<commits, remote, projected, readErrors>>

Elect(s) ==
  /\ LocalAt(s, "top") /\ ~Cancelled(s) /\ view[s].gate /\ view[s].observing
  /\ view' = [view EXCEPT ![s].slot = Acquires(s)]
  /\ local' = [local EXCEPT ![s].at = IF Acquires(s) /\ view[s].due THEN "begin" ELSE "wait",
                            ![s].lease = Acquires(s)]
  /\ UNCHANGED <<commits, remote, projected, readErrors>>

\* The first iteration after a handoff shows what the exact open committed,
\* and leaves the scan for later.
ElectAfterHandoff(s) ==
  /\ LocalAt(s, "top") /\ ~Cancelled(s) /\ view[s].gate /\ ~view[s].observing
  /\ \E read \in {Shown(s), view[s]} :
       /\ IF read = Shown(s) THEN UNCHANGED readErrors ELSE ReadError
       /\ view' = [view EXCEPT ![s] =
            [read EXCEPT !.slot = Acquires(s), !.observing = TRUE, !.due = FALSE]]
  /\ local' = [local EXCEPT ![s].at = "wait", ![s].lease = Acquires(s)]
  /\ UNCHANGED <<commits, remote, projected>>

\* The flag is set first and the stop looked at afterwards, so that a view
\* that closes sees the one or its thread sees the other.
RaiseInflight(s) ==
  /\ LocalAt(s, "begin")
  /\ view' = [view EXCEPT ![s].inflight = TRUE, ![s].due = FALSE]
  /\ LocalTo(s, "verify")
  /\ UNCHANGED <<commits, remote, projected, readErrors>>

VerifyOpen(s) ==
  /\ LocalAt(s, "verify")
  /\ IF Cancelled(s)
     THEN EndLoop(s)
     ELSE UNCHANGED view /\ LocalTo(s, "capture")
  /\ UNCHANGED <<commits, remote, projected, readErrors>>

\* reconcile_local takes the fence's generation and the database's version.
CaptureGeneration(s) ==
  /\ LocalAt(s, "capture")
  /\ local' = [local EXCEPT ![s].at = "reading", ![s].generation = view[s].fence,
                            ![s].base = commits]
  /\ UNCHANGED <<commits, view, remote, projected, readErrors>>

Superseded(s) == local[s].generation # view[s].fence \/ local[s].base # commits

\* reconciled_write
CommitObservation(s) ==
  /\ LocalAt(s, "reading") /\ ~Superseded(s)
  /\ MayCommit
  /\ LocalTo(s, "load")
  /\ UNCHANGED <<view, remote, projected, readErrors>>

\* The observation was superseded, or a provider or tmux could not be read.
ObservationFails(s) ==
  /\ LocalAt(s, "reading")
  /\ view' = [view EXCEPT ![s].inflight = FALSE]
  /\ LocalWait(s)
  /\ UNCHANGED <<commits, remote, projected, readErrors>>

\* board_items and publish_observed.
PublishObserved(s) ==
  /\ LocalAt(s, "load")
  /\ \/ /\ view' = [view EXCEPT ![s] = [Shown(s) EXCEPT !.inflight = FALSE]]
        /\ local' = [local EXCEPT ![s].at = "write", ![s].generation = 0, ![s].base = 0,
                                  ![s].loaded = commits]
        /\ UNCHANGED readErrors
     \/ /\ ReadError
        /\ view' = [view EXCEPT ![s].inflight = FALSE]
        /\ LocalWait(s)
  /\ UNCHANGED <<commits, remote, projected>>

\* Fault: the reading that has just been published stands for the commits
\* made since.
ConsumeUnread(s) ==
  /\ view' = [view EXCEPT ![s].watched = commits]
  /\ UNCHANGED readErrors

\* snapshot_after_store_change: a new watcher counts as a change, and a
\* failed read drops the watcher, so that the next poll reads again.
ConsumeChange(s) ==
  \/ /\ Cancelled(s) \/ view[s].watched = commits
     /\ UNCHANGED <<view, readErrors>>
  \/ /\ ~Cancelled(s) /\ view[s].watched # commits
     /\ view' = [view EXCEPT ![s].watched = commits, ![s].shown = commits, ![s].gap = FALSE]
     /\ UNCHANGED readErrors
  \/ /\ ~Cancelled(s) /\ view[s].watched # commits
     /\ ReadError
     /\ view' = [view EXCEPT ![s].watched = NotWatching]

\* publish_observed looks at the token again before it writes the projection;
\* it may have looked before the view was cancelled.
FinishCycle(s) ==
  /\ LocalAt(s, "write")
  /\ \/ projected' = local[s].loaded
     \/ Cancelled(s) /\ UNCHANGED projected
  /\ ConsumeChange(s)
  /\ LocalWait(s)
  /\ UNCHANGED <<commits, remote>>

\* recv_timeout: a request for a refresh ends the wait at once, its end polls.
\* LOCAL_RECONCILE_INTERVAL may have passed meanwhile, with the same effect as
\* a request.
RefreshAsked(s) ==
  /\ LocalAt(s, "wait")
  /\ view' = [view EXCEPT ![s].due = TRUE]
  /\ LocalTop(s)
  /\ UNCHANGED <<commits, remote, projected, readErrors>>

PollDatabase(s) ==
  /\ LocalAt(s, "wait")
  /\ ConsumeChange(s)
  /\ LocalTop(s)
  /\ UNCHANGED <<commits, remote, projected>>

-----------------------------------------------------------------------------
(* The remote thread.                                                      *)

\* It never elects an owner: it takes the handle that is there, or parks.
RemoteTurn(s) ==
  /\ RemoteAt(s, "top")
  /\ \/ /\ Cancelled(s)
        /\ remote' = [remote EXCEPT ![s].at = "done"]
     \/ /\ ~Cancelled(s) /\ view[s].gate /\ view[s].slot
        /\ remote' = [remote EXCEPT ![s].at = "fetch", ![s].lease = TRUE]
  /\ UNCHANGED <<commits, view, local, projected, readErrors>>

\* The machine's answer is committed to the database.
RemoteFetch(s) ==
  /\ RemoteAt(s, "fetch")
  /\ MayCommit
  /\ remote' = [remote EXCEPT ![s] = NewRemote]
  /\ UNCHANGED <<view, local, projected, readErrors>>

-----------------------------------------------------------------------------
LocalStep(s) ==
  \/ StartWatching(s) \/ LeaveLoop(s) \/ StayPaused(s) \/ Elect(s) \/ ElectAfterHandoff(s)
  \/ RaiseInflight(s) \/ VerifyOpen(s) \/ CaptureGeneration(s) \/ CommitObservation(s)
  \/ ObservationFails(s) \/ PublishObserved(s) \/ FinishCycle(s) \/ RefreshAsked(s) \/ PollDatabase(s)

RemoteStep(s) == RemoteTurn(s) \/ RemoteFetch(s)

ViewStep(s) ==
  \/ OpenSource(s) \/ Activate(s) \/ Close(s) \/ FenceAndRelease(s) \/ ProcessDies(s)

ObserverNext ==
  \/ \E s \in Sources : ViewStep(s) \/ LocalStep(s) \/ RemoteStep(s)
  \/ HookCommits

ObserverSpec == ObserverInit /\ [][ObserverNext]_observerVars

\* The threads of an open view run, and nobody asks for a refresh twice a
\* second for ever.
ObserverFairness ==
  \A s \in Sources : WF_observerVars(LocalStep(s)) /\ SF_observerVars(PollDatabase(s))

FairObserverSpec == ObserverSpec /\ ObserverFairness

-----------------------------------------------------------------------------
(* Properties.                                                             *)

ObserverTypeOK ==
  /\ commits \in 0..MaxCommits /\ projected \in 0..MaxCommits
  /\ \A s \in Sources :
       /\ view[s].closing \in {"unopened", "open", "stopped", "fenced"}
       /\ view[s].watched \in 0..commits \union {NotWatching}
       /\ view[s].shown \in 0..commits /\ local[s].loaded \in 0..commits
       /\ local[s].at \in {"start", "top", "begin", "verify", "capture", "reading",
            "load", "write", "wait", "done"}
       /\ remote[s].at \in {"top", "fetch", "done"}

\* Reading providers, tmux and machines, or writing what was read.
Scanning(s) ==
  \/ local[s].at \in {"capture", "reading", "load", "write"}
  \/ remote[s].at = "fetch"

\* One observer of a profile: a view that takes over waits until the last
\* reading of its predecessor, local or remote, has ended, also when that
\* view was closed in the middle of it (activity_lease.rs:1).
OneObserver == \A s, r \in Sources : Scanning(s) /\ Scanning(r) => s = r

\* The projection that every process reads never goes back: a slow observer
\* that lost its view does not overwrite its successor's sample.
ProjectionAdvances == [][projected' >= projected]_observerVars

Observing(s) == view[s].closing = "open" /\ view[s].gate

\* Whatever is committed is shown by every open view, owner or follower, with
\* failed reads and coalesced changes in between.  Excepted is a view whose
\* first frame no read has replaced since its watcher began.
ShownEventually ==
  \A s \in Sources : \A c \in 1..MaxCommits :
    (Observing(s) /\ ~view[s].gap /\ commits = c) ~> (view[s].shown >= c \/ ~Observing(s))

\* "Never consume a coalesced reconcile/hook commit without re-reading the
\* cache" (activity_observer.rs:129), without that exception.
NothingConsumedUnread ==
  \A s \in Sources :
    Observing(s) /\ local[s].at = "wait" /\ view[s].watched # NotWatching
      => view[s].shown >= view[s].watched

\* "a slow read can finish detached without ever becoming authoritative"
\* (activity_observer.rs:352): once a closing view has passed its fence, its
\* observation does not commit.  A view may close after the thread has looked
\* and before it takes the fence's generation.
ClosedNeverCommits ==
  [][\A s \in Sources :
       local[s].at = "reading" /\ local'[s].at = "load"
         => view[s].closing # "fenced"]_observerVars
=============================================================================
