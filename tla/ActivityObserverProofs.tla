----------------------- MODULE ActivityObserverProofs -----------------------
(***************************************************************************)
(* One observer at a time, and a projection that only advances, for any    *)
(* number of views and commits.  The lock is held by the clones of one     *)
(* view's handle; a thread that scans keeps a clone of its own until it is *)
(* done, so no other view can take the lock meanwhile.                     *)
(***************************************************************************)
EXTENDS ActivityObserver, TLAPS

Views ==
  [closing : {"unopened", "open", "stopped", "fenced"}, gate : BOOLEAN, slot : BOOLEAN,
   inflight : BOOLEAN, fence : Nat, due : BOOLEAN, observing : BOOLEAN,
   watched : Nat \union {NotWatching}, shown : Nat, gap : BOOLEAN]

Locals ==
  [at : {"start", "top", "begin", "verify", "capture", "reading", "load", "write", "wait",
         "done"},
   lease : BOOLEAN, generation : Nat, base : Nat, loaded : Nat]

Remotes == [at : {"top", "fetch", "done"}, lease : BOOLEAN]

ObserverShapes ==
  /\ commits \in Nat /\ projected \in Nat
  /\ view \in [Sources -> Views]
  /\ local \in [Sources -> Locals]
  /\ remote \in [Sources -> Remotes]

\* flock: the open handles are clones of one view's.
LockExclusive == \A s, r \in Sources : HoldsLock(s) /\ HoldsLock(r) => s = r

\* A thread that scans, or is about to, has a clone of its own.
KeepsLease(s) ==
  /\ local[s].at \in {"begin", "verify", "capture", "reading", "load", "write"} => local[s].lease
  /\ remote[s].at = "fetch" => remote[s].lease
ScansUnderLease == \A s \in Sources : KeepsLease(s)

\* What is about to be written to the projection is no older than what is there.
WriterIsNewest ==
  /\ projected <= commits
  /\ \A s \in Sources :
       local[s].at = "write" => projected <= local[s].loaded /\ local[s].loaded <= commits

ObserverInv == ObserverShapes /\ LockExclusive /\ ScansUnderLease /\ WriterIsNewest

\* No view is open.
LEMMA ObserverInvInit == ObserverInit => ObserverInv
BY ObserverConstants
DEF ObserverInit, ObserverInv, ObserverShapes, Views, Locals, Remotes, NewView, NewLocal,
    NewRemote, LockExclusive, HoldsLock, ScansUnderLease, KeepsLease,
    WriterIsNewest

\* A step of one view keeps the invariant if a clone is opened only with
\* another at hand or with none anywhere, and only a lease holder publishes.
LEMMA OneViewMoves ==
  ASSUME ObserverInv, NEW s \in Sources,
         NEW v \in Views, view' = [view EXCEPT ![s] = v],
         NEW l \in Locals, local' = [local EXCEPT ![s] = l],
         NEW m \in Remotes, remote' = [remote EXCEPT ![s] = m],
         commits' \in Nat, projected' \in Nat,
         HoldsLock(s)' => HoldsLock(s) \/ LockFree,
         KeepsLease(s)',
         projected' <= commits', commits <= commits',
         projected' # projected => local[s].lease,
         l.at = "write" => projected' <= l.loaded /\ l.loaded <= commits'
  PROVE  ObserverInv'
<1> ObserverShapes /\ ObserverShapes'
  BY DEF ObserverInv, ObserverShapes
<1> USE DEF ObserverShapes
<1>1. LockExclusive'
  BY DEF ObserverInv, LockExclusive, HoldsLock, LockFree
<1>2. ScansUnderLease'
  BY DEF ObserverInv, ScansUnderLease, KeepsLease
<1>3. ASSUME NEW r \in Sources, local'[r].at = "write"
      PROVE  projected' <= local'[r].loaded /\ local'[r].loaded <= commits'
  <2>1. CASE r = s
    BY <2>1, <1>3
  <2>2. CASE r # s
    <3>1. local'[r] = local[r] /\ local[r].lease
      BY <1>3, <2>2 DEF ObserverInv, ScansUnderLease, KeepsLease
    <3>2. projected' = projected
      BY <2>2, <3>1 DEF ObserverInv, LockExclusive, HoldsLock
    <3> QED BY <1>3, <3>1, <3>2 DEF ObserverInv, WriterIsNewest, ObserverShapes, Locals
  <2> QED BY <2>1, <2>2
<1> QED BY <1>1, <1>2, <1>3 DEF ObserverInv, WriterIsNewest

\* What a view shows after a reading is a view with the same handle.
LEMMA ShownIsView ==
  ASSUME ObserverShapes, NEW s \in Sources
  PROVE  Shown(s) \in Views /\ Shown(s).slot = view[s].slot
BY DEF Shown, Cancelled, ObserverShapes, Views

\* What the end of the loop leaves is a view and a thread.
LEMMA EndedIsView ==
  ASSUME ObserverShapes, NEW s \in Sources
  PROVE  /\ [NewView EXCEPT !.closing = view[s].closing] \in Views
         /\ [NewLocal EXCEPT !.at = "done"] \in Locals
<1>1. view[s].closing \in {"unopened", "open", "stopped", "fenced"}
  BY DEF ObserverShapes, Views
<1>2. [NewView EXCEPT !.closing = view[s].closing] \in Views
  BY <1>1 DEF NewView, Views
<1>3. [NewLocal EXCEPT !.at = "done"] \in Locals
  BY DEF NewLocal, Locals
<1> QED BY <1>2, <1>3

\* Every step of a view's threads, its opening, closing and death keeps it.
LEMMA ObserverInvStep == ObserverInv /\ [ObserverNext]_observerVars => ObserverInv'
<1> SUFFICES ASSUME ObserverInv, [ObserverNext]_observerVars PROVE ObserverInv'
  OBVIOUS
<1> USE ObserverConstants
    DEF ObserverShapes, LocalAt, LocalTo, RemoteAt, LocalTop, LocalWait, LocalDone, NewView,
        NewLocal, NewRemote, Opened, Cancelled
<1> ObserverShapes /\ ScansUnderLease /\ WriterIsNewest
  BY DEF ObserverInv
<1>1. ASSUME NEW s \in Sources, OpenSource(s) PROVE ObserverInv'
  <2>1. view'[s] \in Views
    <3>1. PICK handoff \in BOOLEAN :
            view'[s] = [view[s] EXCEPT !.closing = "open", !.gate = ~handoff,
                                       !.observing = ~handoff, !.shown = commits]
      BY <1>1 DEF OpenSource
    <3>2. view[s] \in Views /\ (~handoff) \in BOOLEAN /\ commits \in Nat
      OBVIOUS
    <3> QED BY <3>1, <3>2 DEF Views
  <2>2. local'[s] \in Locals
    BY <1>1 DEF OpenSource, Locals
  <2>3. remote'[s] \in Remotes
    BY <1>1 DEF OpenSource, Remotes
  <2>4. /\ view' = [view EXCEPT ![s] = view'[s]] /\ local' = [local EXCEPT ![s] = local'[s]]
        /\ remote' = [remote EXCEPT ![s] = remote'[s]] /\ commits' \in Nat /\ projected' \in Nat
    BY <1>1 DEF OpenSource, Locals
  <2>5. (HoldsLock(s)' => HoldsLock(s) \/ LockFree) /\ KeepsLease(s)'
    BY <1>1 DEF OpenSource, HoldsLock, ScansUnderLease, KeepsLease, Views, Locals, Remotes
  <2>6. /\ projected' <= commits' /\ commits <= commits'
        /\ projected' # projected => local[s].lease
        /\ local'[s].at = "write" => projected' <= local'[s].loaded /\ local'[s].loaded <= commits'
    BY <1>1 DEF OpenSource, ScansUnderLease, KeepsLease, WriterIsNewest, Locals
  <2> QED BY <2>1, <2>2, <2>3, <2>4, <2>5, <2>6, OneViewMoves
<1>2. ASSUME NEW s \in Sources, Activate(s) PROVE ObserverInv'
  <2>1. view'[s] \in Views
    BY <1>2 DEF Activate, Views
  <2>2. local'[s] \in Locals
    BY <1>2 DEF Activate, Locals
  <2>3. remote'[s] \in Remotes
    BY <1>2 DEF Activate, Remotes
  <2>4. /\ view' = [view EXCEPT ![s] = view'[s]] /\ local' = [local EXCEPT ![s] = local'[s]]
        /\ remote' = [remote EXCEPT ![s] = remote'[s]] /\ commits' \in Nat /\ projected' \in Nat
    BY <1>2 DEF Activate, Locals
  <2>5. (HoldsLock(s)' => HoldsLock(s) \/ LockFree) /\ KeepsLease(s)'
    BY <1>2 DEF Activate, HoldsLock, ScansUnderLease, KeepsLease, Views, Locals, Remotes
  <2>6. /\ projected' <= commits' /\ commits <= commits'
        /\ projected' # projected => local[s].lease
        /\ local'[s].at = "write" => projected' <= local'[s].loaded /\ local'[s].loaded <= commits'
    BY <1>2 DEF Activate, ScansUnderLease, KeepsLease, WriterIsNewest, Locals
  <2> QED BY <2>1, <2>2, <2>3, <2>4, <2>5, <2>6, OneViewMoves
<1>3. ASSUME NEW s \in Sources, Close(s) PROVE ObserverInv'
  <2>1. view'[s] \in Views
    BY <1>3 DEF Close, Views
  <2>2. local'[s] \in Locals
    BY <1>3 DEF Close, Locals
  <2>3. remote'[s] \in Remotes
    BY <1>3 DEF Close, Remotes
  <2>4. /\ view' = [view EXCEPT ![s] = view'[s]] /\ local' = [local EXCEPT ![s] = local'[s]]
        /\ remote' = [remote EXCEPT ![s] = remote'[s]] /\ commits' \in Nat /\ projected' \in Nat
    BY <1>3 DEF Close, Locals
  <2>5. (HoldsLock(s)' => HoldsLock(s) \/ LockFree) /\ KeepsLease(s)'
    BY <1>3 DEF Close, HoldsLock, ScansUnderLease, KeepsLease, Views, Locals, Remotes
  <2>6. /\ projected' <= commits' /\ commits <= commits'
        /\ projected' # projected => local[s].lease
        /\ local'[s].at = "write" => projected' <= local'[s].loaded /\ local'[s].loaded <= commits'
    BY <1>3 DEF Close, ScansUnderLease, KeepsLease, WriterIsNewest, Locals
  <2> QED BY <2>1, <2>2, <2>3, <2>4, <2>5, <2>6, OneViewMoves
<1>4. ASSUME NEW s \in Sources, FenceAndRelease(s) PROVE ObserverInv'
  <2>1. view'[s] \in Views
    BY <1>4 DEF FenceAndRelease, Views
  <2>2. local'[s] \in Locals
    BY <1>4 DEF FenceAndRelease, Locals
  <2>3. remote'[s] \in Remotes
    BY <1>4 DEF FenceAndRelease, Remotes
  <2>4. /\ view' = [view EXCEPT ![s] = view'[s]] /\ local' = [local EXCEPT ![s] = local'[s]]
        /\ remote' = [remote EXCEPT ![s] = remote'[s]] /\ commits' \in Nat /\ projected' \in Nat
    BY <1>4 DEF FenceAndRelease, Locals
  <2>5. (HoldsLock(s)' => HoldsLock(s) \/ LockFree) /\ KeepsLease(s)'
    BY <1>4 DEF FenceAndRelease, HoldsLock, ScansUnderLease, KeepsLease, Views, Locals, Remotes
  <2>6. /\ projected' <= commits' /\ commits <= commits'
        /\ projected' # projected => local[s].lease
        /\ local'[s].at = "write" => projected' <= local'[s].loaded /\ local'[s].loaded <= commits'
    BY <1>4 DEF FenceAndRelease, ScansUnderLease, KeepsLease, WriterIsNewest, Locals
  <2> QED BY <2>1, <2>2, <2>3, <2>4, <2>5, <2>6, OneViewMoves
<1>5. ASSUME NEW s \in Sources, ProcessDies(s) PROVE ObserverInv'
  <2>1. view'[s] \in Views
    BY <1>5 DEF ProcessDies, Views
  <2>2. local'[s] \in Locals
    BY <1>5 DEF ProcessDies, Locals
  <2>3. remote'[s] \in Remotes
    BY <1>5 DEF ProcessDies, Remotes
  <2>4. /\ view' = [view EXCEPT ![s] = view'[s]] /\ local' = [local EXCEPT ![s] = local'[s]]
        /\ remote' = [remote EXCEPT ![s] = remote'[s]] /\ commits' \in Nat /\ projected' \in Nat
    BY <1>5 DEF ProcessDies, Locals
  <2>5. (HoldsLock(s)' => HoldsLock(s) \/ LockFree) /\ KeepsLease(s)'
    BY <1>5 DEF ProcessDies, HoldsLock, ScansUnderLease, KeepsLease, Views, Locals, Remotes
  <2>6. /\ projected' <= commits' /\ commits <= commits'
        /\ projected' # projected => local[s].lease
        /\ local'[s].at = "write" => projected' <= local'[s].loaded /\ local'[s].loaded <= commits'
    BY <1>5 DEF ProcessDies, ScansUnderLease, KeepsLease, WriterIsNewest, Locals
  <2> QED BY <2>1, <2>2, <2>3, <2>4, <2>5, <2>6, OneViewMoves
<1>6. ASSUME NEW s \in Sources, StartWatching(s) PROVE ObserverInv'
  <2>1. view'[s] \in Views
    BY <1>6 DEF StartWatching, Views
  <2>2. local'[s] \in Locals
    BY <1>6 DEF StartWatching, Locals
  <2>3. remote'[s] \in Remotes
    BY <1>6 DEF StartWatching, Remotes
  <2>4. /\ view' = [view EXCEPT ![s] = view'[s]] /\ local' = [local EXCEPT ![s] = local'[s]]
        /\ remote' = [remote EXCEPT ![s] = remote'[s]] /\ commits' \in Nat /\ projected' \in Nat
    BY <1>6 DEF StartWatching, Locals
  <2>5. (HoldsLock(s)' => HoldsLock(s) \/ LockFree) /\ KeepsLease(s)'
    <3>1. local'[s].lease = FALSE /\ local'[s].at = "top" /\ view'[s].slot = view[s].slot
      BY <1>6 DEF StartWatching, Views, Locals
    <3> QED BY <1>6, <3>1 DEF StartWatching, HoldsLock, ScansUnderLease, KeepsLease
  <2>6. /\ projected' <= commits' /\ commits <= commits'
        /\ projected' # projected => local[s].lease
        /\ local'[s].at = "write" => projected' <= local'[s].loaded /\ local'[s].loaded <= commits'
    BY <1>6 DEF StartWatching, ScansUnderLease, KeepsLease, WriterIsNewest, Locals
  <2> QED BY <2>1, <2>2, <2>3, <2>4, <2>5, <2>6, OneViewMoves
<1>7. ASSUME NEW s \in Sources, LeaveLoop(s) PROVE ObserverInv'
  <2>1. view'[s] \in Views
    BY <1>7 DEF LeaveLoop, EndLoop, Views
  <2>2. local'[s] \in Locals
    BY <1>7 DEF LeaveLoop, EndLoop, Locals
  <2>3. remote'[s] \in Remotes
    BY <1>7 DEF LeaveLoop, EndLoop, Remotes
  <2>4. /\ view' = [view EXCEPT ![s] = view'[s]] /\ local' = [local EXCEPT ![s] = local'[s]]
        /\ remote' = [remote EXCEPT ![s] = remote'[s]] /\ commits' \in Nat /\ projected' \in Nat
    BY <1>7 DEF LeaveLoop, EndLoop, Locals
  <2>5. (HoldsLock(s)' => HoldsLock(s) \/ LockFree) /\ KeepsLease(s)'
    BY <1>7 DEF LeaveLoop, EndLoop, HoldsLock, ScansUnderLease, KeepsLease, Views, Locals, Remotes
  <2>6. /\ projected' <= commits' /\ commits <= commits'
        /\ projected' # projected => local[s].lease
        /\ local'[s].at = "write" => projected' <= local'[s].loaded /\ local'[s].loaded <= commits'
    BY <1>7 DEF LeaveLoop, EndLoop, ScansUnderLease, KeepsLease, WriterIsNewest, Locals
  <2> QED BY <2>1, <2>2, <2>3, <2>4, <2>5, <2>6, OneViewMoves
<1>8. ASSUME NEW s \in Sources, StayPaused(s) PROVE ObserverInv'
  <2>1. view'[s] \in Views
    BY <1>8 DEF StayPaused, Views
  <2>2. local'[s] \in Locals
    BY <1>8 DEF StayPaused, Locals
  <2>3. remote'[s] \in Remotes
    BY <1>8 DEF StayPaused, Remotes
  <2>4. /\ view' = [view EXCEPT ![s] = view'[s]] /\ local' = [local EXCEPT ![s] = local'[s]]
        /\ remote' = [remote EXCEPT ![s] = remote'[s]] /\ commits' \in Nat /\ projected' \in Nat
    BY <1>8 DEF StayPaused, Locals
  <2>5. (HoldsLock(s)' => HoldsLock(s) \/ LockFree) /\ KeepsLease(s)'
    BY <1>8 DEF StayPaused, HoldsLock, ScansUnderLease, KeepsLease, Views, Locals, Remotes
  <2>6. /\ projected' <= commits' /\ commits <= commits'
        /\ projected' # projected => local[s].lease
        /\ local'[s].at = "write" => projected' <= local'[s].loaded /\ local'[s].loaded <= commits'
    BY <1>8 DEF StayPaused, ScansUnderLease, KeepsLease, WriterIsNewest, Locals
  <2> QED BY <2>1, <2>2, <2>3, <2>4, <2>5, <2>6, OneViewMoves
<1>9. ASSUME NEW s \in Sources, Elect(s) PROVE ObserverInv'
  <2>1. view'[s] \in Views
    BY <1>9 DEF Elect, Acquires, Views
  <2>2. local'[s] \in Locals
    BY <1>9 DEF Elect, Acquires, Locals
  <2>3. remote'[s] \in Remotes
    BY <1>9 DEF Elect, Acquires, Remotes
  <2>4. /\ view' = [view EXCEPT ![s] = view'[s]] /\ local' = [local EXCEPT ![s] = local'[s]]
        /\ remote' = [remote EXCEPT ![s] = remote'[s]] /\ commits' \in Nat /\ projected' \in Nat
    BY <1>9 DEF Elect, Acquires, Locals
  <2>5. (HoldsLock(s)' => HoldsLock(s) \/ LockFree) /\ KeepsLease(s)'
    BY <1>9 DEF Elect, Acquires, HoldsLock, ScansUnderLease, KeepsLease, Views, Locals, Remotes
  <2>6. /\ projected' <= commits' /\ commits <= commits'
        /\ projected' # projected => local[s].lease
        /\ local'[s].at = "write" => projected' <= local'[s].loaded /\ local'[s].loaded <= commits'
    BY <1>9 DEF Elect, Acquires, ScansUnderLease, KeepsLease, WriterIsNewest, Locals
  <2> QED BY <2>1, <2>2, <2>3, <2>4, <2>5, <2>6, OneViewMoves
<1>10. ASSUME NEW s \in Sources, ElectAfterHandoff(s) PROVE ObserverInv'
  <2>1. view'[s] \in Views
    <3>1. PICK read \in {Shown(s), view[s]} :
            view'[s] = [read EXCEPT !.slot = Acquires(s), !.observing = TRUE, !.due = FALSE]
      BY <1>10 DEF ElectAfterHandoff
    <3>2. read \in Views /\ Acquires(s) \in BOOLEAN
      BY ShownIsView DEF Acquires, LockFree, Views
    <3> QED BY <3>1, <3>2 DEF Views
  <2>2. local'[s] \in Locals
    <3>1. local'[s] = [local[s] EXCEPT !.at = "wait", !.lease = Acquires(s)]
      BY <1>10 DEF ElectAfterHandoff
    <3>2. Acquires(s) \in BOOLEAN
      BY DEF Acquires, LockFree, Views
    <3> QED BY <3>1, <3>2 DEF Locals
  <2>3. remote'[s] \in Remotes
    BY <1>10 DEF ElectAfterHandoff, Acquires, Shown, Remotes
  <2>4. /\ view' = [view EXCEPT ![s] = view'[s]] /\ local' = [local EXCEPT ![s] = local'[s]]
        /\ remote' = [remote EXCEPT ![s] = remote'[s]] /\ commits' \in Nat /\ projected' \in Nat
    BY <1>10 DEF ElectAfterHandoff, Acquires, Shown, Locals
  <2>5. (HoldsLock(s)' => HoldsLock(s) \/ LockFree) /\ KeepsLease(s)'
    BY <1>10 DEF ElectAfterHandoff, Acquires, Shown, HoldsLock, ScansUnderLease, KeepsLease, Views, Locals, Remotes
  <2>6. /\ projected' <= commits' /\ commits <= commits'
        /\ projected' # projected => local[s].lease
        /\ local'[s].at = "write" => projected' <= local'[s].loaded /\ local'[s].loaded <= commits'
    BY <1>10 DEF ElectAfterHandoff, Acquires, Shown, ScansUnderLease, KeepsLease, WriterIsNewest, Locals
  <2> QED BY <2>1, <2>2, <2>3, <2>4, <2>5, <2>6, OneViewMoves
<1>11. ASSUME NEW s \in Sources, RaiseInflight(s) PROVE ObserverInv'
  <2>1. view'[s] \in Views
    BY <1>11 DEF RaiseInflight, Views
  <2>2. local'[s] \in Locals
    BY <1>11 DEF RaiseInflight, Locals
  <2>3. remote'[s] \in Remotes
    BY <1>11 DEF RaiseInflight, Remotes
  <2>4. /\ view' = [view EXCEPT ![s] = view'[s]] /\ local' = [local EXCEPT ![s] = local'[s]]
        /\ remote' = [remote EXCEPT ![s] = remote'[s]] /\ commits' \in Nat /\ projected' \in Nat
    BY <1>11 DEF RaiseInflight, Locals
  <2>5. (HoldsLock(s)' => HoldsLock(s) \/ LockFree) /\ KeepsLease(s)'
    BY <1>11 DEF RaiseInflight, HoldsLock, ScansUnderLease, KeepsLease, Views, Locals, Remotes
  <2>6. /\ projected' <= commits' /\ commits <= commits'
        /\ projected' # projected => local[s].lease
        /\ local'[s].at = "write" => projected' <= local'[s].loaded /\ local'[s].loaded <= commits'
    BY <1>11 DEF RaiseInflight, ScansUnderLease, KeepsLease, WriterIsNewest, Locals
  <2> QED BY <2>1, <2>2, <2>3, <2>4, <2>5, <2>6, OneViewMoves
<1>12. ASSUME NEW s \in Sources, VerifyOpen(s) PROVE ObserverInv'
  <2>1. view'[s] \in Views
    <3>1. CASE Cancelled(s)
      <4>1. view'[s] = [NewView EXCEPT !.closing = view[s].closing]
        BY <1>12, <3>1 DEF VerifyOpen, EndLoop
      <4> QED BY <4>1, EndedIsView DEF Views
    <3>2. CASE ~Cancelled(s)
      BY <1>12, <3>2 DEF VerifyOpen, Views
    <3> QED BY <3>1, <3>2
  <2>2. local'[s] \in Locals
    <3>1. CASE Cancelled(s)
      <4>1. local'[s] = [NewLocal EXCEPT !.at = "done"]
        BY <1>12, <3>1 DEF VerifyOpen, EndLoop
      <4> QED BY <4>1, EndedIsView
    <3>2. CASE ~Cancelled(s)
      BY <1>12, <3>2 DEF VerifyOpen, Locals
    <3> QED BY <3>1, <3>2
  <2>3. remote'[s] \in Remotes
    BY <1>12 DEF VerifyOpen, EndLoop, Remotes
  <2>4. /\ view' = [view EXCEPT ![s] = view'[s]] /\ local' = [local EXCEPT ![s] = local'[s]]
        /\ remote' = [remote EXCEPT ![s] = remote'[s]] /\ commits' \in Nat /\ projected' \in Nat
    BY <1>12 DEF VerifyOpen, EndLoop, Locals
  <2>5. (HoldsLock(s)' => HoldsLock(s) \/ LockFree) /\ KeepsLease(s)'
    <3>1. CASE Cancelled(s)
      BY <1>12, <3>1 DEF VerifyOpen, EndLoop, HoldsLock, ScansUnderLease, KeepsLease, Views, Locals, Remotes
    <3>2. CASE ~Cancelled(s)
      BY <1>12, <3>2 DEF VerifyOpen, HoldsLock, ScansUnderLease, KeepsLease, Views, Locals, Remotes
    <3> QED BY <3>1, <3>2
  <2>6. /\ projected' <= commits' /\ commits <= commits'
        /\ projected' # projected => local[s].lease
        /\ local'[s].at = "write" => projected' <= local'[s].loaded /\ local'[s].loaded <= commits'
    BY <1>12 DEF VerifyOpen, EndLoop, ScansUnderLease, KeepsLease, WriterIsNewest, Locals
  <2> QED BY <2>1, <2>2, <2>3, <2>4, <2>5, <2>6, OneViewMoves
<1>13. ASSUME NEW s \in Sources, CaptureGeneration(s) PROVE ObserverInv'
  <2>1. view'[s] \in Views
    BY <1>13 DEF CaptureGeneration, Views
  <2>2. local'[s] \in Locals
    BY <1>13 DEF CaptureGeneration, Views, Locals
  <2>3. remote'[s] \in Remotes
    BY <1>13 DEF CaptureGeneration, Remotes
  <2>4. /\ view' = [view EXCEPT ![s] = view'[s]] /\ local' = [local EXCEPT ![s] = local'[s]]
        /\ remote' = [remote EXCEPT ![s] = remote'[s]] /\ commits' \in Nat /\ projected' \in Nat
    BY <1>13 DEF CaptureGeneration, Locals
  <2>5. (HoldsLock(s)' => HoldsLock(s) \/ LockFree) /\ KeepsLease(s)'
    BY <1>13 DEF CaptureGeneration, HoldsLock, ScansUnderLease, KeepsLease, Views, Locals, Remotes
  <2>6. /\ projected' <= commits' /\ commits <= commits'
        /\ projected' # projected => local[s].lease
        /\ local'[s].at = "write" => projected' <= local'[s].loaded /\ local'[s].loaded <= commits'
    BY <1>13 DEF CaptureGeneration, ScansUnderLease, KeepsLease, WriterIsNewest, Locals
  <2> QED BY <2>1, <2>2, <2>3, <2>4, <2>5, <2>6, OneViewMoves
<1>14. ASSUME NEW s \in Sources, CommitObservation(s) PROVE ObserverInv'
  <2>1. view'[s] \in Views
    BY <1>14 DEF CommitObservation, MayCommit, Views
  <2>2. local'[s] \in Locals
    BY <1>14 DEF CommitObservation, MayCommit, Locals
  <2>3. remote'[s] \in Remotes
    BY <1>14 DEF CommitObservation, MayCommit, Remotes
  <2>4. /\ view' = [view EXCEPT ![s] = view'[s]] /\ local' = [local EXCEPT ![s] = local'[s]]
        /\ remote' = [remote EXCEPT ![s] = remote'[s]] /\ commits' \in Nat /\ projected' \in Nat
    BY <1>14 DEF CommitObservation, MayCommit, Locals
  <2>5. (HoldsLock(s)' => HoldsLock(s) \/ LockFree) /\ KeepsLease(s)'
    BY <1>14 DEF CommitObservation, MayCommit, HoldsLock, ScansUnderLease, KeepsLease, Views, Locals, Remotes
  <2>6. /\ projected' <= commits' /\ commits <= commits'
        /\ projected' # projected => local[s].lease
        /\ local'[s].at = "write" => projected' <= local'[s].loaded /\ local'[s].loaded <= commits'
    BY <1>14 DEF CommitObservation, MayCommit, ScansUnderLease, KeepsLease, WriterIsNewest, Locals
  <2> QED BY <2>1, <2>2, <2>3, <2>4, <2>5, <2>6, OneViewMoves
<1>15. ASSUME NEW s \in Sources, ObservationFails(s) PROVE ObserverInv'
  <2>1. view'[s] \in Views
    BY <1>15 DEF ObservationFails, Views
  <2>2. local'[s] \in Locals
    BY <1>15 DEF ObservationFails, Locals
  <2>3. remote'[s] \in Remotes
    BY <1>15 DEF ObservationFails, Remotes
  <2>4. /\ view' = [view EXCEPT ![s] = view'[s]] /\ local' = [local EXCEPT ![s] = local'[s]]
        /\ remote' = [remote EXCEPT ![s] = remote'[s]] /\ commits' \in Nat /\ projected' \in Nat
    BY <1>15 DEF ObservationFails, Locals
  <2>5. (HoldsLock(s)' => HoldsLock(s) \/ LockFree) /\ KeepsLease(s)'
    BY <1>15 DEF ObservationFails, HoldsLock, ScansUnderLease, KeepsLease, Views, Locals, Remotes
  <2>6. /\ projected' <= commits' /\ commits <= commits'
        /\ projected' # projected => local[s].lease
        /\ local'[s].at = "write" => projected' <= local'[s].loaded /\ local'[s].loaded <= commits'
    BY <1>15 DEF ObservationFails, ScansUnderLease, KeepsLease, WriterIsNewest, Locals
  <2> QED BY <2>1, <2>2, <2>3, <2>4, <2>5, <2>6, OneViewMoves
<1>16. ASSUME NEW s \in Sources, PublishObserved(s) PROVE ObserverInv'
  <2>1. PICK w \in {Shown(s), view[s]}, l \in Locals :
          /\ view' = [view EXCEPT ![s] = [w EXCEPT !.inflight = FALSE]]
          /\ local' = [local EXCEPT ![s] = l] /\ l.lease = local[s].lease
          /\ l.at # "write" \/ l.loaded = commits
    <3>1. CASE view' = [view EXCEPT ![s] = [Shown(s) EXCEPT !.inflight = FALSE]]
               /\ local' = [local EXCEPT ![s].at = "write", ![s].generation = 0, ![s].base = 0,
                                         ![s].loaded = commits]
      <4>1. [local[s] EXCEPT !.at = "write", !.generation = 0, !.base = 0, !.loaded = commits]
              \in Locals
        BY DEF Locals
      <4> QED BY <3>1, <4>1 DEF Locals
    <3>2. CASE view' = [view EXCEPT ![s].inflight = FALSE] /\ LocalWait(s)
      <4>1. [NewLocal EXCEPT !.at = "wait", !.lease = local[s].lease] \in Locals
        BY DEF Locals
      <4> QED BY <3>2, <4>1
    <3> QED BY <1>16, <3>1, <3>2 DEF PublishObserved
  <2>2. w \in Views /\ w.slot = view[s].slot
    BY ShownIsView
  <2>3. [w EXCEPT !.inflight = FALSE] \in Views /\ [w EXCEPT !.inflight = FALSE].slot = view[s].slot
    BY <2>2 DEF Views
  <2>4. local[s].lease /\ projected <= commits /\ UNCHANGED <<commits, projected, remote>>
    BY <1>16 DEF PublishObserved, ScansUnderLease, KeepsLease, WriterIsNewest
  <2>5. (HoldsLock(s)' => HoldsLock(s) \/ LockFree) /\ KeepsLease(s)'
    BY <2>1, <2>3, <2>4 DEF HoldsLock, ScansUnderLease, KeepsLease
  <2>6. commits <= commits' /\ (l.at = "write" => l.loaded = commits)
    BY <2>1, <2>4
  <2> QED BY <2>1, <2>3, <2>4, <2>5, <2>6, OneViewMoves
<1>17. ASSUME NEW s \in Sources, FinishCycle(s) PROVE ObserverInv'
  <2>1. view'[s] \in Views
    BY <1>17 DEF FinishCycle, ConsumeChange, Views
  <2>2. local'[s] \in Locals
    BY <1>17 DEF FinishCycle, ConsumeChange, Locals
  <2>3. remote'[s] \in Remotes
    BY <1>17 DEF FinishCycle, ConsumeChange, Remotes
  <2>4. /\ view' = [view EXCEPT ![s] = view'[s]] /\ local' = [local EXCEPT ![s] = local'[s]]
        /\ remote' = [remote EXCEPT ![s] = remote'[s]] /\ commits' \in Nat /\ projected' \in Nat
    BY <1>17 DEF FinishCycle, ConsumeChange, Locals
  <2>5. (HoldsLock(s)' => HoldsLock(s) \/ LockFree) /\ KeepsLease(s)'
    BY <1>17 DEF FinishCycle, ConsumeChange, HoldsLock, ScansUnderLease, KeepsLease, Views, Locals, Remotes
  <2>6. /\ projected' <= commits' /\ commits <= commits'
        /\ projected' # projected => local[s].lease
        /\ local'[s].at = "write" => projected' <= local'[s].loaded /\ local'[s].loaded <= commits'
    BY <1>17 DEF FinishCycle, ConsumeChange, ScansUnderLease, KeepsLease, WriterIsNewest, Locals
  <2> QED BY <2>1, <2>2, <2>3, <2>4, <2>5, <2>6, OneViewMoves
<1>18. ASSUME NEW s \in Sources, RefreshAsked(s) PROVE ObserverInv'
  <2>1. view'[s] \in Views
    BY <1>18 DEF RefreshAsked, Views
  <2>2. local'[s] \in Locals
    BY <1>18 DEF RefreshAsked, Locals
  <2>3. remote'[s] \in Remotes
    BY <1>18 DEF RefreshAsked, Remotes
  <2>4. /\ view' = [view EXCEPT ![s] = view'[s]] /\ local' = [local EXCEPT ![s] = local'[s]]
        /\ remote' = [remote EXCEPT ![s] = remote'[s]] /\ commits' \in Nat /\ projected' \in Nat
    BY <1>18 DEF RefreshAsked, Locals
  <2>5. (HoldsLock(s)' => HoldsLock(s) \/ LockFree) /\ KeepsLease(s)'
    BY <1>18 DEF RefreshAsked, HoldsLock, ScansUnderLease, KeepsLease, Views, Locals, Remotes
  <2>6. /\ projected' <= commits' /\ commits <= commits'
        /\ projected' # projected => local[s].lease
        /\ local'[s].at = "write" => projected' <= local'[s].loaded /\ local'[s].loaded <= commits'
    BY <1>18 DEF RefreshAsked, ScansUnderLease, KeepsLease, WriterIsNewest, Locals
  <2> QED BY <2>1, <2>2, <2>3, <2>4, <2>5, <2>6, OneViewMoves
<1>19. ASSUME NEW s \in Sources, PollDatabase(s) PROVE ObserverInv'
  <2>1. view'[s] \in Views
    BY <1>19 DEF PollDatabase, ConsumeChange, Views
  <2>2. local'[s] \in Locals
    BY <1>19 DEF PollDatabase, ConsumeChange, Locals
  <2>3. remote'[s] \in Remotes
    BY <1>19 DEF PollDatabase, ConsumeChange, Remotes
  <2>4. /\ view' = [view EXCEPT ![s] = view'[s]] /\ local' = [local EXCEPT ![s] = local'[s]]
        /\ remote' = [remote EXCEPT ![s] = remote'[s]] /\ commits' \in Nat /\ projected' \in Nat
    BY <1>19 DEF PollDatabase, ConsumeChange, Locals
  <2>5. (HoldsLock(s)' => HoldsLock(s) \/ LockFree) /\ KeepsLease(s)'
    BY <1>19 DEF PollDatabase, ConsumeChange, HoldsLock, ScansUnderLease, KeepsLease, Views, Locals, Remotes
  <2>6. /\ projected' <= commits' /\ commits <= commits'
        /\ projected' # projected => local[s].lease
        /\ local'[s].at = "write" => projected' <= local'[s].loaded /\ local'[s].loaded <= commits'
    BY <1>19 DEF PollDatabase, ConsumeChange, ScansUnderLease, KeepsLease, WriterIsNewest, Locals
  <2> QED BY <2>1, <2>2, <2>3, <2>4, <2>5, <2>6, OneViewMoves
<1>20. ASSUME NEW s \in Sources, RemoteTurn(s) PROVE ObserverInv'
  <2>1. view'[s] \in Views
    BY <1>20 DEF RemoteTurn, Views
  <2>2. local'[s] \in Locals
    BY <1>20 DEF RemoteTurn, Locals
  <2>3. remote'[s] \in Remotes
    BY <1>20 DEF RemoteTurn, Remotes
  <2>4. /\ view' = [view EXCEPT ![s] = view'[s]] /\ local' = [local EXCEPT ![s] = local'[s]]
        /\ remote' = [remote EXCEPT ![s] = remote'[s]] /\ commits' \in Nat /\ projected' \in Nat
    BY <1>20 DEF RemoteTurn, Locals
  <2>5. (HoldsLock(s)' => HoldsLock(s) \/ LockFree) /\ KeepsLease(s)'
    BY <1>20 DEF RemoteTurn, HoldsLock, ScansUnderLease, KeepsLease, Views, Locals, Remotes
  <2>6. /\ projected' <= commits' /\ commits <= commits'
        /\ projected' # projected => local[s].lease
        /\ local'[s].at = "write" => projected' <= local'[s].loaded /\ local'[s].loaded <= commits'
    BY <1>20 DEF RemoteTurn, ScansUnderLease, KeepsLease, WriterIsNewest, Locals
  <2> QED BY <2>1, <2>2, <2>3, <2>4, <2>5, <2>6, OneViewMoves
<1>21. ASSUME NEW s \in Sources, RemoteFetch(s) PROVE ObserverInv'
  <2>1. view'[s] \in Views
    BY <1>21 DEF RemoteFetch, MayCommit, Views
  <2>2. local'[s] \in Locals
    BY <1>21 DEF RemoteFetch, MayCommit, Locals
  <2>3. remote'[s] \in Remotes
    BY <1>21 DEF RemoteFetch, MayCommit, Remotes
  <2>4. /\ view' = [view EXCEPT ![s] = view'[s]] /\ local' = [local EXCEPT ![s] = local'[s]]
        /\ remote' = [remote EXCEPT ![s] = remote'[s]] /\ commits' \in Nat /\ projected' \in Nat
    BY <1>21 DEF RemoteFetch, MayCommit, Locals
  <2>5. (HoldsLock(s)' => HoldsLock(s) \/ LockFree) /\ KeepsLease(s)'
    BY <1>21 DEF RemoteFetch, MayCommit, HoldsLock, ScansUnderLease, KeepsLease, Views, Locals, Remotes
  <2>6. /\ projected' <= commits' /\ commits <= commits'
        /\ projected' # projected => local[s].lease
        /\ local'[s].at = "write" => projected' <= local'[s].loaded /\ local'[s].loaded <= commits'
    BY <1>21 DEF RemoteFetch, MayCommit, ScansUnderLease, KeepsLease, WriterIsNewest, Locals
  <2> QED BY <2>1, <2>2, <2>3, <2>4, <2>5, <2>6, OneViewMoves
<1>22. CASE HookCommits
  BY <1>22 DEF HookCommits, ObserverInv, LockExclusive, HoldsLock, ScansUnderLease,
       KeepsLease, WriterIsNewest, Locals
<1>23. CASE UNCHANGED observerVars
  BY <1>23 DEF observerVars, ObserverInv, LockExclusive, HoldsLock, ScansUnderLease,
       KeepsLease, WriterIsNewest
<1> QED BY <1>1, <1>2, <1>3, <1>4, <1>5, <1>6, <1>7, <1>8, <1>9, <1>10, <1>11, <1>12, <1>13, <1>14, <1>15, <1>16, <1>17, <1>18, <1>19, <1>20, <1>21, <1>22, <1>23
        DEF ObserverNext, ViewStep, LocalStep, RemoteStep

\* The strengthened invariant holds in every reachable state.
LEMMA ObserverInvAlways == ObserverSpec => []ObserverInv
BY ObserverInvInit, ObserverInvStep, PTL DEF ObserverSpec

\* One observer of a profile, whatever reading a closed or paused view has still
\* under way (ObservationLease::acquire and the clones of its handle).
THEOREM OneObserverAlways == ObserverSpec => []OneObserver
<1>1. ObserverInv => OneObserver
  BY DEF ObserverInv, LockExclusive, HoldsLock, ScansUnderLease, KeepsLease, OneObserver, Scanning
<1> QED BY <1>1, ObserverInvAlways, PTL

\* No observer writes an older sample over a newer one (publish_observed): what
\* it loaded is the newest when it is loaded, and nobody else writes meanwhile.
THEOREM ProjectionOnlyAdvances == ObserverSpec => ProjectionAdvances
<1>1. ObserverInv /\ [ObserverNext]_observerVars => [projected' >= projected]_observerVars
  <2> SUFFICES ASSUME ObserverInv, ObserverNext PROVE projected' >= projected
    BY DEF ObserverInv, ObserverShapes, observerVars
  <2>1. ASSUME NEW s \in Sources, FinishCycle(s) PROVE projected' >= projected
    BY <2>1 DEF FinishCycle, LocalAt, ObserverInv, ObserverShapes, WriterIsNewest, Locals
  <2>2. CASE UNCHANGED projected
    BY <2>2 DEF ObserverInv, ObserverShapes
  <2> QED BY <2>1, <2>2
          DEF ObserverNext, ViewStep, LocalStep, RemoteStep, OpenSource, Activate, Close,
              FenceAndRelease, ProcessDies, StartWatching, LeaveLoop, StayPaused, Elect,
              ElectAfterHandoff, RaiseInflight, VerifyOpen, CaptureGeneration,
              CommitObservation, ObservationFails, PublishObserved, RefreshAsked,
              PollDatabase, RemoteTurn, RemoteFetch, HookCommits
<1> QED BY <1>1, ObserverInvAlways, PTL DEF ObserverSpec, ProjectionAdvances
=============================================================================
