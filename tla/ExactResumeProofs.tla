-------------------------- MODULE ExactResumeProofs --------------------------
(***************************************************************************)
(* What reopening a conversation guarantees for any number of launchers,   *)
(* conversations, wrappers and process generations: the reservation rules  *)
(* of ResumeLane, at most one provider, no lost provider, and the promise  *)
(* of ExactHome.                                                           *)
(***************************************************************************)
EXTENDS ExactResume, LaunchLedgerProofs

-----------------------------------------------------------------------------
(* Where a launcher is, in the terms of its pane.                          *)

Early == {"idle", "reserve", "contend", "prove", "reclaim", "observe",
          "inspect", "add", "register", "allocate"}
Holding == {"finalize", "prepare", "bind", "starting", "recheck", "respawn"}
Certifying == {"generation", "save", "lookup", "certify"}
Claimed == {"register", "allocate"} \union Holding
Places == Early \union Holding \union Certifying
            \union {"wait", "release", "done", "killed"}

ResumeShapes ==
  /\ LedgerTypeOK
  /\ pc \in [Tokens -> Places]
  /\ pane \in [Tokens -> PaneStates]
  /\ issued_tmux \subseteq Tokens
  /\ poised \subseteq Tokens

\* A launcher's pane follows its own steps: nothing runs in it, and no hook can
\* speak for it, before the one respawn command has been executed.
PaneFollows ==
  \A t \in Tokens :
    /\ pc[t] \in Early => pane[t] = "none"
    /\ pc[t] \in Holding \/ t \in issued_tmux => pane[t] \in {"none", "holder"}
    /\ pc[t] \in Early \union Holding => t \notin issued_tmux
    /\ pc[t] \in Early \union Holding \/ t \in issued_tmux => t \notin poised
    /\ pc[t] \in Certifying => t \notin issued_tmux
    /\ pc[t] \in Certifying \/ t \in poised => pane[t] \notin {"holder", "wrapper"}

\* The intent stays pending until the provider it started can be seen.
IntentStays ==
  \A t \in Tokens :
    pc[t] \in Claimed \/ t \in issued_tmux \/ pane[t] = "wrapper" => HasPending(t)

\* The launch has passed the second observation, the last before its respawn.
Fired(t) ==
  \/ pc[t] \in {"respawn"} \union Certifying
  \/ t \in issued_tmux \union poised
  \/ pane[t] \in {"wrapper", "provider", "exiting", "shell"}

\* While the intent of such a launch is pending, nobody else's provider runs.
FiredAlone ==
  \A t, u \in Tokens :
    Fired(t) /\ HasPending(t) /\ Running(u) /\ Home(u) = Home(t) => u = t

\* A launch is bound to, and certified for, its own conversation only.
OwnHome ==
  /\ \A t \in Tokens : binding[t] \in {None, Home(t)}
  /\ \A s \in Sessions : recovery[s] # None => Home(recovery[s].token) = s

\* A provider that is no longer pending is certified, and the binding its proof
\* rests on is there: reconciliation does not take that proof for obsolete.
Excused(t) == t \in disowned \union displaced

Certified ==
  \A t \in Tokens :
    Running(t) /\ ~HasPending(t) /\ ~Excused(t)
      => binding[t] = Home(t) /\ RecoveredBy(t, Home(t))

ResumeInv ==
  /\ ResumeShapes
  /\ NamesReservedOnce
  /\ PaneFollows
  /\ IntentStays
  /\ FiredAlone
  /\ AtMostOneProvider
  /\ OwnHome
  /\ Certified

-----------------------------------------------------------------------------
(* The two components it is composed of.                                   *)

\* Every step of the launchers, the terminal, the hooks, reconciliation, doctor
\* and untrack is one transaction of the ledger or leaves it alone.
LEMMA StepsTheLedger ==
  ASSUME LedgerTypeOK, [ResumeNext]_vars PROVE [LedgerNext]_ledgerVars
<1> USE ResumeConstants DEF LedgerNext, Home
<1>1. ASSUME NEW t \in Tokens, LauncherStep(t) PROVE [LedgerNext]_ledgerVars
  <2>1. CASE PersistIntent(t) \/ RegisterLaunchWrapper(t) \/ RecordPane(t)
             \/ PreparePane(t) \/ BindExact(t) \/ MarkStarting(t) \/ ObserveLaunched(t)
    BY <2>1 DEF PersistIntent, RegisterLaunchWrapper, RecordPane, PreparePane, MarkStarting,
      MarkPhase, BindExact, ObserveLaunched, LaunchStep
  <2>2. CASE SaveResumed(t)
    BY <2>2 DEF SaveResumed, MembershipStep
  <2>3. CASE CertifyResumed(t)
    BY <2>3 DEF CertifyResumed, Certify, IdentityStep
  <2>4. CASE LaneStep(t) \/ ObserveOwners(t) \/ InspectPending(t) \/ CreateHolder(t)
             \/ RecheckUnclaimed(t) \/ IssueRespawn(t) \/ WaitForBinding(t)
             \/ LookUpPending(t)
    BY <2>4 DEF LaneStep, ObserveOwners, InspectPending, CreateHolder, RecheckUnclaimed,
      IssueRespawn, WaitForBinding, LookUpPending
  <2> QED BY <1>1, <2>1, <2>2, <2>3, <2>4 DEF LauncherStep
<1>2. ASSUME NEW t \in Tokens, TerminalStep(t) PROVE [LedgerNext]_ledgerVars
  <2>1. CASE ReportExit(t)
    <3>1. clock \in Times /\ Home(t) \in Sessions \union {None}
      BY DEF LedgerTypeOK
    <3> QED BY <2>1, <3>1 DEF ReportExit, ExitStep
  <2>2. CASE ~ReportExit(t)
    BY <1>2, <2>2 DEF TerminalStep, TmuxRespawn, ProviderExec, ProviderExits, KillPane
  <2> QED BY <2>1, <2>2
<1>3. ASSUME NEW t \in Tokens,
             ProviderHook(t) \/ HookCertifies(t) \/ ReconcileRecovers(t)
      PROVE  [LedgerNext]_ledgerVars
  <2>1. CASE ProviderHook(t)
    <3>1. ASSUME NEW kind \in HookKinds
          PROVE  kind[1] \in HookEvents /\ kind[2] \in BOOLEAN
      OBVIOUS
    <3> QED BY <2>1, <3>1 DEF ProviderHook, IdentityStep, MembershipStep
  <2>2. CASE HookCertifies(t)
    BY <2>2 DEF HookCertifies, Certify, IdentityStep
  <2>3. CASE ReconcileRecovers(t)
    BY <2>3 DEF ReconcileRecovers, IdentityStep
  <2> QED BY <1>3, <2>1, <2>2, <2>3
<1>4. ASSUME NEW t \in Tokens,
             \/ Begin(t) \/ LauncherKilled(t) \/ StepFails(t) \/ HookPromotes(t)
             \/ HookLooksUp(t) \/ ReconcileExpiresLease(t) \/ RepairPending(t)
      PROVE  [LedgerNext]_ledgerVars
  BY <1>4 DEF Begin, LauncherKilled, StepFails, HookPromotes, HookLooksUp,
    ReconcileExpiresLease, RepairPending, LaunchStep, MembershipStep
<1>5. ASSUME NEW s \in Sessions,
             RepairReservation(s) \/ ReconcileExpires(s) \/ StopWatching(s) \/ WatchAgain(s)
      PROVE  [LedgerNext]_ledgerVars
  BY <1>5 DEF RepairReservation, ReconcileExpires, StopWatching, WatchAgain, MembershipStep
<1> QED BY <1>1, <1>2, <1>3, <1>4, <1>5 DEF ResumeNext, vars

\* Every step is one of the reservation table's, work under a reservation, or
\* leaves the launchers and the table alone.
LEMMA StepsTheLane == ASSUME [ResumeNext]_vars PROVE [Lane!LaneNext]_laneVars
<1> USE DEF Lane!LaneNext, laneVars
<1>1. ASSUME NEW t \in Tokens, NEW here \in {"observe"} \union Stages,
             NEW next \in Stages \union {"release"}, At(t, here), Go(t, next)
      PROVE  Lane!Work(t)
  BY <1>1 DEF Lane!Work, Lane!Working, Lane!Go, Go, At, Stages
<1>2. ASSUME NEW t \in Tokens, LauncherStep(t) PROVE [Lane!LaneNext]_laneVars
  <2>1. CASE LaneStep(t)
    BY <2>1 DEF LaneStep
  <2>2. CASE ObserveOwners(t) \/ InspectPending(t) \/ PersistIntent(t)
             \/ RegisterLaunchWrapper(t) \/ CreateHolder(t) \/ RecordPane(t)
    BY <1>1, <2>2 DEF ObserveOwners, InspectPending, PersistIntent, RegisterLaunchWrapper,
      CreateHolder, RecordPane, Stages
  <2>3. CASE PreparePane(t) \/ BindExact(t) \/ MarkStarting(t) \/ RecheckUnclaimed(t)
             \/ IssueRespawn(t)
    BY <1>1, <2>3 DEF PreparePane, MarkStarting, MarkPhase, BindExact, RecheckUnclaimed,
      IssueRespawn, Stages
  <2>4. CASE WaitForBinding(t) \/ ObserveLaunched(t) \/ SaveResumed(t) \/ LookUpPending(t)
             \/ CertifyResumed(t)
    BY <1>1, <2>4 DEF WaitForBinding, ObserveLaunched, SaveResumed, LookUpPending,
      CertifyResumed, Stages
  <2> QED BY <1>2, <2>1, <2>2, <2>3, <2>4 DEF LauncherStep
<1>3. ASSUME NEW t \in Tokens, Begin(t) \/ LauncherKilled(t)
      PROVE  Lane!Begin(t) \/ Lane!LauncherKilled(t)
  BY <1>3 DEF Begin, LauncherKilled
<1>4. ASSUME NEW t \in Tokens, StepFails(t) PROVE Lane!Work(t)
  BY <1>1, <1>4 DEF StepFails, At
<1>5. ASSUME NEW t \in Tokens,
             \/ TerminalStep(t) \/ ProviderHook(t) \/ HookPromotes(t) \/ HookLooksUp(t)
             \/ HookCertifies(t) \/ ReconcileRecovers(t) \/ ReconcileExpiresLease(t)
             \/ RepairPending(t)
      PROVE  UNCHANGED laneVars
  BY <1>5 DEF TerminalStep, TmuxRespawn, ProviderExec, ProviderExits, ReportExit, KillPane,
    ProviderHook, HookPromotes, HookLooksUp, HookCertifies, ReconcileRecovers,
    ReconcileExpiresLease, RepairPending, resumeVars
<1>6. ASSUME NEW s \in Sessions,
             RepairReservation(s) \/ ReconcileExpires(s) \/ StopWatching(s) \/ WatchAgain(s)
      PROVE  Lane!RepairReservation(s) \/ Lane!RevokeReservation(s) \/ UNCHANGED laneVars
  BY <1>6 DEF RepairReservation, ReconcileExpires, StopWatching, WatchAgain, resumeVars
<1>7. CASE UNCHANGED vars
  BY <1>7 DEF vars, resumeVars
<1> QED BY <1>2, <1>3, <1>4, <1>5, <1>6, <1>7 DEF ResumeNext

\* What ResumeLane shows of the reservation on its own, with any work done under
\* it, holds of resume_session: the composition implements it.
THEOREM LaneKept == ResumeSpec => LaneAsSpecified
<1>1. ResumeInit => Lane!LaneInit
  BY DEF ResumeInit
<1>2. [ResumeNext]_vars => [Lane!LaneNext]_(Lane!laneVars)
  BY StepsTheLane DEF Lane!laneVars, laneVars
<1> QED BY <1>1, <1>2, PTL DEF ResumeSpec, LaneAsSpecified, Lane!LaneSpec

-----------------------------------------------------------------------------
(* The launcher and its pane.                                              *)

\* A launcher moves within the program of resume_session, one launcher at a step.
LEMMA Moves ==
  ASSUME ResumeShapes, [ResumeNext]_vars
  PROVE  \/ UNCHANGED pc
         \/ \E t \in Tokens, next \in Places : pc' = [pc EXCEPT ![t] = next]
<1> USE DEF Places, Early, Holding, Certifying, ResumeShapes
<1>1. ASSUME NEW t \in Tokens, NEW next \in Places, Go(t, next)
      PROVE  \E u \in Tokens, n \in Places : pc' = [pc EXCEPT ![u] = n]
  BY <1>1 DEF Go
<1>2. CASE \E t \in Tokens :
             Lane!Begin(t) \/ Lane!Contend(t) \/ Lane!Work(t) \/ Lane!LauncherKilled(t)
  BY <1>2 DEF Lane!Begin, Lane!Contend, Lane!ReserveResume, Lane!ReadReservation,
    Lane!ProveStale, Lane!ReclaimResume, Lane!ReleaseResume, Lane!Work, Stages,
    Lane!LauncherKilled, Lane!Go
<1>3. CASE \E s \in Sessions : Lane!RepairReservation(s) \/ Lane!RevokeReservation(s)
  BY <1>3 DEF Lane!RepairReservation, Lane!RevokeReservation
<1>4. CASE UNCHANGED laneVars
  BY <1>4 DEF laneVars
<1> QED BY <1>2, <1>3, <1>4, StepsTheLane DEF Lane!LaneNext

\* Panes, respawn commands and hooks keep their types.
LEMMA ShapesStep ==
  ASSUME ResumeShapes, [ResumeNext]_vars PROVE ResumeShapes'
<1> USE DEF ResumeShapes
<1>1. LedgerTypeOK'
  BY StepsTheLedger, LedgerTypesStep
<1>2. pc' \in [Tokens -> Places]
  BY Moves
<1> DEFINE Typed == /\ pane' \in [Tokens -> PaneStates]
                    /\ issued_tmux' \subseteq Tokens /\ poised' \subseteq Tokens
<1>3. Typed
  <2> USE DEF PaneStates, terminalVars, resumeVars
  <2>1. ASSUME NEW t \in Tokens, LauncherStep(t) PROVE Typed
    BY <2>1 DEF LauncherStep, LaneStep, ObserveOwners, InspectPending, PersistIntent,
      RegisterLaunchWrapper, CreateHolder, RecordPane, PreparePane, MarkStarting, MarkPhase,
      BindExact, RecheckUnclaimed, IssueRespawn, WaitForBinding, ObserveLaunched,
      SaveResumed, LookUpPending, CertifyResumed
  <2>2. ASSUME NEW t \in Tokens, TerminalStep(t) PROVE Typed
    BY <2>2 DEF TerminalStep, TmuxRespawn, ProviderExec, ProviderExits, ReportExit, KillPane
  <2>3. ASSUME NEW t \in Tokens,
               \/ Begin(t) \/ LauncherKilled(t) \/ StepFails(t) \/ ProviderHook(t)
               \/ HookPromotes(t) \/ HookLooksUp(t) \/ HookCertifies(t)
               \/ ReconcileRecovers(t) \/ ReconcileExpiresLease(t) \/ RepairPending(t)
        PROVE  Typed
    BY <2>3 DEF Begin, LauncherKilled, StepFails, ProviderHook, HookPromotes, HookLooksUp,
      HookCertifies, ReconcileRecovers, ReconcileExpiresLease, RepairPending
  <2>4. ASSUME NEW s \in Sessions,
               \/ RepairReservation(s) \/ ReconcileExpires(s) \/ StopWatching(s)
               \/ WatchAgain(s)
        PROVE  Typed
    BY <2>4 DEF RepairReservation, ReconcileExpires, StopWatching, WatchAgain
  <2>5. CASE UNCHANGED vars
    BY <2>5 DEF vars
  <2> QED BY <2>1, <2>2, <2>3, <2>4, <2>5 DEF ResumeNext
<1> QED BY <1>1, <1>2, <1>3

\* Waiting for, taking and giving back the reservation: no pane is involved, and
\* the launcher comes to no step that has one.
LEMMA LaneMoves ==
  ASSUME ResumeShapes, NEW t \in Tokens,
         Begin(t) \/ LaneStep(t) \/ LauncherKilled(t) \/ StepFails(t)
  PROVE  /\ UNCHANGED <<ledgerVars, terminalVars, poised, historyVars>>
         /\ \E next \in {"reserve", "contend", "prove", "reclaim", "observe",
                         "release", "done", "killed"} :
              /\ pc' = [pc EXCEPT ![t] = next]
              /\ next \in Early => pc[t] \in Early
BY DEF Begin, LaneStep, LauncherKilled, StepFails, Lane!Begin, Lane!Contend, Lane!ReserveResume,
  Lane!ReadReservation, Lane!ProveStale, Lane!ReclaimResume, Lane!ReleaseResume,
  Lane!LauncherKilled, Lane!Go, Lane!At, Go, Early

\* The actions that touch a pane, its respawn command or its hooks, and the moves
\* of the launcher that depend on the pane.
LEMMA PaneFollowsStep ==
  ASSUME ResumeShapes, PaneFollows, [ResumeNext]_vars PROVE PaneFollows'
<1> USE DEF ResumeShapes, PaneFollows, Early, Holding, Certifying, Places
<1>1. ASSUME NEW t \in Tokens, LauncherStep(t) PROVE PaneFollows'
  <2> USE DEF At, Go, terminalVars
  <2>1. CASE LaneStep(t)
    BY <2>1, LaneMoves
  <2>2. CASE CreateHolder(t)
    BY <2>2 DEF CreateHolder
  <2>3. CASE IssueRespawn(t)
    BY <2>3 DEF IssueRespawn
  <2>4. CASE WaitForBinding(t)
    BY <2>4 DEF WaitForBinding
  <2>5. CASE \/ ObserveOwners(t) \/ InspectPending(t) \/ PersistIntent(t)
             \/ RegisterLaunchWrapper(t) \/ RecordPane(t) \/ PreparePane(t)
             \/ BindExact(t) \/ MarkStarting(t) \/ RecheckUnclaimed(t)
    BY <2>5 DEF ObserveOwners, InspectPending, PersistIntent, RegisterLaunchWrapper,
      RecordPane, PreparePane, MarkStarting, MarkPhase, BindExact, RecheckUnclaimed
  <2>6. CASE ObserveLaunched(t) \/ SaveResumed(t) \/ LookUpPending(t) \/ CertifyResumed(t)
    BY <2>6 DEF ObserveLaunched, SaveResumed, LookUpPending, CertifyResumed
  <2> QED BY <1>1, <2>1, <2>2, <2>3, <2>4, <2>5, <2>6 DEF LauncherStep
<1>2. ASSUME NEW t \in Tokens, TerminalStep(t) PROVE PaneFollows'
  <2> USE DEF laneVars
  <2>1. CASE TmuxRespawn(t)
    BY <2>1 DEF TmuxRespawn
  <2>2. CASE ProviderExec(t)
    BY <2>2 DEF ProviderExec
  <2>3. CASE ProviderExits(t)
    BY <2>3 DEF ProviderExits, Running
  <2>4. CASE ReportExit(t)
    BY <2>4 DEF ReportExit
  <2>5. CASE KillPane(t)
    BY <2>5 DEF KillPane
  <2> QED BY <1>2, <2>1, <2>2, <2>3, <2>4, <2>5 DEF TerminalStep
<1>3. ASSUME NEW t \in Tokens, Begin(t) \/ LauncherKilled(t) \/ StepFails(t)
      PROVE  PaneFollows'
  BY <1>3, LaneMoves DEF terminalVars
<1>4. ASSUME NEW t \in Tokens, HookLooksUp(t) \/ HookCertifies(t) PROVE PaneFollows'
  BY <1>4 DEF HookLooksUp, HookCertifies, Hooked, laneVars, terminalVars
<1>5. ASSUME \/ \E t \in Tokens :
                  \/ ProviderHook(t) \/ HookPromotes(t) \/ ReconcileRecovers(t)
                  \/ ReconcileExpiresLease(t) \/ RepairPending(t)
             \/ \E s \in Sessions :
                  \/ RepairReservation(s) \/ ReconcileExpires(s) \/ StopWatching(s)
                  \/ WatchAgain(s)
             \/ UNCHANGED vars
      PROVE  UNCHANGED <<pc, pane, issued_tmux, poised>>
  BY <1>5 DEF ProviderHook, HookPromotes, ReconcileRecovers, ReconcileExpiresLease,
    RepairPending, RepairReservation, Lane!RepairReservation, ReconcileExpires, StopWatching,
    Lane!RevokeReservation, WatchAgain, laneVars, terminalVars, resumeVars, vars
<1> QED BY <1>1, <1>2, <1>3, <1>4, <1>5 DEF ResumeNext

-----------------------------------------------------------------------------
(* The intent of a launch.                                                 *)

\* The steps that may end a launch's intent.
EndsIntent(t) ==
  \/ CertifyResumed(t) \/ HookCertifies(t) \/ ProviderHook(t)
  \/ ReconcileRecovers(t) \/ RepairPending(t)

\* add_pending leaves a pending row behind, the old one or a new one.
LEMMA AddReserves == ASSUME ResumeShapes, NEW t \in Tokens, AddPending(t) PROVE HasPending(t)'
<1> DEFINE row == [pane |-> FALSE, root |-> None, created |-> clock]
<1>1. row \in PendingRows
  BY DEF PendingRows, ResumeShapes, LedgerTypeOK
<1>2. row # None
  BY <1>1, AbsentRow
<1>3. CASE HasPending(t)
  BY <1>3 DEF AddPending, HasPending
<1>4. CASE ~HasPending(t)
  <2>1. pending' = [pending EXCEPT ![t] = row]
    BY <1>4 DEF AddPending
  <2> QED BY <1>2, <2>1 DEF HasPending, ResumeShapes, LedgerTypeOK
<1> QED BY <1>3, <1>4

\* Only the launcher's own add_pending reserves the name, and only those steps
\* give it back; whatever else writes the pending row keeps it.
LEMMA PendingTouched ==
  ASSUME ResumeShapes, [ResumeNext]_vars, NEW u \in Tokens
  PROVE  /\ ~HasPending(u) /\ HasPending(u)' => PersistIntent(u)
         /\ HasPending(u) /\ ~HasPending(u)' => EndsIntent(u)
<1> USE DEF ResumeShapes
<1> DEFINE Kept == HasPending(u)' <=> HasPending(u)
<1>1. ASSUME UNCHANGED pending PROVE Kept
  BY <1>1 DEF HasPending
<1>2. ASSUME NEW t \in Tokens, t # u, NEW row, pending' = [pending EXCEPT ![t] = row]
      PROVE  Kept
  BY <1>2 DEF HasPending, LedgerTypeOK
<1>3. ASSUME NEW t \in Tokens, RemovePending(t)
      PROVE  IF t = u THEN ~HasPending(u)' ELSE Kept
  BY <1>2, <1>3 DEF RemovePending, HasPending, LedgerTypeOK
<1>4. ASSUME NEW t \in Tokens, NEW g \in Generations,
             FinalizePane(t, g) \/ ObserveGeneration(t, g)
      PROVE  Kept
  <2>1. CASE HasPending(t) /\ HasPending(u)
    BY <1>4, <2>1, PaneKeepsRow DEF FinalizePane, ObserveGeneration, HasPending
  <2>2. CASE HasPending(t) /\ ~HasPending(u)
    BY <1>4, <2>2 DEF FinalizePane, ObserveGeneration, HasPending, LedgerTypeOK
  <2>3. CASE ~HasPending(t)
    BY <1>4, <2>3, <1>1 DEF FinalizePane, ObserveGeneration
  <2> QED BY <2>1, <2>2, <2>3
<1>5. ASSUME NEW t \in Tokens, LauncherStep(t)
      PROVE  \/ Kept
             \/ PersistIntent(u) /\ HasPending(u)'
             \/ CertifyResumed(u) /\ ~HasPending(u)'
  <2>1. CASE PersistIntent(t)
    <3>1. CASE UNCHANGED pending
      BY <1>1, <3>1
    <3>2. CASE AddPending(t)
      <4> DEFINE row == [pane |-> FALSE, root |-> None, created |-> clock]
      <4>1. UNCHANGED pending \/ pending' = [pending EXCEPT ![t] = row]
        BY <3>2 DEF AddPending
      <4> HIDE DEF row
      <4> QED BY <1>1, <1>2, <2>1, <3>2, <4>1, AddReserves
    <3> QED BY <2>1, <3>1, <3>2 DEF PersistIntent, ledgerVars
  <2>2. CASE CertifyResumed(t)
    BY <1>1, <1>2, <1>3, <2>2 DEF CertifyResumed, Certify, CertifyLaunch, ledgerVars
  <2>3. CASE RecordPane(t) \/ ObserveLaunched(t)
    BY <1>1, <1>4, <2>3, ResumeConstants DEF RecordPane, ObserveLaunched, ledgerVars
  <2>4. CASE RegisterLaunchWrapper(t) \/ PreparePane(t) \/ BindExact(t) \/ MarkStarting(t)
             \/ SaveResumed(t)
    BY <1>1, <2>4 DEF RegisterLaunchWrapper, RegisterWrapper, PreparePane, MarkStarting,
      MarkPhase, SetLaunchPhase, BindExact, BindLaunch, SaveResumed, SaveSession, ledgerVars
  <2>5. CASE LaneStep(t) \/ ObserveOwners(t) \/ InspectPending(t) \/ CreateHolder(t)
             \/ RecheckUnclaimed(t) \/ IssueRespawn(t) \/ WaitForBinding(t)
             \/ LookUpPending(t)
    BY <1>1, <2>5 DEF LaneStep, ObserveOwners, InspectPending, CreateHolder,
      RecheckUnclaimed, IssueRespawn, WaitForBinding, LookUpPending, ledgerVars
  <2> QED BY <1>5, <2>1, <2>2, <2>3, <2>4, <2>5 DEF LauncherStep
<1>6. ASSUME NEW t \in Tokens, TerminalStep(t) PROVE Kept
  BY <1>1, <1>6 DEF TerminalStep, TmuxRespawn, ProviderExec, ProviderExits, ReportExit,
    KillPane, ProcessExit, ReleaseLaunch, RecordExit, ledgerVars
<1>7. ASSUME NEW t \in Tokens,
             \/ ProviderHook(t) \/ HookCertifies(t) \/ ReconcileRecovers(t)
             \/ RepairPending(t)
      PROVE  Kept \/ (EndsIntent(u) /\ ~HasPending(u)')
  <2>1. UNCHANGED pending \/ RemovePending(t)
    BY <1>7 DEF ProviderHook, Hook, HookUntracked, HookCertifies, Certify, CertifyLaunch,
      ReconcileRecovers, RecoverConfirmed, RepairPending, DeletePending, ledgerVars
  <2> QED BY <1>1, <1>7, <1>3, <2>1 DEF EndsIntent
<1>8. ASSUME NEW t \in Tokens, HookPromotes(t) PROVE Kept
  BY <1>4, <1>8, ResumeConstants DEF HookPromotes
<1>9. ASSUME \/ \E t \in Tokens :
                  \/ Begin(t) \/ LauncherKilled(t) \/ StepFails(t) \/ HookLooksUp(t)
                  \/ ReconcileExpiresLease(t)
             \/ \E s \in Sessions :
                  \/ RepairReservation(s) \/ ReconcileExpires(s) \/ StopWatching(s)
                  \/ WatchAgain(s)
             \/ UNCHANGED vars
      PROVE  Kept
  BY <1>1, <1>9 DEF Begin, LauncherKilled, StepFails, HookLooksUp, ReconcileExpiresLease,
    ExpireOwner, RepairReservation, ReconcileExpires, ExpireRecovery, StopWatching, Untrack,
    WatchAgain, RestoreTracking, ledgerVars, vars
<1> QED BY <1>5, <1>6, <1>7, <1>8, <1>9 DEF ResumeNext, EndsIntent

\* A launch ends its intent only after its provider was seen, or when it will
\* start none.
LEMMA IntentEndsLate ==
  ASSUME ResumeShapes, PaneFollows, NEW t \in Tokens, EndsIntent(t)
  PROVE  /\ pc[t] \notin Claimed /\ t \notin issued_tmux /\ pane[t] # "wrapper"
         /\ UNCHANGED <<pane, issued_tmux>>
         /\ pc' = pc \/ pc' = [pc EXCEPT ![t] = "release"]
<1> USE DEF EndsIntent, ResumeShapes, PaneFollows, Claimed, Holding, Certifying, Early,
            terminalVars, laneVars, resumeVars
<1>1. CASE CertifyResumed(t)
  BY <1>1 DEF CertifyResumed, At, Go
<1>2. CASE HookCertifies(t)
  BY <1>2 DEF HookCertifies
<1>3. CASE ProviderHook(t) \/ ReconcileRecovers(t)
  BY <1>3 DEF ProviderHook, ReconcileRecovers, Hooked
<1>4. CASE RepairPending(t)
  BY <1>4 DEF RepairPending, Alive, Lane!Alive, Lane!Working, Stages, Running
<1> QED BY <1>1, <1>2, <1>3, <1>4

\* Where a claim may begin: at add_pending, at the next step of a launch that has
\* one, or in its pane.
LEMMA IntentStaysStep ==
  ASSUME ResumeShapes, PaneFollows, IntentStays, [ResumeNext]_vars PROVE IntentStays'
<1> DEFINE Claims(t) == pc[t] \in Claimed \/ t \in issued_tmux \/ pane[t] = "wrapper"
<1> SUFFICES ASSUME NEW u \in Tokens, Claims(u)' PROVE HasPending(u)'
  BY DEF IntentStays
<1>1. CASE Claims(u)
  <2>1. HasPending(u)
    BY <1>1 DEF IntentStays
  <2>2. ~EndsIntent(u)
    BY <1>1, IntentEndsLate
  <2> QED BY <2>1, <2>2, PendingTouched
<1>2. CASE ~Claims(u)
  <2> USE DEF ResumeShapes, Claimed, Holding, At, Go, terminalVars
  <2>1. ASSUME NEW t \in Tokens, LauncherStep(t) PROVE HasPending(u)'
    <3>1. CASE LaneStep(t)
      BY <1>2, <2>1, <3>1, LaneMoves
    <3>2. CASE PersistIntent(t)
      <4>1. CASE t = u
        <5>1. AddPending(t)
          BY <1>2, <3>2, <4>1 DEF PersistIntent
        <5> QED BY <4>1, <5>1, AddReserves
      <4>2. CASE t # u
        BY <1>2, <3>2, <4>2 DEF PersistIntent
      <4> QED BY <4>1, <4>2
    <3>3. CASE \/ ObserveOwners(t) \/ InspectPending(t) \/ RegisterLaunchWrapper(t)
               \/ CreateHolder(t) \/ RecordPane(t) \/ PreparePane(t) \/ BindExact(t)
               \/ MarkStarting(t) \/ RecheckUnclaimed(t) \/ IssueRespawn(t)
      BY <1>2, <3>3 DEF ObserveOwners, InspectPending, RegisterLaunchWrapper, CreateHolder,
        RecordPane, PreparePane, MarkStarting, MarkPhase, BindExact, RecheckUnclaimed,
        IssueRespawn
    <3>4. CASE WaitForBinding(t) \/ ObserveLaunched(t) \/ SaveResumed(t)
               \/ LookUpPending(t) \/ CertifyResumed(t)
      BY <1>2, <3>4 DEF WaitForBinding, ObserveLaunched, SaveResumed, LookUpPending,
        CertifyResumed
    <3> QED BY <2>1, <3>1, <3>2, <3>3, <3>4 DEF LauncherStep
  <2>2. ASSUME NEW t \in Tokens, TerminalStep(t) PROVE FALSE
    BY <1>2, <2>2 DEF TerminalStep, TmuxRespawn, ProviderExec, ProviderExits, ReportExit,
      KillPane, laneVars
  <2>3. ASSUME NEW t \in Tokens, Begin(t) \/ LauncherKilled(t) \/ StepFails(t) PROVE FALSE
    BY <1>2, <2>3, LaneMoves
  <2>4. ASSUME \/ \E t \in Tokens :
                    \/ ProviderHook(t) \/ HookPromotes(t) \/ HookLooksUp(t)
                    \/ HookCertifies(t) \/ ReconcileRecovers(t)
                    \/ ReconcileExpiresLease(t) \/ RepairPending(t)
               \/ \E s \in Sessions :
                    \/ RepairReservation(s) \/ ReconcileExpires(s) \/ StopWatching(s)
                    \/ WatchAgain(s)
               \/ UNCHANGED vars
        PROVE  FALSE
    BY <1>2, <2>4 DEF ProviderHook, HookPromotes, HookLooksUp, HookCertifies,
      ReconcileRecovers, ReconcileExpiresLease, RepairPending, RepairReservation,
      Lane!RepairReservation, ReconcileExpires, StopWatching, Lane!RevokeReservation,
      WatchAgain, laneVars, resumeVars, vars
  <2> QED BY <2>1, <2>2, <2>3, <2>4 DEF ResumeNext
<1> QED BY <1>1, <1>2

-----------------------------------------------------------------------------
(* At most one provider.                                                   *)

\* Only tmux executing a respawn command starts anything, in one pane.
LEMMA RunsFrom ==
  ASSUME ResumeShapes, [ResumeNext]_vars, NEW u \in Tokens, Running(u)'
  PROVE  Running(u) \/ TmuxRespawn(u)
<1> USE DEF ResumeShapes, Running, terminalVars, resumeVars
<1>1. ASSUME NEW t \in Tokens, LauncherStep(t) PROVE Running(u)
  BY <1>1 DEF LauncherStep, LaneStep, ObserveOwners, InspectPending, PersistIntent,
    RegisterLaunchWrapper, CreateHolder, RecordPane, PreparePane, MarkStarting, MarkPhase,
    BindExact, RecheckUnclaimed, IssueRespawn, WaitForBinding, ObserveLaunched,
    SaveResumed, LookUpPending, CertifyResumed
<1>2. ASSUME NEW t \in Tokens, TerminalStep(t) PROVE Running(u) \/ TmuxRespawn(u)
  BY <1>2 DEF TerminalStep, TmuxRespawn, ProviderExec, ProviderExits, ReportExit, KillPane
<1>3. ASSUME NEW t \in Tokens,
             \/ Begin(t) \/ LauncherKilled(t) \/ StepFails(t) \/ ProviderHook(t)
             \/ HookPromotes(t) \/ HookLooksUp(t) \/ HookCertifies(t)
             \/ ReconcileRecovers(t) \/ ReconcileExpiresLease(t) \/ RepairPending(t)
      PROVE  Running(u)
  BY <1>3 DEF Begin, LauncherKilled, StepFails, ProviderHook, HookPromotes, HookLooksUp,
    HookCertifies, ReconcileRecovers, ReconcileExpiresLease, RepairPending
<1>4. ASSUME NEW s \in Sessions,
             RepairReservation(s) \/ ReconcileExpires(s) \/ StopWatching(s) \/ WatchAgain(s)
      PROVE  Running(u)
  BY <1>4 DEF RepairReservation, ReconcileExpires, StopWatching, WatchAgain
<1>5. CASE UNCHANGED vars
  BY <1>5 DEF vars
<1> QED BY <1>1, <1>2, <1>3, <1>4, <1>5 DEF ResumeNext

\* A launch is fired by the second observation and by nothing else.
LEMMA FiredFrom ==
  ASSUME ResumeShapes, PaneFollows, [ResumeNext]_vars, NEW u \in Tokens, Fired(u)', ~Fired(u)
  PROVE  RecheckUnclaimed(u) /\ Visible(Home(u)) = {} /\ UNCHANGED <<ledgerVars, pane>>
<1> USE DEF ResumeShapes, Fired, Certifying, At, Go, terminalVars, laneVars, resumeVars
<1>1. ASSUME NEW t \in Tokens, LauncherStep(t)
      PROVE  RecheckUnclaimed(u) /\ Visible(Home(u)) = {} /\ UNCHANGED <<ledgerVars, pane>>
  <2>1. CASE LaneStep(t)
    BY <2>1, LaneMoves DEF Early
  <2>2. CASE RecheckUnclaimed(t)
    BY <2>2 DEF RecheckUnclaimed
  <2>3. CASE \/ ObserveOwners(t) \/ InspectPending(t) \/ RegisterLaunchWrapper(t)
             \/ CreateHolder(t) \/ RecordPane(t) \/ PreparePane(t) \/ BindExact(t)
             \/ MarkStarting(t) \/ IssueRespawn(t) \/ PersistIntent(t)
    BY <2>3 DEF ObserveOwners, InspectPending, RegisterLaunchWrapper, CreateHolder,
      RecordPane, PreparePane, MarkStarting, MarkPhase, BindExact, IssueRespawn, PersistIntent
  <2>4. CASE WaitForBinding(t) \/ ObserveLaunched(t) \/ SaveResumed(t)
             \/ LookUpPending(t) \/ CertifyResumed(t)
    BY <2>4 DEF WaitForBinding, ObserveLaunched, SaveResumed, LookUpPending, CertifyResumed
  <2> QED BY <1>1, <2>1, <2>2, <2>3, <2>4 DEF LauncherStep
<1>2. ASSUME NEW t \in Tokens, TerminalStep(t) PROVE FALSE
  BY <1>2 DEF TerminalStep, TmuxRespawn, ProviderExec, ProviderExits, ReportExit, KillPane,
    Running
<1>3. ASSUME NEW t \in Tokens, Begin(t) \/ LauncherKilled(t) \/ StepFails(t) PROVE FALSE
  BY <1>3, LaneMoves DEF Early
<1>4. ASSUME \/ \E t \in Tokens :
                  \/ ProviderHook(t) \/ HookPromotes(t) \/ HookLooksUp(t)
                  \/ HookCertifies(t) \/ ReconcileRecovers(t)
                  \/ ReconcileExpiresLease(t) \/ RepairPending(t)
             \/ \E s \in Sessions :
                  \/ RepairReservation(s) \/ ReconcileExpires(s) \/ StopWatching(s)
                  \/ WatchAgain(s)
             \/ UNCHANGED vars
      PROVE  FALSE
  BY <1>4 DEF ProviderHook, HookPromotes, HookLooksUp, HookCertifies, Hooked,
    ReconcileRecovers, ReconcileExpiresLease, RepairPending, RepairReservation,
    Lane!RepairReservation, ReconcileExpires, StopWatching, Lane!RevokeReservation,
    WatchAgain, vars
<1> QED BY <1>1, <1>2, <1>3, <1>4 DEF ResumeNext

\* Launches of one conversation reserve one name.
LEMMA OnePending ==
  ASSUME NamesReservedOnce, NEW t \in Tokens, NEW u \in Tokens, Home(t) = Home(u),
         HasPending(t), HasPending(u)
  PROVE  t = u
BY ResumeConstants DEF NamesReservedOnce, Home

\* A provider that starts, or a launch that passes the second observation, finds
\* no rival: one still unseen would hold the name, one seen stops the launch.
LEMMA FiredAloneStep ==
  ASSUME ResumeInv, ResumeShapes', PaneFollows', IntentStays', NamesReservedOnce',
         [ResumeNext]_vars
  PROVE  FiredAlone'
<1> SUFFICES ASSUME NEW t \in Tokens, NEW u \in Tokens, Fired(t)', HasPending(t)', Running(u)',
                    Home(u) = Home(t), u # t
             PROVE  FALSE
  BY DEF FiredAlone, Home
<1> USE DEF ResumeInv
<1>1. ~HasPending(u)'
  BY ResumeConstants DEF NamesReservedOnce, Home, HasPending
<1>2. Running(u)
  <2>1. ASSUME TmuxRespawn(u) PROVE FALSE
    <3>1. HasPending(u)
      BY <2>1 DEF TmuxRespawn, IntentStays
    <3> QED BY <2>1, <3>1, <1>1 DEF TmuxRespawn, ledgerVars, HasPending
  <2> QED BY <2>1, RunsFrom
<1>3. HasPending(t)
  <2>1. ASSUME ~HasPending(t) PROVE FALSE
    <3>1. PersistIntent(t)
      BY <2>1, PendingTouched
    <3>2. ~Fired(t) /\ ~RecheckUnclaimed(t)
      BY <3>1 DEF PersistIntent, At, Fired, Certifying, Early, PaneFollows, RecheckUnclaimed, PaneStates
    <3> QED BY <3>2, FiredFrom
  <2> QED BY <2>1
<1>4. ~HasPending(u) /\ pane[u] = "provider"
  BY <1>2, <1>3, OnePending DEF IntentStays, Running
<1>5. CASE Fired(t)
  BY <1>2, <1>3, <1>5 DEF FiredAlone
<1>6. CASE ~Fired(t)
  <2>1. Visible(Home(t)) = {}
    BY <1>6, FiredFrom
  <2> QED BY <1>4, <2>1 DEF Visible
<1> QED BY <1>5, <1>6

\* tmux starts a provider only for a launch that is fired and pending.
LEMMA AtMostOneStep ==
  ASSUME ResumeInv, [ResumeNext]_vars PROVE AtMostOneProvider'
<1> SUFFICES ASSUME NEW t \in Tokens, NEW u \in Tokens, Running(t)', Running(u)',
                    Home(u) = Home(t), u # t
             PROVE  FALSE
  BY DEF AtMostOneProvider, Home
<1> USE DEF ResumeInv
<1>1. ASSUME NEW p \in Tokens, NEW q \in Tokens, TmuxRespawn(p), Running(q)', q # p,
             Home(q) = Home(p)
      PROVE  FALSE
  <2>1. Fired(p) /\ HasPending(p)
    BY <1>1 DEF TmuxRespawn, Fired, IntentStays
  <2>2. Running(q)
    BY <1>1 DEF TmuxRespawn, Running, ResumeShapes
  <2> QED BY <1>1, <2>1, <2>2 DEF FiredAlone
<1>2. CASE Running(t) /\ Running(u)
  BY <1>2 DEF AtMostOneProvider
<1> QED BY <1>1, <1>2, RunsFrom

-----------------------------------------------------------------------------
(* Bindings and recovery proofs.                                           *)

\* A fired launch becomes the proven home of its conversation: while its intent is
\* pending, or in the place of others.
Proves(u) ==
  /\ recovery' = [recovery EXCEPT ![Home(u)] = [generation |-> ProviderOf[u], token |-> u]]
  /\ binding'[u] = Home(u)
  /\ Fired(u)
  /\ HasPending(u) \/ ProvenRivals(u) \subseteq displaced'

\* What the launchers, the hooks and reconciliation do for a launch's own home;
\* only an exit callback, an expiry and untrack withdraw a claim.
LEMMA ClaimsTouched ==
  ASSUME ResumeShapes, OwnHome, [ResumeNext]_vars
  PROVE  \/ \E u \in Tokens :
              /\ UNCHANGED binding \/ binding' = [binding EXCEPT ![u] = Home(u)]
              /\ UNCHANGED recovery \/ Proves(u)
         \/ UNCHANGED <<binding, recovery>>
         \/ \E u \in Tokens : ReportExit(u)
         \/ \E s \in Sessions : ReconcileExpires(s) \/ StopWatching(s)
<1> USE DEF ResumeShapes, ledgerVars
<1> DEFINE Grows(u) == /\ UNCHANGED binding \/ binding' = [binding EXCEPT ![u] = Home(u)]
                       /\ UNCHANGED recovery \/ Proves(u)
<1>1. ASSUME NEW u \in Tokens, Certify(u), Fired(u)
      PROVE  Grows(u)
  BY <1>1 DEF Certify, CertifyLaunch, CanCertify, Proves
<1>2. ASSUME NEW t \in Tokens, LauncherStep(t)
      PROVE  Grows(t) \/ UNCHANGED <<binding, recovery>>
  <2>1. CASE CertifyResumed(t)
    BY <1>1, <2>1 DEF CertifyResumed, At, Fired, Certifying
  <2>2. CASE BindExact(t)
    BY <2>2 DEF BindExact, BindLaunch, Home
  <2>3. CASE ~CertifyResumed(t) /\ ~BindExact(t)
    BY <1>2, <2>3 DEF LauncherStep, LaneStep, ObserveOwners, InspectPending, PersistIntent,
      AddPending, RegisterLaunchWrapper, RegisterWrapper, CreateHolder, RecordPane,
      FinalizePane, PreparePane, MarkStarting, MarkPhase, SetLaunchPhase, RecheckUnclaimed,
      IssueRespawn, WaitForBinding, ObserveLaunched, ObserveGeneration, SaveResumed,
      SaveSession, LookUpPending
  <2> QED BY <2>1, <2>2, <2>3
<1>3. ASSUME NEW t \in Tokens, ProviderHook(t)
      PROVE  Grows(t)
  <2>1. CASE HookUntracked(Home(t))
    BY <2>1 DEF HookUntracked
  <2>2. ASSUME NEW event, NEW verified, Hook(t, Home(t), WrapperOf[t], ProviderOf[t], event, verified)
        PROVE  Grows(t)
    <3>1. Fired(t)
      BY <1>3 DEF ProviderHook, Hooked, Fired
    <3>2. UNCHANGED binding \/ binding' = [binding EXCEPT ![t] = Home(t)]
      BY <2>2 DEF Hook
    <3>3. CASE UNCHANGED recovery
      BY <3>2, <3>3
    <3>4. CASE ~UNCHANGED recovery
      <4>1. /\ recovery' = [recovery EXCEPT ![Home(t)] =
                              [generation |-> ProviderOf[t], token |-> t]]
            /\ HasPending(t)
            /\ binding' = [binding EXCEPT ![t] = Home(t)]
        BY <2>2, <3>4 DEF Hook, TokenCounts
      <4>2. binding'[t] = Home(t)
        BY <4>1 DEF LedgerTypeOK
      <4> QED BY <3>1, <4>1, <4>2 DEF Proves
    <3> QED BY <3>3, <3>4
  <2> QED BY <1>3, <2>1, <2>2 DEF ProviderHook
<1>4. ASSUME NEW t \in Tokens, HookCertifies(t) PROVE Grows(t)
  BY <1>1, <1>4 DEF HookCertifies, Fired
<1>5. ASSUME NEW t \in Tokens, ReconcileRecovers(t) PROVE Grows(t)
  BY <1>5 DEF ReconcileRecovers, RecoverConfirmed, Proves, Fired
<1>6. ASSUME NEW t \in Tokens, TerminalStep(t)
      PROVE  ReportExit(t) \/ UNCHANGED <<binding, recovery>>
  BY <1>6 DEF TerminalStep, TmuxRespawn, ProviderExec, ProviderExits, KillPane
<1>7. ASSUME \/ \E t \in Tokens :
                  \/ Begin(t) \/ LauncherKilled(t) \/ StepFails(t) \/ HookPromotes(t)
                  \/ HookLooksUp(t) \/ ReconcileExpiresLease(t) \/ RepairPending(t)
             \/ \E s \in Sessions : RepairReservation(s) \/ WatchAgain(s)
             \/ UNCHANGED vars
      PROVE  UNCHANGED <<binding, recovery>>
  BY <1>7 DEF Begin, LauncherKilled, StepFails, HookPromotes, FinalizePane, HookLooksUp,
    ReconcileExpiresLease, ExpireOwner, RepairPending, DeletePending, RepairReservation,
    WatchAgain, RestoreTracking, vars
<1> HIDE DEF Grows
<1>8. ASSUME NEW u \in Tokens, Grows(u)
      PROVE  \E v \in Tokens :
              /\ UNCHANGED binding \/ binding' = [binding EXCEPT ![v] = Home(v)]
              /\ UNCHANGED recovery \/ Proves(v)
  BY <1>8 DEF Grows
<1> QED BY <1>2, <1>3, <1>4, <1>5, <1>6, <1>7, <1>8 DEF ResumeNext

\* The wrapper's callback takes back what this launch alone had claimed.
LEMMA ExitWithdraws ==
  ASSUME ResumeShapes, OwnHome, NEW u \in Tokens, ReportExit(u)
  PROVE  /\ UNCHANGED binding \/ binding' = [binding EXCEPT ![u] = None]
         /\ \/ UNCHANGED recovery
            \/ /\ RecoveredBy(u, Home(u))
               /\ recovery' = [recovery EXCEPT ![Home(u)] = None]
         /\ ~Running(u)
<1> USE DEF ResumeShapes, ledgerVars
<1>1. ~Running(u)
  BY DEF ReportExit, Running
<1>2. ExitTarget(u, Home(u)) = Home(u)
  BY DEF OwnHome, ExitTarget
<1>3. ASSUME NEW code, ProcessExit(u, WrapperOf[u], code, clock, Home(u))
      PROVE  /\ UNCHANGED binding \/ binding' = [binding EXCEPT ![u] = None]
             /\ \/ UNCHANGED recovery
                \/ /\ RecoveredBy(u, Home(u))
                   /\ recovery' = [recovery EXCEPT ![Home(u)] = None]
  BY <1>2, <1>3 DEF ProcessExit, ReleaseLaunch, RecordExit, Unbind
<1> QED BY <1>1, <1>3 DEF ReportExit

\* No step binds a launch to another conversation or certifies it for one.
LEMMA OwnHomeStep == ASSUME ResumeShapes, OwnHome, [ResumeNext]_vars PROVE OwnHome'
<1> USE ResumeConstants, LedgerConstants DEF ResumeShapes, OwnHome, LedgerTypeOK, Home
<1>1. ASSUME NEW u \in Tokens,
             UNCHANGED binding \/ binding' = [binding EXCEPT ![u] = Home(u)],
             UNCHANGED recovery \/ Proves(u)
      PROVE  OwnHome'
  BY <1>1 DEF Proves
<1>2. ASSUME NEW u \in Tokens, ReportExit(u) PROVE OwnHome'
  BY <1>2, ExitWithdraws
<1>3. ASSUME NEW s \in Sessions, ReconcileExpires(s) PROVE OwnHome'
  BY <1>3 DEF ReconcileExpires, ExpireRecovery
<1>4. ASSUME NEW s \in Sessions, StopWatching(s) PROVE OwnHome'
  BY <1>4 DEF StopWatching, Untrack, ForgetClaims
<1>5. CASE UNCHANGED <<binding, recovery>>
  BY <1>5
<1> QED BY <1>1, <1>2, <1>3, <1>4, <1>5, ClaimsTouched

\* What excuses a lost proof is forgotten only when the launch is certified again.
LEMMA ExcusesStay ==
  ASSUME [ResumeNext]_vars, NEW t \in Tokens, Excused(t)
  PROVE  Excused(t)' \/ CertifyLaunch(t, Home(t), ProviderOf[t])
<1> USE DEF historyVars, resumeVars, Excused
<1>1. ASSUME NEW u \in Tokens, Certify(u), UNCHANGED disowned
      PROVE  Excused(t)' \/ CertifyLaunch(t, Home(t), ProviderOf[t])
  BY <1>1 DEF Certify
<1>2. ASSUME NEW u \in Tokens, CertifyResumed(u) \/ HookCertifies(u)
      PROVE  Certify(u) /\ UNCHANGED disowned
  BY <1>2 DEF CertifyResumed, HookCertifies
<1>3. ASSUME NEW u \in Tokens, LauncherStep(u), ~CertifyResumed(u) PROVE Excused(t)'
  BY <1>3 DEF LauncherStep, LaneStep, ObserveOwners, InspectPending, PersistIntent,
    RegisterLaunchWrapper, CreateHolder, RecordPane, PreparePane, MarkStarting, MarkPhase,
    BindExact, RecheckUnclaimed, IssueRespawn, WaitForBinding, ObserveLaunched,
    SaveResumed, LookUpPending
<1>4. ASSUME NEW u \in Tokens, TerminalStep(u) PROVE Excused(t)'
  BY <1>4 DEF TerminalStep, TmuxRespawn, ProviderExec, ProviderExits, ReportExit, KillPane
<1>5. ASSUME NEW u \in Tokens,
             \/ Begin(u) \/ LauncherKilled(u) \/ StepFails(u) \/ ProviderHook(u)
             \/ HookPromotes(u) \/ HookLooksUp(u) \/ ReconcileRecovers(u)
             \/ ReconcileExpiresLease(u) \/ RepairPending(u)
      PROVE  Excused(t)'
  BY <1>5 DEF Begin, LauncherKilled, StepFails, ProviderHook, HookPromotes, HookLooksUp,
    ReconcileRecovers, ReconcileExpiresLease, RepairPending
<1>6. ASSUME NEW s \in Sessions,
             RepairReservation(s) \/ ReconcileExpires(s) \/ StopWatching(s) \/ WatchAgain(s)
      PROVE  Excused(t)'
  BY <1>6 DEF RepairReservation, ReconcileExpires, StopWatching, WatchAgain
<1>7. CASE UNCHANGED vars
  BY <1>7 DEF vars
<1> QED BY <1>1, <1>2, <1>3, <1>4, <1>5, <1>6, <1>7 DEF ResumeNext

\* Who is certified has its binding and its proof.
LEMMA CertifyProves ==
  ASSUME ResumeShapes, NEW t \in Tokens, CertifyLaunch(t, Home(t), ProviderOf[t])
  PROVE  binding'[t] = Home(t) /\ RecoveredBy(t, Home(t))'
<1> USE ResumeConstants, LedgerConstants DEF ResumeShapes, LedgerTypeOK, Home, RecoveredBy
<1>1. [generation |-> ProviderOf[t], token |-> t] # None
  BY AbsentRow DEF RecoveryRows
<1> QED BY <1>1 DEF CertifyLaunch, CanCertify

\* A launch that ends its intent while its provider runs is certified by that step.
LEMMA EndsCertified ==
  ASSUME ResumeShapes, OwnHome, NEW t \in Tokens, EndsIntent(t), Running(t),
         HasPending(t), ~HasPending(t)'
  PROVE  binding'[t] = Home(t) /\ RecoveredBy(t, Home(t))'
<1> DEFINE proof == [generation |-> ProviderOf[t], token |-> t]
<1> USE ResumeConstants, LedgerConstants
    DEF ResumeShapes, LedgerTypeOK, Home, RecoveredBy, HasPending, ledgerVars
<1>1. proof # None
  BY AbsentRow DEF RecoveryRows
<1>2. CASE CertifyResumed(t) \/ HookCertifies(t)
  <2>1. CertifyLaunch(t, Home(t), ProviderOf[t])
    BY <1>2 DEF CertifyResumed, HookCertifies, Certify
  <2> QED BY <2>1, CertifyProves
<1>3. CASE ProviderHook(t)
  <2>1. PICK kind \in HookKinds :
          Hook(t, Home(t), WrapperOf[t], ProviderOf[t], kind[1], kind[2])
    BY <1>3 DEF ProviderHook, HookUntracked
  <2>2. /\ recovery' = [recovery EXCEPT ![Home(t)] =
                          [generation |-> ProviderOf[t], token |-> t]]
        /\ binding' = [binding EXCEPT ![t] = Home(t)]
    BY <2>1 DEF Hook, TokenCounts
  <2> QED BY <1>1, <2>2
<1>4. CASE ReconcileRecovers(t)
  BY <1>4, <1>1 DEF ReconcileRecovers, RecoverConfirmed
<1>5. ~RepairPending(t)
  BY DEF RepairPending
<1> QED BY <1>2, <1>3, <1>4, <1>5 DEF EndsIntent

\* A certified provider keeps its proof and the binding under it: a rival can
\* neither be certified nor report an exit for it, and reconciliation sees it.
LEMMA CertifiedStep ==
  ASSUME ResumeInv, [ResumeNext]_vars PROVE Certified'
<1> SUFFICES ASSUME NEW t \in Tokens, Running(t)', ~HasPending(t)', ~Excused(t)'
             PROVE  binding'[t] = Home(t) /\ RecoveredBy(t, Home(t))'
  BY DEF Certified, Home, Excused
<1> USE DEF ResumeInv
<1>1. Running(t)
  <2>1. ~TmuxRespawn(t)
    BY DEF TmuxRespawn, IntentStays, ledgerVars, HasPending
  <2> QED BY <2>1, RunsFrom
<1>2. CASE CertifyLaunch(t, Home(t), ProviderOf[t])
  BY <1>2, CertifyProves
<1>3. CASE HasPending(t)
  BY <1>1, <1>3, PendingTouched, EndsCertified
<1>4. CASE ~HasPending(t) /\ ~CertifyLaunch(t, Home(t), ProviderOf[t])
  <2> USE ResumeConstants, LedgerConstants DEF ResumeShapes, LedgerTypeOK, Home, RecoveredBy
  <2>1. binding[t] = Home(t) /\ RecoveredBy(t, Home(t))
    <3>1. ~Excused(t)
      BY <1>4, ExcusesStay
    <3> QED BY <1>1, <1>4, <3>1 DEF Certified
  <2>2. ASSUME NEW u \in Tokens,
               UNCHANGED binding \/ binding' = [binding EXCEPT ![u] = Home(u)],
               UNCHANGED recovery \/ Proves(u)
        PROVE  binding'[t] = Home(t) /\ RecoveredBy(t, Home(t))'
    <3>1. binding'[t] = Home(t)
      BY <2>1, <2>2
    <3>2. CASE UNCHANGED recovery
      BY <2>1, <3>1, <3>2
    <3>3. CASE Proves(u) /\ Home(u) # Home(t)
      BY <2>1, <3>1, <3>3 DEF Proves
    <3>4. CASE Proves(u) /\ u = t
      <4>1. [generation |-> ProviderOf[t], token |-> t] # None
        BY AbsentRow DEF RecoveryRows
      <4> QED BY <3>1, <3>4, <4>1 DEF Proves
    <3>5. ASSUME Proves(u), Home(u) = Home(t), u # t PROVE FALSE
      <4>1. Fired(u) /\ HasPending(u)
        <5>1. t \in ProvenRivals(u)
          BY <1>1, <2>1, <3>5 DEF ProvenRivals
        <5> QED BY <3>5, <5>1 DEF Proves, Excused
      <4> QED BY <1>1, <3>5, <4>1 DEF FiredAlone
    <3> QED BY <2>2, <3>2, <3>3, <3>4, <3>5
  <2>3. ASSUME NEW u \in Tokens, ReportExit(u)
        PROVE  binding'[t] = Home(t) /\ RecoveredBy(t, Home(t))'
    <3>1. u # t
      BY <1>1, <2>3, ExitWithdraws
    <3> QED BY <2>1, <2>3, <3>1, ExitWithdraws
  <2>4. ASSUME NEW s \in Sessions, ReconcileExpires(s)
        PROVE  binding'[t] = Home(t) /\ RecoveredBy(t, Home(t))'
    <3>1. pane[t] = "provider"
      BY <1>1, <1>4 DEF Running, IntentStays
    <3>2. s # Home(t)
      BY <2>1, <2>4, <3>1 DEF ReconcileExpires
    <3> QED BY <2>1, <2>4, <3>2 DEF ReconcileExpires, ExpireRecovery
  <2>5. ASSUME NEW s \in Sessions, StopWatching(s)
        PROVE  binding'[t] = Home(t) /\ RecoveredBy(t, Home(t))'
    <3>1. s # Home(t)
      BY <1>1, <2>5 DEF StopWatching, Excused
    <3> QED BY <2>1, <2>5, <3>1 DEF StopWatching, Untrack, ForgetClaims
  <2>6. CASE UNCHANGED <<binding, recovery>>
    BY <2>1, <2>6
  <2> QED BY <2>2, <2>3, <2>4, <2>5, <2>6, ClaimsTouched
<1> QED BY <1>2, <1>3, <1>4

-----------------------------------------------------------------------------
(* The promises.                                                           *)

\* Nothing is reserved, pending or running at first.
LEMMA ResumeInvInit == ResumeInit => ResumeInv
<1> SUFFICES ASSUME ResumeInit PROVE ResumeInv
  OBVIOUS
<1> USE LedgerConstants DEF ResumeInit, LedgerInit, Lane!LaneInit
<1>1. ResumeShapes
  BY DEF ResumeShapes, LedgerTypeOK, Times, MetaRows, NoMeta, Places, Early, PaneStates
<1>2. NamesReservedOnce /\ PaneFollows /\ IntentStays
  BY DEF NamesReservedOnce, HasPending, PaneFollows, IntentStays, Early, Holding, Certifying,
    Claimed
<1>3. FiredAlone /\ AtMostOneProvider /\ OwnHome /\ Certified
  BY DEF FiredAlone, AtMostOneProvider, OwnHome, Certified, Running
<1> QED BY <1>1, <1>2, <1>3 DEF ResumeInv

\* Every step of the composition keeps it.
LEMMA ResumeInvStep == ResumeInv /\ [ResumeNext]_vars => ResumeInv'
<1> SUFFICES ASSUME ResumeInv, [ResumeNext]_vars PROVE ResumeInv'
  OBVIOUS
<1> USE DEF ResumeInv
<1>1. ResumeShapes' /\ PaneFollows'
  BY ShapesStep, PaneFollowsStep
<1>2. NamesReservedOnce'
  BY StepsTheLedger, NamesStep DEF ResumeShapes
<1>3. IntentStays'
  BY IntentStaysStep
<1>4. FiredAlone' /\ AtMostOneProvider'
  BY <1>1, <1>2, <1>3, FiredAloneStep, AtMostOneStep
<1>5. OwnHome' /\ Certified'
  BY OwnHomeStep, CertifiedStep
<1> QED BY <1>1, <1>2, <1>3, <1>4, <1>5

\* The strengthened invariant holds in every reachable state.
LEMMA ResumeInvAlways == ResumeSpec => []ResumeInv
BY ResumeInvInit, ResumeInvStep, PTL DEF ResumeSpec

\* Two providers never run for one conversation, however many launchers race, are
\* killed or have their reservation revoked (core.rs:2215, execute_resume_pane).
THEOREM OneProviderAlways == ResumeSpec => []AtMostOneProvider
BY ResumeInvAlways, PTL DEF ResumeInv

\* A provider that runs is pending or proven, until the user untracks its
\* conversation (core.rs:2679): no hook, exit callback, repair or reconciliation of
\* another launch takes the way back to it, but for the one certification that
\* looked its pending row up before the row went (store.rs:3905).
THEOREM NoOrphanAlways == ResumeSpec => []NoOrphanProvider
<1>1. ResumeInv => NoOrphanProvider
  BY DEF ResumeInv, Certified, Excused, NoOrphanProvider
<1> QED BY <1>1, ResumeInvAlways, PTL

\* What LaunchLedger shows of arbitrary transactions holds of these: receipts stay
\* with their attempt, and every recovery proof rests on the binding of its launch.
THEOREM LedgerKept ==
  ResumeSpec => [](ReceiptBelongsToAttempt /\ RecoveryBacked /\ OneHomePerLaunch)
<1>1. ResumeInit => ReceiptBelongsToAttempt /\ ClaimsInv
  BY DEF ResumeInit, LedgerInit, ReceiptBelongsToAttempt, NoMeta, ClaimsInv, RecoveryBacked,
    UntrackedClaims
<1>2. ResumeInv /\ [ResumeNext]_vars => LedgerTypeOK /\ [LedgerNext]_ledgerVars
  BY StepsTheLedger DEF ResumeInv, ResumeShapes
<1>3. ResumeInv /\ ClaimsInv => RecoveryBacked /\ OneHomePerLaunch
  BY LedgerConstants
  DEF ResumeInv, ResumeShapes, LedgerTypeOK, ClaimsInv, RecoveryBacked, OneHomePerLaunch,
      RecoveryRows
<1> QED BY <1>1, <1>2, <1>3, AttemptStep, ClaimsStep, ResumeInvAlways, PTL DEF ResumeSpec

-----------------------------------------------------------------------------
(* The refinement of ExactHome.                                            *)

Claimant == [s \in Sessions |-> OneOf(PendingOn(s))]
Resident == [s \in Sessions |-> OneOf(RunningOn(s))]

\* The one element of a set, or nobody.
LEMMA OneOfSingle == OneOf({}) = None /\ \A x : OneOf({x}) = x
BY DEF OneOf

\* A pending launch is its conversation's claimant, a running one its resident.
LEMMA TheOnes ==
  ResumeInv => \A t \in Tokens : /\ HasPending(t) => Claimant[Home(t)] = t
                                 /\ Running(t) => Resident[Home(t)] = t
<1> SUFFICES ASSUME ResumeInv, NEW t \in Tokens
             PROVE  /\ HasPending(t) => Claimant[Home(t)] = t
                    /\ Running(t) => Resident[Home(t)] = t
  OBVIOUS
<1>1. Home(t) \in Sessions
  BY ResumeConstants DEF Home
<1>2. ASSUME HasPending(t) PROVE Claimant[Home(t)] = t
  <2>1. PendingOn(Home(t)) = {t}
    BY <1>2, OnePending DEF PendingOn, ResumeInv
  <2> QED BY <1>1, <2>1, OneOfSingle DEF Claimant
<1>3. ASSUME Running(t) PROVE Resident[Home(t)] = t
  <2>1. RunningOn(Home(t)) = {t}
    BY <1>3 DEF RunningOn, ResumeInv, AtMostOneProvider
  <2> QED BY <1>1, <2>1, OneOfSingle DEF Resident
<1> QED BY <1>2, <1>3

\* A launch that is neither leaves its conversation unclaimed, or empty.
LEMMA NotTheOnes ==
  \A t \in Tokens :
    /\ (\A u \in Tokens : Home(u) = Home(t) => ~HasPending(u)) => Claimant[Home(t)] = None
    /\ (\A u \in Tokens : Home(u) = Home(t) => ~Running(u)) => Resident[Home(t)] = None
<1> SUFFICES ASSUME NEW t \in Tokens
             PROVE  /\ (\A u \in Tokens : Home(u) = Home(t) => ~HasPending(u))
                         => Claimant[Home(t)] = None
                    /\ (\A u \in Tokens : Home(u) = Home(t) => ~Running(u))
                         => Resident[Home(t)] = None
  OBVIOUS
<1>1. Home(t) \in Sessions
  BY ResumeConstants DEF Home
<1>2. ASSUME \A u \in Tokens : Home(u) = Home(t) => ~HasPending(u)
      PROVE  Claimant[Home(t)] = None
  <2>1. PendingOn(Home(t)) = {}
    BY <1>2 DEF PendingOn
  <2> QED BY <1>1, <2>1, OneOfSingle DEF Claimant
<1>3. ASSUME \A u \in Tokens : Home(u) = Home(t) => ~Running(u)
      PROVE  Resident[Home(t)] = None
  <2>1. RunningOn(Home(t)) = {}
    BY <1>3 DEF RunningOn
  <2> QED BY <1>1, <2>1, OneOfSingle DEF Resident
<1> QED BY <1>2, <1>3

\* The same of the next state.
LEMMA TheOnesNext ==
  (ResumeInv => \A t \in Tokens : /\ HasPending(t) => Claimant[Home(t)] = t
                                  /\ Running(t) => Resident[Home(t)] = t)'
BY TheOnes, PTL

\* And of an unclaimed conversation.
LEMMA NotTheOnesNext ==
  (\A t \in Tokens :
    /\ (\A u \in Tokens : Home(u) = Home(t) => ~HasPending(u)) => Claimant[Home(t)] = None
    /\ (\A u \in Tokens : Home(u) = Home(t) => ~Running(u)) => Resident[Home(t)] = None)'
BY NotTheOnes, PTL

\* Where no launch's intent, or no launch's pane, changes, the view stays.
LEMMA SameView ==
  ASSUME NEW s \in Sessions
  PROVE  /\ (\A u \in Tokens : Home(u) = s => (HasPending(u)' <=> HasPending(u)))
              => Claimant'[s] = Claimant[s]
         /\ (\A u \in Tokens : Home(u) = s => (Running(u)' <=> Running(u)))
              => Resident'[s] = Resident[s]
<1>1. ASSUME \A u \in Tokens : Home(u) = s => (HasPending(u)' <=> HasPending(u))
      PROVE  Claimant'[s] = Claimant[s]
  <2>1. PendingOn(s)' = PendingOn(s)
    BY <1>1 DEF PendingOn, Home
  <2>2. OneOf(PendingOn(s))' = OneOf(PendingOn(s))
    BY <2>1 DEF OneOf
  <2> QED BY <2>2 DEF Claimant
<1>2. ASSUME \A u \in Tokens : Home(u) = s => (Running(u)' <=> Running(u))
      PROVE  Resident'[s] = Resident[s]
  <2>1. RunningOn(s)' = RunningOn(s)
    BY <1>2 DEF RunningOn, Home
  <2>2. OneOf(RunningOn(s))' = OneOf(RunningOn(s))
    BY <2>1 DEF OneOf
  <2> QED BY <2>2 DEF Resident
<1> QED BY <1>1, <1>2

\* The intent of at most one launch changes in a step, and then no pane does.
LEMMA IntentSteps ==
  ASSUME ResumeInv, ResumeInv', [ResumeNext]_vars, NEW t \in Tokens,
         ~(HasPending(t)' <=> HasPending(t))
  PROVE  /\ UNCHANGED pane
         /\ \A u \in Tokens \ {t} : HasPending(u)' <=> HasPending(u)
<1> USE DEF ResumeInv
<1>1. CASE PersistIntent(t)
  BY <1>1 DEF PersistIntent, AddPending, HasPending, terminalVars, ledgerVars, ResumeShapes,
    LedgerTypeOK
<1>2. CASE EndsIntent(t)
  <2>1. UNCHANGED pending \/ RemovePending(t)
    BY <1>2 DEF EndsIntent, CertifyResumed, ProviderHook, Hook, HookUntracked, HookCertifies,
      Certify, CertifyLaunch, ReconcileRecovers, RecoverConfirmed, RepairPending,
      DeletePending, ledgerVars
  <2>2. \A u \in Tokens \ {t} : pending'[u] = pending[u]
    BY <2>1 DEF RemovePending, ResumeShapes, LedgerTypeOK
  <2> QED BY <1>2, <2>2, IntentEndsLate DEF HasPending
<1> QED BY <1>1, <1>2, PendingTouched

\* The pane of at most one launch starts or stops running in a step.
LEMMA PaneSteps ==
  ASSUME ResumeShapes, [ResumeNext]_vars, NEW t \in Tokens, ~(Running(t)' <=> Running(t))
  PROVE  \A u \in Tokens \ {t} : Running(u)' <=> Running(u)
<1> USE DEF ResumeShapes, Running, terminalVars, resumeVars
<1>1. ASSUME NEW p \in Tokens, CreateHolder(p) \/ TerminalStep(p)
      PROVE  \A u \in Tokens \ {t} : Running(u)' <=> Running(u)
  <2>1. UNCHANGED pane \/ \E where : pane' = [pane EXCEPT ![p] = where]
    BY <1>1 DEF CreateHolder, TerminalStep, TmuxRespawn, ProviderExec, ProviderExits,
      ReportExit, KillPane
  <2> QED BY <2>1
<1>2. ASSUME NEW p \in Tokens, LauncherStep(p), ~CreateHolder(p) PROVE FALSE
  BY <1>2 DEF LauncherStep, LaneStep, ObserveOwners, InspectPending, PersistIntent,
    RegisterLaunchWrapper, RecordPane, PreparePane, MarkStarting, MarkPhase,
    BindExact, RecheckUnclaimed, IssueRespawn, WaitForBinding, ObserveLaunched,
    SaveResumed, LookUpPending, CertifyResumed
<1>3. ASSUME NEW p \in Tokens,
             \/ Begin(p) \/ LauncherKilled(p) \/ StepFails(p) \/ ProviderHook(p)
             \/ HookPromotes(p) \/ HookLooksUp(p) \/ HookCertifies(p)
             \/ ReconcileRecovers(p) \/ ReconcileExpiresLease(p) \/ RepairPending(p)
      PROVE  FALSE
  BY <1>3 DEF Begin, LauncherKilled, StepFails, ProviderHook, HookPromotes, HookLooksUp,
    HookCertifies, ReconcileRecovers, ReconcileExpiresLease, RepairPending
<1>4. ASSUME NEW s \in Sessions,
             RepairReservation(s) \/ ReconcileExpires(s) \/ StopWatching(s) \/ WatchAgain(s)
      PROVE  FALSE
  BY <1>4 DEF RepairReservation, ReconcileExpires, StopWatching, WatchAgain
<1>5. CASE UNCHANGED vars
  BY <1>5 DEF vars
<1> QED BY <1>1, <1>2, <1>3, <1>4, <1>5 DEF ResumeNext

\* Every step of the protocol is one of ExactHome's or leaves its view alone.
LEMMA StepsThePromise ==
  ASSUME ResumeInv, ResumeInv', [ResumeNext]_vars
  PROVE  [Promise!HomeNext]_(Promise!homeVars)
<1> USE DEF ResumeInv
<1>1. UNCHANGED <<Claimant, Resident>> => UNCHANGED Promise!homeVars
  BY DEF Promise!homeVars, Claimant, Resident
<1>2. /\ Claimant = [s \in Sessions |-> Claimant[s]] /\ Claimant' = [s \in Sessions |-> Claimant'[s]]
      /\ Resident = [s \in Sessions |-> Resident[s]] /\ Resident' = [s \in Sessions |-> Resident'[s]]
  BY DEF Claimant, Resident
<1>3. ASSUME NEW t \in Tokens, ~(HasPending(t)' <=> HasPending(t))
      PROVE  Promise!HomeNext
  <2>1. Home(t) \in Sessions
    BY ResumeConstants DEF Home
  <2>2. UNCHANGED Resident
    BY <1>2, <1>3, IntentSteps, SameView DEF Running
  <2>3. \A s \in Sessions \ {Home(t)} : Claimant'[s] = Claimant[s]
    BY <1>3, IntentSteps, SameView
  <2>4. CASE HasPending(t)'
    <3>1. \A u \in Tokens : Home(u) = Home(t) => ~HasPending(u)
      BY <1>3, <2>4, PendingTouched, ResumeConstants DEF PersistIntent, AddPending, Competes, Home,
        HasPending, ledgerVars
    <3>2. Claimant[Home(t)] = None
      BY <3>1, NotTheOnes
    <3>3. Claimant'[Home(t)] = t
      BY <2>4, TheOnesNext DEF Home
    <3>4. Claimant' = [Claimant EXCEPT ![Home(t)] = t]
      BY <1>2, <2>1, <2>3, <3>3
    <3>5. Promise!Claim(Home(t), t)
      BY <2>2, <3>2, <3>4 DEF Promise!Claim, Claimant, Resident
    <3> QED BY <2>1, <3>5 DEF Promise!HomeNext
  <2>5. CASE HasPending(t)
    <3>1. \A u \in Tokens : Home(u) = Home(t) => ~HasPending(u)'
      BY <1>3, <2>5, IntentSteps, OnePending
    <3>2. Claimant'[Home(t)] = None
      BY <3>1, NotTheOnesNext DEF Home
    <3>3. Claimant[Home(t)] = t /\ t # None
      BY <2>5, TheOnes, ResumeConstants
    <3>4. Claimant' = [Claimant EXCEPT ![Home(t)] = None]
      BY <1>2, <2>1, <2>3, <3>2
    <3>5. Promise!Withdraw(Home(t))
      BY <2>2, <3>3, <3>4 DEF Promise!Withdraw, Claimant, Resident
    <3> QED BY <2>1, <3>5 DEF Promise!HomeNext
  <2> QED BY <1>3, <2>4, <2>5
<1>4. ASSUME NEW t \in Tokens, ~(Running(t)' <=> Running(t)),
             \A u \in Tokens : HasPending(u)' <=> HasPending(u)
      PROVE  Promise!HomeNext
  <2>1. Home(t) \in Sessions
    BY ResumeConstants DEF Home
  <2>2. UNCHANGED Claimant
    BY <1>2, <1>4, SameView
  <2>3. \A s \in Sessions \ {Home(t)} : Resident'[s] = Resident[s]
    BY <1>4, PaneSteps, SameView
  <2>4. CASE Running(t)'
    <3>1. Fired(t) /\ HasPending(t) /\ t # None
      BY <1>4, <2>4, RunsFrom, ResumeConstants DEF TmuxRespawn, Fired, IntentStays
    <3>2. Claimant[Home(t)] = t
      BY <3>1, TheOnes
    <3>3. Resident[Home(t)] = None
      BY <1>4, <2>4, <3>1, NotTheOnes DEF FiredAlone
    <3>4. Resident'[Home(t)] = t
      BY <2>4, TheOnesNext DEF Home
    <3>5. Resident' = [Resident EXCEPT ![Home(t)] = t]
      BY <1>2, <2>1, <2>3, <3>4
    <3>6. Promise!Start(Home(t), t)
      BY <2>2, <3>2, <3>3, <3>5 DEF Promise!Start, Claimant, Resident
    <3> QED BY <2>1, <3>6 DEF Promise!HomeNext
  <2>5. CASE Running(t)
    <3>1. \A u \in Tokens : Home(u) = Home(t) => ~Running(u)'
      BY <1>4, <2>5, PaneSteps DEF AtMostOneProvider
    <3>2. Resident'[Home(t)] = None
      BY <3>1, NotTheOnesNext DEF Home
    <3>3. Resident[Home(t)] = t /\ t # None
      BY <2>5, TheOnes, ResumeConstants
    <3>4. Resident' = [Resident EXCEPT ![Home(t)] = None]
      BY <1>2, <2>1, <2>3, <3>2
    <3>5. Promise!Stop(Home(t))
      BY <2>2, <3>3, <3>4 DEF Promise!Stop, Claimant, Resident
    <3> QED BY <2>1, <3>5 DEF Promise!HomeNext
  <2> QED BY <1>4, <2>4, <2>5
<1>5. ASSUME \A u \in Tokens : HasPending(u)' <=> HasPending(u),
             \A u \in Tokens : Running(u)' <=> Running(u)
      PROVE  UNCHANGED <<Claimant, Resident>>
  BY <1>2, <1>5, SameView
<1> QED BY <1>1, <1>3, <1>4, <1>5

\* Reopening a conversation, with its reservations, hooks, crashes and revocations,
\* implements the abstract promise: who starts a provider has claimed the
\* conversation, and while one runs no other starts (resume_session).
THEOREM PromiseKept == ResumeSpec => KeepsPromise
<1>1. ResumeInit => Promise!HomeInit
  <2> SUFFICES ASSUME ResumeInit PROVE Promise!HomeInit
    OBVIOUS
  <2>1. \A s \in Sessions : PendingOn(s) = {} /\ RunningOn(s) = {}
    BY DEF ResumeInit, LedgerInit, PendingOn, RunningOn, HasPending, Running
  <2> QED BY <2>1, OneOfSingle DEF Promise!HomeInit
<1>2. ResumeInv /\ ResumeInv' /\ [ResumeNext]_vars
        => [Promise!HomeNext]_(Promise!homeVars)
  BY StepsThePromise
<1> QED BY <1>1, <1>2, ResumeInvAlways, PTL DEF ResumeSpec, KeepsPromise, Promise!HomeSpec
=============================================================================
