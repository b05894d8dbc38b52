----------------------------- MODULE ExactResume ----------------------------
(***************************************************************************)
(* Reopening one saved conversation in its exact terminal home             *)
(* (src/src/core.rs resume_session ... execute_resume_pane), composed with *)
(* the launch ledger.  A launcher is one `pika NAME` invocation; it mints  *)
(* one launch token, so launchers are named by their tokens.  Launchers,   *)
(* tmux, the providers they start, provider hooks, `pika doctor` and the   *)
(* board's untrack interleave freely; a launcher may be killed between any *)
(* two of its steps, and the tmux command it has already issued still runs.*)
(***************************************************************************)
EXTENDS LaunchLedger

CONSTANTS
  WrapperOf,    \* the owner token a launcher puts in its environment
  HolderOf,     \* generation of the inert process holding a fresh pane
  ProviderOf,   \* generation of the provider started in that pane
  Faulty,       \* launchers that may be killed or meet an error
  HookKinds,    \* hooks a provider sends: <<event, verified>>
  MaxUntracks   \* bound on how often the user stops watching

ASSUME ResumeConstants ==
  /\ Intent \in [Tokens -> Sessions]
  /\ WrapperOf \in [Tokens -> Wrappers]
  /\ HolderOf \in [Tokens -> Generations]
  /\ ProviderOf \in [Tokens -> Generations]
  /\ Faulty \subseteq Tokens
  /\ HookKinds \subseteq HookEvents \X BOOLEAN
  /\ MaxUntracks \in Nat
  /\ None \notin Tokens
  /\ \A t, u \in Tokens :
       /\ WrapperOf[t] = WrapperOf[u] => t = u
       /\ Intent[t] = Intent[u] => NameOf[t] = NameOf[u]
       /\ ProviderOf[t] = ProviderOf[u] => t = u
       /\ ProviderOf[t] # HolderOf[u]

VARIABLES
  pc,        \* where each launcher is in resume_session
  lane,      \* launch_reservations: the launcher holding a conversation
  seen,      \* reservation row read by a launcher that lost the insert
  revoked,   \* history: launchers whose reservation untrack deleted under them
  pane,      \* what runs in the terminal home of each launch
  issued_tmux, \* respawn commands issued to tmux and not yet executed
  poised,    \* hooks that looked their pending row up and have yet to certify
  displaced, \* history: launches whose proof a late certification replaced
  disowned,  \* history: launches that were running when untrack forgot them
  untracks   \* how often the user has stopped watching

laneVars == <<pc, lane, seen, revoked>>
terminalVars == <<pane, issued_tmux>>
historyVars == <<displaced, disowned, untracks>>
resumeVars == <<laneVars, terminalVars, poised, historyVars>>
vars == <<ledgerVars, resumeVars>>

Home(t) == Intent[t]

\* The steps of resume_session_reserved between its first observation and the
\* release of the reservation.
Stages == {"inspect", "add", "register", "allocate", "finalize", "prepare",
           "bind", "starting", "recheck", "respawn", "wait", "generation",
           "save", "lookup", "certify"}

Lane == INSTANCE ResumeLane WITH
  Launchers <- Tokens,
  Conversations <- Sessions,
  Target <- Intent,
  PidOf <- WrapperOf,
  Nobody <- None

Alive(t) == Lane!Alive(t)

\* wrapper: respawned, the provider not yet observable; exiting: the provider
\* has ended, its exit callback is still to run.
PaneStates == {"none", "holder", "wrapper", "provider", "exiting", "shell"}
Running(t) == pane[t] \in {"wrapper", "provider"}

\* find_session_processes: providers whose argv carries the identity.
Visible(s) == {t \in Tokens : Home(t) = s /\ pane[t] = "provider"}

ResumeInit ==
  /\ LedgerInit(Sessions)
  /\ Lane!LaneInit
  /\ pane = [t \in Tokens |-> "none"]
  /\ issued_tmux = {}
  /\ poised = {}
  /\ displaced = {}
  /\ disowned = {}
  /\ untracks = 0

At(t, here) == pc[t] = here

\* A step of a launcher that leaves the reservation rows alone.
Go(t, next) ==
  /\ pc' = [pc EXCEPT ![t] = next]
  /\ UNCHANGED <<lane, seen, revoked>>

\* An explicit open first restores tracking of the conversation it names.
Begin(t) ==
  /\ Home(t) \notin untracked
  /\ Lane!Begin(t)
  /\ UNCHANGED <<ledgerVars, terminalVars, poised, historyVars>>

\* reserve_resume_after_stale_proof and release_resume.
LaneStep(t) ==
  /\ Lane!Contend(t)
  /\ UNCHANGED <<ledgerVars, terminalVars, poised, historyVars>>

-----------------------------------------------------------------------------
(* Inspection, intent and pane (resume_session_reserved, prepare_resume_   *)
(* pane).  Any refusal ends the attempt through "release".                 *)

\* A visible exact provider is attached to instead of being launched again.
ObserveOwners(t) ==
  /\ At(t, "observe")
  /\ Go(t, IF Visible(Home(t)) = {} THEN "inspect" ELSE "release")
  /\ UNCHANGED <<ledgerVars, terminalVars, poised, historyVars>>

\* retire_dead_same_name_pending: a pending launch bound to a UUID is never
\* reinterpreted as a dead name reservation, so any competitor ends the resume.
InspectPending(t) ==
  /\ At(t, "inspect")
  /\ Go(t, IF Competes(t) THEN "release" ELSE "add")
  /\ UNCHANGED <<ledgerVars, terminalVars, poised, historyVars>>

PersistIntent(t) ==
  /\ At(t, "add")
  /\ \/ AddPending(t) /\ Go(t, "register")
     \/ Competes(t) /\ UNCHANGED ledgerVars /\ Go(t, "release")
  /\ UNCHANGED <<terminalVars, poised, historyVars>>

RegisterLaunchWrapper(t) ==
  /\ At(t, "register")
  /\ RegisterWrapper(t, WrapperOf[t])
  /\ Go(t, IF meta'[t].wrapper = None THEN "release" ELSE "allocate")
  /\ UNCHANGED <<terminalVars, poised, historyVars>>

CreateHolder(t) ==
  /\ At(t, "allocate")
  /\ pane' = [pane EXCEPT ![t] = "holder"]
  /\ Go(t, "finalize")
  /\ UNCHANGED <<ledgerVars, issued_tmux, poised, historyVars>>

RecordPane(t) ==
  /\ At(t, "finalize")
  /\ FinalizePane(t, HolderOf[t])
  /\ Go(t, "prepare")
  /\ UNCHANGED <<terminalVars, poised, historyVars>>

\* set_launch_phase reports whether the recoverable launch record still exists.
MarkPhase(t, here, phase, next) ==
  /\ At(t, here)
  /\ \/ SetLaunchPhase(t, phase) /\ Go(t, next)
     \/ ~HasPending(t) /\ UNCHANGED ledgerVars /\ Go(t, "release")
  /\ UNCHANGED <<terminalVars, poised, historyVars>>

PreparePane(t) == MarkPhase(t, "prepare", "pane_prepared", "bind")
MarkStarting(t) == MarkPhase(t, "starting", "provider_starting", "recheck")

BindExact(t) ==
  /\ At(t, "bind")
  /\ \/ BindLaunch(t) /\ Go(t, "starting")
     \/ binding[t] # None /\ UNCHANGED ledgerVars
          /\ Go(t, IF binding[t] = Home(t) THEN "starting" ELSE "release")
  /\ UNCHANGED <<terminalVars, poised, historyVars>>

-----------------------------------------------------------------------------
(* Provider start (execute_resume_pane) and the processes in the pane.     *)

\* Fault: only the pane is checked again, not the owners.
RecheckPaneOnly(t) ==
  /\ At(t, "recheck")
  /\ Go(t, IF pane[t] = "holder" THEN "respawn" ELSE "release")
  /\ UNCHANGED <<ledgerVars, terminalVars, poised, historyVars>>

\* The second observation, immediately before the only command that can start
\* a provider.
RecheckUnclaimed(t) ==
  /\ At(t, "recheck")
  /\ IF Visible(Home(t)) = {} /\ pane[t] = "holder"
     THEN Go(t, "respawn") ELSE Go(t, "release")
  /\ UNCHANGED <<ledgerVars, terminalVars, poised, historyVars>>

IssueRespawn(t) ==
  /\ At(t, "respawn")
  /\ issued_tmux' = issued_tmux \union {t}
  /\ Go(t, "wait")
  /\ UNCHANGED <<ledgerVars, pane, poised, historyVars>>

\* tmux runs the command, whether or not the launcher is still there.
TmuxRespawn(t) ==
  /\ t \in issued_tmux
  /\ issued_tmux' = issued_tmux \ {t}
  /\ pane' = [pane EXCEPT ![t] = IF @ = "holder" THEN "wrapper" ELSE @]
  /\ UNCHANGED <<ledgerVars, laneVars, poised, historyVars>>

\* The wrapper's shell reaches the provider, which becomes observable.
ProviderExec(t) ==
  /\ pane[t] = "wrapper"
  /\ pane' = [pane EXCEPT ![t] = "provider"]
  /\ UNCHANGED <<ledgerVars, laneVars, issued_tmux, poised, historyVars>>

ProviderExits(t) ==
  /\ Running(t)
  /\ pane' = [pane EXCEPT ![t] = "exiting"]
  /\ UNCHANGED <<ledgerVars, laneVars, issued_tmux, poised, historyVars>>

\* `pika _process-exit` in the wrapper, then a login shell keeps the pane.  A
\* callback without authority changes nothing.
ReportExit(t) ==
  /\ pane[t] = "exiting"
  /\ pane' = [pane EXCEPT ![t] = "shell"]
  /\ \/ \E code \in Codes : ProcessExit(t, WrapperOf[t], code, clock, Home(t))
     \/ ~ExitHeeded(t, WrapperOf[t], clock, Home(t)) /\ UNCHANGED ledgerVars
  /\ UNCHANGED <<laneVars, issued_tmux, poised, historyVars>>

\* The user closes the terminal, or tmux dies: no callback is sent.
KillPane(t) ==
  /\ pane[t] \in {"holder", "wrapper", "provider", "exiting"}
  /\ pane' = [pane EXCEPT ![t] = "none"]
  /\ UNCHANGED <<ledgerVars, laneVars, issued_tmux, poised, historyVars>>

\* wait_for_exact_binding polls for two seconds.
WaitForBinding(t) ==
  /\ At(t, "wait") /\ t \notin issued_tmux
  /\ Go(t, IF pane[t] = "provider" THEN "generation" ELSE "release")
  /\ UNCHANGED <<ledgerVars, terminalVars, poised, historyVars>>

ObserveLaunched(t) ==
  /\ At(t, "generation")
  /\ \/ ObserveGeneration(t, ProviderOf[t])
     \/ ~HasPending(t) /\ UNCHANGED ledgerVars
  /\ Go(t, "save")
  /\ UNCHANGED <<terminalVars, poised, historyVars>>

SaveResumed(t) ==
  /\ At(t, "save")
  /\ \/ SaveSession(Home(t))
     \/ Home(t) \in untracked /\ UNCHANGED ledgerVars
  /\ Go(t, "lookup")
  /\ UNCHANGED <<terminalVars, poised, historyVars>>

\* The launches whose provider runs on a proof that t's own would replace.
ProvenRivals(t) ==
  {u \in Tokens \ {t} : Home(u) = Home(t) /\ Running(u) /\ RecoveredBy(u, Home(t))}

\* certify_launch accepts a token whose pending row is already gone.
Certify(t) ==
  \/ /\ CertifyLaunch(t, Home(t), ProviderOf[t])
     /\ displaced' = (displaced \ {t}) \union (IF HasPending(t) THEN {} ELSE ProvenRivals(t))
  \/ /\ ~CanCertify(t, Home(t), ProviderOf[t])
     /\ UNCHANGED <<ledgerVars, displaced>>

\* The pending row is looked up in a transaction of its own.
LookUpPending(t) ==
  /\ At(t, "lookup")
  /\ Go(t, IF HasPending(t) THEN "certify" ELSE "release")
  /\ UNCHANGED <<ledgerVars, terminalVars, poised, historyVars>>

CertifyResumed(t) ==
  /\ At(t, "certify")
  /\ Certify(t)
  /\ Go(t, "release")
  /\ UNCHANGED <<terminalVars, poised, disowned, untracks>>

LauncherKilled(t) ==
  /\ t \in Faulty
  /\ Lane!LauncherKilled(t)
  /\ UNCHANGED <<ledgerVars, terminalVars, poised, historyVars>>

\* Fault: an error returns before the reservation is released.
StepFailsHolding(t) ==
  /\ t \in Faulty /\ pc[t] \in Stages \union {"observe"}
  /\ Go(t, "done")
  /\ UNCHANGED <<ledgerVars, terminalVars, poised, historyVars>>

\* A tmux, store, process-scan or path error ends the attempt like a refusal.
StepFails(t) ==
  /\ t \in Faulty /\ pc[t] \in Stages \union {"observe"}
  /\ Go(t, "release")
  /\ UNCHANGED <<ledgerVars, terminalVars, poised, historyVars>>

LauncherStep(t) ==
  \/ LaneStep(t)
  \/ ObserveOwners(t) \/ InspectPending(t) \/ PersistIntent(t)
  \/ RegisterLaunchWrapper(t) \/ CreateHolder(t) \/ RecordPane(t)
  \/ PreparePane(t) \/ BindExact(t) \/ MarkStarting(t) \/ RecheckUnclaimed(t)
  \/ IssueRespawn(t) \/ WaitForBinding(t) \/ ObserveLaunched(t)
  \/ SaveResumed(t) \/ LookUpPending(t) \/ CertifyResumed(t)

TerminalStep(t) ==
  \/ TmuxRespawn(t) \/ ProviderExec(t) \/ ProviderExits(t) \/ ReportExit(t)
  \/ KillPane(t)

-----------------------------------------------------------------------------
(* Hooks of the provider in the pane, reconciliation, doctor, untrack.     *)

\* A hook process may be scheduled after the provider that caused it exited.
Hooked(t) == pane[t] \in {"provider", "exiting", "shell"}

ProviderHook(t) ==
  /\ Hooked(t)
  /\ \/ \E kind \in HookKinds :
          Hook(t, Home(t), WrapperOf[t], ProviderOf[t], kind[1], kind[2])
     \/ HookUntracked(Home(t))
  /\ UNCHANGED resumeVars

\* cli.rs: after tagging the pane, the hook promotes the provider's generation
\* and certifies, each in a transaction of its own.
HookPromotes(t) ==
  /\ Hooked(t)
  /\ FinalizePane(t, ProviderOf[t])
  /\ UNCHANGED resumeVars

HookLooksUp(t) ==
  /\ Hooked(t)
  /\ HasPending(t) /\ pending[t].pane /\ pending[t].root = ProviderOf[t]
  /\ binding[t] = Home(t)
  /\ poised' = poised \union {t}
  /\ UNCHANGED <<ledgerVars, laneVars, terminalVars, historyVars>>

HookCertifies(t) ==
  /\ t \in poised
  /\ poised' = poised \ {t}
  /\ Certify(t)
  /\ UNCHANGED <<laneVars, terminalVars, disowned, untracks>>

\* core.rs recover_confirmed_pending, during a board reconciliation.
ReconcileRecovers(t) ==
  /\ pane[t] = "provider"
  /\ RecoverConfirmed(t, Home(t), ProviderOf[t])
  /\ UNCHANGED resumeVars

\* Fault: a pending row whose launcher is gone is taken for dead.
RepairAbandoned(t) ==
  /\ ~Alive(t)
  /\ HasPending(t)
  /\ DeletePending(t)
  /\ UNCHANGED resumeVars

\* doctor.rs repair_stale removes rows at least five minutes old that no
\* provider backs; a launch takes seconds, so none is still under way.
RepairPending(t) ==
  /\ ~Alive(t) /\ t \notin issued_tmux /\ ~Running(t)
  /\ HasPending(t)
  /\ DeletePending(t)
  /\ UNCHANGED resumeVars

\* core.rs identity_owners, under the fence of a board reconciliation.
ReconcileExpires(s) ==
  /\ recovery[s] # None
  /\ LET t == recovery[s].token IN pane[t] # "provider" \/ binding[t] # s
  /\ ExpireRecovery(s)
  /\ UNCHANGED resumeVars

ReconcileExpiresLease(t) ==
  /\ ~Running(t)
  /\ ExpireOwner(Home(t), WrapperOf[t])
  /\ UNCHANGED resumeVars

RepairReservation(s) ==
  /\ Lane!RepairReservation(s)
  /\ UNCHANGED <<ledgerVars, terminalVars, poised, historyVars>>

\* The board's x: claims and the reservation go, processes stay.
StopWatching(s) ==
  /\ untracks < MaxUntracks
  /\ untracks' = untracks + 1
  /\ Untrack(s)
  /\ Lane!RevokeReservation(s)
  /\ disowned' = disowned \union {t \in Tokens : Home(t) = s /\ Running(t)}
  /\ UNCHANGED <<terminalVars, poised, displaced>>

WatchAgain(s) ==
  /\ s \in untracked
  /\ RestoreTracking(s)
  /\ UNCHANGED resumeVars

ResumeNext ==
  \/ \E t \in Tokens :
       \/ Begin(t) \/ LauncherStep(t) \/ LauncherKilled(t) \/ StepFails(t)
       \/ TerminalStep(t)
       \/ ProviderHook(t) \/ HookPromotes(t) \/ HookLooksUp(t)
       \/ HookCertifies(t) \/ ReconcileRecovers(t) \/ ReconcileExpiresLease(t)
       \/ RepairPending(t)
  \/ \E s \in Sessions :
       RepairReservation(s) \/ ReconcileExpires(s) \/ StopWatching(s) \/ WatchAgain(s)

ResumeSpec == ResumeInit /\ [][ResumeNext]_vars

-----------------------------------------------------------------------------
(* Properties.                                                             *)

\* The ledger's and the reservations' type invariants with those of the panes.
ResumeTypeOK ==
  /\ LedgerTypeOK
  /\ Lane!LaneTypeOK
  /\ pane \in [Tokens -> PaneStates]
  /\ issued_tmux \subseteq Tokens
  /\ poised \subseteq Tokens
  /\ displaced \subseteq Tokens
  /\ disowned \subseteq Tokens
  /\ untracks \in 0..MaxUntracks

\* The composition keeps every rule of the reservation table: what ResumeLane
\* shows of the reservation on its own holds here (core.rs resume_session).
LaneAsSpecified == Lane!LaneSpec

\* Two providers never run for one conversation, whatever launchers are killed,
\* respawn commands are executed late, and reservations are revoked
\* (core.rs:2215 "No second provider was launched").
AtMostOneProvider ==
  \A t, u \in Tokens : Running(t) /\ Running(u) /\ Home(t) = Home(u) => t = u

\* A provider Pika started is never lost: the pending row of its launch or its
\* recovery proof leads back to it, until the user untracks the conversation
\* (core.rs:2679).  Exit callbacks, repairs, expiries and hooks of an earlier
\* launch of the same conversation do not take that proof away, with one exception:
\* a hook (or launcher) that had looked its pending row up, and certifies when the row
\* has gone, puts its own proof in the place of the later launch's.  That launch
\* alone is exempt, until it is certified again.
NoOrphanProvider ==
  \A t \in Tokens :
    Running(t) => HasPending(t) \/ RecoveredBy(t, Home(t)) \/ t \in disowned \union displaced

\* The resume protocol keeps the promise of ExactHome: a pending row is the
\* claim, a wrapper or provider in a launch's pane is the running home.
PendingOn(s) == {t \in Tokens : Home(t) = s /\ HasPending(t)}
RunningOn(s) == {t \in Tokens : Home(t) = s /\ Running(t)}
OneOf(S) == IF S = {} THEN None ELSE CHOOSE t \in S : TRUE

Promise == INSTANCE ExactHome WITH
  Launches <- Tokens,
  Conversations <- Sessions,
  Nobody <- None,
  claim <- [s \in Sessions |-> OneOf(PendingOn(s))],
  home <- [s \in Sessions |-> OneOf(RunningOn(s))]

KeepsPromise == Promise!HomeSpec
=============================================================================
