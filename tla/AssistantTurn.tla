---------------------------- MODULE AssistantTurn ----------------------------
(***************************************************************************)
(* The assistant's foreground turns.  One host process serves the views    *)
(* (assistant.rs); a service thread (assistant_service.rs) owns the        *)
(* coordinated runtime and its provider thread; recovery is a third        *)
(* thread.  They share SQLite files with no transaction across them: the   *)
(* memory and its forget epoch, the policy ledger (CallAllowance), the     *)
(* runtime journal, the investigation journal, the owner's controls, the   *)
(* retention marker and the recovery intents.  The user may cancel, forget *)
(* a record, revoke the board's share or ask for fresh context at any      *)
(* time, and the process may crash between any two transactions.           *)
(*                                                                         *)
(* A stored or sent text stands for the forget epoch of the memory it was  *)
(* made from.  A proposal names no workers: their lane is not modelled,    *)
(* and neither are background turns, native turns and maintenance.  The    *)
(* journals exist already, as after a first opening that sent nothing.     *)
(***************************************************************************)
EXTENDS CallAllowance

CONSTANTS
  Budgets,         \* call allowances the user may approve
  MaxForgets,      \* bounds on the environment: forgets,
  MaxCrashes,      \*   crashes and failed recoveries,
  MaxRecoveries,   \*   requests for fresh context
  None

ASSUME TurnConstants ==
  /\ None \notin Requests \cup Nat
  /\ Budgets \subseteq Nat \ {0}
  /\ {MaxForgets, MaxCrashes, MaxRecoveries} \subseteq Nat

VARIABLES
  epoch,           \* memory_meta.forget_epoch
  turn,            \* assistant_runtime_turns, by request and child
  journal,         \* assistant_runtime_guard, _epoch and _profile
  roots,           \* investigation_roots.state
  contextBlocked,  \* assistant_control.context_blocked
  marker,          \* retention_meta.epoch
  board,           \* the board's share, or its revocation in assistant_board_revocations
  intent,          \* a recovery intent is pending or failed
  host,            \* the host's session and what it is doing
  service,         \* the service thread
  recovery,        \* the recovery thread
  lapsed,          \* requests whose root is past its deadline
  threads,         \* provider threads started so far
  live,            \* turns the provider is running: <<thread, request, child>>
  seen,            \* history: <<thread, epoch>> of every text sent
  sent,            \* history: how often each turn was sent
  crashes, recoveries

journalVars == <<turn, journal, roots>>
memoryVars == <<epoch, marker, contextBlocked, board, intent>>
providerVars == <<threads, live, seen, sent>>
boundVars == <<crashes, recoveries>>
vars == <<policyVars, journalVars, memoryVars, host, service, recovery, lapsed,
          providerVars, boundVars>>

UnresolvedTurn == {"reserved", "in_flight", "unknown"}
UnfinishedRoot == {"planning", "unknown"}

ServiceOff ==
  [pc |-> "off", calls |-> 0, thread |-> None, epoch |-> 0, request |-> None,
   role |-> "main", outcome |-> "unknown", wipe |-> FALSE, blocked |-> FALSE,
   cancel |-> FALSE, stop |-> FALSE, asked |-> {}]

\* A new session, redacting nothing and with no service attached yet.
Host(pc) == [pc |-> pc, redacted |-> FALSE, attached |-> FALSE]

RecoveryOff == [pc |-> "idle", epoch |-> 0, ids |-> {}]

Init ==
  /\ AllowanceInit
  /\ epoch = 0
  /\ turn = [q \in Requests |-> [c \in Children |-> [state |-> "none", text |-> None]]]
  /\ journal = [blocked |-> FALSE, epoch |-> 0, thread |-> None]
  /\ roots = [q \in Requests |-> "none"]
  /\ contextBlocked = FALSE
  /\ board \in {"private", "shared"}
  /\ marker = 0
  /\ intent = FALSE
  /\ host = Host("up")
  /\ service = ServiceOff
  /\ recovery = RecoveryOff
  /\ lapsed = {}
  /\ threads = 0
  /\ live = {}
  /\ seen = {}
  /\ sent = [q \in Requests |-> [c \in Children |-> 0]]
  /\ crashes = 0
  /\ recoveries = 0

-----------------------------------------------------------------------------
\* What the service is working on.
Request == service.request
Role == service.role
InMemory == service.epoch = epoch

\* The bounded handshake holds the memory's writer lock.
Fenced == service.pc \in {"fenced", "sending"}

Opening == {"opening", "restoring", "starting", "coordinating"}
Busy == service.pc \notin Opening \cup {"off", "idle"}

Step(pc) == service' = [service EXCEPT !.pc = pc]
Finishing(outcome) == service' = [service EXCEPT !.pc = "finishing", !.outcome = outcome]

\* release_busy: the worker is ready for another request.
Rest ==
  service' = [service EXCEPT !.pc = "idle", !.request = None, !.role = "main",
                             !.outcome = "unknown", !.wipe = FALSE, !.cancel = FALSE]

SetTurn(state) == turn' = [turn EXCEPT ![Request][Role].state = state]

\* Every turn's text is dropped; RetireTurns also makes every row unresolved.
WithoutText == [q \in Requests |-> [c \in Children |-> [turn[q][c] EXCEPT !.text = None]]]
\* Fault: retention closes a row whose outcome is still owed to the ledger.
RetireTurnsClosed ==
  [q \in Requests |-> [c \in Children |->
     IF turn[q][c].state = "none" THEN turn[q][c] ELSE [state |-> "abandoned", text |-> None]]]

RetireTurns ==
  [q \in Requests |-> [c \in Children |->
     IF turn[q][c].state = "none" THEN turn[q][c] ELSE [state |-> "unknown", text |-> None]]]
RetireRoots ==
  [q \in Requests |-> IF roots[q] = "none" THEN "none" ELSE "unknown"]

-----------------------------------------------------------------------------
(* The host: one request at a time, and none while recovery is busy.  One    *)
(* may still slip in between the end of recovery and the host's seeing it.   *)
Ready == host.pc = "up" /\ recovery.pc \in {"idle", "completed"}

\* No revocation is left unfinished: the tick before a forget or a recovery.
Settled == board \in {"private", "shared"}

\* A failed opening may be replaced unless the session is redacted.
Enable(n) ==
  /\ Ready
  /\ ~contextBlocked
  /\ service.pc = "off"
  /\ host.attached => ~host.redacted
  /\ ~intent
  /\ host' = [host EXCEPT !.attached = TRUE]
  /\ service' = [ServiceOff EXCEPT !.pc = "opening", !.calls = n]
  /\ UNCHANGED <<policyVars, journalVars, memoryVars, recovery, lapsed, providerVars, boundVars>>

Begin(q) ==
  /\ Ready
  /\ recovery.pc = "idle"
  /\ ~contextBlocked
  /\ ~host.redacted
  /\ service.pc = "idle"
  /\ ~service.stop
  /\ q \notin service.asked
  /\ service' = [service EXCEPT !.pc = "queued", !.request = q, !.asked = @ \cup {q}]
  /\ UNCHANGED <<policyVars, journalVars, memoryVars, host, recovery, lapsed, providerVars,
                 boundVars>>

CancelRequest ==
  /\ Ready
  /\ Busy
  /\ ~service.cancel
  /\ service' = [service EXCEPT !.cancel = TRUE]
  /\ UNCHANGED <<policyVars, journalVars, memoryVars, host, recovery, lapsed, providerVars,
                 boundVars>>

\* The session is redacted and its request cancelled before the memory changes.
Forget ==
  /\ Ready
  /\ Settled
  /\ epoch < MaxForgets
  /\ host' = [host EXCEPT !.pc = "forgetting", !.redacted = TRUE]
  /\ service' = [service EXCEPT !.cancel = @ \/ Busy]
  /\ UNCHANGED <<policyVars, journalVars, memoryVars, recovery, lapsed, providerVars, boundVars>>

\* A handshake in progress holds the memory: the forget gives up.
ForgetRecord ==
  /\ host.pc = "forgetting"
  /\ IF Fenced
     THEN host' = [host EXCEPT !.pc = "up"] /\ UNCHANGED epoch
     ELSE host' = [host EXCEPT !.pc = "scrub_turns"] /\ epoch' = epoch + 1
  /\ UNCHANGED <<policyVars, journalVars, marker, contextBlocked, board, intent, service, recovery,
                 lapsed, providerVars, boundVars>>

\* A revoked board share also advances the epoch, so that no finding drawn from
\* it survives; the session is cancelled only afterwards.
RevokeBoard ==
  /\ Ready
  /\ board = "shared"
  /\ epoch < MaxForgets
  /\ board' = "revoking"
  /\ contextBlocked' = TRUE
  /\ host' = [host EXCEPT !.pc = "revoking"]
  /\ UNCHANGED <<policyVars, journalVars, epoch, marker, intent, service, recovery, lapsed,
                 providerVars, boundVars>>

\* A revocation left over is finished by the controller's tick.
TickRevocation ==
  /\ Ready
  /\ ~Settled
  /\ host' = [host EXCEPT !.pc = IF board = "fenced" THEN "deleting" ELSE "revoking"]
  /\ UNCHANGED <<policyVars, journalVars, memoryVars, service, recovery, lapsed, providerVars,
                 boundVars>>

RevokeScope ==
  /\ host.pc = "revoking"
  /\ IF Fenced
     THEN host' = [host EXCEPT !.pc = "cancelling"] /\ UNCHANGED <<epoch, board>>
     ELSE host' = [host EXCEPT !.pc = "scrub_turns"] /\ epoch' = epoch + 1 /\ board' = "fenced"
  /\ UNCHANGED <<policyVars, journalVars, marker, contextBlocked, intent, service, recovery,
                 lapsed, providerVars, boundVars>>

DeleteRevocation ==
  /\ host.pc = "deleting"
  /\ board' = "private"
  /\ host' = [host EXCEPT !.pc = "cancelling"]
  /\ UNCHANGED <<policyVars, journalVars, epoch, marker, contextBlocked, intent, service, recovery,
                 lapsed, providerVars, boundVars>>

CancelWork ==
  /\ host.pc = "cancelling"
  /\ service' = [service EXCEPT !.cancel = @ \/ Busy]
  /\ host' = [host EXCEPT !.pc = "up"]
  /\ UNCHANGED <<policyVars, journalVars, memoryVars, recovery, lapsed, providerVars, boundVars>>

\* Retention, after a forget, a revocation or at startup: one transaction per
\* database, the marker last.  A forget revokes the board's share as well.
ScrubTurns ==
  /\ host.pc = "scrub_turns"
  /\ turn' = RetireTurns
  /\ journal' = [journal EXCEPT !.blocked = TRUE, !.epoch = epoch]
  /\ host' = [host EXCEPT !.pc = "scrub_roots"]
  /\ UNCHANGED <<policyVars, roots, memoryVars, service, recovery, lapsed, providerVars, boundVars>>

ScrubRoots ==
  /\ host.pc = "scrub_roots"
  /\ roots' = RetireRoots
  /\ host' = [host EXCEPT !.pc = "scrub_control"]
  /\ UNCHANGED <<policyVars, turn, journal, memoryVars, service, recovery, lapsed, providerVars,
                 boundVars>>

ScrubControl ==
  /\ host.pc = "scrub_control"
  /\ contextBlocked' = TRUE
  /\ board' = IF board = "shared" THEN "revoking" ELSE board
  /\ host' = [host EXCEPT !.pc = "mark"]
  /\ UNCHANGED <<policyVars, journalVars, epoch, marker, intent, service, recovery, lapsed,
                 providerVars, boundVars>>

Mark ==
  /\ host.pc = "mark"
  /\ marker' = epoch
  /\ host' = [host EXCEPT !.pc = IF board = "fenced" THEN "deleting" ELSE "up"]
  /\ UNCHANGED <<policyVars, journalVars, epoch, contextBlocked, board, intent, service, recovery,
                 lapsed, providerVars, boundVars>>

\* The old session, with its service, is handed to the recovery thread.
FreshContext ==
  /\ Ready
  /\ Settled
  /\ recoveries < MaxRecoveries
  /\ recoveries' = recoveries + 1
  /\ host' = Host("up")
  /\ intent' = TRUE
  /\ recovery' = [RecoveryOff EXCEPT !.pc = "dropping", !.epoch = epoch]
  /\ UNCHANGED <<policyVars, journalVars, epoch, marker, contextBlocked, board, service, lapsed,
                 providerVars, crashes>>

\* The host sees that recovery has completed.
Recovered ==
  /\ host.pc = "up"
  /\ recovery.pc = "completed"
  /\ Settled
  /\ contextBlocked' = FALSE
  /\ recovery' = RecoveryOff
  /\ UNCHANGED <<policyVars, journalVars, epoch, marker, board, intent, host, service, lapsed,
                 providerVars, boundVars>>

Restart ==
  /\ host.pc = "down"
  /\ host' = Host(IF epoch > 0 /\ marker < epoch THEN "scrub_turns" ELSE "up")
  /\ UNCHANGED <<policyVars, journalVars, memoryVars, service, recovery, lapsed, providerVars,
                 boundVars>>

HostNext ==
  \/ \E n \in Budgets : Enable(n)
  \/ \E q \in Requests : Begin(q)
  \/ CancelRequest \/ Forget \/ ForgetRecord
  \/ RevokeBoard \/ TickRevocation \/ RevokeScope \/ DeleteRevocation \/ CancelWork
  \/ ScrubTurns \/ ScrubRoots \/ ScrubControl \/ Mark
  \/ FreshContext \/ Recovered \/ Restart

-----------------------------------------------------------------------------
(* The service thread opens its runtime and then works on one request.       *)
At(pc) == service.pc = pc

\* What every step of the service, and one that touches no database, leaves alone.
ServiceOnly == UNCHANGED <<memoryVars, host, recovery, lapsed, boundVars>>
Quiet == UNCHANGED <<policyVars, journalVars, providerVars>> /\ ServiceOnly

\* The provider is bound to the journalled thread and the memory's epoch read.
Bind ==
  /\ At("opening")
  /\ service' = [service EXCEPT !.pc = "restoring", !.thread = journal.thread, !.epoch = epoch]
  /\ Quiet

RestoreState ==
  /\ At("restoring")
  /\ IF journal.epoch # service.epoch \/ journal.blocked
     THEN /\ turn' = RetireTurns
          /\ journal' = [journal EXCEPT !.blocked = TRUE, !.epoch = service.epoch]
          /\ service' = ServiceOff
     ELSE /\ UNCHANGED <<turn, journal>>
          /\ IF \E q \in Requests, c \in Children : turn[q][c].state \in UnresolvedTurn
             THEN service' = ServiceOff
             ELSE Step("starting")
  /\ UNCHANGED <<policyVars, roots, providerVars>>
  /\ ServiceOnly

\* The allowance is configured and the thread resumed, or started and kept.
StartOrResume ==
  /\ At("starting")
  /\ Configure(service.calls)
  /\ LET thread == IF service.thread = None THEN threads + 1 ELSE service.thread IN
       /\ threads' = IF service.thread = None THEN threads + 1 ELSE threads
       /\ journal' = [journal EXCEPT !.thread = thread]
       /\ service' = [service EXCEPT !.thread = thread, !.pc = "coordinating"]
  /\ UNCHANGED <<reservation, calls, turn, roots, live, seen, sent>>
  /\ ServiceOnly

\* An investigation left unfinished needs recovery first.
Coordinate ==
  /\ At("coordinating")
  /\ service' = IF \E q \in Requests : roots[q] \in UnfinishedRoot
                THEN ServiceOff ELSE [service EXCEPT !.pc = "idle"]
  /\ Quiet

\* The worker picks the request up: not if it was cancelled or needs recovery.
Start ==
  /\ At("queued")
  /\ IF service.cancel \/ service.stop \/ service.blocked \/ ~InMemory
        \/ roots[Request] # "none"
     THEN Rest /\ UNCHANGED roots
     ELSE roots' = [roots EXCEPT ![Request] = "planning"] /\ Step("admitting")
  /\ UNCHANGED <<policyVars, turn, journal, providerVars>>
  /\ ServiceOnly

Admit ==
  /\ At("admitting")
  /\ IF CanReserveRoot(Request)
     THEN ReserveRoot(Request) /\ Step("validating") /\ UNCHANGED <<allowance, roots>>
     ELSE roots' = [roots EXCEPT ![Request] = "denied"] /\ Rest /\ UNCHANGED policyVars
  /\ UNCHANGED <<turn, journal, providerVars>>
  /\ ServiceOnly

\* scrub_context: the runtime's stored texts go and its guard is set.
ScrubContext ==
  /\ turn' = WithoutText
  /\ journal' = [journal EXCEPT !.blocked = TRUE]

ValidateTurn ==
  /\ At("validating")
  /\ IF InMemory
     THEN Step("recording") /\ UNCHANGED <<turn, journal>>
     ELSE ScrubContext /\ Finishing("unknown")
  /\ UNCHANGED <<policyVars, roots, providerVars>>
  /\ ServiceOnly

\* The prompt is stored under the memory's epoch fence.
RecordTurn ==
  /\ At("recording")
  /\ IF InMemory
     THEN /\ turn' = [turn EXCEPT ![Request][Role] = [state |-> "reserved", text |-> service.epoch]]
          /\ Step("claiming")
     ELSE Finishing("unknown") /\ UNCHANGED turn
  /\ UNCHANGED <<policyVars, journal, roots, providerVars>>
  /\ ServiceOnly

\* The root admits its own child: nothing else spends it, and its deadline is
\* judged by the time the request was taken up.
ClaimTurn ==
  /\ At("claiming")
  /\ CanReserveChild(Request, Role, FALSE)
  /\ ReserveChild(Request, Role)
  /\ Step("dispatching")
  /\ UNCHANGED <<allowance, calls, journalVars, providerVars>>
  /\ ServiceOnly

\* Fault: the fence is taken without comparing the epoch.
FenceBlindly ==
  /\ At("dispatching")
  /\ Step("fenced")
  /\ UNCHANGED <<policyVars, journalVars, providerVars>>
  /\ ServiceOnly

\* The memory is held for the handshake, or has moved on.
FenceDispatch ==
  /\ At("dispatching")
  /\ IF InMemory
     THEN Step("fenced") /\ UNCHANGED policyVars
     ELSE /\ CanRelease(Request, Role)
          /\ Release(Request, Role)
          /\ Step("withdrawn")
          /\ UNCHANGED <<allowance, calls>>
  /\ UNCHANGED <<journalVars, providerVars>>
  /\ ServiceOnly

Withdraw ==
  /\ At("withdrawn")
  /\ turn' = [WithoutText EXCEPT ![Request][Role].state = "denied"]
  /\ journal' = [journal EXCEPT !.blocked = TRUE]
  /\ Finishing("unknown")
  /\ UNCHANGED <<policyVars, roots, providerVars>>
  /\ ServiceOnly

Dispatch ==
  /\ At("fenced")
  /\ CanMarkDispatched(Request, Role, FALSE)
  /\ MarkDispatched(Request, Role)
  /\ Step("sending")
  /\ UNCHANGED <<allowance, calls, journalVars, providerVars>>
  /\ ServiceOnly

\* Fault: a lost answer is retried.
SendRetries ==
  /\ At("sending")
  /\ CanSend(Request, Role, Request \in lapsed)
  /\ ~service.cancel /\ ~service.stop
  /\ sent' = [sent EXCEPT ![Request][Role] = @ + 1]
  /\ seen' = seen \cup {<<service.thread, service.epoch>>}
  /\ live' = live \cup {<<service.thread, Request, Role>>}
  /\ \E pc \in {"accepted", "sending"} : Step(pc)
  /\ UNCHANGED <<policyVars, journalVars, threads>>
  /\ ServiceOnly

\* The provider takes the prompt; its answer may be lost.
Send ==
  /\ At("sending")
  /\ CanSend(Request, Role, Request \in lapsed)
  /\ ~service.cancel /\ ~service.stop
  /\ sent' = [sent EXCEPT ![Request][Role] = @ + 1]
  /\ seen' = seen \cup {<<service.thread, service.epoch>>}
  /\ live' = live \cup {<<service.thread, Request, Role>>}
  /\ \E pc \in {"accepted", "uncertain"} : Step(pc)
  /\ UNCHANGED <<policyVars, journalVars, threads>>
  /\ ServiceOnly

\* Cancelled, past the deadline, or refused by the provider or its transport.
SendFails ==
  /\ At("sending")
  /\ Step("uncertain")
  /\ Quiet

Accepted ==
  /\ At("accepted")
  /\ SetTurn("in_flight")
  /\ Step("running")
  /\ UNCHANGED <<policyVars, journal, roots, providerVars>>
  /\ ServiceOnly

\* Fault: an accepted interrupt is taken for the end of the turn.
CancelConfirmed ==
  /\ At("running")
  /\ service.cancel \/ service.stop
  /\ service' = [service EXCEPT !.pc = "settling", !.outcome = "failed", !.cancel = FALSE]
  /\ Quiet

\* cancel_active: an interrupt never confirms, so delivery stays unknown.
CancelTurn ==
  /\ At("running")
  /\ service.cancel \/ service.stop
  /\ service' = [service EXCEPT !.pc = "uncertain", !.cancel = FALSE]
  /\ Quiet

\* The coordinator's check for a forget, then the turn's deadline.
Poll ==
  /\ At("running")
  /\ ~service.cancel /\ ~service.stop
  /\ IF ~InMemory THEN Finishing("unknown")
     ELSE IF Request \in lapsed
          THEN service' = [service EXCEPT !.pc = "uncertain", !.wipe = TRUE]
          ELSE Step("polling")
  /\ Quiet

\* Nothing new, or a transport or protocol error.
PollProvider ==
  /\ At("polling")
  /\ InMemory
  /\ \E pc \in {"running", "uncertain"} : Step(pc)
  /\ Quiet

TurnFails ==
  /\ At("polling")
  /\ InMemory
  /\ live' = live \ {<<service.thread, Request, Role>>}
  /\ service' = [service EXCEPT !.pc = "settling", !.outcome = "failed"]
  /\ UNCHANGED <<policyVars, journalVars, threads, seen, sent>>
  /\ ServiceOnly

TurnCompletes ==
  /\ At("polling")
  /\ InMemory
  /\ live' = live \ {<<service.thread, Request, Role>>}
  /\ Step("answering")
  /\ UNCHANGED <<policyVars, journalVars, threads, seen, sent>>
  /\ ServiceOnly

\* Before or after the provider is asked, a forget fences its answer.
PollForgotten ==
  /\ At("polling")
  /\ ~InMemory
  /\ ScrubContext
  /\ Step("uncertain")
  /\ UNCHANGED <<policyVars, roots, providerVars>>
  /\ ServiceOnly

\* The answer is kept in memory; after a forget its source is gone, or the
\* commit is refused and the turn is left in flight.
CommitAnswer ==
  /\ At("answering")
  /\ IF InMemory
     THEN service' = [service EXCEPT !.pc = "settling", !.outcome = "completed"]
     ELSE Step("uncertain") \/ Finishing("unknown")
  /\ Quiet

SettleTurn ==
  /\ At("settling")
  /\ CanRecord(Request, Role)
  /\ RecordOutcome(Request, Role, service.outcome)
  /\ Step("publishing")
  /\ UNCHANGED <<allowance, calls, journalVars, providerVars>>
  /\ ServiceOnly

\* Fault: the reply is stored without the fence.
PublishUnfenced ==
  /\ At("publishing")
  /\ turn' = [turn EXCEPT ![Request][Role] = [state |-> service.outcome, text |-> service.epoch]]
  /\ Step("replied")
  /\ UNCHANGED <<policyVars, journal, roots, providerVars>>
  /\ ServiceOnly

\* The reply is stored under the memory's epoch fence.
PublishReply ==
  /\ At("publishing")
  /\ IF InMemory
     THEN /\ turn' = [turn EXCEPT ![Request][Role] =
                        [state |-> service.outcome, text |-> service.epoch]]
          /\ Step("replied")
          /\ UNCHANGED journal
     ELSE /\ turn' = [WithoutText EXCEPT ![Request][Role].state = "unknown"]
          /\ journal' = [journal EXCEPT !.blocked = TRUE]
          /\ Finishing("unknown")
  /\ UNCHANGED <<policyVars, roots, providerVars>>
  /\ ServiceOnly

\* An answer, or a proposal to investigate that asks for a final synthesis.
Conclude ==
  /\ At("replied")
  /\ Finishing(service.outcome)
  /\ Quiet

AcceptProposal ==
  /\ At("replied")
  /\ Role = "main" /\ service.outcome = "completed"
  /\ IF CanExtendRoot(Request, FALSE)
     THEN /\ ExtendRoot(Request)
          /\ service' = [service EXCEPT !.pc = "validating", !.role = "synthesis"]
     ELSE Finishing("unknown") /\ UNCHANGED calls
  /\ UNCHANGED <<allowance, reservation, journalVars, providerVars>>
  /\ ServiceOnly

SettleUnknown ==
  /\ At("uncertain")
  /\ CanRecord(Request, Role)
  /\ RecordOutcome(Request, Role, "unknown")
  /\ Step("unsure")
  /\ UNCHANGED <<allowance, calls, journalVars, providerVars>>
  /\ ServiceOnly

RecordUnknown ==
  /\ At("unsure")
  /\ turn' = [turn EXCEPT ![Request][Role] =
                [state |-> "unknown", text |-> IF service.wipe THEN None ELSE @.text]]
  /\ Finishing("unknown")
  /\ UNCHANGED <<policyVars, journal, roots, providerVars>>
  /\ ServiceOnly

\* finish: the root is settled, then the investigation closed.
SettleRoot ==
  /\ At("finishing")
  /\ CanRecord(Request, "root")
  /\ RecordOutcome(Request, "root", service.outcome)
  /\ service' = [service EXCEPT !.pc = "closing",
                                !.blocked = @ \/ service.outcome = "unknown"]
  /\ UNCHANGED <<allowance, calls, journalVars, providerVars>>
  /\ ServiceOnly

CloseRoot ==
  /\ At("closing")
  /\ roots' = [roots EXCEPT ![Request] = service.outcome]
  /\ Rest
  /\ UNCHANGED <<policyVars, turn, journal, providerVars>>
  /\ ServiceOnly

Stop ==
  /\ At("idle")
  /\ service.stop
  /\ service' = ServiceOff
  /\ Quiet

\* An opening fails: no transport, no database, another thread answered.
OpeningFails ==
  /\ service.pc \in Opening
  /\ service' = ServiceOff
  /\ Quiet

ServiceNext ==
  \/ Bind \/ RestoreState \/ StartOrResume \/ Coordinate \/ OpeningFails
  \/ Start \/ Admit \/ ValidateTurn \/ RecordTurn \/ ClaimTurn
  \/ FenceDispatch \/ Withdraw \/ Dispatch \/ Send \/ SendFails \/ Accepted
  \/ CancelTurn \/ Poll \/ PollProvider \/ TurnFails \/ TurnCompletes \/ PollForgotten
  \/ CommitAnswer \/ SettleTurn \/ PublishReply \/ Conclude \/ AcceptProposal
  \/ SettleUnknown \/ RecordUnknown \/ SettleRoot \/ CloseRoot \/ Stop

-----------------------------------------------------------------------------
(* The recovery thread shuts the old service down, joins it, and then        *)
(* retires every call whose outcome the journals leave open.                 *)
RecoveryAt(pc) == recovery.pc = pc
RecoveryStep(pc) == recovery' = [recovery EXCEPT !.pc = pc]
RecoveryOnly == UNCHANGED <<allowance, calls, epoch, marker, contextBlocked, board, host, lapsed,
                            providerVars, recoveries>>

\* Fault: the old service is cancelled but not told to stop.
DropCancelling ==
  /\ RecoveryAt("dropping")
  /\ service' = IF service.pc = "off" THEN service ELSE [service EXCEPT !.cancel = TRUE]
  /\ RecoveryStep("joining")
  /\ UNCHANGED <<reservation, journalVars, intent, crashes>>
  /\ RecoveryOnly

DropSession ==
  /\ RecoveryAt("dropping")
  /\ service' = IF service.pc = "off" THEN service
                ELSE [service EXCEPT !.stop = TRUE, !.cancel = TRUE]
  /\ RecoveryStep("joining")
  /\ UNCHANGED <<reservation, journalVars, intent, crashes>>
  /\ RecoveryOnly

Join ==
  /\ RecoveryAt("joining")
  /\ service.pc = "off"
  /\ RecoveryStep("quarantine")
  /\ UNCHANGED <<reservation, journalVars, intent, service, crashes>>
  /\ RecoveryOnly

\* Fault: unfinished investigations are not collected.
OpenTurns ==
  {claim \in Requests \X Children : turn[claim[1]][claim[2]].state \in UnresolvedTurn}

OpenClaims ==
  {claim \in Requests \X Children : turn[claim[1]][claim[2]].state \in UnresolvedTurn}
    \cup {claim \in Requests \X {"root"} : roots[claim[1]] \in UnfinishedRoot}

Quarantine ==
  /\ RecoveryAt("quarantine")
  /\ journal' = [journal EXCEPT !.blocked = TRUE]
  /\ recovery' = [recovery EXCEPT !.pc = "settling", !.ids = OpenClaims]
  /\ UNCHANGED <<reservation, turn, roots, intent, service, crashes>>
  /\ RecoveryOnly

\* Fault: an abandoned claim is refunded.
RefundClaim ==
  /\ RecoveryAt("settling")
  /\ \E claim \in recovery.ids :
       /\ recovery' = [recovery EXCEPT !.ids = @ \ {claim}]
       /\ IF CanRecord(claim[1], claim[2])
          THEN RecordOutcome(claim[1], claim[2], "released")
          ELSE UNCHANGED reservation
  /\ UNCHANGED <<journalVars, intent, service, crashes>>
  /\ RecoveryOnly

\* A claim becomes unknown, and stays charged.
SettleClaim ==
  /\ RecoveryAt("settling")
  /\ \E claim \in recovery.ids :
       /\ recovery' = [recovery EXCEPT !.ids = @ \ {claim}]
       /\ IF CanRecord(claim[1], claim[2])
          THEN RecordOutcome(claim[1], claim[2], "unknown")
          ELSE UNCHANGED reservation
  /\ UNCHANGED <<journalVars, intent, service, crashes>>
  /\ RecoveryOnly

\* Fault: the provider thread survives recovery.
RetireKeepingThread ==
  /\ RecoveryAt("settling")
  /\ recovery.ids = {}
  /\ turn' = [q \in Requests |-> [c \in Children |->
                [state |-> IF turn[q][c].state \in UnresolvedTurn THEN "abandoned"
                           ELSE turn[q][c].state,
                 text |-> None]]]
  /\ journal' = [journal EXCEPT !.epoch = recovery.epoch]
  /\ RecoveryStep("retire_roots")
  /\ UNCHANGED <<reservation, roots, intent, service, crashes>>
  /\ RecoveryOnly

\* Nothing of the old context is kept, its provider thread included.
RetireRuntime ==
  /\ RecoveryAt("settling")
  /\ recovery.ids = {}
  /\ turn' = [q \in Requests |-> [c \in Children |->
                [state |-> IF turn[q][c].state \in UnresolvedTurn THEN "abandoned"
                           ELSE turn[q][c].state,
                 text |-> None]]]
  /\ journal' = [blocked |-> TRUE, epoch |-> recovery.epoch, thread |-> None]
  /\ RecoveryStep("retire_roots")
  /\ UNCHANGED <<reservation, roots, intent, service, crashes>>
  /\ RecoveryOnly

RetireInvestigations ==
  /\ RecoveryAt("retire_roots")
  /\ roots' = [q \in Requests |-> IF roots[q] \in UnfinishedRoot THEN "abandoned" ELSE roots[q]]
  /\ RecoveryStep("unblocking")
  /\ UNCHANGED <<reservation, turn, journal, intent, service, crashes>>
  /\ RecoveryOnly

Unblock ==
  /\ RecoveryAt("unblocking")
  /\ journal' = [journal EXCEPT !.blocked = FALSE]
  /\ RecoveryStep("completing")
  /\ UNCHANGED <<reservation, turn, roots, intent, service, crashes>>
  /\ RecoveryOnly

CompleteIntent ==
  /\ RecoveryAt("completing")
  /\ intent' = FALSE
  /\ RecoveryStep("completed")
  /\ UNCHANGED <<reservation, journalVars, service, crashes>>
  /\ RecoveryOnly

\* A database error ends recovery with its intent still open.
RecoveryFails ==
  /\ recovery.pc \in {"quarantine", "settling", "retire_roots", "unblocking", "completing"}
  /\ crashes < MaxCrashes
  /\ crashes' = crashes + 1
  /\ recovery' = RecoveryOff
  /\ UNCHANGED <<reservation, journalVars, intent, service>>
  /\ RecoveryOnly

RecoveryStepsOn ==
  \/ DropSession \/ Join \/ Quarantine \/ SettleClaim \/ RetireRuntime
  \/ RetireInvestigations \/ Unblock \/ CompleteIntent

-----------------------------------------------------------------------------
(* The environment.                                                          *)
Crash ==
  /\ host.pc # "down"
  /\ crashes < MaxCrashes
  /\ crashes' = crashes + 1
  /\ host' = Host("down")
  /\ service' = ServiceOff
  /\ recovery' = RecoveryOff
  /\ UNCHANGED <<policyVars, journalVars, memoryVars, lapsed, providerVars, recoveries>>

Expire(q) ==
  /\ q \notin lapsed
  /\ reservation[q]["root"] = "reserved"
  /\ lapsed' = lapsed \cup {q}
  /\ UNCHANGED <<policyVars, journalVars, memoryVars, host, service, recovery, providerVars,
                 boundVars>>

Next ==
  \/ HostNext
  \/ ServiceNext
  \/ RecoveryStepsOn \/ RecoveryFails
  \/ Crash
  \/ \E q \in Requests : Expire(q)

Spec == Init /\ [][Next]_vars

\* The threads keep running, and a host that has begun a forget or a revocation,
\* can see a completed recovery or is down goes on.  No request need ever come.
HostGoesOn ==
  \/ ForgetRecord \/ TickRevocation \/ RevokeScope \/ DeleteRevocation \/ CancelWork
  \/ ScrubTurns \/ ScrubRoots \/ ScrubControl \/ Mark \/ Recovered \/ Restart

FairSpec == Spec /\ WF_vars(ServiceNext) /\ WF_vars(RecoveryStepsOn) /\ WF_vars(HostGoesOn)

-----------------------------------------------------------------------------
TurnStates == UnresolvedTurn \cup {"none", "denied", "completed", "failed", "abandoned"}
RootStates == UnfinishedRoot \cup {"none", "denied", "completed", "failed", "abandoned"}
Epochs == 0..(MaxForgets + 1)
ServiceSteps ==
  Opening \cup
  {"off", "idle", "queued", "admitting", "validating", "recording", "claiming", "dispatching",
   "withdrawn", "fenced", "sending", "accepted", "running", "polling", "answering", "settling",
   "publishing", "replied", "uncertain", "unsure", "finishing", "closing"}
RecoverySteps ==
  {"idle", "dropping", "joining", "quarantine", "settling", "retire_roots", "unblocking",
   "completing", "completed"}

\* The type of every variable: the states each table and each thread can be in.
TurnTypeOK ==
  /\ allowance \in Budgets \cup {0}
  /\ reservation \in [Requests -> [Roles -> ReservationStates]]
  /\ calls \in [Requests -> 0..2]
  /\ epoch \in Epochs /\ marker \in Epochs
  /\ \A q \in Requests, c \in Children :
       turn[q][c].state \in TurnStates /\ turn[q][c].text \in Epochs \cup {None}
  /\ journal.blocked \in BOOLEAN /\ journal.epoch \in Epochs
  /\ journal.thread \in 1..threads \cup {None}
  /\ roots \in [Requests -> RootStates]
  /\ {contextBlocked, intent} \subseteq BOOLEAN
  /\ board \in {"private", "shared", "revoking", "fenced"}
  /\ service \in
       [pc : ServiceSteps, calls : Budgets \cup {0}, thread : 1..threads \cup {None},
        epoch : Epochs, request : Requests \cup {None}, role : Children, outcome : Verdicts,
        wipe : BOOLEAN, blocked : BOOLEAN, cancel : BOOLEAN, stop : BOOLEAN,
        asked : SUBSET Requests]
  /\ recovery \in [pc : RecoverySteps, epoch : Epochs, ids : SUBSET (Requests \X Roles)]
  /\ lapsed \subseteq Requests
  /\ live \subseteq (1..threads) \X Requests \X Children
  /\ seen \subseteq (1..threads) \X Epochs
  /\ \A q \in Requests, c \in Children : sent[q][c] \in Nat

\* No turn is ever sent twice, whatever answer is lost, whatever crashes and
\* however often its request is made again: the journals refuse a second try.
AtMostOnce == \A q \in Requests, c \in Children : sent[q][c] <= 1

\* Everything ever sent.
AllSent == MapThenSumSet(LAMBDA q : sent[q]["main"] + sent[q]["synthesis"], Requests)

\* A prompt goes out only while the calls sent so far, over all openings and
\* recoveries, are covered by charges, and the charges by the allowance: no
\* crash and no recovery refunds a call that may have been made.
SendsCharged ==
  [][sent' # sent => AllSent' <= Charged' /\ Charged' <= allowance']_vars

\* What occupies the ledger is always findable: a claimed child has an
\* unresolved turn, a claimed root an unfinished investigation.  Recovery
\* collects only those; a claim without one would hold its place for good.
ClaimsTracked ==
  \A q \in Requests :
    /\ reservation[q]["root"] \in Claims => roots[q] \in UnfinishedRoot
    /\ \A c \in Children : reservation[q][c] \in Claims => turn[q][c].state \in UnresolvedTurn

\* Recovery can find every claim, and when it has lifted the guard, nothing of
\* the old work is left to refuse the next opening or to occupy the ledger, and
\* the journal is at the memory's epoch, whatever crash or failed recovery came
\* before.
RecoveryClears ==
  /\ ClaimsTracked
  /\ recovery.pc = "completing" =>
       /\ OpenClaims = {}
       /\ \A q \in Requests, r \in Roles : reservation[q][r] \notin Claims
       /\ ~journal.blocked /\ journal.thread = None /\ journal.epoch = epoch

\* A provider thread is shown one memory only: what was sent before a forget
\* is never in the context of a prompt sent after it.
ThreadHoldsOneMemory ==
  \A x, y \in seen : x[1] = y[1] => x[2] = y[2]

\* A thread never has two turns running: after a cancellation, a lost answer
\* or a crash the next prompt goes to another thread.
NoOverlapInThread ==
  \A x, y \in live : x[1] = y[1] => x = y

\* No prompt built before a forget is sent once the forget has happened.
SendsUnderCurrentMemory ==
  [][\A s \in seen' \ seen : s[2] = epoch]_vars

\* Once retention has marked an epoch done, no text from before that forget is
\* in the journal, however the service's writes raced it.
ForgottenTextGone ==
  marker = epoch =>
    \A q \in Requests, c \in Children : turn[q][c].text # None => turn[q][c].text >= epoch

\* With no fault to come, fresh context is completed: the service, whatever it
\* was doing, stops and is joined.
RecoveryCompletes ==
  (recovery.pc = "dropping" /\ crashes = MaxCrashes) ~> recovery.pc = "completed"
=============================================================================
