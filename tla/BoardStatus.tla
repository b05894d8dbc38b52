----------------------------- MODULE BoardStatus -----------------------------
(***************************************************************************)
(* What the board says about one watched conversation.  Providers announce *)
(* their turns through hooks (hooks.rs), the pane wrapper reports exits,   *)
(* reconciliation observes processes and provider records (core.rs), and   *)
(* the user acknowledges results (store.rs acknowledge_attention).  All of *)
(* them write status observations and project a row from them (status.rs), *)
(* each in one IMMEDIATE transaction, based on what they saw earlier: a    *)
(* hook carries the time it started, a reconciliation a process snapshot,  *)
(* an acknowledgement the event the user was shown.                        *)
(*                                                                         *)
(* An ERROR row is FAILED (a failed turn) or EXITED (a provider that ended *)
(* with an error code).  Every live owner is found, through its argv or    *)
(* its lease; "Rivals" lets a second one appear.  A lifecycle observation  *)
(* exists from the first upsert of the row on.                             *)
(***************************************************************************)
EXTENDS Naturals, FiniteSets

CONSTANTS
  Owners,      \* process generations that may own the conversation
  Rivals,      \* whether two of them may be alive at once
  Readings,    \* when the provider's own turn record is read: "never",
               \* "newer" than the row, "always"
  MaxTime,     \* bound on the wall clock
  MaxFlight,   \* bound on hook and exit processes in flight
  None

ASSUME BoardConstants ==
  /\ Rivals \in BOOLEAN
  /\ Readings \subseteq {"never", "newer", "always"}
  /\ MaxTime \in Nat /\ MaxFlight \in Nat

VARIABLES
  clock,
  proc,       \* each owner: "new", "live" or "gone"
  turn,       \* where the conversation really is, since when, by whom
  record,     \* the provider's own record of it, and when it is read
  attached,   \* a terminal client is looking at the pane
  flight,     \* hook and exit processes that have yet to commit
  leases,     \* live_owners: last_seen of each owner
  recovery,   \* recovery_owners: the certified owner
  obs,        \* session_status_observations, one row per kind
  row,        \* the sessions row
  scan,       \* a reconciliation between its snapshot and its commit
  viewer,     \* last_event_at of the row the user is acting on
  delivered,  \* history: a hook has announced the current turn
  overruled,  \* history: a rival's end has replaced what was announced
  noticed,    \* history: the user has looked since the turn changed
  acked       \* history: the event the user acknowledged last

providerVars == <<proc, turn, record>>
ledgerVars == <<leases, recovery, obs, row>>
announced == <<delivered, overruled>>
vars == <<clock, providerVars, attached, flight, ledgerVars, scan, viewer,
          announced, noticed, acked>>

Times == 0..MaxTime
Kinds == {"safety", "runtime", "lifecycle"}
Unfinished == {"NEEDS_YOU", "READY", "FAILED"}
Statuses == Unfinished \union {"WORKING", "EXITED", "OPEN_TWICE", "PARKED"}
Observation(status, unread, at) == [status |-> status, unread |-> unread, at |-> at]
Observations == [status : Statuses, unread : BOOLEAN, at : Times]
Rows == [status : Statuses, unread : BOOLEAN, event : Times, activity : Times]
Records == [status : {"WORKING", "READY", None}, at : Times, read : Readings]
Snapshots ==
  [row : Rows, live : SUBSET Owners, attached : BOOLEAN, candidate : Records \union {None},
   fresh : BOOLEAN]

ASSUME AbsentConstant ==
  /\ None \notin Owners /\ None \notin Times /\ None \notin Statuses
  /\ None \notin Observations /\ None \notin Records /\ None \notin Snapshots

Later(a, b) == IF a >= b THEN a ELSE b

Live == {o \in Owners : proc[o] = "live"}
HasLease(l) == \E o \in Owners : l[o] # None

NoRecord(reading) == [status |-> None, at |-> 0, read |-> reading]

Init ==
  /\ clock = 0
  /\ proc = [o \in Owners |-> "new"]
  /\ turn = [status |-> "IDLE", at |-> 0, by |-> None]
  /\ record \in {NoRecord(reading) : reading \in Readings}
  /\ attached = FALSE
  /\ flight = {}
  /\ leases = [o \in Owners |-> None]
  /\ recovery = None
  /\ obs = [k \in Kinds |-> IF k = "lifecycle" THEN Observation("PARKED", FALSE, 0)
                                               ELSE None]
  /\ row = [status |-> "PARKED", unread |-> FALSE, event |-> 0, activity |-> 0]
  /\ scan = None
  /\ viewer = None
  /\ delivered = FALSE
  /\ overruled = FALSE
  /\ noticed = TRUE
  /\ acked = None

-----------------------------------------------------------------------------
(* Observations and projection.                                            *)

\* The upsert keeps the newer observation of a kind.
Recorded(ob, kind, new) ==
  IF ob[kind] = None \/ new.at >= ob[kind].at THEN [ob EXCEPT ![kind] = new] ELSE ob

Cleared(ob, kind) == [ob EXCEPT ![kind] = None]

ClearedThrough(ob, kind, at) ==
  IF ob[kind] # None /\ ob[kind].at <= at THEN Cleared(ob, kind) ELSE ob

\* Fault: a turn counts as running until a hook says otherwise.
StandsAlone(turnOb, live) ==
  \/ turnOb.status \in {"NEEDS_YOU", "FAILED", "EXITED", "WORKING"}
  \/ turnOb.status = "READY" /\ (live \/ turnOb.unread)

\* Whether lifecycle evidence is shown as it is; otherwise the row is parked.
Stands(turnOb, live) ==
  \/ turnOb.status \in {"NEEDS_YOU", "FAILED", "EXITED"}
  \/ turnOb.status = "WORKING" /\ live
  \/ turnOb.status = "READY" /\ (live \/ turnOb.unread)

\* status.rs project_status: safety before runtime failure before lifecycle.
Project(ob, live) ==
  LET turnOb == ob["lifecycle"] IN
  IF ob["safety"] # None THEN ob["safety"]
  ELSE IF ob["runtime"] # None /\ ~live THEN ob["runtime"]
  ELSE IF Stands(turnOb, live) THEN turnOb
  ELSE Observation("PARKED", FALSE, turnOb.at)

\* INSERT OR IGNORE of the row's own status as initial evidence.
InitialKind(status) ==
  IF status = "OPEN_TWICE" THEN "safety"
  ELSE IF status = "EXITED" THEN "runtime" ELSE "lifecycle"

\* Fault: the row is replaced and loses the time of its last activity.
UpsertReplacing(ob, live, activity) ==
  LET shown == Project(ob, live) IN
  /\ row' = [status |-> shown.status, unread |-> shown.unread, event |-> shown.at]
  /\ obs' = ob

\* upsert_session of a row projected from ob; times never go back.
Upsert(ob, live, activity) ==
  LET shown == Project(ob, live)
      kind == InitialKind(shown.status)
      event == Later(row.event, shown.at)
  IN
  /\ row' = [status |-> shown.status, unread |-> shown.unread, event |-> event,
             activity |-> Later(row.activity, activity)]
  /\ obs' = IF ob[kind] = None THEN [ob EXCEPT ![kind] = shown] ELSE ob

\* A commit of another connection moves PRAGMA data_version.
Committed == scan' = IF scan = None THEN None ELSE [scan EXCEPT !.fresh = FALSE]

-----------------------------------------------------------------------------
(* The provider.  It waits for the hooks of its turn boundaries; hooks of  *)
(* tool calls may be late.                                                 *)

Callbacks == {"exit", "crash"}
HookEvents == Unfinished \union {"start", "prompt", "tool", "end"}

Waited(o) == \A h \in flight : h.owner = o => h.event = "tool"

Sent(o, event, at) == [owner |-> o, event |-> event, at |-> at, attached |-> attached]

Announce(o, event) ==
  /\ clock < MaxTime
  /\ Cardinality(flight) < MaxFlight
  /\ clock' = clock + 1
  /\ flight' = flight \union {Sent(o, event, clock + 1)}

NewTurn(o, status, looked) ==
  /\ turn' = [status |-> status, at |-> clock + 1, by |-> o]
  /\ noticed' = looked
  /\ delivered' = FALSE /\ overruled' = FALSE

Recording(status) ==
  record' = IF record.read = "never" THEN record
            ELSE [record EXCEPT !.status = status, !.at = clock + 1]

StartProvider(o) ==
  /\ proc[o] = "new"
  /\ Live = {} \/ Rivals
  /\ Announce(o, "start")
  /\ proc' = [proc EXCEPT ![o] = "live"]
  /\ NewTurn(o, "IDLE", TRUE)
  /\ UNCHANGED <<record, attached, ledgerVars, scan, viewer, acked>>

\* The user's prompt, or the answer to a question.
BeginTurn(o) ==
  /\ o \in Live /\ Waited(o)
  /\ Announce(o, "prompt")
  /\ NewTurn(o, "WORKING", TRUE)
  /\ Recording("WORKING")
  /\ UNCHANGED <<proc, attached, ledgerVars, scan, viewer, acked>>

EndTurn(o, result) ==
  /\ o \in Live /\ Waited(o)
  /\ turn.status = "WORKING" /\ turn.by = o
  /\ Announce(o, result)
  /\ NewTurn(o, result, attached)
  /\ Recording(IF result = "NEEDS_YOU" THEN "WORKING" ELSE "READY")
  /\ UNCHANGED <<proc, attached, ledgerVars, scan, viewer, acked>>

UseTool(o) ==
  /\ o \in Live
  /\ turn.status = "WORKING" /\ turn.by = o
  /\ Announce(o, "tool")
  /\ UNCHANGED <<providerVars, attached, ledgerVars, scan, viewer, announced,
                 noticed, acked>>

\* An unfinished turn ends with the process that was at it.
Leaves(o) ==
  /\ o \in Live
  /\ proc' = [proc EXCEPT ![o] = "gone"]
  /\ turn' = IF turn.status = "WORKING" /\ turn.by = o
             THEN [turn EXCEPT !.status = "IDLE"] ELSE turn
  /\ UNCHANGED <<record, attached, ledgerVars, scan, viewer, announced, noticed, acked>>

\* SessionEnd, then the wrapper's callback with status 0 or 130.
Quit(o) ==
  /\ Leaves(o) /\ Waited(o)
  /\ clock + 2 <= MaxTime
  /\ Cardinality(flight) + 2 <= MaxFlight
  /\ clock' = clock + 2
  /\ flight' = flight \union {Sent(o, "end", clock + 1), Sent(o, "exit", clock + 2)}

Crash(o) == Leaves(o) /\ Announce(o, "crash")

\* The terminal is closed: no callback runs.
Kill(o) == Leaves(o) /\ UNCHANGED <<clock, flight>>

LoseCallback(h) ==
  /\ flight' = flight \ {h}
  /\ UNCHANGED <<clock, providerVars, attached, ledgerVars, scan, viewer,
                 announced, noticed, acked>>

-----------------------------------------------------------------------------
(* Hook and exit transactions.                                             *)

EventStatus(event) ==
  CASE event = "start" -> "READY"
    [] event \in {"prompt", "tool"} -> "WORKING"
    [] event = "end" -> "PARKED"
    [] OTHER -> event

Announced(h) ==
  Observation(EventStatus(h.event),
              h.event \in Unfinished /\ ~(h.event = "READY" /\ h.attached), h.at)

\* Fault: the end of a session parks its row, read or not.
KeptNever == FALSE

\* preserve_unread_on_session_end: identity safety is never copied.
KeptUnread == row.unread /\ row.status # "OPEN_TWICE"

HookObservation(h) ==
  IF h.event = "end" /\ KeptUnread THEN Observation(row.status, TRUE, row.event)
                                   ELSE Announced(h)

UpdatedLeases(h) ==
  IF h.event = "end"
  THEN IF leases[h.owner] # None /\ leases[h.owner] <= h.at
       THEN [leases EXCEPT ![h.owner] = None] ELSE leases
  ELSE IF leases[h.owner] = None \/ leases[h.owner] <= h.at
       THEN [leases EXCEPT ![h.owner] = h.at] ELSE leases

\* The end of a rival, or one that the warning of two owners hides, replaces what
\* the turn has announced or will.
Overrules(h) ==
  /\ h.event \in {"end", "exit"}
  /\ h.owner # turn.by \/ row.status = "OPEN_TWICE"
  /\ obs'["lifecycle"] # obs["lifecycle"] /\ obs'["lifecycle"].at > turn.at
  /\ turn.status = "WORKING" \/ ~obs'["lifecycle"].unread

HandleHook(h) ==
  LET lifecycle == Recorded(obs, "lifecycle", HookObservation(h))
      evidence == IF h.event = "end" THEN lifecycle
                  ELSE ClearedThrough(lifecycle, "runtime", h.at)
  IN
  /\ h.event \in HookEvents
  /\ flight' = flight \ {h}
  /\ leases' = UpdatedLeases(h)
  /\ recovery' = IF h.event = "start" THEN h.owner ELSE recovery
  /\ Upsert(evidence, h.event # "end" \/ HasLease(leases'), h.at)
  /\ delivered' = (delivered \/ h.at = turn.at)
  /\ overruled' = (overruled \/ Overrules(h))
  /\ Committed
  /\ UNCHANGED <<clock, providerVars, attached, viewer, noticed, acked>>

\* Only the lease or the recovery proof of this very owner gives authority.
ExitAuthority(h) == leases[h.owner] # None \/ recovery = h.owner

ExitEvidence(h) ==
  IF h.event = "crash" THEN Recorded(obs, "runtime", Observation("EXITED", TRUE, h.at))
  ELSE IF row.unread THEN obs
  ELSE Recorded(Cleared(obs, "runtime"), "lifecycle", Observation("PARKED", FALSE, h.at))

HandleProcessExit(h) ==
  /\ h.event \in Callbacks
  /\ flight' = flight \ {h}
  /\ IF ExitAuthority(h)
     THEN /\ leases' = [leases EXCEPT ![h.owner] = None]
          /\ recovery' = IF recovery = h.owner THEN None ELSE recovery
          /\ IF HasLease(leases') THEN UNCHANGED <<row, obs>>
                                  ELSE Upsert(ExitEvidence(h), FALSE, h.at)
          /\ overruled' = (overruled \/ Overrules(h))
          /\ Committed
     ELSE UNCHANGED <<ledgerVars, scan, overruled>>
  /\ UNCHANGED <<clock, providerVars, attached, viewer, delivered, noticed, acked>>

-----------------------------------------------------------------------------
(* Reconciliation: snapshot first, then one fenced transaction.            *)

BeginReconcile ==
  /\ scan = None
  /\ scan' = [row |-> row, live |-> Live, attached |-> attached,
              candidate |-> IF record.read = "never" THEN record ELSE None,
              fresh |-> TRUE]
  /\ UNCHANGED <<clock, providerVars, attached, flight, ledgerVars, viewer,
                 announced, noticed, acked>>

\* Fault: the record is read again although nothing is new.
HydratedAgain(since) == record

\* providers.rs reconcile_records: the candidate's lifecycle is hydrated
\* unless the cursor says that nothing is new.
Hydrated(since) ==
  IF record.read = "newer" /\ record.at <= since THEN [record EXCEPT !.status = None]
                                                 ELSE record

ReadCandidate ==
  /\ scan # None /\ scan.candidate = None
  /\ scan' = [scan EXCEPT !.candidate = Hydrated(scan.row.activity)]
  /\ UNCHANGED <<clock, providerVars, attached, flight, ledgerVars, viewer,
                 announced, noticed, acked>>

\* merge_session_candidate moves last_activity_at forward first.
CandidateEvidence(c) ==
  IF c.status = None THEN obs
  ELSE Recorded(obs, "lifecycle",
         Observation(c.status,
                     c.status = "READY" /\ c.at > scan.row.event /\ ~scan.attached,
                     Later(c.at, scan.row.activity)))

\* The wall clock stops at its bound.
Tick == IF clock < MaxTime THEN clock + 1 ELSE clock

Duplicate == Cardinality(scan.live) > 1

\* Fault: nobody takes the warning back.
WithSafetyKept(ob) ==
  IF Duplicate THEN Recorded(ob, "safety", Observation("OPEN_TWICE", TRUE, Tick)) ELSE ob

WithSafety(ob) ==
  IF Duplicate THEN Recorded(ob, "safety", Observation("OPEN_TWICE", TRUE, Tick))
               ELSE Cleared(ob, "safety")

\* Fault: a snapshot commits although the ledger has moved on.
CommitsAnyway == scan # None /\ scan.candidate # None

\* The fence: PRAGMA data_version is still that of the snapshot.
Unsuperseded == scan # None /\ scan.candidate # None /\ scan.fresh

CommitReconcile ==
  LET c == scan.candidate IN
  /\ Unsuperseded
  /\ clock' = IF Duplicate THEN Tick ELSE clock
  /\ leases' = [o \in Owners |-> IF o \in scan.live THEN leases[o] ELSE None]
  /\ recovery' = IF recovery \in scan.live THEN recovery ELSE None
  /\ Upsert(WithSafety(CandidateEvidence(c)), scan.live # {},
            Later(scan.row.activity, c.at))
  /\ scan' = None
  /\ UNCHANGED <<providerVars, attached, flight, viewer, announced, noticed, acked>>

\* Another connection committed since the snapshot: ReconcileSuperseded.
AbandonReconcile ==
  /\ scan # None /\ ~scan.fresh
  /\ scan' = None
  /\ UNCHANGED <<clock, providerVars, attached, flight, ledgerVars, viewer,
                 announced, noticed, acked>>

-----------------------------------------------------------------------------
(* The user.                                                               *)

\* A terminal client of tmux; Pika's board and peeks go through View.
Attach ==
  /\ ~attached /\ Live # {}
  /\ attached' = TRUE
  /\ noticed' = TRUE
  /\ UNCHANGED <<clock, providerVars, flight, ledgerVars, scan, viewer, announced,
                 acked>>

Detach ==
  /\ attached
  /\ attached' = FALSE
  /\ UNCHANGED <<clock, providerVars, flight, ledgerVars, scan, viewer, announced,
                 noticed, acked>>

\* The inventory the user acts on is frozen when it is shown.
View ==
  /\ row.unread /\ viewer # row.event
  /\ viewer' = row.event
  /\ UNCHANGED <<clock, providerVars, attached, flight, ledgerVars, scan,
                 announced, noticed, acked>>

\* Peeking acknowledges a READY row, a successful open an ERROR row too.
Acknowledgeable(attaching) ==
  row.status \in {"READY"} \union (IF attaching THEN {"FAILED", "EXITED"} ELSE {})

\* Fault: whatever the row shows now is acknowledged.
AllowedForAnyEvent(attaching) == row.unread /\ Acknowledgeable(attaching)

\* Compare-and-swap on the event the user was shown.
Allowed(attaching) == row.unread /\ row.event = viewer /\ Acknowledgeable(attaching)

Read(ob) ==
  IF ob # None /\ ob.unread /\ ob.at = viewer /\ ob.status = row.status
  THEN [ob EXCEPT !.unread = FALSE] ELSE ob

Acknowledge(attaching) ==
  /\ viewer # None
  /\ viewer' = None
  /\ IF Allowed(attaching)
     THEN /\ row' = [row EXCEPT !.unread = FALSE]
          /\ obs' = [k \in Kinds |-> Read(obs[k])]
          /\ acked' = viewer
          /\ noticed' = (noticed \/ attaching \/ viewer >= turn.at)
          /\ Committed
     ELSE UNCHANGED <<row, obs, acked, noticed, scan>>
  /\ UNCHANGED <<clock, providerVars, attached, flight, leases, recovery, announced>>

-----------------------------------------------------------------------------
ProviderStep(o) ==
  \/ StartProvider(o) \/ BeginTurn(o) \/ UseTool(o)
  \/ \E result \in Unfinished : EndTurn(o, result)
  \/ Quit(o) \/ Crash(o) \/ Kill(o)

CallbackStep ==
  \E h \in flight : HandleHook(h) \/ HandleProcessExit(h) \/ LoseCallback(h)

Reconcile == BeginReconcile \/ ReadCandidate \/ CommitReconcile \/ AbandonReconcile

UserStep == Attach \/ Detach \/ View \/ \E attaching \in BOOLEAN : Acknowledge(attaching)

Next == (\E o \in Owners : ProviderStep(o)) \/ CallbackStep \/ Reconcile \/ UserStep

Spec == Init /\ [][Next]_vars

\* The board reconciles every two seconds while it is open.
FairSpec == Spec /\ WF_vars(Reconcile)

-----------------------------------------------------------------------------
(* Properties.                                                             *)

\* The ledger holds rows of its schema and the lifecycle evidence stays.
BoardTypeOK ==
  /\ clock \in Times
  /\ obs \in [Kinds -> Observations \union {None}]
  /\ obs["lifecycle"] # None
  /\ row \in Rows
  /\ leases \in [Owners -> Times \union {None}]
  /\ recovery \in Owners \union {None}
  /\ Cardinality(flight) <= MaxFlight
  /\ acked \in Times \union {None}

\* What a hook has announced stays unread until the user has looked.
StaysUnread(results) ==
  delivered /\ ~noticed /\ turn.status \in results => row.unread

\* "Completed results remain unread under READY" (docs/guide.md:637).
ResultsStayUnread == StaysUnread({"READY"})

\* A question, a failure or a result that a hook announced stays unread until the
\* user has looked, unless the end of a rival, or one under the warning, has
\* replaced it: no other late hook, session end or exit callback, no stale
\* reconciliation and no acknowledgement of an older event clears it.
NoLostResult == overruled \/ StaysUnread(Unfinished)

\* A READY row the user has acknowledged is not restored to unread by a later
\* hook, exit or reconciliation without a newer event ("must project the
\* already-acknowledged fact, not restore unread from its stale session
\* snapshot", tests/hooks_contract.rs:356).
Collected == row.status = "READY" /\ ~row.unread /\ row.event = acked

AcknowledgedStaysRead ==
  [][Collected /\ row'.status = "READY" /\ row'.unread
       => row'.event > row.event]_vars

\* The stored row is what its evidence projects to, with or without a live
\* process, whichever of hook, exit, reconciliation and user wrote last; only
\* an acknowledged row may still have unread evidence.
RowProjectsEvidence ==
  \E live \in BOOLEAN :
    LET shown == Project(obs, live) IN
    /\ row.status = shown.status
    /\ row.unread => shown.unread
    /\ shown.unread /\ ~row.unread => row.event = acked

\* A turn whose hook has arrived is shown as running while its provider runs,
\* unless a rival's end has parked it: no snapshot taken before it and no late
\* callback says otherwise.
RunningTurnShown ==
  delivered /\ ~overruled /\ turn.status = "WORKING" => row.status \in {"WORKING", "OPEN_TWICE"}

\* A conversation whose provider is gone does not stay WORKING on the board,
\* although its hooks and exit callback may all be lost.
DeadStopsWorking == []<>(Live # {} \/ row.status # "WORKING")

\* The warning about two owners disappears once one of them is gone, without
\* the user's doing (core.rs:1032 clears the safety evidence).
RivalWarningEnds == []<>(Cardinality(Live) > 1 \/ row.status # "OPEN_TWICE")
=============================================================================
