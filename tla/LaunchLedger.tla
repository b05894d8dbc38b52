---------------------------- MODULE LaunchLedger ----------------------------
(***************************************************************************)
(* The launch half of Pika's SQLite ledger (src/src/store.rs): pending     *)
(* launches, the token-scoped meta rows that accompany them (phase,        *)
(* wrapper owner, exit receipt), launch bindings, recovery owners and the  *)
(* archive of retired launches.  Every action is one IMMEDIATE             *)
(* transaction, taken by whichever process gets the write lock: the        *)
(* launcher (`pika NAME`), a provider hook, the pane wrapper reporting an  *)
(* exit, a board reconciliation, `pika doctor --repair-stale`.             *)
(*                                                                         *)
(* A conversation identity stands for the pair (provider, session id).     *)
(* Tokens, wrapper owners and process generations (PID with its start      *)
(* time) are opaque.  `clock` is the wall clock of created_at/observed_at. *)
(***************************************************************************)
EXTENDS Naturals, FiniteSets

CONSTANTS
  Tokens,        \* launch tokens (UUID per launch intent)
  Sessions,      \* conversation identities
  Wrappers,      \* PIKA_OWNER_TOKEN values, one fresh UUID per launch attempt
  Generations,   \* process generations seen as a pane's root or provider
  Names,         \* display names, case folded
  NameOf,        \* the name each launch token reserves
  Intent,        \* the conversation a token was minted for, None for a new one
  Codes,         \* exit statuses a wrapper can report
  MaxTime,       \* bound on the wall clock
  None

ASSUME LedgerConstants ==
  /\ NameOf \in [Tokens -> Names]
  /\ Intent \in [Tokens -> Sessions \union {None}]
  /\ MaxTime \in Nat
  /\ None \notin Sessions \union Wrappers \union Generations

VARIABLES
  clock,      \* wall clock
  pending,    \* pending_launches, by launch token
  meta,       \* launch_phase / pending_launch_exit / pending_launch_wrapper_owner rows
  binding,    \* launch_bindings, by launch token
  recovery,   \* recovery_owners, by conversation
  owners,     \* live_owners: the wrapper tokens that hold a conversation
  known,      \* conversations that have a sessions row
  untracked,  \* untracked_sessions
  archive,    \* tokens with a retired_pending_launch row
  issued,     \* wrapper tokens handed out so far
  evidence    \* a retirement snapshot read earlier and not yet applied

ledgerVars == <<clock, pending, meta, binding, recovery, owners, known,
                untracked, archive, issued, evidence>>

Times == 0..MaxTime
Phases == {"reserved", "pane_allocated", "pane_prepared",
           "provider_starting", "provider_observed"}
StartedPhases == {"provider_starting", "provider_observed"}

\* expected_session_id is Intent[t]: a retry repeats the intent of its token.
PendingRows == [pane : BOOLEAN, root : Generations \union {None}, created : Times]
WrapperRows == [owner : Wrappers, created : Times]
\* `by` is the wrapper whose callback wrote the receipt; the code does not
\* store it, the properties use it.
Receipts == [created : Times, code : Codes, at : Times, by : Wrappers]
MetaRows == [phase : Phases \union {None}, wrapper : WrapperRows \union {None},
             receipt : Receipts \union {None}]
RecoveryRows == [generation : Generations, token : Tokens]
Snapshots == [token : Tokens, row : PendingRows, meta : MetaRows,
              binding : Sessions \union {None}]

ASSUME AbsentRow == None \notin PendingRows \union WrapperRows \union RecoveryRows

NoMeta == [phase |-> None, wrapper |-> None, receipt |-> None]

\* `saved` are the conversations the board already knows.
LedgerInit(saved) ==
  /\ clock = 0
  /\ pending = [t \in Tokens |-> None]
  /\ meta = [t \in Tokens |-> NoMeta]
  /\ binding = [t \in Tokens |-> None]
  /\ recovery = [s \in Sessions |-> None]
  /\ owners = [s \in Sessions |-> {}]
  /\ known = saved
  /\ untracked = {}
  /\ archive = {}
  /\ issued = {}
  /\ evidence = None

Tick ==
  /\ clock < MaxTime
  /\ clock' = clock + 1
  /\ UNCHANGED <<pending, meta, binding, recovery, owners, known, untracked,
                 archive, issued, evidence>>

-----------------------------------------------------------------------------
(* Pending launches.                                                       *)

HasPending(t) == pending[t] # None

\* Fault: the search sees only launches that already own a pane.
CompetesWithPane(t) ==
  \E u \in Tokens \ {t} : HasPending(u) /\ NameOf[u] = NameOf[t] /\ pending[u].pane

\* The case-insensitive name search of add_pending.
Competes(t) == \E u \in Tokens \ {t} : HasPending(u) /\ NameOf[u] = NameOf[t]

\* A retry with the same token keeps the row of the earlier attempt (COALESCE)
\* but starts over: phase reserved, no wrapper owner, no exit receipt.
AddPending(t) ==
  /\ ~Competes(t)
  /\ pending' = IF HasPending(t) THEN pending
                ELSE [pending EXCEPT ![t] =
                        [pane |-> FALSE, root |-> None, created |-> clock]]
  /\ meta' = [meta EXCEPT ![t] = [NoMeta EXCEPT !.phase = "reserved"]]
  /\ UNCHANGED <<clock, binding, recovery, owners, known, untracked, archive,
                 issued, evidence>>

\* register_launch_wrapper draws a fresh owner token; a refused registration
\* has still spent it.
RegisterWrapper(t, w) ==
  /\ w \notin issued
  /\ issued' = issued \union {w}
  /\ meta' = IF /\ HasPending(t)
                /\ meta[t].phase \in {"reserved", "pane_prepared"}
                /\ meta[t].wrapper = None
             THEN [meta EXCEPT ![t].wrapper =
                     [owner |-> w, created |-> pending[t].created]]
             ELSE meta
  /\ UNCHANGED <<clock, pending, binding, recovery, owners, known, untracked,
                 archive, evidence>>

\* Fault: the update replaces the row and loses its creation time.
FinalizePaneReplacing(t, g) ==
  /\ pending' = [pending EXCEPT ![t] = [pane |-> TRUE, root |-> g]]
  /\ meta' = [meta EXCEPT ![t].phase = "pane_allocated"]
  /\ UNCHANGED <<clock, binding, recovery, owners, known, untracked, archive,
                 issued, evidence>>

\* The phase row is written even when the pending row is gone.
FinalizePane(t, g) ==
  /\ pending' = IF HasPending(t)
                THEN [pending EXCEPT ![t].pane = TRUE, ![t].root = g]
                ELSE pending
  /\ meta' = [meta EXCEPT ![t].phase = "pane_allocated"]
  /\ UNCHANGED <<clock, binding, recovery, owners, known, untracked, archive,
                 issued, evidence>>

SetLaunchPhase(t, p) ==
  /\ HasPending(t)
  /\ meta' = [meta EXCEPT ![t].phase = p]
  /\ UNCHANGED <<clock, pending, binding, recovery, owners, known, untracked,
                 archive, issued, evidence>>

ObserveGeneration(t, g) ==
  /\ HasPending(t)
  /\ pending' = [pending EXCEPT ![t].root = g]
  /\ meta' = [meta EXCEPT ![t].phase = "provider_observed"]
  /\ UNCHANGED <<clock, binding, recovery, owners, known, untracked, archive,
                 issued, evidence>>

\* Fault: only the phase row is cleaned up.
RemovePendingKeepingReceipt(t) ==
  /\ pending' = [pending EXCEPT ![t] = None]
  /\ meta' = [meta EXCEPT ![t].phase = None]

\* delete_pending, delete_pending_if_created: the row and its three meta rows.
RemovePending(t) ==
  /\ pending' = [pending EXCEPT ![t] = None]
  /\ meta' = [meta EXCEPT ![t] = NoMeta]

DeletePending(t) ==
  /\ RemovePending(t)
  /\ UNCHANGED <<clock, binding, recovery, owners, known, untracked, archive,
                 issued, evidence>>

-----------------------------------------------------------------------------
(* Bindings and recovery owners.                                           *)

\* The launcher binds its token to the conversation it was minted for.  The
\* first binding wins: a repeat is a no-op, another identity is refused.
BindLaunch(t) ==
  /\ Intent[t] # None
  /\ binding[t] = None
  /\ binding' = [binding EXCEPT ![t] = Intent[t]]
  /\ UNCHANGED <<clock, pending, meta, recovery, owners, known, untracked,
                 archive, issued, evidence>>

CanCertify(t, s, g) ==
  /\ binding[t] = s
  /\ HasPending(t) => pending[t].root = g

CertifyLaunch(t, s, g) ==
  /\ CanCertify(t, s, g)
  /\ recovery' = [recovery EXCEPT ![s] = [generation |-> g, token |-> t]]
  /\ RemovePending(t)
  /\ UNCHANGED <<clock, binding, owners, known, untracked, archive, issued,
                 evidence>>

\* Reconciliation proved the exact live pane of an interrupted startup.
RecoverConfirmed(t, s, g) ==
  /\ HasPending(t) /\ Intent[t] = s /\ pending[t].pane
  /\ s \in known \ untracked
  /\ binding[t] = s
  /\ meta[t].phase \in StartedPhases
  /\ recovery' = [recovery EXCEPT ![s] = [generation |-> g, token |-> t]]
  /\ RemovePending(t)
  /\ UNCHANGED <<clock, binding, owners, known, untracked, archive, issued,
                 evidence>>

\* Fault: the proof of the conversation left behind survives.
SwitchBindingKeepingProof(t, from, to, g) ==
  LET proof == [generation |-> g, token |-> t] IN
  /\ from # to /\ to \notin untracked
  /\ binding[t] = from
  /\ recovery[from] = proof
  /\ recovery[to] \in {None, proof}
  /\ binding' = [binding EXCEPT ![t] = to]
  /\ recovery' = [recovery EXCEPT ![to] = proof]
  /\ UNCHANGED <<clock, pending, meta, owners, known, untracked, archive,
                 issued, evidence>>

\* The provider moved a certified launch to another conversation.
SwitchBinding(t, from, to, g) ==
  LET proof == [generation |-> g, token |-> t] IN
  /\ from # to /\ to \notin untracked
  /\ binding[t] = from
  /\ recovery[from] = proof
  /\ recovery[to] \in {None, proof}
  /\ binding' = [binding EXCEPT ![t] = to]
  /\ recovery' = [recovery EXCEPT ![from] = None, ![to] = proof]
  /\ UNCHANGED <<clock, pending, meta, owners, known, untracked, archive,
                 issued, evidence>>

\* Reconciliation found the owner's process generation gone, or its launch bound
\* elsewhere (core.rs identity_owners).
ExpireRecovery(s) ==
  /\ recovery[s] # None
  /\ recovery' = [recovery EXCEPT ![s] = None]
  /\ UNCHANGED <<clock, pending, meta, binding, owners, known, untracked,
                 archive, issued, evidence>>

\* A lease whose process generation is gone, or that a shared process stopped
\* renewing.
ExpireOwner(s, w) ==
  /\ w \in owners[s]
  /\ owners' = [owners EXCEPT ![s] = @ \ {w}]
  /\ UNCHANGED <<clock, pending, meta, binding, recovery, known, untracked,
                 archive, issued, evidence>>

-----------------------------------------------------------------------------
(* The wrapper's exit callback (hooks.rs handle_process_exit).             *)

BindingMatches(t, reported) ==
  IF binding[t] = None
  THEN Intent[t] = None /\ reported = None
  ELSE /\ Intent[t] \in {None, binding[t]}
       /\ reported \in {None, binding[t]}

\* The conversation the launch would become is neither untracked nor saved.
IdentityAvailable(t) ==
  LET s == IF binding[t] # None THEN binding[t] ELSE Intent[t]
  IN  s \notin known \union untracked

\* Fault: a later callback overwrites the receipt.
RecordExitAgain(t, w, code, at, reported) ==
  /\ HasPending(t)
  /\ at >= pending[t].created
  /\ meta[t].phase \in StartedPhases
  /\ meta[t].wrapper = [owner |-> w, created |-> pending[t].created]
  /\ meta' = [meta EXCEPT ![t].receipt =
                [created |-> pending[t].created, code |-> code, at |-> at, by |-> w]]
  /\ UNCHANGED <<clock, pending, binding, recovery, owners, known, untracked,
                 archive, issued, evidence>>

\* The first callback of the registered wrapper after the provider command.
ReceiptDue(t, w, at, reported) ==
  /\ HasPending(t)
  /\ reported \in {None, Intent[t]}
  /\ at >= pending[t].created
  /\ meta[t].phase \in StartedPhases
  /\ meta[t].wrapper = [owner |-> w, created |-> pending[t].created]
  /\ BindingMatches(t, reported)
  /\ IdentityAvailable(t)
  /\ meta[t].receipt = None

\* Exit before any conversation was saved: the receipt is written once.
RecordExit(t, w, code, at, reported) ==
  /\ ReceiptDue(t, w, at, reported)
  /\ meta' = [meta EXCEPT ![t].receipt =
                [created |-> pending[t].created, code |-> code, at |-> at, by |-> w]]
  /\ UNCHANGED <<clock, pending, binding, recovery, owners, known, untracked,
                 archive, issued, evidence>>

ExitTarget(t, reported) == IF binding[t] # None THEN binding[t] ELSE reported

Unbind(t, s) == IF binding[t] = s THEN [binding EXCEPT ![t] = None] ELSE binding

RecoveredBy(t, s) == recovery[s] # None /\ recovery[s].token = t

\* The wrapper token or the recovery proof of this very launch is the
\* authority, anything else is an obsolete callback.
ExitAuthority(t, s, w) == w \in owners[s] \/ RecoveredBy(t, s)

\* The exit of a saved conversation.
ReleaseLaunch(t, s, w) ==
  /\ IF s \in untracked
     THEN UNCHANGED <<recovery, owners>>
     ELSE /\ ExitAuthority(t, s, w)
          /\ owners' = [owners EXCEPT ![s] = @ \ {w}]
          /\ recovery' = IF RecoveredBy(t, s) THEN [recovery EXCEPT ![s] = None]
                                              ELSE recovery
  /\ binding' = Unbind(t, s)
  /\ UNCHANGED <<clock, pending, meta, known, untracked, archive, issued,
                 evidence>>

\* Whether a callback changes anything at all.
ExitHeeded(t, w, at, reported) ==
  LET s == ExitTarget(t, reported) IN
  IF s \in known THEN s \in untracked \/ ExitAuthority(t, s, w)
                 ELSE ReceiptDue(t, w, at, reported)

ProcessExit(t, w, code, at, reported) ==
  /\ w \in issued
  /\ at <= clock
  /\ IF ExitTarget(t, reported) \in known
     THEN ReleaseLaunch(t, ExitTarget(t, reported), w)
     ELSE RecordExit(t, w, code, at, reported)

-----------------------------------------------------------------------------
(* A provider hook (hooks.rs handle_hook_transaction), as far as it touches *)
(* the launch tables.  `verified` says that the hook proved the pane's exact*)
(* home before its transaction.                                            *)

\* A heartbeat renews the owner lease and returns before the rest.
HookEvents == {"activity", "end", "heartbeat"}

HookAdmitted(t, s) ==
  /\ s \notin untracked
  /\ HasPending(t) => Intent[t] \in {None, s}
  /\ binding[t] \in {None, s}

\* A token that no pending row and no binding knows any more is dropped.
TokenCounts(t) == HasPending(t) \/ binding[t] # None

Hook(t, s, w, g, event, verified) ==
  LET full == event # "heartbeat"
      certified == full /\ verified /\ HasPending(t) /\ pending[t].root = g
  IN
  /\ w \in issued
  /\ HookAdmitted(t, s)
  /\ binding' = IF TokenCounts(t) THEN [binding EXCEPT ![t] = s] ELSE binding
  /\ owners' = [owners EXCEPT ![s] =
                  IF event = "end" THEN @ \ {w} ELSE @ \union {w}]
  /\ known' = IF full THEN known \union {s} ELSE known
  /\ recovery' = IF certified
                 THEN [recovery EXCEPT ![s] = [generation |-> g, token |-> t]]
                 ELSE recovery
  /\ IF certified \/ (full /\ ~HasPending(t) /\ TokenCounts(t))
     THEN RemovePending(t)
     ELSE UNCHANGED <<pending, meta>>
  /\ UNCHANGED <<clock, untracked, archive, issued, evidence>>

\* A hook of an untracked conversation only drops its live owners.
HookUntracked(s) ==
  /\ s \in untracked
  /\ owners' = [owners EXCEPT ![s] = {}]
  /\ UNCHANGED <<clock, pending, meta, binding, recovery, known, untracked,
                 archive, issued, evidence>>

-----------------------------------------------------------------------------
(* Membership of the board.                                                *)

\* Fault: the bindings go, the recovery proof stays.
ForgetClaimsKeepingProof(s) ==
  /\ binding' = [t \in Tokens |-> IF binding[t] = s THEN None ELSE binding[t]]
  /\ owners' = [owners EXCEPT ![s] = {}]
  /\ UNCHANGED recovery

\* No launch table keeps a claim on s.
ForgetClaims(s) ==
  /\ binding' = [t \in Tokens |-> IF binding[t] = s THEN None ELSE binding[t]]
  /\ recovery' = [recovery EXCEPT ![s] = None]
  /\ owners' = [owners EXCEPT ![s] = {}]

Untrack(s) ==
  /\ ForgetClaims(s)
  /\ untracked' = untracked \union {s}
  /\ UNCHANGED <<clock, pending, meta, known, archive, issued, evidence>>

RestoreTracking(s) ==
  /\ untracked' = untracked \ {s}
  /\ UNCHANGED <<clock, pending, meta, binding, recovery, owners, known,
                 archive, issued, evidence>>

\* A sessions row is upserted by discovery or by the launcher itself.
SaveSession(s) ==
  /\ s \notin untracked
  /\ known' = known \union {s}
  /\ UNCHANGED <<clock, pending, meta, binding, recovery, owners, untracked,
                 archive, issued, evidence>>

DeleteSession(s) ==
  /\ s \in known
  /\ ForgetClaims(s)
  /\ known' = known \ {s}
  /\ UNCHANGED <<clock, pending, meta, untracked, archive, issued, evidence>>

-----------------------------------------------------------------------------
(* Retirement of a dead pending launch (core.rs retire_dead_same_name_     *)
(* pending): evidence is read first, checked against processes and panes,  *)
(* and applied later as a compare-and-swap on the whole snapshot.          *)

SnapshotOf(t) == [token |-> t, row |-> pending[t], meta |-> meta[t],
                  binding |-> binding[t]]

AuthenticatedExit(e) ==
  /\ e.meta.phase \in StartedPhases
  /\ e.meta.receipt # None /\ e.meta.wrapper # None
  /\ e.meta.wrapper.created = e.row.created
  /\ e.meta.receipt.created = e.row.created
  /\ e.meta.receipt.at >= e.row.created
  /\ IF e.binding = None THEN Intent[e.token] = None
                         ELSE Intent[e.token] \in {None, e.binding}

\* Only an unbound launch with a proven root and an authenticated exit.
Retirable(e) ==
  /\ Intent[e.token] = None /\ e.binding = None /\ e.row.root # None
  /\ AuthenticatedExit(e)

ReadEvidence(t) ==
  /\ HasPending(t)
  /\ Retirable(SnapshotOf(t))
  /\ evidence' = SnapshotOf(t)
  /\ UNCHANGED <<clock, pending, meta, binding, recovery, owners, known,
                 untracked, archive, issued>>

\* Fault: only the pending row is compared, not its meta rows and binding.
UnchangedRow(e) == HasPending(e.token) /\ pending[e.token] = e.row

Unchanged(e) == HasPending(e.token) /\ SnapshotOf(e.token) = e

RetirePending ==
  /\ evidence # None
  /\ evidence' = None
  /\ IF Unchanged(evidence)
     THEN /\ archive' = archive \union {evidence.token}
          /\ RemovePending(evidence.token)
     ELSE UNCHANGED <<archive, pending, meta>>
  /\ UNCHANGED <<clock, binding, recovery, owners, known, untracked, issued>>

-----------------------------------------------------------------------------
LaunchStep ==
  \E t \in Tokens :
    \/ AddPending(t)
    \/ BindLaunch(t)
    \/ DeletePending(t)
    \/ \E w \in Wrappers : RegisterWrapper(t, w)
    \/ \E g \in Generations : FinalizePane(t, g) \/ ObserveGeneration(t, g)
    \/ \E p \in {"pane_prepared", "provider_starting"} : SetLaunchPhase(t, p)

IdentityStep ==
  \E t \in Tokens, s \in Sessions, g \in Generations :
    \/ CertifyLaunch(t, s, g)
    \/ RecoverConfirmed(t, s, g)
    \/ \E to \in Sessions : SwitchBinding(t, s, to, g)
    \/ \E w \in Wrappers, event \in HookEvents, verified \in BOOLEAN :
         Hook(t, s, w, g, event, verified)

ExitStep ==
  \E t \in Tokens, w \in Wrappers, code \in Codes, at \in Times,
     reported \in Sessions \union {None} : ProcessExit(t, w, code, at, reported)

MembershipStep ==
  \E s \in Sessions :
    \/ Untrack(s) \/ RestoreTracking(s) \/ SaveSession(s) \/ DeleteSession(s)
    \/ HookUntracked(s) \/ ExpireRecovery(s)
    \/ \E w \in Wrappers : ExpireOwner(s, w)

RetirementStep == RetirePending \/ \E t \in Tokens : ReadEvidence(t)

LedgerNext == Tick \/ LaunchStep \/ IdentityStep \/ ExitStep
                \/ MembershipStep \/ RetirementStep

LedgerSpec == LedgerInit({}) /\ [][LedgerNext]_ledgerVars

-----------------------------------------------------------------------------
(* Properties.                                                             *)

\* The ledger's tables hold rows of their schema.
LedgerTypeOK ==
  /\ clock \in Times
  /\ pending \in [Tokens -> PendingRows \union {None}]
  /\ meta \in [Tokens -> MetaRows]
  /\ binding \in [Tokens -> Sessions \union {None}]
  /\ recovery \in [Sessions -> RecoveryRows \union {None}]
  /\ owners \in [Sessions -> SUBSET Wrappers]
  /\ known \subseteq Sessions
  /\ untracked \subseteq Sessions
  /\ archive \subseteq Tokens
  /\ issued \subseteq Wrappers
  /\ evidence \in Snapshots \union {None}

\* Two pending launches never reserve the same display name: the name search
\* and the insert of add_pending are one transaction.
NamesReservedOnce ==
  \A t, u \in Tokens :
    HasPending(t) /\ HasPending(u) /\ NameOf[t] = NameOf[u] => t = u

\* Wrapper and receipt rows live and die with the pending row they were
\* stamped for, whichever of certification, recovery, deletion, retirement or
\* a retry ends it; and a receipt was written by the very wrapper registered.
\* "Old meta rows cannot bleed into a later token reuse" (store.rs:1558).
ReceiptBelongsToAttempt ==
  \A t \in Tokens :
    /\ meta[t].wrapper # None =>
         HasPending(t) /\ meta[t].wrapper.created = pending[t].created
    /\ meta[t].receipt # None =>
         /\ meta[t].wrapper # None
         /\ meta[t].receipt.by = meta[t].wrapper.owner
         /\ meta[t].receipt.created = pending[t].created

\* The recovery proof of a conversation rests on the binding of its launch
\* token; the binding can only be missing, never name another conversation.
RecoveryBacked ==
  \A s \in Sessions :
    recovery[s] # None =>
      LET t == recovery[s].token IN
      binding[t] = s \/ (binding[t] = None /\ Intent[t] = s)

\* One launch is the certified home of at most one conversation, across
\* provider switches, exits, retries and untracking.
OneHomePerLaunch ==
  \A s1, s2 \in Sessions :
    recovery[s1] # None /\ recovery[s2] # None
      /\ recovery[s1].token = recovery[s2].token => s1 = s2

\* The first valid receipt of an attempt is immutable: replays, later codes
\* and callbacks of other wrappers leave it alone.
ReceiptImmutable ==
  [][\A t \in Tokens :
       meta[t].receipt # None /\ meta'[t].receipt # None
         => meta'[t].receipt = meta[t].receipt]_ledgerVars

\* A launch is retired as dead only if, at that very moment, no identity has
\* claimed it and the exit receipt of its registered wrapper authenticates:
\* what was read before the process scan still holds (store.rs:1499).
RetiredOnlyUnclaimed ==
  [][\A t \in archive' \ archive :
       /\ HasPending(t) /\ binding[t] = None /\ Intent[t] = None
       /\ AuthenticatedExit(SnapshotOf(t))]_ledgerVars
=============================================================================
