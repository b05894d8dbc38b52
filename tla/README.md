# Pika: a TLA+ verification development

Pika is a terminal switchboard for coding agents (Codex, Claude, OpenCode,
Muse).  It watches conversations, reopens each of them in one exact tmux home,
shows which of them need the user, and federates several machines.  There is no
daemon that owns the truth: short-lived processes (the `pika` command, provider
hooks, the pane wrapper reporting an exit, `pika doctor`, an open board) share
one SQLite ledger, tmux and the process table.  What makes the program
hard is therefore not any one function but the order in which those processes
commit.  This development models that order.

Paths below are relative to the repository root; `store.rs` is `src/store.rs`
of the Rust crate.

## 1. Inventory

| Component | State | Operations | Hard part | What makes it correct |
|---|---|---|---|---|
| **Launch ledger** (`store.rs`, `hooks.rs`) | `pending_launches`, the token-scoped `meta` rows (phase, wrapper owner, exit receipt), `launch_bindings`, `recovery_owners`, `live_owners`, `untracked_sessions`, the archive of retired launches | add, register wrapper, finalize pane, phase, bind, observe, certify, recover, switch, exit, untrack, restore, retire, delete | every row is written by several processes; retries reuse a token; evidence is read, checked elsewhere and used later | a name is reserved once; proofs rest on bindings; receipts belong to their attempt and never change; only unclaimed dead launches are retired |
| **Resume reservations** (`store.rs`, `core.rs`) | `launch_reservations` | reserve, prove the holder stale, compare-and-swap reclaim, release, doctor repair, revocation by untrack | holders die; PIDs are reused; two provers race | a launcher at work holds the lane; a dead holder's lane can be had; every return releases |
| **Exact resume** (`core.rs`, `tmux.rs`, `hooks.rs`, `doctor.rs`) | the launcher's position, the pane, the provider, the rows above | fifteen steps from reservation to certification | death or error between any two steps; a tmux command that outlives its launcher; a wait that gives up early | never two providers of one conversation; a provider that runs can be found again |
| **New launch, Board Add** (`core.rs`, `board_add.rs`) | the same tables | mint, launch, adopt | as above, without a known identity | as above |
| **Status and attention** (`status.rs`, `store.rs`, `hooks.rs`, `core.rs`, `attention.rs`) | `session_status_observations`, `sessions`, `live_owners` | hook, exit callback, reconciliation, acknowledgement | late, reordered and lost hooks; snapshots outdated before their commit; acknowledgement of what was shown | no announced result is lost; a dead provider stops WORKING; the row is what the evidence projects to |
| **Provider records** (`providers.rs`, `named_discovery.rs`, `usage.rs`) | read-only, with a cursor | read turn status | evidence that is older than the hook that superseded it | does not overwrite newer evidence |
| **Processes, tmux** (`process.rs`, `tmux.rs`) | panes, process table | observe, prepare, respawn | snapshots may be incomplete | actions need complete observations |
| **Doctor** (`doctor.rs`) | none of its own | repair stale rows | a 300-second age rule against running launches | removes only what is disproved |
| **Fleet** (`fleet.rs`, `store.rs`, `client_board.rs`) | `fleet_nodes`, snapshots, refresh generations, a separate projection cache | pair, onboard, refresh, remove, upgrade, remote intents | answers out of order; two databases without a common transaction; removal and re-pairing; a renaming and an upgrade that write back a row read before; deletions in the cache that fail | newer requests win; an error is news unless an old row came back; the manifest names a readable revision; every other one has somebody to delete it |
| **Activity observer and lease** (`activity_*.rs`) | `observer.lock` and its file handles, the gate, the fence, what each view shows, the projection | open, elect, hand off, observe, commit, publish, follow, close, die | a reading outlives the view that began it; changes coalesce while the cache is read | one observer at a time; the projection never goes back; what is committed is shown |
| **Scheduler** (`scheduler.rs`) | a retry table in one thread | admit, back off | none of its own | bounded retries |
| **Monitor, board UI** (`monitor.rs`, `cli.rs`, `terminal*.rs`, `preview.rs`) | the frozen inventory, selection | view, peek, act | the ledger moves under a frozen view | an action applies to what was shown |
| **Wait, resolve, history** (`wait.rs`, `resolve.rs`, `open_history.rs`) | cursors | select, wait | small | selects the exact conversation |
| **Experts** (`experts.rs`, `expert_*.rs`) | cards with fingerprints, refresh attempts of a quota cycle | claim, interview, store, publish, update, clear | an interview takes minutes, while the conversation goes on, other refreshers run and the user untracks it | one timed interview of a conversation in a cycle; an interview's card never claims what the interview has not seen, until its agent updates it |
| **Consultations** (`consult*.rs`) | turns of side conversations | consult | provider-native turns | one answer per turn |
| **Assistant: call policy** (`assistant_policy.rs`) | `policy_config`, `assistant_reservations` | reserve a root, reserve and dispatch a child, extend, record, release, configure | an envelope and its children share one budget; a call that may have been made is never refunded | charges never exceed the allowance and cover what was sent |
| **Assistant: foreground turns** (`assistant_runtime.rs`, `assistant_investigation_coordinator.rs`, `assistant_service.rs`, `assistant_session.rs`, `assistant.rs`) | runtime and investigation journals, the service thread, the provider thread | open, plan, dispatch, poll, answer, synthesize, cancel | five databases without a common transaction; answers lost after the prompt was taken; one turn at a time | no turn is sent twice; turns of a thread do not overlap |
| **Assistant: forgetting and recovery** (`assistant_memory.rs`, `assistant_retention.rs`, `assistant_control.rs`, `assistant_recovery*.rs`) | the forget epoch, the retention marker, board shares and revocations, recovery intents | forget, revoke, scrub, fresh context | they race the service's writes and sends; they die half-way | nothing forgotten is sent or kept; recovery leaves nothing that blocks the next opening |
| **Assistant: review of the memory** (`assistant_maintenance*.rs`, `assistant_policy.rs`, `assistant_control.rs`) | signals, jobs and claims in memory.sqlite, the call in policy.sqlite and owner.sqlite, the turn in the worker's journal | discover, prepare, reserve, claim, spawn, dispatch, settle, recover, give way | four databases without a common transaction; a disposable worker; forgetting and foreground work in between | no record is sent for review twice; none is skipped; what was sent is charged |
| **Assistant: the rest** (`assistant_*.rs`, about 40 files) | memory records and their evolution, investigations, native turns, workshop | evolve, consult, present | exact coverage; worker lanes | no promotion without exact coverage |
| **Mobile: delivery** (`mobile.rs`, `mobile_delivery.rs`, `mobile_codex.rs`, `mobile_claude_channel.rs`) | the journal of operations, creation reservations, the channel of a native terminal | submit, dispatch, settle, reconcile, create, attest | a phone that has lost its answer comes back through another server; the provider decides however late; receipts overwrite each other | dispatched once; a receipt tells the truth; one conversation per name |
| **Mobile: pairing, transcripts** (`mobile_pairing.rs`, `mobile_*.rs`, `src/ios`) | enrolment, histories | pair, read | deadlines | one phone is enrolled |
| **Updater** (`update.rs`) | release directories, `current`, the launcher, `.install.lock` | install, update, roll back, settle | killed processes, power losses and failed syncs between renames; jobs that overtake each other | the launcher runs a complete release; the activation moves in order |
| **Client bridge** (`client_bridge.rs`, `client_cli.rs`) | request table | bridge, cancel | cancellation races | one answer per request |
| **Setup, quota, files companion, skills** | provider configuration, caches | edit, read, render | idempotence | mostly formatting |

Interactions: the launcher, the hooks and the wrapper meet only in the ledger
and in the pane (its tags and its process tree); reconciliation reads tmux and
the process table first and then writes in one transaction fenced by `PRAGMA
data_version`; the board acts on a frozen inventory with compare-and-swap; the
fleet writes two SQLite files in a fixed order.  The views of a profile meet in
one file lock; refreshers of cards, servers of the phone and the assistant's
workers are separate processes or threads that meet only in the database and at
the provider.

`PROJECT.json` lists each component with its status, and under "hazards" the
places in the code where these orders bite, with the properties that cover them.

## 2. Modules

| Module | Models | State and actions in the code |
|---|---|---|
| `LaunchLedger` | the launch half of the ledger | one variable per table, one action per IMMEDIATE transaction |
| `LaunchLedgerProofs` | | theorems about `LaunchLedger` |
| `ResumeLane` | `launch_reservations` and the launchers that contend for it | `lane`, `seen` (the row read before proving staleness), `pc`; `ReserveResume`, `ReadReservation`, `ProveStale`, `ReclaimResume`, `ReleaseResume`, doctor, untrack, death |
| `HostProofs` | | theorems about `ResumeLane` and `BoardStatus` |
| `ExactHome` | abstract: a launch claims a conversation, only the claimant starts a provider, only while none runs | |
| `ExactResume` | `resume_session` composed with `LaunchLedger`, tmux, hooks, doctor, reconciliation and untrack | one action per step of `resume_session_reserved`; `Lane` and `Promise` are INSTANCEs of `ResumeLane` and `ExactHome` |
| `ExactResumeProofs` | | theorems about `ExactResume`, with those of the ledger |
| `BoardStatus` | status of one conversation | `obs`, `row`, `leases`, `recovery`; hooks, exit callbacks, fenced reconciliation, acknowledgement of what was `noticed` |
| `FleetRefresh` | refresh, onboarding, upgrade and removal of one machine, and the boards that apply its pairing | `status`, `generation`, `snapshot`, `manifest` of the ledger; `cache` of the second database; exchanges with the machine step by step; `copy`, what each keeper has read of the row or has yet to purge |
| `ActivityObserver` | the observers of one profile | `view` (what the two threads of a source share), `local` and `remote` (the threads), `projected`; one action per critical section or database access |
| `ActivityObserverProofs` | | theorems about `ActivityObserver` |
| `ExpertCards` | the expert cards of one provider's conversations | `card`, `attempt`, `watched`; `run` for each `pika expert` process |
| `Updater` | installation, update and rollback of the managed release | `current`, `launcher`, `form`, `content`, and `disk` for what is durable; `job` for each process, `lock` for `.install.lock` |
| `MachineProofs` | | theorems about `FleetRefresh` and `Updater` |
| `MobileDelivery` | a phone's messages, answers and creations | `deliveries`, `reservation`; `server` for each `pika _mobile`, `request` for the provider, `channel` and `route` for a native terminal |
| `MobileDeliveryProofs` | | theorems about `MobileDelivery` |
| `MemoryMaintenance` | the paid review of the assistant's memory | `record`, `signal`, `jobRow`, `driverRoot` (memory.sqlite), `charge` (policy.sqlite and owner.sqlite), `turn`, `journal` (the worker's), `driver` and `worker` |
| `PaidWorkProofs` | | theorems about `ExpertCards` and `MemoryMaintenance`, which both spend paid calls |
| `CallAllowance` | `assistant_policy.rs`: the ledger of provider calls | `allowance`, `reservation`, `calls`; one operator per transaction with its `Can...` condition |
| `AssistantTurn` | the foreground turn, composed with `CallAllowance`, forgetting, revocation, retention and recovery | one variable per database table, `host`, `service` and `recovery` for the three threads, `threads`, `live`, `seen`, `sent` for the provider; one action per transaction |
| `AssistantTurnProofs` | | theorems about `AssistantTurn` |
| `MCHostFair` | `ResumeLane`, `BoardStatus` | they share nothing: one runs, the other rests |
| `MCTurnFleet` | `AssistantTurn`, `FleetRefresh`, `Updater` | likewise |
| `MCHostWork` | `ExpertCards`, `MobileDelivery`, `MemoryMaintenance` | likewise |
| other `MC...` | | small instances for TLC |

Operators called *Fault* in the modules (for instance `CompetesWithPane`) are
never used by the specifications: each is a plausible bug of the definition that
follows it, and `PROJECT.json` "mutants" says which property notices it.

### What stands for what

*Launch ledger.*  A conversation stands for (provider, session id); tokens,
wrapper capabilities and process generations are opaque; times are small
naturals (`MaxTime`).  A transaction's guard is its `WHERE` clause or early
return and everything it writes is one step, the removal of meta rows with
their pending row included.  `Hook` is the ledger part of
`handle_hook_transaction` with `validate_launch`; `HookUntracked` its early
return.  `ReadEvidence` and `RetirePending` are the two transactions around the
process scan of `retire_dead_same_name_pending`.

*Exact resume.*  A launcher is one `pika NAME`; it mints one token, so launchers
are named by tokens.  Each launcher has its own private pane (a fresh holder),
so pane states are indexed by launches.  `IssueRespawn` and `TmuxRespawn` are
apart because tmux executes a command it has been given even if the client
dies.  The certification of hooks and of the launcher is a look-up followed by a
separate transaction, as in the code.

*Board.*  FAILED and EXITED are the ERROR rows of a failed turn and of a
provider that ended with an error code.  A reconciliation is three steps:
process snapshot, reading of the provider's record, fenced commit.  Two
histories say what a hook has announced (`delivered`) and whether the end of a
rival, or an end under the OPEN TWICE warning, has replaced it (`overruled`).

*Fleet.*  An exchange is claimed (generation), answered or failed by SSH, staged
in the cache database, committed in the ledger and finally discards one surplus
revision.  A revision is a fresh UUID per answer, so it is named by its exchange.
`EndEarly` is a death of the process, a store that cannot be opened for the
commit, or a discard that fails: `discard_remote_cache_revision` ignores every
error, nobody repeats it, and `stranded` (history) is what stays.
`WriteBack` is the end of `upgrade_bundle`: it writes the machine's row as a
whole, under no claim of a generation, minutes after it was read.
A *keeper* is `sync_pairings` or `pika machines remove`.  It reads the row
(`ReadRow`) and then, in a transaction of its own, adds a pending row or writes the
one it read back as a whole under another alias (`WriteRow`), deletes the machine
(`Remove`), or leaves it.  `restored` (history) says that the row's error came
back with a copy that was no longer what the row had become.  A removal empties
the cache in another database afterwards (`PurgeCache`), or fails to
(`PurgeFails`).  Boards keep the rows in a store of their own, and onboarding,
upgrades and removals work on the profile's; the model has all of them on one
store, which allows more than either.

*Observer.*  The content of the database is the number of commits in it, and
what a view shows or the projection holds is the content it was read from.  The
lock is an `flock`, so it is held as long as any clone of the handle is open: in
the slot of the view (`slot`), or with a thread that is reading (`lease`).
`gate` is the permission to observe, `fence` the generation that a closing view
raises so that a reading under way does not commit.  `Close` and
`FenceAndRelease` are the two halves of `Owner::drop`; `ElectAfterHandoff` is
the first turn of a view opened after a handoff, which shows the cache at once
and scans later.

*Experts.*  A transcript is a number of turns, and what a card says is named by
the turn it was composed at; `print` is the fingerprint that the card claims,
`seen` (history) what the interview saw.  `pika expert update` changes the words
and the fingerprint and leaves the card the interview's: then the agent has
`attested` it (history), and `seen` stays what it was.

*Updater.*  A directory entry has the value that processes see and, in `disk`,
the set of values a power loss may leave: a write adds one, an fsync of the
directory leaves the present one.  Jobs name the directories they stage.  A
power loss ends every job.

*Mobile.*  A server handles one operation at a time and may end at any step.
The provider is external: a request that was written may be taken or refused at
any later time.  A native terminal gets a token at each launch, and its channel
records what the model has been handed and attests.

*Review.*  Record `n` is the one of revision `n`; a job is named by the records
it selected, as its identifier is a hash of them.  A call has its root and
child in policy.sqlite and its life in owner.sqlite; each write to either is a
step of its own, so a death of the host separates them.

*Assistant.*  A request is what the user sends; its children are the planning
turn (`main`) and the `synthesis` that may follow it, each a row of
`assistant_runtime_turns` and a child reservation.  A stored or sent text is
represented by the forget epoch of the memory it was made from, and `None` is
an emptied text: that is all the properties tell apart.  The position of the
service thread follows the code from `open_assignment` to `finish`:

| `service.pc` | code |
|---|---|
| `opening` ... `coordinating` | `spawn_main_service`: `open`, `restore_state`, `configure_explicit` and `start_or_resume`, `CoordinatedRuntime::new` |
| `queued`, `admitting` | `begin_kind`, `start_command`, `begin_native`, `reserve_root` |
| `validating` ... `dispatching` | `begin_reserved_user_turn`: `validate_new_turn`, `record_turn`, `reserve_child` |
| `fenced`, `sending` | inside `dispatch_at_epoch_checked`: `mark_dispatched`, then `validate_actual_dispatch` and the provider's `turn_start` |
| `running`, `polling`, `answering` | `poll_turn`, `check_forget_*`, `commit_turn` |
| `settling`, `publishing`, `uncertain`, `unsure` | `record_outcome` and `record_turn_state(_reply)` |
| `replied` | `accept_main_response`, `accept_proposal` |
| `finishing`, `closing` | `finish`: the root's outcome, then `investigation_roots` |

The handshake holds the memory's writer lock (`Fenced`), so a forget or a
revocation that comes upon it gives up.  The writes that
carry text are made under the epoch fence (`publish_at_epoch`) and are one step
with the comparison.  Merged into one step: the three statements of
`restore_state`; the bump of the epoch by a revocation and the note of it in
`assistant_board_revocations` (a crash between them bumps it once more); the
statements of one recovery function on one database.

## 3. Runs

| Run | Question | Bounds |
|---|---|---|
| `launch_race` | A resume and a new launch of one display name, each retried with its token: is the name reserved once, do receipts, proofs and retirements stay with their attempt? | 2 tokens, 2 conversations, 1 wrapper, 2 clock values |
| `resume_race` | Do two faulty launchers with every kind of hook keep the promise of `ExactHome` and the rules of `ResumeLane`, and is no running provider lost? | 2 launchers, no untrack |
| `resume_untrack` | The same while the user stops watching and watches again: never two providers of one conversation | 2 reliable launchers, 1 untrack |
| `board_rivals` | Is an announced result kept, a running turn shown, and the row explained by evidence, whatever commits late, with owners one after the other or at once (OPEN TWICE), with and without a provider record read past a cursor? | 2 owners, 4 clock ticks, 2 callbacks in flight |
| `turn_fleet_release` | Is no turn sent twice, no call sent uncharged or refunded, nothing forgotten sent or kept, and does recovery leave a clean slate? Do newer exchanges win, errors stay news, and does the cache hold what the manifest names? Does the launcher run a complete release, and does the activation move in order? | 2 requests, an allowance of 2, 1 forget or revocation, 1 crash or failed recovery, 1 recovery; 3 exchanges, 2 keepers (the second at work only until a second exchange begins), 1 removal; 3 jobs, 3 versions, 1 power loss or failed sync |
| `assistant_recovery` | Does fresh context complete whatever the service is doing? | 1 request, 1 forget, 1 fault, 2 recoveries |
| `host_fair` | Is the reservation held, and taken over from the dead, also when PIDs are reused? Does a dead provider stop WORKING, and the warning about rivals end? | 3 launchers, 2 PIDs; 2 owners, 3 ticks, 2 callbacks in flight |
| `observer` | Does one view observe at a time, whatever is still being read? Does the projection only advance, and is everything committed shown? | 2 views, 1 commit, 1 read error |
| `host_work` | Is a conversation interviewed once in a cycle, and is no card ahead of what was seen? Is an operation of the phone dispatched once and settled truly, a name given once? Is a record reviewed once and found, and its call charged? | 1 conversation, 2 refreshers, 2 turns, 2 cycles, 1 untrack; 2 servers, a message, a native message, an answer or two creations, 2 dispatches, 2 launches; 2 records, 1 pending, 2 calls, 1 decision, 1 fault |
| `board_acknowledge` | *finding*: an acknowledged READY result becomes unread again | 4 ticks |
| `review_bookkeeping` | *finding*: a receipt that recovery cannot settle ends the driver at every restart | 1 death of the host |
| `mobile_retry` | *finding*: a message that was dispatched is answered as rejected before dispatch | 1 message, 1 server |

Why the bounds suffice: two launchers or owners are enough for every race of
two writers, the third launcher of `host_fair` gives two provers of one stale
holder; a retry gives the second attempt of a token; two clock values tell
"before" from "after", equal times included; four ticks hold a start, a prompt,
a result and its end; a second untrack or removal repeats the first.  Two
requests are what an allowance of two calls can hold apart: either each has its
planning turn, or one takes both calls with its synthesis; the limit of two
concurrent reservations is reached by an envelope left over and a second
request.  One fault at any point of any thread is what separates two
transactions; the second recovery of `assistant_recovery` repeats a failed one
(the assistant alone passes with two as well, with 4.9 million states, and with
allowances of one and three calls).  Three jobs of the updater are an
interrupted one, the one that settles what it left, and one that overtakes it.
Two views are the observer and its successor, and one commit is either seen
before, during or after a reading.  Two refreshers, two servers and two calls of
the review are what it takes to repeat something; one dispatch more than the
promised one is what `MaxSends` allows.  Four ticks are too few for a result, the
warning that covers it and an end under that warning: this case is in the
theorems, and in the observations of section 4.  The runs that combine components check
each of them by itself, next to the initial states of the others: the
components share no state, and the product of their states would show nothing
else.  The theorems of section 5 hold without
these bounds.  Deadlock is not checked: every bounded run may stop when its
clock or its launches are used up.

### Fairness

`HostSpec` of `MCHostFair` gives each launcher weak fairness of its own work and
of its contention: a launcher that is neither killed nor blocked is a running process,
and the SQLite busy timeout lets it through.  Nothing else is fair; launchers
may be killed and doctor may never run.  Of the board it assumes only that an
open board goes on reconciling (it does so every two seconds, and a
superseded observation is taken again).  Hooks and callbacks are never assumed
to arrive: that is what the two liveness properties are about.

`FairObserverSpec` gives the local thread of every view weak fairness (it is a
running thread, and its waits end after half a second), and the polling of the
database's change counter strong fairness: every wait that no request cuts short
ends with a poll, and nobody asks for a refresh twice a second for ever.  No view need ever be opened, no hook
need come, and the remote thread may hang.

`FairSpec` of `AssistantTurn` gives the service thread and the recovery thread
weak fairness (both are running threads, every wait of theirs has a timeout and
every failed call is an action of its own), and the host's continuations: a
forget or a revocation that has begun, the tick that finishes one, the noticing
of a completed recovery, a restart.  No request of the user need ever come.

## 4. Findings

1. **Acknowledged results come back** (`board_acknowledge`, `store.rs:1246`).
   `acknowledge_attention` marks the evidence read whose `observed_at` equals the
   row's `last_event_at`.  The row's time is a maximum.  When an OPEN TWICE
   warning was recorded and cleared again after the result, the row shows READY
   with the time of the warning, the evidence has the time of the result, and
   the update of the evidence matches nothing.  The next reconciliation projects
   the still unread evidence.  `tests/hooks_contract.rs:356` asks for the
   opposite.
2. **A receipt that cannot be settled** (`review_bookkeeping`,
   `assistant_maintenance_driver.rs:572`).  `finish_maintenance(Failed)` closes
   the call in policy.sqlite and owner.sqlite, and the driver's root is settled
   afterwards.  If the host dies in between, `recover_root` asks for
   `finish_maintenance(Unknown)`; `finish_measured` refuses it because the call
   has failed already, and the driver's thread ends with an error at every
   restart.  `docs/ASSISTANT.md:327` says that "confirmed receipts can finish
   local bookkeeping after restart without another call".
3. **Dispatched, and rejected before dispatch** (`mobile_retry`,
   `mobile.rs:933`).  `send_message` asks the connection for the conversation's
   owner before it looks the operation up in the journal (`answer_request`
   likewise).  A phone that lost the answer and submits the message again when
   the owner is gone is told that it was rejected before dispatch.
   `docs/ios-provider-access.md:72` promises that the journal "returns prior
   receipts without replay", and line 75 that failures after dispatch "return
   unknown, not rejection".  The native path looks the receipt up first.

Further observations.  No run belongs to them: the properties of the runs name
them as exceptions, or say nothing of them.

- `certify_resume_generation` looks the pending row up in one transaction and
  certifies in the next; when the row goes in between, the proof of a launch
  that has finished takes the place of a later launch's.  `NoOrphanProvider`
  exempts that later launch alone (`displaced`), until it is certified again,
  as it exempts launches that untrack disowned.
- For a provider whose record is read at every reconciliation (`Readings`
  "always"), a WORKING record is stamped with the time of the very hook that
  announced a question, the upsert takes equal times, and WORKING replaces NEEDS
  YOU (`core.rs:758`).
- Deleting a machine deletes its refresh generation; after it is added again, an
  answer claimed before the removal can pass for the current one
  (`store.rs:2437`).  `NewerRequestWins` is the property without the exception
  that `SameTrustNewerWins` makes.
- `sync_pairings` reads a machine's row and writes it back whole when the alias has
  changed (`client_board.rs:51`), or writes a pending row where there was none, and
  `upgrade_bundle` writes back the row it read minutes before (`fleet.rs:3199`).
  What was recorded in between is taken back: a refresh's "ready" by an older
  error, and a removal by the whole row.  `ErrorIsNewer` excludes the error that
  such a copy restores (`restored`) and holds of every other; without
  `~restored` TLC finds it violated.
- Deletions in the cache database are tried once and their errors ignored
  (`store.rs:850`, `store.rs:2445`), and a store that cannot be opened after the
  staging returns before anything is given up (`store.rs:2742`).  Such a revision
  stays until the machine is removed; `CacheMatchesManifest` names this exception
  (`stranded`), and the manifest's half has none of it.
- A rollback may choose a stage that an interrupted job left unsynced, and a
  final sync may fail; a power loss can then break the launcher.
  `LauncherNeverBroken` is `LauncherRuns` without the exception.
- A result that the OPEN TWICE warning covers does not survive the end of either
  owner.  `preserve_unread_on_session_end` (`hooks.rs:621`) copies an unread
  result into the record of the end unless the row shows OPEN TWICE, so the end
  records PARKED and read over it, and when the warning is cleared nothing is
  left to look at, although `docs/guide.md:637` says that "completed results
  remain unread under `READY`".  `NoLostResult` exempts such an end (`overruled`);
  `ResultsStayUnread` does not, and TLC breaks it in `MCBoardStatus` with six
  ticks, two more than `board_rivals` has.  It was met in the proof of
  `NoResultLost`.
- The local thread looks at its stop flag before `reconcile_local` takes the
  generation of the fence (`activity_observer.rs:100`, `core.rs:549`).  A view
  that closes and is fenced in between commits all the same, where
  `activity_observer.rs:352` expects a detached read to finish "without ever
  becoming authoritative".  `ClosedNeverCommits` states that, and TLC breaks it
  with two views; the observation is a true one and the lock is still held, so
  `ProjectionAdvances` does not suffer.
- A follower's first frame is read before its watcher begins, so a commit
  between the two is shown only with the next one (`NothingConsumedUnread`).
- A creation whose home did not certify in time is journaled as created all the
  same, when the name could be set; the home is only pending then.  A creation
  that stays unknown keeps its name reserved until it is certified.
- A slow interview may replace a card that the agent published meanwhile.  An
  update of an interview's card (`experts.rs:252`) makes it CURRENT on turns that
  only the agent has seen (`attested` in `ClaimsWhatItSaw`).

## 5. Proofs

Every invariant and every action property of the passing runs has a theorem, and
so have the two refinements, with one exception that is named below.  The
theorems hold for every value of the constants, under the ASSUMEs of the
modules: names for tokens, an intent or none; bounds are numbers, and there is
at least one quota cycle; the operations of a phone are of one kind each; and a
constant that stands for "nothing" (`None`, `Nobody`, `Absent`, `Missing`,
`Nothing`) is none of the values it is told from.  A run evaluates each of them.
The bounds on clocks, faults, forgets or untracks play no part: a theorem says
what happens however many there are.

Each module of proofs has the same order: the shape of the state, the parts of
the inductive invariant, what each action touches, one lemma per action or group
of actions that can disturb a part, and the theorems.  The invariants:

*LaunchLedgerProofs.*  `LedgerTypes` proves the schema, one lemma per group of
transactions.  `RecoveryStaysBacked` and `OneHome` need
`ClaimsInv == RecoveryBacked /\ UntrackedClaims`.  `RecoveryBacked` says that a
recovery proof rests on the binding of its launch, which may be missing only if
the launch was minted for that conversation.  It is not inductive: an exit
callback for an untracked conversation drops the binding and keeps the proof, so
`UntrackedClaims` adds that whatever is still claimed for an untracked
conversation is claimed by a launch minted for it.  `ReceiptsStayWithAttempt`
and `NamesStayReservedOnce` are inductive together with the types.
`ReceiptsAreImmutable` and `RetiredUnclaimed` are action properties; the latter
needs `EvidenceRetirable`: the evidence a retirement was given satisfied its
conditions when it was read, and the comparison inside the transaction does the
rest.

*HostProofs, the reservation.*  `LaneInv` adds two parts to the types and to
`LaneHeld`: `HolderAtWork` (a row names a launcher that is at work on it or was
killed, so a returned launcher holds none) and `SeenStaysGone` (the holder a
rival has proved gone is killed or has returned, for good, so the row it swaps
out is nobody's at work).

*ExactResumeProofs.*  Two lemmas carry the composition: every step of
`ExactResume` is one transaction of the ledger (`StepsTheLedger`) and one step of
the reservation (`StepsTheLane`), or leaves them alone.  So the theorems about
the ledger hold of its composition as well (`LedgerKept`), and `LaneKept` is the
refinement `LaneAsSpecified`.  `ResumeInv` follows a launch from its intent to
its certification: a name is reserved once, the pane of a launcher follows the
launcher (`PaneFollows`), the intent stays pending until the provider can be
seen (`IntentStays`), and while it is pending, nobody else's provider runs once
the launch has passed its second look (`FiredAlone`).  That is why a respawn
that tmux executes late, after its launcher was killed, is harmless: its intent
is still there and excludes others.  `AtMostOneProvider` is a part of `ResumeInv`;
`PromiseKept` maps each step to one of `ExactHome` or a stutter.  `OwnHome` and
`Certified` (a provider that is no longer pending has a certified home that no
reconciliation takes for obsolete, but for the exceptions) give `NoOrphanAlways`.

*HostProofs, the board.*  `EvidenceInv` is enough for `RowAlwaysProjectsEvidence`,
with no hypothesis: only the safety evidence says OPEN TWICE and only the
runtime's EXITED, nothing is dated ahead of the clock, and a row that shows a
turn is no older than the evidence of it.  `WatchInv` adds what `NoResultLost`
and `RunningTurnAlwaysShown` need.  A provider waits for the hooks of its turns,
so what is in flight and later than the turn is an end or, during a turn, a tool
call (`CallsFit`); a snapshot that may still commit is of the ledger as it is
(`SnapshotFits`); a record is read past the row only (`ReadingFits`); and
a result that was announced is kept by the evidence, one whose hook is under way
is not yet contradicted by it (`ResultKept`, `TurnKept`), unless overruled.  The
hypothesis of both is that no provider's record is read at every reconciliation:
for such a provider the properties are false (section 4).

*ActivityObserverProofs.*  `ObserverInv` says that all handles that hold the lock
are clones of one view's (`LockExclusive`), that a thread between its look at
the gate and its publication has one of them (`ScansUnderLease`), and that
therefore what it holds is no older than the projection (`WriterIsNewest`).
Both theorems follow.

*MobileDeliveryProofs.*  A server has inserted the journal's row before it does
anything else, and a row that is there turns other servers away, so an operation
has one server at most that may still dispatch it, and it was not dispatched
before (`Journaled`).  `Truthful` relates rows to the provider: what a server
knows of an operation stays true, because what a provider has taken it keeps, and a
reservation is kept as long as the provider may have the conversation.

*PaidWorkProofs.*  Of the cards, `ExpertInv` is an account: the interviews of a
conversation in a cycle, those that runs which hold the claim will still ask
for, and the one that may still be claimed, are together at most one more than
its untracks (`Paid`); a card under way carries a fingerprint that was taken
before the model read (`Observes`); and a card of an interview that its agent
has not updated since claims what the interview saw (`Witnessed`).  Of the review, `ReviewInv` relates the four
databases at every place of the driver and of the worker: what was sent has a
child that says so, a claim and a linked call (`SentIsKnown`), claims of two
jobs are apart, and a call is released only if its child was never
dispatched.  `SourceInv` is about the scan: its cursor is at most its target, the
target at most the latest record, and a record that did not fit, or whose claim
is withdrawn, keeps the cursor before it or is pending.

*MachineProofs, the fleet.*  Generations count the claims since the last removal:
between two removals they are in the order of the claims, across a removal in
none (`ClaimOrder`).  So `SameTrustNewerWins` is a theorem and `NewerRequestWins`
is not.  `Behind` says that what the tables and the keepers' copies name comes
from exchanges that are over; an error that is written back from an unchanged copy
is therefore as new as it was.  `Discards` says that nothing a manifest names is
to be discarded, and `Owed`, that a revision leaves the hands of whoever is to delete
it only by being deleted, by being named, or by a failure.

*MachineProofs, the updater.*  `UpdaterInv` has a part for each thing a job may
rely on while it holds `.install.lock`: its own directory is nobody's activation
before it is built (`Unbuilt`, `Staged`), the comparison is made on an
activation that a power loss would not change (`Settled`), what is activated is
there (`Activates`), installations go up and rollbacks down from the release that
is still active (`Upward`, `Downward`), and the activation is durable
(`Persisted`).  The attempt to prove it showed that the exception for stages and
failed syncs has to last until the next swap that was confirmed (`doubt`).

*AssistantTurnProofs.*  `TurnInv` strengthens `AtMostOnce` by the shape of the
tables (weaker than the type invariant: it needs no bound), by `UnsentBefore` (a
child that is not marked dispatched was never sent), by `SendingFirst` (a service
about to send holds a child that has not been sent, unless recovery has already
settled it) and by `FencedInMemory` (inside the handshake the memory's epoch is
the service's).  A child's reservation moves one way, so a second send would
need a second `reserved`; that is the whole argument, and it uses neither the
journals nor the bounds on faults.  The other theorems rest on the journals, and
their invariants on each other (`AssistantInv`): while recovery works the host
stands still, and once it has joined the old service there is none
(`RecoveryAlone`); texts are written at the memory's epoch, and
retention empties the older ones before it sets its marker (`TextInv`); a service takes
the journalled thread only if the journal's epoch is its own and the guard is
down, and only recovery lifts the guard, after it has dropped the thread
(`ThreadInv`); a turn that may still run on the journalled thread has an
unresolved row, and its service refuses further requests (`LiveInv`); a root is
claimed between the opening and the closing of its investigation, a child between
those of its turn (`ClaimInv`); so recovery finds every claim, and none is made
meanwhile (`CleanInv`).

`LedgerTypes`, `LaneTypes`, `LedgerKept`, `ReceiptsAreImmutable`,
`RetiredUnclaimed` and `LaneGivenBack` state properties that no run repeats: a
proof for every instance says more than one instance does.

Only model-checked: `SendsCharged` of `AssistantTurn`, since what is charged is a
sum over a set, folded, and facts about a fold need an induction over the set;
the type invariants; and liveness (`StaleLaneReclaimed`, `DeadStopsWorking`,
`RivalWarningEnds`, `RecoveryCompletes`, `ShownEventually`), which is out of the
prover's reach as ENABLED is.  That the findings of section 4 are possible is shown
by TLC's counterexamples.

## 6. Assumptions and limits

- A provider waits for the hooks of its turn boundaries before it goes on; only
  hooks of tool calls may be late.  A provider's transcript is written by the
  time the hook of its turn starts.  Hook processes may still commit in any
  order, or never.
- Every live owner of a conversation is visible to reconciliation through its
  arguments or its lease.  Unverified panes and incomplete roots (the two
  identity ERRORs) are left out, as is the expiry of leases of a provider's
  shared process.
- One reconciler at a time; the fence is checked against all other
  writers.  With two owners alive, the end of one parks the other's turn:
  `RunningTurnShown` and `NoLostResult` exempt this (`overruled`).
- A conversation's display name does not change while it is reopened; the age
  after which doctor removes a launch (300 s) exceeds what a launch takes.
- A token is retried only with the same intent.
- `prune_pending`, `observe_pending_candidate`, `reclaim_resume`,
  `put_recovery_owner`, `collect_result`, the unconditional
  `mark_fleet_node_error` and `put_remote_snapshot` have no callers outside the
  tests and are not modelled.
- Fleet answers are for the verified machine.  A reader that finds the manifest's
  projection missing falls back on the full snapshot (`fleet.rs`, reading of
  the cached board), so a purge that comes late and empties the cache under a
  newer manifest costs speed and nothing else.
- The assistant's databases and guards exist: a first opening has created
  them.  The service's clock is the one of the request, as in the code: a
  deadline is judged when the prompt is sent and when it is polled.  A provider runs a turn
  until it answers or fails; an interrupt does not end it.
- Background turns, disposable authors, native turns and proposals that name
  workers are left out of `AssistantTurn`: the background budget,
  `assistant_investigation_service.rs` and the lost update of `policy_config` by
  `set_policy_background` with them.  Maintenance has a module of its own.
- `ActivityObserver` takes the deadlines that let an idle thread wake for
  nondeterminism, and leaves out what a frame contains.
- `ExpertCards` follows the conversations of one provider with one weekly
  quota; whether the quota allows an interview is left open, and which missing
  card comes first as well.
- `Updater` begins with a downloaded and verified payload; it models Unix, where
  a rename replaces a link at once.  Power is lost with whole entries kept or
  lost, never torn.
- `MobileDelivery` leaves out model changes, histories, OpenCode terminals and
  relays to other computers; one native terminal is launched again at most
  `MaxLaunches` times.  The provider keeps what it has taken.
- `MemoryMaintenance` has one scope and one purpose; deadlines of grants, the
  revisit clock and outputs as evidence of other jobs are left out, and
  coverage is all or nothing.  Sources over 12 KiB, which the scan passes by and
  reports as omitted (`assistant_maintenance.rs:367`), are left out too.
- The type invariants of the modules that a run combines (`ExpertTypeOK`,
  `MobileTypeOK`, `FleetTypeOK`, `UpdaterTypeOK`, `ObserverTypeOK`,
  `TurnTypeOK`, `BoardTypeOK`, `ResumeTypeOK`) document the state and hold at
  the bounds of section 3; the runs check what a type does not say.
- Not modelled: see `PROJECT.json` "components", with the reasons.

## 7. Plan

Done: the ledger, the reservation, exact resume, board status, fleet refresh
with upgrades, the assistant's foreground turns with forgetting and recovery,
the review of its memory, the observers, the expert cards, the updater, and the
phone's deliveries.

What is left to model, in this order:

1. The background budget and the worker lane of an investigation on top of
   `CallAllowance`, with the lost update of `set_policy_background`.
2. Revocation of leases against heartbeats (`revoke_live_owners_if_exact`) in
   `LaunchLedger`, which needs the leases' last sighting; remote intents in
   `FleetRefresh`.
3. Enrolment of a phone (`mobile_pairing.rs`); the client bridge's requests and
   cancellations; consultations.
4. New launch and Board Add on top of `LaunchLedger`.

Proofs to add, with the modules above: what they keep, and the refinement of the
call policy's promises by the worker lane.  Of the safety properties of the runs
only `SendsCharged` has no theorem (section 5).
