---------------------------- MODULE FleetRefresh -----------------------------
(***************************************************************************)
(* One machine of the fleet and the snapshots cached for it (store.rs,     *)
(* fleet.rs).  A request claims a generation, asks the machine over SSH    *)
(* with no transaction open, stages its projection in the separate cache   *)
(* database, and commits snapshot and manifest only if its generation is   *)
(* still the stored one.  Boards, `pika fleet` commands and mobile clients *)
(* do this in processes of their own.  Others keep the machine's row: a    *)
(* board's cache follows the pairings (client_board.rs), `pika machines    *)
(* remove` deletes the machine.  They read the row in one transaction and  *)
(* write or delete it in another, under no generation.  A revision (a      *)
(* fresh UUID) is named after the request that staged it.                  *)
(***************************************************************************)
EXTENDS Naturals, FiniteSets

CONSTANTS
  Exchanges,     \* refreshes, onboardings and upgrades, each made once
  Keepers,       \* boards that apply the pairings, `pika machines remove`
  MaxRemovals,   \* bound on how often the machine is removed
  Absent

MachineStatuses == {"pending", "ready", "error"}

ASSUME FleetConstants == MaxRemovals \in Nat /\ Absent \notin Exchanges \union MachineStatuses

VARIABLES
  status,      \* fleet_nodes.status, Absent while the machine is not trusted
  generation,  \* the fleet:refresh-generation meta row, 0 when it is absent
  snapshot,    \* remote_snapshots: the request it came from
  manifest,    \* the fleet:cache-revision meta row
  cache,       \* revisions in the cache database
  step,        \* where each request is
  purpose,     \* what each request is for
  held,        \* the generation each request claimed
  surplus,     \* the revision each request has yet to discard, commit or not
  copy,        \* what each keeper read of the row, and what it has yet to purge
  removals,
  claims,      \* history: claims made so far
  born,        \* history: the removals and the claims before each request's own
  blamed,      \* history: the request that wrote the row's error
  restored,    \* history: the row's error is from a copy read before it changed
  purged,      \* history: revisions that a removal took out of the cache
  stranded     \* history: cached revisions whose one deletion failed or never came

machineVars == <<status, generation, snapshot, manifest, cache>>
requestVars == <<step, purpose, held, surplus>>
fleetHistory == <<claims, born, blamed, restored, purged, stranded>>
fleetVars == <<machineVars, requestVars, copy, removals, fleetHistory>>

RequestKinds == {"refresh", "onboard", "upgrade"}
RequestSteps == {"idle", "asked", "staged", "discard", "done"}

Trusted == status # Absent

\* Nothing read; a row read (or that there is none); a machine's projections to purge.
Unread == [at |-> "unread", status |-> Absent, blamed |-> Absent, surplus |-> Absent]
Copied(row, error) == [at |-> "read", status |-> row, blamed |-> error, surplus |-> Absent]
ToPurge(revision) ==
  [at |-> "purge", status |-> Absent, blamed |-> Absent, surplus |-> revision]

FleetInit ==
  /\ status = Absent
  /\ generation = 0
  /\ snapshot = Absent
  /\ manifest = Absent
  /\ cache = {}
  /\ step = [r \in Exchanges |-> "idle"]
  /\ purpose \in [Exchanges -> RequestKinds]
  /\ held = [r \in Exchanges |-> 0]
  /\ surplus = [r \in Exchanges |-> Absent]
  /\ copy = [k \in Keepers |-> Unread]
  /\ removals = 0
  /\ claims = 0
  /\ born = [r \in Exchanges |-> [removals |-> 0, claims |-> 0]]
  /\ blamed = Absent
  /\ restored = FALSE
  /\ purged = {}
  /\ stranded = {}

RequestAt(r, here) == step[r] = here
RequestTo(r, next) == step' = [step EXCEPT ![r] = next]

-----------------------------------------------------------------------------
(* The machine's row.                                                      *)

\* get_fleet_node or list_nodes, a transaction of its own.
ReadRow(k) ==
  /\ copy[k] = Unread
  /\ copy' = [copy EXCEPT ![k] = Copied(status, blamed)]
  /\ UNCHANGED <<machineVars, requestVars, removals, fleetHistory>>

\* sync_pairings: a pairing without a row gets a pending one before it is asked;
\* under another alias, the row that was read is written back as a whole.
WriteRow(k) ==
  /\ copy[k].at = "read"
  /\ copy' = [copy EXCEPT ![k] = Unread]
  /\ status' = IF copy[k].status = Absent THEN "pending" ELSE copy[k].status
  /\ blamed' = copy[k].blamed
  /\ restored' = (status' = "error" /\ (restored \/ copy[k] # Copied(status, blamed)))
  /\ UNCHANGED <<generation, snapshot, manifest, cache, requestVars, removals, claims, born,
                 purged, stranded>>

\* The row is as the pairing has it, the alias is another machine's, or the
\* process ends.
LeaveRow(k) ==
  /\ copy[k].at = "read"
  /\ copy' = [copy EXCEPT ![k] = Unread]
  /\ UNCHANGED <<machineVars, requestVars, removals, fleetHistory>>

\* delete_fleet_node takes the rows and the generation in one transaction: the
\* machine is no longer paired, is paired under another route, or is removed by
\* the user.
Remove(k) ==
  /\ copy[k].at = "read" /\ copy[k].status # Absent
  /\ removals < MaxRemovals
  /\ removals' = removals + 1
  /\ status' = Absent
  /\ blamed' = Absent
  /\ restored' = FALSE
  /\ generation' = 0
  /\ snapshot' = Absent
  /\ manifest' = Absent
  /\ copy' = [copy EXCEPT ![k] = IF Trusted THEN ToPurge(manifest) ELSE Copied(Absent, Absent)]
  /\ UNCHANGED <<cache, requestVars, claims, born, purged, stranded>>

\* Then the cache database is emptied, whatever has been staged meanwhile.
PurgeCache(k) ==
  /\ copy[k].at = "purge"
  /\ copy' = [copy EXCEPT ![k] = Copied(Absent, Absent)]
  /\ cache' = {}
  /\ purged' = purged \union cache
  /\ stranded' = {}
  /\ UNCHANGED <<status, generation, snapshot, manifest, requestVars, removals, claims, born,
                 blamed, restored>>

\* Its failures are ignored, and the process may end before: nobody tries again.
PurgeFails(k) ==
  /\ copy[k].at = "purge"
  /\ copy' = [copy EXCEPT ![k] = Copied(Absent, Absent)]
  /\ stranded' = stranded \union (cache \intersect {copy[k].surplus})
  /\ UNCHANGED <<machineVars, requestVars, removals, claims, born, blamed, restored, purged>>

KeeperStep(k) ==
  ReadRow(k) \/ WriteRow(k) \/ LeaveRow(k) \/ Remove(k) \/ PurgeCache(k) \/ PurgeFails(k)

-----------------------------------------------------------------------------
(* A request.                                                              *)

\* upgrade_bundle reads the machine's row and claims nothing.
ReadMachine(r) ==
  /\ RequestAt(r, "idle") /\ purpose[r] = "upgrade"
  /\ Trusted
  /\ RequestTo(r, "asked")
  /\ UNCHANGED <<machineVars, purpose, held, surplus, copy, removals, fleetHistory>>

\* Fault: the generation is read and not advanced.
ClaimShared(r) ==
  /\ RequestAt(r, "idle") /\ purpose[r] # "upgrade"
  /\ IF purpose[r] = "refresh" /\ ~Trusted
     THEN RequestTo(r, "done") /\ UNCHANGED <<generation, held, claims, born>>
     ELSE /\ generation' = IF generation = 0 THEN 1 ELSE generation
          /\ held' = [held EXCEPT ![r] = generation']
          /\ claims' = claims + 1
          /\ born' = [born EXCEPT ![r] = [removals |-> removals, claims |-> claims + 1]]
          /\ RequestTo(r, "asked")
  /\ UNCHANGED <<status, snapshot, manifest, cache, purpose, surplus, copy,
                 removals, blamed, restored, purged, stranded>>

\* Claims of refreshes and onboardings share one generation stream; only a
\* refresh needs a trusted machine, and the claim looks for the row again that
\* refresh_node has read.
ClaimRefresh(r) ==
  /\ RequestAt(r, "idle") /\ purpose[r] # "upgrade"
  /\ IF purpose[r] = "refresh" /\ ~Trusted
     THEN RequestTo(r, "done") /\ UNCHANGED <<generation, held, claims, born>>
     ELSE /\ generation' = generation + 1
          /\ held' = [held EXCEPT ![r] = generation + 1]
          /\ claims' = claims + 1
          /\ born' = [born EXCEPT ![r] = [removals |-> removals, claims |-> claims + 1]]
          /\ RequestTo(r, "asked")
  /\ UNCHANGED <<status, snapshot, manifest, cache, purpose, surplus, copy,
                 removals, blamed, restored, purged, stranded>>

\* Fault: a failure is recorded whatever has happened since.
CurrentAlways(r) == TRUE

\* fleet_refresh_is_current.
Current(r) == generation = held[r]

\* The machine is unreachable or its answer is refused.  Only a refresh marks
\* the row, and not when its board is closing.
Fail(r) ==
  /\ RequestAt(r, "asked")
  /\ RequestTo(r, "done")
  /\ \/ /\ purpose[r] = "refresh" /\ Current(r) /\ Trusted
        /\ status' = "error"
        /\ blamed' = r
        /\ restored' = FALSE
     \/ UNCHANGED <<status, blamed, restored>>
  /\ UNCHANGED <<generation, snapshot, manifest, cache, purpose, held, surplus,
                 copy, removals, claims, born, purged, stranded>>

\* upgrade_bundle: the machine runs the new release, and the row read at the
\* beginning is written back as a whole, under no claim.
WriteBack(r) ==
  /\ RequestAt(r, "asked") /\ purpose[r] = "upgrade"
  /\ status' = "ready"
  /\ blamed' = Absent
  /\ restored' = FALSE
  /\ RequestTo(r, "done")
  /\ UNCHANGED <<generation, snapshot, manifest, cache, purpose, held, surplus, copy,
                 removals, claims, born, purged, stranded>>

\* Fault: the projection is left to be staged after the commit.
StageNothing(r) ==
  /\ RequestAt(r, "asked") /\ purpose[r] # "upgrade"
  /\ RequestTo(r, "staged")
  /\ UNCHANGED <<machineVars, purpose, held, surplus, copy, removals, fleetHistory>>

\* The machine has answered.  stage_remote_cache commits to the cache database first.
Stage(r) ==
  /\ RequestAt(r, "asked") /\ purpose[r] # "upgrade"
  /\ cache' = cache \union {r}
  /\ surplus' = [surplus EXCEPT ![r] = r]
  /\ RequestTo(r, "staged")
  /\ UNCHANGED <<status, generation, snapshot, manifest, purpose, held, copy, removals,
                 fleetHistory>>

\* A refused commit, or an error in it, gives up the revision just staged.
GiveUp(r) == UNCHANGED <<status, snapshot, manifest, surplus, blamed, restored>>

\* Fault: the previous revision is forgotten.
SwapForgetting(r) ==
  /\ purpose[r] = "refresh" => Trusted
  /\ status' = "ready"
  /\ snapshot' = r
  /\ manifest' = r
  /\ surplus' = [surplus EXCEPT ![r] = Absent]
  /\ blamed' = Absent
  /\ restored' = FALSE

\* Snapshot, manifest and status change together.  Onboarding creates the row.
Swap(r) ==
  /\ purpose[r] = "refresh" => Trusted
  /\ status' = "ready"
  /\ snapshot' = r
  /\ manifest' = r
  /\ surplus' = [surplus EXCEPT ![r] = manifest]
  /\ blamed' = Absent
  /\ restored' = FALSE

CommitRefresh(r) ==
  /\ RequestAt(r, "staged")
  /\ RequestTo(r, "discard")
  /\ \/ Current(r) /\ Swap(r)
     \/ GiveUp(r)
  /\ UNCHANGED <<generation, cache, purpose, held, copy, removals, claims, born,
                 purged, stranded>>

\* After the transaction the replaced (or refused) revision is deleted.
Discard(r) ==
  /\ RequestAt(r, "discard")
  /\ cache' = cache \ {surplus[r]}
  /\ surplus' = [surplus EXCEPT ![r] = Absent]
  /\ RequestTo(r, "done")
  /\ UNCHANGED <<status, generation, snapshot, manifest, purpose, held, copy, removals,
                 fleetHistory>>

\* The process is killed; or the revision cannot be staged, the store cannot be
\* opened for the commit (open_write, which returns before it can give anything
\* up), or discard_remote_cache_revision meets an error, which it ignores.
EndEarly(r) ==
  /\ step[r] \notin {"idle", "done"}
  /\ stranded' = stranded \union (cache \intersect {surplus[r]})
  /\ surplus' = [surplus EXCEPT ![r] = Absent]
  /\ RequestTo(r, "done")
  /\ UNCHANGED <<machineVars, purpose, held, copy, removals, claims, born, blamed, restored,
                 purged>>

RequestStep(r) ==
  \/ ReadMachine(r) \/ ClaimRefresh(r) \/ Fail(r) \/ Stage(r) \/ WriteBack(r)
  \/ CommitRefresh(r) \/ Discard(r) \/ EndEarly(r)

FleetNext == (\E k \in Keepers : KeeperStep(k)) \/ \E r \in Exchanges : RequestStep(r)

FleetSpec == FleetInit /\ [][FleetNext]_fleetVars

-----------------------------------------------------------------------------
(* Properties.                                                             *)

\* The rows keep their schema, and a trusted machine is what a snapshot is of.
FleetTypeOK ==
  /\ status \in MachineStatuses \union {Absent}
  /\ generation \in 0..Cardinality(Exchanges)
  /\ snapshot \in Exchanges \union {Absent}
  /\ manifest \in Exchanges \union {Absent}
  /\ cache \subseteq Exchanges
  /\ step \in [Exchanges -> RequestSteps]
  /\ held \in [Exchanges -> 0..Cardinality(Exchanges)]
  /\ surplus \in [Exchanges -> Exchanges \union {Absent}]
  /\ copy \in [Keepers -> [at : {"unread", "read", "purge"}, status : MachineStatuses \union {Absent},
                           blamed : Exchanges \union {Absent}, surplus : Exchanges \union {Absent}]]
  /\ snapshot # Absent => Trusted

StartedBefore(r, q) == born[r].claims < born[q].claims
SameTrust(r, q) == born[r].removals = born[q].removals

\* "A later-started request therefore wins even if an older SSH response
\* arrives last" (store.rs:2731): a stored snapshot is never replaced by the
\* answer to an earlier request.
NewerRequestWins ==
  [][\A r, q \in Exchanges :
       snapshot = q /\ snapshot' = r => ~StartedBefore(r, q)]_fleetVars

\* The same among requests with no removal of the machine between their claims:
\* the conditional commit orders any number of slow answers.
SameTrustNewerWins ==
  [][\A r, q \in Exchanges :
       snapshot = q /\ snapshot' = r /\ SameTrust(r, q) => ~StartedBefore(r, q)]_fleetVars

\* The error shown beside a cached snapshot is news: it comes from a request
\* that started after the one that stored the snapshot, never from a slow
\* failure (store.rs:2572).  One writer is under no such rule: sync_pairings,
\* renaming a machine, writes the row back as it read it before (client_board.rs:52),
\* and brings back an error that a refresh cleared in between.  Until the row is
\* written again, the error it restored may be the older one.
ErrorIsNewer ==
  status = "error" /\ snapshot # Absent /\ SameTrust(blamed, snapshot) /\ ~restored
    => StartedBefore(snapshot, blamed)

\* The manifest never names a projection that is not there: it is staged before
\* the swap and only a replaced revision is discarded.  A removal that purges
\* late may still take it; readers then fall back on the snapshot itself.
\* And whatever order commits, refusals and removals take, every other revision
\* in the cache has a process that will delete it, until that process is killed
\* or its one attempt fails: deletions are best effort, nobody repeats them, and
\* what they leave stays until the machine is removed.
CacheMatchesManifest ==
  /\ manifest # Absent => manifest \in cache \union purged
  /\ \A c \in cache :
       \/ c = manifest
       \/ \E r \in Exchanges : surplus[r] = c
       \/ \E k \in Keepers : copy[k].surplus = c
       \/ c \in stranded
=============================================================================
