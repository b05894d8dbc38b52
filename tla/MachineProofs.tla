---------------------------- MODULE MachineProofs ----------------------------
(***************************************************************************)
(* What a machine's databases and files promise, whoever is killed.        *)
(*                                                                         *)
(* FleetRefresh, for any number of requests to a machine that is removed   *)
(* and trusted again: among the requests between two removals the one that *)
(* claimed later wins, an error is news unless a stale copy of the row     *)
(* brought it back, and the manifest and the cache database agree although *)
(* no transaction spans them.                                              *)
(*                                                                         *)
(* Updater, for any number of jobs, versions and power losses: the public  *)
(* launcher runs a complete release, and the activation moves in order.    *)
(* The two components share nothing.                                       *)
(***************************************************************************)
EXTENDS FleetRefresh, Updater, TLAPS

-----------------------------------------------------------------------------
(* One machine of the fleet.                                               *)

RowStatuses == MachineStatuses \union {Absent}
CopyRecord ==
  [at : {"unread", "read", "purge"}, status : RowStatuses, blamed : Exchanges \union {Absent},
   surplus : Exchanges \union {Absent}]

FleetShapes ==
  /\ status \in RowStatuses
  /\ generation \in Nat
  /\ snapshot \in Exchanges \union {Absent}
  /\ manifest \in Exchanges \union {Absent}
  /\ cache \subseteq Exchanges
  /\ step \in [Exchanges -> RequestSteps]
  /\ purpose \in [Exchanges -> RequestKinds]
  /\ held \in [Exchanges -> Nat]
  /\ surplus \in [Exchanges -> Exchanges \union {Absent}]
  /\ copy \in [Keepers -> CopyRecord]
  /\ {removals, claims} \subseteq Nat
  /\ born \in [Exchanges -> [removals : Nat, claims : Nat]]
  /\ blamed \in Exchanges \union {Absent}
  /\ restored \in BOOLEAN
  /\ purged \subseteq Exchanges

Claimed(r) == born[r].claims # 0

\* The generation counts the claims since the last removal, so that between
\* two removals the generations that requests hold are in the order of their
\* claims.  Across a removal they are in no order.
ClaimOrder ==
  /\ \A r \in Exchanges :
       /\ born[r].claims <= claims /\ born[r].removals <= removals
       /\ Claimed(r) /\ born[r].removals = removals => held[r] <= generation
  /\ \A r, q \in Exchanges : Claimed(r) /\ Claimed(q) =>
       /\ SameTrust(r, q) => (held[r] < held[q] <=> StartedBefore(r, q))
       /\ born[r].claims = born[q].claims => r = q

\* The steps after the commit.
Over == {"discard", "done"}

\* An error, stored or copied, is of a request that claimed and failed.
Failed(r) == r \in Exchanges /\ RequestAt(r, "done") /\ Claimed(r)

\* What is in the tables comes from requests that have claimed and are over.
Behind ==
  /\ \A r \in Exchanges :
       (RequestAt(r, "asked") /\ purpose[r] # "upgrade") \/ RequestAt(r, "staged") => Claimed(r)
  /\ snapshot # Absent =>
       step[snapshot] \in Over /\ Claimed(snapshot) /\ held[snapshot] <= generation
  /\ manifest # Absent => step[manifest] \in Over /\ Trusted
  /\ status = "error" => Failed(blamed)
  /\ \A k \in Keepers : copy[k].status = "error" => Failed(copy[k].blamed)

\* What is staged is there to be named; what is to be discarded is named no more.
Discards ==
  /\ \A r \in Exchanges :
       /\ RequestAt(r, "staged") => r \in cache \union purged /\ surplus[r] = r
       /\ surplus[r] # Absent =>
            /\ step[r] \in {"staged", "discard"}
            /\ surplus[r] # manifest
            /\ surplus[r] = r \/ step[surplus[r]] \in Over
  /\ \A k \in Keepers : copy[k].at # "purge" => copy[k].surplus = Absent

FleetInv ==
  FleetShapes /\ ClaimOrder /\ Behind /\ Discards /\ ErrorIsNewer /\ CacheMatchesManifest

-----------------------------------------------------------------------------
(* Types.                                                                  *)

\* The shapes hold at first.
LEMMA FleetShapesInit == FleetInit => FleetShapes
<1> SUFFICES ASSUME FleetInit PROVE FleetShapes
  OBVIOUS
<1>1. born \in [Exchanges -> [removals : Nat, claims : Nat]]
  BY DEF FleetInit
<1>2. Unread \in CopyRecord
  BY DEF Unread, CopyRecord, RowStatuses
<1>3. copy \in [Keepers -> CopyRecord]
  BY <1>2 DEF FleetInit
<1>4. step \in [Exchanges -> RequestSteps] /\ held \in [Exchanges -> Nat]
  BY DEF FleetInit, RequestSteps
<1>5. surplus \in [Exchanges -> Exchanges \union {Absent}]
  BY DEF FleetInit
<1>6. /\ {removals, claims} \subseteq Nat /\ generation \in Nat
      /\ cache \subseteq Exchanges /\ purged \subseteq Exchanges
  BY DEF FleetInit
<1> QED BY <1>1, <1>3, <1>4, <1>5, <1>6 DEF FleetInit, FleetShapes, RowStatuses

\* What a keeper holds is a copy, a debt or nothing.
LEMMA CopyIs ==
  ASSUME FleetShapes, NEW k \in Keepers, KeeperStep(k)
  PROVE \E new \in CopyRecord :
          /\ copy' = [copy EXCEPT ![k] = new]
          /\ \/ new = Unread
             \/ new = Copied(Absent, Absent)
             \/ new = Copied(status, blamed) /\ ReadRow(k)
             \/ new = ToPurge(manifest) /\ Remove(k) /\ Trusted
<1>1. /\ Unread \in CopyRecord /\ Copied(Absent, Absent) \in CopyRecord
      /\ Copied(status, blamed) \in CopyRecord /\ ToPurge(manifest) \in CopyRecord
  BY DEF Unread, Copied, ToPurge, CopyRecord, FleetShapes, RowStatuses
<1>2. CASE ReadRow(k)
  BY <1>1, <1>2 DEF ReadRow
<1>3. CASE WriteRow(k) \/ LeaveRow(k)
  BY <1>1, <1>3 DEF WriteRow, LeaveRow
<1>4. CASE Remove(k)
  <2>1. CASE Trusted
    BY <1>1, <1>4, <2>1 DEF Remove
  <2>2. CASE ~Trusted
    BY <1>1, <1>4, <2>2 DEF Remove
  <2> QED BY <2>1, <2>2
<1>5. CASE PurgeCache(k) \/ PurgeFails(k)
  BY <1>1, <1>5 DEF PurgeCache, PurgeFails
<1> QED BY <1>2, <1>3, <1>4, <1>5 DEF KeeperStep

\* Which keeper's step touches what.
LEMMA KeepersTouch ==
  ASSUME NEW k \in Keepers, KeeperStep(k)
  PROVE /\ UNCHANGED <<step, purpose, held, surplus, claims, born>>
        /\ UNCHANGED <<generation, snapshot, manifest, removals>> \/ Remove(k)
        /\ UNCHANGED <<status, blamed, restored>> \/ WriteRow(k) \/ Remove(k)
        /\ UNCHANGED <<cache, purged>> \/ PurgeCache(k)
<1> USE DEF machineVars, requestVars, fleetHistory
<1>1. CASE ReadRow(k)
  BY <1>1 DEF ReadRow
<1>2. CASE WriteRow(k)
  BY <1>2 DEF WriteRow
<1>3. CASE LeaveRow(k)
  BY <1>3 DEF LeaveRow
<1>4. CASE Remove(k)
  BY <1>4 DEF Remove
<1>5. CASE PurgeCache(k)
  BY <1>5 DEF PurgeCache
<1>6. CASE PurgeFails(k)
  BY <1>6 DEF PurgeFails
<1> QED BY <1>1, <1>2, <1>3, <1>4, <1>5, <1>6 DEF KeeperStep

\* The shapes are inductive.
LEMMA FleetShapesStep ==
  ASSUME FleetShapes, [FleetNext]_fleetVars
  PROVE FleetShapes'
<1> USE DEF FleetShapes, RequestTo, RequestSteps, RowStatuses, MachineStatuses
<1>1. CASE UNCHANGED fleetVars
  BY <1>1 DEF fleetVars, machineVars, requestVars, fleetHistory
<1>2. ASSUME NEW k \in Keepers, KeeperStep(k) PROVE FleetShapes'
  <2>1. copy' \in [Keepers -> CopyRecord]
    BY <1>2, CopyIs
  <2>2. CASE WriteRow(k)
    <3>1. copy[k].status \in RowStatuses /\ copy[k].blamed \in Exchanges \union {Absent}
      BY DEF CopyRecord
    <3>2. /\ status' \in RowStatuses /\ blamed' \in Exchanges \union {Absent}
          /\ restored' \in BOOLEAN
      BY <2>2, <3>1 DEF WriteRow
    <3> QED BY <2>1, <2>2, <3>2 DEF WriteRow, requestVars
  <2>3. CASE Remove(k)
    <3>1. /\ status' = Absent /\ blamed' = Absent /\ restored' = FALSE /\ generation' = 0
          /\ snapshot' = Absent /\ manifest' = Absent /\ removals' = removals + 1
          /\ UNCHANGED <<cache, step, purpose, held, surplus, claims, born, purged>>
      BY <2>3 DEF Remove, requestVars
    <3>2. {removals, claims}' \subseteq Nat
      BY <3>1
    <3>3. /\ status' \in RowStatuses /\ generation' \in Nat
          /\ {snapshot', manifest', blamed'} \subseteq Exchanges \union {Absent}
      BY <3>1
    <3> QED BY ONLY FleetShapes, <2>1, <3>1, <3>2, <3>3 DEF FleetShapes
  <2>4. CASE PurgeCache(k)
    BY <2>1, <2>4 DEF PurgeCache, requestVars
  <2>5. CASE ReadRow(k) \/ LeaveRow(k) \/ PurgeFails(k)
    BY <2>1, <2>5 DEF ReadRow, LeaveRow, PurgeFails, machineVars, requestVars, fleetHistory
  <2> QED BY <1>2, <2>2, <2>3, <2>4, <2>5 DEF KeeperStep
<1>3. ASSUME NEW r \in Exchanges, ReadMachine(r) PROVE FleetShapes'
  BY <1>3 DEF ReadMachine, machineVars, fleetHistory
<1>4. ASSUME NEW r \in Exchanges, ClaimRefresh(r) PROVE FleetShapes'
  <2>1. CASE UNCHANGED <<generation, held, claims, born>>
    BY <1>4, <2>1 DEF ClaimRefresh
  <2>2. CASE /\ generation' = generation + 1 /\ held' = [held EXCEPT ![r] = generation + 1]
             /\ claims' = claims + 1
             /\ born' = [born EXCEPT ![r] = [removals |-> removals, claims |-> claims + 1]]
    <3>1. [removals |-> removals, claims |-> claims + 1] \in [removals : Nat, claims : Nat]
      OBVIOUS
    <3>2. born' \in [Exchanges -> [removals : Nat, claims : Nat]]
      BY <2>2, <3>1
    <3> QED BY <1>4, <2>2, <3>2 DEF ClaimRefresh
  <2> QED BY <1>4, <2>1, <2>2 DEF ClaimRefresh
<1>5. ASSUME NEW r \in Exchanges, Fail(r) PROVE FleetShapes'
  BY <1>5 DEF Fail
<1>6. ASSUME NEW r \in Exchanges, WriteBack(r) PROVE FleetShapes'
  BY <1>6 DEF WriteBack
<1>7. ASSUME NEW r \in Exchanges, Stage(r) PROVE FleetShapes'
  BY <1>7 DEF Stage, fleetHistory
<1>8. ASSUME NEW r \in Exchanges, CommitRefresh(r) PROVE FleetShapes'
  BY <1>8 DEF CommitRefresh, Swap, GiveUp
<1>9. ASSUME NEW r \in Exchanges, Discard(r) PROVE FleetShapes'
  BY <1>9 DEF Discard, fleetHistory
<1>10. ASSUME NEW r \in Exchanges, EndEarly(r) PROVE FleetShapes'
  BY <1>10 DEF EndEarly, machineVars
<1> QED BY <1>1, <1>2, <1>3, <1>4, <1>5, <1>6, <1>7, <1>8, <1>9, <1>10
     DEF FleetNext, RequestStep

\* Which step touches what.
LEMMA RequestsTouch ==
  ASSUME NEW r \in Exchanges, RequestStep(r)
  PROVE /\ \E next \in RequestSteps : RequestTo(r, next)
        /\ UNCHANGED <<purpose, copy, removals, purged>>
        /\ UNCHANGED <<generation, held, claims, born>> \/ ClaimRefresh(r)
        /\ UNCHANGED <<snapshot, manifest>> \/ (Current(r) /\ Swap(r) /\ CommitRefresh(r))
        /\ UNCHANGED surplus \/ \E c : surplus' = [surplus EXCEPT ![r] = c]
        /\ UNCHANGED <<status, blamed, restored>> \/ status' = "ready" \/ Fail(r)
        /\ UNCHANGED cache \/ Stage(r) \/ Discard(r)
<1> USE DEF RequestTo, RequestSteps, machineVars, fleetHistory
<1>1. CASE ReadMachine(r)
  BY <1>1 DEF ReadMachine
<1>2. CASE ClaimRefresh(r)
  BY <1>2 DEF ClaimRefresh
<1>3. CASE EndEarly(r)
  BY <1>3 DEF EndEarly
<1>4. CASE Fail(r)
  BY <1>4 DEF Fail
<1>5. CASE Stage(r)
  BY <1>5 DEF Stage
<1>6. CASE WriteBack(r)
  BY <1>6 DEF WriteBack
<1>7. CASE CommitRefresh(r)
  BY <1>7 DEF CommitRefresh, Swap, GiveUp
<1>8. CASE Discard(r)
  BY <1>8 DEF Discard
<1> QED BY <1>1, <1>2, <1>3, <1>4, <1>5, <1>6, <1>7, <1>8 DEF RequestStep

\* A request that is over, or has not begun to commit, keeps its claim.
LEMMA StepsOnward ==
  ASSUME FleetShapes, NEW r \in Exchanges, RequestStep(r)
  PROVE /\ step[r] \in Over => step'[r] \in Over /\ step[r] # "done"
        /\ \A q \in Exchanges : q # r => step'[q] = step[q]
        /\ step'[r] = "staged" => Stage(r)
        /\ step'[r] = "discard" => CommitRefresh(r)
        /\ ClaimRefresh(r) => step[r] = "idle" /\ step'[r] \in {"asked", "done"}
<1> USE DEF FleetShapes, RequestTo, RequestAt, RequestSteps, Over
<1>1. CASE ReadMachine(r)
  BY <1>1 DEF ReadMachine, ClaimRefresh
<1>2. CASE ClaimRefresh(r)
  BY <1>2 DEF ClaimRefresh
<1>3. CASE EndEarly(r)
  BY <1>3 DEF EndEarly, ClaimRefresh
<1>4. CASE Fail(r)
  BY <1>4 DEF Fail, ClaimRefresh
<1>5. CASE Stage(r)
  BY <1>5 DEF Stage, ClaimRefresh
<1>6. CASE WriteBack(r)
  BY <1>6 DEF WriteBack, ClaimRefresh
<1>7. CASE CommitRefresh(r)
  BY <1>7 DEF CommitRefresh, ClaimRefresh
<1>8. CASE Discard(r)
  BY <1>8 DEF Discard, ClaimRefresh
<1> QED BY <1>1, <1>2, <1>3, <1>4, <1>5, <1>6, <1>7, <1>8 DEF RequestStep

-----------------------------------------------------------------------------
(* The order of claims.                                                    *)

\* A claim: the next generation, and a later claim than any other.
LEMMA ClaimIs ==
  ASSUME FleetShapes, NEW r \in Exchanges, ClaimRefresh(r)
  PROVE /\ UNCHANGED <<status, snapshot, manifest, blamed, removals>>
        /\ \/ UNCHANGED <<generation, held, claims, born>> /\ step'[r] = "done"
           \/ /\ step'[r] = "asked"
              /\ generation' = generation + 1 /\ held'[r] = generation + 1
              /\ claims' = claims + 1
              /\ born'[r].removals = removals /\ born'[r].claims = claims + 1
              /\ \A q \in Exchanges : q # r => held'[q] = held[q] /\ born'[q] = born[q]
<1> USE DEF FleetShapes, ClaimRefresh, RequestTo
<1>1. CASE UNCHANGED <<generation, held, claims, born>> /\ RequestTo(r, "done")
  BY <1>1
<1>2. CASE /\ generation' = generation + 1 /\ held' = [held EXCEPT ![r] = generation']
           /\ claims' = claims + 1 /\ RequestTo(r, "asked")
           /\ born' = [born EXCEPT ![r] = [removals |-> removals, claims |-> claims + 1]]
  <2>1. born'[r] = [removals |-> removals, claims |-> claims + 1]
    BY <1>2
  <2> QED BY <1>2, <2>1
<1>3. CASE /\ generation' = generation + 1 /\ held' = [held EXCEPT ![r] = generation + 1]
           /\ claims' = claims + 1 /\ RequestTo(r, "asked")
           /\ born' = [born EXCEPT ![r] = [removals |-> removals, claims |-> claims + 1]]
  <2>1. born'[r] = [removals |-> removals, claims |-> claims + 1]
    BY <1>3
  <2> QED BY <1>3, <2>1
<1> QED BY <1>1, <1>3

\* Between two removals generations are given in order of the claims.
LEMMA ClaimOrderStep ==
  ASSUME FleetShapes, ClaimOrder, [FleetNext]_fleetVars
  PROVE ClaimOrder'
<1>1. CASE UNCHANGED <<generation, held, claims, born, removals>>
  BY <1>1 DEF ClaimOrder, Claimed, SameTrust, StartedBefore
<1>2. ASSUME NEW k \in Keepers, Remove(k) PROVE ClaimOrder'
  <2>1. removals' = removals + 1 /\ generation' = 0 /\ UNCHANGED <<held, claims, born>>
    BY <1>2 DEF Remove, requestVars
  <2>2. \A r \in Exchanges : born[r].removals \in Nat /\ removals \in Nat
    BY DEF FleetShapes
  <2> QED BY <2>1, <2>2 DEF ClaimOrder, Claimed, SameTrust, StartedBefore
<1>3. ASSUME NEW r \in Exchanges, ClaimRefresh(r), ~UNCHANGED <<generation, held, claims, born>>
      PROVE ClaimOrder'
  <2>1. /\ generation' = generation + 1 /\ held'[r] = generation + 1
        /\ claims' = claims + 1 /\ removals' = removals
        /\ born'[r].removals = removals /\ born'[r].claims = claims + 1
        /\ \A q \in Exchanges : q # r => held'[q] = held[q] /\ born'[q] = born[q]
    BY <1>3, ClaimIs
  <2>2. /\ generation \in Nat /\ claims \in Nat /\ removals \in Nat
        /\ \A q \in Exchanges : born[q].removals \in Nat /\ born[q].claims \in Nat /\ held[q] \in Nat
    BY DEF FleetShapes
  <2>3. ASSUME NEW q \in Exchanges
        PROVE /\ born'[q].claims <= claims' /\ born'[q].removals <= removals'
              /\ Claimed(q)' /\ born'[q].removals = removals' => held'[q] <= generation'
    BY <2>1, <2>2 DEF ClaimOrder, Claimed
  <2>4. ASSUME NEW q \in Exchanges, q # r, Claimed(q)'
        PROVE /\ born'[q].claims < born'[r].claims
              /\ SameTrust(q, r)' => held'[q] < held'[r]
    BY <2>1, <2>2, <2>4 DEF ClaimOrder, Claimed, SameTrust
  <2>5. \A q \in Exchanges : /\ born'[q].claims \in Nat /\ held'[q] \in Nat
    BY <2>1, <2>2
  <2>6. ASSUME NEW p \in Exchanges, NEW q \in Exchanges, Claimed(p)', Claimed(q)'
        PROVE /\ SameTrust(p, q)' => (held'[p] < held'[q] <=> StartedBefore(p, q)')
              /\ born'[p].claims = born'[q].claims => p = q
    <3>1. CASE p # r /\ q # r
      BY <2>1, <2>6, <3>1 DEF ClaimOrder, Claimed, SameTrust, StartedBefore
    <3>2. CASE p = r \/ q = r
      BY <2>4, <2>5, <2>6, <3>2 DEF SameTrust, StartedBefore
    <3> QED BY <3>1, <3>2
  <2> QED BY <2>3, <2>6 DEF ClaimOrder
<1> QED BY <1>1, <1>2, <1>3, KeepersTouch, RequestsTouch
     DEF FleetNext, fleetVars, machineVars, requestVars, fleetHistory

-----------------------------------------------------------------------------
(* What is behind the tables.                                              *)

\* No request holds a generation that the ledger has not given.
LEMMA BehindStep ==
  ASSUME FleetShapes, Behind, [FleetNext]_fleetVars
  PROVE Behind'
<1>1. CASE UNCHANGED fleetVars
  BY <1>1 DEF fleetVars, machineVars, requestVars, fleetHistory, Behind, Claimed, RequestAt,
              Failed, Trusted
<1>2. ASSUME NEW k \in Keepers, KeeperStep(k) PROVE Behind'
  <2>1. UNCHANGED <<step, purpose, born, held>>
    BY <1>2, KeepersTouch
  <2>2. \A b : Failed(b) => Failed(b)'
    BY <2>1 DEF Failed, Claimed, RequestAt
  <2>3. /\ snapshot' = Absent \/ UNCHANGED <<snapshot, generation>>
        /\ manifest' = Absent \/ (UNCHANGED manifest /\ (Trusted => Trusted'))
    <3>1. WriteRow(k) => Trusted'
      BY FleetConstants DEF WriteRow, Trusted, MachineStatuses
    <3>2. Remove(k) => snapshot' = Absent /\ manifest' = Absent
      BY DEF Remove
    <3> QED BY <1>2, <3>1, <3>2, KeepersTouch DEF Trusted
  <2>4. ASSUME status' = "error" PROVE Failed(blamed)'
    <3>1. CASE WriteRow(k)
      BY <2>2, <2>4, <3>1 DEF WriteRow, Behind
    <3>2. ~Remove(k)
      BY <2>4, FleetConstants DEF Remove, MachineStatuses
    <3>3. CASE UNCHANGED <<status, blamed>>
      BY <2>2, <2>4, <3>3 DEF Behind
    <3> QED BY <1>2, <3>1, <3>2, <3>3, KeepersTouch
  <2>5. ASSUME NEW l \in Keepers, copy'[l].status = "error" PROVE Failed(copy[l].blamed)'
    <3>1. CASE l # k
      <4>1. copy'[l] = copy[l]
        BY <1>2, <3>1, CopyIs DEF FleetShapes
      <4> QED BY <2>2, <2>5, <4>1 DEF Behind
    <3>2. CASE l = k
      <4>1. PICK new \in CopyRecord :
              /\ copy' = [copy EXCEPT ![k] = new]
              /\ \/ new = Unread
                 \/ new = Copied(Absent, Absent)
                 \/ new = Copied(status, blamed)
                 \/ new = ToPurge(manifest)
        BY <1>2, CopyIs
      <4>2. copy'[k] = new
        BY <4>1 DEF FleetShapes
      <4>3. new = Copied(status, blamed) /\ status = "error"
        BY <2>5, <3>2, <4>1, <4>2, FleetConstants DEF Unread, Copied, ToPurge, MachineStatuses
      <4> QED BY <2>2, <3>2, <4>2, <4>3 DEF Copied, Behind
    <3> QED BY <3>1, <3>2
  <2> QED BY <2>1, <2>3, <2>4, <2>5 DEF Behind, Claimed, RequestAt
<1>3. ASSUME NEW r \in Exchanges, RequestStep(r) PROVE Behind'
  <2>1. /\ step[r] \in Over => step'[r] \in Over /\ step[r] # "done"
        /\ \A q \in Exchanges : q # r => step'[q] = step[q]
        /\ ClaimRefresh(r) => step[r] = "idle" /\ step'[r] \in {"asked", "done"}
    BY <1>3, StepsOnward
  <2>2. \A q \in Exchanges : step[q] \in Over => step'[q] \in Over
    BY <2>1
  <2>3. \A q \in Exchanges : Claimed(q) /\ ~(ClaimRefresh(r) /\ q = r) => Claimed(q)' /\ held'[q] = held[q]
    BY <1>3, ClaimIs, RequestsTouch DEF Claimed
  <2>4. generation <= generation'
    BY <1>3, ClaimIs, RequestsTouch DEF FleetShapes
  <2>5. ASSUME NEW q \in Exchanges,
               (RequestAt(q, "asked")' /\ purpose'[q] # "upgrade")
               \/ RequestAt(q, "staged")'
        PROVE Claimed(q)'
    <3>1. CASE q # r
      BY <1>3, <2>1, <2>3, <2>5, <3>1, RequestsTouch DEF Behind, RequestAt
    <3>2. CASE q = r /\ ClaimRefresh(r)
      BY <2>1, <2>5, <3>2, ClaimIs DEF Claimed, FleetShapes, RequestAt
    <3>3. CASE q = r /\ ~ClaimRefresh(r)
      <4>1. purpose' = purpose
        BY <1>3, RequestsTouch
      <4>3. CASE Stage(r)
        BY <2>3, <2>5, <3>3, <4>1, <4>3 DEF Stage, Behind, RequestAt
      <4>4. CASE ReadMachine(r)
        BY <2>5, <3>3, <4>1, <4>4 DEF ReadMachine, RequestTo, RequestAt, FleetShapes
      <4>5. CASE Fail(r) \/ WriteBack(r) \/ CommitRefresh(r) \/ Discard(r) \/ EndEarly(r)
        BY <2>5, <3>3, <4>5
           DEF Fail, WriteBack, CommitRefresh, Discard, EndEarly, RequestTo, RequestAt,
               FleetShapes
      <4> QED BY <1>3, <3>3, <4>3, <4>4, <4>5 DEF RequestStep
    <3> QED BY <3>1, <3>2, <3>3
  <2>6. \A b : Failed(b) => Failed(b)'
    BY <2>1, <2>3 DEF Failed, RequestAt, Over
  <2>7. \A k \in Keepers : copy'[k].status = "error" => Failed(copy[k].blamed)'
    BY <1>3, <2>6, RequestsTouch DEF Behind
  <2>8. CASE UNCHANGED <<snapshot, manifest>>
    <3>1. snapshot' # Absent =>
            step'[snapshot'] \in Over /\ Claimed(snapshot)' /\ held'[snapshot'] <= generation'
      <4> SUFFICES ASSUME snapshot # Absent
                   PROVE step'[snapshot] \in Over /\ Claimed(snapshot)'
                         /\ held'[snapshot] <= generation'
        BY <2>8
      <4>1. PICK q \in Exchanges : q = snapshot
        BY DEF FleetShapes
      <4>2. step[q] \in Over /\ Claimed(q) /\ held[q] <= generation /\ ~(ClaimRefresh(r) /\ q = r)
        BY <2>1, <4>1 DEF Behind, Over
      <4>3. generation \in Nat /\ generation' \in Nat /\ held[q] \in Nat
        BY <1>3, ClaimIs, RequestsTouch DEF FleetShapes
      <4>4. Claimed(q)' /\ held'[q] <= generation'
        BY <2>3, <2>4, <4>2, <4>3
      <4> QED BY <2>2, <2>8, <4>1, <4>2, <4>4 DEF Claimed
    <3>2. manifest' # Absent => step'[manifest'] \in Over /\ Trusted'
      <4>1. Trusted => Trusted'
        BY <1>3, RequestsTouch, FleetConstants DEF Trusted, Fail, MachineStatuses
      <4> QED BY <2>2, <2>8, <4>1 DEF Behind, FleetShapes
    <3>3. status' = "error" => Failed(blamed)'
      <4>1. CASE Fail(r) /\ ~UNCHANGED <<status, blamed>>
        <5>1. blamed' = r /\ step'[r] = "done" /\ Claimed(r) /\ ~ClaimRefresh(r)
          BY <2>1, <4>1 DEF Fail, Behind, RequestTo, RequestAt, FleetShapes
        <5> QED BY <2>3, <5>1 DEF Failed, RequestAt, Claimed
      <4>2. CASE UNCHANGED <<status, blamed>>
        BY <2>6, <4>2 DEF Behind
      <4> QED BY <1>3, <4>1, <4>2, RequestsTouch
    <3> QED BY <2>5, <2>7, <3>1, <3>2, <3>3 DEF Behind
  <2>9. CASE Current(r) /\ Swap(r) /\ CommitRefresh(r)
    <3>1. /\ step[r] = "staged" /\ step'[r] = "discard" /\ generation' = generation
          /\ UNCHANGED <<held, born>> /\ generation = held[r]
      BY <2>9 DEF CommitRefresh, RequestAt, RequestTo, Current, FleetShapes
    <3>2. Claimed(r)' /\ held'[r] <= generation'
      BY <3>1 DEF Behind, RequestAt, Claimed, FleetShapes
    <3>3. snapshot' = r /\ manifest' = r /\ status' = "ready" /\ Trusted'
      BY <2>9, FleetConstants DEF Swap, Trusted, MachineStatuses
    <3> QED BY <2>5, <2>7, <3>1, <3>2, <3>3 DEF Behind, Over, Claimed
  <2> QED BY <1>3, <2>8, <2>9, RequestsTouch
<1> QED BY <1>1, <1>2, <1>3 DEF FleetNext

\* The inductive invariant holds at first.
LEMMA FleetInvInit == FleetInit => FleetInv
<1> SUFFICES ASSUME FleetInit PROVE FleetInv
  OBVIOUS
<1>1. ClaimOrder
  BY DEF FleetInit, ClaimOrder, Claimed
<1>2. Behind
  BY FleetConstants DEF FleetInit, Behind, RequestAt, MachineStatuses, Unread
<1>3. Discards /\ ErrorIsNewer /\ CacheMatchesManifest
  BY DEF FleetInit, Discards, RequestAt, ErrorIsNewer, CacheMatchesManifest, Unread
<1> QED BY <1>1, <1>2, <1>3, FleetShapesInit DEF FleetInv

\* What a claim does not change: the claims of the requests behind the tables.
LEMMA BornStays ==
  ASSUME FleetShapes, Behind, NEW r \in Exchanges, RequestStep(r), NEW q \in Exchanges,
         step[q] \in Over \/ RequestAt(q, "asked") \/ RequestAt(q, "staged")
  PROVE born'[q] = born[q]
<1>1. ClaimRefresh(r) => step[r] = "idle"
  BY StepsOnward
<1>2. UNCHANGED born \/ (ClaimRefresh(r) /\ \A p \in Exchanges : p # r => born'[p] = born[p])
  BY ClaimIs, RequestsTouch
<1> QED BY <1>1, <1>2 DEF Over, RequestAt

\* An error that is shown stays newer than the snapshot beside it.
LEMMA ErrorStep ==
  ASSUME FleetShapes, ClaimOrder, Behind, ErrorIsNewer, [FleetNext]_fleetVars
  PROVE ErrorIsNewer'
<1>1. CASE UNCHANGED <<status, snapshot, born, blamed, restored>>
  BY <1>1 DEF ErrorIsNewer, SameTrust, StartedBefore
<1>2. ASSUME NEW k \in Keepers, KeeperStep(k) PROVE ErrorIsNewer'
  <2>1. CASE WriteRow(k)
    <3> SUFFICES ASSUME status' = "error", ~restored' PROVE ErrorIsNewer'
      BY DEF ErrorIsNewer
    <3>1. /\ copy[k] = Copied(status, blamed) /\ ~restored
          /\ copy[k].status = "error" /\ blamed' = copy[k].blamed
      BY <2>1 DEF WriteRow
    <3>2. status = "error" /\ blamed' = blamed
      BY <3>1 DEF Copied
    <3>3. UNCHANGED <<snapshot, born>>
      BY <2>1 DEF WriteRow
    <3> QED BY <3>1, <3>2, <3>3 DEF ErrorIsNewer, SameTrust, StartedBefore
  <2>2. CASE Remove(k)
    BY <2>2 DEF Remove, ErrorIsNewer
  <2> QED BY <1>1, <1>2, <2>1, <2>2, KeepersTouch
<1>3. ASSUME NEW r \in Exchanges, RequestStep(r) PROVE ErrorIsNewer'
  <2> SUFFICES ASSUME status' = "error", snapshot' # Absent, SameTrust(blamed, snapshot)',
                      ~restored'
               PROVE StartedBefore(snapshot, blamed)'
    BY DEF ErrorIsNewer
  <2>1. UNCHANGED snapshot
    BY <1>3, RequestsTouch DEF Swap
  <2>2. PICK q \in Exchanges : q = snapshot /\ q = snapshot'
    BY <2>1 DEF FleetShapes
  <2>3. step[q] \in Over /\ Claimed(q) /\ held[q] <= generation /\ born'[q] = born[q]
    BY <1>3, <2>1, <2>2, BornStays DEF Behind
  <2>4. CASE Fail(r) /\ ~UNCHANGED <<status, blamed, restored>>
    <3>1. /\ blamed' = r /\ RequestAt(r, "asked") /\ purpose[r] = "refresh" /\ generation = held[r]
          /\ born' = born
      BY <2>4 DEF Fail, Current
    <3>2. Claimed(r) /\ r # q
      BY <2>3, <3>1 DEF Behind, RequestAt, Over
    <3>3. SameTrust(r, q) /\ SameTrust(q, r)
      BY <2>2, <3>1 DEF SameTrust
    <3>4. /\ held[r] < held[q] <=> StartedBefore(r, q)
          /\ born[r].claims # born[q].claims
      BY <2>3, <3>2, <3>3 DEF ClaimOrder
    <3>5. /\ held[r] \in Nat /\ held[q] \in Nat
          /\ born[r].claims \in Nat /\ born[q].claims \in Nat
      BY DEF FleetShapes
    <3>6. born[q].claims < born[r].claims
      BY <2>3, <3>1, <3>4, <3>5 DEF StartedBefore
    <3> QED BY <2>2, <3>1, <3>6 DEF StartedBefore
  <2>5. CASE UNCHANGED <<status, blamed, restored>>
    <3>1. PICK p \in Exchanges : p = blamed /\ p = blamed'
      BY <2>5 DEF Behind, Failed
    <3>2. born'[p] = born[p]
      BY <1>3, <2>5, <3>1, BornStays DEF Behind, Failed, RequestAt, Over
    <3>3. SameTrust(blamed, snapshot)
      BY <2>2, <2>3, <3>1, <3>2 DEF SameTrust
    <3>4. StartedBefore(snapshot, blamed)
      BY <2>1, <2>5, <3>3 DEF ErrorIsNewer
    <3> QED BY <2>2, <2>3, <3>1, <3>2, <3>4 DEF StartedBefore
  <2> QED BY <1>3, <2>4, <2>5, RequestsTouch
<1> QED BY <1>1, <1>2, <1>3
     DEF FleetNext, fleetVars, machineVars, requestVars, fleetHistory

-----------------------------------------------------------------------------
(* Manifest and cache.                                                     *)

\* What a request is about to discard is not what the manifest names.
LEMMA DiscardsStep ==
  ASSUME FleetShapes, Behind, Discards, [FleetNext]_fleetVars
  PROVE Discards'
<1>1. CASE UNCHANGED fleetVars
  BY <1>1 DEF fleetVars, machineVars, requestVars, fleetHistory, Discards, RequestAt
<1>2. ASSUME NEW k \in Keepers, KeeperStep(k) PROVE Discards'
  <2>1. UNCHANGED <<step, surplus>>
    BY <1>2, KeepersTouch
  <2>2. /\ cache \union purged \subseteq cache' \union purged'
        /\ manifest' = manifest \/ manifest' = Absent
    BY <1>2, KeepersTouch DEF PurgeCache, Remove
  <2>3. ASSUME NEW l \in Keepers, copy'[l].at # "purge" PROVE copy'[l].surplus = Absent
    <3>1. CASE l # k
      BY <1>2, <2>3, <3>1, CopyIs DEF Discards, FleetShapes
    <3>2. CASE l = k
      <4>1. PICK new \in CopyRecord :
              /\ copy' = [copy EXCEPT ![k] = new]
              /\ \/ new = Unread
                 \/ new = Copied(Absent, Absent)
                 \/ new = Copied(status, blamed)
                 \/ new = ToPurge(manifest)
        BY <1>2, CopyIs
      <4>2. copy'[k] = new
        BY <4>1 DEF FleetShapes
      <4> QED BY <2>3, <3>2, <4>1, <4>2 DEF Unread, Copied, ToPurge
    <3> QED BY <3>1, <3>2
  <2> QED BY <2>1, <2>2, <2>3 DEF Discards, RequestAt
<1>3. ASSUME NEW r \in Exchanges, RequestStep(r), NEW q \in Exchanges, RequestAt(q, "staged")'
      PROVE q \in cache' \union purged' /\ surplus'[q] = q
  <2>1. CASE Stage(r) /\ q = r
    BY <2>1 DEF Stage, FleetShapes
  <2>2. CASE ~(Stage(r) /\ q = r)
    <3>1. RequestAt(q, "staged") /\ q # r
      BY <1>3, <2>2, StepsOnward DEF RequestAt
    <3>2. q \in cache \union purged /\ surplus[q] = q /\ surplus'[q] = q /\ purged' = purged
      BY <1>3, <3>1, RequestsTouch DEF Discards, FleetShapes
    <3>3. CASE Discard(r)
      <4>1. q # surplus[r]
        BY <3>1, <3>3, FleetConstants DEF Discard, Discards, RequestAt, Over
      <4> QED BY <3>2, <3>3, <4>1 DEF Discard
    <3>4. CASE UNCHANGED cache \/ Stage(r)
      BY <3>2, <3>4 DEF Stage
    <3> QED BY <1>3, <3>2, <3>3, <3>4, RequestsTouch
  <2> QED BY <2>1, <2>2
<1>4. ASSUME NEW r \in Exchanges, RequestStep(r), NEW q \in Exchanges, surplus'[q] # Absent
      PROVE /\ step'[q] \in {"staged", "discard"}
            /\ surplus'[q] # manifest'
            /\ surplus'[q] = q \/ step'[surplus'[q]] \in Over
  <2>1. \A p \in Exchanges : step[p] \in Over => step'[p] \in Over
    BY <1>4, StepsOnward
  <2>2. manifest # Absent => step[manifest] \in Over /\ manifest \in Exchanges
    BY DEF Behind, FleetShapes
  <2>3. CASE q # r
    <3>1. surplus'[q] = surplus[q] /\ step'[q] = step[q]
      BY <1>4, <2>3, RequestsTouch, StepsOnward DEF FleetShapes
    <3>2. /\ surplus[q] \in Exchanges /\ surplus[q] # manifest /\ step[q] \in {"staged", "discard"}
          /\ surplus[q] = q \/ step[surplus[q]] \in Over
      BY <1>4, <3>1 DEF Discards, FleetShapes
    <3>3. manifest' = manifest \/ (manifest' = r /\ step[r] = "staged")
      BY <1>4, RequestsTouch DEF Swap, CommitRefresh, RequestAt
    <3> QED BY <2>1, <2>3, <3>1, <3>2, <3>3 DEF Over
  <2>4. CASE q = r /\ Stage(r)
    <3>1. /\ step[r] = "asked" /\ step'[r] = "staged" /\ surplus'[r] = r /\ manifest' = manifest
      BY <2>4 DEF Stage, RequestAt, RequestTo, FleetShapes
    <3> QED BY <2>2, <2>4, <3>1, FleetConstants DEF Over
  <2>5. CASE q = r /\ CommitRefresh(r)
    <3>1. step[r] = "staged" /\ step'[r] = "discard" /\ surplus[r] = r
      BY <2>5 DEF CommitRefresh, RequestAt, RequestTo, FleetShapes, Discards
    <3>2. CASE Swap(r)
      <4>1. manifest' = r /\ surplus'[r] = manifest
        BY <3>2 DEF Swap, FleetShapes
      <4> QED BY <1>4, <2>1, <2>2, <2>5, <3>1, <4>1 DEF Over
    <3>3. CASE GiveUp(r)
      <4>1. manifest' = manifest /\ surplus'[r] = r
        BY <3>1, <3>3 DEF GiveUp, FleetShapes
      <4> QED BY <1>4, <2>2, <2>5, <3>1, <4>1, FleetConstants DEF Over
    <3> QED BY <2>5, <3>2, <3>3 DEF CommitRefresh
  <2>6. CASE q = r /\ (Discard(r) \/ EndEarly(r))
    BY <1>4, <2>6 DEF Discard, EndEarly, FleetShapes
  <2>7. CASE q = r /\ (ReadMachine(r) \/ ClaimRefresh(r) \/ Fail(r) \/ WriteBack(r))
    <3>1. surplus'[r] = surplus[r] /\ step[r] \in {"idle", "asked"}
      BY <2>7 DEF ReadMachine, ClaimRefresh, Fail, WriteBack, RequestAt
    <3> QED BY <1>4, <2>7, <3>1 DEF Discards
  <2> QED BY <1>4, <2>3, <2>4, <2>5, <2>6, <2>7 DEF RequestStep
<1>5. ASSUME NEW r \in Exchanges, RequestStep(r) PROVE Discards'
  BY <1>3, <1>4, <1>5, RequestsTouch DEF Discards
<1> QED BY <1>1, <1>2, <1>5 DEF FleetNext

\* A revision that is named, that somebody owes the removal of, or that was left behind.
Owed(c) ==
  \/ c = manifest
  \/ \E r \in Exchanges : surplus[r] = c
  \/ \E k \in Keepers : copy[k].surplus = c
  \/ c \in stranded

\* A projection that a request leaves in the cache stays owed.
LEMMA OwedAfterRequest ==
  ASSUME FleetShapes, Behind, Discards, NEW r \in Exchanges, RequestStep(r),
         NEW c \in Exchanges, c \in cache => Owed(c), c \in cache'
  PROVE Owed(c)'
<1>1. copy' = copy
  BY RequestsTouch
<1>2. CASE UNCHANGED <<surplus, manifest, cache, stranded>>
  BY <1>1, <1>2 DEF Owed
<1>3. CASE Stage(r)
  <2>1. surplus[r] = Absent /\ surplus' = [surplus EXCEPT ![r] = r]
    BY <1>3 DEF Stage, Discards, RequestAt
  <2>2. UNCHANGED <<manifest, stranded>> /\ (c = r \/ c \in cache)
    BY <1>3 DEF Stage, fleetHistory
  <2>3. \A q \in Exchanges : surplus[q] = c => surplus'[q] = c
    BY <2>1, FleetConstants DEF FleetShapes
  <2>4. c = r => surplus'[r] = c
    BY <2>1 DEF FleetShapes
  <2> QED BY <1>1, <2>2, <2>3, <2>4 DEF Owed
<1>4. CASE CommitRefresh(r)
  <2>1. UNCHANGED <<cache, stranded>> /\ surplus[r] = r
    BY <1>4 DEF CommitRefresh, Discards
  <2>2. /\ \A q \in Exchanges : q # r => surplus'[q] = surplus[q]
        /\ (manifest' = r /\ surplus'[r] = manifest) \/ (manifest' = manifest /\ surplus' = surplus)
    BY <1>4 DEF CommitRefresh, Swap, GiveUp, FleetShapes
  <2>3. Owed(c)
    BY <2>1
  <2>4. CASE c = manifest \/ \E q \in Exchanges : surplus[q] = c
    BY <2>1, <2>2, <2>4 DEF Owed
  <2> QED BY <1>1, <2>1, <2>3, <2>4 DEF Owed
<1>5. CASE Discard(r)
  <2>1. /\ c \in cache /\ c # surplus[r] /\ UNCHANGED <<manifest, stranded>>
        /\ \A q \in Exchanges : q # r => surplus'[q] = surplus[q]
    BY <1>5 DEF Discard, fleetHistory, FleetShapes
  <2> QED BY <1>1, <2>1 DEF Owed
<1>6. CASE EndEarly(r)
  <2>1. /\ c \in cache /\ manifest' = manifest
        /\ stranded' = stranded \union (cache \intersect {surplus[r]})
        /\ \A q \in Exchanges : q # r => surplus'[q] = surplus[q]
    BY <1>6 DEF EndEarly, machineVars, FleetShapes
  <2>2. CASE c = surplus[r]
    BY <2>1, <2>2 DEF Owed
  <2>3. CASE c # surplus[r]
    BY <1>1, <2>1, <2>3 DEF Owed
  <2> QED BY <2>2, <2>3
<1>7. ReadMachine(r) \/ ClaimRefresh(r) \/ Fail(r) \/ WriteBack(r) =>
        UNCHANGED <<surplus, manifest, cache, stranded>>
  BY DEF ReadMachine, ClaimRefresh, Fail, WriteBack, machineVars, fleetHistory
<1> QED BY <1>2, <1>3, <1>4, <1>5, <1>6, <1>7 DEF RequestStep

\* So does one that a removal leaves there.
LEMMA OwedAfterKeeper ==
  ASSUME FleetShapes, Behind, Discards, NEW k \in Keepers, KeeperStep(k),
         NEW c \in Exchanges, c \in cache, Owed(c), c \in cache'
  PROVE Owed(c)'
<1>1. /\ UNCHANGED surplus
      /\ \A l \in Keepers : l # k => copy'[l] = copy[l]
  BY KeepersTouch, CopyIs DEF FleetShapes
<1>2. CASE ReadRow(k) \/ WriteRow(k) \/ LeaveRow(k)
  <2>1. copy[k].surplus = Absent /\ UNCHANGED <<manifest, stranded>>
    BY <1>2
       DEF ReadRow, WriteRow, LeaveRow, Discards, Unread, machineVars, fleetHistory
  <2> QED BY <1>1, <2>1, FleetConstants DEF Owed
<1>3. CASE Remove(k)
  <2>1. copy[k].surplus = Absent /\ UNCHANGED stranded
    BY <1>3 DEF Remove, Discards
  <2>2. CASE c = manifest
    <3>1. Trusted
      BY <2>2, FleetConstants DEF Behind
    <3>2. copy'[k] = ToPurge(manifest)
      BY <1>3, <3>1 DEF Remove, FleetShapes
    <3> QED BY <2>2, <3>2 DEF Owed, ToPurge
  <2>3. CASE c # manifest
    BY <1>1, <2>1, <2>3, FleetConstants DEF Owed
  <2> QED BY <2>2, <2>3
<1>4. CASE PurgeFails(k)
  <2>1. manifest' = manifest /\ stranded' = stranded \union (cache \intersect {copy[k].surplus})
    BY <1>4 DEF PurgeFails, machineVars
  <2>2. CASE c = copy[k].surplus
    BY <2>1, <2>2 DEF Owed
  <2>3. CASE c # copy[k].surplus
    BY <1>1, <2>1, <2>3 DEF Owed
  <2> QED BY <2>2, <2>3
<1>5. ~PurgeCache(k)
  BY DEF PurgeCache
<1> QED BY <1>2, <1>3, <1>4, <1>5 DEF KeeperStep

\* The cache follows the manifest.
LEMMA CacheStep ==
  ASSUME FleetShapes, Behind, Discards, CacheMatchesManifest, [FleetNext]_fleetVars
  PROVE CacheMatchesManifest'
<1>1. CASE UNCHANGED fleetVars
  BY <1>1 DEF fleetVars, machineVars, requestVars, fleetHistory, CacheMatchesManifest
<1>2. \A c \in cache : Owed(c)
  BY DEF CacheMatchesManifest, Owed
<1>3. cache' \subseteq Exchanges
  BY FleetShapesStep DEF FleetShapes
<1>4. ASSUME NEW k \in Keepers, KeeperStep(k) PROVE CacheMatchesManifest'
  <2>1. /\ manifest' = manifest \/ manifest' = Absent
        /\ cache \union purged \subseteq cache' \union purged'
        /\ cache' \subseteq cache
    BY <1>4, KeepersTouch DEF Remove, PurgeCache
  <2>2. \A c \in cache' : Owed(c)'
    BY <1>2, <1>3, <1>4, <2>1, OwedAfterKeeper
  <2> QED BY <2>1, <2>2 DEF CacheMatchesManifest, Owed
<1>5. ASSUME NEW r \in Exchanges, RequestStep(r) PROVE CacheMatchesManifest'
  <2>1. \A c \in cache' : Owed(c)'
    BY <1>2, <1>3, <1>5, OwedAfterRequest
  <2>2. ASSUME manifest' # Absent PROVE manifest' \in cache' \union purged'
    <3>1. purged' = purged
      BY <1>5, RequestsTouch
    <3>2. CASE Current(r) /\ Swap(r) /\ CommitRefresh(r)
      BY <3>1, <3>2 DEF Swap, CommitRefresh, Discards
    <3>3. CASE UNCHANGED manifest
      <4>1. manifest \in cache \union purged
        BY <2>2, <3>3 DEF CacheMatchesManifest
      <4>2. CASE Discard(r)
        <5>1. surplus[r] # manifest
          BY <2>2, <3>3, <4>2 DEF Discard, Discards
        <5> QED BY <3>1, <3>3, <4>1, <4>2, <5>1 DEF Discard
      <4>3. CASE UNCHANGED cache \/ Stage(r)
        BY <3>1, <3>3, <4>1, <4>3 DEF Stage
      <4> QED BY <1>5, <4>2, <4>3, RequestsTouch
    <3> QED BY <1>5, <3>2, <3>3, RequestsTouch
  <2> QED BY <2>1, <2>2 DEF CacheMatchesManifest, Owed
<1> QED BY <1>1, <1>4, <1>5 DEF FleetNext

-----------------------------------------------------------------------------
(* The promises.                                                           *)

\* The inductive invariant holds throughout.
LEMMA FleetInvAlways == FleetSpec => []FleetInv
<1>1. FleetInv /\ [FleetNext]_fleetVars => FleetInv'
  BY FleetShapesStep, ClaimOrderStep, BehindStep, DiscardsStep, ErrorStep, CacheStep DEF FleetInv
<1> QED BY <1>1, FleetInvInit, PTL DEF FleetSpec

\* mark_fleet_node_error_if_current is conditional on the generation: the error shown
\* with a cached snapshot comes from a later request than the snapshot, unless a
\* renaming (sync_pairings) wrote back a row it had read before the error was cleared.
THEOREM ErrorIsNewerAlways == FleetSpec => []ErrorIsNewer
BY FleetInvAlways, PTL DEF FleetInv

\* stage_remote_cache, the conditional commit and the discard of what it has
\* replaced are three transactions in two databases: the manifest names what has
\* been staged, and what is not named has somebody to remove it, unless that process
\* was killed or its one attempt failed.
THEOREM CacheMatchesManifestAlways == FleetSpec => []CacheMatchesManifest
BY FleetInvAlways, PTL DEF FleetInv

\* put_remote_snapshot_if_current's condition: between two removals of the machine a
\* snapshot is never replaced by the answer to an earlier request.
THEOREM LaterClaimWins == FleetSpec => SameTrustNewerWins
<1>1. ASSUME FleetInv, [FleetNext]_fleetVars, NEW r \in Exchanges, NEW q \in Exchanges,
             snapshot = q, snapshot' = r, SameTrust(r, q)
      PROVE ~StartedBefore(r, q)
  <2> USE DEF FleetInv
  <2>1. r \in Exchanges /\ r # Absent /\ q # Absent
    BY FleetConstants
  <2>2. CASE r = q
    <3>1. born[r].claims \in Nat
      BY <1>1 DEF FleetShapes
    <3> QED BY <2>2, <3>1 DEF StartedBefore
  <2>3. CASE r # q
    <3>1. CommitRefresh(r) /\ Current(r)
      <4>1. PICK p \in Exchanges : RequestStep(p)
        <5>1. \A k \in Keepers : KeeperStep(k) => snapshot' \in {snapshot, Absent}
          BY KeepersTouch DEF Remove
        <5> QED BY <1>1, <2>1, <2>3, <5>1 DEF FleetNext, fleetVars, machineVars
      <4> QED BY <1>1, <2>3, <4>1, RequestsTouch DEF Swap
    <3>2. Claimed(r) /\ Claimed(q) /\ held[q] <= held[r]
      BY <1>1, <2>1, <3>1 DEF CommitRefresh, Current, Behind
    <3>3. held[r] < held[q] <=> StartedBefore(r, q)
      BY <1>1, <3>2 DEF ClaimOrder
    <3>4. held[r] \in Nat /\ held[q] \in Nat
      BY <1>1 DEF FleetShapes
    <3> QED BY <3>2, <3>3, <3>4
  <2> QED BY <2>2, <2>3
<1>2. FleetInv /\ [FleetNext]_fleetVars =>
        \A r, q \in Exchanges :
          snapshot = q /\ snapshot' = r /\ SameTrust(r, q) => ~StartedBefore(r, q)
  BY <1>1
<1> QED BY <1>2, FleetInvAlways, PTL DEF FleetSpec, SameTrustNewerWins

-----------------------------------------------------------------------------
(* The managed release.                                                    *)

Names == {"none"} \union Forms
RootStates == {"absent", "bare", "marked"}
Unlocked == {"idle", "mark", "lock"}
Ended == {"done", "dead"}
Building == {"settle", "compare", "relaunch", "build", "payload", "hierarchy", "rename",
             "publish", "launcher"}
JobPlaces == Unlocked \union Ended \union Building
               \union {"retained", "link", "swap", "confirm", "expose", "syncbin"}
JobRecord == [at : JobPlaces, kind : JobKinds, want : Nat, seen : Paths \union {Missing},
              dir : Dirs, temporary : BOOLEAN]
DiskRecord == [root : SUBSET RootStates, form : [Dirs -> SUBSET Names],
               current : SUBSET (Paths \union {Missing}), launcher : SUBSET BOOLEAN]

UpdaterShapes ==
  /\ job \in [Jobs -> JobRecord]
  /\ lock \in Jobs \union {Missing}
  /\ root \in RootStates
  /\ form \in [Dirs -> Names]
  /\ content \in [Dirs -> {"partial", "written", "synced"}]
  /\ version \in [Dirs -> Nat]
  /\ current \in Paths \union {Missing}
  /\ launcher \in BOOLEAN
  /\ disk \in DiskRecord
  /\ current \in disk.current /\ launcher \in disk.launcher
  /\ root \in disk.root
  /\ \A d \in Dirs : form[d] \in disk.form[d]

\* Between TakeLock and its end a job holds .install.lock.
HoldsInstallLock(j) == job[j].at \notin Unlocked \union Ended => lock = j

\* No activation leads to the directory.
Uninvolved(d) == \A p \in disk.current : p # Missing => p[1] # d

\* A job that has not built yet has no directory, not even after a power loss.
Unbuilt(j) ==
  job[j].at \in Unlocked \union {"settle", "compare", "build"} =>
    /\ form[j] = "none" /\ disk.form[j] = {"none"}
    /\ Uninvolved(j)
    /\ job[j].dir = j

\* Nobody relies on the directory that is being built.
Staged(j) ==
  /\ job[j].at \in {"payload", "hierarchy", "rename"} =>
       form[j] = "stage" /\ {"none", "stage"} \subseteq disk.form[j] /\ Uninvolved(j)
  /\ job[j].at \in {"payload", "hierarchy", "rename", "publish"} =>
       job[j].dir = j /\ version[j] = job[j].want
  /\ job[j].at = "publish" => form[j] = "release"

\* The comparison sees what a power loss would leave.
Settled(j) ==
  /\ job[j].at \in {"compare", "relaunch"} => disk.current = {current}
  /\ job[j].at = "relaunch" => current # Missing

\* What is activated is there.
Activates(j) ==
  /\ job[j].at \in {"launcher", "link", "swap"} => form[job[j].dir] # "none"
  /\ job[j].at = "confirm" => current = <<job[j].dir, form[job[j].dir]>> /\ current # Missing
  /\ job[j].at = "expose" /\ doubt = {} => Missing \notin disk.current

\* An installation is for a version newer than the active one.
Upward(j) ==
  /\ job[j].at \in Building => job[j].kind # "rollback"
  /\ job[j].at = "retained" => job[j].kind = "rollback"
  /\ job[j].at \in {"build", "payload", "hierarchy", "rename", "publish", "launcher", "link", "swap"}
       /\ job[j].kind # "rollback" /\ current # Missing => job[j].want > version[current[1]]
  /\ job[j].at \in {"launcher", "link", "swap"} /\ job[j].kind # "rollback"
       => version[job[j].dir] = job[j].want

\* A rollback is from the release that is still active to an older one.
Downward(j) ==
  job[j].at \in {"link", "swap"} /\ job[j].kind = "rollback" =>
    LET old == version[current[1]]
        new == version[job[j].dir] IN
    /\ current = job[j].seen /\ current # Missing /\ new < old
    /\ \/ new = job[j].want
       \/ \A d \in Dirs :
            form[d] # "none" /\ content[d] # "partial" /\ version[d] > new => version[d] >= old

Fits(j) ==
  /\ HoldsInstallLock(j) /\ Unbuilt(j) /\ Staged(j) /\ Settled(j) /\ Activates(j)
  /\ Upward(j) /\ Downward(j)

\* A power loss leaves the release complete under its name.
Durable(p) == content[p[1]] = "synced" /\ disk.form[p[1]] = {p[2]}

\* Whatever a power loss leaves of the activation can be run.
Persisted ==
  doubt = {} =>
    /\ \A p \in disk.current : p = Missing \/ Durable(p)
    /\ TRUE \in disk.launcher => Missing \notin disk.current

UpdaterInv == UpdaterShapes /\ (\A j \in Jobs : Fits(j)) /\ Persisted

-----------------------------------------------------------------------------

\* Nothing is installed at first, or one complete release.
LEMMA UpdaterInvInit == UpdaterInit => UpdaterInv
<1> SUFFICES ASSUME UpdaterInit PROVE UpdaterInv
  OBVIOUS
<1> USE DEF UpdaterInit
<1>1. PICK fresh \in BOOLEAN :
       /\ root = IF fresh THEN "absent" ELSE "marked"
       /\ form = [d \in Dirs |-> IF d = Shipped /\ ~fresh THEN "release" ELSE "none"]
       /\ content = [d \in Dirs |-> IF d = Shipped /\ ~fresh THEN "synced" ELSE "partial"]
       /\ current = IF fresh THEN Missing ELSE <<Shipped, "release">>
       /\ launcher = ~fresh
  OBVIOUS
<1>2. \A j \in Jobs : Idle(j, "idle") \in JobRecord /\ Idle(j, "idle").at = "idle"
                      /\ Idle(j, "idle").dir = j
  BY DEF Idle, Job, JobRecord, JobPlaces, Unlocked, JobKinds, Dirs
<1>3. Shipped \in Dirs /\ \A j \in Jobs : j \in Dirs /\ j # Shipped
  BY UpdaterConstants DEF Dirs
<1>4. UpdaterShapes
  <2>1. current \in Paths \union {Missing}
    BY <1>1, <1>3 DEF Paths, Forms
  <2>2. form \in [Dirs -> Names] /\ root \in RootStates /\ launcher \in BOOLEAN
    BY <1>1 DEF Names, Forms, RootStates
  <2>3. disk \in DiskRecord /\ (\A d \in Dirs : disk.form[d] = {form[d]})
    BY <2>1, <2>2 DEF DiskRecord
  <2>4. version \in [Dirs -> Nat] /\ content \in [Dirs -> {"partial", "written", "synced"}]
    BY <1>1
  <2>5. job \in [Jobs -> JobRecord]
    BY <1>2
  <2> QED BY <2>1, <2>2, <2>3, <2>4, <2>5 DEF UpdaterShapes
<1>5. ASSUME NEW j \in Jobs PROVE Fits(j)
  <2>1. job[j].at = "idle" /\ job[j].dir = j
    BY <1>2
  <2>2. form[j] = "none" /\ disk.form[j] = {"none"} /\ disk.current = {current}
    BY <1>1, <1>3
  <2>3. Uninvolved(j)
    BY <1>1, <1>3, <2>2 DEF Uninvolved
  <2> QED BY <2>1, <2>2, <2>3 DEF Fits, HoldsInstallLock, Unbuilt, Staged, Settled, Activates,
            Upward, Downward, Unlocked, Building
<1>6. Persisted
  <2>1. disk.current = {current} /\ disk.launcher = {launcher} /\ disk.form[Shipped] = {form[Shipped]}
    BY <1>3
  <2>2. CASE fresh
    <3>1. current = Missing /\ disk.launcher = {FALSE}
      BY <1>1, <2>1, <2>2
    <3> QED BY <2>1, <3>1 DEF Persisted
  <2>3. CASE ~fresh
    <3>1. /\ current = <<Shipped, "release">> /\ content[Shipped] = "synced"
          /\ form[Shipped] = "release"
      BY <1>1, <1>3, <2>3
    <3>2. current \in Paths /\ current[1] = Shipped /\ current[2] = "release"
      BY <1>3, <3>1 DEF Paths, Forms
    <3> QED BY <2>1, <3>1, <3>2, MissingConstant DEF Persisted, Durable
  <2> QED BY <2>2, <2>3
<1> QED BY <1>4, <1>5, <1>6 DEF UpdaterInv

\* A job that has ended, or that moves without the lock, fits anywhere.
LEMMA Rests ==
  ASSUME NEW j \in Jobs, job'[j].at \in Ended
  PROVE Fits(j)'
BY DEF Fits, HoldsInstallLock, Unbuilt, Staged, Settled, Activates, Upward, Downward, Ended,
     Unlocked, Building

\* A job that holds no lock cares only about its own directory.
LEMMA WithoutLock ==
  ASSUME NEW k \in Jobs, job[k].at \in Unlocked \union Ended, job'[k] = job[k], Unbuilt(k)'
  PROVE Fits(k)'
BY DEF Fits, HoldsInstallLock, Staged, Settled, Activates, Upward, Downward, Ended,
     Unlocked, Building

\* The holder of the lock moves on or ends.
LEMMA HolderMoves ==
  ASSUME UpdaterInv, NEW j \in Jobs, job[j].at \notin Unlocked \union Ended,
         \A k \in Jobs \ {j} : job'[k] = job[k],
         UpdaterShapes', Fits(j)', Persisted',
         \A k \in Jobs \ {j} : Unbuilt(k) => Unbuilt(k)'
  PROVE UpdaterInv'
<1>1. lock = j
  BY DEF UpdaterInv, Fits, HoldsInstallLock
<1>2. ASSUME NEW k \in Jobs, k # j PROVE Fits(k)'
  <2>1. job[k].at \in Unlocked \union Ended /\ Unbuilt(k)
    BY <1>1, <1>2 DEF UpdaterInv, Fits, HoldsInstallLock
  <2> QED BY <2>1, <1>2, WithoutLock
<1> QED BY <1>2 DEF UpdaterInv

\* A job that moves while the files stay as they are.
LEMMA JobsMove ==
  ASSUME UpdaterInv, NEW j \in Jobs, NEW r \in JobRecord, job' = [job EXCEPT ![j] = r],
         lock' \in {lock, IF lock = j THEN Missing ELSE lock} \union {x \in {j} : lock = Missing},
         UNCHANGED <<files, disk>>, doubt \subseteq doubt', Fits(j)'
  PROVE UpdaterInv'
<1> USE DEF UpdaterInv
<1>1. UNCHANGED <<root, form, content, version, current, launcher>>
  BY DEF files, tree
<1>2. UpdaterShapes'
  <2>1. job' \in [Jobs -> JobRecord] /\ lock' \in Jobs \union {Missing}
    BY DEF UpdaterShapes
  <2> QED BY <1>1, <2>1 DEF UpdaterShapes
<1>3. Persisted'
  BY <1>1 DEF Persisted, Durable
<1>4. ASSUME NEW k \in Jobs, k # j PROVE Fits(k)'
  <2>1. job'[k] = job[k] /\ Fits(k)
    BY <1>4 DEF UpdaterShapes
  <2>2. lock = k => lock' = k
    BY <1>4, MissingConstant
  <2> QED BY <1>1, <2>1, <2>2 DEF Fits, HoldsInstallLock, Unbuilt, Staged, Settled, Activates,
               Upward, Downward, Uninvolved
<1> QED BY <1>2, <1>3, <1>4

\* Moving on changes the place of the job only.
LEMMA MovesOn ==
  ASSUME UpdaterShapes, NEW j \in Jobs, NEW next \in JobPlaces, JobTo(j, next)
  PROVE /\ job'[j] \in JobRecord /\ job' = [job EXCEPT ![j] = job'[j]]
        /\ job'[j].at = next /\ job'[j].kind = job[j].kind /\ job'[j].want = job[j].want
        /\ job'[j].seen = job[j].seen /\ job'[j].dir = job[j].dir
        /\ job'[j].temporary = job[j].temporary
<1>1. job[j] \in JobRecord /\ job \in [Jobs -> JobRecord]
  BY DEF UpdaterShapes
<1> QED BY <1>1 DEF JobTo, JobRecord

\* A job that ends is at rest.
LEMMA EndsAt ==
  ASSUME UpdaterShapes, NEW j \in Jobs, NEW here \in Ended, job' = [job EXCEPT ![j] = Idle(j, here)]
  PROVE /\ job'[j] \in JobRecord /\ job' = [job EXCEPT ![j] = job'[j]]
        /\ job'[j].at = here /\ Fits(j)'
<1>1. Idle(j, here) \in JobRecord
  BY DEF Idle, Job, JobRecord, JobPlaces, JobKinds, Dirs
<1>2. job'[j] = Idle(j, here) /\ Idle(j, here).at = here
  BY DEF UpdaterShapes, Idle, Job
<1>3. Fits(j)'
  BY <1>2, Rests
<1> QED BY <1>1, <1>2, <1>3

\* A job that ends leaves the files as they are.
LEMMA Ends ==
  ASSUME UpdaterInv, NEW j \in Jobs, JobEnds(j), UNCHANGED <<files, disk>>, doubt \subseteq doubt'
  PROVE UpdaterInv'
<1>1. /\ job'[j] \in JobRecord /\ job' = [job EXCEPT ![j] = job'[j]]
      /\ Fits(j)'
  BY EndsAt DEF JobEnds, Ended, UpdaterInv
<1> QED BY <1>1, JobsMove DEF JobEnds

\* Before the lock a job changes nothing but the root.
LEMMA Approaches ==
  ASSUME UpdaterInv, NEW j \in Jobs, Approach(j)
  PROVE UpdaterInv'
<1>1. UpdaterShapes /\ Fits(j) /\ Persisted /\ job[j] \in JobRecord
  BY DEF UpdaterInv, UpdaterShapes
<1>2. CASE Discover(j)
  <2>1. PICK k \in {"update", "rollback"}, v \in Versions :
          job' = [job EXCEPT ![j] = Job(j, "lock", k, v, current)]
    BY <1>2 DEF Discover
  <2> DEFINE r == Job(j, "lock", k, v, current)
  <2>2. r \in JobRecord /\ r.at = "lock" /\ r.dir = j
    BY <1>1, UpdaterConstants DEF Job, JobRecord, JobPlaces, Unlocked, JobKinds, Dirs, UpdaterShapes
  <2>3. job'[j] = r
    BY <1>1, <2>1 DEF UpdaterShapes
  <2>4. job[j].at = "idle" /\ UNCHANGED <<lock, files, disk, doubt>>
    BY <1>2 DEF Discover, JobAt
  <2>5. Fits(j)'
    BY <1>1, <2>2, <2>3, <2>4 DEF Fits, HoldsInstallLock, Unbuilt, Staged, Settled, Activates,
       Upward, Downward, Uninvolved, Unlocked, Building, files, tree
  <2> QED BY <2>1, <2>2, <2>4, <2>5, JobsMove
<1>3. CASE OpenRoot(j) \/ MarkRoot(j)
  <2>1. PICK r \in JobRecord :
          /\ job' = [job EXCEPT ![j] = r]
          /\ r.at \in {"mark", "lock", "done"} /\ r.dir = j
    <3>1. CASE OpenRoot(j)
      <4>1. PICK v \in Versions :
              job' = [job EXCEPT ![j] =
                 CASE root = "absent" -> Job(j, "mark", "install", v, Missing)
                   [] root = "bare"   -> Idle(j, "done")
                   [] root = "marked" -> Job(j, "lock", "install", v, Missing)]
        BY <3>1 DEF OpenRoot
      <4>2. /\ Job(j, "mark", "install", v, Missing) \in JobRecord
            /\ Job(j, "mark", "install", v, Missing).at = "mark"
            /\ Job(j, "mark", "install", v, Missing).dir = j
            /\ Job(j, "lock", "install", v, Missing) \in JobRecord
            /\ Job(j, "lock", "install", v, Missing).at = "lock"
            /\ Job(j, "lock", "install", v, Missing).dir = j
            /\ Idle(j, "done") \in JobRecord /\ Idle(j, "done").at = "done"
            /\ Idle(j, "done").dir = j
        BY UpdaterConstants DEF Job, Idle, JobRecord, JobPlaces, Unlocked, Ended, JobKinds, Dirs
      <4>3. root \in {"absent", "bare", "marked"}
        BY <1>1 DEF UpdaterShapes, RootStates
      <4> QED BY <4>1, <4>2, <4>3
    <3>2. CASE MarkRoot(j)
      <4>1. "lock" \in JobPlaces /\ job[j].at = "mark" /\ JobTo(j, "lock")
        BY <3>2 DEF MarkRoot, JobAt, JobPlaces, Unlocked
      <4> QED BY <1>1, <4>1, MovesOn DEF Fits, Unbuilt, Unlocked
    <3> QED BY <1>3, <3>1, <3>2
  <2>2. /\ job[j].at \in Unlocked
        /\ UNCHANGED <<lock, form, content, version, current, launcher, doubt>>
        /\ root' \in RootStates
        /\ disk' = [disk EXCEPT !.root = disk'.root] /\ disk'.root \in SUBSET RootStates
        /\ root' \in disk'.root
    BY <1>1, <1>3 DEF OpenRoot, MarkRoot, JobAt, Unlocked, tree, UpdaterShapes, RootStates, DiskRecord
  <2>3. /\ disk' \in DiskRecord /\ disk'.form = disk.form /\ disk'.current = disk.current
        /\ disk'.launcher = disk.launcher
    BY <1>1, <2>2 DEF UpdaterShapes, DiskRecord
  <2>4. UpdaterShapes'
    <3>1. job' \in [Jobs -> JobRecord]
      BY <1>1, <2>1 DEF UpdaterShapes
    <3> QED BY <1>1, <2>2, <2>3, <3>1 DEF UpdaterShapes
  <2>5. Persisted'
    BY <1>1, <2>2, <2>3 DEF Persisted, Durable
  <2>6. job'[j] = r
    BY <1>1, <2>1 DEF UpdaterShapes
  <2>7. ASSUME NEW k \in Jobs PROVE Fits(k)'
    <3>1. CASE k = j
      BY <1>1, <2>1, <2>2, <2>3, <2>6, <3>1 DEF Fits, HoldsInstallLock, Unbuilt, Staged, Settled,
         Activates, Upward, Downward, Uninvolved, Unlocked, Ended, Building
    <3>2. CASE k # j
      <4>1. job'[k] = job[k] /\ Fits(k)
        BY <1>1, <2>1, <3>2 DEF UpdaterShapes, UpdaterInv
      <4> QED BY <4>1, <2>2, <2>3 DEF Fits, HoldsInstallLock, Unbuilt, Staged, Settled, Activates,
                   Upward, Downward, Uninvolved
    <3> QED BY <3>1, <3>2
  <2> QED BY <2>4, <2>5, <2>7 DEF UpdaterInv
<1>4. CASE TakeLock(j) /\ lock = Missing
  <2> DEFINE next == IF job[j].kind = "rollback" THEN "retained" ELSE "settle"
  <2>1. next \in JobPlaces /\ JobTo(j, next) /\ lock' = j /\ job[j].at = "lock"
        /\ UNCHANGED <<files, disk, doubt>>
    BY <1>4 DEF TakeLock, JobAt, JobPlaces, Building
  <2> HIDE DEF next
  <2>2. /\ job'[j] \in JobRecord /\ job' = [job EXCEPT ![j] = job'[j]]
        /\ job'[j].at = next /\ job'[j].kind = job[j].kind /\ job'[j].dir = job[j].dir
    BY <1>1, <2>1, MovesOn
  <2>3. Fits(j)'
    <3>1. UNCHANGED <<form, content, version, current>>
      BY <2>1 DEF files, tree
    <3> QED BY <1>1, <2>1, <2>2, <3>1 DEF next, Fits, HoldsInstallLock, Unbuilt, Staged, Settled, Activates,
       Upward, Downward, Uninvolved, Unlocked, Building
  <2> QED BY <1>4, <2>1, <2>2, <2>3, JobsMove
<1>5. CASE TakeLock(j) /\ lock # Missing
  BY <1>5, Ends DEF TakeLock
<1> QED BY <1>2, <1>3, <1>4, <1>5 DEF Approach

\* The holder of the lock.
LEMMA HoldsIt ==
  ASSUME UpdaterInv, NEW j \in Jobs, job[j].at \notin Unlocked \union Ended
  PROVE lock = j /\ UpdaterShapes /\ Fits(j) /\ Persisted /\ job[j] \in JobRecord
BY DEF UpdaterInv, Fits, HoldsInstallLock, UpdaterShapes

\* Steps of the holder that touch no file.
LEMMA Decides ==
  ASSUME UpdaterInv, NEW j \in Jobs,
         Compare(j) \/ ReceiptLost(j) \/ StageLauncher(j) \/ ChooseRetained(j) \/ SwapUnconfirmed(j)
           \/ SyncFails(j)
  PROVE UpdaterInv'
<1>1. /\ job[j].at \in {"compare", "launcher", "retained", "confirm", "settle", "publish", "link",
                         "syncbin"}
      /\ UNCHANGED <<files, disk>> /\ doubt \subseteq doubt'
  BY DEF Compare, ReceiptLost, StageLauncher, ChooseRetained, SwapUnconfirmed, SyncFails, JobAt
<1>2. lock = j /\ UpdaterShapes /\ Fits(j) /\ Persisted /\ job[j] \in JobRecord
  BY <1>1, HoldsIt DEF Unlocked, Ended
<1>3. UNCHANGED <<form, content, version, current, launcher>>
  BY <1>1 DEF files, tree
<1>4. CASE JobEnds(j)
  BY <1>1, <1>4, Ends
<1>5. CASE Compare(j) /\ ~JobEnds(j)
  <2>1. PICK next \in {"build", "relaunch"} :
          /\ JobTo(j, next) /\ job[j].at = "compare" /\ UNCHANGED lock
          /\ next = "build" => (current = Missing \/ job[j].want > version[current[1]])
          /\ next = "relaunch" => current # Missing
    BY <1>5 DEF Compare, JobAt, Runnable, Exists
  <2>2. /\ job'[j] \in JobRecord /\ job' = [job EXCEPT ![j] = job'[j]]
        /\ job'[j].at = next /\ job'[j].kind = job[j].kind /\ job'[j].dir = job[j].dir
        /\ job'[j].want = job[j].want
    BY <1>2, <2>1, MovesOn DEF JobPlaces, Building
  <2>3. Fits(j)'
    BY <1>1, <1>2, <1>3, <2>1, <2>2 DEF Fits, HoldsInstallLock, Unbuilt, Staged, Settled, Activates,
       Upward, Downward, Uninvolved, Unlocked, Building
  <2> QED BY <1>1, <1>2, <2>1, <2>2, <2>3, JobsMove
<1>6. CASE StageLauncher(j)
  <2> DEFINE r == [job[j] EXCEPT !.at = "link", !.temporary = ~launcher]
  <2>1. /\ r \in JobRecord /\ r.at = "link" /\ r.kind = job[j].kind /\ r.dir = job[j].dir
        /\ r.want = job[j].want
    BY <1>2 DEF JobRecord, JobPlaces, UpdaterShapes
  <2>2. job' = [job EXCEPT ![j] = r] /\ UNCHANGED lock /\ job[j].at = "launcher"
    BY <1>6 DEF StageLauncher, JobAt
  <2>3. job'[j] = r
    BY <1>2, <2>2 DEF UpdaterShapes
  <2> HIDE DEF r
  <2>4. Fits(j)'
    BY <1>1, <1>2, <1>3, <2>1, <2>2, <2>3 DEF Fits, HoldsInstallLock, Unbuilt, Staged, Settled,
       Activates, Upward, Downward, Uninvolved, Unlocked, Building
  <2> QED BY <1>1, <1>2, <2>1, <2>2, <2>4, JobsMove
<1>7. CASE ChooseRetained(j) /\ ~JobEnds(j)
  <2>1. /\ current = job[j].seen /\ Exists(current) /\ UNCHANGED lock /\ job[j].at = "retained"
        /\ \E d \in Newest(Retained(j)) \union {e \in Retained(j) : version[e] = job[j].want} :
             Choose(j, d)
    BY <1>7 DEF ChooseRetained, JobAt
  <2>2. PICK d \in Retained(j) : Choose(j, d) /\ (d \in Newest(Retained(j)) \/ version[d] = job[j].want)
    BY <2>1 DEF Newest
  <2> DEFINE r == [job[j] EXCEPT !.at = "link", !.dir = d]
  <2>3. d \in Dirs /\ form[d] # "none" /\ version[d] < version[current[1]]
    BY <2>1, <2>2 DEF Retained
  <2>4. /\ r \in JobRecord /\ r.at = "link" /\ r.kind = job[j].kind /\ r.dir = d
        /\ r.want = job[j].want /\ r.seen = job[j].seen
    BY <1>2, <2>3 DEF JobRecord, JobPlaces
  <2>5. job' = [job EXCEPT ![j] = r]
    BY <2>2 DEF Choose
  <2>6. job'[j] = r
    BY <1>2, <2>5 DEF UpdaterShapes
  <2>7. current \in Paths /\ current[1] \in Dirs /\ version \in [Dirs -> Nat]
    BY <1>2, <2>1 DEF UpdaterShapes, Exists, Paths
  <2>8. \/ version[d] = job[j].want
        \/ \A e \in Dirs : form[e] # "none" /\ content[e] # "partial" /\ version[e] > version[d]
                           => version[e] >= version[current[1]]
    <3> SUFFICES ASSUME d \in Newest(Retained(j)), NEW e \in Dirs,
                        form[e] # "none", content[e] # "partial", version[e] > version[d]
                 PROVE version[e] >= version[current[1]]
      BY <2>2
    <3>1. e \notin Retained(j)
      BY <2>3, <2>7 DEF Newest
    <3>2. e = current[1] \/ ~(version[e] < version[current[1]])
      BY <2>1, <3>1 DEF Retained
    <3> QED BY <2>7, <3>2
  <2> HIDE DEF r
  <2>9. Fits(j)'
    <3>1. job[j].kind = "rollback"
      BY <1>2, <2>1 DEF Fits, Upward
    <3>2. Downward(j)'
      BY <1>3, <2>1, <2>3, <2>4, <2>6, <2>7, <2>8 DEF Downward, Exists
    <3> QED BY <1>2, <1>3, <2>1, <2>3, <2>4, <2>6, <3>1, <3>2 DEF Fits, HoldsInstallLock, Unbuilt, Staged,
       Settled, Activates, Upward, Unlocked, Building
  <2> QED BY <1>1, <1>2, <2>1, <2>4, <2>5, <2>9, JobsMove
<1>8. CASE SwapUnconfirmed(j) /\ ~JobEnds(j)
  <2>1. /\ JobTo(j, "expose") /\ UNCHANGED lock /\ job[j].at = "confirm"
        /\ "switch" \in doubt'
    BY <1>8 DEF SwapUnconfirmed, AfterSwap, JobAt
  <2>2. /\ job'[j] \in JobRecord /\ job' = [job EXCEPT ![j] = job'[j]]
        /\ job'[j].at = "expose"
    BY <1>2, <2>1, MovesOn DEF JobPlaces
  <2>3. Fits(j)'
    BY <1>2, <2>1, <2>2 DEF Fits, HoldsInstallLock, Unbuilt, Staged, Settled, Activates,
       Upward, Downward, Unlocked, Building
  <2> QED BY <1>1, <1>2, <2>1, <2>2, <2>3, JobsMove
<1> QED BY <1>4, <1>5, <1>6, <1>7, <1>8 DEF ReceiptLost, SyncFails

\* Steps of the holder that change the files.
LEMMA HolderWrites ==
  ASSUME UpdaterInv, NEW j \in Jobs, job[j].at \notin Unlocked \union Ended,
         NEW next \in JobPlaces, JobTo(j, next), lock' = lock,
         UpdaterShapes', Fits(j)', Persisted',
         \A k \in Jobs \ {j} : Unbuilt(k) => Unbuilt(k)'
  PROVE UpdaterInv'
<1>1. \A k \in Jobs \ {j} : job'[k] = job[k]
  BY DEF JobTo, UpdaterInv, UpdaterShapes
<1> QED BY <1>1, HolderMoves

\* The others' directories stay as they are.
LEMMA OthersUnbuilt ==
  ASSUME UpdaterShapes, NEW j \in Jobs, NEW k \in Jobs, job'[k] = job[k], Unbuilt(k),
         form'[k] = form[k], disk'.form[k] \in {disk.form[k], {form[k]}},
         \A p \in disk'.current : p \in disk.current \/ (p \in Paths /\ form[p[1]] # "none")
  PROVE Unbuilt(k)'
BY DEF Unbuilt, Uninvolved

\* The first syncs of an installation.
LEMMA SettleStep ==
  ASSUME UpdaterInv, NEW j \in Jobs, Settle(j)
  PROVE UpdaterInv'
<1>1. /\ job[j].at = "settle" /\ JobTo(j, "compare") /\ "compare" \in JobPlaces
      /\ UNCHANGED <<lock, root, form, content, version, current, launcher, doubt>>
      /\ disk' = [disk EXCEPT !.form = [d \in Dirs |-> {form[d]}], !.current = {current}]
  BY DEF Settle, JobAt, files, tree, JobPlaces, Building
<1>2. lock = j /\ UpdaterShapes /\ Fits(j) /\ Persisted /\ job[j] \in JobRecord
  BY <1>1, HoldsIt DEF Unlocked, Ended
<1>3. /\ disk'.form = [d \in Dirs |-> {form[d]}] /\ disk'.current = {current}
      /\ disk'.launcher = disk.launcher /\ disk'.root = disk.root /\ disk' \in DiskRecord
  BY <1>1, <1>2 DEF UpdaterShapes, DiskRecord
<1>4. /\ job'[j] \in JobRecord /\ job' = [job EXCEPT ![j] = job'[j]]
      /\ job'[j].at = "compare" /\ job'[j].kind = job[j].kind /\ job'[j].dir = job[j].dir
  BY <1>1, <1>2, MovesOn
<1>5. UpdaterShapes'
  BY <1>1, <1>2, <1>3, <1>4 DEF UpdaterShapes
<1>6. Fits(j)'
  <2>1. j \in Dirs
    BY DEF Dirs
  <2> QED BY <1>1, <1>2, <1>3, <1>4, <2>1 DEF Fits, HoldsInstallLock, Unbuilt, Staged, Settled,
     Activates, Upward, Downward, Uninvolved, Unlocked, Ended, Building, UpdaterShapes
<1>7. Persisted'
  <2>1. ASSUME NEW p \in disk.current, p # Missing, Durable(p) PROVE Durable(p)'
    <3>1. p[1] \in Dirs
      BY <1>2, <2>1 DEF UpdaterShapes, DiskRecord, Paths
    <3> QED BY <1>1, <1>2, <1>3, <2>1, <3>1 DEF Durable, UpdaterShapes
  <2> QED BY <1>1, <1>2, <1>3, <2>1 DEF Persisted, UpdaterShapes
<1>8. ASSUME NEW k \in Jobs \ {j}, Unbuilt(k) PROVE Unbuilt(k)'
  <2>1. job'[k] = job[k] /\ k \in Dirs
    BY <1>2, <1>4 DEF UpdaterShapes, Dirs
  <2> QED BY <1>1, <1>2, <1>3, <1>8, <2>1, OthersUnbuilt DEF UpdaterShapes
<1> QED BY <1>1, <1>5, <1>6, <1>7, <1>8, HolderWrites DEF Unlocked, Ended

\* A launcher that was lost is there again.
LEMMA RelaunchStep ==
  ASSUME UpdaterInv, NEW j \in Jobs, Relaunch(j)
  PROVE UpdaterInv'
<1>1. /\ job[j].at = "relaunch" /\ JobTo(j, "syncbin") /\ "syncbin" \in JobPlaces
      /\ UNCHANGED <<lock, root, form, content, version, current, doubt>>
      /\ launcher' = TRUE /\ disk' = [disk EXCEPT !.launcher = @ \union {TRUE}]
  BY DEF Relaunch, JobAt, files, tree, JobPlaces, Building
<1>2. lock = j /\ UpdaterShapes /\ Fits(j) /\ Persisted /\ job[j] \in JobRecord /\ j \in Dirs
  BY <1>1, HoldsIt DEF Unlocked, Ended, Dirs
<1>3. /\ disk'.form = disk.form /\ disk'.current = disk.current
      /\ disk'.launcher = disk.launcher \union {TRUE} /\ disk'.root = disk.root /\ disk' \in DiskRecord
  BY <1>1, <1>2 DEF UpdaterShapes, DiskRecord, Names, Forms
<1>4. /\ job'[j] \in JobRecord /\ job' = [job EXCEPT ![j] = job'[j]]
      /\ job'[j].at = "syncbin" /\ job'[j].kind = job[j].kind /\ job'[j].dir = job[j].dir
      /\ job'[j].want = job[j].want /\ job'[j].seen = job[j].seen
  BY <1>1, <1>2, MovesOn
<1>5. UpdaterShapes'
  BY <1>1, <1>2, <1>3, <1>4 DEF UpdaterShapes, Names, Forms
<1>6. Fits(j)'
  BY <1>1, <1>2, <1>3, <1>4 DEF Fits, HoldsInstallLock, Unbuilt, Staged, Settled,
     Activates, Upward, Downward, Uninvolved, Unlocked, Ended, Building, UpdaterShapes
<1>7. Persisted'
  <2>1. ASSUME NEW p \in disk.current, p # Missing, Durable(p) PROVE Durable(p)'
    <3>1. p[1] \in Dirs /\ p \in Paths /\ p[2] \in Forms
      BY <1>2, <2>1 DEF UpdaterShapes, DiskRecord, Paths
    <3> QED BY <1>1, <1>2, <1>3, <2>1, <3>1 DEF Durable, UpdaterShapes, Fits, Unbuilt, Staged,
             Uninvolved, Unlocked
  <2> QED BY <1>1, <1>2, <1>3, <2>1 DEF Persisted, UpdaterShapes, Fits, Settled, Activates
<1>8. ASSUME NEW k \in Jobs \ {j}, Unbuilt(k) PROVE Unbuilt(k)'
  <2>1. job'[k] = job[k] /\ k \in Dirs /\ k # j
    BY <1>2, <1>4 DEF UpdaterShapes, Dirs
  <2> QED BY <1>1, <1>2, <1>3, <1>8, <2>1, OthersUnbuilt DEF UpdaterShapes, Fits, Activates, DiskRecord
<1> QED BY <1>1, <1>5, <1>6, <1>7, <1>8, HolderWrites DEF Unlocked, Ended

\* The stage is written, which nobody relies on yet.
LEMMA WritePayloadStep ==
  ASSUME UpdaterInv, NEW j \in Jobs, WritePayload(j)
  PROVE UpdaterInv'
<1>1. /\ job[j].at = "payload" /\ JobTo(j, "hierarchy") /\ "hierarchy" \in JobPlaces
      /\ UNCHANGED <<lock, root, form, version, current, launcher, disk, doubt>>
      /\ content' = [content EXCEPT ![j] = "written"]
  BY DEF WritePayload, JobAt, files, tree, JobPlaces, Building
<1>2. lock = j /\ UpdaterShapes /\ Fits(j) /\ Persisted /\ job[j] \in JobRecord /\ j \in Dirs
  BY <1>1, HoldsIt DEF Unlocked, Ended, Dirs
<1>3. UNCHANGED disk
  BY <1>1, <1>2 DEF UpdaterShapes, DiskRecord, Names, Forms
<1>4. /\ job'[j] \in JobRecord /\ job' = [job EXCEPT ![j] = job'[j]]
      /\ job'[j].at = "hierarchy" /\ job'[j].kind = job[j].kind /\ job'[j].dir = job[j].dir
      /\ job'[j].want = job[j].want /\ job'[j].seen = job[j].seen
  BY <1>1, <1>2, MovesOn
<1>5. UpdaterShapes'
  BY <1>1, <1>2, <1>3, <1>4 DEF UpdaterShapes, Names, Forms
<1>6. Fits(j)'
  BY <1>1, <1>2, <1>3, <1>4 DEF Fits, HoldsInstallLock, Unbuilt, Staged, Settled,
     Activates, Upward, Downward, Uninvolved, Unlocked, Ended, Building, UpdaterShapes
<1>7. Persisted'
  <2>1. ASSUME NEW p \in disk.current, p # Missing, Durable(p) PROVE Durable(p)'
    <3>1. p[1] \in Dirs /\ p \in Paths /\ p[2] \in Forms
      BY <1>2, <2>1 DEF UpdaterShapes, DiskRecord, Paths
    <3> QED BY <1>1, <1>2, <1>3, <2>1, <3>1 DEF Durable, UpdaterShapes, Fits, Unbuilt, Staged,
             Uninvolved, Unlocked
  <2> QED BY <1>1, <1>2, <1>3, <2>1 DEF Persisted, UpdaterShapes, Fits, Settled, Activates
<1>8. ASSUME NEW k \in Jobs \ {j}, Unbuilt(k) PROVE Unbuilt(k)'
  <2>1. job'[k] = job[k] /\ k \in Dirs /\ k # j
    BY <1>2, <1>4 DEF UpdaterShapes, Dirs
  <2> QED BY <1>1, <1>2, <1>3, <1>8, <2>1, OthersUnbuilt DEF UpdaterShapes, Fits, Activates, DiskRecord
<1> QED BY <1>1, <1>5, <1>6, <1>7, <1>8, HolderWrites DEF Unlocked, Ended

\* The stage is synced.
LEMMA SyncHierarchyStep ==
  ASSUME UpdaterInv, NEW j \in Jobs, SyncHierarchy(j)
  PROVE UpdaterInv'
<1>1. /\ job[j].at = "hierarchy" /\ JobTo(j, "rename") /\ "rename" \in JobPlaces
      /\ UNCHANGED <<lock, root, form, version, current, launcher, disk, doubt>>
      /\ content' = [content EXCEPT ![j] = "synced"]
  BY DEF SyncHierarchy, JobAt, files, tree, JobPlaces, Building
<1>2. lock = j /\ UpdaterShapes /\ Fits(j) /\ Persisted /\ job[j] \in JobRecord /\ j \in Dirs
  BY <1>1, HoldsIt DEF Unlocked, Ended, Dirs
<1>3. UNCHANGED disk
  BY <1>1, <1>2 DEF UpdaterShapes, DiskRecord, Names, Forms
<1>4. /\ job'[j] \in JobRecord /\ job' = [job EXCEPT ![j] = job'[j]]
      /\ job'[j].at = "rename" /\ job'[j].kind = job[j].kind /\ job'[j].dir = job[j].dir
      /\ job'[j].want = job[j].want /\ job'[j].seen = job[j].seen
  BY <1>1, <1>2, MovesOn
<1>5. UpdaterShapes'
  BY <1>1, <1>2, <1>3, <1>4 DEF UpdaterShapes, Names, Forms
<1>6. Fits(j)'
  BY <1>1, <1>2, <1>3, <1>4 DEF Fits, HoldsInstallLock, Unbuilt, Staged, Settled,
     Activates, Upward, Downward, Uninvolved, Unlocked, Ended, Building, UpdaterShapes
<1>7. Persisted'
  <2>1. ASSUME NEW p \in disk.current, p # Missing, Durable(p) PROVE Durable(p)'
    <3>1. p[1] \in Dirs /\ p \in Paths /\ p[2] \in Forms
      BY <1>2, <2>1 DEF UpdaterShapes, DiskRecord, Paths
    <3> QED BY <1>1, <1>2, <1>3, <2>1, <3>1 DEF Durable, UpdaterShapes, Fits, Unbuilt, Staged,
             Uninvolved, Unlocked
  <2> QED BY <1>1, <1>2, <1>3, <2>1 DEF Persisted, UpdaterShapes, Fits, Settled, Activates
<1>8. ASSUME NEW k \in Jobs \ {j}, Unbuilt(k) PROVE Unbuilt(k)'
  <2>1. job'[k] = job[k] /\ k \in Dirs /\ k # j
    BY <1>2, <1>4 DEF UpdaterShapes, Dirs
  <2> QED BY <1>1, <1>2, <1>3, <1>8, <2>1, OthersUnbuilt DEF UpdaterShapes, Fits, Activates, DiskRecord
<1> QED BY <1>1, <1>5, <1>6, <1>7, <1>8, HolderWrites DEF Unlocked, Ended

\* The stage becomes a release, durable or not.
LEMMA RenameStageStep ==
  ASSUME UpdaterInv, NEW j \in Jobs, RenameStage(j)
  PROVE UpdaterInv'
<1>1. /\ job[j].at = "rename" /\ JobTo(j, "publish") /\ "publish" \in JobPlaces
      /\ UNCHANGED <<lock, root, content, version, current, launcher, doubt>>
      /\ form' = [form EXCEPT ![j] = "release"]
      /\ disk' = [disk EXCEPT !.form[j] = @ \union {"release"}]
  BY DEF RenameStage, JobAt, files, tree, JobPlaces, Building
<1>2. lock = j /\ UpdaterShapes /\ Fits(j) /\ Persisted /\ job[j] \in JobRecord /\ j \in Dirs
  BY <1>1, HoldsIt DEF Unlocked, Ended, Dirs
<1>3. /\ disk'.form = [disk.form EXCEPT ![j] = @ \union {"release"}]
      /\ disk'.current = disk.current /\ disk'.launcher = disk.launcher
      /\ disk'.root = disk.root /\ disk' \in DiskRecord
  BY <1>1, <1>2 DEF UpdaterShapes, DiskRecord, Names, Forms
<1>4. /\ job'[j] \in JobRecord /\ job' = [job EXCEPT ![j] = job'[j]]
      /\ job'[j].at = "publish" /\ job'[j].kind = job[j].kind /\ job'[j].dir = job[j].dir
      /\ job'[j].want = job[j].want /\ job'[j].seen = job[j].seen
  BY <1>1, <1>2, MovesOn
<1>5. UpdaterShapes'
    <2>1. form' \in [Dirs -> Names]
      BY <1>1, <1>2, <1>3, <1>4 DEF UpdaterShapes, Names, Forms
    <2>2. ASSUME NEW d \in Dirs PROVE form'[d] \in disk'.form[d]
      <3>1. CASE d = j
        BY <1>1, <1>2, <1>3, <1>4, <3>1 DEF UpdaterShapes, DiskRecord
      <3>2. CASE d # j
        BY <1>1, <1>2, <1>3, <1>4, <3>2 DEF UpdaterShapes, DiskRecord
      <3> QED BY <3>1, <3>2
    <2> QED BY <1>1, <1>2, <1>3, <1>4, <2>1, <2>2 DEF UpdaterShapes
<1>6. Fits(j)'
  BY <1>1, <1>2, <1>3, <1>4 DEF Fits, HoldsInstallLock, Unbuilt, Staged, Settled,
     Activates, Upward, Downward, Uninvolved, Unlocked, Ended, Building, UpdaterShapes
<1>7. Persisted'
  <2>1. ASSUME NEW p \in disk.current, p # Missing, Durable(p) PROVE Durable(p)'
    <3>1. p[1] \in Dirs /\ p \in Paths /\ p[2] \in Forms
      BY <1>2, <2>1 DEF UpdaterShapes, DiskRecord, Paths
    <3> QED BY <1>1, <1>2, <1>3, <2>1, <3>1 DEF Durable, UpdaterShapes, Fits, Unbuilt, Staged,
             Uninvolved, Unlocked
  <2> QED BY <1>1, <1>2, <1>3, <2>1 DEF Persisted, UpdaterShapes, Fits, Settled, Activates
<1>8. ASSUME NEW k \in Jobs \ {j}, Unbuilt(k) PROVE Unbuilt(k)'
  <2>1. job'[k] = job[k] /\ k \in Dirs /\ k # j
    BY <1>2, <1>4 DEF UpdaterShapes, Dirs
  <2> QED BY <1>1, <1>2, <1>3, <1>8, <2>1, OthersUnbuilt DEF UpdaterShapes, Fits, Activates, DiskRecord
<1> QED BY <1>1, <1>5, <1>6, <1>7, <1>8, HolderWrites DEF Unlocked, Ended

\* The releases are synced.
LEMMA SyncReleasesStep ==
  ASSUME UpdaterInv, NEW j \in Jobs, SyncReleases(j)
  PROVE UpdaterInv'
<1>1. /\ job[j].at = "publish" /\ JobTo(j, "launcher") /\ "launcher" \in JobPlaces
      /\ UNCHANGED <<lock, root, form, content, version, current, launcher, doubt>>
      /\ disk' = [disk EXCEPT !.form = [d \in Dirs |-> {form[d]}]]
  BY DEF SyncReleases, JobAt, files, tree, JobPlaces, Building
<1>2. lock = j /\ UpdaterShapes /\ Fits(j) /\ Persisted /\ job[j] \in JobRecord /\ j \in Dirs
  BY <1>1, HoldsIt DEF Unlocked, Ended, Dirs
<1>3. /\ disk'.form = [d \in Dirs |-> {form[d]}]
      /\ disk'.current = disk.current /\ disk'.launcher = disk.launcher
      /\ disk'.root = disk.root /\ disk' \in DiskRecord
  BY <1>1, <1>2 DEF UpdaterShapes, DiskRecord, Names, Forms
<1>4. /\ job'[j] \in JobRecord /\ job' = [job EXCEPT ![j] = job'[j]]
      /\ job'[j].at = "launcher" /\ job'[j].kind = job[j].kind /\ job'[j].dir = job[j].dir
      /\ job'[j].want = job[j].want /\ job'[j].seen = job[j].seen
  BY <1>1, <1>2, MovesOn
<1>5. UpdaterShapes'
  <2>1. \A d \in Dirs : form'[d] \in disk'.form[d]
    BY <1>1, <1>3
  <2> QED BY <1>1, <1>2, <1>3, <1>4, <2>1 DEF UpdaterShapes
<1>6. Fits(j)'
  BY <1>1, <1>2, <1>3, <1>4 DEF Fits, HoldsInstallLock, Unbuilt, Staged, Settled,
     Activates, Upward, Downward, Uninvolved, Unlocked, Ended, Building, UpdaterShapes
<1>7. Persisted'
  <2>1. ASSUME NEW p \in disk.current, p # Missing, Durable(p) PROVE Durable(p)'
    <3>1. p[1] \in Dirs /\ p \in Paths /\ p[2] \in Forms
      BY <1>2, <2>1 DEF UpdaterShapes, DiskRecord, Paths
    <3> QED BY <1>1, <1>2, <1>3, <2>1, <3>1 DEF Durable, UpdaterShapes, Fits, Unbuilt, Staged,
             Uninvolved, Unlocked
  <2> QED BY <1>1, <1>2, <1>3, <2>1 DEF Persisted, UpdaterShapes, Fits, Settled, Activates
<1>8. ASSUME NEW k \in Jobs \ {j}, Unbuilt(k) PROVE Unbuilt(k)'
  <2>1. job'[k] = job[k] /\ k \in Dirs /\ k # j
    BY <1>2, <1>4 DEF UpdaterShapes, Dirs
  <2> QED BY <1>1, <1>2, <1>3, <1>8, <2>1, OthersUnbuilt DEF UpdaterShapes, Fits, Activates, DiskRecord
<1> QED BY <1>1, <1>5, <1>6, <1>7, <1>8, HolderWrites DEF Unlocked, Ended

\* The present activation is made durable.
LEMMA LinkTemporaryStep ==
  ASSUME UpdaterInv, NEW j \in Jobs, LinkTemporary(j)
  PROVE UpdaterInv'
<1>1. /\ job[j].at = "link" /\ JobTo(j, "swap") /\ "swap" \in JobPlaces
      /\ UNCHANGED <<lock, root, form, content, version, current, launcher, doubt>>
      /\ disk' = [disk EXCEPT !.current = {current}]
  BY DEF LinkTemporary, JobAt, files, tree, JobPlaces, Building
<1>2. lock = j /\ UpdaterShapes /\ Fits(j) /\ Persisted /\ job[j] \in JobRecord /\ j \in Dirs
  BY <1>1, HoldsIt DEF Unlocked, Ended, Dirs
<1>3. /\ disk'.form = disk.form
      /\ disk'.current = {current} /\ disk'.launcher = disk.launcher
      /\ disk'.root = disk.root /\ disk' \in DiskRecord
  BY <1>1, <1>2 DEF UpdaterShapes, DiskRecord, Names, Forms
<1>4. /\ job'[j] \in JobRecord /\ job' = [job EXCEPT ![j] = job'[j]]
      /\ job'[j].at = "swap" /\ job'[j].kind = job[j].kind /\ job'[j].dir = job[j].dir
      /\ job'[j].want = job[j].want /\ job'[j].seen = job[j].seen
  BY <1>1, <1>2, MovesOn
<1>5. UpdaterShapes'
  BY <1>1, <1>2, <1>3, <1>4 DEF UpdaterShapes, Names, Forms
<1>6. Fits(j)'
  BY <1>1, <1>2, <1>3, <1>4 DEF Fits, HoldsInstallLock, Unbuilt, Staged, Settled,
     Activates, Upward, Downward, Uninvolved, Unlocked, Ended, Building, UpdaterShapes
<1>7. Persisted'
  <2>1. ASSUME NEW p \in disk.current, p # Missing, Durable(p) PROVE Durable(p)'
    <3>1. p[1] \in Dirs /\ p \in Paths /\ p[2] \in Forms
      BY <1>2, <2>1 DEF UpdaterShapes, DiskRecord, Paths
    <3> QED BY <1>1, <1>2, <1>3, <2>1, <3>1 DEF Durable, UpdaterShapes, Fits, Unbuilt, Staged,
             Uninvolved, Unlocked
  <2> QED BY <1>1, <1>2, <1>3, <2>1 DEF Persisted, UpdaterShapes, Fits, Settled, Activates
<1>8. ASSUME NEW k \in Jobs \ {j}, Unbuilt(k) PROVE Unbuilt(k)'
  <2>1. job'[k] = job[k] /\ k \in Dirs /\ k # j
    BY <1>2, <1>4 DEF UpdaterShapes, Dirs
  <2> QED BY <1>1, <1>2, <1>3, <1>8, <2>1, OthersUnbuilt DEF UpdaterShapes, Fits, Activates, DiskRecord
<1> QED BY <1>1, <1>5, <1>6, <1>7, <1>8, HolderWrites DEF Unlocked, Ended

\* An error while preparing.
LEMMA DiscardStageStep ==
  ASSUME UpdaterInv, NEW j \in Jobs, DiscardStage(j)
  PROVE UpdaterInv'
<1>1. /\ job[j].at \in {"payload", "hierarchy", "rename"} /\ JobEnds(j)
      /\ UNCHANGED <<root, version, current, launcher, doubt>>
      /\ form' = [form EXCEPT ![j] = "none"] /\ content' = [content EXCEPT ![j] = "partial"]
      /\ disk' = [disk EXCEPT !.form[j] = @ \union {"none"}]
  BY DEF DiscardStage
<1>2. lock = j /\ UpdaterShapes /\ Fits(j) /\ Persisted /\ job[j] \in JobRecord /\ j \in Dirs
  BY <1>1, HoldsIt DEF Unlocked, Ended, Dirs
<1>3. /\ disk'.form = [disk.form EXCEPT ![j] = @ \union {"none"}]
      /\ disk'.current = disk.current /\ disk'.launcher = disk.launcher
      /\ disk'.root = disk.root /\ disk' \in DiskRecord
  BY <1>1, <1>2 DEF UpdaterShapes, DiskRecord, Names, Forms
<1>4. job'[j] \in JobRecord /\ job' = [job EXCEPT ![j] = job'[j]] /\ Fits(j)' /\ lock' = Missing
  BY <1>1, <1>2, EndsAt DEF JobEnds, Ended
<1>5. UpdaterShapes'
    <2>1. form' \in [Dirs -> Names]
      BY <1>1, <1>2, <1>3, <1>4 DEF UpdaterShapes, Names, Forms
    <2>2. ASSUME NEW d \in Dirs PROVE form'[d] \in disk'.form[d]
      <3>1. CASE d = j
        BY <1>1, <1>2, <1>3, <1>4, <3>1 DEF UpdaterShapes, DiskRecord
      <3>2. CASE d # j
        BY <1>1, <1>2, <1>3, <1>4, <3>2 DEF UpdaterShapes, DiskRecord
      <3> QED BY <3>1, <3>2
    <2> QED BY <1>1, <1>2, <1>3, <1>4, <2>1, <2>2 DEF UpdaterShapes
<1>6. Persisted'
  <2>1. ASSUME NEW p \in disk.current, p # Missing, Durable(p) PROVE Durable(p)'
    <3>1. p[1] \in Dirs /\ p[1] # j
      BY <1>1, <1>2, <2>1 DEF UpdaterShapes, DiskRecord, Paths, Fits, Staged, Uninvolved
    <3> QED BY <1>1, <1>2, <1>3, <2>1, <3>1 DEF Durable, UpdaterShapes
  <2> QED BY <1>1, <1>2, <1>3, <2>1 DEF Persisted
<1>7. ASSUME NEW k \in Jobs \ {j} PROVE job'[k] = job[k] /\ (Unbuilt(k) => Unbuilt(k)')
  <2>1. job'[k] = job[k] /\ k \in Dirs /\ k # j
    BY <1>2, <1>4 DEF UpdaterShapes, Dirs
  <2> QED BY <1>1, <1>2, <1>3, <2>1, OthersUnbuilt DEF UpdaterShapes
<1> QED BY <1>1, <1>4, <1>5, <1>6, <1>7, HolderMoves DEF Unlocked, Ended

\* A stage is created, or an earlier release is validated again.
LEMMA BuildStep ==
  ASSUME UpdaterInv, NEW j \in Jobs, Build(j)
  PROVE UpdaterInv'
<1>1. job[j].at = "build" /\ UNCHANGED <<root, content, current, launcher, doubt>>
  BY DEF Build, JobAt
<1>2. lock = j /\ UpdaterShapes /\ Fits(j) /\ Persisted /\ job[j] \in JobRecord /\ j \in Dirs
  BY <1>1, HoldsIt DEF Unlocked, Ended, Dirs
<1>3. CASE Released(job[j].want) # {}
  <2>1. UNCHANGED <<form, version, disk, files>>
    BY <1>1, <1>3 DEF Build, files, tree
  <2>2. CASE JobEnds(j)
    BY <1>1, <2>1, <2>2, Ends
  <2>3. CASE ~JobEnds(j)
    <3>1. PICK d \in Released(job[j].want) :
            job' = [job EXCEPT ![j].at = "launcher", ![j].dir = d] /\ UNCHANGED lock
      BY <1>3, <2>3 DEF Build
    <3> DEFINE r == [job[j] EXCEPT !.at = "launcher", !.dir = d]
    <3>2. d \in Dirs /\ form[d] = "release" /\ version[d] = job[j].want
      BY <3>1 DEF Released
    <3>3. /\ r \in JobRecord /\ r.at = "launcher" /\ r.dir = d /\ r.kind = job[j].kind
          /\ r.want = job[j].want
      BY <1>2, <3>2 DEF JobRecord, JobPlaces, Building
    <3>4. job' = [job EXCEPT ![j] = r] /\ job'[j] = r
      BY <1>2, <3>1 DEF UpdaterShapes
    <3> HIDE DEF r
    <3>5. Fits(j)'
      BY <1>1, <1>2, <2>1, <3>1, <3>2, <3>3, <3>4 DEF Fits, HoldsInstallLock, Unbuilt, Staged, Settled,
         Activates, Upward, Downward, Unlocked, Building
    <3> QED BY <1>1, <2>1, <3>1, <3>3, <3>4, <3>5, JobsMove
  <2> QED BY <2>2, <2>3
<1>4. CASE Released(job[j].want) = {}
  <2>1. /\ form' = [form EXCEPT ![j] = "stage"] /\ version' = [version EXCEPT ![j] = job[j].want]
        /\ disk' = [disk EXCEPT !.form[j] = @ \union {"stage"}]
        /\ JobTo(j, "payload") /\ "payload" \in JobPlaces /\ UNCHANGED lock
    BY <1>4 DEF Build, JobPlaces, Building
  <2>2. /\ disk'.form = [disk.form EXCEPT ![j] = @ \union {"stage"}]
        /\ disk'.current = disk.current /\ disk'.launcher = disk.launcher
        /\ disk'.root = disk.root /\ disk' \in DiskRecord
    BY <1>2, <2>1 DEF UpdaterShapes, DiskRecord, Names, Forms
  <2>3. /\ job'[j] \in JobRecord /\ job' = [job EXCEPT ![j] = job'[j]]
        /\ job'[j].at = "payload" /\ job'[j].kind = job[j].kind /\ job'[j].dir = job[j].dir
        /\ job'[j].want = job[j].want
    BY <1>2, <2>1, MovesOn
  <2>4. form[j] = "none" /\ disk.form[j] = {"none"} /\ Uninvolved(j) /\ job[j].dir = j
    BY <1>1, <1>2 DEF Fits, Unbuilt
  <2>5. UpdaterShapes'
    <3>1. version' \in [Dirs -> Nat] /\ form' \in [Dirs -> Names]
      BY <1>2, <2>1 DEF UpdaterShapes, JobRecord, Names, Forms
    <3>2. ASSUME NEW d \in Dirs PROVE form'[d] \in disk'.form[d]
      <4>1. CASE d = j
        BY <1>1, <1>2, <2>1, <2>2, <2>3, <4>1 DEF UpdaterShapes, DiskRecord
      <4>2. CASE d # j
        BY <1>1, <1>2, <2>1, <2>2, <2>3, <4>2 DEF UpdaterShapes, DiskRecord
      <4> QED BY <4>1, <4>2
    <3> QED BY <1>1, <1>2, <2>1, <2>2, <2>3, <3>1, <3>2 DEF UpdaterShapes
  <2>6. Fits(j)'
    <3>1. current # Missing => current[1] # j /\ current[1] \in Dirs
      BY <1>2, <2>4 DEF Uninvolved, UpdaterShapes, Paths
    <3>2. disk'.form[j] = {"none", "stage"} /\ form'[j] = "stage" /\ version'[j] = job[j].want
      BY <1>2, <2>1, <2>2, <2>4 DEF UpdaterShapes, DiskRecord
    <3>3. current # Missing => version'[current[1]] = version[current[1]]
      BY <1>2, <2>1, <3>1 DEF UpdaterShapes
    <3> QED BY <1>1, <1>2, <2>1, <2>2, <2>3, <2>4, <3>2, <3>3 DEF Fits, HoldsInstallLock, Unbuilt, Staged,
       Settled, Activates, Upward, Downward, Uninvolved, Unlocked, Building
  <2>7. Persisted'
    <3>1. ASSUME NEW p \in disk.current, p # Missing, Durable(p) PROVE Durable(p)'
      <4>1. p[1] \in Dirs /\ p[1] # j
        BY <1>2, <2>4, <3>1 DEF UpdaterShapes, DiskRecord, Paths, Uninvolved
      <4> QED BY <1>1, <1>2, <2>2, <3>1, <4>1 DEF Durable, UpdaterShapes, DiskRecord
    <3> QED BY <1>1, <1>2, <2>2, <3>1 DEF Persisted
  <2>8. ASSUME NEW k \in Jobs \ {j}, Unbuilt(k) PROVE Unbuilt(k)'
    <3>1. job'[k] = job[k] /\ k \in Dirs /\ k # j
      BY <1>2, <2>3 DEF UpdaterShapes, Dirs
    <3> QED BY <1>1, <1>2, <2>1, <2>2, <2>8, <3>1, OthersUnbuilt DEF UpdaterShapes, DiskRecord
  <2> QED BY <1>1, <2>1, <2>5, <2>6, <2>7, <2>8, HolderWrites DEF Unlocked, Ended
<1> QED BY <1>3, <1>4

\* The swap: what a power loss may leave is the old activation or the new one.
LEMMA SwapStep ==
  ASSUME UpdaterInv, NEW j \in Jobs, SwapCurrent(j)
  PROVE UpdaterInv'
<1>1. /\ job[j].at = "swap" /\ JobTo(j, "confirm") /\ "confirm" \in JobPlaces
      /\ UNCHANGED <<lock, root, form, content, version, launcher>>
      /\ current' = <<job[j].dir, form[job[j].dir]>>
      /\ disk' = [disk EXCEPT !.current = @ \union {<<job[j].dir, form[job[j].dir]>>}]
      /\ doubt' = doubt \union Debris(job[j].dir)
  BY DEF SwapCurrent, JobAt, tree, JobPlaces
<1>2. lock = j /\ UpdaterShapes /\ Fits(j) /\ Persisted /\ job[j] \in JobRecord
  BY <1>1, HoldsIt DEF Unlocked, Ended
<1>3. /\ job[j].dir \in Dirs /\ form[job[j].dir] \in Forms
  BY <1>1, <1>2 DEF JobRecord, Fits, Activates, UpdaterShapes, Names
<1>4. PICK path \in Paths :
        /\ path = <<job[j].dir, form[job[j].dir]>>
        /\ path # Missing /\ path[1] = job[j].dir /\ path[2] = form[job[j].dir]
  <2> DEFINE named == <<job[j].dir, form[job[j].dir]>>
  <2>1. named \in Paths /\ named[1] = job[j].dir /\ named[2] = form[job[j].dir]
    BY <1>3 DEF Paths
  <2> QED BY <2>1, MissingConstant
<1>5. /\ disk'.form = disk.form /\ disk'.current = disk.current \union {path}
      /\ disk'.launcher = disk.launcher /\ disk'.root = disk.root /\ disk' \in DiskRecord
  BY <1>1, <1>2, <1>4 DEF UpdaterShapes, DiskRecord
<1>6. /\ job'[j] \in JobRecord /\ job' = [job EXCEPT ![j] = job'[j]]
      /\ job'[j].at = "confirm" /\ job'[j].dir = job[j].dir
  BY <1>1, <1>2, MovesOn
<1>7. UpdaterShapes'
  BY <1>1, <1>2, <1>4, <1>5, <1>6 DEF UpdaterShapes
<1>8. Fits(j)'
  BY <1>1, <1>2, <1>4, <1>6 DEF Fits, HoldsInstallLock, Unbuilt, Staged, Settled,
     Activates, Upward, Downward, Unlocked, Building
<1>9. Persisted'
  <2> SUFFICES ASSUME doubt' = {}
               PROVE /\ \A p \in disk'.current : p = Missing \/ Durable(p)'
                     /\ TRUE \in disk'.launcher => Missing \notin disk'.current
    BY DEF Persisted
  <2>1. doubt = {} /\ Debris(job[j].dir) = {}
    BY <1>1
  <2>2. content[path[1]] = "synced" /\ disk.form[path[1]] = {path[2]}
    BY <1>4, <2>1 DEF Debris
  <2>3. Durable(path)'
    BY <1>1, <1>5, <2>2 DEF Durable
  <2>4. \A p \in disk.current : p = Missing \/ Durable(p)'
    BY <1>1, <1>2, <1>5, <2>1 DEF Persisted, Durable
  <2> QED BY <1>2, <1>4, <1>5, <2>1, <2>3, <2>4 DEF Persisted
<1>10. ASSUME NEW k \in Jobs \ {j}, Unbuilt(k) PROVE Unbuilt(k)'
  <2>1. job'[k] = job[k]
    BY <1>2, <1>6 DEF UpdaterShapes
  <2>2. form[path[1]] # "none"
    BY <1>3, <1>4 DEF Forms
  <2> QED BY <1>1, <1>2, <1>4, <1>5, <1>10, <2>1, <2>2, OthersUnbuilt
<1> QED BY <1>1, <1>7, <1>8, <1>9, <1>10, HolderWrites DEF Unlocked, Ended

\* The swap is made durable.
LEMMA ConfirmStep ==
  ASSUME UpdaterInv, NEW j \in Jobs, ConfirmSwap(j)
  PROVE UpdaterInv'
<1>1. /\ job[j].at = "confirm" /\ AfterSwap(j)
      /\ UNCHANGED <<root, form, content, version, current, launcher>>
      /\ disk' = [disk EXCEPT !.current = {current}] /\ doubt' = Debris(job[j].dir)
  BY DEF ConfirmSwap, JobAt, files, tree
<1>2. lock = j /\ UpdaterShapes /\ Fits(j) /\ Persisted /\ job[j] \in JobRecord
  BY <1>1, HoldsIt DEF Unlocked, Ended
<1>3. /\ disk'.form = disk.form /\ disk'.current = {current}
      /\ disk'.launcher = disk.launcher /\ disk'.root = disk.root /\ disk' \in DiskRecord
  BY <1>1, <1>2 DEF UpdaterShapes, DiskRecord
<1>4. current # Missing /\ current[1] = job[j].dir /\ current[2] = form[job[j].dir]
  <2>1. current = <<job[j].dir, form[job[j].dir]>>
    BY <1>1, <1>2 DEF Fits, Activates
  <2>2. current # Missing
    BY <1>1, <1>2 DEF Fits, Activates
  <2> QED BY <2>1, <2>2
<1>5. /\ job'[j] \in JobRecord /\ job' = [job EXCEPT ![j] = job'[j]] /\ Fits(j)'
      /\ lock' \in {lock, Missing}
  <2>1. CASE JobTo(j, "expose") /\ UNCHANGED lock
    <3>1. /\ job'[j] \in JobRecord /\ job' = [job EXCEPT ![j] = job'[j]]
          /\ job'[j].at = "expose"
      BY <1>2, <2>1, MovesOn DEF JobPlaces
    <3> QED BY <1>1, <1>2, <1>3, <1>4, <2>1, <3>1 DEF Fits, HoldsInstallLock, Unbuilt, Staged,
         Settled, Activates, Upward, Downward, Unlocked, Building
  <2>2. CASE JobEnds(j)
    BY <1>2, <2>2, EndsAt DEF JobEnds, Ended
  <2> QED BY <1>1, <2>1, <2>2 DEF AfterSwap
<1>6. UpdaterShapes'
  BY <1>1, <1>2, <1>3, <1>5 DEF UpdaterShapes
<1>7. Persisted'
  BY <1>1, <1>3, <1>4 DEF Persisted, Durable, Debris
<1>8. ASSUME NEW k \in Jobs \ {j} PROVE job'[k] = job[k] /\ (Unbuilt(k) => Unbuilt(k)')
  <2>1. job'[k] = job[k]
    BY <1>2, <1>5 DEF UpdaterShapes
  <2> QED BY <1>1, <1>2, <1>3, <2>1, OthersUnbuilt DEF UpdaterShapes
<1> QED BY <1>1, <1>5, <1>6, <1>7, <1>8, HolderMoves DEF Unlocked, Ended

\* The launcher is published and synced.
LEMMA LauncherSteps ==
  ASSUME UpdaterInv, NEW j \in Jobs, ExposeLauncher(j) \/ SyncLauncher(j)
  PROVE UpdaterInv'
<1>1. /\ job[j].at \in {"expose", "syncbin"}
      /\ UNCHANGED <<root, form, content, version, current, doubt>>
      /\ launcher' \in {launcher, TRUE}
      /\ disk' = [disk EXCEPT !.launcher = disk'.launcher]
      /\ \/ job[j].at = "expose" /\ disk'.launcher = disk.launcher \union {TRUE} /\ lock' = lock
            /\ launcher' = TRUE
         \/ disk'.launcher = {launcher} /\ launcher' = launcher
  <2>1. disk \in DiskRecord
    BY DEF UpdaterInv, UpdaterShapes
  <2> QED BY <2>1 DEF ExposeLauncher, SyncLauncher, JobAt, files, tree, DiskRecord
<1>2. lock = j /\ UpdaterShapes /\ Fits(j) /\ Persisted /\ job[j] \in JobRecord
  BY <1>1, HoldsIt DEF Unlocked, Ended
<1>3. /\ disk'.form = disk.form /\ disk'.current = disk.current
      /\ disk'.root = disk.root /\ disk' \in DiskRecord
  BY <1>1, <1>2 DEF UpdaterShapes, DiskRecord
<1>4. /\ job'[j] \in JobRecord /\ job' = [job EXCEPT ![j] = job'[j]] /\ Fits(j)'
      /\ lock' \in {lock, Missing}
  <2>1. CASE ExposeLauncher(j)
    <3> DEFINE r == [job[j] EXCEPT !.at = "syncbin", !.temporary = FALSE]
    <3>1. r \in JobRecord /\ r.at = "syncbin"
      BY <1>2 DEF JobRecord, JobPlaces
    <3>2. job' = [job EXCEPT ![j] = r] /\ job'[j] = r /\ lock' = lock
      BY <1>2, <2>1 DEF ExposeLauncher, UpdaterShapes
    <3> HIDE DEF r
    <3> QED BY <1>2, <3>1, <3>2 DEF Fits, HoldsInstallLock, Unbuilt, Staged, Settled, Activates, Upward,
         Downward, Unlocked, Building
  <2>2. CASE SyncLauncher(j)
    BY <1>2, <2>2, EndsAt DEF SyncLauncher, JobEnds, Ended
  <2> QED BY <2>1, <2>2
<1>5. UpdaterShapes'
  BY <1>1, <1>2, <1>3, <1>4 DEF UpdaterShapes
<1>6. Persisted'
  BY <1>1, <1>2, <1>3 DEF Persisted, Durable, Fits, Activates, UpdaterShapes
<1>7. ASSUME NEW k \in Jobs \ {j} PROVE job'[k] = job[k] /\ (Unbuilt(k) => Unbuilt(k)')
  <2>1. job'[k] = job[k]
    BY <1>2, <1>4 DEF UpdaterShapes
  <2> QED BY <1>1, <1>2, <1>3, <2>1, OthersUnbuilt
<1> QED BY <1>1, <1>4, <1>5, <1>6, <1>7, HolderMoves DEF Unlocked, Ended

\* A job is killed.
LEMMA KilledStep ==
  ASSUME UpdaterInv, NEW j \in Jobs, JobKilled(j)
  PROVE UpdaterInv'
<1>1. /\ job'[j] \in JobRecord /\ job' = [job EXCEPT ![j] = job'[j]] /\ Fits(j)'
  BY EndsAt DEF JobKilled, Ended, UpdaterInv
<1> QED BY <1>1, JobsMove DEF JobKilled

\* Power is lost: what comes up is what was made durable.
LEMMA PowerLossStep ==
  ASSUME UpdaterInv, PowerLoss
  PROVE UpdaterInv'
<1>1. UpdaterShapes /\ Persisted /\ \A j \in Jobs : Fits(j)
  BY DEF UpdaterInv
<1>2. /\ job' = [j \in Jobs |-> IF Running(j) THEN Idle(j, "dead") ELSE job[j]]
      /\ lock' = Missing /\ root' \in disk.root
      /\ form' \in [Dirs -> Names] /\ (\A d \in Dirs : form'[d] \in disk.form[d])
      /\ content' \in [Dirs -> {"partial", "synced"}]
      /\ \A d \in Dirs : content[d] # "written" => content'[d] = content[d]
      /\ current' \in disk.current /\ launcher' \in disk.launcher
      /\ disk' = [root |-> {root'}, form |-> [d \in Dirs |-> {form'[d]}],
                 current |-> {current'}, launcher |-> {launcher'}]
      /\ UNCHANGED <<version, doubt>>
  BY DEF PowerLoss, Names
<1>3. /\ disk'.form = [d \in Dirs |-> {form'[d]}] /\ disk'.current = {current'}
      /\ disk'.launcher = {launcher'} /\ disk'.root = {root'}
  BY <1>2
<1>4. /\ root' \in RootStates /\ current' \in Paths \union {Missing} /\ launcher' \in BOOLEAN
  BY <1>1, <1>2 DEF UpdaterShapes, DiskRecord
<1>5. ASSUME NEW j \in Jobs
      PROVE job'[j] \in JobRecord /\ (job'[j].at \in Ended \/ (job'[j] = job[j] /\ job[j].at = "idle"))
  <2>1. Idle(j, "dead") \in JobRecord /\ Idle(j, "dead").at = "dead"
    BY DEF Idle, Job, JobRecord, JobPlaces, Ended, JobKinds, Dirs
  <2> QED BY <1>1, <1>2, <2>1 DEF Running, Ended, UpdaterShapes
<1>6. UpdaterShapes'
  <2>1. job' \in [Jobs -> JobRecord]
    BY <1>2, <1>5
  <2>2. disk' \in DiskRecord
    BY <1>2, <1>4 DEF DiskRecord
  <2>3. \A d \in Dirs : form'[d] \in disk'.form[d]
    BY <1>3
  <2> QED BY <1>1, <1>2, <1>3, <1>4, <2>1, <2>2, <2>3 DEF UpdaterShapes
<1>7. ASSUME NEW j \in Jobs PROVE Fits(j)'
  <2>1. CASE job'[j].at \in Ended
    BY <2>1, Rests
  <2>2. CASE job'[j] = job[j] /\ job[j].at = "idle"
    <3>1. disk.form[j] = {"none"} /\ Uninvolved(j) /\ job[j].dir = j /\ j \in Dirs
      BY <1>1, <2>2 DEF Fits, Unbuilt, Unlocked, Dirs
    <3>2. form'[j] = "none" /\ disk'.form[j] = {"none"} /\ Uninvolved(j)'
      BY <1>2, <1>3, <3>1 DEF Uninvolved
    <3> QED BY <2>2, <3>1, <3>2 DEF Fits, HoldsInstallLock, Unbuilt, Staged, Settled, Activates, Upward,
         Downward, Unlocked, Building
  <2> QED BY <1>5, <2>1, <2>2
<1>8. Persisted'
  <2>1. ASSUME NEW p \in disk.current, p # Missing, Durable(p) PROVE Durable(p)'
    <3>1. p[1] \in Dirs
      BY <1>1, <2>1 DEF UpdaterShapes, DiskRecord, Paths
    <3> QED BY <1>1, <1>2, <1>3, <2>1, <3>1 DEF Durable, UpdaterShapes
  <2> QED BY <1>1, <1>2, <1>3, <2>1 DEF Persisted
<1> QED BY <1>6, <1>7, <1>8 DEF UpdaterInv

\* The invariant is inductive.
LEMMA UpdaterInvStep ==
  ASSUME UpdaterInv, [UpdaterNext]_updaterVars
  PROVE UpdaterInv'
<1>1. CASE UNCHANGED updaterVars
  <2>1. UNCHANGED <<job, lock, root, form, content, version, current, launcher, disk, doubt>>
    BY <1>1 DEF updaterVars, files, tree
  <2>2. UpdaterShapes' /\ Persisted'
    BY <2>1 DEF UpdaterInv, UpdaterShapes, Persisted, Durable
  <2>3. ASSUME NEW j \in Jobs PROVE Fits(j)'
    BY <2>1 DEF UpdaterInv, Fits, HoldsInstallLock, Unbuilt, Staged, Settled, Activates, Upward,
       Downward, Uninvolved
  <2> QED BY <2>2, <2>3 DEF UpdaterInv
<1>2. ASSUME NEW j \in Jobs, Install(j) PROVE UpdaterInv'
  BY <1>2, Decides, SettleStep, RelaunchStep, BuildStep, WritePayloadStep, SyncHierarchyStep,
     DiscardStageStep, RenameStageStep, SyncReleasesStep DEF Install
<1>3. ASSUME NEW j \in Jobs, Activate(j) PROVE UpdaterInv'
  BY <1>3, Decides, LinkTemporaryStep, SwapStep, ConfirmStep, LauncherSteps DEF Activate
<1> QED BY <1>1, <1>2, <1>3, Approaches, Decides, KilledStep, PowerLossStep DEF UpdaterNext

\* The invariant holds throughout.
LEMMA UpdaterInvAlways == UpdaterSpec => []UpdaterInv
BY UpdaterInvInit, UpdaterInvStep, PTL DEF UpdaterSpec

\* prepare_release, install_staged and atomic_symlink sync in an order that leaves
\* the public launcher with a complete release wherever jobs die and power is lost,
\* the excepted activations apart.
THEOREM LauncherAlwaysRuns == UpdaterSpec => []LauncherRuns
<1>1. UpdaterInv => LauncherRuns
  <2> SUFFICES ASSUME UpdaterInv, launcher, doubt = {} PROVE Runnable(current)
    BY DEF LauncherRuns
  <2>1. current \in disk.current /\ launcher \in disk.launcher /\ launcher \in BOOLEAN
        /\ current \in Paths \union {Missing}
    BY DEF UpdaterInv, UpdaterShapes
  <2>2. TRUE \in disk.launcher
    BY <2>1
  <2>3. current # Missing /\ Durable(current)
    BY <2>1, <2>2 DEF UpdaterInv, Persisted
  <2>4. form[current[1]] \in disk.form[current[1]]
    BY <2>1, <2>3 DEF UpdaterInv, UpdaterShapes, Paths
  <2> QED BY <2>3, <2>4 DEF Runnable, Exists, Durable
<1> QED BY <1>1, UpdaterInvAlways, PTL

\* A job moves only itself.
LEMMA OnlyItself ==
  ASSUME NEW k \in Jobs, Approach(k) \/ Install(k) \/ Activate(k) \/ SyncFails(k) \/ JobKilled(k),
         job \in [Jobs -> JobRecord], NEW q \in Jobs, q # k
  PROVE job'[q] = job[q]
<1>1. CASE Approach(k)
  BY <1>1 DEF Approach, Discover, OpenRoot, MarkRoot, TakeLock, JobTo, JobEnds
<1>2. CASE Install(k)
  BY <1>2 DEF Install, Settle, Compare, ReceiptLost, Relaunch, Build, WritePayload, SyncHierarchy,
     DiscardStage, RenameStage, SyncReleases, StageLauncher, JobTo, JobEnds
<1>3. CASE Activate(k)
  BY <1>3 DEF Activate, ChooseRetained, LinkTemporary, SwapCurrent, ConfirmSwap, SwapUnconfirmed,
     ExposeLauncher, SyncLauncher, AfterSwap, Choose, JobTo, JobEnds
<1>4. CASE SyncFails(k) \/ JobKilled(k)
  BY <1>4 DEF SyncFails, JobKilled, JobEnds
<1> QED BY <1>1, <1>2, <1>3, <1>4

\* Only SwapCurrent swaps.
LEMMA OnlySwaps ==
  ASSUME NEW j \in Jobs, Approach(j) \/ Install(j) \/ Activate(j) \/ SyncFails(j) \/ JobKilled(j),
         job \in [Jobs -> JobRecord], job[j].at = "swap", job'[j].at = "confirm"
  PROVE SwapCurrent(j)
<1>1. ~Approach(j)
  BY DEF Approach, Discover, OpenRoot, MarkRoot, TakeLock, JobAt
<1>2. ~Install(j)
  BY DEF Install, Settle, Compare, ReceiptLost, Relaunch, Build, WritePayload, SyncHierarchy,
     DiscardStage, RenameStage, SyncReleases, StageLauncher, JobAt
<1>3. ~SyncFails(j)
  BY DEF SyncFails
<1>4. ~JobKilled(j)
  BY DEF JobKilled, Idle, Job
<1> QED BY <1>1, <1>2, <1>3, <1>4 DEF Activate, ChooseRetained, LinkTemporary, ConfirmSwap,
     SwapUnconfirmed, ExposeLauncher, SyncLauncher, JobAt

\* The activation that a swap makes is in order with the one it replaces.
InOrder(j) ==
  LET old == version[current[1]]
      new == version[current'[1]]
  IN IF job[j].kind # "rollback" THEN new > old
     ELSE /\ current = job[j].seen /\ new < old
          /\ \/ new = job[j].want
             \/ \A d \in Dirs :
                  form[d] # "none" /\ content[d] # "partial" /\ version[d] > new
                    => version[d] >= old

\* The comparisons under .install.lock: installations move the activation forward,
\* rollbacks from the release the user saw to an older one.
THEOREM ActivationsInOrder == UpdaterSpec => ActivatesInOrder
<1>1. ASSUME UpdaterInv, [UpdaterNext]_updaterVars
      PROVE \A j \in Jobs :
              JobAt(j, "swap") /\ job'[j].at = "confirm" /\ current # Missing => InOrder(j)
  <2> SUFFICES ASSUME NEW j \in Jobs, job[j].at = "swap", job'[j].at = "confirm", current # Missing
               PROVE  InOrder(j)
    BY DEF JobAt
  <2>1. current'[1] = job[j].dir
    <3>1. ASSUME NEW k \in Jobs, Approach(k) \/ Install(k) \/ Activate(k) \/ SyncFails(k) \/ JobKilled(k)
          PROVE k = j /\ SwapCurrent(j)
      <4>1. \A q \in Jobs : q # k => job'[q] = job[q]
        BY <1>1, <3>1, OnlyItself DEF UpdaterInv, UpdaterShapes
      <4>2. k = j
        BY <4>1
      <4> QED BY <1>1, <3>1, <4>2, OnlySwaps DEF UpdaterInv, UpdaterShapes
    <3>2. ~PowerLoss
      <4>1. SUFFICES ASSUME PowerLoss PROVE FALSE
        OBVIOUS
      <4>2. job'[j] = IF Running(j) THEN Idle(j, "dead") ELSE job[j]
        BY <4>1 DEF PowerLoss
      <4> QED BY <4>2 DEF Idle, Job
    <3>3. job' # job
      OBVIOUS
    <3>4. SwapCurrent(j)
      BY <1>1, <3>1, <3>2, <3>3 DEF UpdaterNext, updaterVars
    <3> QED BY <3>4 DEF SwapCurrent
  <2>2. Fits(j)
    BY <1>1 DEF UpdaterInv
  <2> QED BY <2>1, <2>2 DEF Fits, Upward, Downward, InOrder
<1> QED BY <1>1, UpdaterInvAlways, PTL DEF UpdaterSpec, ActivatesInOrder, InOrder
=============================================================================
