------------------------- MODULE LaunchLedgerProofs --------------------------
(***************************************************************************)
(* What the launch ledger guarantees for any number of tokens,             *)
(* conversations, wrappers and process generations.                        *)
(***************************************************************************)
EXTENDS LaunchLedger, TLAPS

-----------------------------------------------------------------------------
(* Type correctness.                                                       *)

\* Writing one field of one meta row keeps the table's type.
LEMMA MetaRowUpdate ==
  ASSUME NEW m \in [Tokens -> MetaRows], NEW t \in Tokens
  PROVE  /\ \A p \in Phases \union {None} :
              [m EXCEPT ![t].phase = p] \in [Tokens -> MetaRows]
         /\ \A r \in WrapperRows \union {None} :
              [m EXCEPT ![t].wrapper = r] \in [Tokens -> MetaRows]
         /\ \A r \in Receipts \union {None} :
              [m EXCEPT ![t].receipt = r] \in [Tokens -> MetaRows]
<1>1. ASSUME NEW p \in Phases \union {None}
      PROVE  [m EXCEPT ![t].phase = p] \in [Tokens -> MetaRows]
  <2>1. [m[t] EXCEPT !.phase = p] \in MetaRows
    BY DEF MetaRows
  <2> QED BY <2>1
<1>2. ASSUME NEW r \in WrapperRows \union {None}
      PROVE  [m EXCEPT ![t].wrapper = r] \in [Tokens -> MetaRows]
  <2>1. [m[t] EXCEPT !.wrapper = r] \in MetaRows
    BY DEF MetaRows
  <2> QED BY <2>1
<1>3. ASSUME NEW r \in Receipts \union {None}
      PROVE  [m EXCEPT ![t].receipt = r] \in [Tokens -> MetaRows]
  <2>1. [m[t] EXCEPT !.receipt = r] \in MetaRows
    BY DEF MetaRows
  <2> QED BY <2>1
<1> QED BY <1>1, <1>2, <1>3

\* Reserving, starting and binding a launch keep the tables typed.
LEMMA LaunchStepTypes == LedgerTypeOK /\ LaunchStep => LedgerTypeOK'
<1> SUFFICES ASSUME LedgerTypeOK, NEW t \in Tokens,
                    \/ AddPending(t)
                    \/ BindLaunch(t)
                    \/ DeletePending(t)
                    \/ \E w \in Wrappers : RegisterWrapper(t, w)
                    \/ \E g \in Generations :
                         FinalizePane(t, g) \/ ObserveGeneration(t, g)
                    \/ \E p \in {"pane_prepared", "provider_starting"} :
                         SetLaunchPhase(t, p)
             PROVE  LedgerTypeOK'
  BY DEF LaunchStep
<1> USE LedgerConstants DEF LedgerTypeOK
<1>1. CASE AddPending(t)
  BY <1>1 DEF AddPending, PendingRows, MetaRows, NoMeta, Phases, Times
<1>2. CASE BindLaunch(t)
  BY <1>2 DEF BindLaunch
<1>3. CASE DeletePending(t)
  BY <1>3 DEF DeletePending, RemovePending, MetaRows, NoMeta
<1>4. ASSUME NEW w \in Wrappers, RegisterWrapper(t, w) PROVE LedgerTypeOK'
  <2>1. HasPending(t) => pending[t] \in PendingRows
    BY DEF HasPending
  <2>2. HasPending(t) => [owner |-> w, created |-> pending[t].created] \in WrapperRows
    BY <2>1 DEF PendingRows, WrapperRows
  <2>3. meta' \in [Tokens -> MetaRows]
    BY <1>4, <2>2, MetaRowUpdate DEF RegisterWrapper
  <2> QED BY <1>4, <2>3 DEF RegisterWrapper
<1>5. ASSUME NEW g \in Generations, FinalizePane(t, g) PROVE LedgerTypeOK'
  <2> DEFINE row == [pending[t] EXCEPT !.pane = TRUE, !.root = g]
  <2>1. HasPending(t) => row \in PendingRows
    <3>1. CASE pending[t] \in PendingRows
      BY <3>1 DEF PendingRows
    <3> QED BY <3>1 DEF HasPending
  <2>2. HasPending(t) => pending' = [pending EXCEPT ![t] = row]
    BY <1>5 DEF FinalizePane
  <2>3. pending' \in [Tokens -> PendingRows \union {None}]
    BY <1>5, <2>1, <2>2 DEF FinalizePane
  <2>4. meta' \in [Tokens -> MetaRows]
    BY <1>5, MetaRowUpdate DEF FinalizePane, Phases
  <2> QED BY <1>5, <2>3, <2>4 DEF FinalizePane
<1>6. ASSUME NEW g \in Generations, ObserveGeneration(t, g) PROVE LedgerTypeOK'
  BY <1>6 DEF ObserveGeneration, HasPending, MetaRows, PendingRows, Phases
<1>7. ASSUME NEW p \in {"pane_prepared", "provider_starting"},
             SetLaunchPhase(t, p)
      PROVE LedgerTypeOK'
  BY <1>7 DEF SetLaunchPhase, MetaRows, Phases
<1> QED BY <1>1, <1>2, <1>3, <1>4, <1>5, <1>6, <1>7

\* Certifying, recovering, switching and hooks keep the tables typed.
LEMMA IdentityStepTypes == LedgerTypeOK /\ IdentityStep => LedgerTypeOK'
<1> SUFFICES ASSUME LedgerTypeOK, NEW t \in Tokens, NEW s \in Sessions,
                    NEW g \in Generations,
                    \/ CertifyLaunch(t, s, g)
                    \/ RecoverConfirmed(t, s, g)
                    \/ \E to \in Sessions : SwitchBinding(t, s, to, g)
                    \/ \E w \in Wrappers, event \in HookEvents,
                         verified \in BOOLEAN : Hook(t, s, w, g, event, verified)
             PROVE  LedgerTypeOK'
  BY DEF IdentityStep
<1> USE DEF LedgerTypeOK
<1>1. CASE CertifyLaunch(t, s, g)
  BY <1>1 DEF CertifyLaunch, RemovePending, RecoveryRows, MetaRows, NoMeta
<1>2. CASE RecoverConfirmed(t, s, g)
  BY <1>2 DEF RecoverConfirmed, RemovePending, RecoveryRows, MetaRows, NoMeta
<1>3. ASSUME NEW to \in Sessions, SwitchBinding(t, s, to, g) PROVE LedgerTypeOK'
  BY <1>3 DEF SwitchBinding, RecoveryRows
<1>4. ASSUME NEW w \in Wrappers, NEW event \in HookEvents,
             NEW verified \in BOOLEAN, Hook(t, s, w, g, event, verified)
      PROVE LedgerTypeOK'
  <2>1. binding' \in [Tokens -> Sessions \union {None}]
    BY <1>4 DEF Hook
  <2>2. recovery' \in [Sessions -> RecoveryRows \union {None}]
    BY <1>4 DEF Hook, RecoveryRows
  <2>3. owners' \in [Sessions -> SUBSET Wrappers]
    BY <1>4 DEF Hook
  <2>4. known' \subseteq Sessions
    BY <1>4 DEF Hook
  <2>5. /\ pending' \in [Tokens -> PendingRows \union {None}]
        /\ meta' \in [Tokens -> MetaRows]
    <3>1. RemovePending(t) \/ UNCHANGED <<pending, meta>>
      BY <1>4 DEF Hook
    <3> QED BY <3>1 DEF RemovePending, MetaRows, NoMeta
  <2> QED BY <1>4, <2>1, <2>2, <2>3, <2>4, <2>5 DEF Hook
<1> QED BY <1>1, <1>2, <1>3, <1>4

\* Exit callbacks keep the tables typed.
LEMMA ExitStepTypes == LedgerTypeOK /\ ExitStep => LedgerTypeOK'
<1> SUFFICES ASSUME LedgerTypeOK, NEW t \in Tokens, NEW w \in Wrappers,
                    NEW code \in Codes, NEW at \in Times,
                    NEW reported \in Sessions \union {None},
                    ProcessExit(t, w, code, at, reported)
             PROVE  LedgerTypeOK'
  BY DEF ExitStep
<1> USE DEF LedgerTypeOK
<1>1. CASE ReleaseLaunch(t, ExitTarget(t, reported), w)
  BY <1>1 DEF ReleaseLaunch, Unbind
<1>2. CASE RecordExit(t, w, code, at, reported)
  <2>1. pending[t] \in PendingRows
    BY <1>2 DEF RecordExit, ReceiptDue, HasPending
  <2>2. [created |-> pending[t].created, code |-> code, at |-> at, by |-> w]
          \in Receipts
    BY <2>1 DEF PendingRows, Receipts
  <2>3. meta' \in [Tokens -> MetaRows]
    BY <1>2, <2>2, MetaRowUpdate DEF RecordExit
  <2> QED BY <1>2, <2>3 DEF RecordExit
<1> QED BY <1>1, <1>2 DEF ProcessExit

\* Watching, saving and deleting a conversation keep the tables typed.
LEMMA MembershipStepTypes == LedgerTypeOK /\ MembershipStep => LedgerTypeOK'
<1> SUFFICES ASSUME LedgerTypeOK, NEW s \in Sessions,
                    \/ Untrack(s) \/ RestoreTracking(s) \/ SaveSession(s)
                    \/ DeleteSession(s) \/ HookUntracked(s) \/ ExpireRecovery(s)
                    \/ \E w \in Wrappers : ExpireOwner(s, w)
             PROVE  LedgerTypeOK'
  BY DEF MembershipStep
<1> USE DEF LedgerTypeOK
<1>1. ASSUME ForgetClaims(s)
      PROVE  /\ binding' \in [Tokens -> Sessions \union {None}]
             /\ recovery' \in [Sessions -> RecoveryRows \union {None}]
             /\ owners' \in [Sessions -> SUBSET Wrappers]
  BY <1>1 DEF ForgetClaims
<1>2. CASE Untrack(s)
  BY <1>1, <1>2 DEF Untrack
<1>3. CASE RestoreTracking(s)
  BY <1>3 DEF RestoreTracking
<1>4. CASE SaveSession(s)
  BY <1>4 DEF SaveSession
<1>5. CASE DeleteSession(s)
  BY <1>1, <1>5 DEF DeleteSession
<1>6. CASE HookUntracked(s)
  BY <1>6 DEF HookUntracked
<1>7. CASE ExpireRecovery(s)
  BY <1>7 DEF ExpireRecovery
<1>8. ASSUME NEW w \in Wrappers, ExpireOwner(s, w) PROVE LedgerTypeOK'
  BY <1>8 DEF ExpireOwner
<1> QED BY <1>2, <1>3, <1>4, <1>5, <1>6, <1>7, <1>8

\* Retiring dead launches keeps the tables typed.
LEMMA RetirementStepTypes == LedgerTypeOK /\ RetirementStep => LedgerTypeOK'
<1> SUFFICES ASSUME LedgerTypeOK,
                    RetirePending \/ \E t \in Tokens : ReadEvidence(t)
             PROVE  LedgerTypeOK'
  BY DEF RetirementStep
<1> USE DEF LedgerTypeOK
<1>1. CASE RetirePending
  BY <1>1 DEF RetirePending, RemovePending, Snapshots, MetaRows, NoMeta
<1>2. ASSUME NEW t \in Tokens, ReadEvidence(t) PROVE LedgerTypeOK'
  BY <1>2 DEF ReadEvidence, HasPending, SnapshotOf, Snapshots
<1> QED BY <1>1, <1>2

\* Every transaction writes rows of the schema (store.rs).
LEMMA LedgerTypesStep ==
  LedgerTypeOK /\ [LedgerNext]_ledgerVars => LedgerTypeOK'
<1> SUFFICES ASSUME LedgerTypeOK, [LedgerNext]_ledgerVars PROVE LedgerTypeOK'
  OBVIOUS
<1>1. CASE Tick
  BY <1>1, LedgerConstants DEF Tick, LedgerTypeOK, Times
<1>2. CASE UNCHANGED ledgerVars
  BY <1>2 DEF ledgerVars, LedgerTypeOK
<1> QED BY <1>1, <1>2, LaunchStepTypes, IdentityStepTypes, ExitStepTypes,
           MembershipStepTypes, RetirementStepTypes DEF LedgerNext

\* The ledger's tables keep their schema whatever process writes them, in
\* whatever order (store.rs, every launch transaction).
THEOREM LedgerTypes == LedgerSpec => []LedgerTypeOK
<1>1. LedgerInit({}) => LedgerTypeOK
  BY LedgerConstants DEF LedgerInit, LedgerTypeOK, Times, MetaRows, NoMeta
<1> QED BY <1>1, LedgerTypesStep, PTL DEF LedgerSpec

-----------------------------------------------------------------------------
(* Claims on a conversation.  RecoveryBacked is not inductive: a release of *)
(* an untracked conversation drops the binding and keeps the proof, so what *)
(* is claimed for an untracked conversation must be the token's own intent. *)

UntrackedClaims ==
  \A s \in untracked :
    /\ \A t \in Tokens : binding[t] = s => Intent[t] = s
    /\ recovery[s] # None => Intent[recovery[s].token] = s

ClaimsInv == RecoveryBacked /\ UntrackedClaims

\* The transactions that write a claim; all the others leave the claims alone.
LEMMA ClaimWriters ==
  ASSUME LedgerTypeOK, LedgerNext
  PROVE  \/ UNCHANGED <<binding, recovery, untracked>>
         \/ \E t \in Tokens : BindLaunch(t)
         \/ IdentityStep
         \/ \E t \in Tokens, w \in Wrappers, s \in Sessions : ReleaseLaunch(t, s, w)
         \/ \E s \in Sessions : \/ Untrack(s) \/ RestoreTracking(s)
                                \/ DeleteSession(s) \/ ExpireRecovery(s)
<1>1. CASE Tick \/ LaunchStep
  BY <1>1 DEF Tick, LaunchStep, AddPending, DeletePending, RegisterWrapper,
              FinalizePane, ObserveGeneration, SetLaunchPhase
<1>2. CASE ExitStep
  <2> SUFFICES ASSUME NEW t \in Tokens, NEW w \in Wrappers, NEW code \in Codes,
                      NEW at \in Times, NEW reported \in Sessions \union {None},
                      ProcessExit(t, w, code, at, reported)
               PROVE  \/ UNCHANGED <<binding, recovery, untracked>>
                      \/ \E s \in Sessions : ReleaseLaunch(t, s, w)
    BY <1>2 DEF ExitStep
  <2>1. CASE RecordExit(t, w, code, at, reported)
    BY <2>1 DEF RecordExit
  <2>2. CASE /\ ExitTarget(t, reported) \in known
             /\ ReleaseLaunch(t, ExitTarget(t, reported), w)
    BY <2>2 DEF LedgerTypeOK
  <2> QED BY <2>1, <2>2 DEF ProcessExit
<1>3. CASE MembershipStep
  BY <1>3 DEF MembershipStep, SaveSession, HookUntracked, ExpireOwner
<1>4. CASE RetirementStep
  BY <1>4 DEF RetirementStep, RetirePending, ReadEvidence
<1> QED BY <1>1, <1>2, <1>3, <1>4 DEF LedgerNext

\* What a hook does to the claims: it binds an unclaimed launch, and records a
\* proof only for the launch it binds.
LEMMA HookClaims ==
  ASSUME LedgerTypeOK, ClaimsInv,
         NEW t \in Tokens, NEW s \in Sessions, NEW w \in Wrappers,
         NEW g \in Generations, NEW event \in HookEvents, NEW verified \in BOOLEAN,
         Hook(t, s, w, g, event, verified)
  PROVE  /\ s \notin untracked /\ UNCHANGED untracked
         /\ \/ UNCHANGED binding
            \/ /\ binding' = [binding EXCEPT ![t] = s]
               /\ binding[t] = s \/ (binding[t] = None /\ Intent[t] \in {None, s})
         /\ \/ UNCHANGED recovery
            \/ /\ recovery' = [recovery EXCEPT ![s] = [generation |-> g, token |-> t]]
               /\ binding'[t] = s
<1>1. s \notin untracked /\ UNCHANGED untracked
  BY DEF Hook, HookAdmitted
<1>2. \/ UNCHANGED binding
      \/ /\ binding' = [binding EXCEPT ![t] = s]
         /\ binding[t] = s \/ (binding[t] = None /\ Intent[t] \in {None, s})
  BY DEF Hook, HookAdmitted, TokenCounts
<1>3. \/ UNCHANGED recovery
      \/ /\ recovery' = [recovery EXCEPT ![s] = [generation |-> g, token |-> t]]
         /\ binding' = [binding EXCEPT ![t] = s]
  BY DEF Hook, TokenCounts
<1> QED BY <1>1, <1>2, <1>3 DEF LedgerTypeOK

\* Every transaction keeps proofs backed by bindings (certify_launch and after).
LEMMA ClaimsStep == LedgerTypeOK /\ ClaimsInv /\ [LedgerNext]_ledgerVars => ClaimsInv'
<1> SUFFICES ASSUME LedgerTypeOK, ClaimsInv, [LedgerNext]_ledgerVars
             PROVE  ClaimsInv'
  OBVIOUS
<1> USE LedgerConstants DEF LedgerTypeOK, ClaimsInv, RecoveryBacked, UntrackedClaims
<1>1. CASE UNCHANGED <<binding, recovery, untracked>>
  BY <1>1
<1>2. ASSUME NEW t \in Tokens, BindLaunch(t) PROVE ClaimsInv'
  BY <1>2 DEF BindLaunch, RecoveryRows
<1>3. ASSUME NEW t \in Tokens, NEW s \in Sessions, NEW g \in Generations,
             CertifyLaunch(t, s, g) \/ RecoverConfirmed(t, s, g)
      PROVE  ClaimsInv'
  <2>1. /\ binding[t] = s /\ UNCHANGED <<binding, untracked>>
        /\ recovery' = [recovery EXCEPT ![s] = [generation |-> g, token |-> t]]
    BY <1>3 DEF CertifyLaunch, CanCertify, RecoverConfirmed
  <2> QED BY <2>1
<1>4. ASSUME NEW t \in Tokens, NEW from \in Sessions, NEW to \in Sessions,
             NEW g \in Generations, SwitchBinding(t, from, to, g)
      PROVE  ClaimsInv'
  BY <1>4 DEF SwitchBinding, RecoveryRows
<1>5. ASSUME NEW t \in Tokens, NEW s \in Sessions, NEW w \in Wrappers,
             NEW g \in Generations, NEW event \in HookEvents,
             NEW verified \in BOOLEAN, Hook(t, s, w, g, event, verified)
      PROVE  ClaimsInv'
  <2> DEFINE proof == [generation |-> g, token |-> t]
  <2>1. s \notin untracked /\ UNCHANGED untracked
    BY <1>5, HookClaims
  <2>2. /\ binding[t] \in {None, s} /\ binding'[t] \in {binding[t], s}
        /\ \A u \in Tokens \ {t} : binding'[u] = binding[u]
        /\ binding[t] = s \/ Intent[t] \in {None, s} \/ UNCHANGED binding
    <3>1. CASE UNCHANGED binding
      BY <1>5, <3>1 DEF Hook, HookAdmitted
    <3>2. CASE /\ binding' = [binding EXCEPT ![t] = s]
               /\ binding[t] = s \/ (binding[t] = None /\ Intent[t] \in {None, s})
      BY <3>2
    <3> QED BY <1>5, <3>1, <3>2, HookClaims
  <2>3. \/ UNCHANGED recovery
        \/ recovery' = [recovery EXCEPT ![s] = proof] /\ binding'[t] = s
    BY <1>5, HookClaims
  <2>4. UntrackedClaims'
    BY <2>1, <2>2, <2>3
  <2>5. RecoveryBacked'
    BY <2>2, <2>3 DEF RecoveryRows
  <2> QED BY <2>4, <2>5
<1>6. ASSUME NEW t \in Tokens, NEW w \in Wrappers, NEW s \in Sessions,
             ReleaseLaunch(t, s, w)
      PROVE  ClaimsInv'
  <2>1. /\ binding' = IF binding[t] = s THEN [binding EXCEPT ![t] = None] ELSE binding
        /\ UNCHANGED untracked
    BY <1>6 DEF ReleaseLaunch, Unbind
  <2>2. CASE s \in untracked
    <3>1. UNCHANGED recovery
      BY <1>6, <2>2 DEF ReleaseLaunch
    <3> QED BY <2>1, <2>2, <3>1 DEF RecoveryRows
  <2>3. CASE s \notin untracked /\ RecoveredBy(t, s)
    <3>1. recovery' = [recovery EXCEPT ![s] = None]
      BY <1>6, <2>3 DEF ReleaseLaunch
    <3> QED BY <2>1, <2>3, <3>1 DEF RecoveryRows
  <2>4. CASE s \notin untracked /\ ~RecoveredBy(t, s)
    <3>1. UNCHANGED recovery
      BY <1>6, <2>4 DEF ReleaseLaunch
    <3> QED BY <2>1, <2>4, <3>1 DEF RecoveredBy, RecoveryRows
  <2> QED BY <2>2, <2>3, <2>4
<1>7. ASSUME NEW s \in Sessions,
             \/ Untrack(s) \/ RestoreTracking(s)
             \/ DeleteSession(s) \/ ExpireRecovery(s)
      PROVE  ClaimsInv'
  BY <1>7 DEF Untrack, RestoreTracking, DeleteSession, ExpireRecovery,
              ForgetClaims, RecoveryRows
<1>8. CASE IdentityStep
  BY <1>8, <1>3, <1>4, <1>5 DEF IdentityStep
<1>9. CASE UNCHANGED ledgerVars
  BY <1>9, <1>1 DEF ledgerVars
<1> QED BY <1>1, <1>2, <1>6, <1>7, <1>8, <1>9, ClaimWriters

\* No sequence of launches, hooks, switches, exits and untracks leaves a
\* recovery proof whose launch token belongs to another conversation
\* (store.rs certify_launch, switch_launch_binding; hooks.rs ReleaseLaunch).
THEOREM RecoveryStaysBacked == LedgerSpec => []RecoveryBacked
<1>1. LedgerInit({}) => ClaimsInv
  BY DEF LedgerInit, ClaimsInv, RecoveryBacked, UntrackedClaims
<1>2. ClaimsInv => RecoveryBacked
  BY DEF ClaimsInv
<1> QED BY <1>1, <1>2, ClaimsStep, LedgerTypes, PTL DEF LedgerSpec

\* A launch token is never the proven home of two conversations at once.
THEOREM OneHome == LedgerSpec => []OneHomePerLaunch
<1>1. LedgerTypeOK /\ RecoveryBacked => OneHomePerLaunch
  BY LedgerConstants DEF LedgerTypeOK, RecoveryBacked, OneHomePerLaunch, RecoveryRows
<1> QED BY <1>1, LedgerTypes, RecoveryStaysBacked, PTL

-----------------------------------------------------------------------------
(* Launch attempts: the pending row and the meta rows stamped for it.      *)

\* The transactions that write an attempt.
LEMMA AttemptWriters ==
  ASSUME LedgerTypeOK, LedgerNext
  PROVE  \/ UNCHANGED <<pending, meta>>
         \/ \E t \in Tokens :
              \/ AddPending(t) \/ RemovePending(t)
              \/ \E w \in Wrappers : RegisterWrapper(t, w)
              \/ \E g \in Generations : FinalizePane(t, g) \/ ObserveGeneration(t, g)
              \/ \E p \in {"pane_prepared", "provider_starting"} : SetLaunchPhase(t, p)
              \/ \E w \in Wrappers, code \in Codes, at \in Times,
                    reported \in Sessions \union {None} :
                   RecordExit(t, w, code, at, reported)
<1>1. CASE Tick
  BY <1>1 DEF Tick
<1>2. CASE LaunchStep
  BY <1>2 DEF LaunchStep, BindLaunch, DeletePending
<1>3. CASE IdentityStep
  BY <1>3 DEF IdentityStep, CertifyLaunch, RecoverConfirmed, SwitchBinding, Hook
<1>4. CASE ExitStep
  BY <1>4 DEF ExitStep, ProcessExit, ReleaseLaunch
<1>5. CASE MembershipStep
  BY <1>5 DEF MembershipStep, Untrack, RestoreTracking, SaveSession, DeleteSession,
              HookUntracked, ExpireRecovery, ExpireOwner
<1>6. CASE RetirementStep
  <2>1. CASE RetirePending
    <3>1. CASE evidence # None /\ Unchanged(evidence)
      <4>1. evidence.token \in Tokens \/ UNCHANGED <<pending, meta>>
        BY <2>1, <3>1 DEF LedgerTypeOK, Snapshots
      <4> QED BY <4>1, <2>1, <3>1 DEF RetirePending
    <3> QED BY <2>1, <3>1 DEF RetirePending
  <2>2. CASE \E t \in Tokens : ReadEvidence(t)
    BY <2>2 DEF ReadEvidence
  <2> QED BY <1>6, <2>1, <2>2 DEF RetirementStep
<1> QED BY <1>1, <1>2, <1>3, <1>4, <1>5, <1>6 DEF LedgerNext

\* Advancing the phase leaves the stamps of the meta rows alone.
LEMMA OtherFieldsKept ==
  ASSUME LedgerTypeOK, NEW t \in Tokens, NEW p, NEW u \in Tokens
  PROVE  /\ [meta EXCEPT ![t].phase = p][u].wrapper = meta[u].wrapper
         /\ [meta EXCEPT ![t].phase = p][u].receipt = meta[u].receipt
BY DEF LedgerTypeOK, MetaRows

\* Naming the pane and its root keeps the row and its creation time.
LEMMA PaneKeepsRow ==
  ASSUME LedgerTypeOK, NEW t \in Tokens, NEW g \in Generations,
         \/ pending' = [pending EXCEPT ![t].pane = TRUE, ![t].root = g]
         \/ pending' = [pending EXCEPT ![t].root = g],
         HasPending(t), NEW u \in Tokens, HasPending(u)
  PROVE  pending'[u] # None /\ pending'[u].created = pending[u].created
<1> DEFINE one == [pending[t] EXCEPT !.pane = TRUE, !.root = g]
           two == [pending[t] EXCEPT !.root = g]
<1>1. pending[t] \in PendingRows /\ pending[u] \in PendingRows
  BY DEF HasPending, LedgerTypeOK
<1>2. /\ one \in PendingRows /\ one.created = pending[t].created
      /\ two \in PendingRows /\ two.created = pending[t].created
  BY <1>1 DEF PendingRows
<1>3. \/ pending' = [pending EXCEPT ![t] = one]
      \/ pending' = [pending EXCEPT ![t] = two]
  OBVIOUS
<1>4. one # None /\ two # None /\ pending[u] # None
  BY <1>1, <1>2, AbsentRow
<1> HIDE DEF one, two
<1> QED BY <1>2, <1>3, <1>4 DEF LedgerTypeOK

\* Every transaction keeps names and receipts with their attempt (add_pending).
LEMMA AttemptStep ==
  LedgerTypeOK /\ ReceiptBelongsToAttempt /\ [LedgerNext]_ledgerVars
    => ReceiptBelongsToAttempt'
<1> SUFFICES ASSUME LedgerTypeOK, ReceiptBelongsToAttempt, [LedgerNext]_ledgerVars
             PROVE  ReceiptBelongsToAttempt'
  OBVIOUS
<1> USE LedgerConstants DEF LedgerTypeOK, ReceiptBelongsToAttempt, HasPending
<1>1. CASE UNCHANGED <<pending, meta>>
  BY <1>1
<1>2. ASSUME NEW t \in Tokens, AddPending(t) PROVE ReceiptBelongsToAttempt'
  BY <1>2 DEF AddPending, NoMeta
<1>3. ASSUME NEW t \in Tokens, RemovePending(t) PROVE ReceiptBelongsToAttempt'
  BY <1>3 DEF RemovePending, NoMeta
<1>4. ASSUME NEW t \in Tokens, NEW w \in Wrappers, RegisterWrapper(t, w)
      PROVE  ReceiptBelongsToAttempt'
  <2>1. CASE UNCHANGED meta
    BY <1>4, <2>1 DEF RegisterWrapper
  <2>2. CASE /\ HasPending(t) /\ meta[t].wrapper = None
             /\ meta' = [meta EXCEPT ![t].wrapper =
                           [owner |-> w, created |-> pending[t].created]]
    <3>1. UNCHANGED pending
      BY <1>4 DEF RegisterWrapper
    <3>2. /\ meta'[t].wrapper = [owner |-> w, created |-> pending[t].created]
          /\ meta'[t].receipt = meta[t].receipt
          /\ \A u \in Tokens \ {t} : meta'[u] = meta[u]
      BY <2>2 DEF MetaRows
    <3> QED BY <2>2, <3>1, <3>2
  <2> QED BY <1>4, <2>1, <2>2 DEF RegisterWrapper
<1>5. ASSUME NEW t \in Tokens, NEW g \in Generations, FinalizePane(t, g)
      PROVE  ReceiptBelongsToAttempt'
  <2>1. \A u \in Tokens : /\ meta'[u].wrapper = meta[u].wrapper
                           /\ meta'[u].receipt = meta[u].receipt
    <3>1. meta' = [meta EXCEPT ![t].phase = "pane_allocated"]
      BY <1>5 DEF FinalizePane
    <3> QED BY <3>1, OtherFieldsKept
  <2>2. \A u \in Tokens : HasPending(u) =>
          pending'[u] # None /\ pending'[u].created = pending[u].created
    <3>1. CASE HasPending(t)
      BY <1>5, <3>1, PaneKeepsRow DEF FinalizePane
    <3>2. CASE ~HasPending(t)
      BY <1>5, <3>2 DEF FinalizePane
    <3> QED BY <3>1, <3>2
  <2> QED BY <2>1, <2>2
<1>6. ASSUME NEW t \in Tokens, NEW g \in Generations, ObserveGeneration(t, g)
      PROVE  ReceiptBelongsToAttempt'
  <2>1. \A u \in Tokens : /\ meta'[u].wrapper = meta[u].wrapper
                           /\ meta'[u].receipt = meta[u].receipt
    <3>1. meta' = [meta EXCEPT ![t].phase = "provider_observed"]
      BY <1>6 DEF ObserveGeneration
    <3> QED BY <3>1, OtherFieldsKept
  <2>2. \A u \in Tokens : HasPending(u) =>
          pending'[u] # None /\ pending'[u].created = pending[u].created
    <3>1. CASE HasPending(t)
      BY <1>6, <3>1, PaneKeepsRow DEF ObserveGeneration
    <3>2. CASE ~HasPending(t)
      BY <1>6, <3>2 DEF ObserveGeneration
    <3> QED BY <3>1, <3>2
  <2> QED BY <2>1, <2>2
<1>7. ASSUME NEW t \in Tokens, NEW p \in {"pane_prepared", "provider_starting"},
             SetLaunchPhase(t, p)
      PROVE  ReceiptBelongsToAttempt'
  <2>1. \A u \in Tokens : /\ meta'[u].wrapper = meta[u].wrapper
                           /\ meta'[u].receipt = meta[u].receipt
    <3>1. meta' = [meta EXCEPT ![t].phase = p]
      BY <1>7 DEF SetLaunchPhase
    <3> QED BY <3>1, OtherFieldsKept
  <2>2. UNCHANGED pending
    BY <1>7 DEF SetLaunchPhase
  <2> QED BY <2>1, <2>2
<1>8. ASSUME NEW t \in Tokens, NEW w \in Wrappers, NEW code \in Codes,
             NEW at \in Times, NEW reported \in Sessions \union {None},
             RecordExit(t, w, code, at, reported)
      PROVE  ReceiptBelongsToAttempt'
  <2>1. /\ UNCHANGED pending
        /\ meta[t].wrapper = [owner |-> w, created |-> pending[t].created]
        /\ meta' = [meta EXCEPT ![t].receipt = [created |-> pending[t].created,
                                                code |-> code, at |-> at, by |-> w]]
    BY <1>8 DEF RecordExit, ReceiptDue
  <2>2. /\ meta'[t].receipt.created = pending[t].created
        /\ meta'[t].receipt.by = w
        /\ meta'[t].wrapper = meta[t].wrapper
        /\ \A u \in Tokens \ {t} : meta'[u] = meta[u]
    BY <2>1 DEF MetaRows
  <2>3. /\ meta[t].wrapper # None => HasPending(t)
        /\ meta[t].wrapper.owner = w
    BY <2>1
  <2>4. HasPending(t) /\ meta[t].wrapper # None
    <3>1. HasPending(t) /\ pending[t] \in PendingRows
      BY <1>8 DEF RecordExit, ReceiptDue
    <3>2. [owner |-> w, created |-> pending[t].created] \in WrapperRows
      BY <3>1 DEF PendingRows, WrapperRows
    <3> QED BY <2>1, <3>1, <3>2, AbsentRow
  <2> QED BY <2>1, <2>2, <2>3, <2>4
<1>9. CASE UNCHANGED ledgerVars
  BY <1>9, <1>1 DEF ledgerVars
<1> QED BY <1>1, <1>2, <1>3, <1>4, <1>5, <1>6, <1>7, <1>8, <1>9, AttemptWriters

\* Wrapper and receipt rows never outlive or change attempt: no certification,
\* recovery, retirement or retry lets an old attempt's exit be read as the exit
\* of a later one (store.rs:1558, record_pending_launch_exit).
THEOREM ReceiptsStayWithAttempt == LedgerSpec => []ReceiptBelongsToAttempt
<1>1. LedgerInit({}) => ReceiptBelongsToAttempt
  BY DEF LedgerInit, ReceiptBelongsToAttempt, NoMeta
<1> QED BY <1>1, AttemptStep, LedgerTypes, PTL DEF LedgerSpec

\* No transaction but add_pending reserves a name, and it looks first.
LEMMA NamesStep ==
  LedgerTypeOK /\ NamesReservedOnce /\ [LedgerNext]_ledgerVars => NamesReservedOnce'
<1> SUFFICES ASSUME LedgerTypeOK, NamesReservedOnce, [LedgerNext]_ledgerVars
             PROVE  NamesReservedOnce'
  OBVIOUS
<1> USE DEF LedgerTypeOK, NamesReservedOnce, HasPending
<1>1. ASSUME NEW t \in Tokens, AddPending(t) PROVE NamesReservedOnce'
  BY <1>1 DEF AddPending, Competes
<1>2. ASSUME \A t \in Tokens : pending'[t] # None => pending[t] # None
      PROVE  NamesReservedOnce'
  BY <1>2
<1>3. ASSUME NEW t \in Tokens, NEW g \in Generations,
             FinalizePane(t, g) \/ ObserveGeneration(t, g)
      PROVE  \A u \in Tokens : pending'[u] # None => pending[u] # None
  BY <1>3 DEF FinalizePane, ObserveGeneration
<1>4. ASSUME NEW t \in Tokens, RemovePending(t)
      PROVE  \A u \in Tokens : pending'[u] # None => pending[u] # None
  BY <1>4 DEF RemovePending
<1>5. ASSUME NEW t \in Tokens,
             \/ \E w \in Wrappers : RegisterWrapper(t, w)
             \/ \E p \in {"pane_prepared", "provider_starting"} : SetLaunchPhase(t, p)
             \/ \E w \in Wrappers, code \in Codes, at \in Times,
                   reported \in Sessions \union {None} :
                  RecordExit(t, w, code, at, reported)
      PROVE  UNCHANGED pending
  BY <1>5 DEF RegisterWrapper, SetLaunchPhase, RecordExit
<1>6. CASE UNCHANGED ledgerVars
  BY <1>6 DEF ledgerVars
<1> QED BY <1>1, <1>2, <1>3, <1>4, <1>5, <1>6, AttemptWriters

\* Two live launch intents never share a display name (store.rs add_pending).
THEOREM NamesStayReservedOnce == LedgerSpec => []NamesReservedOnce
<1>1. LedgerInit({}) => NamesReservedOnce
  BY DEF LedgerInit, NamesReservedOnce, HasPending
<1> QED BY <1>1, NamesStep, LedgerTypes, PTL DEF LedgerSpec

\* Once an attempt has an exit receipt, nothing rewrites it: a replayed
\* callback or a later code finds the receipt taken (store.rs:3727).
THEOREM ReceiptsAreImmutable == LedgerSpec => ReceiptImmutable
<1>1. ASSUME LedgerTypeOK, [LedgerNext]_ledgerVars, NEW u \in Tokens,
             meta[u].receipt # None, meta'[u].receipt # None
      PROVE  meta'[u].receipt = meta[u].receipt
  <2> USE DEF LedgerTypeOK
  <2>1. ASSUME NEW t \in Tokens, AddPending(t) PROVE meta'[u].receipt = meta[u].receipt
    BY <1>1, <2>1 DEF AddPending, NoMeta
  <2>2. ASSUME NEW t \in Tokens, RemovePending(t) PROVE meta'[u].receipt = meta[u].receipt
    BY <1>1, <2>2 DEF RemovePending, NoMeta
  <2>3. ASSUME NEW t \in Tokens, NEW w \in Wrappers, RegisterWrapper(t, w)
        PROVE  meta'[u].receipt = meta[u].receipt
    BY <1>1, <2>3 DEF RegisterWrapper, MetaRows
  <2>4. ASSUME NEW t \in Tokens, NEW p, meta' = [meta EXCEPT ![t].phase = p]
        PROVE  meta'[u].receipt = meta[u].receipt
    BY <1>1, <2>4, OtherFieldsKept
  <2>5. ASSUME NEW t \in Tokens, NEW w \in Wrappers, NEW code \in Codes,
               NEW at \in Times, NEW reported \in Sessions \union {None},
               RecordExit(t, w, code, at, reported)
        PROVE  meta'[u].receipt = meta[u].receipt
    BY <1>1, <2>5 DEF RecordExit, ReceiptDue
  <2>6. CASE UNCHANGED ledgerVars
    BY <2>6 DEF ledgerVars
  <2>7. ASSUME NEW t \in Tokens,
               \/ \E g \in Generations : FinalizePane(t, g) \/ ObserveGeneration(t, g)
               \/ \E p \in {"pane_prepared", "provider_starting"} : SetLaunchPhase(t, p)
        PROVE  \E p : meta' = [meta EXCEPT ![t].phase = p]
    BY <2>7 DEF FinalizePane, ObserveGeneration, SetLaunchPhase
  <2> QED BY <1>1, <2>1, <2>2, <2>3, <2>4, <2>5, <2>6, <2>7, AttemptWriters
<1>2. LedgerTypeOK /\ [LedgerNext]_ledgerVars
        => [\A t \in Tokens :
              meta[t].receipt # None /\ meta'[t].receipt # None
                => meta'[t].receipt = meta[t].receipt]_ledgerVars
  BY <1>1
<1> QED BY <1>2, LedgerTypes, PTL DEF LedgerSpec, ReceiptImmutable

\* Only the retirement of dead launches touches its snapshot and archive.
LEMMA RetirementWriters ==
  ASSUME [LedgerNext]_ledgerVars
  PROVE  \/ UNCHANGED <<evidence, archive>>
         \/ RetirePending
         \/ \E t \in Tokens : ReadEvidence(t)
<1>1. CASE Tick \/ UNCHANGED ledgerVars
  BY <1>1 DEF Tick, ledgerVars
<1>2. CASE LaunchStep
  BY <1>2 DEF LaunchStep, AddPending, BindLaunch, DeletePending, RegisterWrapper,
              FinalizePane, ObserveGeneration, SetLaunchPhase
<1>3. CASE IdentityStep
  BY <1>3 DEF IdentityStep, CertifyLaunch, RecoverConfirmed, SwitchBinding, Hook
<1>4. CASE ExitStep
  BY <1>4 DEF ExitStep, ProcessExit, ReleaseLaunch, RecordExit
<1>5. CASE MembershipStep
  BY <1>5 DEF MembershipStep, Untrack, RestoreTracking, SaveSession, DeleteSession,
              HookUntracked, ExpireRecovery, ExpireOwner
<1> QED BY <1>1, <1>2, <1>3, <1>4, <1>5 DEF LedgerNext, RetirementStep

\* A snapshot kept for retirement was retirable when it was read.
EvidenceRetirable == evidence # None => Retirable(evidence)

\* Retirement never archives a launch that gained an identity, lost its receipt
\* or was retried between the read and the transaction (store.rs:1499).
THEOREM RetiredUnclaimed == LedgerSpec => RetiredOnlyUnclaimed
<1>1. LedgerInit({}) => EvidenceRetirable
  BY DEF LedgerInit, EvidenceRetirable
<1>2. EvidenceRetirable /\ [LedgerNext]_ledgerVars => EvidenceRetirable'
  <2> SUFFICES ASSUME EvidenceRetirable, [LedgerNext]_ledgerVars
               PROVE  EvidenceRetirable'
    OBVIOUS
  <2>1. \/ UNCHANGED evidence \/ evidence' = None
        \/ \E t \in Tokens : ReadEvidence(t)
    BY RetirementWriters DEF RetirePending
  <2>2. ASSUME NEW t \in Tokens, ReadEvidence(t) PROVE EvidenceRetirable'
    BY <2>2 DEF ReadEvidence, EvidenceRetirable, Retirable, AuthenticatedExit
  <2> QED BY <2>1, <2>2 DEF EvidenceRetirable, Retirable, AuthenticatedExit
<1>3. ASSUME EvidenceRetirable, LedgerTypeOK, [LedgerNext]_ledgerVars,
             NEW t \in archive' \ archive
      PROVE  /\ HasPending(t) /\ binding[t] = None /\ Intent[t] = None
             /\ AuthenticatedExit(SnapshotOf(t))
  <2>1. RetirePending
    BY <1>3, RetirementWriters DEF ReadEvidence
  <2>2. evidence # None /\ Unchanged(evidence) /\ t = evidence.token
    BY <1>3, <2>1 DEF RetirePending
  <2>3. HasPending(t) /\ SnapshotOf(t) = evidence /\ Retirable(evidence)
    BY <1>3, <2>2 DEF Unchanged, EvidenceRetirable
  <2>4. binding[t] = evidence.binding
    BY <2>3 DEF SnapshotOf
  <2> QED BY <2>2, <2>3, <2>4 DEF Retirable
<1>4. EvidenceRetirable /\ LedgerTypeOK /\ [LedgerNext]_ledgerVars
        => [\A t \in archive' \ archive :
              /\ HasPending(t) /\ binding[t] = None /\ Intent[t] = None
              /\ AuthenticatedExit(SnapshotOf(t))]_ledgerVars
  BY <1>3
<1> QED BY <1>1, <1>2, <1>4, LedgerTypes, PTL DEF LedgerSpec, RetiredOnlyUnclaimed
=============================================================================
