------------------------ MODULE AssistantTurnProofs -------------------------
(***************************************************************************)
(* Facts about AssistantTurn for any number of requests, any allowances    *)
(* and however often the user forgets, recovers or the process crashes.    *)
(* No turn is sent twice, and none is sent from a forgotten memory: this   *)
(* rests on the ledger alone, where a child's reservation moves one way,   *)
(* and its prompt is sent while it is dispatched.  Retention leaves no     *)
(* forgotten text, a provider thread holds one memory and one running      *)
(* turn, and recovery leaves nothing behind: these rest on the journals,   *)
(* and on recovery working alone.                                          *)
(***************************************************************************)
EXTENDS AssistantTurn, TLAPS

ServiceRecord ==
  [pc : ServiceSteps, calls : Nat, thread : Nat \cup {None}, epoch : Nat,
   request : Requests \cup {None}, role : Children, outcome : Verdicts, wipe : BOOLEAN,
   blocked : BOOLEAN, cancel : BOOLEAN, stop : BOOLEAN, asked : SUBSET Requests]

JournalRecord == [blocked : BOOLEAN, epoch : Nat, thread : Nat \cup {None}]

RecoveryRecord == [pc : RecoverySteps, epoch : Nat, ids : SUBSET (Requests \X Roles)]

Shapes ==
  /\ service \in ServiceRecord
  /\ journal \in JournalRecord
  /\ recovery \in RecoveryRecord
  /\ epoch \in Nat
  /\ threads \in Nat
  /\ reservation \in [Requests -> [Roles -> ReservationStates]]
  /\ sent \in [Requests -> [Children -> Nat]]

\* A prompt that was never marked dispatched was never sent.
UnsentBefore ==
  \A q \in Requests, c \in Children :
    reservation[q][c] \in {"none", "reserved"} => sent[q][c] = 0

\* A service about to send has not sent this turn before, unless recovery has
\* already settled it.
SendingFirst ==
  At("sending") /\ reservation[Request][Role] = "dispatched" => sent[Request][Role] = 0

\* The handshake holds the memory still.
FencedInMemory == Fenced => InMemory

TurnInv ==
  /\ Shapes
  /\ Busy => Request \in Requests
  /\ UnsentBefore /\ SendingFirst /\ AtMostOnce
  /\ FencedInMemory

\* What the steps that touch neither the ledger, the memory's epoch nor the
\* provider have to show: the service is well formed and not at the handshake.
LEMMA StepAside ==
  ASSUME TurnInv, Shapes', (Busy => Request \in Requests)', ~Fenced',
         UNCHANGED <<reservation, sent>>
  PROVE  TurnInv'
BY DEF TurnInv, UnsentBefore, SendingFirst, AtMostOnce, FencedInMemory, Fenced, At

\* Steps that leave the service where it is, its ledger and the epoch alone.
LEMMA StandStill ==
  ASSUME TurnInv, Shapes', UNCHANGED <<reservation, sent, epoch>>,
         service'.pc = service.pc, service'.request = service.request,
         service'.role = service.role, service'.epoch = service.epoch
  PROVE  TurnInv'
BY DEF TurnInv, UnsentBefore, SendingFirst, AtMostOnce, FencedInMemory, Fenced, At, Busy,
       Opening, InMemory, Request, Role

\* A move of one reservation by a service away from the handshake.
LEMMA LedgerStep ==
  ASSUME TurnInv, Shapes', (Busy => Request \in Requests)', ~Fenced', UNCHANGED sent,
         NEW q \in Requests, NEW r \in Roles, NEW state,
         reservation' = [reservation EXCEPT ![q][r] = state],
         r \in Children /\ state \in {"none", "reserved"} => sent[q][r] = 0
  PROVE  TurnInv'
BY DEF TurnInv, Shapes, Roles, Children, UnsentBefore, SendingFirst, AtMostOnce,
       FencedInMemory, Fenced, At

\* The tables are empty, and no service runs.
LEMMA TurnInvInit == Init => TurnInv
BY TurnConstants
DEF Init, AllowanceInit, TurnInv, Shapes, ServiceRecord, JournalRecord, RecoveryRecord,
    ServiceOff, RecoveryOff, Roles,
    Children, Verdicts, Claims, ReservationStates, ServiceSteps, RecoverySteps,
    Busy, Opening, UnsentBefore, SendingFirst, AtMostOnce, FencedInMemory,
    Fenced, At

\* The host's steps (assistant.rs): none of them is a handshake, and the two that
\* advance the memory's epoch give up while there is one.
LEMMA HostKeeps == ASSUME TurnInv, HostNext PROVE TurnInv'
<1> USE TurnConstants DEF Shapes, policyVars, journalVars, memoryVars, providerVars, boundVars
<1> Shapes
  BY DEF TurnInv
<1>1. ASSUME NEW n \in Budgets, Enable(n) PROVE TurnInv'
  <2>1. service' \in ServiceRecord
    BY <1>1 DEF Enable, ServiceRecord, ServiceOff, ServiceSteps,
       Opening, Children, Verdicts
  <2> QED BY <1>1, <2>1, StepAside DEF Enable, ServiceOff, Fenced, Busy, Opening
<1>2. ASSUME NEW q \in Requests, Begin(q) PROVE TurnInv'
  <2>1. service' \in ServiceRecord
    BY <1>2 DEF Begin, ServiceRecord, ServiceSteps
  <2> QED BY <1>2, <2>1, StepAside DEF Begin, ServiceRecord, Fenced, Request
<1>3. CASE CancelRequest
  <2>1. service' \in ServiceRecord
    BY <1>3 DEF CancelRequest, ServiceRecord
  <2> QED BY <1>3, <2>1, StandStill DEF CancelRequest, ServiceRecord
<1>4. CASE Forget
  <2>1. service' \in ServiceRecord
    BY <1>4 DEF Forget, ServiceRecord
  <2> QED BY <1>4, <2>1, StandStill DEF Forget, ServiceRecord
<1>5. CASE RevokeBoard
  <2> QED BY <1>5, StandStill DEF RevokeBoard
<1>6. CASE TickRevocation
  <2> QED BY <1>6, StandStill DEF TickRevocation
<1>7. CASE DeleteRevocation
  <2> QED BY <1>7, StandStill DEF DeleteRevocation
<1>8. CASE CancelWork
  <2>1. service' \in ServiceRecord
    BY <1>8 DEF CancelWork, ServiceRecord
  <2> QED BY <1>8, <2>1, StandStill DEF CancelWork, ServiceRecord
<1>9. CASE ScrubTurns
  <2>1. journal' \in JournalRecord
    BY <1>9 DEF ScrubTurns, JournalRecord
  <2> QED BY <1>9, <2>1, StandStill DEF ScrubTurns
<1>10. CASE ScrubRoots
  <2> QED BY <1>10, StandStill DEF ScrubRoots
<1>11. CASE ScrubControl
  <2> QED BY <1>11, StandStill DEF ScrubControl
<1>12. CASE Mark
  <2> QED BY <1>12, StandStill DEF Mark
<1>13. CASE FreshContext
  <2>1. recovery' \in RecoveryRecord
    BY <1>13 DEF FreshContext, RecoveryRecord, RecoveryOff, RecoverySteps
  <2> QED BY <1>13, <2>1, StandStill DEF FreshContext
<1>14. CASE Recovered
  <2>1. recovery' \in RecoveryRecord
    BY <1>14 DEF Recovered, RecoveryRecord, RecoveryOff, RecoverySteps
  <2> QED BY <1>14, <2>1, StandStill DEF Recovered
<1>15. CASE Restart
  <2> QED BY <1>15, StandStill DEF Restart
<1>16. CASE ForgetRecord
  BY <1>16 DEF ForgetRecord, TurnInv, UnsentBefore, SendingFirst, AtMostOnce, FencedInMemory,
               Fenced, At, Busy, Opening, InMemory, Request, Role
<1>17. CASE RevokeScope
  BY <1>17 DEF RevokeScope, TurnInv, UnsentBefore, SendingFirst, AtMostOnce, FencedInMemory,
               Fenced, At, Busy, Opening, InMemory, Request, Role
<1> QED BY <1>1, <1>2, <1>3, <1>4, <1>5, <1>6, <1>7, <1>8, <1>9, <1>10, <1>11, <1>12, <1>13,
    <1>14, <1>15, <1>16, <1>17 DEF HostNext

\* The service is well formed, on a request of the user, and not at the handshake.
Away == service' \in ServiceRecord /\ (Busy => Request \in Requests)' /\ ~Fenced'

\* The service's next step, on the request it is working on (assistant_service.rs).
LEMMA Moves ==
  ASSUME TurnInv, NEW pc \in ServiceSteps, Step(pc), Busy \/ pc \in Opening \cup {"off", "idle"}
  PROVE  service' \in ServiceRecord /\ (Busy => Request \in Requests)' /\ service'.pc = pc
BY DEF TurnInv, Shapes, ServiceRecord, Step, Busy, Opening, Request

\* A service that closes, rests or is done with its request is away from the
\* handshake (release_busy and finish).
LEMMA Ends ==
  ASSUME TurnInv,
         \/ service' = ServiceOff
         \/ Rest
         \/ Busy /\ \E outcome \in Verdicts : Finishing(outcome)
  PROVE  Away
<1>1. CASE service' = ServiceOff
  BY <1>1 DEF Away, ServiceOff, ServiceRecord, ServiceSteps, Busy, Opening, Fenced, Children,
              Verdicts
<1>2. CASE Rest
  BY <1>2, TurnConstants DEF TurnInv, Shapes, Away, Rest, ServiceRecord, ServiceSteps, Busy,
              Opening, Fenced, Children, Verdicts
<1>3. CASE Busy /\ \E outcome \in Verdicts : Finishing(outcome)
  BY <1>3 DEF TurnInv, Shapes, Away, Finishing, ServiceRecord, ServiceSteps, Busy, Opening,
              Fenced, Request
<1> QED BY <1>1, <1>2, <1>3

\* The service's steps (assistant_service.rs): the handshake is entered after the
\* epoch is compared and left by the send; away from it only the ledger matters.
LEMMA ServiceKeeps == ASSUME TurnInv, ServiceNext PROVE TurnInv'
<1> USE TurnConstants DEF Shapes, policyVars, journalVars, memoryVars, providerVars, boundVars,
                          ServiceOnly, Quiet, At, Step, Finishing, Rest, ScrubContext
<1> Shapes /\ (Busy => Request \in Requests)
  BY DEF TurnInv
<1>1. CASE Bind
  <2>1. service' \in ServiceRecord /\ (Busy => Request \in Requests)' /\ ~Fenced'
    <3>1. journal.thread \in Nat \cup {None} /\ epoch \in Nat
      BY DEF JournalRecord
    <3> QED BY <1>1, <3>1 DEF Bind, ServiceRecord, ServiceSteps, Opening, Busy, Fenced
  <2> QED BY <1>1, <2>1, StepAside DEF Bind
<1>2. CASE RestoreState
  <2>1. Away
    <3>1. (service' = ServiceOff \/ Step("starting"))
      BY <1>2 DEF RestoreState, Busy, Opening
    <3> QED BY <3>1, Moves, Ends DEF Away, ServiceSteps, Opening, Fenced, Verdicts
  <2>2. journal' \in JournalRecord /\ threads' \in Nat
    BY <1>2 DEF RestoreState, JournalRecord, ServiceRecord
  <2> QED BY <1>2, <2>1, <2>2, StepAside DEF RestoreState, Away
<1>3. CASE StartOrResume
  <2>1. service' \in ServiceRecord /\ (Busy => Request \in Requests)' /\ ~Fenced'
    <3> DEFINE thread == IF service.thread = None THEN threads + 1 ELSE service.thread
    <3>1. thread \in Nat \cup {None}
      BY DEF ServiceRecord
    <3>2. service' = [service EXCEPT !.thread = thread, !.pc = "coordinating"]
      BY <1>3 DEF StartOrResume
    <3> HIDE DEF thread
    <3> QED BY <3>1, <3>2 DEF ServiceRecord, ServiceSteps, Opening, Busy, Fenced
  <2>2. journal' \in JournalRecord /\ threads' \in Nat
    BY <1>3 DEF StartOrResume, JournalRecord, ServiceRecord
  <2> QED BY <1>3, <2>1, <2>2, StepAside DEF StartOrResume
<1>4. CASE Coordinate
  <2>1. service' \in ServiceRecord /\ (Busy => Request \in Requests)' /\ ~Fenced'
    BY <1>4 DEF Coordinate, ServiceRecord, ServiceSteps, Opening, Busy, Fenced, Request,
        InMemory, ServiceOff, Children, Verdicts
  <2> QED BY <1>4, <2>1, StepAside DEF Coordinate
<1>5. CASE OpeningFails
  <2>1. service' \in ServiceRecord /\ (Busy => Request \in Requests)' /\ ~Fenced'
    BY <1>5 DEF OpeningFails, ServiceRecord, ServiceSteps, Opening, Busy, Fenced, Request,
        InMemory, ServiceOff, Children, Verdicts
  <2> QED BY <1>5, <2>1, StepAside DEF OpeningFails
<1>6. CASE Start
  <2>1. Away
    <3>1. (Rest \/ Step("admitting")) /\ Busy
      BY <1>6 DEF Start, Busy, Opening
    <3> QED BY <3>1, Moves, Ends DEF Away, ServiceSteps, Opening, Fenced, Verdicts
  <2> QED BY <1>6, <2>1, StepAside DEF Start, Away
<1>7. CASE Admit
  <2>1. Away
    <3>1. (Rest \/ Step("validating")) /\ Busy
      BY <1>7 DEF Admit, Busy, Opening
    <3> QED BY <3>1, Moves, Ends DEF Away, ServiceSteps, Opening, Fenced, Verdicts
  <2>2. CASE CanReserveRoot(Request)
    <3>1. Request \in Requests /\ "root" \in Roles /\ "root" \notin Children
      BY <1>7 DEF Admit, Busy, Opening, Roles, Children
    <3>2. reservation' = [reservation EXCEPT ![Request]["root"] = "reserved"]
      BY <1>7, <2>2 DEF Admit, ReserveRoot
    <3>3. Shapes'
      BY <1>7, <2>1, <3>1, <3>2 DEF Admit, ReservationStates, Claims, Away
    <3> QED BY <1>7, <2>1, <3>1, <3>2, <3>3, LedgerStep DEF Admit, Away
  <2>3. CASE ~CanReserveRoot(Request)
    BY <1>7, <2>1, <2>3, StepAside DEF Admit, Away
  <2> QED BY <2>2, <2>3
<1>8. CASE ValidateTurn
  <2>1. Away
    <3>1. (Finishing("unknown") \/ Step("recording")) /\ Busy
      BY <1>8 DEF ValidateTurn, Busy, Opening
    <3> QED BY <3>1, Moves, Ends DEF Away, ServiceSteps, Opening, Fenced, Verdicts
  <2>2. journal' \in JournalRecord /\ threads' \in Nat
    BY <1>8 DEF ValidateTurn, JournalRecord, ServiceRecord
  <2> QED BY <1>8, <2>1, <2>2, StepAside DEF ValidateTurn, Away
<1>9. CASE RecordTurn
  <2>1. Away
    <3>1. (Finishing("unknown") \/ Step("claiming")) /\ Busy
      BY <1>9 DEF RecordTurn, Busy, Opening
    <3> QED BY <3>1, Moves, Ends DEF Away, ServiceSteps, Opening, Fenced, Verdicts
  <2> QED BY <1>9, <2>1, StepAside DEF RecordTurn, Away
<1>10. CASE ClaimTurn
  <2>1. service' \in ServiceRecord /\ (Busy => Request \in Requests)' /\ ~Fenced'
    BY <1>10 DEF ClaimTurn, ServiceRecord, ServiceSteps, Opening, Busy, Fenced, Request,
        InMemory
  <2>2. Request \in Requests /\ Role \in Roles
    BY <1>10 DEF ClaimTurn, Busy, Opening, Request, Role, ServiceRecord, Roles, Children
  <2>3. reservation' = [reservation EXCEPT ![Request][Role] = "reserved"]
    BY <1>10 DEF ClaimTurn, ReserveChild
  <2>4. "reserved" \in ReservationStates
    BY <1>10 DEF ClaimTurn, ReservationStates, Claims, Verdicts, ServiceRecord
  <2>5. Shapes'
    BY <1>10, <2>1, <2>2, <2>3, <2>4 DEF ClaimTurn
  <2>6. Role \in Children => sent[Request][Role] = 0
    BY <1>10, <2>2 DEF ClaimTurn, CanReserveChild, TurnInv, UnsentBefore
  <2> QED BY <1>10, <2>1, <2>2, <2>3, <2>5, <2>6, LedgerStep DEF ClaimTurn
<1>11. CASE FenceDispatch
  <2>1. service' \in ServiceRecord /\ (Busy => Request \in Requests)'
    <3>1. Step("fenced") \/ Step("withdrawn")
      BY <1>11 DEF FenceDispatch
    <3> QED BY <1>11, <3>1, Moves DEF FenceDispatch, ServiceSteps, Busy, Opening
  <2>2. CASE InMemory
    <3>1. Shapes' /\ FencedInMemory' /\ ~At("sending")'
      BY <1>11, <2>1, <2>2 DEF FenceDispatch, ServiceRecord, InMemory, FencedInMemory
    <3> QED BY <1>11, <2>1, <2>2, <3>1
            DEF FenceDispatch, TurnInv, UnsentBefore, SendingFirst, AtMostOnce
  <2>3. CASE ~InMemory
    <3>1. Request \in Requests /\ Role \in Roles /\ ~Fenced'
      BY <1>11, <2>3 DEF FenceDispatch, Busy, Opening, Request, Role, ServiceRecord, Roles,
                          Children, Fenced
    <3>2. reservation' = [reservation EXCEPT ![Request][Role] = "released"]
      BY <1>11, <2>3 DEF FenceDispatch, Release
    <3>3. Shapes'
      BY <1>11, <2>1, <2>3, <3>1, <3>2 DEF FenceDispatch, ReservationStates
    <3> QED BY <1>11, <2>1, <2>3, <3>1, <3>2, <3>3, LedgerStep DEF FenceDispatch
  <2> QED BY <2>2, <2>3
<1>12. CASE Withdraw
  <2>1. service' \in ServiceRecord /\ (Busy => Request \in Requests)' /\ ~Fenced'
    BY <1>12 DEF Withdraw, ServiceRecord, ServiceSteps, Opening, Busy, Fenced, Request,
        InMemory, Children, Verdicts
  <2>2. journal' \in JournalRecord /\ threads' \in Nat
    BY <1>12 DEF Withdraw, JournalRecord, ServiceRecord
  <2> QED BY <1>12, <2>1, <2>2, StepAside DEF Withdraw
<1>13. CASE Dispatch
  <2>1. service' \in ServiceRecord /\ (Busy => Request \in Requests)'
    BY <1>13 DEF Dispatch, ServiceRecord, ServiceSteps, Opening, Busy, Request
  <2>2. Request \in Requests /\ Role \in Children /\ Role \in Roles
    BY <1>13 DEF Dispatch, Busy, Opening, Request, Role, ServiceRecord, Roles, Children
  <2>3. reservation' = [reservation EXCEPT ![Request][Role] = "dispatched"]
    BY <1>13 DEF Dispatch, MarkDispatched
  <2>4. Shapes'
    BY <1>13, <2>1, <2>2, <2>3 DEF Dispatch, ReservationStates, Claims
  <2>5. UnsentBefore' /\ AtMostOnce'
    BY <1>13, <2>2, <2>3 DEF Dispatch, TurnInv, UnsentBefore, AtMostOnce, Roles, Children
  <2>6. sent[Request][Role] = 0
    BY <1>13, <2>2 DEF Dispatch, CanMarkDispatched, TurnInv, UnsentBefore
  <2>7. SendingFirst' /\ FencedInMemory'
    BY <1>13, <2>6 DEF Dispatch, TurnInv, SendingFirst, FencedInMemory, Fenced, InMemory,
                        Request, Role, ServiceRecord
  <2> QED BY <2>1, <2>4, <2>5, <2>7 DEF TurnInv
<1>14. CASE Send
  <2>1. /\ service' \in ServiceRecord /\ (Busy => Request \in Requests)'
        /\ ~Fenced'
    BY <1>14 DEF Send, ServiceRecord, ServiceSteps, Opening, Busy, Request, Fenced
  <2>2. Request \in Requests /\ Role \in Children
    BY <1>14 DEF Send, Busy, Opening, Request, Role, ServiceRecord
  <2>3. sent[Request][Role] = 0 /\ reservation[Request][Role] = "dispatched"
    BY <1>14 DEF Send, CanSend, TurnInv, SendingFirst
  <2>4. Shapes'
    BY <1>14, <2>1, <2>2 DEF Send
  <2>5. UnsentBefore' /\ AtMostOnce'
    BY <1>14, <2>2, <2>3 DEF Send, TurnInv, UnsentBefore, AtMostOnce
  <2> QED BY <2>1, <2>4, <2>5 DEF TurnInv, SendingFirst, FencedInMemory, Fenced
<1>15. CASE SendFails
  <2>1. service' \in ServiceRecord /\ (Busy => Request \in Requests)' /\ ~Fenced'
    BY <1>15 DEF SendFails, ServiceRecord, ServiceSteps, Opening, Busy, Fenced, Request,
        InMemory
  <2> QED BY <1>15, <2>1, StepAside DEF SendFails
<1>16. CASE Accepted
  <2>1. service' \in ServiceRecord /\ (Busy => Request \in Requests)' /\ ~Fenced'
    BY <1>16 DEF Accepted, ServiceRecord, ServiceSteps, Opening, Busy, Fenced, Request, InMemory
  <2> QED BY <1>16, <2>1, StepAside DEF Accepted
<1>17. CASE CancelTurn
  <2>1. service' \in ServiceRecord /\ (Busy => Request \in Requests)' /\ ~Fenced'
    BY <1>17 DEF CancelTurn, ServiceRecord, ServiceSteps, Opening, Busy, Fenced, Request,
        InMemory
  <2> QED BY <1>17, <2>1, StepAside DEF CancelTurn
<1>18. CASE Poll
  <2>1. Away
    <3>1. /\ Busy
          /\ \/ Finishing("unknown") \/ Step("polling")
             \/ service' = [service EXCEPT !.pc = "uncertain", !.wipe = TRUE]
      BY <1>18 DEF Poll, Busy, Opening
    <3>2. CASE service' = [service EXCEPT !.pc = "uncertain", !.wipe = TRUE]
      BY <3>1, <3>2 DEF Away, ServiceRecord, ServiceSteps, Busy, Opening, Fenced, Request,
                        Children, Verdicts
    <3> QED BY <3>1, <3>2, Moves, Ends DEF Away, ServiceSteps, Opening, Fenced, Verdicts
  <2> QED BY <1>18, <2>1, StepAside DEF Poll, Away
<1>19. CASE PollProvider
  <2>1. service' \in ServiceRecord /\ (Busy => Request \in Requests)' /\ ~Fenced'
    BY <1>19 DEF PollProvider, ServiceRecord, ServiceSteps, Opening, Busy, Fenced, Request,
        InMemory
  <2> QED BY <1>19, <2>1, StepAside DEF PollProvider
<1>20. CASE TurnFails
  <2>1. service' \in ServiceRecord /\ (Busy => Request \in Requests)' /\ ~Fenced'
    BY <1>20 DEF TurnFails, ServiceRecord, ServiceSteps, Opening, Busy, Fenced, Request,
        InMemory, Children, Verdicts
  <2> QED BY <1>20, <2>1, StepAside DEF TurnFails
<1>21. CASE TurnCompletes
  <2>1. service' \in ServiceRecord /\ (Busy => Request \in Requests)' /\ ~Fenced'
    BY <1>21 DEF TurnCompletes, ServiceRecord, ServiceSteps, Opening, Busy, Fenced, Request,
        InMemory
  <2> QED BY <1>21, <2>1, StepAside DEF TurnCompletes
<1>22. CASE PollForgotten
  <2>1. service' \in ServiceRecord /\ (Busy => Request \in Requests)' /\ ~Fenced'
    BY <1>22 DEF PollForgotten, ServiceRecord, ServiceSteps, Opening, Busy, Fenced, Request,
        InMemory
  <2>2. journal' \in JournalRecord /\ threads' \in Nat
    BY <1>22 DEF PollForgotten, JournalRecord, ServiceRecord
  <2> QED BY <1>22, <2>1, <2>2, StepAside DEF PollForgotten
<1>23. CASE CommitAnswer
  <2>1. Away
    <3>1. /\ Busy
          /\ \/ Finishing("unknown") \/ Step("uncertain")
             \/ service' = [service EXCEPT !.pc = "settling", !.outcome = "completed"]
      BY <1>23 DEF CommitAnswer, Busy, Opening
    <3>2. CASE service' = [service EXCEPT !.pc = "settling", !.outcome = "completed"]
      BY <3>1, <3>2 DEF Away, ServiceRecord, ServiceSteps, Busy, Opening, Fenced, Request,
                        Children, Verdicts
    <3> QED BY <3>1, <3>2, Moves, Ends DEF Away, ServiceSteps, Opening, Fenced, Verdicts
  <2> QED BY <1>23, <2>1, StepAside DEF CommitAnswer, Away
<1>24. CASE SettleTurn
  <2>1. service' \in ServiceRecord /\ (Busy => Request \in Requests)' /\ ~Fenced'
    BY <1>24 DEF SettleTurn, ServiceRecord, ServiceSteps, Opening, Busy, Fenced, Request,
        InMemory, Children, Verdicts
  <2>2. Request \in Requests /\ Role \in Roles
    BY <1>24 DEF SettleTurn, Busy, Opening, Request, Role, ServiceRecord, Roles, Children
  <2>3. reservation' = [reservation EXCEPT ![Request][Role] = service.outcome]
    BY <1>24 DEF SettleTurn, RecordOutcome
  <2>4. service.outcome \in ReservationStates
    BY <1>24 DEF SettleTurn, ReservationStates, Claims, Verdicts, ServiceRecord
  <2>5. Shapes'
    BY <1>24, <2>1, <2>2, <2>3, <2>4 DEF SettleTurn
  <2>6. service.outcome \notin {"none", "reserved"}
    BY DEF Verdicts, ServiceRecord
  <2> QED BY <1>24, <2>1, <2>2, <2>3, <2>5, <2>6, LedgerStep DEF SettleTurn
<1>25. CASE PublishReply
  <2>1. Away
    <3>1. (Finishing("unknown") \/ Step("replied")) /\ Busy
      BY <1>25 DEF PublishReply, Busy, Opening
    <3> QED BY <3>1, Moves, Ends DEF Away, ServiceSteps, Opening, Fenced, Verdicts
  <2>2. journal' \in JournalRecord /\ threads' \in Nat
    BY <1>25 DEF PublishReply, JournalRecord, ServiceRecord
  <2> QED BY <1>25, <2>1, <2>2, StepAside DEF PublishReply, Away
<1>26. CASE Conclude
  <2>1. service' \in ServiceRecord /\ (Busy => Request \in Requests)' /\ ~Fenced'
    BY <1>26 DEF Conclude, ServiceRecord, ServiceSteps, Opening, Busy, Fenced, Request,
        InMemory, Children, Verdicts
  <2> QED BY <1>26, <2>1, StepAside DEF Conclude
<1>27. CASE AcceptProposal
  <2>1. Away
    <3>1. (Finishing("unknown") \/ service' = [service EXCEPT !.pc = "validating",
        !.role = "synthesis"]) /\ Busy
      BY <1>27 DEF AcceptProposal, Busy, Opening
    <3>2. CASE service' = [service EXCEPT !.pc = "validating", !.role = "synthesis"]
      BY <3>1, <3>2 DEF Away, ServiceRecord, ServiceSteps, Busy, Opening, Fenced, Request,
                        Children, Verdicts
    <3> QED BY <3>1, <3>2, Moves, Ends DEF Away, ServiceSteps, Opening, Fenced, Verdicts
  <2> QED BY <1>27, <2>1, StepAside DEF AcceptProposal, Away
<1>28. CASE SettleUnknown
  <2>1. service' \in ServiceRecord /\ (Busy => Request \in Requests)' /\ ~Fenced'
    BY <1>28 DEF SettleUnknown, ServiceRecord, ServiceSteps, Opening, Busy, Fenced, Request,
        InMemory, Children, Verdicts
  <2>2. Request \in Requests /\ Role \in Roles
    BY <1>28 DEF SettleUnknown, Busy, Opening, Request, Role, ServiceRecord, Roles, Children
  <2>3. reservation' = [reservation EXCEPT ![Request][Role] = "unknown"]
    BY <1>28 DEF SettleUnknown, RecordOutcome
  <2>4. "unknown" \in ReservationStates
    BY <1>28 DEF SettleUnknown, ReservationStates, Claims, Verdicts, ServiceRecord
  <2>5. Shapes'
    BY <1>28, <2>1, <2>2, <2>3, <2>4 DEF SettleUnknown
  <2>6. "unknown" \notin {"none", "reserved"}
    OBVIOUS
  <2> QED BY <1>28, <2>1, <2>2, <2>3, <2>5, <2>6, LedgerStep DEF SettleUnknown
<1>29. CASE RecordUnknown
  <2>1. service' \in ServiceRecord /\ (Busy => Request \in Requests)' /\ ~Fenced'
    BY <1>29 DEF RecordUnknown, ServiceRecord, ServiceSteps, Opening, Busy, Fenced, Request,
        InMemory, Children, Verdicts
  <2> QED BY <1>29, <2>1, StepAside DEF RecordUnknown
<1>30. CASE SettleRoot
  <2>1. service' \in ServiceRecord /\ (Busy => Request \in Requests)' /\ ~Fenced'
    BY <1>30 DEF SettleRoot, ServiceRecord, ServiceSteps, Opening, Busy, Fenced, Request,
        InMemory, Children, Verdicts
  <2>2. Request \in Requests /\ "root" \in Roles
    BY <1>30 DEF SettleRoot, Busy, Opening, Request, Role, ServiceRecord, Roles, Children
  <2>3. reservation' = [reservation EXCEPT ![Request]["root"] = service.outcome]
    BY <1>30 DEF SettleRoot, RecordOutcome
  <2>4. service.outcome \in ReservationStates
    BY <1>30 DEF SettleRoot, ReservationStates, Claims, Verdicts, ServiceRecord
  <2>5. Shapes'
    BY <1>30, <2>1, <2>2, <2>3, <2>4 DEF SettleRoot
  <2>6. service.outcome \notin {"none", "reserved"}
    BY DEF Verdicts, ServiceRecord
  <2> QED BY <1>30, <2>1, <2>2, <2>3, <2>5, <2>6, LedgerStep DEF SettleRoot
<1>31. CASE CloseRoot
  <2>1. service' \in ServiceRecord /\ (Busy => Request \in Requests)' /\ ~Fenced'
    BY <1>31 DEF CloseRoot, ServiceRecord, ServiceSteps, Opening, Busy, Fenced, Request,
        InMemory, Children, Verdicts
  <2> QED BY <1>31, <2>1, StepAside DEF CloseRoot
<1>32. CASE Stop
  <2>1. service' \in ServiceRecord /\ (Busy => Request \in Requests)' /\ ~Fenced'
    BY <1>32 DEF Stop, ServiceRecord, ServiceSteps, Opening, Busy, Fenced, Request, InMemory,
        ServiceOff, Children, Verdicts
  <2> QED BY <1>32, <2>1, StepAside DEF Stop
<1> QED BY <1>1, <1>2, <1>3, <1>4, <1>5, <1>6, <1>7, <1>8, <1>9, <1>10, <1>11, <1>12, <1>13,
    <1>14, <1>15, <1>16, <1>17, <1>18, <1>19, <1>20, <1>21, <1>22, <1>23, <1>24, <1>25, <1>26,
        <1>27, <1>28, <1>29, <1>30, <1>31, <1>32 DEF ServiceNext

\* The recovery thread's steps (assistant_recovery.rs): a claim is only ever made
\* unknown, and the service is told to stop but not moved.
LEMMA RecoveryKeeps == ASSUME TurnInv, RecoveryStepsOn \/ RecoveryFails PROVE TurnInv'
<1> USE TurnConstants
    DEF Shapes, journalVars, providerVars, RecoveryAt, RecoveryStep, RecoveryOnly
<1> Shapes
  BY DEF TurnInv
<1>1. CASE DropSession
  <2>1. recovery' \in RecoveryRecord
    BY <1>1 DEF DropSession, RecoveryRecord, RecoverySteps
  <2>2. service' \in ServiceRecord
    BY <1>1 DEF DropSession, ServiceRecord
  <2> QED BY <1>1, <2>1, <2>2, StandStill DEF DropSession, ServiceRecord
<1>2. CASE Join
  <2>1. recovery' \in RecoveryRecord
    BY <1>2 DEF Join, RecoveryRecord, RecoverySteps
  <2> QED BY <1>2, <2>1, StandStill DEF Join
<1>3. CASE Quarantine
  <2>1. recovery' \in RecoveryRecord
    BY <1>3 DEF Quarantine, RecoveryRecord, RecoverySteps, OpenClaims, Children, Roles
  <2>2. journal' \in JournalRecord
    BY <1>3 DEF Quarantine, JournalRecord
  <2> QED BY <1>3, <2>1, <2>2, StandStill DEF Quarantine
<1>4. CASE SettleClaim
  <2>1. PICK claim \in recovery.ids :
          /\ recovery' = [recovery EXCEPT !.ids = @ \ {claim}]
          /\ IF CanRecord(claim[1], claim[2])
             THEN RecordOutcome(claim[1], claim[2], "unknown")
             ELSE UNCHANGED reservation
    BY <1>4 DEF SettleClaim
  <2>2. recovery' \in RecoveryRecord /\ claim[1] \in Requests /\ claim[2] \in Roles
    BY <2>1 DEF RecoveryRecord
  <2>3. CASE CanRecord(claim[1], claim[2])
    <3>1. reservation' = [reservation EXCEPT ![claim[1]][claim[2]] = "unknown"]
      BY <2>1, <2>3 DEF RecordOutcome
    <3>2. Shapes'
      BY <1>4, <2>2, <3>1 DEF SettleClaim, ReservationStates, Verdicts
    <3>3. UnsentBefore' /\ SendingFirst'
      BY <1>4, <2>2, <3>1 DEF SettleClaim, TurnInv, UnsentBefore, SendingFirst, At, Request,
          Role
    <3> QED BY <1>4, <3>2, <3>3
            DEF SettleClaim, TurnInv, AtMostOnce, FencedInMemory, Fenced, InMemory, Busy,
                Opening, Request
  <2>4. CASE ~CanRecord(claim[1], claim[2])
    BY <1>4, <2>1, <2>2, <2>4, StandStill DEF SettleClaim
  <2> QED BY <2>3, <2>4
<1>5. CASE RetireRuntime
  <2>1. recovery' \in RecoveryRecord
    BY <1>5 DEF RetireRuntime, RecoveryRecord, RecoverySteps
  <2>2. journal' \in JournalRecord
    BY <1>5 DEF RetireRuntime, JournalRecord, RecoveryRecord
  <2> QED BY <1>5, <2>1, <2>2, StandStill DEF RetireRuntime
<1>6. CASE RetireInvestigations
  <2>1. recovery' \in RecoveryRecord
    BY <1>6 DEF RetireInvestigations, RecoveryRecord, RecoverySteps
  <2> QED BY <1>6, <2>1, StandStill DEF RetireInvestigations
<1>7. CASE Unblock
  <2>1. recovery' \in RecoveryRecord
    BY <1>7 DEF Unblock, RecoveryRecord, RecoverySteps
  <2>2. journal' \in JournalRecord
    BY <1>7 DEF Unblock, JournalRecord
  <2> QED BY <1>7, <2>1, <2>2, StandStill DEF Unblock
<1>8. CASE CompleteIntent
  <2>1. recovery' \in RecoveryRecord
    BY <1>8 DEF CompleteIntent, RecoveryRecord, RecoverySteps
  <2> QED BY <1>8, <2>1, StandStill DEF CompleteIntent
<1>9. CASE RecoveryFails
  <2>1. recovery' \in RecoveryRecord
    BY <1>9 DEF RecoveryFails, RecoveryRecord, RecoverySteps, RecoveryOff
  <2> QED BY <1>9, <2>1, StandStill DEF RecoveryFails
<1> QED BY <1>1, <1>2, <1>3, <1>4, <1>5, <1>6, <1>7, <1>8, <1>9 DEF RecoveryStepsOn

\* A crash leaves no service; a lapsing deadline leaves everything in place.
LEMMA EnvironmentKeeps ==
  ASSUME TurnInv, Crash \/ (\E q \in Requests : Expire(q)) \/ UNCHANGED vars
  PROVE  TurnInv'
<1> USE DEF Shapes, policyVars, journalVars, memoryVars, providerVars, boundVars
<1> Shapes
  BY DEF TurnInv
<1>1. CASE Crash
  <2>1. Away
    BY <1>1, Ends DEF Crash
  <2>2. recovery' \in RecoveryRecord
    BY <1>1 DEF Crash, RecoveryOff, RecoveryRecord, RecoverySteps
  <2> QED BY <1>1, <2>1, <2>2, StepAside DEF Crash, Away
<1>2. CASE \E q \in Requests : Expire(q)
  BY <1>2, StandStill DEF Expire
<1>3. CASE UNCHANGED vars
  BY <1>3, StandStill DEF vars
<1> QED BY <1>1, <1>2, <1>3

\* Every step of the host, the service, recovery and the environment keeps it.
LEMMA TurnInvStep == TurnInv /\ [Next]_vars => TurnInv'
BY HostKeeps, ServiceKeeps, RecoveryKeeps, EnvironmentKeeps DEF Next

\* The strengthened invariant holds in every reachable state.
LEMMA TurnInvAlways == Spec => []TurnInv
BY TurnInvInit, TurnInvStep, PTL DEF Spec

\* No turn is sent twice, whatever answer is lost, crash comes between two
\* journals or fresh context is asked for (begin_reserved_user_turn,
\* dispatch_reserved_turn and the policy's transitions).
THEOREM TurnsSentOnce == Spec => []AtMostOnce
BY TurnInvAlways, PTL DEF TurnInv

\* Nothing but the provider's turn_start shows the provider a text.
LEMMA OnlySendShows == ASSUME Next PROVE Send \/ UNCHANGED seen
<1> USE DEF providerVars
<1>1. ASSUME HostNext PROVE UNCHANGED seen
  BY <1>1 DEF HostNext, Enable, Begin, CancelRequest, Forget, ForgetRecord, RevokeBoard,
    TickRevocation, RevokeScope, DeleteRevocation, CancelWork, ScrubTurns, ScrubRoots,
    ScrubControl, Mark, FreshContext, Recovered, Restart
<1>2. ASSUME ServiceNext, ~Send PROVE UNCHANGED seen
  BY <1>2 DEF ServiceNext, Quiet, Bind, RestoreState, StartOrResume, Coordinate, OpeningFails,
    Start, Admit, ValidateTurn, RecordTurn, ClaimTurn, FenceDispatch, Withdraw, Dispatch,
    SendFails, Accepted, CancelTurn, Poll, PollProvider, TurnFails, TurnCompletes,
    PollForgotten, CommitAnswer, SettleTurn, PublishReply, Conclude, AcceptProposal,
    SettleUnknown, RecordUnknown, SettleRoot, CloseRoot, Stop
<1>3. ASSUME RecoveryStepsOn \/ RecoveryFails PROVE UNCHANGED seen
  BY <1>3 DEF RecoveryStepsOn, RecoveryOnly, DropSession, Join, Quarantine, SettleClaim,
    RetireRuntime, RetireInvestigations, Unblock, CompleteIntent, RecoveryFails
<1>4. ASSUME Crash \/ \E q \in Requests : Expire(q) PROVE UNCHANGED seen
  BY <1>4 DEF Crash, Expire
<1> QED BY <1>1, <1>2, <1>3, <1>4 DEF Next

\* No prompt built before a forget or a revocation is sent after it
\* (dispatch_at_epoch_checked against forget and forget_worker_scope).
THEOREM SentUnderCurrentMemory == Spec => SendsUnderCurrentMemory
<1>1. TurnInv /\ [Next]_vars => [\A s \in seen' \ seen : s[2] = epoch]_vars
  <2> SUFFICES ASSUME TurnInv, Next, NEW s \in seen' \ seen PROVE s[2] = epoch
    BY DEF vars, providerVars
  <2>1. Send
    BY OnlySendShows
  <2> QED BY <2>1 DEF Send, TurnInv, FencedInMemory, Fenced, InMemory, At
<1> QED BY <1>1, TurnInvAlways, PTL DEF Spec, SendsUnderCurrentMemory

-----------------------------------------------------------------------------
(* What forgetting, recovery and the provider threads rest on.  The tables   *)
(* that the facts below relate, with the types that need no bound.           *)
HostSteps ==
  {"up", "down", "forgetting", "revoking", "deleting", "cancelling", "scrub_turns", "scrub_roots",
   "scrub_control", "mark"}

HostRecord == [pc : HostSteps, redacted : BOOLEAN, attached : BOOLEAN]

Tables ==
  /\ turn \in [Requests -> [Children -> [state : TurnStates, text : Nat \cup {None}]]]
  /\ roots \in [Requests -> RootStates]
  /\ host \in HostRecord
  /\ marker \in Nat
  /\ live \subseteq Nat \X Requests \X Children
  /\ seen \subseteq Nat \X Nat

\* The recovery thread has joined the service it took over.
Joined == recovery.pc \in {"quarantine", "settling", "retire_roots", "unblocking", "completing"}

\* While recovery works the host stands still, at the epoch recovery took down,
\* and once it has joined the old service there is none.
RecoveryAlone ==
  /\ recovery.pc \notin {"idle", "completed"} => host.pc = "up" /\ recovery.epoch = epoch
  /\ Joined => service.pc = "off"

\* A text is of the memory's epoch at the latest; once retention has emptied
\* the turns, until its marker is written and afterwards, all are of that epoch.
TextsCurrent ==
  \A q \in Requests, c \in Children : turn[q][c].text # None => turn[q][c].text >= epoch

Scrubbed == marker = epoch \/ host.pc \in {"scrub_roots", "scrub_control", "mark"}

TextInv ==
  /\ marker <= epoch
  /\ \A q \in Requests, c \in Children : turn[q][c].state = "none" => turn[q][c].text = None
  /\ Scrubbed => TextsCurrent

\* The service has bound the provider's thread, and has compared the epochs.
Bound == service.pc \notin {"off", "opening"}
Restored == service.pc \notin {"off", "opening", "restoring"}

\* Every thread that has been shown something or is running is an earlier one.
ThreadsCounted ==
  /\ \A s \in seen : s[1] \in 1..threads
  /\ \A t \in live : t[1] \in 1..threads
  /\ journal.thread \in (1..threads) \cup {None}

\* The service works on the journalled thread; what that thread has been shown
\* is of the service's epoch, and of the journal's unless the guard is set.
ThreadInv ==
  /\ ThreadsCounted
  /\ Bound => service.thread = journal.thread
  /\ Restored => journal.blocked \/ journal.epoch = service.epoch
  /\ Restored /\ service.pc # "starting" => service.thread # None
  /\ ~journal.blocked => \A s \in seen : s[1] = journal.thread => s[2] = journal.epoch
  /\ Restored => \A s \in seen : s[1] = service.thread => s[2] = service.epoch
  /\ recovery.pc \in {"retire_roots", "unblocking", "completing"} => journal.thread = None
  /\ ThreadHoldsOneMemory

\* The turn that the service is at, from the writing of its prompt to its end.
Recorded ==
  {"claiming", "dispatching", "fenced", "sending", "accepted", "running", "polling", "answering",
   "settling", "uncertain", "unsure"}

\* A running turn of the service's thread is the one it waits for, or has given
\* up: then it refuses every further request.
GivenUp ==
  \/ service.pc \in {"uncertain", "unsure"}
  \/ service.pc = "finishing" /\ service.outcome = "unknown"
  \/ service.pc \in {"closing", "idle", "queued"} /\ service.blocked

Awaited == service.pc \in {"accepted", "running", "polling"}

LiveInv ==
  /\ service.pc \in Recorded => turn[Request][Role].state \in UnresolvedTurn
  /\ \A t \in live : t[1] = journal.thread => turn[t[2]][t[3]].state \in UnresolvedTurn
  /\ Restored => \A t \in live : t[1] = service.thread =>
       GivenUp \/ (Awaited /\ t = <<service.thread, Request, Role>>)
  /\ NoOverlapInThread

\* A root is claimed after its investigation is opened and settled before it is
\* closed; the same for a child and its turn.
ClaimInv ==
  /\ ClaimsTracked
  /\ \A q \in Requests : roots[q] = "none" => reservation[q]["root"] = "none"
  /\ service.pc = "admitting" =>
       reservation[Request]["root"] = "none" /\ roots[Request] \in UnfinishedRoot
  /\ service.pc \in {"withdrawn", "publishing"} => reservation[Request][Role] \notin Claims
  /\ service.pc = "closing" => reservation[Request]["root"] \notin Claims

\* What recovery has done by each of its steps.
CleanInv ==
  /\ recovery.pc = "settling" =>
       \A q \in Requests, r \in Roles : reservation[q][r] \in Claims => <<q, r>> \in recovery.ids
  /\ recovery.pc \in {"retire_roots", "unblocking", "completing"} =>
       /\ \A q \in Requests, r \in Roles : reservation[q][r] \notin Claims
       /\ \A q \in Requests, c \in Children : turn[q][c].state \notin UnresolvedTurn
       /\ journal.thread = None /\ journal.epoch = recovery.epoch
  /\ recovery.pc \in {"unblocking", "completing"} =>
       \A q \in Requests : roots[q] \notin UnfinishedRoot
  /\ recovery.pc = "completing" => ~journal.blocked

-----------------------------------------------------------------------------
\* The host's retention writes the turns, a few of the service's steps, and the
\* recovery thread once.
TurnWriters ==
  \/ ScrubTurns \/ RestoreState \/ ValidateTurn \/ RecordTurn \/ Withdraw \/ Accepted
  \/ PollForgotten \/ PublishReply \/ RecordUnknown \/ RetireRuntime

\* Every other step leaves the turns alone, and none of these goes beyond.
LEMMA TurnsWritten == ASSUME Next PROVE TurnWriters \/ UNCHANGED turn
<1> USE DEF journalVars, TurnWriters
<1>1. ASSUME HostNext, ~ScrubTurns PROVE UNCHANGED turn
  BY <1>1 DEF HostNext, Enable, Begin, CancelRequest, Forget, ForgetRecord, RevokeBoard,
    TickRevocation, RevokeScope, DeleteRevocation, CancelWork, ScrubRoots,
    ScrubControl, Mark, FreshContext, Recovered, Restart
<1>2. ASSUME ServiceNext, ~TurnWriters PROVE UNCHANGED turn
  BY <1>2 DEF ServiceNext, Quiet, Bind, StartOrResume, Coordinate, OpeningFails,
    Start, Admit, ClaimTurn, FenceDispatch, Dispatch, Send,
    SendFails, CancelTurn, Poll, PollProvider, TurnFails, TurnCompletes,
    CommitAnswer, SettleTurn, Conclude, AcceptProposal,
    SettleUnknown, SettleRoot, CloseRoot, Stop
<1>3. ASSUME RecoveryStepsOn \/ RecoveryFails, ~RetireRuntime PROVE UNCHANGED turn
  BY <1>3 DEF RecoveryStepsOn, DropSession, Join, Quarantine, SettleClaim,
    RetireInvestigations, Unblock, CompleteIntent, RecoveryFails
<1>4. ASSUME Crash \/ \E q \in Requests : Expire(q) PROVE UNCHANGED turn
  BY <1>4 DEF Crash, Expire
<1> QED BY <1>1, <1>2, <1>3, <1>4 DEF Next

\* The three threads keep to their own: the service leaves the memory, the host and
\* recovery alone, recovery the host and the provider, the host the provider.
LEMMA ServiceLeavesHost ==
  ASSUME ServiceNext PROVE UNCHANGED <<memoryVars, host, recovery, lapsed, boundVars>>
BY DEF ServiceNext, ServiceOnly, Quiet, Bind, RestoreState, StartOrResume, Coordinate, OpeningFails,
    Start, Admit, ValidateTurn, RecordTurn, ClaimTurn, FenceDispatch, Withdraw, Dispatch, Send,
    SendFails, Accepted, CancelTurn, Poll, PollProvider, TurnFails, TurnCompletes,
    PollForgotten, CommitAnswer, SettleTurn, PublishReply, Conclude, AcceptProposal,
    SettleUnknown, RecordUnknown, SettleRoot, CloseRoot, Stop

\* Recovery touches neither the calls, nor the host, nor the provider.
LEMMA RecoveryLeavesHost ==
  ASSUME RecoveryStepsOn \/ RecoveryFails
  PROVE  UNCHANGED <<allowance, calls, epoch, marker, contextBlocked, board, host, lapsed,
                     threads, live, seen, sent>>
BY DEF RecoveryStepsOn, RecoveryOnly, providerVars, DropSession, Join, Quarantine, SettleClaim,
    RetireRuntime, RetireInvestigations, Unblock, CompleteIntent, RecoveryFails

\* The host touches neither the calls nor the provider.
LEMMA HostLeavesProvider ==
  ASSUME HostNext PROVE UNCHANGED <<policyVars, providerVars, lapsed>>
BY DEF HostNext, Enable, Begin, CancelRequest, Forget, ForgetRecord, RevokeBoard, ScrubTurns,
    TickRevocation, RevokeScope, DeleteRevocation, CancelWork, ScrubRoots,
    ScrubControl, Mark, FreshContext, Recovered, Restart

\* The provider shows and runs only what it is sent, and threads are counted
\* where they are started.
LEMMA ProviderMoved ==
  ASSUME Next
  PROVE  /\ Send \/ (UNCHANGED seen /\ live' \subseteq live)
         /\ StartOrResume \/ UNCHANGED threads
<1> USE DEF providerVars
<1>1. CASE HostNext
  BY <1>1, HostLeavesProvider
<1>2. CASE ServiceNext
  <2>1. Send \/ live' \subseteq live
    BY <1>2 DEF ServiceNext, Quiet, Bind, RestoreState, StartOrResume, Coordinate, OpeningFails,
    Start, Admit, ValidateTurn, RecordTurn, ClaimTurn, FenceDispatch, Withdraw, Dispatch,
    SendFails, Accepted, CancelTurn, Poll, PollProvider, TurnFails, TurnCompletes,
    PollForgotten, CommitAnswer, SettleTurn, PublishReply, Conclude, AcceptProposal,
    SettleUnknown, RecordUnknown, SettleRoot, CloseRoot, Stop
  <2>2. StartOrResume \/ UNCHANGED threads
    BY <1>2 DEF ServiceNext, Quiet, Bind, RestoreState, Coordinate, OpeningFails,
    Start, Admit, ValidateTurn, RecordTurn, ClaimTurn, FenceDispatch, Withdraw, Dispatch, Send,
    SendFails, Accepted, CancelTurn, Poll, PollProvider, TurnFails, TurnCompletes,
    PollForgotten, CommitAnswer, SettleTurn, PublishReply, Conclude, AcceptProposal,
    SettleUnknown, RecordUnknown, SettleRoot, CloseRoot, Stop
  <2> QED BY <1>2, <2>1, <2>2, OnlySendShows
<1>3. CASE RecoveryStepsOn \/ RecoveryFails
  BY <1>3, RecoveryLeavesHost
<1>4. CASE Crash \/ \E q \in Requests : Expire(q)
  BY <1>4 DEF Crash, Expire
<1> QED BY <1>1, <1>2, <1>3, <1>4 DEF Next

\* While recovery is at work the host has no step, and once it has joined the
\* service neither has the service.
LEMMA HostWaits ==
  ASSUME RecoveryAlone, recovery.pc \notin {"idle", "completed"} PROVE ~HostNext
BY DEF RecoveryAlone, HostNext, Ready, Enable, Begin, CancelRequest, Forget, ForgetRecord,
       RevokeBoard, ScrubTurns, TickRevocation, RevokeScope, DeleteRevocation, CancelWork,
       ScrubRoots, ScrubControl, Mark, FreshContext, Recovered, Restart

\* A service that is off has no step.
LEMMA OffHasNoStep == ASSUME service.pc = "off" PROVE ~ServiceNext
BY DEF ServiceNext, At, Opening, Bind, RestoreState, StartOrResume, Coordinate, OpeningFails,
    Start, Admit, ValidateTurn, RecordTurn, ClaimTurn, FenceDispatch, Withdraw, Dispatch, Send,
    SendFails, Accepted, CancelTurn, Poll, PollProvider, TurnFails, TurnCompletes,
    PollForgotten, CommitAnswer, SettleTurn, PublishReply, Conclude, AcceptProposal,
    SettleUnknown, RecordUnknown, SettleRoot, CloseRoot, Stop

\* Recovery takes the epoch down when it begins, and the host waits for it.
LEMMA AloneStep == ASSUME TurnInv, Tables, RecoveryAlone, Next PROVE RecoveryAlone'
<1> recovery \in RecoveryRecord /\ service \in ServiceRecord /\ host \in HostRecord
  BY DEF TurnInv, Shapes, Tables
<1>1. CASE HostNext
  <2>1. recovery.pc \in {"idle", "completed"}
    BY <1>1, HostWaits
  <2>2. \/ UNCHANGED recovery
        \/ recovery' = RecoveryOff
        \/ /\ host' = Host("up") /\ UNCHANGED epoch
           /\ recovery' = [RecoveryOff EXCEPT !.pc = "dropping", !.epoch = epoch]
    BY <1>1 DEF HostNext, Enable, Begin, CancelRequest, Forget, ForgetRecord,
       RevokeBoard, ScrubTurns, TickRevocation, RevokeScope, DeleteRevocation, CancelWork,
       ScrubRoots, ScrubControl, Mark, FreshContext, Recovered, Restart
  <2>3. CASE recovery' \in {recovery, RecoveryOff}
    BY <2>1, <2>3 DEF RecoveryAlone, Joined, RecoveryOff
  <2>4. CASE /\ host' = Host("up") /\ UNCHANGED epoch
             /\ recovery' = [RecoveryOff EXCEPT !.pc = "dropping", !.epoch = epoch]
    <3>1. host'.pc = "up"
      BY <2>4 DEF Host
    <3>2. recovery'.pc = "dropping" /\ recovery'.epoch = epoch
      BY <2>4 DEF RecoveryOff
    <3> QED BY <2>4, <3>1, <3>2 DEF RecoveryAlone, Joined
  <2> QED BY <2>2, <2>3, <2>4
<1>2. CASE ServiceNext
  BY <1>2, ServiceLeavesHost, OffHasNoStep DEF RecoveryAlone, Joined, memoryVars
<1>3. CASE RecoveryStepsOn \/ RecoveryFails
  <2>1. UNCHANGED <<host, epoch>>
    BY <1>3, RecoveryLeavesHost
  <2>2. recovery'.epoch = recovery.epoch \/ recovery'.pc = "idle"
    <3>1. CASE SettleClaim
      BY <3>1 DEF SettleClaim, RecoveryRecord
    <3>2. CASE Quarantine
      BY <3>2 DEF Quarantine, RecoveryRecord
    <3>3. CASE RecoveryFails
      BY <3>3 DEF RecoveryFails, RecoveryOff
    <3> QED BY <1>3, <3>1, <3>2, <3>3 DEF RecoveryStepsOn, RecoveryStep, DropSession, Join,
                RetireRuntime, RetireInvestigations, Unblock, CompleteIntent, RecoveryRecord
  <2>3. Joined' => (Joined \/ service.pc = "off") /\ UNCHANGED service
    BY <1>3 DEF RecoveryStepsOn, RecoveryStep, RecoveryAt, DropSession, Join, Quarantine,
       SettleClaim, Joined, RetireRuntime, RetireInvestigations, Unblock, CompleteIntent,
       RecoveryFails, RecoveryRecord, RecoveryOff
  <2>4. recovery.pc \notin {"idle", "completed"}
    BY <1>3 DEF RecoveryStepsOn, RecoveryAt, DropSession, Join, Quarantine, SettleClaim,
       RetireRuntime, RetireInvestigations, Unblock, CompleteIntent, RecoveryFails
  <2> QED BY <2>1, <2>2, <2>3, <2>4 DEF RecoveryAlone
<1>4. CASE Crash \/ \E q \in Requests : Expire(q)
  BY <1>4 DEF Crash, Expire, RecoveryOff, RecoveryAlone, Joined, memoryVars
<1> QED BY <1>1, <1>2, <1>3, <1>4 DEF Next

\* Every write of a table is of its type.
LEMMA TablesStep == ASSUME TurnInv, Tables, ThreadInv, Next PROVE Tables'
<1> USE TurnConstants DEF TurnStates, UnresolvedTurn, Children
<1> /\ service \in ServiceRecord /\ epoch \in Nat /\ threads \in Nat /\ Role \in Children
    /\ Busy => Request \in Requests
  BY DEF TurnInv, Shapes, ServiceRecord, Role
<1> Tables
  OBVIOUS
<1>1. turn' \in [Requests -> [Children -> [state : TurnStates, text : Nat \cup {None}]]]
  <2> DEFINE Row == [state : TurnStates, text : Nat \cup {None}]
  <2> turn \in [Requests -> [Children -> Row]]
    BY DEF Tables
  <2>1. CASE UNCHANGED turn
    BY <2>1
  <2>2. CASE ScrubTurns \/ RestoreState
    <3>1. turn' = RetireTurns \/ turn' = turn
      BY <2>2 DEF ScrubTurns, RestoreState
    <3> QED BY <3>1 DEF RetireTurns
  <2>3. WithoutText \in [Requests -> [Children -> Row]]
    BY DEF WithoutText
  <2>4. CASE ValidateTurn \/ PollForgotten
    BY <2>3, <2>4 DEF ValidateTurn, PollForgotten, ScrubContext
  <2>5. CASE RecordTurn
    BY <2>5 DEF RecordTurn, At, Busy, Opening, ServiceRecord
  <2>6. CASE Accepted \/ RecordUnknown
    BY <2>6 DEF Accepted, RecordUnknown, SetTurn, At, Busy, Opening, ServiceRecord
  <2>7. ASSUME NEW table \in [Requests -> [Children -> Row]], NEW state \in TurnStates, Busy
        PROVE  [table EXCEPT ![Request][Role].state = state] \in [Requests -> [Children -> Row]]
    BY <2>7
  <2>8. CASE Withdraw
    BY <2>8, <2>3, <2>7 DEF Withdraw, At, Busy, Opening
  <2>9. CASE PublishReply
    <3>1. CASE InMemory
      BY <2>9, <3>1 DEF PublishReply, At, Busy, Opening, ServiceRecord, Verdicts
    <3>2. CASE ~InMemory
      <4>1. Busy /\ turn' = [WithoutText EXCEPT ![Request][Role].state = "unknown"]
        BY <2>9, <3>2 DEF PublishReply, At, Busy, Opening
      <4> QED BY <2>3, <2>7, <4>1
    <3> QED BY <3>1, <3>2
  <2>10. CASE RetireRuntime
    BY <2>10 DEF RetireRuntime
  <2> QED BY <2>1, <2>2, <2>4, <2>5, <2>6, <2>8, <2>9, <2>10, TurnsWritten DEF TurnWriters
<1>2. roots' \in [Requests -> RootStates]
  <2> roots \in [Requests -> RootStates]
    BY DEF Tables
  <2>1. CASE HostNext
    <3>1. UNCHANGED roots \/ roots' = RetireRoots
      BY <2>1 DEF HostNext, journalVars, Enable, Begin, CancelRequest, Forget, ForgetRecord,
         RevokeBoard, ScrubTurns, TickRevocation, RevokeScope, DeleteRevocation, CancelWork,
         ScrubRoots, ScrubControl, Mark, FreshContext, Recovered, Restart
    <3> QED BY <3>1 DEF RetireRoots, RootStates, UnfinishedRoot
  <2>2. CASE ServiceNext
    <3>1. \/ UNCHANGED roots
          \/ \E state \in {"planning", "denied"} \cup Verdicts :
               roots' = [roots EXCEPT ![Request] = state]
      BY <2>2 DEF ServiceNext, ServiceRecord, journalVars, Quiet, Bind, RestoreState,
        StartOrResume, Coordinate, OpeningFails, Start, Admit, ValidateTurn, RecordTurn, ClaimTurn,
        FenceDispatch, Withdraw, Dispatch, Send, SendFails, Accepted, CancelTurn, Poll,
        PollProvider, TurnFails, TurnCompletes, PollForgotten, CommitAnswer, SettleTurn, PublishReply, Conclude,
        AcceptProposal, SettleUnknown, RecordUnknown, SettleRoot, CloseRoot, Stop
    <3> QED BY <3>1 DEF RootStates, UnfinishedRoot, Verdicts
  <2>3. CASE RecoveryStepsOn \/ RecoveryFails
    <3>1. \/ UNCHANGED roots
          \/ roots' = [q \in Requests |->
                         IF roots[q] \in UnfinishedRoot THEN "abandoned" ELSE roots[q]]
      BY <2>3 DEF RecoveryStepsOn, journalVars, DropSession, Join, Quarantine, SettleClaim,
        RetireRuntime, RetireInvestigations, Unblock, CompleteIntent, RecoveryFails
    <3> QED BY <3>1 DEF RootStates
  <2>4. CASE Crash \/ \E q \in Requests : Expire(q)
    BY <2>4 DEF Crash, Expire, journalVars
  <2> QED BY <2>1, <2>2, <2>3, <2>4 DEF Next
<1>3. host' \in HostRecord
  <2> host \in HostRecord
    BY DEF Tables
  <2>1. {Host("up"), Host("down"), Host("scrub_turns")} \subseteq HostRecord
    BY DEF Host, HostRecord, HostSteps
  <2>2. CASE HostNext
    <3>1. \/ host' \in {host, Host("up"), Host("scrub_turns"), [host EXCEPT !.attached = TRUE],
                         [host EXCEPT !.pc = "forgetting", !.redacted = TRUE]}
          \/ \E pc \in HostSteps : host' = [host EXCEPT !.pc = pc]
      BY <2>2 DEF HostNext, HostSteps, memoryVars, Enable, Begin, CancelRequest, Forget,
         ForgetRecord, RevokeBoard, ScrubTurns, TickRevocation, RevokeScope, DeleteRevocation,
         CancelWork, ScrubRoots, ScrubControl, Mark, FreshContext, Recovered, Restart
    <3>2. "forgetting" \in HostSteps
      BY DEF HostSteps
    <3> QED BY <2>1, <3>1, <3>2 DEF HostRecord
  <2>3. CASE Crash \/ \E q \in Requests : Expire(q)
    BY <2>1, <2>3 DEF Crash, Expire
  <2> QED BY <2>2, <2>3, ServiceLeavesHost, RecoveryLeavesHost DEF Next
<1>4. marker' \in Nat
  <2> marker \in Nat
    BY DEF Tables
  <2>1. ASSUME HostNext PROVE UNCHANGED marker \/ marker' = epoch
    BY <2>1 DEF HostNext, memoryVars, Enable, Begin, CancelRequest, Forget, ForgetRecord,
         RevokeBoard, ScrubTurns, TickRevocation, RevokeScope, DeleteRevocation, CancelWork,
         ScrubRoots, ScrubControl, Mark, FreshContext, Recovered, Restart
  <2>2. CASE Crash \/ \E q \in Requests : Expire(q)
    BY <2>2 DEF Crash, Expire, memoryVars
  <2> QED BY <2>1, <2>2, ServiceLeavesHost, RecoveryLeavesHost DEF Next, memoryVars
<1>5. live' \subseteq Nat \X Requests \X Children /\ seen' \subseteq Nat \X Nat
  <2> live \subseteq Nat \X Requests \X Children /\ seen \subseteq Nat \X Nat
    BY DEF Tables
  <2>1. CASE Send
    <3>1. Request \in Requests /\ service.thread \in Nat
      BY <2>1 DEF Send, At, Busy, Opening, ThreadInv, Restored, ServiceRecord
    <3> QED BY <2>1, <3>1 DEF Send, ServiceRecord
  <2> QED BY <2>1, ProviderMoved
<1> QED BY <1>1, <1>2, <1>3, <1>4, <1>5 DEF Tables

-----------------------------------------------------------------------------
\* The retention's position moves only with its own steps, and the epoch and the
\* marker where they are meant to.
LEMMA ScrubbedWritten ==
  ASSUME Tables, Next
  PROVE  \/ ForgetRecord \/ RevokeScope \/ ScrubTurns \/ Mark
         \/ UNCHANGED <<epoch, marker>> /\ (Scrubbed' => Scrubbed)
<1> USE DEF Scrubbed, memoryVars
<1> host \in HostRecord
  BY DEF Tables
<1>1. CASE HostNext
  <2>1. CASE ScrubRoots \/ ScrubControl
    BY <2>1 DEF ScrubRoots, ScrubControl, HostRecord
  <2>2. CASE FreshContext \/ Restart
    <3>1. Host("up").pc = "up" /\ Host("scrub_turns").pc = "scrub_turns"
      BY DEF Host
    <3> QED BY <2>2, <3>1 DEF FreshContext, Restart
  <2>3. CASE (\E n \in Budgets : Enable(n)) \/ (\E q \in Requests : Begin(q)) \/ CancelRequest
    <3>1. ASSUME NEW n \in Budgets, Enable(n)
          PROVE  UNCHANGED <<epoch, marker>> /\ host'.pc = host.pc
      BY <3>1 DEF HostRecord, Enable
    <3> QED BY <2>3, <3>1 DEF Begin, CancelRequest
  <2>4. CASE Forget \/ RevokeBoard \/ TickRevocation
    <3>1. UNCHANGED <<epoch, marker>>
      BY <2>4 DEF Forget, RevokeBoard, TickRevocation
    <3>2. host'.pc \in {"forgetting", "revoking", "deleting"}
      BY <2>4 DEF HostRecord, Forget, RevokeBoard, TickRevocation
    <3> QED BY <3>1, <3>2
  <2>5. CASE DeleteRevocation \/ CancelWork \/ Recovered
    BY <2>5 DEF HostRecord, DeleteRevocation, CancelWork, Recovered
  <2> QED BY <1>1, <2>1, <2>2, <2>3, <2>4, <2>5 DEF HostNext
<1>2. CASE Crash \/ \E q \in Requests : Expire(q)
  BY <1>2 DEF Crash, Expire, Host
<1> QED BY <1>1, <1>2, ServiceLeavesHost, RecoveryLeavesHost DEF Next

\* Texts are written at the service's epoch while it is the memory's, and retention
\* empties what is older before it moves its marker.
LEMMA TextStep == ASSUME TurnInv, Tables, TextInv, Next PROVE TextInv'
<1> USE TurnConstants
<1> DEFINE Row == [state : TurnStates, text : Nat \cup {None}]
<1> /\ turn \in [Requests -> [Children -> Row]] /\ epoch \in Nat /\ marker \in Nat
    /\ host \in HostRecord /\ service \in ServiceRecord /\ Role \in Children
    /\ Busy => Request \in Requests
  BY DEF Tables, TurnInv, Shapes, ServiceRecord, Role
<1> DEFINE Emptied == \A q \in Requests, c \in Children :
             \/ turn'[q][c].text = None
             \/ turn'[q][c].text = turn[q][c].text /\ turn'[q][c].state # "none"
             \/ turn'[q][c] = turn[q][c]
             \/ InMemory /\ turn'[q][c].text = epoch /\ turn'[q][c].state # "none"
<1>1. Emptied
  <2>1. CASE UNCHANGED turn
    BY <2>1
  <2>2. CASE ScrubTurns \/ RestoreState
    <3>1. turn' = RetireTurns \/ turn' = turn
      BY <2>2 DEF ScrubTurns, RestoreState
    <3> QED BY <3>1 DEF RetireTurns
  <2>3. CASE ValidateTurn \/ PollForgotten
    BY <2>3 DEF ValidateTurn, PollForgotten, ScrubContext, WithoutText
  <2>4. CASE RecordTurn
    BY <2>4 DEF RecordTurn, InMemory
  <2>5. CASE Accepted \/ RecordUnknown
    <3>1. CASE Accepted
      BY <3>1 DEF Accepted, SetTurn
    <3>2. CASE RecordUnknown
      BY <3>2 DEF RecordUnknown
    <3> QED BY <2>5, <3>1, <3>2
  <2>6. CASE Withdraw
    BY <2>6 DEF Withdraw, WithoutText
  <2>7. CASE PublishReply
    <3>1. CASE InMemory
      <4>1. turn' = [turn EXCEPT ![Request][Role] = [state |-> service.outcome, text |-> epoch]]
        BY <2>7, <3>1 DEF PublishReply, InMemory
      <4>2. service.outcome # "none"
        BY DEF ServiceRecord, Verdicts
      <4> QED BY <3>1, <4>1, <4>2
    <3>2. CASE ~InMemory
      <4>1. turn' = [WithoutText EXCEPT ![Request][Role].state = "unknown"]
        BY <2>7, <3>2 DEF PublishReply
      <4> QED BY <4>1 DEF WithoutText
    <3> QED BY <3>1, <3>2
  <2>8. CASE RetireRuntime
    BY <2>8 DEF RetireRuntime
  <2> QED BY <2>1, <2>2, <2>3, <2>4, <2>5, <2>6, <2>7, <2>8, TurnsWritten DEF TurnWriters
<1>2. \A q \in Requests, c \in Children : (turn[q][c].state = "none" => turn[q][c].text = None)'
  BY <1>1 DEF TextInv
<1>3. CASE UNCHANGED <<epoch, marker>> /\ (Scrubbed' => Scrubbed)
  <2>1. (Scrubbed => TextsCurrent)'
    BY <1>1, <1>3 DEF TextInv, TextsCurrent
  <2> QED BY <1>2, <1>3, <2>1 DEF TextInv
<1>4. CASE ForgetRecord \/ RevokeScope
  <2>1. UNCHANGED <<turn, marker>>
    BY <1>4 DEF ForgetRecord, RevokeScope, journalVars
  <2>2. \/ epoch' = epoch /\ (Scrubbed' => Scrubbed)
        \/ epoch' = epoch + 1 /\ host'.pc = "scrub_turns"
    BY <1>4 DEF ForgetRecord, RevokeScope, HostRecord, Scrubbed
  <2> QED BY <1>2, <2>1, <2>2 DEF TextInv, TextsCurrent, Scrubbed
<1>5. CASE ScrubTurns
  <2>1. turn' = RetireTurns /\ UNCHANGED <<epoch, marker>>
    BY <1>5 DEF ScrubTurns, memoryVars
  <2>2. \A q \in Requests, c \in Children : turn'[q][c].text = None
    BY <2>1 DEF RetireTurns, TextInv
  <2> QED BY <1>2, <2>1, <2>2 DEF TextInv, TextsCurrent
<1>6. CASE Mark
  <2>1. Scrubbed /\ marker' = epoch /\ UNCHANGED <<turn, epoch>>
    BY <1>6 DEF Mark, Scrubbed, journalVars
  <2> QED BY <1>2, <2>1 DEF TextInv, TextsCurrent
<1> QED BY <1>3, <1>4, <1>5, <1>6, ScrubbedWritten

-----------------------------------------------------------------------------
\* Except where it binds its thread, the service keeps it and its epoch, and only
\* ever sets the journal's guard.
LEMMA ServiceKeepsThread ==
  ASSUME TurnInv, ServiceNext, ~Bind, ~RestoreState, ~StartOrResume
  PROVE  /\ UNCHANGED journal \/ journal' = [journal EXCEPT !.blocked = TRUE]
         /\ \/ service' = ServiceOff
            \/ /\ service.pc \notin {"off", "opening", "restoring", "starting"}
               /\ service'.pc \notin {"off", "opening", "restoring", "starting"}
               /\ service'.thread = service.thread /\ service'.epoch = service.epoch
<1> service \in ServiceRecord
  BY DEF TurnInv, Shapes
<1>1. UNCHANGED journal \/ journal' = [journal EXCEPT !.blocked = TRUE]
  BY DEF ServiceNext, journalVars, Quiet, ScrubContext, Coordinate, OpeningFails,
    Start, Admit, ValidateTurn, RecordTurn, ClaimTurn, FenceDispatch, Withdraw, Dispatch, Send,
    SendFails, Accepted, CancelTurn, Poll, PollProvider, TurnFails, TurnCompletes,
    PollForgotten, CommitAnswer, SettleTurn, PublishReply, Conclude, AcceptProposal,
    SettleUnknown, RecordUnknown, SettleRoot, CloseRoot, Stop
<1>2. \/ service' = ServiceOff
      \/ /\ service.pc \notin {"off", "opening", "restoring", "starting"}
         /\ service'.pc \notin {"off", "opening", "restoring", "starting"}
         /\ service'.thread = service.thread /\ service'.epoch = service.epoch
  <2>1. \/ service' = ServiceOff
        \/ \E pc \in ServiceSteps \ {"off", "opening", "restoring", "starting"} :
             Step(pc) /\ service.pc \notin {"off", "opening", "restoring", "starting"}
        \/ Busy /\ \E outcome \in Verdicts : Finishing(outcome)
        \/ Busy /\ Rest
        \/ Busy /\ \E pc \in ServiceSteps \ ({"off"} \cup Opening) :
             /\ service'.pc = pc
             /\ service'.thread = service.thread /\ service'.epoch = service.epoch
    <3>1. CASE Coordinate \/ OpeningFails \/ Stop \/ Start \/ Admit \/ ValidateTurn \/ RecordTurn
      BY <3>1 DEF ServiceSteps, Opening, Busy, Verdicts, At, Step, Coordinate, OpeningFails, Stop,
         Start, Admit, ValidateTurn, RecordTurn
    <3>2. CASE ClaimTurn \/ FenceDispatch \/ Withdraw \/ Dispatch \/ Send \/ SendFails \/ Accepted
      BY <3>2 DEF ServiceSteps, Opening, Busy, Verdicts, At, Step, ClaimTurn, FenceDispatch,
         Withdraw, Dispatch, Send, SendFails, Accepted
    <3>3. CASE CancelTurn \/ TurnFails
      BY <3>3 DEF ServiceRecord, ServiceSteps, Opening, Busy, At, CancelTurn, TurnFails
    <3>4. CASE Poll
      BY <3>4 DEF ServiceRecord, ServiceSteps, Opening, Busy, Verdicts, At, Step, Poll
    <3>5. CASE CommitAnswer
      BY <3>5 DEF ServiceRecord, ServiceSteps, Opening, Busy, Verdicts, At, Step, CommitAnswer
    <3>6. CASE PollProvider \/ TurnCompletes \/ PollForgotten \/ SettleTurn \/ PublishReply
      BY <3>6 DEF ServiceSteps, Opening, Busy, Verdicts, At, Step, PollProvider, TurnCompletes,
         PollForgotten, SettleTurn, PublishReply
    <3>7. CASE Conclude \/ SettleUnknown \/ RecordUnknown \/ CloseRoot
      BY <3>7 DEF ServiceRecord, ServiceSteps, Opening, Busy, Verdicts, At, Step, Conclude,
         SettleUnknown, RecordUnknown, CloseRoot
    <3>8. CASE AcceptProposal \/ SettleRoot
      BY <3>8 DEF ServiceRecord, ServiceSteps, Opening, Busy, Verdicts, At, AcceptProposal,
         SettleRoot
    <3> QED BY <3>1, <3>2, <3>3, <3>4, <3>5, <3>6, <3>7, <3>8 DEF ServiceNext
  <2> QED BY <2>1 DEF ServiceRecord, Busy, Opening, Step, Finishing, Rest
<1> QED BY <1>1, <1>2

\* What the host may do to the journal and to the service, while recovery rests.
LEMMA HostKeepsThread ==
  ASSUME TurnInv, RecoveryAlone, HostNext
  PROVE  /\ UNCHANGED <<seen, live, threads, reservation>>
         /\ UNCHANGED journal \/ journal' = [journal EXCEPT !.blocked = TRUE, !.epoch = epoch]
         /\ recovery'.pc \in {"idle", "completed", "dropping"}
         /\ \/ service'.pc = "opening"
            \/ /\ service'.thread = service.thread /\ service'.epoch = service.epoch
               /\ service'.blocked = service.blocked
               /\ \/ service'.pc = service.pc /\ service'.request = service.request
                     /\ service'.role = service.role /\ service'.outcome = service.outcome
                  \/ service.pc = "idle" /\ service'.pc = "queued"
<1> service \in ServiceRecord /\ recovery \in RecoveryRecord
  BY DEF TurnInv, Shapes
<1>1. UNCHANGED <<seen, live, threads, reservation>>
  BY HostLeavesProvider DEF providerVars, policyVars
<1>2. UNCHANGED journal \/ journal' = [journal EXCEPT !.blocked = TRUE, !.epoch = epoch]
  BY DEF HostNext, journalVars, Enable, Begin, CancelRequest, Forget, ForgetRecord,
       RevokeBoard, ScrubTurns, TickRevocation, RevokeScope, DeleteRevocation, CancelWork,
       ScrubRoots, ScrubControl, Mark, FreshContext, Recovered, Restart
<1>3. recovery'.pc \in {"idle", "completed", "dropping"}
  <2>1. recovery.pc \in {"idle", "completed"}
    BY HostWaits
  <2>2. UNCHANGED recovery \/ recovery'.pc \in {"idle", "dropping"}
    <3>1. \/ recovery' \in {recovery, RecoveryOff}
          \/ recovery' = [RecoveryOff EXCEPT !.pc = "dropping", !.epoch = epoch]
      BY DEF HostNext, Enable, Begin, CancelRequest, Forget, ForgetRecord, RevokeBoard, ScrubTurns,
         TickRevocation, RevokeScope, DeleteRevocation, CancelWork, ScrubRoots, ScrubControl, Mark,
         FreshContext, Recovered, Restart
    <3>2. /\ RecoveryOff.pc = "idle"
          /\ [RecoveryOff EXCEPT !.pc = "dropping", !.epoch = epoch].pc = "dropping"
      BY DEF RecoveryOff
    <3> QED BY <3>1, <3>2
  <2> QED BY <2>1, <2>2
<1>4. \/ UNCHANGED service
      \/ \E n \in Budgets : service' = [ServiceOff EXCEPT !.pc = "opening", !.calls = n]
      \/ \E flag \in BOOLEAN : service' = [service EXCEPT !.cancel = flag]
      \/ \E q \in Requests :
           /\ service.pc = "idle"
           /\ service' = [service EXCEPT !.pc = "queued", !.request = q, !.asked = @ \cup {q}]
  <2>1. service.cancel \in BOOLEAN /\ Busy \in BOOLEAN
    BY DEF ServiceRecord, Busy
  <2> QED BY <2>1 DEF HostNext, Enable, Begin, CancelRequest, Forget, ForgetRecord,
       RevokeBoard, ScrubTurns, TickRevocation, RevokeScope, DeleteRevocation, CancelWork,
       ScrubRoots, ScrubControl, Mark, FreshContext, Recovered, Restart
<1>5. CASE \E n \in Budgets : service' = [ServiceOff EXCEPT !.pc = "opening", !.calls = n]
  <2>1. service'.pc = "opening"
    BY <1>5 DEF ServiceOff
  <2> QED BY <1>1, <1>2, <1>3, <2>1
<1>6. CASE UNCHANGED service
  BY <1>1, <1>2, <1>3, <1>6
<1>7. CASE \E flag \in BOOLEAN : service' = [service EXCEPT !.cancel = flag]
  BY <1>1, <1>2, <1>3, <1>7 DEF ServiceRecord
<1>8. CASE \E q \in Requests :
             /\ service.pc = "idle"
             /\ service' = [service EXCEPT !.pc = "queued", !.request = q, !.asked = @ \cup {q}]
  BY <1>1, <1>2, <1>3, <1>8 DEF ServiceRecord
<1> QED BY <1>4, <1>5, <1>6, <1>7, <1>8

\* A thread is shown what it was shown before: a service takes the journalled
\* thread only if the journal is of its own epoch and the guard is down, keeps it
\* while it works, and only recovery lifts the guard, when it has dropped the thread.
LEMMA ThreadStep ==
  ASSUME TurnInv, Tables, RecoveryAlone, ThreadInv, Next PROVE ThreadInv'
<1> USE TurnConstants
<1> /\ service \in ServiceRecord /\ journal \in JournalRecord /\ recovery \in RecoveryRecord
    /\ epoch \in Nat /\ threads \in Nat /\ seen \subseteq Nat \X Nat
    /\ live \subseteq Nat \X Requests \X Children
  BY DEF TurnInv, Shapes, Tables
<1> DEFINE Retired == recovery.pc \in {"retire_roots", "unblocking", "completing"}
<1>1. ASSUME UNCHANGED <<seen, live, threads>>, service'.pc = service.pc,
             service'.thread = service.thread, service'.epoch = service.epoch,
             journal'.thread = journal.thread,
             UNCHANGED journal \/ journal'.blocked,
             Retired' => Retired
      PROVE  ThreadInv'
  BY <1>1 DEF ThreadInv, ThreadsCounted, Bound, Restored, ThreadHoldsOneMemory
<1>2. ASSUME UNCHANGED <<seen, live, threads>>, service'.pc \in {"off", "opening"},
             journal'.thread = journal.thread,
             UNCHANGED journal \/ journal'.blocked,
             Retired' => Retired
      PROVE  ThreadInv'
  BY <1>2 DEF ThreadInv, ThreadsCounted, Bound, Restored, ThreadHoldsOneMemory
<1>3. ASSUME UNCHANGED <<seen, threads>>, live' \subseteq live, Restored, service.pc # "starting",
             service'.pc \notin {"off", "opening", "restoring", "starting"},
             service'.thread = service.thread, service'.epoch = service.epoch,
             journal'.thread = journal.thread,
             \/ UNCHANGED journal
             \/ journal'.blocked,
             Retired' => Retired
      PROVE  ThreadInv'
  BY <1>3 DEF ThreadInv, ThreadsCounted, Bound, Restored, ThreadHoldsOneMemory
<1>4. CASE HostNext
  <2>1. /\ UNCHANGED <<seen, live, threads>>
        /\ journal'.thread = journal.thread
        /\ UNCHANGED journal \/ journal'.blocked
        /\ ~Retired'
    BY <1>4, HostKeepsThread DEF JournalRecord
  <2>2. CASE service'.pc = "opening"
    BY <1>2, <2>1, <2>2
  <2>3. CASE /\ service'.thread = service.thread /\ service'.epoch = service.epoch
             /\ service'.pc = service.pc
    BY <1>1, <2>1, <2>3
  <2>4. CASE /\ service'.thread = service.thread /\ service'.epoch = service.epoch
             /\ service.pc = "idle" /\ service'.pc = "queued"
    BY <1>3, <2>1, <2>4 DEF Restored
  <2> QED BY <1>4, <2>2, <2>3, <2>4, HostKeepsThread
<1>5. CASE ServiceNext
  <2>1. UNCHANGED recovery /\ ~Retired
    BY <1>5, ServiceLeavesHost, OffHasNoStep DEF RecoveryAlone, Joined
  <2>2. CASE Bind
    <3>1. /\ UNCHANGED <<seen, live, threads, journal>>
          /\ service'.pc = "restoring" /\ service'.thread = journal.thread
      BY <2>2 DEF Bind, Quiet, providerVars, journalVars, ServiceRecord
    <3> QED BY <2>1, <3>1
            DEF ThreadInv, ThreadsCounted, Bound, Restored, ThreadHoldsOneMemory
  <2>3. CASE RestoreState
    <3>1. UNCHANGED <<seen, live, threads>> /\ journal'.thread = journal.thread
      BY <2>3 DEF RestoreState, providerVars, JournalRecord
    <3>2. CASE service' = ServiceOff
      <4>1. service'.pc = "off" /\ (UNCHANGED journal \/ journal'.blocked)
        BY <2>3, <3>2 DEF RestoreState, ServiceOff, JournalRecord
      <4> QED BY <1>2, <2>1, <3>1, <4>1
    <3>3. CASE service' # ServiceOff
      <4>1. /\ UNCHANGED journal /\ journal.epoch = service.epoch /\ ~journal.blocked
            /\ service.pc = "restoring" /\ service' = [service EXCEPT !.pc = "starting"]
        BY <2>3, <3>3 DEF RestoreState, At, Step
      <4>2. /\ service'.pc = "starting" /\ service'.thread = service.thread
            /\ service'.epoch = service.epoch
        BY <4>1 DEF ServiceRecord
      <4> QED BY <2>1, <3>1, <4>1, <4>2
              DEF ThreadInv, ThreadsCounted, Bound, Restored, ThreadHoldsOneMemory
    <3> QED BY <3>2, <3>3
  <2>4. CASE StartOrResume
    <3> DEFINE thread == IF service.thread = None THEN threads + 1 ELSE service.thread
    <3>1. /\ UNCHANGED <<seen, live>> /\ service.pc = "starting"
          /\ threads' = IF service.thread = None THEN threads + 1 ELSE threads
          /\ journal' = [journal EXCEPT !.thread = thread]
          /\ service' = [service EXCEPT !.thread = thread, !.pc = "coordinating"]
      BY <2>4 DEF StartOrResume, At
    <3>2. /\ journal'.thread = thread /\ journal'.blocked = journal.blocked
          /\ journal'.epoch = journal.epoch
          /\ service'.thread = thread /\ service'.pc = "coordinating"
          /\ service'.epoch = service.epoch
      BY <3>1 DEF ServiceRecord, JournalRecord
    <3>3. thread \in 1..threads' /\ thread # None
      BY <3>1 DEF ThreadInv, ThreadsCounted, Bound, ServiceRecord
    <3>4. ThreadsCounted'
      BY <3>1, <3>2, <3>3 DEF ThreadInv, ThreadsCounted
    <3>5. \A s \in seen : s[1] = thread => s[1] = service.thread
      BY <3>1 DEF ThreadInv, ThreadsCounted
    <3>6. service.thread = journal.thread /\ (journal.blocked \/ journal.epoch = service.epoch)
      BY <3>1 DEF ThreadInv, Bound, Restored
    <3>7. \A s \in seen : s[1] = thread => s[2] = service.epoch
      BY <3>1, <3>5 DEF ThreadInv, Restored
    <3> HIDE DEF thread
    <3> QED BY <2>1, <3>1, <3>2, <3>3, <3>4, <3>6, <3>7
            DEF ThreadInv, Bound, Restored, ThreadHoldsOneMemory
  <2>5. CASE Send
    <3>1. /\ seen' = seen \cup {<<service.thread, service.epoch>>}
          /\ live' = live \cup {<<service.thread, Request, Role>>}
          /\ UNCHANGED <<threads, journal>> /\ service.pc = "sending"
          /\ \E pc \in {"accepted", "uncertain"} : service' = [service EXCEPT !.pc = pc]
      BY <2>5 DEF Send, At, Step, journalVars
    <3>2. /\ service'.pc \in {"accepted", "uncertain"} /\ service'.thread = service.thread
          /\ service'.epoch = service.epoch
      BY <3>1 DEF ServiceRecord
    <3>3. /\ service.thread = journal.thread /\ service.thread \in 1..threads
          /\ journal.blocked \/ journal.epoch = service.epoch
          /\ \A s \in seen : s[1] = service.thread => s[2] = service.epoch
      BY <3>1 DEF ThreadInv, ThreadsCounted, Bound, Restored
    <3> QED BY <2>1, <3>1, <3>2, <3>3
            DEF ThreadInv, ThreadsCounted, Bound, Restored, ThreadHoldsOneMemory
  <2>6. CASE ~Bind /\ ~RestoreState /\ ~StartOrResume /\ ~Send
    <3>1. UNCHANGED <<seen, threads>> /\ live' \subseteq live
      BY <1>5, <2>6, ProviderMoved
    <3>2. /\ journal'.thread = journal.thread
          /\ UNCHANGED journal \/ journal'.blocked
      BY <1>5, <2>6, ServiceKeepsThread DEF JournalRecord
    <3>3. CASE service' = ServiceOff
      <4>1. service'.pc = "off"
        BY <3>3 DEF ServiceOff
      <4> QED BY <2>1, <3>1, <3>2, <4>1
              DEF ThreadInv, ThreadsCounted, Bound, Restored, ThreadHoldsOneMemory
    <3>4. CASE service' # ServiceOff
      BY <1>3, <1>5, <2>1, <2>6, <3>1, <3>2, <3>4, ServiceKeepsThread DEF Restored
    <3> QED BY <3>3, <3>4
  <2> QED BY <2>2, <2>3, <2>4, <2>5, <2>6
<1>6. CASE RecoveryStepsOn \/ RecoveryFails
  <2>1. UNCHANGED <<seen, live, threads>>
    BY <1>6, RecoveryLeavesHost
  <2>2. CASE DropSession
    <3>1. /\ UNCHANGED journal /\ service'.pc = service.pc /\ service'.thread = service.thread
          /\ service'.epoch = service.epoch /\ recovery'.pc = "joining"
      BY <2>2 DEF DropSession, journalVars, ServiceRecord, RecoveryStep, RecoveryRecord
    <3> QED BY <1>1, <2>1, <3>1
  <2>3. CASE RetireRuntime
    <3>1. UNCHANGED service /\ service.pc = "off" /\ journal'.thread = None /\ journal'.blocked
      BY <2>3 DEF RetireRuntime, RecoveryAt, RecoveryAlone, Joined
    <3> QED BY <2>1, <3>1
            DEF ThreadInv, ThreadsCounted, Bound, Restored, ThreadHoldsOneMemory
  <2>4. CASE Unblock
    <3>1. UNCHANGED service /\ service.pc = "off" /\ journal.thread = None
          /\ journal'.thread = None
      BY <2>4 DEF Unblock, RecoveryAt, RecoveryAlone, Joined, ThreadInv, JournalRecord
    <3>2. \A s \in seen : s[1] # None
      BY DEF ThreadInv, ThreadsCounted
    <3> QED BY <2>1, <3>1, <3>2
            DEF ThreadInv, ThreadsCounted, Bound, Restored, ThreadHoldsOneMemory
  <2>5. CASE ~DropSession /\ ~RetireRuntime /\ ~Unblock
    <3>1. UNCHANGED service /\ (UNCHANGED journal \/ journal' = [journal EXCEPT !.blocked = TRUE])
      BY <1>6, <2>5 DEF RecoveryStepsOn, journalVars, Join, Quarantine, SettleClaim,
         RetireInvestigations, CompleteIntent, RecoveryFails
    <3>2. Retired' => Retired
      <4>1. CASE Quarantine
        BY <4>1 DEF Quarantine, RecoveryRecord
      <4>2. CASE SettleClaim
        BY <4>2 DEF SettleClaim, RecoveryRecord
      <4>3. CASE RecoveryFails
        BY <4>3 DEF RecoveryFails, RecoveryOff
      <4> QED BY <1>6, <2>5, <4>1, <4>2, <4>3 DEF RecoveryStepsOn, RecoveryAt, RecoveryStep,
                 RecoveryRecord, Join, RetireInvestigations, CompleteIntent
    <3> QED BY <1>1, <2>1, <3>1, <3>2 DEF JournalRecord
  <2> QED BY <2>2, <2>3, <2>4, <2>5
<1>7. CASE Crash
  <2>1. /\ UNCHANGED <<seen, live, threads, journal>> /\ service'.pc = "off"
        /\ recovery'.pc = "idle"
    BY <1>7 DEF Crash, providerVars, journalVars, ServiceOff, RecoveryOff
  <2> QED BY <1>2, <2>1
<1>8. CASE \E q \in Requests : Expire(q)
  <2>1. UNCHANGED <<seen, live, threads, journal, service, recovery>>
    BY <1>8 DEF Expire, providerVars, journalVars
  <2> QED BY <1>1, <2>1
<1> QED BY <1>4, <1>5, <1>6, <1>7, <1>8 DEF Next

-----------------------------------------------------------------------------
\* A turn whose outcome is owed is closed by the service that holds it, in two
\* places, or by recovery.
LEMMA TurnsStayOpen ==
  ASSUME TurnInv, Tables, Next, ~RetireRuntime,
         NEW q \in Requests, NEW c \in Children, turn[q][c].state \in UnresolvedTurn
  PROVE  \/ turn'[q][c].state \in UnresolvedTurn
         \/ (Withdraw \/ PublishReply) /\ q = Request /\ c = Role
<1> USE DEF UnresolvedTurn
<1> DEFINE Row == [state : TurnStates, text : Nat \cup {None}]
<1> turn \in [Requests -> [Children -> Row]] /\ service \in ServiceRecord /\ Role \in Children
  BY DEF Tables, TurnInv, Shapes, ServiceRecord, Role
<1> turn[q][c] \in Row
  OBVIOUS
<1>0. WithoutText \in [Requests -> [Children -> Row]] /\ WithoutText[q][c].state = turn[q][c].state
  BY DEF WithoutText
<1>1. CASE UNCHANGED turn
  BY <1>1
<1>2. CASE ScrubTurns \/ RestoreState
  <2>1. turn' = RetireTurns \/ turn' = turn
    BY <1>2 DEF ScrubTurns, RestoreState
  <2> QED BY <2>1 DEF RetireTurns
<1>3. CASE ValidateTurn \/ PollForgotten
  <2>1. turn' \in {turn, WithoutText}
    BY <1>3 DEF ValidateTurn, PollForgotten, ScrubContext
  <2> QED BY <1>0, <2>1
<1>4. CASE RecordTurn
  BY <1>4 DEF RecordTurn
<1>5. CASE Accepted
  BY <1>5 DEF Accepted, SetTurn
<1>6. CASE RecordUnknown
  BY <1>6 DEF RecordUnknown
<1>7. CASE Withdraw
  <2>1. turn' = [WithoutText EXCEPT ![Request][Role].state = "denied"]
    BY <1>7 DEF Withdraw
  <2> QED BY <1>0, <1>7, <2>1
<1>8. CASE PublishReply
  <2>1. \/ turn' = [turn EXCEPT ![Request][Role] =
                      [state |-> service.outcome, text |-> service.epoch]]
        \/ turn' = [WithoutText EXCEPT ![Request][Role].state = "unknown"]
    BY <1>8 DEF PublishReply
  <2> QED BY <1>0, <1>8, <2>1
<1> QED BY <1>1, <1>2, <1>3, <1>4, <1>5, <1>6, <1>7, <1>8, TurnsWritten DEF TurnWriters

\* The service's course from the writing of a prompt: it stays with its request.
LEMMA ServiceCourse ==
  ASSUME TurnInv, ServiceNext
  PROVE  /\ service'.pc \in Recorded =>
              RecordTurn \/ (service.pc \in Recorded /\ UNCHANGED <<Request, Role>>)
         /\ service'.pc = "admitting" => Start /\ UNCHANGED Request
         /\ service'.pc = "withdrawn" => FenceDispatch /\ ~InMemory /\ UNCHANGED <<Request, Role>>
         /\ service'.pc = "publishing" => SettleTurn /\ UNCHANGED <<Request, Role>>
         /\ service'.pc = "closing" => SettleRoot /\ UNCHANGED Request
<1> USE DEF Request, Role, Recorded
<1> service \in ServiceRecord
  BY DEF TurnInv, Shapes
<1>1. CASE Bind \/ RestoreState \/ StartOrResume \/ Coordinate \/ OpeningFails \/ Stop
  <2>1. \/ service' = ServiceOff
        \/ \E pc \in {"restoring", "starting", "coordinating", "idle"} : service'.pc = pc
    BY <1>1 DEF ServiceRecord, At, Step, Bind, RestoreState, StartOrResume, Coordinate,
       OpeningFails, Stop
  <2>2. ServiceOff.pc = "off"
    BY DEF ServiceOff
  <2> QED BY <2>1, <2>2
<1>2. CASE Start \/ Admit \/ CloseRoot
  BY <1>2 DEF ServiceRecord, At, Step, Rest, Start, Admit, CloseRoot
<1>3. CASE ValidateTurn \/ RecordTurn \/ ClaimTurn
  BY <1>3 DEF ServiceRecord, At, Step, Finishing, ValidateTurn, RecordTurn, ClaimTurn
<1>4. CASE FenceDispatch \/ Withdraw \/ Dispatch
  BY <1>4 DEF ServiceRecord, At, Step, Finishing, FenceDispatch, Withdraw, Dispatch
<1>5. CASE Send \/ SendFails \/ Accepted
  BY <1>5 DEF ServiceRecord, At, Step, Send, SendFails, Accepted
<1>6. CASE CancelTurn \/ Poll
  BY <1>6 DEF ServiceRecord, At, Step, Finishing, CancelTurn, Poll
<1>7. CASE PollProvider \/ TurnFails \/ TurnCompletes \/ PollForgotten
  BY <1>7 DEF ServiceRecord, At, Step, PollProvider, TurnFails, TurnCompletes, PollForgotten
<1>8. CASE CommitAnswer
  BY <1>8 DEF ServiceRecord, At, Step, Finishing, CommitAnswer
<1>9. CASE SettleTurn \/ PublishReply
  BY <1>9 DEF ServiceRecord, At, Step, Finishing, SettleTurn, PublishReply
<1>10. CASE Conclude \/ AcceptProposal
  BY <1>10 DEF ServiceRecord, At, Finishing, Conclude, AcceptProposal
<1>11. CASE SettleUnknown \/ RecordUnknown \/ SettleRoot
  BY <1>11 DEF ServiceRecord, At, Step, Finishing, SettleUnknown, RecordUnknown, SettleRoot
<1> QED BY <1>1, <1>2, <1>3, <1>4, <1>5, <1>6, <1>7, <1>8, <1>9, <1>10, <1>11 DEF ServiceNext

\* The steps of a service that waits for a turn, and of one that has given it up.
LEMMA AwaitedSteps ==
  ASSUME ServiceNext, Awaited
  PROVE  Accepted \/ CancelTurn \/ Poll \/ PollProvider \/ TurnFails \/ TurnCompletes
           \/ PollForgotten
BY DEF ServiceNext, Awaited, At, Opening, Bind, RestoreState, StartOrResume, Coordinate,
    OpeningFails, Start, Admit, ValidateTurn, RecordTurn, ClaimTurn, FenceDispatch, Withdraw,
    Dispatch, Send, SendFails, CommitAnswer, SettleTurn, PublishReply, Conclude, AcceptProposal,
    SettleUnknown, RecordUnknown, SettleRoot, CloseRoot, Stop

\* A service that has given a turn up only settles what it left.
LEMMA GivenUpSteps ==
  ASSUME ServiceNext, GivenUp
  PROVE  SettleUnknown \/ RecordUnknown \/ SettleRoot \/ CloseRoot \/ Start \/ Stop
BY DEF ServiceNext, GivenUp, At, Opening, Bind, RestoreState, StartOrResume, Coordinate,
    OpeningFails, Admit, ValidateTurn, RecordTurn, ClaimTurn, FenceDispatch, Withdraw,
    Dispatch, Send, SendFails, Accepted, CancelTurn, Poll, PollProvider, TurnFails, TurnCompletes,
    PollForgotten, CommitAnswer, SettleTurn, PublishReply, Conclude, AcceptProposal

\* Once it has given up, it goes on to refuse requests.
LEMMA GivenUpStays ==
  ASSUME TurnInv, ServiceNext, GivenUp PROVE GivenUp' \/ service' = ServiceOff
<1> service \in ServiceRecord
  BY DEF TurnInv, Shapes
<1>1. CASE SettleUnknown \/ RecordUnknown
  BY <1>1 DEF SettleUnknown, RecordUnknown, ServiceRecord, Step, Finishing, GivenUp
<1>2. CASE SettleRoot
  BY <1>2 DEF SettleRoot, At, ServiceRecord, GivenUp
<1>3. CASE CloseRoot \/ Start
  BY <1>3 DEF CloseRoot, Start, At, ServiceRecord, Rest, GivenUp
<1>4. CASE Stop
  BY <1>4 DEF Stop
<1> QED BY <1>1, <1>2, <1>3, <1>4, GivenUpSteps

\* A service that waits goes on waiting for the same turn, gives it up, or has
\* seen its end.
LEMMA AwaitedEnds ==
  ASSUME TurnInv, ServiceNext, Awaited
  PROVE  \/ GivenUp'
         \/ Awaited' /\ UNCHANGED <<Request, Role>>
         \/ live' = live \ {<<service.thread, Request, Role>>}
<1> service \in ServiceRecord
  BY DEF TurnInv, Shapes
<1>1. CASE TurnFails \/ TurnCompletes
  BY <1>1 DEF TurnFails, TurnCompletes
<1>2. CASE Accepted \/ PollProvider
  BY <1>2 DEF Accepted, PollProvider, Step, ServiceRecord, Awaited, GivenUp, Request, Role
<1>3. CASE CancelTurn \/ PollForgotten
  BY <1>3 DEF CancelTurn, PollForgotten, Step, ServiceRecord, GivenUp
<1>4. CASE Poll
  BY <1>4 DEF Poll, Step, Finishing, ServiceRecord, Awaited, GivenUp, Request, Role
<1> QED BY <1>1, <1>2, <1>3, <1>4, AwaitedSteps

\* A turn that may still run on the journalled thread is one whose outcome the
\* journal has open, so no service is opened on that thread beside it; and the
\* service that left it refuses further requests.
LEMMA LiveStep ==
  ASSUME TurnInv, Tables, RecoveryAlone, ThreadInv, LiveInv, Next PROVE LiveInv'
<1> USE TurnConstants
<1> DEFINE Row == [state : TurnStates, text : Nat \cup {None}]
<1> /\ service \in ServiceRecord /\ journal \in JournalRecord /\ threads \in Nat
    /\ live \subseteq Nat \X Requests \X Children /\ turn \in [Requests -> [Children -> Row]]
    /\ Busy => Request \in Requests
    /\ Role \in Children
    /\ \A t \in live : t[1] \in 1..threads /\ t[2] \in Requests /\ t[3] \in Children
  BY DEF TurnInv, Shapes, Tables, ThreadInv, ThreadsCounted, ServiceRecord, Role
<1> DEFINE Owed == service.pc \in Recorded => turn[Request][Role].state \in UnresolvedTurn
           Open == \A t \in live :
                     t[1] = journal.thread => turn[t[2]][t[3]].state \in UnresolvedTurn
           Waits == Restored => \A t \in live : t[1] = service.thread =>
                      GivenUp \/ (Awaited /\ t = <<service.thread, Request, Role>>)
<1>0. Owed /\ Open /\ Waits /\ NoOverlapInThread
  BY DEF LiveInv
<1>1. CASE HostNext
  <2>1. /\ UNCHANGED live /\ journal'.thread = journal.thread
        /\ service'.pc = "opening" \/
           /\ service'.thread = service.thread /\ service'.epoch = service.epoch
           /\ service'.blocked = service.blocked
           /\ \/ service'.pc = service.pc /\ service'.request = service.request
                 /\ service'.role = service.role /\ service'.outcome = service.outcome
              \/ service.pc = "idle" /\ service'.pc = "queued"
    BY <1>1, HostKeepsThread DEF JournalRecord
  <2>2. \A q \in Requests, c \in Children :
          turn[q][c].state \in UnresolvedTurn => turn'[q][c].state \in UnresolvedTurn
    <3>1. CASE ScrubTurns
      BY <3>1 DEF ScrubTurns, RetireTurns, UnresolvedTurn
    <3>2. CASE ~ScrubTurns
      <4>1. UNCHANGED turn
        BY <1>1, <3>2 DEF HostNext, journalVars, Enable, Begin, CancelRequest, Forget,
           ForgetRecord, RevokeBoard, TickRevocation, RevokeScope, DeleteRevocation, CancelWork,
           ScrubRoots, ScrubControl, Mark, FreshContext, Recovered, Restart
      <4> QED BY <4>1
    <3> QED BY <3>1, <3>2
  <2>3. Owed'
    <3>1. CASE service'.pc \in {"opening", "queued"}
      BY <3>1 DEF Recorded
    <3>2. CASE service'.pc = service.pc /\ service'.request = service.request
               /\ service'.role = service.role
      BY <1>0, <2>2, <3>2 DEF Recorded, Request, Role, Busy, Opening
    <3> QED BY <2>1, <3>1, <3>2
  <2>4. Open'
    BY <1>0, <2>1, <2>2
  <2>5. Waits'
    BY <1>0, <2>1 DEF Restored, GivenUp, Awaited, Request, Role
  <2>6. NoOverlapInThread'
    BY <1>0, <2>1 DEF NoOverlapInThread
  <2> QED BY <2>3, <2>4, <2>5, <2>6 DEF LiveInv
<1>2. CASE ServiceNext
  <2>0. \A q \in Requests, c \in Children : turn[q][c].state \in UnresolvedTurn =>
          \/ turn'[q][c].state \in UnresolvedTurn
          \/ (Withdraw \/ PublishReply) /\ q = Request /\ c = Role
    <3>1. ~RetireRuntime
      BY <1>2, OffHasNoStep DEF RetireRuntime, RecoveryAt, RecoveryAlone, Joined
    <3> QED BY <3>1, TurnsStayOpen
  <2>1. Owed'
    <3>1. CASE RecordTurn /\ service'.pc \in Recorded
      <4>1. /\ turn' = [turn EXCEPT ![Request][Role] =
                          [state |-> "reserved", text |-> service.epoch]]
            /\ service' = [service EXCEPT !.pc = "claiming"] /\ Busy
        BY <3>1 DEF RecordTurn, Recorded, Finishing, Step, At, Busy, Opening, ServiceRecord
      <4> QED BY <4>1 DEF Request, Role, ServiceRecord, UnresolvedTurn
    <3>2. CASE service.pc \in Recorded /\ UNCHANGED <<Request, Role>>
      <4>1. Request \in Requests /\ ~Withdraw /\ ~PublishReply
        BY <3>2 DEF Recorded, Busy, Opening, Withdraw, PublishReply, At
      <4> QED BY <1>0, <2>0, <3>2, <4>1
    <3> QED BY <1>2, <3>1, <3>2, ServiceCourse
  <2>2. CASE StartOrResume
    <3>1. /\ service.pc = "starting" /\ service.thread = journal.thread /\ UNCHANGED <<turn, live>>
      BY <2>2 DEF StartOrResume, At, ThreadInv, Bound
    <3>2. \A t \in live : t[1] # service.thread
      BY <1>0, <3>1 DEF Restored, GivenUp, Awaited
    <3>3. /\ service'.thread = journal'.thread
          /\ service'.thread \in {service.thread, threads + 1}
      BY <2>2 DEF StartOrResume, ServiceRecord, JournalRecord
    <3>4. \A t \in live' : t[1] # service'.thread
      BY <3>1, <3>2, <3>3
    <3> QED BY <1>0, <2>1, <3>1, <3>3, <3>4 DEF LiveInv, NoOverlapInThread
  <2>3. CASE Send
    <3>1. /\ live' = live \cup {<<service.thread, Request, Role>>} /\ service.pc = "sending"
          /\ \E pc \in {"accepted", "uncertain"} : service' = [service EXCEPT !.pc = pc]
          /\ UNCHANGED <<turn, journal>> /\ Request \in Requests
      BY <2>3 DEF Send, At, Step, journalVars, Busy, Opening
    <3>2. /\ service'.thread = service.thread /\ service'.request = service.request
          /\ service'.role = service.role /\ service'.pc \in {"accepted", "uncertain"}
      BY <3>1 DEF ServiceRecord
    <3>3. \A t \in live : t[1] # service.thread
      BY <1>0, <3>1 DEF Restored, GivenUp, Awaited
    <3>4. Open'
      BY <1>0, <3>1 DEF Recorded
    <3>5. Waits' /\ NoOverlapInThread'
      BY <1>0, <3>1, <3>2, <3>3 DEF NoOverlapInThread, Awaited, GivenUp, Request, Role
    <3> QED BY <2>1, <3>4, <3>5 DEF LiveInv
  <2>4. CASE ~StartOrResume /\ ~Send
    <3>1. live' \subseteq live /\ NoOverlapInThread'
      BY <1>0, <1>2, <2>4, ProviderMoved DEF NoOverlapInThread, Next
    <3>2. journal'.thread = journal.thread
      <4>1. CASE Bind \/ RestoreState
        BY <4>1 DEF Bind, RestoreState, Quiet, journalVars, JournalRecord
      <4>2. CASE ~Bind /\ ~RestoreState
        BY <1>2, <2>4, <4>2, ServiceKeepsThread DEF JournalRecord
      <4> QED BY <4>1, <4>2
    <3>3. Open'
      <4> SUFFICES ASSUME NEW t \in live, t[1] = journal.thread
                   PROVE  turn'[t[2]][t[3]].state \in UnresolvedTurn
        BY <3>1, <3>2
      <4>1. turn[t[2]][t[3]].state \in UnresolvedTurn
        BY <1>0
      <4>2. ASSUME Withdraw \/ PublishReply PROVE FALSE
        BY <1>0, <4>2 DEF Withdraw, PublishReply, At, GivenUp, Awaited, Restored, ThreadInv, Bound
      <4> QED BY <2>0, <4>1, <4>2
    <3>4. Waits'
      <4>1. CASE Bind
        BY <4>1 DEF Bind, Restored, ServiceRecord
      <4>2. CASE RestoreState
        <5>1. CASE service' = ServiceOff
          BY <5>1 DEF ServiceOff, Restored
        <5>2. CASE service' # ServiceOff
          <6>1. /\ \A q \in Requests, c \in Children : turn[q][c].state \notin UnresolvedTurn
                /\ service'.thread = service.thread /\ service.pc = "restoring"
            BY <4>2, <5>2 DEF RestoreState, Step, At, ServiceRecord
          <6> QED BY <1>0, <3>1, <6>1 DEF ThreadInv, Bound
        <5> QED BY <5>1, <5>2
      <4>3. CASE ~Bind /\ ~RestoreState
        <5>1. CASE service' = ServiceOff
          BY <5>1 DEF ServiceOff, Restored
        <5>2. CASE service' # ServiceOff
          <6>1. service'.thread = service.thread /\ Restored
            BY <1>2, <2>4, <4>3, <5>2, ServiceKeepsThread DEF Restored
          <6>2. CASE GivenUp
            BY <1>2, <5>2, <6>2, GivenUpStays
          <6>3. CASE Awaited /\ ~GivenUp
            <7>1. \A t \in live : t[1] = service.thread => t = <<service.thread, Request, Role>>
              BY <1>0, <6>1, <6>3
            <7>2. CASE live' = live \ {<<service.thread, Request, Role>>}
              BY <6>1, <7>1, <7>2
            <7> QED BY <1>2, <3>1, <6>1, <6>3, <7>1, <7>2, AwaitedEnds
          <6>4. CASE ~Awaited /\ ~GivenUp
            BY <1>0, <3>1, <6>1, <6>4
          <6> QED BY <6>2, <6>3, <6>4
        <5> QED BY <5>1, <5>2
      <4> QED BY <4>1, <4>2, <4>3
    <3> QED BY <2>1, <3>1, <3>3, <3>4 DEF LiveInv
  <2> QED BY <2>2, <2>3, <2>4
<1>3. CASE RecoveryStepsOn \/ RecoveryFails
  <2>1. UNCHANGED live
    BY <1>3, RecoveryLeavesHost
  <2>2. CASE RetireRuntime
    <3>1. UNCHANGED service /\ service.pc = "off" /\ journal'.thread = None
      BY <2>2 DEF RetireRuntime, RecoveryAt, RecoveryAlone, Joined
    <3> QED BY <1>0, <2>1, <3>1 DEF LiveInv, Recorded, Restored, NoOverlapInThread
  <2>3. CASE ~RetireRuntime
    <3>1. UNCHANGED turn
      BY <1>3, <2>3 DEF RecoveryStepsOn, journalVars, JournalRecord, DropSession, Join,
         Quarantine, SettleClaim, RetireInvestigations, Unblock, CompleteIntent, RecoveryFails
    <3>2. journal'.thread = journal.thread
      BY <1>3, <2>3 DEF RecoveryStepsOn, journalVars, JournalRecord, DropSession, Join,
         Quarantine, SettleClaim, RetireInvestigations, Unblock, CompleteIntent, RecoveryFails
    <3>3. /\ service'.pc = service.pc /\ service'.thread = service.thread
          /\ service'.request = service.request /\ service'.role = service.role
          /\ service'.outcome = service.outcome /\ service'.blocked = service.blocked
      BY <1>3, <2>3 DEF RecoveryStepsOn, ServiceRecord, DropSession, Join,
         Quarantine, SettleClaim, RetireInvestigations, Unblock, CompleteIntent, RecoveryFails
    <3> QED BY <1>0, <2>1, <3>1, <3>2, <3>3
            DEF LiveInv, Recorded, Restored, GivenUp, Awaited, Request, Role, NoOverlapInThread
  <2> QED BY <2>2, <2>3
<1>4. CASE Crash
  <2>1. UNCHANGED <<live, turn, journal>> /\ service'.pc = "off"
    BY <1>4 DEF Crash, providerVars, journalVars, ServiceOff
  <2> QED BY <1>0, <2>1 DEF LiveInv, Recorded, Restored, NoOverlapInThread
<1>5. CASE \E q \in Requests : Expire(q)
  <2>1. UNCHANGED <<live, turn, journal, service>>
    BY <1>5 DEF Expire, providerVars, journalVars
  <2> QED BY <1>0, <2>1 DEF LiveInv, Recorded, Restored, GivenUp, Awaited, Request, Role,
          NoOverlapInThread
<1> QED BY <1>1, <1>2, <1>3, <1>4, <1>5 DEF Next

-----------------------------------------------------------------------------
\* A claim is made where a root is admitted or a child claimed, and nowhere else;
\* and only admission gives a root its reservation.
LEMMA ClaimsMade ==
  ASSUME TurnInv, Next, NEW q \in Requests, NEW r \in Roles
  PROVE  /\ reservation'[q][r] \in Claims =>
              \/ reservation[q][r] \in Claims
              \/ Admit /\ q = Request /\ r = "root"
              \/ ClaimTurn /\ q = Request /\ r = Role
         /\ reservation[q]["root"] = "none" =>
              reservation'[q]["root"] = "none" \/ (Admit /\ q = Request)
<1> USE DEF Claims, Roles, Children
<1> /\ service \in ServiceRecord /\ Role \in Children
    /\ reservation \in [Requests -> [Roles -> ReservationStates]]
  BY DEF TurnInv, Shapes, ServiceRecord, Role
<1>1. CASE UNCHANGED reservation
  BY <1>1
<1>2. CASE HostNext
  BY <1>1, <1>2, HostLeavesProvider DEF policyVars
<1>3. CASE ServiceNext
  <2>1. CASE Admit
    BY <1>1, <2>1 DEF Admit, ReserveRoot, policyVars
  <2>2. CASE ClaimTurn
    BY <2>2 DEF ClaimTurn, ReserveChild
  <2>3. CASE FenceDispatch
    BY <1>1, <2>3 DEF FenceDispatch, Release, policyVars
  <2>4. CASE Dispatch
    BY <2>4 DEF Dispatch, MarkDispatched, CanMarkDispatched
  <2>5. CASE SettleTurn \/ SettleRoot
    <3>1. service.outcome \notin Claims
      BY DEF ServiceRecord, Verdicts
    <3> QED BY <2>5, <3>1 DEF SettleTurn, SettleRoot, RecordOutcome, CanRecord
  <2>6. CASE SettleUnknown
    BY <2>6 DEF SettleUnknown, RecordOutcome, CanRecord
  <2>7. CASE /\ ~Admit /\ ~ClaimTurn /\ ~FenceDispatch /\ ~Dispatch /\ ~SettleTurn
             /\ ~SettleRoot /\ ~SettleUnknown
    <3>1. UNCHANGED reservation
      BY <1>3, <2>7 DEF ServiceNext, policyVars, Quiet, Bind, RestoreState, StartOrResume,
         Coordinate, OpeningFails, Start, ValidateTurn, RecordTurn, Withdraw, Send, SendFails,
         Accepted, CancelTurn, Poll, PollProvider, TurnFails, TurnCompletes, PollForgotten,
         CommitAnswer, PublishReply, Conclude, AcceptProposal, RecordUnknown, CloseRoot, Stop
    <3> QED BY <1>1, <3>1
  <2> QED BY <2>1, <2>2, <2>3, <2>4, <2>5, <2>6, <2>7
<1>4. CASE RecoveryStepsOn \/ RecoveryFails
  <2>1. CASE SettleClaim
    <3>1. PICK claim \in recovery.ids :
            IF CanRecord(claim[1], claim[2])
            THEN RecordOutcome(claim[1], claim[2], "unknown")
            ELSE UNCHANGED reservation
      BY <2>1 DEF SettleClaim
    <3>2. claim[1] \in Requests /\ claim[2] \in Roles
      BY DEF TurnInv, Shapes, RecoveryRecord
    <3> QED BY <1>1, <3>1, <3>2 DEF RecordOutcome, CanRecord
  <2>2. CASE ~SettleClaim
    <3>1. UNCHANGED reservation
      BY <1>4, <2>2 DEF RecoveryStepsOn, DropSession, Join, Quarantine, RetireRuntime,
         RetireInvestigations, Unblock, CompleteIntent, RecoveryFails
    <3> QED BY <1>1, <3>1
  <2> QED BY <2>1, <2>2
<1>5. CASE Crash \/ \E p \in Requests : Expire(p)
  BY <1>1, <1>5 DEF Crash, Expire, policyVars
<1> QED BY <1>2, <1>3, <1>4, <1>5 DEF Next

\* An open investigation is closed by the service, when it denies or finishes the
\* request, or by recovery; and none is undone.
LEMMA RootsStayOpen ==
  ASSUME TurnInv, Tables, Next, NEW q \in Requests
  PROVE  /\ roots[q] \in UnfinishedRoot =>
              \/ roots'[q] \in UnfinishedRoot
              \/ ((Admit /\ ~CanReserveRoot(Request)) \/ CloseRoot) /\ q = Request
              \/ RetireInvestigations
         /\ roots'[q] = "none" => roots[q] = "none"
<1> USE DEF UnfinishedRoot
<1> service \in ServiceRecord /\ roots \in [Requests -> RootStates]
  BY DEF TurnInv, Shapes, Tables
<1>1. CASE UNCHANGED roots
  BY <1>1
<1>2. CASE HostNext
  <2>1. UNCHANGED roots \/ roots' = RetireRoots
    BY <1>2 DEF HostNext, journalVars, Enable, Begin, CancelRequest, Forget, ForgetRecord,
       RevokeBoard, ScrubTurns, TickRevocation, RevokeScope, DeleteRevocation, CancelWork,
       ScrubRoots, ScrubControl, Mark, FreshContext, Recovered, Restart
  <2> QED BY <1>1, <2>1 DEF RetireRoots
<1>3. CASE ServiceNext
  <2>1. CASE Start
    BY <1>1, <2>1 DEF Start
  <2>2. CASE Admit
    BY <1>1, <2>2 DEF Admit
  <2>3. CASE CloseRoot
    BY <2>3 DEF CloseRoot, ServiceRecord, Verdicts
  <2>4. CASE ~Start /\ ~Admit /\ ~CloseRoot
    <3>1. UNCHANGED roots
      BY <1>3, <2>4 DEF ServiceNext, journalVars, Quiet, Bind, RestoreState, StartOrResume,
         Coordinate, OpeningFails, ValidateTurn, RecordTurn, ClaimTurn, FenceDispatch, Withdraw,
         Dispatch, Send, SendFails, Accepted, CancelTurn, Poll, PollProvider, TurnFails,
         TurnCompletes, PollForgotten, CommitAnswer, SettleTurn, PublishReply, Conclude,
         AcceptProposal, SettleUnknown, RecordUnknown, SettleRoot, Stop
    <3> QED BY <1>1, <3>1
  <2> QED BY <2>1, <2>2, <2>3, <2>4
<1>4. CASE RecoveryStepsOn \/ RecoveryFails
  <2>1. CASE RetireInvestigations
    BY <2>1 DEF RetireInvestigations
  <2>2. CASE ~RetireInvestigations
    <3>1. UNCHANGED roots
      BY <1>4, <2>2 DEF RecoveryStepsOn, journalVars, DropSession, Join, Quarantine, SettleClaim,
         RetireRuntime, Unblock, CompleteIntent, RecoveryFails
    <3> QED BY <1>1, <3>1
  <2> QED BY <2>1, <2>2
<1>5. CASE Crash \/ \E p \in Requests : Expire(p)
  BY <1>1, <1>5 DEF Crash, Expire, journalVars
<1> QED BY <1>2, <1>3, <1>4, <1>5 DEF Next

\* Nobody but the service takes it from one step to another.
LEMMA OthersLeaveService ==
  ASSUME TurnInv, RecoveryAlone, Next, ~ServiceNext
  PROVE  \/ service'.pc \in {"off", "opening", "queued"}
         \/ service'.pc = service.pc /\ UNCHANGED <<Request, Role>>
<1> USE DEF Request, Role
<1> service \in ServiceRecord
  BY DEF TurnInv, Shapes
<1>1. CASE HostNext
  BY <1>1, HostKeepsThread
<1>2. CASE RecoveryStepsOn \/ RecoveryFails
  BY <1>2 DEF RecoveryStepsOn, ServiceRecord, DropSession, Join, Quarantine, SettleClaim,
     RetireRuntime, RetireInvestigations, Unblock, CompleteIntent, RecoveryFails
<1>3. CASE Crash
  BY <1>3 DEF Crash, ServiceOff
<1>4. CASE \E q \in Requests : Expire(q)
  BY <1>4 DEF Expire
<1> QED BY <1>1, <1>2, <1>3, <1>4 DEF Next

\* What the ledger counts as claimed has its open investigation or turn: each is
\* opened first and closed last, and recovery closes them when nothing is claimed.
LEMMA ClaimStep ==
  ASSUME TurnInv, Tables, RecoveryAlone, LiveInv, ClaimInv, CleanInv, Next PROVE ClaimInv'
<1> USE TurnConstants DEF Claims
<1> /\ service \in ServiceRecord /\ Role \in Children
    /\ reservation \in [Requests -> [Roles -> ReservationStates]]
    /\ Busy => Request \in Requests
    /\ "root" \in Roles /\ Children \subseteq Roles /\ "root" \notin Children
  BY DEF TurnInv, Shapes, ServiceRecord, Role, Roles, Children
<1>1. \A q \in Requests : (roots[q] = "none" => reservation[q]["root"] = "none")'
  <2> SUFFICES ASSUME NEW q \in Requests, roots'[q] = "none"
               PROVE  reservation'[q]["root"] = "none"
    OBVIOUS
  <2>1. roots[q] = "none" /\ reservation[q]["root"] = "none"
    BY RootsStayOpen DEF ClaimInv
  <2>2. ~(Admit /\ q = Request)
    BY <2>1 DEF ClaimInv, Admit, At, UnfinishedRoot
  <2> QED BY <2>1, <2>2, ClaimsMade
<1>2. \A q \in Requests : (reservation[q]["root"] \in Claims => roots[q] \in UnfinishedRoot)'
  <2> SUFFICES ASSUME NEW q \in Requests, reservation'[q]["root"] \in Claims
               PROVE  roots'[q] \in UnfinishedRoot
    OBVIOUS
  <2>1. ~(Admit /\ ~CanReserveRoot(Request) /\ q = Request)
    BY DEF Admit, At, ClaimInv, policyVars
  <2>2. reservation[q]["root"] \in Claims \/ (Admit /\ q = Request)
    BY ClaimsMade
  <2>3. roots[q] \in UnfinishedRoot
    BY <2>2 DEF ClaimInv, ClaimsTracked, Admit, At
  <2>4. ~(CloseRoot /\ q = Request)
    BY <2>2 DEF CloseRoot, ClaimInv, At, Admit
  <2>5. ~RetireInvestigations
    <3>1. ASSUME RetireInvestigations PROVE FALSE
      BY <2>2, <3>1 DEF RetireInvestigations, RecoveryAt, CleanInv, Admit, At, RecoveryAlone, Joined
    <3> QED BY <3>1
  <2> QED BY <2>1, <2>3, <2>4, <2>5, RootsStayOpen
<1>3. \A q \in Requests, c \in Children :
        (reservation[q][c] \in Claims => turn[q][c].state \in UnresolvedTurn)'
  <2> SUFFICES ASSUME NEW q \in Requests, NEW c \in Children, reservation'[q][c] \in Claims
               PROVE  turn'[q][c].state \in UnresolvedTurn
    OBVIOUS
  <2>1. reservation[q][c] \in Claims \/ (ClaimTurn /\ q = Request /\ c = Role)
    BY ClaimsMade
  <2>2. turn[q][c].state \in UnresolvedTurn
    BY <2>1 DEF ClaimInv, ClaimsTracked, ClaimTurn, At, LiveInv, Recorded
  <2>3. ~((Withdraw \/ PublishReply) /\ q = Request /\ c = Role)
    BY <2>1 DEF Withdraw, PublishReply, ClaimTurn, At, ClaimInv
  <2>4. ~RetireRuntime
    <3>1. ASSUME RetireRuntime PROVE FALSE
      BY <2>1, <3>1 DEF RetireRuntime, RecoveryAt, CleanInv, ClaimTurn, At, RecoveryAlone, Joined
    <3> QED BY <3>1
  <2> QED BY <2>2, <2>3, <2>4, TurnsStayOpen
<1>4. CASE ServiceNext
  <2>1. (service.pc = "admitting" =>
           reservation[Request]["root"] = "none" /\ roots[Request] \in UnfinishedRoot)'
    <3> SUFFICES ASSUME service'.pc = "admitting"
                 PROVE  reservation'[Request]["root"] = "none" /\ roots'[Request] \in UnfinishedRoot
                        /\ Request' = Request
      OBVIOUS
    <3>1. Start /\ Request' = Request
      BY <1>4, ServiceCourse
    <3>2. Request \in Requests /\ service.pc = "queued" /\ UNCHANGED reservation
      BY <3>1 DEF Start, At, Busy, Opening, policyVars
    <3>3. roots[Request] = "none" /\ roots' = [roots EXCEPT ![Request] = "planning"]
      BY <3>1 DEF Start, Rest, ServiceRecord
    <3> QED BY <3>1, <3>2, <3>3 DEF ClaimInv, Tables, UnfinishedRoot
  <2>2. (service.pc \in {"withdrawn", "publishing"} => reservation[Request][Role] \notin Claims)'
    <3>1. CASE service'.pc = "withdrawn"
      <4>1. FenceDispatch /\ ~InMemory /\ UNCHANGED <<Request, Role>>
        BY <1>4, <3>1, ServiceCourse
      <4>2. /\ reservation' = [reservation EXCEPT ![Request][Role] = "released"]
            /\ Request \in Requests
        BY <4>1 DEF FenceDispatch, Release, At, Busy, Opening
      <4> QED BY <4>1, <4>2
    <3>2. CASE service'.pc = "publishing"
      <4>1. SettleTurn /\ UNCHANGED <<Request, Role>>
        BY <1>4, <3>2, ServiceCourse
      <4>2. reservation' = [reservation EXCEPT ![Request][Role] = service.outcome]
            /\ Request \in Requests /\ service.outcome \notin Claims
        BY <4>1 DEF SettleTurn, RecordOutcome, At, Busy, Opening, ServiceRecord, Verdicts
      <4> QED BY <4>1, <4>2
    <3> QED BY <3>1, <3>2
  <2>3. (service.pc = "closing" => reservation[Request]["root"] \notin Claims)'
    <3>1. CASE service'.pc = "closing"
      <4>1. SettleRoot /\ UNCHANGED Request
        BY <1>4, <3>1, ServiceCourse
      <4>2. reservation' = [reservation EXCEPT ![Request]["root"] = service.outcome]
            /\ Request \in Requests /\ service.outcome \notin Claims
        BY <4>1 DEF SettleRoot, RecordOutcome, At, Busy, Opening, ServiceRecord, Verdicts
      <4> QED BY <4>1, <4>2
    <3> QED BY <3>1
  <2> QED BY <1>1, <1>2, <1>3, <2>1, <2>2, <2>3 DEF ClaimInv, ClaimsTracked
<1>5. CASE ~ServiceNext
  <2>1. CASE service'.pc \in {"off", "opening", "queued"}
    BY <1>1, <1>2, <1>3, <2>1 DEF ClaimInv, ClaimsTracked
  <2>2. CASE service'.pc = service.pc /\ UNCHANGED <<Request, Role>>
    <3>1. service.pc # "off" /\ Busy => ~RetireInvestigations /\ Request \in Requests
      BY DEF RetireInvestigations, RecoveryAt, RecoveryAlone, Joined
    <3>2. ~Admit /\ ~ClaimTurn /\ ~CloseRoot
      BY <1>5 DEF ServiceNext
    <3>3. service.pc \in {"admitting", "withdrawn", "publishing", "closing"} =>
            Busy /\ service.pc # "off"
      BY DEF Busy, Opening
    <3>4. (service.pc = "admitting" =>
             reservation[Request]["root"] = "none" /\ roots[Request] \in UnfinishedRoot)'
      BY <2>2, <3>1, <3>2, <3>3, ClaimsMade, RootsStayOpen DEF ClaimInv
    <3>5. (service.pc \in {"withdrawn", "publishing"} => reservation[Request][Role] \notin Claims)'
      BY <2>2, <3>1, <3>2, <3>3, ClaimsMade DEF ClaimInv
    <3>6. (service.pc = "closing" => reservation[Request]["root"] \notin Claims)'
      BY <2>2, <3>1, <3>2, <3>3, ClaimsMade DEF ClaimInv
    <3> QED BY <1>1, <1>2, <1>3, <3>4, <3>5, <3>6 DEF ClaimInv, ClaimsTracked
  <2> QED BY <1>5, <2>1, <2>2, OthersLeaveService
<1> QED BY <1>4, <1>5

\* Recovery settles every claim it found, and nothing else makes one meanwhile.
LEMMA CleanStep ==
  ASSUME TurnInv, Tables, RecoveryAlone, ThreadInv, ClaimInv, CleanInv, Next PROVE CleanInv'
<1> /\ recovery \in RecoveryRecord /\ journal \in JournalRecord
    /\ reservation \in [Requests -> [Roles -> ReservationStates]]
    /\ "root" \in Roles /\ Children \subseteq Roles /\ Roles = {"root"} \cup Children
  BY DEF TurnInv, Shapes, Roles
<1>1. CASE HostNext
  BY <1>1, HostKeepsThread DEF CleanInv
<1>2. CASE ServiceNext
  <2>1. UNCHANGED recovery /\ ~Joined
    BY <1>2, ServiceLeavesHost, OffHasNoStep DEF RecoveryAlone
  <2> QED BY <2>1 DEF CleanInv, Joined
<1>3. CASE DropSession \/ Join \/ RecoveryFails
  <2>1. recovery'.pc \in {"joining", "quarantine", "idle"}
    BY <1>3 DEF DropSession, Join, RecoveryFails, RecoveryStep, RecoveryRecord, RecoveryOff
  <2> QED BY <2>1 DEF CleanInv
<1>4. CASE Quarantine
  <2>1. recovery'.pc = "settling" /\ recovery'.ids = OpenClaims /\ UNCHANGED reservation
    BY <1>4 DEF Quarantine, RecoveryRecord
  <2>2. \A q \in Requests, r \in Roles : reservation[q][r] \in Claims => <<q, r>> \in OpenClaims
    BY DEF ClaimInv, ClaimsTracked, OpenClaims
  <2> QED BY <2>1, <2>2 DEF CleanInv
<1>5. CASE SettleClaim
  <2>1. PICK claim \in recovery.ids :
          /\ recovery' = [recovery EXCEPT !.ids = @ \ {claim}]
          /\ IF CanRecord(claim[1], claim[2])
             THEN RecordOutcome(claim[1], claim[2], "unknown")
             ELSE UNCHANGED reservation
    BY <1>5 DEF SettleClaim
  <2>2. /\ recovery'.pc = "settling" /\ recovery.pc = "settling"
        /\ recovery'.ids = recovery.ids \ {claim}
        /\ claim \in Requests \X Roles
    BY <1>5, <2>1 DEF SettleClaim, RecoveryAt, RecoveryRecord
  <2>3. reservation'[claim[1]][claim[2]] \notin Claims
    BY <2>1, <2>2 DEF CanRecord, RecordOutcome, Claims
  <2>4. \A q \in Requests, r \in Roles :
          reservation'[q][r] \in Claims => reservation[q][r] \in Claims
    BY <2>1, <2>2 DEF RecordOutcome, Claims
  <2>5. \A q \in Requests, r \in Roles : reservation'[q][r] \in Claims => <<q, r>> \in recovery'.ids
    <3> SUFFICES ASSUME NEW q \in Requests, NEW r \in Roles, reservation'[q][r] \in Claims
                 PROVE  <<q, r>> \in recovery'.ids
      OBVIOUS
    <3>1. <<q, r>> \in recovery.ids
      BY <2>2, <2>4 DEF CleanInv
    <3>2. <<q, r>> # claim
      BY <2>3
    <3> QED BY <2>2, <3>1, <3>2
  <2> QED BY <2>2, <2>5 DEF CleanInv
<1>6. CASE RetireRuntime
  <2>1. /\ recovery'.pc = "retire_roots" /\ recovery'.epoch = recovery.epoch
        /\ journal'.thread = None /\ journal'.epoch = recovery.epoch
        /\ UNCHANGED reservation /\ recovery.pc = "settling" /\ recovery.ids = {}
    BY <1>6 DEF RetireRuntime, RecoveryAt, RecoveryStep, RecoveryRecord
  <2>2. \A q \in Requests, c \in Children : turn'[q][c].state \notin UnresolvedTurn
    BY <1>6 DEF RetireRuntime, UnresolvedTurn
  <2>3. \A q \in Requests, r \in Roles : reservation[q][r] \notin Claims
    BY <2>1 DEF CleanInv
  <2> QED BY <2>1, <2>2, <2>3 DEF CleanInv
<1>7. CASE RetireInvestigations
  <2>1. /\ recovery'.pc = "unblocking" /\ recovery'.epoch = recovery.epoch
        /\ UNCHANGED <<reservation, turn, journal>> /\ recovery.pc = "retire_roots"
    BY <1>7 DEF RetireInvestigations, RecoveryAt, RecoveryStep, RecoveryRecord
  <2>2. \A q \in Requests : roots'[q] \notin UnfinishedRoot
    BY <1>7 DEF RetireInvestigations, UnfinishedRoot
  <2> QED BY <2>1, <2>2 DEF CleanInv
<1>8. CASE Unblock
  <2>1. /\ recovery'.pc = "completing" /\ recovery'.epoch = recovery.epoch
        /\ UNCHANGED <<reservation, turn, roots>> /\ recovery.pc = "unblocking"
        /\ journal'.thread = journal.thread /\ journal'.epoch = journal.epoch /\ ~journal'.blocked
    BY <1>8 DEF Unblock, RecoveryAt, RecoveryStep, RecoveryRecord, JournalRecord
  <2> QED BY <2>1 DEF CleanInv
<1>9. CASE CompleteIntent
  <2>1. recovery'.pc = "completed"
    BY <1>9 DEF CompleteIntent, RecoveryStep, RecoveryRecord
  <2> QED BY <2>1 DEF CleanInv
<1>10. CASE Crash
  <2>1. recovery'.pc = "idle"
    BY <1>10 DEF Crash, RecoveryOff
  <2> QED BY <2>1 DEF CleanInv
<1>11. CASE \E q \in Requests : Expire(q)
  <2>1. UNCHANGED <<recovery, reservation, turn, roots, journal>>
    BY <1>11 DEF Expire, policyVars, journalVars
  <2> QED BY <2>1 DEF CleanInv
<1> QED BY <1>1, <1>2, <1>3, <1>4, <1>5, <1>6, <1>7, <1>8, <1>9, <1>10, <1>11
    DEF Next, RecoveryStepsOn

-----------------------------------------------------------------------------
\* The parts rest on each other, so they are kept together.
AssistantInv ==
  TurnInv /\ Tables /\ RecoveryAlone /\ TextInv /\ ThreadInv /\ LiveInv /\ ClaimInv /\ CleanInv

\* Nothing is stored, sent or claimed at first.
LEMMA AssistantInvInit == Init => AssistantInv
<1> SUFFICES ASSUME Init PROVE AssistantInv
  OBVIOUS
<1> USE TurnConstants
<1>1. TurnInv
  BY TurnInvInit
<1>2. /\ service.pc = "off" /\ recovery.pc = "idle" /\ journal.thread = None
      /\ journal.epoch = 0 /\ live = {} /\ seen = {} /\ threads = 0 /\ host = Host("up")
      /\ marker = 0 /\ epoch = 0
  BY DEF Init, ServiceOff, RecoveryOff
<1>3. Tables
  <2>1. turn \in [Requests -> [Children -> [state : TurnStates, text : Nat \cup {None}]]]
    BY DEF Init, TurnStates
  <2>2. roots \in [Requests -> RootStates]
    BY DEF Init, RootStates
  <2>3. host \in HostRecord
    BY <1>2 DEF Host, HostRecord, HostSteps
  <2> QED BY <1>2, <2>1, <2>2, <2>3 DEF Tables
<1>4. TextInv
  BY <1>2 DEF Init, TextInv, TextsCurrent
<1>5. RecoveryAlone /\ ThreadInv /\ LiveInv /\ CleanInv
  BY <1>2 DEF RecoveryAlone, Joined, ThreadInv, ThreadsCounted, Bound, Restored,
      ThreadHoldsOneMemory, LiveInv, Recorded, NoOverlapInThread, CleanInv
<1>6. ClaimInv
  <2>1. \A q \in Requests, r \in Roles : reservation[q][r] = "none"
    BY DEF Init, AllowanceInit
  <2> QED BY <1>2, <2>1 DEF ClaimInv, ClaimsTracked, Claims, Roles, Children
<1> QED BY <1>1, <1>3, <1>4, <1>5, <1>6 DEF AssistantInv

\* Every step keeps the whole.
LEMMA AssistantInvStep == AssistantInv /\ [Next]_vars => AssistantInv'
<1> SUFFICES ASSUME AssistantInv, [Next]_vars PROVE AssistantInv'
  OBVIOUS
<1>1. CASE Next
  BY <1>1, TurnInvStep, TablesStep, AloneStep, TextStep, ThreadStep, LiveStep, ClaimStep,
     CleanStep DEF AssistantInv
<1>2. CASE UNCHANGED vars
  <2> USE <1>2 DEF AssistantInv, vars, policyVars, journalVars, memoryVars, providerVars
  <2>1. TurnInv'
    BY TurnInvStep
  <2>2. (Tables /\ RecoveryAlone /\ TextInv)'
    BY DEF Tables, RecoveryAlone, Joined, TextInv, Scrubbed, TextsCurrent
  <2>3. ThreadInv'
    BY DEF ThreadInv, ThreadsCounted, Bound, Restored, ThreadHoldsOneMemory
  <2>4. LiveInv'
    BY DEF LiveInv, Recorded, Restored, GivenUp, Awaited, Request, Role, NoOverlapInThread
  <2>5. (ClaimInv /\ CleanInv)'
    BY DEF ClaimInv, ClaimsTracked, CleanInv, Request, Role
  <2> QED BY <2>1, <2>2, <2>3, <2>4, <2>5
<1> QED BY <1>1, <1>2

\* It holds in every reachable state.
LEMMA AssistantInvAlways == Spec => []AssistantInv
BY AssistantInvInit, AssistantInvStep, PTL DEF Spec

\* Once retention has marked a forget done, no text from before it is in the
\* journal, whatever the service was writing meanwhile (retain and publish_at_epoch).
THEOREM ForgottenTextsAreGone == Spec => []ForgottenTextGone
<1>1. AssistantInv => ForgottenTextGone
  BY DEF AssistantInv, TextInv, Scrubbed, TextsCurrent, ForgottenTextGone
<1> QED BY <1>1, AssistantInvAlways, PTL

\* A provider thread is never shown a prompt of a second memory: a forget leaves
\* the thread to recovery (restore_state, start_or_resume and the guard).
THEOREM ThreadsHoldOneMemory == Spec => []ThreadHoldsOneMemory
BY AssistantInvAlways, PTL DEF AssistantInv, ThreadInv

\* No second turn runs on a thread whose earlier turn may still run
\* (restore_state's unresolved turns and the coordinator's blocked flag).
THEOREM TurnsDoNotOverlap == Spec => []NoOverlapInThread
BY AssistantInvAlways, PTL DEF AssistantInv, LiveInv

\* Every claim can be found by recovery, and a recovery that has lifted the guard
\* has left none, nor any turn or investigation open (assistant_recovery.rs).
THEOREM RecoveryLeavesClean == Spec => []RecoveryClears
<1>1. AssistantInv => RecoveryClears
  BY DEF AssistantInv, ClaimInv, CleanInv, RecoveryAlone, RecoveryClears, OpenClaims
<1> QED BY <1>1, AssistantInvAlways, PTL
=============================================================================
