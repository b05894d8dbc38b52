--------------------------- MODULE PaidWorkProofs ---------------------------
(***************************************************************************)
(* What the work that costs a model call promises, for any number of       *)
(* conversations, refreshers, quota cycles, records and calls.  The timer  *)
(* asks a model about a conversation once in a cycle, and a card by an     *)
(* interview is current only for the turns that the interview saw.  A      *)
(* review of the assistant's memory sends a record once, charges what it   *)
(* sent, and skips no record.                                              *)
(***************************************************************************)
EXTENDS ExpertCards, MemoryMaintenance, FiniteSetTheorems, WellFoundedInduction, TLAPS

-----------------------------------------------------------------------------
(* Expert cards: interviews are counted, and witnessed.                      *)

CardRecord ==
  [scope : Nat, work : Nat, source : {"none", "self", "interview"}, print : Nat, workPrint : Nat,
   seen : Nat, attested : BOOLEAN]
RunSteps ==
  {"idle", "quota", "choose", "claim", "print", "ask", "answer", "refreshed", "failed", "publish",
   "done"}
RunRecord ==
  [at : RunSteps, for : Purposes, missing : SUBSET Conversations, of : SUBSET Conversations,
   cycle : Cycles, card : CardRecord]

ExpertShapes ==
  /\ turns \in [Conversations -> Nat]
  /\ card \in [Conversations -> CardRecord]
  /\ attempt \in [Conversations -> [Cycles -> Attempts]]
  /\ cycle \in Cycles
  /\ run \in [Runs -> RunRecord]
  /\ untracks \in [Conversations -> Nat]
  /\ interviews \in [Conversations -> [Cycles -> Nat]]

\* A run that has chosen a conversation is about that one.
About(r) ==
  run[r].at \in {"claim", "print", "ask", "answer", "refreshed", "failed", "publish"} =>
    \E c \in Conversations : run[r].of = {c}

\* The scheduled runs that have claimed the cycle's interview of c and have not
\* asked yet: each will cost one.
Asking(c, y) ==
  {r \in Runs : Scheduled(r) /\ run[r].at \in {"print", "ask"} /\ run[r].of = {c}
                /\ run[r].cycle = y}
Unclaimed(c, y) == IF attempt[c][y] = "none" THEN 1 ELSE 0

\* An interview is paid for by the first claim of the cycle, or by an untrack
\* that took the claim away: what has been asked, what will be asked, and what
\* may still be claimed, together.
Paid(c, y) ==
  /\ IsFiniteSet(Asking(c, y))
  /\ interviews[c][y] + Cardinality(Asking(c, y)) + Unclaimed(c, y) <= 1 + untracks[c]

\* The print of a card is that of a transcript which the model then read, or the
\* one under which the conversation's agent wrote since.
Honest(stored) == stored.attested \/ stored.print <= stored.seen
Witnessed(c) == card[c].source = "interview" => Honest(card[c])
Observes(r) ==
  /\ RunAt(r, "ask") => run[r].card.print <= turns[Of(r)]
  /\ RunAt(r, "answer") => run[r].card.print <= run[r].card.seen

ExpertInv ==
  /\ ExpertShapes
  /\ \A r \in Runs : About(r) /\ Observes(r)
  /\ \A c \in Conversations : Witnessed(c) /\ \A y \in Cycles : Paid(c, y)

-----------------------------------------------------------------------------
(* What a step makes of a run.                                             *)

\* The run's record after a step: where it is, of which conversation and cycle.
Becomes(r, here, of, y, new) ==
  /\ run'[r] \in RunRecord /\ run' = [run EXCEPT ![r] = run'[r]]
  /\ run'[r].at = here /\ run'[r].of = of /\ run'[r].cycle = y /\ run'[r].card = new
  /\ run'[r].for = run[r].for

\* A step that only moves on.
LEMMA GoToIs ==
  ASSUME ExpertShapes, NEW r \in Runs, NEW next \in RunSteps, GoTo(r, next)
  PROVE Becomes(r, next, run[r].of, run[r].cycle, run[r].card)
<1>1. run[r] \in RunRecord /\ run \in [Runs -> RunRecord]
  BY DEF ExpertShapes
<1>2. run'[r] = [run[r] EXCEPT !.at = next] /\ run' = [run EXCEPT ![r] = [run[r] EXCEPT !.at = next]]
  BY <1>1 DEF GoTo
<1>3. [run[r] EXCEPT !.at = next] \in RunRecord
  BY <1>1 DEF RunRecord
<1> QED BY <1>1, <1>2, <1>3 DEF Becomes, RunRecord

\* Reading the cards finds some conversations missing.
LEMMA ReadCardsIs ==
  ASSUME ExpertShapes, NEW r \in Runs, ReadCards(r)
  PROVE Becomes(r, "quota", run[r].of, run[r].cycle, run[r].card)
<1> DEFINE found == {c \in Conversations : watched[c] /\ NotInterviewed(c)}
<1>1. run[r] \in RunRecord /\ run \in [Runs -> RunRecord] /\ found \in SUBSET Conversations
  BY DEF ExpertShapes
<1>2. run' = [run EXCEPT ![r].missing = found, ![r].at = "quota"]
  BY DEF ReadCards
<1> HIDE DEF found
<1>3. /\ run'[r] = [run[r] EXCEPT !.missing = found, !.at = "quota"]
      /\ run' = [run EXCEPT ![r] = [run[r] EXCEPT !.missing = found, !.at = "quota"]]
  BY <1>1, <1>2
<1>4. [run[r] EXCEPT !.missing = found, !.at = "quota"] \in RunRecord
  BY <1>1 DEF RunRecord, RunSteps
<1> QED BY <1>1, <1>3, <1>4 DEF Becomes, RunRecord

\* The quota allows an interview in the cycle that was read, or ends the run.
LEMMA ReadQuotaIs ==
  ASSUME ExpertShapes, NEW r \in Runs, ReadQuota(r)
  PROVE \/ Becomes(r, "choose", run[r].of, cycle, run[r].card)
        \/ Becomes(r, "done", run[r].of, run[r].cycle, run[r].card)
<1>1. run[r] \in RunRecord /\ run \in [Runs -> RunRecord] /\ cycle \in Cycles
  BY DEF ExpertShapes
<1>2. CASE run' = [run EXCEPT ![r].cycle = cycle, ![r].at = "choose"]
  <2>1. /\ run'[r] = [run[r] EXCEPT !.cycle = cycle, !.at = "choose"]
        /\ run' = [run EXCEPT ![r] = [run[r] EXCEPT !.cycle = cycle, !.at = "choose"]]
    BY <1>1, <1>2
  <2>2. [run[r] EXCEPT !.cycle = cycle, !.at = "choose"] \in RunRecord
    BY <1>1 DEF RunRecord, RunSteps
  <2> QED BY <1>1, <2>1, <2>2 DEF Becomes, RunRecord
<1> QED BY <1>2, GoToIs DEF ReadQuota, RunSteps

\* A run chooses one missing card, or ends.
LEMMA ChooseMissingIs ==
  ASSUME ExpertShapes, NEW r \in Runs, ChooseMissing(r)
  PROVE \/ \E c \in Conversations : Becomes(r, "claim", {c}, run[r].cycle, run[r].card)
        \/ Becomes(r, "done", run[r].of, run[r].cycle, run[r].card)
<1>1. run[r] \in RunRecord /\ run \in [Runs -> RunRecord]
  BY DEF ExpertShapes
<1>2. ASSUME NEW c \in run[r].missing, run' = [run EXCEPT ![r].of = {c}, ![r].at = "claim"]
      PROVE c \in Conversations /\ Becomes(r, "claim", {c}, run[r].cycle, run[r].card)
  <2>1. /\ run'[r] = [run[r] EXCEPT !.of = {c}, !.at = "claim"]
        /\ run' = [run EXCEPT ![r] = [run[r] EXCEPT !.of = {c}, !.at = "claim"]]
    BY <1>1, <1>2
  <2>2. c \in Conversations
    BY <1>1, <1>2 DEF RunRecord
  <2>3. [run[r] EXCEPT !.of = {c}, !.at = "claim"] \in RunRecord
    BY <1>1, <2>2 DEF RunRecord, RunSteps
  <2> QED BY <1>1, <2>1, <2>2, <2>3 DEF Becomes, RunRecord
<1> QED BY <1>2, GoToIs DEF ChooseMissing, RunSteps

\* A refresh is about one conversation.
LEMMA ReadCardIs ==
  ASSUME ExpertShapes, NEW r \in Runs, ReadCard(r)
  PROVE \E c \in Conversations : Becomes(r, "print", {c}, run[r].cycle, run[r].card)
<1>1. run[r] \in RunRecord /\ run \in [Runs -> RunRecord]
  BY DEF ExpertShapes
<1>2. PICK c \in Conversations : run' = [run EXCEPT ![r].of = {c}, ![r].at = "print"]
  BY DEF ReadCard
<1>3. /\ run'[r] = [run[r] EXCEPT !.of = {c}, !.at = "print"]
      /\ run' = [run EXCEPT ![r] = [run[r] EXCEPT !.of = {c}, !.at = "print"]]
  BY <1>1, <1>2
<1>4. [run[r] EXCEPT !.of = {c}, !.at = "print"] \in RunRecord
  BY <1>1 DEF RunRecord, RunSteps
<1> QED BY <1>1, <1>3, <1>4 DEF Becomes, RunRecord

\* The print is of the conversation as it is when the interview begins.
LEMMA TakePrintIs ==
  ASSUME ExpertShapes, NEW r \in Runs, TakePrint(r), Of(r) \in Conversations
  PROVE Becomes(r, "ask", run[r].of, run[r].cycle,
                [NoCard EXCEPT !.source = "interview", !.print = turns[Of(r)]])
<1> DEFINE new == [NoCard EXCEPT !.source = "interview", !.print = turns[Of(r)]]
<1>1. run[r] \in RunRecord /\ run \in [Runs -> RunRecord] /\ turns[Of(r)] \in Nat
  BY DEF ExpertShapes
<1>2. new \in CardRecord
  BY <1>1 DEF NoCard, CardRecord
<1>3. run' = [run EXCEPT ![r].card = new, ![r].at = "ask"]
  BY DEF TakePrint
<1> HIDE DEF new
<1>4. /\ run'[r] = [run[r] EXCEPT !.card = new, !.at = "ask"]
      /\ run' = [run EXCEPT ![r] = [run[r] EXCEPT !.card = new, !.at = "ask"]]
  BY <1>1, <1>3
<1>5. [run[r] EXCEPT !.card = new, !.at = "ask"] \in RunRecord
  BY <1>1, <1>2 DEF RunRecord, RunSteps
<1>6. Becomes(r, "ask", run[r].of, run[r].cycle, new)
  BY <1>1, <1>4, <1>5 DEF Becomes, RunRecord
<1> QED BY <1>6 DEF new

\* The answer bears the print that was taken, and what the model read.
LEMMA AskIs ==
  ASSUME ExpertShapes, NEW r \in Runs, Ask(r), Of(r) \in Conversations
  PROVE \E new \in CardRecord :
          /\ Becomes(r, "answer", run[r].of, run[r].cycle, new)
          /\ new.print = run[r].card.print /\ new.seen = turns[Of(r)]
<1> DEFINE c == Of(r)
<1>1. /\ run[r] \in RunRecord /\ run \in [Runs -> RunRecord]
      /\ turns[c] \in Nat /\ card[c].scope \in Nat /\ card[c].work \in Nat
  BY DEF ExpertShapes, CardRecord
<1> DEFINE seen == turns[c]
<1>2. PICK scope \in {turns[c], card[c].scope}, work \in {turns[c], card[c].work} :
        run' = [run EXCEPT ![r].card.scope = scope, ![r].card.work = work,
                           ![r].card.seen = seen, ![r].at = "answer"]
  BY DEF Ask
<1>3. scope \in Nat /\ work \in Nat /\ seen \in Nat
  BY <1>1, <1>2
<1> HIDE DEF c, seen
<1> DEFINE old == run[r].card
<1> DEFINE new == [old EXCEPT !.scope = scope, !.work = work, !.seen = seen]
<1>4. old \in CardRecord
  BY <1>1 DEF RunRecord
<1> HIDE DEF old
<1>5. new \in CardRecord /\ new.print = old.print /\ new.seen = seen
  BY <1>3, <1>4 DEF CardRecord
<1>6. /\ run'[r] = [run[r] EXCEPT !.card = new, !.at = "answer"]
      /\ run' = [run EXCEPT ![r] = [run[r] EXCEPT !.card = new, !.at = "answer"]]
  BY <1>1, <1>2 DEF old
<1> HIDE DEF new
<1>7. [run[r] EXCEPT !.card = new, !.at = "answer"] \in RunRecord
  BY <1>1, <1>5 DEF RunRecord, RunSteps
<1>8. Becomes(r, "answer", run[r].of, run[r].cycle, new)
  BY <1>1, <1>6, <1>7 DEF Becomes, RunRecord
<1> QED BY <1>5, <1>8 DEF old, seen, c

\* An agent composes a card of its own conversation.
LEMMA ComposeIs ==
  ASSUME ExpertShapes, NEW r \in Runs, Compose(r)
  PROVE \E c \in Conversations, new \in CardRecord :
          Becomes(r, "publish", {c}, run[r].cycle, new)
<1>1. PICK c \in Conversations : \E new \in {[NoCard EXCEPT !.source = "self", !.scope = turns[c],
                                                       !.work = turns[c]],
                                          [card[c] EXCEPT !.work = turns[c]]} :
        run' = [run EXCEPT ![r].of = {c}, ![r].card = new, ![r].at = "publish"]
  BY DEF Compose
<1>2. run[r] \in RunRecord /\ run \in [Runs -> RunRecord] /\ turns[c] \in Nat
      /\ card[c] \in CardRecord
  BY DEF ExpertShapes
<1>3. PICK new \in {[NoCard EXCEPT !.source = "self", !.scope = turns[c], !.work = turns[c]],
                   [card[c] EXCEPT !.work = turns[c]]} :
        run' = [run EXCEPT ![r].of = {c}, ![r].card = new, ![r].at = "publish"]
  BY <1>1
<1>4. new \in CardRecord
  <2>1. [card[c] EXCEPT !.work = turns[c]] \in CardRecord
    BY <1>2 DEF CardRecord
  <2>2. [NoCard EXCEPT !.source = "self", !.scope = turns[c], !.work = turns[c]] \in CardRecord
    BY <1>2 DEF CardRecord, NoCard
  <2> QED BY <1>3, <2>1, <2>2
<1>5. /\ run'[r] = [run[r] EXCEPT !.of = {c}, !.card = new, !.at = "publish"]
      /\ run' = [run EXCEPT ![r] = [run[r] EXCEPT !.of = {c}, !.card = new, !.at = "publish"]]
  BY <1>2, <1>3
<1>6. [run[r] EXCEPT !.of = {c}, !.card = new, !.at = "publish"] \in RunRecord
  BY <1>2, <1>4 DEF RunRecord, RunSteps
<1>7. Becomes(r, "publish", {c}, run[r].cycle, new)
  BY <1>2, <1>5, <1>6 DEF Becomes, RunRecord
<1> QED BY <1>4, <1>7

-----------------------------------------------------------------------------
(* Types.                                                                  *)

\* A run at work on a conversation is about exactly one.
LEMMA OfIs ==
  ASSUME NEW r \in Runs, About(r),
         run[r].at \in {"claim", "print", "ask", "answer", "refreshed", "failed", "publish"}
  PROVE Of(r) \in Conversations /\ run[r].of = {Of(r)}
BY DEF About, Of

\* What is stored is a card.
LEMMA PutIsCard ==
  ASSUME NEW old \in CardRecord, NEW new \in CardRecord
  PROVE Put(old, new) \in CardRecord
<1>1. \A seen \in {old.seen, new.seen} :
        [old EXCEPT !.print = new.print, !.workPrint = new.print, !.seen = seen,
                    !.attested = new.attested] \in CardRecord
  BY DEF CardRecord
<1>2. \A p \in Nat : [new EXCEPT !.workPrint = p] \in CardRecord
  BY DEF CardRecord
<1>3. new.print \in Nat /\ old.workPrint \in Nat
  BY DEF CardRecord
<1> QED BY <1>1, <1>2, <1>3 DEF Put

RunStep(r) ==
  \/ ReadCards(r) \/ ReadQuota(r) \/ ChooseMissing(r) \/ ClaimAttempt(r) \/ ReadCard(r)
  \/ TakePrint(r) \/ Ask(r) \/ InterviewFails(r) \/ StoreCard(r) \/ RecordAttempt(r)
  \/ Compose(r) \/ Publish(r) \/ KillRun(r)

\* A run's step ends with a record of its own.
LEMMA RunsBecome ==
  ASSUME ExpertShapes, \A r \in Runs : About(r), NEW r \in Runs, RunStep(r)
  PROVE /\ run'[r] \in RunRecord /\ run' = [run EXCEPT ![r] = run'[r]]
        /\ run'[r].for = run[r].for /\ About(r)'
<1> DEFINE Good == /\ run'[r] \in RunRecord /\ run' = [run EXCEPT ![r] = run'[r]]
                  /\ run'[r].for = run[r].for /\ About(r)'
<1>1. ASSUME NEW next \in {"done", "refreshed", "failed", "print"}, GoTo(r, next),
             run[r].at \in {"claim", "print", "ask", "answer", "refreshed", "failed", "publish"}
             \/ next = "done"
      PROVE Good
  <2>1. Becomes(r, next, run[r].of, run[r].cycle, run[r].card)
    BY <1>1, GoToIs DEF RunSteps
  <2> QED BY <1>1, <2>1 DEF Becomes, About
<1>2. CASE ReadCards(r)
  BY <1>2, ReadCardsIs DEF Becomes, About
<1>3. CASE ReadQuota(r)
  BY <1>3, ReadQuotaIs DEF Becomes, About
<1>4. CASE ChooseMissing(r)
  BY <1>4, ChooseMissingIs DEF Becomes, About
<1>5. CASE ClaimAttempt(r)
  BY <1>1, <1>5 DEF ClaimAttempt, RunAt
<1>6. CASE ReadCard(r)
  BY <1>6, ReadCardIs DEF Becomes, About
<1>7. CASE TakePrint(r)
  <2>1. About(r) /\ run[r].at = "print" /\ Of(r) \in Conversations
    BY <1>7, OfIs DEF TakePrint, RunAt
  <2> QED BY <1>7, <2>1, TakePrintIs DEF Becomes, About
<1>8. CASE Ask(r)
  <2>1. About(r) /\ run[r].at = "ask" /\ Of(r) \in Conversations
    BY <1>8, OfIs DEF Ask, RunAt
  <2> QED BY <1>8, <2>1, AskIs DEF Becomes, About
<1>9. CASE InterviewFails(r)
  BY <1>1, <1>9 DEF InterviewFails, RunAt
<1>10. CASE StoreCard(r)
  BY <1>1, <1>10 DEF StoreCard, RunAt
<1>11. CASE RecordAttempt(r) \/ Publish(r) \/ KillRun(r)
  BY <1>1, <1>11 DEF RecordAttempt, Publish, KillRun
<1>12. CASE Compose(r)
  BY <1>12, ComposeIs DEF Becomes, About
<1> QED BY <1>2, <1>3, <1>4, <1>5, <1>6, <1>7, <1>8, <1>9, <1>10, <1>11, <1>12 DEF RunStep

\* The conversations, the user and the quota, and which table who touches.
World ==
  (\E c \in Conversations : Turn(c) \/ Untrack(c) \/ Track(c) \/ Clear(c)) \/ NextCycle

\* Every step is a run's or the world's.
LEMMA ExpertStepIsOf == ExpertNext <=> World \/ \E r \in Runs : RunStep(r)
BY DEF ExpertNext, World, RunStep

\* What a run may write.
LEMMA RunsTouch ==
  ASSUME NEW r \in Runs, RunStep(r)
  PROVE /\ UNCHANGED <<turns, cycle, untracks>>
        /\ UNCHANGED card \/ StoreCard(r) \/ Publish(r)
        /\ UNCHANGED attempt \/ ClaimAttempt(r) \/ RecordAttempt(r)
        /\ UNCHANGED interviews \/ Ask(r)
BY DEF RunStep, ReadCards, ReadQuota, ChooseMissing, ClaimAttempt, ReadCard, TakePrint, Ask,
  InterviewFails, StoreCard, RecordAttempt, Compose, Publish, KillRun, RunOnly

\* What the world may write.
LEMMA WorldTouches ==
  ASSUME World
  PROVE /\ UNCHANGED <<run, interviews>>
        /\ UNCHANGED card \/ \E c \in Conversations : card' = [card EXCEPT ![c] = NoCard]
        /\ UNCHANGED turns \/ \E c \in Conversations : turns' = [turns EXCEPT ![c] = @ + 1]
        /\ \/ UNCHANGED <<attempt, untracks>>
           \/ \E c \in Conversations : Untrack(c)
        /\ UNCHANGED cycle \/ NextCycle
BY DEF World, Turn, Untrack, Track, Clear, NextCycle

\* A table of conversations and cycles with one entry written.
LEMMA EntryWritten ==
  ASSUME NEW S, NEW f \in [Conversations -> [Cycles -> S]], NEW c \in Conversations,
         NEW y \in Cycles, NEW v \in S
  PROVE /\ [f EXCEPT ![c][y] = v] \in [Conversations -> [Cycles -> S]]
        /\ \A d \in Conversations, z \in Cycles :
             [f EXCEPT ![c][y] = v][d][z] = IF d = c /\ z = y THEN v ELSE f[d][z]
<1>1. [f EXCEPT ![c][y] = v] = [f EXCEPT ![c] = [f[c] EXCEPT ![y] = v]]
  OBVIOUS
<1>2. [f[c] EXCEPT ![y] = v] \in [Cycles -> S]
  OBVIOUS
<1> QED BY <1>1, <1>2

\* The shapes are inductive.
LEMMA ExpertShapesStep ==
  ASSUME ExpertShapes, \A r \in Runs : About(r), [ExpertNext]_expertVars
  PROVE ExpertShapes' /\ \A r \in Runs : About(r)'
<1>1. CASE UNCHANGED expertVars
  BY <1>1 DEF expertVars, ExpertShapes, About
<1>2. CASE World
  <2>1. turns' \in [Conversations -> Nat]
    BY <1>2, WorldTouches DEF ExpertShapes
  <2>2. card' \in [Conversations -> CardRecord]
    <3>1. NoCard \in CardRecord
      BY DEF NoCard, CardRecord
    <3> QED BY <1>2, <3>1, WorldTouches DEF ExpertShapes
  <2>3. /\ attempt' \in [Conversations -> [Cycles -> Attempts]]
        /\ untracks' \in [Conversations -> Nat]
    <3>1. [y \in Cycles |-> "none"] \in [Cycles -> Attempts]
      BY DEF Attempts
    <3>2. ASSUME NEW c \in Conversations, Untrack(c)
          PROVE /\ attempt' \in [Conversations -> [Cycles -> Attempts]]
                /\ untracks' \in [Conversations -> Nat]
      <4>1. untracks' = [untracks EXCEPT ![c] = @ + 1]
            /\ attempt' = [attempt EXCEPT ![c] = [y \in Cycles |-> "none"]]
        BY <3>2 DEF Untrack
      <4>2. untracks' \in [Conversations -> Nat]
        BY <4>1 DEF ExpertShapes
      <4>3. attempt' \in [Conversations -> [Cycles -> Attempts]]
        BY <3>1, <4>1 DEF ExpertShapes
      <4> QED BY <4>2, <4>3
    <3> QED BY <1>2, <3>2, WorldTouches DEF ExpertShapes
  <2>4. cycle' \in Cycles
    BY <1>2, WorldTouches, ExpertConstants DEF ExpertShapes, NextCycle, Cycles
  <2>5. UNCHANGED <<run, interviews>>
    BY <1>2, WorldTouches
  <2> QED BY <2>1, <2>2, <2>3, <2>4, <2>5 DEF ExpertShapes, About
<1>3. ASSUME NEW r \in Runs, RunStep(r) PROVE ExpertShapes' /\ \A q \in Runs : About(q)'
  <2>1. /\ run'[r] \in RunRecord /\ run' = [run EXCEPT ![r] = run'[r]] /\ About(r)'
    BY <1>3, RunsBecome
  <2>2. run' \in [Runs -> RunRecord] /\ \A q \in Runs : About(q)'
    BY <2>1 DEF ExpertShapes, About
  <2>3. /\ run[r] \in RunRecord
        /\ run[r].at \in {"claim", "print", "ask", "answer", "refreshed", "failed", "publish"} =>
             Of(r) \in Conversations
    BY OfIs DEF ExpertShapes
  <2>4. card' \in [Conversations -> CardRecord]
    <3>1. CASE StoreCard(r)
      <4>1. Of(r) \in Conversations /\ run[r].card \in CardRecord /\ card[Of(r)] \in CardRecord
        BY <2>3, <3>1 DEF StoreCard, RunAt, RunRecord, ExpertShapes
      <4>2. Put(card[Of(r)], run[r].card) \in CardRecord
        BY <4>1, PutIsCard
      <4> QED BY <3>1, <4>1, <4>2 DEF StoreCard, ExpertShapes
    <3>2. CASE Publish(r)
      <4>1. Of(r) \in Conversations /\ run[r].card \in CardRecord /\ card[Of(r)] \in CardRecord
            /\ turns[Of(r)] \in Nat
        BY <2>3, <3>2 DEF Publish, RunAt, RunRecord, ExpertShapes
      <4>2. [run[r].card EXCEPT !.print = turns[Of(r)], !.attested = TRUE] \in CardRecord
        BY <4>1 DEF CardRecord
      <4>3. Put(card[Of(r)], [run[r].card EXCEPT !.print = turns[Of(r)], !.attested = TRUE])
              \in CardRecord
        BY <4>1, <4>2, PutIsCard
      <4> QED BY <3>2, <4>1, <4>3 DEF Publish, ExpertShapes
    <3> QED BY <1>3, <3>1, <3>2, RunsTouch DEF ExpertShapes
  <2>5. attempt' \in [Conversations -> [Cycles -> Attempts]]
    <3>1. ASSUME NEW v \in Attempts, Of(r) \in Conversations,
                 attempt' = [attempt EXCEPT ![Of(r)][run[r].cycle] = v]
          PROVE attempt' \in [Conversations -> [Cycles -> Attempts]]
      <4>1. run[r].cycle \in Cycles /\ attempt \in [Conversations -> [Cycles -> Attempts]]
        BY <2>3 DEF RunRecord, ExpertShapes
      <4> QED BY <3>1, <4>1, EntryWritten
    <3>2. {"STARTED", "REFRESHED", "FAILED"} \subseteq Attempts
      BY DEF Attempts
    <3>3. CASE ClaimAttempt(r)
      BY <2>3, <3>1, <3>2, <3>3 DEF ClaimAttempt, RunAt, ExpertShapes
    <3>4. CASE RecordAttempt(r)
      <4>1. PICK v \in {"REFRESHED", "FAILED"} :
              attempt' = [attempt EXCEPT ![Of(r)][run[r].cycle] = v]
        BY <3>4 DEF RecordAttempt
      <4> QED BY <2>3, <3>1, <3>2, <3>4, <4>1 DEF RecordAttempt
    <3> QED BY <1>3, <3>3, <3>4, RunsTouch DEF ExpertShapes
  <2>6. interviews' \in [Conversations -> [Cycles -> Nat]]
    <3>1. ASSUME Ask(r), interviews' # interviews
          PROVE interviews' \in [Conversations -> [Cycles -> Nat]]
      <4>1. Of(r) \in Conversations /\ run[r].cycle \in Cycles
            /\ interviews \in [Conversations -> [Cycles -> Nat]]
        BY <2>3, <3>1 DEF Ask, RunAt, RunRecord, ExpertShapes
      <4>2. interviews' = [interviews EXCEPT ![Of(r)][run[r].cycle] =
                             interviews[Of(r)][run[r].cycle] + 1]
        BY <3>1, <4>1 DEF Ask
      <4>3. interviews[Of(r)][run[r].cycle] + 1 \in Nat
        BY <4>1
      <4> QED BY <4>1, <4>2, <4>3, EntryWritten
    <3> QED BY <1>3, <3>1, RunsTouch DEF ExpertShapes
  <2> QED BY <1>3, <2>2, <2>4, <2>5, <2>6, RunsTouch DEF ExpertShapes
<1> QED BY <1>1, <1>2, <1>3, ExpertStepIsOf

-----------------------------------------------------------------------------
(* What an interview saw.                                                  *)

\* put_expert_profile keeps a card that saw no less than it claims.
LEMMA PutWitnessed ==
  ASSUME NEW old \in CardRecord, NEW new \in CardRecord,
         old.source = "interview" => Honest(old), Honest(new)
  PROVE Put(old, new).source = "interview" => Honest(Put(old, new))
<1>1. \A p \in Nat : Honest([new EXCEPT !.workPrint = p])
  BY DEF CardRecord, Honest
<1>2. \A seen \in {old.seen, new.seen} :
        new.attested \/ seen = new.seen =>
          Honest([old EXCEPT !.print = new.print, !.workPrint = new.print, !.seen = seen,
                             !.attested = new.attested])
  BY DEF CardRecord, Honest
<1>3. new.print \in Nat /\ old.workPrint \in Nat
  BY DEF CardRecord
<1> QED BY <1>1, <1>2, <1>3 DEF Put

\* What a run is about to store saw no less than it claims.
LEMMA ObservesStep ==
  ASSUME ExpertShapes, \A r \in Runs : About(r) /\ Observes(r), [ExpertNext]_expertVars
  PROVE \A r \in Runs : Observes(r)'
<1>1. CASE UNCHANGED expertVars
  BY <1>1 DEF expertVars, Observes, RunAt, Of
<1>2. \A r \in Runs : About(r)'
  BY ExpertShapesStep
<1>3. ASSUME NEW q \in Runs, run'[q] = run[q],
             \A c \in Conversations : turns[c] <= turns'[c]
      PROVE Observes(q)'
  <2>1. CASE RunAt(q, "ask")
    <3>1. Of(q) \in Conversations /\ run[q].of = {Of(q)} /\ run'[q].of = {Of(q)'}
      BY <1>2, <1>3, <2>1, OfIs DEF RunAt, About, Of
    <3>2. Of(q)' = Of(q)
      BY <1>3, <3>1
    <3>3. /\ run[q].card.print <= turns[Of(q)] /\ turns[Of(q)] <= turns'[Of(q)]
          /\ run[q].card.print \in Nat /\ turns[Of(q)] \in Nat /\ turns'[Of(q)] \in Nat
      BY <1>3, <2>1, <3>1, ExpertShapesStep
         DEF Observes, ExpertShapes, RunRecord, CardRecord
    <3> QED BY <1>3, <2>1, <3>2, <3>3 DEF Observes, RunAt
  <2>2. CASE ~RunAt(q, "ask")
    BY <1>3, <2>2 DEF Observes, RunAt
  <2> QED BY <2>1, <2>2
<1>4. CASE World
  <2>1. \A c \in Conversations : turns[c] <= turns'[c]
    BY <1>4, WorldTouches DEF ExpertShapes
  <2> QED BY <1>3, <1>4, <2>1, WorldTouches
<1>5. ASSUME NEW r \in Runs, RunStep(r), NEW q \in Runs PROVE Observes(q)'
  <2>1. \A c \in Conversations : turns[c] <= turns'[c]
    BY <1>5, RunsTouch DEF ExpertShapes
  <2>2. q # r => run'[q] = run[q]
    BY <1>5, RunsBecome DEF ExpertShapes
  <2>3. CASE TakePrint(r)
    <3>1. Of(r) \in Conversations /\ run[r].of = {Of(r)}
      BY <2>3, OfIs DEF TakePrint, RunAt
    <3>2. Becomes(r, "ask", run[r].of, run[r].cycle,
                  [NoCard EXCEPT !.source = "interview", !.print = turns[Of(r)]])
      BY <2>3, <3>1, TakePrintIs
    <3>3. /\ run'[r].at = "ask" /\ run'[r].of = {Of(r)}
          /\ run'[r].card = [NoCard EXCEPT !.source = "interview", !.print = turns[Of(r)]]
      BY <3>1, <3>2 DEF Becomes
    <3>4. run'[r].card.print = turns[Of(r)] /\ turns[Of(r)] \in Nat
      BY <3>1, <3>3 DEF NoCard, ExpertShapes
    <3>5. Of(r)' = Of(r)
      BY <3>1, <3>3 DEF Of
    <3>6. turns' = turns
      BY <1>5, RunsTouch
    <3>7. Observes(r)'
      BY <3>3, <3>4, <3>5, <3>6 DEF Observes, RunAt
    <3> QED BY <1>3, <2>1, <2>2, <3>7
  <2>4. CASE Ask(r)
    <3>1. Of(r) \in Conversations /\ RunAt(r, "ask")
      BY <2>4, OfIs DEF Ask, RunAt
    <3>2. PICK new \in CardRecord :
            /\ Becomes(r, "answer", run[r].of, run[r].cycle, new)
            /\ new.print = run[r].card.print /\ new.seen = turns[Of(r)]
      BY <2>4, <3>1, AskIs
    <3>3. run'[r].at = "answer" /\ run'[r].card = new
      BY <3>2 DEF Becomes
    <3>4. new.print <= new.seen
      BY <3>1, <3>2 DEF Observes
    <3>5. Observes(r)'
      BY <3>3, <3>4 DEF Observes, RunAt
    <3> QED BY <1>3, <2>1, <2>2, <3>5
  <2>5. CASE ~TakePrint(r) /\ ~Ask(r)
    <3>1. run'[r].at \notin {"ask", "answer"}
      <4>1. ASSUME NEW next \in RunSteps, GoTo(r, next) PROVE run'[r].at = next
        BY <4>1, GoToIs DEF Becomes
      <4>2. {"print", "done", "refreshed", "failed"} \subseteq RunSteps
        BY DEF RunSteps
      <4>3. CASE ReadCards(r) \/ ReadQuota(r) \/ ChooseMissing(r) \/ ReadCard(r) \/ Compose(r)
        BY <4>3, ReadCardsIs, ReadQuotaIs, ChooseMissingIs, ReadCardIs, ComposeIs DEF Becomes
      <4>4. CASE \/ ClaimAttempt(r) \/ InterviewFails(r) \/ StoreCard(r) \/ RecordAttempt(r)
                 \/ Publish(r) \/ KillRun(r)
        BY <4>1, <4>2, <4>4
           DEF ClaimAttempt, InterviewFails, StoreCard, RecordAttempt, Publish, KillRun
      <4> QED BY <1>5, <2>5, <4>3, <4>4 DEF RunStep
    <3>2. Observes(r)'
      BY <3>1 DEF Observes, RunAt
    <3> QED BY <1>3, <2>1, <2>2, <3>2
  <2> QED BY <2>3, <2>4, <2>5
<1> QED BY <1>1, <1>4, <1>5, ExpertStepIsOf

\* The stored cards saw no less than they claim.
LEMMA WitnessedStep ==
  ASSUME ExpertShapes, \A r \in Runs : About(r) /\ Observes(r),
         \A c \in Conversations : Witnessed(c), [ExpertNext]_expertVars
  PROVE \A c \in Conversations : Witnessed(c)'
<1>1. CASE UNCHANGED card
  BY <1>1 DEF Witnessed, Honest
<1>2. ASSUME NEW c \in Conversations, card' = [card EXCEPT ![c] = NoCard]
      PROVE \A d \in Conversations : Witnessed(d)'
  BY <1>2 DEF Witnessed, Honest, NoCard, ExpertShapes
<1>3. ASSUME NEW r \in Runs, NEW new \in CardRecord, Honest(new),
             Of(r) \in Conversations, card' = [card EXCEPT ![Of(r)] = Put(@, new)]
      PROVE \A d \in Conversations : Witnessed(d)'
  <2>1. card[Of(r)] \in CardRecord /\ Witnessed(Of(r))
    BY <1>3 DEF ExpertShapes
  <2>2. card'[Of(r)] = Put(card[Of(r)], new)
        /\ \A d \in Conversations : d # Of(r) => card'[d] = card[d]
    BY <1>3 DEF ExpertShapes
  <2>3. card'[Of(r)].source = "interview" => Honest(card'[Of(r)])
    BY <1>3, <2>1, <2>2, PutWitnessed DEF Witnessed
  <2> QED BY <2>2, <2>3 DEF Witnessed, Honest
<1>4. ASSUME NEW r \in Runs, StoreCard(r) PROVE \A d \in Conversations : Witnessed(d)'
  <2>1. /\ Of(r) \in Conversations /\ run[r].card \in CardRecord
        /\ run[r].card.print <= run[r].card.seen
    BY <1>4, OfIs DEF StoreCard, RunAt, Observes, ExpertShapes, RunRecord
  <2> QED BY <1>3, <1>4, <2>1 DEF StoreCard, Honest
<1>5. ASSUME NEW r \in Runs, Publish(r) PROVE \A d \in Conversations : Witnessed(d)'
  <2>1. Of(r) \in Conversations /\ run[r].card \in CardRecord /\ turns[Of(r)] \in Nat
    BY <1>5, OfIs DEF Publish, RunAt, ExpertShapes, RunRecord
  <2> DEFINE new == [run[r].card EXCEPT !.print = turns[Of(r)], !.attested = TRUE]
  <2>2. new \in CardRecord /\ Honest(new)
    BY <2>1 DEF CardRecord, Honest
  <2>3. card' = [card EXCEPT ![Of(r)] = Put(@, new)]
    BY <1>5 DEF Publish
  <2> HIDE DEF new
  <2> QED BY <1>3, <2>1, <2>2, <2>3
<1> QED BY <1>1, <1>2, <1>4, <1>5, ExpertStepIsOf, WorldTouches, RunsTouch DEF expertVars

-----------------------------------------------------------------------------
(* What an interview costs.                                                *)

\* The terms of the account are numbers.
LEMMA PaidNumbers ==
  ASSUME ExpertShapes, NEW c \in Conversations, NEW y \in Cycles
  PROVE interviews[c][y] \in Nat /\ untracks[c] \in Nat /\ Unclaimed(c, y) \in {0, 1}
BY DEF ExpertShapes, Unclaimed

\* Fewer that will ask, and nothing to claim that was claimed.
LEMMA PaidLess ==
  ASSUME ExpertShapes, ExpertShapes', NEW c \in Conversations, NEW y \in Cycles, Paid(c, y),
         Asking(c, y)' \subseteq Asking(c, y), interviews'[c][y] = interviews[c][y],
         Unclaimed(c, y)' <= Unclaimed(c, y), untracks'[c] = untracks[c]
  PROVE Paid(c, y)'
<1>1. /\ IsFiniteSet(Asking(c, y)') /\ Cardinality(Asking(c, y)') <= Cardinality(Asking(c, y))
      /\ Cardinality(Asking(c, y)) \in Nat /\ Cardinality(Asking(c, y)') \in Nat
  BY FS_Subset, FS_CardinalityType DEF Paid
<1>2. Unclaimed(c, y)' \in {0, 1}
  BY PaidNumbers DEF Unclaimed
<1> QED BY <1>1, <1>2, PaidNumbers DEF Paid

\* A run that does not start to ask.
LEMMA AskingLess ==
  ASSUME ExpertShapes, NEW r \in Runs, run' = [run EXCEPT ![r] = run'[r]],
         NEW c \in Conversations, NEW y \in Cycles,
         r \in Asking(c, y)' => r \in Asking(c, y)
  PROVE Asking(c, y)' \subseteq Asking(c, y)
<1>1. \A q \in Runs : q # r => run'[q] = run[q]
  BY DEF ExpertShapes
<1> QED BY <1>1 DEF Asking, Scheduled

\* Untracking allows one more.
LEMMA UntrackPaid ==
  ASSUME ExpertShapes, ExpertShapes', NEW c \in Conversations, Untrack(c),
         NEW d \in Conversations, NEW y \in Cycles, Paid(d, y)
  PROVE Paid(d, y)'
<1>1. Asking(d, y)' = Asking(d, y) /\ interviews' = interviews
  BY DEF Untrack, Asking, Scheduled
<1>2. CASE d # c
  <2>1. untracks'[d] = untracks[d] /\ attempt'[d] = attempt[d]
    BY <1>2 DEF Untrack, ExpertShapes
  <2>2. Unclaimed(d, y)' = Unclaimed(d, y)
    BY <2>1 DEF Unclaimed
  <2> QED BY <1>1, <2>1, <2>2, PaidLess, PaidNumbers
<1>3. CASE d = c
  <2>1. untracks'[d] = untracks[d] + 1
    BY <1>3 DEF Untrack, ExpertShapes
  <2>2. Unclaimed(d, y)' \in {0, 1}
    BY DEF Unclaimed
  <2>3. Cardinality(Asking(d, y)) \in Nat
    BY FS_CardinalityType DEF Paid
  <2> QED BY <1>1, <2>1, <2>2, <2>3, PaidNumbers DEF Paid
<1> QED BY <1>2, <1>3

\* The first claim takes the cycle's interview, for the run that made it.
LEMMA ClaimPaid ==
  ASSUME ExpertShapes, ExpertShapes', \A r \in Runs : About(r), NEW r \in Runs, ClaimAttempt(r),
         NEW d \in Conversations, NEW y \in Cycles, Paid(d, y)
  PROVE Paid(d, y)'
<1>1. Of(r) \in Conversations /\ run[r].of = {Of(r)} /\ run[r].cycle \in Cycles
  BY OfIs DEF ClaimAttempt, RunAt, ExpertShapes, RunRecord
<1>2. /\ run' = [run EXCEPT ![r] = run'[r]] /\ run'[r].of = {Of(r)}
      /\ run'[r].cycle = run[r].cycle /\ UNCHANGED <<interviews, untracks>>
      /\ run'[r].for = run[r].for
  <2>1. ASSUME NEW next \in {"print", "done"}, GoTo(r, next)
        PROVE Becomes(r, next, run[r].of, run[r].cycle, run[r].card)
    BY <2>1, GoToIs DEF RunSteps
  <2> QED BY <1>1, <2>1 DEF ClaimAttempt, Becomes
<1>3. CASE GoTo(r, "done") /\ UNCHANGED attempt
  <2>1. run'[r].at = "done"
    BY <1>3, GoToIs DEF Becomes, RunSteps
  <2>2. Asking(d, y)' \subseteq Asking(d, y)
    BY <1>2, <2>1, AskingLess DEF Asking
  <2> QED BY <1>2, <1>3, <2>2, PaidLess, PaidNumbers DEF Unclaimed
<1>4. CASE /\ attempt[Of(r)][run[r].cycle] = "none"
           /\ attempt' = [attempt EXCEPT ![Of(r)][run[r].cycle] = "STARTED"]
  <2>1. /\ attempt'[d][y] = IF d = Of(r) /\ y = run[r].cycle THEN "STARTED" ELSE attempt[d][y]
    <3>1. "STARTED" \in Attempts /\ attempt \in [Conversations -> [Cycles -> Attempts]]
      BY DEF Attempts, ExpertShapes
    <3> QED BY <1>1, <1>4, <3>1, EntryWritten
  <2>2. CASE d # Of(r) \/ y # run[r].cycle
    <3>1. Asking(d, y)' \subseteq Asking(d, y)
      BY <1>1, <1>2, <2>2, AskingLess DEF Asking
    <3>2. Unclaimed(d, y)' = Unclaimed(d, y)
      BY <2>1, <2>2 DEF Unclaimed
    <3> QED BY <1>2, <3>1, <3>2, PaidLess, PaidNumbers
  <2>3. CASE d = Of(r) /\ y = run[r].cycle
    <3>1. Unclaimed(d, y) = 1 /\ Unclaimed(d, y)' = 0
      BY <1>4, <2>1, <2>3 DEF Unclaimed
    <3>2. Asking(d, y)' \subseteq Asking(d, y) \union {r}
      BY <1>2 DEF Asking, Scheduled, ExpertShapes
    <3>3. /\ IsFiniteSet(Asking(d, y) \union {r})
          /\ Cardinality(Asking(d, y) \union {r}) <= Cardinality(Asking(d, y)) + 1
          /\ Cardinality(Asking(d, y)) \in Nat
      <4>1. IsFiniteSet(Asking(d, y)) /\ Cardinality(Asking(d, y)) \in Nat
        BY FS_CardinalityType DEF Paid
      <4>2. /\ IsFiniteSet(Asking(d, y) \union {r})
            /\ Cardinality(Asking(d, y) \union {r}) =
                 IF r \in Asking(d, y) THEN Cardinality(Asking(d, y))
                                       ELSE Cardinality(Asking(d, y)) + 1
        BY <4>1, FS_AddElement
      <4> QED BY <4>1, <4>2
    <3>4. /\ IsFiniteSet(Asking(d, y)') /\ Cardinality(Asking(d, y)') \in Nat
          /\ Cardinality(Asking(d, y)') <= Cardinality(Asking(d, y) \union {r})
      BY <3>2, <3>3, FS_Subset, FS_CardinalityType
    <3>5. Cardinality(Asking(d, y) \union {r}) \in Nat
      BY <3>3, FS_CardinalityType
    <3> QED BY <1>2, <3>1, <3>3, <3>4, <3>5, PaidNumbers DEF Paid
  <2> QED BY <2>2, <2>3
<1> QED BY <1>3, <1>4 DEF ClaimAttempt

\* The run that asks is one that claimed.
LEMMA AskPaid ==
  ASSUME ExpertShapes, ExpertShapes', \A r \in Runs : About(r), NEW r \in Runs, Ask(r),
         NEW d \in Conversations, NEW y \in Cycles, Paid(d, y)
  PROVE Paid(d, y)'
<1>1. /\ Of(r) \in Conversations /\ run[r].of = {Of(r)} /\ run[r].cycle \in Cycles
      /\ run[r].at = "ask"
  BY OfIs DEF Ask, RunAt, ExpertShapes, RunRecord
<1>2. /\ run' = [run EXCEPT ![r] = run'[r]] /\ run'[r].at = "answer"
      /\ UNCHANGED <<attempt, untracks>>
  BY <1>1, AskIs DEF Ask, Becomes
<1>3. Asking(d, y)' \subseteq Asking(d, y) \ {r}
  BY <1>2 DEF Asking, Scheduled, ExpertShapes
<1>4. CASE interviews'[d][y] = interviews[d][y]
  BY <1>2, <1>3, <1>4, PaidLess, PaidNumbers DEF Unclaimed
<1>5. CASE interviews'[d][y] # interviews[d][y]
  <2>1. /\ Scheduled(r)
        /\ interviews' = [interviews EXCEPT ![Of(r)][run[r].cycle] =
                             interviews[Of(r)][run[r].cycle] + 1]
    BY <1>1, <1>5 DEF Ask, ExpertShapes
  <2>2. interviews'[d][y] = IF d = Of(r) /\ y = run[r].cycle
                            THEN interviews[Of(r)][run[r].cycle] + 1 ELSE interviews[d][y]
    <3>1. interviews \in [Conversations -> [Cycles -> Nat]]
          /\ interviews[Of(r)][run[r].cycle] + 1 \in Nat
      BY <1>1 DEF ExpertShapes
    <3> QED BY <1>1, <2>1, <3>1, EntryWritten
  <2>3. d = Of(r) /\ y = run[r].cycle /\ interviews'[d][y] = interviews[d][y] + 1
    BY <1>5, <2>2
  <2>4. r \in Asking(d, y)
    BY <1>1, <2>1, <2>3 DEF Asking
  <2>5. /\ IsFiniteSet(Asking(d, y) \ {r}) /\ Cardinality(Asking(d, y)) \in Nat
        /\ Cardinality(Asking(d, y) \ {r}) = Cardinality(Asking(d, y)) - 1
    BY <2>4, FS_RemoveElement, FS_CardinalityType DEF Paid
  <2>6. /\ IsFiniteSet(Asking(d, y)') /\ Cardinality(Asking(d, y)') \in Nat
        /\ Cardinality(Asking(d, y)') <= Cardinality(Asking(d, y) \ {r})
    BY <1>3, <2>5, FS_Subset, FS_CardinalityType
  <2>7. Unclaimed(d, y)' = Unclaimed(d, y) /\ untracks'[d] = untracks[d]
    BY <1>2 DEF Unclaimed
  <2> QED BY <2>3, <2>5, <2>6, <2>7, PaidNumbers DEF Paid
<1> QED BY <1>4, <1>5

\* The account of interviews is inductive.
LEMMA PaidStep ==
  ASSUME ExpertShapes, \A r \in Runs : About(r), [ExpertNext]_expertVars,
         NEW d \in Conversations, NEW y \in Cycles, Paid(d, y)
  PROVE Paid(d, y)'
<1>1. ExpertShapes' /\ \A r \in Runs : About(r)'
  BY ExpertShapesStep
<1>2. CASE UNCHANGED <<run, attempt, interviews, untracks>>
  BY <1>2 DEF Paid, Asking, Scheduled, Unclaimed
<1>3. ASSUME NEW c \in Conversations, Untrack(c) PROVE Paid(d, y)'
  BY <1>1, <1>3, UntrackPaid
<1>4. ASSUME NEW r \in Runs, RunStep(r), ~ClaimAttempt(r), ~Ask(r) PROVE Paid(d, y)'
  <2>1. interviews' = interviews /\ untracks' = untracks
    BY <1>4, RunsTouch
  <2>2. Unclaimed(d, y)' <= Unclaimed(d, y)
    <3>1. CASE UNCHANGED attempt
      BY <3>1 DEF Unclaimed
    <3>2. CASE RecordAttempt(r)
      <4>1. Of(r) \in Conversations /\ run[r].cycle \in Cycles
            /\ attempt \in [Conversations -> [Cycles -> Attempts]]
        BY <3>2, OfIs DEF RecordAttempt, ExpertShapes, RunRecord
      <4>2. PICK v \in {"REFRESHED", "FAILED"} :
              attempt' = [attempt EXCEPT ![Of(r)][run[r].cycle] = v]
        BY <3>2 DEF RecordAttempt
      <4>3. attempt'[d][y] = IF d = Of(r) /\ y = run[r].cycle THEN v ELSE attempt[d][y]
        BY <4>1, <4>2, EntryWritten DEF Attempts
      <4>4. attempt'[d][y] = "none" => attempt[d][y] = "none"
        BY <4>2, <4>3
      <4> QED BY <4>4 DEF Unclaimed
    <3> QED BY <1>4, <3>1, <3>2, RunsTouch
  <2>3. r \in Asking(d, y)' => r \in Asking(d, y)
    <3>1. ASSUME NEW next \in {"done", "refreshed", "failed"}, GoTo(r, next)
          PROVE r \notin Asking(d, y)'
      BY <3>1, GoToIs DEF Becomes, RunSteps, Asking
    <3>2. CASE InterviewFails(r) \/ StoreCard(r) \/ RecordAttempt(r) \/ Publish(r) \/ KillRun(r)
      BY <3>1, <3>2 DEF InterviewFails, StoreCard, RecordAttempt, Publish, KillRun
    <3>3. CASE ReadCards(r) \/ ReadQuota(r) \/ ChooseMissing(r) \/ Compose(r)
      BY <3>3, ReadCardsIs, ReadQuotaIs, ChooseMissingIs, ComposeIs DEF Becomes, Asking
    <3>4. CASE ReadCard(r)
      BY <3>4, ReadCardIs DEF ReadCard, Becomes, Asking, Scheduled
    <3>5. CASE TakePrint(r)
      <4>1. Of(r) \in Conversations /\ run[r].at = "print"
        BY <3>5, OfIs DEF TakePrint, RunAt
      <4> QED BY <3>5, <4>1, TakePrintIs DEF Becomes, Asking, Scheduled
    <3> QED BY <1>4, <3>2, <3>3, <3>4, <3>5 DEF RunStep
  <2>4. Asking(d, y)' \subseteq Asking(d, y)
    BY <1>4, <2>3, RunsBecome, AskingLess
  <2> QED BY <1>1, <2>1, <2>2, <2>4, PaidLess
<1>5. ASSUME NEW r \in Runs, RunStep(r) PROVE Paid(d, y)'
  BY <1>1, <1>4, <1>5, ClaimPaid, AskPaid
<1> QED BY <1>2, <1>3, <1>5, ExpertStepIsOf, WorldTouches DEF expertVars

-----------------------------------------------------------------------------
(* The promises.                                                           *)

\* The inductive invariant holds at first.
LEMMA ExpertInvInit == ExpertInit => ExpertInv
<1> SUFFICES ASSUME ExpertInit PROVE ExpertInv
  OBVIOUS
<1> USE DEF ExpertInit
<1>1. NoCard \in CardRecord /\ 1 \in Cycles /\ "none" \in Attempts
  BY ExpertConstants DEF NoCard, CardRecord, Cycles, Attempts
<1>2. PICK purpose \in [Runs -> Purposes] :
        run = [r \in Runs |-> [at |-> "idle", for |-> purpose[r], missing |-> {}, of |-> {},
                              cycle |-> 1, card |-> NoCard]]
  OBVIOUS
<1>3. run \in [Runs -> RunRecord]
  BY <1>1, <1>2 DEF RunRecord, RunSteps
<1>4. ExpertShapes
  BY <1>1, <1>3 DEF ExpertShapes
<1>5. \A r \in Runs : run[r].at = "idle"
  BY <1>2
<1>6. \A r \in Runs : About(r) /\ Observes(r)
  BY <1>5 DEF About, Observes, RunAt
<1>7. \A c \in Conversations, y \in Cycles : Paid(c, y)
  <2> SUFFICES ASSUME NEW c \in Conversations, NEW y \in Cycles PROVE Paid(c, y)
    OBVIOUS
  <2>1. Asking(c, y) = {}
    BY <1>5 DEF Asking
  <2> QED BY <2>1, FS_EmptySet DEF Paid, Unclaimed
<1>8. \A c \in Conversations : Witnessed(c)
  BY DEF Witnessed, NoCard
<1> QED BY <1>4, <1>6, <1>7, <1>8 DEF ExpertInv

\* The inductive invariant holds throughout.
LEMMA ExpertInvAlways == ExpertSpec => []ExpertInv
<1>1. ExpertInv /\ [ExpertNext]_expertVars => ExpertInv'
  BY ExpertShapesStep, ObservesStep, WitnessedStep, PaidStep DEF ExpertInv
<1> QED BY <1>1, ExpertInvInit, PTL DEF ExpertSpec

\* claim_expert_refresh_attempt reserves the interview before quota is spent:
\* however many timers fire, fail or die, a conversation is interviewed once in
\* a cycle, and once more for each time it was untracked.
THEOREM AttemptedOnceAlways == ExpertSpec => []AttemptedOnce
<1>1. ExpertInv => AttemptedOnce
  <2> SUFFICES ASSUME ExpertInv, NEW c \in Conversations, NEW y \in Cycles
               PROVE interviews[c][y] <= 1 + untracks[c]
    BY DEF AttemptedOnce
  <2>1. Paid(c, y) /\ Cardinality(Asking(c, y)) \in Nat
    BY FS_CardinalityType DEF ExpertInv, Paid
  <2> QED BY <2>1, PaidNumbers DEF ExpertInv, Paid
<1> QED BY <1>1, ExpertInvAlways, PTL

\* The print is taken before the model reads, and stored with its answer
\* (refresh_selected, put_expert_profile): what an interview wrote is current
\* for no turn that it has not seen, whatever was written in between, until the
\* conversation's agent updates it under a print of its own (publish_current_work).
THEOREM ClaimsWhatItSawAlways == ExpertSpec => []ClaimsWhatItSaw
<1>1. ExpertInv => ClaimsWhatItSaw
  BY DEF ExpertInv, Witnessed, Honest, ClaimsWhatItSaw
<1> QED BY <1>1, ExpertInvAlways, PTL

-----------------------------------------------------------------------------
(* Reviews of memory: what a call sent keeps its claim and its charge.         *)

Working == {"reserve", "begin", "charge", "claim", "spawn", "running", "joining", "release",
            "releaseLife", "unclaim", "account", "accountLife", "checkpoint", "commit", "settle"}
DriverPlaces == Working \union {"stopped", "unavailable", "recover", "due", "prepare", "link", "idle"}
Results == {"none", "completed", "failed", "unknown"}
DriverRecord == [at : DriverPlaces, job : SUBSET Records, root : Roots \union {0}, epoch : Nat,
                 config : Nat, result : Results, back : {"recover", "admit", "spawn", "finish"}]
WorkerRecord == [at : {"open", "begin", "child", "dispatch", "withdraw", "deny", "flight",
                       "reply", "ended"},
                 epoch : Nat, stop : BOOLEAN, result : {"none", "completed", "failed"}]
ChargeRecord == [root : Results \union {"reserved", "released"},
                 child : Results \union {"reserved", "dispatched", "released"},
                 life : Results \union {"reserved", "dispatched", "abandoned"},
                 confirmed : {-1, 0, 1}, recovered : BOOLEAN]
RowRecord == [state : {"none", "claimed", "received", "completed", "failed", "unknown",
                       "invalidated"},
              epoch : Nat, config : Nat, result : BOOLEAN]
SignalRecord == [cursor : Nat, target : Nat, pending : SUBSET Records]
ConfigRecord == [revision : Nat, enabled : BOOLEAN, approved : BOOLEAN]

MaintenanceShapes ==
  /\ epoch \in Nat
  /\ config \in ConfigRecord
  /\ signal \in SignalRecord
  /\ jobRow \in [JobIds -> RowRecord]
  /\ driverRoot \in [JobIds -> [root : Roots \union {0}, settled : BOOLEAN]]
  /\ charge \in [Roots -> ChargeRecord]
  /\ driver \in DriverRecord
  /\ worker \in WorkerRecord
  /\ sentIn \in [Roots -> SUBSET Records]

HasRow(j) == jobRow[j].state # "none"

\* The driver at work has a job and the call that is linked to it.
Linked ==
  /\ At("link") => Assigned \in JobIds /\ ~HasRow(Assigned)
  /\ driver.at \in Working => Assigned \in JobIds /\ Root \in Roots /\ driverRoot[Assigned].root = Root
  /\ \A j \in JobIds : ~driverRoot[j].settled => driverRoot[j].root \in Roots

\* A call that no lifecycle row knows has not been used.
Unused ==
  \A r \in Roots : charge[r].life = "none" =>
    charge[r].root = "none" /\ charge[r].child = "none" /\ charge[r].confirmed = -1

\* How far the call has come, by the place of the driver.
CallFits ==
  /\ driver.at \in {"reserve", "begin", "charge", "claim", "spawn"} => charge[Root].child = "none"
  /\ driver.at \in {"reserve", "begin", "charge", "claim", "spawn", "running", "joining"} =>
       charge[Root].confirmed = -1
  /\ driver.at \in {"begin", "charge", "release", "releaseLife"} => charge[Root].life # "none"
  /\ driver.at \in {"claim", "spawn", "running", "joining"} => charge[Root].root = "reserved"
  /\ driver.at \in {"release", "releaseLife", "unclaim"} => sentIn[Root] = {}
  /\ driver.at \in {"account", "accountLife"} => driver.result # "none"
  /\ driver.at \in {"spawn", "running", "joining"} => HasRow(Assigned)

\* How far the child has come, by the place of the worker.
WorkerFits ==
  /\ worker.at # "ended" => driver.at \in {"running", "joining"}
  /\ worker.at \in {"open", "begin", "child"} => charge[Root].child = "none"
  /\ worker.at \in {"dispatch", "withdraw"} => charge[Root].child = "reserved"

\* What was sent has a child that says so, a claim, and a charge.
SentIsKnown ==
  \A r \in Roots : sentIn[r] # {} =>
    /\ charge[r].child \in {"dispatched", "unknown", "completed", "failed"}
    /\ sentIn[r] \in JobIds /\ HasRow(sentIn[r]) /\ driverRoot[sentIn[r]].root = r

ClaimsApart ==
  \A j, k \in JobIds : HasRow(j) /\ HasRow(k) /\ j # k => j \intersect k = {}

\* The account of the reviews.
ReviewInv ==
  MaintenanceShapes /\ Linked /\ Unused /\ CallFits /\ WorkerFits /\ SentIsKnown /\ SentIsCharged
    /\ ClaimsApart

-----------------------------------------------------------------------------
(* Smallest members, and records.                                            *)

\* A nonempty set of numbers has a least one.
LEMMA LeastOf ==
  ASSUME NEW S, S \subseteq Nat, S # {}
  PROVE  Min(S) \in S /\ \A n \in S : Min(S) <= n
<1>1. PICK least \in S : \A n \in S : ~(<<n, least>> \in OpToRel(<, Nat))
  BY NatLessThanWellFounded, WFMin
<1>2. ASSUME NEW n \in S, n < least  PROVE FALSE
  <2>1. <<n, least>> \in Nat \X Nat
    OBVIOUS
  <2>2. <<n, least>> \in OpToRel(<, Nat)
    BY <2>1, <1>2, Zenon DEF OpToRel
  <2> QED BY <2>2, <1>1
<1>3. \A n \in S : least <= n
  BY <1>2
<1> QED BY <1>3 DEF Min

\* A nonempty set of numbers below a bound has a greatest one.
LEMMA GreatestOf ==
  ASSUME NEW bound \in Nat, NEW S, S \subseteq 0..bound, S # {}
  PROVE  Max(S) \in S /\ \A n \in S : n <= Max(S)
<1> DEFINE Mirror == {bound - n : n \in S}
<1>1. Mirror \subseteq Nat /\ Mirror # {}
  <2>1. \A n \in S : bound - n \in Nat
    OBVIOUS
  <2> QED BY <2>1
<1>2. Min(Mirror) \in Mirror /\ \A m \in Mirror : Min(Mirror) <= m
  BY <1>1, LeastOf
<1>3. PICK top \in S : Min(Mirror) = bound - top
  BY <1>2
<1>4. ASSUME NEW n \in S  PROVE top >= n
  <2>1. bound - top <= bound - n
    BY <1>2, <1>3
  <2> QED BY <2>1
<1> QED BY <1>4 DEF Max

\* The same jobs have claimed.
RowsStay == \A j \in JobIds : HasRow(j)' <=> HasRow(j)
\* Children whose dispatch may have happened.
Sent == {"dispatched", "unknown", "completed", "failed"}

\* Each part of the invariant reads only some of the variables.
LEMMA Untouched ==
  ASSUME ReviewInv
  PROVE  /\ UNCHANGED <<driver, jobRow, driverRoot>> => Linked'
         /\ UNCHANGED charge => Unused'
         /\ UNCHANGED <<driver, charge, sentIn, jobRow>> => CallFits'
         /\ UNCHANGED <<worker, driver, charge>> => WorkerFits'
         /\ UNCHANGED <<sentIn, charge, driverRoot>> /\ RowsStay => SentIsKnown'
         /\ UNCHANGED <<sentIn, charge>> => SentIsCharged'
         /\ RowsStay => ClaimsApart'
         /\ UNCHANGED jobRow => RowsStay
<1>1. UNCHANGED <<driver, jobRow, driverRoot>> => Linked'
  BY DEF ReviewInv, Linked, HasRow, At, Assigned, Root
<1>2. UNCHANGED charge => Unused'
  BY DEF ReviewInv, Unused
<1>3. UNCHANGED <<driver, charge, sentIn, jobRow>> => CallFits'
  BY DEF ReviewInv, CallFits, HasRow, Root, Assigned
<1>4. UNCHANGED <<worker, driver, charge>> => WorkerFits'
  BY DEF ReviewInv, WorkerFits, Root
<1>5. UNCHANGED <<sentIn, charge, driverRoot>> /\ RowsStay => SentIsKnown'
  BY DEF ReviewInv, SentIsKnown, HasRow, RowsStay
<1>6. UNCHANGED <<sentIn, charge>> => SentIsCharged'
  BY DEF ReviewInv, SentIsCharged
<1>7. RowsStay => ClaimsApart'
  BY DEF ReviewInv, ClaimsApart, HasRow, RowsStay
<1>8. UNCHANGED jobRow => RowsStay
  BY DEF RowsStay, HasRow
<1> QED BY <1>1, <1>2, <1>3, <1>4, <1>5, <1>6, <1>7, <1>8

\* The job and the call of a driver at work.
LEMMA AtWork ==
  ASSUME ReviewInv, driver.at \in Working
  PROVE  /\ Assigned \in JobIds /\ Root \in Roots /\ driverRoot[Assigned].root = Root
         /\ charge[Root] \in ChargeRecord
BY DEF ReviewInv, Linked, MaintenanceShapes

\* What a change of one call in the ledgers must not take back.
LEMMA OneCall ==
  ASSUME ReviewInv, NEW r \in Roots, NEW new \in ChargeRecord, charge' = [charge EXCEPT ![r] = new]
  PROVE  /\ charge' \in [Roots -> ChargeRecord]
         /\ charge'[r] = new
         /\ \A q \in Roots : q # r => charge'[q] = charge[q]
         /\ (new.life # "none" \/ new = charge[r]) => Unused'
         /\ UNCHANGED sentIn /\ (sentIn[r] # {} => new.root # "released" /\ new.confirmed # 0)
              => SentIsCharged'
         /\ UNCHANGED <<sentIn, driverRoot>> /\ RowsStay /\ (sentIn[r] # {} => new.child \in Sent)
              => SentIsKnown'
<1>1. /\ charge' \in [Roots -> ChargeRecord]
      /\ charge'[r] = new
      /\ \A q \in Roots : q # r => charge'[q] = charge[q]
  BY DEF ReviewInv, MaintenanceShapes
<1>2. (new.life # "none" \/ new = charge[r]) => Unused'
  BY <1>1 DEF ReviewInv, Unused
<1>3. UNCHANGED sentIn /\ (sentIn[r] # {} => new.root # "released" /\ new.confirmed # 0)
        => SentIsCharged'
  BY <1>1 DEF ReviewInv, SentIsCharged
<1>4. UNCHANGED <<sentIn, driverRoot>> /\ RowsStay /\ (sentIn[r] # {} => new.child \in Sent)
        => SentIsKnown'
  BY <1>1 DEF ReviewInv, SentIsKnown, HasRow, RowsStay, Sent
<1> QED BY <1>1, <1>2, <1>3, <1>4

\* The driver goes on and changes nothing else of its record.
LEMMA Moves ==
  ASSUME ReviewInv, NEW next \in DriverPlaces, To(next)
  PROVE  /\ driver' \in DriverRecord /\ driver'.at = next
         /\ Assigned' = Assigned /\ Root' = Root /\ driver'.result = driver.result
BY DEF ReviewInv, MaintenanceShapes, DriverRecord, To, Assigned, Root

\* A driver without a job.
LEMMA Rests ==
  ASSUME ReviewInv, NEW place \in DriverPlaces \ (Working \union {"link"}), driver' = Driver(place)
  PROVE  /\ driver' \in DriverRecord /\ driver'.at = place
         /\ UNCHANGED driverRoot => Linked'
         /\ CallFits'
         /\ UNCHANGED worker /\ driver.at \notin {"running", "joining"} => WorkerFits'
<1>1. driver' \in DriverRecord /\ driver'.at = place
  BY DEF Driver, DriverRecord, Results
<1>2. place \notin Working /\ place # "link"
  OBVIOUS
<1>3. UNCHANGED driverRoot => Linked'
  BY <1>1, <1>2 DEF ReviewInv, Linked, At
<1>4. CallFits'
  BY <1>1, <1>2 DEF CallFits, Working
<1>5. UNCHANGED worker /\ driver.at \notin {"running", "joining"} => WorkerFits'
  BY DEF ReviewInv, WorkerFits
<1> QED BY <1>1, <1>3, <1>4, <1>5

\* The driver goes on with its job.
LEMMA Works ==
  ASSUME ReviewInv, driver.at \in Working \ {"running", "joining"}, NEW next \in Working, To(next),
         UNCHANGED driverRoot
  PROVE  /\ driver' \in DriverRecord /\ driver'.at = next
         /\ Assigned' = Assigned /\ Root' = Root /\ driver'.result = driver.result
         /\ Linked'
         /\ UNCHANGED worker => WorkerFits'
<1>1. /\ driver' \in DriverRecord /\ driver'.at = next
      /\ Assigned' = Assigned /\ Root' = Root /\ driver'.result = driver.result
  BY Moves DEF DriverPlaces
<1>2. next # "link"
  BY DEF Working
<1>3. Linked'
  BY <1>1, <1>2, AtWork DEF ReviewInv, Linked, At
<1>4. UNCHANGED worker => WorkerFits'
  BY DEF ReviewInv, WorkerFits
<1> QED BY <1>1, <1>3, <1>4

\* The last record appended.
LEMMA LatestIs ==
  /\ Latest \in Nat
  /\ \A n \in Records : record[n].state # "none" => n <= Latest
  /\ Latest # 0 => Latest \in Records /\ record[Latest].state # "none"
<1> DEFINE all == {n \in Records : record[n].state # "none"} \union {0}
<1>1. MaxRecords \in Nat /\ all \subseteq 0..MaxRecords /\ all # {}
  BY MaintenanceConstants DEF Records
<1>2. Max(all) \in all /\ \A n \in all : n <= Max(all)
  BY <1>1, GreatestOf
<1> QED BY <1>1, <1>2 DEF Latest, MaxOf

\* Steps that touch neither a claim nor a call.
LEMMA QuietStepsKeepReviews ==
  ASSUME ReviewInv, AppendRecord \/ CleanJournal \/ CleanOwner \/ ForegroundArrives
  PROVE  ReviewInv'
<1>1. UNCHANGED <<epoch, signal, jobRow, driverRoot, charge, driver, worker, sentIn>>
  BY DEF AppendRecord, CleanJournal, CleanOwner, ForegroundArrives, memoryStore, history
<1>2. config' \in ConfigRecord
  BY DEF ReviewInv, MaintenanceShapes, AppendRecord, CleanJournal, CleanOwner, ForegroundArrives,
         owner, ConfigRecord
<1> QED BY <1>1, <1>2, Untouched DEF ReviewInv, MaintenanceShapes

\* The driver gives its job up before the call.
LEMMA Settles ==
  ASSUME ReviewInv, driver.at \in Working \ {"running", "joining"}, To("settle"),
         UNCHANGED <<epoch, config, signal, jobRow, driverRoot, charge, worker, sentIn>>
  PROVE  ReviewInv'
<1>1. driver' \in DriverRecord /\ driver'.at = "settle" /\ Linked' /\ WorkerFits'
  BY Works DEF Working
<1>2. CallFits'
  BY <1>1 DEF CallFits
<1> QED BY <1>1, <1>2, Untouched DEF ReviewInv, MaintenanceShapes

\* The driver leaves its job to recovery.
LEMMA Bails ==
  ASSUME ReviewInv, driver.at \notin {"running", "joining"},
         driver' \in {Driver(place) : place \in DriverPlaces \ (Working \union {"link"})},
         UNCHANGED <<epoch, config, signal, jobRow, driverRoot, charge, worker, sentIn>>
  PROVE  ReviewInv'
<1>1. driver' \in DriverRecord /\ Linked' /\ CallFits' /\ WorkerFits'
  BY Rests
<1> QED BY <1>1, Untouched DEF ReviewInv, MaintenanceShapes

\* Steps of the driver between two jobs, and what it leaves to recovery.
LEMMA RestsKeepReviews ==
  ASSUME ReviewInv, StartDriver \/ Tick \/ GiveWay \/ WriteFails  PROVE ReviewInv'
<1>1. /\ UNCHANGED <<epoch, config, signal, jobRow, driverRoot, charge, worker, sentIn>>
      /\ driver.at \notin {"running", "joining"}
      /\ driver' \in {Driver("recover"), Driver("stopped"), Driver("idle")}
  BY DEF StartDriver, Tick, GiveWay, WriteFails, DriverOnly, memoryStore, owner, history, At, Rest
<1> QED BY <1>1, Bails DEF DriverPlaces, Working

\* Forgetting invalidates jobs and withdraws no claim.
LEMMA ForgetKeepsReviews ==
  ASSUME ReviewInv, Forget  PROVE ReviewInv' /\ RowsStay
<1>1. UNCHANGED <<config, signal, driverRoot, charge, driver, worker, sentIn>> /\ epoch' = epoch + 1
  BY DEF Forget, owner
<1>2. jobRow' = [j \in JobIds |->
        IF jobRow[j].state = "none" THEN NoRow
        ELSE [jobRow[j] EXCEPT !.result = FALSE,
                               !.state = IF @ = "completed" THEN @ ELSE "invalidated"]]
  BY DEF Forget
<1>3. ASSUME NEW j \in JobIds
      PROVE  jobRow'[j] \in RowRecord /\ (HasRow(j)' <=> HasRow(j))
  BY <1>2 DEF ReviewInv, MaintenanceShapes, RowRecord, NoRow, HasRow
<1>4. jobRow' \in [JobIds -> RowRecord]
  BY <1>2, <1>3
<1>5. RowsStay
  BY <1>3 DEF RowsStay
<1>6. MaintenanceShapes'
  BY <1>1, <1>4 DEF ReviewInv, MaintenanceShapes
<1>7. Linked' /\ CallFits'
  BY <1>1, <1>5 DEF ReviewInv, Linked, CallFits, Working, RowsStay, At, Assigned, Root
<1> QED BY <1>1, <1>5, <1>6, <1>7, Untouched DEF ReviewInv

\* The approval and the cadence.
LEMMA ConfigureKeepsReviews ==
  ASSUME ReviewInv, Configure  PROVE ReviewInv'
<1>1. UNCHANGED <<epoch, jobRow, driverRoot, charge, driver, worker, sentIn>>
  BY DEF Configure, history, journalStore
<1>2. Latest \in Nat
  BY LatestIs
<1>3. config' \in ConfigRecord
  BY DEF ReviewInv, MaintenanceShapes, Configure, owner, ConfigRecord
<1>4. signal' \in SignalRecord
  BY <1>2 DEF ReviewInv, MaintenanceShapes, Configure, SignalRecord
<1>5. MaintenanceShapes'
  BY <1>1, <1>3, <1>4 DEF ReviewInv, MaintenanceShapes
<1> QED BY <1>1, <1>5, Untouched DEF ReviewInv

\* A signal moves the target alone.
LEMMA SignalKeepsReviews ==
  ASSUME ReviewInv, Signal  PROVE ReviewInv'
<1>1. UNCHANGED <<epoch, jobRow, driverRoot, charge, driver, worker, sentIn>>
  BY DEF Signal, owner, history, journalStore
<1>2. Latest \in Nat
  BY LatestIs
<1>3. config' \in ConfigRecord
  BY DEF ReviewInv, MaintenanceShapes, Signal, owner, ConfigRecord
<1>4. signal' \in SignalRecord
  BY <1>2 DEF ReviewInv, MaintenanceShapes, Signal, SignalRecord
<1>5. MaintenanceShapes'
  BY <1>1, <1>3, <1>4 DEF ReviewInv, MaintenanceShapes
<1> QED BY <1>1, <1>5, Untouched DEF ReviewInv

\* Recovery makes unknown what is open, and what was sent stays known as sent.
LEMMA FreshContextKeepsReviews ==
  ASSUME ReviewInv, FreshContext  PROVE ReviewInv'
<1>1. /\ UNCHANGED <<epoch, config, signal, jobRow, driverRoot, driver, worker, sentIn>>
      /\ driver.at = "stopped"
  BY DEF FreshContext, memoryStore, history, At
<1>2. charge' = [r \in Roots |-> charge'[r]]
  BY DEF FreshContext
<1>3. ASSUME NEW r \in Roots
      PROVE  /\ charge'[r] \in ChargeRecord
             /\ charge'[r].root = charge[r].root /\ charge'[r].life = charge[r].life
             /\ charge'[r].confirmed = charge[r].confirmed
             /\ charge'[r].child = charge[r].child
                  \/ (charge[r].child \in {"reserved", "dispatched"} /\ charge'[r].child = "unknown")
  <2> DEFINE child == IF turn[r] \in {"reserved", "in_flight", "unknown"}
                          /\ charge[r].child \in {"reserved", "dispatched"}
                      THEN "unknown" ELSE charge[r].child
             seen == charge[r].recovered \/ "unknown" \in {charge[r].root, child, charge[r].life}
  <2>1. charge'[r] = [charge[r] EXCEPT !.child = child, !.recovered = seen]
    BY DEF FreshContext
  <2>2. charge[r] \in ChargeRecord
    BY DEF ReviewInv, MaintenanceShapes
  <2>3. seen \in BOOLEAN /\ child \in Results \union {"reserved", "dispatched", "released"}
    BY <2>2 DEF ChargeRecord, Results
  <2>4. child = charge[r].child
          \/ (charge[r].child \in {"reserved", "dispatched"} /\ child = "unknown")
    BY <2>2 DEF ChargeRecord
  <2> HIDE DEF child, seen
  <2> QED BY <2>1, <2>2, <2>3, <2>4 DEF ChargeRecord
<1>4. MaintenanceShapes'
  BY <1>1, <1>2, <1>3 DEF ReviewInv, MaintenanceShapes
<1>5. Unused' /\ SentIsCharged'
  BY <1>1, <1>3 DEF ReviewInv, Unused, SentIsCharged
<1>6. CallFits' /\ WorkerFits'
  BY <1>1 DEF ReviewInv, CallFits, WorkerFits
<1>7. SentIsKnown'
  BY <1>1, <1>3 DEF ReviewInv, SentIsKnown, HasRow
<1> QED BY <1>1, <1>4, <1>5, <1>6, <1>7, Untouched DEF ReviewInv

\* The dead host leaves no driver and no worker, and its calls in the ledgers.
LEMMA HostDiesKeepsReviews ==
  ASSUME ReviewInv, HostDies  PROVE ReviewInv'
<1>1. /\ UNCHANGED <<epoch, config, signal, jobRow, driverRoot, sentIn>>
      /\ driver' = Driver("stopped") /\ worker' = NoWorker
  BY DEF HostDies, memoryStore, owner
<1>2. charge' = [r \in Roots |-> charge'[r]]
  BY DEF HostDies
<1>3. ASSUME NEW r \in Roots
      PROVE  /\ charge'[r] \in ChargeRecord
             /\ charge'[r].root = charge[r].root /\ charge'[r].child = charge[r].child
             /\ charge'[r].confirmed = charge[r].confirmed
             /\ charge'[r].life = "none" <=> charge[r].life = "none"
  <2> DEFINE life == CASE charge[r].life = "reserved" -> "abandoned"
                       [] charge[r].life = "dispatched" -> "unknown" [] OTHER -> charge[r].life
  <2>1. charge'[r] = [charge[r] EXCEPT !.life = life]
    BY DEF HostDies
  <2>2. charge[r] \in ChargeRecord
    BY DEF ReviewInv, MaintenanceShapes
  <2>3. /\ life \in Results \union {"reserved", "dispatched", "abandoned"}
        /\ life = "none" <=> charge[r].life = "none"
    BY <2>2 DEF ChargeRecord, Results
  <2> HIDE DEF life
  <2> QED BY <2>1, <2>2, <2>3 DEF ChargeRecord
<1>4. driver' \in DriverRecord /\ Linked' /\ CallFits' /\ driver'.at = "stopped"
  BY <1>1, Rests DEF DriverPlaces, Working
<1>5. worker' \in WorkerRecord /\ WorkerFits'
  BY <1>1 DEF NoWorker, WorkerRecord, WorkerFits
<1>6. MaintenanceShapes'
  BY <1>1, <1>2, <1>3, <1>4, <1>5 DEF ReviewInv, MaintenanceShapes
<1>7. Unused' /\ SentIsCharged'
  BY <1>1, <1>3 DEF ReviewInv, Unused, SentIsCharged
<1>8. SentIsKnown'
  BY <1>1, <1>3 DEF ReviewInv, SentIsKnown, HasRow
<1> QED BY <1>1, <1>4, <1>5, <1>6, <1>7, <1>8, Untouched DEF ReviewInv

\* Recovery releases only a call whose child was never dispatched.
LEMMA RecoverRootKeepsReviews ==
  ASSUME ReviewInv, RecoverRoot  PROVE ReviewInv' /\ RowsStay
<1>1. /\ UNCHANGED <<epoch, config, signal, driverRoot, charge, worker, sentIn>>
      /\ driver.at = "recover"
  BY DEF RecoverRoot, MemoryOnly, owner, history, At
<1>2. PICK j \in JobIds : LET r == driverRoot[j].root IN
        /\ ~driverRoot[j].settled
        /\ \/ /\ driver' = [driver EXCEPT !.job = j, !.root = r, !.back = "recover", !.result = "none",
                                          !.at = IF CanRelease(r) THEN "release" ELSE "settle"]
              /\ UNCHANGED jobRow
           \/ /\ driver' = [driver EXCEPT !.job = j, !.root = r, !.back = "recover", !.at = "account",
                                          !.result = IF HasReply(r) THEN "completed" ELSE "unknown"]
              /\ jobRow' = IF HasReply(r) /\ Checkpointable(j) THEN Received(j) ELSE jobRow
  BY DEF RecoverRoot, ReviewInv, MaintenanceShapes, DriverRecord
<1> DEFINE r == driverRoot[j].root
<1>3. r \in Roots /\ charge[r] \in ChargeRecord /\ j \in SUBSET Records
  BY <1>2 DEF ReviewInv, Linked, MaintenanceShapes, JobIds
<1>4. jobRow' \in [JobIds -> RowRecord] /\ RowsStay
  <2>1. CASE UNCHANGED jobRow
    BY <2>1, Untouched DEF ReviewInv, MaintenanceShapes
  <2>2. CASE Checkpointable(j) /\ jobRow' = Received(j)
    BY <2>2 DEF ReviewInv, MaintenanceShapes, RowRecord, Checkpointable, Received, RowsStay, HasRow
  <2> QED BY <1>2, <2>1, <2>2
<1>5. CanRelease(r) => sentIn[r] = {} /\ charge[r].life # "none"
  BY <1>3 DEF ReviewInv, SentIsKnown, Unused, CanRelease, ChildReleased
<1>6. /\ driver' \in DriverRecord /\ Assigned' = j /\ Root' = r
      /\ driver'.at \in {"release", "settle", "account"}
      /\ driver'.at = "release" => CanRelease(r)
      /\ driver'.at = "account" => driver'.result # "none"
  <2> HIDE DEF r
  <2>1. driver \in DriverRecord
    BY DEF ReviewInv, MaintenanceShapes
  <2>2. CASE driver' = [driver EXCEPT !.job = j, !.root = r, !.back = "recover", !.result = "none",
                                      !.at = IF CanRelease(r) THEN "release" ELSE "settle"]
    BY <1>3, <2>1, <2>2 DEF DriverRecord, DriverPlaces, Working, Results, Assigned, Root
  <2>3. CASE driver' = [driver EXCEPT !.job = j, !.root = r, !.back = "recover", !.at = "account",
                                      !.result = IF HasReply(r) THEN "completed" ELSE "unknown"]
    BY <1>3, <2>1, <2>3 DEF DriverRecord, DriverPlaces, Working, Results, Assigned, Root
  <2> QED BY <1>2, <2>2, <2>3 DEF r
<1>7. Linked' /\ WorkerFits'
  BY <1>1, <1>3, <1>6 DEF ReviewInv, Linked, WorkerFits, At
<1>8. CallFits'
  BY <1>1, <1>5, <1>6 DEF CallFits
<1> QED BY <1>1, <1>4, <1>6, <1>7, <1>8, Untouched DEF ReviewInv, MaintenanceShapes

\* Recovery judges jobs and withdraws no claim.
LEMMA RecoverJobsKeepsReviews ==
  ASSUME ReviewInv, RecoverJobs  PROVE ReviewInv' /\ RowsStay
<1>1. /\ UNCHANGED <<epoch, config, signal, driverRoot, charge, worker, sentIn>>
      /\ driver.at = "recover" /\ driver' = Driver("due")
  BY DEF RecoverJobs, MemoryOnly, owner, history, At
<1>2. PICK malformed \in SUBSET JobIds :
       jobRow' = [j \in JobIds |->
         CASE jobRow[j].state = "received" /\ Valid(j, jobRow[j].epoch, jobRow[j].config)
                /\ j \notin malformed -> [jobRow[j] EXCEPT !.state = "completed", !.result = FALSE]
           [] jobRow[j].state = "received" -> [jobRow[j] EXCEPT !.state = "failed"]
           [] jobRow[j].state = "claimed" -> [jobRow[j] EXCEPT !.state = "unknown"]
           [] OTHER -> jobRow[j]]
  BY DEF RecoverJobs
<1>3. ASSUME NEW j \in JobIds  PROVE jobRow'[j] \in RowRecord /\ (HasRow(j)' <=> HasRow(j))
  <2>1. jobRow[j] \in RowRecord
    BY DEF ReviewInv, MaintenanceShapes
  <2> DEFINE good == Valid(j, jobRow[j].epoch, jobRow[j].config) /\ j \notin malformed
  <2>2. jobRow'[j] = CASE jobRow[j].state = "received" /\ good ->
                           [jobRow[j] EXCEPT !.state = "completed", !.result = FALSE]
                       [] jobRow[j].state = "received" -> [jobRow[j] EXCEPT !.state = "failed"]
                       [] jobRow[j].state = "claimed" -> [jobRow[j] EXCEPT !.state = "unknown"]
                       [] OTHER -> jobRow[j]
    BY <1>2
  <2> HIDE DEF good
  <2>3. CASE jobRow[j].state = "received"
    <3>1. \/ jobRow'[j] = [jobRow[j] EXCEPT !.state = "completed", !.result = FALSE]
          \/ jobRow'[j] = [jobRow[j] EXCEPT !.state = "failed"]
      BY <2>1, <2>3, <2>2
    <3> QED BY <2>1, <2>3, <3>1 DEF RowRecord, HasRow
  <2>4. CASE jobRow[j].state = "claimed"
    <3>1. jobRow'[j] = [jobRow[j] EXCEPT !.state = "unknown"]
      BY <1>2, <2>4
    <3> QED BY <2>1, <2>4, <3>1 DEF RowRecord, HasRow
  <2>5. CASE jobRow[j].state \notin {"received", "claimed"}
    <3>1. jobRow'[j] = jobRow[j]
      BY <1>2, <2>5
    <3> QED BY <2>1, <3>1 DEF HasRow
  <2> QED BY <2>3, <2>4, <2>5
<1>4. jobRow' \in [JobIds -> RowRecord] /\ RowsStay
  BY <1>2, <1>3 DEF RowsStay
<1>5. driver' \in DriverRecord /\ Linked' /\ CallFits' /\ WorkerFits'
  BY <1>1, Rests DEF DriverPlaces, Working
<1> QED BY <1>1, <1>4, <1>5, Untouched DEF ReviewInv, MaintenanceShapes

\* The scan goes back.
LEMMA DueKeepsReviews ==
  ASSUME ReviewInv, Due  PROVE ReviewInv'
<1>1. /\ UNCHANGED <<epoch, config, jobRow, driverRoot, charge, worker, sentIn>>
      /\ driver.at = "due"
      /\ driver' = Driver("idle") \/ To("prepare")
  BY DEF Due, MemoryOnly, owner, history, At, Rest
<1>2. signal' \in SignalRecord
  <2>1. CASE UNCHANGED signal
    BY <2>1 DEF ReviewInv, MaintenanceShapes
  <2>2. ASSUME NEW back \in SUBSET {n - 1 : n \in Records},
               signal' = [signal EXCEPT !.target = Latest, !.cursor = Min(back \union {@})]
        PROVE  signal' \in SignalRecord
    <3>1. signal.cursor \in Nat /\ signal \in SignalRecord
      BY DEF ReviewInv, MaintenanceShapes, SignalRecord
    <3>2. back \union {signal.cursor} \subseteq Nat
      BY <3>1, MaintenanceConstants DEF Records
    <3>3. Min(back \union {signal.cursor}) \in Nat
      BY <3>2, LeastOf
    <3> QED BY <2>2, <3>1, <3>3, LatestIs DEF SignalRecord
  <2>3. ASSUME NEW ready \in SUBSET {n \in Records : record[n].waiting /\ Kept(n)}
        PROVE  {n - 1 : n \in {m \in ready : Active(m)}} \in SUBSET {n - 1 : n \in Records}
    OBVIOUS
  <2> QED BY <2>1, <2>2, <2>3 DEF Due
<1>3. driver' \in DriverRecord /\ Linked' /\ CallFits' /\ WorkerFits'
  <2>1. CASE driver' = Driver("idle")
    BY <1>1, <2>1, Rests DEF DriverPlaces, Working
  <2>2. CASE To("prepare")
    <3>1. driver' \in DriverRecord /\ driver'.at = "prepare"
      BY <2>2, Moves DEF DriverPlaces
    <3> QED BY <1>1, <3>1 DEF ReviewInv, Linked, CallFits, WorkerFits, At, Working
  <2> QED BY <1>1, <2>1, <2>2
<1>4. MaintenanceShapes'
  BY <1>1, <1>2, <1>3 DEF ReviewInv, MaintenanceShapes
<1> QED BY <1>1, <1>3, <1>4, Untouched DEF ReviewInv

\* One discovery yields a signal.
LEMMA DiscoveredFits ==
  ASSUME signal \in SignalRecord
  PROVE  Discovered \in SignalRecord
<1> DEFINE kept == {n \in signal.pending : Active(n) /\ ~Claimed(n)}
           rest == {n \in Records : Active(n) /\ signal.cursor < n /\ n <= signal.target}
           page == {n \in rest : Cardinality({m \in rest : m <= n}) <= PageSize}
           fresh == {n \in page : ~record[n].waiting /\ ~Claimed(n) /\ n \notin kept}
           room == MaxPending - Cardinality(kept)
           taken == {n \in fresh : Cardinality({m \in fresh : m <= n}) <= room}
           passed == {n \in page : \A m \in fresh \ taken : n < m}
           last == MaxOf(passed \union {signal.cursor})
<1>1. /\ signal.pending \subseteq Records /\ signal.cursor \in Nat /\ signal.target \in Nat
      /\ kept \subseteq Records /\ taken \subseteq Records /\ passed \subseteq Records
  BY DEF SignalRecord
<1>2. last \in Nat
  <2> DEFINE bound == MaxRecords + signal.cursor
             all == passed \union {signal.cursor} \union {0}
  <2>1. bound \in Nat
    BY <1>1, MaintenanceConstants
  <2>2. Records \subseteq 0..bound /\ signal.cursor \in 0..bound /\ 0 \in 0..bound
    BY <1>1, MaintenanceConstants DEF Records
  <2> HIDE DEF bound, passed
  <2>3. all \subseteq 0..bound /\ all # {}
    BY <1>1, <2>2
  <2>4. Max(all) \in 0..bound
    BY <2>1, <2>3, GreatestOf
  <2> QED BY <2>1, <2>4 DEF MaxOf
<1>3. \/ Discovered = [signal EXCEPT !.pending = kept]
      \/ Discovered = [signal EXCEPT !.pending = kept \union taken,
              !.cursor = IF page = rest /\ Cardinality(kept \union taken) < MaxPending
                         THEN signal.target ELSE last]
  BY DEF Discovered
<1> HIDE DEF kept, rest, page, taken, last
<1> QED BY <1>1, <1>2, <1>3 DEF SignalRecord

\* What one discovery finds is not claimed.
LEMMA DiscoveredUnclaimed ==
  ASSUME signal \in SignalRecord
  PROVE  \A n \in Discovered.pending : ~Claimed(n)
BY DEF Discovered, SignalRecord

\* The job prepared has no row: none of its records is claimed.
LEMMA PrepareKeepsReviews ==
  ASSUME ReviewInv, Prepare  PROVE ReviewInv'
<1>1. /\ UNCHANGED <<epoch, config, jobRow, driverRoot, charge, worker, sentIn>>
      /\ driver.at = "prepare"
  BY DEF Prepare, MemoryOnly, owner, history, At
<1>2. signal' \in SignalRecord /\ epoch \in Nat /\ config \in ConfigRecord /\ driver \in DriverRecord
  BY DiscoveredFits DEF ReviewInv, MaintenanceShapes, Prepare
<1>3. driver' \in DriverRecord /\ Linked' /\ CallFits' /\ WorkerFits'
  <2>1. CASE driver' = Driver("idle")
    BY <1>1, <2>1, Rests DEF DriverPlaces, Working
  <2>2. ASSUME NEW selected \in (SUBSET Records) \ {{}}, \A n \in selected : ~Claimed(n),
               driver' = [driver EXCEPT !.at = "link", !.job = selected, !.epoch = epoch,
                                        !.config = config.revision, !.back = "admit"]
        PROVE  driver' \in DriverRecord /\ Linked' /\ CallFits' /\ WorkerFits'
    <3>1. driver' \in DriverRecord /\ driver'.at = "link" /\ driver'.job = selected
      BY <1>2, <2>2 DEF DriverRecord, DriverPlaces, ConfigRecord
    <3>2. selected \in JobIds /\ ~HasRow(selected)
      <4>1. selected \in JobIds
        BY <2>2 DEF JobIds
      <4>2. PICK n : n \in selected
        BY <2>2
      <4> QED BY <2>2, <4>1, <4>2 DEF Claimed, HasRow
    <3> QED BY <1>1, <3>1, <3>2 DEF ReviewInv, Linked, CallFits, WorkerFits, At, Assigned, Working, HasRow
  <2>3. ASSUME config.enabled, NEW selected \in (SUBSET signal'.pending) \ {{}}
        PROVE  selected \in (SUBSET Records) \ {{}} /\ \A n \in selected : ~Claimed(n)
    <3>1. signal'.pending \subseteq Records
      BY <1>2 DEF SignalRecord
    <3>2. signal' = Discovered
      BY <2>3 DEF Prepare
    <3> QED BY <3>1, <3>2, DiscoveredUnclaimed, <1>2 DEF ReviewInv, MaintenanceShapes
  <2> QED BY <2>1, <2>2, <2>3 DEF Prepare, Rest
<1>4. MaintenanceShapes'
  BY <1>1, <1>2, <1>3 DEF ReviewInv, MaintenanceShapes
<1> QED BY <1>1, <1>3, <1>4, Untouched DEF ReviewInv

\* The call linked is one no ledger knows, and no row of another job loses its call.
LEMMA LinkKeepsReviews ==
  ASSUME ReviewInv, Link  PROVE ReviewInv'
<1> DEFINE unused == {r \in Roots : charge[r].life = "none"}
           call == Min(unused)
<1>1. /\ UNCHANGED <<epoch, config, signal, jobRow, charge, worker, sentIn>>
      /\ driver.at = "link" /\ Assigned \in JobIds /\ ~HasRow(Assigned)
  BY DEF ReviewInv, Linked, Link, owner, history, At
<1>2. call \in Roots /\ charge[call].life = "none"
  <2>1. unused # {} /\ unused \subseteq Nat
    BY MaintenanceConstants DEF Link, Roots
  <2> QED BY <2>1, LeastOf
<1>3. /\ driverRoot' = [driverRoot EXCEPT ![Assigned] = [root |-> call, settled |-> FALSE]]
      /\ driver' = [driver EXCEPT !.at = "reserve", !.root = call]
  BY DEF Link
<1> HIDE DEF call
<1>4. /\ driver' \in DriverRecord /\ driver'.at = "reserve" /\ Root' = call /\ Assigned' = Assigned
  BY <1>2, <1>3 DEF ReviewInv, MaintenanceShapes, DriverRecord, DriverPlaces, Working, Root, Assigned
<1>5. /\ driverRoot' \in [JobIds -> [root : Roots \union {0}, settled : BOOLEAN]]
      /\ driverRoot'[Assigned].root = call
      /\ \A j \in JobIds : j # Assigned => driverRoot'[j] = driverRoot[j]
  BY <1>1, <1>2, <1>3 DEF ReviewInv, MaintenanceShapes
<1>6. MaintenanceShapes'
  BY <1>1, <1>4, <1>5 DEF ReviewInv, MaintenanceShapes
<1>7. Linked'
  BY <1>1, <1>2, <1>4, <1>5 DEF ReviewInv, Linked, At
<1>8. CallFits' /\ WorkerFits'
  BY <1>1, <1>2, <1>4 DEF ReviewInv, Unused, CallFits, WorkerFits
<1>9. SentIsKnown'
  BY <1>1, <1>5 DEF ReviewInv, SentIsKnown, HasRow
<1> QED BY <1>1, <1>6, <1>7, <1>8, <1>9, Untouched DEF ReviewInv

\* A job is claimed only apart from every other one.
LEMMA ClaimKeepsReviews ==
  ASSUME ReviewInv, Claim  PROVE ReviewInv'
<1>1. /\ UNCHANGED <<epoch, config, driverRoot, charge, worker, sentIn>>
      /\ driver.at = "claim"
  BY DEF Claim, owner, history, At
<1>2. /\ Assigned \in JobIds /\ Root \in Roots /\ driver.at \in Working \ {"running", "joining"}
      /\ charge[Root] \in ChargeRecord
  BY <1>1, AtWork DEF Working
<1>3. /\ charge[Root].child = "none" /\ charge[Root].confirmed = -1 /\ charge[Root].root = "reserved"
      /\ charge[Root].life # "none" /\ sentIn[Root] = {}
  BY <1>1, <1>2 DEF ReviewInv, CallFits, Unused, SentIsKnown
<1>4. CASE UNCHANGED <<jobRow, signal>> /\ To("release")
  <2>1. /\ driver' \in DriverRecord /\ driver'.at = "release" /\ Root' = Root
        /\ Linked' /\ WorkerFits'
    BY <1>1, <1>2, <1>4, Works DEF Working
  <2>2. CallFits'
    BY <1>1, <1>3, <2>1 DEF CallFits
  <2> QED BY <1>1, <1>4, <2>1, <2>2, Untouched DEF ReviewInv, MaintenanceShapes
<1>5. CASE /\ \A n \in Assigned : ~Claimed(n)
           /\ jobRow' = [jobRow EXCEPT ![Assigned] = [state |-> "claimed", epoch |-> epoch,
                                                      config |-> config.revision, result |-> FALSE]]
           /\ signal' = [signal EXCEPT !.pending = @ \ Assigned]
           /\ To("spawn")
  <2>1. jobRow' \in [JobIds -> RowRecord]
    BY <1>5 DEF ReviewInv, MaintenanceShapes, RowRecord, ConfigRecord
  <2>2. /\ HasRow(Assigned)'
        /\ \A j \in JobIds : j # Assigned => (HasRow(j)' <=> HasRow(j))
    BY <1>1, <1>2, <1>5 DEF ReviewInv, MaintenanceShapes, HasRow, To, Assigned, DriverRecord
  <2>3. signal' \in SignalRecord
    BY <1>5 DEF ReviewInv, MaintenanceShapes, SignalRecord
  <2>4. /\ driver' \in DriverRecord /\ driver'.at = "spawn" /\ Root' = Root /\ Assigned' = Assigned
        /\ Linked' /\ WorkerFits'
    BY <1>1, <1>2, <1>5, Works DEF Working
  <2>5. CallFits'
    BY <1>1, <1>3, <2>2, <2>4 DEF CallFits, HasRow
  <2>6. SentIsKnown'
    <3>1. \A j \in JobIds : HasRow(j) => HasRow(j)'
      BY <2>2, <2>4 DEF HasRow
    <3> QED BY <1>1, <3>1 DEF ReviewInv, SentIsKnown
  <2>7. ClaimsApart'
    <3>1. ASSUME NEW j \in JobIds, HasRow(j), j # Assigned  PROVE j \intersect Assigned = {}
      BY <1>5, <3>1 DEF Claimed, HasRow
    <3> QED BY <1>2, <2>2, <3>1 DEF ReviewInv, ClaimsApart
  <2> QED BY <1>1, <2>1, <2>3, <2>4, <2>5, <2>6, <2>7, Untouched DEF ReviewInv, MaintenanceShapes
<1> QED BY <1>4, <1>5 DEF Claim

\* An outcome withdraws no claim.
LEMMA JudgedKeepsRows ==
  ASSUME ReviewInv, Assigned \in JobIds, NEW state \in {"unknown", "completed", "failed"},
         jobRow' = Judged(Assigned, state)
  PROVE  jobRow' \in [JobIds -> RowRecord] /\ RowsStay
<1>1. CASE UNCHANGED jobRow
  BY <1>1, Untouched DEF ReviewInv, MaintenanceShapes
<1>2. CASE jobRow[Assigned].state # "none" /\ jobRow' = [jobRow EXCEPT ![Assigned].state = state]
  BY <1>2 DEF ReviewInv, MaintenanceShapes, RowRecord, RowsStay, HasRow
<1> QED BY <1>1, <1>2 DEF Judged

\* The worker starts with a call nothing was sent for.
LEMMA SpawnKeepsReviews ==
  ASSUME ReviewInv, Spawn  PROVE ReviewInv' /\ RowsStay
<1>1. /\ UNCHANGED <<epoch, config, signal, driverRoot, charge, sentIn>>
      /\ driver.at = "spawn"
  BY DEF Spawn, owner, history, At
<1>2. /\ Assigned \in JobIds /\ Root \in Roots /\ driver.at \in Working \ {"running", "joining"}
      /\ driverRoot[Assigned].root = Root /\ driver \in DriverRecord
  BY <1>1, AtWork DEF Working, ReviewInv, MaintenanceShapes
<1>3. /\ charge[Root].child = "none" /\ charge[Root].confirmed = -1 /\ charge[Root].root = "reserved"
      /\ HasRow(Assigned)
  BY <1>1 DEF ReviewInv, CallFits
<1>4. CASE /\ To("running") /\ worker' = [NoWorker EXCEPT !.at = "open"] /\ UNCHANGED jobRow
  <2>1. /\ driver' \in DriverRecord /\ driver'.at = "running" /\ Root' = Root /\ Assigned' = Assigned
        /\ Linked'
    BY <1>1, <1>2, <1>4, Works DEF Working
  <2>2. worker' \in WorkerRecord /\ worker'.at = "open"
    BY <1>4 DEF NoWorker, WorkerRecord
  <2>3. CallFits' /\ WorkerFits'
    BY <1>1, <1>3, <1>4, <2>1, <2>2 DEF CallFits, WorkerFits, HasRow
  <2> QED BY <1>1, <1>4, <2>1, <2>2, <2>3, Untouched DEF ReviewInv, MaintenanceShapes
<1>5. CASE /\ driver' = [driver EXCEPT !.at = "account", !.result = "unknown", !.back = "spawn"]
           /\ jobRow' = Judged(Assigned, "unknown") /\ UNCHANGED worker
  <2>1. /\ driver' \in DriverRecord /\ driver'.at = "account" /\ driver'.result = "unknown"
        /\ Root' = Root /\ Assigned' = Assigned
    BY <1>2, <1>5 DEF DriverRecord, DriverPlaces, Working, Results, Root, Assigned
  <2>2. jobRow' \in [JobIds -> RowRecord] /\ RowsStay
    BY <1>2, <1>5, JudgedKeepsRows
  <2>3. Linked' /\ CallFits' /\ WorkerFits'
    BY <1>1, <1>2, <1>5, <2>1 DEF ReviewInv, Linked, CallFits, WorkerFits, At
  <2> QED BY <1>1, <1>5, <2>1, <2>2, <2>3, Untouched DEF ReviewInv, MaintenanceShapes
<1> QED BY <1>4, <1>5 DEF Spawn

\* The driver stops waiting.
LEMMA PollActiveKeepsReviews ==
  ASSUME ReviewInv, PollActive  PROVE ReviewInv'
<1>1. /\ UNCHANGED <<epoch, config, signal, jobRow, driverRoot, charge, sentIn>>
      /\ driver.at = "running" /\ worker \in WorkerRecord /\ driver \in DriverRecord
  BY DEF PollActive, memoryStore, owner, history, At, ReviewInv, MaintenanceShapes
<1>2. Assigned \in JobIds /\ Root \in Roots /\ driverRoot[Assigned].root = Root
  BY <1>1, AtWork DEF Working
<1>3. worker' \in WorkerRecord /\ worker'.at = worker.at
  BY <1>1 DEF PollActive, WorkerRecord
<1>4. /\ driver' \in DriverRecord /\ driver'.at = "joining" /\ Root' = Root /\ Assigned' = Assigned
  <2>1. worker.result \in Results
    BY <1>1 DEF WorkerRecord, Results
  <2>2. \E result \in Results :
          driver' = [driver EXCEPT !.at = "joining", !.back = "finish", !.result = result]
    BY <2>1 DEF PollActive, Results
  <2> QED BY <1>1, <2>2 DEF DriverRecord, DriverPlaces, Working, Root, Assigned
<1>5. Linked' /\ CallFits' /\ WorkerFits'
  BY <1>1, <1>2, <1>3, <1>4 DEF ReviewInv, Linked, CallFits, WorkerFits, HasRow, At
<1> QED BY <1>1, <1>3, <1>4, <1>5, Untouched DEF ReviewInv, MaintenanceShapes

\* Only a call whose child was never dispatched is released.
LEMMA FinishKeepsReviews ==
  ASSUME ReviewInv, Finish  PROVE ReviewInv' /\ RowsStay
<1> DEFINE result == IF driver.result # "none" THEN driver.result
                     ELSE IF HasReply(Root) THEN "completed" ELSE "none"
           unsent == /\ result = "none" /\ CanRelease(Root)
                     /\ ~admission \/ ChildReleased(Root)
           outcome == IF result = "none" THEN "unknown" ELSE result
<1>1. /\ UNCHANGED <<epoch, config, signal, driverRoot, charge, sentIn>>
      /\ driver.at = "joining" /\ worker' = NoWorker /\ driver \in DriverRecord
  BY DEF Finish, owner, history, At, ReviewInv, MaintenanceShapes
<1>2. Assigned \in JobIds /\ Root \in Roots /\ driverRoot[Assigned].root = Root
  BY <1>1, AtWork DEF Working
<1>3. outcome \in {"unknown", "completed", "failed"}
  BY <1>1 DEF DriverRecord, Results
<1>4. unsent => CanRelease(Root)
  OBVIOUS
<1>5. /\ driver' = [driver EXCEPT !.at = IF unsent THEN "release" ELSE "account", !.result = outcome]
      /\ jobRow' = jobRow \/ jobRow' = Judged(Assigned, outcome)
  BY DEF Finish
<1> HIDE DEF unsent, outcome
<1>6. /\ driver' \in DriverRecord /\ driver'.at \in {"release", "account"}
      /\ driver'.at = "release" => CanRelease(Root)
      /\ driver'.result # "none" /\ Root' = Root /\ Assigned' = Assigned
  BY <1>1, <1>3, <1>4, <1>5 DEF DriverRecord, DriverPlaces, Working, Results, Root, Assigned
<1>7. jobRow' \in [JobIds -> RowRecord] /\ RowsStay
  <2>1. CASE UNCHANGED jobRow
    BY <2>1, Untouched DEF ReviewInv, MaintenanceShapes
  <2>2. CASE jobRow' = Judged(Assigned, outcome)
    BY <1>2, <1>3, <2>2, JudgedKeepsRows
  <2> QED BY <1>5, <2>1, <2>2
<1>8. worker' \in WorkerRecord /\ worker'.at = "ended"
  BY <1>1 DEF NoWorker, WorkerRecord
<1>9. CanRelease(Root) => sentIn[Root] = {} /\ charge[Root].life # "none"
  BY <1>2 DEF ReviewInv, SentIsKnown, Unused, CanRelease, ChildReleased
<1>10. Linked' /\ CallFits' /\ WorkerFits'
  BY <1>1, <1>2, <1>6, <1>8, <1>9 DEF ReviewInv, Linked, CallFits, WorkerFits, At
<1> QED BY <1>1, <1>6, <1>7, <1>8, <1>10, Untouched DEF ReviewInv, MaintenanceShapes

\* A claim is withdrawn whose call sent nothing.
LEMMA UnclaimKeepsReviews ==
  ASSUME ReviewInv, Unclaim  PROVE ReviewInv'
<1>1. /\ UNCHANGED <<epoch, config, driverRoot, charge, worker, sentIn>>
      /\ driver.at = "unclaim" /\ To("settle")
  BY DEF Unclaim, MemoryOnly, owner, history, At
<1>2. /\ Assigned \in JobIds /\ Root \in Roots /\ driver.at \in Working \ {"running", "joining"}
      /\ driverRoot[Assigned].root = Root /\ sentIn[Root] = {}
  BY <1>1, AtWork DEF Working, ReviewInv, CallFits
<1>3. signal' \in SignalRecord
  <2>1. CASE UNCHANGED signal
    BY <2>1 DEF ReviewInv, MaintenanceShapes
  <2>2. CASE signal' = [signal EXCEPT !.cursor = Min({@} \union {n - 1 : n \in Assigned})]
    <3>1. signal \in SignalRecord /\ signal.cursor \in Nat
      BY DEF ReviewInv, MaintenanceShapes, SignalRecord
    <3>2. {signal.cursor} \union {n - 1 : n \in Assigned} \subseteq Nat
      BY <1>2, <3>1, MaintenanceConstants DEF JobIds, Records
    <3>3. Min({signal.cursor} \union {n - 1 : n \in Assigned}) \in Nat
      BY <3>2, LeastOf
    <3> QED BY <2>2, <3>1, <3>3 DEF SignalRecord
  <2> QED BY <2>1, <2>2 DEF Unclaim
<1>4. /\ jobRow' \in [JobIds -> RowRecord]
      /\ \A j \in JobIds : HasRow(j)' => HasRow(j)
      /\ \A j \in JobIds : j # Assigned => jobRow'[j] = jobRow[j]
  <2>1. jobRow' = jobRow \/ jobRow' = [jobRow EXCEPT ![Assigned] = NoRow]
    BY DEF Unclaim
  <2>2. NoRow \in RowRecord /\ NoRow.state = "none"
    BY DEF NoRow, RowRecord
  <2> QED BY <1>2, <2>1, <2>2 DEF ReviewInv, MaintenanceShapes, HasRow
<1>5. driver' \in DriverRecord /\ driver'.at = "settle" /\ Linked' /\ WorkerFits'
  BY <1>1, <1>2, Works DEF Working
<1>6. CallFits'
  BY <1>5 DEF CallFits
<1>7. SentIsKnown'
  <2>1. ASSUME NEW r \in Roots, sentIn[r] # {}
        PROVE  sentIn[r] \in JobIds /\ HasRow(sentIn[r]) /\ sentIn[r] # Assigned
    BY <1>2, <2>1 DEF ReviewInv, SentIsKnown
  <2> QED BY <1>1, <1>4, <2>1 DEF ReviewInv, SentIsKnown, HasRow
<1>8. ClaimsApart'
  BY <1>4 DEF ReviewInv, ClaimsApart
<1> QED BY <1>1, <1>3, <1>4, <1>5, <1>6, <1>7, <1>8, Untouched DEF ReviewInv, MaintenanceShapes

\* The driver goes on with its job and records something of the call.
LEMMA CallMoves ==
  ASSUME ReviewInv, driver.at \in Working \ {"running", "joining"},
         NEW next \in Working \ {"reserve", "spawn", "running", "joining"}, To(next),
         NEW new \in ChargeRecord, charge' = [charge EXCEPT ![Root] = new],
         new.life # "none" \/ (new = charge[Root] /\ next \notin {"begin", "charge", "release", "releaseLife"}),
         sentIn[Root] # {} => new.root # "released" /\ new.confirmed # 0 /\ new.child \in Sent,
         next \in {"begin", "charge", "claim"} => new.child = "none" /\ new.confirmed = -1,
         next = "claim" => new.root = "reserved",
         next \in {"release", "releaseLife", "unclaim"} => sentIn[Root] = {},
         next \in {"account", "accountLife"} => driver.result # "none",
         UNCHANGED <<epoch, config, signal, jobRow, driverRoot, worker, sentIn>>
  PROVE  ReviewInv'
<1>1. Root \in Roots /\ RowsStay
  BY AtWork, Untouched
<1>2. /\ charge' \in [Roots -> ChargeRecord] /\ charge'[Root] = new
      /\ Unused' /\ SentIsCharged' /\ SentIsKnown'
  BY <1>1, OneCall
<1>3. /\ driver' \in DriverRecord /\ driver'.at = next /\ Root' = Root
      /\ driver'.result = driver.result /\ Linked' /\ WorkerFits'
  BY Works
<1>4. CallFits'
  BY <1>2, <1>3 DEF CallFits
<1> QED BY <1>1, <1>2, <1>3, <1>4, Untouched DEF ReviewInv, MaintenanceShapes

\* The call is reserved in owner.sqlite,
LEMMA ReserveKeepsReviews ==
  ASSUME ReviewInv, Reserve  PROVE ReviewInv'
<1> DEFINE call == charge[Root]
           new == [call EXCEPT !.life = "reserved"]
<1>1. /\ UNCHANGED <<epoch, config, signal, jobRow, driverRoot, worker, sentIn>>
      /\ driver.at = "reserve" /\ driver.at \in Working \ {"running", "joining"}
  BY DEF Reserve, LedgerOnly, memoryStore, owner, history, At, Working
<1>2. /\ call \in ChargeRecord /\ call.child = "none" /\ call.confirmed = -1 /\ sentIn[Root] = {}
  BY <1>1, AtWork DEF ReviewInv, CallFits, SentIsKnown
<1>3. CASE To("settle") /\ UNCHANGED charge
  BY <1>1, <1>3, Settles
<1>4. CASE charge' = [charge EXCEPT ![Root] = new] /\ To("begin")
  <2>1. /\ new \in ChargeRecord /\ new.life # "none" /\ new.child = "none" /\ new.confirmed = -1
    BY <1>2 DEF ChargeRecord
  <2>2. "begin" \in Working \ {"reserve", "spawn", "running", "joining"}
    BY DEF Working
  <2>3. charge' = [charge EXCEPT ![Root] = new] /\ To("begin")
    BY <1>4
  <2> HIDE DEF new, call
  <2> QED BY <1>1, <1>2, <2>1, <2>2, <2>3, CallMoves
<1> QED BY <1>3, <1>4 DEF Reserve

\* begun there,
LEMMA BeginLifeKeepsReviews ==
  ASSUME ReviewInv, BeginLife  PROVE ReviewInv'
<1> DEFINE call == charge[Root]
           new == [call EXCEPT !.life = "dispatched"]
<1>1. /\ UNCHANGED <<epoch, config, signal, jobRow, driverRoot, worker, sentIn>>
      /\ driver.at = "begin" /\ driver.at \in Working \ {"running", "joining"}
  BY DEF BeginLife, LedgerOnly, memoryStore, owner, history, At, Working
<1>2. /\ call \in ChargeRecord /\ call.child = "none" /\ call.confirmed = -1 /\ sentIn[Root] = {}
  BY <1>1, AtWork DEF ReviewInv, CallFits, SentIsKnown
<1>3. CASE To("settle") /\ UNCHANGED charge
  BY <1>1, <1>3, Settles
<1>4. CASE charge' = [charge EXCEPT ![Root] = new] /\ To("charge")
  <2>1. /\ new \in ChargeRecord /\ new.life # "none" /\ new.child = "none" /\ new.confirmed = -1
    BY <1>2 DEF ChargeRecord
  <2>2. "charge" \in Working \ {"reserve", "spawn", "running", "joining"}
    BY DEF Working
  <2>3. charge' = [charge EXCEPT ![Root] = new] /\ To("charge")
    BY <1>4
  <2> HIDE DEF new, call
  <2> QED BY <1>1, <1>2, <2>1, <2>2, <2>3, CallMoves
<1> QED BY <1>3, <1>4 DEF BeginLife

\* and reserved in policy.sqlite.
LEMMA ReserveCallKeepsReviews ==
  ASSUME ReviewInv, ReserveCall  PROVE ReviewInv'
<1> DEFINE call == charge[Root]
           granted == [call EXCEPT !.root = "reserved"]
           refused == [call EXCEPT !.life = "failed"]
<1>1. /\ UNCHANGED <<epoch, config, signal, jobRow, driverRoot, worker, sentIn>>
      /\ driver.at = "charge" /\ driver.at \in Working \ {"running", "joining"}
  BY DEF ReserveCall, LedgerOnly, memoryStore, owner, history, At, Working
<1>2. /\ call \in ChargeRecord /\ call.child = "none" /\ call.confirmed = -1 /\ sentIn[Root] = {}
      /\ call.life # "none"
  BY <1>1, AtWork DEF ReviewInv, CallFits, SentIsKnown
<1>3. CASE charge' = [charge EXCEPT ![Root] = granted] /\ To("claim")
  <2>1. /\ granted \in ChargeRecord /\ granted.life # "none" /\ granted.root = "reserved"
        /\ granted.child = "none" /\ granted.confirmed = -1
    BY <1>2 DEF ChargeRecord
  <2>2. "claim" \in Working \ {"reserve", "spawn", "running", "joining"}
    BY DEF Working
  <2>3. charge' = [charge EXCEPT ![Root] = granted] /\ To("claim")
    BY <1>3
  <2> HIDE DEF granted, call
  <2> QED BY <1>1, <1>2, <2>1, <2>2, <2>3, CallMoves
<1>4. CASE charge' = [charge EXCEPT ![Root] = refused] /\ To("settle")
  <2>1. refused \in ChargeRecord /\ refused.life # "none"
    BY <1>2 DEF ChargeRecord, Results
  <2>2. "settle" \in Working \ {"reserve", "spawn", "running", "joining"}
    BY DEF Working
  <2>3. charge' = [charge EXCEPT ![Root] = refused] /\ To("settle")
    BY <1>4
  <2> HIDE DEF refused, call
  <2> QED BY <1>1, <1>2, <2>1, <2>2, <2>3, CallMoves
<1> QED BY <1>3, <1>4 DEF ReserveCall

\* The release, in policy.sqlite
LEMMA ReleaseCallKeepsReviews ==
  ASSUME ReviewInv, ReleaseCall  PROVE ReviewInv'
<1> DEFINE call == charge[Root]
           new == [call EXCEPT !.root = "released"]
<1>1. /\ UNCHANGED <<epoch, config, signal, jobRow, driverRoot, worker, sentIn>>
      /\ driver.at = "release" /\ driver.at \in Working \ {"running", "joining"}
  BY DEF ReleaseCall, LedgerOnly, memoryStore, owner, history, At, Working
<1>2. call \in ChargeRecord /\ sentIn[Root] = {} /\ call.life # "none"
  BY <1>1, AtWork DEF ReviewInv, CallFits
<1>3. charge' = [charge EXCEPT ![Root] = new] /\ To("releaseLife")
  BY DEF ReleaseCall
<1>4. new \in ChargeRecord /\ new.life # "none"
  BY <1>2 DEF ChargeRecord
<1>5. "releaseLife" \in Working \ {"reserve", "spawn", "running", "joining"}
  BY DEF Working
<1> HIDE DEF new, call
<1> QED BY <1>1, <1>2, <1>3, <1>4, <1>5, CallMoves

\* and in owner.sqlite.
LEMMA ReleaseLifeKeepsReviews ==
  ASSUME ReviewInv, ReleaseLife  PROVE ReviewInv'
<1> DEFINE call == charge[Root]
           new == [call EXCEPT !.life = "completed", !.confirmed = 0]
<1>1. /\ UNCHANGED <<epoch, config, signal, jobRow, driverRoot, worker, sentIn>>
      /\ driver.at = "releaseLife" /\ driver.at \in Working \ {"running", "joining"}
  BY DEF ReleaseLife, LedgerOnly, memoryStore, owner, history, At, Working
<1>2. call \in ChargeRecord /\ sentIn[Root] = {}
  BY <1>1, AtWork DEF ReviewInv, CallFits
<1>3. CASE Bail /\ UNCHANGED charge
  <2>1. driver' \in {Driver(place) : place \in DriverPlaces \ (Working \union {"link"})}
    BY <1>3 DEF Bail, DriverPlaces, Working
  <2> QED BY <1>1, <1>3, <2>1, Bails
<1>4. CASE charge' = [charge EXCEPT ![Root] = new] /\ To("unclaim")
  <2>1. new \in ChargeRecord /\ new.life # "none"
    BY <1>2 DEF ChargeRecord, Results
  <2>2. "unclaim" \in Working \ {"reserve", "spawn", "running", "joining"}
    BY DEF Working
  <2>3. charge' = [charge EXCEPT ![Root] = new] /\ To("unclaim")
    BY <1>4
  <2> HIDE DEF new, call
  <2> QED BY <1>1, <1>2, <2>1, <2>2, <2>3, CallMoves
<1> QED BY <1>3, <1>4 DEF ReleaseLife

\* The outcome, in policy.sqlite
LEMMA AccountCallKeepsReviews ==
  ASSUME ReviewInv, AccountCall  PROVE ReviewInv'
<1> DEFINE call == charge[Root]
           new == [call EXCEPT !.root = driver.result]
<1>1. /\ UNCHANGED <<epoch, config, signal, jobRow, driverRoot, worker, sentIn>>
      /\ driver.at = "account" /\ driver.at \in Working \ {"running", "joining"}
  BY DEF AccountCall, LedgerOnly, memoryStore, owner, history, At, Working
<1>2. /\ call \in ChargeRecord /\ driver.result \in Results \ {"none"}
      /\ call.root # "none" => call.life # "none"
      /\ sentIn[Root] # {} => call.root # "released" /\ call.confirmed # 0 /\ call.child \in Sent
  BY <1>1, AtWork
     DEF ReviewInv, CallFits, Unused, SentIsKnown, SentIsCharged, Sent, MaintenanceShapes, DriverRecord
<1>3. charge[Root] = call /\ charge = [charge EXCEPT ![Root] = call]
  BY DEF ReviewInv, MaintenanceShapes
<1>4. CASE To("accountLife") /\ UNCHANGED charge
  <2>1. "accountLife" \in Working \ {"reserve", "spawn", "running", "joining"}
    BY DEF Working
  <2>2. charge' = [charge EXCEPT ![Root] = call] /\ To("accountLife")
    BY <1>4, <1>3
  <2> HIDE DEF call
  <2> QED BY <1>1, <1>2, <1>3, <2>1, <2>2, CallMoves
<1>5. CASE /\ call.root \in {"reserved", "dispatched"} /\ To("accountLife")
           /\ charge' = [charge EXCEPT ![Root] = new]
  <2>1. /\ new \in ChargeRecord /\ new.life # "none" /\ new.root # "released"
        /\ new.confirmed = call.confirmed /\ new.child = call.child
    BY <1>2, <1>5 DEF ChargeRecord, Results
  <2>2. "accountLife" \in Working \ {"reserve", "spawn", "running", "joining"}
    BY DEF Working
  <2>3. charge' = [charge EXCEPT ![Root] = new] /\ To("accountLife")
    BY <1>5
  <2> HIDE DEF new, call
  <2> QED BY <1>1, <1>2, <2>1, <2>2, <2>3, CallMoves
<1> QED BY <1>4, <1>5 DEF AccountCall

\* and in owner.sqlite.
LEMMA AccountLifeKeepsReviews ==
  ASSUME ReviewInv, AccountLife  PROVE ReviewInv'
<1> DEFINE call == charge[Root]
<1>1. /\ UNCHANGED <<epoch, config, signal, jobRow, driverRoot, worker, sentIn>>
      /\ driver.at = "accountLife" /\ RowsStay
  BY Untouched DEF AccountLife, LedgerOnly, memoryStore, owner, history, At
<1>2. /\ Root \in Roots /\ Assigned \in JobIds /\ call \in ChargeRecord
      /\ driver.at \in Working \ {"running", "joining"}
  BY <1>1, AtWork DEF Working
<1>3. driver.result \in Results \ {"none"}
  BY <1>1, <1>2 DEF ReviewInv, Unused, CallFits, MaintenanceShapes, DriverRecord
<1> DEFINE before == IF /\ driver.result = "completed" /\ call.root = "completed"
                        /\ call.life = "unknown"
                     THEN "completed" ELSE call.life
           paid == [call EXCEPT !.life = driver.result,
                      !.confirmed = IF driver.result = "completed" THEN 1 ELSE @]
           corrected == [call EXCEPT !.life = before]
<1>4. \/ charge' = [charge EXCEPT ![Root] = paid] /\ (Rest \/ To("checkpoint") \/ To("settle"))
      \/ charge' = [charge EXCEPT ![Root] = corrected] /\ Bail
  BY <1>2 DEF AccountLife, ReviewInv, MaintenanceShapes, ChargeRecord
<1>5. /\ paid \in ChargeRecord /\ paid.life # "none"
      /\ paid.root = call.root /\ paid.child = call.child
      /\ paid.confirmed \in {1, call.confirmed}
  BY <1>2, <1>3 DEF ChargeRecord, Results
<1>6. /\ corrected \in ChargeRecord /\ (corrected.life # "none" \/ corrected = call)
      /\ corrected.root = call.root /\ corrected.child = call.child
      /\ corrected.confirmed = call.confirmed
  BY <1>2, <1>3 DEF ChargeRecord, Results
<1>7. sentIn[Root] # {} => call.root # "released" /\ call.confirmed # 0 /\ call.child \in Sent
  BY <1>2 DEF ReviewInv, SentIsKnown, SentIsCharged, Sent
<1>8. Unused' /\ SentIsCharged' /\ SentIsKnown' /\ charge' \in [Roots -> ChargeRecord]
  <2> HIDE DEF paid, corrected
  <2>1. CASE charge' = [charge EXCEPT ![Root] = paid]
    <3>1. sentIn[Root] # {} => paid.root # "released" /\ paid.confirmed # 0 /\ paid.child \in Sent
      BY <1>5, <1>7
    <3> QED BY <1>1, <1>2, <1>5, <2>1, <3>1, OneCall
  <2>2. CASE charge' = [charge EXCEPT ![Root] = corrected]
    BY <1>1, <1>2, <1>6, <1>7, <2>2, OneCall
  <2> QED BY <1>4, <2>1, <2>2
<1>9. driver' \in DriverRecord /\ Linked' /\ CallFits' /\ WorkerFits'
  <2>1. CASE To("checkpoint") \/ To("settle")
    <3>1. /\ driver' \in DriverRecord /\ driver'.at \in {"checkpoint", "settle"}
          /\ Linked' /\ WorkerFits'
      BY <1>1, <1>2, <2>1, Works DEF Working
    <3> QED BY <3>1 DEF CallFits
  <2>2. CASE Rest \/ Bail
    <3>1. PICK place \in {"idle", "unavailable"} : driver' = Driver(place)
      BY <2>2 DEF Bail, Rest
    <3> QED BY <1>1, <3>1, Rests DEF DriverPlaces, Working
  <2> QED BY <1>4, <2>1, <2>2
<1> QED BY <1>1, <1>8, <1>9, Untouched DEF ReviewInv, MaintenanceShapes

\* The reply is kept,
LEMMA CheckpointResultKeepsReviews ==
  ASSUME ReviewInv, CheckpointResult  PROVE ReviewInv' /\ RowsStay
<1>1. /\ UNCHANGED <<epoch, config, signal, driverRoot, charge, worker, sentIn>>
      /\ driver.at = "checkpoint"
  BY DEF CheckpointResult, MemoryOnly, owner, history, At
<1>2. Assigned \in JobIds /\ driver.at \in Working \ {"running", "joining"}
  BY <1>1, AtWork DEF Working
<1>3. jobRow' \in [JobIds -> RowRecord] /\ RowsStay
  <2>1. CASE UNCHANGED jobRow
    BY <2>1, Untouched DEF ReviewInv, MaintenanceShapes
  <2>2. CASE Checkpointable(Assigned) /\ jobRow' = Received(Assigned)
    BY <1>2, <2>2 DEF ReviewInv, MaintenanceShapes, RowRecord, Checkpointable, Received, RowsStay, HasRow
  <2> QED BY <2>1, <2>2 DEF CheckpointResult
<1>4. driver' \in DriverRecord /\ Linked' /\ CallFits' /\ WorkerFits'
  <2>1. CASE To("commit")
    <3>1. driver' \in DriverRecord /\ driver'.at = "commit" /\ Linked' /\ WorkerFits'
      BY <1>1, <1>2, <2>1, Works DEF Working
    <3> QED BY <3>1 DEF CallFits
  <2>2. CASE driver' = Driver("idle")
    BY <1>1, <2>2, Rests DEF DriverPlaces, Working
  <2> QED BY <2>1, <2>2 DEF CheckpointResult, Rest
<1> QED BY <1>1, <1>3, <1>4, Untouched DEF ReviewInv, MaintenanceShapes

\* committed,
LEMMA CommitKeepsReviews ==
  ASSUME ReviewInv, Commit  PROVE ReviewInv' /\ RowsStay
<1>1. /\ UNCHANGED <<epoch, config, signal, driverRoot, charge, worker, sentIn>>
      /\ driver.at = "commit"
  BY DEF Commit, MemoryOnly, owner, history, At
<1>2. Assigned \in JobIds /\ driver.at \in Working \ {"running", "joining"}
  BY <1>1, AtWork DEF Working
<1>3. jobRow' \in [JobIds -> RowRecord] /\ RowsStay
  <2>1. CASE UNCHANGED jobRow
    BY <2>1, Untouched DEF ReviewInv, MaintenanceShapes
  <2>2. CASE /\ jobRow[Assigned].state = "received"
             /\ jobRow' = [jobRow EXCEPT ![Assigned].state = "completed", ![Assigned].result = FALSE]
    BY <1>2, <2>2 DEF ReviewInv, MaintenanceShapes, RowRecord, RowsStay, HasRow
  <2> QED BY <2>1, <2>2 DEF Commit
<1>4. driver' \in DriverRecord /\ Linked' /\ CallFits' /\ WorkerFits'
  <2>1. CASE To("settle")
    <3>1. driver' \in DriverRecord /\ driver'.at = "settle" /\ Linked' /\ WorkerFits'
      BY <1>1, <1>2, <2>1, Works DEF Working
    <3> QED BY <3>1 DEF CallFits
  <2>2. CASE driver' = Driver("idle")
    BY <1>1, <2>2, Rests DEF DriverPlaces, Working
  <2> QED BY <2>1, <2>2 DEF Commit, Rest
<1> QED BY <1>1, <1>3, <1>4, Untouched DEF ReviewInv, MaintenanceShapes

\* and the call settled.
LEMMA SettleRootKeepsReviews ==
  ASSUME ReviewInv, SettleRoot  PROVE ReviewInv'
<1>1. /\ UNCHANGED <<epoch, config, signal, jobRow, charge, worker, sentIn>>
      /\ driver.at = "settle" /\ RowsStay
      /\ driver' = Driver("recover") \/ driver' = Driver("idle")
  BY Untouched DEF SettleRoot, MemoryOnly, owner, history, At
<1>2. driverRoot' = [driverRoot EXCEPT ![Assigned].settled = TRUE]
  BY DEF SettleRoot
<1>3. /\ driverRoot' \in [JobIds -> [root : Roots \union {0}, settled : BOOLEAN]]
      /\ \A j \in JobIds : /\ driverRoot'[j].root = driverRoot[j].root
                           /\ ~driverRoot'[j].settled => ~driverRoot[j].settled
  BY <1>2 DEF ReviewInv, MaintenanceShapes
<1>4. driver' \in DriverRecord /\ CallFits' /\ WorkerFits' /\ driver'.at \in {"recover", "idle"}
  BY <1>1, Rests DEF DriverPlaces, Working
<1>5. Linked'
  BY <1>3, <1>4 DEF ReviewInv, Linked, At, Working
<1>6. SentIsKnown'
  BY <1>1, <1>3 DEF ReviewInv, SentIsKnown, HasRow
<1> QED BY <1>1, <1>3, <1>4, <1>5, <1>6, Untouched DEF ReviewInv, MaintenanceShapes

\* The worker runs for a claimed job whose call is reserved.
LEMMA WorkerKnows ==
  ASSUME ReviewInv, NEW here \in {"open", "begin", "child", "dispatch", "withdraw", "deny", "flight",
                                  "reply"}, WorkerAt(here)
  PROVE  /\ worker.at = here /\ driver.at \in {"running", "joining"}
         /\ Assigned \in JobIds /\ Root \in Roots /\ driverRoot[Assigned].root = Root
         /\ charge[Root] \in ChargeRecord /\ HasRow(Assigned)
         /\ charge[Root].life # "none" /\ charge[Root].root = "reserved"
         /\ charge[Root].confirmed = -1
         /\ worker \in WorkerRecord /\ epoch \in Nat
<1>1. worker.at = here /\ driver.at \in {"running", "joining"}
  BY DEF WorkerAt
<1>2. /\ Assigned \in JobIds /\ Root \in Roots /\ driverRoot[Assigned].root = Root
      /\ charge[Root] \in ChargeRecord
  BY <1>1, AtWork DEF Working
<1>3. HasRow(Assigned) /\ charge[Root].root = "reserved" /\ charge[Root].confirmed = -1
  BY <1>1 DEF ReviewInv, CallFits
<1>4. charge[Root].life # "none"
  BY <1>2, <1>3 DEF ReviewInv, Unused
<1> QED BY <1>1, <1>2, <1>3, <1>4 DEF ReviewInv, MaintenanceShapes

\* Places of the worker.
LEMMA WorkerMoves ==
  ASSUME worker \in WorkerRecord, NEW here \in {"open", "begin", "child", "dispatch", "withdraw",
           "deny", "flight", "reply"}, WorkerTo(here)
  PROVE  worker' \in WorkerRecord /\ worker'.at = here
BY DEF WorkerRecord, WorkerTo

\* The end of the worker.
LEMMA WorkerStops ==
  ASSUME NEW result \in {"none", "completed", "failed"}, WorkerEnds(result)
  PROVE  worker' \in WorkerRecord /\ worker'.at = "ended"
BY DEF WorkerRecord, WorkerEnds, NoWorker

\* The worker records something of the child of its call.
LEMMA ChildMoves ==
  ASSUME ReviewInv, NEW state \in Results \union {"reserved", "dispatched", "released"},
         Root \in Roots, charge[Root] \in ChargeRecord, charge[Root].life # "none", SetChild(state)
  PROVE  /\ charge' \in [Roots -> ChargeRecord] /\ Unused'
         /\ charge'[Root].child = state /\ charge'[Root].root = charge[Root].root
         /\ charge'[Root].confirmed = charge[Root].confirmed
         /\ charge'[Root].life = charge[Root].life
         /\ \A r \in Roots : r # Root => charge'[r] = charge[r]
         /\ UNCHANGED sentIn => SentIsCharged'
         /\ UNCHANGED <<sentIn, driverRoot, jobRow>> /\ (sentIn[Root] # {} => state \in Sent)
              => SentIsKnown'
<1> DEFINE new == [charge[Root] EXCEPT !.child = state]
<1>1. /\ new \in ChargeRecord /\ new.life # "none" /\ new.life = charge[Root].life
      /\ new.child = state /\ new.root = charge[Root].root /\ new.confirmed = charge[Root].confirmed
  BY DEF ChargeRecord
<1>2. charge' = [charge EXCEPT ![Root] = new]
  BY DEF SetChild
<1>3. sentIn[Root] # {} => new.root # "released" /\ new.confirmed # 0
  BY <1>1 DEF ReviewInv, SentIsCharged
<1>4. UNCHANGED jobRow => RowsStay
  BY Untouched
<1> HIDE DEF new
<1> QED BY <1>1, <1>2, <1>3, <1>4, OneCall

\* The steps of the worker, in their order.
LEMMA WorkerOpensKeepsReviews ==
  ASSUME ReviewInv, WorkerOpens  PROVE ReviewInv'
<1>1. UNCHANGED <<epoch, config, signal, jobRow, driverRoot, driver, charge, sentIn>>
  BY DEF WorkerOpens, WorkerOnly, memoryStore, owner
<1>2. WorkerAt("open")
  BY DEF WorkerOpens
<1>3. worker' \in WorkerRecord /\ worker'.at \in {"begin", "ended"}
  <2>1. CASE WorkerEnds("none")
    BY <2>1, WorkerStops
  <2>2. CASE worker' = [worker EXCEPT !.at = "begin", !.epoch = epoch]
    BY <1>2, <2>2, WorkerKnows DEF WorkerRecord
  <2> QED BY <2>1, <2>2 DEF WorkerOpens
<1>4. WorkerFits'
  BY <1>1, <1>2, <1>3, WorkerKnows DEF ReviewInv, WorkerFits, Root
<1> QED BY <1>1, <1>3, <1>4, Untouched DEF ReviewInv, MaintenanceShapes

\* The turn is journalled before anything is charged.
LEMMA WorkerBeginsKeepsReviews ==
  ASSUME ReviewInv, WorkerBegins  PROVE ReviewInv'
<1>1. UNCHANGED <<epoch, config, signal, jobRow, driverRoot, driver, charge, sentIn>>
  BY DEF WorkerBegins, WorkerOnly, memoryStore, owner
<1>2. WorkerAt("begin")
  BY DEF WorkerBegins
<1>3. worker' \in WorkerRecord /\ worker'.at \in {"child", "ended"}
  <2>1. CASE WorkerEnds("none")
    BY <2>1, WorkerStops
  <2>2. CASE WorkerTo("child")
    BY <1>2, <2>2, WorkerKnows, WorkerMoves
  <2> QED BY <2>1, <2>2 DEF WorkerBegins
<1>4. WorkerFits'
  BY <1>1, <1>2, <1>3, WorkerKnows DEF ReviewInv, WorkerFits, Root
<1> QED BY <1>1, <1>3, <1>4, Untouched DEF ReviewInv, MaintenanceShapes

\* Nothing was sent when the child is reserved.
LEMMA WorkerReservesKeepsReviews ==
  ASSUME ReviewInv, WorkerReserves  PROVE ReviewInv'
<1>1. UNCHANGED <<epoch, config, signal, jobRow, driverRoot, driver, sentIn>>
  BY DEF WorkerReserves, WorkerOnly, memoryStore, owner
<1>2. WorkerAt("child")
  BY DEF WorkerReserves
<1>3. worker' \in WorkerRecord /\ worker'.at = "dispatch" /\ SetChild("reserved")
  BY <1>2, WorkerKnows, WorkerMoves DEF WorkerReserves
<1>4. /\ charge' \in [Roots -> ChargeRecord] /\ Unused' /\ SentIsCharged' /\ SentIsKnown'
      /\ charge'[Root].root = "reserved" /\ charge'[Root].child = "reserved"
      /\ charge'[Root].confirmed = -1
  <2>1. sentIn[Root] = {}
    BY <1>2, WorkerKnows DEF ReviewInv, WorkerFits, SentIsKnown
  <2> QED BY <1>1, <1>2, <1>3, <2>1, WorkerKnows, ChildMoves
<1>5. WorkerFits'
  BY <1>1, <1>2, <1>3, <1>4, WorkerKnows DEF WorkerFits, Root
<1>6. CallFits'
  BY <1>1, <1>2, <1>4, WorkerKnows DEF ReviewInv, CallFits, Root, Assigned, HasRow
<1> QED BY <1>1, <1>3, <1>4, <1>5, <1>6, Untouched DEF ReviewInv, MaintenanceShapes

\* The one step that sends: the job is claimed and the child dispatched.
LEMMA WorkerDispatchesKeepsReviews ==
  ASSUME ReviewInv, WorkerDispatches  PROVE ReviewInv'
<1>1. UNCHANGED <<epoch, config, signal, jobRow, driverRoot, driver>>
  BY DEF WorkerDispatches, WorkerOnly, memoryStore, owner
<1>2. WorkerAt("dispatch")
  BY DEF WorkerDispatches
<1>3. CASE WorkerTo("withdraw") /\ UNCHANGED <<charge, sentIn>>
  <2>1. worker' \in WorkerRecord /\ worker'.at = "withdraw"
    BY <1>2, <1>3, WorkerKnows, WorkerMoves
  <2>2. WorkerFits'
    BY <1>1, <1>2, <1>3, <2>1, WorkerKnows DEF ReviewInv, WorkerFits, Root
  <2> QED BY <1>1, <1>3, <2>1, <2>2, Untouched DEF ReviewInv, MaintenanceShapes
<1>4. ASSUME NEW state \in {"dispatched", "unknown"}, SetChild(state),
             WorkerTo("flight") \/ WorkerEnds("none"),
             sentIn' = sentIn \/ sentIn' = [sentIn EXCEPT ![Root] = Assigned]
      PROVE  ReviewInv'
  <2>1. worker' \in WorkerRecord /\ worker'.at \in {"flight", "ended"}
    BY <1>2, <1>4, WorkerKnows, WorkerMoves, WorkerStops
  <2>2. /\ charge' \in [Roots -> ChargeRecord] /\ Unused'
        /\ charge'[Root].child = state /\ charge'[Root].root = "reserved"
        /\ charge'[Root].confirmed = -1
        /\ \A r \in Roots : r # Root => charge'[r] = charge[r]
    BY <1>2, <1>4, WorkerKnows, ChildMoves DEF Results
  <2>3. /\ Root \in Roots /\ Assigned \in JobIds /\ HasRow(Assigned)
        /\ driverRoot[Assigned].root = Root /\ driver.at \in {"running", "joining"}
    BY <1>2, WorkerKnows
  <2>4. sentIn' \in [Roots -> SUBSET Records]
    BY <1>4, <2>3 DEF ReviewInv, MaintenanceShapes, JobIds
  <2>5. /\ \A r \in Roots : r # Root => sentIn'[r] = sentIn[r]
        /\ sentIn'[Root] \in {sentIn[Root], Assigned}
    BY <1>4, <2>3 DEF ReviewInv, MaintenanceShapes
  <2>6. SentIsCharged'
    BY <2>2, <2>5 DEF ReviewInv, SentIsCharged
  <2>7. SentIsKnown'
    BY <1>1, <2>2, <2>3, <2>5 DEF ReviewInv, SentIsKnown, HasRow
  <2>8. CallFits' /\ WorkerFits'
    BY <1>1, <1>2, <2>1, <2>2, <2>3, WorkerKnows DEF ReviewInv, CallFits, WorkerFits, Root, Assigned, HasRow
  <2> QED BY <1>1, <2>1, <2>2, <2>4, <2>6, <2>7, <2>8, Untouched DEF ReviewInv, MaintenanceShapes
<1> QED BY <1>3, <1>4 DEF WorkerDispatches

\* A child is released that sent nothing.
LEMMA WorkerWithdrawsKeepsReviews ==
  ASSUME ReviewInv, WorkerWithdraws  PROVE ReviewInv'
<1>1. UNCHANGED <<epoch, config, signal, jobRow, driverRoot, driver, sentIn>>
  BY DEF WorkerWithdraws, WorkerOnly, memoryStore, owner
<1>2. WorkerAt("withdraw")
  BY DEF WorkerWithdraws
<1>3. worker' \in WorkerRecord /\ worker'.at = "deny" /\ SetChild("released")
  BY <1>2, WorkerKnows, WorkerMoves DEF WorkerWithdraws
<1>4. /\ charge' \in [Roots -> ChargeRecord] /\ Unused' /\ SentIsCharged' /\ SentIsKnown'
      /\ charge'[Root].root = "reserved" /\ charge'[Root].child = "released"
      /\ charge'[Root].confirmed = -1
  <2>1. sentIn[Root] = {}
    BY <1>2, WorkerKnows DEF ReviewInv, WorkerFits, SentIsKnown
  <2> QED BY <1>1, <1>2, <1>3, <2>1, WorkerKnows, ChildMoves
<1>5. WorkerFits'
  BY <1>1, <1>2, <1>3, WorkerKnows DEF WorkerFits
<1>6. CallFits'
  BY <1>1, <1>2, <1>4, WorkerKnows DEF ReviewInv, CallFits, Root, Assigned, HasRow
<1> QED BY <1>1, <1>3, <1>4, <1>5, <1>6, Untouched DEF ReviewInv, MaintenanceShapes

\* The turn is denied.
LEMMA WorkerDeniesKeepsReviews ==
  ASSUME ReviewInv, WorkerDenies  PROVE ReviewInv'
<1>1. UNCHANGED <<epoch, config, signal, jobRow, driverRoot, driver, charge, sentIn>>
  BY DEF WorkerDenies, WorkerOnly, memoryStore, owner
<1>2. WorkerAt("deny")
  BY DEF WorkerDenies
<1>3. worker' \in WorkerRecord /\ worker'.at = "ended"
  BY WorkerStops DEF WorkerDenies
<1>4. WorkerFits'
  BY <1>3 DEF WorkerFits
<1> QED BY <1>1, <1>3, <1>4, Untouched DEF ReviewInv, MaintenanceShapes

\* Whatever the answer, the child stays known as sent.
LEMMA WorkerPollsKeepsReviews ==
  ASSUME ReviewInv, WorkerPolls  PROVE ReviewInv'
<1>1. UNCHANGED <<epoch, config, signal, jobRow, driverRoot, driver, sentIn>>
  BY DEF WorkerPolls, WorkerOnly, memoryStore, owner
<1>2. WorkerAt("flight")
  BY DEF WorkerPolls
<1>3. /\ worker' \in WorkerRecord /\ worker'.at \in {"reply", "ended"}
      /\ \E state \in {"completed", "failed", "unknown"} : SetChild(state)
  <2>1. CASE WorkerTo("reply") /\ SetChild("completed")
    BY <1>2, <2>1, WorkerKnows, WorkerMoves
  <2>2. ASSUME NEW result \in {"none", "failed"}, WorkerEnds(result),
               NEW state \in {"failed", "unknown"}, SetChild(state)
        PROVE  /\ worker' \in WorkerRecord /\ worker'.at = "ended"
    BY <2>2, WorkerStops
  <2> QED BY <2>1, <2>2 DEF WorkerPolls
<1>4. /\ charge' \in [Roots -> ChargeRecord] /\ Unused' /\ SentIsCharged' /\ SentIsKnown'
      /\ charge'[Root].root = "reserved" /\ charge'[Root].confirmed = -1
  <2>1. PICK state \in {"completed", "failed", "unknown"} : SetChild(state)
    BY <1>3
  <2>2. state \in Sent /\ state \in Results
    BY DEF Sent, Results
  <2> QED BY <1>1, <1>2, <2>1, <2>2, WorkerKnows, ChildMoves
<1>5. WorkerFits'
  BY <1>1, <1>2, <1>3, WorkerKnows DEF WorkerFits
<1>6. CallFits'
  BY <1>1, <1>2, <1>4, WorkerKnows DEF ReviewInv, CallFits, Root, Assigned, HasRow
<1> QED BY <1>1, <1>3, <1>4, <1>5, <1>6, Untouched DEF ReviewInv, MaintenanceShapes

\* The reply is in the journal.
LEMMA WorkerRepliesKeepsReviews ==
  ASSUME ReviewInv, WorkerReplies  PROVE ReviewInv'
<1>1. UNCHANGED <<epoch, config, signal, jobRow, driverRoot, driver, charge, sentIn>>
  BY DEF WorkerReplies, WorkerOnly, memoryStore, owner
<1>2. WorkerAt("reply")
  BY DEF WorkerReplies
<1>3. worker' \in WorkerRecord /\ worker'.at = "ended"
  BY WorkerStops DEF WorkerReplies
<1>4. WorkerFits'
  BY <1>3 DEF WorkerFits
<1> QED BY <1>1, <1>3, <1>4, Untouched DEF ReviewInv, MaintenanceShapes

-----------------------------------------------------------------------------
(* Sources of reviews: the scan passes nothing it does not select.             *)

RecordRecord == [state : {"none", "kept", "forgotten"}, link : {"none", "supersedes", "reconsiders"},
                 parent : Nat, waiting : BOOLEAN]

\* The scan does not pass its target, nor the target the records.
ScanFits == signal.cursor <= signal.target /\ signal.target <= Latest

\* The account of the records to review.
SourceInv == record \in [Records -> RecordRecord] /\ ScanFits /\ NoSourceLost

\* Records are never taken away.
LEMMA LatestGrows ==
  ASSUME \A n \in Records : record[n].state # "none" => record'[n].state # "none"
  PROVE  Latest' \in Nat /\ Latest <= Latest'
<1>1. /\ Latest' \in Nat
      /\ \A n \in Records : record'[n].state # "none" => n <= Latest'
  <2> DEFINE all == {n \in Records : record'[n].state # "none"} \union {0}
  <2>1. MaxRecords \in Nat /\ all \subseteq 0..MaxRecords /\ all # {}
    BY MaintenanceConstants DEF Records
  <2>2. Max(all) \in all /\ \A n \in all : n <= Max(all)
    BY <2>1, GreatestOf
  <2> QED BY <2>1, <2>2 DEF Latest, MaxOf
<1> QED BY <1>1, LatestIs

\* A step that makes no record current and neither moves the scan nor drops a record.
LEMMA SourcesStay ==
  ASSUME SourceInv, UNCHANGED <<record, revived>>, signal'.cursor = signal.cursor,
         signal'.target = signal.target,
         \A n \in Records : n \in signal.pending \/ Claimed(n) => n \in signal'.pending \/ Claimed(n)'
  PROVE  SourceInv'
BY DEF SourceInv, ScanFits, NoSourceLost, Latest, Active, Kept, Superseded

\* Rows that stay claim the same records.
LEMMA RowsStayClaimed ==
  ASSUME RowsStay  PROVE \A n \in Records : Claimed(n)' <=> Claimed(n)
BY DEF RowsStay, Claimed, HasRow

\* A record appended is ahead of the target.
LEMMA AppendKeepsSources ==
  ASSUME ReviewInv, SourceInv, AppendRecord  PROVE SourceInv'
<1>1. UNCHANGED <<signal, jobRow, revived>> /\ Latest < MaxRecords
  BY DEF AppendRecord, history
<1>2. PICK new \in RecordRecord : record' = [record EXCEPT ![Latest + 1] = new] /\ new.state = "kept"
  <2>1. PICK link \in {"none", "supersedes", "reconsiders"},
             p \in {0} \union {n \in Records : Active(n)} :
               record' = [record EXCEPT ![Latest + 1] =
                 [state |-> "kept", link |-> link, parent |-> p, waiting |-> link = "reconsiders"]]
    BY DEF AppendRecord
  <2>2. p \in Nat
    BY MaintenanceConstants DEF Records
  <2> DEFINE new == [state |-> "kept", link |-> link, parent |-> p,
                     waiting |-> link = "reconsiders"]
  <2>3. new \in RecordRecord /\ new.state = "kept"
    BY <2>2 DEF RecordRecord
  <2> QED BY <2>1, <2>3
<1> DEFINE next == Latest + 1
<1>3. next \in Records /\ record[next].state = "none"
  BY <1>1, LatestIs, MaintenanceConstants DEF Records
<1>4. /\ record' \in [Records -> RecordRecord]
      /\ record'[next] = new /\ \A n \in Records : n # next => record'[n] = record[n]
  BY <1>2, <1>3 DEF SourceInv
<1> HIDE DEF next
<1>5. Latest <= Latest' /\ Latest' \in Nat
  <2>1. \A n \in Records : record[n].state # "none" => record'[n].state # "none"
    BY <1>2, <1>3, <1>4
  <2> QED BY <2>1, LatestGrows
<1>6. signal.cursor \in Nat /\ signal.target \in Nat /\ signal.target < next /\ signal.cursor <= signal.target
  BY LatestIs DEF ReviewInv, MaintenanceShapes, SignalRecord, SourceInv, ScanFits, next
<1>7. ScanFits'
  BY <1>1, <1>5, <1>6, LatestIs DEF SourceInv, ScanFits
<1>8. ASSUME NEW n \in Records, n # next, Active(n)'  PROVE Active(n)
  <2>1. Kept(n)
    BY <1>4, <1>8 DEF Active, Kept
  <2>2. ASSUME NEW m \in Records, Kept(m), record[m].link = "supersedes", record[m].parent = n
        PROVE  FALSE
    <3>1. m # next
      BY <1>3, <2>2 DEF Kept
    <3> QED BY <1>4, <1>8, <2>2, <3>1 DEF Active, Kept, Superseded
  <2> QED BY <2>1, <2>2 DEF Active, Superseded
<1>9. NoSourceLost'
  <2>1. ASSUME NEW n \in Records, Active(n)', ~record'[n].waiting, n <= signal'.target, n \notin revived'
        PROVE  n > signal'.cursor \/ n \in signal'.pending \/ Claimed(n)'
    <3>1. n # next
      BY <1>1, <1>6, <2>1 DEF Records
    <3>2. Active(n) /\ ~record[n].waiting
      BY <1>4, <1>8, <2>1, <3>1
    <3> QED BY <1>1, <2>1, <3>2 DEF SourceInv, NoSourceLost, Claimed
  <2> QED BY <2>1 DEF NoSourceLost
<1> QED BY <1>4, <1>7, <1>9 DEF SourceInv

\* What forgetting makes current again is revived.
LEMMA ForgetKeepsSources ==
  ASSUME ReviewInv, SourceInv, Forget  PROVE SourceInv'
<1>1. PICK gone \in SUBSET Records :
        /\ record' = [m \in Records |->
             IF m \in gone THEN [record[m] EXCEPT !.state = "forgotten"] ELSE record[m]]
        /\ revived' = revived \union ({record[m].parent : m \in gone} \ gone)
        /\ \A m \in gone : Kept(m)
  BY DEF Forget, Below
<1>2. UNCHANGED signal /\ RowsStay
  BY ForgetKeepsReviews DEF Forget
<1>3. ASSUME NEW n \in Records
      PROVE  /\ record'[n] \in RecordRecord
             /\ record'[n].waiting = record[n].waiting
             /\ record'[n].link = record[n].link /\ record'[n].parent = record[n].parent
             /\ record'[n].state = "none" <=> record[n].state = "none"
             /\ Kept(n)' <=> Kept(n) /\ n \notin gone
  <2>1. record[n] \in RecordRecord
    BY DEF SourceInv
  <2> QED BY <1>1, <2>1 DEF RecordRecord, Kept
<1>4. record' \in [Records -> RecordRecord]
  BY <1>1, <1>3
<1>5. ScanFits'
  <2>1. Latest' = Latest
    BY <1>3 DEF Latest
  <2> QED BY <1>2, <2>1 DEF SourceInv, ScanFits
<1>6. ASSUME NEW n \in Records, Active(n)', n \notin revived'  PROVE Active(n)
  <2>1. Kept(n) /\ n \notin gone
    BY <1>3, <1>6 DEF Active
  <2>2. ASSUME NEW m \in Records, Kept(m), record[m].link = "supersedes", record[m].parent = n
        PROVE  FALSE
    <3>1. CASE m \in gone
      BY <1>1, <1>6, <2>1, <2>2, <3>1
    <3>2. CASE m \notin gone
      BY <1>3, <1>6, <2>2, <3>2 DEF Active, Superseded
    <3> QED BY <3>1, <3>2
  <2> QED BY <2>1, <2>2 DEF Active, Superseded
<1>7. NoSourceLost'
  <2>1. \A n \in Records : Claimed(n)' <=> Claimed(n)
    BY <1>2, RowsStayClaimed
  <2>2. ASSUME NEW n \in Records, Active(n)', ~record'[n].waiting, n <= signal'.target, n \notin revived'
        PROVE  n > signal'.cursor \/ n \in signal'.pending \/ Claimed(n)'
    <3>1. Active(n) /\ ~record[n].waiting /\ n \notin revived
      BY <1>1, <1>3, <1>6, <2>2
    <3> QED BY <1>2, <2>1, <2>2, <3>1 DEF SourceInv, NoSourceLost
  <2> QED BY <2>2 DEF NoSourceLost
<1> QED BY <1>4, <1>5, <1>7 DEF SourceInv

\* A new target adds only records ahead of the scan.
LEMMA TargetKeepsSources ==
  ASSUME ReviewInv, SourceInv, UNCHANGED <<record, jobRow, revived>>,
         signal' = signal \/ signal' = [signal EXCEPT !.target = Latest]
  PROVE  SourceInv'
<1>1. /\ signal.cursor \in Nat /\ signal.target \in Nat /\ signal.cursor <= signal.target
      /\ signal.target <= Latest
  BY DEF ReviewInv, MaintenanceShapes, SignalRecord, SourceInv, ScanFits
<1>2. /\ signal'.cursor = signal.cursor /\ signal'.pending = signal.pending
      /\ signal'.target \in {signal.target, Latest}
  BY DEF ReviewInv, MaintenanceShapes, SignalRecord
<1>3. ScanFits'
  BY <1>1, <1>2, LatestIs DEF ScanFits, Latest
<1>4. NoSourceLost'
  <2>1. ASSUME NEW n \in Records, Active(n), ~record[n].waiting, n \notin revived
        PROVE  n > signal.cursor \/ n \in signal.pending \/ Claimed(n)
    <3>1. n \in Nat
      BY MaintenanceConstants DEF Records
    <3>2. CASE n <= signal.target
      BY <2>1, <3>2 DEF SourceInv, NoSourceLost
    <3>3. CASE n > signal.target
      BY <1>1, <3>1, <3>3
    <3> QED BY <1>1, <3>1, <3>2, <3>3
  <2> QED BY <1>2, <2>1 DEF NoSourceLost, Active, Kept, Superseded, Claimed
<1> QED BY <1>3, <1>4 DEF SourceInv

\* The scan goes back before every reconsideration that becomes current.
LEMMA DueKeepsSources ==
  ASSUME ReviewInv, SourceInv, Due  PROVE SourceInv'
<1>1. UNCHANGED <<jobRow, revived>>
  BY DEF Due, MemoryOnly, history
<1>2. CASE UNCHANGED <<record, signal>>
  BY <1>1, <1>2, SourcesStay DEF Claimed
<1>3. ASSUME NEW ready \in SUBSET {n \in Records : record[n].waiting /\ Kept(n)}, NEW back,
             back = {n - 1 : n \in {m \in ready : Active(m)}},
             record' = [n \in Records |-> IF n \in ready THEN [record[n] EXCEPT !.waiting = FALSE]
                                                         ELSE record[n]],
             signal' = IF back = {} THEN signal
                       ELSE [signal EXCEPT !.target = Latest, !.cursor = Min(back \union {@})]
      PROVE  SourceInv'
  <2>1. /\ signal.cursor \in Nat /\ signal.target \in Nat /\ signal.cursor <= signal.target
        /\ signal.target <= Latest /\ signal \in SignalRecord
    BY DEF ReviewInv, MaintenanceShapes, SignalRecord, SourceInv, ScanFits
  <2>2. ASSUME NEW n \in Records
        PROVE  /\ record'[n] \in RecordRecord
               /\ record'[n].state = record[n].state /\ record'[n].link = record[n].link
               /\ record'[n].parent = record[n].parent
               /\ n \notin ready => record'[n] = record[n]
    <3>1. record[n] \in RecordRecord
      BY DEF SourceInv
    <3> QED BY <1>3, <3>1 DEF RecordRecord
  <2>3. record' \in [Records -> RecordRecord]
    BY <1>3, <2>2
  <2>4. /\ Latest' = Latest
        /\ \A n \in Records : Active(n)' <=> Active(n)
    BY <2>2 DEF Latest, Active, Kept, Superseded
  <2>5. /\ signal'.cursor \in Nat /\ signal'.target \in Nat /\ signal'.cursor <= signal.cursor
        /\ signal'.pending = signal.pending
        /\ signal'.target \in {signal.target, Latest}
        /\ \A n \in ready : Active(n) => signal'.cursor < n
    <3>1. CASE back = {}
      BY <1>3, <2>1, <3>1
    <3>2. CASE back # {}
      <4> DEFINE low == Min(back \union {signal.cursor})
      <4>1. ready \subseteq Nat /\ back \union {signal.cursor} \subseteq Nat
        BY <1>3, <2>1, MaintenanceConstants DEF Records
      <4>2. low \in Nat /\ low <= signal.cursor /\ \A b \in back : low <= b
        BY <4>1, LeastOf
      <4>3. signal' = [signal EXCEPT !.target = Latest, !.cursor = low]
        BY <1>3, <3>2
      <4> HIDE DEF low
      <4>4. \A n \in ready : Active(n) => low < n
        BY <1>3, <4>1, <4>2
      <4> QED BY <2>1, <4>2, <4>3, <4>4, LatestIs DEF SignalRecord
    <3> QED BY <3>1, <3>2
  <2>6. ScanFits'
    BY <2>1, <2>4, <2>5, LatestIs DEF ScanFits
  <2>7. NoSourceLost'
    <3>1. ASSUME NEW n \in Records, Active(n), ~record'[n].waiting, n \notin revived
          PROVE  n > signal'.cursor \/ n \in signal.pending \/ Claimed(n)
      <4>1. n \in Nat
        BY MaintenanceConstants DEF Records
      <4>2. CASE n \in ready
        BY <2>5, <3>1, <4>1, <4>2
      <4>3. CASE n \notin ready /\ n <= signal.target
        <5>1. n > signal.cursor \/ n \in signal.pending \/ Claimed(n)
          BY <2>2, <3>1, <4>3 DEF SourceInv, NoSourceLost
        <5> QED BY <2>1, <2>5, <4>1, <5>1
      <4>4. CASE n > signal.target
        BY <2>1, <2>5, <4>1, <4>4
      <4> QED BY <2>1, <4>1, <4>2, <4>3, <4>4
    <3> QED BY <1>1, <2>4, <2>5, <3>1 DEF NoSourceLost, Claimed
  <2> QED BY <2>3, <2>6, <2>7 DEF SourceInv
<1> QED BY <1>2, <1>3 DEF Due

\* If one of a set is out of its first ones, there are as many of those as there is room.
LEMMA Crowded ==
  ASSUME NEW S \in SUBSET Records, NEW room \in Int,
         NEW n \in S, ~(Cardinality({m \in S : m <= n}) <= room)
  PROVE  Cardinality({k \in S : Cardinality({m \in S : m <= k}) <= room}) >= room
<1> DEFINE Upto(k) == {m \in S : m <= k}
           taken == {k \in S : Cardinality(Upto(k)) <= room}
<1>1. IsFiniteSet(S) /\ S \subseteq Nat
  <2>1. MaxRecords \in Nat /\ Records \subseteq Nat
    BY MaintenanceConstants DEF Records
  <2>2. IsFiniteSet(Records)
    BY <2>1, FS_Interval DEF Records
  <2> QED BY <2>1, <2>2, FS_Subset
<1>2. \A T \in SUBSET S : IsFiniteSet(T) /\ Cardinality(T) \in Nat
  BY <1>1, FS_Subset, FS_CardinalityType
<1> DEFINE left == S \ taken
           first == Min(left)
<1>3. left \subseteq Nat /\ left # {}
  BY <1>1
<1>4. first \in left /\ \A k \in left : first <= k
  BY <1>3, LeastOf
<1> HIDE DEF first
<1>5. Cardinality(Upto(first)) > room /\ first \in S /\ Upto(first) \in SUBSET S
  BY <1>2, <1>4
<1>6. Upto(first) \ {first} \subseteq taken
  <2>1. ASSUME NEW m \in Upto(first) \ {first}  PROVE m \notin left
    BY <1>1, <1>3, <1>4, <1>5, <2>1
  <2> QED BY <2>1
<1>7. Cardinality(Upto(first) \ {first}) = Cardinality(Upto(first)) - 1
  <2>1. first \in Upto(first)
    BY <1>1, <1>5
  <2>2. IsFiniteSet(Upto(first))
    BY <1>2, <1>5
  <2> HIDE DEF Upto
  <2> QED BY <2>1, <2>2, FS_RemoveElement
<1>8. taken \in SUBSET S
  OBVIOUS
<1>9. Cardinality(Upto(first) \ {first}) <= Cardinality(taken)
  <2>1. IsFiniteSet(taken)
    BY <1>2, <1>8
  <2> HIDE DEF taken, Upto
  <2> QED BY <1>6, <2>1, FS_Subset
<1>10. Cardinality(taken) \in Nat /\ Cardinality(Upto(first)) \in Nat
  BY <1>2, <1>5, <1>8
<1> HIDE DEF taken, Upto
<1> QED BY <1>5, <1>7, <1>9, <1>10 DEF taken, Upto

\* One discovery passes no current record it does not select: within a page the
\* cursor stays before the first that did not fit.
LEMMA DiscoveredKeepsSources ==
  ASSUME signal \in SignalRecord, signal.cursor <= signal.target
  PROVE  /\ Discovered.target = signal.target
         /\ signal.cursor <= Discovered.cursor /\ Discovered.cursor <= signal.target
         /\ \A n \in Records :
              /\ Active(n) /\ ~record[n].waiting /\ n <= signal.target
              /\ n > signal.cursor \/ n \in signal.pending \/ Claimed(n)
              => n > Discovered.cursor \/ n \in Discovered.pending \/ Claimed(n)
<1> DEFINE kept == {n \in signal.pending : Active(n) /\ ~Claimed(n)}
           rest == {n \in Records : Active(n) /\ signal.cursor < n /\ n <= signal.target}
           page == {n \in rest : Cardinality({m \in rest : m <= n}) <= PageSize}
           fresh == {n \in page : ~record[n].waiting /\ ~Claimed(n) /\ n \notin kept}
           room == MaxPending - Cardinality(kept)
           taken == {n \in fresh : Cardinality({m \in fresh : m <= n}) <= room}
           passed == {n \in page : \A m \in fresh \ taken : n < m}
           last == MaxOf(passed \union {signal.cursor})
           all == page = rest /\ Cardinality(kept \union taken) < MaxPending
<1>1. /\ signal.pending \subseteq Records /\ signal.cursor \in Nat /\ signal.target \in Nat
      /\ MaxRecords \in Nat /\ MaxPending \in Nat /\ PageSize \in Nat /\ Records \subseteq Nat
  BY MaintenanceConstants DEF SignalRecord, Records
<1>2. /\ IsFiniteSet(Records)
      /\ \A S \in SUBSET Records : IsFiniteSet(S) /\ Cardinality(S) \in Nat
  <2>1. IsFiniteSet(Records)
    BY <1>1, FS_Interval DEF Records
  <2> QED BY <2>1, FS_Subset, FS_CardinalityType
<1>3. /\ kept \in SUBSET Records /\ rest \in SUBSET Records /\ fresh \in SUBSET Records
      /\ page \in SUBSET Records /\ taken \in SUBSET Records /\ passed \in SUBSET Records
  BY <1>1
<1>4. \/ Discovered = [signal EXCEPT !.pending = kept]
      \/ Discovered = [signal EXCEPT !.pending = kept \union taken,
                                     !.cursor = IF all THEN signal.target ELSE last]
  BY DEF Discovered
<1>5. /\ last \in Nat /\ signal.cursor <= last /\ last <= signal.target
      /\ \A n \in passed : n <= last
      /\ last \in passed \/ last = signal.cursor
  <2> DEFINE from == passed \union {signal.cursor} \union {0}
  <2>4. \A n \in passed : n \in Nat /\ signal.cursor < n /\ n <= signal.target
    <3>1. \A n \in rest : n \in Nat /\ signal.cursor < n /\ n <= signal.target
      BY <1>1
    <3>2. passed \subseteq rest
      OBVIOUS
    <3> HIDE DEF passed, rest
    <3> QED BY <3>1, <3>2
  <2> HIDE DEF passed
  <2>1. from \subseteq 0..signal.target /\ from # {}
    BY <1>1, <2>4
  <2>2. Max(from) \in from /\ \A n \in from : n <= Max(from)
    BY <1>1, <2>1, GreatestOf
  <2>3. last = Max(from)
    BY DEF MaxOf
  <2> QED BY <1>1, <2>1, <2>2, <2>3, <2>4
<1>6. \A n \in rest : \A m \in page : n \notin page => m < n
  <2>1. ASSUME NEW n \in rest, NEW m \in page, n <= m  PROVE n \in page
    <3> DEFINE Upto(k) == {x \in rest : x <= k}
    <3>1. Upto(n) \in SUBSET Upto(m)
      <4>1. rest \subseteq Nat /\ n \in Nat /\ m \in Nat
        BY <1>1, <1>3
      <4>2. \A x \in Nat : x <= n => x <= m
        BY <2>1, <4>1
      <4> QED BY <4>1, <4>2
    <3>2. IsFiniteSet(Upto(m)) /\ Cardinality(Upto(m)) \in Nat /\ Cardinality(Upto(n)) \in Nat
      BY <1>2, <1>3
    <3>3. Cardinality(Upto(m)) <= PageSize
      OBVIOUS
    <3>4. Cardinality(Upto(n)) <= Cardinality(Upto(m))
      <4> HIDE DEF Upto
      <4> QED BY <3>1, <3>2, FS_Subset
    <3>5. Cardinality(Upto(n)) <= PageSize
      <4> HIDE DEF Upto
      <4> QED BY <1>1, <3>2, <3>3, <3>4
    <3> QED BY <3>5
  <2>2. page \subseteq Nat /\ rest \subseteq Nat
    BY <1>1, <1>3
  <2> HIDE DEF page, rest
  <2> QED BY <2>1, <2>2
<1>7. all => fresh \subseteq taken
  <2>1. ASSUME all, NEW n \in fresh, n \notin taken  PROVE FALSE
    <3>1. room \in Int
      BY <1>1, <1>2, <1>3
    <3>2. ~(Cardinality({m \in fresh : m <= n}) <= room)
      BY <2>1
    <3>3. Cardinality(taken) >= room
      <4>1. fresh \in SUBSET Records /\ n \in fresh
        BY <1>3, <2>1
      <4> HIDE DEF fresh, room
      <4> QED BY <4>1, <3>1, <3>2, Crowded
    <3>4. kept \intersect taken = {} /\ Cardinality(kept \intersect taken) = 0
      BY FS_EmptySet
    <3>5. /\ IsFiniteSet(kept) /\ IsFiniteSet(taken)
          /\ Cardinality(kept) \in Nat /\ Cardinality(taken) \in Nat
      BY <1>2, <1>3
    <3>6. Cardinality(kept \union taken) = Cardinality(kept) + Cardinality(taken)
      <4> HIDE DEF kept, taken
      <4>1. Cardinality(kept \union taken) =
              Cardinality(kept) + Cardinality(taken) - Cardinality(kept \intersect taken)
        BY <3>5, FS_Union
      <4> QED BY <3>4, <3>5, <4>1
    <3>7. Cardinality(kept \union taken) < MaxPending
      BY <2>1
    <3>8. room = MaxPending - Cardinality(kept)
      OBVIOUS
    <3> HIDE DEF kept, taken, room
    <3> QED BY <1>1, <3>3, <3>5, <3>6, <3>7, <3>8
  <2> QED BY <2>1
<1>8. ASSUME NEW n \in Records, Active(n), ~record[n].waiting, n <= signal.target,
             ~Claimed(n), n > signal.cursor, n \notin kept, n \notin taken
      PROVE  ~all /\ n > last
  <2>1. n \in rest
    BY <1>8
  <2>2. n \in page => n \in fresh
    BY <1>8
  <2>3. ~all
    BY <1>7, <1>8, <2>1, <2>2
  <2>4. \A m \in passed : m < n
    <3>1. CASE n \in page
      BY <1>8, <2>2, <3>1
    <3>2. CASE n \notin page
      BY <1>6, <2>1, <3>2
    <3> QED BY <3>1, <3>2
  <2> HIDE DEF passed, all
  <2> QED BY <1>1, <1>5, <1>8, <2>3, <2>4
<1>9. \A n \in Records : n \in signal.pending => n \in kept \/ ~Active(n) \/ Claimed(n)
  OBVIOUS
<1> HIDE DEF kept, rest, page, fresh, room, taken, passed, last, all
<1>10. /\ Discovered.target = signal.target
       /\ \/ Discovered.cursor = signal.cursor /\ Discovered.pending = kept
          \/ /\ Discovered.pending = kept \union taken
             /\ Discovered.cursor = IF all THEN signal.target ELSE last
  BY <1>4 DEF SignalRecord
<1>11. signal.cursor <= Discovered.cursor /\ Discovered.cursor <= signal.target
  BY <1>1, <1>5, <1>10
<1>12. ASSUME NEW n \in Records, Active(n), ~record[n].waiting, n <= signal.target,
              n > signal.cursor \/ n \in signal.pending \/ Claimed(n)
       PROVE  n > Discovered.cursor \/ n \in Discovered.pending \/ Claimed(n)
  <2>1. CASE Claimed(n)
    BY <2>1
  <2>2. CASE n \in kept
    BY <1>10, <2>2
  <2>3. CASE ~Claimed(n) /\ n \notin kept
    <3>1. n > signal.cursor
      BY <1>9, <1>12, <2>3
    <3>2. n \in taken \/ (~all /\ n > last)
      BY <1>8, <1>12, <2>3, <3>1
    <3> QED BY <1>10, <3>1, <3>2
  <2> QED BY <2>1, <2>2, <2>3
<1> QED BY <1>10, <1>11, <1>12

\* Preparing a job discovers first.
LEMMA PrepareKeepsSources ==
  ASSUME ReviewInv, SourceInv, Prepare  PROVE SourceInv'
<1>1. UNCHANGED <<record, jobRow, revived>> /\ (signal' = signal \/ signal' = Discovered)
  BY DEF Prepare, MemoryOnly, history
<1>2. CASE signal' = signal
  BY <1>1, <1>2, SourcesStay DEF Claimed
<1>3. CASE signal' = Discovered
  <2>1. signal \in SignalRecord /\ signal.cursor <= signal.target
    BY DEF ReviewInv, MaintenanceShapes, SourceInv, ScanFits
  <2>2. ScanFits'
    BY <1>1, <1>3, <2>1, DiscoveredKeepsSources DEF SourceInv, ScanFits, Latest
  <2>3. NoSourceLost'
    <3>1. ASSUME NEW n \in Records, Active(n), ~record[n].waiting, n <= signal.target, n \notin revived
          PROVE  n > Discovered.cursor \/ n \in Discovered.pending \/ Claimed(n)
      BY <2>1, <3>1, DiscoveredKeepsSources DEF SourceInv, NoSourceLost
    <3>2. Discovered.target = signal.target
      BY <2>1, DiscoveredKeepsSources
    <3> QED BY <1>1, <1>3, <3>1, <3>2 DEF NoSourceLost, Active, Kept, Superseded, Claimed
  <2> QED BY <1>1, <2>2, <2>3 DEF SourceInv
<1> QED BY <1>1, <1>2, <1>3

\* What is no longer pending is claimed.
LEMMA ClaimKeepsSources ==
  ASSUME ReviewInv, SourceInv, Claim  PROVE SourceInv'
<1>1. UNCHANGED <<record, revived>>
  BY DEF Claim, history
<1>2. Assigned \in JobIds
  BY AtWork DEF Claim, At, Working
<1>3. CASE UNCHANGED <<jobRow, signal>>
  BY <1>1, <1>3, SourcesStay DEF Claimed
<1>4. CASE /\ jobRow' = [jobRow EXCEPT ![Assigned] = [state |-> "claimed", epoch |-> epoch,
                                                      config |-> config.revision, result |-> FALSE]]
           /\ signal' = [signal EXCEPT !.pending = @ \ Assigned]
  <2>1. /\ signal'.cursor = signal.cursor /\ signal'.target = signal.target
        /\ signal'.pending = signal.pending \ Assigned
    BY <1>4 DEF ReviewInv, MaintenanceShapes, SignalRecord
  <2>2. jobRow'[Assigned].state # "none" /\ \A j \in JobIds : j # Assigned => jobRow'[j] = jobRow[j]
    BY <1>2, <1>4 DEF ReviewInv, MaintenanceShapes
  <2>3. \A n \in Records : n \in signal.pending \/ Claimed(n) => n \in signal'.pending \/ Claimed(n)'
    BY <1>2, <2>1, <2>2 DEF Claimed
  <2> QED BY <1>1, <2>1, <2>3, SourcesStay
<1> QED BY <1>3, <1>4 DEF Claim

\* The scan goes back before every record whose claim is withdrawn.
LEMMA UnclaimKeepsSources ==
  ASSUME ReviewInv, SourceInv, Unclaim  PROVE SourceInv'
<1>1. UNCHANGED <<record, revived>>
  BY DEF Unclaim, MemoryOnly, history
<1>2. Assigned \in JobIds
  BY AtWork DEF Unclaim, At, Working
<1>3. CASE UNCHANGED <<jobRow, signal>>
  BY <1>1, <1>3, SourcesStay DEF Claimed
<1>4. CASE /\ signal' = [signal EXCEPT !.cursor = Min({@} \union {n - 1 : n \in Assigned})]
           /\ jobRow' = [jobRow EXCEPT ![Assigned] = NoRow]
  <2> DEFINE low == Min({signal.cursor} \union {n - 1 : n \in Assigned})
  <2>1. /\ signal.cursor \in Nat /\ signal.target \in Nat /\ signal.cursor <= signal.target
        /\ signal.target <= Latest /\ signal \in SignalRecord
    BY DEF ReviewInv, MaintenanceShapes, SignalRecord, SourceInv, ScanFits
  <2>2. Assigned \subseteq Nat /\ {signal.cursor} \union {n - 1 : n \in Assigned} \subseteq Nat
    BY <1>2, <2>1, MaintenanceConstants DEF JobIds, Records
  <2>3. low \in Nat /\ low <= signal.cursor /\ \A n \in Assigned : low <= n - 1
    BY <2>2, LeastOf
  <2>4. signal' = [signal EXCEPT !.cursor = low]
    BY <1>4
  <2> HIDE DEF low
  <2>5. signal'.cursor = low /\ signal'.target = signal.target /\ signal'.pending = signal.pending
    BY <2>1, <2>4 DEF SignalRecord
  <2>6. ASSUME NEW n \in Records, Claimed(n), n \notin Assigned  PROVE Claimed(n)'
    BY <1>2, <1>4, <2>6 DEF Claimed, ReviewInv, MaintenanceShapes
  <2>7. ScanFits'
    BY <1>1, <2>1, <2>3, <2>5, LatestIs DEF ScanFits, Latest
  <2>8. NoSourceLost'
    <3>1. ASSUME NEW n \in Records, Active(n), ~record[n].waiting, n <= signal.target, n \notin revived
          PROVE  n > low \/ n \in signal.pending \/ Claimed(n)'
      <4>1. n \in Nat
        BY MaintenanceConstants DEF Records
      <4>2. CASE n \in Assigned
        BY <2>2, <2>3, <4>1, <4>2
      <4>3. CASE n \notin Assigned
        <5>1. n > signal.cursor \/ n \in signal.pending \/ Claimed(n)
          BY <3>1 DEF SourceInv, NoSourceLost
        <5> QED BY <2>1, <2>3, <2>6, <4>1, <4>3, <5>1
      <4> QED BY <4>2, <4>3
    <3> QED BY <1>1, <2>5, <3>1 DEF NoSourceLost, Active, Kept, Superseded
  <2> QED BY <1>1, <2>7, <2>8 DEF SourceInv
<1> QED BY <1>3, <1>4 DEF Unclaim

\* The initial states.
LEMMA ReviewInvInit == MaintenanceInit => ReviewInv /\ SourceInv
<1> SUFFICES ASSUME MaintenanceInit  PROVE ReviewInv /\ SourceInv
  OBVIOUS
<1>1. MaintenanceShapes
  BY MaintenanceConstants DEF MaintenanceInit, MaintenanceShapes, ConfigRecord, SignalRecord,
     RowRecord, NoRow, ChargeRecord, Results, Driver, DriverRecord, DriverPlaces, NoWorker, WorkerRecord
<1>2. Linked /\ CallFits /\ WorkerFits
  BY DEF MaintenanceInit, Linked, CallFits, WorkerFits, At, Driver, NoWorker, Working
<1>3. Unused /\ SentIsKnown /\ SentIsCharged
  BY DEF MaintenanceInit, Unused, SentIsKnown, SentIsCharged
<1>4. ClaimsApart
  BY DEF MaintenanceInit, ClaimsApart, HasRow, NoRow
<1>5. record \in [Records -> RecordRecord]
  BY DEF MaintenanceInit, RecordRecord
<1>6. ScanFits /\ NoSourceLost
  BY <1>1, LatestIs DEF MaintenanceInit, ScanFits, NoSourceLost, Active, Kept
<1> QED BY <1>1, <1>2, <1>3, <1>4, <1>5, <1>6 DEF ReviewInv, SourceInv

\* Every step keeps the account of reviews,
LEMMA ReviewInvStep ==
  ReviewInv /\ [MaintenanceNext]_maintenanceVars => ReviewInv'
<1> SUFFICES ASSUME ReviewInv, [MaintenanceNext]_maintenanceVars  PROVE ReviewInv'
  OBVIOUS
<1>1. CASE HostStep
  BY <1>1, QuietStepsKeepReviews, ForgetKeepsReviews, ConfigureKeepsReviews, SignalKeepsReviews,
     RestsKeepReviews, FreshContextKeepsReviews, HostDiesKeepsReviews DEF HostStep
<1>2. CASE DriverStep
  BY <1>2, RecoverRootKeepsReviews, RecoverJobsKeepsReviews, DueKeepsReviews,
     PrepareKeepsReviews, LinkKeepsReviews, ReserveKeepsReviews,
     BeginLifeKeepsReviews, ReserveCallKeepsReviews, ClaimKeepsReviews, SpawnKeepsReviews,
     PollActiveKeepsReviews, FinishKeepsReviews, ReleaseCallKeepsReviews,
     ReleaseLifeKeepsReviews, UnclaimKeepsReviews, AccountCallKeepsReviews,
     AccountLifeKeepsReviews, CheckpointResultKeepsReviews, CommitKeepsReviews,
     SettleRootKeepsReviews, RestsKeepReviews
  DEF DriverStep
<1>3. CASE WorkerStep
  BY <1>3, WorkerOpensKeepsReviews, WorkerBeginsKeepsReviews, WorkerReservesKeepsReviews,
     WorkerDispatchesKeepsReviews, WorkerWithdrawsKeepsReviews, WorkerDeniesKeepsReviews,
     WorkerPollsKeepsReviews, WorkerRepliesKeepsReviews
  DEF WorkerStep
<1>4. CASE UNCHANGED maintenanceVars
  BY <1>4, Untouched DEF maintenanceVars, memoryStore, owner, history, ReviewInv, MaintenanceShapes
<1> QED BY <1>1, <1>2, <1>3, <1>4 DEF MaintenanceNext

\* A step that leaves records, claims and the scan alone.
LEMMA RestKeepsSources ==
  ASSUME ReviewInv, SourceInv, UNCHANGED <<record, signal, revived>>, RowsStay
  PROVE  SourceInv'
BY RowsStayClaimed, SourcesStay

\* and every step keeps the account of sources.
LEMMA SourceInvStep ==
  ReviewInv /\ SourceInv /\ [MaintenanceNext]_maintenanceVars => SourceInv'
<1> SUFFICES ASSUME ReviewInv, SourceInv, [MaintenanceNext]_maintenanceVars  PROVE SourceInv'
  OBVIOUS
<1>1. CASE AppendRecord \/ Forget \/ Due \/ Prepare \/ Claim \/ Unclaim
  BY <1>1, AppendKeepsSources, ForgetKeepsSources, DueKeepsSources, PrepareKeepsSources,
     ClaimKeepsSources, UnclaimKeepsSources
<1>2. CASE Configure \/ Signal
  <2>1. /\ UNCHANGED <<record, jobRow, revived>>
        /\ signal' = signal \/ signal' = [signal EXCEPT !.target = Latest]
    BY <1>2 DEF Configure, Signal, history
  <2> QED BY <2>1, TargetKeepsSources
<1>3. CASE \/ RecoverRoot \/ RecoverJobs \/ Spawn \/ Finish \/ CheckpointResult \/ Commit
  <2>1. UNCHANGED <<record, signal, revived>>
    BY <1>3 DEF RecoverRoot, RecoverJobs, Spawn, Finish, CheckpointResult, Commit, MemoryOnly,
                history
  <2>2. RowsStay
    <3>1. CASE RecoverRoot
      BY <3>1, RecoverRootKeepsReviews
    <3>2. CASE RecoverJobs
      BY <3>2, RecoverJobsKeepsReviews
    <3>3. CASE Spawn
      BY <3>3, SpawnKeepsReviews
    <3>4. CASE Finish
      BY <3>4, FinishKeepsReviews
    <3>5. CASE CheckpointResult
      BY <3>5, CheckpointResultKeepsReviews
    <3>6. CASE Commit
      BY <3>6, CommitKeepsReviews
    <3> QED BY <1>3, <3>1, <3>2, <3>3, <3>4, <3>5, <3>6
  <2> QED BY <2>1, <2>2, RestKeepsSources
<1>4. CASE \/ CleanJournal \/ CleanOwner \/ ForegroundArrives \/ StartDriver \/ FreshContext \/ HostDies
           \/ Tick \/ GiveWay \/ Link \/ Reserve \/ BeginLife \/ ReserveCall
           \/ PollActive \/ ReleaseCall \/ ReleaseLife \/ AccountCall \/ AccountLife \/ SettleRoot
           \/ WriteFails
  <2>1. UNCHANGED <<record, signal, revived, jobRow>>
    BY <1>4 DEF CleanJournal, CleanOwner, ForegroundArrives, StartDriver, FreshContext,
                HostDies, Tick, GiveWay, Link, Reserve, BeginLife, ReserveCall, PollActive,
                ReleaseCall, ReleaseLife, AccountCall, AccountLife, SettleRoot, WriteFails,
                memoryStore, history, DriverOnly, LedgerOnly, MemoryOnly
  <2> QED BY <2>1, Untouched, RestKeepsSources
<1>5. CASE WorkerStep
  <2>1. UNCHANGED <<record, signal, revived, jobRow>>
    BY <1>5 DEF WorkerStep, WorkerOpens, WorkerBegins, WorkerReserves, WorkerDispatches,
                WorkerWithdraws, WorkerDenies, WorkerPolls, WorkerReplies, WorkerOnly,
                memoryStore
  <2> QED BY <2>1, Untouched, RestKeepsSources
<1>6. CASE UNCHANGED maintenanceVars
  <2>1. UNCHANGED <<record, signal, revived, jobRow>>
    BY <1>6 DEF maintenanceVars, memoryStore, history
  <2> QED BY <2>1, Untouched, RestKeepsSources
<1> QED BY <1>1, <1>2, <1>3, <1>4, <1>5, <1>6 DEF MaintenanceNext, HostStep, DriverStep

\* Both hold in every state.
LEMMA ReviewInvAlways == MaintenanceSpec => [](ReviewInv /\ SourceInv)
<1>1. ReviewInv /\ SourceInv /\ [MaintenanceNext]_maintenanceVars => (ReviewInv /\ SourceInv)'
  BY ReviewInvStep, SourceInvStep
<1> QED BY <1>1, ReviewInvInit, PTL DEF MaintenanceSpec

\* No record is sent for review twice, however the host dies, the user forgets or
\* a write fails between the four databases: what was sent keeps its claim, claims
\* are disjoint, and each claimed job has one call (claim, release_pending).
THEOREM ReviewedOnceAlways == MaintenanceSpec => []ReviewedOnce
<1>1. ReviewInv => ReviewedOnce
  <2> SUFFICES ASSUME ReviewInv, NEW r \in Roots, NEW q \in Roots, r # q,
                      NEW n \in sentIn[r] \intersect sentIn[q]
               PROVE  FALSE
    BY DEF ReviewedOnce
  <2>1. /\ sentIn[r] \in JobIds /\ HasRow(sentIn[r]) /\ driverRoot[sentIn[r]].root = r
        /\ sentIn[q] \in JobIds /\ HasRow(sentIn[q]) /\ driverRoot[sentIn[q]].root = q
    BY DEF ReviewInv, SentIsKnown
  <2> QED BY <2>1 DEF ReviewInv, ClaimsApart
<1> QED BY <1>1, ReviewInvAlways, PTL

\* A call whose records may have reached the provider is never released or
\* confirmed as undelivered (release_undispatched_maintenance).
THEOREM SentIsChargedAlways == MaintenanceSpec => []SentIsCharged
<1>1. ReviewInv => SentIsCharged
  BY DEF ReviewInv
<1> QED BY <1>1, ReviewInvAlways, PTL

\* No current record up to the target is passed by the scan without being selected
\* or claimed, for every page size and every limit of pending records
\* (Store::discover, release_pending, due_revisits).
THEOREM NoSourceLostAlways == MaintenanceSpec => []NoSourceLost
<1>1. SourceInv => NoSourceLost
  BY DEF SourceInv
<1> QED BY <1>1, ReviewInvAlways, PTL

=============================================================================
