----------------------------- MODULE ExpertCards -----------------------------
(***************************************************************************)
(* The expert cards of one provider's conversations (expert_refresh.rs,    *)
(* experts.rs, store.rs).  A card is written by an interview, which forks  *)
(* the conversation and asks a model for minutes, or by the conversation's *)
(* own agent.  The timer interviews missing cards only, out of the weekly  *)
(* quota, and leaves a row for each attempt of a quota cycle so that no    *)
(* other refresher repeats it.  Each run is a process of its own; between  *)
(* its steps the conversation goes on, other runs write the same card, and *)
(* the user untracks the conversation or clears its card.                  *)
(*                                                                         *)
(* A transcript is a number of turns, and what a card says of the scope or *)
(* of the current work is named after the turn it was composed at.         *)
(***************************************************************************)
EXTENDS Naturals, FiniteSets

CONSTANTS
  Conversations,   \* of one provider
  Runs,            \* `pika expert` processes, each run once
  MaxTurns,        \* bounds on the length of a transcript,
  MaxCycles,       \* on weekly quota cycles,
  MaxUntracks      \* and on how often a conversation is untracked

ASSUME ExpertConstants == {MaxTurns, MaxUntracks} \subseteq Nat /\ MaxCycles \in Nat \ {0}

VARIABLES
  turns,       \* each transcript; none is durable before the first turn
  watched,     \* untracked_sessions
  card,        \* expert_profiles
  attempt,     \* expert_refresh_attempts, by the cycle's reset_at
  cycle,       \* the weekly cycle of the provider's quota
  run,         \* what each process is at
  untracks,    \* how often each conversation was untracked
  interviews   \* history: scheduled interviews of each conversation in each cycle

expertVars == <<turns, watched, card, attempt, cycle, run, untracks, interviews>>

Cycles == 1..MaxCycles
Turns == 1..MaxTurns
\* Two fields are history: the turns that the interview saw, and whether the print
\* was taken for the agent's own words since.
NoCard == [scope |-> 0, work |-> 0, source |-> "none", print |-> 0, workPrint |-> 0,
           seen |-> 0, attested |-> FALSE]
Attempts == {"none", "STARTED", "REFRESHED", "FAILED"}
Purposes == {"due", "refresh", "publish", "update"}

ExpertInit ==
  /\ turns = [c \in Conversations |-> 0]
  /\ watched = [c \in Conversations |-> TRUE]
  /\ card = [c \in Conversations |-> NoCard]
  /\ attempt = [c \in Conversations |-> [y \in Cycles |-> "none"]]
  /\ cycle = 1
  /\ \E purpose \in [Runs -> Purposes] :
       run = [r \in Runs |-> [at |-> "idle", for |-> purpose[r], missing |-> {}, of |-> {},
                              cycle |-> 1, card |-> NoCard]]
  /\ untracks = [c \in Conversations |-> 0]
  /\ interviews = [c \in Conversations |-> [y \in Cycles |-> 0]]

NotInterviewed(c) == card[c] = NoCard /\ turns[c] > 0
Stale(c) == card[c] # NoCard /\ turns[c] > 0 /\ (card[c].work = 0 \/ card[c].print # turns[c])

RunAt(r, here) == run[r].at = here
GoTo(r, next) == run' = [run EXCEPT ![r].at = next]
Scheduled(r) == run[r].for = "due"
RunOnly == UNCHANGED <<turns, watched, card, attempt, cycle, untracks, interviews>>

-----------------------------------------------------------------------------
(* Around the runs.                                                        *)

\* The conversation goes on.
Turn(c) ==
  /\ turns[c] < MaxTurns
  /\ turns' = [turns EXCEPT ![c] = @ + 1]
  /\ UNCHANGED <<watched, card, attempt, cycle, run, untracks, interviews>>

NextCycle ==
  /\ cycle < MaxCycles
  /\ cycle' = cycle + 1
  /\ UNCHANGED <<turns, watched, card, attempt, run, untracks, interviews>>

\* untrack_session forgets the attempts and keeps the card.
Untrack(c) ==
  /\ watched[c] /\ untracks[c] < MaxUntracks
  /\ watched' = [watched EXCEPT ![c] = FALSE]
  /\ attempt' = [attempt EXCEPT ![c] = [y \in Cycles |-> "none"]]
  /\ untracks' = [untracks EXCEPT ![c] = @ + 1]
  /\ UNCHANGED <<turns, card, cycle, run, interviews>>

Track(c) ==
  /\ ~watched[c]
  /\ watched' = [watched EXCEPT ![c] = TRUE]
  /\ UNCHANGED <<turns, card, attempt, cycle, run, untracks, interviews>>

\* `pika expert clear`
Clear(c) ==
  /\ card[c] # NoCard
  /\ card' = [card EXCEPT ![c] = NoCard]
  /\ UNCHANGED <<turns, watched, attempt, cycle, run, untracks, interviews>>

-----------------------------------------------------------------------------
(* A scheduled refresh.                                                    *)

\* refresh_due reads the cards of the watched conversations.
ReadCards(r) ==
  /\ RunAt(r, "idle") /\ Scheduled(r)
  /\ run' = [run EXCEPT ![r].missing = {c \in Conversations : watched[c] /\ NotInterviewed(c)},
                        ![r].at = "quota"]
  /\ RunOnly

\* Without fresh telemetry, before the last hours of the cycle, or at the
\* reserve, nothing is spent.
ReadQuota(r) ==
  /\ RunAt(r, "quota")
  /\ \/ /\ run[r].missing # {}
        /\ run' = [run EXCEPT ![r].cycle = cycle, ![r].at = "choose"]
     \/ GoTo(r, "done")
  /\ RunOnly

\* The order of preference is by activity.
ChooseMissing(r) ==
  /\ RunAt(r, "choose")
  /\ LET untried == {c \in run[r].missing : attempt[c][run[r].cycle] = "none"} IN
     \/ \E c \in untried : run' = [run EXCEPT ![r].of = {c}, ![r].at = "claim"]
     \/ untried = {} /\ GoTo(r, "done")
  /\ RunOnly

Of(r) == CHOOSE c \in Conversations : c \in run[r].of

\* Fault: the attempt is recorded, whoever recorded one before.
ClaimAttemptAnyway(r) ==
  /\ RunAt(r, "claim")
  /\ attempt' = [attempt EXCEPT ![Of(r)][run[r].cycle] = "STARTED"]
  /\ GoTo(r, "print")
  /\ UNCHANGED <<turns, watched, card, cycle, untracks, interviews>>

\* claim_expert_refresh_attempt
ClaimAttempt(r) ==
  /\ RunAt(r, "claim")
  /\ LET c == Of(r)
         y == run[r].cycle
     IN  \/ /\ attempt[c][y] = "none"
            /\ attempt' = [attempt EXCEPT ![c][y] = "STARTED"]
            /\ GoTo(r, "print")
         \/ /\ attempt[c][y] # "none"
            /\ GoTo(r, "done")
            /\ UNCHANGED attempt
  /\ UNCHANGED <<turns, watched, card, cycle, untracks, interviews>>

-----------------------------------------------------------------------------
(* An interview, scheduled or asked for.                                   *)

\* refresh_selected claims nothing.
ReadCard(r) ==
  /\ RunAt(r, "idle") /\ run[r].for = "refresh"
  /\ \E c \in Conversations :
       /\ watched[c] /\ (NotInterviewed(c) \/ Stale(c))
       /\ run' = [run EXCEPT ![r].of = {c}, ![r].at = "print"]
  /\ RunOnly

\* The print of the transcript is taken before the model reads it.
TakePrint(r) ==
  /\ RunAt(r, "print")
  /\ run' = [run EXCEPT ![r].card = [NoCard EXCEPT !.source = "interview", !.print = turns[Of(r)]],
                        ![r].at = "ask"]
  /\ RunOnly

\* The model may confirm what the card says already.
Ask(r) ==
  /\ RunAt(r, "ask")
  /\ LET c == Of(r) IN
     /\ \E scope \in {turns[c], card[c].scope} \ {0}, work \in {turns[c], card[c].work} \ {0} :
          run' = [run EXCEPT ![r].card.scope = scope, ![r].card.work = work,
                             ![r].card.seen = turns[c], ![r].at = "answer"]
     /\ interviews' = IF Scheduled(r) THEN [interviews EXCEPT ![c][run[r].cycle] = @ + 1]
                      ELSE interviews
  /\ UNCHANGED <<turns, watched, card, attempt, cycle, untracks>>

\* A failed or malformed interview keeps the saved card.
InterviewFails(r) ==
  /\ RunAt(r, "answer")
  /\ GoTo(r, IF Scheduled(r) THEN "failed" ELSE "done")
  /\ RunOnly

\* put_expert_profile.  What changes nothing only renews the print, and only a
\* card that is an interview's may do that, its agent's update of it included.
Put(old, new) ==
  IF old # NoCard /\ old.scope = new.scope /\ old.work = new.work
  THEN IF new.source = "interview"
       THEN [old EXCEPT !.print = new.print, !.workPrint = new.print,
                        !.seen = IF new.attested THEN @ ELSE new.seen,
                        !.attested = new.attested]
       ELSE old
  ELSE [new EXCEPT !.workPrint =
         IF old.work # new.work \/ new.source = "interview" THEN new.print ELSE old.workPrint]

\* Fault: the card is stored with the print of the transcript as it is now.
StoreCardPrintedLate(r) ==
  /\ RunAt(r, "answer")
  /\ card' = [card EXCEPT ![Of(r)] = Put(@, [run[r].card EXCEPT !.print = turns[Of(r)]])]
  /\ GoTo(r, IF Scheduled(r) THEN "refreshed" ELSE "done")
  /\ UNCHANGED <<turns, watched, attempt, cycle, untracks, interviews>>

StoreCard(r) ==
  /\ RunAt(r, "answer")
  /\ card' = [card EXCEPT ![Of(r)] = Put(@, run[r].card)]
  /\ GoTo(r, IF Scheduled(r) THEN "refreshed" ELSE "done")
  /\ UNCHANGED <<turns, watched, attempt, cycle, untracks, interviews>>

\* put_expert_refresh_attempt, whether or not the claim is still there.
RecordAttempt(r) ==
  /\ run[r].at \in {"refreshed", "failed"}
  /\ attempt' = [attempt EXCEPT ![Of(r)][run[r].cycle] =
       IF RunAt(r, "refreshed") THEN "REFRESHED" ELSE "FAILED"]
  /\ GoTo(r, "done")
  /\ UNCHANGED <<turns, watched, card, cycle, untracks, interviews>>

-----------------------------------------------------------------------------
(* The agent of a conversation writes its own card.                        *)

\* publish: the card as a whole; update (publish_current_work): the card as it
\* is read now, with other work; an interview's card stays an interview's.
Compose(r) ==
  /\ RunAt(r, "idle") /\ run[r].for \in {"publish", "update"}
  /\ \E c \in Conversations :
       /\ turns[c] > 0
       /\ LET new == IF run[r].for = "publish"
                     THEN [NoCard EXCEPT !.source = "self", !.scope = turns[c], !.work = turns[c]]
                     ELSE [card[c] EXCEPT !.work = turns[c]]
          IN  /\ run[r].for = "update" => card[c] # NoCard /\ card[c].work # turns[c]
              /\ run' = [run EXCEPT ![r].of = {c}, ![r].card = new, ![r].at = "publish"]
  /\ RunOnly

\* The print is taken when the card is written.
Publish(r) ==
  /\ RunAt(r, "publish")
  /\ LET c == Of(r) IN
     card' = [card EXCEPT ![c] =
       Put(@, [run[r].card EXCEPT !.print = turns[c], !.attested = TRUE])]
  /\ GoTo(r, "done")
  /\ UNCHANGED <<turns, watched, attempt, cycle, untracks, interviews>>

\* A killed run leaves its claim STARTED: it is not repeated in this cycle.
KillRun(r) ==
  /\ run[r].at \notin {"idle", "done"}
  /\ GoTo(r, "done")
  /\ RunOnly

ExpertNext ==
  \/ \E c \in Conversations : Turn(c) \/ Untrack(c) \/ Track(c) \/ Clear(c)
  \/ NextCycle
  \/ \E r \in Runs :
       \/ ReadCards(r) \/ ReadQuota(r) \/ ChooseMissing(r) \/ ClaimAttempt(r)
       \/ ReadCard(r) \/ TakePrint(r) \/ Ask(r) \/ InterviewFails(r) \/ StoreCard(r)
       \/ RecordAttempt(r) \/ Compose(r) \/ Publish(r) \/ KillRun(r)

ExpertSpec == ExpertInit /\ [][ExpertNext]_expertVars

-----------------------------------------------------------------------------
(* Properties.                                                             *)

Cards == [scope : 0..MaxTurns, work : 0..MaxTurns, source : {"none", "self", "interview"},
          print : 0..MaxTurns, workPrint : 0..MaxTurns, seen : 0..MaxTurns, attested : BOOLEAN]

\* The tables keep their schema, and a run that claimed knows its conversation.
ExpertTypeOK ==
  /\ turns \in [Conversations -> 0..MaxTurns]
  /\ card \in [Conversations -> Cards]
  /\ attempt \in [Conversations -> [Cycles -> Attempts]]
  /\ cycle \in 0..MaxCycles
  /\ \A r \in Runs : run[r].at \in {"claim", "print", "ask", "answer"} => Cardinality(run[r].of) = 1

\* "Atomically reserve one provider/reset-cycle interview before quota is
\* spent": in a cycle a conversation is interviewed by the timer once, whoever
\* else's timer fires, fails, or dies; only untracking it allows another one.
AttemptedOnce ==
  \A c \in Conversations, y \in Cycles : interviews[c][y] <= 1 + untracks[c]

\* A card by an interview never passes for CURRENT (card_state) on turns that
\* the interview did not see, however long it took and whatever was written
\* meanwhile, until its agent updates it: `pika expert update` takes the print of
\* the transcript as it is then and leaves the card the interview's, and from
\* there to the next interview the agent answers for the turns between.
ClaimsWhatItSaw ==
  \A c \in Conversations :
    card[c].source = "interview" /\ ~card[c].attested => card[c].print <= card[c].seen
=============================================================================
