---------------------------- MODULE CallAllowance ----------------------------
(***************************************************************************)
(* The policy ledger of provider calls (assistant_policy.rs).  A request   *)
(* reserves a root that is never sent itself: it is an envelope charged    *)
(* against the user's allowance.  Its children, the planning turn and the  *)
(* synthesis that may follow it, are reserved inside it and are what is    *)
(* sent.  Foreground requests only: the background budget is left out.     *)
(*                                                                         *)
(* Each operator is one transaction; Can... is the condition under which   *)
(* it commits instead of returning Denied.  `late' says that the time the  *)
(* caller passes is past the root's deadline, which children inherit.      *)
(***************************************************************************)
EXTENDS Integers, FiniteSets, FiniteSetsExt

CONSTANTS
  Requests,       \* the user's requests, by request id
  MaxConcurrent   \* policy_config.max_concurrent

ASSUME AllowanceConstants == MaxConcurrent \in Nat \ {0}

VARIABLES
  allowance,     \* policy_config.max_total_calls
  reservation,   \* assistant_reservations.state, "none" without a row
  calls          \* assistant_reservations.calls of each root

policyVars == <<allowance, reservation, calls>>

Children == {"main", "synthesis"}
Roles == {"root"} \cup Children
Claims == {"reserved", "dispatched"}
Verdicts == {"completed", "failed", "unknown"}
ReservationStates == Claims \cup Verdicts \cup {"none", "released"}

AllowanceInit ==
  /\ allowance = 0
  /\ reservation = [q \in Requests |-> [r \in Roles |-> "none"]]
  /\ calls = [q \in Requests |-> 0]

IsCharged(state) == state \notin {"none", "released"}

\* What all roots together hold of the allowance.
Charged ==
  MapThenSumSet(LAMBDA q : calls[q], {q \in Requests : IsCharged(reservation[q]["root"])})

\* The children of a root that use up its calls.
Spent(q) == {c \in Children : IsCharged(reservation[q][c])}

HasChild(q) == \E c \in Children : reservation[q][c] # "none"

\* What counts against max_concurrent: an envelope does not once it has a
\* child, and is not counted against its own children.
Occupied(envelopes) ==
  {claim \in Requests \X Roles :
     /\ reservation[claim[1]][claim[2]] \in Claims
     /\ claim[2] = "root" => claim[1] \notin envelopes /\ ~HasChild(claim[1])}

CanReserveRoot(q) ==
  /\ reservation[q]["root"] = "none"
  /\ allowance # 0
  /\ Charged + 1 <= allowance
  /\ Cardinality(Occupied({})) < MaxConcurrent

ReserveRoot(q) ==
  /\ reservation' = [reservation EXCEPT ![q]["root"] = "reserved"]
  /\ calls' = [calls EXCEPT ![q] = 1]

CanReserveChild(q, child, late) ==
  /\ reservation[q][child] = "none"
  /\ reservation[q]["root"] = "reserved"
  /\ ~late
  /\ Cardinality(Spent(q)) + 1 <= calls[q]
  /\ Cardinality(Occupied({q})) < MaxConcurrent

ReserveChild(q, child) ==
  reservation' = [reservation EXCEPT ![q][child] = "reserved"]

\* A root of one call may grow once, after its only child has completed.
CanExtendRoot(q, late) ==
  /\ reservation[q]["root"] = "reserved"
  /\ ~late
  /\ calls[q] = 1
  /\ Cardinality({c \in Children : reservation[q][c] = "completed"}) = 1
  /\ \A c \in Spent(q) : reservation[q][c] = "completed"
  /\ Charged + 1 <= allowance

\* Fault: the planning call is counted again in the extension.
ExtendRootTwice(q) == calls' = [calls EXCEPT ![q] = @ + 2]

ExtendRoot(q) == calls' = [calls EXCEPT ![q] = @ + 1]

CanMarkDispatched(q, child, late) ==
  /\ reservation[q][child] = "reserved"
  /\ reservation[q]["root"] = "reserved"
  /\ ~late
  /\ allowance # 0
  /\ Charged <= allowance

MarkDispatched(q, child) ==
  reservation' = [reservation EXCEPT ![q][child] = "dispatched"]

\* validate_actual_dispatch, with the policy database locked for the send.
CanSend(q, child, late) ==
  /\ reservation[q][child] = "dispatched"
  /\ reservation[q]["root"] = "reserved"
  /\ ~late

CanRecord(q, role) == reservation[q][role] \in Claims

RecordOutcome(q, role, outcome) ==
  reservation' = [reservation EXCEPT ![q][role] = outcome]

CanRelease(q, child) == reservation[q][child] = "reserved"

Release(q, child) ==
  reservation' = [reservation EXCEPT ![q][child] = "released"]

Configure(n) == allowance' = n
=============================================================================
