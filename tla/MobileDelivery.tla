---------------------------- MODULE MobileDelivery ---------------------------
(***************************************************************************)
(* What a phone asks of a computer: messages and answers for a             *)
(* conversation, and new conversations (mobile.rs, mobile_delivery.rs,     *)
(* mobile_codex.rs, mobile_claude_channel.rs).  Every connection of the    *)
(* phone has a server process, `pika _mobile`, that handles one request    *)
(* after the other; all of them share the journal in the profile's         *)
(* database.  A phone that has lost the connection, and perhaps the        *)
(* answer, comes back through another server with the operation's ID.      *)
(***************************************************************************)
EXTENDS Naturals, FiniteSets

CONSTANTS
  Sends,        \* messages for conversations on a shared Codex server
  NativeSends,  \* messages for a conversation in a native Claude terminal
  Answers,      \* answers and approvals for a provider's question
  Creations,    \* conversations to create, of one name in one project
  Servers,
  MaxSends,     \* bound on the times one operation is dispatched
  MaxLaunches,  \* bound on the launches of the native terminal
  Nothing

Operations == Sends \union NativeSends \union Answers \union Creations

\* An operation's ID is of one kind.
ASSUME MobileConstants ==
  /\ \A o \in Operations :
       /\ o \in Sends => o \notin NativeSends \union Answers \union Creations
       /\ o \in NativeSends => o \notin Answers \union Creations
       /\ o \in Answers => o \notin Creations
       /\ o # Nothing
  /\ {MaxSends, MaxLaunches} \subseteq Nat

VARIABLES
  deliveries,   \* mobile_deliveries: the outcome of each operation
  reservation,  \* mobile_creation_reservations: who holds the name
  server,       \* what each server does
  sent,         \* how often each operation was written to a provider
  request,      \* that request, seen from the provider
  home,         \* the launch of a created conversation's home
  named,        \* the created conversations that bear the name
  channel,      \* the native channel's record of each message
  route         \* the native terminal: its launch, and claude-channel:route

mobileVars == <<deliveries, reservation, server, sent, request, home, named, channel, route>>
providerVars == <<sent, request>>
creationVars == <<reservation, home, named>>
nativeVars == <<channel, route>>

Waiting == [at |-> "idle", op |-> Nothing, result |-> Nothing]

\* token: the launch whose endpoint the message was written to.
NewMessage == [token |-> 0, at |-> "unseen", attested |-> Nothing]

MobileInit ==
  /\ deliveries = [o \in Operations |-> "absent"]
  /\ reservation = Nothing
  /\ server = [s \in Servers |-> Waiting]
  /\ sent = [o \in Operations |-> 0]
  /\ request = [o \in Operations |-> "unsent"]
  /\ home = [o \in Creations |-> "none"]
  /\ named = {}
  /\ channel = [o \in NativeSends |-> NewMessage]
  /\ route = [token |-> 1, open |-> TRUE]

ServerAt(s, here) == server[s].at = here
Op(s) == server[s].op
ServerTo(s, next) == server' = [server EXCEPT ![s].at = next]
Done(s) == server' = [server EXCEPT ![s] = Waiting]

\* The handler has its outcome, and stores it.
Outcome(s, result) ==
  server' = [server EXCEPT ![s].at = "persist", ![s].result = result]

\* The handler ends with an error, which emit_response makes
\* "rejected_before_dispatch".
Refuse(s) == ServerTo(s, "refused")

-----------------------------------------------------------------------------
(* A request up to its admission.                                          *)

\* What a handler looks at before Journal::begin, in this order.  owner: the
\* selected conversation's server or terminal is still its owner and has it
\* loaded, or the project is still on the board.
Following(o) ==
  CASE o \in Sends -> [submit |-> "owner", owner |-> "lookup", lookup |-> "begin"]
    [] o \in NativeSends -> [submit |-> "lookup", lookup |-> "owner", owner |-> "begin"]
    [] OTHER -> [submit |-> "owner", owner |-> "begin"]

Submit(s, o) ==
  /\ ServerAt(s, "idle")
  /\ server' = [server EXCEPT ![s] = [Waiting EXCEPT !.at = Following(o).submit, !.op = o]]
  /\ UNCHANGED <<deliveries, providerVars, creationVars, nativeVars>>

CheckOwner(s) ==
  /\ ServerAt(s, "owner")
  /\ ServerTo(s, Following(Op(s)).owner) \/ Refuse(s)
  /\ UNCHANGED <<deliveries, providerVars, creationVars, nativeVars>>

\* A prior receipt is the answer.
Lookup(s) ==
  /\ ServerAt(s, "lookup")
  /\ \/ deliveries[Op(s)] # "absent" /\ Done(s)
     \/ deliveries[Op(s)] = "absent" /\ ServerTo(s, Following(Op(s)).lookup)
  /\ UNCHANGED <<deliveries, providerVars, creationVars, nativeVars>>

\* What follows admission.
Admitted(o) ==
  CASE o \in Sends \union Answers -> "reload"
    [] o \in NativeSends -> "dispatch"
    [] o \in Creations -> "reserve"

\* Fault: a lookup said that there is no receipt, and none is looked for again.
BeginUnchecked(s) ==
  /\ ServerAt(s, "begin")
  /\ deliveries' = [deliveries EXCEPT ![Op(s)] = "unknown"]
  /\ ServerTo(s, Admitted(Op(s)))
  /\ UNCHANGED <<providerVars, creationVars, nativeVars>>

\* Journal::begin, one immediate transaction; it, or what prepares the message
\* before it, may fail.
Begin(s) ==
  /\ ServerAt(s, "begin")
  /\ \/ /\ deliveries[Op(s)] = "absent"
        /\ deliveries' = [deliveries EXCEPT ![Op(s)] = "unknown"]
        /\ ServerTo(s, Admitted(Op(s)))
     \/ /\ deliveries[Op(s)] # "absent"
        /\ Done(s)
        /\ UNCHANGED deliveries
     \/ Refuse(s) /\ UNCHANGED deliveries
  /\ UNCHANGED <<providerVars, creationVars, nativeVars>>

\* emit_response
EmitRefusal(s) ==
  /\ ServerAt(s, "refused")
  /\ Done(s)
  /\ UNCHANGED <<deliveries, providerVars, creationVars, nativeVars>>

\* The connection or the process ends anywhere; what the provider has been
\* sent it may still take.
ServerEnds(s) ==
  /\ ~ServerAt(s, "idle")
  /\ Done(s)
  /\ UNCHANGED <<deliveries, providerVars, creationVars, nativeVars>>

-----------------------------------------------------------------------------
(* Dispatch and outcome.                                                   *)

\* The owner is looked at once more; an error still counts as a refusal.
Reload(s) ==
  /\ ServerAt(s, "reload")
  /\ ServerTo(s, "dispatch") \/ Refuse(s)
  /\ UNCHANGED <<deliveries, providerVars, creationVars, nativeVars>>

Write(o) ==
  /\ sent[o] < MaxSends
  /\ sent' = [sent EXCEPT ![o] = @ + 1]
  /\ request' = [request EXCEPT ![o] = "wire"]

\* An answer's outcome is that it was written.  A write that fails, or a
\* native owner that has gone, leaves the outcome unknown.
Dispatch(s) ==
  /\ ServerAt(s, "dispatch")
  /\ \/ /\ Write(Op(s))
        /\ IF Op(s) \in Answers THEN Outcome(s, "submitted") ELSE ServerTo(s, "await")
        /\ channel' = [o \in NativeSends |->
             IF o = Op(s) THEN [channel[o] EXCEPT !.token = route.token] ELSE channel[o]]
     \/ Outcome(s, "unknown") /\ UNCHANGED <<providerVars, channel>>
  /\ UNCHANGED <<deliveries, creationVars, route>>

\* External: the provider takes a request or refuses it, however late.
ProviderDecides(o) ==
  /\ o \notin NativeSends /\ request[o] = "wire"
  /\ \E verdict \in {"taken", "refused"} : request' = [request EXCEPT ![o] = verdict]
  /\ UNCHANGED <<deliveries, server, sent, creationVars, nativeVars>>

\* channel::thread_receipt
NativeReceipt(o) == IF channel[o].at = "replied" THEN "delivered" ELSE "unknown"

\* Fault: every error is taken for the provider's.
MessageOutcomeGuessed(o) ==
  IF request[o] = "taken" THEN {"accepted", "rejected"} ELSE {"rejected"}

\* message_outcome: the provider's answer, an error that is the provider's,
\* or any other error, a lost or late answer for instance.
MessageOutcome(o) ==
  {"unknown"} \union
    CASE o \in NativeSends -> {NativeReceipt(o)}
      [] request[o] = "taken" -> {"accepted"}
      [] request[o] = "refused" -> {"rejected"}
      [] OTHER -> {}

AwaitAnswer(s) ==
  /\ ServerAt(s, "await") /\ Op(s) \notin Creations
  /\ \E result \in MessageOutcome(Op(s)) : Outcome(s, result)
  /\ UNCHANGED <<deliveries, providerVars, creationVars, nativeVars>>

\* persist_outcome.  A write that fails is answered with "unknown".
Persist(s) ==
  /\ ServerAt(s, "persist")
  /\ deliveries' = [deliveries EXCEPT ![Op(s)] = server[s].result] \/ UNCHANGED deliveries
  /\ Done(s)
  /\ UNCHANGED <<providerVars, creationVars, nativeVars>>

-----------------------------------------------------------------------------
(* Receipts: the phone asks what has become of an operation.               *)

\* receipt: of a message that is not settled the provider is asked.
AskReceipt(s, o) ==
  /\ ServerAt(s, "idle")
  /\ o \in Sends \union NativeSends /\ deliveries[o] \in {"accepted", "unknown"}
  /\ server' = [server EXCEPT ![s] = [Waiting EXCEPT !.at = "reconcile", !.op = o]]
  /\ UNCHANGED <<deliveries, providerVars, creationVars, nativeVars>>

\* reconcile_delivery, native_receipt
Reconcile(s) ==
  /\ ServerAt(s, "reconcile")
  /\ LET o == Op(s) IN
     \/ o \in Sends /\ request[o] = "taken" /\ Outcome(s, "delivered")
     \/ o \in NativeSends /\ channel[o].at # "unseen" /\ Outcome(s, NativeReceipt(o))
     \/ Done(s)
  /\ UNCHANGED <<deliveries, providerVars, creationVars, nativeVars>>

\* creation_receipt: certified_creation finds the launch complete.
AskCreation(s, o) ==
  /\ ServerAt(s, "idle")
  /\ o \in Creations /\ deliveries[o] = "unknown" /\ home[o] = "bound"
  /\ server' = [server EXCEPT ![s] = [Waiting EXCEPT !.at = "certified", !.op = o]]
  /\ UNCHANGED <<deliveries, providerVars, creationVars, nativeVars>>

\* The name is released when the receipt has been stored.
StoreCertified(s) ==
  /\ ServerAt(s, "certified")
  /\ \/ deliveries' = [deliveries EXCEPT ![Op(s)] = "created"] /\ ServerTo(s, "clear")
     \/ UNCHANGED deliveries /\ Done(s)
  /\ UNCHANGED <<providerVars, creationVars, nativeVars>>

\* finish_creation; an error is ignored.
FreeName(o) ==
  \/ reservation' = IF reservation = o THEN Nothing ELSE reservation
  \/ UNCHANGED reservation

ClearName(s) ==
  /\ ServerAt(s, "clear")
  /\ FreeName(Op(s))
  /\ Done(s)
  /\ UNCHANGED <<deliveries, providerVars, home, named, nativeVars>>

-----------------------------------------------------------------------------
(* Creation of a conversation.                                             *)

\* reserve_creation; any error of it is a rejection.
ReserveName(s) ==
  /\ ServerAt(s, "reserve")
  /\ \/ reservation = Nothing /\ reservation' = Op(s) /\ ServerTo(s, "resolve")
     \/ Outcome(s, "rejected") /\ UNCHANGED reservation
  /\ UNCHANGED <<deliveries, providerVars, home, named, nativeVars>>

\* creation_outcome: a rejection releases the name and is stored.
Rejected(s) ==
  server' = [server EXCEPT ![s].at = "release", ![s].result = "rejected"]

\* Fault: the name is released whenever the creation has failed.
UndecidedReleased(s) ==
  server' = [server EXCEPT ![s].at = "release", ![s].result = "unknown"]

\* creation_outcome: once the provider may have the conversation, the name
\* stays reserved.
Undecided(s) == Outcome(s, "unknown")

\* resolve_local finds watched, forgotten and unconfirmed conversations, and
\* the provider's own names.
NameTaken == named # {} \/ \E o \in Creations : home[o] = "bound"

\* resolve_local, start_creation_daemon, connect_server: nothing has been
\* attempted yet.
ResolveName(s) ==
  /\ ServerAt(s, "resolve")
  /\ \/ ~NameTaken /\ ServerTo(s, "start")
     \/ Rejected(s)
  /\ UNCHANGED <<deliveries, providerVars, creationVars, nativeVars>>

StartThread(s) ==
  /\ ServerAt(s, "start")
  /\ \/ Write(Op(s)) /\ ServerTo(s, "thread")
     \/ Undecided(s) /\ UNCHANGED providerVars
  /\ UNCHANGED <<deliveries, creationVars, nativeVars>>

AwaitThread(s) ==
  /\ ServerAt(s, "thread")
  /\ \/ request[Op(s)] = "taken" /\ ServerTo(s, "identity")
     \/ request[Op(s)] = "refused" /\ Rejected(s)
     \/ Undecided(s)
  /\ UNCHANGED <<deliveries, providerVars, creationVars, nativeVars>>

\* The conversation's ID is stored before anything is done with it.
StoreIdentity(s) ==
  /\ ServerAt(s, "identity")
  /\ \/ deliveries' = [deliveries EXCEPT ![Op(s)] = "unknown"] /\ ServerTo(s, "launch")
     \/ UNCHANGED deliveries /\ Undecided(s)
  /\ UNCHANGED <<providerVars, creationVars, nativeVars>>

\* materialize_created_thread and new_shared_codex_home up to the provider's
\* start.
LaunchHome(s) ==
  /\ ServerAt(s, "launch")
  /\ \/ /\ ~NameTaken
        /\ home' = [home EXCEPT ![Op(s)] = "pending"]
        /\ ServerTo(s, "certify") \/ Undecided(s)
     \/ Undecided(s) /\ UNCHANGED home
  /\ UNCHANGED <<deliveries, providerVars, reservation, named, nativeVars>>

\* finish_reserved_launch: a home that is not seen in time stays pending, and
\* the creation goes on all the same.
CertifyHome(s) ==
  /\ ServerAt(s, "certify")
  /\ \/ home[Op(s)] = "pending" /\ home' = [home EXCEPT ![Op(s)] = "bound"]
     \/ UNCHANGED home
  /\ ServerTo(s, "name") \/ Undecided(s)
  /\ UNCHANGED <<deliveries, providerVars, reservation, named, nativeVars>>

\* Reconciliation or a hook completes the launch, or retires a dead one
\* (LaunchLedger).
LaunchSettles(o) ==
  /\ o \in Creations /\ home[o] = "pending"
  /\ \E end \in {"bound", "retired"} : home' = [home EXCEPT ![o] = end]
  /\ UNCHANGED <<deliveries, reservation, server, providerVars, named, nativeVars>>

\* thread/name/set; its answer may be lost.
NameThread(s) ==
  /\ ServerAt(s, "name")
  /\ \/ /\ named' = named \union {Op(s)}
        /\ \/ server' = [server EXCEPT ![s].at = "release", ![s].result = "created"]
           \/ Undecided(s)
     \/ UNCHANGED named /\ Undecided(s)
  /\ UNCHANGED <<deliveries, providerVars, reservation, home, nativeVars>>

ReleaseName(s) ==
  /\ ServerAt(s, "release")
  /\ FreeName(Op(s))
  /\ ServerTo(s, "persist")
  /\ UNCHANGED <<deliveries, providerVars, home, named, nativeVars>>

-----------------------------------------------------------------------------
(* The native channel: an MCP server in the terminal's process tree.  The  *)
(* message itself is handed out only when the model fetches it.            *)

\* require_authority, check_route
Authorized(o) == route.open /\ channel[o].token = route.token

NativeStep(o, message) ==
  /\ channel' = [channel EXCEPT ![o] = message]
  /\ UNCHANGED <<deliveries, server, sent, creationVars, route>>

\* serve_packet: admit, then the wake, which may be lost.  A message that was
\* admitted before, under whatever launch, is not admitted again.
ServePacket(o) ==
  /\ request[o] = "wire"
  /\ IF Authorized(o)
     THEN /\ request' = [request EXCEPT ![o] = "taken"]
          /\ NativeStep(o, [channel[o] EXCEPT !.at = IF @ = "unseen" THEN "admitted" ELSE @])
     ELSE /\ request' = [request EXCEPT ![o] = "refused"]
          /\ NativeStep(o, channel[o])

\* install_attestation: the hook of a tool call vouches for it, in place of
\* what an earlier hook has vouched for.
Attest(o, tool) ==
  /\ Authorized(o) /\ channel[o].at \in {"admitted", "released"}
  /\ tool = "fetch" => channel[o].at = "admitted"
  /\ NativeStep(o, [channel[o] EXCEPT !.attested = tool])
  /\ UNCHANGED request

\* execute_tool: the attestation is used up by the one call it is for.
ExecuteTool(o, tool) ==
  /\ Authorized(o) /\ channel[o].attested = tool
  /\ channel[o].at = (IF tool = "fetch" THEN "admitted" ELSE "released")
  /\ NativeStep(o, [channel[o] EXCEPT !.attested = Nothing,
                      !.at = IF tool = "fetch" THEN "released" ELSE "replied"])
  /\ UNCHANGED request

\* session_event, the end of run, and a new launch of the terminal.
RouteChanges ==
  /\ \/ route.open /\ route' = [route EXCEPT !.open = FALSE]
     \/ route.token < MaxLaunches /\ route' = [token |-> route.token + 1, open |-> TRUE]
  /\ UNCHANGED <<deliveries, server, providerVars, creationVars, channel>>

-----------------------------------------------------------------------------
HandlerStep(s) ==
  \/ CheckOwner(s) \/ Lookup(s) \/ Begin(s) \/ EmitRefusal(s) \/ Reload(s) \/ Dispatch(s)
  \/ AwaitAnswer(s) \/ Persist(s) \/ Reconcile(s) \/ StoreCertified(s) \/ ClearName(s)
  \/ ReserveName(s) \/ ResolveName(s) \/ StartThread(s) \/ AwaitThread(s)
  \/ StoreIdentity(s) \/ LaunchHome(s) \/ CertifyHome(s) \/ NameThread(s) \/ ReleaseName(s)

NativeNext ==
  \/ \E o \in NativeSends :
       \/ ServePacket(o)
       \/ \E tool \in {"fetch", "reply"} : Attest(o, tool) \/ ExecuteTool(o, tool)
  \/ RouteChanges

MobileNext ==
  \/ \E s \in Servers :
       \/ HandlerStep(s) \/ ServerEnds(s)
       \/ \E o \in Operations : Submit(s, o) \/ AskReceipt(s, o) \/ AskCreation(s, o)
  \/ \E o \in Operations : ProviderDecides(o) \/ LaunchSettles(o)
  \/ NativeNext

MobileSpec == MobileInit /\ [][MobileNext]_mobileVars

-----------------------------------------------------------------------------
(* Properties.                                                             *)

MobileTypeOK ==
  /\ deliveries \in [Operations -> {"absent", "unknown", "accepted", "rejected", "submitted",
                                  "delivered", "created"}]
  /\ reservation \in Creations \union {Nothing}
  /\ \A s \in Servers : server[s].op \in Operations \union {Nothing}
  /\ sent \in [Operations -> 0..MaxSends]
  /\ request \in [Operations -> {"unsent", "wire", "taken", "refused"}]
  /\ home \in [Creations -> {"none", "pending", "bound", "retired"}]
  /\ named \subseteq Creations
  /\ \A o \in NativeSends :
       /\ channel[o].at \in {"unseen", "admitted", "released", "replied"}
       /\ channel[o].attested \in {Nothing, "fetch", "reply"}

\* "Disconnect after submission is unknown, never automatic replay"
\* (docs/ios-provider-access.md:71): however often an operation is submitted,
\* through however many servers, and wherever they end, it goes to a provider
\* once.
DispatchedOnce == \A o \in Operations : sent[o] <= 1

\* What the journal says is so, although servers end between dispatch and
\* receipt and overwrite each other's outcomes: what is rejected no provider
\* has or will get, and what is accepted, delivered or created it has.
SettledTruly ==
  \A o \in Operations :
    /\ deliveries[o] = "rejected" => request[o] \notin {"wire", "taken"}
    /\ deliveries[o] \in {"accepted", "created"} => request[o] = "taken"
    /\ deliveries[o] = "delivered" =>
         IF o \in NativeSends THEN channel[o].at = "replied" ELSE request[o] = "taken"
    /\ deliveries[o] = "created" => o \in named \/ home[o] = "bound"

\* The provider has one conversation of the name, however creations are
\* retried under other IDs while the outcome of the first is unknown.
OneConversationPerName ==
  \A o, p \in Creations : request[o] \in {"wire", "taken"} /\ request[p] \in {"wire", "taken"}
    => o = p

\* "Pika durably journals the stable operation ID before dispatch and returns
\* prior receipts without replay ... Post-dispatch relay/receipt-write failures
\* return unknown, not rejection" (docs/ios-provider-access.md:72): a request
\* that is answered "rejected_before_dispatch" has never been dispatched.
RejectedIsUndispatched ==
  \A s \in Servers : ServerAt(s, "refused") => sent[Op(s)] = 0
=============================================================================
