------------------------ MODULE MobileDeliveryProofs ------------------------
(***************************************************************************)
(* What the phone is promised, for any number of operations and servers:   *)
(* an operation goes to a provider once, its receipt is true, and a name   *)
(* is given to one conversation.  All of it rests on two rows: the journal *)
(* row that admission inserts before anything else, so that one server     *)
(* ever dispatches the operation, and the reservation of the name, which   *)
(* is not given back while the provider may have the conversation.         *)
(***************************************************************************)
EXTENDS MobileDelivery, TLAPS

Results == {"unknown", "accepted", "rejected", "submitted", "delivered", "created"}

Entering == {"owner", "lookup", "begin", "refused"}
Undispatched == {"reload", "dispatch", "reserve", "resolve", "start"}
Creating ==
  {"reserve", "resolve", "start", "thread", "identity", "launch", "certify", "name", "release",
   "certified", "clear"}
Places ==
  {"idle", "await", "persist", "reconcile"} \union Entering \union Undispatched \union Creating

ServerRecord ==
  [at : Places, op : Operations \union {Nothing}, result : Results \union {Nothing}]

MobileShapes ==
  /\ deliveries \in [Operations -> Results \union {"absent"}]
  /\ reservation \in Creations \union {Nothing}
  /\ server \in [Servers -> ServerRecord]
  /\ sent \in [Operations -> Nat]
  /\ request \in [Operations -> {"unsent", "wire", "taken", "refused"}]
  /\ home \in [Creations -> {"none", "pending", "bound", "retired"}]
  /\ named \subseteq Creations
  /\ channel \in [NativeSends -> [token : Nat, at : {"unseen", "admitted", "released", "replied"},
                                  attested : {Nothing, "fetch", "reply"}]]
  /\ route \in [token : Nat, open : BOOLEAN]

\* Each step of a handler belongs to operations of its kinds.
PlaceFits(s) ==
  ~ServerAt(s, "idle") =>
    /\ Op(s) \in Operations
    /\ ServerAt(s, "lookup") => Op(s) \in Sends \union NativeSends
    /\ ServerAt(s, "reload") => Op(s) \in Sends \union Answers
    /\ ServerAt(s, "dispatch") => Op(s) \notin Creations
    /\ ServerAt(s, "await") => Op(s) \notin Creations \union Answers
    /\ ServerAt(s, "reconcile") => Op(s) \in Sends \union NativeSends
    /\ server[s].at \in Creating => Op(s) \in Creations
    /\ server[s].at \in {"persist", "release"} => server[s].result \in Results

Begun(s) == server[s].at \notin Entering \union {"idle"}
Dispatching(s, o) == server[s].at \in Undispatched /\ Op(s) = o

\* The journal's row comes first, and whoever has inserted it dispatches.
AdmittedFirst == \A s \in Servers : Begun(s) => deliveries[Op(s)] # "absent"

SentOnce ==
  \A o \in Operations :
    /\ deliveries[o] = "absent" => sent[o] = 0
    /\ sent[o] = 0 <=> request[o] = "unsent"
    /\ sent[o] <= 1

OneDispatcher ==
  \A s \in Servers : server[s].at \in Undispatched =>
    /\ sent[Op(s)] = 0
    /\ \A z \in Servers : Dispatching(z, Op(s)) => z = s

\* What a result says of the provider.  A rejection also says that nobody will
\* dispatch the operation any more.
TrueOf(o, result) ==
  /\ result \in Results
  /\ result = "rejected" =>
       request[o] \notin {"wire", "taken"} /\ \A s \in Servers : ~Dispatching(s, o)
  /\ result \in {"accepted", "created"} => request[o] = "taken"
  /\ result = "delivered" =>
       IF o \in NativeSends THEN channel[o].at = "replied" ELSE request[o] = "taken"
  /\ result = "created" => o \in Creations /\ (o \in named \/ home[o] = "bound")

ReceiptsTrue ==
  \A o \in Operations : deliveries[o] # "absent" => TrueOf(o, deliveries[o])

WithProvider(o) == request[o] \in {"wire", "taken"}

\* What a server knows at each step.
Knows(s) ==
  /\ server[s].at \in {"persist", "release"} => TrueOf(Op(s), server[s].result)
  /\ ServerAt(s, "release") => server[s].result \in {"rejected", "created"}
                               /\ (server[s].result = "created" => Op(s) \in named)
  /\ server[s].at \in {"identity", "launch", "certify", "name"} => request[Op(s)] = "taken"
  /\ server[s].at \in {"certified", "clear"} => home[Op(s)] = "bound"
  /\ server[s].at \in {"resolve", "start"} => reservation = Op(s)
  /\ ServerAt(s, "start") => \A o \in Creations : WithProvider(o) => o = Op(s)

\* The name stays reserved until the conversation bears it or has its home.
NameKept ==
  \A o \in Creations :
    /\ home[o] # "none" \/ o \in named => request[o] = "taken"
    /\ WithProvider(o) => reservation = o \/ o \in named \/ home[o] = "bound"

Truthful ==
  ReceiptsTrue /\ (\A s \in Servers : Knows(s)) /\ NameKept /\ OneConversationPerName
Journaled == AdmittedFirst /\ SentOnce /\ OneDispatcher
MobilePlaces == MobileShapes /\ \A s \in Servers : PlaceFits(s)

\* A server's step: from one place to one of a few, with the operation that came
\* in until it is done.
Goes(s, from, to) ==
  /\ server[s].at = from /\ server'[s].at \in to
  /\ server'[s] \in ServerRecord /\ server' = [server EXCEPT ![s] = server'[s]]
  /\ from # "idle" /\ server'[s].at # "idle" => server'[s].op = server[s].op
  /\ PlaceFits(s)'

\* The handlers' steps, in the order of the code.
LEMMA HandlersGo ==
  ASSUME MobilePlaces, NEW s \in Servers
  PROVE
    /\ CheckOwner(s) => Goes(s, "owner", {"lookup", "begin", "refused"})
    /\ Lookup(s) => Goes(s, "lookup", {"owner", "begin", "idle"})
    /\ Begin(s) => Goes(s, "begin", {"reload", "dispatch", "reserve", "idle", "refused"})
    /\ EmitRefusal(s) => Goes(s, "refused", {"idle"})
    /\ Reload(s) => Goes(s, "reload", {"dispatch", "refused"})
    /\ Dispatch(s) => Goes(s, "dispatch", {"await", "persist"})
    /\ AwaitAnswer(s) => Goes(s, "await", {"persist"})
    /\ Persist(s) => Goes(s, "persist", {"idle"})
    /\ Reconcile(s) => Goes(s, "reconcile", {"persist", "idle"})
    /\ StoreCertified(s) => Goes(s, "certified", {"clear", "idle"})
    /\ ClearName(s) => Goes(s, "clear", {"idle"})
    /\ ReserveName(s) => Goes(s, "reserve", {"resolve", "persist"})
    /\ ResolveName(s) => Goes(s, "resolve", {"start", "release"})
    /\ StartThread(s) => Goes(s, "start", {"thread", "persist"})
    /\ AwaitThread(s) => Goes(s, "thread", {"identity", "release", "persist"})
    /\ StoreIdentity(s) => Goes(s, "identity", {"launch", "persist"})
    /\ LaunchHome(s) => Goes(s, "launch", {"certify", "persist"})
    /\ CertifyHome(s) => Goes(s, "certify", {"name", "persist"})
    /\ NameThread(s) => Goes(s, "name", {"release", "persist"})
    /\ ReleaseName(s) => Goes(s, "release", {"persist"})
<1> USE MobileConstants
    DEF MobilePlaces, MobileShapes, ServerAt, ServerTo, Op, Done, Waiting, Results, ServerRecord,
        Goes, PlaceFits, Places, Entering, Undispatched, Creating
<1>1. ASSUME CheckOwner(s) PROVE Goes(s, "owner", {"lookup", "begin", "refused"})
  BY <1>1 DEF CheckOwner, Following, Refuse
<1>2. ASSUME Lookup(s) PROVE Goes(s, "lookup", {"owner", "begin", "idle"})
  BY <1>2 DEF Lookup, Following
<1>3. ASSUME Begin(s) PROVE Goes(s, "begin", {"reload", "dispatch", "reserve", "idle", "refused"})
  <2>1. CASE ServerTo(s, Admitted(Op(s)))
    <3>1. Op(s) \in Operations /\ server[s] \in ServerRecord /\ ServerAt(s, "begin")
      BY <1>3 DEF Begin
    <3>2. CASE Op(s) \in Sends \union Answers
      BY <2>1, <3>1, <3>2 DEF Admitted
    <3>3. CASE Op(s) \in NativeSends
      BY <2>1, <3>1, <3>3 DEF Admitted
    <3>4. CASE Op(s) \in Creations
      BY <2>1, <3>1, <3>4 DEF Admitted
    <3> QED BY <3>1, <3>2, <3>3, <3>4 DEF Operations
  <2>2. CASE Done(s)
    BY <1>3, <2>2 DEF Begin
  <2>3. CASE Refuse(s)
    BY <1>3, <2>3 DEF Begin, Refuse
  <2> QED BY <1>3, <2>1, <2>2, <2>3 DEF Begin
<1>4. ASSUME EmitRefusal(s) PROVE Goes(s, "refused", {"idle"})
  BY <1>4 DEF EmitRefusal
<1>5. ASSUME Reload(s) PROVE Goes(s, "reload", {"dispatch", "refused"})
  BY <1>5 DEF Reload, Refuse
<1>6. ASSUME Dispatch(s) PROVE Goes(s, "dispatch", {"await", "persist"})
  BY <1>6 DEF Dispatch, Write, Outcome
<1>7. ASSUME AwaitAnswer(s) PROVE Goes(s, "await", {"persist"})
  <2>1. PICK result \in MessageOutcome(Op(s)) : Outcome(s, result)
    BY <1>7 DEF AwaitAnswer
  <2>2. result \in Results
    BY <2>1 DEF MessageOutcome, NativeReceipt
  <2>3. Op(s) \in Operations /\ server[s] \in ServerRecord /\ ServerAt(s, "await")
    BY <1>7 DEF AwaitAnswer
  <2> HIDE DEF Results
  <2>4. server' = [server EXCEPT ![s] = [server[s] EXCEPT !.at = "persist", !.result = result]]
    BY <2>1, <2>3 DEF Outcome
  <2>5. server'[s] = [server[s] EXCEPT !.at = "persist", !.result = result]
    BY <2>4
  <2> QED BY <2>2, <2>3, <2>4, <2>5
<1>8. ASSUME Persist(s) PROVE Goes(s, "persist", {"idle"})
  BY <1>8 DEF Persist
<1>9. ASSUME Reconcile(s) PROVE Goes(s, "reconcile", {"persist", "idle"})
  BY <1>9 DEF Reconcile, NativeReceipt, Outcome
<1>10. ASSUME StoreCertified(s) PROVE Goes(s, "certified", {"clear", "idle"})
  BY <1>10 DEF StoreCertified
<1>11. ASSUME ClearName(s) PROVE Goes(s, "clear", {"idle"})
  BY <1>11 DEF ClearName
<1>12. ASSUME ReserveName(s) PROVE Goes(s, "reserve", {"resolve", "persist"})
  BY <1>12 DEF ReserveName, Outcome
<1>13. ASSUME ResolveName(s) PROVE Goes(s, "resolve", {"start", "release"})
  <2>1. CASE ServerTo(s, "start")
    BY <1>13, <2>1 DEF ResolveName
  <2>2. CASE Rejected(s)
    <3>1. server' = [server EXCEPT ![s] = [server[s] EXCEPT !.at = "release", !.result = "rejected"]]
      BY <2>2 DEF Rejected
    <3>2. server'[s] = [server[s] EXCEPT !.at = "release", !.result = "rejected"]
      BY <3>1
    <3>3. server[s] \in ServerRecord /\ Op(s) \in Creations /\ ServerAt(s, "resolve")
      BY <1>13 DEF ResolveName
    <3>4. server'[s] \in ServerRecord
      BY <3>2, <3>3
    <3>5. /\ server'[s].at = "release" /\ server'[s].op = server[s].op
          /\ server'[s].result = "rejected"
      BY <3>2, <3>3
    <3>6. server' = [server EXCEPT ![s] = server'[s]]
      BY <3>1, <3>2
    <3>7. PlaceFits(s)'
      BY <3>3, <3>5, MobileConstants
    <3> QED BY <3>3, <3>4, <3>5, <3>6, <3>7
  <2> QED BY <1>13, <2>1, <2>2 DEF ResolveName
<1>14. ASSUME StartThread(s) PROVE Goes(s, "start", {"thread", "persist"})
  BY <1>14 DEF StartThread, Undecided, Outcome
<1>15. ASSUME AwaitThread(s) PROVE Goes(s, "thread", {"identity", "release", "persist"})
  BY <1>15 DEF AwaitThread, Rejected, Undecided, Outcome
<1>16. ASSUME StoreIdentity(s) PROVE Goes(s, "identity", {"launch", "persist"})
  BY <1>16 DEF StoreIdentity, Undecided, Outcome
<1>17. ASSUME LaunchHome(s) PROVE Goes(s, "launch", {"certify", "persist"})
  BY <1>17 DEF LaunchHome, Undecided, Outcome
<1>18. ASSUME CertifyHome(s) PROVE Goes(s, "certify", {"name", "persist"})
  BY <1>18 DEF CertifyHome, Undecided, Outcome
<1>19. ASSUME NameThread(s) PROVE Goes(s, "name", {"release", "persist"})
  BY <1>19 DEF NameThread, Undecided, Outcome
<1>20. ASSUME ReleaseName(s) PROVE Goes(s, "release", {"persist"})
  BY <1>20 DEF ReleaseName
<1> QED BY <1>1, <1>2, <1>3, <1>4, <1>5, <1>6, <1>7, <1>8, <1>9, <1>10, <1>11, <1>12, <1>13, <1>14, <1>15, <1>16, <1>17, <1>18, <1>19, <1>20

\* Which of a handler's steps touch what.
LEMMA HandlersTouch ==
  ASSUME NEW s \in Servers, HandlerStep(s)
  PROVE
    /\ UNCHANGED deliveries \/ Begin(s) \/ Persist(s) \/ StoreCertified(s) \/ StoreIdentity(s)
    /\ UNCHANGED providerVars \/ Dispatch(s) \/ StartThread(s)
    /\ UNCHANGED reservation \/ ClearName(s) \/ ReserveName(s) \/ ReleaseName(s)
    /\ UNCHANGED home \/ LaunchHome(s) \/ CertifyHome(s)
    /\ UNCHANGED named \/ NameThread(s)
    /\ UNCHANGED channel \/ Dispatch(s)
    /\ UNCHANGED route
BY DEF HandlerStep, CheckOwner, Lookup, Begin, EmitRefusal, Reload, Dispatch, AwaitAnswer, Persist,
  Reconcile, StoreCertified, ClearName, ReserveName, ResolveName, StartThread, AwaitThread,
  StoreIdentity, LaunchHome, CertifyHome, NameThread, ReleaseName, providerVars, creationVars,
  nativeVars

\* What a server is about once a request has come in.
LEMMA Received ==
  ASSUME MobilePlaces, NEW s \in Servers, NEW o \in Operations, NEW here \in Places,
         server' = [server EXCEPT ![s] = [Waiting EXCEPT !.at = here, !.op = o]]
  PROVE /\ server'[s] \in ServerRecord /\ server' = [server EXCEPT ![s] = server'[s]]
        /\ server'[s].at = here /\ server'[s].op = o
<1>1. [Waiting EXCEPT !.at = here, !.op = o] = [at |-> here, op |-> o, result |-> Nothing]
  <2>1. [Waiting EXCEPT !.at = here] = [at |-> here, op |-> Nothing, result |-> Nothing]
    BY DEF Waiting
  <2>2. [[at |-> here, op |-> Nothing, result |-> Nothing] EXCEPT !.op = o]
        = [at |-> here, op |-> o, result |-> Nothing]
    OBVIOUS
  <2>3. [Waiting EXCEPT !.at = here, !.op = o] = [[Waiting EXCEPT !.at = here] EXCEPT !.op = o]
    OBVIOUS
  <2> QED BY <2>1, <2>2, <2>3
<1>2. server' = [server EXCEPT ![s] = [at |-> here, op |-> o, result |-> Nothing]]
  BY <1>1
<1>3. server'[s] = [at |-> here, op |-> o, result |-> Nothing]
  BY <1>2 DEF MobilePlaces, MobileShapes
<1>4. [at |-> here, op |-> o, result |-> Nothing] \in ServerRecord
  BY DEF ServerRecord
<1>5. server'[s].at = here /\ server'[s].op = o
  BY <1>3
<1>6. server' = [server EXCEPT ![s] = server'[s]]
  BY <1>2, <1>3
<1>7. server'[s] \in ServerRecord
  BY <1>3, <1>4
<1> QED BY <1>5, <1>6, <1>7

\* Where each step of a server goes, and what it leaves in the server.
LEMMA ServersArrive ==
  ASSUME MobilePlaces, NEW s \in Servers
  PROVE
    /\ \A o \in Operations :
         /\ Submit(s, o) => Goes(s, "idle", {"owner", "lookup"}) /\ server'[s].op = o
         /\ AskReceipt(s, o) => Goes(s, "idle", {"reconcile"}) /\ server'[s].op = o
         /\ AskCreation(s, o) => Goes(s, "idle", {"certified"}) /\ server'[s].op = o
    /\ ServerEnds(s) => Goes(s, server[s].at, {"idle"})
<1>1. ASSUME NEW o \in Operations, Submit(s, o)
      PROVE Goes(s, "idle", {"owner", "lookup"}) /\ server'[s].op = o
  <2> DEFINE first == IF o \in NativeSends THEN "lookup" ELSE "owner"
  <2>1. Following(o).submit = first
    BY MobileConstants DEF Following
  <2>2. server' = [server EXCEPT ![s] = [Waiting EXCEPT !.at = first, !.op = o]]
    BY <1>1, <2>1 DEF Submit
  <2>3. first \in Places
    BY DEF Places, Entering
  <2> HIDE DEF first
  <2>4. /\ server'[s] \in ServerRecord /\ server' = [server EXCEPT ![s] = server'[s]]
        /\ server'[s].at = first /\ server'[s].op = o
    BY <2>2, <2>3, Received
  <2>5. PlaceFits(s)' /\ first \in {"owner", "lookup"}
    BY <2>4 DEF PlaceFits, ServerAt, Op, Creating, first
  <2> QED BY <1>1, <2>4, <2>5 DEF Submit, ServerAt, Goes
<1>2. ASSUME NEW o \in Operations, AskReceipt(s, o)
      PROVE Goes(s, "idle", {"reconcile"}) /\ server'[s].op = o
  <2>1. server' = [server EXCEPT ![s] = [Waiting EXCEPT !.at = "reconcile", !.op = o]]
    BY <1>2 DEF AskReceipt
  <2>2. "reconcile" \in Places
    BY DEF Places
  <2>3. /\ server'[s] \in ServerRecord /\ server' = [server EXCEPT ![s] = server'[s]]
        /\ server'[s].at = "reconcile" /\ server'[s].op = o
    BY <2>1, <2>2, Received
  <2>4. PlaceFits(s)'
    BY <1>2, <2>3 DEF AskReceipt, PlaceFits, ServerAt, Op, Creating
  <2> QED BY <1>2, <2>3, <2>4 DEF AskReceipt, ServerAt, Goes
<1>3. ASSUME NEW o \in Operations, AskCreation(s, o)
      PROVE Goes(s, "idle", {"certified"}) /\ server'[s].op = o
  <2>1. server' = [server EXCEPT ![s] = [Waiting EXCEPT !.at = "certified", !.op = o]]
    BY <1>3 DEF AskCreation
  <2>2. "certified" \in Places
    BY DEF Places, Creating
  <2>3. /\ server'[s] \in ServerRecord /\ server' = [server EXCEPT ![s] = server'[s]]
        /\ server'[s].at = "certified" /\ server'[s].op = o
    BY <2>1, <2>2, Received
  <2>4. PlaceFits(s)'
    BY <1>3, <2>3 DEF AskCreation, PlaceFits, ServerAt, Op, Creating
  <2> QED BY <1>3, <2>3, <2>4 DEF AskCreation, ServerAt, Goes
<1> USE MobileConstants
    DEF ServerAt, Op, Goes, PlaceFits, Places, Entering, Undispatched, Creating
<1>4. ASSUME ServerEnds(s) PROVE Goes(s, server[s].at, {"idle"})
  BY <1>4 DEF ServerEnds, Done, Waiting, ServerRecord, MobilePlaces, MobileShapes
<1> QED BY <1>1, <1>2, <1>3, <1>4

-----------------------------------------------------------------------------
(* Types and places.                                                       *)

\* Nothing has been asked of any computer.
LEMMA PlacesInit == MobileInit => MobilePlaces
<1> SUFFICES ASSUME MobileInit PROVE MobilePlaces
  OBVIOUS
<1> USE DEF MobileInit
<1>1. Waiting \in ServerRecord
  BY DEF Waiting, ServerRecord, Places, Results
<1>2. server \in [Servers -> ServerRecord]
  BY <1>1
<1>3. channel \in [NativeSends -> [token : Nat, attested : {Nothing, "fetch", "reply"},
                                   at : {"unseen", "admitted", "released", "replied"}]]
  BY DEF NewMessage
<1>4. route \in [token : Nat, open : BOOLEAN]
  OBVIOUS
<1>5. MobileShapes
  BY <1>2, <1>3, <1>4 DEF MobileShapes
<1>6. \A s \in Servers : PlaceFits(s)
  BY DEF PlaceFits, ServerAt, Waiting
<1> QED BY <1>5, <1>6 DEF MobilePlaces

\* A server's step leaves every server where its operation belongs.
LEMMA GoesFits ==
  ASSUME MobilePlaces, NEW s \in Servers, NEW from, NEW to, Goes(s, from, to)
  PROVE server' \in [Servers -> ServerRecord] /\ \A z \in Servers : PlaceFits(z)'
<1>1. server' \in [Servers -> ServerRecord]
  BY DEF MobilePlaces, MobileShapes, Goes
<1>2. ASSUME NEW z \in Servers, z # s PROVE PlaceFits(z)'
  <2>1. server'[z] = server[z]
    BY <1>2 DEF Goes, MobilePlaces, MobileShapes
  <2> QED BY <2>1 DEF PlaceFits, ServerAt, Op, MobilePlaces
<1> QED BY <1>1, <1>2 DEF Goes

\* A handler writes outcomes, counts, names and homes of their kinds only.
LEMMA HandlerPlaces ==
  ASSUME MobilePlaces, NEW s \in Servers, HandlerStep(s)
  PROVE MobilePlaces'
<1> USE DEF MobilePlaces
<1>1. server' \in [Servers -> ServerRecord] /\ \A z \in Servers : PlaceFits(z)'
  BY HandlersGo, GoesFits DEF HandlerStep
<1>2. server[s] \in ServerRecord /\ PlaceFits(s)
  BY DEF MobileShapes
<1>3. deliveries' \in [Operations -> Results \union {"absent"}]
  <2>1. CASE UNCHANGED deliveries
    BY <2>1 DEF MobileShapes
  <2>2. CASE Begin(s)
    BY <2>2 DEF Begin, MobileShapes, Results
  <2>3. CASE Persist(s)
    BY <1>2, <2>3 DEF Persist, MobileShapes, PlaceFits, ServerAt
  <2>4. CASE StoreCertified(s)
    BY <2>4 DEF StoreCertified, MobileShapes, Results
  <2>5. CASE StoreIdentity(s)
    BY <2>5 DEF StoreIdentity, MobileShapes, Results
  <2> QED BY <2>1, <2>2, <2>3, <2>4, <2>5, HandlersTouch
<1>4. /\ sent' \in [Operations -> Nat]
      /\ request' \in [Operations -> {"unsent", "wire", "taken", "refused"}]
  BY HandlersTouch DEF MobileShapes, Dispatch, StartThread, Write, providerVars
<1>5. reservation' \in Creations \union {Nothing}
  <2>1. CASE ReserveName(s)
    BY <1>2, <2>1 DEF ReserveName, MobileShapes, PlaceFits, ServerAt, Creating
  <2> QED BY <2>1, HandlersTouch DEF MobileShapes, ClearName, ReleaseName, FreeName
<1>6. home' \in [Creations -> {"none", "pending", "bound", "retired"}]
  BY HandlersTouch DEF MobileShapes, LaunchHome, CertifyHome
<1>7. named' \subseteq Creations
  <2>1. CASE NameThread(s)
    BY <1>2, <2>1 DEF NameThread, MobileShapes, PlaceFits, ServerAt, Creating
  <2> QED BY <2>1, HandlersTouch DEF MobileShapes
<1>8. channel' \in [NativeSends -> [token : Nat, attested : {Nothing, "fetch", "reply"},
                                   at : {"unseen", "admitted", "released", "replied"}]]
  BY HandlersTouch DEF MobileShapes, Dispatch
<1>9. route' \in [token : Nat, open : BOOLEAN]
  BY HandlersTouch DEF MobileShapes
<1> QED BY <1>1, <1>3, <1>4, <1>5, <1>6, <1>7, <1>8, <1>9 DEF MobileShapes

\* A server that takes a request, or that ends, changes nothing else.
Comes(s) == ServerEnds(s) \/ \E o \in Operations : Submit(s, o) \/ AskReceipt(s, o) \/ AskCreation(s, o)

\* A server that arrives or ends touches nothing but itself.
LEMMA OnlyTheServer ==
  ASSUME NEW s \in Servers, Comes(s)
  PROVE UNCHANGED <<deliveries, providerVars, creationVars, nativeVars>>
BY DEF Comes, ServerEnds, Submit, AskReceipt, AskCreation

\* The providers, the ledger and the native terminal.
Outside ==
  \/ \E o \in Operations : ProviderDecides(o) \/ LaunchSettles(o)
  \/ NativeNext

\* What they touch: a request on the wire, a home that is pending.
LEMMA OutsideTouches ==
  ASSUME Outside
  PROVE
    /\ UNCHANGED <<deliveries, reservation, server, sent, named>>
    /\ \/ UNCHANGED request
       \/ \E o \in Operations, verdict \in {"taken", "refused"} :
            request[o] = "wire" /\ request' = [request EXCEPT ![o] = verdict]
    /\ \/ UNCHANGED home
       \/ \E o \in Creations, end \in {"bound", "retired"} :
            home[o] = "pending" /\ home' = [home EXCEPT ![o] = end]
<1>1. CASE \E o \in Operations : ProviderDecides(o)
  BY <1>1 DEF ProviderDecides, creationVars, nativeVars
<1>2. CASE \E o \in Operations : LaunchSettles(o)
  BY <1>2 DEF LaunchSettles, providerVars, nativeVars
<1>3. CASE \E o \in NativeSends : ServePacket(o)
  BY <1>3 DEF ServePacket, NativeStep, creationVars, Operations
<1>4. CASE \E o \in NativeSends, tool \in {"fetch", "reply"} : Attest(o, tool) \/ ExecuteTool(o, tool)
  BY <1>4 DEF Attest, ExecuteTool, NativeStep, creationVars
<1>5. CASE RouteChanges
  BY <1>5 DEF RouteChanges, providerVars, creationVars
<1> QED BY <1>1, <1>2, <1>3, <1>4, <1>5 DEF Outside, NativeNext

\* The outside world keeps the shapes.
LEMMA OutsidePlaces ==
  ASSUME MobilePlaces, Outside
  PROVE MobilePlaces'
<1>1. UNCHANGED <<deliveries, reservation, server, sent, named>>
  BY OutsideTouches
<1> DEFINE Messages == [token : Nat, at : {"unseen", "admitted", "released", "replied"},
                       attested : {Nothing, "fetch", "reply"}]
<1> DEFINE Shapes == /\ request \in [Operations -> {"unsent", "wire", "taken", "refused"}]
                    /\ home \in [Creations -> {"none", "pending", "bound", "retired"}]
                    /\ channel \in [NativeSends -> Messages]
                    /\ route \in [token : Nat, open : BOOLEAN]
<1> SUFFICES Shapes'
  BY <1>1 DEF MobilePlaces, MobileShapes, PlaceFits, ServerAt, Op
<1>2. Shapes
  BY DEF MobilePlaces, MobileShapes
<1>3. CASE \E o \in Operations : ProviderDecides(o)
  BY <1>2, <1>3 DEF ProviderDecides, creationVars, nativeVars
<1>4. CASE \E o \in Operations : LaunchSettles(o)
  BY <1>2, <1>4 DEF LaunchSettles, providerVars, nativeVars
<1>5. ASSUME NEW o \in NativeSends, NEW message \in Messages, NativeStep(o, message),
             request' \in [Operations -> {"unsent", "wire", "taken", "refused"}]
      PROVE Shapes'
  BY <1>2, <1>5 DEF NativeStep, creationVars
<1>6. ASSUME NEW o \in NativeSends, ServePacket(o) PROVE Shapes'
  <2>1. request' \in [Operations -> {"unsent", "wire", "taken", "refused"}]
    BY <1>2, <1>6 DEF ServePacket
  <2>2. channel[o] \in Messages
    BY <1>2
  <2>3. [channel[o] EXCEPT !.at = IF @ = "unseen" THEN "admitted" ELSE @] \in Messages
    BY <2>2
  <2> HIDE DEF Messages, Shapes
  <2> QED BY <1>5, <1>6, <2>1, <2>2, <2>3 DEF ServePacket
<1>7. ASSUME NEW o \in NativeSends, NEW tool \in {"fetch", "reply"}, Attest(o, tool)
      PROVE Shapes'
  <2>1. [channel[o] EXCEPT !.attested = tool] \in Messages
    BY <1>2
  <2>2. request' \in [Operations -> {"unsent", "wire", "taken", "refused"}]
    BY <1>2, <1>7 DEF Attest
  <2> HIDE DEF Messages, Shapes
  <2> QED BY <1>5, <1>7, <2>1, <2>2 DEF Attest
<1>8. ASSUME NEW o \in NativeSends, NEW tool \in {"fetch", "reply"}, ExecuteTool(o, tool)
      PROVE Shapes'
  <2>1. [channel[o] EXCEPT !.attested = Nothing,
           !.at = IF tool = "fetch" THEN "released" ELSE "replied"] \in Messages
    BY <1>2
  <2>2. request' \in [Operations -> {"unsent", "wire", "taken", "refused"}]
    BY <1>2, <1>8 DEF ExecuteTool
  <2> HIDE DEF Messages, Shapes
  <2> QED BY <1>5, <1>8, <2>1, <2>2 DEF ExecuteTool
<1>9. CASE RouteChanges
  <2>1. UNCHANGED <<request, home, channel>>
    BY <1>9 DEF RouteChanges, providerVars, creationVars
  <2>2. route' = [route EXCEPT !.open = FALSE] \/ route' = [token |-> route.token + 1, open |-> TRUE]
    BY <1>9 DEF RouteChanges
  <2>3. route' \in [token : Nat, open : BOOLEAN]
    <3>1. route.token \in Nat /\ route \in [token : Nat, open : BOOLEAN]
      BY <1>2
    <3>2. CASE route' = [route EXCEPT !.open = FALSE]
      BY <3>1, <3>2
    <3>3. CASE route' = [token |-> route.token + 1, open |-> TRUE]
      BY <3>1, <3>3
    <3> QED BY <2>2, <3>2, <3>3
  <2> QED BY <1>2, <2>1, <2>3
<1> QED BY <1>3, <1>4, <1>6, <1>7, <1>8, <1>9 DEF Outside, NativeNext

\* Every step is a server's or the outside world's.
LEMMA StepIsOf ==
  MobileNext <=> (\E s \in Servers : HandlerStep(s) \/ Comes(s)) \/ Outside
BY DEF MobileNext, Comes, Outside

\* The shapes are inductive.
LEMMA PlacesStep ==
  ASSUME MobilePlaces, [MobileNext]_mobileVars
  PROVE MobilePlaces'
<1>1. CASE UNCHANGED mobileVars
  BY <1>1 DEF mobileVars, MobilePlaces, MobileShapes, PlaceFits, ServerAt, Op
<1>2. ASSUME NEW s \in Servers, Comes(s) PROVE MobilePlaces'
  <2>1. server' \in [Servers -> ServerRecord] /\ \A z \in Servers : PlaceFits(z)'
    BY <1>2, ServersArrive, GoesFits DEF Comes
  <2> QED BY <1>2, <2>1, OnlyTheServer
       DEF MobilePlaces, MobileShapes, providerVars, creationVars, nativeVars
<1> QED BY <1>1, <1>2, HandlerPlaces, OutsidePlaces, StepIsOf

-----------------------------------------------------------------------------
(* One dispatch.                                                           *)

\* Nothing is journaled at first.
LEMMA JournaledInit == MobileInit => Journaled
BY DEF MobileInit, Journaled, AdmittedFirst, SentOnce, OneDispatcher, Begun, Undispatched, Entering,
  Waiting, Op

\* A row of the journal is not taken out again.
LEMMA RowsStay ==
  ASSUME MobilePlaces, [MobileNext]_mobileVars, NEW o \in Operations, deliveries[o] # "absent"
  PROVE deliveries'[o] # "absent"
<1>1. CASE UNCHANGED deliveries
  BY <1>1
<1>2. ASSUME NEW s \in Servers, HandlerStep(s) PROVE deliveries'[o] # "absent"
  <2>1. PlaceFits(s) /\ deliveries \in [Operations -> Results \union {"absent"}]
    BY DEF MobilePlaces, MobileShapes
  <2>2. CASE Begin(s) \/ StoreCertified(s) \/ StoreIdentity(s)
    BY <2>1, <2>2 DEF Begin, StoreCertified, StoreIdentity
  <2>3. CASE Persist(s)
    <3>1. server[s].result # "absent"
      BY <2>1, <2>3 DEF Persist, PlaceFits, ServerAt, Results
    <3> QED BY <2>1, <2>3, <3>1 DEF Persist
  <2> QED BY <1>1, <1>2, <2>2, <2>3, HandlersTouch
<1>3. CASE Outside
  BY <1>1, <1>3, OutsideTouches
<1> QED BY <1>1, <1>2, <1>3, StepIsOf, OnlyTheServer DEF mobileVars

\* Nobody starts to dispatch without admission, and nothing is written.
LEMMA JournaledKept ==
  ASSUME Journaled, NEW s \in Servers, server \in [Servers -> ServerRecord],
         server' = [server EXCEPT ![s] = server'[s]],
         Begun(s)' => deliveries'[server'[s].op] # "absent",
         server'[s].at \in Undispatched =>
           server[s].at \in Undispatched /\ server'[s].op = server[s].op,
         \A z \in Servers : Begun(z) => Op(z) \in Operations,
         \A o \in Operations : deliveries[o] # "absent" => deliveries'[o] # "absent",
         sent' = sent,
         \A o \in Operations : request'[o] = "unsent" <=> request[o] = "unsent"
  PROVE Journaled'
<1>1. \A z \in Servers : z # s => server'[z] = server[z]
  OBVIOUS
<1>2. AdmittedFirst'
  BY <1>1 DEF Journaled, AdmittedFirst, Begun, Op
<1>3. SentOnce'
  BY DEF Journaled, SentOnce
<1>4. OneDispatcher'
  BY <1>1 DEF Journaled, OneDispatcher, Dispatching, Op
<1> QED BY <1>2, <1>3, <1>4 DEF Journaled

\* Admission: the row was not there, so nobody has begun with the operation.
LEMMA AdmissionJournaled ==
  ASSUME MobilePlaces, Journaled, NEW s \in Servers, Begin(s), deliveries[Op(s)] = "absent",
         deliveries' = [deliveries EXCEPT ![Op(s)] = "unknown"], ServerTo(s, Admitted(Op(s)))
  PROVE Journaled'
<1> DEFINE o == Op(s)
<1>1. o \in Operations /\ server[s] \in ServerRecord /\ ServerAt(s, "begin")
  BY DEF Begin, MobilePlaces, MobileShapes, PlaceFits, ServerAt
<1>2. /\ server'[s].op = o
      /\ \A z \in Servers : z # s => server'[z] = server[z]
  BY <1>1 DEF MobilePlaces, MobileShapes, ServerTo, Op, ServerRecord
<1>3. UNCHANGED <<sent, request>> /\ sent[o] = 0
  BY <1>1 DEF Begin, providerVars, Journaled, SentOnce
<1>4. deliveries'[o] = "unknown" /\ \A p \in Operations : p # o => deliveries'[p] = deliveries[p]
  BY <1>1 DEF MobilePlaces, MobileShapes
<1>5. \A z \in Servers : Begun(z) => Op(z) \in Operations /\ Op(z) # o
  BY DEF MobilePlaces, PlaceFits, Begun, Journaled, AdmittedFirst, ServerAt
<1>6. \A z \in Servers : server[z].at \in Undispatched => Begun(z)
  BY DEF Undispatched, Begun, Entering
<1> HIDE DEF o
<1>7. AdmittedFirst'
  BY <1>2, <1>4, <1>5 DEF Journaled, AdmittedFirst, Begun, Op
<1>8. SentOnce'
  BY <1>1, <1>3, <1>4 DEF Journaled, SentOnce
<1>9. OneDispatcher'
  BY <1>2, <1>3, <1>5, <1>6 DEF Journaled, OneDispatcher, Dispatching, Op
<1> QED BY <1>7, <1>8, <1>9 DEF Journaled

\* The one server that dispatches the operation writes it, and goes on.
LEMMA WriteJournaled ==
  ASSUME MobilePlaces, Journaled, NEW s \in Servers, Write(Op(s)), UNCHANGED deliveries,
         server[s].at \in Undispatched, server' = [server EXCEPT ![s] = server'[s]],
         server'[s].at \notin Undispatched, server'[s].op = server[s].op
  PROVE Journaled'
<1> DEFINE o == Op(s)
<1>1. o \in Operations /\ deliveries[o] # "absent" /\ sent[o] = 0
  BY DEF MobilePlaces, PlaceFits, ServerAt, Undispatched, Entering, Journaled, AdmittedFirst,
    OneDispatcher, Begun
<1>2. \A z \in Servers : z # s => server'[z] = server[z]
  BY DEF MobilePlaces, MobileShapes
<1>3. /\ sent'[o] = 1 /\ request'[o] = "wire"
      /\ \A p \in Operations : p # o => sent'[p] = sent[p] /\ request'[p] = request[p]
  BY <1>1 DEF Write, MobilePlaces, MobileShapes
<1>4. \A z \in Servers : z # s => ~Dispatching(z, o)
  BY DEF Journaled, OneDispatcher
<1>5. \A z \in Servers : server[z].at \in Undispatched => Op(z) \in Operations
  BY DEF MobilePlaces, PlaceFits, ServerAt, Undispatched
<1> HIDE DEF o
<1>6. AdmittedFirst'
  BY <1>1, <1>2 DEF Journaled, AdmittedFirst, Begun, Op, o
<1>7. SentOnce'
  BY <1>1, <1>3 DEF Journaled, SentOnce
<1>8. OneDispatcher'
  BY <1>2, <1>3, <1>4, <1>5 DEF Journaled, OneDispatcher, Dispatching, Op
<1> QED BY <1>6, <1>7, <1>8 DEF Journaled

\* A handler's step leads from somewhere to somewhere.
LEMMA HandlerGoes ==
  ASSUME MobilePlaces, NEW s \in Servers, HandlerStep(s)
  PROVE /\ server[s].at # "idle" /\ server' = [server EXCEPT ![s] = server'[s]]
        /\ server'[s].at # "idle" => server'[s].op = server[s].op
        /\ server'[s].at \in Undispatched =>
             server[s].at \in Undispatched \/ Begin(s)
        /\ Begun(s)' => Begun(s) \/ Begin(s)
BY HandlersGo DEF HandlerStep, Goes, Undispatched, Begun, Entering

\* A server's step keeps the order of journal and dispatch.
LEMMA HandlerJournaled ==
  ASSUME MobilePlaces, Journaled, NEW s \in Servers, HandlerStep(s)
  PROVE Journaled'
<1>1. /\ server[s].at # "idle" /\ server' = [server EXCEPT ![s] = server'[s]]
      /\ server'[s].at # "idle" => server'[s].op = server[s].op
  BY HandlerGoes
<1>2. \A o \in Operations : deliveries[o] # "absent" => deliveries'[o] # "absent"
  BY RowsStay, StepIsOf
<1>3. \A z \in Servers : Begun(z) => Op(z) \in Operations
  BY DEF MobilePlaces, PlaceFits, ServerAt, Begun
<1>4. server \in [Servers -> ServerRecord]
  BY DEF MobilePlaces, MobileShapes
<1>5. ASSUME UNCHANGED providerVars,
             Begun(s)' => deliveries'[Op(s)] # "absent",
             server'[s].at \in Undispatched => server[s].at \in Undispatched
      PROVE Journaled'
  <2>1. Begun(s)' => deliveries'[server'[s].op] # "absent"
    BY <1>1, <1>5 DEF Begun, Op
  <2>2. server'[s].at \in Undispatched =>
          server[s].at \in Undispatched /\ server'[s].op = server[s].op
    BY <1>1, <1>5 DEF Undispatched
  <2>3. sent' = sent /\ \A o \in Operations : request'[o] = "unsent" <=> request[o] = "unsent"
    BY <1>5 DEF providerVars
  <2> QED BY <1>1, <1>2, <1>3, <1>4, <2>1, <2>2, <2>3, JournaledKept
<1>6. CASE Begin(s)
  <2>1. CASE /\ deliveries[Op(s)] = "absent"
             /\ deliveries' = [deliveries EXCEPT ![Op(s)] = "unknown"]
             /\ ServerTo(s, Admitted(Op(s)))
    BY <1>6, <2>1, AdmissionJournaled
  <2>2. CASE Done(s) \/ Refuse(s)
    <3>1. server'[s].at \in {"idle", "refused"}
      BY <1>4, <2>2 DEF Done, Refuse, ServerTo, Waiting, ServerRecord
    <3>2. ~Begun(s)' /\ server'[s].at \notin Undispatched
      BY <3>1 DEF Begun, Entering, Undispatched
    <3> QED BY <1>5, <1>6, <3>2 DEF Begin
  <2> QED BY <1>6, <2>1, <2>2 DEF Begin
<1>7. CASE ~Begin(s)
  <2>1. /\ Begun(s)' => Begun(s)
        /\ server'[s].at \in Undispatched => server[s].at \in Undispatched
    BY <1>7, HandlerGoes
  <2>2. Begun(s) => deliveries'[Op(s)] # "absent"
    BY <1>2, <1>3 DEF Journaled, AdmittedFirst
  <2>3. CASE UNCHANGED providerVars
    BY <1>5, <2>1, <2>2, <2>3
  <2>4. CASE Dispatch(s) /\ Write(Op(s))
    <3>1. server[s].at = "dispatch" /\ server'[s].at \in {"await", "persist"}
      BY <2>4, HandlersGo DEF Goes
    <3> QED BY <1>1, <2>4, <3>1, WriteJournaled DEF Dispatch, Undispatched
  <2>5. CASE StartThread(s) /\ Write(Op(s))
    <3>1. server[s].at = "start" /\ server'[s].at \in {"thread", "persist"}
      BY <2>5, HandlersGo DEF Goes
    <3> QED BY <1>1, <2>5, <3>1, WriteJournaled DEF StartThread, Undispatched
  <2> QED BY <2>3, <2>4, <2>5, HandlersTouch DEF Dispatch, StartThread
<1> QED BY <1>6, <1>7

\* The order of journal and dispatch is inductive.
LEMMA JournaledStep ==
  ASSUME MobilePlaces, Journaled, [MobileNext]_mobileVars
  PROVE Journaled'
<1>1. CASE UNCHANGED mobileVars
  BY <1>1 DEF mobileVars, Journaled, AdmittedFirst, SentOnce, OneDispatcher, Dispatching, Begun, Op
<1>2. ASSUME NEW s \in Servers, Comes(s) PROVE Journaled'
  <2>1. UNCHANGED <<deliveries, sent, request>>
    BY <1>2, OnlyTheServer DEF providerVars
  <2>2. \A z \in Servers : Begun(z) => Op(z) \in Operations
    BY DEF MobilePlaces, PlaceFits, ServerAt, Begun
  <2>3. server \in [Servers -> ServerRecord]
    BY DEF MobilePlaces, MobileShapes
  <2>4. server' = [server EXCEPT ![s] = server'[s]] /\ server'[s].at \notin Undispatched
    BY <1>2, ServersArrive DEF Comes, Goes, Undispatched
  <2>5. Begun(s)' => deliveries'[server'[s].op] # "absent"
    <3>1. ASSUME NEW o \in Operations, Submit(s, o) PROVE ~Begun(s)'
      BY <3>1, ServersArrive DEF Goes, Begun, Entering
    <3>2. ASSUME NEW o \in Operations, AskReceipt(s, o) \/ AskCreation(s, o)
          PROVE server'[s].op = o /\ deliveries[o] # "absent"
      BY <3>2, ServersArrive DEF AskReceipt, AskCreation
    <3>3. ASSUME ServerEnds(s) PROVE ~Begun(s)'
      BY <3>3, ServersArrive DEF Goes, Begun
    <3> QED BY <1>2, <2>1, <3>1, <3>2, <3>3 DEF Comes
  <2> QED BY <2>1, <2>2, <2>3, <2>4, <2>5, JournaledKept
<1>3. CASE Outside
  <2>1. UNCHANGED <<deliveries, server, sent>>
    BY <1>3, OutsideTouches
  <2>2. \A o \in Operations : request'[o] = "unsent" <=> request[o] = "unsent"
    BY <1>3, OutsideTouches DEF MobilePlaces, MobileShapes
  <2> QED BY <2>1, <2>2
       DEF Journaled, AdmittedFirst, SentOnce, OneDispatcher, Dispatching, Begun, Op
<1> QED BY <1>1, <1>2, <1>3, HandlerJournaled, StepIsOf

\* The journal's row keeps a second server from dispatching (Journal::begin):
\* an operation goes to a provider once, whoever asks again and whoever ends.
THEOREM DispatchedOnceAlways == MobileSpec => []DispatchedOnce
<1> DEFINE Inv == MobilePlaces /\ Journaled
<1>1. MobileInit => Inv
  BY PlacesInit, JournaledInit
<1>2. Inv /\ [MobileNext]_mobileVars => Inv'
  BY PlacesStep, JournaledStep
<1>3. Inv => DispatchedOnce
  BY DEF Journaled, SentOnce, DispatchedOnce
<1> QED BY <1>1, <1>2, <1>3, PTL DEF MobileSpec

-----------------------------------------------------------------------------
(* True receipts.                                                          *)

\* At first there is no receipt and no name.
LEMMA TruthfulInit == MobileInit => Truthful
BY DEF MobileInit, Truthful, ReceiptsTrue, Knows, NameKept, OneConversationPerName, WithProvider,
  ServerAt, Waiting, Operations

\* What has become of an operation does not become undone.
Onward(o) ==
  /\ request[o] \in {"taken", "refused"} => request'[o] = request[o]
  /\ request[o] = "unsent" /\ request'[o] # "unsent" => \E s \in Servers : Dispatching(s, o)
  /\ o \in named => o \in named'
  /\ o \in Creations /\ home[o] = "bound" => home'[o] = "bound"
  /\ o \in NativeSends /\ channel[o].at = "replied" => channel'[o].at = "replied"
  /\ deliveries[o] # "absent" /\ (\A s \in Servers : ~Dispatching(s, o)) =>
       \A s \in Servers : ~Dispatching(s, o)'

\* A dispatch is of an operation that no provider has seen.
LEMMA HandlerRequests ==
  ASSUME MobilePlaces, Journaled, NEW s \in Servers, HandlerStep(s), NEW o \in Operations,
         request'[o] # request[o]
  PROVE /\ request[o] = "unsent" /\ Dispatching(s, o)
        /\ StartThread(s) \/ o \notin Creations
<1>1. CASE Dispatch(s) /\ Write(Op(s))
  <2>1. ServerAt(s, "dispatch") /\ Op(s) \in Operations /\ Op(s) \notin Creations
    BY <1>1 DEF Dispatch, MobilePlaces, PlaceFits, ServerAt
  <2>2. Op(s) = o
    BY <1>1, <2>1 DEF Write, MobilePlaces, MobileShapes
  <2> QED BY <2>1, <2>2 DEF Journaled, OneDispatcher, SentOnce, Dispatching, Undispatched, ServerAt
<1>2. CASE StartThread(s) /\ Write(Op(s))
  <2>1. ServerAt(s, "start") /\ Op(s) \in Operations
    BY <1>2 DEF StartThread, MobilePlaces, PlaceFits, ServerAt
  <2>2. Op(s) = o
    BY <1>2, <2>1 DEF Write, MobilePlaces, MobileShapes
  <2> QED BY <1>2, <2>1, <2>2
       DEF Journaled, OneDispatcher, SentOnce, Dispatching, Undispatched, ServerAt
<1> QED BY <1>1, <1>2, HandlersTouch DEF Dispatch, StartThread, providerVars

\* A server's step undoes no outcome.
LEMMA HandlerOnward ==
  ASSUME MobilePlaces, Journaled, NEW s \in Servers, HandlerStep(s), NEW o \in Operations
  PROVE Onward(o)
<1>1. request'[o] # request[o] => request[o] = "unsent" /\ Dispatching(s, o)
  BY HandlerRequests
<1>2. o \in named => o \in named'
  BY HandlersTouch DEF NameThread
<1>3. ASSUME o \in Creations, home[o] = "bound" PROVE home'[o] = "bound"
  BY <1>3, HandlersTouch DEF LaunchHome, CertifyHome, NameTaken, MobilePlaces, MobileShapes
<1>4. ASSUME o \in NativeSends, channel[o].at = "replied" PROVE channel'[o].at = "replied"
  <2>1. CASE Dispatch(s)
    <3>1. channel[o] \in [token : Nat, at : {"unseen", "admitted", "released", "replied"},
                          attested : {Nothing, "fetch", "reply"}]
      BY <1>4 DEF MobilePlaces, MobileShapes
    <3>2. channel'[o] = channel[o] \/ channel'[o] = [channel[o] EXCEPT !.token = route.token]
      BY <1>4, <2>1 DEF Dispatch
    <3> QED BY <1>4, <3>1, <3>2
  <2> QED BY <1>4, <2>1, HandlersTouch
<1>5. ASSUME deliveries[o] # "absent", \A z \in Servers : ~Dispatching(z, o), NEW z \in Servers
      PROVE ~Dispatching(z, o)'
  <2>1. CASE z = s
    <3>1. CASE Begin(s) /\ Op(s) = o
      <4>1. Done(s) \/ Refuse(s)
        BY <1>5, <3>1 DEF Begin
      <4>2. server'[s].at \in {"idle", "refused"}
        BY <4>1 DEF Done, Refuse, ServerTo, Waiting, ServerRecord, MobilePlaces, MobileShapes
      <4> QED BY <2>1, <4>2 DEF Dispatching, Undispatched
    <3>2. CASE ~(Begin(s) /\ Op(s) = o)
      <4>1. /\ server'[s].at # "idle" => server'[s].op = server[s].op
            /\ server'[s].at \in Undispatched => server[s].at \in Undispatched \/ Begin(s)
        BY HandlerGoes
      <4> QED BY <1>5, <2>1, <3>2, <4>1 DEF Dispatching, Undispatched, Op
    <3> QED BY <3>1, <3>2
  <2>2. CASE z # s
    <3>1. server'[z] = server[z]
      BY <2>2, HandlerGoes DEF MobilePlaces, MobileShapes
    <3> QED BY <1>5, <3>1 DEF Dispatching, Op
  <2> QED BY <2>1, <2>2
<1> QED BY <1>1, <1>2, <1>3, <1>4, <1>5 DEF Onward

\* The outside world undoes no outcome, and takes only what was sent.
LEMMA OutsideOnward ==
  ASSUME MobilePlaces, Outside, NEW o \in Operations
  PROVE /\ Onward(o)
        /\ request'[o] \in {"wire", "taken"} => request[o] \in {"wire", "taken"}
<1>1. UNCHANGED <<deliveries, server, named>>
  BY OutsideTouches
<1>2. /\ request[o] \in {"unsent", "taken", "refused"} => request'[o] = request[o]
      /\ request'[o] \in {"wire", "taken"} => request[o] \in {"wire", "taken"}
  BY OutsideTouches DEF MobilePlaces, MobileShapes
<1>3. ASSUME o \in Creations, home[o] = "bound" PROVE home'[o] = "bound"
  BY <1>3, OutsideTouches DEF MobilePlaces, MobileShapes
<1>4. ASSUME o \in NativeSends, channel[o].at = "replied" PROVE channel'[o].at = "replied"
  <2>1. channel \in [NativeSends -> [token : Nat, attested : {Nothing, "fetch", "reply"},
                                    at : {"unseen", "admitted", "released", "replied"}]]
    BY DEF MobilePlaces, MobileShapes
  <2>2. ASSUME NEW p \in NativeSends, ServePacket(p) PROVE channel'[o].at = "replied"
    BY <1>4, <2>1, <2>2 DEF ServePacket, NativeStep
  <2>3. ASSUME NEW p \in NativeSends, NEW tool \in {"fetch", "reply"}, Attest(p, tool)
        PROVE channel'[o].at = "replied"
    BY <1>4, <2>1, <2>3 DEF Attest, NativeStep
  <2>4. ASSUME NEW p \in NativeSends, NEW tool \in {"fetch", "reply"}, ExecuteTool(p, tool)
        PROVE channel'[o].at = "replied"
    <3>1. channel[p].at # "replied"
      BY <2>4 DEF ExecuteTool
    <3>2. p # o
      BY <1>4, <3>1
    <3> QED BY <1>4, <2>1, <2>4, <3>2 DEF ExecuteTool, NativeStep
  <2>5. UNCHANGED channel \/ (\E p \in NativeSends :
           ServePacket(p) \/ \E tool \in {"fetch", "reply"} : Attest(p, tool) \/ ExecuteTool(p, tool))
    BY DEF Outside, NativeNext, ProviderDecides, LaunchSettles, RouteChanges, nativeVars
  <2> QED BY <1>4, <2>2, <2>3, <2>4, <2>5
<1> QED BY <1>1, <1>2, <1>3, <1>4 DEF Onward, Dispatching, Op

\* No step undoes an outcome.
LEMMA StepOnward ==
  ASSUME MobilePlaces, Journaled, [MobileNext]_mobileVars, NEW o \in Operations
  PROVE Onward(o)
<1>1. CASE UNCHANGED mobileVars
  BY <1>1 DEF mobileVars, Onward, Dispatching, Op
<1>2. ASSUME NEW s \in Servers, Comes(s) PROVE Onward(o)
  <2>1. server' = [server EXCEPT ![s] = server'[s]] /\ server'[s].at \notin Undispatched
    BY <1>2, ServersArrive DEF Comes, Goes, Undispatched
  <2>2. \A z \in Servers : ~Dispatching(z, o) => ~Dispatching(z, o)'
    BY <2>1 DEF Dispatching, Op, MobilePlaces, MobileShapes
  <2> QED BY <1>2, <2>2, OnlyTheServer DEF Onward, providerVars, creationVars, nativeVars
<1> QED BY <1>1, <1>2, HandlerOnward, OutsideOnward, StepIsOf

\* So what a result says stays true.
LEMMA TrueLasts ==
  ASSUME MobilePlaces, Journaled, [MobileNext]_mobileVars, NEW o \in Operations,
         NEW result \in Results, deliveries[o] # "absent", TrueOf(o, result)
  PROVE TrueOf(o, result)'
<1>1. Onward(o)
  BY StepOnward
<1>2. request[o] \in {"unsent", "wire", "taken", "refused"}
  BY DEF MobilePlaces, MobileShapes
<1> QED BY <1>1, <1>2 DEF Onward, TrueOf

\* The three ways a handler's step ends.
LEMMA StepEnds ==
  ASSUME MobilePlaces, NEW s \in Servers, NEW r
  PROVE /\ Outcome(s, r) => server'[s].at = "persist" /\ server'[s].result = r
                              /\ server'[s].op = server[s].op
        /\ ServerTo(s, r) => server'[s].at = r /\ server'[s].result = server[s].result
                              /\ server'[s].op = server[s].op
        /\ Rejected(s) => server'[s].at = "release" /\ server'[s].result = "rejected"
                              /\ server'[s].op = server[s].op
<1>1. server \in [Servers -> ServerRecord]
  BY DEF MobilePlaces, MobileShapes
<1>2. ASSUME Outcome(s, r)
      PROVE server'[s].at = "persist" /\ server'[s].result = r /\ server'[s].op = server[s].op
  <2>1. server'[s] = [server[s] EXCEPT !.at = "persist", !.result = r]
    BY <1>1, <1>2 DEF Outcome
  <2> QED BY <1>1, <2>1 DEF ServerRecord
<1>3. ASSUME ServerTo(s, r)
      PROVE /\ server'[s].at = r /\ server'[s].result = server[s].result
            /\ server'[s].op = server[s].op
  BY <1>1, <1>3 DEF ServerTo, ServerRecord
<1>4. ASSUME Rejected(s)
      PROVE /\ server'[s].at = "release" /\ server'[s].result = "rejected"
            /\ server'[s].op = server[s].op
  <2>1. server'[s] = [server[s] EXCEPT !.at = "release", !.result = "rejected"]
    BY <1>1, <1>4 DEF Rejected
  <2> QED BY <1>1, <2>1 DEF ServerRecord
<1> QED BY <1>2, <1>3, <1>4

\* A server that is about to persist a true result knows what it says.
LEMMA KnowsOutcome ==
  ASSUME NEW s \in Servers, NEW o \in Operations, NEW r \in Results,
         server'[s].at = "persist", server'[s].op = o, server'[s].result = r, TrueOf(o, r)'
  PROVE Knows(s)'
BY DEF Knows, ServerAt, Op, TrueOf

\* An operation that has been refused, or that its one dispatcher gives up, is
\* with no provider and never will be.
LEMMA RejectionTrue ==
  ASSUME MobilePlaces, Journaled, NEW s \in Servers, NEW o \in Operations, o = Op(s),
         UNCHANGED providerVars,
         server' = [server EXCEPT ![s] = server'[s]], server'[s].at \notin Undispatched,
         server[s].at \in Undispatched \/ request[o] = "refused"
  PROVE TrueOf(o, "rejected")'
<1>1. request[o] \notin {"wire", "taken"} /\ request' = request
  BY DEF Journaled, OneDispatcher, SentOnce, Undispatched, providerVars
<1>2. ASSUME NEW z \in Servers PROVE ~Dispatching(z, o)'
  <2>1. CASE z = s
    BY <2>1 DEF Dispatching
  <2>2. CASE z # s
    <3>1. server'[z] = server[z]
      BY <2>2 DEF MobilePlaces, MobileShapes
    <3>2. ~Dispatching(z, o)
      BY <2>2 DEF Journaled, OneDispatcher, SentOnce, Dispatching
    <3> QED BY <3>1, <3>2 DEF Dispatching, Op
  <2> QED BY <2>1, <2>2
<1> QED BY <1>1, <1>2 DEF TrueOf, Results

\* What the server that makes the step knows after it.
LEMMA HandlerKnows ==
  ASSUME MobilePlaces, Journaled, Truthful, NEW s \in Servers, HandlerStep(s)
  PROVE Knows(s)'
<1>1. PICK o \in Operations : o = Op(s)
  BY HandlerGoes DEF MobilePlaces, PlaceFits, ServerAt
<1>2. /\ server' = [server EXCEPT ![s] = server'[s]]
      /\ server'[s].at # "idle" => server'[s].op = o
  BY <1>1, HandlerGoes DEF Op
<1>3. Knows(s) /\ Onward(o) /\ PlaceFits(s)
  BY StepOnward, StepIsOf DEF Truthful, MobilePlaces
<1>4. /\ TrueOf(o, "unknown")'
      /\ TrueOf(o, "submitted")'
  BY DEF TrueOf, Results
<1>5. "unknown" \in Results /\ "submitted" \in Results /\ "rejected" \in Results
  BY DEF Results
<1>6. CASE server'[s].at \in {"idle", "owner", "lookup", "begin", "refused", "reload", "dispatch",
                             "reserve", "await", "thread", "reconcile"}
  BY <1>6 DEF Knows, ServerAt
<1>7. ASSUME Outcome(s, "unknown") PROVE Knows(s)'
  BY <1>1, <1>2, <1>4, <1>5, <1>7, StepEnds, KnowsOutcome DEF Op
<1>8. ASSUME Outcome(s, "rejected"), server[s].at \in Undispatched, UNCHANGED providerVars
      PROVE Knows(s)'
  <2>1. server'[s].at = "persist" /\ server'[s].op = o /\ server'[s].result = "rejected"
    BY <1>1, <1>8, StepEnds DEF Op
  <2>2. TrueOf(o, "rejected")'
    BY <1>1, <1>2, <1>8, <2>1, RejectionTrue DEF Undispatched
  <2> QED BY <1>5, <2>1, <2>2, KnowsOutcome
<1>9. ASSUME Rejected(s), server[s].at \in Undispatched \/ request[o] = "refused",
             UNCHANGED providerVars
      PROVE Knows(s)'
  <2>1. server'[s].at = "release" /\ server'[s].op = o /\ server'[s].result = "rejected"
    BY <1>1, <1>9, StepEnds DEF Op
  <2>2. TrueOf(o, "rejected")'
    BY <1>1, <1>2, <1>9, <2>1, RejectionTrue DEF Undispatched
  <2> QED BY <2>1, <2>2 DEF Knows, ServerAt, Op, TrueOf
<1>10. ASSUME server'[s].at \in {"identity", "launch", "certify", "name"}, request'[o] = "taken"
       PROVE Knows(s)'
  BY <1>2, <1>10 DEF Knows, ServerAt, Op
<1>11. CASE \/ CheckOwner(s) \/ Lookup(s) \/ Begin(s) \/ EmitRefusal(s) \/ Reload(s)
            \/ Persist(s) \/ ClearName(s)
  <2>1. server'[s].at \in {"idle", "owner", "lookup", "begin", "refused", "reload", "dispatch",
                          "reserve"}
    BY <1>11, HandlersGo DEF Goes
  <2> QED BY <1>6, <2>1
<1>12. CASE Dispatch(s)
  <2>1. CASE ServerTo(s, "await")
    BY <1>6, <2>1, StepEnds
  <2>2. CASE Outcome(s, "submitted")
    BY <1>1, <1>4, <1>5, <2>2, StepEnds, KnowsOutcome DEF Op
  <2> QED BY <1>7, <1>12, <2>1, <2>2 DEF Dispatch
<1>13. CASE AwaitAnswer(s)
  <2>1. PICK result \in MessageOutcome(o) : Outcome(s, result)
    BY <1>1, <1>13 DEF AwaitAnswer
  <2>2. result \in Results
    BY <2>1 DEF MessageOutcome, NativeReceipt, Results
  <2>3. UNCHANGED providerVars /\ UNCHANGED channel
    BY <1>13 DEF AwaitAnswer, nativeVars
  <2>4. server'[s].at = "persist" /\ server'[s].op = o /\ server'[s].result = result
    BY <1>1, <2>1, StepEnds DEF Op
  <2>5. CASE result = "rejected"
    <3>1. request[o] = "refused"
      BY <2>1, <2>5 DEF MessageOutcome, NativeReceipt
    <3>2. TrueOf(o, "rejected")'
      BY <1>1, <1>2, <2>3, <2>4, <3>1, RejectionTrue DEF Undispatched
    <3> QED BY <1>5, <2>4, <2>5, <3>2, KnowsOutcome
  <2>6. CASE result # "rejected"
    <3>1. TrueOf(o, result)'
      BY <2>1, <2>2, <2>3, <2>6 DEF MessageOutcome, NativeReceipt, TrueOf, providerVars
    <3> QED BY <2>2, <2>4, <3>1, KnowsOutcome
  <2> QED BY <2>5, <2>6
<1>14. CASE Reconcile(s)
  <2>1. UNCHANGED <<request, channel>>
    BY <1>14 DEF Reconcile, providerVars, nativeVars
  <2>2. CASE o \in Sends /\ request[o] = "taken" /\ Outcome(s, "delivered")
    <3>1. TrueOf(o, "delivered")' /\ "delivered" \in Results
      BY <2>1, <2>2, MobileConstants DEF TrueOf, Results
    <3> QED BY <1>1, <2>2, <3>1, StepEnds, KnowsOutcome DEF Op
  <2>3. CASE o \in NativeSends /\ Outcome(s, NativeReceipt(o))
    <3>1. CASE channel[o].at = "replied"
      <4>1. TrueOf(o, "delivered")' /\ "delivered" \in Results /\ Outcome(s, "delivered")
        BY <2>1, <2>3, <3>1 DEF TrueOf, Results, NativeReceipt
      <4> QED BY <1>1, <4>1, StepEnds, KnowsOutcome DEF Op
    <3>2. CASE channel[o].at # "replied"
      BY <1>7, <2>3, <3>2 DEF NativeReceipt
    <3> QED BY <3>1, <3>2
  <2>4. CASE Done(s)
    BY <1>6, <2>4 DEF Done, Waiting, MobilePlaces, MobileShapes
  <2> QED BY <1>1, <1>14, <2>2, <2>3, <2>4 DEF Reconcile
<1>15. CASE StoreCertified(s)
  <2>1. server'[s].at \in {"idle", "clear"} /\ home'[o] = "bound"
    BY <1>1, <1>3, <1>15, HandlersGo DEF Goes, Knows, StoreCertified, ServerAt, creationVars
  <2> QED BY <1>2, <1>6, <2>1 DEF Knows, ServerAt, Op
<1>16. CASE ReserveName(s)
  <2>1. CASE reservation' = o /\ ServerTo(s, "resolve")
    BY <1>1, <2>1, StepEnds DEF Knows, ServerAt, Op
  <2>2. CASE Outcome(s, "rejected")
    BY <1>8, <1>16, <2>2 DEF ReserveName, ServerAt, Undispatched
  <2> QED BY <1>1, <1>16, <2>1, <2>2 DEF ReserveName
<1>17. CASE ResolveName(s)
  <2>1. CASE ~NameTaken /\ ServerTo(s, "start")
    <3>1. reservation = o /\ UNCHANGED <<reservation, request>>
      BY <1>1, <1>3, <1>17 DEF Knows, ResolveName, ServerAt, creationVars, providerVars
    <3>2. \A p \in Creations : WithProvider(p) => p = o
      BY <2>1, <3>1 DEF Truthful, NameKept, NameTaken
    <3>3. server'[s].at = "start" /\ server'[s].op = o
      BY <1>1, <2>1, StepEnds DEF Op
    <3> QED BY <3>1, <3>2, <3>3 DEF Knows, ServerAt, Op, WithProvider
  <2>2. CASE Rejected(s)
    BY <1>9, <1>17, <2>2 DEF ResolveName, ServerAt, Undispatched
  <2> QED BY <1>17, <2>1, <2>2 DEF ResolveName
<1>18. CASE StartThread(s)
  <2>1. CASE ServerTo(s, "thread")
    BY <1>6, <2>1, StepEnds
  <2> QED BY <1>7, <1>18, <2>1 DEF StartThread, Undecided
<1>19. CASE AwaitThread(s)
  <2>1. UNCHANGED providerVars /\ request' = request
    BY <1>19 DEF AwaitThread, providerVars
  <2>2. CASE request[o] = "taken" /\ ServerTo(s, "identity")
    BY <1>10, <2>1, <2>2, StepEnds
  <2>3. CASE request[o] = "refused" /\ Rejected(s)
    BY <1>9, <2>1, <2>3
  <2> QED BY <1>1, <1>7, <1>19, <2>2, <2>3 DEF AwaitThread, Undecided
<1>20. CASE StoreIdentity(s) \/ LaunchHome(s) \/ CertifyHome(s)
  <2>1. request'[o] = "taken"
    BY <1>1, <1>3, <1>20 DEF Knows, Onward, StoreIdentity, LaunchHome, CertifyHome, ServerAt
  <2>2. CASE ServerTo(s, "launch") \/ ServerTo(s, "certify") \/ ServerTo(s, "name")
    BY <1>10, <2>1, <2>2, StepEnds
  <2> QED BY <1>7, <1>20, <2>2 DEF StoreIdentity, LaunchHome, CertifyHome, Undecided
<1>21. CASE NameThread(s)
  <2>1. request'[o] = "taken" /\ o \in Creations
    BY <1>1, <1>3, <1>21 DEF Knows, Onward, NameThread, ServerAt, PlaceFits, Creating
  <2>2. CASE /\ named' = named \union {o}
             /\ server' = [server EXCEPT ![s].at = "release", ![s].result = "created"]
    <3>1. server'[s] = [server[s] EXCEPT !.at = "release", !.result = "created"]
      BY <2>2 DEF MobilePlaces, MobileShapes
    <3>2. server'[s].at = "release" /\ server'[s].result = "created" /\ server'[s].op = o
      BY <1>1, <3>1 DEF MobilePlaces, MobileShapes, ServerRecord, Op
    <3>3. TrueOf(o, "created")' /\ o \in named'
      BY <2>1, <2>2 DEF TrueOf, Results
    <3> QED BY <3>2, <3>3 DEF Knows, ServerAt, Op, TrueOf
  <2> QED BY <1>1, <1>7, <1>21, <2>2 DEF NameThread, Undecided
<1>22. CASE ReleaseName(s)
  <2>1. PICK r \in Results : r = server[s].result
    BY <1>1, <1>3, <1>22 DEF PlaceFits, ReleaseName, ServerAt
  <2>2. TrueOf(o, r) /\ deliveries[o] # "absent"
    BY <1>1, <1>3, <1>22, <2>1
       DEF Knows, ReleaseName, ServerAt, Journaled, AdmittedFirst, Begun, Entering
  <2>3. TrueOf(o, r)'
    BY <2>1, <2>2, TrueLasts, StepIsOf
  <2>4. server'[s].at = "persist" /\ server'[s].result = r /\ server'[s].op = o
    BY <1>1, <1>22, <2>1, StepEnds DEF ReleaseName, Op
  <2> QED BY <2>3, <2>4, KnowsOutcome
<1> QED BY <1>11, <1>12, <1>13, <1>14, <1>15, <1>16, <1>17, <1>18, <1>19, <1>20, <1>21, <1>22
     DEF HandlerStep

\* A name that an operation may still want is not given back.
LEMMA ReservationHolds ==
  ASSUME MobilePlaces, Journaled, Truthful, [MobileNext]_mobileVars, NEW o \in Creations,
         reservation = o, reservation' # o
  PROVE /\ \A z \in Servers : ~Dispatching(z, o)
        /\ WithProvider(o) => o \in named \/ home[o] = "bound"
<1>1. PICK s \in Servers : ClearName(s) \/ ReleaseName(s)
  <2>1. ASSUME NEW s \in Servers, ReserveName(s), UNCHANGED reservation \/ reservation = Nothing
        PROVE FALSE
    BY <2>1, MobileConstants DEF Operations
  <2>2. UNCHANGED reservation \/ \E s \in Servers : HandlerStep(s) /\ ~UNCHANGED reservation
    BY StepIsOf, OnlyTheServer, OutsideTouches DEF mobileVars, creationVars
  <2> QED BY <2>1, <2>2, HandlersTouch DEF ReserveName
<1>2. Op(s) = o
  BY <1>1 DEF ClearName, ReleaseName, FreeName
<1>3. Knows(s) /\ o \in Operations
  BY DEF Truthful, Operations
<1>4. CASE ClearName(s)
  <2>1. home[o] = "bound" /\ request[o] = "taken"
    BY <1>2, <1>3, <1>4 DEF ClearName, Knows, ServerAt, Truthful, NameKept
  <2> QED BY <1>3, <2>1 DEF Journaled, SentOnce, OneDispatcher, Dispatching, Op
<1>5. CASE ReleaseName(s)
  <2>1. /\ TrueOf(o, server[s].result) /\ server[s].result \in {"rejected", "created"}
        /\ server[s].result = "created" => o \in named
    BY <1>2, <1>3, <1>5 DEF ReleaseName, Knows, ServerAt
  <2>2. CASE server[s].result = "rejected"
    BY <2>1, <2>2 DEF TrueOf, WithProvider
  <2>3. CASE server[s].result = "created"
    <3>1. request[o] = "taken" /\ o \in named
      BY <2>1, <2>3 DEF TrueOf
    <3> QED BY <1>3, <3>1 DEF Journaled, SentOnce, OneDispatcher, Dispatching, Op
  <2> QED BY <2>1, <2>2, <2>3
<1> QED BY <1>1, <1>4, <1>5

\* Only the holder of the name asks the provider for a conversation.
LEMMA NewlyAsked ==
  ASSUME MobilePlaces, Journaled, Truthful, [MobileNext]_mobileVars, NEW o \in Creations,
         WithProvider(o)', ~WithProvider(o)
  PROVE /\ reservation = o /\ reservation' = o
        /\ \E s \in Servers : ServerAt(s, "start") /\ Op(s) = o
<1>1. o \in Operations /\ request'[o] # request[o]
  BY DEF WithProvider, Operations
<1>2. PICK s \in Servers : HandlerStep(s)
  BY <1>1, StepIsOf, OnlyTheServer, OutsideOnward DEF WithProvider, mobileVars, providerVars
<1>3. Dispatching(s, o) /\ StartThread(s)
  BY <1>1, <1>2, HandlerRequests
<1> QED BY <1>3 DEF StartThread, creationVars, Truthful, Knows, ServerAt, Dispatching, Op

\* What the other servers know stays true.
LEMMA OthersKnow ==
  ASSUME MobilePlaces, Journaled, Truthful, [MobileNext]_mobileVars, NEW z \in Servers,
         server'[z] = server[z]
  PROVE Knows(z)'
<1>1. CASE ServerAt(z, "idle")
  BY <1>1 DEF Knows, ServerAt
<1>2. CASE ~ServerAt(z, "idle")
  <2>1. PICK o \in Operations : o = Op(z)
    BY <1>2 DEF MobilePlaces, PlaceFits
  <2>2. Knows(z) /\ PlaceFits(z) /\ Onward(o)
    BY StepOnward DEF Truthful, MobilePlaces
  <2>3. server[z].at \in Creating => o \in Creations
    BY <1>2, <2>1, <2>2 DEF PlaceFits
  <2>4. ASSUME server[z].at \in {"persist", "release"}
        PROVE TrueOf(Op(z), server[z].result)'
    <3>1. PICK r \in Results : r = server[z].result
      BY <1>2, <2>2, <2>4 DEF PlaceFits
    <3>2. TrueOf(o, r) /\ deliveries[o] # "absent"
      BY <2>1, <2>2, <2>4, <3>1 DEF Knows, Journaled, AdmittedFirst, Begun, Entering
    <3>3. TrueOf(o, r)'
      BY <3>2, TrueLasts
    <3> QED BY <2>1, <3>1, <3>3 DEF TrueOf, Op
  <2>5. ASSUME server[z].at \in {"resolve", "start"} PROVE reservation' = o
    <3>1. reservation = o /\ o \in Creations /\ Dispatching(z, o)
      BY <2>1, <2>2, <2>3, <2>5 DEF Knows, Creating, Dispatching, Undispatched
    <3> QED BY <3>1, ReservationHolds
  <2>6. ASSUME ServerAt(z, "start"), NEW p \in Creations, WithProvider(p)' PROVE p = o
    <3>1. CASE WithProvider(p)
      BY <2>1, <2>2, <2>6, <3>1 DEF Knows
    <3>2. CASE ~WithProvider(p)
      BY <2>5, <2>6, <3>2, NewlyAsked DEF ServerAt
    <3> QED BY <3>1, <3>2
  <2>7. ASSUME ServerAt(z, "release")
        PROVE /\ server[z].result \in {"rejected", "created"}
              /\ server[z].result = "created" => o \in named'
    BY <2>1, <2>2, <2>7 DEF Knows, Onward
  <2>8. ASSUME server[z].at \in {"identity", "launch", "certify", "name"}
        PROVE request'[o] = "taken"
    BY <2>1, <2>2, <2>8 DEF Knows, Onward
  <2>9. ASSUME server[z].at \in {"certified", "clear"} PROVE home'[o] = "bound"
    BY <2>1, <2>2, <2>3, <2>9 DEF Knows, Onward, Creating
  <2>10. server'[z] = server[z] /\ o = server[z].op
    BY <2>1 DEF Op
  <2> QED BY <2>4, <2>5, <2>6, <2>7, <2>8, <2>9, <2>10 DEF Knows, ServerAt, Op
<1> QED BY <1>1, <1>2

\* A server keeps knowing what it is about to write.
LEMMA KnowsStep ==
  ASSUME MobilePlaces, Journaled, Truthful, [MobileNext]_mobileVars, NEW z \in Servers
  PROVE Knows(z)'
<1>1. CASE server' = server
  BY <1>1, OthersKnow
<1>2. ASSUME NEW s \in Servers, HandlerStep(s) PROVE Knows(z)'
  <2>1. z # s => server'[z] = server[z]
    BY <1>2, HandlerGoes DEF MobilePlaces, MobileShapes
  <2> QED BY <1>2, <2>1, HandlerKnows, OthersKnow
<1>3. ASSUME NEW s \in Servers, Comes(s) PROVE Knows(z)'
  <2>1. z # s => server'[z] = server[z]
    BY <1>3, ServersArrive DEF Comes, Goes, MobilePlaces, MobileShapes
  <2>2. ASSUME NEW o \in Operations, AskCreation(s, o) PROVE Knows(s)'
    <3>1. home'[o] = "bound"
      BY <2>2 DEF AskCreation, creationVars
    <3>2. server'[s].at = "certified" /\ server'[s].op = o
      BY <2>2, ServersArrive DEF Goes
    <3> QED BY <3>1, <3>2 DEF Knows, ServerAt, Op
  <2>3. CASE ~\E o \in Operations : AskCreation(s, o)
    <3>1. server'[s].at \in {"idle", "owner", "lookup", "reconcile"}
      BY <1>3, <2>3, ServersArrive DEF Comes, Goes
    <3>2. Knows(s)'
      BY <3>1 DEF Knows, ServerAt
    <3> QED BY <2>1, <3>2, OthersKnow
  <2> QED BY <2>1, <2>2, <2>3, OthersKnow
<1>4. Outside => server' = server
  BY OutsideTouches
<1> QED BY <1>1, <1>2, <1>3, <1>4, StepIsOf DEF mobileVars

\* The receipts stay true.
LEMMA ReceiptsStep ==
  ASSUME MobilePlaces, Journaled, Truthful, [MobileNext]_mobileVars
  PROVE ReceiptsTrue'
<1> SUFFICES ASSUME NEW o \in Operations, deliveries'[o] # "absent"
             PROVE TrueOf(o, deliveries[o])'
  BY DEF ReceiptsTrue
<1> HIDE DEF Operations
<1>1. deliveries'[o] \in Results
  BY PlacesStep DEF MobilePlaces, MobileShapes
<1>2. TrueOf(o, "unknown")'
  BY DEF TrueOf, Results
<1>3. CASE deliveries'[o] = deliveries[o]
  <2>1. PICK r \in Results : r = deliveries[o]
    BY <1>1, <1>3
  <2>2. TrueOf(o, r)
    BY <1>3, <2>1 DEF Truthful, ReceiptsTrue
  <2>3. TrueOf(o, r)'
    BY <1>3, <2>1, <2>2, TrueLasts
  <2> QED BY <1>3, <2>1, <2>3 DEF TrueOf
<1>4. CASE deliveries'[o] = "unknown"
  BY <1>2, <1>4 DEF TrueOf
<1>5. CASE deliveries'[o] # deliveries[o] /\ deliveries'[o] # "unknown"
  <2>1. PICK s \in Servers : HandlerStep(s)
    BY <1>5, StepIsOf, OnlyTheServer, OutsideTouches DEF mobileVars
  <2>2. Persist(s) \/ StoreCertified(s)
    BY <1>5, <2>1, HandlersTouch DEF Begin, StoreIdentity, MobilePlaces, MobileShapes
  <2>3. Op(s) = o
    BY <1>5, <2>2 DEF Persist, StoreCertified, MobilePlaces, MobileShapes
  <2>4. Knows(s) /\ PlaceFits(s)
    BY DEF Truthful, MobilePlaces
  <2>5. deliveries[o] # "absent"
    BY <2>2, <2>3 DEF Persist, StoreCertified, ServerAt, Journaled, AdmittedFirst, Begun, Entering
  <2>6. CASE Persist(s)
    <3>1. deliveries'[o] = server[s].result
      BY <1>5, <2>3, <2>6 DEF Persist, MobilePlaces, MobileShapes
    <3>2. PICK r \in Results : r = server[s].result
      BY <1>1, <3>1
    <3>3. TrueOf(o, r)
      BY <2>3, <2>4, <2>6, <3>2 DEF Knows, Persist, ServerAt
    <3>4. TrueOf(o, r)'
      BY <2>5, <3>3, TrueLasts
    <3> QED BY <3>1, <3>2, <3>4 DEF TrueOf
  <2>7. CASE StoreCertified(s)
    <3>1. deliveries'[o] = "created"
      BY <1>5, <2>3, <2>7 DEF StoreCertified, MobilePlaces, MobileShapes
    <3>2. home[o] = "bound" /\ o \in Creations
      BY <2>3, <2>4, <2>7 DEF Knows, PlaceFits, StoreCertified, ServerAt, Creating
    <3>3. TrueOf(o, "created")
      BY <3>2 DEF TrueOf, Results, Truthful, NameKept
    <3>4. TrueOf(o, "created")'
      BY <2>5, <3>3, TrueLasts DEF TrueOf
    <3> QED BY <3>1, <3>4 DEF TrueOf
  <2> QED BY <2>2, <2>6, <2>7
<1> QED BY <1>3, <1>4, <1>5

\* A conversation bears the name, or has its home, only if the provider has it.
LEMMA BornTaken ==
  ASSUME MobilePlaces, Journaled, Truthful, [MobileNext]_mobileVars, NEW o \in Creations,
         home'[o] # "none" \/ o \in named'
  PROVE request'[o] = "taken"
<1>1. o \in Operations /\ Onward(o)
  BY StepOnward DEF Operations
<1>2. CASE home[o] # "none" \/ o \in named
  BY <1>1, <1>2 DEF Truthful, NameKept, Onward
<1>3. CASE home[o] = "none" /\ o \notin named
  <2>1. PICK s \in Servers : HandlerStep(s)
    BY <1>3, StepIsOf, OnlyTheServer, OutsideTouches
       DEF mobileVars, creationVars, MobilePlaces, MobileShapes
  <2>2. /\ LaunchHome(s) \/ CertifyHome(s) \/ NameThread(s)
        /\ Op(s) = o
    BY <1>3, <2>1, HandlersTouch
       DEF LaunchHome, CertifyHome, NameThread, MobilePlaces, MobileShapes
  <2>3. request[o] = "taken"
    BY <2>2 DEF Truthful, Knows, LaunchHome, CertifyHome, NameThread, ServerAt
  <2> QED BY <1>1, <2>3 DEF Onward
<1> QED BY <1>2, <1>3

\* A name stays reserved while the provider may have its conversation.
LEMMA NamesStep ==
  ASSUME MobilePlaces, Journaled, Truthful, [MobileNext]_mobileVars
  PROVE NameKept' /\ OneConversationPerName'
<1>1. ASSUME NEW o \in Creations, WithProvider(o)'
      PROVE (reservation = o \/ o \in named \/ home[o] = "bound")'
  <2>1. Onward(o)
    BY StepOnward DEF Operations
  <2>2. CASE WithProvider(o)
    BY <2>1, <2>2, ReservationHolds DEF Truthful, NameKept, Onward
  <2>3. CASE ~WithProvider(o)
    BY <1>1, <2>3, NewlyAsked
  <2> QED BY <2>2, <2>3
<1>2. NameKept'
  BY <1>1, BornTaken DEF NameKept
<1>3. ASSUME NEW o \in Creations, NEW p \in Creations, WithProvider(o)', WithProvider(p)',
             ~WithProvider(o)
      PROVE o = p
  <2>1. PICK s \in Servers : ServerAt(s, "start") /\ Op(s) = o /\ reservation = o
    BY <1>3, NewlyAsked
  <2>2. CASE WithProvider(p)
    BY <2>1, <2>2 DEF Truthful, Knows
  <2>3. CASE ~WithProvider(p)
    BY <1>3, <2>1, <2>3, NewlyAsked
  <2> QED BY <2>2, <2>3
<1>4. ASSUME NEW o \in Creations, NEW p \in Creations, WithProvider(o)', WithProvider(p)'
      PROVE o = p
  <2>1. CASE WithProvider(o) /\ WithProvider(p)
    BY <2>1 DEF Truthful, OneConversationPerName, WithProvider
  <2> QED BY <1>3, <1>4, <2>1
<1> QED BY <1>2, <1>4 DEF OneConversationPerName, WithProvider

MobileInv == MobilePlaces /\ Journaled /\ Truthful

\* The inductive invariant holds throughout.
LEMMA MobileInvAlways == MobileSpec => []MobileInv
<1>1. MobileInit => MobileInv
  BY PlacesInit, JournaledInit, TruthfulInit DEF MobileInv
<1>2. MobileInv /\ [MobileNext]_mobileVars => MobileInv'
  BY PlacesStep, JournaledStep, ReceiptsStep, KnowsStep, NamesStep DEF MobileInv, Truthful
<1> QED BY <1>1, <1>2, PTL DEF MobileSpec

\* What a receipt says is so (persist_outcome, reconcile_delivery,
\* creation_receipt): servers that end, late answers and receipts that
\* overwrite each other do not make the journal say what has not happened.
THEOREM SettledTrulyAlways == MobileSpec => []SettledTruly
<1>1. MobileInv => SettledTruly
  <2> SUFFICES ASSUME MobileInv, NEW o \in Operations, deliveries[o] # "absent"
               PROVE /\ deliveries[o] = "rejected" => request[o] \notin {"wire", "taken"}
                     /\ deliveries[o] \in {"accepted", "created"} => request[o] = "taken"
                     /\ deliveries[o] = "delivered" =>
                          IF o \in NativeSends THEN channel[o].at = "replied"
                                               ELSE request[o] = "taken"
                     /\ deliveries[o] = "created" => o \in named \/ home[o] = "bound"
    BY DEF SettledTruly
  <2> QED BY DEF MobileInv, Truthful, ReceiptsTrue, TrueOf
<1> QED BY <1>1, MobileInvAlways, PTL

\* The provider has one conversation of a name (reserve_creation,
\* finish_creation): the name stays reserved from before the provider is asked
\* until the conversation bears it, or the provider has refused.
THEOREM OneConversationAlways == MobileSpec => []OneConversationPerName
BY MobileInvAlways, PTL DEF MobileInv, Truthful
=============================================================================
