----------------------------- MODULE MCExchanges -----------------------------
(***************************************************************************)
(* Exchanges that share nothing, each in behaviours of its own, in which   *)
(* the others stay as they were at the start: the relay node of a room,    *)
(* one connection's offers and answers, chats with their friends and       *)
(* blocks, requests and what is recorded of them, accounts, comments and   *)
(* reactions.                                                              *)
(***************************************************************************)
EXTENDS RelayNode, Negotiation, Chats, Requests, Accounts, Discussion

CONSTANTS
  Exchanges,  \* "relay", "negotiation", "chats", "requests", "accounts", "discussion"
  a, b        \* the humans of the relay node's room

VARIABLES
  service,
  calm     \* what the promises named below are made for

MCSymmetry == Permutations(Workers) \cup Permutations(Users) \cup Permutations(Remarks)

-----------------------------------------------------------------------------
(* The relay node: one stream relayed from the first human to the second,   *)
(* and the plans around it.                                                 *)
Edge(s, p, c) == [source |-> s, parent |-> p, child |-> c]

(* The server relays a's stream to b; the optimizer also plans a tree for   *)
(* the server's own, empty, stream.                                         *)
RelayPlan == {Edge(a, a, Server), Edge(a, Server, b), Edge(Server, Server, b)}

(* The server only receives.                                                *)
ReceivePlan == {Edge(a, a, Server), Edge(Server, Server, a)}

(* The server receives a's stream, which b gets from a directly.            *)
DirectPlan == {Edge(a, a, Server), Edge(a, a, b), Edge(Server, Server, b)}

(* The humans alone, or nothing to plan.                                    *)
NoServerPlan == {Edge(a, a, b)}
AllPlans == {RelayPlan, ReceivePlan, DirectPlan, NoServerPlan}

(* Calm: goroutines take turns and the library makes every connection it is *)
(* asked for.                                                               *)
Turns == \A x, y \in Workers : worker[x].at # "idle" /\ worker[y].at # "idle" => x = y
NoneRefused ==
  \A x \in Workers : worker[x].at = "create" /\ worker'[x] # worker[x] => conns' # conns
\* Bound: events of the behaviours in which goroutines overlap.
FewEvents == events <= 3

-----------------------------------------------------------------------------
(* Negotiation.  Calm: one goroutine of the node at a time, which takes the *)
(* human's messages in the order he sent them.  Fewer offers when not.      *)
InOrder == Len(toNode') >= Len(toNode) \/ (Working = 0 /\ toNode' = Tail(toNode))
CalmNegotiation == Working' <= 1 /\ InOrder
\* Bound: offers of the behaviours in which goroutines overlap.
FewOffers == Len(offers) <= 3

-----------------------------------------------------------------------------
(* Chats.  Calm: handlers take turns, no statement fails and clients        *)
(* decline only what is pending.  In all behaviours members are added to    *)
(* groups only, which is what the route is for; the handler does not look.  *)
CONSTANTS
  StrayDeclines,  \* whether clients also decline what is not pending
  MaxOverlap      \* bound: requests of the behaviours that are not calm

HandlersTakeTurns == Cardinality({x \in Handlers : handler[x].at # "idle"}) <= 1
Started(job) == {x \in Handlers : handler[x].at = "idle" /\ handler'[x].job = job}
GroupsGrow == \A x \in Started("add") : chats[handler'[x].chat].type = "group"
PendingDeclined ==
  \A x \in Started("decline") : Status(handler'[x].chat, handler'[x].by) = "pending"
ChatSteps ==
  /\ \/ \E x \in Handlers : Handle(x) \/ (~calm /\ StatementFails(x))
     \/ \E u \in Users : ClearReport(u)
  /\ GroupsGrow
  /\ (calm \/ ~StrayDeclines) => PendingDeclined
  /\ IF calm THEN HandlersTakeTurns' ELSE asked' <= MaxOverlap

-----------------------------------------------------------------------------
(* Requests, of a guest, a user and an administrator.  Calm: one at a time, *)
(* the first of them any, and rights stay as they are.  Bound: the answers  *)
(* of those that overlap are not buffered for statistics.                   *)
MCRoleOf == "visitor" :> "guest" @@ "member" :> "user" @@ "keeper" :> "admin"
MCGrants ==
  LET G(posts, logs, profile) ==
        "posts" :> posts @@ "logs" :> logs @@ "profile" :> profile @@ "settings" :> {}
  IN  {G({}, {}, {}), G({"list", "view"}, {"list"}, {"view"}),
       G({"list", "create", "edit"}, {"view", "edit"}, {"view", "edit"})}
Menu == Ask("menu", "none", "GET", FALSE, "marked", FALSE)
FewAsks == {Browsing("posts"), Ask("module", "posts", "GET", TRUE, "marked", FALSE)}
AskedNow == IF ~calm THEN FewAsks ELSE IF told = <<>> THEN Asks ELSE {Menu}
AnyBegin(t) ==
  \E c \in Clients, x \in AskedNow, stats \in BOOLEAN :
    (stats => calm /\ Admin(session[c])) /\ Begin(t, c, x, stats)
RequestSteps ==
  \/ \E t \in Tasks : RequestStep(t) \/ AnyBegin(t)
  \/ LogStep
  \/ Rule("member") \/ (~calm /\ Regrant("member"))
NobodyServed == \A t \in Tasks : task[t] = Waiter
CalmRequests == NobodyServed \/ (\E t \in Tasks : RequestStep(t))
(* Bounds: sessions have the same rights at first, and where requests       *)
(* overlap they are to read posts.                                          *)
AlikeSessions ==
  \A c, e \in Clients : session[c].rights = session[e].rights /\ (calm \/ "view" \in session[c].rights["posts"])

-----------------------------------------------------------------------------
(* Accounts.  Calm: one goroutine at a time and no statement fails.         *)
MCEmailOf == [i \in Identities |-> IF i = "k" THEN "f" ELSE "e"]
AccountSteps ==
  \/ \E x \in Signers, fails \in {FALSE} \cup (IF calm THEN {} ELSE {TRUE}) :
       \/ SignerStep(x, fails)
       \/ \E p \in Owners, e \in Emails : Register(x, p, e, fails)
  \/ \E x \in Signers :
       \/ InsertRegistered(x) \/ WriteEmail(x)
       \/ \E i \in Identities, client \in BOOLEAN : TokenLogin(x, i, client) /\ (calm \/ (i # "k" /\ ~client))
       \/ \E q \in Browsers, c \in consents : CompleteOAuth(x, q, c)
       \/ \E r \in Rows, e \in Emails : ChangeEmail(x, r, e)
  \/ \E q \in Browsers, i \in Identities : StartOAuth(q, i)
  \/ \E p \in Owners, e \in Emails : Login(p, e)
(* Bounds: sign-ins, trips to a provider when goroutines overlap, and both  *)
(* together when they do not.                                               *)
FewSignIns == Cardinality(answers) <= 2 /\ IF calm THEN states + Cardinality(answers) <= 3 ELSE states <= 1
SignersTakeTurns == Cardinality({x \in Signers : signer[x] # Away}) <= 1

-----------------------------------------------------------------------------
(* Discussion.  Calm: a click is answered before anything else happens, and *)
(* no statement fails.                                                      *)
OneClick ==
  /\ Silent \/ \A x \in Requesters : request[x] = Over => request'[x] = Over
  /\ counts'.cleanups # counts.cleanups => Silent
\* Bound: clicks of the behaviours in which requests overlap; two tabs only for presses.
FewClicks ==
  /\ counts.cleanups = 0
  /\ counts.asked > 2 =>
       /\ \A s, t \in Tabs : owner[s] = owner[t] /\ tabs[s].on = tabs[t].on
       /\ \A c \in Remarks : remarks[c] = Unwritten
       /\ \A t \in Tabs : ~tabs[t].submitting
\* The two records may be exchanged: more may view the first.
Ordered ==
  LET first == CHOOSE p \in Posts : TRUE
  IN  \A q \in Posts : viewers[q] \subseteq viewers[first]
DiscussionSteps ==
  Clicks \/ Cleanup \/ \E x \in Requesters : Answering(x) \/ (~calm /\ StatementFailsHere(x))

-----------------------------------------------------------------------------
NoRequests ==
  /\ session = <<>> /\ denied = {} /\ task = <<>> /\ menu = <<>> /\ waiting = <<>> /\ storing = NoEntry
  /\ accessLog = <<>> /\ counted = <<>> /\ journal = <<>> /\ told = <<>>
NoDiscussion ==
  /\ owner = <<>> /\ viewers = <<>> /\ gone = {} /\ remarks = <<>> /\ reactions = {}
  /\ tabs = <<>> /\ request = <<>> /\ counts = <<>> /\ wanted = <<>>

MCInit ==
  /\ service \in Exchanges /\ calm \in BOOLEAN
  /\ RelayInit /\ NegotiationInit /\ ChatsInit /\ AccountsInit
  /\ IF service = "requests" THEN RequestsInit /\ AlikeSessions ELSE NoRequests
  /\ IF service = "discussion" THEN DiscussionInit /\ Ordered ELSE NoDiscussion

first == <<nodeVars, negotiationVars, chatsVars>>
second == <<requestsVars, accountsVars, discussionVars>>
MCNext ==
  /\ UNCHANGED <<service, calm>>
  /\ \/ /\ UNCHANGED second
        /\ \/ /\ service = "relay" /\ RelayNext /\ UNCHANGED <<negotiationVars, chatsVars>>
              /\ IF calm THEN Turns' /\ NoneRefused ELSE FewEvents'
           \/ /\ service = "negotiation" /\ NegotiationNext /\ UNCHANGED <<nodeVars, chatsVars>>
              /\ IF calm THEN CalmNegotiation ELSE FewOffers'
           \/ service = "chats" /\ ChatSteps /\ UNCHANGED <<nodeVars, negotiationVars>>
     \/ /\ UNCHANGED first
        /\ \/ /\ service = "requests" /\ RequestSteps /\ UNCHANGED <<accountsVars, discussionVars>>
              /\ calm => CalmRequests
           \/ /\ service = "accounts" /\ AccountSteps /\ UNCHANGED <<requestsVars, discussionVars>>
              /\ FewSignIns' /\ (calm => SignersTakeTurns')
           \/ /\ service = "discussion" /\ DiscussionSteps /\ UNCHANGED <<requestsVars, accountsVars>>
              /\ IF calm THEN OneClick ELSE FewClicks'

MCSpec == MCInit /\ [][MCNext]_<<first, second, service, calm>>

-----------------------------------------------------------------------------
(* Whatever overlaps and fails, nobody is wired who is not wanted and no    *)
(* closed connection stays on file; and in a calm behaviour the wiring of a *)
(* quiet node is exactly what is being sent (planner.go Reconcile,          *)
(* relaynode.go dropPeer).                                                  *)
NodeSound == WiringWanted /\ RegisteredIsOpen /\ (calm => WiringMatchesSenders)

(* A candidate that comes early is added in the end; and in a calm          *)
(* behaviour both ends end with the same offer agreed to and every track    *)
(* settled (relaynode.go negotiate, handleDescription).                     *)
NegotiationSound == CandidatesReached /\ (calm => EndsAgree)

(* In a calm behaviour the tables agree: FriendsMatchChats, OneDirectChat   *)
(* and BlockSevers (chats.go, blocks.go, handlers.go).                      *)
CalmTablesAgree == calm => FriendsMatchChats /\ OneDirectChat /\ BlockSevers

(* In a calm behaviour a reconciliation ends with exactly the plan's        *)
(* connections, and every desired forward that has a track wired            *)
(* (planner.go Reconcile); and a chat goes for the reasons it may: deleted  *)
(* by a member, or by a decline or a removal that leaves it abandoned       *)
(* (handlers.go deleteIfAbandoned).                                         *)
CalmAchieves == [][calm => AchievesPlan /\ GoesAbandoned]_<<nodeVars, chatsVars, calm>>

(* What is counted is recorded once and in order, with the status that was  *)
(* sent; what the router picks is within the session's rights; and while    *)
(* rights stay as they are a menu says what the gates say (middleware.go,   *)
(* accesslog.go, controllers.go ModulesAPI, page.go).                       *)
AtRequests == service = "requests"
RequestsSound ==
  AtRequests => EntriesConserved /\ ApiStatusTrue /\ WithinRights /\ (calm => MenuTrue)

(* Accounts have one way in and one account per identity, and are answered  *)
(* to their owner in the browser he began in; and in a calm behaviour an    *)
(* address and an identity lead to one account (oauth.go, auth.go).         *)
AccountsSound ==
  OneWayIn /\ OwnAccounts /\ SameBrowser /\ (calm => OnePerEmail /\ SameAccount /\ ClientsJoined)

(* One reaction per user and target; and in a calm behaviour thread queries *)
(* end, presses toggle, and pages show their record's thread and reactions  *)
(* (comments.go, likes.go, CommentsThread.tsx).                             *)
DiscussionSound ==
  service = "discussion" =>
    OneReaction /\ (calm => QueriesEnd /\ TogglesTrue /\ ShownReactions /\ ShownThread)
=============================================================================
