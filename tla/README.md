# A verification project for tls-rest

tls-rest is one Go server (`main.go`, `go/`) behind a React client (`js/`). It
serves a site built from modules (posts, images, users, comments, ...) through
one generic engine, and beside that real-time features: group video calls whose
distribution trees the server plans, WebRTC signalling over server-sent events, a
relay peer inside the server process, a party game, chats, private messages, a
shop, events, a video tool and scheduled jobs.

What is hard about it is state that several goroutines, requests or tabs touch at
once, with a lock, a transaction or a version check round each step but not round
all of them. Those are the parts that are modelled. All paths below are relative
to `src/`; `mesh/` stands for `go/engine/controllers/mesh/`, `relaynode/`,
`auth/`, `optimizer/`, `config/`, `accesslog/` and `turn/` for the directories of
those names under `go/engine/controllers/`, `p2prendezvous/`, `chats/`,
`messages/`, `events/` and `images/` for those under `go/engine/modules/`, and
`papers/`, `cart/` and `payments/` for those under `go/modules/`.

`PROJECT.json` is the index: the components, the runs, the mutants, the source
lines each definition stands for, the findings, the hazards and the theorems.

Contents: 1 inventory, 2 modules, 3 runs and bounds, 4 fairness, 5 findings,
6 proofs, 7 what is only model-checked and why, 8 what is not modelled,
9 what is left, 10 running it.

## 1. Inventory

| Component | State it keeps | Operations | Talks to |
|---|---|---|---|
| mesh coordinator, `mesh/coordinator.go`, `handler.go` | per room: peer order, reports, last seen, generation, bounded history, `serverEngaged`; one relay switch | `Report`, `Remove`, `ReportServerLink`, `Plan`, `SetServerRelayEnabled` | the optimizer (pure call); plan hooks: relay node, notify hub |
| signal queue and streams, `mesh/signal.go`, `p2prendezvous/hub.go`, `handlers.go`, `calls.go` | `signalQueue`; subscribers' channels | `QueueSignal`, `DrainSignal`, `subscribe`, `notify`, `handleStream` | chat membership in the database; the browser |
| relay node, `relaynode/` | per room: connections, received tracks, wiring, last desired forwards | `Reconcile`, `HandleSignal`, `getOrCreate`, `dropPeer`, `teardownRoom`, `OnTrack`, state-change callback | the coordinator's plan hook; the signal queue; the WebRTC library |
| negotiation of one connection, `relaynode/relaynode.go:211-352`, `mesh.ts` | `makingOffer`, pending candidates, signalling state | negotiate, offer, answer, candidate | the other end, by messages |
| overlay optimizer, `optimizer/` | none | flow assignment, cheapest bounded routes, stitching of trees | called by the coordinator |
| papers game, `papers/game.go`, `cache.go`, `hub.go` | one cached `RoomState` per room; one timer per turn | `JoinGame`, `TurnAction` (start, wrong, guessed, restart, end), `GameState` | the cache |
| chats, friends, blocks, `chats/` | five tables | ask, accept, decline, unfriend, delete, add, remove, leave, block, report, unblock | the database, one statement at a time |
| sessions and epochs, `auth/sessions.go`, `config/config.go` | sessions in Redis, two epochs | resolve, stamp, log in, log out, issue and revoke tokens | every request |
| settings, `config/`, `AppConfig` | the config table's levels, a session's copy, the browser's copy | resolve, save, edit | sessions |
| rights resolution, `auth/resolve.go` | three rights tables | one-query and three-query resolution, role ceiling | sessions, pages and menus |
| module engine, `go/engine/controllers/module`, `base_controller.go` | one table per module, its column cache | gate, list, view, create, edit, delete, reconcile | the database; rights |
| fieldsets, `fieldset_handler.go`, `FieldsetProvider.tsx` | the browser's copy under a hash, what a session was last sent | describe, answer 200 or 304, apply | rights; option tables |
| requests and logs, `route/middleware`, `accesslog/`, `log/` | a bounded queue, counters, two tables | gate, route, record, buffer, store | rights, rules |
| access rules and firewall, `accesslog/` | cached rules, the firewall's ranges, what was applied | decide, reload, reconcile, expire | ufw |
| accounts, `users/oauth.go`, `pages/login`, `auth/` | the users table, state cookies | provider sign-in, link, create, register, log in, change address | providers |
| comments and likes | two tables; the page's thread | list, write, edit, react, clean up | the browser |
| shop, `cart/`, `payments/` | cart lines, payments, the catalogue | put, edit, check out, buy | a payment platform |
| images, `images/`, and `db/cache` | rows, files, a cache bounded in bytes with expiry | upload in a quota, serve, edit, delete | the engine's access rules |
| private messages, `messages/` | messages with a read mark; a hub | send, read a thread, count | streams |
| events, `events/`, Google push | events, reminders, copies in a calendar | edit, derive visibility, push, remind | Google |
| scheduled actions, `actions/` | a running mark, output, tickers | run, schedule, finish, poll | commands |
| video tool jobs | jobs, files, a retention timer | load, upload, export, sweep | ffmpeg, yt-dlp |
| filtered streams | a filter per stream | start, change, remove | ffmpeg |
| presence, tokens, call invitations, `p2prendezvous/` | tokens, heartbeats, invitations | verify, hear, look up, ring | UDP; chats |
| TURN usage cap, `turn/` | the over-cap flag, issued credentials | check, fetch | Cloudflare |
| server start, rate limits, database drivers, claudenotify, content modules, pages, browser client | - | - | not modelled, section 8 |

### Hard behaviours, and what makes each component correct

* **Coordinator.** `Plan` takes the room's lock three times and calls hooks under
  none, so reports, removals and other plans run in between. Correct: the three
  maps of a room name the same peers; the order is stable; polling does not pile
  up history; the timeline describes the reports it is filed under; a dead peer
  and the relay switch take effect in the end.
* **Signals.** Membership is checked, the signal queued and the stream woken in
  three steps; two streams of one user drain the same queues; sends to a full
  wake-up channel are dropped. Correct: a signal reaches exactly one stream, in
  order, and none is left in front of a stream that sleeps.
* **Relay node.** Plans, signals, tracks and closed connections edit one set of
  books in several lock regions each. Correct: nobody is sent what no plan
  wanted, no closed connection stays on file, the books describe what is sent.
* **Negotiation.** Offers cross, candidates come early. Correct: both ends end
  with the same offer agreed to and no candidate is lost.
* **Papers.** Every request and every timer edits a copy of the room and puts it
  back: the last to put wins. Correct: every copy that may be put back is legal.
* **Chats, shop, accounts, comments, events.** Handlers write several rows in
  separate statements without a transaction, and any may fail. Correct: the
  tables agree, units are not lost, an account has one way in, a reaction is
  single, a reminder goes to those who may see the event.
* **Sessions, settings, fieldsets, image cache.** Copies of what the database
  holds, with epochs, hashes or a time to live that say whether they are current.
  Correct: a copy that says it is current is, at a moment one may ask for.
* **Rights and engine.** A resolution is three queries while administrators
  write; a write is checked and done in two steps. Correct: resolvers agree,
  roles only narrow, rows are changed only by who may at that step.
* **Actions, video jobs, filters, presence, usage, rules.** Timers and goroutines
  beside the requests. Correct: an action runs once at a time; a finished export
  is there; no frame meets a closed filter; who is shown online was there; a month
  over the cap stays so; what is remembered as denied is denied.

The list of hazards in `PROJECT.json` has these at their lines, with the
properties that would catch each.

## 2. The modules

```
Mailbox <- refined by - SignalStream     <- MCSignalStream      <- (SignalStreamProofs)
MeshCoordinator                          <- MCMeshCoordinator   <- MeshCoordinatorProofs
Sessions                                 <- MCSessions          <- SessionsProofs
Rights, ModuleEngine, Fieldsets          <- MCModuleEngine      <- EngineProofs
DistributionTree, FlowAssignment, Shop,
  Images (with Cache), Threads,
  PapersGame, Settings                   <- MCServices          <- ServicesProofs
Actions, Events, VideoJobs, FilterStreams,
  Rendezvous, TurnUsage, AccessRules     <- MCBackground        <- BackgroundProofs
RelayNode, Negotiation, Chats, Requests,
  Accounts, Discussion                   <- MCExchanges         <- ExchangesProofs <- DialogueProofs
```

A proof module in parentheses extends the component's module directly. An
operator whose comment begins with "Mutant:", or with "The mutant", stands before
the definition it is a wrong form of. Nothing uses it: put in place of that
definition it must break the property `PROJECT.json` names beside it, which shows
that the property depends on the code it is about.

### Calls

**MeshCoordinator** is one room: rooms share the lock and the relay switch and
nothing else. `reports`, `lastSeen` and `order` are `reports`, `age` and `seat`:
a report is the generation it was made at, an age is counted in ticks and stops
one past `StaleAfter`, and a seat is the generation at which the peer was
appended. A call of `Plan` is four steps: `PlanBegin` (prune and copy, first
lock), `PlanDecide` (buildPlanFor, setServerEngaged), `PlanAppend`
(appendHistory with its deduplication and bound) and `PlanHook` (after the last
unlock). The optimizer's result is reduced to what `Plan` compares. `Remove`,
`ReportServerLink` and `SetServerRelayEnabled` have no caller in the repository
and may come at any time.

**SignalStream** is signalling to one user; **Mailbox** is what it promises.
`CheckMember`/`RelaySignal`, `QueueSignal`, `HookNotify`, `SenderNotify` are a
sender; `Open`, `ListChats`, `DrainSignal`, `WriteEvent`, `Wake`, `Close` a
stream. The refinement maps `pending` to the queues and `handed` to everything
that left them.

**RelayNode** is the books of one call room. A worker is a goroutine; a step is
one region under `rp.mu` with the library call that follows. Rooms and
connections are numbered objects because a goroutine goes on using one that has
left the map. `Reconcile` chooses between `teardownRoom` (`ListPeers`,
`DropPeer`s, `DeleteRoom`) and `getOrCreate`s (`Connect`, then `CreateConn` or
`CreateFails`), `Diff`, drops, sends and stops, in the order of the code
(`Settle`).

**Negotiation** is one connection's offers and answers: the node's end step by
step between locks, library calls and queued messages, the human's as `mesh.ts`
handles one event at a time (its candidates' wire format lacks a field the
relay's client sends; `relaynode.go:139-140` says both follow one algorithm).
`ignoreOffer` is left out: it only decides whether a candidate the library refuses
is answered with an error.

**DistributionTree** and **FlowAssignment** are the optimizer: Dijkstra over
`<<node, relays so far>>` and the stitching into one tree; and Frank-Wolfe with a
marginal cost in whole numbers and a line search that finds 0, a half or 1.
Bisection, tolerances and pruning below 1e-9 are abstracted away, and a falling
objective is not claimed.

**Rendezvous** is tokens, heartbeats, presence and call invitations; **TurnUsage**
the monthly cap of relayed bytes.

### Sessions, rights and the engine

**Sessions**: a request reads its session once, refreshes what is stale, and
writes the whole session back, with nothing joining the steps; logins, logouts,
tokens, bumps of the two epochs, expiry and restarts run between. What the
database holds is a version number. A handler's operation is chosen when it runs;
keys expire only while no request holds them; an epoch after a restart is later
than all before; a client sends one credential; a bump by hand is a change to the
same. `Login` is `RevokeToken`'s only caller, and a logout has no effect on a
request with a bearer token.

**Rights** resolves modes, fields and filters from the rows of three tables, in
one query for sessions and in three for pages and menus, while administrators
write. **ModuleEngine** is one module's table: a request takes its viewer once and
each of its queries is a step, beside the reconciliation of the table's columns.
**Fieldsets** is the description of the fields with the rows of option tables, the
304 for an unchanged hash, and tabs that apply the answers. **Settings** resolves
a user's effective settings from the levels of the config table into the session
and the browser.

### The other services

**PapersGame**: `room` is the cached value and each worker holds its copy; the
`Players` map is shared by all copies because a Go map is a reference (`books`).
With at most three players Go never appends into the spare room of a shared slice,
so `Order` and `Finished` are plain sequences. **Chats**: one statement is a step;
a handler reads, then holds the list of its writes; `StatementFails` stops it after
any of them. **Threads**: two users' messages, the badge of unread ones and its
hub. **Shop**: a buyer's cart, checkout and payments by statements that may fail.
**Images** with **Cache**: uploads within a quota, and serving through a cache that
holds by which rule each image is shown. **Accounts**: who signs in as whom.
**Discussion**: comments, reactions and the page that shows them. **Requests**: the
way of a request through rules, gates, router, recorder and buffer, and the two
logs. **AccessRules**: decisions, reloads and the firewall's reconciliation.
**Actions**, **Events**, **VideoJobs**, **FilterStreams**: an action with its
schedules and terminal, events with reminders and copies at Google, jobs of the
video tool, and one filtered stream.

## 3. The runs

Sizes are chosen so that each actor a property needs is there twice where the
property is about two, and each bound is passed at least once: a history of two
points is exceeded by three reports, a channel of one is full, a room is torn
down and made again. Every action and every disjunct of each next-state relation
fires in the passing runs.

| Run | Instance | What it shows |
|---|---|---|
| `mesh_calls` | 2 peers, 2 handlers, 3 reports per incarnation, a history of 2 | However calls of `Plan` overlap: `RosterConsistent`, `HistoryOnePerReport`, `OrderStable`, and `KillSwitchWorks`. With one handler: `CalmPlansInOrder` (flag, published plan and timeline describe the latest report) and `DeadPeerForgotten`. |
| `signal_stream` | 1 call room, 2 senders, 2 streams, failing queries, fairness | `SignalConservation`, `OrderKept`, `NoLostWakeup`, `ImplementsMailbox`, and `QueuedIsTaken` with the exception it states. |
| `signal_poll` | 1 room, 1 sender, 1 stream, fairness | Is a signal taken whenever the recipient is a member, as the comment on polling says? **No.** |
| `sessions` | 2 users, 2 goroutines, 3 keys, 3 requests, a change, a restart | `KeyKeepsItsUser`, `StampsTruthful`, `ServedFresh` where no change falls between resolution and stamp, `CalmLeftForGood` where the requests of a key take turns. |
| `sessions_stale` | 1 user, 2 goroutines | `ServedFresh` where one does? **No.** |
| `module_engine` | 4 groups, 3 users, 2 requests, 4 rows, 2 tabs | Four kinds of behaviour, section "Calm and kinds": `RightsSound`, `PagesCoverScope` and `WritesByRight`, `CalmNewColumnsAreServed`, `ShownIsCurrent`. |
| `services` | eight services one at a time | `OptimizerSound`, `CalmUnitsConserved`, `ImagesSound`, `BadgeSound`, `GameSound`, `SettingsSound`. |
| `cart_paid` | the shop | Do the lines stay out of the cart once charged? **No.** |
| `background` | seven services one at a time | `ActionsSound`, `EventsSound`, `VideoSound`, `StreamSound`, `FindingSound`, `SuspendedForTheMonth`, `RulesSound`. |
| `exchanges` | six exchanges one at a time | `NodeSound`, `NegotiationSound`, `CalmTablesAgree`, `CalmAchieves`, `RequestsSound`, `AccountsSound`, `DiscussionSound`. |
| `relay_wiring` | 2 humans, 1 goroutine | Is the wiring what is "currently being forwarded", after a source reconnects? **No.** |
| `requests_status` | 3 clients, 2 goroutines | Is a request recorded with its final status? **No.** |

**Calm and kinds.** Some promises hold only while goroutines take turns and
nothing fails. The MC modules choose in the initial state whether a behaviour is
`calm`, and a calm one may be longer; the properties, or the conjuncts of them,
that begin with `calm =>` speak of those behaviours and the others of all of them.
So one run shows both, and reaches the interleavings in which the stronger
promises fail. What calm means is said where it is defined: one handler
(`MCMeshCoordinator`), requests of a key in turn (`MCSessions`), no lookup of the
columns round the reconciliation (`MCModuleEngine`), goroutines in turn and no
failure that nothing makes good (`MCServices`, `MCBackground`, `MCExchanges`).
Components that share no state take turns as well: `service`, `kind` and the like
choose which one a behaviour is about, and the others stay as they were.

**Symmetry** is used where peers, handlers, streams or users are interchangeable
and no liveness is checked. **Deadlock** is not checked where bounds on requests
let a behaviour come to rest; in `mesh_calls`, `signal_stream` and `signal_poll`
every state has a successor.

### Bounds

| Bound | What it cuts off | Why it is enough |
|---|---|---|
| `MaxGeneration` = 3, `MaxHistory` = 2 | reports of one incarnation of a room; a pruned room starts over | one report more than the history holds, and one more than the peers |
| `StaleAfter` = 0, `MaxCrashes` = 2, `FewReports` = 2 | ages counted before eviction, clients that die, reports when handlers overlap | only "too old or not" is read; all clients may die; the order of two reports is what an overlap confuses |
| `MaxSignals` = 2, `ChanSize` = 1 | signals, places of the channel (4 in the code) | two suffice for order and a full channel; a smaller channel drops wake-ups earlier (and the proofs hold for any) |
| `MaxKeys`, `MaxRequests` = 3, `MaxChanges`, `MaxRestarts` = 1, `MaxOverlap` = 2 | sessions | a request before, during and after one change or restart |
| `MaxWrites` = 2, `MaxRows` = 4, engine's `MaxRequests` = 2, fieldsets' `MaxChanges`, `MaxAsks` = 2 | writes of rights between the three queries; rows and requests of one module; asks of two tabs | a write in each gap; a page boundary between rows of others and a row more; an answer that overtakes another |
| `MaxEvents` = 4 (3 overlapping) | plans, signals, tracks and failures of the relay | a plan, its track, a failure and a plan again |
| `MaxOffers` = 4 (3 overlapping), `MaxTracks` = 1 | negotiation | both sides offer at once and once more |
| `MaxAsked` = 5 (`MaxOverlap` = 3) | handlers of the chats | ask, accept, unfriend, ask, answer; three that overlap |
| `MaxRequests` = 2, `QueueSize` = 1 | requests, the access log's queue | a full queue and a request that finds it so |
| `States` = 2, `MaxAccounts` = 2, two sign-ins | accounts | two sign-ins begun in one browser; two accounts that could share an address or an identity |
| `MaxDepth` = 1, `MaxPresses` = 2, `MaxCleanups` = 1, `MaxClicks` = 4 (2 overlapping) | discussion | an answer to an answer's parent; two presses of one button; a clean-up between |
| papers' `MaxRequests` = 5 (the last one alone), `MaxTurns` = 2, 3 players | the game | two joins, two starts and one more |
| `MaxUnits` = 3, `MaxPayments`, `MaxFailures`, `MaxCatalogues` = 1, `MaxLine` = 3 > `MaxQuantity` = 2 | the shop | one unit more than a line may have; a failure at any one statement |
| `TTL` = 2, `MaxTime` = 4, `MaxBytes` = 3, `MaxUserBytes` = 2, `MaxMoves` = 1 | images | an entry that expires and one that is evicted; two uploads that together pass the quota |
| `Room` = 1, `MaxMessages` = 2 | the badge's channel (4), messages | a full channel; a message between the read and the mark |
| N = 4, `MaxRelayHops` = 1, `HopCosts` {1, 4}; `Demand` = 4, `MaxIterations` = 2 | graphs of the optimizer; flows | every graph of four nodes at two prices both ways; two shifts that halve |
| `MaxAsks` = 2, `MaxEdits` = 1 | settings | an edit between two resolutions |
| `MaxRuns`, `MaxSchedules`, `MaxOutput`, `MaxEdits`, `MaxFilters`, `MaxFrames`, `LastTick`, `MaxTokens`, `MaxSent`, `CapBytes`, `MaxMonths`, `MaxRuleEdits`, `MaxExpired`, `MaxTroubles` | the background services | each event once and once more beside itself |

## 4. Fairness

* Coordinator: a started handler runs to its end (Go schedules a runnable
  goroutine, and no lock is held across a wait); time passes; living clients go
  on polling, because the browser re-reports every six seconds. Reports, removals
  and the switch are free. Where every client is dead nothing is promised, and
  the properties say so.
* Streams and senders: a goroutine that can take a step takes one. The client's
  requests, the database's answers and membership are free, so `QueuedIsTaken`
  admits that a stream's last list lacked the room.

There is no strong fairness anywhere, and no other specification states fairness.

## 5. Findings

Each is the one property of a run that ends with the behaviour that shows it.

1. **The ticker polls nothing** (`p2prendezvous/handlers.go:242`, `signal_poll`).
   The comment promises that a keep-alive poll covers membership changes; the
   ticker only pings, so a signal may wait in front of an open stream.
2. **A source that reconnects is forwarded to nobody**
   (`relaynode/planner.go:125`, `relay_wiring`). `dropPeer` keeps the children of
   the dropped peer's own stream on the wiring, and later diffs skip them.
3. **Old rights under the current epoch** (`auth/sessions.go:42`,
   `sessions_stale`). Rights are resolved and the epoch they are stamped with is
   read after; a change and its bump in between leave the old rights current.
4. **Paid lines return to the cart** (`payments/checkout.go:95`, `cart_paid`).
   The charge worked and only the update of its row failed.
5. **Pages are recorded with 103** (`route/middleware/recorder.go:24`,
   `requests_status`). The recorder keeps the first status it is given, and early
   hints come first.

Seen while modelling, where a comment or a test says otherwise but no run of its
own shows it:

* `coordinator.go:536-539` says the history is "rebuilt from what was actually
  reported and planned at that moment"; a plan is made from reports taken under one
  lock and recorded later under another, so an outdated plan can be filed as the
  newest.
* Two joins of a papers game share the players map and not the order
  (`papers/game.go:161-195`): the one whose order is overwritten is "already in"
  for ever.
* An accept that overlaps an unfriend inserts the friends row after it was deleted
  (`chats.go:77-79`, `handlers.go:456-483`, `677-683`).
* `oauth.go:36` says an unknown identity is linked to the account its address
  leads to; an account with a password or another provider is refused instead. A
  lookup that fails counts as one that finds nothing, so "idempotent across
  repeated logins" holds when nothing fails.
* A form of a repeating event that was loaded before the event rolled forward and
  is sent back whole makes its reminder fire again ("sent exactly once",
  `events.go:277-278`); an event edited back to "self" stays shown to those it was
  shown to; two first pushes that overlap make two copies at Google.
* After a restart heartbeats are dropped until a new token is minted, contrary to
  `presence.go:23-26`.
* `jobs.go:32-33`: a restart loses the map and the timers, so directories are never
  swept.
* A page listed by `HasPageMode` may be one that `RequiresAdmin` then refuses
  (comment at `PagesAPI`, 406-411).
* An image just processed is in the cache without its record for up to the time to
  live, contrary to `images.go:12-13`.
* An edit of the rules reloads nothing by itself; reloads happen only on requests,
  and a higher-priority allow is not honoured by the firewall, as `rules.go:35-37`
  says.
* A refused load leaves the previous record's thread under the warning
  (`CommentsThread.tsx:175-177`).
* A failed level of the settings is left out and still stamped as current; the
  second of two overlapping first saves fails on the unique pair.
* Outside calm behaviours a connection can stay stuck in have-local-offer: a
  human's offer that overtakes his answer is ignored and he waits for ever.

## 6. Proofs

The theorems hold for every value of the constants that satisfies the named
assumptions of the modules. The bounds of section 3 occur in the models only as
guards, so a theorem holds for every bound. The constants' assumptions are typing
facts and what the code fixes: `CoordinatorAssumption`, `SignalAssumption` (a
channel has a place), `EngineAssumption` (`created_by` is stored and read-only,
the first rows are numbered), `FlowAssumption` (the demand can be halved into whole
units), `AccountsAssumption` (no address is not an address), `PapersAssumption`, `RelayAssumption` and so on.

Every proof has one shape. An inductive invariant strengthens the property: `IInv`
(or a name of its own) holds at first, every action keeps it and it implies the
property. There is one lemma or one step per action; facts that several steps use
are lemmas before them. The last step joins them with `PTL`. The inductive
invariants were checked by TLC on the runs' instances before they were proved.

| Theorem | Statement | Argument |
|---|---|---|
| `MeshCoordinatorProofs.CoordinatorTypes` | Every variable of the coordinator keeps its type for every number of peers, handlers and bounds. | `TypeOK`, lock region by lock region. |
| `MeshCoordinatorProofs.CoordinatorRoster` | Order, reports and lastSeen always name the same peers, whatever handlers interleave. | `IInv` = `TypeOK`, `RosterConsistent`, `HistoryOnePerReport`. A copy taken under the lock is assumed to have no more than its type, so nothing depends on what happened since. |
| `MeshCoordinatorProofs.CoordinatorHistory` | The history grows by at most one point per report, in generation order, however many handlers plan at once. | The same `IInv`; `LastPointsIsSuffix` says what bounding the history leaves. |
| `MeshCoordinatorProofs.CoordinatorOrder` | A peer that stays in the room keeps its place in the order. | An action property, action by action from `IInv`: only pruning, `Remove` and a first report touch the order. |
| `MeshCoordinatorProofs.CalmCoordinator` | For any peers and any number of reports: with one handler and the server at a time, what is published was planned from what was reported, the server follows the plan in force and the history is as it was planned. | `CalmInv` says for each stage of the one handler's `Plan` what it has read and published. |
| `SignalStreamProofs.StreamTypes` | Every variable of the queue, its senders and its streams keeps its type, for every number of each and every channel size. | `TypeOK` of `IInv`. |
| `SignalStreamProofs.StreamConservation` | Each signal is in exactly one queue, batch or client, or was lost with a failed write, however many streams drain one queue. | `IInv` = `TypeOK`, `Flow`, `SignalConservation`, `OrderKept`, signal by signal: `Places` are where one may be. |
| `SignalStreamProofs.StreamOrder` | Queues and batches keep the order in which signals were queued. | The same `IInv`: signals are numbered as they are queued, and a queue is drained whole. |
| `SignalStreamProofs.StreamWakeup` | For every channel of at least one place a stream never sleeps in front of a signal it listed the room of, unless its sender has yet to wake it. | `Flow`: who has queued and not yet sent the wake-up, and what a full channel means. |
| `SignalStreamProofs.StreamImplementsMailbox` | Queue and readers implement the mailbox: queueing is Put, a drain that finds something is HandOver, every other step is invisible. | The initial states map to initial states; `QueueSignal` is `Put`, a drain that finds something is `HandOver`, every other step stutters. |
| `ServicesProofs.PapersPlayedFairly` | For any players, words and turns and however requests and timers overlap: what any goroutine holds or saves of a room is a game that was dealt, on a turn, with everybody placed once. | `GameInv`: `Shaped`, `Placed` and `SoundStays` say of a copy what does not depend on the shared map and the timers, and what does. |
| `SessionsProofs.TypeCorrect` | Every variable keeps its type, for any users, workers and bounds. | `TypeOK` as it stands. |
| `SessionsProofs.KeysAreKept` | However requests, logins, logouts, tokens and restarts interleave, a session key serves the user it was made for or nobody; holds with Straddle either way. | `OwnInv`: what a request under way holds under a key is that key's user's, or the key is gone. |
| `SessionsProofs.StampsAreTruthful` | When no change or bump falls between a resolution and its stamp, a session stamped with the current epochs holds what was last announced, although the configuration's epoch starts over with every restart. | `TruthInv`, assuming `Straddle = FALSE`, the premise the run `sessions_stale` shows to be needed. |
| `SessionsProofs.ServesTheAnnounced` | Under the same assumption, a request that comes after a change was announced is served with it. | The same `TruthInv` and premise. |
| `SessionsProofs.WhoLeavesStaysAway` | For any users, keys and requests, as long as the requests that use one key take turns, a user who logged out of a key, was logged in elsewhere or had it revoked never comes back under it. | An action property from `TurnsInv` = `OwnInv`, the requests of a key taking turns, and `Comes`: what a request will write back is the user still there, a new key or nobody. |
| `EngineProofs.RightsAreSound` | For any modes, fields, groups and rows of the rights tables: the three queries find the modes a session is given unless something was written in between, and a role's rows narrow what groups grant without exceeding it or touching what the user was granted himself. | `RightsInv`: fields are named after what they hold (`NamesAreFields`), the one query's rows (`QueryShape`), and what the three have read so far (`Stages`). |
| `EngineProofs.RowsAreWrittenByRight` | For any number of requests, columns and rows, and whatever happens between the check of a write and the write: a row changes only by a request of an administrator or of its author where only authors may, in fields its user is shown, and never its author. | `EngineInv` = `TableOK` (keys stay behind the sequence, an author is never changed) and `WorkersOK`, where `MayStill` is what a check leaves true until its write. |
| `EngineProofs.NewColumnsServed` | For any columns, visibilities and requests: when no lookup overlaps the reconciliation of the table, a request that comes after it is answered with every column its viewer may read, the new ones included. | `EngineInv` and, while calm, `CalmColumnsInv`: the cached columns are those of before or of now. |
| `EngineProofs.FieldsetsAreCurrent` | For any modules, fields, tables and tabs, however answers overtake one another: what a tab shows is what the server would have described at some moment since the tab last asked. | `FieldsInv`: an answer under way was true at a moment since its question; lemma `DescriptionIsTruth`. |
| `ServicesProofs.BadgesAreSound` | For any users, streams, requests and channels with room for a ping: a badge that waits shows the count as it is unless a request has yet to tell the hub, and what is marked read was shown or came meanwhile. | `ThreadsInv`: what a stream has counted is so, or it has a ping or is owed one (`CountsAgain`); what a request is about to mark was shown or came since (`MarksTheShown`). |
| `ServicesProofs.UnitsAreConserved` | For any products, requests of one buyer and prices, in any order: while no statement fails whose failure the code makes good nowhere, every unit put in the cart and not taken out of it is in the cart, held by one checkout, or in one open payment. | `ShopInv` = `ShopTypes`, `OwnPayments` (a payment that is open is known to one request alone), `UnitsConserved` and, of each request, `Tidy`. A step moves one request (`OneMoves`); the sums change by what it held before and holds now (lemma `SumChanges`). |
| `ServicesProofs.ImagesAreSound` | For any images, uploads, quota and cache limits: the cache counts the bytes it holds and keeps within its bound, answers by no rule that has been gone for longer than its time to live, and the quota is passed by at most what the other uploads under way bring. | `ImagesInv` = types, `Marked`, `CacheKept` (an entry's rule holds, or has been gone since less than its deadline less the time to live) and `QuotaKept`, which counts with the rows what uploads past the check will add. Evicting is adding up over two parts (`SumOfParts`). |
| `ServicesProofs.OptimizerIsSound` | For any overlay, costs, routes, bound on relays and number of iterations: when the search for a destination ends it has found the cheapest route the bound allows, or there is none; the routes are stitched into one tree that joins whoever can be reached and nobody else; and the flows carry the whole demand at every iteration, on cheapest routes only where the gap closed. | `TreeInv`: what the search has found is due in the heap or has been gone on from (`GoneOn`), and its route is a walk of that cost; so along any walk to the destination something due costs no more (`DueWithin`), and a cycle would have been cheaper to leave out. `PathOK` and `Accounted` for the stitching. `FlowsInv`: flows are whole multiples of a unit halved with each iteration, so no shift loses any; the excess is a sum of what each route in use costs above the cheapest (`SumOfWeights`). |
| `ServicesProofs.SettingsAreEffective` | For any members, groups, parameters and requests that overlap: settings that carry the present epochs and were resolved in peace are what user over the highest group over global rows come to, in the session and in the browser. | `SettingsInv`: a resolution nothing disturbed holds what the levels so far set (`Stage`); a session with the present epochs holds the effective settings, or an epoch is yet to move (`Truth`). That the fold over groups lets the highest win is `LayersSet`, by a least counterexample among sets of groups. |
| `BackgroundProofs.MonthStaysSuspended` | For any cap and any order of checks, what is reported and the ends of months: a month found over the cap is suspended to its end. | `UsageInv` relates the flag, the month it was set in and what a check in progress has read. |
| `BackgroundProofs.PhonesAreFound` | For any phones, tokens and addresses, with heartbeats, expiry and restarts in any order: who is shown online was there within the window, and an invitation rings exactly the members in the call. | `PresenceOK` and `CallOK`. |
| `BackgroundProofs.FirewallAsRuled` | Whatever fails and overlaps, what is remembered as denied is denied at the firewall; and with rounds one after the other the firewall denies what the rules say. | `RulesInv` = `AppliedIsDenied`, and while calm `RoundsOK`. |
| `BackgroundProofs.FiltersAreClosed` | For any number of changes of a filter and of frames, no frame goes through a closed filter, and none stays open after its stream but for a change that began before. | `StreamInv`: who holds which filter, from opening to closing. |
| `BackgroundProofs.ExportsAreWhole` | For any jobs, formats and requests, a job that is done has its file; and while no connection is lost what is said to be done can be downloaded and the track shown is the job's. | `VideoInv`: a job's status against its file and its page. |
| `BackgroundProofs.ActionsRunApart` | For any administrators, schedules and polls, an action runs once at a time; and if no run panics its mark is true and the terminal shows the output in order, each byte once. | `ActionsInv`: the running mark against who set it; the terminal shows a prefix of the output. |
| `BackgroundProofs.RemindersAndCalendars` | For any people, editors, scopes and edits that overlap or fail half-way, whoever is reminded of an event may see it; and with one edit at a time by the author and no failure, a reminder fires once for each time that was set, and the calendars hold one copy of a synced event, of its series, and none of any other. | `EventsIInv`: of every row, `ShownTo` says that the derived lists hold whom the scope names, whatever is edited; while calm `CalmEventsOK`: the form under way fits the row it came from (`FormsFit`), the copies of an event are its own but between its push and its write (`AllMirrored`, `PushedAs`), and what fired is before the event's time or marked (`FiredBefore`). Lemma `OneMoreInterval` is the arithmetic of a series. |
| `ExchangesProofs.NodeIsSound` | For any room, plans and goroutines that overlap: what is wired was asked for and every connection on file is open; and with one goroutine at a time a quiet node's wiring is exactly what its connections send. | `NodeInv` = types, what a goroutine holds exists, a connection on file is its peer's, open and its room's; while calm `NodeIInv` adds what the one goroutine has still to do. |
| `ExchangesProofs.AccountsAreSound` | For any people, addresses, providers and browsers, whatever overlaps and fails: an account has one way in, an identity one account, and an answer is the owner's account in the browser he began in; and when nothing overlaps or fails an address and an identity always lead to the same account. | `AccountsInv`: `TheAccounts` (`OneEach`, `EitherWay`), `TheSigners` (who is about to link or answer holds an account without a password), `TheAnswers`, `CookiesOK`; rows only grow (`Grown`). While calm `CalmAccountsInv`: what the one goroutine has looked up still holds (`Knows`). |
| `ExchangesProofs.RequestsAreSound` | For any clients, rights, modules, pages, goroutines and places in the queue: every counted request has one row, in the order they came, or is counted as dropped or failed; a row of a request for the API has the status its client was sent; the router picks only what the gate let through; and while rights stay as they are a menu is what the gates allow. | `RequestsInv`: the table, the row held and the queue in turn (`LogInv`); an answer's status is the one it was sent with or will be (`Fair`); a request under way has a row only if it was denied (`LineOK`). While calm `CalmMenus`. |
| `DialogueProofs.NegotiationIsSound` | For any number of offers, tracks and goroutines of the node: no candidate that came early is forgotten; and when the node's goroutines take turns and it gets the messages in order, two quiet ends have agreed on the same offer and every track is covered by it. | `NegotiationIInv` = `NegotiationTypes`, `CandidatesReached`, and while calm `CalmEnds`: for each place of the node's goroutine and each message on its way, which offer the two ends last agreed to or are about to, and which tracks it covers. |
| `DialogueProofs.ChatsTablesAgree` | For any users, handlers and requests in any order, when handlers take turns and nothing fails: two users never have two direct chats, at rest they are friends exactly when both have accepted theirs, and a block has left them neither friendship nor subscription nor open request. | `ChatsIInv`: nobody is at work and the tables are `Tuned` (a direct chat stands as one of three, nobody has two, friends have one, the blocked are apart), or one handler is, at one of 31 places, each named with the writes it has left and the chat, the friends and the blocked it has still to put in tune (`InTune`). One lemma per kind of statement, in operators of the tables so that a step is an instance of it. |
| `DialogueProofs.CalmExchangesAchieve` | For any room and plan, and any users: when one goroutine works at a time a reconciliation ends with exactly its plan's connections and forwards; and when handlers take turns a chat goes only when a member who accepted it deletes it, or a decline or a removal has left it abandoned. | An action property from `NodeIInv` (lemma `NodeAchieves`) and `ChatsIInv` (lemma `MayGo`: who is about to drop a chat knows it was accepted by him, or abandoned). |

Where a property says `calm =>`, the theorem has the same premise and its
invariant has two parts: one for all behaviours, one for calm ones, the latter
mostly a description of what the one goroutine at work has done so far.

## 7. What is only model-checked, and why

* **Liveness**: `KillSwitchWorks`, `DeadPeerForgotten`, `QueuedIsTaken`. Fairness
  and `ENABLED` are out of the prover's reach.
* **Induction over data.** `DiscussionSound` is about how far a chain of comments is
  climbed, and `PagesCoverScope` needs that the sorted enumeration of a set is
  unique. The library's induction theorems take an operator as a parameter, which no
  installed prover can instantiate. Elsewhere the way round is a least
  counterexample: the set of subsets (`SmallestOf`), or of numbers (`LeastOf`), for
  which a claim fails has a least member, and the claim holds of it after all. So
  sums over finite sets, folds over groups and the climb from a node of a route tree
  to its root are proved in `ServicesProofs`.
* **Nothing else**: every other property that a passing run checks is stated by a
  theorem of section 6.

## 8. What is not modelled, and why

Server start and shutdown, routing tables, rate limits and request parsing, and
pages and their localisation: straight-line code whose state is set once. Database
drivers: a statement is one atomic step that may fail. `claudenotify` repeats the
pattern of the signal hub. Content modules (posts, works and the like) are
instances of the module engine. The browser client is modelled where a component's
promise needs it (streams, negotiation, fieldsets, settings, comments). ffmpeg,
yt-dlp, ufw, Google and payment platforms, TLS and HTTP, WebRTC inside the library
are external: only what the code does with their answers is modelled, and any
answer may come. What the Go runtime aborts on (two goroutines that write one map
at once, as two requests of a papers game can) is left out: the map is a set that
is updated atomically. So are papers rooms of four players and more, where
appending may write into the spare room of a slice that two copies share.

Each component's entry in `PROJECT.json` says what of it is left out.

## 9. What is left

Proofs of the properties named last in section 7. The cache of images as a
refinement of a map from images to bytes.

## 10. Running it

```
tlasany Chats.tla                                  # parse
tlc -workers 2 -config exchanges.cfg MCExchanges   # a run, 2 to 3 minutes each
tlapm ExchangesProofs.tla                          # check the proofs of a module
```

The runs and their modules are listed in `PROJECT.json`. The five that show a
finding end with a counterexample, the others without an error.
