----------------------------- MODULE MCBackground -----------------------------
(***************************************************************************)
(* More services that share nothing, each in behaviours of its own, in     *)
(* which the others stay as they were at the start: scheduled actions,     *)
(* events and their reminders, jobs of the video tool, a filtered stream,  *)
(* phones that find each other and ring, the cap on relayed bytes, rules   *)
(* that the firewall follows.                                              *)
(***************************************************************************)
EXTENDS Actions, Events, VideoJobs, FilterStreams, Rendezvous, TurnUsage, AccessRules, TLC

CONSTANTS Backgrounds  \* "actions", "events", "video", "stream", "finding", "calling", "turn", "rules"

VARIABLES
  service,
  calm     \* what the promises named below are made for

MCSymmetry == Permutations(Admins) \cup Permutations(Polls) \cup Permutations(Jobs)

MCRoleOf == 1 :> "plain" @@ 2 :> "group_admin" @@ 3 :> "admin"
MCGroupOf == 1 :> "g" @@ 2 :> "g" @@ 3 :> "h"

Rule(id, ips, agent, allow, priority, firewall) ==
  [id |-> id, ips |-> ips, agent |-> agent, allow |-> allow, priority |-> priority, firewall |-> firewall]
MCRules ==
  {Rule(1, {1}, "any", TRUE, 1, FALSE), Rule(2, {1, 2}, "any", FALSE, 2, TRUE),
   Rule(3, {}, "bot", FALSE, 2, TRUE), Rule(4, {2}, "any", FALSE, 3, TRUE)}

-----------------------------------------------------------------------------
NoActions ==
  /\ interactive = FALSE /\ running = FALSE /\ schedules = 0 /\ stop = NoTicker /\ tickers = {}
  /\ caller = <<>> /\ process = NoProcess /\ terminal = <<>> /\ poll = <<>>
NoEvents ==
  /\ clock = 0 /\ events = <<>> /\ copies = <<>> /\ connected = {}
  /\ editor = <<>> /\ fired = {}
NoVideo ==
  /\ jobs = {} /\ dirs = {} /\ job = <<>> /\ files = <<>> /\ task = <<>>
  /\ tool = Blank /\ edits = 0
NoRules == enabled = {}

MCInit ==
  /\ service \in Backgrounds /\ calm \in BOOLEAN
  /\ IF service = "actions" THEN ActionsInit ELSE NoActions
  /\ IF service = "events" THEN EventsInit /\ connected \in {{}, People} ELSE NoEvents
  /\ IF service = "video" THEN VideoInit ELSE NoVideo
  /\ StreamInit
  /\ RendezvousInit /\ UsageInit
  /\ AccessInit /\ enabled \in {{}, MCRules} /\ (service # "rules" => NoRules)

-----------------------------------------------------------------------------
(* No run panics in a request, and the page asks for output of the run it   *)
(* was opened for, one request at a time.                                   *)
CalmActions ==
  /\ \A c \in Admins : ~Panic(c)
  /\ \A p \in Polls : poll'[p] # NoPoll =>
       terminal'.run = process'.run /\ \A q \in Polls \ {p} : poll'[q] = NoPoll

(* One edit at a time, by the event's author, of a row no reminder rolls on *)
(* meanwhile; nothing fails.  A behaviour that is not calm has edits by one *)
(* administrator of few kinds.                                              *)
Busy == {e \in Editors : editor[e] # Filling}
CalmEvents ==
  /\ Cardinality(Busy') <= 1
  /\ Busy # {} => events' = events \/ editor' # editor
  /\ \A e \in Busy' : editor'[e].id \in DOMAIN events' => events'[editor'[e].id].by = editor'[e].who
FewKinds ==
  \A e \in Editors : editor[e] # Filling =>
    /\ editor[e].who = 3 /\ editor[e].data.scope.kind \in {"self", "group"}
    /\ editor[e].data.repeat = 1 /\ editor[e].data.sync /\ editor[e].data.starts = 0
EventSteps ==
  /\ \/ Starting \/ Editing \/ Check
     \/ calm /\ Pass
     \/ \E e \in Editors : PushSkipped(e) /\ (calm => editor[e].who \notin connected)
     \/ ~calm /\ Failing
  /\ IF calm THEN CalmEvents ELSE FewKinds'

(* No connection is lost, and no other source is chosen while a track is    *)
(* being sent.                                                              *)
CalmVideo ==
  /\ \A h \in Handlers : ~Lose(h)
  /\ (\E h \in Handlers : task[h].op = "track") => tool'.job = tool.job

(* No change that found the stream is made after the stream is removed.     *)
CalmStream == \A s \in Switchers : switcher[s] = "found" => worker' # "gone"

(* Nothing fails, no address is blocked for its agent, and a round of rules *)
(* is stored and followed before the next is read.                          *)
OneRound ==
  /\ \A l, k \in Loaders : loader[l].on /\ loader[k].on => l = k
  /\ \A v, w \in waiting : v = w
  /\ \A l \in Loaders : loader[l].on => Settled
  /\ reconcile.on => waiting = {}
CalmRules ==
  /\ troubles' = troubles /\ OneRound'
  /\ \A ip \in toBlock : ~Block(ip, FALSE)

first == <<actionsVars, eventsVars, videoVars, streamVars>>
second == <<rendezvousVars, usageVars, accessVars>>
MCNext ==
  /\ \/ /\ UNCHANGED second
        /\ \/ service = "actions" /\ ActionsNext /\ (calm => CalmActions) /\ UNCHANGED <<eventsVars, videoVars, streamVars>>
           \/ service = "events" /\ EventSteps /\ UNCHANGED <<actionsVars, videoVars, streamVars>>
           \/ service = "video" /\ VideoNext /\ (calm => CalmVideo) /\ UNCHANGED <<actionsVars, eventsVars, streamVars>>
           \/ service = "stream" /\ StreamNext /\ (calm => CalmStream) /\ UNCHANGED <<actionsVars, eventsVars, videoVars>>
     \/ /\ UNCHANGED first
        /\ \/ /\ UNCHANGED <<usageVars, accessVars>> /\ ~calm
              /\ \/ service = "finding" /\ (Finding \/ RestartFinder)
                 \/ service = "calling" /\ Calling
           \/ service = "turn" /\ ~calm /\ UsageNext /\ UNCHANGED <<rendezvousVars, accessVars>>
           \/ service = "rules" /\ AccessNext /\ (calm => CalmRules) /\ UNCHANGED <<rendezvousVars, usageVars>>
  /\ UNCHANGED <<service, calm>>

MCSpec == MCInit /\ [][MCNext]_<<first, second, service, calm>>

-----------------------------------------------------------------------------
AtActions == service = "actions"

(* One run at a time, whatever requests and tickers do; and if no run       *)
(* panics the running mark is true and the page's terminal shows the output *)
(* (actions.go RunNow, process.go Output).                                  *)
ActionsSound == AtActions => RunsApart /\ (calm => MarkIsTrue /\ TerminalTrue)

(* Whoever is reminded of an event may see it; and with one edit at a time  *)
(* a reminder fires once and the calendar's copy says what the event does   *)
(* (notifier.go, notify.go, googlepush.go).                                 *)
EventsSound == RemindedCanSee /\ (calm => FiresOnce /\ CalendarsMirror)

(* A job that is done has its file; and while no connection is lost it can  *)
(* be downloaded and the track the page shows is the job's (jobs.go,        *)
(* handlers.go of the video tool).                                          *)
VideoSound == DoneHasFile /\ (calm => DoneDownloads /\ TrackShownIsThere)

(* No frame goes through a closed filter; and no filter is left open when   *)
(* its stream is gone, unless the change began before that (opencv.go).     *)
StreamSound == NoClosedFilter /\ (calm => NothingKept)

(* Who is shown online was there, and an invitation rings the members       *)
(* (presence.go, tokens.go, calls.go).                                      *)
FindingSound == OnlineWasHere /\ RingsMembers

(* What is remembered as denied is denied; and with rounds one after the    *)
(* other the firewall follows the rules (firewall.go).                      *)
RulesSound == AppliedIsDenied /\ (calm => FirewallFollows)
===============================================================================
