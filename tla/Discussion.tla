----------------------------- MODULE Discussion -----------------------------
(***************************************************************************)
(* Comments and reactions (modules/comments, modules/likes) and the thread *)
(* a page shows (CommentsThread.tsx, Likes.tsx).  A comment hangs off a     *)
(* record or another comment; a user has one reaction to each of them.     *)
(* Requests are of a page that may be open twice, and one database         *)
(* statement is one step; an answer comes back after any later one.        *)
(*                                                                         *)
(* Which records a user may view is given; authors, bodies, times and the  *)
(* other users' counts are left out.  Administrators' edits of the two     *)
(* tables go through the module engine and are one step here.              *)
(***************************************************************************)
EXTENDS Integers, FiniteSets

CONSTANTS
  Readers, Tabs, Posts,
  Remarks,      \* rows the comments table may have
  Requesters,   \* requests under way
  MaxDepth,     \* replies CanViewTarget climbs; 64 in the code
  MaxPresses, MaxCleanups, MaxClicks,  \* bounds: reactions, administrators' edits, requests
  Unwritten, Deleted, Nowhere

Targets == Posts \cup Remarks
Values == {-1, 1}

ASSUME DiscussionAssumption ==
  /\ Posts \cap Remarks = {} /\ {Unwritten, Deleted, Nowhere} \cap Targets = {}
  /\ {MaxDepth, MaxPresses, MaxCleanups, MaxClicks} \subseteq Nat

VARIABLES
  owner,      \* who has each tab open
  viewers,    \* who may view each record
  gone,       \* records deleted
  remarks,    \* the comments table: what each hangs off
  reactions,  \* the likes table: [id, by, on, value]
  tabs,       \* what each tab shows
  request,    \* what each request is at
  counts,     \* reactions pressed, rows deleted and moved, requests made
  wanted      \* history: what presses taken one after the other would leave

discussionVars == <<owner, viewers, gone, remarks, reactions, tabs, request, counts, wanted>>

Over == [at |-> "idle"]
Written == {c \in Remarks : remarks[c] \notin {Unwritten, Deleted}}
ReactionTo(u, on) == {r \in reactions : r.by = u /\ r.on = on}
Mine(u, on) == IF ReactionTo(u, on) = {} THEN 0 ELSE (CHOOSE r \in ReactionTo(u, on) : TRUE).value

DiscussionInit ==
  /\ owner \in [Tabs -> Readers] /\ viewers \in [Posts -> {Readers, {}}] /\ gone = {}
  /\ remarks = [c \in Remarks |-> Unwritten] /\ reactions = {}
  /\ tabs = [t \in Tabs |-> [on |-> Nowhere, of |-> Nowhere, tree |-> {}, mine |-> [x \in Targets |-> 0],
                             busy |-> FALSE, submitting |-> FALSE, error |-> FALSE, posted |-> {}]]
  /\ request = [x \in Requesters |-> Over]
  /\ counts = [presses |-> 0, cleanups |-> 0, asked |-> 0]
  /\ wanted = [u \in Readers |-> [x \in Targets |-> 0]]

-----------------------------------------------------------------------------
(* Climbing from a comment to what it hangs off, k times.                   *)
Above(on, k) ==
  LET climb[n \in 0..k] ==
        IF n = 0 THEN on
        ELSE IF climb[n - 1] \in Written THEN remarks[climb[n - 1]]
        ELSE IF climb[n - 1] \in Remarks THEN Nowhere ELSE climb[n - 1]
  IN  climb[k]

(* CanViewTarget.  A record that does not exist has nothing to protect.     *)
(* Mutant: it climbs for as long as there is something to climb.            *)
AnyEnd(u, on) ==
  LET root == Above(on, MaxDepth)
  IN  root \in Written \/ (root \in Posts /\ (root \in gone \/ u \in viewers[root]))
CanViewTarget(u, on) ==
  LET root == Above(on, MaxDepth)
  IN  root \in Posts /\ (root \in gone \/ u \in viewers[root])

(* The recursive query: all that hangs off a target, however far; it does   *)
(* not end where a target hangs off itself.                                 *)
Levels == 1..Cardinality(Remarks)
Thread(on) == {c \in Written : \E k \in Levels : Above(c, k) = on}
Endless(on) == on \in Thread(on)

-----------------------------------------------------------------------------
Sends(x, r) == request' = [request EXCEPT ![x] = r]
Wants(t, op, on) == [at |-> "check", op |-> op, tab |-> t, on |-> on]
Budget(n) == counts.asked + n <= MaxClicks /\ counts' = [counts EXCEPT !.asked = @ + n]

(* A record's page opens, or goes to another record: its thread and the     *)
(* reactions to the record are loaded.                                      *)
Open(t, x, y, on) ==
  /\ request[x] = Over /\ request[y] = Over /\ x # y
  /\ tabs[t].on # on
  /\ tabs' = [tabs EXCEPT ![t].on = on, ![t].error = FALSE]
  /\ request' = [request EXCEPT ![x] = Wants(t, "list", on), ![y] = [Wants(t, "likes", on) EXCEPT !.at = "summary"]]
  /\ Budget(2)
  /\ UNCHANGED <<owner, viewers, gone, remarks, reactions, wanted>>

(* A client that is none of the pages asks for the thread under a comment.  *)
(* Its answer is not followed.                                              *)
Look(t, x, on) ==
  /\ request[x] = Over /\ on \in Written
  /\ Sends(x, Wants(t, "look", on)) /\ Budget(1)
  /\ UNCHANGED <<owner, viewers, gone, remarks, reactions, tabs, wanted>>

(* A comment on the record or a reply to a comment shown.                   *)
Submit(t, x, on) ==
  /\ request[x] = Over /\ on \in {tabs[t].on} \cup tabs[t].tree /\ on # Nowhere
  /\ ~tabs[t].submitting
  /\ tabs' = [tabs EXCEPT ![t].submitting = TRUE]
  /\ Sends(x, Wants(t, "create", on)) /\ Budget(1)
  /\ UNCHANGED <<owner, viewers, gone, remarks, reactions, wanted>>

Press(t, x, on, value) ==
  /\ request[x] = Over /\ on \in {tabs[t].on} \cup tabs[t].tree /\ on # Nowhere
  /\ ~tabs[t].busy /\ counts.presses < MaxPresses
  /\ tabs' = [tabs EXCEPT ![t].busy = TRUE]
  /\ request' = [request EXCEPT ![x] =
       [at |-> "check", op |-> "react", tab |-> t, on |-> on, value |-> value]]
  /\ counts' = [counts EXCEPT !.presses = @ + 1]
  /\ UNCHANGED <<owner, viewers, gone, remarks, reactions, wanted>>

(* What the page does of an answer that is an error: it says so, under the  *)
(* thread it still shows.                                                   *)
Failed(x) ==
  LET t == request[x].tab
  IN  /\ tabs' = [tabs EXCEPT ![t].submitting = @ /\ request[x].op # "create",
                              ![t].error = @ \/ request[x].op \in {"list", "create"},
                              ![t].busy = @ /\ request[x].op # "react"]
      /\ Sends(x, Over)

-----------------------------------------------------------------------------
AfterCheck(r) == CASE r.op \in {"list", "look"} -> "query" [] r.op = "create" -> "insert" [] r.op = "react" -> "select"
Check(x) ==
  LET r == request[x]
  IN  /\ r.at = "check"
      /\ IF CanViewTarget(owner[r.tab], r.on)
         THEN Sends(x, [r EXCEPT !.at = AfterCheck(r)]) /\ UNCHANGED tabs
         ELSE Failed(x)
      /\ UNCHANGED <<owner, viewers, gone, remarks, reactions, counts, wanted>>

(* handleList: the thread, then the reader's reactions to what is in it.    *)
Query(x) ==
  LET r == request[x]
  IN  /\ r.at = "query"
      /\ Sends(x, CASE Endless(r.on) -> [r EXCEPT !.at = "endless"]
                    [] r.op = "look" /\ ~Endless(r.on) -> Over
                    [] OTHER -> [at |-> "mine", op |-> r.op, tab |-> r.tab, on |-> r.on, tree |-> Thread(r.on)])
      /\ UNCHANGED <<owner, viewers, gone, remarks, reactions, tabs, counts, wanted>>

CommentLikes(x) ==
  LET r == request[x]
      u == owner[r.tab]
  IN  /\ r.at = "mine"
      /\ Sends(x, [at |-> "answer", op |-> r.op, tab |-> r.tab, on |-> r.on, tree |-> r.tree,
                   mine |-> [c \in r.tree |-> Mine(u, c)]])
      /\ UNCHANGED <<owner, viewers, gone, remarks, reactions, tabs, counts, wanted>>

InsertComment(x, c) ==
  LET r == request[x]
  IN  /\ r.at = "insert" /\ remarks[c] = Unwritten
      /\ remarks' = [remarks EXCEPT ![c] = r.on]
      /\ Sends(x, [at |-> "answer", op |-> r.op, tab |-> r.tab, on |-> r.on, new |-> c])
      /\ UNCHANGED <<owner, viewers, gone, reactions, tabs, counts, wanted>>

(* handleReact: what there is, then what becomes of it, then the summary.   *)
SelectReaction(x) ==
  LET r == request[x]
      was == ReactionTo(owner[r.tab], r.on)
  IN  /\ r.at = "select"
      /\ Sends(x, [at |-> "write", op |-> r.op, tab |-> r.tab, on |-> r.on, value |-> r.value, was |-> was])
      /\ wanted' = [wanted EXCEPT ![owner[r.tab]][r.on] = IF @ = r.value THEN 0 ELSE r.value]
      /\ UNCHANGED <<owner, viewers, gone, remarks, reactions, tabs, counts>>

(* idx_likes_target_user.                                                   *)
(* Mutant: a table without it.                                              *)
TakesAny(u, on) == TRUE
UniqueReaction(u, on) == ReactionTo(u, on) = {}

WriteReaction(x) ==
  LET r == request[x]
      u == owner[r.tab]
      new == [id |-> x, by |-> u, on |-> r.on, value |-> r.value]
  IN  /\ r.at = "write"
      /\ IF r.was = {}
         THEN IF UniqueReaction(u, r.on)
              THEN /\ \E id \in 1..MaxPresses :
                        /\ \A q \in reactions : q.id # id
                        /\ reactions' = reactions \cup {[new EXCEPT !.id = id]}
                   /\ Sends(x, [r EXCEPT !.at = "summary"]) /\ UNCHANGED tabs
              ELSE Failed(x) /\ UNCHANGED reactions
         ELSE /\ LET same == {q \in reactions : \E w \in r.was : w.id = q.id}
                 IN  reactions' = (reactions \ same) \cup
                       (IF \E w \in r.was : w.value = r.value THEN {} ELSE {[q EXCEPT !.value = r.value] : q \in same})
              /\ Sends(x, [r EXCEPT !.at = "summary"]) /\ UNCHANGED tabs
      /\ UNCHANGED <<owner, viewers, gone, remarks, counts, wanted>>

LoadSummary(x) ==
  LET r == request[x]
  IN  /\ r.at = "summary"
      /\ Sends(x, [at |-> "answer", op |-> r.op, tab |-> r.tab, on |-> r.on, mine |-> Mine(owner[r.tab], r.on)])
      /\ UNCHANGED <<owner, viewers, gone, remarks, reactions, tabs, counts, wanted>>

StatementFailsHere(x) ==
  /\ request[x].at \in {"query", "insert", "select", "write", "summary"}
  /\ Failed(x)
  /\ UNCHANGED <<owner, viewers, gone, remarks, reactions, counts, wanted>>

-----------------------------------------------------------------------------
(* The answers, as the page takes them.                                     *)
ShowThread(x) ==
  LET r == request[x]
  IN  /\ r.at = "answer" /\ r.op = "list"
      /\ tabs' = [tabs EXCEPT ![r.tab].of = r.on, ![r.tab].tree = r.tree,
                    ![r.tab].mine = [y \in Targets |-> IF y \in r.tree THEN r.mine[y] ELSE @[y]]]
      /\ Sends(x, Over)
      /\ UNCHANGED <<owner, viewers, gone, remarks, reactions, counts, wanted>>

ShowReactions(x) ==
  LET r == request[x]
  IN  /\ r.at = "answer" /\ r.op \in {"likes", "react"}
      /\ tabs' = [tabs EXCEPT ![r.tab].mine[r.on] = r.mine, ![r.tab].busy = @ /\ r.op # "react"]
      /\ Sends(x, Over)
      /\ UNCHANGED <<owner, viewers, gone, remarks, reactions, counts, wanted>>

(* A comment that was taken: the thread of what is open now is loaded.      *)
ShowPosted(x) ==
  LET r == request[x]
  IN  /\ r.at = "answer" /\ r.op = "create"
      /\ tabs' = [tabs EXCEPT ![r.tab].submitting = FALSE, ![r.tab].error = FALSE, ![r.tab].posted = @ \cup {r.new}]
      /\ Sends(x, Wants(r.tab, "list", tabs[r.tab].on))
      /\ UNCHANGED <<owner, viewers, gone, remarks, reactions, counts, wanted>>

(* Administrators delete a comment or hang it elsewhere; a record goes.     *)
Cleanup ==
  /\ counts.cleanups < MaxCleanups
  /\ counts' = [counts EXCEPT !.cleanups = @ + 1]
  /\ \/ \E c \in Written, to \in Targets \cup {Deleted} :
          to # remarks[c] /\ remarks' = [remarks EXCEPT ![c] = to] /\ UNCHANGED gone
     \/ \E p \in Posts \ gone : gone' = gone \cup {p} /\ UNCHANGED remarks
  /\ UNCHANGED <<owner, viewers, reactions, tabs, request, wanted>>

Clicks ==
  \/ \E t \in Tabs, x, y \in Requesters, on \in Posts : Open(t, x, y, on)
  \/ \E t \in Tabs, x \in Requesters, on \in Targets :
       Submit(t, x, on) \/ Look(t, x, on) \/ \E value \in Values : Press(t, x, on, value)
Answering(x) ==
  \/ Check(x) \/ Query(x) \/ CommentLikes(x) \/ SelectReaction(x) \/ WriteReaction(x) \/ LoadSummary(x)
  \/ \E c \in Remarks : InsertComment(x, c)
  \/ ShowThread(x) \/ ShowReactions(x) \/ ShowPosted(x)

-----------------------------------------------------------------------------
Silent == \A x \in Requesters : request[x] = Over

(* One reaction per user per target (likes.go:3).                           *)
OneReaction == \A u \in Readers, on \in Targets : Cardinality(ReactionTo(u, on)) <= 1

(* With one click at a time: the thread query ends, for whoever is let      *)
(* through can be climbed up from; a repeated press clears and another      *)
(* switches, and the page shows it; the page shows the thread of the record *)
(* it is open at, with the comments made there that still hang off it.      *)
QueriesEnd == \A x \in Requesters : request[x].at # "endless"
TogglesTrue ==
  Silent => \A u \in Readers, on \in Targets : Mine(u, on) = wanted[u][on]
ShownReactions ==
  Silent => \A t \in Tabs : tabs[t].on # Nowhere =>
    (\E s \in Tabs \ {t} : owner[s] = owner[t]) \/ tabs[t].mine[tabs[t].on] = Mine(owner[t], tabs[t].on)
ShownThread ==
  Silent => \A t \in Tabs : tabs[t].of # Nowhere =>
    \/ tabs[t].error
    \/ /\ tabs[t].of = tabs[t].on
       /\ tabs[t].posted \cap Thread(tabs[t].on) \subseteq tabs[t].tree
=============================================================================
