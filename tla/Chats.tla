-------------------------------- MODULE Chats --------------------------------
(***************************************************************************)
(* Chats, friends, subscriptions and blocks (go/engine/modules/chats).     *)
(* Every handler is a goroutine that sends the database one statement at a *)
(* time, with no transaction round them: between two statements of one     *)
(* handler those of others run, and after any of them the handler may stop *)
(* on an error, with what it wrote still there.                            *)
(*                                                                         *)
(* A handler's reads are steps of their own; once it has read all it needs *)
(* it holds the list of writes it has left (todo).  A request the handler  *)
(* refuses on its first read changes nothing and is no step here.  A chat's*)
(* type and admin never change, so the reads of them are part of the next  *)
(* statement.  Names, avatars, messages and settings are left out.         *)
(***************************************************************************)
EXTENDS Naturals, FiniteSets, Sequences, SequencesExt

CONSTANTS
  Users,        \* the users
  Handlers,     \* goroutines
  MayFail,      \* whether statements may fail
  MaxAsked      \* bound: requests ever made

ASSUME ChatsAssumption ==
  /\ IsFiniteSet(Users) /\ IsFiniteSet(Handlers)
  /\ MayFail \in BOOLEAN
  /\ MaxAsked \in Nat

VARIABLES
  chats,       \* every chat made so far, and its rows of chat_members
  friends,     \* the friends table, as sets of two users
  subscribed,  \* the subscriptions table, as <<subscriber, subscribed to>>
  blocks,      \* the blocks table, as <<blocker, blocked>>
  reported,    \* users with an open report against them
  handler,     \* what each goroutine has left to do
  asked        \* requests so far

tables == <<chats, friends, subscribed, blocks, reported>>
chatsVars == <<tables, handler, asked>>

-----------------------------------------------------------------------------
(* A user with no row in a chat is "none" there; a deleted chat is gone,   *)
(* and the foreign key took its rows with it.                              *)
Live(c) == ~chats[c].gone
ChatIds == {c \in 1..Len(chats) : Live(c)}
Status(c, u) == chats[c].member[u]
Members(c) == {u \in Users : Status(c, u) # "none"}
Active(c) == {u \in Users : Status(c, u) \in {"pending", "accepted"}}
Direct(u, v) == {c \in ChatIds : chats[c].type = "direct" /\ {u, v} \subseteq Members(c)}
Blocked(u, v) == {<<u, v>>, <<v, u>>} \cap blocks # {}

NoOne == [u \in Users |-> "none"]
WithStatus(c, set, status) ==
  [chats EXCEPT ![c].member = [u \in Users |->
     IF u \in set /\ @[u] # "none" THEN status ELSE @[u]]]

\* Statements that write.
Become(set, status) == [do |-> "status", users |-> set, status |-> status]
Befriend(u, v, yes) == [do |-> "friends", pair |-> {u, v}, yes |-> yes]
Subscribe(u, v, yes) == [do |-> "subscribe", pair |-> <<u, v>>, yes |-> yes]
NewChat(type) == [do |-> "chat", type |-> type]
AddRow(u, status) == [do |-> "row", user |-> u, status |-> status]
Invite == [do |-> "invite"]
Sever == [do |-> "sever"]
Report == [do |-> "report"]
DropChat == [do |-> "drop"]

Idle == [at |-> "idle", job |-> "none", by |-> "none", to |-> "none", chat |-> 0, todo |-> <<>>]

(* The handler with these writes left.                                     *)
Left(w, todo) == IF todo = <<>> THEN Idle ELSE [w EXCEPT !.at = "write", !.todo = todo]
Goes(x, w) == handler' = [handler EXCEPT ![x] = w]

ChatsInit ==
  /\ chats = <<>>
  /\ friends = {} /\ subscribed = {} /\ blocks = {} /\ reported = {}
  /\ handler = [x \in Handlers |-> Idle]
  /\ asked = 0

Request(x) ==
  /\ handler[x].at = "idle"
  /\ asked < MaxAsked
  /\ asked' = asked + 1

Reads(x, at) == handler[x].at = at /\ UNCHANGED <<tables, asked>>
Writes(x, do) ==
  /\ handler[x].at = "write"
  /\ Head(handler[x].todo).do = do
  /\ UNCHANGED asked
Proceed(x) == Goes(x, Left(handler[x], Tail(handler[x].todo)))

-----------------------------------------------------------------------------
(* handleCreateDirect: nobody blocked, then nobody reported, then the chat.*)
CreateDirect(x, u, v) ==
  /\ Request(x)
  /\ ~Blocked(u, v)
  /\ Goes(x, [Idle EXCEPT !.at = "reports", !.job = "direct", !.by = u, !.to = v])
  /\ UNCHANGED tables

HasOpenReport(x) ==
  /\ Reads(x, "reports")
  /\ Goes(x, IF handler[x].by \in reported THEN Idle ELSE [handler[x] EXCEPT !.at = "find"])

\* Mutant: the other's pending request is accepted, the friendship forgotten.
CrossingForgotten(c, u, v) ==
  IF Status(c, u) = "pending" THEN <<Become({u}, "accepted"), Subscribe(u, v, TRUE)>>
  ELSE IF "unfriended" \in {Status(c, u), Status(c, v)}
    THEN <<Become({u}, "accepted"), Become({v}, "pending"), Subscribe(u, v, TRUE)>>
  ELSE <<>>

(* What is left to do for a request from u to v when they have a chat.     *)
AskAgain(c, u, v) ==
  IF Status(c, u) = "pending"
    THEN <<Become({u}, "accepted"), Befriend(u, v, TRUE), Subscribe(u, v, TRUE)>>
  ELSE IF "unfriended" \in {Status(c, u), Status(c, v)}
    THEN <<Become({u}, "accepted"), Become({v}, "pending"), Subscribe(u, v, TRUE)>>
  ELSE <<>>

\* Mutant: the request always opens a chat of its own.
OpensAnother(x) ==
  LET w == handler[x]
  IN  /\ Reads(x, "find")
      /\ Goes(x, Left(w, <<NewChat("direct"), AddRow(w.by, "accepted"),
                           AddRow(w.to, "pending"), Subscribe(w.by, w.to, TRUE)>>))

FindDirect(x) ==
  LET w == handler[x]
      found == Direct(w.by, w.to)
  IN  /\ Reads(x, "find")
      /\ \/ /\ found = {}
            /\ Goes(x, Left(w, <<NewChat("direct"), AddRow(w.by, "accepted"),
                                 AddRow(w.to, "pending"), Subscribe(w.by, w.to, TRUE)>>))
         \/ \E c \in found :
              Goes(x, Left([w EXCEPT !.chat = c], AskAgain(c, w.by, w.to)))

(* handleCreateGroup, with one user asked in; handleAddMember.             *)
CreateGroup(x, u, v) ==
  /\ Request(x)
  /\ Goes(x, Left([Idle EXCEPT !.job = "group", !.by = u, !.to = v],
                  <<NewChat("group"), AddRow(u, "accepted"), Invite>>))
  /\ UNCHANGED tables

AddMember(x, u, v, c) ==
  /\ Request(x)
  /\ chats[c].admin = u
  /\ ~Blocked(u, v)
  /\ Goes(x, [Idle EXCEPT !.at = "join", !.job = "add", !.by = u, !.to = v, !.chat = c])
  /\ UNCHANGED tables

(* memberJoinStatus: blocked, then friends, then the user's own opt-in.    *)
NotBlocked(x) ==
  /\ Writes(x, "invite")
  /\ Goes(x, IF Blocked(handler[x].by, handler[x].to) THEN Idle
             ELSE [handler[x] EXCEPT !.at = "join", !.todo = <<>>])
  /\ UNCHANGED tables

MemberJoinStatus(x) ==
  LET w == handler[x]
  IN  /\ Reads(x, "join")
      /\ \/ {w.by, w.to} \in friends /\ Goes(x, Left(w, <<AddRow(w.to, "accepted")>>))
         \/ {w.by, w.to} \notin friends /\ Goes(x, Left(w, <<AddRow(w.to, "pending")>>))
         \/ {w.by, w.to} \notin friends /\ Goes(x, Idle)

-----------------------------------------------------------------------------
(* handleAccept: one statement, then the other side of a direct chat.      *)
Accept(x, u, c) ==
  /\ Request(x)
  /\ Status(c, u) = "pending"
  /\ chats' = WithStatus(c, {u}, "accepted")
  /\ Goes(x, [Idle EXCEPT !.at = "other", !.job = "accept", !.by = u, !.chat = c])
  /\ UNCHANGED <<friends, subscribed, blocks, reported>>

(* handleUnfriend and handleDeleteChat, up to IsAcceptedMember.            *)
EndChat(x, u, c, job) ==
  /\ Request(x)
  /\ chats[c].type = "direct"
  /\ Status(c, u) = "accepted"
  /\ Goes(x, [Idle EXCEPT !.at = "other", !.job = job, !.by = u, !.chat = c])
  /\ UNCHANGED tables

(* The writes of accept, unfriend and delete, once the other side is known.*)
WithOther(w, others, v) ==
  CASE w.job = "accept" -> IF others = {} THEN <<>> ELSE <<Befriend(w.by, v, TRUE)>>
    [] w.job = "unfriend" ->
         <<Become(Users, "unfriended")>> \o
         (IF others = {} THEN <<>>
          ELSE <<Befriend(w.by, v, FALSE), Subscribe(w.by, v, FALSE), Subscribe(v, w.by, FALSE)>>)
    [] w.job = "delete" ->
         <<DropChat>> \o (IF others = {} THEN <<>> ELSE <<Befriend(w.by, v, FALSE)>>)

FindOther(x) ==
  LET w == handler[x]
      others == IF Live(w.chat) /\ chats[w.chat].type = "direct"
                  THEN Members(w.chat) \ {w.by} ELSE {}
  IN  /\ Reads(x, "other")
      /\ \E v \in IF others = {} THEN Users ELSE others : Goes(x, Left(w, WithOther(w, others, v)))

(* handleDecline and handleRemoveMember, then deleteIfAbandoned.           *)
Decline(x, u, c) ==
  /\ Request(x)
  /\ chats' = IF Status(c, u) = "pending" THEN [chats EXCEPT ![c].member[u] = "none"] ELSE chats
  /\ Goes(x, [Idle EXCEPT !.at = "count", !.job = "decline", !.by = u, !.chat = c])
  /\ UNCHANGED <<friends, subscribed, blocks, reported>>

RemoveMember(x, u, v, c) ==
  /\ Request(x)
  /\ chats[c].type = "group"
  /\ u = v \/ chats[c].admin = u
  /\ chats' = WithStatus(c, {v}, "left")
  /\ Goes(x, [Idle EXCEPT !.at = "count", !.job = "remove", !.by = u, !.to = v, !.chat = c])
  /\ UNCHANGED <<friends, subscribed, blocks, reported>>

\* Mutant: a group is dropped for its last member, too.
OneIsEmpty(job) == 1

MaxActiveMembers(job) == IF job = "decline" THEN 1 ELSE 0

DeleteIfAbandoned(x) ==
  LET w == handler[x]
      n == IF Live(w.chat) THEN Cardinality(Active(w.chat)) ELSE 0
  IN  /\ Reads(x, "count")
      /\ Goes(x, Left(w, IF n <= MaxActiveMembers(w.job) THEN <<DropChat>> ELSE <<>>))

-----------------------------------------------------------------------------
(* handleBlock and handleReportUser: blockUser, then the report.           *)
Block(x, u, v, job) ==
  /\ Request(x)
  /\ blocks' = blocks \cup {<<u, v>>}
  /\ Goes(x, Left([Idle EXCEPT !.job = job, !.by = u, !.to = v],
                  <<Subscribe(u, v, FALSE), Subscribe(v, u, FALSE), Sever>>
                  \o IF job = "report" THEN <<Report>> ELSE <<>>))
  /\ UNCHANGED <<chats, friends, subscribed, reported>>

\* Mutant: only the one who blocks leaves the chat.
HalfSevered(w) == <<Become({w.by}, "unfriended"), Befriend(w.by, w.to, FALSE)>>

(* A block ends a direct chat of the two as an unfriend does.              *)
Severed(w) == <<Become(Users, "unfriended"), Befriend(w.by, w.to, FALSE)>>

SeverFriends(x) ==
  LET w == handler[x]
      found == Direct(w.by, w.to)
  IN  /\ Writes(x, "sever")
      /\ \/ found = {} /\ Goes(x, Left(w, Tail(w.todo)))
         \/ \E c \in found : Goes(x, Left([w EXCEPT !.chat = c], Severed(w) \o Tail(w.todo)))
      /\ UNCHANGED tables

Unblock(x, u, v) ==
  /\ Request(x)
  /\ <<u, v>> \in blocks
  /\ blocks' = blocks \ {<<u, v>>}
  /\ UNCHANGED <<chats, friends, subscribed, reported, handler>>

(* An admin clears the reports against a user (the generic reports module).*)
ClearReport(u) ==
  /\ u \in reported
  /\ asked < MaxAsked /\ asked' = asked + 1
  /\ reported' = reported \ {u}
  /\ UNCHANGED <<chats, friends, subscribed, blocks, handler>>

-----------------------------------------------------------------------------
(* The writes, one statement each.                                         *)
WriteStatus(x) ==
  /\ Writes(x, "status")
  /\ chats' = WithStatus(handler[x].chat, Head(handler[x].todo).users, Head(handler[x].todo).status)
  /\ Proceed(x)
  /\ UNCHANGED <<friends, subscribed, blocks, reported>>

(* setFriends: an INSERT that may find the row there, or a DELETE.         *)
SetFriends(x) ==
  LET s == Head(handler[x].todo)
  IN  /\ Writes(x, "friends")
      /\ friends' = IF s.yes THEN friends \cup {s.pair} ELSE friends \ {s.pair}
      /\ Proceed(x)
      /\ UNCHANGED <<chats, subscribed, blocks, reported>>

SetSubscribed(x) ==
  LET s == Head(handler[x].todo)
  IN  /\ Writes(x, "subscribe")
      /\ subscribed' = IF s.yes THEN subscribed \cup {s.pair} ELSE subscribed \ {s.pair}
      /\ Proceed(x)
      /\ UNCHANGED <<chats, friends, blocks, reported>>

InsertChat(x) ==
  LET w == handler[x]
  IN  /\ Writes(x, "chat")
      /\ chats' = Append(chats, [type |-> Head(w.todo).type, admin |-> w.by,
                                 member |-> NoOne, gone |-> FALSE])
      /\ Goes(x, [w EXCEPT !.chat = Len(chats) + 1, !.todo = Tail(@)])
      /\ UNCHANGED <<friends, subscribed, blocks, reported>>

(* A row already there, or a chat that is gone, is an error.               *)
InsertMember(x) ==
  LET w == handler[x]
      s == Head(w.todo)
      fits == Live(w.chat) /\ Status(w.chat, s.user) = "none"
  IN  /\ Writes(x, "row")
      /\ chats' = IF fits THEN [chats EXCEPT ![w.chat].member[s.user] = s.status] ELSE chats
      /\ IF fits THEN Proceed(x) ELSE Goes(x, Idle)
      /\ UNCHANGED <<friends, subscribed, blocks, reported>>

DeleteChat(x) ==
  /\ Writes(x, "drop")
  /\ chats' = [chats EXCEPT ![handler[x].chat].gone = TRUE, ![handler[x].chat].member = NoOne]
  /\ Proceed(x)
  /\ UNCHANGED <<friends, subscribed, blocks, reported>>

InsertReport(x) ==
  /\ Writes(x, "report")
  /\ reported' = reported \cup {handler[x].to}
  /\ Proceed(x)
  /\ UNCHANGED <<chats, friends, subscribed, blocks>>

(* A statement fails and the handler gives up, except that blockUser goes  *)
(* on when the end of the friendship cannot be written.                    *)
Ignored == {"sever", "status", "friends"}
StatementFails(x) ==
  LET w == handler[x]
  IN  /\ MayFail
      /\ w.at # "idle"
      /\ Goes(x, IF w.at = "write" /\ w.job \in {"block", "report"} /\ Head(w.todo).do \in Ignored
                   THEN Left(w, Tail(w.todo)) ELSE Idle)
      /\ UNCHANGED <<tables, asked>>

-----------------------------------------------------------------------------
Pairs == {p \in Users \X Users : p[1] # p[2]}

Handle(x) ==
  \/ \E p \in Pairs :
       \/ CreateDirect(x, p[1], p[2]) \/ CreateGroup(x, p[1], p[2])
       \/ \E c \in ChatIds : AddMember(x, p[1], p[2], c)
       \/ \E job \in {"block", "report"} : Block(x, p[1], p[2], job)
       \/ Unblock(x, p[1], p[2])
  \/ \E u \in Users, c \in ChatIds :
       \/ Accept(x, u, c) \/ Decline(x, u, c)
       \/ \E v \in Users : RemoveMember(x, u, v, c)
       \/ \E job \in {"unfriend", "delete"} : EndChat(x, u, c, job)
  \/ HasOpenReport(x) \/ FindDirect(x) \/ NotBlocked(x) \/ MemberJoinStatus(x)
  \/ FindOther(x) \/ DeleteIfAbandoned(x) \/ SeverFriends(x)
  \/ WriteStatus(x) \/ SetFriends(x) \/ SetSubscribed(x) \/ InsertChat(x)
  \/ InsertMember(x) \/ DeleteChat(x) \/ InsertReport(x)

ChatsNext ==
  \/ \E x \in Handlers : Handle(x) \/ StatementFails(x)
  \/ \E u \in Users : ClearReport(u)

-----------------------------------------------------------------------------
(* Properties.                                                             *)
Statuses == {"none", "pending", "accepted", "unfriended", "left"}
ChatsQuiet == \A x \in Handlers : handler[x].at = "idle"
BothAccepted(u, v) ==
  \E c \in Direct(u, v) : Status(c, u) = "accepted" /\ Status(c, v) = "accepted"

ChatsTypeOK ==
  /\ \A c \in 1..Len(chats) :
       /\ chats[c].type \in {"direct", "group"} /\ chats[c].admin \in Users
       /\ chats[c].member \in [Users -> Statuses] /\ chats[c].gone \in BOOLEAN
  /\ friends \subseteq {{p[1], p[2]} : p \in Pairs}
  /\ subscribed \subseteq Pairs /\ blocks \subseteq Pairs
  /\ reported \subseteq Users
  /\ \A x \in Handlers : handler[x].at \in
       {"idle", "reports", "find", "join", "other", "count", "write"}
  /\ asked \in 0..MaxAsked

(* setFriends is the only writer of friends "so chat_members.status and    *)
(* `friends` can't drift apart": the tables are well formed and, once no   *)
(* handler is at work, two users are friends exactly when both have        *)
(* accepted a direct chat.                                                 *)
FriendsMatchChats ==
  ChatsTypeOK /\ (ChatsQuiet => \A p \in Pairs : {p[1], p[2]} \in friends <=> BothAccepted(p[1], p[2]))

(* handleCreateDirect "creates-or-gets": two users never have two direct   *)
(* chats, whoever asks whom first.                                         *)
OneDirectChat == \A p \in Pairs : Cardinality(Direct(p[1], p[2])) <= 1

(* blockUser: once no handler is at work, a block has left the two no      *)
(* friendship, no subscription and no open request.                        *)
BlockSevers ==
  ChatsQuiet => \A p \in blocks :
    /\ {p[1], p[2]} \notin friends
    /\ {<<p[1], p[2]>>, <<p[2], p[1]>>} \cap subscribed = {}
    /\ \A c \in Direct(p[1], p[2]) : Active(c) \cap {p[1], p[2]} = {}

(* deleteIfAbandoned and handleDeleteChat: a chat goes when one who has    *)
(* accepted it deletes it, when a decline leaves no more than the inviter, *)
(* or when a group is empty; a direct chat nobody is active in is one that *)
(* an unfriend or a block "deliberately keeps".                            *)
GoesAbandoned ==
  \A c \in ChatIds : ~Live(c)' =>
    \E x \in Handlers :
      /\ handler[x].chat = c
      /\ \/ handler[x].job = "delete" /\ Status(c, handler[x].by) = "accepted"
         \/ handler[x].job = "decline" /\ Cardinality(Active(c)) <= 1
            /\ (chats[c].type = "direct" => Active(c) # {})
         \/ handler[x].job = "remove" /\ Active(c) = {}
=============================================================================
