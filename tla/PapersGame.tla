------------------------------ MODULE PapersGame ------------------------------
(***************************************************************************)
(* One room of the papers game (go/modules/papers: game.go, cache.go,      *)
(* hub.go).  The room's live state is one value in RoomStateCache.  Every  *)
(* handler, and the timer of every turn, takes a copy of it out, works on  *)
(* the copy and puts it back, with nothing held in between: the last one   *)
(* to put wins.  The Players map alone is shared by all the copies, since  *)
(* a Go map is a reference; it is a numbered object here.  With at most    *)
(* three players Go never appends to the spare room of a shared slice, so  *)
(* Order and Finished are plain sequences.                                 *)
(*                                                                         *)
(* A player is its session key and a word is the player it came from.      *)
(* Names, passwords and the pings of the hub are left out.                 *)
(***************************************************************************)
EXTENDS Naturals, FiniteSets, Sequences, Functions, FiniteSetsExt

CONSTANTS
  Players,      \* session keys of those who may join
  Nobody,       \* the owner of no word
  Workers,      \* goroutines: requests and timers
  WrongLimit,   \* wrong_answers of the room
  MaxRequests,  \* bound: requests and forgotten rooms
  MaxTurns      \* bound: turns started

ASSUME PapersAssumption ==
  /\ IsFiniteSet(Players) /\ Cardinality(Players) <= 3
  /\ Nobody \notin Players
  /\ WrongLimit \in Nat \ {0}
  /\ MaxRequests \in Nat
  /\ MaxTurns \in Nat

VARIABLES
  room,      \* the cached RoomState, NoRoom when there is none
  books,     \* every Players map made so far, each the set of its keys
  turns,     \* turns started so far; a deadline is the number of its turn
  passed,    \* deadlines up to this one have passed
  timers,    \* turns whose timer has yet to fire
  worker,    \* what each goroutine is doing, with its copy of the state
  requests   \* requests so far

vars == <<room, books, turns, passed, timers, worker, requests>>

-----------------------------------------------------------------------------
(* RoomState.  A seat is an index into order; active = Len(order) + 1 says *)
(* that nobody is left to play.  turn = 0 is the zero or past deadline of  *)
(* a turn that was ended.                                                  *)
NoRoom == [book |-> 0]

EmptyRoom(book) ==
  [book |-> book, order |-> <<>>, active |-> 1, started |-> FALSE, wrong |-> 0, turn |-> 0,
   assigned |-> [p \in Players |-> Nobody], finished |-> <<>>]

Seated(st) == Range(st.order)
IsFinished(st, p) == p \in Range(st.finished)
Unfinished(st) == {i \in 1..Len(st.order) : ~IsFinished(st, st.order[i])}

\* Mutant: the next seat, whoever sits there.
NextSeat(st, from) == IF st.order = <<>> THEN 1 ELSE ((from - 1) % Len(st.order)) + 1

(* nextActiveIx: the first unfinished seat from `from` on, wrapping round. *)
NextActive(st, from) ==
  LET later == {i \in Unfinished(st) : i >= from}
  IN  IF Unfinished(st) = {} THEN Len(st.order) + 1
      ELSE Min(IF later # {} THEN later ELSE Unfinished(st))

\* Mutant: the words are handed out with no rotation.
OwnWords(st) == [st EXCEPT !.assigned = [p \in Players |-> IF p \in Seated(st) THEN p ELSE Nobody]]

(* Each player wears the word of the next one in the order.                *)
AssignWords(st) ==
  LET n == Len(st.order)
      wears(p, owner) == \E i \in 1..n : st.order[i] = p /\ st.order[(i % n) + 1] = owner
  IN  [st EXCEPT !.assigned = [p \in Players |->
         IF n < 2 \/ p \notin Seated(st) THEN Nobody
         ELSE CHOOSE owner \in Players : wears(p, owner)]]

RoundStarted(st) == \E p \in Players : st.assigned[p] # Nobody

EndTurn(st) ==
  [st EXCEPT !.started = FALSE, !.wrong = 0, !.active = NextActive(st, st.active + 1)]

ExpireTurn(st) ==
  IF st.started /\ st.turn # 0 /\ st.turn <= passed THEN EndTurn(st) ELSE st

-----------------------------------------------------------------------------
Idle == [at |-> "idle", st |-> NoRoom, job |-> "none", known |-> FALSE]

Init ==
  /\ room = NoRoom
  /\ books = <<>>
  /\ turns = 0
  /\ passed = 0
  /\ timers = {}
  /\ worker = [x \in Workers |-> Idle]
  /\ requests = 0

Request == requests < MaxRequests /\ requests' = requests + 1

(* GetRoomState: the cached state, or a fresh one with a map of its own.   *)
Got == IF room # NoRoom THEN room ELSE EmptyRoom(Len(books) + 1)
GetBooks == books' = IF room # NoRoom THEN books ELSE Append(books, {})

-----------------------------------------------------------------------------
(* JoinGame, up to the question for the room's password.                   *)
JoinGame(x, p) ==
  /\ worker[x].at = "idle"
  /\ Request
  /\ GetBooks
  /\ worker' = [worker EXCEPT ![x] =
       [at |-> "join", st |-> Got, job |-> p, known |-> p \in books'[Got.book]]]
  /\ UNCHANGED <<room, turns, passed, timers>>

JoinRefused(x) ==
  /\ worker[x].at = "join"
  /\ ~worker[x].known
  /\ worker' = [worker EXCEPT ![x] = Idle]
  /\ UNCHANGED <<room, books, turns, passed, timers, requests>>

\* Mutant: the player is seated again on every join.
SeatAgain(x) ==
  LET w == worker[x]
  IN  /\ w.at = "join"
      /\ books' = [books EXCEPT ![w.st.book] = @ \cup {w.job}]
      /\ room' = [w.st EXCEPT !.order = Append(@, w.job)]
      /\ worker' = [worker EXCEPT ![x] = [Idle EXCEPT !.at = "view"]]
      /\ UNCHANGED <<turns, passed, timers, requests>>

(* The rest of JoinGame: the map all copies share, the copy's order, Set.  *)
JoinSave(x) ==
  LET w == worker[x]
  IN  /\ w.at = "join"
      /\ books' = [books EXCEPT ![w.st.book] = @ \cup {w.job}]
      /\ room' = IF w.known THEN w.st ELSE [w.st EXCEPT !.order = Append(@, w.job)]
      /\ worker' = [worker EXCEPT ![x] = [Idle EXCEPT !.at = "view"]]
      /\ UNCHANGED <<turns, passed, timers, requests>>

(* TurnAction, up to its copy of the state.                                *)
TurnAction(x, command) ==
  /\ worker[x].at = "idle"
  /\ Request
  /\ GetBooks
  /\ worker' = [worker EXCEPT ![x] =
       [at |-> "turn", st |-> Got, job |-> command, known |-> FALSE]]
  /\ UNCHANGED <<room, turns, passed, timers>>

Commanded(x, command) == worker[x].at = "turn" /\ worker[x].job = command
Save(x, st) ==
  /\ room' = st
  /\ worker' = [worker EXCEPT ![x] = [Idle EXCEPT !.at = "view"]]

(* Everyone has guessed: the request is refused and nothing is saved.      *)
StartRefused(x) ==
  /\ Commanded(x, "start")
  /\ Unfinished(worker[x].st) = {}
  /\ worker' = [worker EXCEPT ![x] = Idle]
  /\ UNCHANGED <<room, books, turns, passed, timers, requests>>

\* Mutant: starting a turn cancels the timers of the turns before it.
StartCancelsTimers(x) ==
  LET st == worker[x].st
      dressed == IF RoundStarted(st) THEN st ELSE AssignWords(st)
  IN  /\ Commanded(x, "start")
      /\ Unfinished(st) # {}
      /\ turns < MaxTurns
      /\ turns' = turns + 1
      /\ timers' = {turns + 1}
      /\ Save(x, [dressed EXCEPT !.active = NextActive(st, st.active), !.started = TRUE,
                                 !.wrong = 0, !.turn = turns + 1])
      /\ UNCHANGED <<books, passed, requests>>

Start(x) ==
  LET st == worker[x].st
      dressed == IF RoundStarted(st) THEN st ELSE AssignWords(st)
  IN  /\ Commanded(x, "start")
      /\ Unfinished(st) # {}
      /\ turns < MaxTurns
      /\ turns' = turns + 1
      /\ timers' = timers \cup {turns + 1}
      /\ Save(x, [dressed EXCEPT !.active = NextActive(st, st.active), !.started = TRUE,
                                 !.wrong = 0, !.turn = turns + 1])
      /\ UNCHANGED <<books, passed, requests>>

Wrong(x) ==
  LET st == worker[x].st
  IN  /\ Commanded(x, "wrong")
      /\ Save(x, IF ~st.started THEN st
                 ELSE IF st.wrong + 1 < WrongLimit THEN [st EXCEPT !.wrong = @ + 1]
                 ELSE [EndTurn(st) EXCEPT !.turn = 0])
      /\ UNCHANGED <<books, turns, passed, timers, requests>>

Guessed(x) ==
  LET st == worker[x].st
      key == st.order[st.active]
      scored == IF IsFinished(st, key) THEN st ELSE [st EXCEPT !.finished = Append(@, key)]
  IN  /\ Commanded(x, "guessed")
      /\ Save(x, IF st.started /\ st.active <= Len(st.order)
                   THEN [EndTurn(scored) EXCEPT !.turn = 0] ELSE st)
      /\ UNCHANGED <<books, turns, passed, timers, requests>>

Restart(x) ==
  LET st == worker[x].st
  IN  /\ Commanded(x, "restart")
      /\ Save(x, [EmptyRoom(st.book) EXCEPT !.order = st.order])
      /\ UNCHANGED <<books, turns, passed, timers, requests>>

End(x) ==
  /\ Commanded(x, "end")
  /\ room' = NoRoom
  /\ worker' = [worker EXCEPT ![x] = Idle]
  /\ UNCHANGED <<books, turns, passed, timers, requests>>

-----------------------------------------------------------------------------
(* GameState is writeState alone; the other handlers end with it.          *)
GameState(x) ==
  /\ worker[x].at = "idle"
  /\ Request
  /\ worker' = [worker EXCEPT ![x] = [Idle EXCEPT !.at = "view"]]
  /\ UNCHANGED <<room, books, turns, passed, timers>>

(* writeState and the timer take a copy, expire its turn, and put it back. *)
ViewGet(x) ==
  /\ worker[x].at = "view"
  /\ GetBooks
  /\ worker' = [worker EXCEPT ![x] = [Idle EXCEPT !.at = "put", !.st = ExpireTurn(Got)]]
  /\ UNCHANGED <<room, turns, passed, timers, requests>>

TimerFires(x, t) ==
  /\ worker[x].at = "idle"
  /\ t \in timers
  /\ t <= passed
  /\ timers' = timers \ {t}
  /\ GetBooks
  /\ worker' = [worker EXCEPT ![x] = [Idle EXCEPT !.at = "put", !.st = ExpireTurn(Got)]]
  /\ UNCHANGED <<room, turns, passed, requests>>

Put(x) ==
  /\ worker[x].at = "put"
  /\ room' = worker[x].st
  /\ worker' = [worker EXCEPT ![x] = Idle]
  /\ UNCHANGED <<books, turns, passed, timers, requests>>

(* What the answer made from the copy just put shows player p.             *)
View(st, p) ==
  [worn     |-> [q \in Seated(st) |-> IF q = p THEN Nobody ELSE st.assigned[q]],
   active   |-> {st.order[i] : i \in {j \in 1..Len(st.order) : st.started /\ j = st.active}},
   finished |-> {q \in Seated(st) : IsFinished(st, q)},
   gameOver |-> st.order # <<>> /\ Len(st.finished) >= Len(st.order)]

(* A deadline passes; the cache drops a room nobody wrote for six hours.   *)
DeadlinePasses ==
  /\ passed < turns
  /\ passed' = passed + 1
  /\ UNCHANGED <<room, books, turns, timers, worker, requests>>

Forget ==
  /\ room # NoRoom
  /\ Request
  /\ room' = NoRoom
  /\ UNCHANGED <<books, turns, passed, timers, worker>>

Commands == {"start", "wrong", "guessed", "restart", "end"}

WorkerStep(x) ==
  \/ JoinRefused(x) \/ JoinSave(x)
  \/ StartRefused(x) \/ Start(x) \/ Wrong(x) \/ Guessed(x) \/ Restart(x) \/ End(x)
  \/ ViewGet(x) \/ Put(x)

Next ==
  \/ \E x \in Workers :
       \/ WorkerStep(x)
       \/ \E p \in Players : JoinGame(x, p)
       \/ \E command \in Commands : TurnAction(x, command)
       \/ GameState(x)
       \/ \E t \in timers : TimerFires(x, t)
  \/ DeadlinePasses
  \/ Forget

Spec == Init /\ [][Next]_vars

-----------------------------------------------------------------------------
(* Properties.  All but the last speak of every copy of the state, so they *)
(* hold whichever copy is put back last.                                   *)
Copies == ({room} \cup {worker[x].st : x \in Workers}) \ {NoRoom}

IsRoomState(st) ==
  /\ st.book \in 1..Len(books)
  /\ st.order \in Seq(Players) /\ Len(st.order) <= Cardinality(Players)
  /\ st.active \in 1..Len(st.order) + 1
  /\ st.started \in BOOLEAN
  /\ st.wrong \in 0..WrongLimit
  /\ st.turn \in 0..turns
  /\ st.assigned \in [Players -> Players \cup {Nobody}]
  /\ st.finished \in Seq(Players)

TypeOK ==
  /\ \A st \in Copies : IsRoomState(st)
  /\ books \in Seq(SUBSET Players)
  /\ turns \in 0..MaxTurns /\ passed \in 0..turns
  /\ timers \subseteq 1..turns
  /\ \A x \in Workers : worker[x].at \in {"idle", "join", "turn", "view", "put"}
  /\ requests \in 0..MaxRequests

Once(s) == \A i, j \in 1..Len(s) : s[i] = s[j] => i = j

(* Every variable has its type, and however joins, turns and rounds        *)
(* overlap, nobody sits in two seats, who sits is in the Players map, and  *)
(* the scoreboard names each seated player at most once (JoinGame, the     *)
(* "guessed" and "restart" commands).                                      *)
SeatsSound ==
  /\ TypeOK
  /\ \A st \in Copies :
       /\ Once(st.order) /\ Seated(st) \subseteq books[st.book]
       /\ Once(st.finished) /\ Range(st.finished) \subseteq Seated(st)

(* "The turn never lands on someone who's already won": the active seat is *)
(* an unfinished player's, a running turn has one, and a new turn begins   *)
(* with no wrong clicks of the last.  And a running turn is never left     *)
(* without an end: its timer has yet to fire, or its deadline has passed   *)
(* and the next look at the room ends it, even when the copy put back last *)
(* is of an earlier turn (nextActiveIx, expireTurn, scheduleExpiry).       *)
TurnSound ==
  \A st \in Copies :
    /\ st.active <= Len(st.order) => ~IsFinished(st, st.order[st.active])
    /\ st.started => st.active <= Len(st.order) /\ st.turn # 0
    /\ st.wrong < WrongLimit /\ (~st.started => st.wrong = 0)
    /\ st.started => st.turn \in timers \/ st.turn <= passed

(* Nobody wears their own word and no word is worn twice (assignWords).    *)
WordsSound ==
  \A st \in Copies : \A p, q \in Players :
    st.assigned[p] # Nobody =>
      /\ st.assigned[p] # p /\ {p, st.assigned[p]} \subseteq Seated(st)
      /\ st.assigned[p] = st.assigned[q] => p = q

(* Whichever copy a player's answer is made from, the words he sees on the  *)
(* others do not include the one he wears; a running turn is shown as one   *)
(* unfinished player's; and the game is shown to be over, which ends the    *)
(* turns, exactly when all who sit have guessed (writeState).               *)
ViewsSound ==
  \A st \in Copies : \A p \in Players :
    LET v == View(st, p)
    IN  /\ p \in Seated(st) /\ st.assigned[p] # Nobody => st.assigned[p] \notin Range(v.worn)
        /\ st.started => Cardinality(v.active) = 1 /\ v.active \cap v.finished = {}
        /\ v.gameOver <=> Seated(st) # {} /\ v.finished = Seated(st)
        /\ v.gameOver => ~st.started

(* The game's seats, turns, words and views: SeatsSound, TurnSound,         *)
(* WordsSound and ViewsSound.                                               *)
GameSound == SeatsSound /\ TurnSound /\ WordsSound /\ ViewsSound
=============================================================================
