--------------------------- MODULE ServicesProofs ---------------------------
(***************************************************************************)
(* What holds of services for every value of the constants: the game of    *)
(* papers, private messages, the shop, images and their cache, settings,   *)
(* and the optimizer, with its flows and its tree.  Much of it is about    *)
(* sums over sets of rows, requests, routes or hops, so facts about sums   *)
(* come before the shop.                                                   *)
(***************************************************************************)
EXTENDS MCServices, FiniteSetTheorems, WellFoundedInduction, TLAPS

-----------------------------------------------------------------------------
(***************************************************************************)
(* GameSound for every set of players and every number of goroutines,      *)
(* requests and turns.  The rules of the game are kept by what a handler   *)
(* does to the copy it took (Shaped, which speaks of one copy alone); that *)
(* copies are put back in any order matters only for what a copy says of   *)
(* the state all share, the Players maps and the timers (Placed), and that *)
(* stays true of a copy however old, because maps only gain keys and a     *)
(* timer that has fired had its deadline passed.                           *)
(***************************************************************************)

Words(st) ==
  \A p, q \in Players :
    st.assigned[p] # Nobody =>
      /\ st.assigned[p] # p /\ {p, st.assigned[p]} \subseteq Seated(st)
      /\ st.assigned[p] = st.assigned[q] => p = q

RoomStates ==
  [book : Nat \ {0}, order : Seq(Players), active : Nat, started : BOOLEAN, wrong : Nat,
   turn : Nat, assigned : [Players -> Players \cup {Nobody}], finished : Seq(Players)]

(* What the handlers rely on in a copy and leave in it, but for whose turn  *)
(* it is.                                                                   *)
Dealt(st) ==
  /\ st \in RoomStates
  /\ Once(st.order) /\ Once(st.finished)
  /\ Range(st.finished) \subseteq Range(st.order)
  /\ Words(st)

OnTurn(st) ==
  /\ st.active \in 1..Len(st.order) + 1
  /\ st.active <= Len(st.order) => ~IsFinished(st, st.order[st.active])
  /\ st.started => st.active <= Len(st.order) /\ st.turn # 0
  /\ st.wrong < WrongLimit /\ (~st.started => st.wrong = 0)

Shaped(st) == Dealt(st) /\ OnTurn(st)

Placed(st, bs, last, pending, past) ==
  /\ st.book \in 1..Len(bs) /\ Range(st.order) \subseteq bs[st.book]
  /\ st.turn <= last
  /\ st.started => st.turn \in pending \/ st.turn <= past

Sound(st, bs, last, pending, past) == Shaped(st) /\ Placed(st, bs, last, pending, past)

Grown(bs, bs2) == Len(bs) <= Len(bs2) /\ \A i \in 1..Len(bs) : bs[i] \subseteq bs2[i]

-----------------------------------------------------------------------------
(* What the game's operators do to one copy.                               *)

LEMMA MinOfNats ==
  ASSUME NEW S \in SUBSET Nat, S # {}
  PROVE  Min(S) \in S
<1>1. PICK x \in S : \A y \in S : ~ (<<y, x>> \in OpToRel(<, Nat))
  BY NatLessThanWellFounded, WFMin
<1>2. \A y \in S : ~ (y < x)
  <2> TAKE y \in S
  <2>1. <<y, x>> \notin OpToRel(<, Nat)
    BY <1>1
  <2>2. OpToRel(<, Nat) = {ss \in Nat \X Nat : ss[1] < ss[2]}
    BY DEF OpToRel
  <2>3. <<y, x>> \in Nat \X Nat /\ <<y, x>>[1] = y /\ <<y, x>>[2] = x
    OBVIOUS
  <2>4. QED
    BY <2>1, <2>2, <2>3
<1>3. x \in S /\ \A y \in S : x <= y
  BY <1>2
<1>4. QED
  BY <1>3 DEF Min

LEMMA OnceCounts ==
  ASSUME NEW S, NEW s \in Seq(S), Once(s)
  PROVE  IsFiniteSet(Range(s)) /\ Cardinality(Range(s)) = Len(s)
<1>1. DOMAIN s = 1..Len(s) /\ Range(s) = {s[i] : i \in 1..Len(s)} /\ Len(s) \in Nat
  BY DEF Range
<1>2. s \in [1..Len(s) -> Range(s)]
  BY <1>1
<1>3. s \in Surjection(1..Len(s), Range(s))
  BY <1>1, <1>2 DEF Surjection
<1>4. s \in Injection(1..Len(s), Range(s))
  BY <1>1, <1>2 DEF Injection, IsInjective, Once
<1>5. IsFiniteSet(1..Len(s)) /\ Cardinality(1..Len(s)) = Len(s)
  <2>1. Len(s) \in Int /\ 1 \in Int
    BY <1>1
  <2>2. QED
    BY <2>1, <1>1, FS_Interval
<1>6. QED
  BY <1>3, <1>4, <1>5, FS_Surjection

LEMMA InRange ==
  ASSUME NEW S, NEW s \in Seq(S), NEW e
  PROVE  e \in Range(s) <=> \E i \in 1..Len(s) : s[i] = e
BY DEF Range

LEMMA Appended ==
  ASSUME NEW S, NEW s \in Seq(S), NEW e \in S
  PROVE  /\ Append(s, e) \in Seq(S)
         /\ Len(Append(s, e)) = Len(s) + 1
         /\ Range(Append(s, e)) = Range(s) \cup {e}
         /\ Once(s) /\ e \notin Range(s) => Once(Append(s, e))
<1>1. /\ Append(s, e) \in Seq(S) /\ Len(Append(s, e)) = Len(s) + 1 /\ Len(s) \in Nat
      /\ Append(s, e)[Len(s) + 1] = e /\ \A i \in 1..Len(s) : Append(s, e)[i] = s[i]
  OBVIOUS
<1>2. \A y : y \in Range(Append(s, e)) <=> y \in Range(s) \cup {e}
  <2> TAKE y
  <2>1. y \in Range(s) <=> \E i \in 1..Len(s) : s[i] = y
    BY InRange
  <2>2. y \in Range(Append(s, e)) <=> \E i \in 1..Len(s) + 1 : Append(s, e)[i] = y
    <3>1. y \in Range(Append(s, e)) <=> \E i \in 1..Len(Append(s, e)) : Append(s, e)[i] = y
      BY <1>1, InRange
    <3>2. QED
      BY <1>1, <3>1
  <2> HIDE DEF Range
  <2>3. QED
    BY <1>1, <2>1, <2>2
<1>3. ASSUME Once(s), e \notin Range(s)
      PROVE  Once(Append(s, e))
  <2>1. \A i \in 1..Len(s) : s[i] # e
    BY <1>3, InRange
  <2>2. QED
    BY <1>1, <1>3, <2>1 DEF Once
<1>4. QED
  BY <1>1, <1>2, <1>3

LEMMA NextActiveIsNext ==
  ASSUME NEW st \in RoomStates, NEW from \in Nat
  PROVE  /\ NextActive(st, from) \in 1..Len(st.order) + 1
         /\ NextActive(st, from) <= Len(st.order) => ~IsFinished(st, st.order[NextActive(st, from)])
         /\ Unfinished(st) # {} => NextActive(st, from) <= Len(st.order)
<1>1. st.order \in Seq(Players) /\ Len(st.order) \in Nat
  BY DEF RoomStates
<1>2. Unfinished(st) \in SUBSET Nat
  BY <1>1 DEF Unfinished
<1>3. Unfinished(st) = {} => NextActive(st, from) = Len(st.order) + 1
  BY DEF NextActive
<1>4. ASSUME Unfinished(st) # {}
      PROVE  NextActive(st, from) \in Unfinished(st)
  <2> DEFINE later == {i \in Unfinished(st) : i >= from}
  <2>1. CASE later # {}
    <3>1. later \in SUBSET Nat
      BY <1>2
    <3>2. Min(later) \in later
      BY <2>1, <3>1, MinOfNats
    <3>3. NextActive(st, from) = Min(later)
      BY <1>4, <2>1 DEF NextActive
    <3>4. QED
      BY <3>2, <3>3
  <2>2. CASE later = {}
    <3>1. NextActive(st, from) = Min(Unfinished(st))
      BY <1>4, <2>2 DEF NextActive
    <3>2. QED
      BY <1>2, <1>4, <3>1, MinOfNats
  <2>3. QED
    BY <2>1, <2>2
<1>5. QED
  BY <1>1, <1>3, <1>4 DEF Unfinished

LEMMA EndTurnShapes ==
  ASSUME NEW st, Dealt(st), st.active \in Nat
  PROVE  /\ Shaped(EndTurn(st)) /\ ~EndTurn(st).started
         /\ EndTurn(st).book = st.book /\ EndTurn(st).order = st.order /\ EndTurn(st).turn = st.turn
<1> DEFINE next == NextActive(st, st.active + 1)
<1>1. /\ next \in 1..Len(st.order) + 1
      /\ next <= Len(st.order) => ~IsFinished(st, st.order[next])
  <2>1. st \in RoomStates /\ st.active + 1 \in Nat
    BY DEF Dealt
  <2>2. QED
    BY <2>1, NextActiveIsNext
<1> HIDE DEF next
<1>2. EndTurn(st) = [st EXCEPT !.started = FALSE, !.wrong = 0, !.active = next]
  BY DEF EndTurn, next
<1>3. /\ EndTurn(st).book = st.book /\ EndTurn(st).order = st.order /\ EndTurn(st).turn = st.turn
      /\ EndTurn(st).assigned = st.assigned /\ EndTurn(st).finished = st.finished
      /\ EndTurn(st).started = FALSE /\ EndTurn(st).wrong = 0 /\ EndTurn(st).active = next
  BY <1>2 DEF Dealt, RoomStates
<1>4. EndTurn(st) \in RoomStates
  <2>1. next \in Nat /\ 0 \in Nat /\ FALSE \in BOOLEAN /\ st \in RoomStates
    <3>1. Len(st.order) \in Nat
      BY DEF Dealt, RoomStates
    <3>2. QED
      BY <1>1, <3>1 DEF Dealt
  <2>2. QED
    BY <1>2, <2>1 DEF RoomStates
<1>5. Dealt(EndTurn(st))
  BY <1>3, <1>4 DEF Dealt, Words, Seated
<1>6. OnTurn(EndTurn(st))
  BY <1>1, <1>3, PapersAssumption DEF OnTurn, IsFinished
<1>7. QED
  BY <1>3, <1>5, <1>6 DEF Shaped

LEMMA ExpireShapes ==
  ASSUME NEW st, Shaped(st)
  PROVE  /\ Shaped(ExpireTurn(st))
         /\ ExpireTurn(st).book = st.book /\ ExpireTurn(st).order = st.order
         /\ ExpireTurn(st).turn = st.turn /\ (ExpireTurn(st).started => st.started)
<1>1. Dealt(st) /\ st.active \in Nat
  BY DEF Shaped, Dealt, RoomStates
<1>2. CASE ExpireTurn(st) = st
  BY <1>2
<1>3. CASE ExpireTurn(st) = EndTurn(st)
  BY <1>1, <1>3, EndTurnShapes
<1>4. QED
  BY <1>2, <1>3 DEF ExpireTurn

LEMMA SeatAfter ==
  ASSUME NEW n \in Nat, n >= 2, NEW i \in 1..n
  PROVE  /\ (i % n) + 1 \in 1..n /\ (i % n) + 1 # i
         /\ \A j \in 1..n : (i % n) + 1 = (j % n) + 1 => i = j
<1>1. n % n = 0
  BY SMT
<1>2. \A k \in 1..n : k # n => k % n = k
  BY SMT
<1>3. QED
  BY <1>1, <1>2

(* assignWords turns the words round by one seat.                          *)
LEMMA WordsRotate ==
  ASSUME NEW st, Dealt(st)
  PROVE  /\ Dealt(AssignWords(st))
         /\ \A f \in {"book", "order", "active", "started", "wrong", "turn", "finished"} :
              AssignWords(st)[f] = st[f]
<1> DEFINE n == Len(st.order)
           wears(p, owner) == \E i \in 1..n : st.order[i] = p /\ st.order[(i % n) + 1] = owner
           words == [p \in Players |-> IF n < 2 \/ p \notin Seated(st) THEN Nobody
                                       ELSE CHOOSE owner \in Players : wears(p, owner)]
<1>1. AssignWords(st) = [st EXCEPT !.assigned = words]
  BY DEF AssignWords
<1>2. st \in RoomStates /\ st.order \in Seq(Players) /\ n \in Nat
  BY DEF Dealt, RoomStates
<1>3. \A i \in 1..n : n >= 2 => (i % n) + 1 \in 1..n /\ (i % n) + 1 # i
  BY <1>2, SeatAfter
<1>4. \A i, j \in 1..n : n >= 2 /\ (i % n) + 1 = (j % n) + 1 => i = j
  BY <1>2, SeatAfter
<1>5. \A p \in Players : n >= 2 /\ p \in Seated(st) => words[p] \in Players /\ wears(p, words[p])
  <2> TAKE p \in Players
  <2> HAVE n >= 2 /\ p \in Seated(st)
  <2>1. PICK i \in 1..n : st.order[i] = p
    BY <1>2, InRange DEF Seated
  <2>2. st.order[(i % n) + 1] \in Players
    BY <1>2, <1>3
  <2>3. wears(p, st.order[(i % n) + 1])
    BY <2>1
  <2> HIDE DEF wears
  <2>4. QED
    BY <2>2, <2>3
<1>6. words \in [Players -> Players \cup {Nobody}]
  <2>1. \A p \in Players : words[p] \in Players \cup {Nobody}
    <3> TAKE p \in Players
    <3>1. n < 2 \/ p \notin Seated(st) => words[p] = Nobody
      OBVIOUS
    <3>2. n >= 2 \/ n < 2
      BY <1>2
    <3> HIDE DEF words
    <3>3. QED
      BY <1>5, <3>1, <3>2
  <2>2. QED
    BY <2>1
<1>7. \A p \in Players : words[p] # Nobody => n >= 2 /\ p \in Seated(st)
  <2>1. n < 2 \/ n >= 2
    BY <1>2
  <2>2. QED
    BY <2>1
<1> HIDE DEF words
<1>8. ASSUME NEW p \in Players, NEW q \in Players, words[p] # Nobody
      PROVE  /\ words[p] # p /\ {p, words[p]} \subseteq Seated(st)
             /\ words[p] = words[q] => p = q
  <2>1. PICK i \in 1..n : st.order[i] = p /\ st.order[(i % n) + 1] = words[p]
    BY <1>5, <1>7, <1>8
  <2>2. n >= 2 /\ (i % n) + 1 \in 1..n /\ (i % n) + 1 # i
    BY <1>3, <1>7, <1>8
  <2>3. words[p] # p
    BY <2>1, <2>2 DEF Dealt, Once
  <2>4. words[p] \in Seated(st)
    BY <1>2, <2>1, <2>2, InRange DEF Seated
  <2>5. ASSUME words[p] = words[q]
        PROVE  p = q
    <3>1. PICK j \in 1..n : st.order[j] = q /\ st.order[(j % n) + 1] = words[q]
      BY <1>5, <1>7, <1>8, <2>5
    <3>2. (j % n) + 1 \in 1..n
      BY <1>3, <2>2
    <3>3. (i % n) + 1 = (j % n) + 1
      BY <2>1, <2>2, <2>5, <3>1, <3>2 DEF Dealt, Once
    <3>4. i = j
      BY <1>4, <2>2, <3>3
    <3>5. QED
      BY <2>1, <3>1, <3>4
  <2>6. QED
    BY <1>7, <1>8, <2>3, <2>4, <2>5
<1>9. /\ AssignWords(st) \in RoomStates /\ AssignWords(st).assigned = words
      /\ \A f \in {"book", "order", "active", "started", "wrong", "turn", "finished"} :
           AssignWords(st)[f] = st[f]
  BY <1>1, <1>2, <1>6 DEF RoomStates
<1>10. Words(AssignWords(st))
  <2>1. Seated(AssignWords(st)) = Seated(st)
    BY <1>9 DEF Seated
  <2>2. QED
    BY <1>8, <1>9, <2>1 DEF Words
<1>11. QED
  BY <1>9, <1>10 DEF Dealt

(* What the commands "start", "wrong" and "guessed" make of their copy.    *)
StartedIn(st, n) ==
  LET dressed == IF RoundStarted(st) THEN st ELSE AssignWords(st)
  IN  [dressed EXCEPT !.active = NextActive(st, st.active), !.started = TRUE, !.wrong = 0, !.turn = n]

WrongIn(st) ==
  IF ~st.started THEN st
  ELSE IF st.wrong + 1 < WrongLimit THEN [st EXCEPT !.wrong = @ + 1]
  ELSE [EndTurn(st) EXCEPT !.turn = 0]

GuessedIn(st) ==
  LET key == st.order[st.active]
      scored == IF IsFinished(st, key) THEN st ELSE [st EXCEPT !.finished = Append(@, key)]
  IN  IF st.started /\ st.active <= Len(st.order) THEN [EndTurn(scored) EXCEPT !.turn = 0] ELSE st

LEMMA StartShapes ==
  ASSUME NEW st, Shaped(st), Unfinished(st) # {}, NEW n \in Nat \ {0}
  PROVE  LET st2 == StartedIn(st, n)
         IN  /\ Shaped(st2) /\ st2.book = st.book /\ st2.order = st.order
             /\ st2.turn = n /\ st2.started = TRUE
<1> DEFINE st2 == StartedIn(st, n)
           dressed == IF RoundStarted(st) THEN st ELSE AssignWords(st)
           next == NextActive(st, st.active)
<1> HIDE DEF st2
<1>1. st \in RoomStates /\ st.active \in Nat /\ Dealt(st) /\ Len(st.order) \in Nat
  BY DEF Shaped, Dealt, RoomStates
<1>2. /\ next \in 1..Len(st.order) /\ next \in Nat
      /\ ~IsFinished(st, st.order[next])
  <2>1. /\ next \in 1..Len(st.order) + 1
        /\ next <= Len(st.order) => ~IsFinished(st, st.order[next])
        /\ next <= Len(st.order)
    BY <1>1, NextActiveIsNext
  <2> HIDE DEF next
  <2>2. QED
    BY <1>1, <2>1
<1>3. Dealt(dressed) /\ dressed.book = st.book /\ dressed.order = st.order /\ dressed.finished = st.finished
  BY <1>1, WordsRotate
<1> HIDE DEF next, dressed
<1>4. st2 = [dressed EXCEPT !.active = next, !.started = TRUE, !.wrong = 0, !.turn = n]
  BY DEF dressed, next, st2, StartedIn
<1>5. /\ st2.book = st.book /\ st2.order = st.order /\ st2.finished = st.finished
      /\ st2.assigned = dressed.assigned
      /\ st2.active = next /\ st2.started = TRUE /\ st2.wrong = 0 /\ st2.turn = n
  BY <1>3, <1>4 DEF Dealt, RoomStates
<1>6. st2 \in RoomStates
  <2>1. dressed \in RoomStates /\ next \in Nat /\ TRUE \in BOOLEAN /\ 0 \in Nat /\ n \in Nat
    BY <1>2, <1>3 DEF Dealt
  <2>2. QED
    BY <1>4, <2>1 DEF RoomStates
<1>7. Dealt(st2)
  BY <1>3, <1>5, <1>6 DEF Dealt, Words, Seated
<1>8. OnTurn(st2)
  BY <1>1, <1>2, <1>5, PapersAssumption DEF OnTurn, IsFinished
<1>9. QED
  BY <1>5, <1>7, <1>8 DEF Shaped, st2

(* A turn ended by a click: the deadline goes too.                         *)
LEMMA EndedShapes ==
  ASSUME NEW st, Dealt(st), st.active \in Nat
  PROVE  LET st2 == [EndTurn(st) EXCEPT !.turn = 0]
         IN  /\ Shaped(st2) /\ st2.book = st.book /\ st2.order = st.order
             /\ st2.turn = 0 /\ ~st2.started
<1> DEFINE e == EndTurn(st)
           st2 == [e EXCEPT !.turn = 0]
<1>1. Shaped(e) /\ ~e.started /\ e.book = st.book /\ e.order = st.order
  BY EndTurnShapes
<1> HIDE DEF e
<1>2. /\ st2.book = e.book /\ st2.order = e.order /\ st2.finished = e.finished
      /\ st2.assigned = e.assigned /\ st2.active = e.active /\ st2.started = e.started
      /\ st2.wrong = e.wrong /\ st2.turn = 0 /\ st2 \in RoomStates
  BY <1>1 DEF Shaped, Dealt, RoomStates
<1> HIDE DEF st2
<1>3. Shaped(st2)
  BY <1>1, <1>2 DEF Shaped, Dealt, OnTurn, Words, Seated, IsFinished
<1>4. QED
  BY <1>1, <1>2, <1>3 DEF e, st2

LEMMA WrongShapes ==
  ASSUME NEW st, Shaped(st)
  PROVE  LET st2 == WrongIn(st)
         IN  /\ Shaped(st2) /\ st2.book = st.book /\ st2.order = st.order
             /\ (st2.started => st.started) /\ st2.turn \in {0, st.turn}
             /\ (st2.started => st2.turn = st.turn)
<1> DEFINE st2 == WrongIn(st)
<1>1. CASE ~st.started
  BY <1>1 DEF WrongIn
<1>2. CASE st.started /\ st.wrong + 1 < WrongLimit
  <2>1. st2 = [st EXCEPT !.wrong = st.wrong + 1]
    BY <1>2 DEF WrongIn
  <2> HIDE DEF st2
  <2>2. st \in RoomStates /\ st.wrong + 1 \in Nat
    BY DEF Shaped, Dealt, RoomStates
  <2>3. /\ st2.book = st.book /\ st2.order = st.order /\ st2.finished = st.finished
        /\ st2.assigned = st.assigned /\ st2.active = st.active /\ st2.started = st.started
        /\ st2.wrong = st.wrong + 1 /\ st2.turn = st.turn /\ st2 \in RoomStates
    BY <2>1, <2>2 DEF RoomStates
  <2>4. Shaped(st2)
    BY <1>2, <2>3 DEF Shaped, Dealt, OnTurn, Words, Seated, IsFinished
  <2>5. QED
    BY <2>3, <2>4 DEF st2
<1>3. CASE st.started /\ ~(st.wrong + 1 < WrongLimit)
  <2>1. st2 = [EndTurn(st) EXCEPT !.turn = 0]
    BY <1>3 DEF WrongIn
  <2> HIDE DEF st2
  <2>2. Dealt(st) /\ st.active \in Nat
    BY DEF Shaped, Dealt, RoomStates
  <2>3. QED
    BY <2>1, <2>2, EndedShapes DEF st2
<1>4. QED
  BY <1>1, <1>2, <1>3

LEMMA GuessedShapes ==
  ASSUME NEW st, Shaped(st)
  PROVE  LET st2 == GuessedIn(st)
         IN  /\ Shaped(st2) /\ st2.book = st.book /\ st2.order = st.order
             /\ (st2.started => st.started) /\ st2.turn \in {0, st.turn}
             /\ (st2.started => st2.turn = st.turn)
<1> DEFINE st2 == GuessedIn(st)
           key == st.order[st.active]
           scored == [st EXCEPT !.finished = Append(st.finished, key)]
<1>1. Dealt(st) /\ OnTurn(st) /\ st \in RoomStates /\ st.active \in Nat
      /\ st.order \in Seq(Players) /\ st.finished \in Seq(Players)
  BY DEF Shaped, Dealt, RoomStates
<1>2. CASE ~(st.started /\ st.active <= Len(st.order))
  BY <1>2 DEF GuessedIn
<1>3. CASE st.started /\ st.active <= Len(st.order)
  <2>1. st.active \in 1..Len(st.order) /\ ~IsFinished(st, key)
    BY <1>1, <1>3 DEF OnTurn
  <2>2. st2 = [EndTurn(scored) EXCEPT !.turn = 0]
    BY <1>3, <2>1 DEF GuessedIn
  <2> HIDE DEF st2
  <2>3. key \in Players /\ key \in Range(st.order) /\ key \notin Range(st.finished)
    BY <1>1, <2>1, InRange DEF IsFinished
  <2> HIDE DEF key
  <2>4. /\ Append(st.finished, key) \in Seq(Players)
        /\ Range(Append(st.finished, key)) = Range(st.finished) \cup {key}
        /\ Once(Append(st.finished, key))
    BY <1>1, <2>3, Appended DEF Dealt
  <2>5. /\ scored.book = st.book /\ scored.order = st.order /\ scored.active = st.active
        /\ scored.assigned = st.assigned /\ scored.finished = Append(st.finished, key)
        /\ scored \in RoomStates
    BY <1>1, <2>4 DEF RoomStates
  <2> HIDE DEF scored
  <2>6. Dealt(scored)
    <3>1. Range(scored.finished) \subseteq Range(scored.order)
      BY <1>1, <2>3, <2>4, <2>5 DEF Dealt
    <3>2. Words(scored)
      BY <1>1, <2>5 DEF Dealt, Words, Seated
    <3>3. QED
      BY <1>1, <2>4, <2>5, <3>1, <3>2 DEF Dealt
  <2>7. QED
    BY <1>1, <2>2, <2>5, <2>6, EndedShapes DEF st2
<1>4. QED
  BY <1>2, <1>3

LEMMA FreshShapes ==
  ASSUME NEW book \in Nat \ {0}, NEW order \in Seq(Players), Once(order)
  PROVE  LET st == [EmptyRoom(book) EXCEPT !.order = order]
         IN  Shaped(st) /\ st.book = book /\ st.order = order /\ st.turn = 0 /\ ~st.started
<1> DEFINE st == [EmptyRoom(book) EXCEPT !.order = order]
<1>1. /\ st.book = book /\ st.order = order /\ st.finished = <<>>
      /\ st.assigned = [p \in Players |-> Nobody] /\ st.active = 1 /\ st.started = FALSE
      /\ st.wrong = 0 /\ st.turn = 0
  BY DEF EmptyRoom
<1>2. st \in RoomStates
  <2>1. /\ <<>> \in Seq(Players) /\ FALSE \in BOOLEAN /\ 0 \in Nat /\ 1 \in Nat
        /\ [p \in Players |-> Nobody] \in [Players -> Players \cup {Nobody}]
    OBVIOUS
  <2>2. EmptyRoom(book) \in RoomStates
    BY <2>1 DEF EmptyRoom, RoomStates
  <2>3. QED
    BY <2>2 DEF RoomStates
<1> HIDE DEF st
<1>3. Range(<<>>) = {} /\ Once(<<>>)
  BY DEF Range, Once
<1>4. Dealt(st)
  BY <1>1, <1>2, <1>3 DEF Dealt, Words
<1>5. Len(order) \in Nat
  OBVIOUS
<1>6. OnTurn(st)
  BY <1>1, <1>3, <1>5, PapersAssumption DEF OnTurn, IsFinished
<1>7. QED
  BY <1>1, <1>4, <1>6 DEF Shaped, st

LEMMA EmptyShapes ==
  ASSUME NEW book \in Nat \ {0}
  PROVE  /\ Shaped(EmptyRoom(book)) /\ EmptyRoom(book).book = book /\ EmptyRoom(book).order = <<>>
         /\ EmptyRoom(book).turn = 0 /\ ~EmptyRoom(book).started
<1> DEFINE st == EmptyRoom(book)
<1>1. /\ st.book = book /\ st.order = <<>> /\ st.finished = <<>>
      /\ st.assigned = [p \in Players |-> Nobody] /\ st.active = 1 /\ st.started = FALSE
      /\ st.wrong = 0 /\ st.turn = 0
  BY DEF EmptyRoom
<1>2. st \in RoomStates
  <2>1. /\ <<>> \in Seq(Players) /\ FALSE \in BOOLEAN /\ 0 \in Nat /\ 1 \in Nat
        /\ [p \in Players |-> Nobody] \in [Players -> Players \cup {Nobody}]
    OBVIOUS
  <2>2. QED
    BY <2>1 DEF EmptyRoom, RoomStates
<1> HIDE DEF st
<1>3. Range(<<>>) = {} /\ Once(<<>>) /\ Len(<<>>) = 0
  BY DEF Range, Once
<1>4. Dealt(st)
  BY <1>1, <1>2, <1>3 DEF Dealt, Words
<1>5. OnTurn(st)
  BY <1>1, <1>3, PapersAssumption DEF OnTurn, IsFinished
<1>6. QED
  BY <1>1, <1>4, <1>5 DEF Shaped, st

LEMMA JoinShapes ==
  ASSUME NEW st, Shaped(st), NEW p \in Players, p \notin Seated(st)
  PROVE  LET st2 == [st EXCEPT !.order = Append(@, p)]
         IN  /\ Shaped(st2) /\ st2.book = st.book /\ Range(st2.order) = Range(st.order) \cup {p}
             /\ st2.turn = st.turn /\ st2.started = st.started
<1> DEFINE st2 == [st EXCEPT !.order = Append(st.order, p)]
<1>1. st \in RoomStates /\ Dealt(st) /\ OnTurn(st) /\ st.order \in Seq(Players) /\ Len(st.order) \in Nat
  BY DEF Shaped, Dealt, RoomStates
<1>2. /\ Append(st.order, p) \in Seq(Players) /\ Len(Append(st.order, p)) = Len(st.order) + 1
      /\ Range(Append(st.order, p)) = Range(st.order) \cup {p}
      /\ Once(Append(st.order, p))
  BY <1>1, Appended DEF Dealt, Seated
<1>3. /\ st2.book = st.book /\ st2.order = Append(st.order, p) /\ st2.finished = st.finished
      /\ st2.assigned = st.assigned /\ st2.active = st.active /\ st2.started = st.started
      /\ st2.wrong = st.wrong /\ st2.turn = st.turn /\ st2 \in RoomStates
  BY <1>1, <1>2 DEF RoomStates
<1> HIDE DEF st2
<1>4. Dealt(st2)
  <2>1. Words(st2)
    BY <1>1, <1>2, <1>3 DEF Dealt, Words, Seated
  <2>2. QED
    BY <1>1, <1>2, <1>3, <2>1 DEF Dealt
<1>5. OnTurn(st2)
  <2>1. /\ \A i \in 1..Len(st.order) : st2.order[i] = st.order[i]
        /\ st2.order[Len(st.order) + 1] = p
    BY <1>1, <1>3
  <2>2. ~IsFinished(st2, p)
    BY <1>1, <1>3 DEF IsFinished, Dealt, Seated
  <2>3. st2.active \in 1..Len(st.order) + 1
    BY <1>1, <1>3 DEF OnTurn
  <2>4. st2.active \in 1..Len(st2.order) + 1
    BY <1>1, <1>2, <1>3, <2>3
  <2>5. ~IsFinished(st2, st2.order[st2.active])
    BY <1>1, <1>3, <2>1, <2>2, <2>3 DEF OnTurn, IsFinished
  <2>6. QED
    BY <1>1, <1>2, <1>3, <2>4, <2>5 DEF OnTurn
<1>6. QED
  BY <1>2, <1>3, <1>4, <1>5 DEF Shaped, st2

-----------------------------------------------------------------------------
(* The inductive invariant.  A goroutine that is to put its copy back has   *)
(* one, and one that seats a player knows that its copy does not seat him:  *)
(* he was not in the Players map when the copy was taken, and the map names *)
(* whoever the copy seats.                                                  *)
WorkerStates ==
  [at : {"idle", "join", "turn", "view", "put"}, st : {NoRoom} \cup RoomStates,
   job : Players \cup Commands \cup {"none"}, known : BOOLEAN]

Working(w, bs, last, pending, past) ==
  /\ w \in WorkerStates
  /\ w.st = NoRoom \/ Sound(w.st, bs, last, pending, past)
  /\ w.at \in {"join", "turn", "put"} => w.st # NoRoom
  /\ w.at = "join" => w.job \in Players /\ (~w.known => w.job \notin Seated(w.st))

Shared ==
  /\ books \in Seq(SUBSET Players)
  /\ turns \in 0..MaxTurns /\ passed \in 0..turns /\ timers \subseteq 1..turns
  /\ requests \in 0..MaxRequests

GameInv ==
  /\ Shared
  /\ worker \in [Workers -> WorkerStates]
  /\ room = NoRoom \/ Sound(room, books, turns, timers, passed)
  /\ \A x \in Workers : Working(worker[x], books, turns, timers, passed)

LEMMA SoundStays ==
  ASSUME NEW st, NEW bs \in Seq(SUBSET Players), NEW bs2 \in Seq(SUBSET Players),
         NEW t \in Nat, NEW t2 \in Nat, NEW p \in Nat, NEW p2 \in Nat, NEW ts, NEW ts2,
         Sound(st, bs, t, ts, p), Grown(bs, bs2), t <= t2, p <= p2,
         \A k \in ts : k \in ts2 \/ k <= p2
  PROVE  Sound(st, bs2, t2, ts2, p2)
<1>1. st.turn \in Nat /\ Len(bs) \in Nat /\ Len(bs2) \in Nat
  BY DEF Sound, Shaped, Dealt, RoomStates
<1>2. QED
  BY <1>1 DEF Sound, Placed, Grown

LEMMA SoundIsRoom ==
  ASSUME NEW st, NEW bs, NEW t, NEW ts, NEW p, Sound(st, bs, t, ts, p)
  PROVE  st # NoRoom /\ st \in RoomStates
<1>1. st \in RoomStates /\ st.book \in Nat \ {0}
  BY DEF Sound, Shaped, Dealt, RoomStates
<1>2. QED
  BY <1>1 DEF NoRoom

LEMMA GotSound ==
  ASSUME GameInv, GetBooks
  PROVE  /\ books' \in Seq(SUBSET Players) /\ Grown(books, books')
         /\ Sound(Got, books', turns, timers, passed)
<1>1. books \in Seq(SUBSET Players) /\ Len(books) \in Nat /\ turns \in Nat /\ passed \in Nat
  BY DEF GameInv, Shared
<1>2. CASE room # NoRoom
  BY <1>1, <1>2 DEF GetBooks, Got, GameInv, Grown
<1>3. CASE room = NoRoom
  <2>1. books' = Append(books, {}) /\ Got = EmptyRoom(Len(books) + 1)
    BY <1>3 DEF GetBooks, Got
  <2>2. books' \in Seq(SUBSET Players) /\ Len(books') = Len(books) + 1 /\ Grown(books, books')
    BY <1>1, <2>1 DEF Grown
  <2>3. Len(books) + 1 \in Nat \ {0}
    BY <1>1
  <2>4. /\ Shaped(Got) /\ Got.book = Len(books) + 1 /\ Got.order = <<>>
        /\ Got.turn = 0 /\ ~Got.started
    BY <2>1, <2>3, EmptyShapes
  <2>5. Placed(Got, books', turns, timers, passed)
    <3>1. Range(<<>>) = {}
      BY DEF Range
    <3>2. QED
      BY <1>1, <2>2, <2>4, <3>1 DEF Placed
  <2>6. QED
    BY <2>2, <2>4, <2>5 DEF Sound
<1>4. QED
  BY <1>2, <1>3

(* A step of one goroutine.                                                *)
LEMMA StepKeeps ==
  ASSUME GameInv, Shared', NEW x \in Workers,
         worker' = [worker EXCEPT ![x] = worker'[x]],
         Working(worker'[x], books', turns', timers', passed'),
         room' = NoRoom \/ Sound(room', books', turns', timers', passed'),
         Grown(books, books'), turns <= turns', passed <= passed',
         \A k \in timers : k \in timers' \/ k <= passed'
  PROVE  GameInv'
<1>1. /\ books \in Seq(SUBSET Players) /\ books' \in Seq(SUBSET Players)
      /\ turns \in Nat /\ turns' \in Nat /\ passed \in Nat /\ passed' \in Nat
      /\ worker \in [Workers -> WorkerStates]
  BY DEF GameInv, Shared
<1>2. worker' \in [Workers -> WorkerStates]
  BY <1>1 DEF Working
<1>3. ASSUME NEW y \in Workers
      PROVE  Working(worker'[y], books', turns', timers', passed')
  <2>1. CASE y = x
    BY <2>1
  <2>2. CASE y # x
    <3>1. worker'[y] = worker[y] /\ Working(worker[y], books, turns, timers, passed)
      BY <1>1, <2>2 DEF GameInv
    <3>2. Sound(worker[y].st, books, turns, timers, passed) =>
            Sound(worker[y].st, books', turns', timers', passed')
      BY <1>1, SoundStays
    <3>3. QED
      BY <3>1, <3>2 DEF Working
  <2>3. QED
    BY <2>1, <2>2
<1>4. QED
  BY <1>2, <1>3 DEF GameInv

(* A goroutine that has put its copy back and is idle, or is to show it.   *)
LEMMA AtRest ==
  ASSUME NEW w, w \in {Idle, [Idle EXCEPT !.at = "view"]}, NEW bs, NEW t, NEW ts, NEW p
  PROVE  Working(w, bs, t, ts, p)
<1>1. w.at \in {"idle", "view"} /\ w.st = NoRoom /\ w.job = "none" /\ w.known = FALSE
  BY DEF Idle
<1>2. w \in WorkerStates
  <2>1. Idle \in WorkerStates
    BY DEF Idle, WorkerStates
  <2>2. QED
    BY <2>1 DEF WorkerStates
<1>3. QED
  BY <1>1, <1>2 DEF Working

(* Putting back a copy that is sound keeps the invariant, whatever was put  *)
(* back since it was taken.                                                 *)
LEMMA SaveKeeps ==
  ASSUME GameInv, Shared', NEW x \in Workers,
         worker' = [worker EXCEPT ![x] = worker'[x]],
         worker'[x] \in {Idle, [Idle EXCEPT !.at = "view"]},
         room' = NoRoom \/ Sound(room', books', turns', timers', passed'),
         Grown(books, books'), turns <= turns', passed <= passed',
         \A k \in timers : k \in timers' \/ k <= passed'
  PROVE  GameInv'
<1>1. Working(worker'[x], books', turns', timers', passed')
  BY AtRest
<1>2. QED
  BY <1>1, StepKeeps

-----------------------------------------------------------------------------
(* Each handler's steps.                                                   *)

LEMMA JoinSteps ==
  ASSUME GameInv, NEW x \in Workers,
         (\E p \in Players : JoinGame(x, p)) \/ JoinRefused(x) \/ JoinSave(x)
  PROVE  GameInv'
<1>1. /\ Shared /\ worker \in [Workers -> WorkerStates] /\ books \in Seq(SUBSET Players)
      /\ Working(worker[x], books, turns, timers, passed)
      /\ turns \in Nat /\ passed \in Nat
  BY DEF GameInv, Shared
<1>2. ASSUME NEW p \in Players, JoinGame(x, p)
      PROVE  GameInv'
  <2> DEFINE w == [at |-> "join", st |-> Got, job |-> p, known |-> p \in books'[Got.book]]
  <2>1. /\ UNCHANGED <<room, turns, passed, timers>> /\ requests < MaxRequests /\ requests' = requests + 1
        /\ worker' = [worker EXCEPT ![x] = w] /\ GetBooks
    BY <1>2 DEF JoinGame, Request
  <2>2. /\ books' \in Seq(SUBSET Players) /\ Grown(books, books')
        /\ Sound(Got, books', turns, timers, passed)
    BY <2>1, GotSound
  <2>3. worker'[x] = w
    BY <1>1, <2>1
  <2>4. Got \in RoomStates /\ Got # NoRoom /\ Range(Got.order) \subseteq books'[Got.book]
    BY <2>2, SoundIsRoom DEF Sound, Placed
  <2>5. w \in WorkerStates
    BY <2>4 DEF WorkerStates
  <2>6. w.at = "join" /\ w.st = Got /\ w.job = p /\ (~w.known => p \notin books'[Got.book])
    OBVIOUS
  <2> HIDE DEF w
  <2>7. Working(worker'[x], books', turns', timers', passed')
    BY <2>1, <2>2, <2>3, <2>4, <2>5, <2>6 DEF Working, Seated
  <2>8. Shared'
    BY <1>1, <2>1, <2>2, PapersAssumption DEF Shared
  <2>9. room' = NoRoom \/ Sound(room', books', turns', timers', passed')
    <3>1. Sound(room, books, turns, timers, passed) => Sound(room, books', turns, timers, passed)
      BY <1>1, <2>2, SoundStays
    <3>2. QED
      BY <2>1, <3>1 DEF GameInv
  <2>10. worker' = [worker EXCEPT ![x] = worker'[x]]
    BY <2>1, <2>3
  <2>11. turns <= turns' /\ passed <= passed' /\ timers' = timers
    BY <1>1, <2>1
  <2>12. QED
    BY <2>2, <2>7, <2>8, <2>9, <2>10, <2>11, StepKeeps
<1>3. CASE JoinRefused(x)
  <2>1. /\ UNCHANGED <<room, books, turns, passed, timers, requests>>
        /\ worker' = [worker EXCEPT ![x] = Idle]
    BY <1>3 DEF JoinRefused
  <2>2. worker'[x] = Idle /\ Shared' /\ Grown(books, books')
    BY <1>1, <2>1 DEF Shared, Grown
  <2>3. worker' = [worker EXCEPT ![x] = worker'[x]] /\ worker'[x] \in {Idle, [Idle EXCEPT !.at = "view"]}
    BY <2>1, <2>2
  <2>4. turns <= turns' /\ passed <= passed' /\ timers' = timers
    BY <1>1, <2>1
  <2>5. room' = NoRoom \/ Sound(room', books', turns', timers', passed')
    BY <2>1 DEF GameInv
  <2>6. QED
    BY <2>2, <2>3, <2>4, <2>5, SaveKeeps
<1>4. CASE JoinSave(x)
  <2> DEFINE st == worker[x].st
             p == worker[x].job
             st2 == [st EXCEPT !.order = Append(@, p)]
             rest == [Idle EXCEPT !.at = "view"]
  <2>1. /\ worker[x].at = "join" /\ UNCHANGED <<turns, passed, timers, requests>>
        /\ books' = [books EXCEPT ![st.book] = books[st.book] \cup {p}]
        /\ room' = (IF worker[x].known THEN st ELSE st2)
        /\ worker' = [worker EXCEPT ![x] = rest]
    BY <1>4 DEF JoinSave
  <2>2. /\ Sound(st, books, turns, timers, passed) /\ p \in Players
        /\ ~worker[x].known => p \notin Seated(st)
    BY <1>1, <2>1 DEF Working
  <2>3. st.book \in 1..Len(books) /\ Len(books) \in Nat
    BY <1>1, <2>2 DEF Sound, Placed
  <2>4. /\ books' \in Seq(SUBSET Players) /\ Len(books') = Len(books)
        /\ books'[st.book] = books[st.book] \cup {p}
        /\ Grown(books, books')
    <3> HIDE DEF st, p
    <3>1. \A i \in 1..Len(books) : books'[i] = IF i = st.book THEN books[st.book] \cup {p} ELSE books[i]
      BY <1>1, <2>1, <2>3
    <3>2. books' \in Seq(SUBSET Players) /\ Len(books') = Len(books)
      <4>1. books[st.book] \in SUBSET Players
        BY <1>1, <2>3
      <4>2. books[st.book] \cup {p} \in SUBSET Players
        BY <2>2, <4>1
      <4>3. QED
        BY <1>1, <2>1, <2>3, <4>2
    <3>3. QED
      BY <2>3, <3>1, <3>2 DEF Grown
  <2>5. Sound(st, books', turns, timers, passed)
    BY <1>1, <2>2, <2>4, SoundStays
  <2>6. ~worker[x].known => Sound(st2, books', turns, timers, passed)
    <3>1. HAVE ~worker[x].known
    <3>2. /\ Shaped(st2) /\ st2.book = st.book /\ Range(st2.order) = Range(st.order) \cup {p}
          /\ st2.turn = st.turn /\ st2.started = st.started
      BY <2>2, <3>1, JoinShapes DEF Sound
    <3> HIDE DEF st2, st, p
    <3>3. QED
      BY <2>4, <2>5, <3>2 DEF Sound, Placed
  <2>7. Sound(room', books', turns', timers', passed')
    <3> HIDE DEF st, st2
    <3>1. QED
      BY <2>1, <2>5, <2>6
  <2>8. worker'[x] = [Idle EXCEPT !.at = "view"] /\ Shared'
    BY <1>1, <2>1, <2>4 DEF Shared
  <2>9. worker' = [worker EXCEPT ![x] = worker'[x]]
    BY <2>1, <2>8
  <2>10. turns <= turns' /\ passed <= passed' /\ timers' = timers
    BY <1>1, <2>1
  <2>11. QED
    BY <2>4, <2>7, <2>8, <2>9, <2>10, SaveKeeps
<1>5. QED
  BY <1>2, <1>3, <1>4

LEMMA StartSteps ==
  ASSUME GameInv, NEW x \in Workers, Start(x)
  PROVE  GameInv'
<1> DEFINE st == worker[x].st
           rest == [Idle EXCEPT !.at = "view"]
<1>1. /\ Shared /\ worker \in [Workers -> WorkerStates] /\ books \in Seq(SUBSET Players)
      /\ Working(worker[x], books, turns, timers, passed)
      /\ turns \in Nat /\ passed \in Nat /\ Len(books) \in Nat
  BY DEF GameInv, Shared
<1>2. /\ worker[x].at = "turn" /\ Unfinished(st) # {} /\ turns < MaxTurns
      /\ turns' = turns + 1 /\ timers' = timers \cup {turns + 1}
      /\ worker' = [worker EXCEPT ![x] = rest]
      /\ UNCHANGED <<books, passed, requests>>
  BY DEF Start, Commanded, Save
<1>3. Sound(st, books, turns, timers, passed)
  BY <1>1, <1>2 DEF Working
<1>4. /\ Shaped(room') /\ room'.book = st.book /\ room'.order = st.order
      /\ room'.turn = turns + 1 /\ room'.started = TRUE
  <2>1. turns + 1 \in Nat \ {0} /\ Shaped(st)
    BY <1>1, <1>3 DEF Sound
  <2>2. room' = StartedIn(st, turns + 1)
    BY DEF Start, Save, StartedIn
  <2> HIDE DEF st
  <2>3. QED
    BY <1>2, <2>1, <2>2, StartShapes
<1>5. Sound(room', books', turns', timers', passed')
  <2> HIDE DEF st
  <2>1. QED
    BY <1>1, <1>2, <1>3, <1>4 DEF Sound, Placed
<1>6. worker'[x] = [Idle EXCEPT !.at = "view"] /\ worker' = [worker EXCEPT ![x] = worker'[x]]
  BY <1>1, <1>2
<1>7. Shared' /\ Grown(books, books')
  BY <1>1, <1>2, PapersAssumption DEF Shared, Grown
<1>8. turns <= turns' /\ passed <= passed' /\ timers \subseteq timers'
  BY <1>1, <1>2
<1>9. QED
  BY <1>5, <1>6, <1>7, <1>8, SaveKeeps

LEMMA ClickSteps ==
  ASSUME GameInv, NEW x \in Workers,
         StartRefused(x) \/ Wrong(x) \/ Guessed(x) \/ Restart(x) \/ End(x) \/ Put(x) \/ GameState(x)
  PROVE  GameInv'
<1> DEFINE st == worker[x].st
           rest == [Idle EXCEPT !.at = "view"]
<1>1. /\ Shared /\ worker \in [Workers -> WorkerStates] /\ books \in Seq(SUBSET Players)
      /\ Working(worker[x], books, turns, timers, passed)
      /\ turns \in Nat /\ passed \in Nat /\ Len(books) \in Nat
      /\ room = NoRoom \/ Sound(room, books, turns, timers, passed)
  BY DEF GameInv, Shared
<1>2. /\ UNCHANGED <<books, turns, passed, timers>>
      /\ requests' = requests \/ (requests < MaxRequests /\ requests' = requests + 1)
      /\ worker' = [worker EXCEPT ![x] = Idle] \/ worker' = [worker EXCEPT ![x] = rest]
  BY DEF StartRefused, Wrong, Guessed, Restart, End, Put, GameState, Request, Save
<1>3. worker'[x] \in {Idle, rest} /\ worker' = [worker EXCEPT ![x] = worker'[x]]
  BY <1>1, <1>2
<1>4. Shared' /\ Grown(books, books')
  BY <1>1, <1>2, PapersAssumption DEF Shared, Grown
<1>5. st # NoRoom => Sound(st, books, turns, timers, passed)
  BY <1>1 DEF Working
<1>6. ASSUME NEW st2, Shaped(st2), st2.book = st.book, st2.order = st.order, st2.turn \in {0, st.turn},
             st2.started => st.started /\ st2.turn = st.turn, Sound(st, books, turns, timers, passed)
      PROVE  Sound(st2, books', turns', timers', passed')
  <2> HIDE DEF st
  <2>1. QED
    BY <1>1, <1>2, <1>6 DEF Sound, Placed
<1>7. room' = NoRoom \/ Sound(room', books', turns', timers', passed')
  <2>1. CASE StartRefused(x) \/ GameState(x)
    BY <1>1, <1>2, <2>1 DEF StartRefused, GameState
  <2>2. CASE End(x)
    BY <2>2 DEF End
  <2>3. CASE Put(x)
    <3>1. room' = st /\ st # NoRoom
      BY <1>1, <2>3 DEF Put, Working
    <3>2. QED
      BY <1>2, <1>5, <3>1
  <2>4. CASE Wrong(x)
    <3>1. st # NoRoom /\ room' = WrongIn(st)
      BY <1>1, <2>4 DEF Wrong, Commanded, Save, Working, WrongIn
    <3>2. Sound(st, books, turns, timers, passed) /\ Shaped(st)
      BY <1>5, <3>1 DEF Sound
    <3> HIDE DEF st
    <3>3. /\ Shaped(room') /\ room'.book = st.book /\ room'.order = st.order
          /\ (room'.started => st.started) /\ room'.turn \in {0, st.turn}
          /\ (room'.started => room'.turn = st.turn)
      BY <3>1, <3>2, WrongShapes
    <3>4. QED
      BY <1>6, <3>2, <3>3
  <2>5. CASE Guessed(x)
    <3>1. st # NoRoom
      BY <1>1, <2>5 DEF Guessed, Commanded, Working
    <3>2. Sound(st, books, turns, timers, passed) /\ Shaped(st)
      BY <1>5, <3>1 DEF Sound
    <3>3. room' = GuessedIn(st)
      BY <2>5 DEF Guessed, Save, GuessedIn
    <3> HIDE DEF st
    <3>4. /\ Shaped(room') /\ room'.book = st.book /\ room'.order = st.order
          /\ (room'.started => st.started) /\ room'.turn \in {0, st.turn}
          /\ (room'.started => room'.turn = st.turn)
      BY <3>2, <3>3, GuessedShapes
    <3>5. QED
      BY <1>6, <3>2, <3>4
  <2>6. CASE Restart(x)
    <3>1. st # NoRoom /\ room' = [EmptyRoom(st.book) EXCEPT !.order = st.order]
      BY <1>1, <2>6 DEF Restart, Commanded, Save, Working
    <3>2. Sound(st, books, turns, timers, passed)
      BY <1>5, <3>1
    <3>3. st.book \in Nat \ {0} /\ st.order \in Seq(Players) /\ Once(st.order)
      BY <3>2 DEF Sound, Shaped, Dealt, RoomStates
    <3> HIDE DEF st
    <3>4. Shaped(room') /\ room'.book = st.book /\ room'.order = st.order /\ room'.turn = 0 /\ ~room'.started
      BY <3>1, <3>3, FreshShapes
    <3>5. QED
      BY <1>6, <3>2, <3>4
  <2>7. QED
    BY <2>1, <2>2, <2>3, <2>4, <2>5, <2>6
<1>8. turns <= turns' /\ passed <= passed' /\ timers' = timers
  BY <1>1, <1>2
<1>9. QED
  BY <1>3, <1>4, <1>7, <1>8, SaveKeeps

LEMMA CopySteps ==
  ASSUME GameInv, NEW x \in Workers,
         \/ ViewGet(x)
         \/ \E t \in timers : TimerFires(x, t)
         \/ \E command \in Commands : TurnAction(x, command)
  PROVE  GameInv'
<1>1. /\ Shared /\ worker \in [Workers -> WorkerStates] /\ books \in Seq(SUBSET Players)
      /\ turns \in Nat /\ passed \in Nat
  BY DEF GameInv, Shared
<1>2. /\ UNCHANGED <<room, turns, passed>> /\ GetBooks
      /\ requests' = requests \/ (requests < MaxRequests /\ requests' = requests + 1)
      /\ timers' \subseteq timers /\ \A k \in timers : k \in timers' \/ k <= passed
  BY DEF ViewGet, TimerFires, TurnAction, Request
<1>3. /\ books' \in Seq(SUBSET Players) /\ Grown(books, books')
      /\ Sound(Got, books', turns, timers, passed)
  BY <1>2, GotSound
<1>4. Shared'
  BY <1>1, <1>2, <1>3, PapersAssumption DEF Shared
<1>5. Sound(Got, books', turns', timers', passed')
  <2>1. Grown(books', books')
    BY DEF Grown
  <2>2. Sound(Got, books', turns, timers', passed)
    BY <1>1, <1>2, <1>3, <2>1, SoundStays
  <2>3. QED
    BY <1>2, <2>2
<1>6. room' = NoRoom \/ Sound(room', books', turns', timers', passed')
  <2>1. Sound(room, books, turns, timers, passed) => Sound(room, books', turns', timers', passed')
    BY <1>1, <1>2, <1>3, SoundStays
  <2>2. QED
    BY <1>2, <2>1 DEF GameInv
<1>7. ASSUME NEW command \in Commands, TurnAction(x, command)
      PROVE  Working(worker'[x], books', turns', timers', passed') /\ worker' = [worker EXCEPT ![x] = worker'[x]]
  <2> DEFINE w == [at |-> "turn", st |-> Got, job |-> command, known |-> FALSE]
  <2>1. worker' = [worker EXCEPT ![x] = w]
    BY <1>7 DEF TurnAction
  <2>2. worker'[x] = w
    BY <1>1, <2>1
  <2>3. Got \in RoomStates /\ Got # NoRoom
    BY <1>5, SoundIsRoom
  <2>4. w \in WorkerStates
    BY <2>3 DEF WorkerStates
  <2>5. w.at = "turn" /\ w.st = Got
    OBVIOUS
  <2> HIDE DEF w
  <2>6. QED
    BY <1>5, <2>1, <2>2, <2>3, <2>4, <2>5 DEF Working
<1>8. ASSUME ViewGet(x) \/ \E t \in timers : TimerFires(x, t)
      PROVE  Working(worker'[x], books', turns', timers', passed') /\ worker' = [worker EXCEPT ![x] = worker'[x]]
  <2> DEFINE st == ExpireTurn(Got)
             w == [Idle EXCEPT !.at = "put", !.st = st]
  <2>1. worker' = [worker EXCEPT ![x] = w]
    BY <1>8 DEF ViewGet, TimerFires
  <2>2. worker'[x] = w
    BY <1>1, <2>1
  <2>3. /\ Shaped(st) /\ st.book = Got.book /\ st.order = Got.order
        /\ st.turn = Got.turn /\ (st.started => Got.started)
    BY <1>5, ExpireShapes DEF Sound
  <2> HIDE DEF st
  <2>4. Sound(st, books', turns', timers', passed')
    BY <1>5, <2>3 DEF Sound, Placed
  <2>5. st \in RoomStates /\ st # NoRoom
    BY <2>4, SoundIsRoom
  <2>6. w.at = "put" /\ w.st = st /\ w.job = "none" /\ w.known = FALSE
    BY DEF Idle
  <2>7. w \in WorkerStates
    <3>1. Idle \in WorkerStates
      BY DEF Idle, WorkerStates
    <3>2. QED
      BY <2>5, <3>1 DEF WorkerStates
  <2> HIDE DEF w
  <2>8. QED
    BY <2>1, <2>2, <2>4, <2>5, <2>6, <2>7 DEF Working
<1>9. Working(worker'[x], books', turns', timers', passed') /\ worker' = [worker EXCEPT ![x] = worker'[x]]
  BY <1>7, <1>8
<1>10. QED
  BY <1>1, <1>2, <1>3, <1>4, <1>6, <1>9, StepKeeps

LEMMA OtherSteps ==
  ASSUME GameInv, DeadlinePasses \/ Forget \/ UNCHANGED vars
  PROVE  GameInv'
<1>1. /\ Shared /\ books \in Seq(SUBSET Players) /\ turns \in Nat /\ passed \in Nat
  BY DEF GameInv, Shared
<1>2. /\ UNCHANGED <<books, turns, timers, worker>> /\ room' \in {room, NoRoom}
      /\ passed' = passed \/ (passed < turns /\ passed' = passed + 1)
      /\ requests' = requests \/ (requests < MaxRequests /\ requests' = requests + 1)
  BY DEF DeadlinePasses, Forget, Request, vars
<1>3. Shared'
  BY <1>1, <1>2, PapersAssumption DEF Shared
<1>4. \A st : Sound(st, books, turns, timers, passed) => Sound(st, books', turns', timers', passed')
  <2> TAKE st
  <2>1. passed' \in Nat /\ passed <= passed' /\ Grown(books, books)
    BY <1>1, <1>2 DEF Grown
  <2>2. Sound(st, books, turns, timers, passed) => Sound(st, books, turns, timers, passed')
    BY <1>1, <2>1, SoundStays
  <2>3. QED
    BY <1>2, <2>2
<1>5. QED
  BY <1>2, <1>3, <1>4 DEF GameInv, Working

LEMMA GameStep == GameInv /\ [Next]_vars => GameInv'
<1> SUFFICES ASSUME GameInv, [Next]_vars PROVE GameInv'
  OBVIOUS
<1>1. CASE DeadlinePasses \/ Forget \/ UNCHANGED vars
  BY <1>1, OtherSteps
<1>2. ASSUME NEW x \in Workers,
             \/ WorkerStep(x)
             \/ \E p \in Players : JoinGame(x, p)
             \/ \E command \in Commands : TurnAction(x, command)
             \/ GameState(x)
             \/ \E t \in timers : TimerFires(x, t)
      PROVE  GameInv'
  BY <1>2, JoinSteps, StartSteps, ClickSteps, CopySteps DEF WorkerStep
<1>3. QED
  BY <1>1, <1>2 DEF Next

LEMMA GameInit == Init => GameInv
<1> SUFFICES ASSUME Init PROVE GameInv
  OBVIOUS
<1>1. Shared /\ room = NoRoom
  BY PapersAssumption DEF Init, Shared
<1>2. \A x \in Workers : Working(worker[x], books, turns, timers, passed)
  BY AtRest DEF Init
<1>3. worker \in [Workers -> WorkerStates]
  BY <1>2 DEF Init, Working
<1>4. QED
  BY <1>1, <1>2, <1>3 DEF GameInv

-----------------------------------------------------------------------------
(* What the invariant says of every copy.                                  *)

LEMMA GameOver ==
  ASSUME NEW st, Dealt(st)
  PROVE  (st.order # <<>> /\ Len(st.finished) >= Len(st.order)) <=>
           (Seated(st) # {} /\ {q \in Seated(st) : IsFinished(st, q)} = Seated(st))
<1>1. /\ st.order \in Seq(Players) /\ st.finished \in Seq(Players)
      /\ Len(st.order) \in Nat /\ Len(st.finished) \in Nat
      /\ Range(st.finished) \subseteq Range(st.order)
  BY DEF Dealt, RoomStates
<1>2. /\ IsFiniteSet(Range(st.order)) /\ Cardinality(Range(st.order)) = Len(st.order)
      /\ IsFiniteSet(Range(st.finished)) /\ Cardinality(Range(st.finished)) = Len(st.finished)
  BY <1>1, OnceCounts DEF Dealt
<1>3. Len(st.finished) <= Len(st.order) /\ (Len(st.finished) = Len(st.order) => Range(st.finished) = Range(st.order))
  <2>1. Range(st.finished) \in SUBSET Range(st.order)
    BY <1>1
  <2>2. QED
    BY <1>2, <2>1, FS_Subset
<1>4. {q \in Seated(st) : IsFinished(st, q)} = Range(st.finished)
  BY <1>1 DEF Seated, IsFinished
<1>5. st.order # <<>> <=> Seated(st) # {}
  <2>1. CASE st.order = <<>>
    BY <2>1 DEF Seated, Range
  <2>2. CASE st.order # <<>>
    <3>1. 1 \in 1..Len(st.order)
      BY <1>1, <2>2
    <3>2. st.order[1] \in Range(st.order)
      BY <1>1, <3>1, InRange
    <3>3. QED
      BY <2>2, <3>2 DEF Seated
  <2>3. QED
    BY <2>1, <2>2
<1>6. Len(st.finished) >= Len(st.order) <=> Range(st.finished) = Range(st.order)
  BY <1>1, <1>2, <1>3
<1>7. QED
  BY <1>4, <1>5, <1>6, Zenon DEF Seated

LEMMA ViewShows ==
  ASSUME NEW st, Shaped(st), NEW p \in Players
  PROVE  LET v == View(st, p)
         IN  /\ p \in Seated(st) /\ st.assigned[p] # Nobody => st.assigned[p] \notin Range(v.worn)
             /\ st.started => Cardinality(v.active) = 1 /\ v.active \cap v.finished = {}
             /\ v.gameOver <=> Seated(st) # {} /\ v.finished = Seated(st)
             /\ v.gameOver => ~st.started
<1> DEFINE v == View(st, p)
<1>1. /\ Dealt(st) /\ OnTurn(st) /\ st \in RoomStates /\ st.order \in Seq(Players)
      /\ st.active \in Nat /\ Len(st.order) \in Nat /\ st.started \in BOOLEAN
  BY DEF Shaped, Dealt, RoomStates
<1>2. /\ v.worn = [q \in Seated(st) |-> IF q = p THEN Nobody ELSE st.assigned[q]]
      /\ v.active = {st.order[i] : i \in {j \in 1..Len(st.order) : st.started /\ j = st.active}}
      /\ v.finished = {q \in Seated(st) : IsFinished(st, q)}
      /\ v.gameOver = (st.order # <<>> /\ Len(st.finished) >= Len(st.order))
  BY DEF View
<1>3. Seated(st) \subseteq Players
  BY <1>1, InRange DEF Seated
<1>4. p \in Seated(st) /\ st.assigned[p] # Nobody => st.assigned[p] \notin Range(v.worn)
  <2> HAVE p \in Seated(st) /\ st.assigned[p] # Nobody
  <2>1. \A q \in Seated(st) : v.worn[q] # st.assigned[p]
    <3> TAKE q \in Seated(st)
    <3>1. q \in Players /\ v.worn[q] = IF q = p THEN Nobody ELSE st.assigned[q]
      BY <1>2, <1>3
    <3>2. QED
      BY <1>1, <3>1 DEF Dealt, Words
  <2>2. DOMAIN v.worn = Seated(st)
    BY <1>2
  <2> HIDE DEF v
  <2>3. QED
    BY <2>1, <2>2 DEF Range
<1>5. st.started => v.active = {st.order[st.active]} /\ ~IsFinished(st, st.order[st.active])
  <2> HAVE st.started
  <2>1. st.active \in 1..Len(st.order) /\ ~IsFinished(st, st.order[st.active])
    BY <1>1 DEF OnTurn
  <2>2. {j \in 1..Len(st.order) : st.started /\ j = st.active} = {st.active}
    BY <2>1
  <2>3. QED
    BY <1>2, <2>1, <2>2
<1> HIDE DEF v
<1>6. st.started => Cardinality(v.active) = 1 /\ v.active \cap v.finished = {}
  <2>1. st.order[st.active] \notin v.finished \/ ~st.started
    BY <1>2, <1>5
  <2>2. st.started => Cardinality(v.active) = 1
    BY <1>5, FS_Singleton
  <2>3. QED
    BY <1>5, <2>1, <2>2
<1>7. v.gameOver <=> Seated(st) # {} /\ v.finished = Seated(st)
  BY <1>1, <1>2, GameOver
<1>8. v.gameOver => ~st.started
  <2> SUFFICES ASSUME v.gameOver, st.started PROVE FALSE
    OBVIOUS
  <2>1. st.order[st.active] \in Seated(st)
    <3>1. st.active \in 1..Len(st.order)
      BY <1>1 DEF OnTurn
    <3>2. QED
      BY <1>1, <3>1, InRange DEF Seated
  <2>2. QED
    BY <1>2, <1>5, <1>7, <2>1
<1>9. QED
  BY <1>4, <1>6, <1>7, <1>8 DEF v

LEMMA GameInvImplies == GameInv => GameSound
<1> SUFFICES ASSUME GameInv PROVE GameSound
  OBVIOUS
<1>1. ASSUME NEW st \in Copies
      PROVE  Sound(st, books, turns, timers, passed)
  BY DEF Copies, GameInv, Working
<1>2. ASSUME NEW st \in Copies
      PROVE  /\ Dealt(st) /\ OnTurn(st) /\ Placed(st, books, turns, timers, passed) /\ st \in RoomStates
             /\ Len(st.order) \in Nat /\ Len(st.order) <= Cardinality(Players)
  <2>1. Dealt(st) /\ OnTurn(st) /\ Placed(st, books, turns, timers, passed) /\ st \in RoomStates
    BY <1>1 DEF Sound, Shaped, Dealt
  <2>2. st.order \in Seq(Players) /\ Once(st.order) /\ Len(st.order) \in Nat
    BY <2>1 DEF Dealt, RoomStates
  <2>3. Range(st.order) \in SUBSET Players
    BY <2>2, InRange
  <2>4. Cardinality(Range(st.order)) = Len(st.order)
    BY <2>2, OnceCounts
  <2>5. Cardinality(Range(st.order)) <= Cardinality(Players)
    BY <2>3, PapersAssumption, FS_Subset
  <2>6. QED
    BY <2>1, <2>2, <2>4, <2>5
<1>3. TypeOK
  <2>1. \A st \in Copies : IsRoomState(st)
    <3> TAKE st \in Copies
    <3>1. /\ st.turn \in Nat /\ st.wrong \in Nat /\ st.active \in Nat /\ st.book \in Nat
          /\ st.assigned \in [Players -> Players \cup {Nobody}]
          /\ st.finished \in Seq(Players) /\ st.order \in Seq(Players) /\ st.started \in BOOLEAN
      BY <1>2 DEF RoomStates
    <3>2. turns \in Nat
      BY DEF GameInv, Shared
    <3>3. QED
      BY <1>2, <3>1, <3>2, PapersAssumption DEF IsRoomState, OnTurn, Placed
  <2>2. \A x \in Workers : worker[x].at \in {"idle", "join", "turn", "view", "put"}
    BY DEF GameInv, Working, WorkerStates
  <2>3. QED
    BY <2>1, <2>2 DEF TypeOK, GameInv, Shared
<1>4. SeatsSound
  BY <1>2, <1>3 DEF SeatsSound, Dealt, Placed, Seated
<1>5. TurnSound
  BY <1>2 DEF TurnSound, OnTurn, Placed
<1>6. WordsSound
  BY <1>2 DEF WordsSound, Dealt, Words
<1>7. ViewsSound
  <2>1. \A st \in Copies : Shaped(st)
    BY <1>1 DEF Sound
  <2>2. QED
    BY <2>1, ViewShows DEF ViewsSound
<1>8. QED
  BY <1>4, <1>5, <1>6, <1>7 DEF GameSound

(* However joins, turns, restarts, timers and forgotten rooms overlap, and  *)
(* whichever copy of the room is put back last, nobody sits twice, a turn   *)
(* is an unfinished player's and has an end, nobody wears or is shown his   *)
(* own word, and the game is over exactly when all have guessed (game.go).  *)
THEOREM PapersPlayedFairly == Spec => []GameSound
<1>1. GameInv /\ [Next]_vars => GameInv'
  BY GameStep
<1>2. QED
  BY <1>1, GameInit, GameInvImplies, PTL DEF Spec

-----------------------------------------------------------------------------
(***************************************************************************)
(* BadgeSound for any number of users, streams, requests and messages and  *)
(* every channel with room for a ping.  A stream that has counted shows    *)
(* the count as it is, or has a ping pending, or is owed one: what a       *)
(* request writes it owes a ping for until it notifies, and a notification *)
(* leaves no stream of its user without a ping, because a channel that     *)
(* takes no more has one.                                                  *)
(***************************************************************************)

Messages == [from : Users, to : Users, read : BOOLEAN]
Badges == [at : {"count", "show", "wait"}, user : Users, pings : Nat, badge : Nat]
Jobs == [at : {"mark", "notify"}, user : Users, other : Users]

ThreadsTypeOK ==
  /\ messages \in Seq(Messages)
  /\ stream \in [Streams -> {Closed} \cup Badges]
  /\ handler \in [Handlers -> {Free} \cup Jobs]

OwedBy(hs, v) == \E h \in Handlers : hs[h].at = "notify" /\ hs[h].user = v
UnreadIn(ms, v) == Cardinality({i \in DOMAIN ms : ms[i].to = v /\ ~ms[i].read})
InThread(m, u, other) == m.to = u /\ m.from = other

(* What a stream has counted is so, or it will count again.                *)
Told(b, hs, ms) ==
  b.at \in {"show", "wait"} => b.pings > 0 \/ OwedBy(hs, b.user) \/ b.badge = UnreadIn(ms, b.user)
CountsAgain == \A s \in Streams : Told(stream[s], handler, messages)

(* What a request is about to mark has been shown, or came since.          *)
MarksTheShown ==
  \A h \in Handlers : handler[h].at = "mark" =>
    \A i \in DOMAIN messages :
      InThread(messages[i], handler[h].user, handler[h].other) => i \in shown \cup overtaken

ThreadsInv == ThreadsTypeOK /\ CountsAgain /\ MarksTheShown /\ ReadMeansShown

-----------------------------------------------------------------------------
LEMMA UnreadIsNat ==
  ASSUME ThreadsTypeOK, NEW v
  PROVE  UnreadIn(messages, v) \in Nat /\ UnreadIn(messages, v) = Unread(v)
<1> DEFINE S == {i \in DOMAIN messages : messages[i].to = v /\ ~messages[i].read}
<1>1. DOMAIN messages = 1..Len(messages) /\ Len(messages) \in Nat
  BY DEF ThreadsTypeOK
<1>2. IsFiniteSet(1..Len(messages))
  BY <1>1, FS_Interval
<1>3. S \subseteq 1..Len(messages)
  BY <1>1
<1>4. IsFiniteSet(S)
  BY <1>2, <1>3, FS_Subset
<1>5. QED
  BY <1>4, FS_CardinalityType DEF Unread, UnreadIn, IsUnread

LEMMA SameUnread ==
  ASSUME NEW ms, NEW ns, NEW v, NEW old \in SUBSET DOMAIN ns, DOMAIN ms = old,
         \A i \in old : (ns[i].to = v /\ ~ns[i].read) <=> (ms[i].to = v /\ ~ms[i].read),
         \A i \in DOMAIN ns \ old : ns[i].to # v
  PROVE  UnreadIn(ns, v) = UnreadIn(ms, v)
<1>1. {i \in DOMAIN ns : ns[i].to = v /\ ~ns[i].read} = {i \in DOMAIN ms : ms[i].to = v /\ ~ms[i].read}
  OBVIOUS
<1>2. QED
  BY <1>1 DEF UnreadIn

(* What a step of a stream leaves alone.                                   *)
LEMMA StreamStep ==
  ASSUME ThreadsInv, NEW s \in Streams, NEW b,
         UNCHANGED <<messages, handler, noted>>,
         stream' = [stream EXCEPT ![s] = b],
         b \in {Closed} \cup Badges, Told(b, handler, messages)
  PROVE  ThreadsInv'
<1>1. ThreadsTypeOK'
  BY DEF ThreadsInv, ThreadsTypeOK
<1>2. CountsAgain'
  <2>1. \A q \in Streams : stream'[q] = IF q = s THEN b ELSE stream[q]
    BY DEF ThreadsInv, ThreadsTypeOK
  <2>2. \A q \in Streams : Told(stream'[q], handler, messages)
    BY <2>1 DEF ThreadsInv, CountsAgain
  <2>3. handler' = handler /\ messages' = messages
    OBVIOUS
  <2>4. QED
    BY <2>2, <2>3 DEF CountsAgain
<1>3. MarksTheShown' /\ ReadMeansShown'
  BY DEF ThreadsInv, MarksTheShown, ReadMeansShown, noted
<1>4. QED
  BY <1>1, <1>2, <1>3 DEF ThreadsInv

LEMMA StreamSteps ==
  ASSUME ThreadsInv, NEW s \in Streams,
         Count(s) \/ Show(s) \/ Wake(s) \/ Close(s) \/ \E u \in Users : Subscribe(s, u)
  PROVE  ThreadsInv'
<1>1. stream[s] \in {Closed} \cup Badges /\ ThreadsTypeOK /\ Told(stream[s], handler, messages)
  BY DEF ThreadsInv, ThreadsTypeOK, CountsAgain
<1>2. CASE Count(s)
  <2> DEFINE b == [stream[s] EXCEPT !.at = "show", !.badge = Unread(stream[s].user)]
  <2>1. stream[s] \in Badges
    BY <1>1, <1>2 DEF Count, Closed
  <2>2. UnreadIn(messages, stream[s].user) \in Nat
        /\ UnreadIn(messages, stream[s].user) = Unread(stream[s].user)
    BY <1>1, UnreadIsNat
  <2>3. b \in Badges /\ b.user = stream[s].user /\ b.badge = Unread(stream[s].user)
    BY <2>1, <2>2 DEF Badges
  <2>4. Told(b, handler, messages)
    BY <2>2, <2>3 DEF Told
  <2>5. stream' = [stream EXCEPT ![s] = b] /\ UNCHANGED <<messages, handler, noted>>
    BY <1>2 DEF Count
  <2>6. QED
    BY <2>3, <2>4, <2>5, StreamStep
<1>3. CASE Show(s)
  <2> DEFINE b == [stream[s] EXCEPT !.at = "wait"]
  <2>1. stream[s] \in Badges /\ stream[s].at = "show"
    BY <1>1, <1>3 DEF Show, Closed
  <2>2. b \in Badges /\ b.user = stream[s].user /\ b.badge = stream[s].badge /\ b.pings = stream[s].pings
    BY <2>1 DEF Badges
  <2>3. Told(b, handler, messages)
    BY <1>1, <2>1, <2>2 DEF Told
  <2>4. stream' = [stream EXCEPT ![s] = b] /\ UNCHANGED <<messages, handler, noted>>
    BY <1>3 DEF Show
  <2>5. QED
    BY <2>2, <2>3, <2>4, StreamStep
<1>4. CASE Wake(s)
  <2> DEFINE b == [stream[s] EXCEPT !.at = "count", !.pings = stream[s].pings - 1]
  <2>1. stream[s] \in Badges /\ stream[s].pings - 1 \in Nat
    BY <1>1, <1>4 DEF Wake, Closed, Badges
  <2>2. b \in Badges /\ b.at = "count"
    BY <2>1 DEF Badges
  <2>3. Told(b, handler, messages)
    BY <2>2 DEF Told
  <2>4. stream' = [stream EXCEPT ![s] = b] /\ UNCHANGED <<messages, handler, noted>>
    BY <1>4 DEF Wake
  <2>5. QED
    BY <2>2, <2>3, <2>4, StreamStep
<1>5. CASE Close(s)
  <2>1. stream' = [stream EXCEPT ![s] = Closed] /\ UNCHANGED <<messages, handler, noted>>
    BY <1>5 DEF Close
  <2>2. Told(Closed, handler, messages)
    BY DEF Told, Closed
  <2>3. QED
    BY <2>1, <2>2, StreamStep
<1>6. ASSUME NEW u \in Users, Subscribe(s, u)
      PROVE  ThreadsInv'
  <2> DEFINE b == [at |-> "count", user |-> u, pings |-> 0, badge |-> 0]
  <2>1. stream' = [stream EXCEPT ![s] = b] /\ UNCHANGED <<messages, handler, noted>>
    BY <1>6 DEF Subscribe
  <2>2. b \in Badges /\ Told(b, handler, messages)
    BY DEF Badges, Told
  <2>3. QED
    BY <2>1, <2>2, StreamStep
<1>7. QED
  BY <1>2, <1>3, <1>4, <1>5, <1>6

-----------------------------------------------------------------------------
LEMMA Notifying ==
  ASSUME ThreadsInv, NEW h \in Handlers, Notify(h)
  PROVE  ThreadsInv'
<1> DEFINE u == handler[h].user
           Pinging(b) == [b EXCEPT !.pings = @ + 1]
<1>1. ThreadsTypeOK /\ h \in DOMAIN handler /\ handler[h] \in Jobs
  BY DEF ThreadsInv, ThreadsTypeOK, Notify, Free
<1>2. handler' = [handler EXCEPT ![h] = Free] /\ UNCHANGED <<messages, shown, overtaken>>
  BY DEF Notify, noted
<1>3. stream' = [s \in Streams |-> IF Listens(s, u) /\ stream[s].pings < Room
                                   THEN Pinging(stream[s]) ELSE stream[s]]
  BY Zenon DEF Notify, Pinged
<1>4. \A s \in Streams : stream'[s] = IF Listens(s, u) /\ stream[s].pings < Room
                                      THEN Pinging(stream[s]) ELSE stream[s]
  BY <1>3, Zenon
<1>5. \A b \in Badges : Pinging(b) \in Badges /\ Pinging(b).pings = b.pings + 1
  BY DEF Badges
<1> HIDE DEF Pinging
<1>6. \A s \in Streams : stream[s] \in {Closed} \cup Badges
  BY <1>1 DEF ThreadsTypeOK
<1>7. \A s \in Streams : Listens(s, u) => stream[s] \in Badges
  BY <1>6 DEF Listens
<1>8. \A s \in Streams : stream'[s] \in {Closed} \cup Badges
  BY <1>4, <1>5, <1>6, <1>7
<1>9. ThreadsTypeOK'
  <2>1. stream' \in [Streams -> {Closed} \cup Badges]
    BY <1>3, <1>8
  <2>2. handler' \in [Handlers -> {Free} \cup Jobs] /\ messages' \in Seq(Messages)
    BY <1>1, <1>2 DEF ThreadsTypeOK
  <2>3. QED
    BY <2>1, <2>2 DEF ThreadsTypeOK
<1>10. \A v : v # u /\ OwedBy(handler, v) => OwedBy(handler', v)
  BY <1>1, <1>2 DEF OwedBy, ThreadsTypeOK
<1>11. ASSUME NEW s \in Streams
       PROVE  Told(stream'[s], handler', messages')
  <2>1. CASE Listens(s, u)
    <3>1. stream[s] \in Badges /\ stream[s].pings \in Nat
      BY <2>1, <1>7 DEF Badges
    <3>2. stream'[s].pings > 0
      <4>1. CASE stream[s].pings < Room
        BY <4>1, <3>1, <2>1, <1>4, <1>5
      <4>2. CASE ~(stream[s].pings < Room)
        BY <4>2, <3>1, <2>1, <1>4, ThreadsAssumption
      <4>3. QED
        BY <4>1, <4>2
    <3>3. QED
      BY <3>2 DEF Told
  <2>2. CASE ~Listens(s, u)
    <3>1. stream'[s] = stream[s] /\ messages' = messages
      BY <2>2, <1>2, <1>4
    <3>2. stream[s].at \in {"show", "wait"} => stream[s].user # u
      BY <2>2 DEF Listens, Closed
    <3>3. Told(stream[s], handler, messages)
      BY DEF ThreadsInv, CountsAgain
    <3>4. QED
      BY <3>1, <3>2, <3>3, <1>10 DEF Told
  <2>3. QED
    BY <2>1, <2>2
<1>12. CountsAgain'
  BY <1>11 DEF CountsAgain
<1>13. MarksTheShown'
  <2>1. \A g \in Handlers : handler'[g].at = "mark" => handler'[g] = handler[g]
    BY <1>1, <1>2 DEF ThreadsTypeOK, Free
  <2>2. QED
    BY <2>1, <1>2 DEF ThreadsInv, MarksTheShown
<1>14. ReadMeansShown'
  BY <1>2 DEF ThreadsInv, ReadMeansShown
<1>15. QED
  BY <1>9, <1>12, <1>13, <1>14 DEF ThreadsInv

LEMMA Sending ==
  ASSUME ThreadsInv, NEW h \in Handlers, NEW u \in Users, NEW other \in Users, Send(h, u, other)
  PROVE  ThreadsInv'
<1> DEFINE n == Len(messages) + 1
           m == [from |-> u, to |-> other, read |-> FALSE]
           j == [at |-> "notify", user |-> other, other |-> u]
<1>1. ThreadsTypeOK /\ h \in DOMAIN handler /\ handler[h] = Free /\ u # other
  BY DEF ThreadsInv, ThreadsTypeOK, Send
<1>2. messages' = Append(messages, m) /\ handler' = [handler EXCEPT ![h] = j]
  BY DEF Send
<1>3. UNCHANGED <<stream, shown>> /\ overtaken \subseteq overtaken'
  BY DEF Send
<1>4. m \in Messages /\ j \in Jobs
  BY DEF Messages, Jobs
<1>5. ThreadsTypeOK'
  BY <1>1, <1>2, <1>3, <1>4 DEF ThreadsTypeOK
<1>6. /\ DOMAIN messages' = DOMAIN messages \cup {n} /\ n \notin DOMAIN messages
      /\ messages'[n] = m /\ \A i \in DOMAIN messages : messages'[i] = messages[i]
  BY <1>1, <1>2 DEF ThreadsTypeOK
<1>7. handler'[h] = j /\ \A g \in Handlers : g # h => handler'[g] = handler[g]
  BY <1>1, <1>2 DEF ThreadsTypeOK
<1>8. m.to = other /\ m.from = u /\ m.read = FALSE /\ j.at = "notify" /\ j.user = other /\ handler[h].at = "free"
  BY <1>1 DEF Free
<1> HIDE DEF m, j, n
<1>9. \A v : v # other => UnreadIn(messages', v) = UnreadIn(messages, v)
  BY <1>6, <1>8, SameUnread
<1>10. OwedBy(handler', other) /\ \A v : OwedBy(handler, v) => OwedBy(handler', v)
  BY <1>7, <1>8 DEF OwedBy
<1>11. \A s \in Streams : Told(stream[s], handler, messages) => Told(stream[s], handler', messages')
  BY <1>9, <1>10 DEF Told
<1>12. CountsAgain'
  BY <1>3, <1>11 DEF ThreadsInv, CountsAgain
<1>13. MarksTheShown'
  <2> SUFFICES ASSUME NEW g \in Handlers, handler'[g].at = "mark", NEW i \in DOMAIN messages',
                      InThread(messages'[i], handler'[g].user, handler'[g].other)
               PROVE  i \in shown' \cup overtaken'
    BY Zenon DEF MarksTheShown
  <2>1. g # h /\ handler'[g] = handler[g]
    BY <1>7, <1>8
  <2>2. CASE i = n
    <3>1. Reading(g, other, u)
      BY <2>1, <2>2, <1>6, <1>8 DEF InThread, Reading
    <3>2. overtaken' = overtaken \cup {n}
      BY <3>1 DEF Send, n
    <3>3. QED
      BY <3>2, <2>2
  <2>3. CASE i # n
    BY <2>1, <2>3, <1>3, <1>6 DEF ThreadsInv, MarksTheShown
  <2>4. QED
    BY <2>2, <2>3
<1>14. ReadMeansShown'
  BY <1>3, <1>6, <1>8 DEF ThreadsInv, ReadMeansShown
<1>15. QED
  BY <1>5, <1>12, <1>13, <1>14 DEF ThreadsInv

LEMMA Reads ==
  ASSUME ThreadsInv, NEW h \in Handlers, NEW u \in Users, NEW other \in Users, ReadThread(h, u, other)
  PROVE  ThreadsInv'
<1> DEFINE j == [at |-> "mark", user |-> u, other |-> other]
<1>1. ThreadsTypeOK /\ h \in DOMAIN handler /\ handler[h] = Free
  BY DEF ThreadsInv, ThreadsTypeOK, ReadThread
<1>2. /\ handler' = [handler EXCEPT ![h] = j] /\ UNCHANGED <<messages, stream, overtaken>>
      /\ shown' = shown \cup {i \in DOMAIN messages : InThread(messages[i], u, other)}
  BY DEF ReadThread, Between, InThread
<1>3. ThreadsTypeOK'
  BY <1>1, <1>2 DEF ThreadsTypeOK, Jobs
<1>4. handler'[h] = j /\ j.at = "mark" /\ \A g \in Handlers : g # h => handler'[g] = handler[g]
  BY <1>1, <1>2 DEF ThreadsTypeOK
<1>5. \A v : OwedBy(handler, v) => OwedBy(handler', v)
  BY <1>1, <1>4 DEF OwedBy, Free
<1>6. \A s \in Streams : Told(stream[s], handler, messages) => Told(stream[s], handler', messages)
  BY <1>5 DEF Told
<1>7. CountsAgain'
  BY <1>2, <1>6 DEF ThreadsInv, CountsAgain
<1>8. MarksTheShown'
  <2> SUFFICES ASSUME NEW g \in Handlers, handler'[g].at = "mark", NEW i \in DOMAIN messages,
                      InThread(messages[i], handler'[g].user, handler'[g].other)
               PROVE  i \in shown' \cup overtaken
    BY <1>2, Zenon DEF MarksTheShown
  <2>1. CASE g = h
    BY <2>1, <1>2, <1>4
  <2>2. CASE g # h
    BY <2>2, <1>2, <1>4 DEF ThreadsInv, MarksTheShown
  <2>3. QED
    BY <2>1, <2>2
<1>9. ReadMeansShown'
  BY <1>2 DEF ThreadsInv, ReadMeansShown
<1>10. QED
  BY <1>3, <1>7, <1>8, <1>9 DEF ThreadsInv

LEMMA Marking ==
  ASSUME ThreadsInv, NEW h \in Handlers, MarkRead(h)
  PROVE  ThreadsInv'
<1> DEFINE u == handler[h].user
           Seen(m) == [m EXCEPT !.read = TRUE]
           done == [handler[h] EXCEPT !.at = "notify"]
<1>1. ThreadsTypeOK /\ h \in DOMAIN handler /\ handler[h] \in Jobs /\ handler[h].at = "mark"
  BY DEF ThreadsInv, ThreadsTypeOK, MarkRead, Free
<1>2. /\ messages' = [i \in DOMAIN messages |-> IF i \in Marks(h) THEN Seen(messages[i]) ELSE messages[i]]
      /\ UNCHANGED <<stream, shown, overtaken>>
  BY Zenon DEF MarkRead, noted
<1>3. handler' = [handler EXCEPT ![h] = IF Marks(h) # {} THEN done ELSE Free]
  BY DEF MarkRead
<1>4. handler'[h] = (IF Marks(h) # {} THEN done ELSE Free)
      /\ \A g \in Handlers : g # h => handler'[g] = handler[g]
  BY <1>1, <1>3 DEF ThreadsTypeOK
<1>5. done \in Jobs /\ done.at = "notify" /\ done.user = u
  BY <1>1 DEF Jobs
<1>6. \A m \in Messages : /\ Seen(m) \in Messages /\ Seen(m).to = m.to
                          /\ Seen(m).from = m.from /\ Seen(m).read = TRUE
  BY DEF Messages
<1> HIDE DEF Seen, done
<1>7. \A i \in DOMAIN messages : messages[i] \in Messages
  BY <1>1 DEF ThreadsTypeOK
<1>8. DOMAIN messages' = DOMAIN messages /\ \A i \in DOMAIN messages :
        messages'[i] = IF i \in Marks(h) THEN Seen(messages[i]) ELSE messages[i]
  BY <1>2, Zenon
<1>9. \A i \in DOMAIN messages :
        /\ messages'[i] \in Messages /\ messages'[i].to = messages[i].to
        /\ messages'[i].from = messages[i].from
        /\ i \notin Marks(h) => messages'[i] = messages[i]
  BY <1>6, <1>7, <1>8
<1>10. ThreadsTypeOK'
  <2>1. DOMAIN messages = 1..Len(messages) /\ Len(messages) \in Nat
    BY <1>1 DEF ThreadsTypeOK
  <2>2. messages' \in [1..Len(messages) -> Messages]
    BY <1>2, <1>9, <2>1
  <2>3. messages' \in Seq(Messages)
    BY <2>1, <2>2
  <2>4. handler' \in [Handlers -> {Free} \cup Jobs]
    BY <1>1, <1>3, <1>5 DEF ThreadsTypeOK
  <2>5. QED
    BY <2>3, <2>4, <1>1, <1>2 DEF ThreadsTypeOK
<1>11. ASSUME NEW v, v # u \/ Marks(h) = {}
       PROVE  UnreadIn(messages', v) = UnreadIn(messages, v)
  <2>1. \A i \in Marks(h) : i \in DOMAIN messages /\ messages[i].to = u
    BY DEF Marks, Between
  <2>2. \A i \in DOMAIN messages : messages'[i] # messages[i] => messages'[i].to # v /\ messages[i].to # v
    BY <2>1, <1>9, <1>11
  <2>3. QED
    BY <2>2, <1>8, SameUnread
<1>12. \A v : OwedBy(handler, v) => OwedBy(handler', v)
  BY <1>1, <1>4 DEF OwedBy
<1>13. Marks(h) # {} => OwedBy(handler', u)
  BY <1>4, <1>5 DEF OwedBy
<1>14. \A s \in Streams : Told(stream[s], handler, messages) => Told(stream[s], handler', messages')
  BY <1>11, <1>12, <1>13 DEF Told
<1>15. CountsAgain'
  BY <1>2, <1>14 DEF ThreadsInv, CountsAgain
<1>16. MarksTheShown'
  <2>1. \A g \in Handlers : handler'[g].at = "mark" => handler'[g] = handler[g]
    BY <1>4, <1>5 DEF Free
  <2>2. QED
    BY <2>1, <1>2, <1>8, <1>9 DEF ThreadsInv, MarksTheShown, InThread
<1>17. ReadMeansShown'
  <2>1. \A i \in Marks(h) : i \in shown \cup overtaken
    BY <1>1 DEF ThreadsInv, MarksTheShown, Marks, Between, InThread
  <2>2. QED
    BY <2>1, <1>2, <1>8, <1>9 DEF ThreadsInv, ReadMeansShown
<1>18. QED
  BY <1>10, <1>15, <1>16, <1>17 DEF ThreadsInv

LEMMA FailsToMark ==
  ASSUME ThreadsInv, NEW h \in Handlers, MarkFails(h)
  PROVE  ThreadsInv'
<1>1. /\ ThreadsTypeOK /\ handler' = [handler EXCEPT ![h] = Free] /\ handler[h].at = "mark"
      /\ UNCHANGED <<messages, stream, shown, overtaken>>
  BY DEF ThreadsInv, MarkFails, noted
<1>2. ThreadsTypeOK'
  BY <1>1 DEF ThreadsTypeOK
<1>3. \A g \in Handlers : handler'[g] = IF g = h THEN Free ELSE handler[g]
  BY <1>1 DEF ThreadsTypeOK
<1>4. \A v : OwedBy(handler, v) => OwedBy(handler', v)
  BY <1>1, <1>3 DEF OwedBy
<1>5. \A s \in Streams : Told(stream[s], handler, messages) => Told(stream[s], handler', messages)
  BY <1>4 DEF Told
<1>6. CountsAgain'
  BY <1>1, <1>5 DEF ThreadsInv, CountsAgain
<1>7. MarksTheShown' /\ ReadMeansShown'
  BY <1>1, <1>3 DEF ThreadsInv, MarksTheShown, ReadMeansShown, Free
<1>8. QED
  BY <1>2, <1>6, <1>7 DEF ThreadsInv

-----------------------------------------------------------------------------
(* However sends, readings and notifications of any number of users         *)
(* interleave, and however little room a stream's channel has: a badge that *)
(* waits shows the count as it is unless a request has yet to tell the hub, *)
(* and what is marked read was shown or came while it was being shown.      *)
THEOREM BadgesAreSound == ThreadsSpec => []BadgeSound
<1>1. ThreadsInit => ThreadsInv
  BY DEF ThreadsInit, ThreadsInv, ThreadsTypeOK, CountsAgain, Told, MarksTheShown, ReadMeansShown, Closed, Free
<1>2. ThreadsInv /\ [ThreadsNext]_threadsVars => ThreadsInv'
  <2> SUFFICES ASSUME ThreadsInv, [ThreadsNext]_threadsVars
               PROVE  ThreadsInv'
    OBVIOUS
  <2>1. CASE UNCHANGED threadsVars
    BY <2>1 DEF threadsVars, noted, ThreadsInv, ThreadsTypeOK, CountsAgain, MarksTheShown, ReadMeansShown
  <2>2. CASE ThreadsNext
    BY <2>2, StreamSteps, Notifying, Marking, FailsToMark, Sending, Reads, Zenon DEF ThreadsNext
  <2>3. QED
    BY <2>1, <2>2
<1>3. ThreadsInv => BadgeSound
  <2> SUFFICES ASSUME ThreadsInv
               PROVE  BadgeSound
    OBVIOUS
  <2>1. \A s \in Streams : stream[s].at = "wait" => stream[s] \in Badges /\ stream[s].pings \in Nat
    BY DEF ThreadsInv, ThreadsTypeOK, Badges, Closed
  <2>2. \A v : (Owed(v) <=> OwedBy(handler, v)) /\ Unread(v) = UnreadIn(messages, v)
    BY UnreadIsNat DEF ThreadsInv, Owed, OwedBy
  <2>3. BadgeFresh
    BY <2>1, <2>2 DEF ThreadsInv, CountsAgain, Told, BadgeFresh
  <2>4. QED
    BY <2>3 DEF ThreadsInv, BadgeSound
<1>4. QED
  BY <1>1, <1>2, <1>3, PTL DEF ThreadsSpec

-----------------------------------------------------------------------------
(***************************************************************************)
(* Sums over a finite set, as the community modules define them: a         *)
(* function on the subsets that takes an element the set chooses first     *)
(* (Adder).  That it exists, and that it depends neither on the order nor  *)
(* on more than the values added, is shown for the least subset for which  *)
(* it would fail (SmallestOf).                                             *)
(***************************************************************************)
FirstOf(s) == CHOOSE x \in s : TRUE
AddsUp(f, S, g) ==
  g = [s \in SUBSET S |-> IF s = {} THEN 0 ELSE f[FirstOf(s)] + g[s \ {FirstOf(s)}]]
Adder(f, S) == CHOOSE g : AddsUp(f, S, g)
Added(f, h, s) == IF s = {} THEN 0 ELSE f[FirstOf(s)] + h[s \ {FirstOf(s)}]

LEMMA SumIsAdder ==
  ASSUME NEW f, NEW S
  PROVE  SumFunctionOnSet(f, S) = Adder(f, S)[S]
BY Zenon DEF SumFunctionOnSet, FoldFunctionOnSet, MapThenFoldSet, Adder, AddsUp, FirstOf

(* Induction over the subsets of a finite set, as the least counterexample. *)
LEMMA SmallestOf ==
  ASSUME NEW S, IsFiniteSet(S), NEW B \in SUBSET (SUBSET S), B # {}
  PROVE  \E s \in B : \A t \in SUBSET s : t # s => t \notin B
<1>1. IsWellFoundedOn(StrictSubsetOrdering(S), SUBSET S)
  BY FS_StrictSubsetOrderingWellFounded, FS_FiniteSubsetsOfFinite
<1>2. \E x \in B : \A y \in B : ~ (<<y, x>> \in StrictSubsetOrdering(S))
  BY <1>1, WFMin
<1>3. PICK s \in B : \A y \in B : ~ (<<y, s>> \in StrictSubsetOrdering(S))
  BY <1>2
<1>4. \A t \in SUBSET s : t # s => t \notin B
  BY <1>3 DEF StrictSubsetOrdering
<1> QED BY <1>4

LEMMA FirstIsIn == ASSUME NEW s, s # {} PROVE FirstOf(s) \in s
BY DEF FirstOf

(* Up to the subsets of n elements there is a function that adds up.        *)
UpTo(S, n) == {s \in SUBSET S : Cardinality(s) <= n}
AddsUpTo(f, S, n, g) ==
  g = [s \in UpTo(S, n) |-> IF s = {} THEN 0 ELSE f[FirstOf(s)] + g[s \ {FirstOf(s)}]]

LEMMA AdderUpToExists ==
  ASSUME NEW f, NEW S, IsFiniteSet(S), NEW n \in Nat
  PROVE  \E g : AddsUpTo(f, S, n, g)
<1> DEFINE Bad == {m \in Nat : ~ \E g : AddsUpTo(f, S, m, g)}
<1> SUFFICES Bad = {} OBVIOUS
<1> SUFFICES ASSUME Bad # {} PROVE FALSE OBVIOUS
<1>1. \E x \in Bad : \A y \in Bad : ~ (<<y, x>> \in OpToRel(<, Nat))
  BY NatLessThanWellFounded, WFMin
<1>2. PICK m \in Bad : \A y \in Bad : ~ (<<y, m>> \in OpToRel(<, Nat))
  BY <1>1
<1>3. \A y \in Bad : ~(y < m)
  BY <1>2 DEF OpToRel
<1>4. \A s \in SUBSET S : IsFiniteSet(s) /\ Cardinality(s) \in Nat
  BY FS_Subset, FS_CardinalityType
<1>5. m # 0
  <2> DEFINE g == [s \in UpTo(S, 0) |-> 0]
  <2>1. \A s \in UpTo(S, 0) : s = {}
    BY <1>4, FS_EmptySet DEF UpTo
  <2>2. g = [s \in UpTo(S, 0) |-> IF s = {} THEN 0 ELSE f[FirstOf(s)] + g[s \ {FirstOf(s)}]]
    BY <2>1
  <2> QED BY <2>2 DEF AddsUpTo
<1>6. m - 1 \in Nat /\ m - 1 \notin Bad
  BY <1>3, <1>5
<1>7. PICK g : AddsUpTo(f, S, m - 1, g)
  BY <1>6
<1> DEFINE h == [s \in UpTo(S, m) |-> IF s = {} THEN 0 ELSE f[FirstOf(s)] + g[s \ {FirstOf(s)}]]
<1>8. ASSUME NEW s \in UpTo(S, m), s # {}
      PROVE  s \ {FirstOf(s)} \in UpTo(S, m - 1) /\ s \ {FirstOf(s)} \in UpTo(S, m)
  <2>1. FirstOf(s) \in s BY <1>8, FirstIsIn
  <2>2. s \in SUBSET S /\ Cardinality(s) <= m BY DEF UpTo
  <2>3. Cardinality(s \ {FirstOf(s)}) = Cardinality(s) - 1
    BY <1>4, <2>1, <2>2, FS_RemoveElement
  <2> QED BY <1>4, <2>2, <2>3 DEF UpTo
<1>9. ASSUME NEW s \in UpTo(S, m), s # {}
      PROVE  h[s \ {FirstOf(s)}] = g[s \ {FirstOf(s)}]
  <2> DEFINE t == s \ {FirstOf(s)}
  <2>1. t \in UpTo(S, m - 1) /\ t \in UpTo(S, m) BY <1>8, <1>9
  <2>2. h[t] = IF t = {} THEN 0 ELSE f[FirstOf(t)] + g[t \ {FirstOf(t)}] BY <2>1
  <2>3. g[t] = IF t = {} THEN 0 ELSE f[FirstOf(t)] + g[t \ {FirstOf(t)}]
    BY <1>7, <2>1, Zenon DEF AddsUpTo
  <2> QED BY <2>2, <2>3
<1>10. h = [s \in UpTo(S, m) |-> IF s = {} THEN 0 ELSE f[FirstOf(s)] + h[s \ {FirstOf(s)}]]
  BY <1>9
<1>11. AddsUpTo(f, S, m, h) BY <1>10 DEF AddsUpTo
<1> QED BY <1>2, <1>11

LEMMA AdderAddsUp ==
  ASSUME NEW f, NEW S, IsFiniteSet(S)
  PROVE  AddsUp(f, S, Adder(f, S))
<1>1. Cardinality(S) \in Nat /\ \A s \in SUBSET S : Cardinality(s) <= Cardinality(S)
  BY FS_Subset, FS_CardinalityType
<1>2. UpTo(S, Cardinality(S)) = SUBSET S
  BY <1>1 DEF UpTo
<1>3. PICK g : AddsUpTo(f, S, Cardinality(S), g)
  BY <1>1, AdderUpToExists
<1>4. AddsUp(f, S, g)
  BY <1>2, <1>3, Zenon DEF AddsUp, AddsUpTo
<1> QED BY <1>4, Zenon DEF Adder

LEMMA AdderAt ==
  ASSUME NEW f, NEW S, IsFiniteSet(S), NEW s \in SUBSET S
  PROVE  Adder(f, S)[s] = Added(f, Adder(f, S), s)
<1>1. AddsUp(f, S, Adder(f, S)) BY AdderAddsUp
<1>2. ASSUME NEW g, AddsUp(f, S, g)
      PROVE  g[s] = Added(f, g, s)
  BY <1>2, Zenon DEF AddsUp, Added
<1> QED BY <1>1, <1>2, Zenon

(* What is added up depends on the values at the elements alone.            *)
LEMMA AddersAgree ==
  ASSUME NEW f, NEW g, NEW S, NEW T, IsFiniteSet(S), IsFiniteSet(T),
         NEW U \in SUBSET S, U \subseteq T, \A x \in U : f[x] = g[x]
  PROVE  Adder(f, S)[U] = Adder(g, T)[U]
<1> DEFINE Bad == {s \in SUBSET U : Adder(f, S)[s] # Adder(g, T)[s]}
<1> SUFFICES ASSUME Bad # {} PROVE FALSE OBVIOUS
<1>1. IsFiniteSet(U) BY FS_Subset
<1>2. \E s \in Bad : \A t \in SUBSET s : t # s => t \notin Bad
  <2>1. Bad \in SUBSET (SUBSET U) OBVIOUS
  <2> HIDE DEF Bad
  <2> QED BY <1>1, <2>1, SmallestOf
<1>3. PICK s \in Bad : \A t \in SUBSET s : t # s => t \notin Bad
  BY <1>2
<1>4. s \in SUBSET S /\ s \in SUBSET T /\ s \in SUBSET U OBVIOUS
<1>5. /\ Adder(f, S)[s] = Added(f, Adder(f, S), s)
      /\ Adder(g, T)[s] = Added(g, Adder(g, T), s)
  BY <1>4, AdderAt
<1>6. s # {} BY <1>5 DEF Added
<1>7. FirstOf(s) \in s BY <1>6, FirstIsIn
<1>8. s \ {FirstOf(s)} \in SUBSET s /\ s \ {FirstOf(s)} # s BY <1>7
<1>9. Adder(f, S)[s \ {FirstOf(s)}] = Adder(g, T)[s \ {FirstOf(s)}] BY <1>3, <1>4, <1>8
<1>10. f[FirstOf(s)] = g[FirstOf(s)] BY <1>4, <1>7
<1> QED BY <1>5, <1>6, <1>9, <1>10 DEF Added

-----------------------------------------------------------------------------
(* The facts about sums that the rest needs.                               *)
Adds(f, S) == IsFiniteSet(S) /\ \A x \in S : f[x] \in Int

LEMMA SumOfNone ==
  ASSUME NEW f
  PROVE  SumFunctionOnSet(f, {}) = 0
BY SumIsAdder, AdderAt, FS_EmptySet DEF Added

LEMMA SumsAgree ==
  ASSUME NEW f, NEW g, NEW S, IsFiniteSet(S), \A x \in S : f[x] = g[x]
  PROVE  SumFunctionOnSet(f, S) = SumFunctionOnSet(g, S)
BY SumIsAdder, AddersAgree

LEMMA AdderInts ==
  ASSUME NEW f, NEW S, Adds(f, S), NEW T \in SUBSET S
  PROVE  Adder(f, S)[T] \in Int
<1> DEFINE Bad == {s \in SUBSET S : Adder(f, S)[s] \notin Int}
<1> SUFFICES ASSUME Bad # {} PROVE FALSE OBVIOUS
<1>1. IsFiniteSet(S) BY DEF Adds
<1>2. \E s \in Bad : \A t \in SUBSET s : t # s => t \notin Bad
  <2>1. Bad \in SUBSET (SUBSET S) OBVIOUS
  <2> HIDE DEF Bad
  <2> QED BY <1>1, <2>1, SmallestOf
<1>3. PICK s \in Bad : \A t \in SUBSET s : t # s => t \notin Bad
  BY <1>2
<1>4. s \in SUBSET S OBVIOUS
<1>5. Adder(f, S)[s] = Added(f, Adder(f, S), s)
  BY <1>1, <1>4, AdderAt
<1>6. s # {} BY <1>5 DEF Added
<1>7. FirstOf(s) \in s BY <1>6, FirstIsIn
<1>8. s \ {FirstOf(s)} \in SUBSET s /\ s \ {FirstOf(s)} # s BY <1>7
<1>9. Adder(f, S)[s \ {FirstOf(s)}] \in Int BY <1>3, <1>8
<1>10. f[FirstOf(s)] \in Int BY <1>7 DEF Adds
<1> QED BY <1>5, <1>6, <1>9, <1>10 DEF Added

(* The element taken first does not matter.                                 *)
LEMMA AdderSplits ==
  ASSUME NEW f, NEW S, Adds(f, S), NEW T \in SUBSET S, NEW x \in T
  PROVE  Adder(f, S)[T] = f[x] + Adder(f, S)[T \ {x}]
<1> DEFINE g == Adder(f, S)
<1> DEFINE Bad == {s \in SUBSET S : \E y \in s : g[s] # f[y] + g[s \ {y}]}
<1> SUFFICES ASSUME Bad # {} PROVE FALSE OBVIOUS
<1>1. IsFiniteSet(S) BY DEF Adds
<1>2. \E s \in Bad : \A t \in SUBSET s : t # s => t \notin Bad
  <2>1. Bad \in SUBSET (SUBSET S) OBVIOUS
  <2> HIDE DEF Bad
  <2> QED BY <1>1, <2>1, SmallestOf
<1>3. PICK s \in Bad : \A t \in SUBSET s : t # s => t \notin Bad
  BY <1>2
<1>4. PICK y \in s : g[s] # f[y] + g[s \ {y}] OBVIOUS
<1> DEFINE z == FirstOf(s)
<1>5. z \in s BY FirstIsIn, <1>4
<1>6. g[s] = f[z] + g[s \ {z}]
  BY <1>1, <1>4, AdderAt DEF Added
<1> HIDE DEF z
<1>7. z # y BY <1>4, <1>6
<1>8. \A t \in SUBSET S : g[t] \in Int BY AdderInts
<1>9. \A v \in S : f[v] \in Int BY DEF Adds
<1>10. \A t \in SUBSET s : t # s => \A v \in t : g[t] = f[v] + g[t \ {v}]
  BY <1>3
<1>11. g[s \ {z}] = f[y] + g[(s \ {z}) \ {y}]
  <2>1. s \ {z} \in SUBSET s /\ s \ {z} # s /\ y \in s \ {z} BY <1>5, <1>7
  <2> HIDE DEF g
  <2> QED BY <1>10, <2>1
<1>12. g[s \ {y}] = f[z] + g[(s \ {y}) \ {z}]
  <2>1. s \ {y} \in SUBSET s /\ s \ {y} # s /\ z \in s \ {y} BY <1>5, <1>7
  <2> HIDE DEF g
  <2> QED BY <1>10, <2>1
<1>13. (s \ {z}) \ {y} = (s \ {y}) \ {z} OBVIOUS
<1>14. s \in SUBSET S /\ (s \ {y}) \ {z} \in SUBSET S OBVIOUS
<1> HIDE DEF g
<1>15. f[z] \in Int /\ f[y] \in Int /\ g[(s \ {y}) \ {z}] \in Int
  BY <1>5, <1>8, <1>9, <1>14
<1>16. g[s] = f[y] + g[s \ {y}]
  <2>1. g[s] = f[z] + (f[y] + g[(s \ {y}) \ {z}]) BY <1>6, <1>11, <1>13
  <2> QED BY <2>1, <1>12, <1>15
<1> QED BY <1>4, <1>16

LEMMA SumIsInt ==
  ASSUME NEW f, NEW S, Adds(f, S)
  PROVE  SumFunctionOnSet(f, S) \in Int
BY SumIsAdder, AdderInts

LEMMA SumWithout ==
  ASSUME NEW f, NEW S, Adds(f, S), NEW x \in S
  PROVE  SumFunctionOnSet(f, S) = f[x] + SumFunctionOnSet(f, S \ {x})
<1>1. IsFiniteSet(S) /\ IsFiniteSet(S \ {x}) BY FS_RemoveElement DEF Adds
<1>2. Adder(f, S)[S] = f[x] + Adder(f, S)[S \ {x}] BY AdderSplits
<1>3. Adder(f, S)[S \ {x}] = Adder(f, S \ {x})[S \ {x}] BY <1>1, AddersAgree
<1> QED BY <1>2, <1>3, SumIsAdder

LEMMA SumOfOneMore ==
  ASSUME NEW f, NEW S, Adds(f, S), NEW x, x \notin S, f[x] \in Int
  PROVE  SumFunctionOnSet(f, S \cup {x}) = f[x] + SumFunctionOnSet(f, S)
<1>1. Adds(f, S \cup {x}) BY FS_AddElement DEF Adds
<1>2. (S \cup {x}) \ {x} = S OBVIOUS
<1> QED BY <1>1, <1>2, SumWithout

(* One value changes.                                                      *)
LEMMA SumChanges ==
  ASSUME NEW f, NEW g, NEW S, Adds(f, S), Adds(g, S), NEW x \in S,
         \A y \in S \ {x} : f[y] = g[y]
  PROVE  SumFunctionOnSet(f, S) + g[x] = SumFunctionOnSet(g, S) + f[x]
<1>1. /\ SumFunctionOnSet(f, S) = f[x] + SumFunctionOnSet(f, S \ {x})
      /\ SumFunctionOnSet(g, S) = g[x] + SumFunctionOnSet(g, S \ {x})
  BY SumWithout
<1>2. Adds(f, S \ {x}) /\ IsFiniteSet(S \ {x}) BY FS_RemoveElement DEF Adds
<1>3. SumFunctionOnSet(f, S \ {x}) = SumFunctionOnSet(g, S \ {x})
  BY <1>2, SumsAgree
<1>4. SumFunctionOnSet(f, S \ {x}) \in Int BY <1>2, SumIsInt
<1> QED BY <1>1, <1>3, <1>4 DEF Adds

(* The sum over a part and over the rest.                                   *)
LEMMA SumOfParts ==
  ASSUME NEW f, NEW S, Adds(f, S), NEW T \in SUBSET S
  PROVE  SumFunctionOnSet(f, S) = SumFunctionOnSet(f, T) + SumFunctionOnSet(f, S \ T)
<1> DEFINE Sum(U) == SumFunctionOnSet(f, U)
<1> DEFINE Bad == {U \in SUBSET S : Sum(S) # Sum(U) + Sum(S \ U)}
<1> SUFFICES ASSUME Bad # {} PROVE FALSE OBVIOUS
<1>1. IsFiniteSet(S) BY DEF Adds
<1>2. \E U \in Bad : \A V \in SUBSET U : V # U => V \notin Bad
  <2>1. Bad \in SUBSET (SUBSET S) OBVIOUS
  <2> HIDE DEF Bad
  <2> QED BY <1>1, <2>1, SmallestOf
<1>3. PICK U \in Bad : \A V \in SUBSET U : V # U => V \notin Bad
  BY <1>2
<1>4. \A V \in SUBSET S : Adds(f, V) /\ Sum(V) \in Int
  <2>1. \A V \in SUBSET S : Adds(f, V) BY <1>1, FS_Subset DEF Adds
  <2> QED BY <2>1, SumIsInt
<1>5. U # {}
  <2>1. S \ {} = S /\ Sum(S) \in Int /\ Sum({}) = 0 BY <1>4, SumOfNone
  <2>2. Sum(S) = Sum({}) + Sum(S \ {}) BY <2>1
  <2> HIDE DEF Sum
  <2> QED BY <2>2
<1>6. PICK x \in U : TRUE BY <1>5
<1> DEFINE V == U \ {x}
<1>7. Sum(S) = Sum(V) + Sum(S \ V) BY <1>3
<1>8. Sum(U) = f[x] + Sum(V) BY <1>4, SumWithout
<1>9. Sum(S \ V) = f[x] + Sum(S \ U)
  <2>1. x \in S \ V /\ (S \ V) \ {x} = S \ U /\ S \ V \in SUBSET S BY <1>6
  <2> QED BY <1>4, <2>1, SumWithout
<1>10. Sum(V) \in Int /\ Sum(S \ U) \in Int /\ f[x] \in Int
  BY <1>4 DEF Adds
<1>11. Sum(S) # Sum(U) + Sum(S \ U) OBVIOUS
<1> HIDE DEF Sum, V
<1> QED BY <1>7, <1>8, <1>9, <1>10, <1>11

LEMMA SumIsNat ==
  ASSUME NEW f, NEW S, IsFiniteSet(S), \A x \in S : f[x] \in Nat
  PROVE  SumFunctionOnSet(f, S) \in Nat
<1> DEFINE Bad == {U \in SUBSET S : SumFunctionOnSet(f, U) \notin Nat}
<1> SUFFICES ASSUME Bad # {} PROVE FALSE OBVIOUS
<1>2. \E U \in Bad : \A V \in SUBSET U : V # U => V \notin Bad
  <2>1. Bad \in SUBSET (SUBSET S) OBVIOUS
  <2> HIDE DEF Bad
  <2> QED BY <2>1, SmallestOf
<1>3. PICK U \in Bad : \A V \in SUBSET U : V # U => V \notin Bad
  BY <1>2
<1>5. U # {} BY SumOfNone
<1>6. PICK x \in U : TRUE BY <1>5
<1>7. Adds(f, U) BY FS_Subset DEF Adds
<1>8. SumFunctionOnSet(f, U) = f[x] + SumFunctionOnSet(f, U \ {x}) BY <1>7, SumWithout
<1>9. SumFunctionOnSet(f, U \ {x}) \in Nat BY <1>3
<1>10. f[x] \in Nat OBVIOUS
<1> QED BY <1>8, <1>9, <1>10

LEMMA SumOfZeros ==
  ASSUME NEW f, NEW S, IsFiniteSet(S), \A x \in S : f[x] = 0
  PROVE  SumFunctionOnSet(f, S) = 0
<1> DEFINE Bad == {U \in SUBSET S : SumFunctionOnSet(f, U) # 0}
<1> SUFFICES ASSUME Bad # {} PROVE FALSE OBVIOUS
<1>2. \E U \in Bad : \A V \in SUBSET U : V # U => V \notin Bad
  <2>1. Bad \in SUBSET (SUBSET S) OBVIOUS
  <2> HIDE DEF Bad
  <2> QED BY <2>1, SmallestOf
<1>3. PICK U \in Bad : \A V \in SUBSET U : V # U => V \notin Bad
  BY <1>2
<1>5. U # {} BY SumOfNone
<1>6. PICK x \in U : TRUE BY <1>5
<1>7. Adds(f, U) BY FS_Subset DEF Adds
<1>8. SumFunctionOnSet(f, U) = f[x] + SumFunctionOnSet(f, U \ {x}) BY <1>7, SumWithout
<1>9. SumFunctionOnSet(f, U \ {x}) = 0 BY <1>3
<1> QED BY <1>8, <1>9

(* n values, none above m.                                                  *)
LEMMA SumIsBounded ==
  ASSUME NEW f, NEW S, IsFiniteSet(S), NEW m \in Nat, \A x \in S : f[x] \in Int /\ f[x] <= m
  PROVE  SumFunctionOnSet(f, S) <= Cardinality(S) * m
<1> DEFINE Good(U) == SumFunctionOnSet(f, U) <= Cardinality(U) * m
<1> DEFINE Bad == {U \in SUBSET S : ~Good(U)}
<1> SUFFICES ASSUME Bad # {} PROVE FALSE OBVIOUS
<1>2. \E U \in Bad : \A V \in SUBSET U : V # U => V \notin Bad
  <2>1. Bad \in SUBSET (SUBSET S) OBVIOUS
  <2> HIDE DEF Bad
  <2> QED BY <2>1, SmallestOf
<1>3. PICK U \in Bad : \A V \in SUBSET U : V # U => V \notin Bad
  BY <1>2
<1>5. U # {} BY SumOfNone, FS_EmptySet
<1>6. PICK x \in U : TRUE BY <1>5
<1>7. Adds(f, U) /\ Adds(f, U \ {x}) /\ IsFiniteSet(U) BY FS_Subset, FS_RemoveElement DEF Adds
<1>8. SumFunctionOnSet(f, U) = f[x] + SumFunctionOnSet(f, U \ {x}) BY <1>7, SumWithout
<1>9. SumFunctionOnSet(f, U \ {x}) \in Int BY <1>7, SumIsInt
<1>10. Cardinality(U \ {x}) = Cardinality(U) - 1 /\ Cardinality(U) \in Nat
  BY <1>7, FS_RemoveElement, FS_CardinalityType
<1>11. SumFunctionOnSet(f, U \ {x}) <= Cardinality(U \ {x}) * m BY <1>3
<1>12. f[x] \in Int /\ f[x] <= m OBVIOUS
<1>13. SumFunctionOnSet(f, U) <= (Cardinality(U) - 1) * m + m
  <2>1. \A n \in Nat, a, b \in Int : a <= m /\ b <= (n - 1) * m => a + b <= (n - 1) * m + m
    OBVIOUS
  <2> QED BY <1>8, <1>9, <1>10, <1>11, <1>12, <2>1
<1>14. \A n \in Nat : (n - 1) * m + m = n * m OBVIOUS
<1>15. ~Good(U) OBVIOUS
<1> QED BY <1>10, <1>13, <1>14, <1>15

-----------------------------------------------------------------------------
(***************************************************************************)
(* UnitsConserved of a calm behaviour, for any products and requests.  A   *)
(* step moves one request, and what it takes from one place it puts in     *)
(* another (OneMoves); a payment is open as long as the request that made  *)
(* it has not heard from the provider, and no other request knows it.      *)
(***************************************************************************)
Items == [Products -> Nat]
AtProvider == {"charging", "declined", "updating"}
Places == {"idle", "adding", "pricing", "leaving", "checking", "recording", "restoring"} \cup AtProvider
Checkouts ==
  [at : Places, direct : BOOLEAN, buying : Items, back : Items, mixed : BOOLEAN, payment : Nat]
Payments == [items : Items, status : {"pending", "failed"}, charged : BOOLEAN]

Units(c, p) == c.back[p] + (IF c.payment = 0 THEN c.buying[p] ELSE 0)

Tidy(c, ps) ==
  /\ c.at \in AtProvider =>
       /\ c.payment \in DOMAIN ps /\ c.back = Nothing
       /\ ps[c.payment].status = "pending" /\ ps[c.payment].items = c.buying
  /\ c.at \notin AtProvider \cup {"restoring"} => c.payment = 0
  /\ c.at \in {"idle", "pricing", "checking", "recording"} => c.back = Nothing
  /\ c.at \in {"idle", "adding", "restoring"} => c.buying = Nothing

ShopTypes ==
  /\ cart \in Items /\ owed \in [Products -> Int]
  /\ checkout \in [Requests -> Checkouts]
  /\ \E n \in Nat : payments \in [1..n -> Payments]

OwnPayments ==
  \A q, r \in Requests :
    checkout[q].at \in AtProvider /\ checkout[r].at \in AtProvider
      /\ checkout[q].payment = checkout[r].payment => q = r

ShopInv ==
  /\ ShopTypes /\ OwnPayments /\ UnitsConserved
  /\ \A r \in Requests : Tidy(checkout[r], payments)

LEMMA ItemsAre ==
  /\ Nothing \in Items
  /\ \A x, y \in Items : Plus(x, y) \in Items
  /\ \A p \in Products, n \in Nat : Only(p, n) \in Items
  /\ \A x \in Items, S \in SUBSET Products :
       Within(x, S) \in Items /\ Less(x, Within(x, S)) \in Items
BY DEF Items, Nothing, Plus, Only, Within, Less

LEMMA HeldAreInts ==
  ASSUME ShopTypes, NEW p \in Products
  PROVE  Adds([r \in Requests |-> Held(r, p)], Requests)
BY ShopAssumption DEF ShopTypes, Held, Checkouts, Items, Adds

LEMMA HeldIsInt ==
  ASSUME ShopTypes, NEW p \in Products
  PROVE  HeldUnits(p) \in Int
<1>1. HeldUnits(p) = SumFunctionOnSet([r \in Requests |-> Held(r, p)], Requests)
  BY DEF HeldUnits, SumFunction
<1> QED BY <1>1, HeldAreInts, SumIsInt

LEMMA OpenAreInts ==
  ASSUME ShopTypes, NEW p \in Products
  PROVE  Adds([i \in Open |-> payments[i].items[p]], Open)
<1>1. PICK n \in Nat : payments \in [1..n -> Payments] BY DEF ShopTypes
<1>2. Open \in SUBSET (1..n) BY <1>1 DEF Open
<1>3. IsFiniteSet(Open)
  <2>1. IsFiniteSet(1..n) BY FS_Interval
  <2> QED BY <1>2, <2>1, FS_Subset
<1>4. \A i \in Open : payments[i].items[p] \in Int BY <1>1, <1>2 DEF Payments, Items
<1> QED BY <1>3, <1>4 DEF Adds

LEMMA OpenIsInt ==
  ASSUME ShopTypes, NEW p \in Products
  PROVE  OpenUnits(p) \in Int
<1>1. OpenUnits(p) = SumFunctionOnSet([i \in Open |-> payments[i].items[p]], Open)
  BY DEF OpenUnits, SumFunction
<1> QED BY <1>1, OpenAreInts, SumIsInt

LEMMA OneMoves ==
  ASSUME ShopTypes, ShopTypes', NEW r \in Requests, NEW c \in Checkouts, Moves(r, c),
         NEW p \in Products
  PROVE  /\ HeldUnits(p)' + Units(checkout[r], p) = HeldUnits(p) + Units(c, p)
         /\ HeldUnits(p)' \in Int
<1> DEFINE f == [q \in Requests |-> Held(q, p)]
<1> DEFINE g == [q \in Requests |-> Held(q, p)']
<1>1. HeldUnits(p) = SumFunctionOnSet(f, Requests) /\ HeldUnits(p)' = SumFunctionOnSet(g, Requests)
  BY DEF HeldUnits, SumFunction
<1>2. Adds(f, Requests) BY HeldAreInts
<1>3. checkout' = [checkout EXCEPT ![r] = c] /\ checkout \in [Requests -> Checkouts]
  BY DEF Moves, ShopTypes
<1>4. \A q \in Requests : g[q] = IF q = r THEN Units(c, p) ELSE f[q]
  BY <1>3 DEF Held, Units
<1>5. Units(c, p) \in Int BY DEF Units, Checkouts, Items
<1>6. Adds(g, Requests) BY <1>2, <1>4, <1>5 DEF Adds
<1>7. f[r] = Units(checkout[r], p) BY DEF Held, Units
<1>8. g[r] = Units(c, p) BY <1>4
<1>9. \A q \in Requests \ {r} : f[q] = g[q] BY <1>4
<1> HIDE DEF f, g
<1>10. SumFunctionOnSet(f, Requests) + g[r] = SumFunctionOnSet(g, Requests) + f[r]
  BY <1>2, <1>6, <1>9, SumChanges
<1>11. SumFunctionOnSet(g, Requests) \in Int BY <1>6, SumIsInt
<1> QED BY <1>1, <1>7, <1>8, <1>10, <1>11

SamePayments(ps, qs) ==
  /\ DOMAIN qs = DOMAIN ps
  /\ \A i \in DOMAIN ps : qs[i].status = ps[i].status /\ qs[i].items = ps[i].items

LEMMA OpenStays ==
  ASSUME ShopTypes, SamePayments(payments, payments'), NEW p \in Products
  PROVE  OpenUnits(p)' = OpenUnits(p)
<1> DEFINE f == [i \in Open |-> payments[i].items[p]]
<1> DEFINE g == [i \in Open' |-> payments'[i].items[p]]
<1>1. OpenUnits(p) = SumFunctionOnSet(f, Open) /\ OpenUnits(p)' = SumFunctionOnSet(g, Open')
  BY DEF OpenUnits, SumFunction
<1>2. Open' = Open BY DEF Open, SamePayments
<1>3. f = g BY <1>2 DEF Open, SamePayments
<1> QED BY <1>1, <1>2, <1>3

(* A step of one request that neither opens nor closes a payment.           *)
LEMMA Ordinary ==
  ASSUME ShopInv, NEW r \in Requests, NEW c \in Checkouts, Moves(r, c),
         cart' \in Items, owed' \in [Products -> Int], \E n \in Nat : payments' \in [1..n -> Payments],
         SamePayments(payments, payments'), Tidy(c, payments),
         c.at \in AtProvider => checkout[r].at \in AtProvider /\ c.payment = checkout[r].payment,
         \A p \in Products : owed'[p] + cart[p] + Units(checkout[r], p) = owed[p] + cart'[p] + Units(c, p)
  PROVE  ShopInv'
<1>1. checkout' = [checkout EXCEPT ![r] = c] /\ checkout \in [Requests -> Checkouts]
  BY DEF Moves, ShopInv, ShopTypes
<1>0. ShopTypes' BY <1>1 DEF ShopTypes
<1>2. OwnPayments' BY <1>1 DEF ShopInv, OwnPayments
<1>3. ASSUME NEW q \in Requests PROVE Tidy(checkout[q], payments)'
  <2>1. Tidy(checkout'[q], payments) BY <1>1 DEF ShopInv
  <2> QED BY <2>1 DEF Tidy, SamePayments
<1>4. ASSUME NEW p \in Products
      PROVE  owed'[p] = cart'[p] + HeldUnits(p)' + OpenUnits(p)'
  <2>1. ShopTypes BY DEF ShopInv
  <2>2. HeldUnits(p)' + Units(checkout[r], p) = HeldUnits(p) + Units(c, p) BY <1>0, <2>1, OneMoves
  <2>3. OpenUnits(p)' = OpenUnits(p) BY <2>1, OpenStays
  <2>4. HeldUnits(p) \in Int /\ OpenUnits(p) \in Int BY <2>1, HeldIsInt, OpenIsInt
  <2>5. HeldUnits(p)' \in Int BY <1>0, <2>1, OneMoves
  <2>6. Units(checkout[r], p) \in Int /\ Units(c, p) \in Int
    BY <1>1 DEF Units, Checkouts, Items
  <2>7. owed[p] = cart[p] + HeldUnits(p) + OpenUnits(p) BY DEF ShopInv, UnitsConserved
  <2>8. owed'[p] + cart[p] + Units(checkout[r], p) = owed[p] + cart'[p] + Units(c, p) OBVIOUS
  <2>9. cart[p] \in Int /\ cart'[p] \in Int /\ owed[p] \in Int /\ owed'[p] \in Int
    BY <1>0, <2>1 DEF ShopTypes, Items
  <2> DEFINE a == owed[p]  b == cart[p]  h == HeldUnits(p)  o == OpenUnits(p)
             a2 == owed'[p]  b2 == cart'[p]  h2 == HeldUnits(p)'
             u == Units(checkout[r], p)  v == Units(c, p)
  <2>10. /\ a \in Int /\ b \in Int /\ h \in Int /\ o \in Int /\ a2 \in Int /\ b2 \in Int
         /\ h2 \in Int /\ u \in Int /\ v \in Int
    BY <2>4, <2>5, <2>6, <2>9
  <2>11. a = b + h + o BY <2>7
  <2>12. h2 + u = h + v BY <2>2
  <2>13. a2 + b + u = a + b2 + v BY <2>8
  <2> HIDE DEF a, b, h, o, a2, b2, h2, u, v
  <2>14. a2 = b2 + h2 + o BY <2>10, <2>11, <2>12, <2>13
  <2> QED BY <2>3, <2>14 DEF a2, b2, h2, o
<1> QED BY <1>0, <1>2, <1>3, <1>4 DEF ShopInv, UnitsConserved

(* The same, of a step that leaves payments alone.                          *)
LEMMA Plain ==
  ASSUME ShopInv, NEW r \in Requests, NEW c \in Checkouts, Moves(r, c), UNCHANGED payments,
         cart' \in Items, owed' \in [Products -> Int], Tidy(c, payments),
         c.at \in AtProvider => checkout[r].at \in AtProvider /\ c.payment = checkout[r].payment,
         \A p \in Products : owed'[p] + cart[p] + Units(checkout[r], p) = owed[p] + cart'[p] + Units(c, p)
  PROVE  ShopInv'
<1>1. SamePayments(payments, payments') BY DEF SamePayments
<1>2. \E n \in Nat : payments' \in [1..n -> Payments] BY DEF ShopInv, ShopTypes
<1> QED BY <1>1, <1>2, Ordinary

LEMMA NoCheckoutIs == NoCheckout \in Checkouts
BY ItemsAre DEF NoCheckout, Checkouts, Places

LEMMA AskToAddKeeps ==
  ASSUME ShopInv, NEW r \in Requests, NEW p \in Products, NEW n \in 1..MaxQuantity, AskToAdd(r, p, n)
  PROVE  ShopInv'
<1> DEFINE c == [NoCheckout EXCEPT !.at = "adding", !.back = Only(p, n)]
<1>1. /\ Moves(r, c) /\ checkout[r].at = "idle" /\ UNCHANGED <<cart, payments>>
      /\ owed' = [owed EXCEPT ![p] = owed[p] + n]
  BY DEF AskToAdd, At
<1>2. n \in Nat BY ShopAssumption
<1>3. Only(p, n) \in Items /\ Nothing \in Items BY <1>2, ItemsAre
<1>4. c \in Checkouts BY <1>3 DEF NoCheckout, Checkouts, Places
<1>5. Tidy(c, payments) BY DEF Tidy, NoCheckout, AtProvider
<1>6. checkout[r] \in Checkouts /\ checkout[r].back = Nothing /\ checkout[r].buying = Nothing
  BY <1>1 DEF ShopInv, ShopTypes, Tidy, AtProvider
<1>7. cart' \in Items /\ owed' \in [Products -> Int] BY <1>1, <1>2 DEF ShopInv, ShopTypes
<1>8. ASSUME NEW q \in Products
      PROVE  owed'[q] + cart[q] + Units(checkout[r], q) = owed[q] + cart'[q] + Units(c, q)
  <2>1. Units(checkout[r], q) = 0 BY <1>6 DEF Units, Nothing
  <2>2. Units(c, q) = IF q = p THEN n ELSE 0 BY DEF Units, NoCheckout, Only, Nothing
  <2>3. owed[q] \in Int /\ cart[q] \in Int BY DEF ShopInv, ShopTypes, Items
  <2>4. owed'[q] = IF q = p THEN owed[q] + n ELSE owed[q] BY <1>1 DEF ShopInv, ShopTypes
  <2> QED BY <1>1, <1>2, <2>1, <2>2, <2>3, <2>4
<1>9. c.at = "adding" BY DEF NoCheckout
<1> QED BY <1>1, <1>4, <1>5, <1>7, <1>8, <1>9, Plain DEF AtProvider

LEMMA BuyKeeps ==
  ASSUME ShopInv, NEW r \in Requests, NEW p \in Products, NEW n \in 1..MaxQuantity, Buy(r, p, n)
  PROVE  ShopInv'
<1> DEFINE c == [NoCheckout EXCEPT !.at = "checking", !.direct = TRUE, !.buying = Only(p, n)]
<1>1. /\ Moves(r, c) /\ checkout[r].at = "idle" /\ UNCHANGED <<cart, payments>>
      /\ owed' = [owed EXCEPT ![p] = owed[p] + n]
  BY DEF Buy, At
<1>2. n \in Nat BY ShopAssumption
<1>3. Only(p, n) \in Items /\ Nothing \in Items BY <1>2, ItemsAre
<1>4. c \in Checkouts BY <1>3 DEF NoCheckout, Checkouts, Places
<1>5. Tidy(c, payments) BY DEF Tidy, NoCheckout, AtProvider
<1>6. checkout[r] \in Checkouts /\ checkout[r].back = Nothing /\ checkout[r].buying = Nothing
  BY <1>1 DEF ShopInv, ShopTypes, Tidy, AtProvider
<1>7. cart' \in Items /\ owed' \in [Products -> Int] BY <1>1, <1>2 DEF ShopInv, ShopTypes
<1>8. ASSUME NEW q \in Products
      PROVE  owed'[q] + cart[q] + Units(checkout[r], q) = owed[q] + cart'[q] + Units(c, q)
  <2>1. Units(checkout[r], q) = 0 BY <1>6 DEF Units, Nothing
  <2>2. Units(c, q) = IF q = p THEN n ELSE 0 BY DEF Units, NoCheckout, Only, Nothing
  <2>3. owed[q] \in Int /\ cart[q] \in Int BY DEF ShopInv, ShopTypes, Items
  <2>4. owed'[q] = IF q = p THEN owed[q] + n ELSE owed[q] BY <1>1 DEF ShopInv, ShopTypes
  <2> QED BY <1>1, <1>2, <2>1, <2>2, <2>3, <2>4
<1>9. c.at = "checking" BY DEF NoCheckout
<1> QED BY <1>1, <1>4, <1>5, <1>7, <1>8, <1>9, Plain DEF AtProvider

LEMMA RaisedIsNat ==
  ASSUME ShopTypes, NEW p \in Products, NEW n \in Nat
  PROVE  Raised(p, n) \in Nat
BY ShopAssumption DEF ShopTypes, Items, Raised, Least

LEMMA PutInCartKeeps ==
  ASSUME ShopInv, NEW r \in Requests, NEW p \in Products, PutInCart(r, p)
  PROVE  ShopInv'
<1> DEFINE n == checkout[r].back[p]
           c == [checkout[r] EXCEPT !.back[p] = 0]
<1>0. checkout[r] \in Checkouts /\ Tidy(checkout[r], payments) BY DEF ShopInv, ShopTypes
<1>1. /\ Moves(r, c) /\ checkout[r].at \in {"adding", "leaving", "restoring"} /\ UNCHANGED payments
      /\ cart' = [cart EXCEPT ![p] = Raised(p, n)]
      /\ owed' = [owed EXCEPT ![p] = owed[p] + Raised(p, n) - (cart[p] + n)]
  BY DEF PutInCart
<1>2. n \in Nat /\ n = checkout[r].back[p] BY <1>0 DEF Checkouts, Items
<1>3. Raised(p, n) \in Nat BY <1>2, RaisedIsNat DEF ShopInv
<1>4. c \in Checkouts /\ c.at = checkout[r].at /\ c.payment = checkout[r].payment
        /\ c.buying = checkout[r].buying /\ c.back = [checkout[r].back EXCEPT ![p] = 0]
  BY <1>0 DEF Checkouts, Items
<1> HIDE DEF c, n
<1>5. Tidy(c, payments) BY <1>0, <1>1, <1>4 DEF Tidy, AtProvider
<1>7. cart' \in Items /\ owed' \in [Products -> Int]
  BY <1>1, <1>2, <1>3 DEF ShopInv, ShopTypes, Items
<1>8. ASSUME NEW q \in Products
      PROVE  owed'[q] + cart[q] + Units(checkout[r], q) = owed[q] + cart'[q] + Units(c, q)
  <2>1. CASE q = p
    <3>1. Units(c, q) + n = Units(checkout[r], q) /\ Units(c, q) \in Int
      BY <1>0, <1>2, <1>4, <2>1 DEF Units, Checkouts, Items
    <3>2. owed'[q] = owed[q] + Raised(p, n) - (cart[q] + n) /\ cart'[q] = Raised(p, n)
      BY <1>1, <2>1 DEF ShopInv, ShopTypes, Items
    <3>3. owed[q] \in Int /\ cart[q] \in Int BY DEF ShopInv, ShopTypes, Items
    <3> QED BY <1>2, <1>3, <3>1, <3>2, <3>3
  <2>2. CASE q # p
    <3>1. Units(c, q) = Units(checkout[r], q) BY <1>0, <1>4, <2>2 DEF Units, Checkouts, Items
    <3>2. owed'[q] = owed[q] /\ cart'[q] = cart[q] BY <1>1, <2>2 DEF ShopInv, ShopTypes, Items
    <3> QED BY <3>1, <3>2
  <2> QED BY <2>1, <2>2
<1>9. c.at \notin AtProvider BY <1>1, <1>4 DEF AtProvider
<1>10. Moves(r, c) /\ UNCHANGED payments /\ c \in Checkouts BY <1>1, <1>4
<1> QED BY <1>5, <1>7, <1>8, <1>9, <1>10, Plain

(* A step that moves units neither into the cart nor out of it.             *)
LEMMA NoUnitMoves ==
  ASSUME ShopInv, NEW r \in Requests, NEW c \in Checkouts, Moves(r, c), UNCHANGED <<cart, payments, owed>>,
         Tidy(c, payments),
         c.at \in AtProvider => checkout[r].at \in AtProvider /\ c.payment = checkout[r].payment,
         \A p \in Products : Units(c, p) = Units(checkout[r], p)
  PROVE  ShopInv'
<1>1. cart' \in Items /\ owed' \in [Products -> Int] BY DEF ShopInv, ShopTypes
<1>2. ASSUME NEW p \in Products
      PROVE  owed'[p] + cart[p] + Units(checkout[r], p) = owed[p] + cart'[p] + Units(c, p)
  <2>1. Units(c, p) = Units(checkout[r], p) OBVIOUS
  <2> QED BY <2>1
<1> QED BY <1>1, <1>2, Plain

LEMMA AllPutKeeps ==
  ASSUME ShopInv, NEW r \in Requests, AllPut(r)
  PROVE  ShopInv'
<1>0. checkout[r] \in Checkouts /\ Tidy(checkout[r], payments) BY DEF ShopInv, ShopTypes
<1>1. UNCHANGED <<cart, payments, owed>> /\ checkout[r].back = Nothing
  BY DEF AllPut
<1>2. CASE checkout[r].at = "leaving"
  <2> DEFINE c == [checkout[r] EXCEPT !.at = "checking"]
  <2>1. Moves(r, c) BY <1>2 DEF AllPut, At
  <2>2. c \in Checkouts /\ c.at = "checking" /\ c.payment = checkout[r].payment
        /\ c.buying = checkout[r].buying /\ c.back = checkout[r].back
    BY <1>0 DEF Checkouts, Places
  <2> HIDE DEF c
  <2>3. Tidy(c, payments) BY <1>0, <1>1, <1>2, <2>2 DEF Tidy, AtProvider
  <2>4. \A p \in Products : Units(c, p) = Units(checkout[r], p) BY <2>2 DEF Units
  <2> QED BY <1>1, <2>1, <2>2, <2>3, <2>4, NoUnitMoves DEF AtProvider
<1>3. CASE checkout[r].at \in {"adding", "restoring"}
  <2>1. Moves(r, NoCheckout) BY <1>3 DEF AllPut, At
  <2>2. checkout[r].buying = Nothing BY <1>0, <1>3 DEF Tidy
  <2>3. Tidy(NoCheckout, payments) BY DEF Tidy, NoCheckout, AtProvider
  <2>4. \A p \in Products : Units(NoCheckout, p) = Units(checkout[r], p)
    BY <1>1, <2>2 DEF Units, NoCheckout, Nothing
  <2>5. NoCheckout.at = "idle" BY DEF NoCheckout
  <2> QED BY <1>1, <2>1, <2>3, <2>4, <2>5, NoCheckoutIs, NoUnitMoves DEF AtProvider
<1>4. checkout[r].at \in {"adding", "leaving", "restoring"} BY DEF AllPut
<1> QED BY <1>2, <1>3, <1>4

LEMMA TakeKeeps ==
  ASSUME ShopInv, NEW r \in Requests, Take(r)
  PROVE  ShopInv'
<1> DEFINE c == [NoCheckout EXCEPT !.at = "pricing", !.buying = cart]
<1>1. /\ Moves(r, c) /\ checkout[r].at = "idle" /\ UNCHANGED <<owed, payments>> /\ cart' = Nothing
  BY DEF Take, At
<1>3. cart \in Items /\ Nothing \in Items BY ItemsAre DEF ShopInv, ShopTypes
<1>4. c \in Checkouts BY <1>3 DEF NoCheckout, Checkouts, Places
<1>5. Tidy(c, payments) BY DEF Tidy, NoCheckout, AtProvider
<1>6. checkout[r] \in Checkouts /\ checkout[r].back = Nothing /\ checkout[r].buying = Nothing
  BY <1>1 DEF ShopInv, ShopTypes, Tidy, AtProvider
<1>7. cart' \in Items /\ owed' \in [Products -> Int] BY <1>1, <1>3 DEF ShopInv, ShopTypes
<1>8. ASSUME NEW q \in Products
      PROVE  owed'[q] + cart[q] + Units(checkout[r], q) = owed[q] + cart'[q] + Units(c, q)
  <2>1. Units(checkout[r], q) = 0 BY <1>6 DEF Units, Nothing
  <2>2. Units(c, q) = cart[q] BY <1>3 DEF Units, NoCheckout, Nothing, Items
  <2>3. owed[q] \in Int /\ cart[q] \in Int BY DEF ShopInv, ShopTypes, Items
  <2>4. cart'[q] = 0 BY <1>1 DEF Nothing
  <2> QED BY <1>1, <2>1, <2>2, <2>3, <2>4
<1>9. c.at = "pricing" BY DEF NoCheckout
<1> QED BY <1>1, <1>4, <1>5, <1>7, <1>8, <1>9, Plain DEF AtProvider

LEMMA PriceKeeps ==
  ASSUME ShopInv, NEW r \in Requests, Price(r)
  PROVE  ShopInv'
<1> DEFINE bought == Within(checkout[r].buying, onSale)
           mix == Cardinality({currency[p] : p \in Lines(bought)}) > 1
           c == [checkout[r] EXCEPT !.at = "leaving", !.buying = bought,
                   !.back = Less(checkout[r].buying, bought), !.mixed = mix]
<1>0. checkout[r] \in Checkouts /\ Tidy(checkout[r], payments) BY DEF ShopInv, ShopTypes
<1>1. Moves(r, c) /\ checkout[r].at = "pricing" /\ UNCHANGED <<cart, payments, owed>>
  BY DEF Price, At
<1>2. bought \in Items /\ Less(checkout[r].buying, bought) \in Items
  BY <1>0 DEF Checkouts, Items, Within, Less
<1>9. mix \in BOOLEAN OBVIOUS
<1> HIDE DEF mix, bought
<1>3. c \in Checkouts /\ c.at = "leaving" /\ c.payment = checkout[r].payment
        /\ c.buying = bought /\ c.back = Less(checkout[r].buying, bought)
  BY <1>0, <1>2, <1>9 DEF Checkouts, Places
<1> HIDE DEF c
<1>4. checkout[r].payment = 0 /\ checkout[r].back = Nothing BY <1>0, <1>1 DEF Tidy, AtProvider
<1>5. Tidy(c, payments) BY <1>3, <1>4 DEF Tidy, AtProvider
<1>6. ASSUME NEW p \in Products
      PROVE  Units(c, p) = Units(checkout[r], p)
  <2>1. Units(checkout[r], p) = checkout[r].buying[p] /\ checkout[r].buying[p] \in Nat
    BY <1>0, <1>4 DEF Units, Nothing, Checkouts, Items
  <2>2. Units(c, p) = Less(checkout[r].buying, bought)[p] + bought[p]
    BY <1>3, <1>4 DEF Units
  <2> QED BY <2>1, <2>2 DEF Less, Within, bought
<1> QED BY <1>1, <1>3, <1>5, <1>6, NoUnitMoves DEF AtProvider

LEMMA RestoresKeeps ==
  ASSUME ShopInv, NEW r \in Requests, checkout[r].back = Nothing, checkout[r].payment = 0,
         Moves(r, Restores(r)), UNCHANGED <<cart, payments, owed>>
  PROVE  ShopInv'
<1> DEFINE c == Restores(r)
<1>0. checkout[r] \in Checkouts BY DEF ShopInv, ShopTypes
<1>3. c \in Checkouts /\ c.at = "restoring" /\ c.payment = checkout[r].payment
        /\ c.buying = Nothing /\ c.back = checkout[r].buying
  BY <1>0, ItemsAre DEF Checkouts, Places, Restores
<1> HIDE DEF c
<1>5. Tidy(c, payments) BY <1>3 DEF Tidy, AtProvider
<1>6. \A p \in Products : Units(c, p) = Units(checkout[r], p)
  BY <1>0, <1>3 DEF Units, Nothing, Checkouts, Items
<1> QED BY <1>3, <1>5, <1>6, NoUnitMoves DEF AtProvider, c

LEMMA RefusedKeeps ==
  ASSUME ShopInv, NEW r \in Requests, checkout[r].at \in {"checking", "recording"}, Refused(r),
         UNCHANGED <<cart, payments>>
  PROVE  ShopInv'
<1>0. checkout[r] \in Checkouts /\ Tidy(checkout[r], payments) BY DEF ShopInv, ShopTypes
<1>1. checkout[r].back = Nothing /\ checkout[r].payment = 0 BY <1>0 DEF Tidy, AtProvider
<1>2. CASE ~checkout[r].direct
  <2>1. Moves(r, Restores(r)) /\ UNCHANGED owed BY <1>2 DEF Refused
  <2> QED BY <1>1, <2>1, RestoresKeeps
<1>3. CASE checkout[r].direct
  <2>1. Moves(r, NoCheckout) /\ owed' = Less(owed, checkout[r].buying) BY <1>3 DEF Refused
  <2>2. checkout[r].buying \in Items BY <1>0 DEF Checkouts
  <2>3. cart' \in Items /\ owed' \in [Products -> Int]
    BY <2>1, <2>2 DEF ShopInv, ShopTypes, Less, Items
  <2>4. Tidy(NoCheckout, payments) /\ NoCheckout.at = "idle" BY DEF Tidy, NoCheckout, AtProvider
  <2>5. ASSUME NEW q \in Products
        PROVE  owed'[q] + cart[q] + Units(checkout[r], q) = owed[q] + cart'[q] + Units(NoCheckout, q)
    <3>1. Units(checkout[r], q) = checkout[r].buying[q] /\ checkout[r].buying[q] \in Nat
      BY <1>1, <2>2 DEF Units, Nothing, Items
    <3>2. Units(NoCheckout, q) = 0 BY DEF Units, NoCheckout, Nothing
    <3>3. owed'[q] = owed[q] - checkout[r].buying[q] BY <2>1 DEF Less
    <3>4. owed[q] \in Int /\ cart[q] \in Int BY DEF ShopInv, ShopTypes, Items
    <3> QED BY <3>1, <3>2, <3>3, <3>4
  <2> QED BY <2>1, <2>3, <2>4, <2>5, NoCheckoutIs, Plain DEF AtProvider
<1> QED BY <1>2, <1>3

LEMMA PriceFailsKeeps ==
  ASSUME ShopInv, NEW r \in Requests, PriceFails(r)
  PROVE  ShopInv'
<1>1. checkout[r].back = Nothing /\ checkout[r].payment = 0
  BY DEF ShopInv, Tidy, AtProvider, PriceFails, At
<1>2. Moves(r, Restores(r)) /\ UNCHANGED <<cart, payments, owed>> BY DEF PriceFails
<1> QED BY <1>1, <1>2, RestoresKeeps

LEMMA CheckKeeps ==
  ASSUME ShopInv, NEW r \in Requests, Check(r) \/ CheckFails(r)
  PROVE  ShopInv'
<1>0. checkout[r] \in Checkouts /\ Tidy(checkout[r], payments) BY DEF ShopInv, ShopTypes
<1>1. checkout[r].at \in {"checking", "recording"} /\ UNCHANGED <<cart, payments>>
  BY DEF Check, CheckFails, At
<1>2. CASE Refused(r) BY <1>1, <1>2, RefusedKeeps
<1>3. CASE ~Refused(r)
  <2> DEFINE c == [checkout[r] EXCEPT !.at = "recording"]
  <2>1. Moves(r, c) /\ UNCHANGED owed /\ checkout[r].at = "checking"
    BY <1>3 DEF Check, CheckFails, At
  <2>2. c \in Checkouts /\ c.at = "recording" /\ c.payment = checkout[r].payment
        /\ c.buying = checkout[r].buying /\ c.back = checkout[r].back
    BY <1>0 DEF Checkouts, Places
  <2> HIDE DEF c
  <2>3. Tidy(c, payments) BY <1>0, <2>1, <2>2 DEF Tidy, AtProvider
  <2>4. \A p \in Products : Units(c, p) = Units(checkout[r], p) BY <2>2 DEF Units
  <2>5. c.at \notin AtProvider BY <2>2 DEF AtProvider
  <2> QED BY <1>1, <2>1, <2>2, <2>3, <2>4, <2>5, NoUnitMoves
<1> QED BY <1>2, <1>3

(* In flight: a request that pays holds nothing itself.                     *)
LEMMA PayingHoldsNothing ==
  ASSUME ShopInv, NEW r \in Requests, checkout[r].at \in AtProvider, NEW p \in Products
  PROVE  Units(checkout[r], p) = 0
<1>1. Tidy(checkout[r], payments) BY DEF ShopInv
<1>2. PICK n \in Nat : payments \in [1..n -> Payments] BY DEF ShopInv, ShopTypes
<1>3. checkout[r].payment # 0 /\ checkout[r].back = Nothing BY <1>1, <1>2 DEF Tidy
<1> QED BY <1>3 DEF Units, Nothing

LEMMA ChargeKeeps ==
  ASSUME ShopInv, NEW r \in Requests, Charge(r) \/ ChargeFails(r)
  PROVE  ShopInv'
<1> DEFINE c == [checkout[r] EXCEPT !.at = IF Charge(r) THEN "updating" ELSE "declined"]
<1>0. checkout[r] \in Checkouts /\ Tidy(checkout[r], payments) BY DEF ShopInv, ShopTypes
<1>1. Moves(r, c) /\ checkout[r].at = "charging" /\ UNCHANGED <<cart, owed>>
  BY DEF Charge, ChargeFails, At
<1>2. c \in Checkouts /\ c.at \in AtProvider /\ c.payment = checkout[r].payment
      /\ c.buying = checkout[r].buying /\ c.back = checkout[r].back
  BY <1>0 DEF Checkouts, Places, AtProvider
<1> HIDE DEF c
<1>3. PICK n \in Nat : payments \in [1..n -> Payments] BY DEF ShopInv, ShopTypes
<1>4. checkout[r].at \in AtProvider BY <1>1 DEF AtProvider
<1>5. payments' \in [1..n -> Payments] /\ SamePayments(payments, payments')
  <2>1. CASE UNCHANGED payments BY <1>3, <2>1 DEF SamePayments
  <2>2. CASE payments' = [payments EXCEPT ![checkout[r].payment].charged = TRUE]
    BY <1>3, <2>2 DEF SamePayments, Payments
  <2> QED BY <2>1, <2>2 DEF Charge, ChargeFails
<1>6. Tidy(c, payments) BY <1>0, <1>2, <1>4 DEF Tidy, AtProvider
<1>7. cart' \in Items /\ owed' \in [Products -> Int] BY <1>1 DEF ShopInv, ShopTypes
<1>8. ASSUME NEW p \in Products
      PROVE  owed'[p] + cart[p] + Units(checkout[r], p) = owed[p] + cart'[p] + Units(c, p)
  <2>1. Units(c, p) = Units(checkout[r], p) BY <1>2 DEF Units
  <2> QED BY <1>1, <2>1
<1> QED BY <1>1, <1>2, <1>4, <1>5, <1>6, <1>7, <1>8, Ordinary

(* The payment stays open.                                                 *)
LEMMA UpdateKeeps ==
  ASSUME ShopInv, NEW r \in Requests, Update(r)
  PROVE  ShopInv'
<1>1. /\ Moves(r, NoCheckout) /\ checkout[r].at \in AtProvider /\ UNCHANGED <<cart, payments, owed>>
  BY DEF Update, At, AtProvider
<1>2. Tidy(NoCheckout, payments) /\ NoCheckout.at \notin AtProvider BY DEF Tidy, NoCheckout, AtProvider
<1>3. ASSUME NEW p \in Products
      PROVE  Units(NoCheckout, p) = Units(checkout[r], p)
  <2>1. Units(NoCheckout, p) = 0 BY DEF Units, NoCheckout, Nothing
  <2> QED BY <1>1, <2>1, PayingHoldsNothing
<1> QED BY <1>1, <1>2, <1>3, NoCheckoutIs, NoUnitMoves

LEMMA InsertPaymentKeeps ==
  ASSUME ShopInv, NEW r \in Requests, InsertPayment(r)
  PROVE  ShopInv'
<1>0. checkout[r] \in Checkouts /\ Tidy(checkout[r], payments) /\ checkout \in [Requests -> Checkouts]
  BY DEF ShopInv, ShopTypes
<1>1. PICK n \in Nat : payments \in [1..n -> Payments] BY DEF ShopInv, ShopTypes
<1>2. Cardinality(DOMAIN payments) = n
  <2>1. Cardinality(1..n) = n BY FS_Interval
  <2> QED BY <1>1, <2>1
<1> DEFINE id == n + 1
           made == [items |-> checkout[r].buying, status |-> "pending", charged |-> FALSE]
           c == [checkout[r] EXCEPT !.at = "charging", !.payment = id]
<1>3. /\ payments' = [i \in 1..n \cup {id} |-> IF i = id THEN made ELSE payments[i]]
      /\ Moves(r, c) /\ UNCHANGED <<cart, owed>> /\ checkout[r].at = "recording"
  BY <1>1, <1>2 DEF InsertPayment, At
<1>4. made \in Payments /\ made.status = "pending" /\ made.items = checkout[r].buying
  BY <1>0 DEF Payments, Checkouts
<1>5. payments' \in [1..id -> Payments]
  <2>1. 1..n \cup {id} = 1..id BY <1>1
  <2> QED BY <1>1, <1>3, <1>4, <2>1
<1>6. c \in Checkouts /\ c.at = "charging" /\ c.payment = id
      /\ c.buying = checkout[r].buying /\ c.back = checkout[r].back
  <2>1. id \in Nat OBVIOUS
  <2> HIDE DEF id
  <2> QED BY <1>0, <2>1 DEF Checkouts, Places, AtProvider
<1>7. payments'[id] = made /\ \A i \in 1..n : payments'[i] = payments[i]
  BY <1>3
<1>8. checkout' = [checkout EXCEPT ![r] = c] BY <1>3 DEF Moves
<1> HIDE DEF c, made
<1>9. ShopTypes'
  <2>1. id \in Nat /\ checkout' \in [Requests -> Checkouts] /\ cart' = cart /\ owed' = owed
    BY <1>0, <1>3, <1>6, <1>8
  <2> QED BY <1>5, <2>1 DEF ShopInv, ShopTypes
<1>10. \A q \in Requests : q # r /\ checkout[q].at \in AtProvider => checkout[q].payment \in 1..n
  BY <1>1 DEF ShopInv, Tidy
<1>11. OwnPayments'
  BY <1>0, <1>6, <1>8, <1>10 DEF ShopInv, OwnPayments
<1>12. ASSUME NEW q \in Requests PROVE Tidy(checkout[q], payments)'
  <2>1. CASE q = r
    <3>1. checkout'[q] = c BY <1>0, <1>8, <2>1
    <3>2. c.back = Nothing BY <1>0, <1>3, <1>6 DEF Tidy
    <3> QED BY <1>4, <1>5, <1>6, <1>7, <3>1, <3>2 DEF Tidy, AtProvider
  <2>2. CASE q # r
    <3>1. checkout'[q] = checkout[q] BY <1>0, <1>8, <2>2
    <3>2. Tidy(checkout[q], payments) BY DEF ShopInv
    <3> QED BY <1>1, <1>5, <1>7, <3>1, <3>2 DEF Tidy
  <2> QED BY <2>1, <2>2
<1>13. ASSUME NEW p \in Products
       PROVE  owed'[p] = cart'[p] + HeldUnits(p)' + OpenUnits(p)'
  <2>1. ShopTypes BY DEF ShopInv
  <2>2. HeldUnits(p)' + Units(checkout[r], p) = HeldUnits(p) + Units(c, p) /\ HeldUnits(p)' \in Int
    BY <1>3, <1>6, <1>9, <2>1, OneMoves
  <2>3. OpenUnits(p)' = checkout[r].buying[p] + OpenUnits(p)
    <3> DEFINE f == [i \in Open |-> payments[i].items[p]]
               g == [i \in Open' |-> payments'[i].items[p]]
    <3>1. OpenUnits(p) = SumFunctionOnSet(f, Open) /\ OpenUnits(p)' = SumFunctionOnSet(g, Open')
      BY DEF OpenUnits, SumFunction
    <3>2. Open' = Open \cup {id} /\ id \notin Open
      BY <1>1, <1>4, <1>5, <1>7 DEF Open
    <3>3. g[id] = checkout[r].buying[p] /\ \A i \in Open : g[i] = f[i] BY <1>1, <1>4, <1>7, <3>2 DEF Open
    <3>4. Adds(f, Open) BY <2>1, OpenAreInts
    <3>5. checkout[r].buying[p] \in Int BY <1>0 DEF Checkouts, Items
    <3> HIDE DEF f, g
    <3>6. Adds(g, Open) BY <3>3, <3>4 DEF Adds
    <3>7. SumFunctionOnSet(g, Open') = g[id] + SumFunctionOnSet(g, Open)
      BY <3>2, <3>3, <3>5, <3>6, SumOfOneMore
    <3>8. SumFunctionOnSet(g, Open) = SumFunctionOnSet(f, Open) BY <3>3, <3>4, SumsAgree DEF Adds
    <3> QED BY <3>1, <3>3, <3>7, <3>8
  <2>4. HeldUnits(p) \in Int /\ OpenUnits(p) \in Int BY <2>1, HeldIsInt, OpenIsInt
  <2>5. Units(checkout[r], p) = checkout[r].buying[p] /\ Units(c, p) = 0 /\ checkout[r].buying[p] \in Int
    <3>1. checkout[r].back = Nothing /\ checkout[r].payment = 0 BY <1>0, <1>3 DEF Tidy, AtProvider
    <3>2. checkout[r].buying[p] \in Int BY <1>0 DEF Checkouts, Items
    <3>3. c.payment # 0 BY <1>6
    <3> QED BY <1>6, <3>1, <3>2, <3>3 DEF Units, Nothing
  <2>6. owed[p] = cart[p] + HeldUnits(p) + OpenUnits(p) BY DEF ShopInv, UnitsConserved
  <2>7. owed'[p] = owed[p] /\ cart'[p] = cart[p] /\ cart[p] \in Int
    BY <1>3, <2>1 DEF ShopTypes, Items
  <2> DEFINE h == HeldUnits(p)  o == OpenUnits(p)  h2 == HeldUnits(p)'  o2 == OpenUnits(p)'
             b == checkout[r].buying[p]  k == cart[p]
  <2>8. h2 + b = h + 0 /\ o2 = b + o /\ h \in Int /\ o \in Int /\ h2 \in Int /\ b \in Int /\ k \in Int
    BY <2>2, <2>3, <2>4, <2>5, <2>7
  <2>9. owed'[p] = k + h + o /\ cart'[p] = k BY <2>6, <2>7
  <2> HIDE DEF h, o, h2, o2, b, k
  <2>10. owed'[p] = cart'[p] + h2 + o2 BY <2>8, <2>9
  <2> QED BY <2>10 DEF h2, o2
<1> QED BY <1>9, <1>11, <1>12, <1>13 DEF ShopInv, UnitsConserved

(* The platform answered no, and the payment is closed.                     *)
LEMMA DeclineKeeps ==
  ASSUME ShopInv, NEW r \in Requests, Decline(r)
  PROVE  ShopInv'
<1> DEFINE d == checkout[r]
           k == d.payment
           c == IF d.direct THEN NoCheckout ELSE Restores(r)
<1>0. d \in Checkouts /\ Tidy(d, payments) /\ checkout \in [Requests -> Checkouts]
  BY DEF ShopInv, ShopTypes
<1>1. PICK n \in Nat : payments \in [1..n -> Payments] BY DEF ShopInv, ShopTypes
<1>2. /\ d.at = "declined" /\ UNCHANGED cart /\ Moves(r, c)
      /\ owed' = IF d.direct THEN Less(owed, d.buying) ELSE owed
      /\ payments' = [payments EXCEPT ![k].status = "failed"]
  BY DEF Decline, At, Refused
<1>3. /\ k \in 1..n /\ payments[k].status = "pending" /\ payments[k].items = d.buying
      /\ d.back = Nothing /\ d.buying \in Items
  BY <1>0, <1>1, <1>2 DEF Tidy, AtProvider, Checkouts
<1>4. /\ c \in Checkouts /\ c.at \in {"idle", "restoring"} /\ c.buying = Nothing
      /\ c.at = "idle" => c.back = Nothing /\ c.payment = 0
      /\ c.back = IF d.direct THEN Nothing ELSE d.buying
  BY <1>0, <1>3, ItemsAre DEF Checkouts, Places, NoCheckout, Restores
<1>5. checkout' = [checkout EXCEPT ![r] = c] BY <1>2 DEF Moves
<1> HIDE DEF c
<1>6. payments' \in [1..n -> Payments]
  BY <1>1, <1>2 DEF Payments
<1>7. payments'[k].status = "failed" /\ \A i \in 1..n : i # k => payments'[i] = payments[i]
  BY <1>1, <1>2, <1>3 DEF Payments
<1>8. ShopTypes'
  <2>1. checkout' \in [Requests -> Checkouts] BY <1>0, <1>4, <1>5
  <2>2. owed' \in [Products -> Int]
    BY <1>2, <1>3 DEF ShopInv, ShopTypes, Less, Items
  <2> QED BY <1>2, <1>6, <2>1, <2>2 DEF ShopInv, ShopTypes
<1>9. c.at \notin AtProvider BY <1>4 DEF AtProvider
<1>10. OwnPayments' BY <1>0, <1>5, <1>9 DEF ShopInv, OwnPayments
<1>11. ASSUME NEW q \in Requests PROVE Tidy(checkout[q], payments)'
  <2>1. CASE q = r
    <3>1. checkout'[q] = c BY <1>0, <1>5, <2>1
    <3> QED BY <1>4, <1>9, <3>1 DEF Tidy
  <2>2. CASE q # r
    <3>1. checkout'[q] = checkout[q] BY <1>0, <1>5, <2>2
    <3>2. Tidy(checkout[q], payments) BY DEF ShopInv
    <3>3. checkout[q].at \in AtProvider => checkout[q].payment # k /\ checkout[q].payment \in 1..n
      BY <1>1, <1>2, <2>2, <3>2 DEF ShopInv, OwnPayments, Tidy, AtProvider
    <3> QED BY <1>1, <1>6, <1>7, <3>1, <3>2, <3>3 DEF Tidy
  <2> QED BY <2>1, <2>2
<1>12. ASSUME NEW p \in Products
       PROVE  owed'[p] = cart'[p] + HeldUnits(p)' + OpenUnits(p)'
  <2>1. ShopTypes BY DEF ShopInv
  <2>2. HeldUnits(p)' + Units(d, p) = HeldUnits(p) + Units(c, p) /\ HeldUnits(p)' \in Int
    BY <1>2, <1>4, <1>8, <2>1, OneMoves
  <2>3. OpenUnits(p) = d.buying[p] + OpenUnits(p)' /\ OpenUnits(p)' \in Int
    <3> DEFINE f == [i \in Open |-> payments[i].items[p]]
               g == [i \in Open' |-> payments'[i].items[p]]
    <3>1. OpenUnits(p) = SumFunctionOnSet(f, Open) /\ OpenUnits(p)' = SumFunctionOnSet(g, Open')
      BY DEF OpenUnits, SumFunction
    <3>2. Open' = Open \ {k} /\ k \in Open
      BY <1>1, <1>3, <1>6, <1>7 DEF Open
    <3>3. f[k] = d.buying[p] /\ \A i \in Open' : f[i] = g[i] BY <1>1, <1>3, <1>7, <3>2 DEF Open
    <3>4. Adds(f, Open) BY <2>1, OpenAreInts
    <3> HIDE DEF f, g
    <3>5. SumFunctionOnSet(f, Open) = f[k] + SumFunctionOnSet(f, Open \ {k})
      BY <3>2, <3>4, SumWithout
    <3>6. IsFiniteSet(Open') BY <3>2, <3>4, FS_RemoveElement DEF Adds
    <3>7. SumFunctionOnSet(f, Open') = SumFunctionOnSet(g, Open') BY <3>3, <3>6, SumsAgree
    <3>8. Adds(f, Open') BY <3>2, <3>4, <3>6 DEF Adds
    <3>9. SumFunctionOnSet(f, Open') \in Int BY <3>8, SumIsInt
    <3> QED BY <3>1, <3>2, <3>3, <3>5, <3>7, <3>9
  <2>4. HeldUnits(p) \in Int /\ OpenUnits(p) \in Int BY <2>1, HeldIsInt, OpenIsInt
  <2>5. Units(d, p) = 0 BY <1>2, PayingHoldsNothing DEF AtProvider
  <2>6. Units(c, p) = c.back[p]
    BY <1>4 DEF Units, Nothing, Checkouts, Items
  <2>7. d.buying[p] \in Int BY <1>3 DEF Items
  <2>8. owed[p] = cart[p] + HeldUnits(p) + OpenUnits(p) BY DEF ShopInv, UnitsConserved
  <2>9. owed'[p] + d.buying[p] = owed[p] + c.back[p]
    <3>1. owed[p] \in Int BY <2>1 DEF ShopTypes
    <3>2. CASE d.direct
      <4>1. owed'[p] = owed[p] - d.buying[p] BY <1>2, <3>2 DEF Less
      <4>2. c.back[p] = 0 BY <1>4, <3>2 DEF Nothing
      <4> QED BY <2>7, <3>1, <4>1, <4>2
    <3>3. CASE ~d.direct
      <4>1. owed'[p] = owed[p] /\ c.back[p] = d.buying[p] BY <1>2, <1>4, <3>3
      <4> QED BY <2>7, <3>1, <4>1
    <3> QED BY <3>2, <3>3
  <2> DEFINE h == HeldUnits(p)  o == OpenUnits(p)  h2 == HeldUnits(p)'  o2 == OpenUnits(p)'
             b == d.buying[p]  m == cart[p]  v == c.back[p]  w == owed'[p]
  <2>10. /\ h2 = h + v /\ o = b + o2 /\ h \in Int /\ o \in Int /\ h2 \in Int /\ b \in Int
         /\ v \in Int /\ o2 \in Int
    <3>1. c.back[p] \in Int BY <1>4 DEF Checkouts, Items
    <3> QED BY <2>2, <2>3, <2>4, <2>5, <2>6, <2>7, <3>1
  <2>11. w + b = (m + h + o) + v /\ m \in Int /\ w \in Int /\ cart'[p] = m
    BY <1>2, <1>8, <2>1, <2>8, <2>9 DEF ShopTypes, Items
  <2> HIDE DEF h, o, h2, o2, b, m, v, w
  <2>13. w = m + h2 + o2 BY <2>10, <2>11
  <2> QED BY <2>11, <2>13 DEF h2, o2, w
<1> QED BY <1>8, <1>10, <1>11, <1>12 DEF ShopInv, UnitsConserved

(* A step of no request.                                                    *)
LEMMA AsideKeeps ==
  ASSUME ShopInv, UNCHANGED <<checkout, payments>>, cart' \in Items, owed' \in [Products -> Int],
         \A p \in Products : owed'[p] + cart[p] = owed[p] + cart'[p]
  PROVE  ShopInv'
<1>1. ShopTypes' BY DEF ShopInv, ShopTypes
<1>2. OwnPayments' /\ \A r \in Requests : Tidy(checkout[r], payments)'
  BY DEF ShopInv, OwnPayments, Tidy
<1>3. ASSUME NEW p \in Products
      PROVE  owed'[p] = cart'[p] + HeldUnits(p)' + OpenUnits(p)'
  <2>1. HeldUnits(p)' = HeldUnits(p) BY DEF HeldUnits, Held
  <2>2. OpenUnits(p)' = OpenUnits(p) BY DEF OpenUnits, Open
  <2>3. ShopTypes BY DEF ShopInv
  <2>4. HeldUnits(p) \in Int /\ OpenUnits(p) \in Int BY <2>3, HeldIsInt, OpenIsInt
  <2>5. owed[p] = cart[p] + HeldUnits(p) + OpenUnits(p) BY DEF ShopInv, UnitsConserved
  <2>6. cart[p] \in Int /\ cart'[p] \in Int /\ owed[p] \in Int /\ owed'[p] \in Int
    BY <2>3 DEF ShopTypes, Items
  <2> DEFINE h == HeldUnits(p)  o == OpenUnits(p)  a == owed[p]  b == cart[p]  a2 == owed'[p]  b2 == cart'[p]
  <2>7. h \in Int /\ o \in Int /\ a \in Int /\ b \in Int /\ a2 \in Int /\ b2 \in Int
    BY <2>4, <2>6
  <2>9. a = b + h + o BY <2>5
  <2>10. a2 + b = a + b2 OBVIOUS
  <2> HIDE DEF h, o, a, b, a2, b2
  <2>8. a2 = b2 + h + o BY <2>7, <2>9, <2>10
  <2> QED BY <2>1, <2>2, <2>8 DEF a2, b2, h, o
<1> QED BY <1>1, <1>2, <1>3 DEF ShopInv, UnitsConserved

LEMMA EditLineKeeps ==
  ASSUME ShopInv, NEW p \in Products, NEW n \in 0..MaxLine, EditLine(p, n)
  PROVE  ShopInv'
<1>1. /\ UNCHANGED <<checkout, payments>> /\ cart' = [cart EXCEPT ![p] = n]
      /\ owed' = [owed EXCEPT ![p] = owed[p] + n - cart[p]]
  BY DEF EditLine
<1>2. cart \in Items /\ owed \in [Products -> Int] /\ n \in Nat
  BY ShopAssumption DEF ShopInv, ShopTypes
<1>3. cart' \in Items /\ owed' \in [Products -> Int]
  BY <1>1, <1>2 DEF Items
<1>4. \A q \in Products : owed'[q] + cart[q] = owed[q] + cart'[q]
  BY <1>1, <1>2 DEF Items
<1> QED BY <1>1, <1>3, <1>4, AsideKeeps

LEMMA EditCatalogueKeeps == ASSUME ShopInv, EditCatalogue PROVE ShopInv'
<1>1. UNCHANGED <<checkout, payments, cart, owed>> BY DEF EditCatalogue
<1>2. cart' \in Items /\ owed' \in [Products -> Int] BY <1>1 DEF ShopInv, ShopTypes
<1>3. \A q \in Products : owed'[q] + cart[q] = owed[q] + cart'[q] BY <1>1
<1> QED BY <1>1, <1>2, <1>3, AsideKeeps

LEMMA ShopStep ==
  ASSUME ShopInv,
         \/ EditCatalogue
         \/ \E p \in Products, n \in 0..MaxLine : EditLine(p, n)
         \/ \E r \in Requests : Adding(r) \/ Putting(r) \/ Paying(r)
  PROVE  ShopInv'
<1>1. CASE EditCatalogue BY <1>1, EditCatalogueKeeps
<1>2. ASSUME NEW p \in Products, NEW n \in 0..MaxLine, EditLine(p, n)
      PROVE  ShopInv'
  BY <1>2, EditLineKeeps
<1>3. ASSUME NEW r \in Requests, Adding(r)
      PROVE  ShopInv'
  BY <1>3, AskToAddKeeps, BuyKeeps DEF Adding
<1>4. ASSUME NEW r \in Requests, Putting(r)
      PROVE  ShopInv'
  BY <1>4, AllPutKeeps, PutInCartKeeps DEF Putting
<1>5. ASSUME NEW r \in Requests, Paying(r)
      PROVE  ShopInv'
  BY <1>5, TakeKeeps, PriceKeeps, PriceFailsKeeps, CheckKeeps, InsertPaymentKeeps, ChargeKeeps,
     DeclineKeeps, UpdateKeeps DEF Paying
<1> QED BY <1>1, <1>2, <1>3, <1>4, <1>5

LEMMA ShopStarts == ShopInit => ShopInv
<1> SUFFICES ASSUME ShopInit PROVE ShopInv OBVIOUS
<1>1. Nothing \in Items /\ NoCheckout \in Checkouts BY ItemsAre, NoCheckoutIs
<1>2. cart = Nothing /\ owed = Nothing /\ payments = <<>> /\ checkout = [r \in Requests |-> NoCheckout]
  BY DEF ShopInit
<1>3. <<>> \in [1..0 -> Payments] OBVIOUS
<1>4. ShopTypes BY <1>1, <1>2, <1>3 DEF ShopTypes, Items
<1>5. \A r \in Requests : checkout[r] = NoCheckout /\ checkout[r].at = "idle" BY <1>2 DEF NoCheckout
<1>6. OwnPayments BY <1>5 DEF OwnPayments, AtProvider
<1>7. \A r \in Requests : Tidy(checkout[r], payments) BY <1>5 DEF Tidy, AtProvider, NoCheckout
<1>8. ASSUME NEW p \in Products
      PROVE  owed[p] = cart[p] + HeldUnits(p) + OpenUnits(p)
  <2> DEFINE f == [r \in Requests |-> Held(r, p)]
  <2>1. HeldUnits(p) = SumFunctionOnSet(f, Requests) BY DEF HeldUnits, SumFunction
  <2>2. Adds(f, Requests) /\ \A r \in Requests : f[r] = 0
    BY <1>4, <1>5, HeldAreInts DEF Held, NoCheckout, Nothing
  <2>3. SumFunctionOnSet(f, Requests) = 0
    <3> HIDE DEF f
    <3> QED BY <2>2, SumOfZeros DEF Adds
  <2>4. Open = {} BY <1>2 DEF Open
  <2>5. OpenUnits(p) = SumFunctionOnSet([i \in Open |-> payments[i].items[p]], {})
    BY <2>4 DEF OpenUnits, SumFunction
  <2>6. OpenUnits(p) = 0 BY <2>5, SumOfNone
  <2>7. owed[p] = 0 /\ cart[p] = 0 BY <1>2 DEF Nothing
  <2> QED BY <2>1, <2>3, <2>6, <2>7
<1> QED BY <1>4, <1>6, <1>7, <1>8 DEF ShopInv, UnitsConserved

(* CalmUnitsConserved: for any products, quantities and requests, as long   *)
(* as none of the statements fails whose failure the code lets pass, every  *)
(* unit a buyer put in the cart or bought directly is in one place.         *)
CalmShopInv == calm => service = "shop" /\ ShopInv

THEOREM UnitsAreConserved == MCSpec => []CalmUnitsConserved
<1>1. MCInit => CalmShopInv BY ShopStarts, Zenon DEF MCInit, CalmShopInv
<1>2. CalmShopInv /\ [MCNext]_<<treeVars, flowVars, shopVars, imagesVars, threadsVars, vars, settingsVars, service, calm>> => CalmShopInv'
  <2> SUFFICES ASSUME CalmShopInv, calm,
                      [MCNext]_<<treeVars, flowVars, shopVars, imagesVars, threadsVars, vars, settingsVars, service, calm>>
               PROVE  service' = "shop" /\ ShopInv'
    BY Zenon DEF CalmShopInv, MCNext
  <2>1. service = "shop" /\ ShopInv BY DEF CalmShopInv
  <2>2. CASE MCNext
    <3>1. Shopping /\ service' = service BY <2>1, <2>2 DEF MCNext
    <3>2. \/ EditCatalogue
          \/ \E p \in Products, n \in 0..MaxLine : EditLine(p, n)
          \/ \E r \in Requests : Adding(r) \/ Putting(r) \/ Paying(r)
      BY <3>1 DEF Shopping
    <3> QED BY <2>1, <3>1, <3>2, ShopStep
  <2>3. CASE UNCHANGED <<treeVars, flowVars, shopVars, imagesVars, threadsVars, vars, settingsVars, service, calm>>
    <3>1. UNCHANGED shopVars /\ service' = service BY <2>3
    <3>2. UNCHANGED <<checkout, payments, cart, owed>> BY <3>1 DEF shopVars
    <3>3. cart' \in Items /\ owed' \in [Products -> Int] BY <2>1, <3>2 DEF ShopInv, ShopTypes
    <3>4. \A q \in Products : owed'[q] + cart[q] = owed[q] + cart'[q] BY <3>2
    <3> QED BY <2>1, <3>1, <3>2, <3>3, <3>4, AsideKeeps
  <2> QED BY <2>2, <2>3
<1>3. CalmShopInv => CalmUnitsConserved BY DEF CalmShopInv, ShopInv, CalmUnitsConserved
<1> QED BY <1>1, <1>2, <1>3, PTL DEF MCSpec

-----------------------------------------------------------------------------
(***************************************************************************)
(* ImagesSound, for any cache limits and any quota.  The cache's count and *)
(* its entries move together in every store, eviction and deletion         *)
(* (CacheKept); a rule it still answers by was in force when the entry was *)
(* loaded, so it has been gone for at most the time to live (Marked); and  *)
(* what is stored, with what the uploads past the check may still add, is  *)
(* at most what one upload too many of each would bring (QuotaKept).       *)
(***************************************************************************)
Entries == [value : Rules, size : Nat, used : Nat, until : Nat]
Caches == [data : UNION {[D -> Entries] : D \in SUBSET Refs}, curBytes : Int]
Counted(c) == c.curBytes = Bytes(c, Keys(c))

LEMMA CachesAre ==
  ASSUME NEW c \in Caches
  PROVE  /\ Keys(c) \in SUBSET Refs /\ c.data \in [Keys(c) -> Entries] /\ c.curBytes \in Int
         /\ IsFiniteSet(Keys(c))
         /\ Adds([k \in Keys(c) |-> c.data[k].size], Keys(c))
<1>1. PICK D \in SUBSET Refs : c.data \in [D -> Entries] BY DEF Caches
<1>2. Keys(c) = D BY <1>1 DEF Keys
<1>3. IsFiniteSet(D) BY ImagesAssumption, FS_Subset
<1>4. \A k \in D : c.data[k].size \in Int BY <1>1 DEF Entries
<1> QED BY <1>1, <1>2, <1>3, <1>4 DEF Adds, Caches

LEMMA WithoutCounts ==
  ASSUME NEW c \in Caches, Counted(c), NEW keys \in SUBSET Keys(c)
  PROVE  /\ Without(c, keys) \in Caches /\ Counted(Without(c, keys))
         /\ Keys(Without(c, keys)) = Keys(c) \ keys
         /\ \A k \in Keys(c) \ keys : Without(c, keys).data[k] = c.data[k]
<1> DEFINE d == Without(c, keys)
           f == [k \in Keys(c) |-> c.data[k].size]
           g == [k \in Keys(c) \ keys |-> c.data[k].size]
<1>1. /\ Keys(c) \in SUBSET Refs /\ c.data \in [Keys(c) -> Entries] /\ c.curBytes \in Int
      /\ Adds(f, Keys(c))
  BY CachesAre
<1>2. /\ d.data = [k \in Keys(c) \ keys |-> c.data[k]]
      /\ d.curBytes = c.curBytes - SumFunctionOnSet(f, keys)
  BY DEF Without, Bytes
<1>3. Keys(d) = Keys(c) \ keys /\ \A k \in Keys(c) \ keys : d.data[k] = c.data[k]
  BY <1>2 DEF Keys
<1>4. d = [data |-> d.data, curBytes |-> d.curBytes] BY DEF Without
<1>5. Bytes(d, Keys(d)) = SumFunctionOnSet(g, Keys(c) \ keys)
  <2>1. [k \in Keys(d) |-> d.data[k].size] = g BY <1>3
  <2> QED BY <1>3, <2>1 DEF Bytes
<1>6. IsFiniteSet(Keys(c) \ keys) /\ IsFiniteSet(keys) BY <1>1, FS_Subset DEF Adds
<1>7. SumFunctionOnSet(g, Keys(c) \ keys) = SumFunctionOnSet(f, Keys(c) \ keys)
  <2>1. \A k \in Keys(c) \ keys : g[k] = f[k] OBVIOUS
  <2> HIDE DEF f, g
  <2> QED BY <1>6, <2>1, SumsAgree
<1>8. c.curBytes = SumFunctionOnSet(f, Keys(c)) BY DEF Counted, Bytes
<1> HIDE DEF f, g, d
<1>9. SumFunctionOnSet(f, Keys(c)) = SumFunctionOnSet(f, keys) + SumFunctionOnSet(f, Keys(c) \ keys)
  BY <1>1, SumOfParts
<1>10. Adds(f, keys) /\ Adds(f, Keys(c) \ keys) BY <1>1, <1>6 DEF Adds
<1>11. SumFunctionOnSet(f, keys) \in Int /\ SumFunctionOnSet(f, Keys(c) \ keys) \in Int
  BY <1>10, SumIsInt
<1>12. d.curBytes = Bytes(d, Keys(d)) /\ d.curBytes \in Int
  BY <1>1, <1>2, <1>5, <1>7, <1>8, <1>9, <1>11
<1>13. d \in Caches
  <2>1. d.data \in [Keys(c) \ keys -> Entries] BY <1>1, <1>2
  <2>2. Keys(c) \ keys \in SUBSET Refs BY <1>1
  <2> QED BY <1>4, <1>12, <2>1, <2>2 DEF Caches
<1> QED BY <1>3, <1>12, <1>13 DEF Counted, d

(* What is left of c fits and is as it was in c.                            *)
Kept(c, d) ==
  /\ d \in Caches /\ Counted(d) /\ d.curBytes <= MaxBytes
  /\ Keys(d) \subseteq Keys(c) /\ \A k \in Keys(d) : d.data[k] = c.data[k]

LEMMA EvictKeeps ==
  ASSUME NEW c \in Caches, Counted(c), NEW t \in Nat, NEW d \in Evict(c, t)
  PROVE  Kept(c, d)
<1> DEFINE old == {k \in Keys(c) : t > c.data[k].until}
           rest == Without(c, old)
<1>1. PICK keys \in LeastUsed(rest) : d = Without(rest, keys) BY DEF Evict
<1>2. /\ rest \in Caches /\ Counted(rest) /\ Keys(rest) = Keys(c) \ old
      /\ \A k \in Keys(rest) : rest.data[k] = c.data[k]
  <2>1. old \in SUBSET Keys(c) OBVIOUS
  <2> HIDE DEF old
  <2> QED BY <2>1, WithoutCounts
<1> HIDE DEF rest, old
<1>3. keys \in SUBSET Keys(rest) /\ (Fits(d) \/ keys = Keys(rest))
  BY <1>1 DEF LeastUsed
<1>4. /\ d \in Caches /\ Counted(d) /\ Keys(d) = Keys(rest) \ keys
      /\ \A k \in Keys(d) : d.data[k] = rest.data[k]
  BY <1>1, <1>2, <1>3, WithoutCounts
<1>5. d.curBytes <= MaxBytes
  <2>1. CASE Fits(d) BY <2>1 DEF Fits
  <2>2. CASE keys = Keys(rest)
    <3>1. Keys(d) = {} BY <1>4, <2>2
    <3>2. d.curBytes = SumFunctionOnSet([k \in Keys(d) |-> d.data[k].size], {})
      BY <1>4, <3>1 DEF Counted, Bytes
    <3> QED BY <3>2, SumOfNone, CacheAssumption
  <2> QED BY <1>3, <2>1, <2>2
<1> QED BY <1>2, <1>4, <1>5 DEF Kept

(* The cache that evict is given.                                           *)
Filled(c, k, value, size, t) ==
  [data |-> With(c.data, k, [value |-> value, size |-> size, used |-> t, until |-> t + TTL]),
   curBytes |-> c.curBytes - Bytes(c, {k} \cap Keys(c)) + size]

LEMMA PutCounts ==
  ASSUME NEW c \in Caches, Counted(c), NEW k \in Refs, NEW value \in Rules, NEW size \in Nat, NEW t \in Nat
  PROVE  /\ Filled(c, k, value, size, t) \in Caches /\ Counted(Filled(c, k, value, size, t))
         /\ Keys(Filled(c, k, value, size, t)) = Keys(c) \cup {k}
         /\ \A l \in Keys(c) \ {k} : Filled(c, k, value, size, t).data[l] = c.data[l]
         /\ Filled(c, k, value, size, t).data[k] = [value |-> value, size |-> size, used |-> t, until |-> t + TTL]
<1> DEFINE e == [value |-> value, size |-> size, used |-> t, until |-> t + TTL]
           d == Filled(c, k, value, size, t)
           f == [l \in Keys(c) |-> c.data[l].size]
           g == [l \in Keys(d) |-> d.data[l].size]
           K == Keys(c)
           J == {k} \cap K
<1>0. e \in Entries /\ e.size = size BY CacheAssumption DEF Entries
<1>1. K \in SUBSET Refs /\ c.data \in [K -> Entries] /\ c.curBytes \in Int /\ Adds(f, K)
  BY CachesAre
<1>2. /\ d = [data |-> d.data, curBytes |-> d.curBytes]
      /\ d.data = [l \in K \cup {k} |-> IF l = k THEN e ELSE c.data[l]]
      /\ d.curBytes = c.curBytes - SumFunctionOnSet(f, J) + size
  BY DEF Filled, Bytes, With, Keys
<1>3. Keys(d) = K \cup {k} BY <1>2 DEF Keys
<1>4. d.data[k] = e /\ \A l \in K \ {k} : d.data[l] = c.data[l] BY <1>2
<1>5. Bytes(d, Keys(d)) = SumFunctionOnSet(g, K \cup {k}) BY <1>3 DEF Bytes
<1>6. c.curBytes = SumFunctionOnSet(f, K) BY DEF Counted, Bytes
<1>7. g[k] = size /\ \A l \in K \ {k} : g[l] = f[l] BY <1>0, <1>3, <1>4
<1>8. J \in SUBSET K /\ K \ J = K \ {k} OBVIOUS
<1>9. d.data \in [K \cup {k} -> Entries] /\ K \cup {k} \in SUBSET Refs
  BY <1>0, <1>1, <1>2
<1> HIDE DEF f, g, d, K, J, e
<1>10. IsFiniteSet(K \ {k}) /\ IsFiniteSet(J) BY <1>1, <1>8, FS_Subset, FS_RemoveElement DEF Adds
<1>11. SumFunctionOnSet(f, K) = SumFunctionOnSet(f, J) + SumFunctionOnSet(f, K \ {k})
  BY <1>1, <1>8, SumOfParts
<1>12. Adds(f, J) /\ Adds(f, K \ {k}) BY <1>1, <1>8, <1>10 DEF Adds
<1>13. SumFunctionOnSet(f, J) \in Int /\ SumFunctionOnSet(f, K \ {k}) \in Int BY <1>12, SumIsInt
<1>14. SumFunctionOnSet(g, K \ {k}) = SumFunctionOnSet(f, K \ {k}) BY <1>7, <1>10, SumsAgree
<1>15. SumFunctionOnSet(g, K \cup {k}) = size + SumFunctionOnSet(g, K \ {k})
  <2>1. Adds(g, K \ {k}) BY <1>7, <1>12 DEF Adds
  <2>2. (K \ {k}) \cup {k} = K \cup {k} OBVIOUS
  <2>3. size \in Int OBVIOUS
  <2>4. k \notin K \ {k} OBVIOUS
  <2> QED BY <1>7, <2>1, <2>2, <2>3, <2>4, SumOfOneMore
<1>16. d.curBytes = Bytes(d, Keys(d)) /\ d.curBytes \in Int
  BY <1>1, <1>2, <1>5, <1>6, <1>11, <1>13, <1>14, <1>15
<1>17. d \in Caches BY <1>2, <1>9, <1>16 DEF Caches
<1> QED BY <1>3, <1>4, <1>16, <1>17 DEF Counted, d, e, K

(* After store: the new entry may be gone as well.                          *)
Stored(c, d, k, value, t) ==
  /\ d \in Caches /\ Counted(d) /\ d.curBytes <= MaxBytes
  /\ \A l \in Keys(d) \ {k} : l \in Keys(c) /\ d.data[l] = c.data[l]
  /\ k \in Keys(d) => d.data[k].value = value /\ d.data[k].until = t + TTL

LEMMA StoreStores ==
  ASSUME NEW c \in Caches, Counted(c), NEW k \in Refs, NEW value \in Rules, NEW size \in Nat, NEW t \in Nat,
         NEW d \in Store(c, k, value, size, t)
  PROVE  Stored(c, d, k, value, t)
<1> DEFINE b == Filled(c, k, value, size, t)
<1>1. d \in Evict(b, t) BY DEF Store, Filled
<1>2. /\ b \in Caches /\ Counted(b) /\ Keys(b) = Keys(c) \cup {k}
      /\ \A l \in Keys(c) \ {k} : b.data[l] = c.data[l]
      /\ b.data[k] = [value |-> value, size |-> size, used |-> t, until |-> t + TTL]
  BY PutCounts
<1> HIDE DEF b
<1>3. Kept(b, d) BY <1>1, <1>2, EvictKeeps
<1> QED BY <1>2, <1>3 DEF Kept, Stored

LEMMA LoadStores ==
  ASSUME NEW c \in Caches, Counted(c), NEW k \in Refs, NEW value \in Rules, NEW size \in Nat, NEW t \in Nat,
         NEW d \in Load(c, k, value, size, t)
  PROVE  Stored(c, d, k, value, t)
<1> DEFINE b == Without(c, {k} \cap Keys(c))
<1>1. /\ b \in Caches /\ Counted(b) /\ Keys(b) = Keys(c) \ {k}
      /\ \A l \in Keys(c) \ {k} : b.data[l] = c.data[l]
  <2>1. {k} \cap Keys(c) \in SUBSET Keys(c) /\ Keys(c) \ ({k} \cap Keys(c)) = Keys(c) \ {k} OBVIOUS
  <2> QED BY <2>1, WithoutCounts
<1>2. d \in Store(b, k, value, size, t) BY DEF Load
<1> HIDE DEF b
<1>3. Stored(b, d, k, value, t) BY <1>1, <1>2, StoreStores
<1> QED BY <1>1, <1>3 DEF Stored

-----------------------------------------------------------------------------
(* What the routes and uploads keep.                                        *)
ImageRows == [owner : Owners, size : Sizes]
Stages ==
  {NoUpload} \cup [at : {"quota", "insert"}, owner : Owners, size : Sizes]
    \cup [at : {"publish"}, ref : Refs, size : Sizes]

ImagesTypes ==
  /\ now \in Nat \ {0}
  /\ \E D \in SUBSET Refs : images \in [D -> ImageRows]
  /\ imageCache \in Caches
  /\ upload \in [Uploads -> Stages]
  /\ left \in [Refs -> [Rules -> Nat]] /\ published \in [Refs -> Nat]

(* Marks of the past, and none of an image that was never there.            *)
Marked ==
  /\ \A ref \in Refs : published[ref] <= now /\ \A rule \in Rules : left[ref][rule] <= now
  /\ \A ref \in DOMAIN images : ~Unused(ref)

Recent(e, ref) ==
  /\ e.until <= now + TTL
  /\ e.value = RuleOf(ref) \/ e.until <= left[ref][e.value] + TTL \/ e.until <= published[ref] + TTL

CacheKept ==
  /\ Counted(imageCache) /\ imageCache.curBytes <= MaxBytes
  /\ \A ref \in Keys(imageCache) : Recent(imageCache.data[ref], ref)

(* What uploads between the check and the insert will add.                  *)
Inserting == {u \in Uploads : upload[u].at = "insert"}
PendingOf(s) == IF s.at = "insert" THEN s.size ELSE 0
PendingBytes == SumFunctionOnSet([u \in Uploads |-> PendingOf(upload[u])], Uploads)

QuotaKept ==
  /\ Cardinality(DOMAIN images) + Cardinality(Inserting) <= MaxUserImages + Others
  /\ UsedBytes + PendingBytes <= MaxUserBytes + Others * Max(Sizes)

ImagesInv == ImagesTypes /\ Marked /\ CacheKept /\ QuotaKept

LEMMA LargestSize == Max(Sizes) \in Nat /\ \A s \in Sizes : s <= Max(Sizes)
<1> DEFINE Bad == {T \in SUBSET Sizes : T # {} /\ ~ \E x \in T : \A y \in T : y <= x}
<1>1. Bad = {}
  <2> SUFFICES ASSUME Bad # {} PROVE FALSE OBVIOUS
  <2>1. \E T \in Bad : \A V \in SUBSET T : V # T => V \notin Bad
    <3>1. Bad \in SUBSET (SUBSET Sizes) OBVIOUS
    <3> HIDE DEF Bad
    <3> QED BY <3>1, ImagesAssumption, SmallestOf
  <2>2. PICK T \in Bad : \A V \in SUBSET T : V # T => V \notin Bad BY <2>1
  <2>3. PICK z \in T : TRUE OBVIOUS
  <2>4. T \in SUBSET Sizes /\ z \in Nat /\ T \in SUBSET Nat BY <2>3, ImagesAssumption
  <2>5. T \ {z} \notin Bad BY <2>2, <2>3
  <2>6. CASE T \ {z} = {}
    <3>1. \A y \in T : y <= z BY <2>4, <2>6
    <3> QED BY <2>3, <3>1
  <2>7. CASE T \ {z} # {}
    <3>1. PICK x \in T \ {z} : \A y \in T \ {z} : y <= x BY <2>4, <2>5, <2>7
    <3>2. CASE z <= x
      <4>1. \A y \in T : y <= x BY <3>1, <3>2
      <4> QED BY <4>1
    <3>3. CASE ~(z <= x)
      <4>1. \A y \in T : y <= z BY <2>4, <3>1, <3>3
      <4> QED BY <2>3, <4>1
    <3> QED BY <3>2, <3>3
  <2> QED BY <2>6, <2>7
<1>2. Sizes \notin Bad BY <1>1
<1>3. \E x \in Sizes : \A y \in Sizes : x >= y BY <1>2, ImagesAssumption
<1>4. Max(Sizes) \in Sizes /\ \A y \in Sizes : Max(Sizes) >= y BY <1>3, Zenon DEF Max
<1> QED BY <1>4, ImagesAssumption

LEMMA LimitsAre ==
  /\ Others \in Nat /\ Cardinality(Uploads) = Others + 1
  /\ Others * Max(Sizes) \in Nat
  /\ MaxUserBytes + Others * Max(Sizes) \in Nat /\ MaxUserImages + Others \in Nat
<1>1. Cardinality(Uploads) \in Nat /\ Cardinality(Uploads) # 0
  BY ImagesAssumption, FS_CardinalityType, FS_EmptySet
<1>2. Others \in Nat /\ Cardinality(Uploads) = Others + 1 BY <1>1 DEF Others
<1>3. \A a, b \in Nat : a * b \in Nat OBVIOUS
<1>4. Others * Max(Sizes) \in Nat BY <1>2, <1>3, LargestSize
<1> QED BY <1>2, <1>4, ImagesAssumption

LEMMA RowsAre ==
  ASSUME ImagesTypes
  PROVE  /\ DOMAIN images \in SUBSET Refs /\ IsFiniteSet(DOMAIN images)
         /\ images \in [DOMAIN images -> ImageRows]
         /\ Cardinality(DOMAIN images) \in Nat
<1>1. PICK D \in SUBSET Refs : images \in [D -> ImageRows] BY DEF ImagesTypes
<1>2. IsFiniteSet(D) BY ImagesAssumption, FS_Subset
<1> QED BY <1>1, <1>2, FS_CardinalityType

LEMMA UsedAdds ==
  ASSUME ImagesTypes
  PROVE  /\ UsedBytes = SumFunctionOnSet([ref \in DOMAIN images |-> images[ref].size], DOMAIN images)
         /\ Adds([ref \in DOMAIN images |-> images[ref].size], DOMAIN images)
         /\ UsedBytes \in Nat
<1> DEFINE f == [ref \in DOMAIN images |-> images[ref].size]
<1>1. UsedBytes = SumFunctionOnSet(f, DOMAIN images) BY DEF UsedBytes, SumFunction
<1>2. \A ref \in DOMAIN images : f[ref] \in Nat BY RowsAre, ImagesAssumption DEF ImageRows
<1>3. IsFiniteSet(DOMAIN images) BY RowsAre
<1> HIDE DEF f
<1>4. SumFunctionOnSet(f, DOMAIN images) \in Nat BY <1>2, <1>3, SumIsNat
<1>5. Adds(f, DOMAIN images) BY <1>2, <1>3 DEF Adds
<1> QED BY <1>1, <1>4, <1>5 DEF f

LEMMA StagesPend ==
  ASSUME NEW s \in Stages
  PROVE  PendingOf(s) \in Nat /\ PendingOf(s) <= Max(Sizes)
<1>1. CASE s.at = "insert"
  <2>1. s.size \in Sizes BY <1>1 DEF Stages, NoUpload
  <2> QED BY <1>1, <2>1, LargestSize, ImagesAssumption DEF PendingOf
<1>2. CASE s.at # "insert" BY <1>2, LargestSize DEF PendingOf
<1> QED BY <1>1, <1>2

LEMMA PendingAdds ==
  ASSUME ImagesTypes
  PROVE  Adds([u \in Uploads |-> PendingOf(upload[u])], Uploads) /\ PendingBytes \in Nat
         /\ IsFiniteSet(Inserting) /\ Cardinality(Inserting) \in Nat
         /\ Cardinality(Inserting) <= Cardinality(Uploads)
<1> DEFINE f == [u \in Uploads |-> PendingOf(upload[u])]
<1>1. \A u \in Uploads : f[u] \in Nat BY StagesPend DEF ImagesTypes
<1>2. IsFiniteSet(Uploads) BY ImagesAssumption
<1>3. PendingBytes = SumFunctionOnSet(f, Uploads) BY DEF PendingBytes
<1>4. IsFiniteSet(Inserting) /\ Cardinality(Inserting) <= Cardinality(Uploads)
  BY <1>2, FS_Subset DEF Inserting
<1>5. Cardinality(Inserting) \in Nat BY <1>4, FS_CardinalityType
<1> HIDE DEF f
<1>6. SumFunctionOnSet(f, Uploads) \in Nat BY <1>1, <1>2, SumIsNat
<1>7. Adds(f, Uploads) BY <1>1, <1>2 DEF Adds
<1> QED BY <1>3, <1>4, <1>5, <1>6, <1>7 DEF f

(* One upload goes on: what it brings is exchanged for what it will.        *)
LEMMA OneGoes ==
  ASSUME ImagesTypes, NEW u \in Uploads, NEW s \in Stages, Goes(u, s)
  PROVE  /\ upload' \in [Uploads -> Stages]
         /\ PendingBytes' + PendingOf(upload[u]) = PendingBytes + PendingOf(s)
         /\ PendingBytes' \in Nat
         /\ PendingBytes' <= PendingOf(s) + Others * Max(Sizes)
         /\ Inserting' = IF s.at = "insert" THEN Inserting \cup {u} ELSE Inserting \ {u}
<1> DEFINE f == [v \in Uploads |-> PendingOf(upload[v])]
           g == [v \in Uploads |-> PendingOf(upload'[v])]
<1>1. upload' = [upload EXCEPT ![u] = s] /\ upload \in [Uploads -> Stages]
  BY DEF Goes, ImagesTypes
<1>2. upload' \in [Uploads -> Stages] /\ upload'[u] = s BY <1>1
<1>3. \A v \in Uploads : g[v] \in Nat /\ g[v] <= Max(Sizes) BY <1>2, StagesPend
<1>4. IsFiniteSet(Uploads) BY ImagesAssumption
<1>5. Adds(f, Uploads) BY PendingAdds
<1>6. f[u] = PendingOf(upload[u]) /\ g[u] = PendingOf(s) /\ \A v \in Uploads \ {u} : f[v] = g[v]
  BY <1>1
<1>7. PendingBytes = SumFunctionOnSet(f, Uploads) /\ PendingBytes' = SumFunctionOnSet(g, Uploads)
  BY DEF PendingBytes
<1> HIDE DEF f, g
<1>8. Adds(g, Uploads) BY <1>3, <1>4 DEF Adds
<1>9. SumFunctionOnSet(f, Uploads) + g[u] = SumFunctionOnSet(g, Uploads) + f[u]
  BY <1>5, <1>6, <1>8, SumChanges
<1>10. SumFunctionOnSet(g, Uploads) \in Nat BY <1>3, <1>4, SumIsNat
<1>11. SumFunctionOnSet(g, Uploads) = g[u] + SumFunctionOnSet(g, Uploads \ {u}) BY <1>8, SumWithout
<1>12. SumFunctionOnSet(g, Uploads \ {u}) <= Others * Max(Sizes)
  <2>1. IsFiniteSet(Uploads \ {u}) /\ Cardinality(Uploads \ {u}) = Others
    BY <1>4, FS_RemoveElement DEF Others
  <2>2. \A v \in Uploads \ {u} : g[v] \in Int /\ g[v] <= Max(Sizes) BY <1>3
  <2>3. SumFunctionOnSet(g, Uploads \ {u}) <= Cardinality(Uploads \ {u}) * Max(Sizes)
    BY <2>1, <2>2, LargestSize, SumIsBounded
  <2> QED BY <2>1, <2>3
<1>13. Inserting' = IF s.at = "insert" THEN Inserting \cup {u} ELSE Inserting \ {u}
  BY <1>1 DEF Inserting
<1>14. Others * Max(Sizes) \in Int
  <2>1. Others \in Int BY <1>4, FS_CardinalityType DEF Others
  <2> QED BY <2>1, LargestSize
<1>15. SumFunctionOnSet(g, Uploads \ {u}) \in Int
  <2>1. Adds(g, Uploads \ {u}) BY <1>8, FS_RemoveElement DEF Adds
  <2> QED BY <2>1, SumIsInt
<1>16. SumFunctionOnSet(g, Uploads) <= g[u] + Others * Max(Sizes)
  BY <1>3, <1>11, <1>12, <1>14, <1>15
<1> QED BY <1>2, <1>6, <1>7, <1>9, <1>10, <1>13, <1>16

LEMMA RulesAre ==
  ASSUME ImagesTypes, NEW ref \in Refs
  PROVE  RuleOf(ref) \in Rules /\ SizeOf(ref) \in Nat
BY RowsAre, ImagesAssumption DEF RuleOf, SizeOf, Rules, Owners, ImageRows

(* M is L with one mark set.                                                *)
IsMarked(L, M, ref, rule, n) ==
  /\ M \in [Refs -> [Rules -> Nat]] /\ M[ref][rule] = n
  /\ \A r \in Refs, k \in Rules : r # ref \/ k # rule => M[r][k] = L[r][k]

LEMMA MarkOne ==
  ASSUME NEW L \in [Refs -> [Rules -> Nat]], NEW ref \in Refs, NEW rule \in Rules, NEW n \in Nat
  PROVE  IsMarked(L, [L EXCEPT ![ref][rule] = n], ref, rule, n)
BY DEF IsMarked

(* A row is added, edited or deleted: from now on another rule holds of it. *)
LEMMA CacheOutlives ==
  ASSUME ImagesInv, NEW ref \in Refs, left' = [left EXCEPT ![ref][RuleOf(ref)] = now],
         UNCHANGED <<now, imageCache, published>>,
         \A r \in Refs \ {ref} : RuleOf(r)' = RuleOf(r)
  PROVE  /\ CacheKept' /\ left' \in [Refs -> [Rules -> Nat]]
         /\ \A r \in Refs : published'[r] <= now' /\ \A rule \in Rules : left'[r][rule] <= now'
<1>1. now \in Nat /\ left \in [Refs -> [Rules -> Nat]] /\ published \in [Refs -> Nat] /\ imageCache \in Caches
  BY DEF ImagesInv, ImagesTypes
<1>2. RuleOf(ref) \in Rules BY RulesAre DEF ImagesInv
<1> DEFINE old == RuleOf(ref)
<1>3. /\ left' \in [Refs -> [Rules -> Nat]]
      /\ left'[ref][old] = now
      /\ \A r \in Refs, rule \in Rules : r # ref \/ rule # old => left'[r][rule] = left[r][rule]
  <2> HIDE DEF old
  <2>1. left' = [left EXCEPT ![ref][old] = now] /\ old \in Rules BY <1>2 DEF old
  <2>2. IsMarked(left, [left EXCEPT ![ref][old] = now], ref, old, now) BY <1>1, <2>1, MarkOne
  <2>3. IsMarked(left, left', ref, old, now) BY <2>1, <2>2, Zenon
  <2> QED BY <2>3 DEF IsMarked
<1>4. \A r \in Refs : published'[r] <= now' /\ \A rule \in Rules : left'[r][rule] <= now'
  <2>1. \A r \in Refs : published[r] <= now /\ \A rule \in Rules : left[r][rule] <= now
    BY DEF ImagesInv, Marked
  <2> HIDE DEF old
  <2> QED BY <1>1, <1>3, <2>1
<1>5. ASSUME NEW r \in Keys(imageCache)
      PROVE  Recent(imageCache.data[r], r)'
  <2> DEFINE e == imageCache.data[r]
  <2>1. r \in Refs /\ e.value \in Rules /\ e.until \in Nat BY <1>1, CachesAre DEF Entries
  <2>2. Recent(e, r) BY DEF ImagesInv, CacheKept
  <2> HIDE DEF e
  <2>3. CASE r = ref
    <3>1. CASE e.value = old
      <4>1. e.until <= left'[r][e.value] + TTL BY <1>1, <1>3, <2>2, <2>3, <3>1 DEF Recent
      <4> QED BY <2>2, <4>1 DEF Recent, e
    <3>2. CASE e.value # old
      <4>1. left'[r][e.value] = left[r][e.value] BY <1>3, <2>1, <3>2
      <4>2. e.until <= left[r][e.value] + TTL \/ e.until <= published[r] + TTL
        BY <2>2, <2>3, <3>2 DEF Recent
      <4> QED BY <2>2, <4>1, <4>2 DEF Recent, e
    <3> QED BY <3>1, <3>2
  <2>4. CASE r # ref
    <3>1. left'[r][e.value] = left[r][e.value] BY <1>3, <2>1, <2>4
    <3>2. RuleOf(r)' = RuleOf(r) BY <2>1, <2>4
    <3> QED BY <2>2, <3>1, <3>2 DEF Recent, e
  <2> QED BY <2>3, <2>4
<1>6. CacheKept' BY <1>5 DEF ImagesInv, CacheKept, Counted
<1> QED BY <1>3, <1>4, <1>6

LEMMA SameRules ==
  ASSUME UNCHANGED <<now, images, left, published>>, NEW e, NEW ref, Recent(e, ref)
  PROVE  Recent(e, ref)'
BY DEF Recent, RuleOf

LEMMA SameQuota ==
  ASSUME ImagesInv, UNCHANGED <<images, upload>>
  PROVE  QuotaKept'
<1>1. Inserting' = Inserting /\ PendingBytes' = PendingBytes /\ UsedBytes' = UsedBytes
  BY DEF Inserting, PendingBytes, UsedBytes
<1> QED BY <1>1 DEF ImagesInv, QuotaKept

LEMMA SameMarks ==
  ASSUME ImagesInv, UNCHANGED <<now, images, left, published>>
  PROVE  Marked'
BY DEF ImagesInv, Marked, Unused

LEMMA TickKeeps == ASSUME ImagesInv, Tick PROVE ImagesInv'
<1>1. now' = now + 1 /\ now \in Nat /\ UNCHANGED <<images, imageCache, upload, left, published>>
  BY DEF Tick, marks, ImagesInv, ImagesTypes
<1>2. ImagesTypes' BY <1>1 DEF ImagesInv, ImagesTypes
<1>3. Marked' BY <1>1 DEF ImagesInv, ImagesTypes, Marked, Unused
<1>4. ASSUME NEW ref \in Keys(imageCache)
      PROVE  Recent(imageCache.data[ref], ref)'
  <2> DEFINE e == imageCache.data[ref]
  <2>1. e.until \in Nat BY CachesAre DEF ImagesInv, ImagesTypes, Entries
  <2>2. Recent(e, ref) BY DEF ImagesInv, CacheKept
  <2>3. TTL \in Nat BY CacheAssumption
  <2> HIDE DEF e
  <2>4. e.until <= now' + TTL BY <1>1, <2>1, <2>2, <2>3 DEF Recent
  <2>5. RuleOf(ref)' = RuleOf(ref) BY <1>1 DEF RuleOf
  <2> QED BY <1>1, <2>2, <2>4, <2>5 DEF Recent, e
<1>5. CacheKept' BY <1>1, <1>4 DEF ImagesInv, CacheKept, Counted
<1>6. QuotaKept' BY <1>1, SameQuota
<1> QED BY <1>2, <1>3, <1>5, <1>6 DEF ImagesInv

(* A cache that may be put in the place of this one.                        *)
Fine(d) ==
  /\ d \in Caches /\ Counted(d) /\ d.curBytes <= MaxBytes
  /\ \A r \in Keys(d) : Recent(d.data[r], r)

LEMMA FineNext ==
  ASSUME UNCHANGED <<now, images, left, published>>, Fine(imageCache')
  PROVE  imageCache' \in Caches /\ CacheKept'
<1>1. ASSUME NEW r \in Keys(imageCache') PROVE Recent(imageCache.data[r], r)'
  <2>1. Recent(imageCache'.data[r], r) BY DEF Fine
  <2>2. RuleOf(r)' = RuleOf(r) BY DEF RuleOf
  <2> QED BY <2>1, <2>2 DEF Recent
<1> QED BY <1>1 DEF Fine, CacheKept, Counted

LEMMA TouchIsFine ==
  ASSUME NEW c, Fine(c), NEW ref \in Keys(c), now \in Nat
  PROVE  Fine(Touch(c, ref, now))
<1> DEFINE d == Touch(c, ref, now)
<1>1. c \in Caches /\ Counted(c) /\ c.curBytes <= MaxBytes /\ \A r \in Keys(c) : Recent(c.data[r], r)
  BY DEF Fine
<1>2. c.data \in [Keys(c) -> Entries] /\ Keys(c) \in SUBSET Refs /\ c.curBytes \in Int
  BY <1>1, CachesAre
<1>3. /\ d.data = [c.data EXCEPT ![ref].used = now] /\ d.curBytes = c.curBytes
      /\ d = [data |-> d.data, curBytes |-> d.curBytes]
  BY <1>1 DEF Touch, Caches
<1>4. d.data \in [Keys(c) -> Entries] BY <1>2, <1>3 DEF Entries
<1>5. Keys(d) = Keys(c) BY <1>4 DEF Keys
<1>6. \A r \in Keys(c) : /\ d.data[r].size = c.data[r].size
                         /\ d.data[r].value = c.data[r].value
                         /\ d.data[r].until = c.data[r].until
  BY <1>2, <1>3 DEF Entries
<1> HIDE DEF d
<1>7. d \in Caches BY <1>2, <1>3, <1>4 DEF Caches
<1>8. Counted(d)
  <2>1. [k \in Keys(d) |-> d.data[k].size] = [k \in Keys(c) |-> c.data[k].size] BY <1>5, <1>6
  <2>2. Bytes(d, Keys(d)) = Bytes(c, Keys(c)) BY <1>5, <2>1 DEF Bytes
  <2> QED BY <1>1, <1>3, <2>2 DEF Counted
<1>9. ASSUME NEW r \in Keys(d) PROVE Recent(d.data[r], r)
  <2>1. Recent(c.data[r], r) BY <1>1, <1>5
  <2> QED BY <1>5, <1>6, <2>1 DEF Recent
<1> QED BY <1>1, <1>3, <1>7, <1>8, <1>9 DEF Fine, d

LEMMA WithoutIsFine ==
  ASSUME NEW c, Fine(c), NEW keys \in SUBSET Keys(c)
  PROVE  Fine(Without(c, keys))
<1> DEFINE d == Without(c, keys)
           f == [k \in Keys(c) |-> c.data[k].size]
<1>1. c \in Caches /\ Counted(c) /\ c.curBytes <= MaxBytes /\ \A r \in Keys(c) : Recent(c.data[r], r)
  BY DEF Fine
<1>2. /\ d \in Caches /\ Counted(d) /\ Keys(d) = Keys(c) \ keys
      /\ \A k \in Keys(c) \ keys : d.data[k] = c.data[k]
  BY <1>1, WithoutCounts
<1>3. d.curBytes = c.curBytes - SumFunctionOnSet(f, keys) BY DEF Without, Bytes
<1>4. c.data \in [Keys(c) -> Entries] /\ IsFiniteSet(Keys(c)) /\ c.curBytes \in Int BY <1>1, CachesAre
<1>5. \A k \in keys : f[k] \in Nat BY <1>4 DEF Entries
<1>6. IsFiniteSet(keys) BY <1>4, FS_Subset
<1> HIDE DEF f, d
<1>7. SumFunctionOnSet(f, keys) \in Nat BY <1>5, <1>6, SumIsNat
<1>8. MaxBytes \in Int BY CacheAssumption
<1>9. d.curBytes <= MaxBytes BY <1>1, <1>3, <1>4, <1>7, <1>8
<1> QED BY <1>1, <1>2, <1>9 DEF Fine, d

LEMMA StoredIsFine ==
  ASSUME NEW c, Fine(c), NEW d, NEW ref \in Refs, NEW rule, now \in Nat, Stored(c, d, ref, rule, now),
         rule = RuleOf(ref) \/ published[ref] = now
  PROVE  Fine(d)
<1>1. ASSUME NEW r \in Keys(d) PROVE Recent(d.data[r], r)
  <2>1. CASE r = ref
    <3>1. d.data[r].value = rule /\ d.data[r].until = now + TTL BY <2>1 DEF Stored
    <3>2. now + TTL \in Nat BY CacheAssumption
    <3> QED BY <2>1, <3>1, <3>2 DEF Recent
  <2>2. CASE r # ref
    <3>1. r \in Keys(c) /\ d.data[r] = c.data[r] BY <2>2 DEF Stored
    <3> QED BY <3>1 DEF Fine
  <2> QED BY <2>1, <2>2
<1> QED BY <1>1 DEF Fine, Stored

LEMMA CacheIsFine == ASSUME ImagesInv PROVE Fine(imageCache) /\ now \in Nat
BY DEF ImagesInv, ImagesTypes, CacheKept, Fine

LEMMA ServingKeeps ==
  ASSUME ImagesInv, NEW ref \in Refs, ServeCached(ref) \/ ServeLoaded(ref) \/ LoadFails(ref)
  PROVE  ImagesInv'
<1>1. UNCHANGED <<now, images, upload, left, published>>
  BY DEF ServeCached, ServeLoaded, LoadFails, marks
<1>2. QuotaKept' /\ Marked' BY <1>1, SameQuota, SameMarks
<1>3. Fine(imageCache) /\ now \in Nat /\ imageCache \in Caches /\ Counted(imageCache)
  BY CacheIsFine DEF Fine
<1>4. Fine(imageCache')
  <2>1. CASE ServeCached(ref)
    <3>1. ref \in Keys(imageCache) /\ imageCache' = Touch(imageCache, ref, now)
      BY <2>1 DEF ServeCached, IsFresh
    <3>2. Fine(Touch(imageCache, ref, now)) BY <1>3, <3>1, TouchIsFine
    <3> QED BY <3>1, <3>2, Zenon
  <2>2. CASE ServeLoaded(ref)
    <3>1. PICK d : d = imageCache' OBVIOUS
    <3>2. d \in Load(imageCache, ref, RuleOf(ref), SizeOf(ref), now)
      BY <2>2, <3>1 DEF ServeLoaded, Loaded
    <3>3. RuleOf(ref) \in Rules /\ SizeOf(ref) \in Nat BY RulesAre DEF ImagesInv
    <3>4. Stored(imageCache, d, ref, RuleOf(ref), now) BY <1>3, <3>2, <3>3, LoadStores
    <3>5. Fine(d) BY <1>3, <3>4, StoredIsFine
    <3> QED BY <3>1, <3>5, Zenon
  <2>3. CASE LoadFails(ref)
    <3>1. {ref} \in SUBSET Keys(imageCache) /\ imageCache' = Without(imageCache, {ref})
      BY <2>3 DEF LoadFails
    <3>2. Fine(Without(imageCache, {ref})) BY <1>3, <3>1, WithoutIsFine
    <3> QED BY <3>1, <3>2, Zenon
  <2> QED BY <2>1, <2>2, <2>3
<1>5. imageCache' \in Caches /\ CacheKept' BY <1>1, <1>4, FineNext
<1>6. ImagesTypes' BY <1>1, <1>5 DEF ImagesInv, ImagesTypes
<1> QED BY <1>2, <1>5, <1>6 DEF ImagesInv

Shrinks(ref) ==
  /\ DOMAIN images' \in SUBSET (DOMAIN images) /\ images' \in [DOMAIN images' -> ImageRows]
  /\ \A r \in Refs \ {ref} : RuleOf(r)' = RuleOf(r)
  /\ \A r \in DOMAIN images' : images'[r].size = images[r].size
  /\ Cardinality(DOMAIN images') <= Cardinality(DOMAIN images)
  /\ UsedBytes' <= UsedBytes

LEMMA ManagingKeeps ==
  ASSUME ImagesInv, NEW ref \in Refs, RemoveImage(ref) \/ \E owner \in Owners : EditImage(ref, owner)
  PROVE  ImagesInv'
<1>1. /\ ref \in DOMAIN images /\ UNCHANGED <<now, imageCache, upload, published>>
      /\ left' = [left EXCEPT ![ref][images[ref].owner] = now]
  BY DEF RemoveImage, EditImage
<1>2. left' = [left EXCEPT ![ref][RuleOf(ref)] = now] BY <1>1 DEF RuleOf
<1>3. ImagesTypes /\ Marked /\ QuotaKept BY DEF ImagesInv
<1>4. /\ images \in [DOMAIN images -> ImageRows] /\ DOMAIN images \in SUBSET Refs /\ IsFiniteSet(DOMAIN images)
      /\ Cardinality(DOMAIN images) \in Nat
  BY <1>3, RowsAre
<1> DEFINE f == [r \in DOMAIN images |-> images[r].size]
           g == [r \in DOMAIN images' |-> images'[r].size]
<1>5. UsedBytes = SumFunctionOnSet(f, DOMAIN images) /\ Adds(f, DOMAIN images) /\ UsedBytes \in Nat
  BY <1>3, UsedAdds
<1>6. UsedBytes' = SumFunctionOnSet(g, DOMAIN images') BY DEF UsedBytes, SumFunction
<1>7. Shrinks(ref)
  <2>1. CASE RemoveImage(ref)
    <3>1. images' = [r \in DOMAIN images \ {ref} |-> images[r]] BY <2>1 DEF RemoveImage
    <3>2. DOMAIN images' = DOMAIN images \ {ref} BY <3>1
    <3>3. \A r \in DOMAIN images' : images'[r] = images[r] BY <3>1
    <3>4. images' \in [DOMAIN images' -> ImageRows] BY <1>4, <3>1
    <3>5. \A r \in Refs \ {ref} : RuleOf(r)' = RuleOf(r) BY <3>2, <3>3 DEF RuleOf
    <3>6. Cardinality(DOMAIN images') <= Cardinality(DOMAIN images)
      BY <1>4, <3>2, FS_Subset
    <3>7. UsedBytes' <= UsedBytes
      <4>1. \A r \in DOMAIN images \ {ref} : g[r] = f[r] BY <3>2, <3>3
      <4>2. f[ref] \in Nat BY <1>1, <1>4, ImagesAssumption DEF ImageRows
      <4> HIDE DEF f, g
      <4>3. SumFunctionOnSet(f, DOMAIN images) = f[ref] + SumFunctionOnSet(f, DOMAIN images \ {ref})
        BY <1>1, <1>5, SumWithout
      <4>4. IsFiniteSet(DOMAIN images \ {ref}) BY <1>4, FS_RemoveElement
      <4>5. SumFunctionOnSet(f, DOMAIN images \ {ref}) = SumFunctionOnSet(g, DOMAIN images \ {ref})
        BY <4>1, <4>4, SumsAgree
      <4>6. Adds(f, DOMAIN images \ {ref}) BY <1>5, <4>4 DEF Adds
      <4>7. SumFunctionOnSet(f, DOMAIN images \ {ref}) \in Int BY <4>6, SumIsInt
      <4>8. UsedBytes' = SumFunctionOnSet(f, DOMAIN images \ {ref}) BY <1>6, <3>2, <4>5
      <4>9. UsedBytes = f[ref] + SumFunctionOnSet(f, DOMAIN images \ {ref}) BY <1>5, <4>3
      <4> QED BY <4>2, <4>7, <4>8, <4>9
    <3> QED BY <3>2, <3>3, <3>4, <3>5, <3>6, <3>7 DEF Shrinks
  <2>2. ASSUME NEW owner \in Owners, EditImage(ref, owner)
        PROVE  Shrinks(ref)
    <3>1. images' = [images EXCEPT ![ref].owner = owner] BY <2>2 DEF EditImage
    <3>2. DOMAIN images' = DOMAIN images BY <1>4, <3>1
    <3>3. images' \in [DOMAIN images -> ImageRows] BY <1>1, <1>4, <3>1 DEF ImageRows
    <3>4. \A r \in Refs \ {ref} : RuleOf(r)' = RuleOf(r) BY <1>4, <3>1, <3>2 DEF RuleOf
    <3>5. \A r \in DOMAIN images' : images'[r].size = images[r].size
      BY <1>1, <1>4, <3>1, <3>2 DEF ImageRows
    <3>6. g = f BY <3>2, <3>5
    <3>7. UsedBytes' = UsedBytes BY <1>5, <1>6, <3>2, <3>6
    <3> QED BY <1>4, <1>5, <3>2, <3>3, <3>4, <3>5, <3>7 DEF Shrinks
  <2> QED BY <2>1, <2>2
<1>8. CacheKept' /\ left' \in [Refs -> [Rules -> Nat]]
      /\ \A r \in Refs : published'[r] <= now' /\ \A rule \in Rules : left'[r][rule] <= now'
  BY <1>1, <1>2, <1>7, CacheOutlives DEF Shrinks
<1>9. ImagesTypes'
  <2>1. DOMAIN images' \in SUBSET Refs BY <1>4, <1>7 DEF Shrinks
  <2> QED BY <1>1, <1>3, <1>7, <1>8, <2>1 DEF ImagesTypes, Shrinks
<1>10. ASSUME NEW r \in DOMAIN images' PROVE ~Unused(r)'
  <2>1. ~Unused(r) /\ r \in Refs BY <1>3, <1>4, <1>7 DEF Marked, Shrinks
  <2>2. left \in [Refs -> [Rules -> Nat]] /\ now \in Nat \ {0} BY <1>3 DEF ImagesTypes
  <2>3. images[ref].owner \in Rules BY <1>1, <1>4 DEF ImageRows, Rules, Owners
  <2> DEFINE o == images[ref].owner
  <2>4. left'[r][Absent] = left[r][Absent] \/ left'[r][Absent] = now
    <3>1. IsMarked(left, [left EXCEPT ![ref][o] = now], ref, o, now)
      BY <1>1, <1>4, <2>2, <2>3, MarkOne
    <3>2. IsMarked(left, left', ref, o, now) BY <1>1, <3>1, Zenon
    <3>3. Absent \in Rules BY DEF Rules
    <3> QED BY <2>1, <3>2, <3>3 DEF IsMarked
  <2> QED BY <2>1, <2>2, <2>4 DEF Unused, LongAgo
<1>11. Marked' BY <1>8, <1>10 DEF Marked
<1>12. QuotaKept'
  <2>1. Inserting' = Inserting /\ PendingBytes' = PendingBytes
    BY <1>1 DEF Inserting, PendingBytes
  <2>2. PendingBytes \in Nat /\ Cardinality(Inserting) \in Nat BY <1>3, PendingAdds
  <2>3. MaxUserBytes + Others * Max(Sizes) \in Int /\ MaxUserImages + Others \in Int BY LimitsAre
  <2>4. Cardinality(DOMAIN images') \in Nat /\ UsedBytes' \in Int
    <3>1. IsFiniteSet(DOMAIN images') BY <1>4, <1>7, FS_Subset DEF Shrinks
    <3>2. UsedBytes' \in Int
      <4>1. \A r \in DOMAIN images' : g[r] \in Int BY <1>7, ImagesAssumption DEF ImageRows, Shrinks
      <4> HIDE DEF g
      <4>2. Adds(g, DOMAIN images') BY <3>1, <4>1 DEF Adds
      <4> QED BY <1>6, <4>2, SumIsInt
    <3> QED BY <3>1, <3>2, FS_CardinalityType
  <2> DEFINE a == Cardinality(DOMAIN images)  a2 == Cardinality(DOMAIN images')  i == Cardinality(Inserting)
             m == MaxUserImages + Others  b == UsedBytes  b2 == UsedBytes'  p == PendingBytes
             n == MaxUserBytes + Others * Max(Sizes)
  <2>5. /\ a \in Int /\ a2 \in Int /\ i \in Int /\ m \in Int /\ b \in Int /\ b2 \in Int /\ p \in Int /\ n \in Int
    BY <1>4, <1>5, <2>2, <2>3, <2>4
  <2>6. a + i <= m /\ b + p <= n BY <1>3 DEF QuotaKept
  <2>7. a2 <= a /\ b2 <= b BY <1>7 DEF Shrinks
  <2> HIDE DEF a, a2, i, m, b, b2, p, n
  <2>8. a2 + i <= m /\ b2 + p <= n BY <2>5, <2>6, <2>7
  <2> QED BY <2>1, <2>8 DEF QuotaKept, a2, i, m, b2, p, n
<1> QED BY <1>8, <1>9, <1>11, <1>12 DEF ImagesInv

LEMMA StagesAre ==
  /\ NoUpload \in Stages /\ NoUpload.at = "idle"
  /\ \A pl \in {"quota", "insert"}, owner \in Owners, size \in Sizes :
       [at |-> pl, owner |-> owner, size |-> size] \in Stages
  /\ \A ref \in Refs, size \in Sizes : [at |-> "publish", ref |-> ref, size |-> size] \in Stages
  /\ \A s \in Stages : s.at \in {"quota", "insert"} => s.owner \in Owners /\ s.size \in Sizes
                                                       /\ s = [at |-> s.at, owner |-> s.owner, size |-> s.size]
  /\ \A s \in Stages : s.at = "publish" => s.ref \in Refs /\ s.size \in Sizes
BY DEF Stages, NoUpload

(* A step of an upload that touches no row, and does not pass the check.    *)
LEMMA WaitsKeep ==
  ASSUME ImagesInv, NEW u \in Uploads, NEW s \in Stages, Goes(u, s), UNCHANGED <<now, images, left>>,
         s.at # "insert"
  PROVE  upload' \in [Uploads -> Stages] /\ QuotaKept'
<1>1. ImagesTypes /\ QuotaKept BY DEF ImagesInv
<1>2. /\ upload' \in [Uploads -> Stages]
      /\ PendingBytes' + PendingOf(upload[u]) = PendingBytes + PendingOf(s)
      /\ PendingBytes' \in Nat
      /\ Inserting' = Inserting \ {u}
  BY <1>1, OneGoes
<1>3. upload[u] \in Stages BY <1>1 DEF ImagesTypes
<1>4. PendingOf(s) = 0 /\ PendingOf(upload[u]) \in Nat BY <1>3, StagesPend DEF PendingOf
<1>5. PendingBytes \in Nat /\ IsFiniteSet(Inserting) /\ Cardinality(Inserting) \in Nat
  BY <1>1, PendingAdds
<1>6. PendingBytes' <= PendingBytes
  <2> DEFINE a == PendingBytes  b == PendingBytes'  c == PendingOf(upload[u])  d == PendingOf(s)
  <2>1. a \in Int /\ b \in Int /\ c \in Nat /\ d = 0 BY <1>2, <1>4, <1>5
  <2>2. b + c = a + d BY <1>2
  <2> HIDE DEF a, b, c, d
  <2>3. b <= a BY <2>1, <2>2
  <2> QED BY <2>3 DEF a, b
<1>7. Cardinality(Inserting') <= Cardinality(Inserting) /\ Cardinality(Inserting') \in Nat
  <2>1. Inserting \ {u} \in SUBSET Inserting OBVIOUS
  <2> QED BY <1>2, <1>5, <2>1, FS_Subset, FS_CardinalityType
<1>8. UsedBytes' = UsedBytes /\ DOMAIN images' = DOMAIN images BY DEF UsedBytes
<1>9. UsedBytes \in Nat /\ Cardinality(DOMAIN images) \in Nat BY <1>1, UsedAdds, RowsAre
<1> DEFINE a == Cardinality(DOMAIN images)  i == Cardinality(Inserting)  i2 == Cardinality(Inserting')
           m == MaxUserImages + Others  b == UsedBytes  p == PendingBytes  p2 == PendingBytes'
           n == MaxUserBytes + Others * Max(Sizes)
<1>10. /\ a \in Int /\ i \in Int /\ i2 \in Int /\ m \in Int /\ b \in Int /\ p \in Int /\ p2 \in Int /\ n \in Int
  BY <1>2, <1>5, <1>7, <1>9, LimitsAre
<1>11. a + i <= m /\ b + p <= n BY <1>1 DEF QuotaKept
<1>12. i2 <= i /\ p2 <= p BY <1>6, <1>7
<1> HIDE DEF a, i, i2, m, b, p, p2, n
<1>13. a + i2 <= m /\ b + p2 <= n BY <1>10, <1>11, <1>12
<1>14. QuotaKept' BY <1>8, <1>13 DEF QuotaKept, a, i2, m, b, p2, n
<1> QED BY <1>2, <1>14

LEMMA SameCache ==
  ASSUME ImagesInv, UNCHANGED <<now, images, imageCache, left, published>>
  PROVE  CacheKept'
<1>1. Fine(imageCache) BY CacheIsFine
<1>2. Fine(imageCache') BY <1>1, Zenon
<1> QED BY <1>2, FineNext

LEMMA AskKeeps ==
  ASSUME ImagesInv, NEW u \in Uploads, NEW owner \in Owners, NEW size \in Sizes, Ask(u, owner, size)
  PROVE  ImagesInv'
<1> DEFINE s == [at |-> "quota", owner |-> owner, size |-> size]
<1>1. Goes(u, s) /\ UNCHANGED <<now, images, imageCache, left, published>> BY DEF Ask, marks
<1>2. s \in Stages /\ s.at # "insert" BY StagesAre
<1>3. upload' \in [Uploads -> Stages] /\ QuotaKept' BY <1>1, <1>2, WaitsKeep
<1>4. Marked' /\ CacheKept' BY <1>1, SameMarks, SameCache
<1> QED BY <1>1, <1>3, <1>4 DEF ImagesInv, ImagesTypes

LEMMA InsertFailsKeeps ==
  ASSUME ImagesInv, NEW u \in Uploads, InsertFails(u)
  PROVE  ImagesInv'
<1>1. Goes(u, NoUpload) /\ UNCHANGED <<now, images, imageCache, left, published>>
  BY DEF InsertFails, marks
<1>2. NoUpload \in Stages /\ NoUpload.at # "insert" BY StagesAre
<1>3. upload' \in [Uploads -> Stages] /\ QuotaKept' BY <1>1, <1>2, WaitsKeep
<1>4. Marked' /\ CacheKept' BY <1>1, SameMarks, SameCache
<1> QED BY <1>1, <1>3, <1>4 DEF ImagesInv, ImagesTypes

(* The check leaves room for this upload, not for the others.               *)
LEMMA CheckQuotaKeeps ==
  ASSUME ImagesInv, NEW u \in Uploads, CheckQuota(u)
  PROVE  ImagesInv'
<1>0. ImagesTypes BY DEF ImagesInv
<1>1. UNCHANGED <<now, images, imageCache, left, published>> /\ upload[u].at = "quota"
  BY DEF CheckQuota, marks
<1>2. Marked' /\ CacheKept' BY <1>1, SameMarks, SameCache
<1>3. upload' \in [Uploads -> Stages] /\ QuotaKept'
  <2>1. CASE ~WithinQuota(upload[u].size)
    <3>1. Goes(u, NoUpload) BY <2>1 DEF CheckQuota
    <3>2. NoUpload \in Stages /\ NoUpload.at # "insert" BY StagesAre
    <3> QED BY <1>1, <3>1, <3>2, WaitsKeep
  <2>2. CASE WithinQuota(upload[u].size)
    <3> DEFINE s == [upload[u] EXCEPT !.at = "insert"]
               size == upload[u].size
    <3>1. Goes(u, s) BY <2>2 DEF CheckQuota
    <3>2. upload[u] \in Stages BY <1>0 DEF ImagesTypes
    <3>3. /\ size \in Sizes /\ upload[u].owner \in Owners
          /\ upload[u] = [at |-> "quota", owner |-> upload[u].owner, size |-> size]
      BY <1>1, <3>2, StagesAre
    <3>4. s = [at |-> "insert", owner |-> upload[u].owner, size |-> size] BY <3>3
    <3>5. s \in Stages /\ s.at = "insert" /\ s.size = size BY <3>3, <3>4, StagesAre
    <3>6. PendingOf(s) = size BY <3>5 DEF PendingOf
    <3> HIDE DEF s
    <3>7. /\ upload' \in [Uploads -> Stages] /\ PendingBytes' \in Nat
          /\ PendingBytes' <= size + Others * Max(Sizes)
      BY <1>0, <3>1, <3>5, <3>6, OneGoes
    <3>8. Cardinality(Inserting') <= Others + 1 /\ Cardinality(Inserting') \in Nat
      <4>1. Inserting' \in SUBSET Uploads BY DEF Inserting
      <4> QED BY <4>1, ImagesAssumption, LimitsAre, FS_Subset, FS_CardinalityType
    <3>9. Cardinality(DOMAIN images) < MaxUserImages /\ UsedBytes + size <= MaxUserBytes
      BY <2>2 DEF WithinQuota
    <3>10. UsedBytes' = UsedBytes /\ DOMAIN images' = DOMAIN images BY <1>1 DEF UsedBytes
    <3> DEFINE a == Cardinality(DOMAIN images)  i2 == Cardinality(Inserting')  o == Others
               b == UsedBytes  p2 == PendingBytes'  n == Others * Max(Sizes)
    <3>11. /\ a \in Int /\ i2 \in Int /\ o \in Int /\ b \in Int /\ p2 \in Int /\ n \in Int
           /\ MaxUserImages \in Int /\ MaxUserBytes \in Int /\ size \in Int
      BY <1>0, <3>3, <3>7, <3>8, ImagesAssumption, LimitsAre, UsedAdds, RowsAre
    <3>12. a < MaxUserImages /\ b + size <= MaxUserBytes /\ i2 <= o + 1 /\ p2 <= size + n
      BY <3>7, <3>8, <3>9
    <3> HIDE DEF a, i2, o, b, p2, n, size
    <3>13. a + i2 <= MaxUserImages + o /\ b + p2 <= MaxUserBytes + n BY <3>11, <3>12
    <3>14. QuotaKept' BY <3>10, <3>13 DEF QuotaKept, a, i2, o, b, p2, n
    <3> QED BY <3>7, <3>14
  <2> QED BY <2>1, <2>2
<1> QED BY <1>0, <1>1, <1>2, <1>3 DEF ImagesInv, ImagesTypes

LEMMA InsertKeeps ==
  ASSUME ImagesInv, NEW u \in Uploads, NEW ref \in Refs, Insert(u, ref)
  PROVE  ImagesInv'
<1> DEFINE size == upload[u].size
           row == [owner |-> upload[u].owner, size |-> size]
           s == [at |-> "publish", ref |-> ref, size |-> size]
<1>0. ImagesTypes /\ Marked /\ QuotaKept BY DEF ImagesInv
<1>1. /\ upload[u].at = "insert" /\ Unused(ref) /\ images' = With(images, ref, row)
      /\ left' = [left EXCEPT ![ref][Absent] = now] /\ Goes(u, s)
      /\ UNCHANGED <<now, imageCache, published>>
  BY DEF Insert
<1>2. /\ images \in [DOMAIN images -> ImageRows] /\ DOMAIN images \in SUBSET Refs /\ IsFiniteSet(DOMAIN images)
      /\ Cardinality(DOMAIN images) \in Nat
  BY <1>0, RowsAre
<1>3. ref \notin DOMAIN images BY <1>0, <1>1 DEF Marked
<1>4. upload[u] \in Stages BY <1>0 DEF ImagesTypes
<1>5. size \in Sizes /\ upload[u].owner \in Owners BY <1>1, <1>4, StagesAre
<1>6. row \in ImageRows /\ s \in Stages /\ s.at = "publish" BY <1>5, StagesAre DEF ImageRows
<1>7. /\ DOMAIN images' = DOMAIN images \cup {ref}
      /\ images'[ref] = row /\ \A r \in DOMAIN images : images'[r] = images[r]
      /\ images' \in [DOMAIN images' -> ImageRows]
  <2> HIDE DEF row
  <2>1. images' = [r \in DOMAIN images \cup {ref} |-> IF r = ref THEN row ELSE images[r]]
    BY <1>1 DEF With
  <2> QED BY <1>2, <1>3, <1>6, <2>1
<1>8. RuleOf(ref) = Absent /\ \A r \in Refs \ {ref} : RuleOf(r)' = RuleOf(r)
  BY <1>3, <1>7 DEF RuleOf
<1>9. left' = [left EXCEPT ![ref][RuleOf(ref)] = now] BY <1>1, <1>8
<1>10. CacheKept' /\ left' \in [Refs -> [Rules -> Nat]]
       /\ \A r \in Refs : published'[r] <= now' /\ \A rule \in Rules : left'[r][rule] <= now'
  BY <1>1, <1>8, <1>9, CacheOutlives
<1>11. /\ upload' \in [Uploads -> Stages]
       /\ PendingBytes' + PendingOf(upload[u]) = PendingBytes + PendingOf(s)
       /\ PendingBytes' \in Nat
       /\ Inserting' = Inserting \ {u}
  BY <1>0, <1>1, <1>6, OneGoes
<1>12. ImagesTypes'
  <2>1. DOMAIN images' \in SUBSET Refs BY <1>2, <1>7
  <2> HIDE DEF row, s
  <2> QED BY <1>0, <1>1, <1>7, <1>10, <1>11, <2>1 DEF ImagesTypes
<1>13. Marked'
  <2>1. ASSUME NEW r \in DOMAIN images' PROVE ~Unused(r)'
    <3>1. left \in [Refs -> [Rules -> Nat]] /\ now \in Nat \ {0} /\ Absent \in Rules
      BY <1>0 DEF ImagesTypes, Rules
    <3>2. IsMarked(left, [left EXCEPT ![ref][Absent] = now], ref, Absent, now)
      BY <3>1, MarkOne
    <3>3. IsMarked(left, left', ref, Absent, now) BY <1>1, <3>2, Zenon
    <3>4. CASE r = ref BY <3>1, <3>3, <3>4 DEF IsMarked, Unused, LongAgo
    <3>5. CASE r # ref
      <4>1. r \in DOMAIN images /\ r \in Refs BY <1>2, <1>7, <3>5
      <4>2. ~Unused(r) BY <1>0, <4>1 DEF Marked
      <4>3. left'[r][Absent] = left[r][Absent] BY <3>1, <3>3, <3>5, <4>1 DEF IsMarked
      <4> QED BY <4>2, <4>3 DEF Unused
    <3> QED BY <3>4, <3>5
  <2> QED BY <1>10, <2>1 DEF Marked
<1>14. Cardinality(DOMAIN images') = Cardinality(DOMAIN images) + 1
  BY <1>2, <1>3, <1>7, FS_AddElement
<1>15. Cardinality(Inserting') = Cardinality(Inserting) - 1 /\ Cardinality(Inserting) \in Nat
  <2>1. u \in Inserting BY <1>1 DEF Inserting
  <2>2. IsFiniteSet(Inserting) /\ Cardinality(Inserting) \in Nat BY <1>0, PendingAdds
  <2> QED BY <1>11, <2>1, <2>2, FS_RemoveElement
<1>16. UsedBytes' = UsedBytes + size
  <2> DEFINE f == [r \in DOMAIN images |-> images[r].size]
             g == [r \in DOMAIN images' |-> images'[r].size]
  <2>1. UsedBytes = SumFunctionOnSet(f, DOMAIN images) /\ Adds(f, DOMAIN images) /\ UsedBytes \in Nat
    BY <1>0, UsedAdds
  <2>2. UsedBytes' = SumFunctionOnSet(g, DOMAIN images \cup {ref})
    BY <1>7 DEF UsedBytes, SumFunction
  <2>3. \A r \in DOMAIN images : g[r] = f[r] BY <1>7
  <2>4. g[ref] = size /\ size \in Int BY <1>5, <1>7, ImagesAssumption
  <2> HIDE DEF f, g, size
  <2>5. Adds(g, DOMAIN images) BY <2>1, <2>3 DEF Adds
  <2>6. SumFunctionOnSet(g, DOMAIN images \cup {ref}) = g[ref] + SumFunctionOnSet(g, DOMAIN images)
    BY <1>3, <2>4, <2>5, SumOfOneMore
  <2>7. SumFunctionOnSet(g, DOMAIN images) = SumFunctionOnSet(f, DOMAIN images)
    BY <1>2, <2>3, SumsAgree
  <2> QED BY <2>1, <2>2, <2>4, <2>6, <2>7
<1>17. PendingOf(upload[u]) = size /\ PendingOf(s) = 0 BY <1>1 DEF PendingOf
<1>18. QuotaKept'
  <2> DEFINE a == Cardinality(DOMAIN images)  a2 == Cardinality(DOMAIN images')
             i == Cardinality(Inserting)  i2 == Cardinality(Inserting')
             m == MaxUserImages + Others  b == UsedBytes  b2 == UsedBytes'
             p == PendingBytes  p2 == PendingBytes'  n == MaxUserBytes + Others * Max(Sizes)
  <2>1. /\ a \in Int /\ i \in Int /\ m \in Int /\ b \in Int /\ p \in Int /\ p2 \in Int /\ n \in Int
        /\ size \in Int
    BY <1>0, <1>2, <1>5, <1>11, <1>15, ImagesAssumption, LimitsAre, UsedAdds, PendingAdds
  <2>2. a2 = a + 1 /\ i2 = i - 1 BY <1>14, <1>15
  <2>3. b2 = b + size BY <1>16
  <2>4. p2 + size = p + 0 BY <1>11, <1>17
  <2>5. a + i <= m /\ b + p <= n BY <1>0 DEF QuotaKept
  <2> HIDE DEF a, a2, i, i2, m, b, b2, p, p2, n, size
  <2>6. a2 + i2 <= m BY <2>1, <2>2, <2>5
  <2>7. b2 + p2 <= n BY <2>1, <2>3, <2>4, <2>5
  <2> QED BY <2>6, <2>7 DEF QuotaKept, a2, i2, m, b2, p2, n
<1> QED BY <1>10, <1>12, <1>13, <1>18 DEF ImagesInv

LEMMA PublishKeeps ==
  ASSUME ImagesInv, NEW u \in Uploads, Publish(u)
  PROVE  ImagesInv'
<1> DEFINE ref == upload[u].ref
<1>0. ImagesTypes /\ Marked BY DEF ImagesInv
<1>1. /\ upload[u].at = "publish" /\ Goes(u, NoUpload) /\ UNCHANGED <<now, images, left>>
      /\ imageCache' \in Store(imageCache, ref, Standalone, upload[u].size, now)
      /\ published' = [published EXCEPT ![ref] = now]
  BY DEF Publish
<1>2. ref \in Refs /\ upload[u].size \in Nat
  BY <1>0, <1>1, StagesAre, ImagesAssumption DEF ImagesTypes
<1>3. upload' \in [Uploads -> Stages] /\ QuotaKept' BY <1>1, StagesAre, WaitsKeep
<1>4. Fine(imageCache) /\ now \in Nat /\ imageCache \in Caches /\ Counted(imageCache)
  BY CacheIsFine DEF Fine
<1>5. published \in [Refs -> Nat] /\ \A r \in Refs : published[r] <= now
  BY <1>0 DEF ImagesTypes, Marked
<1> HIDE DEF ref
<1>6. published' \in [Refs -> Nat] /\ published'[ref] = now /\ \A r \in Refs : r # ref => published'[r] = published[r]
  BY <1>1, <1>2, <1>4, <1>5
<1>7. PICK d : d = imageCache' OBVIOUS
<1>8. Stored(imageCache, d, ref, Standalone, now)
  <2>1. Standalone \in Rules BY DEF Rules
  <2>2. d \in Store(imageCache, ref, Standalone, upload[u].size, now) BY <1>1, <1>7, Zenon
  <2> QED BY <1>2, <1>4, <2>1, <2>2, StoreStores
<1>9. ASSUME NEW r \in Keys(d) PROVE Recent(d.data[r], r)'
  <2> DEFINE e == d.data[r]
  <2>1. RuleOf(r)' = RuleOf(r) BY <1>1 DEF RuleOf
  <2>2. TTL \in Nat BY CacheAssumption
  <2>3. CASE r = ref
    <3>1. e.until = now + TTL BY <1>8, <2>3 DEF Stored
    <3>2. e.until <= now' + TTL /\ e.until <= published'[r] + TTL BY <1>1, <1>4, <1>6, <2>2, <2>3, <3>1
    <3> HIDE DEF e
    <3>3. Recent(e, r)' BY <1>7, <3>2 DEF Recent
    <3> QED BY <3>3 DEF e
  <2>4. CASE r # ref
    <3>1. r \in Keys(imageCache) /\ e = imageCache.data[r] BY <1>8, <2>4 DEF Stored
    <3>2. Recent(e, r) BY <1>4, <3>1 DEF Fine
    <3>3. r \in Refs BY <1>4, <3>1, CachesAre
    <3>4. published'[r] = published[r] BY <1>6, <2>4, <3>3
    <3> HIDE DEF e
    <3>5. Recent(e, r)' BY <1>1, <2>1, <3>2, <3>4 DEF Recent
    <3> QED BY <3>5 DEF e
  <2> QED BY <2>3, <2>4
<1>10. imageCache' \in Caches /\ CacheKept'
  <2>1. d \in Caches /\ Counted(d) /\ d.curBytes <= MaxBytes BY <1>8 DEF Stored
  <2>2. imageCache' \in Caches /\ Counted(imageCache') /\ imageCache'.curBytes <= MaxBytes BY <1>7, <2>1
  <2>3. ASSUME NEW r \in Keys(imageCache') PROVE Recent(imageCache.data[r], r)'
    <3>1. r \in Keys(d) /\ d.data[r] = imageCache'.data[r] BY <1>7
    <3>2. Recent(d.data[r], r)' BY <1>9, <3>1
    <3> QED BY <3>1, <3>2 DEF Recent
  <2> QED BY <2>2, <2>3 DEF CacheKept, Counted
<1>11. Marked'
  <2>1. \A r \in Refs : published'[r] <= now' BY <1>1, <1>4, <1>5, <1>6
  <2> QED BY <1>0, <1>1, <2>1 DEF Marked, Unused
<1>12. ImagesTypes' BY <1>0, <1>1, <1>3, <1>6, <1>10 DEF ImagesTypes
<1> QED BY <1>3, <1>10, <1>11, <1>12 DEF ImagesInv

LEMMA ImagesStep == ImagesInv /\ [ImagesNext]_imagesVars => ImagesInv'
<1> SUFFICES ASSUME ImagesInv, [ImagesNext]_imagesVars PROVE ImagesInv' OBVIOUS
<1>1. CASE Tick BY <1>1, TickKeeps
<1>2. CASE Serving BY <1>2, ServingKeeps DEF Serving
<1>3. CASE Managing BY <1>3, ManagingKeeps DEF Managing
<1>4. ASSUME NEW u \in Uploads, Uploading(u) PROVE ImagesInv'
  BY <1>4, AskKeeps, CheckQuotaKeeps, InsertFailsKeeps, PublishKeeps, InsertKeeps DEF Uploading
<1>5. CASE UNCHANGED imagesVars
  <2>1. UNCHANGED <<now, images, imageCache, upload, left, published>> BY <1>5 DEF imagesVars
  <2>2. Marked' /\ CacheKept' /\ QuotaKept' BY <2>1, SameMarks, SameCache, SameQuota
  <2> QED BY <2>1, <2>2 DEF ImagesInv, ImagesTypes
<1> QED BY <1>1, <1>2, <1>3, <1>4, <1>5 DEF ImagesNext

LEMMA ImagesStart == ImagesInit => ImagesInv
<1> SUFFICES ASSUME ImagesInit PROVE ImagesInv OBVIOUS
<1>1. /\ now = TTL /\ images = <<>> /\ imageCache = EmptyCache
      /\ upload = [u \in Uploads |-> NoUpload]
      /\ left = [ref \in Refs |-> [r \in Rules |-> LongAgo]]
      /\ published = [ref \in Refs |-> LongAgo]
  BY DEF ImagesInit
<1>2. now \in Nat \ {0} BY <1>1, CacheAssumption
<1>3. DOMAIN images = {} /\ images \in [{} -> ImageRows] BY <1>1
<1>4. /\ imageCache.data = <<>> /\ imageCache.curBytes = 0 /\ imageCache \in Caches
      /\ Keys(imageCache) = {}
  <2>1. imageCache = [data |-> <<>>, curBytes |-> 0] BY <1>1 DEF EmptyCache
  <2>2. <<>> \in [{} -> Entries] OBVIOUS
  <2>3. {} \in SUBSET Refs OBVIOUS
  <2>4. <<>> \in UNION {[K -> Entries] : K \in SUBSET Refs} BY <2>2, <2>3
  <2>5. imageCache.data = <<>> /\ imageCache.curBytes = 0 BY <2>1
  <2>6. imageCache \in Caches BY <2>1, <2>4 DEF Caches
  <2>7. DOMAIN imageCache.data = {} BY <2>5
  <2> QED BY <2>5, <2>6, <2>7 DEF Keys
<1>5. ImagesTypes BY <1>1, <1>2, <1>3, <1>4, StagesAre DEF ImagesTypes, LongAgo
<1>6. Marked BY <1>1, <1>2, <1>3 DEF Marked, LongAgo
<1>7. CacheKept
  <2>1. Bytes(imageCache, Keys(imageCache)) = 0
    <3>1. Bytes(imageCache, Keys(imageCache))
            = SumFunctionOnSet([k \in Keys(imageCache) |-> imageCache.data[k].size], {})
      BY <1>4 DEF Bytes
    <3> QED BY <3>1, SumOfNone
  <2> QED BY <1>4, <2>1, CacheAssumption DEF CacheKept, Counted
<1>8. QuotaKept
  <2>1. Inserting = {} BY <1>1, StagesAre DEF Inserting
  <2>2. Cardinality(Inserting) = 0 /\ Cardinality(DOMAIN images) = 0 BY <1>3, <2>1, FS_EmptySet
  <2>3. UsedBytes = 0
    <3>1. UsedBytes = SumFunctionOnSet([ref \in DOMAIN images |-> images[ref].size], {})
      BY <1>3 DEF UsedBytes, SumFunction
    <3> QED BY <3>1, SumOfNone
  <2>4. PendingBytes = 0
    <3> DEFINE f == [u \in Uploads |-> PendingOf(upload[u])]
    <3>1. \A u \in Uploads : f[u] = 0 BY <1>1, StagesAre DEF PendingOf
    <3>2. PendingBytes = SumFunctionOnSet(f, Uploads) BY DEF PendingBytes
    <3> HIDE DEF f
    <3> QED BY <3>1, <3>2, SumOfZeros, ImagesAssumption
  <2> QED BY <2>2, <2>3, <2>4, LimitsAre DEF QuotaKept
<1> QED BY <1>5, <1>6, <1>7, <1>8 DEF ImagesInv

LEMMA ImagesInvImplies == ImagesInv => ImagesSound
<1> SUFFICES ASSUME ImagesInv PROVE ImagesSound OBVIOUS
<1>0. ImagesTypes /\ CacheKept /\ QuotaKept BY DEF ImagesInv
<1>1. BytesCounted BY <1>0 DEF CacheKept, Counted, BytesCounted
<1>2. RuleIsRecent
  <2> SUFFICES ASSUME NEW ref \in Keys(imageCache), IsFresh(imageCache, ref, now)
               PROVE  \/ imageCache.data[ref].value = RuleOf(ref)
                      \/ now < left[ref][imageCache.data[ref].value] + TTL
                      \/ now < published[ref] + TTL
    BY DEF RuleIsRecent
  <2> DEFINE e == imageCache.data[ref]
  <2>1. now < e.until BY DEF IsFresh
  <2>2. Recent(e, ref) BY <1>0 DEF CacheKept
  <2>3. /\ ref \in Refs /\ e.until \in Nat /\ e.value \in Rules /\ now \in Nat /\ TTL \in Nat
        /\ left \in [Refs -> [Rules -> Nat]] /\ published \in [Refs -> Nat]
    BY <1>0, CachesAre, CacheAssumption DEF ImagesTypes, Entries
  <2> HIDE DEF e
  <2>4. left[ref][e.value] \in Nat /\ published[ref] \in Nat BY <2>3
  <2>5. e.value = RuleOf(ref) \/ now < left[ref][e.value] + TTL \/ now < published[ref] + TTL
    BY <2>1, <2>2, <2>3, <2>4 DEF Recent
  <2> QED BY <2>5 DEF e
<1>3. QuotaNearlyKept
  <2> DEFINE a == Cardinality(DOMAIN images)  i == Cardinality(Inserting)  m == MaxUserImages + Others
             b == UsedBytes  p == PendingBytes  n == MaxUserBytes + Others * Max(Sizes)
  <2>1. a \in Int /\ i \in Nat /\ m \in Int /\ b \in Int /\ p \in Nat /\ n \in Int
    BY <1>0, LimitsAre, UsedAdds, RowsAre, PendingAdds
  <2>2. a + i <= m /\ b + p <= n BY <1>0 DEF QuotaKept
  <2> HIDE DEF a, i, m, b, p, n
  <2>3. a <= m /\ b <= n BY <2>1, <2>2
  <2> QED BY <2>3 DEF QuotaNearlyKept, a, m, b, n
<1> QED BY <1>1, <1>2, <1>3 DEF ImagesSound, CacheSound

(* ImagesSound: for any images, records and uploads, any quota and any size *)
(* and time to live of the cache, what the cache counts is what it holds,   *)
(* it shows no image by a rule that has been gone for longer than entries   *)
(* live, and the quota is passed by what the other uploads bring at most.   *)
THEOREM ImagesAreSound == MCSpec => []ImagesSound
<1>1. MCInit => ImagesInv BY ImagesStart, Zenon DEF MCInit
<1>2. ImagesInv /\ [MCNext]_<<treeVars, flowVars, shopVars, imagesVars, threadsVars, vars, settingsVars, service, calm>> => ImagesInv'
  <2> SUFFICES ASSUME ImagesInv,
                      [MCNext]_<<treeVars, flowVars, shopVars, imagesVars, threadsVars, vars, settingsVars, service, calm>>
               PROVE  ImagesInv'
    OBVIOUS
  <2>1. CASE AtQuota
    <3>1. ImagesNext BY <2>1 DEF AtQuota, ImagesNext, Managing
    <3> QED BY <3>1, ImagesStep
  <2>2. CASE ImagesNext BY <2>2, ImagesStep
  <2>3. CASE UNCHANGED imagesVars BY <2>3, ImagesStep
  <2> QED BY <2>1, <2>2, <2>3, Zenon DEF MCNext
<1> QED BY <1>1, <1>2, ImagesInvImplies, PTL DEF MCSpec

-----------------------------------------------------------------------------
(***************************************************************************)
(* SettingsSound, for any members, groups and parameters.  A resolution    *)
(* that nothing disturbed holds, level by level, what the levels so far    *)
(* set (Stage); a session that carries the present epochs holds what is    *)
(* effective, or a write has its epoch yet to move (Truth): a write makes  *)
(* the latter true, and an epoch that moves leaves every session behind.   *)
(***************************************************************************)
(* The group applied last.                                                  *)
LEMMA HighestIs ==
  ASSUME NEW S \in SUBSET Nat, IsFiniteSet(S), S # {}
  PROVE  /\ Max(S) \in S /\ \A x \in S : x <= Max(S)
         /\ \A m \in S : (\A x \in S : x <= m) => m = Max(S)
<1> DEFINE Bad == {T \in SUBSET S : T # {} /\ ~ \E x \in T : \A y \in T : y <= x}
<1>1. Bad = {}
  <2> SUFFICES ASSUME Bad # {} PROVE FALSE OBVIOUS
  <2>1. \E T \in Bad : \A V \in SUBSET T : V # T => V \notin Bad
    <3>1. Bad \in SUBSET (SUBSET S) OBVIOUS
    <3> HIDE DEF Bad
    <3> QED BY <3>1, SmallestOf
  <2>2. PICK T \in Bad : \A V \in SUBSET T : V # T => V \notin Bad
    BY <2>1
  <2>3. T \in SUBSET Nat /\ T # {}
    OBVIOUS
  <2>4. PICK z \in T : TRUE
    BY <2>3
  <2>5. T \ {z} \notin Bad
    BY <2>2, <2>4
  <2>6. CASE T \ {z} = {}
    <3>1. \A y \in T : y <= z
      BY <2>3, <2>6
    <3> QED BY <2>4, <3>1
  <2>7. CASE T \ {z} # {}
    <3>1. PICK x \in T \ {z} : \A y \in T \ {z} : y <= x
      BY <2>5, <2>7
    <3>2. z <= x \/ x <= z
      BY <2>3, <3>1
    <3>3. \E w \in T : \A y \in T : y <= w
      BY <2>3, <3>1, <3>2
    <3> QED BY <3>3
  <2> QED BY <2>6, <2>7
<1>2. \E x \in S : \A y \in S : y <= x
  <2>1. S \notin Bad
    BY <1>1
  <2> QED BY <2>1
<1>3. \E x \in S : \A y \in S : x >= y
  <2>1. \A x, y \in S : y <= x <=> x >= y
    OBVIOUS
  <2> QED BY <1>2, <2>1
<1>4. Max(S) \in S /\ \A y \in S : Max(S) >= y
  BY <1>3 DEF Max
<1>5. \A x, y \in S : (y <= x <=> x >= y) /\ (x <= y /\ y <= x => x = y)
  <2> SUFFICES ASSUME NEW x \in S, NEW y \in S PROVE (y <= x <=> x >= y) /\ (x <= y /\ y <= x => x = y)
    OBVIOUS
  <2>1. x \in Nat /\ y \in Nat OBVIOUS
  <2> QED BY <2>1
<1>6. PICK top : top = Max(S) OBVIOUS
<1>7. top \in S /\ \A x \in S : x <= top
  BY <1>4, <1>5, <1>6
<1>8. \A m \in S : (\A x \in S : x <= m) => m = top
  BY <1>5, <1>7, Zenon
<1> QED BY <1>6, <1>7, <1>8

Layered(S, config, it) ==
  it = [s \in SUBSET S |-> IF s = {} THEN config ELSE Override(it[s \ {Max(s)}], rows[Max(s)])]
Layers(S, config) == CHOOSE it : Layered(S, config, it)
LayeredUpTo(S, config, n, it) ==
  it = [s \in UpTo(S, n) |-> IF s = {} THEN config ELSE Override(it[s \ {Max(s)}], rows[Max(s)])]
Layer(it, config, s) == IF s = {} THEN config ELSE Override(it[s \ {Max(s)}], rows[Max(s)])

LEMMA GroupsAreLayers ==
  ASSUME NEW config, NEW u
  PROVE  ByGroups(config, u) = Layers(groupsOf[u], config)[groupsOf[u]]
BY Zenon DEF ByGroups, MapThenFoldSet, Layers, Layered, Apply

LEMMA LayersUpToExist ==
  ASSUME NEW config, NEW S \in SUBSET Nat, IsFiniteSet(S), NEW n \in Nat
  PROVE  \E it : LayeredUpTo(S, config, n, it)
<1> DEFINE Bad == {m \in Nat : ~ \E it : LayeredUpTo(S, config, m, it)}
<1> SUFFICES Bad = {} OBVIOUS
<1> SUFFICES ASSUME Bad # {} PROVE FALSE OBVIOUS
<1>1. \E x \in Bad : \A y \in Bad : ~ (<<y, x>> \in OpToRel(<, Nat))
  BY NatLessThanWellFounded, WFMin
<1>2. PICK m \in Bad : \A y \in Bad : ~ (<<y, m>> \in OpToRel(<, Nat))
  BY <1>1
<1>3. \A y \in Bad : ~(y < m)
  BY <1>2 DEF OpToRel
<1>4. \A s \in SUBSET S : IsFiniteSet(s) /\ Cardinality(s) \in Nat /\ s \in SUBSET Nat
  BY FS_Subset, FS_CardinalityType
<1>5. m # 0
  <2> DEFINE g == [s \in UpTo(S, 0) |-> config]
  <2>1. \A s \in UpTo(S, 0) : s = {}
    BY <1>4, FS_EmptySet DEF UpTo
  <2>2. g = [s \in UpTo(S, 0) |-> IF s = {} THEN config ELSE Override(g[s \ {Max(s)}], rows[Max(s)])]
    BY <2>1
  <2> QED BY <2>2 DEF LayeredUpTo
<1>6. m - 1 \in Nat /\ m - 1 \notin Bad
  BY <1>3, <1>5
<1>7. PICK g : LayeredUpTo(S, config, m - 1, g)
  BY <1>6
<1> DEFINE h == [s \in UpTo(S, m) |-> IF s = {} THEN config ELSE Override(g[s \ {Max(s)}], rows[Max(s)])]
<1>8. ASSUME NEW s \in UpTo(S, m), s # {}
      PROVE  s \ {Max(s)} \in UpTo(S, m - 1) /\ s \ {Max(s)} \in UpTo(S, m)
  <2>2. s \in SUBSET S /\ Cardinality(s) <= m BY DEF UpTo
  <2>1. Max(s) \in s BY <1>4, <1>8, <2>2, HighestIs
  <2>3. Cardinality(s \ {Max(s)}) = Cardinality(s) - 1
    BY <1>4, <2>1, <2>2, FS_RemoveElement
  <2>4. s \ {Max(s)} \in SUBSET S BY <2>2
  <2>5. Cardinality(s \ {Max(s)}) <= m - 1 /\ Cardinality(s \ {Max(s)}) <= m
    <3>1. Cardinality(s) \in Nat /\ m \in Nat BY <1>4, <2>2
    <3> QED BY <2>2, <2>3, <3>1
  <2> QED BY <2>4, <2>5 DEF UpTo
<1>9. ASSUME NEW s \in UpTo(S, m), s # {}
      PROVE  h[s \ {Max(s)}] = g[s \ {Max(s)}]
  <2> DEFINE t == s \ {Max(s)}
  <2>1. t \in UpTo(S, m - 1) /\ t \in UpTo(S, m) BY <1>8, <1>9
  <2>2. h[t] = Layer(g, config, t) BY <2>1 DEF Layer
  <2>3. g[t] = Layer(g, config, t)
    BY <1>7, <2>1, Zenon DEF LayeredUpTo, Layer
  <2> QED BY <2>2, <2>3
<1>10. h = [s \in UpTo(S, m) |-> IF s = {} THEN config ELSE Override(h[s \ {Max(s)}], rows[Max(s)])]
  BY <1>9
<1>11. LayeredUpTo(S, config, m, h) BY <1>10 DEF LayeredUpTo
<1> QED BY <1>2, <1>11

LEMMA LayersAre ==
  ASSUME NEW config, NEW S \in SUBSET Nat, IsFiniteSet(S), NEW s \in SUBSET S
  PROVE  Layers(S, config)[s] = Layer(Layers(S, config), config, s)
<1>1. Cardinality(S) \in Nat /\ \A x \in SUBSET S : Cardinality(x) <= Cardinality(S)
  BY FS_Subset, FS_CardinalityType
<1>2. UpTo(S, Cardinality(S)) = SUBSET S
  BY <1>1 DEF UpTo
<1>3. PICK g : LayeredUpTo(S, config, Cardinality(S), g)
  BY <1>1, LayersUpToExist
<1>4. Layered(S, config, g)
  BY <1>2, <1>3, Zenon DEF Layered, LayeredUpTo
<1>5. Layered(S, config, Layers(S, config))
  BY <1>4, Zenon DEF Layers
<1>6. ASSUME NEW it, Layered(S, config, it)
      PROVE  it[s] = Layer(it, config, s)
  BY <1>6, Zenon DEF Layered, Layer
<1> QED BY <1>5, <1>6, Zenon

(* What the groups set, over a config: the highest that sets a parameter.   *)
Configs == [Params -> Settable]
Setting(s, k) == {g \in s : SetBy(g, k)}
Top(s) == CHOOSE g \in s : \A h \in s : h <= g
Grouped(s, config, k) == IF Setting(s, k) # {} THEN rows[Top(Setting(s, k))][k] ELSE config[k]

RowsTyped == rows \in [Scopes -> Configs \cup {NoRow}]

LEMMA OverrideIs ==
  ASSUME RowsTyped, NEW config \in Configs, NEW s \in Scopes
  PROVE  /\ Override(config, rows[s]) \in Configs
         /\ \A k \in Params : Override(config, rows[s])[k] = IF SetBy(s, k) THEN rows[s][k] ELSE config[k]
<1>1. \A k \in Params : SetBy(s, k) => rows[s][k] \in Settable
  BY DEF RowsTyped, SetBy, NoRow, Configs
<1>2. \A k \in Params : Override(config, rows[s])[k] = IF SetBy(s, k) THEN rows[s][k] ELSE config[k]
  BY DEF Override, SetBy
<1>3. Override(config, rows[s]) = [k \in Params |-> IF SetBy(s, k) THEN rows[s][k] ELSE config[k]]
  BY DEF Override, SetBy
<1>4. \A k \in Params : (IF SetBy(s, k) THEN rows[s][k] ELSE config[k]) \in Settable
  BY <1>1 DEF Configs
<1> QED BY <1>2, <1>3, <1>4 DEF Configs

LEMMA TopIs ==
  ASSUME NEW S \in SUBSET Nat, IsFiniteSet(S), S # {}
  PROVE  Top(S) \in S /\ \A m \in S : (\A x \in S : x <= m) => m = Top(S)
<1>1. \E g \in S : \A h \in S : h <= g
  BY HighestIs
<1>2. Top(S) \in S /\ \A h \in S : h <= Top(S)
  BY <1>1 DEF Top
<1>3. \A x, y \in S : x <= y /\ y <= x => x = y
  <2> SUFFICES ASSUME NEW x \in S, NEW y \in S PROVE x <= y /\ y <= x => x = y OBVIOUS
  <2>1. x \in Nat /\ y \in Nat OBVIOUS
  <2> QED BY <2>1
<1>4. PICK top : top = Top(S) OBVIOUS
<1>5. top \in S /\ \A h \in S : h <= top BY <1>2, <1>4
<1>6. \A m \in S : (\A x \in S : x <= m) => m = top BY <1>3, <1>5, Zenon
<1> QED BY <1>4, <1>5, <1>6

LEMMA LayersSet ==
  ASSUME RowsTyped, NEW config \in Configs, NEW S \in SUBSET Groups, NEW s \in SUBSET S
  PROVE  /\ Layers(S, config)[s] \in Configs
         /\ \A k \in Params : Layers(S, config)[s][k] = Grouped(s, config, k)
<1> DEFINE it == Layers(S, config)
           Right(r) == it[r] \in Configs /\ \A k \in Params : it[r][k] = Grouped(r, config, k)
           Bad == {r \in SUBSET S : ~Right(r)}
<1>0. S \in SUBSET Nat /\ IsFiniteSet(S)
  BY SettingsAssumption, FS_Subset
<1> SUFFICES Bad = {} OBVIOUS
<1> SUFFICES ASSUME Bad # {} PROVE FALSE OBVIOUS
<1>1. \E r \in Bad : \A t \in SUBSET r : t # r => t \notin Bad
  <2>1. Bad \in SUBSET (SUBSET S) OBVIOUS
  <2> HIDE DEF Bad
  <2> QED BY <1>0, <2>1, SmallestOf
<1>2. PICK r \in Bad : \A t \in SUBSET r : t # r => t \notin Bad
  BY <1>1
<1>3. r \in SUBSET S /\ r \in SUBSET Nat /\ IsFiniteSet(r) /\ ~Right(r)
  BY <1>0, FS_Subset
<1>4. it[r] = Layer(it, config, r)
  BY <1>0, <1>3, LayersAre
<1> HIDE DEF it
<1>5. CASE r = {}
  <2>1. it[r] = config
    BY <1>4, <1>5 DEF Layer
  <2>2. \A k \in Params : Grouped(r, config, k) = config[k]
    BY <1>5 DEF Grouped, Setting
  <2> QED BY <1>3, <2>1, <2>2
<1>6. CASE r # {}
  <2>1. PICK m : m = Max(r)
    OBVIOUS
  <2>2. m \in r /\ \A x \in r : x <= m
    BY <1>3, <1>6, <2>1, HighestIs
  <2> DEFINE q == r \ {m}
  <2>3. Right(q)
    <3>1. q \in SUBSET r /\ q # r /\ q \in SUBSET S
      BY <1>3, <2>2
    <3> QED BY <1>2, <3>1
  <2>4. it[r] = Override(it[q], rows[m])
    BY <1>4, <1>6, <2>1 DEF Layer
  <2>5. m \in Scopes
    BY <1>3, <2>2 DEF Scopes
  <2>6. PICK was : was = it[q]
    OBVIOUS
  <2>7. was \in Configs /\ \A k \in Params : was[k] = Grouped(q, config, k)
    BY <2>3, <2>6
  <2>8. /\ Override(was, rows[m]) \in Configs
        /\ \A k \in Params : Override(was, rows[m])[k] = IF SetBy(m, k) THEN rows[m][k] ELSE was[k]
    BY <2>5, <2>7, OverrideIs
  <2>9. ASSUME NEW k \in Params PROVE Override(was, rows[m])[k] = Grouped(r, config, k)
    <3>1. CASE SetBy(m, k)
      <4>1. m \in Setting(r, k) /\ \A x \in Setting(r, k) : x <= m
        BY <2>2, <3>1 DEF Setting
      <4>2. Setting(r, k) \in SUBSET Nat /\ IsFiniteSet(Setting(r, k)) /\ Setting(r, k) # {}
        BY <1>3, <4>1, FS_Subset DEF Setting
      <4>3. m = Top(Setting(r, k))
        BY <4>1, <4>2, TopIs
      <4> QED BY <2>8, <3>1, <4>2, <4>3 DEF Grouped
    <3>2. CASE ~SetBy(m, k)
      <4>1. Setting(r, k) = Setting(q, k)
        BY <3>2 DEF Setting
      <4> QED BY <2>7, <2>8, <3>2, <4>1 DEF Grouped
    <3> QED BY <3>1, <3>2
  <2>10. Right(r)
    BY <2>4, <2>6, <2>8, <2>9
  <2> QED BY <1>3, <2>10
<1> QED BY <1>5, <1>6

(* ByGroups is what the property says: the highest group that sets it wins. *)
LEMMA ByGroupsIs ==
  ASSUME RowsTyped, NEW config \in Configs, NEW u, groupsOf[u] \in SUBSET Groups
  PROVE  /\ ByGroups(config, u) \in Configs
         /\ \A k \in Params : ByGroups(config, u)[k] = Grouped(groupsOf[u], config, k)
BY GroupsAreLayers, LayersSet

-----------------------------------------------------------------------------
Epochs == [config : Nat, rights : Nat]
SessionRec == [config : Configs, epochs : Epochs, clean : BOOLEAN]
JobRec ==
  [at : {"global", "group", "own", "stamp", "keep", "serve", "write", "bump"}, user : People, todo : Saves,
   own : BOOLEAN, config : Configs, epochs : Epochs, clean : BOOLEAN]
Bumping == {"bump", "bump rights"}
Short == {Resting, [at |-> "bump", todo |-> NoRow], [at |-> "bump rights"]}

Lags(e) == e \in Epochs /\ e.config <= epochs.config /\ e.rights <= epochs.rights
Pending == \E t \in Goroutines : job[t].at \in Bumping
Effects(config, u) == \A k \in Params : config[k] = Effective(u, k)
Truth(s, u) == s.clean /\ s.epochs = epochs => Pending \/ Effects(s.config, u)
PageTruth(s, u) ==
  s.clean /\ s.epochs = epochs =>
    Pending \/ \A k \in Params : Defaults[k] # Unset => s.config[k] = Effective(u, k)

(* What a resolution holds before each of its levels.                       *)
ForAll(k) == IF SetBy(Everyone, k) THEN rows[Everyone][k] ELSE Defaults[k]
ForGroups(u, k) ==
  IF Setting(groupsOf[u], k) # {} THEN rows[Top(Setting(groupsOf[u], k))][k] ELSE ForAll(k)
Stage(j) ==
  /\ j.at = "global" => \A k \in Params : j.config[k] = Defaults[k]
  /\ j.at = "group" => \A k \in Params : j.config[k] = ForAll(k)
  /\ j.at = "own" => \A k \in Params : j.config[k] = ForGroups(j.user, k)
  /\ j.at = "stamp" => Effects(j.config, j.user)

JobOK(j) ==
  \/ j \in Short
  \/ /\ j \in JobRec /\ Lags(j.epochs)
     /\ j.todo # NoRow \/ j.at \in {"group", "own"} => j.user \in Members
     /\ Resolving(j) /\ j.clean => Stage(j)
     /\ ~Resolving(j) => Truth(j, j.user)

SettingsTypes ==
  /\ RowsTyped /\ groupsOf \in [Members -> SUBSET Groups] /\ epochs \in Epochs
  /\ kept \in [People -> SessionRec] /\ page \in [People -> SessionRec] /\ DOMAIN job = Goroutines
SessionsOK ==
  \A u \in People : /\ Lags(kept[u].epochs) /\ Truth(kept[u], u)
                    /\ Lags(page[u].epochs) /\ PageTruth(page[u], u)
SettingsInv == SettingsTypes /\ SessionsOK /\ \A t \in Goroutines : JobOK(job[t])

LEMMA ShortIs ==
  ASSUME NEW j \in Short
  PROVE  j.at \in {"idle"} \cup Bumping /\ (j.at = "bump" => j.todo = NoRow)
<1>1. CASE j = Resting BY <1>1 DEF Resting
<1>2. CASE j = [at |-> "bump", todo |-> NoRow] BY <1>2 DEF Bumping
<1>3. CASE j = [at |-> "bump rights"] BY <1>3 DEF Bumping
<1> QED BY <1>1, <1>2, <1>3 DEF Short

(* What stays true of all other jobs and of every session.                  *)
Carried(t) ==
  /\ \A x \in Goroutines \ {t} : JobOK(job[x])'
  /\ \A s, u : Lags(s.epochs) /\ Truth(s, u) => (Lags(s.epochs) /\ Truth(s, u))'
  /\ \A s, u : Lags(s.epochs) /\ PageTruth(s, u) => (Lags(s.epochs) /\ PageTruth(s, u))'

LEMMA SameEffects ==
  ASSUME UNCHANGED <<rows, groupsOf>>
  PROVE  /\ \A u, k : Effective(u, k)' = Effective(u, k)
         /\ \A config, u : Effects(config, u)' = Effects(config, u)
         /\ \A j : Stage(j)' = Stage(j)
<1>1. \A u, k : Effective(u, k)' = Effective(u, k)
  BY DEF Effective, SetBy
<1>2. \A config, u : Effects(config, u)' = Effects(config, u)
  BY <1>1 DEF Effects
<1>3. \A k : ForAll(k)' = ForAll(k)
  BY DEF ForAll, SetBy
<1>4. \A u, k : Setting(groupsOf[u], k)' = Setting(groupsOf[u], k)
  BY DEF Setting, SetBy
<1>5. \A u, k : ForGroups(u, k)' = ForGroups(u, k)
  BY <1>3, <1>4 DEF ForGroups
<1>6. \A j : Stage(j)' = Stage(j)
  BY <1>2, <1>3, <1>5 DEF Stage
<1> QED BY <1>1, <1>2, <1>6

(* A step that reads, or writes what only the session or the page holds.    *)
LEMMA ReadCarries ==
  ASSUME SettingsInv, NEW t \in Goroutines, NEW j, job' = [job EXCEPT ![t] = j],
         UNCHANGED <<rows, groupsOf, epochs>>, job[t].at \notin Bumping
  PROVE  Carried(t) /\ DOMAIN job' = Goroutines /\ job'[t] = j
<1>1. DOMAIN job' = Goroutines /\ job'[t] = j /\ \A x \in Goroutines \ {t} : job'[x] = job[x]
  BY DEF SettingsInv, SettingsTypes
<1>2. Pending => Pending'
  BY <1>1 DEF Pending
<1>3. \A e : Lags(e)' = Lags(e)
  BY DEF Lags
<1>4. \A s, u : Truth(s, u) => Truth(s, u)'
  BY <1>2, SameEffects, Zenon DEF Truth
<1>5. \A s, u : PageTruth(s, u) => PageTruth(s, u)'
  BY <1>2, SameEffects DEF PageTruth
<1>6. ASSUME NEW x \in Goroutines \ {t} PROVE JobOK(job[x])'
  <2>1. JobOK(job[x]) /\ job'[x] = job[x]
    BY <1>1 DEF SettingsInv
  <2>2. \A y : JobOK(y) => JobOK(y)'
    BY <1>3, <1>4, SameEffects DEF JobOK
  <2> QED BY <2>1, <2>2
<1> QED BY <1>1, <1>3, <1>4, <1>5, <1>6 DEF Carried

(* A write to the rows or the groups: its epoch is yet to move.             *)
LEMMA WriteCarries ==
  ASSUME SettingsInv, NEW t \in Goroutines, NEW j, j.at \in Bumping,
         job' = Disturbed([job EXCEPT ![t] = j]), UNCHANGED epochs
  PROVE  Carried(t) /\ DOMAIN job' = Goroutines /\ job'[t] = j
<1> DEFINE js == [job EXCEPT ![t] = j]
<1>1. DOMAIN js = Goroutines /\ js[t] = j /\ \A x \in Goroutines \ {t} : js[x] = job[x]
  BY DEF SettingsInv, SettingsTypes
<1> HIDE DEF js
<1>2. /\ DOMAIN job' = Goroutines
      /\ \A x \in Goroutines : job'[x] = IF Resolving(js[x]) THEN [js[x] EXCEPT !.clean = FALSE] ELSE js[x]
  BY DEF Disturbed, js
<1>3. job'[t] = j
  <2>1. ~Resolving(js[t])
    BY <1>1 DEF Resolving, Bumping
  <2> QED BY <1>1, <1>2, <2>1
<1>4. Pending'
  BY <1>3 DEF Pending
<1>5. \A e : Lags(e)' = Lags(e)
  BY DEF Lags
<1>6. /\ \A s, u : Truth(s, u)'
      /\ \A s, u : PageTruth(s, u)'
  BY <1>4 DEF Truth, PageTruth
<1>7. ASSUME NEW x \in Goroutines \ {t} PROVE JobOK(job[x])'
  <2>1. JobOK(job[x]) /\ js[x] = job[x]
    BY <1>1 DEF SettingsInv
  <2>2. CASE ~Resolving(job[x])
    <3>1. job'[x] = job[x]
      BY <1>2, <2>1, <2>2
    <3>2. \A y : JobOK(y) /\ ~Resolving(y) => JobOK(y)'
      BY <1>5, <1>6 DEF JobOK
    <3> QED BY <2>1, <2>2, <3>1, <3>2
  <2>3. CASE Resolving(job[x])
    <3>1. job'[x] = [job[x] EXCEPT !.clean = FALSE]
      BY <1>2, <2>1, <2>3
    <3>2. PICK y : y = job[x]
      OBVIOUS
    <3>3. PICK z : z = [y EXCEPT !.clean = FALSE]
      OBVIOUS
    <3>4. y \notin Short
      BY <2>3, <3>2, ShortIs DEF Resolving, Bumping
    <3>5. y \in JobRec /\ Lags(y.epochs) /\ (y.todo # NoRow \/ y.at \in {"group", "own"} => y.user \in Members)
      BY <2>1, <3>2, <3>4 DEF JobOK
    <3>6. z \in JobRec /\ ~z.clean /\ z.at = y.at /\ z.todo = y.todo /\ z.user = y.user /\ z.epochs = y.epochs
      BY <3>3, <3>5 DEF JobRec
    <3>7. JobOK(z)'
      BY <1>5, <1>6, <3>5, <3>6 DEF JobOK
    <3> QED BY <3>1, <3>2, <3>3, <3>7
  <2> QED BY <2>2, <2>3
<1> QED BY <1>2, <1>3, <1>5, <1>6, <1>7 DEF Carried

(* An epoch that moves leaves every session behind.                         *)
LEMMA BumpCarries ==
  ASSUME SettingsInv, NEW t \in Goroutines, NEW j, job' = [job EXCEPT ![t] = j],
         UNCHANGED <<rows, groupsOf>>,
         epochs' \in Epochs, epochs' # epochs, epochs'.config >= epochs.config, epochs'.rights >= epochs.rights
  PROVE  Carried(t) /\ DOMAIN job' = Goroutines /\ job'[t] = j
<1>1. DOMAIN job' = Goroutines /\ job'[t] = j /\ \A x \in Goroutines \ {t} : job'[x] = job[x]
  BY DEF SettingsInv, SettingsTypes
<1>2. epochs \in Epochs
  BY DEF SettingsInv, SettingsTypes
<1>3. \A e : Lags(e) => Lags(e)' /\ e # epochs'
  <2> SUFFICES ASSUME NEW e, Lags(e) PROVE Lags(e)' /\ e # epochs'
    OBVIOUS
  <2>1. /\ e.config \in Nat /\ e.rights \in Nat /\ epochs.config \in Nat /\ epochs.rights \in Nat
        /\ epochs'.config \in Nat /\ epochs'.rights \in Nat
        /\ e.config <= epochs.config /\ e.rights <= epochs.rights
    BY <1>2 DEF Lags, Epochs
  <2>2. Lags(e)'
    BY <2>1 DEF Lags
  <2>3. ASSUME e = epochs' PROVE FALSE
    <3>1. epochs'.config = epochs.config /\ epochs'.rights = epochs.rights
      BY <2>1, <2>3
    <3>2. epochs' = epochs
      BY <1>2, <3>1 DEF Epochs
    <3> QED BY <3>2
  <2> QED BY <2>2, <2>3
<1>4. /\ \A s, u : Lags(s.epochs) => Truth(s, u)'
      /\ \A s, u : Lags(s.epochs) => PageTruth(s, u)'
  BY <1>3 DEF Truth, PageTruth
<1>5. ASSUME NEW x \in Goroutines \ {t} PROVE JobOK(job[x])'
  <2>1. JobOK(job[x]) /\ job'[x] = job[x]
    BY <1>1 DEF SettingsInv
  <2>2. \A y : JobOK(y) => JobOK(y)'
    BY <1>3, <1>4, SameEffects DEF JobOK
  <2> QED BY <2>1, <2>2
<1> QED BY <1>1, <1>3, <1>4, <1>5 DEF Carried

(* The sessions, where none is touched.                                     *)
LEMMA SessionsCarried ==
  ASSUME SettingsInv, NEW t \in Goroutines, Carried(t), UNCHANGED <<kept, page>>
  PROVE  SessionsOK'
<1> SUFFICES ASSUME NEW u \in People
             PROVE  (/\ Lags(kept[u].epochs) /\ Truth(kept[u], u)
                     /\ Lags(page[u].epochs) /\ PageTruth(page[u], u))'
  BY DEF SessionsOK
<1>1. PICK s : s = kept[u]
  OBVIOUS
<1>2. PICK p : p = page[u]
  OBVIOUS
<1>3. Lags(s.epochs) /\ Truth(s, u) /\ Lags(p.epochs) /\ PageTruth(p, u)
  BY <1>1, <1>2 DEF SettingsInv, SessionsOK
<1>4. (Lags(s.epochs) /\ Truth(s, u) /\ Lags(p.epochs) /\ PageTruth(p, u))'
  BY <1>3 DEF Carried
<1>5. kept'[u] = s /\ page'[u] = p
  BY <1>1, <1>2
<1> QED BY <1>4, <1>5

LEMMA Settled ==
  ASSUME SettingsInv, NEW t \in Goroutines, Carried(t), UNCHANGED <<kept, page>>,
         DOMAIN job' = Goroutines, NEW j, job'[t] = j, JobOK(j)',
         RowsTyped', groupsOf' \in [Members -> SUBSET Groups], epochs' \in Epochs
  PROVE  SettingsInv'
<1>1. SessionsOK'
  BY SessionsCarried
<1>2. \A x \in Goroutines : JobOK(job[x])'
  BY DEF Carried
<1>3. SettingsTypes'
  BY DEF SettingsInv, SettingsTypes
<1> QED BY <1>1, <1>2, <1>3 DEF SettingsInv

(* The same, where the tables and epochs stay.                              *)
LEMMA ReadSettled ==
  ASSUME SettingsInv, NEW t \in Goroutines, NEW j, job' = [job EXCEPT ![t] = j], JobOK(j)',
         UNCHANGED <<rows, groupsOf, epochs, kept, page>>, job[t].at \notin Bumping
  PROVE  SettingsInv'
<1>1. Carried(t) /\ DOMAIN job' = Goroutines /\ job'[t] = j
  BY ReadCarries
<1>2. RowsTyped' /\ groupsOf' \in [Members -> SUBSET Groups] /\ epochs' \in Epochs
  BY DEF SettingsInv, SettingsTypes, RowsTyped
<1> QED BY <1>1, <1>2, Settled

(* A job under way, by its fields.                                          *)
LEMMA JobIs ==
  ASSUME SettingsInv, NEW t \in Goroutines, NEW j, j = job[t], j.at \notin {"idle"} \cup Bumping
  PROVE  /\ j \in JobRec /\ Lags(j.epochs)
         /\ j.todo # NoRow \/ j.at \in {"group", "own"} => j.user \in Members
         /\ Resolving(j) /\ j.clean => Stage(j)
         /\ ~Resolving(j) => Truth(j, j.user)
<1>1. JobOK(j)
  BY DEF SettingsInv
<1>2. j \notin Short
  BY ShortIs
<1> QED BY <1>1, <1>2 DEF JobOK

LEMMA ArriveKeeps ==
  ASSUME SettingsInv, NEW t \in Goroutines, NEW u \in People, NEW todo \in Saves, Arrive(t, u, todo)
  PROVE  SettingsInv'
<1>1. PICK s : s = kept[u]
  OBVIOUS
<1>2. PICK j : j = [at |-> IF Outdated(s) THEN "global" ELSE "keep", user |-> u, todo |-> todo, own |-> FALSE,
                    config |-> IF Outdated(s) THEN Defaults ELSE s.config,
                    epochs |-> IF Outdated(s) THEN [s.epochs EXCEPT !.rights = epochs.rights] ELSE s.epochs,
                    clean |-> Outdated(s) \/ s.clean]
  OBVIOUS
<1>3. /\ job' = [job EXCEPT ![t] = j] /\ job[t] = Resting /\ (todo = NoRow \/ u \in Members)
      /\ UNCHANGED <<rows, groupsOf, epochs, kept, page>>
  BY <1>1, <1>2 DEF Arrive
<1>4. job[t].at \notin Bumping
  BY <1>3 DEF Resting, Bumping
<1>5. s \in SessionRec /\ Lags(s.epochs) /\ Truth(s, u) /\ epochs \in Epochs
  BY <1>1 DEF SettingsInv, SettingsTypes, SessionsOK
<1>6. Carried(t)
  BY <1>3, <1>4, ReadCarries
<1>7. JobOK(j)'
  <2>1. CASE Outdated(s)
    <3>1. /\ j.at = "global" /\ j.user = u /\ j.todo = todo /\ j.config = Defaults /\ j.clean
          /\ j.epochs = [s.epochs EXCEPT !.rights = epochs.rights]
      BY <1>2, <2>1
    <3>2. j.epochs \in Epochs /\ Lags(j.epochs)
      BY <1>5, <3>1 DEF Lags, SessionRec, Epochs
    <3>3. j \in JobRec
      <4>1. Defaults \in Configs
        BY SettingsAssumption DEF Configs
      <4>2. [s.epochs EXCEPT !.rights = epochs.rights] \in Epochs
        BY <3>1, <3>2
      <4> QED BY <1>2, <2>1, <4>1, <4>2 DEF JobRec
    <3>4. Lags(j.epochs)'
      BY <1>3, <3>2 DEF Lags
    <3>5. Stage(j)'
      BY <3>1 DEF Stage
    <3> QED BY <1>3, <3>1, <3>3, <3>4, <3>5 DEF JobOK, Resolving
  <2>2. CASE ~Outdated(s)
    <3>1. /\ j.at = "keep" /\ j.user = u /\ j.todo = todo /\ j.config = s.config /\ j.clean = s.clean
          /\ j.epochs = s.epochs
      BY <1>2, <1>5, <2>2 DEF SessionRec
    <3>2. j \in JobRec
      BY <1>2, <1>5, <2>2 DEF JobRec, SessionRec
    <3>3. (Lags(s.epochs) /\ Truth(s, u))'
      BY <1>5, <1>6 DEF Carried
    <3>4. Lags(j.epochs)' /\ Truth(j, u)'
      BY <3>1, <3>3 DEF Truth
    <3> QED BY <1>3, <3>1, <3>2, <3>4 DEF JobOK, Resolving
  <2> QED BY <2>1, <2>2
<1> QED BY <1>3, <1>4, <1>7, ReadSettled

LEMMA EffectiveIs ==
  ASSUME NEW u, NEW k
  PROVE  /\ u \notin Members => Effective(u, k) = ForAll(k)
         /\ u \in Members => Effective(u, k) = IF SetBy(u, k) THEN rows[u][k] ELSE ForGroups(u, k)
<1> DEFINE own == Setting(groupsOf[u], k)
           gs == IF u \in Members THEN own ELSE {}
<1>1. Effective(u, k) = IF u \in Members /\ SetBy(u, k) THEN rows[u][k]
                        ELSE IF gs # {} THEN rows[Top(gs)][k] ELSE ForAll(k)
  BY Zenon DEF Effective, ForAll, Setting, Top
<1>2. ForGroups(u, k) = IF own # {} THEN rows[Top(own)][k] ELSE ForAll(k)
  BY DEF ForGroups
<1> HIDE DEF own
<1> QED BY <1>1, <1>2

LEMMA LevelKeeps ==
  ASSUME SettingsInv, NEW t \in Goroutines, NEW works \in BOOLEAN, Level(t, works)
  PROVE  SettingsInv'
<1>1. PICK j : j = job[t]
  OBVIOUS
<1>2. j.at \in {"global", "group", "own"}
  BY <1>1 DEF Level
<1> DEFINE levels == CASE j.at = "global" -> Apply(j.config, rows[Everyone])
                       [] j.at = "group"  -> ByGroups(j.config, j.user)
                       [] j.at = "own"    -> Apply(j.config, rows[j.user])
<1>3. PICK config : config = IF works THEN levels ELSE j.config
  OBVIOUS
<1>4. PICK i : i = [j EXCEPT !.at = NextLevel(j), !.config = config, !.clean = j.clean /\ works]
  OBVIOUS
<1>5. UNCHANGED <<rows, groupsOf, epochs, kept, page>> /\ DOMAIN job = Goroutines
  BY DEF Level, SettingsInv, SettingsTypes
<1>6. job' = [job EXCEPT ![t] = i]
  <2>1. job' = [job EXCEPT ![t].at = NextLevel(j), ![t].config = IF works THEN levels ELSE j.config,
                           ![t].clean = j.clean /\ works]
    BY <1>1 DEF Level
  <2> HIDE DEF levels
  <2>2. job' = [job EXCEPT ![t].at = NextLevel(j), ![t].config = config, ![t].clean = j.clean /\ works]
    BY <1>3, <2>1
  <2> QED BY <1>1, <1>4, <1>5, <2>2
<1>7. /\ j \in JobRec /\ Lags(j.epochs)
      /\ j.todo # NoRow \/ j.at \in {"group", "own"} => j.user \in Members
      /\ j.clean => Stage(j)
  <2>1. j.at \notin {"idle"} \cup Bumping /\ Resolving(j)
    BY <1>2 DEF Bumping, Resolving
  <2> QED BY <1>1, <2>1, JobIs
<1>8. RowsTyped /\ groupsOf \in [Members -> SUBSET Groups] /\ j.config \in Configs
  BY <1>7 DEF SettingsInv, SettingsTypes, JobRec
<1>9. ASSUME works
      PROVE  config \in Configs /\ (j.clean => Stage(i))
  <2>1. i.at = NextLevel(j) /\ i.config = config /\ i.user = j.user
    BY <1>4, <1>7 DEF JobRec
  <2>2. CASE j.at = "global"
    <3>1. config = Override(j.config, rows[Everyone])
      BY <1>3, <1>9, <2>2 DEF Apply
    <3>2. Everyone \in Scopes
      BY DEF Scopes
    <3>3. /\ config \in Configs
          /\ \A k \in Params : config[k] = IF SetBy(Everyone, k) THEN rows[Everyone][k] ELSE j.config[k]
      BY <1>8, <3>1, <3>2, OverrideIs
    <3>4. ASSUME j.clean PROVE \A k \in Params : config[k] = ForAll(k)
      BY <1>7, <2>2, <3>3, <3>4 DEF Stage, ForAll
    <3>5. CASE j.user \in Members
      <4>1. i.at = "group"
        BY <2>1, <2>2, <3>5 DEF NextLevel
      <4> QED BY <2>1, <3>3, <3>4, <4>1 DEF Stage
    <3>6. CASE j.user \notin Members
      <4>1. i.at = "stamp"
        BY <2>1, <2>2, <3>6 DEF NextLevel
      <4>2. \A k \in Params : Effective(j.user, k) = ForAll(k)
        BY <3>6, EffectiveIs
      <4> QED BY <2>1, <3>3, <3>4, <4>1, <4>2 DEF Stage, Effects
    <3> QED BY <3>5, <3>6
  <2>3. CASE j.at = "group"
    <3>1. config = ByGroups(j.config, j.user)
      BY <1>3, <1>9, <2>3
    <3>2. groupsOf[j.user] \in SUBSET Groups
      BY <1>7, <1>8, <2>3
    <3>3. PICK u : u = j.user
      OBVIOUS
    <3>4. /\ config \in Configs
          /\ \A k \in Params : config[k] = Grouped(groupsOf[u], j.config, k)
      BY <1>8, <3>1, <3>2, <3>3, ByGroupsIs
    <3>5. ASSUME j.clean PROVE \A k \in Params : config[k] = ForGroups(u, k)
      BY <1>7, <2>3, <3>4, <3>5 DEF Stage, Grouped, ForGroups
    <3>6. i.at = "own"
      BY <2>1, <2>3 DEF NextLevel
    <3> QED BY <2>1, <3>3, <3>4, <3>5, <3>6 DEF Stage
  <2>4. CASE j.at = "own"
    <3>1. config = Override(j.config, rows[j.user])
      BY <1>3, <1>9, <2>4 DEF Apply
    <3>2. PICK u : u = j.user
      OBVIOUS
    <3>3. u \in Members /\ u \in Scopes
      BY <1>7, <2>4, <3>2 DEF Scopes
    <3>4. /\ config \in Configs
          /\ \A k \in Params : config[k] = IF SetBy(u, k) THEN rows[u][k] ELSE j.config[k]
      BY <1>8, <3>1, <3>2, <3>3, OverrideIs
    <3>5. ASSUME j.clean PROVE Effects(config, u)
      <4>1. \A k \in Params : j.config[k] = ForGroups(u, k)
        BY <1>7, <2>4, <3>2, <3>5 DEF Stage
      <4> QED BY <3>3, <3>4, <4>1, EffectiveIs DEF Effects
    <3>6. i.at = "stamp"
      BY <2>1, <2>4 DEF NextLevel
    <3> QED BY <2>1, <3>2, <3>4, <3>5, <3>6 DEF Stage
  <2> QED BY <1>2, <2>2, <2>3, <2>4
<1>10. config \in Configs
  BY <1>3, <1>8, <1>9
<1>11. /\ i \in JobRec /\ i.epochs = j.epochs /\ i.todo = j.todo /\ i.user = j.user /\ i.at = NextLevel(j)
       /\ i.clean = (j.clean /\ works)
  <2>1. NextLevel(j) \in {"group", "own", "stamp"}
    BY <1>2 DEF NextLevel
  <2>2. (j.clean /\ works) \in BOOLEAN
    BY <1>7 DEF JobRec
  <2> QED BY <1>4, <1>7, <1>10, <2>1, <2>2 DEF JobRec
<1>12. Resolving(i) /\ (i.at \in {"group", "own"} => i.user \in Members)
  BY <1>2, <1>7, <1>11 DEF NextLevel, Resolving
<1>13. JobOK(i)'
  <2>1. Lags(i.epochs)'
    BY <1>5, <1>7, <1>11 DEF Lags
  <2>2. i.clean => Stage(i)
    BY <1>9, <1>11
  <2>3. i.clean => Stage(i)'
    BY <1>5, <2>2, SameEffects
  <2> QED BY <1>7, <1>11, <1>12, <2>1, <2>3 DEF JobOK
<1>14. job[t].at \notin Bumping
  BY <1>1, <1>2 DEF Bumping
<1> QED BY <1>5, <1>6, <1>13, <1>14, ReadSettled

LEMMA StampKeeps ==
  ASSUME SettingsInv, NEW t \in Goroutines, Stamp(t)
  PROVE  SettingsInv'
<1>1. PICK j : j = job[t]
  OBVIOUS
<1>2. PICK i : i = [j EXCEPT !.at = "keep", !.epochs = [j.epochs EXCEPT !.config = epochs.config]]
  OBVIOUS
<1>3. /\ j.at = "stamp" /\ UNCHANGED <<rows, groupsOf, epochs, kept, page>> /\ DOMAIN job = Goroutines
      /\ job' = [job EXCEPT ![t].at = "keep", ![t].epochs.config = epochs.config]
      /\ epochs \in Epochs
  BY <1>1 DEF Stamp, SettingsInv, SettingsTypes
<1>4. /\ j \in JobRec /\ Lags(j.epochs) /\ (j.todo # NoRow => j.user \in Members) /\ (j.clean => Stage(j))
  <2>1. j.at \notin {"idle"} \cup Bumping /\ Resolving(j)
    BY <1>3 DEF Bumping, Resolving
  <2> QED BY <1>1, <2>1, JobIs
<1>5. job' = [job EXCEPT ![t] = i]
  BY <1>1, <1>2, <1>3
<1>6. [j.epochs EXCEPT !.config = epochs.config] \in Epochs
  BY <1>3, <1>4 DEF JobRec, Epochs
<1>7. /\ i \in JobRec /\ i.at = "keep" /\ i.todo = j.todo /\ i.user = j.user /\ i.config = j.config
      /\ i.clean = j.clean /\ i.epochs = [j.epochs EXCEPT !.config = epochs.config]
  BY <1>2, <1>4, <1>6 DEF JobRec
<1>8. Lags(i.epochs)
  BY <1>3, <1>4, <1>6, <1>7 DEF Lags, Epochs
<1>9. i.clean => Effects(i.config, i.user)
  BY <1>3, <1>4, <1>7 DEF Stage
<1>10. Truth(i, i.user)'
  <2>1. i.clean => Effects(i.config, i.user)'
    BY <1>3, <1>9, SameEffects
  <2> QED BY <2>1 DEF Truth
<1>11. JobOK(i)'
  <2>1. Lags(i.epochs)'
    BY <1>3, <1>8 DEF Lags
  <2> QED BY <1>4, <1>7, <1>10, <2>1 DEF JobOK, Resolving
<1>12. job[t].at \notin Bumping
  BY <1>1, <1>3 DEF Bumping
<1> QED BY <1>3, <1>5, <1>11, <1>12, ReadSettled

LEMMA KeepKeeps ==
  ASSUME SettingsInv, NEW t \in Goroutines, Keep(t)
  PROVE  SettingsInv'
<1>1. PICK j : j = job[t]
  OBVIOUS
<1>2. PICK i : i = [j EXCEPT !.at = "serve"]
  OBVIOUS
<1>3. /\ j.at = "keep" /\ UNCHANGED <<rows, groupsOf, epochs, page>> /\ DOMAIN job = Goroutines
      /\ job' = [job EXCEPT ![t] = i] /\ kept' = [kept EXCEPT ![j.user] = Made(j)]
  BY <1>1, <1>2 DEF Keep, SettingsInv, SettingsTypes
<1>4. j \in JobRec /\ Lags(j.epochs) /\ (j.todo # NoRow => j.user \in Members) /\ Truth(j, j.user)
  <2>1. j.at \notin {"idle"} \cup Bumping /\ ~Resolving(j)
    BY <1>3 DEF Bumping, Resolving
  <2> QED BY <1>1, <2>1, JobIs
<1>5. job[t].at \notin Bumping
  BY <1>1, <1>3 DEF Bumping
<1>6. Carried(t) /\ DOMAIN job' = Goroutines /\ job'[t] = i
  BY <1>3, <1>5, ReadCarries
<1>7. PICK m : m = Made(j)
  OBVIOUS
<1>8. /\ m \in SessionRec /\ m.config = j.config /\ m.epochs = j.epochs /\ m.clean = j.clean
  BY <1>4, <1>7 DEF Made, JobRec, SessionRec
<1>9. (Lags(j.epochs) /\ Truth(j, j.user))'
  BY <1>4, <1>6 DEF Carried
<1>10. /\ i \in JobRec /\ i.at = "serve" /\ i.todo = j.todo /\ i.user = j.user /\ i.config = j.config
       /\ i.clean = j.clean /\ i.epochs = j.epochs
  BY <1>2, <1>4 DEF JobRec
<1>11. (Lags(m.epochs) /\ Truth(m, j.user) /\ Lags(i.epochs) /\ Truth(i, j.user))'
  BY <1>8, <1>9, <1>10 DEF Truth
<1>12. JobOK(i)'
  BY <1>4, <1>10, <1>11 DEF JobOK, Resolving
<1>13. \A x \in Goroutines : JobOK(job[x])'
  BY <1>6, <1>12 DEF Carried
<1>14. kept \in [People -> SessionRec] /\ j.user \in People /\ page \in [People -> SessionRec]
  BY <1>4 DEF SettingsInv, SettingsTypes, JobRec
<1>15. kept' \in [People -> SessionRec]
  BY <1>3, <1>7, <1>8, <1>14
<1>16. SettingsTypes'
  BY <1>3, <1>6, <1>15 DEF SettingsInv, SettingsTypes, RowsTyped
<1>17. SessionsOK'
  <2> SUFFICES ASSUME NEW u \in People
               PROVE  (/\ Lags(kept[u].epochs) /\ Truth(kept[u], u)
                       /\ Lags(page[u].epochs) /\ PageTruth(page[u], u))'
    BY DEF SessionsOK
  <2>1. PICK s : s = kept[u]
    OBVIOUS
  <2>2. PICK p : p = page[u]
    OBVIOUS
  <2>3. Lags(s.epochs) /\ Truth(s, u) /\ Lags(p.epochs) /\ PageTruth(p, u)
    BY <2>1, <2>2 DEF SettingsInv, SessionsOK
  <2>4. (Lags(s.epochs) /\ Truth(s, u) /\ Lags(p.epochs) /\ PageTruth(p, u))'
    BY <1>6, <2>3 DEF Carried
  <2>5. page'[u] = p /\ (u # j.user => kept'[u] = s) /\ (u = j.user => kept'[u] = m)
    BY <1>3, <1>7, <1>14, <2>1, <2>2
  <2> QED BY <1>11, <2>4, <2>5
<1> QED BY <1>13, <1>16, <1>17 DEF SettingsInv

(* A parameter with a default is never left without a value.                *)
LEMMA EffectiveIsSet ==
  ASSUME SettingsTypes, NEW u \in People, NEW k \in Params, Defaults[k] # Unset
  PROVE  Effective(u, k) # Unset
<1>1. ForAll(k) # Unset
  BY DEF ForAll, SetBy
<1>2. ASSUME u \in Members PROVE ForGroups(u, k) # Unset
  <2>1. groupsOf[u] \in SUBSET Groups
    BY <1>2 DEF SettingsTypes
  <2>2. Setting(groupsOf[u], k) \in SUBSET Nat /\ IsFiniteSet(Setting(groupsOf[u], k))
    BY <2>1, SettingsAssumption, FS_Subset DEF Setting
  <2>3. CASE Setting(groupsOf[u], k) # {}
    <3>1. PICK g : g = Top(Setting(groupsOf[u], k))
      OBVIOUS
    <3>2. g \in Setting(groupsOf[u], k)
      BY <2>2, <2>3, <3>1, TopIs
    <3>3. rows[g][k] # Unset
      BY <3>2 DEF Setting, SetBy
    <3> QED BY <2>3, <3>1, <3>3 DEF ForGroups
  <2>4. CASE Setting(groupsOf[u], k) = {}
    BY <1>1, <2>4 DEF ForGroups
  <2> QED BY <2>3, <2>4
<1> QED BY <1>1, <1>2, EffectiveIs DEF SetBy

LEMMA ServeConfigKeeps ==
  ASSUME SettingsInv, NEW t \in Goroutines, ServeConfig(t)
  PROVE  SettingsInv'
<1>1. PICK j : j = job[t]
  OBVIOUS
<1>2. PICK m : m = [Made(j) EXCEPT !.config = Override(page[j.user].config, j.config)]
  OBVIOUS
<1>3. /\ j.at = "serve" /\ UNCHANGED <<rows, groupsOf, epochs, kept>> /\ DOMAIN job = Goroutines
      /\ job' = [job EXCEPT ![t] = Resting] /\ page' = [page EXCEPT ![j.user] = m]
  BY <1>1, <1>2 DEF ServeConfig, SettingsInv, SettingsTypes
<1>4. j \in JobRec /\ Lags(j.epochs) /\ Truth(j, j.user)
  <2>1. j.at \notin {"idle"} \cup Bumping /\ ~Resolving(j)
    BY <1>3 DEF Bumping, Resolving
  <2> QED BY <1>1, <2>1, JobIs
<1>5. job[t].at \notin Bumping
  BY <1>1, <1>3 DEF Bumping
<1>6. Carried(t) /\ DOMAIN job' = Goroutines /\ job'[t] = Resting
  BY <1>3, <1>5, ReadCarries
<1>7. kept \in [People -> SessionRec] /\ j.user \in People /\ page \in [People -> SessionRec] /\ SettingsTypes
  BY <1>4 DEF SettingsInv, SettingsTypes, JobRec
<1>8. PICK old : old = page[j.user].config
  OBVIOUS
<1>9. PICK config : config = Override(old, j.config)
  OBVIOUS
<1>10. /\ config \in Configs
       /\ \A k \in Params : j.config[k] # Unset => config[k] = j.config[k]
  <2>1. old \in [Params -> Settable] /\ j.config \in [Params -> Settable]
    BY <1>4, <1>7, <1>8 DEF SessionRec, JobRec, Configs
  <2>2. config = [k \in Params |-> IF j.config[k] # Unset THEN j.config[k] ELSE old[k]]
    BY <1>9, <2>1 DEF Override
  <2> QED BY <2>1, <2>2 DEF Configs
<1>11. m \in SessionRec /\ m.config = config /\ m.epochs = j.epochs /\ m.clean = j.clean
  BY <1>2, <1>4, <1>8, <1>9, <1>10 DEF Made, SessionRec, JobRec
<1>12. PageTruth(m, j.user)
  <2> SUFFICES ASSUME m.clean, m.epochs = epochs, ~Pending, NEW k \in Params, Defaults[k] # Unset
               PROVE  m.config[k] = Effective(j.user, k)
    BY DEF PageTruth
  <2>1. j.config[k] = Effective(j.user, k)
    BY <1>4, <1>11 DEF Truth, Effects
  <2>2. j.config[k] # Unset
    BY <1>7, <2>1, EffectiveIsSet
  <2> QED BY <1>10, <1>11, <2>1, <2>2
<1>13. (Lags(m.epochs) /\ PageTruth(m, j.user))'
  BY <1>4, <1>6, <1>11, <1>12 DEF Carried
<1>14. JobOK(Resting)'
  BY DEF JobOK, Short
<1>15. \A x \in Goroutines : JobOK(job[x])'
  BY <1>6, <1>14 DEF Carried
<1>16. page' \in [People -> SessionRec]
  BY <1>3, <1>7, <1>11
<1>17. SettingsTypes'
  BY <1>3, <1>6, <1>16 DEF SettingsInv, SettingsTypes, RowsTyped
<1>18. SessionsOK'
  <2> SUFFICES ASSUME NEW u \in People
               PROVE  (/\ Lags(kept[u].epochs) /\ Truth(kept[u], u)
                       /\ Lags(page[u].epochs) /\ PageTruth(page[u], u))'
    BY DEF SessionsOK
  <2>1. PICK s : s = kept[u]
    OBVIOUS
  <2>2. PICK p : p = page[u]
    OBVIOUS
  <2>3. Lags(s.epochs) /\ Truth(s, u) /\ Lags(p.epochs) /\ PageTruth(p, u)
    BY <2>1, <2>2 DEF SettingsInv, SessionsOK
  <2>4. (Lags(s.epochs) /\ Truth(s, u) /\ Lags(p.epochs) /\ PageTruth(p, u))'
    BY <1>6, <2>3 DEF Carried
  <2>5. kept'[u] = s /\ (u # j.user => page'[u] = p) /\ (u = j.user => page'[u] = m)
    BY <1>3, <1>7, <2>1, <2>2
  <2> QED BY <1>13, <2>4, <2>5
<1> QED BY <1>15, <1>17, <1>18 DEF SettingsInv

LEMMA SelectOwnKeeps ==
  ASSUME SettingsInv, NEW t \in Goroutines, SelectOwn(t)
  PROVE  SettingsInv'
<1>1. PICK j : j = job[t]
  OBVIOUS
<1>2. PICK i : i = [j EXCEPT !.at = "write", !.own = rows[j.user] # NoRow]
  OBVIOUS
<1>3. /\ j.at = "serve" /\ UNCHANGED <<rows, groupsOf, epochs, kept, page>> /\ DOMAIN job = Goroutines
      /\ job' = [job EXCEPT ![t].at = "write", ![t].own = rows[j.user] # NoRow]
  BY <1>1 DEF SelectOwn, SettingsInv, SettingsTypes
<1>4. /\ j \in JobRec /\ Lags(j.epochs) /\ (j.todo # NoRow => j.user \in Members) /\ Truth(j, j.user)
  <2>1. j.at \notin {"idle"} \cup Bumping /\ ~Resolving(j)
    BY <1>3 DEF Bumping, Resolving
  <2> QED BY <1>1, <2>1, JobIs
<1>5. job' = [job EXCEPT ![t] = i]
  BY <1>1, <1>2, <1>3
<1>6. /\ i \in JobRec /\ i.at = "write" /\ i.todo = j.todo /\ i.user = j.user /\ i.config = j.config
      /\ i.clean = j.clean /\ i.epochs = j.epochs
  BY <1>2, <1>4 DEF JobRec
<1>7. job[t].at \notin Bumping
  BY <1>1, <1>3 DEF Bumping
<1>8. (Lags(j.epochs) /\ Truth(j, j.user))'
  BY <1>3, <1>4, <1>5, <1>7, ReadCarries DEF Carried
<1>9. (Lags(i.epochs) /\ Truth(i, i.user))'
  BY <1>6, <1>8 DEF Truth
<1>10. JobOK(i)'
  BY <1>4, <1>6, <1>9 DEF JobOK, Resolving
<1> QED BY <1>3, <1>5, <1>7, <1>10, ReadSettled

LEMMA GivesUpKeeps ==
  ASSUME SettingsInv, NEW t \in Goroutines, GivesUp(t)
  PROVE  SettingsInv'
<1>1. /\ job' = [job EXCEPT ![t] = Resting] /\ UNCHANGED <<rows, groupsOf, epochs, kept, page>>
      /\ job[t].at \notin Bumping
  BY DEF GivesUp, Bumping
<1>2. JobOK(Resting)'
  BY DEF JobOK, Short
<1> QED BY <1>1, <1>2, ReadSettled

LEMMA WriteOwnKeeps ==
  ASSUME SettingsInv, NEW t \in Goroutines, NEW k \in OwnParams, WriteOwn(t, k)
  PROVE  SettingsInv'
<1>1. PICK j : j = job[t]
  OBVIOUS
<1>2. PICK rest : rest = Restrict(j.todo, DOMAIN j.todo \ {k})
  OBVIOUS
<1>3. PICK i : i = [j EXCEPT !.at = "bump", !.todo = rest]
  OBVIOUS
<1>4. /\ j.at = "write" /\ k \in DOMAIN j.todo /\ UNCHANGED <<groupsOf, epochs, kept, page>>
      /\ DOMAIN job = Goroutines
      /\ job' = Disturbed([job EXCEPT ![t].at = "bump", ![t].todo = Restrict(@, DOMAIN @ \ {k})])
  BY <1>1 DEF WriteOwn, SettingsInv, SettingsTypes
<1>5. /\ j \in JobRec /\ Lags(j.epochs) /\ (j.todo # NoRow => j.user \in Members)
  <2>1. j.at \notin {"idle"} \cup Bumping
    BY <1>4 DEF Bumping
  <2> QED BY <1>1, <2>1, JobIs
<1>6. j.user \in Members
  <2>1. j.todo # NoRow
    BY <1>4 DEF NoRow
  <2> QED BY <1>5, <2>1
<1>7. [job EXCEPT ![t].at = "bump", ![t].todo = Restrict(@, DOMAIN @ \ {k})] = [job EXCEPT ![t] = i]
  BY <1>1, <1>2, <1>3, <1>4
<1>8. rest \in Saves /\ j.todo[k] \in Values
  <2>1. PICK ks \in SUBSET OwnParams : j.todo \in [ks -> Values]
    BY <1>5 DEF JobRec, Saves
  <2>2. rest = [q \in ks \ {k} |-> j.todo[q]]
    BY <1>2, <2>1 DEF Restrict
  <2>3. rest \in [ks \ {k} -> Values] /\ ks \ {k} \in SUBSET OwnParams /\ k \in ks
    BY <1>4, <2>1, <2>2
  <2> QED BY <2>1, <2>3 DEF Saves
<1>9. /\ i \in JobRec /\ i.at = "bump" /\ i.user = j.user /\ i.epochs = j.epochs
  BY <1>3, <1>5, <1>8 DEF JobRec
<1>10. /\ job' = Disturbed([job EXCEPT ![t] = i]) /\ i.at \in Bumping
  BY <1>4, <1>7, <1>9 DEF Bumping
<1>11. Carried(t) /\ DOMAIN job' = Goroutines /\ job'[t] = i
  BY <1>4, <1>10, WriteCarries
<1>12. JobOK(i)'
  <2>1. Lags(i.epochs)'
    BY <1>4, <1>5, <1>9 DEF Lags
  <2>2. Pending'
    BY <1>10, <1>11 DEF Pending
  <2>3. Truth(i, i.user)'
    BY <2>2 DEF Truth
  <2> QED BY <1>6, <1>9, <2>1, <2>3 DEF JobOK, Resolving
<1>13. PICK row : row = rows[j.user]
  OBVIOUS
<1>14. /\ j.user \in Scopes /\ row \in Configs \cup {NoRow} /\ RowsTyped
  BY <1>6, <1>13 DEF SettingsInv, SettingsTypes, RowsTyped, Scopes
<1>15. PICK new : new = IF ~j.own THEN [q \in Params |-> IF q = k THEN j.todo[k] ELSE Unset]
                        ELSE IF row = NoRow THEN NoRow ELSE [row EXCEPT ![k] = j.todo[k]]
  OBVIOUS
<1>16. rows' = [rows EXCEPT ![j.user] = new]
  BY <1>1, <1>13, <1>15 DEF WriteOwn
<1>17. new \in Configs \cup {NoRow}
  <2>1. j.todo[k] \in Settable /\ Unset \in Settable
    BY <1>8 DEF Settable
  <2>2. CASE ~j.own
    BY <1>15, <2>1, <2>2 DEF Configs
  <2>3. CASE j.own /\ row # NoRow
    <3>1. row \in [Params -> Settable]
      BY <1>14, <2>3 DEF Configs
    <3> QED BY <1>15, <2>1, <2>3, <3>1 DEF Configs
  <2> QED BY <1>15, <2>2, <2>3
<1>18. RowsTyped'
  BY <1>14, <1>16, <1>17 DEF RowsTyped
<1>19. groupsOf' \in [Members -> SUBSET Groups] /\ epochs' \in Epochs
  BY <1>4 DEF SettingsInv, SettingsTypes
<1> QED BY <1>4, <1>11, <1>12, <1>18, <1>19, Settled

LEMMA BumpConfigKeeps ==
  ASSUME SettingsInv, NEW t \in Goroutines, BumpConfig(t)
  PROVE  SettingsInv'
<1>1. PICK j : j = job[t]
  OBVIOUS
<1>2. PICK i : i = IF j.todo = NoRow THEN Resting ELSE [j EXCEPT !.at = "serve"]
  OBVIOUS
<1>3. /\ j.at = "bump" /\ UNCHANGED <<rows, groupsOf, kept, page>> /\ epochs \in Epochs
      /\ epochs' = [epochs EXCEPT !.config = @ + 1] /\ job' = [job EXCEPT ![t] = i]
  BY <1>1, <1>2 DEF BumpConfig, SettingsInv, SettingsTypes
<1>4. /\ epochs' \in Epochs /\ epochs'.config >= epochs.config /\ epochs'.rights >= epochs.rights
      /\ epochs'.config # epochs.config
  BY <1>3 DEF Epochs
<1>5. epochs' # epochs
  BY <1>4
<1>6. Carried(t) /\ DOMAIN job' = Goroutines /\ job'[t] = i
  BY <1>3, <1>4, <1>5, BumpCarries
<1>7. JobOK(i)'
  <2>1. CASE j.todo = NoRow
    BY <1>2, <2>1 DEF JobOK, Short
  <2>2. CASE j.todo # NoRow
    <3>1. JobOK(j)
      BY <1>1 DEF SettingsInv
    <3>2. j \notin Short
      BY <1>3, <2>2, ShortIs
    <3>3. j \in JobRec /\ Lags(j.epochs) /\ j.user \in Members /\ Truth(j, j.user)
      BY <1>3, <2>2, <3>1, <3>2 DEF JobOK, Resolving
    <3>4. (Lags(j.epochs) /\ Truth(j, j.user))'
      BY <1>6, <3>3 DEF Carried
    <3>5. /\ i \in JobRec /\ i.at = "serve" /\ i.todo = j.todo /\ i.user = j.user /\ i.config = j.config
          /\ i.clean = j.clean /\ i.epochs = j.epochs
      BY <1>2, <2>2, <3>3 DEF JobRec
    <3>6. (Lags(i.epochs) /\ Truth(i, i.user))'
      BY <3>4, <3>5 DEF Truth
    <3> QED BY <3>3, <3>5, <3>6 DEF JobOK, Resolving
  <2> QED BY <2>1, <2>2
<1>8. RowsTyped' /\ groupsOf' \in [Members -> SUBSET Groups]
  BY <1>3 DEF SettingsInv, SettingsTypes, RowsTyped
<1> QED BY <1>3, <1>4, <1>6, <1>7, <1>8, Settled

LEMMA BumpRightsKeeps ==
  ASSUME SettingsInv, NEW t \in Goroutines, BumpRights(t)
  PROVE  SettingsInv'
<1>1. /\ UNCHANGED <<rows, groupsOf, kept, page>> /\ epochs \in Epochs
      /\ epochs' = [epochs EXCEPT !.rights = @ + 1] /\ job' = [job EXCEPT ![t] = Resting]
  BY DEF BumpRights, SettingsInv, SettingsTypes
<1>2. /\ epochs' \in Epochs /\ epochs'.config >= epochs.config /\ epochs'.rights >= epochs.rights
      /\ epochs'.rights # epochs.rights
  BY <1>1 DEF Epochs
<1>3. epochs' # epochs
  BY <1>2
<1>4. Carried(t) /\ DOMAIN job' = Goroutines /\ job'[t] = Resting
  BY <1>1, <1>2, <1>3, BumpCarries
<1>5. JobOK(Resting)'
  BY DEF JobOK, Short
<1>6. RowsTyped' /\ groupsOf' \in [Members -> SUBSET Groups]
  BY <1>1 DEF SettingsInv, SettingsTypes, RowsTyped
<1> QED BY <1>1, <1>2, <1>4, <1>5, <1>6, Settled

LEMMA EditRowKeeps ==
  ASSUME SettingsInv, NEW t \in Goroutines, NEW s \in Scopes, NEW row \in Configs \cup {NoRow},
         EditRow(t, s, row)
  PROVE  SettingsInv'
<1>1. PICK j : j = [at |-> "bump", todo |-> NoRow]
  OBVIOUS
<1>2. /\ rows' = [rows EXCEPT ![s] = row] /\ job' = Disturbed([job EXCEPT ![t] = j])
      /\ UNCHANGED <<groupsOf, epochs, kept, page>> /\ j.at \in Bumping
  BY <1>1 DEF EditRow, Bumping
<1>3. Carried(t) /\ DOMAIN job' = Goroutines /\ job'[t] = j
  BY <1>2, WriteCarries
<1>4. JobOK(j)'
  BY <1>1 DEF JobOK, Short
<1>5. RowsTyped' /\ groupsOf' \in [Members -> SUBSET Groups] /\ epochs' \in Epochs
  BY <1>2 DEF SettingsInv, SettingsTypes, RowsTyped
<1> QED BY <1>2, <1>3, <1>4, <1>5, Settled

LEMMA EditGroupsKeeps ==
  ASSUME SettingsInv, NEW t \in Goroutines, NEW u \in Members, NEW gs \in SUBSET Groups,
         EditGroups(t, u, gs)
  PROVE  SettingsInv'
<1>1. PICK j : j = [at |-> "bump rights"]
  OBVIOUS
<1>2. /\ groupsOf' = [groupsOf EXCEPT ![u] = gs] /\ job' = Disturbed([job EXCEPT ![t] = j])
      /\ UNCHANGED <<rows, epochs, kept, page>> /\ j.at \in Bumping
  BY <1>1 DEF EditGroups, Bumping
<1>3. Carried(t) /\ DOMAIN job' = Goroutines /\ job'[t] = j
  BY <1>2, WriteCarries
<1>4. JobOK(j)'
  BY <1>1 DEF JobOK, Short
<1>5. RowsTyped' /\ groupsOf' \in [Members -> SUBSET Groups] /\ epochs' \in Epochs
  BY <1>2 DEF SettingsInv, SettingsTypes, RowsTyped
<1> QED BY <1>2, <1>3, <1>4, <1>5, Settled

LEMMA SettingsStep ==
  ASSUME SettingsInv, SettingsNext \/ UNCHANGED settingsVars
  PROVE  SettingsInv'
<1>1. CASE UNCHANGED settingsVars
  <2>1. UNCHANGED <<rows, groupsOf, epochs, kept, page, job>>
    BY <1>1 DEF settingsVars
  <2>2. SettingsTypes'
    BY <2>1 DEF SettingsInv, SettingsTypes, RowsTyped
  <2>3. Pending' = Pending
    BY <2>1 DEF Pending
  <2>4. \A s, u : Truth(s, u)' = Truth(s, u) /\ PageTruth(s, u)' = PageTruth(s, u)
    BY <2>1, <2>3, SameEffects DEF Truth, PageTruth
  <2>5. \A e : Lags(e)' = Lags(e)
    BY <2>1 DEF Lags
  <2>6. SessionsOK'
    BY <2>1, <2>4, <2>5 DEF SettingsInv, SessionsOK
  <2>7. \A j : JobOK(j) => JobOK(j)'
    BY <2>1, <2>4, <2>5, SameEffects DEF JobOK
  <2> QED BY <2>1, <2>2, <2>6, <2>7 DEF SettingsInv
<1>2. CASE SettingsNext
  <2>1. PICK t \in Goroutines :
          \/ \E u \in People, todo \in Saves : Arrive(t, u, todo)
          \/ \E works \in BOOLEAN : Level(t, works)
          \/ Stamp(t) \/ Keep(t) \/ ServeConfig(t)
          \/ SelectOwn(t) \/ GivesUp(t) \/ BumpConfig(t) \/ BumpRights(t)
          \/ \E k \in OwnParams : WriteOwn(t, k)
          \/ \E s \in Scopes, row \in [Params -> Settable] \cup {NoRow} : EditRow(t, s, row)
          \/ \E u \in Members, gs \in SUBSET Groups : EditGroups(t, u, gs)
    BY <1>2 DEF SettingsNext
  <2>2. ASSUME NEW s \in Scopes, NEW row \in [Params -> Settable] \cup {NoRow}, EditRow(t, s, row)
        PROVE  SettingsInv'
    BY <2>2, EditRowKeeps DEF Configs
  <2> QED BY <2>1, <2>2, ArriveKeeps, LevelKeeps, StampKeeps, KeepKeeps, ServeConfigKeeps, SelectOwnKeeps,
             GivesUpKeeps, BumpConfigKeeps, BumpRightsKeeps, WriteOwnKeeps, EditGroupsKeeps
<1> QED BY <1>1, <1>2

LEMMA SettingsStart == SettingsInit => SettingsInv
<1> SUFFICES ASSUME SettingsInit PROVE SettingsInv OBVIOUS
<1>1. /\ rows \in [Scopes -> [Params -> Settable] \cup {NoRow}] /\ groupsOf \in [Members -> SUBSET Groups]
      /\ epochs = [config |-> 1, rights |-> 1] /\ kept = [u \in People |-> NoSettings]
      /\ page = [u \in People |-> [NoSettings EXCEPT !.config = Defaults]]
      /\ job = [t \in Goroutines |-> Resting]
  BY DEF SettingsInit
<1>2. [k \in Params |-> Unset] \in Configs /\ Defaults \in Configs
  BY SettingsAssumption DEF Configs, Settable
<1>3. [config |-> 0, rights |-> 0] \in Epochs /\ epochs \in Epochs
  BY <1>1 DEF Epochs
<1>4. /\ NoSettings \in SessionRec /\ ~NoSettings.clean /\ NoSettings.epochs = [config |-> 0, rights |-> 0]
  BY <1>2, <1>3 DEF NoSettings, SessionRec
<1>5. PICK p : p = [NoSettings EXCEPT !.config = Defaults]
  OBVIOUS
<1>6. p \in SessionRec /\ ~p.clean /\ p.epochs = [config |-> 0, rights |-> 0]
  BY <1>2, <1>4, <1>5 DEF SessionRec
<1>7. Lags([config |-> 0, rights |-> 0])
  BY <1>1, <1>3 DEF Lags
<1>8. SettingsTypes
  BY <1>1, <1>3, <1>4, <1>5, <1>6 DEF SettingsTypes, RowsTyped, Configs
<1>9. \A u \in People : kept[u] = NoSettings /\ page[u] = p
  BY <1>1, <1>5
<1>10. SessionsOK
  BY <1>4, <1>6, <1>7, <1>9 DEF SessionsOK, Truth, PageTruth
<1>11. \A t \in Goroutines : JobOK(job[t])
  BY <1>1 DEF JobOK, Short
<1> QED BY <1>8, <1>10, <1>11 DEF SettingsInv

LEMMA SettingsInvImplies == SettingsInv => SettingsSound
<1> SUFFICES ASSUME SettingsInv, NEW u \in People, NEW k \in Params
             PROVE  /\ Current(kept[u]) => kept[u].config[k] = Effective(u, k)
                    /\ Current(page[u]) /\ Defaults[k] # Unset => page[u].config[k] = Effective(u, k)
  BY DEF SettingsSound
<1>1. \A s : Current(s) => s.clean /\ s.epochs = epochs /\ ~Pending
  BY DEF Current, Pending, Bumping
<1>2. Truth(kept[u], u) /\ PageTruth(page[u], u)
  BY DEF SettingsInv, SessionsOK
<1> QED BY <1>1, <1>2 DEF Truth, PageTruth, Effects

(* SettingsSound: for any members, groups, parameters and requests that     *)
(* overlap, a session that carries the present epochs and was made in peace *)
(* holds what user over group over global settings come to, and so does     *)
(* what a browser was answered with.                                        *)
THEOREM SettingsAreEffective == MCSpec => []SettingsSound
<1>1. MCInit => SettingsInv BY SettingsStart, Zenon DEF MCInit
<1>2. SettingsInv /\ [MCNext]_<<treeVars, flowVars, shopVars, imagesVars, threadsVars, vars, settingsVars, service, calm>> => SettingsInv'
  <2> SUFFICES ASSUME SettingsInv,
                      [MCNext]_<<treeVars, flowVars, shopVars, imagesVars, threadsVars, vars, settingsVars, service, calm>>
               PROVE  SettingsInv'
    OBVIOUS
  <2>1. SettingsNext \/ UNCHANGED settingsVars BY Zenon DEF MCNext
  <2> QED BY <2>1, SettingsStep
<1> QED BY <1>1, <1>2, SettingsInvImplies, PTL DEF MCSpec

-----------------------------------------------------------------------------
(***************************************************************************)
(* FlowsSound, for any routes, costs and number of iterations.  Flows are  *)
(* multiples of a unit that is halved with every iteration (Whole), so a   *)
(* shift loses nothing; and the excess is a sum of what each route in use  *)
(* costs above the cheapest, which is zero only where each is.             *)
(***************************************************************************)
(* Twice a sum, and the sum of what is weighed by what is at least k.       *)
LEMMA SumOfDoubles ==
  ASSUME NEW f, NEW g, NEW S, Adds(f, S), Adds(g, S), \A x \in S : g[x] = 2 * f[x]
  PROVE  SumFunctionOnSet(g, S) = 2 * SumFunctionOnSet(f, S)
<1> DEFINE Bad == {T \in SUBSET S : SumFunctionOnSet(g, T) # 2 * SumFunctionOnSet(f, T)}
<1> SUFFICES ASSUME Bad # {} PROVE FALSE OBVIOUS
<1>1. PICK T \in Bad : \A U \in SUBSET T : U # T => U \notin Bad
  <2>1. Bad \in SUBSET (SUBSET S) OBVIOUS
  <2> HIDE DEF Bad
  <2> QED BY <2>1, SmallestOf DEF Adds
<1>2. T \in SUBSET S /\ Adds(f, T) /\ Adds(g, T)
  BY FS_Subset DEF Adds
<1>3. T # {}
  BY SumOfNone
<1>4. PICK x \in T : TRUE
  BY <1>3
<1>5. SumFunctionOnSet(g, T \ {x}) = 2 * SumFunctionOnSet(f, T \ {x})
  BY <1>1, <1>2
<1>6. /\ SumFunctionOnSet(f, T) = f[x] + SumFunctionOnSet(f, T \ {x})
      /\ SumFunctionOnSet(g, T) = g[x] + SumFunctionOnSet(g, T \ {x})
  BY <1>2, SumWithout
<1>7. f[x] \in Int /\ g[x] = 2 * f[x] /\ SumFunctionOnSet(f, T \ {x}) \in Int
  <2>1. Adds(f, T \ {x})
    BY <1>2, FS_Subset DEF Adds
  <2> QED BY <1>2, <2>1, SumIsInt DEF Adds
<1>8. SumFunctionOnSet(g, T) = 2 * SumFunctionOnSet(f, T)
  BY <1>5, <1>6, <1>7
<1> QED BY <1>8

Weighed(f, m, k, x) == f[x] * (m[x] - k)

LEMMA SumOfWeights ==
  ASSUME NEW f, NEW m, NEW g, NEW S, NEW k \in Int, IsFiniteSet(S),
         \A x \in S : f[x] \in Nat /\ m[x] \in Int /\ g[x] = f[x] * m[x]
  PROVE  SumFunctionOnSet(g, S) - SumFunctionOnSet(f, S) * k
           = SumFunctionOnSet([x \in S |-> Weighed(f, m, k, x)], S)
<1> DEFINE h == [x \in S |-> Weighed(f, m, k, x)]
           Bad == {T \in SUBSET S : SumFunctionOnSet(g, T) - SumFunctionOnSet(f, T) * k # SumFunctionOnSet(h, T)}
<1>0. /\ \A x \in S : g[x] \in Int /\ h[x] \in Int /\ h[x] = f[x] * (m[x] - k)
      /\ \A x \in S : f[x] \in Int
  BY DEF Weighed
<1>9. Bad = {}
  <2> SUFFICES ASSUME Bad # {} PROVE FALSE OBVIOUS
  <2>1. PICK T \in Bad : \A U \in SUBSET T : U # T => U \notin Bad
    <3>1. Bad \in SUBSET (SUBSET S) OBVIOUS
    <3> HIDE DEF Bad
    <3> QED BY <3>1, SmallestOf
  <2> HIDE DEF h
  <2>2. T \in SUBSET S /\ Adds(f, T) /\ Adds(g, T) /\ Adds(h, T)
    BY <1>0, FS_Subset DEF Adds
  <2>3. T # {}
    BY SumOfNone
  <2>4. PICK x \in T : TRUE
    BY <2>3
  <2> DEFINE a == SumFunctionOnSet(f, T \ {x})  b == SumFunctionOnSet(g, T \ {x})  c == SumFunctionOnSet(h, T \ {x})
  <2>5. b - a * k = c
    BY <2>1, <2>2
  <2>6. /\ SumFunctionOnSet(f, T) = f[x] + a
        /\ SumFunctionOnSet(g, T) = g[x] + b
        /\ SumFunctionOnSet(h, T) = h[x] + c
    BY <2>2, SumWithout
  <2>7. f[x] \in Nat /\ m[x] \in Int /\ g[x] = f[x] * m[x] /\ h[x] = f[x] * (m[x] - k)
    BY <1>0, <2>2
  <2>8. a \in Int /\ b \in Int /\ c \in Int
    <3>1. Adds(f, T \ {x}) /\ Adds(g, T \ {x}) /\ Adds(h, T \ {x})
      BY <2>2, FS_Subset DEF Adds
    <3> QED BY <3>1, SumIsInt
  <2> HIDE DEF a, b, c
  <2>9. (f[x] * m[x] + b) - (f[x] + a) * k = f[x] * (m[x] - k) + c
    BY <2>5, <2>7, <2>8
  <2> QED BY <2>2, <2>6, <2>7, <2>9
<1> QED BY <1>9

(* A sum of what is not negative is zero only where all of it is.           *)
LEMMA NoneOfZero ==
  ASSUME NEW f, NEW S, IsFiniteSet(S), \A x \in S : f[x] \in Nat, SumFunctionOnSet(f, S) = 0, NEW x \in S
  PROVE  f[x] = 0
<1>1. SumFunctionOnSet(f, S) = f[x] + SumFunctionOnSet(f, S \ {x})
  BY SumWithout DEF Adds
<1>2. SumFunctionOnSet(f, S \ {x}) \in Nat
  BY FS_Subset, SumIsNat
<1> QED BY <1>1, <1>2

-----------------------------------------------------------------------------
TheHalving == CHOOSE h \in Halvings : TRUE
Whole(x, u) == \E k \in Nat : x = k * u

LEMMA HalvingIs ==
  /\ TheHalving \in [0..MaxIterations -> 0..Demand] /\ TheHalving[0] = Demand
  /\ \A i \in 1..MaxIterations : TheHalving[i - 1] = 2 * TheHalving[i]
  /\ MaxIterations \in Nat /\ Demand \in Nat /\ Demand > 0
<1>1. Halvings # {} /\ MaxIterations \in Nat /\ Demand \in Nat /\ Demand > 0
  BY FlowAssumption
<1>2. TheHalving \in Halvings
  BY <1>1 DEF TheHalving
<1> HIDE DEF TheHalving
<1> QED BY <1>1, <1>2 DEF Halvings

LEMMA HalfIsWhole ==
  ASSUME NEW v \in Nat, NEW x \in Nat, Whole(x, 2 * v)
  PROVE  /\ x = 2 * (x \div 2) /\ Whole(x, v) /\ Whole(x \div 2, v) /\ x \div 2 \in Nat
<1>1. PICK k \in Nat : x = k * (2 * v)
  BY DEF Whole
<1>2. k * v \in Nat
  OBVIOUS
<1>3. x = 2 * (k * v)
  BY <1>1
<1>4. x \div 2 = k * v
  <2> DEFINE y == k * v
  <2> HIDE DEF y
  <2>1. y \in Nat /\ x = 2 * y
    BY <1>2, <1>3 DEF y
  <2>2. x \div 2 = y
    BY <2>1
  <2> QED BY <2>2 DEF y
<1>5. x = (2 * k) * v /\ 2 * k \in Nat
  BY <1>1
<1> QED BY <1>2, <1>3, <1>4, <1>5 DEF Whole

LEMMA WholesAdd ==
  ASSUME NEW v \in Nat, NEW x \in Nat, NEW y \in Nat, Whole(x, v), Whole(y, v)
  PROVE  Whole(x + y, v)
<1>1. PICK j \in Nat : x = j * v
  BY DEF Whole
<1>2. PICK k \in Nat : y = k * v
  BY DEF Whole
<1>3. x + y = (j + k) * v /\ j + k \in Nat
  BY <1>1, <1>2
<1> QED BY <1>3 DEF Whole

LEMMA NothingIsWhole == ASSUME NEW v \in Nat PROVE Whole(0, v)
<1>1. 0 = 0 * v
  OBVIOUS
<1> QED BY <1>1 DEF Whole

(* What is left of a flow, and what its target is given.                    *)
Left(f, q, halves) == IF q \in DOMAIN f THEN ((2 - halves) * f[q]) \div 2 ELSE 0
Given(p, q, halves) == IF q = p THEN (halves * Demand) \div 2 ELSE 0
Mixed(f, p, halves) == [q \in DOMAIN f \cup {p} |-> Left(f, q, halves) + Given(p, q, halves)]

LEMMA ShiftedIs ==
  ASSUME NEW f, NEW p, NEW halves
  PROVE  Shifted(f, p, halves)
           = LET all == Mixed(f, p, halves) IN [q \in {r \in DOMAIN all : all[r] > 0} |-> all[q]]
BY DEF Shifted, Mixed, Left, Given, Restrict

LEMMA LeftAdds ==
  ASSUME NEW D, IsFiniteSet(D), NEW f \in [D -> Nat], NEW v \in Nat, NEW halves \in {0, 1, 2},
         \A q \in D : Whole(f[q], 2 * v)
  PROVE  /\ \A q \in D : Left(f, q, halves) \in Nat /\ Whole(Left(f, q, halves), v)
         /\ 2 * SumFunctionOnSet([q \in D |-> Left(f, q, halves)], D) = (2 - halves) * SumFunctionOnSet(f, D)
<1> DEFINE g == [q \in D |-> Left(f, q, halves)]
<1>1. Adds(f, D) /\ SumFunctionOnSet(f, D) \in Int
  BY SumIsInt DEF Adds
<1>2. \A q \in D : f[q] = 2 * (f[q] \div 2) /\ Whole(f[q], v) /\ Whole(f[q] \div 2, v) /\ f[q] \div 2 \in Nat
  BY HalfIsWhole
<1>3. CASE halves = 0
  <2>1. \A q \in D : Left(f, q, halves) = f[q]
    <3> TAKE q \in D
    <3>1. f[q] \in Nat
      OBVIOUS
    <3>2. (2 * f[q]) \div 2 = f[q]
      BY <3>1
    <3>3. 2 - halves = 2
      BY <1>3
    <3> QED BY <3>2, <3>3 DEF Left
  <2>2. SumFunctionOnSet(g, D) = SumFunctionOnSet(f, D)
    BY <2>1, SumsAgree
  <2>3. (2 - halves) * SumFunctionOnSet(f, D) = 2 * SumFunctionOnSet(f, D)
    BY <1>1, <1>3
  <2> QED BY <1>2, <2>1, <2>2, <2>3
<1>4. CASE halves = 1
  <2>1. \A q \in D : Left(f, q, halves) = f[q] \div 2
    <3> TAKE q \in D
    <3>1. f[q] \in Nat
      OBVIOUS
    <3>2. (2 - halves) * f[q] = f[q]
      BY <1>4, <3>1
    <3> QED BY <3>2 DEF Left
  <2>2. Adds(g, D) /\ \A q \in D : f[q] = 2 * g[q]
    BY <1>2, <2>1 DEF Adds
  <2>3. SumFunctionOnSet(f, D) = 2 * SumFunctionOnSet(g, D)
    <3> HIDE DEF g
    <3> QED BY <1>1, <2>2, SumOfDoubles
  <2>4. (2 - halves) * SumFunctionOnSet(f, D) = SumFunctionOnSet(f, D)
    BY <1>1, <1>4
  <2> QED BY <1>2, <2>1, <2>3, <2>4
<1>5. CASE halves = 2
  <2>1. \A q \in D : Left(f, q, halves) = 0
    <3> TAKE q \in D
    <3>1. f[q] \in Nat
      OBVIOUS
    <3>2. (2 - halves) * f[q] = 0
      BY <1>5, <3>1
    <3> QED BY <3>2 DEF Left
  <2>2. SumFunctionOnSet(g, D) = 0
    BY <2>1, SumOfZeros
  <2>3. (2 - halves) * SumFunctionOnSet(f, D) = 0
    BY <1>1, <1>5
  <2> QED BY <2>1, <2>2, <2>3, NothingIsWhole
<1> QED BY <1>3, <1>4, <1>5

Shares(g, T, v) ==
  /\ DOMAIN g \in SUBSET T /\ g \in [DOMAIN g -> Nat \ {0}]
  /\ SumFunction(g) = Demand
  /\ \A q \in DOMAIN g : Whole(g[q], v)

LEMMA ShiftKeeps ==
  ASSUME NEW T, IsFiniteSet(T), NEW D \in SUBSET T, NEW f \in [D -> Nat], NEW p \in T,
         NEW v \in Nat, NEW halves \in {0, 1, 2},
         \A q \in D : Whole(f[q], 2 * v), Demand \in Nat, Whole(Demand, 2 * v),
         SumFunction(f) = Demand,
         NEW g, g = Shifted(f, p, halves)
  PROVE  Shares(g, T, v)
<1> DEFINE E == D \cup {p}
<1>a. PICK all : all = Mixed(f, p, halves) OBVIOUS
<1>k. PICK k : k = [q \in E |-> Left(f, q, halves)] OBVIOUS
<1>g. PICK given : given = (halves * Demand) \div 2 OBVIOUS
<1>1. IsFiniteSet(D) /\ IsFiniteSet(E) /\ E \in SUBSET T
  BY FS_Subset, FS_AddElement
<1>2. given \in Nat /\ Whole(given, v) /\ 2 * given = halves * Demand
  <2>1. Demand = 2 * (Demand \div 2) /\ Whole(Demand, v) /\ Whole(Demand \div 2, v) /\ Demand \div 2 \in Nat
    BY HalfIsWhole
  <2>2. CASE halves = 0
    <3>1. given = 0 BY <2>2, <1>g
    <3> QED BY <2>2, <3>1, NothingIsWhole
  <2>3. CASE halves = 1
    <3>1. given = Demand \div 2 BY <2>3, <1>g
    <3> QED BY <2>1, <2>3, <3>1
  <2>4. CASE halves = 2
    <3>1. given = Demand BY <2>4, <1>g
    <3> QED BY <2>1, <2>4, <3>1
  <2> QED BY <2>2, <2>3, <2>4
<1>3. /\ \A q \in D : Left(f, q, halves) \in Nat /\ Whole(Left(f, q, halves), v)
      /\ 2 * SumFunctionOnSet([q \in D |-> Left(f, q, halves)], D) = (2 - halves) * SumFunctionOnSet(f, D)
  BY <1>1, LeftAdds
<1>4. \A q \in E : k[q] \in Nat /\ Whole(k[q], v)
  <2>1. \A q \in E \ D : k[q] = 0
    BY <1>k DEF Left
  <2>2. \A q \in D : k[q] = Left(f, q, halves)
    BY <1>k
  <2>3. \A q \in D : k[q] \in Nat /\ Whole(k[q], v)
    BY <1>3, <2>2
  <2>4. \A q \in E \ D : k[q] \in Nat /\ Whole(k[q], v)
    BY <2>1, NothingIsWhole
  <2> QED BY <2>3, <2>4
<1>5. DOMAIN all = E /\ \A q \in E : all[q] = k[q] + (IF q = p THEN given ELSE 0)
  <2>1. DOMAIN all = E /\ \A q \in E : all[q] = Left(f, q, halves) + Given(p, q, halves)
    BY <1>a DEF Mixed
  <2>2. \A q \in E : Given(p, q, halves) = IF q = p THEN given ELSE 0
    BY <1>g DEF Given
  <2>3. \A q \in E : k[q] = Left(f, q, halves)
    BY <1>k
  <2> QED BY <2>1, <2>2, <2>3
<1>6. \A q \in E : all[q] \in Nat /\ Whole(all[q], v) /\ (q # p => all[q] = k[q])
  <2> SUFFICES ASSUME NEW q \in E
               PROVE  all[q] \in Nat /\ Whole(all[q], v) /\ (q # p => all[q] = k[q])
    OBVIOUS
  <2>1. k[q] \in Nat /\ Whole(k[q], v)
    BY <1>4
  <2>2. CASE q = p
    <3>1. all[q] = k[q] + given
      BY <1>5, <2>2
    <3>2. k[q] + given \in Nat /\ Whole(k[q] + given, v)
      <4>1. k[q] + given \in Nat BY <1>2, <2>1
      <4>2. Whole(k[q] + given, v) BY <1>2, <2>1, WholesAdd, Zenon
      <4> QED BY <4>1, <4>2
    <3> QED BY <2>2, <3>1, <3>2, Zenon
  <2>3. CASE q # p
    <3>1. all[q] = k[q]
      BY <1>5, <2>1, <2>3
    <3> QED BY <2>1, <3>1
  <2> QED BY <2>2, <2>3
<1>7. SumFunctionOnSet(k, E) = SumFunctionOnSet(k, D)
  <2>1. CASE p \in D
    <3>1. E = D BY <2>1
    <3> QED BY <3>1
  <2>2. CASE p \notin D
    <3>1. k[p] = 0
      BY <1>k, <2>2 DEF Left
    <3>2. Adds(k, D)
      <4>1. \A q \in D : k[q] \in Int BY <1>4
      <4> QED BY <1>1, <4>1 DEF Adds
    <3>3. SumFunctionOnSet(k, D \cup {p}) = k[p] + SumFunctionOnSet(k, D)
      <4>1. k[p] \in Int
        BY <3>1
      <4> QED BY <2>2, <3>2, <4>1, SumOfOneMore
    <3>4. SumFunctionOnSet(k, D) \in Int
      BY <3>2, SumIsInt
    <3> QED BY <3>1, <3>3, <3>4
  <2> QED BY <2>1, <2>2
<1>8. SumFunctionOnSet(k, D) = SumFunctionOnSet([q \in D |-> Left(f, q, halves)], D)
  <2>1. \A q \in D : k[q] = [z \in D |-> Left(f, z, halves)][q]
    BY <1>k
  <2> QED BY <1>1, <2>1, SumsAgree
<1>9. SumFunctionOnSet(f, D) = Demand
  BY DEF SumFunction
<1>10. SumFunctionOnSet(all, E) = Demand
  <2> DEFINE a == SumFunctionOnSet(all, E)  b == SumFunctionOnSet(k, E)  x == k[p]  y == all[p]
  <2>1. Adds(k, E) /\ Adds(all, E) /\ p \in E
    <3>1. \A q \in E : k[q] \in Int BY <1>4
    <3>2. \A q \in E : all[q] \in Int BY <1>6
    <3> QED BY <1>1, <3>1, <3>2 DEF Adds
  <2>2. b + y = a + x
    <3>1. \A z \in E \ {p} : k[z] = all[z]
      BY <1>6
    <3> QED BY <2>1, <3>1, SumChanges
  <2>3. y = x + given /\ x \in Nat
    BY <1>4, <1>5
  <2>4. 2 * b = (2 - halves) * Demand
    BY <1>3, <1>7, <1>8, <1>9
  <2>5. a \in Int /\ b \in Int
    BY <2>1, SumIsInt
  <2> HIDE DEF a, b, x, y
  <2>6. a = b + given
    BY <1>2, <2>2, <2>3, <2>5
  <2>7. 2 * a = (2 - halves) * Demand + halves * Demand
    BY <1>2, <2>4, <2>5, <2>6
  <2>8. (2 - halves) * Demand + halves * Demand = 2 * Demand
    OBVIOUS
  <2>9. a = Demand
    BY <2>5, <2>7, <2>8
  <2> QED BY <2>9 DEF a
<1>11. g = [q \in {r \in E : all[r] > 0} |-> all[q]]
  BY <1>5, <1>a, ShiftedIs
<1> DEFINE G == {r \in E : all[r] > 0}
<1>12. DOMAIN g = G /\ \A q \in G : g[q] = all[q] /\ all[q] \in Nat \ {0} /\ Whole(all[q], v)
  <2>1. DOMAIN g = G /\ \A q \in G : g[q] = all[q]
    BY <1>11
  <2>2. ASSUME NEW q \in G PROVE all[q] \in Nat \ {0} /\ Whole(all[q], v)
    <3>1. q \in E /\ all[q] > 0 OBVIOUS
    <3> QED BY <1>6, <3>1
  <2> HIDE DEF G
  <2> QED BY <2>1, <2>2
<1>13. SumFunction(g) = Demand
  <2>1. G \in SUBSET E /\ IsFiniteSet(G)
    BY <1>1, FS_Subset
  <2>2. SumFunctionOnSet(g, G) = SumFunctionOnSet(all, G)
    <3> HIDE DEF G
    <3> QED BY <1>12, <2>1, SumsAgree
  <2>3. SumFunctionOnSet(all, E) = SumFunctionOnSet(all, G) + SumFunctionOnSet(all, E \ G)
    <3>1. Adds(all, E)
      BY <1>1, <1>6 DEF Adds
    <3> HIDE DEF G, E
    <3> QED BY <2>1, <3>1, SumOfParts
  <2>4. SumFunctionOnSet(all, E \ G) = 0
    <3>1. \A q \in E \ G : all[q] = 0
      BY <1>6
    <3>2. IsFiniteSet(E \ G)
      BY <1>1, FS_Subset
    <3> HIDE DEF G, E
    <3> QED BY <3>1, <3>2, SumOfZeros
  <2>5. SumFunctionOnSet(all, G) \in Int
    <3>1. Adds(all, G)
      BY <1>6, <2>1 DEF Adds
    <3> HIDE DEF G
    <3> QED BY <3>1, SumIsInt
  <2> QED BY <1>10, <1>12, <2>2, <2>3, <2>4, <2>5 DEF SumFunction
<1>14. DOMAIN g \in SUBSET T /\ g \in [DOMAIN g -> Nat \ {0}]
  <2>1. g \in [G -> Nat \ {0}]
    <3> HIDE DEF G
    <3> QED BY <1>11, <1>12 DEF G
  <2> QED BY <1>1, <1>12, <2>1
<1> QED BY <1>12, <1>13, <1>14 DEF Shares

-----------------------------------------------------------------------------
OneFlow(f, c, i) ==
  /\ DOMAIN f \in SUBSET TrailsOf[c] /\ f \in [DOMAIN f -> Nat \ {0}]
  /\ i > 0 /\ c \in Served => SumFunction(f) = Demand
  /\ i > 0 => \A p \in DOMAIN f : Whole(f[p], TheHalving[i - 1])

AllFlows(fs, i) == DOMAIN fs = Commodities /\ \A c \in Commodities : OneFlow(fs[c], c, i)

FlowsInv ==
  /\ idle \in [Edges -> IdleCosts] /\ load \in [Edges -> Nat]
  /\ iteration \in 0..MaxIterations + 1 /\ AllFlows(flows, iteration)
  /\ iteration > 0 => load = LoadOf(flows) /\ Whole(Demand, TheHalving[iteration - 1])
  /\ UsesCheapest

LEMMA TrailsAre ==
  /\ IsFiniteSet(Commodities) /\ IsFiniteSet(Trails) /\ IsFiniteSet(Edges)
  /\ \A c \in Commodities : TrailsOf[c] \in SUBSET Trails /\ IsFiniteSet(TrailsOf[c])
  /\ Served \in SUBSET Commodities /\ IsFiniteSet(Served)
  /\ \A p \in Trails : EdgesOf[p] \in SUBSET Edges /\ IsFiniteSet(EdgesOf[p])
<1>1. /\ IsFiniteSet(Commodities) /\ IsFiniteSet(Trails) /\ IsFiniteSet(Edges)
      /\ \A c \in Commodities : TrailsOf[c] \in SUBSET Trails
      /\ \A p \in Trails : EdgesOf[p] \in SUBSET Edges
  BY FlowAssumption
<1>2. Served \in SUBSET Commodities
  BY DEF Served
<1> QED BY <1>1, <1>2, FS_Subset

LEMMA LoadsAre ==
  ASSUME NEW fs, NEW i, AllFlows(fs, i)
  PROVE  LoadOf(fs) \in [Edges -> Nat]
<1> SUFFICES ASSUME NEW e \in Edges
             PROVE  SumFunction([c \in Commodities |-> SumFunctionOnSet(fs[c], {p \in DOMAIN fs[c] : e \in EdgesOf[p]})]) \in Nat
  BY DEF LoadOf
<1> DEFINE g == [c \in Commodities |-> SumFunctionOnSet(fs[c], {p \in DOMAIN fs[c] : e \in EdgesOf[p]})]
<1>1. ASSUME NEW c \in Commodities PROVE g[c] \in Nat
  <2> DEFINE S == {p \in DOMAIN fs[c] : e \in EdgesOf[p]}
  <2>1. DOMAIN fs[c] \in SUBSET TrailsOf[c] /\ fs[c] \in [DOMAIN fs[c] -> Nat \ {0}]
    BY DEF AllFlows, OneFlow
  <2>2. IsFiniteSet(S) /\ \A p \in S : fs[c][p] \in Nat
    BY <2>1, TrailsAre, FS_Subset
  <2>3. SumFunctionOnSet(fs[c], S) \in Nat
    <3> HIDE DEF S
    <3> QED BY <2>2, SumIsNat
  <2> QED BY <2>3
<1>2. DOMAIN g = Commodities
  OBVIOUS
<1> HIDE DEF g
<1> QED BY <1>1, <1>2, TrailsAre, SumIsNat DEF SumFunction, g

LEMMA MarginalsAre ==
  ASSUME FlowsInv, NEW p \in Trails
  PROVE  TrailMarginal(p) \in Int
<1> DEFINE g == [e \in Edges |-> Marginal(e, load[e])]
<1>1. \A e \in Edges : g[e] \in Int
  <2> SUFFICES ASSUME NEW e \in Edges PROVE idle[e] + Growth[e] * load[e] \in Int
    BY DEF Marginal
  <2>1. idle[e] \in Nat /\ Growth[e] \in Nat /\ load[e] \in Nat
    BY FlowAssumption DEF FlowsInv
  <2> QED BY <2>1
<1>2. Adds(g, EdgesOf[p])
  BY <1>1, TrailsAre DEF Adds
<1> HIDE DEF g
<1> QED BY <1>2, SumIsInt DEF TrailMarginal, g

LEMMA TargetsAre ==
  ASSUME NEW t \in Targets, NEW c \in Served
  PROVE  /\ t[c] \in TrailsOf[c] /\ t[c] \in Trails /\ c \in Commodities
         /\ \A q \in TrailsOf[c] : TrailMarginal(t[c]) <= TrailMarginal(q)
BY TrailsAre DEF Targets, Cheapest

LEMMA AllOrNothingKeeps ==
  ASSUME FlowsInv, AllOrNothing
  PROVE  FlowsInv'
<1>1. /\ iteration' = 1 /\ load' = LoadOf(flows') /\ idle' = idle /\ solved' = "no"
  BY DEF AllOrNothing
<1>2. PICK t \in Targets : flows' = [c \in Commodities |-> IF c \in Served THEN AllOn(t[c]) ELSE Unserved]
  BY DEF AllOrNothing
<1>3. PICK fs : fs = flows'
  OBVIOUS
<1>4. ASSUME NEW c \in Commodities PROVE OneFlow(fs[c], c, 1)
  <2>1. CASE c \in Served
    <3>a. PICK x : x = t[c] OBVIOUS
    <3>b. PICK f : f = AllOn(x) OBVIOUS
    <3>1. fs[c] = f
      BY <1>2, <1>3, <2>1, <3>a, <3>b
    <3>2. x \in TrailsOf[c]
      BY <2>1, <3>a, TargetsAre
    <3>3. DOMAIN f = {x} /\ f[x] = Demand /\ f \in [{x} -> Nat \ {0}] /\ Demand \in Nat
      BY <3>b, HalvingIs DEF AllOn
    <3>4. SumFunction(f) = Demand
      <4>1. SumFunctionOnSet(f, {x}) = f[x] + SumFunctionOnSet(f, {x} \ {x})
        <5>1. Adds(f, {x}) /\ x \in {x}
          BY <3>3, FS_Singleton DEF Adds
        <5> QED BY <5>1, SumWithout
      <4>2. {x} \ {x} = {}
        OBVIOUS
      <4>3. SumFunctionOnSet(f, {}) = 0
        BY SumOfNone
      <4>4. SumFunctionOnSet(f, {x}) = Demand
        BY <3>3, <4>1, <4>2, <4>3
      <4> QED BY <3>3, <4>4 DEF SumFunction
    <3>5. Whole(Demand, TheHalving[1 - 1])
      <4>1. TheHalving[1 - 1] = Demand /\ Demand = 1 * Demand
        BY HalvingIs
      <4> QED BY <4>1 DEF Whole
    <3> QED BY <3>1, <3>2, <3>3, <3>4, <3>5 DEF OneFlow
  <2>2. CASE c \notin Served
    <3>1. fs[c] = Unserved
      BY <1>2, <1>3, <2>2
    <3> QED BY <2>2, <3>1 DEF OneFlow, Unserved
  <2> QED BY <2>1, <2>2
<1>5. AllFlows(fs, 1)
  BY <1>2, <1>3, <1>4 DEF AllFlows
<1>6. LoadOf(fs) \in [Edges -> Nat]
  BY <1>5, LoadsAre
<1>7. load' = LoadOf(fs)
  BY <1>1, <1>3 DEF LoadOf
<1>8. Whole(Demand, TheHalving[1 - 1])
  <2>1. TheHalving[1 - 1] = Demand /\ Demand = 1 * Demand
    BY HalvingIs
  <2> QED BY <2>1 DEF Whole
<1>9. UsesCheapest'
  BY <1>1 DEF UsesCheapest
<1>10. idle' \in [Edges -> IdleCosts]
  BY <1>1 DEF FlowsInv
<1>11. 1 \in 0..MaxIterations + 1
  BY HalvingIs
<1>12. (load = LoadOf(flows))'
  BY <1>1
<1> QED BY <1>1, <1>3, <1>5, <1>6, <1>7, <1>8, <1>9, <1>10, <1>11, <1>12 DEF FlowsInv

LEMMA IterateKeeps ==
  ASSUME FlowsInv, Iterate
  PROVE  FlowsInv'
<1>1. /\ iteration' = iteration + 1 /\ load' = LoadOf(flows') /\ idle' = idle /\ solved' = "no"
      /\ iteration \in 1..MaxIterations
  BY DEF Iterate
<1>2. PICK t \in Targets :
        flows' = [c \in Commodities |-> IF c \in Served THEN Shifted(flows[c], t[c], Lambda(t)) ELSE flows[c]]
  BY DEF Iterate
<1>3. PICK fs : fs = flows'
  OBVIOUS
<1> DEFINE i == iteration + 1  v == TheHalving[iteration]
<1>4. /\ v \in Nat /\ TheHalving[iteration - 1] = 2 * v /\ iteration > 0 /\ iteration \in Nat
      /\ i - 1 = iteration /\ i > 0 /\ i \in 0..MaxIterations + 1
  BY <1>1, HalvingIs
<1>5. Whole(Demand, 2 * v) /\ AllFlows(flows, iteration)
  BY <1>4 DEF FlowsInv
<1>6. Whole(Demand, v)
  BY <1>4, <1>5, HalfIsWhole, HalvingIs
<1>7. Lambda(t) \in {0, 1, 2}
  BY DEF Lambda
<1>8. ASSUME NEW c \in Commodities PROVE OneFlow(fs[c], c, i)
  <2>1. PICK f : f = flows[c]
    OBVIOUS
  <2>2. OneFlow(f, c, iteration)
    BY <1>5, <2>1 DEF AllFlows
  <2>3. /\ DOMAIN f \in SUBSET TrailsOf[c] /\ f \in [DOMAIN f -> Nat \ {0}]
        /\ c \in Served => SumFunction(f) = Demand
        /\ \A p \in DOMAIN f : Whole(f[p], 2 * v)
    BY <1>4, <2>2 DEF OneFlow
  <2> HIDE DEF v, i
  <2>4. CASE c \in Served
    <3>1. PICK g : g = Shifted(f, t[c], Lambda(t))
      OBVIOUS
    <3>2. fs[c] = g
      BY <1>2, <1>3, <2>1, <2>4, <3>1
    <3>3. t[c] \in TrailsOf[c] /\ IsFiniteSet(TrailsOf[c])
      BY <2>4, TargetsAre, TrailsAre
    <3>4. f \in [DOMAIN f -> Nat]
      BY <2>3
    <3>5. /\ Demand \in Nat /\ SumFunction(f) = Demand /\ v \in Nat /\ DOMAIN f \in SUBSET TrailsOf[c]
          /\ \A q \in DOMAIN f : Whole(f[q], 2 * v)
      BY <1>4, <2>3, <2>4, HalvingIs
    <3>6. Shares(g, TrailsOf[c], v)
      BY <1>5, <1>7, <3>1, <3>3, <3>4, <3>5, ShiftKeeps, Zenon
    <3> QED BY <3>2, <3>6, <1>4 DEF OneFlow, Shares, v
  <2>5. CASE c \notin Served
    <3>1. fs[c] = f
      BY <1>2, <1>3, <2>1, <2>5
    <3>2. TrailsOf[c] = {}
      BY <2>5 DEF Served
    <3>3. DOMAIN f = {}
      BY <2>3, <3>2
    <3> QED BY <2>3, <2>5, <3>1, <3>3 DEF OneFlow
  <2> QED BY <2>4, <2>5
<1>9. AllFlows(fs, i)
  BY <1>2, <1>3, <1>8 DEF AllFlows
<1>10. LoadOf(fs) \in [Edges -> Nat]
  BY <1>9, LoadsAre
<1>11. load' = LoadOf(fs)
  BY <1>1, <1>3 DEF LoadOf
<1>12. UsesCheapest'
  BY <1>1 DEF UsesCheapest
<1>13. idle' \in [Edges -> IdleCosts]
  BY <1>1 DEF FlowsInv
<1>14. (load = LoadOf(flows))'
  BY <1>1
<1>15. iteration' = i /\ Whole(Demand, TheHalving[i - 1])
  BY <1>1, <1>4, <1>6
<1> HIDE DEF i
<1> QED BY <1>3, <1>4, <1>9, <1>10, <1>11, <1>12, <1>13, <1>14, <1>15 DEF FlowsInv

(* What is above the cheapest adds up to nothing only where nothing is.     *)
LEMMA NothingIsDear ==
  ASSUME FlowsInv, iteration > 0, NEW t \in Targets, Excess(t) = 0, NEW c \in Served
  PROVE  DOMAIN flows[c] \subseteq Cheapest(c)
<1> DEFINE Above1(d) == CostOf(flows[d]) - Demand * TrailMarginal(t[d])
           g == [d \in Served |-> Above1(d)]
           m == [p \in Trails |-> TrailMarginal(p)]
           Dear(d) == [p \in DOMAIN flows[d] |-> Weighed(flows[d], m, TrailMarginal(t[d]), p)]
<1>1. ASSUME NEW d \in Served
      PROVE  /\ IsFiniteSet(DOMAIN flows[d]) /\ \A p \in DOMAIN flows[d] : Dear(d)[p] \in Nat
             /\ g[d] = SumFunctionOnSet(Dear(d), DOMAIN flows[d]) /\ g[d] \in Nat
  <2>1. PICK f : f = flows[d]
    OBVIOUS
  <2>2. PICK k : k = TrailMarginal(t[d])
    OBVIOUS
  <2>3. d \in Commodities /\ t[d] \in Trails /\ \A q \in TrailsOf[d] : k <= TrailMarginal(q)
    BY <2>2, TargetsAre
  <2>4. k \in Int
    BY <2>2, <2>3, MarginalsAre
  <2>5. OneFlow(f, d, iteration)
    BY <2>1, <2>3 DEF FlowsInv, AllFlows
  <2>6. /\ DOMAIN f \in SUBSET TrailsOf[d] /\ f \in [DOMAIN f -> Nat \ {0}] /\ SumFunction(f) = Demand
        /\ DOMAIN f \in SUBSET Trails /\ IsFiniteSet(DOMAIN f)
    BY <2>3, <2>5, TrailsAre, FS_Subset DEF OneFlow
  <2>7. \A p \in DOMAIN f : m[p] \in Int /\ m[p] = TrailMarginal(p) /\ k <= m[p]
    BY <2>3, <2>6, MarginalsAre
  <2> DEFINE h == [p \in DOMAIN f |-> Weighed(f, m, k, p)]
             w == [p \in DOMAIN f |-> f[p] * TrailMarginal(p)]
  <2>8. \A p \in DOMAIN f : h[p] \in Nat
    <3> SUFFICES ASSUME NEW p \in DOMAIN f PROVE f[p] * (m[p] - k) \in Nat
      BY DEF Weighed
    <3>1. f[p] \in Nat /\ m[p] - k \in Nat
      BY <2>4, <2>6, <2>7
    <3> QED BY <3>1
  <2>9. \A p \in DOMAIN f : f[p] \in Nat /\ m[p] \in Int /\ w[p] = f[p] * m[p]
    BY <2>6, <2>7
  <2>10. SumFunctionOnSet(w, DOMAIN f) - SumFunctionOnSet(f, DOMAIN f) * k = SumFunctionOnSet(h, DOMAIN f)
    <3> HIDE DEF m, w
    <3> QED BY <2>4, <2>6, <2>9, SumOfWeights
  <2>11. SumFunctionOnSet(h, DOMAIN f) \in Nat
    <3> HIDE DEF h
    <3> QED BY <2>6, <2>8, SumIsNat
  <2>12. CostOf(f) = SumFunctionOnSet(w, DOMAIN f) /\ SumFunctionOnSet(f, DOMAIN f) = Demand
    BY <2>6 DEF CostOf, SumFunction
  <2>13. g[d] = CostOf(f) - Demand * k
    BY <2>1, <2>2
  <2>14. Dear(d) = h
    BY <2>1, <2>2
  <2>15. g[d] = SumFunctionOnSet(h, DOMAIN f)
    <3> HIDE DEF g, h, w
    <3> QED BY <2>10, <2>12, <2>13
  <2> HIDE DEF g, h, Dear
  <2> QED BY <2>1, <2>6, <2>8, <2>11, <2>14, <2>15
<1>2. Excess(t) = SumFunctionOnSet(g, Served)
  BY DEF Excess, SumFunction
<1>3. g[c] = 0
  <2> HIDE DEF g
  <2> QED BY <1>1, <1>2, TrailsAre, NoneOfZero
<1>4. ASSUME NEW p \in DOMAIN flows[c] PROVE p \in Cheapest(c)
  <2>1. Dear(c)[p] = 0
    <3>1. PICK h : h = Dear(c)
      OBVIOUS
    <3>2. /\ IsFiniteSet(DOMAIN flows[c]) /\ \A q \in DOMAIN flows[c] : h[q] \in Nat
          /\ SumFunctionOnSet(h, DOMAIN flows[c]) = 0
      <4> HIDE DEF g, Dear
      <4> QED BY <1>1, <1>3, <3>1
    <3>3. h[p] = 0
      BY <3>2, NoneOfZero
    <3> QED BY <3>1, <3>3
  <2>2. PICK k : k = TrailMarginal(t[c])
    OBVIOUS
  <2>3. c \in Commodities /\ t[c] \in TrailsOf[c] /\ t[c] \in Trails /\ \A q \in TrailsOf[c] : k <= TrailMarginal(q)
    BY <2>2, TargetsAre
  <2>4. flows[c][p] \in Nat \ {0} /\ p \in TrailsOf[c] /\ p \in Trails
    BY <2>3, TrailsAre DEF FlowsInv, AllFlows, OneFlow
  <2>5. k \in Int /\ TrailMarginal(p) \in Int
    BY <2>2, <2>3, <2>4, MarginalsAre
  <2>6. flows[c][p] * (TrailMarginal(p) - k) = 0
    BY <2>1, <2>2, <2>4 DEF Weighed
  <2>7. TrailMarginal(p) = k
    <3> DEFINE a == flows[c][p]  b == TrailMarginal(p) - k
    <3>1. a \in Nat \ {0} /\ b \in Int /\ a * b = 0
      BY <2>4, <2>5, <2>6
    <3> HIDE DEF a, b
    <3>2. b = 0
      BY <3>1
    <3> QED BY <2>5, <3>2 DEF b
  <2> QED BY <2>3, <2>4, <2>7 DEF Cheapest
<1> QED BY <1>4

LEMMA StopKeeps ==
  ASSUME FlowsInv, Stop
  PROVE  FlowsInv'
<1>1. iteration > 0 /\ UNCHANGED <<idle, flows, load, iteration>>
  BY DEF Stop
<1>2. UsesCheapest'
  <2> SUFFICES ASSUME solved' = "gap", NEW c \in Served PROVE DOMAIN flows'[c] \subseteq Cheapest(c)'
    BY DEF UsesCheapest
  <2>1. PICK t \in Targets : Converged(t)
    BY DEF Stop
  <2>2. Excess(t) = 0
    BY <2>1 DEF Converged
  <2>3. DOMAIN flows[c] \subseteq Cheapest(c)
    BY <1>1, <2>2, NothingIsDear
  <2>4. Cheapest(c)' = Cheapest(c)
    BY <1>1 DEF Cheapest, TrailMarginal, Marginal
  <2> QED BY <1>1, <2>3, <2>4
<1>3. (iteration > 0 => load = LoadOf(flows) /\ Whole(Demand, TheHalving[iteration - 1]))'
  BY <1>1 DEF FlowsInv
<1>4. AllFlows(flows, iteration)'
  BY <1>1 DEF FlowsInv
<1> QED BY <1>1, <1>2, <1>3, <1>4 DEF FlowsInv

LEMMA FlowsStep ==
  ASSUME FlowsInv, FlowNext \/ UNCHANGED flowVars
  PROVE  FlowsInv'
<1>1. CASE UNCHANGED flowVars
  <2>1. UNCHANGED <<idle, flows, load, iteration, solved>>
    BY <1>1 DEF flowVars
  <2>2. UsesCheapest'
    BY <2>1 DEF FlowsInv, UsesCheapest, Cheapest, TrailMarginal, Marginal
  <2>3. (iteration > 0 => load = LoadOf(flows) /\ Whole(Demand, TheHalving[iteration - 1]))'
    BY <2>1 DEF FlowsInv
  <2>4. AllFlows(flows, iteration)'
    BY <2>1 DEF FlowsInv
  <2> QED BY <2>1, <2>2, <2>3, <2>4 DEF FlowsInv
<1> QED BY <1>1, AllOrNothingKeeps, IterateKeeps, StopKeeps DEF FlowNext

LEMMA FlowsStart == FlowInit => FlowsInv
<1> SUFFICES ASSUME FlowInit PROVE FlowsInv OBVIOUS
<1>1. /\ idle \in [Edges -> IdleCosts] /\ flows = [c \in Commodities |-> Unserved]
      /\ load = [e \in Edges |-> 0] /\ iteration = 0 /\ solved = "no"
  BY DEF FlowInit
<1>2. AllFlows(flows, iteration)
  BY <1>1 DEF AllFlows, OneFlow, Unserved
<1>3. UsesCheapest
  BY <1>1 DEF UsesCheapest
<1>4. iteration \in 0..MaxIterations + 1
  BY <1>1, HalvingIs
<1> QED BY <1>1, <1>2, <1>3, <1>4 DEF FlowsInv

LEMMA FlowsInvImplies == FlowsInv => FlowsSound
<1> SUFFICES ASSUME FlowsInv PROVE FlowsSound OBVIOUS
<1>1. DemandSent
  <2> SUFFICES ASSUME iteration > 0
               PROVE  /\ \A c \in Served : Total(flows[c]) = Demand /\ DOMAIN flows[c] \subseteq TrailsOf[c]
                      /\ load = LoadOf(flows)
    BY DEF DemandSent
  <2>1. \A c \in Served : OneFlow(flows[c], c, iteration)
    BY TrailsAre DEF FlowsInv, AllFlows
  <2> QED BY <2>1 DEF FlowsInv, OneFlow, Total
<1> QED BY <1>1 DEF FlowsInv, FlowsSound

-----------------------------------------------------------------------------
(***************************************************************************)
(* TreeBuilt, for any overlay and costs.  Every state the search has found *)
(* is due in the heap, or has been gone on from (GoneOn); and the route    *)
(* kept with it is a walk of its cost (LeadsTo).  So along any walk to the *)
(* destination a state is due that costs no more (DueWithin), and what is  *)
(* nearest in the heap is the cheapest; it has no cycle, since without the *)
(* cycle it would be cheaper with fewer relays.  While the routes are      *)
(* stitched, each node of the part behind has a parent (PathOK), and who   *)
(* can be reached has one, or a route yet to be stitched (Accounted).      *)
(***************************************************************************)
CostsTyped == hop \in [Links -> Nat] /\ pass \in [Nodes -> Nat]

LEMMA LeastOf ==
  ASSUME NEW B \in SUBSET Nat, B # {}
  PROVE  \E m \in B : \A k \in Nat : k < m => k \notin B
<1>1. \E m \in B : \A k \in B : ~ (<<k, m>> \in OpToRel(<, Nat))
  BY NatLessThanWellFounded, WFMin
<1>2. PICK m \in B : \A k \in B : ~ (<<k, m>> \in OpToRel(<, Nat))
  BY <1>1
<1>3. \A k \in B : ~(k < m)
  BY <1>2 DEF OpToRel
<1> QED BY <1>3

-----------------------------------------------------------------------------
(* Walks from the source, and what they cost up to a place.                 *)
Walk(p) ==
  /\ p \in Seq(Nodes) /\ Len(p) \in 1..MaxRelayHops + 2 /\ p[1] = Source
  /\ \A i \in 2..Len(p) : <<p[i - 1], p[i]>> \in Links /\ hop[<<p[i - 1], p[i]>>] # Barred

Steps(p) == [i \in 2..Len(p) |-> StepCost(p, i)]
CostAt(p, n) == SumFunctionOnSet(Steps(p), 2..n)

LEMMA SizesAre == N \in Nat /\ Source \in Nodes /\ MaxRelayHops \in Nat /\ Nodes \in SUBSET Nat
BY TreeAssumption DEF Nodes

LEMMA WalkIs ==
  ASSUME CostsTyped, NEW p, Walk(p)
  PROVE  /\ Len(p) \in Nat /\ Len(p) >= 1 /\ Len(p) <= MaxRelayHops + 2 /\ DOMAIN p = 1..Len(p) /\ p[1] = Source
         /\ \A i \in 1..Len(p) : p[i] \in Nodes
         /\ \A i \in 2..Len(p) : /\ p[i - 1] \in Nodes /\ p[i] \in Nodes \ {Source} /\ <<p[i - 1], p[i]>> \in Links
                                 /\ hop[<<p[i - 1], p[i]>>] \in Nat \ {0}
                                 /\ StepCost(p, i) \in Nat \ {0}
<1>1. /\ Len(p) \in Nat /\ Len(p) >= 1 /\ Len(p) <= MaxRelayHops + 2 /\ DOMAIN p = 1..Len(p) /\ p[1] = Source
      /\ \A i \in 1..Len(p) : p[i] \in Nodes
  BY SizesAre DEF Walk
<1>2. ASSUME NEW i \in 2..Len(p)
      PROVE  /\ p[i - 1] \in Nodes /\ p[i] \in Nodes \ {Source} /\ <<p[i - 1], p[i]>> \in Links
             /\ hop[<<p[i - 1], p[i]>>] \in Nat \ {0}
             /\ StepCost(p, i) \in Nat \ {0}
  <2>1. i \in 1..Len(p) /\ i - 1 \in 1..Len(p)
    BY <1>1
  <2>2. p[i - 1] \in Nodes /\ p[i] \in Nodes
    BY <1>1, <2>1
  <2>3. <<p[i - 1], p[i]>> \in Links /\ hop[<<p[i - 1], p[i]>>] # Barred
    BY DEF Walk
  <2>4. p[i] # Source
    BY <2>3 DEF Links
  <2>5. hop[<<p[i - 1], p[i]>>] \in Nat \ {0}
    BY <2>3 DEF CostsTyped, Barred
  <2>6. (IF i = 2 THEN 0 ELSE pass[p[i - 1]]) \in Nat
    BY <2>2 DEF CostsTyped
  <2>7. StepCost(p, i) \in Nat \ {0}
    BY <2>5, <2>6 DEF StepCost
  <2> QED BY <2>2, <2>3, <2>4, <2>5, <2>7
<1> QED BY <1>1, <1>2

LEMMA CostsAt ==
  ASSUME CostsTyped, NEW p, Walk(p)
  PROVE  /\ CostAt(p, 1) = 0
         /\ \A n \in 1..Len(p) : CostAt(p, n) \in Nat
         /\ \A n \in 2..Len(p) : CostAt(p, n) = CostAt(p, n - 1) + StepCost(p, n)
<1>1. PICK g : g = Steps(p)
  OBVIOUS
<1>2. Len(p) \in Nat /\ \A i \in 2..Len(p) : g[i] = StepCost(p, i) /\ g[i] \in Nat
  BY <1>1, WalkIs DEF Steps
<1>3. \A n \in 1..Len(p) : IsFiniteSet(2..n) /\ 2..n \in SUBSET (2..Len(p))
  <2> TAKE n \in 1..Len(p)
  <2>1. n \in Int /\ 2 \in Int BY <1>2
  <2>2. IsFiniteSet(2..n) BY <2>1, FS_Interval
  <2>3. \A i \in 2..n : i \in 2..Len(p) BY <1>2
  <2> QED BY <2>2, <2>3
<1>4. CostAt(p, 1) = 0
  <2>1. 2..1 = {} OBVIOUS
  <2> QED BY <2>1, SumOfNone DEF CostAt
<1>5. ASSUME NEW n \in 1..Len(p) PROVE CostAt(p, n) \in Nat
  <2>1. \A i \in 2..n : g[i] \in Nat
    BY <1>2, <1>3
  <2>2. SumFunctionOnSet(g, 2..n) \in Nat
    BY <1>3, <2>1, SumIsNat
  <2> QED BY <1>1, <2>2 DEF CostAt
<1>6. ASSUME NEW n \in 2..Len(p) PROVE CostAt(p, n) = CostAt(p, n - 1) + StepCost(p, n)
  <2>1. n \in 1..Len(p) /\ n \in 2..n /\ (2..n) \ {n} = 2..n - 1
    BY <1>2
  <2>2. Adds(g, 2..n)
    <3>1. \A i \in 2..n : g[i] \in Int
      BY <1>2, <1>3, <2>1
    <3> QED BY <1>3, <2>1, <3>1 DEF Adds
  <2>3. SumFunctionOnSet(g, 2..n) = g[n] + SumFunctionOnSet(g, (2..n) \ {n})
    BY <2>1, <2>2, SumWithout
  <2>4. n - 1 \in 1..Len(p)
    BY <1>2
  <2>5. CostAt(p, n - 1) \in Nat /\ g[n] \in Nat /\ g[n] = StepCost(p, n)
    BY <1>2, <1>5, <2>4
  <2>6. CostAt(p, n) = g[n] + CostAt(p, n - 1)
    BY <1>1, <2>1, <2>3 DEF CostAt
  <2> QED BY <2>5, <2>6
<1> QED BY <1>4, <1>5, <1>6

LEMMA CostOfLast ==
  ASSUME NEW p
  PROVE  CostOfRoute(p) = CostAt(p, Len(p))
BY DEF CostOfRoute, CostAt, Steps, SumFunction

LEMMA CostsGrow ==
  ASSUME CostsTyped, NEW p, Walk(p), NEW i \in 1..Len(p), NEW j \in 1..Len(p), i < j
  PROVE  CostAt(p, i) < CostAt(p, j)
<1> DEFINE Bad == {k \in Nat : k <= Len(p) /\ i < k /\ ~(CostAt(p, i) < CostAt(p, k))}
<1>1. Len(p) \in Nat
  BY WalkIs
<1> SUFFICES ASSUME Bad # {} PROVE FALSE
  <2>1. j \in Nat /\ j <= Len(p)
    BY <1>1
  <2> QED BY <2>1
<1>2. PICK k \in Bad : \A m \in Nat : m < k => m \notin Bad
  BY LeastOf
<1>3. k \in Nat /\ k <= Len(p) /\ i < k /\ ~(CostAt(p, i) < CostAt(p, k)) /\ i \in Nat /\ i >= 1
  BY <1>1
<1>4. k \in 2..Len(p) /\ k - 1 \in Nat /\ k - 1 < k /\ k - 1 <= Len(p) /\ k - 1 \in 1..Len(p)
  BY <1>1, <1>3
<1>5. k - 1 \notin Bad
  BY <1>2, <1>4
<1> HIDE DEF Bad
<1>6. /\ CostAt(p, k) = CostAt(p, k - 1) + StepCost(p, k) /\ StepCost(p, k) \in Nat \ {0}
      /\ CostAt(p, k - 1) \in Nat /\ CostAt(p, i) \in Nat
  BY <1>4, CostsAt, WalkIs
<1>7. CASE k - 1 = i
  BY <1>3, <1>6, <1>7
<1>8. CASE k - 1 # i
  <2>1. i < k - 1
    BY <1>3, <1>4, <1>8
  <2>2. CostAt(p, i) < CostAt(p, k - 1)
    BY <1>4, <1>5, <2>1 DEF Bad
  <2> QED BY <1>3, <1>6, <2>2
<1> QED BY <1>7, <1>8

LEMMA WalksGoOn ==
  ASSUME CostsTyped, NEW p, Walk(p), NEW b \in Nodes, Len(p) <= MaxRelayHops + 1,
         <<p[Len(p)], b>> \in Links, hop[<<p[Len(p)], b>>] # Barred,
         NEW q, q = Append(p, b)
  PROVE  /\ Walk(q) /\ Len(q) = Len(p) + 1 /\ q[Len(q)] = b
         /\ CostOfRoute(q) = CostOfRoute(p) + hop[<<p[Len(p)], b>>] + (IF Len(p) = 1 THEN 0 ELSE pass[p[Len(p)]])
<1>1. /\ Len(p) \in Nat /\ Len(p) >= 1 /\ p \in Seq(Nodes) /\ p[1] = Source
      /\ \A i \in 2..Len(p) : <<p[i - 1], p[i]>> \in Links /\ hop[<<p[i - 1], p[i]>>] # Barred
  BY WalkIs DEF Walk
<1>2. /\ q \in Seq(Nodes) /\ Len(q) = Len(p) + 1 /\ q[Len(q)] = b
      /\ \A i \in 1..Len(p) : q[i] = p[i]
  <2>1. q \in Seq(Nodes) /\ Len(q) = Len(p) + 1 /\ \A i \in 1..Len(p) : q[i] = p[i]
    BY <1>1
  <2>2. q[Len(p) + 1] = b
    BY <1>1
  <2> QED BY <2>1, <2>2
<1>3. Walk(q)
  <2>1. Len(q) \in 1..MaxRelayHops + 2 /\ q[1] = Source
    BY <1>1, <1>2, SizesAre
  <2>2. ASSUME NEW i \in 2..Len(q)
        PROVE  <<q[i - 1], q[i]>> \in Links /\ hop[<<q[i - 1], q[i]>>] # Barred
    <3>1. CASE i = Len(q)
      <4>1. i - 1 = Len(p) /\ q[i - 1] = p[Len(p)] /\ q[i] = b
        BY <1>1, <1>2, <3>1
      <4> QED BY <4>1
    <3>2. CASE i # Len(q)
      <4>1. i \in 2..Len(p) /\ q[i - 1] = p[i - 1] /\ q[i] = p[i]
        BY <1>1, <1>2, <3>2
      <4> QED BY <1>1, <4>1
    <3> QED BY <3>1, <3>2
  <2> QED BY <1>2, <2>1, <2>2 DEF Walk
<1>4. CostAt(q, Len(p)) = CostAt(p, Len(p))
  <2>1. PICK f : f = Steps(p) OBVIOUS
  <2>2. PICK g : g = Steps(q) OBVIOUS
  <2>3. \A i \in 2..Len(p) : f[i] = StepCost(p, i)
    BY <2>1 DEF Steps
  <2>4. \A i \in 2..Len(p) : g[i] = StepCost(q, i)
    <3>1. \A i \in 2..Len(p) : i \in 2..Len(q)
      BY <1>1, <1>2
    <3> QED BY <2>2, <3>1 DEF Steps
  <2>5. \A i \in 2..Len(p) : StepCost(p, i) = StepCost(q, i)
    <3>1. \A i \in 2..Len(p) : q[i - 1] = p[i - 1] /\ q[i] = p[i]
      BY <1>1, <1>2
    <3> QED BY <3>1, Zenon DEF StepCost
  <2>6. IsFiniteSet(2..Len(p)) /\ \A i \in 2..Len(p) : g[i] = f[i]
    <3>1. IsFiniteSet(2..Len(p))
      <4>1. 2 \in Int /\ Len(p) \in Int BY <1>1
      <4> QED BY <4>1, FS_Interval
    <3> QED BY <2>3, <2>4, <2>5, <3>1, Zenon
  <2>7. SumFunctionOnSet(g, 2..Len(p)) = SumFunctionOnSet(f, 2..Len(p))
    BY <2>6, SumsAgree
  <2> QED BY <2>1, <2>2, <2>7 DEF CostAt
<1>5. Len(q) \in 2..Len(q) /\ Len(q) - 1 = Len(p) /\ Len(p) \in 1..Len(p)
  BY <1>1, <1>2
<1>6. CostAt(q, Len(q)) = CostAt(q, Len(p)) + StepCost(q, Len(q))
  BY <1>3, <1>5, CostsAt
<1>7. StepCost(q, Len(q)) = hop[<<p[Len(p)], b>>] + (IF Len(p) = 1 THEN 0 ELSE pass[p[Len(p)]])
  <2>1. q[Len(q) - 1] = p[Len(p)] /\ (Len(q) = 2 <=> Len(p) = 1)
    BY <1>1, <1>2, <1>5
  <2> QED BY <1>2, <2>1 DEF StepCost
<1>8. CostAt(p, Len(p)) \in Nat
  BY <1>5, CostsAt
<1>9. hop[<<p[Len(p)], b>>] \in Nat /\ (IF Len(p) = 1 THEN 0 ELSE pass[p[Len(p)]]) \in Nat
  <2>1. p[Len(p)] \in Nodes
    BY <1>5, WalkIs
  <2> QED BY <2>1 DEF CostsTyped
<1>10. CostOfRoute(q) = CostOfRoute(p) + hop[<<p[Len(p)], b>>] + (IF Len(p) = 1 THEN 0 ELSE pass[p[Len(p)]])
  <2> DEFINE x == hop[<<p[Len(p)], b>>]  y == IF Len(p) = 1 THEN 0 ELSE pass[p[Len(p)]]
             k == CostAt(p, Len(p))
  <2>1. x \in Nat /\ y \in Nat /\ k \in Nat /\ CostAt(q, Len(q)) = k + (x + y)
    BY <1>4, <1>6, <1>7, <1>8, <1>9
  <2>2. CostOfRoute(q) = CostAt(q, Len(q)) /\ CostOfRoute(p) = k
    BY CostOfLast
  <2> HIDE DEF x, y, k
  <2>3. CostOfRoute(q) = CostOfRoute(p) + x + y
    BY <2>1, <2>2
  <2> QED BY <2>3 DEF x, y
<1> QED BY <1>2, <1>3, <1>10

LEMMA RoutesAre ==
  ASSUME NEW d \in Nodes, NEW p
  PROVE  p \in Routes(d) <=>
           /\ Walk(p) /\ Len(p) >= 2 /\ p[Len(p)] = d
           /\ \A i, j \in 1..Len(p) : i # j => p[i] # p[j]
<1>1. ASSUME p \in Routes(d)
      PROVE  /\ Walk(p) /\ Len(p) >= 2 /\ p[Len(p)] = d
             /\ \A i, j \in 1..Len(p) : i # j => p[i] # p[j]
  <2>1. PICK n \in 2..MaxRelayHops + 2 : p \in [1..n -> Nodes]
    BY <1>1 DEF Routes
  <2>2. n \in Nat /\ p \in Seq(Nodes) /\ Len(p) = n /\ DOMAIN p = 1..n
    BY <2>1, SizesAre
  <2>3. /\ p[1] = Source /\ p[Len(p)] = d /\ \A i, j \in DOMAIN p : i # j => p[i] # p[j]
        /\ \A i \in 2..Len(p) : hop[<<p[i - 1], p[i]>>] # Barred
    BY <1>1 DEF Routes
  <2>4. ASSUME NEW i \in 2..Len(p) PROVE <<p[i - 1], p[i]>> \in Links
    <3>1. i \in 1..n /\ i - 1 \in 1..n /\ 1 \in 1..n /\ i # i - 1 /\ i # 1
      BY <2>2
    <3>2. p[i] \in Nodes /\ p[i - 1] \in Nodes /\ p[i] # p[i - 1] /\ p[i] # Source
      BY <2>1, <2>2, <2>3, <3>1
    <3> QED BY <3>2 DEF Links
  <2>5. Len(p) \in 1..MaxRelayHops + 2 /\ Len(p) >= 2
    BY <2>1, <2>2, SizesAre
  <2> QED BY <2>2, <2>3, <2>4, <2>5 DEF Walk
<1>2. ASSUME Walk(p), Len(p) >= 2, p[Len(p)] = d, \A i, j \in 1..Len(p) : i # j => p[i] # p[j]
      PROVE  p \in Routes(d)
  <2>1. /\ p \in Seq(Nodes) /\ Len(p) \in 1..MaxRelayHops + 2 /\ p[1] = Source
        /\ \A i \in 2..Len(p) : hop[<<p[i - 1], p[i]>>] # Barred
    BY <1>2 DEF Walk
  <2>2. Len(p) \in 2..MaxRelayHops + 2 /\ p \in [1..Len(p) -> Nodes] /\ DOMAIN p = 1..Len(p)
    BY <1>2, <2>1, SizesAre
  <2>3. p \in UNION {[1..n -> Nodes] : n \in 2..MaxRelayHops + 2}
    BY <2>2
  <2> QED BY <1>2, <2>1, <2>2, <2>3 DEF Routes
<1> QED BY <1>1, <1>2

-----------------------------------------------------------------------------
Leaving(s) == IF s = Origin THEN 0 ELSE pass[s[1]]
Entry(s) == [to |-> s, dist |-> dist[s]]
SearchStates == {Origin} \cup ((Nodes \ {Source}) \X (0..MaxRelayHops))

(* Gone on from: whatever is a hop further is found, at this cost or less.  *)
GoneOn(s) ==
  Forwards(s) =>
    \A b \in Nodes : <<s[1], b>> \in Links /\ hop[<<s[1], b>>] # Barred =>
      /\ <<b, Relays(s)>> \in DOMAIN dist
      /\ dist[<<b, Relays(s)>>] <= dist[s] + Leaving(s) + hop[<<s[1], b>>]

LeadsTo(p, s, c) ==
  /\ Walk(p) /\ p[Len(p)] = s[1] /\ Len(p) = (IF s = Origin THEN 1 ELSE s[2] + 2)
  /\ CostOfRoute(p) = c

Due(f) == f = [to |-> f.to, dist |-> f.dist] /\ f.to \in DOMAIN dist /\ f.dist \in Nat /\ dist[f.to] <= f.dist
SearchTypes ==
  /\ CostsTyped /\ goal \in 0..N
  /\ Origin \in DOMAIN dist /\ dist[Origin] = 0 /\ DOMAIN dist \in SUBSET SearchStates
  /\ dist \in [DOMAIN dist -> Nat] /\ DOMAIN route = DOMAIN dist
  /\ \A f \in heap : Due(f)
SearchInv ==
  /\ SearchTypes
  /\ \A s \in DOMAIN dist : /\ Entry(s) \in heap \/ (GoneOn(s) /\ s[1] # goal)
                            /\ LeadsTo(route[s], s, dist[s])

(* A state due, or gone on from with no more relays, that costs no more.    *)
DueWithin(c, v, r) ==
  \/ \E f \in heap : f.dist <= c
  \/ \E q \in 0..r : <<v, q>> \in DOMAIN dist /\ dist[<<v, q>>] <= c /\ Entry(<<v, q>>) \notin heap

LEMMA WithinStart ==
  ASSUME SearchInv, goal # Source, NEW p, Walk(p), Len(p) >= 2
  PROVE  DueWithin(CostAt(p, 2), p[2], 0)
<1>1. CostsTyped /\ Len(p) \in Nat /\ 2 \in 2..Len(p) /\ 1 \in 1..Len(p) /\ 2 \in 1..Len(p)
  BY WalkIs DEF SearchInv, SearchTypes
<1>2. /\ p[1] = Source /\ p[2] \in Nodes /\ <<p[1], p[2]>> \in Links
      /\ hop[<<p[1], p[2]>>] # Barred /\ hop[<<p[1], p[2]>>] \in Nat
  <2>1. /\ p[1] = Source /\ p[2] \in Nodes /\ <<p[2 - 1], p[2]>> \in Links
        /\ hop[<<p[2 - 1], p[2]>>] \in Nat \ {0}
    BY <1>1, WalkIs
  <2>2. 2 - 1 = 1 OBVIOUS
  <2> QED BY <2>1, <2>2 DEF Barred
<1>3. CostAt(p, 2) = hop[<<Source, p[2]>>]
  <2>1. CostAt(p, 2) = CostAt(p, 2 - 1) + StepCost(p, 2) /\ CostAt(p, 1) = 0
    BY <1>1, CostsAt
  <2>2. StepCost(p, 2) = hop[<<p[1], p[2]>>] + 0
    BY DEF StepCost
  <2>3. 2 - 1 = 1 OBVIOUS
  <2> QED BY <1>2, <2>1, <2>2, <2>3
<1>4. Origin \in DOMAIN dist /\ dist[Origin] = 0 /\ (Entry(Origin) \in heap \/ GoneOn(Origin))
  BY DEF SearchInv, SearchTypes
<1>5. CASE Entry(Origin) \in heap
  <2>1. Entry(Origin).dist = 0
    BY <1>4 DEF Entry
  <2>2. 0 <= CostAt(p, 2)
    BY <1>2, <1>3
  <2> QED BY <1>5, <2>1, <2>2 DEF DueWithin
<1>6. CASE GoneOn(Origin)
  <2>1. Relays(Origin) = 0 /\ Forwards(Origin) /\ Leaving(Origin) = 0 /\ Origin[1] = Source
    BY SizesAre DEF Relays, Forwards, Leaving, Origin
  <2> DEFINE t == <<p[2], 0>>
  <2>2. t \in DOMAIN dist /\ dist[t] <= dist[Origin] + Leaving(Origin) + hop[<<Source, p[2]>>]
    BY <1>2, <1>6, <2>1 DEF GoneOn
  <2>3. dist[t] \in Nat
    BY <2>2 DEF SearchInv, SearchTypes
  <2>4. dist[t] <= CostAt(p, 2)
    BY <1>2, <1>3, <1>4, <2>1, <2>2, <2>3
  <2>5. CASE Entry(t) \in heap
    <3>1. Entry(t).dist = dist[t]
      BY DEF Entry
    <3> QED BY <2>4, <2>5, <3>1 DEF DueWithin
  <2>6. CASE Entry(t) \notin heap
    <3>1. 0 \in 0..0 OBVIOUS
    <3> QED BY <2>2, <2>4, <2>6, <3>1 DEF DueWithin
  <2> QED BY <2>5, <2>6
<1> QED BY <1>4, <1>5, <1>6

LEMMA WithinStep ==
  ASSUME SearchInv, NEW c \in Int, NEW v \in Nodes \ {Source}, NEW r \in Nat, r + 1 <= MaxRelayHops,
         DueWithin(c, v, r), NEW b \in Nodes, <<v, b>> \in Links, hop[<<v, b>>] # Barred
  PROVE  DueWithin(c + (hop[<<v, b>>] + pass[v]), b, r + 1)
<1>1. PICK k : k = hop[<<v, b>>] + pass[v]
  OBVIOUS
<1>2. hop[<<v, b>>] \in Nat /\ pass[v] \in Nat /\ k \in Nat
  BY <1>1 DEF SearchInv, SearchTypes, CostsTyped
<1>3. CASE \E f \in heap : f.dist <= c
  <2>1. PICK f \in heap : f.dist <= c
    BY <1>3
  <2>2. f.dist \in Nat
    BY DEF SearchInv, SearchTypes, Due
  <2>3. f.dist <= c + k
    BY <1>2, <2>1, <2>2
  <2> QED BY <1>1, <2>3 DEF DueWithin
<1>4. CASE \E q \in 0..r : <<v, q>> \in DOMAIN dist /\ dist[<<v, q>>] <= c /\ Entry(<<v, q>>) \notin heap
  <2>1. PICK q \in 0..r : <<v, q>> \in DOMAIN dist /\ dist[<<v, q>>] <= c /\ Entry(<<v, q>>) \notin heap
    BY <1>4
  <2>2. PICK s : s = <<v, q>>
    OBVIOUS
  <2>3. s # Origin /\ s[1] = v /\ s[2] = q /\ q \in Nat
    BY <2>2 DEF Origin
  <2>4. Relays(s) = q + 1 /\ Forwards(s) /\ Leaving(s) = pass[v] /\ q + 1 \in 0..r + 1
    <3>1. q + 1 <= MaxRelayHops
      BY <2>3, SizesAre
    <3> QED BY <2>3, <3>1 DEF Relays, Forwards, Leaving
  <2>5. GoneOn(s)
    BY <2>1, <2>2 DEF SearchInv
  <2> DEFINE t == <<b, q + 1>>
  <2>6. t \in DOMAIN dist /\ dist[t] <= dist[s] + pass[v] + hop[<<v, b>>]
    BY <2>3, <2>4, <2>5 DEF GoneOn
  <2>7. dist[t] \in Nat /\ dist[s] \in Nat /\ dist[s] <= c
    BY <2>1, <2>2, <2>6 DEF SearchInv, SearchTypes
  <2>8. dist[t] <= c + k
    BY <1>1, <1>2, <2>6, <2>7
  <2>9. CASE Entry(t) \in heap
    <3>1. Entry(t).dist = dist[t]
      BY DEF Entry
    <3> QED BY <1>1, <2>8, <2>9, <3>1 DEF DueWithin
  <2>10. CASE Entry(t) \notin heap
    BY <1>1, <2>4, <2>6, <2>8, <2>10 DEF DueWithin
  <2> QED BY <2>9, <2>10
<1> QED BY <1>3, <1>4 DEF DueWithin

LEMMA WithinAlong ==
  ASSUME SearchInv, NEW p, Walk(p), NEW a \in 2..Len(p), NEW gain \in Nat,
         DueWithin(CostAt(p, a) - gain, p[a], a - 2), NEW j \in a..Len(p)
  PROVE  DueWithin(CostAt(p, j) - gain, p[j], j - 2)
<1> DEFINE Bad == {k \in Nat : a <= k /\ k <= Len(p) /\ ~DueWithin(CostAt(p, k) - gain, p[k], k - 2)}
<1>1. Len(p) \in Nat /\ CostsTyped /\ a \in Nat /\ a >= 2
  BY WalkIs DEF SearchInv, SearchTypes
<1> SUFFICES ASSUME Bad # {} PROVE FALSE
  <2>1. j \in Nat /\ a <= j /\ j <= Len(p)
    BY <1>1
  <2> QED BY <2>1
<1>2. PICK k \in Bad : \A m \in Nat : m < k => m \notin Bad
  BY LeastOf
<1>3. k \in Nat /\ a <= k /\ k <= Len(p) /\ ~DueWithin(CostAt(p, k) - gain, p[k], k - 2)
  OBVIOUS
<1>4. k # a
  BY <1>3
<1>5. k - 1 \in Nat /\ k - 1 < k /\ a <= k - 1 /\ k - 1 <= Len(p) /\ k # 2
  BY <1>1, <1>3, <1>4
<1>6. k - 1 \notin Bad
  BY <1>2, <1>5
<1> HIDE DEF Bad
<1>7. DueWithin(CostAt(p, k - 1) - gain, p[k - 1], k - 3)
  <2>1. DueWithin(CostAt(p, k - 1) - gain, p[k - 1], (k - 1) - 2)
    BY <1>5, <1>6 DEF Bad
  <2>2. (k - 1) - 2 = k - 3
    BY <1>3
  <2> QED BY <2>1, <2>2
<1>8. k \in 2..Len(p) /\ k - 1 \in 1..Len(p) /\ k - 1 \in 2..Len(p)
  BY <1>1, <1>3, <1>5
<1>9. PICK v : v = p[k - 1] OBVIOUS
<1>10. PICK b : b = p[k] OBVIOUS
<1>11. PICK c : c = CostAt(p, k - 1) - gain OBVIOUS
<1>12. PICK r : r = k - 3 OBVIOUS
<1>13. /\ v \in Nodes \ {Source} /\ b \in Nodes /\ <<v, b>> \in Links /\ hop[<<v, b>>] # Barred
       /\ hop[<<v, b>>] \in Nat /\ pass[v] \in Nat
  <2>1. p[k - 1] \in Nodes \ {Source}
    BY <1>1, <1>8, WalkIs
  <2>2. p[k] \in Nodes /\ <<p[k - 1], p[k]>> \in Links /\ hop[<<p[k - 1], p[k]>>] \in Nat \ {0}
    BY <1>1, <1>8, WalkIs
  <2> QED BY <1>1, <1>9, <1>10, <2>1, <2>2 DEF Barred, CostsTyped
<1>14. CostAt(p, k - 1) \in Nat /\ CostAt(p, k) = CostAt(p, k - 1) + StepCost(p, k)
  BY <1>1, <1>8, CostsAt
<1>15. StepCost(p, k) = hop[<<v, b>>] + pass[v]
  BY <1>5, <1>9, <1>10 DEF StepCost
<1>16. c \in Int /\ CostAt(p, k) - gain = c + (hop[<<v, b>>] + pass[v])
  BY <1>11, <1>13, <1>14, <1>15
<1>17. r \in Nat /\ r + 1 <= MaxRelayHops /\ r + 1 = k - 2
  <2>1. Len(p) <= MaxRelayHops + 2
    BY <1>1, WalkIs
  <2> QED BY <1>1, <1>3, <1>5, <1>12, <2>1, SizesAre
<1>18. DueWithin(c, v, r)
  BY <1>7, <1>9, <1>11, <1>12
<1>19. DueWithin(c + (hop[<<v, b>>] + pass[v]), b, r + 1)
  BY <1>13, <1>16, <1>17, <1>18, WithinStep
<1> QED BY <1>3, <1>10, <1>16, <1>17, <1>19

LEMMA WithinFirst ==
  ASSUME SearchInv, goal # Source, NEW p, Walk(p), NEW j \in 2..Len(p)
  PROVE  DueWithin(CostAt(p, j), p[j], j - 2)
<1>1. Len(p) \in Nat /\ Len(p) >= 2 /\ 2 \in 2..Len(p) /\ j \in 1..Len(p) /\ 2 \in 1..Len(p) /\ CostsTyped
  BY WalkIs DEF SearchInv, SearchTypes
<1>2. CostAt(p, 2) \in Nat /\ CostAt(p, j) \in Nat
  BY <1>1, CostsAt
<1>3. CostAt(p, 2) - 0 = CostAt(p, 2) /\ 2 - 2 = 0 /\ CostAt(p, j) - 0 = CostAt(p, j)
  BY <1>2
<1>4. DueWithin(CostAt(p, 2) - 0, p[2], 2 - 2)
  BY <1>1, <1>3, WithinStart
<1>5. 0 \in Nat
  OBVIOUS
<1>6. DueWithin(CostAt(p, j) - 0, p[j], j - 2)
  BY <1>1, <1>4, <1>5, WithinAlong
<1> QED BY <1>3, <1>6

(* At the destination nothing has been gone on from.                        *)
LEMMA WithinEnd ==
  ASSUME SearchInv, NEW c, NEW r, DueWithin(c, goal, r)
  PROVE  \E f \in heap : f.dist <= c
<1>1. ASSUME NEW q, <<goal, q>> \in DOMAIN dist, Entry(<<goal, q>>) \notin heap PROVE FALSE
  <2>1. <<goal, q>>[1] = goal OBVIOUS
  <2> QED BY <1>1, <2>1 DEF SearchInv
<1> QED BY <1>1 DEF DueWithin

LEMMA SearchFinds == SearchInv => FindsCheapest
<1> SUFFICES ASSUME SearchInv PROVE FindsCheapest OBVIOUS
<1>0. CostsTyped
  BY DEF SearchInv, SearchTypes
<1>1. ASSUME goal \in Nodes \ {Source}, NEW p \in Routes(goal)
      PROVE  CostOfRoute(p) \in Nat /\ \E f \in heap : f.dist <= CostOfRoute(p)
  <2>1. Walk(p) /\ Len(p) >= 2 /\ p[Len(p)] = goal /\ Len(p) \in Nat
    BY <1>0, <1>1, RoutesAre, WalkIs
  <2>2. Len(p) \in 2..Len(p) /\ Len(p) \in 1..Len(p)
    BY <2>1
  <2>3. DueWithin(CostAt(p, Len(p)), goal, Len(p) - 2)
    <3>1. DueWithin(CostAt(p, Len(p)), p[Len(p)], Len(p) - 2)
      BY <1>1, <2>1, <2>2, WithinFirst
    <3> QED BY <2>1, <3>1
  <2>4. CostAt(p, Len(p)) \in Nat /\ CostOfRoute(p) = CostAt(p, Len(p))
    BY <1>0, <2>1, <2>2, CostsAt, CostOfLast
  <2> QED BY <2>3, <2>4, WithinEnd
<1>2. ASSUME NEW e \in Nearest, goal \in Nodes \ {Source}, ~Stale(e), e.to[1] = goal
      PROVE  route[e.to] \in Routes(goal) /\ \A p \in Routes(goal) : e.dist <= CostOfRoute(p)
  <2>1. e \in heap /\ Due(e) /\ \A f \in heap : e.dist <= f.dist /\ f.dist \in Nat
    BY DEF Nearest, SearchInv, SearchTypes, Due
  <2>2. PICK s : s = e.to OBVIOUS
  <2>3. PICK p : p = route[s] OBVIOUS
  <2>4. e.dist \in Nat /\ s \in DOMAIN dist /\ dist[s] = e.dist
    <3>1. dist[s] \in Nat /\ dist[s] <= e.dist /\ ~(e.dist > dist[s]) /\ e.dist \in Nat /\ s \in DOMAIN dist
      BY <1>2, <2>1, <2>2 DEF Due, Stale, SearchInv, SearchTypes
    <3> QED BY <3>1
  <2>5. LeadsTo(p, s, e.dist)
    BY <2>3, <2>4 DEF SearchInv
  <2>6. s # Origin /\ s \in SearchStates
    BY <1>2, <2>2, <2>4 DEF Origin, SearchInv, SearchTypes
  <2>7. s[2] \in Nat
    BY <2>6, SizesAre DEF SearchStates
  <2>8. Walk(p) /\ p[Len(p)] = goal /\ Len(p) \in Nat /\ Len(p) >= 2 /\ CostOfRoute(p) = e.dist
    BY <1>2, <2>2, <2>5, <2>6, <2>7 DEF LeadsTo
  <2>9. CostAt(p, Len(p)) = e.dist
    BY <2>8, CostOfLast
  <2>10. ASSUME NEW i \in 1..Len(p), NEW j \in 1..Len(p), i < j, p[i] = p[j] PROVE FALSE
    <3>1. i \in Nat /\ j \in Nat /\ j \in 2..Len(p) /\ 1 \in 1..Len(p) /\ Len(p) \in 1..Len(p)
      BY <2>8, <2>10
    <3>2. p[j] # Source /\ p[1] = Source
      BY <1>0, <2>8, <3>1, WalkIs
    <3>3. i \in 2..Len(p)
      BY <2>8, <2>10, <3>1, <3>2
    <3>4. DueWithin(CostAt(p, i), p[i], i - 2)
      BY <1>2, <2>8, <3>3, WithinFirst
    <3>5. DueWithin(CostAt(p, i), p[j], j - 2)
      <4>1. \A q \in 0..i - 2 : q \in 0..j - 2
        BY <2>10, <3>1
      <4> QED BY <2>10, <3>4, <4>1 DEF DueWithin
    <3>6. CostAt(p, i) \in Nat /\ CostAt(p, j) \in Nat /\ CostAt(p, i) < CostAt(p, j)
      BY <1>0, <2>8, <2>10, CostsAt, CostsGrow
    <3>7. PICK gain : gain = CostAt(p, j) - CostAt(p, i) OBVIOUS
    <3>8. gain \in Nat \ {0} /\ CostAt(p, j) - gain = CostAt(p, i)
      BY <3>6, <3>7
    <3>9. DueWithin(CostAt(p, j) - gain, p[j], j - 2)
      BY <3>5, <3>8
    <3>10. Len(p) \in j..Len(p) /\ gain \in Nat
      BY <2>8, <3>1, <3>8
    <3>11. DueWithin(CostAt(p, Len(p)) - gain, p[Len(p)], Len(p) - 2)
      BY <2>8, <3>1, <3>9, <3>10, WithinAlong
    <3>12. \E f \in heap : f.dist <= e.dist - gain
      BY <2>8, <2>9, <3>11, WithinEnd
    <3>13. PICK f \in heap : f.dist <= e.dist - gain
      BY <3>12
    <3>14. e.dist <= f.dist /\ f.dist \in Nat
      BY <2>1
    <3> QED BY <2>4, <3>8, <3>13, <3>14
  <2>11. \A i, j \in 1..Len(p) : i # j => p[i] # p[j]
    <3> SUFFICES ASSUME NEW i \in 1..Len(p), NEW j \in 1..Len(p), i # j PROVE p[i] # p[j]
      OBVIOUS
    <3>1. i < j \/ j < i
      BY <2>8
    <3> QED BY <2>10, <3>1
  <2>12. p \in Routes(goal)
    BY <1>2, <2>8, <2>11, RoutesAre
  <2>13. ASSUME NEW z \in Routes(goal) PROVE e.dist <= CostOfRoute(z)
    <3>1. PICK f \in heap : f.dist <= CostOfRoute(z)
      BY <1>1, <1>2
    <3>2. CostOfRoute(z) \in Nat
      BY <1>1, <1>2
    <3>3. e.dist <= f.dist /\ f.dist \in Nat
      BY <2>1
    <3> QED BY <2>4, <3>1, <3>2, <3>3
  <2> QED BY <2>2, <2>3, <2>12, <2>13
<1>3. ASSUME goal \in Nodes \ {Source}, heap = {} PROVE Routes(goal) = {}
  BY <1>1, <1>3
<1> QED BY <1>2, <1>3 DEF FindsCheapest

-----------------------------------------------------------------------------
LEMMA SameCosts ==
  ASSUME UNCHANGED <<hop, pass>>
  PROVE  /\ CostsTyped => CostsTyped'
         /\ \A p : Walk(p)' = Walk(p) /\ CostOfRoute(p)' = CostOfRoute(p)
         /\ \A d : Routes(d)' = Routes(d)
<1>1. CostsTyped => CostsTyped'
  BY DEF CostsTyped
<1>2. \A p : Walk(p)' = Walk(p)
  BY DEF Walk
<1>3. \A p : CostOfRoute(p)' = CostOfRoute(p)
  <2>1. \A p, i : StepCost(p, i)' = StepCost(p, i)
    BY DEF StepCost
  <2> QED BY <2>1 DEF CostOfRoute
<1>4. \A d : Routes(d)' = Routes(d)
  BY DEF Routes
<1> QED BY <1>1, <1>2, <1>3, <1>4

LEMMA SourceLeads ==
  ASSUME CostsTyped
  PROVE  LeadsTo(<<Source>>, Origin, 0)
<1>1. PICK p : p = <<Source>> OBVIOUS
<1>2. p \in Seq(Nodes) /\ Len(p) = 1 /\ p[1] = Source /\ 2..1 = {}
  BY <1>1, SizesAre
<1>3. Walk(p)
  BY <1>2, SizesAre DEF Walk
<1>4. CostOfRoute(p) = 0
  BY <1>2, <1>3, CostOfLast, CostsAt
<1> QED BY <1>1, <1>2, <1>3, <1>4 DEF LeadsTo, Origin

LEMMA SearchStarts ==
  ASSUME CostsTyped, goal \in 0..N, dist = [s \in {Origin} |-> 0], route = [s \in {Origin} |-> <<Source>>],
         heap = {[to |-> Origin, dist |-> 0]}
  PROVE  SearchInv
<1>1. DOMAIN dist = {Origin} /\ DOMAIN route = {Origin} /\ dist[Origin] = 0 /\ route[Origin] = <<Source>>
  OBVIOUS
<1>2. SearchTypes
  <2>1. dist \in [DOMAIN dist -> Nat]
    BY <1>1
  <2>2. \A f \in heap : Due(f)
    BY <1>1 DEF Due
  <2> QED BY <1>1, <2>1, <2>2 DEF SearchTypes, SearchStates
<1>3. Entry(Origin) \in heap
  BY <1>1 DEF Entry
<1>4. LeadsTo(route[Origin], Origin, dist[Origin])
  BY <1>1, SourceLeads
<1> QED BY <1>1, <1>2, <1>3, <1>4 DEF SearchInv

LEMMA NextGoalKeeps ==
  ASSUME SearchInv, goal \in Nodes, NextGoal, UNCHANGED <<hop, pass>>
  PROVE  SearchInv'
<1>1. /\ goal' = goal + 1 /\ dist' = [s \in {Origin} |-> 0] /\ route' = [s \in {Origin} |-> <<Source>>]
      /\ heap' = {[to |-> Origin, dist |-> 0]}
  BY DEF NextGoal
<1>2. CostsTyped' /\ CostsTyped
  BY SameCosts DEF SearchInv, SearchTypes
<1>3. goal' \in 0..N
  BY <1>1, SizesAre DEF Nodes
<1>4. /\ DOMAIN dist' = {Origin} /\ DOMAIN route' = {Origin} /\ dist'[Origin] = 0
      /\ route'[Origin] = <<Source>>
  BY <1>1
<1>5. SearchTypes'
  <2>1. dist' \in [DOMAIN dist' -> Nat]
    BY <1>1
  <2>2. \A f \in heap' : Due(f)'
    BY <1>1, <1>4 DEF Due
  <2> QED BY <1>2, <1>3, <1>4, <2>1, <2>2 DEF SearchTypes, SearchStates
<1>6. (Entry(Origin) \in heap)'
  BY <1>1, <1>4 DEF Entry
<1>7. LeadsTo(route[Origin], Origin, dist[Origin])'
  <2>1. LeadsTo(<<Source>>, Origin, 0)
    BY <1>2, SourceLeads
  <2>2. LeadsTo(<<Source>>, Origin, 0)'
    BY <2>1, SameCosts DEF LeadsTo
  <2> QED BY <1>4, <2>2
<1> QED BY <1>4, <1>5, <1>6, <1>7 DEF SearchInv

LEMMA DropKeeps ==
  ASSUME SearchInv, NEW e \in heap, Drop(e)
  PROVE  SearchInv'
<1>1. /\ heap' = heap \ {e} /\ UNCHANGED <<hop, pass, goal, dist, route>> /\ e.dist > dist[e.to]
  BY DEF Drop, Stale
<1>2. Due(e)
  BY DEF SearchInv, SearchTypes
<1>3. ASSUME NEW s PROVE Entry(s) # e
  <2> SUFFICES ASSUME Entry(s) = e PROVE FALSE OBVIOUS
  <2>1. e.to = s /\ e.dist = dist[s]
    BY DEF Entry
  <2>2. dist[s] \in Nat
    BY <1>2, <2>1 DEF Due
  <2> QED BY <1>1, <2>1, <2>2
<1>4. SearchTypes'
  <2>1. \A f : Due(f) => Due(f)'
    BY <1>1 DEF Due
  <2>2. CostsTyped'
    BY <1>1, SameCosts DEF SearchInv, SearchTypes
  <2> QED BY <1>1, <2>1, <2>2 DEF SearchInv, SearchTypes
<1>5. \A s : /\ Entry(s) \in heap => Entry(s)' \in heap'
             /\ GoneOn(s) => GoneOn(s)'
             /\ LeadsTo(route[s], s, dist[s]) => LeadsTo(route[s], s, dist[s])'
  <2>1. \A s : Entry(s)' = Entry(s)
    BY <1>1 DEF Entry
  <2>2. \A s : GoneOn(s) => GoneOn(s)'
    BY <1>1 DEF GoneOn, Leaving
  <2>3. \A p, s, c : LeadsTo(p, s, c)' = LeadsTo(p, s, c)
    BY <1>1, SameCosts DEF LeadsTo
  <2> QED BY <1>1, <1>3, <2>1, <2>2, <2>3
<1> QED BY <1>1, <1>4, <1>5 DEF SearchInv

(* What expanding an entry finds.                                           *)
Found(e) == IF Forwards(e.to) THEN {<<b, Relays(e.to)>> : b \in Better(e)} ELSE {}

LEMMA FoundIs ==
  ASSUME SearchInv, NEW e \in heap, ~Stale(e), NEW s \in Found(e)
  PROVE  /\ e.dist \in Nat /\ e.to \in DOMAIN dist /\ dist[e.to] = e.dist
         /\ Forwards(e.to) /\ s = <<s[1], Relays(e.to)>> /\ s[1] \in Better(e) /\ s[1] \in Nodes \ {Source}
         /\ s \in SearchStates /\ s # Origin /\ s # e.to
         /\ <<e.to[1], s[1]>> \in Links /\ hop[<<e.to[1], s[1]>>] # Barred
         /\ Onward(e, s[1]) \in Nat
         /\ LeadsTo(Append(route[e.to], s[1]), s, Onward(e, s[1]))
<1>1. PICK x : x = e.to OBVIOUS
<1>2. PICK b \in Better(e) : s = <<b, Relays(x)>> /\ Forwards(x)
  BY <1>1 DEF Found
<1>3. /\ b \in Nodes /\ <<x[1], b>> \in Links /\ hop[<<x[1], b>>] # Barred /\ s[1] = b /\ s[2] = Relays(x)
  BY <1>1, <1>2 DEF Better
<1>4. e.dist \in Nat /\ x \in DOMAIN dist /\ dist[x] = e.dist
  <2>1. Due(e) /\ ~(e.dist > dist[x]) /\ dist[x] \in Nat
    BY <1>1 DEF Stale, SearchInv, SearchTypes, Due
  <2> QED BY <1>1, <2>1 DEF Due
<1>5. CostsTyped /\ x \in SearchStates /\ LeadsTo(route[x], x, e.dist)
  BY <1>4 DEF SearchInv, SearchTypes
<1>6. b # Source /\ x[1] \in Nodes
  BY <1>3 DEF Links
<1>7. Relays(x) \in 0..MaxRelayHops /\ (x # Origin => x[2] \in Nat /\ Relays(x) = x[2] + 1) /\ (x = Origin => Relays(x) = 0)
  <2>1. x # Origin => x[2] \in Nat
    BY <1>5, SizesAre DEF SearchStates
  <2> QED BY <1>2, <2>1, SizesAre DEF Forwards, Relays
<1>8. s \in SearchStates /\ s # Origin
  BY <1>2, <1>3, <1>6, <1>7 DEF SearchStates, Origin
<1>9. s # x
  <2>1. x # Origin => s[2] # x[2]
    BY <1>3, <1>7
  <2> QED BY <1>8, <2>1
<1>10. hop[<<x[1], b>>] \in Nat /\ Leaving(x) \in Nat
  BY <1>3, <1>5, <1>6 DEF CostsTyped, Leaving
<1>11. Onward(e, b) = e.dist + Leaving(x) + hop[<<x[1], b>>]
  BY <1>1 DEF Onward, Leaving
<1>12. LeadsTo(Append(route[x], b), s, Onward(e, b))
  <2>1. PICK p : p = route[x] OBVIOUS
  <2>2. Walk(p) /\ p[Len(p)] = x[1] /\ Len(p) = (IF x = Origin THEN 1 ELSE x[2] + 2) /\ CostOfRoute(p) = e.dist
    BY <1>5, <2>1 DEF LeadsTo
  <2>3. Len(p) = Relays(x) + 1 /\ Len(p) <= MaxRelayHops + 1 /\ (Len(p) = 1 <=> x = Origin)
    BY <1>7, <2>2, SizesAre
  <2>4. PICK q : q = Append(p, b) OBVIOUS
  <2>5. /\ Walk(q) /\ Len(q) = Len(p) + 1 /\ q[Len(q)] = b
        /\ CostOfRoute(q) = CostOfRoute(p) + hop[<<p[Len(p)], b>>] + (IF Len(p) = 1 THEN 0 ELSE pass[p[Len(p)]])
    BY <1>3, <1>5, <2>2, <2>3, <2>4, WalksGoOn
  <2>6. CostOfRoute(q) = e.dist + hop[<<x[1], b>>] + Leaving(x)
    BY <2>2, <2>3, <2>5 DEF Leaving
  <2>7. CostOfRoute(q) = Onward(e, b)
    BY <1>4, <1>10, <1>11, <2>6
  <2>8. Len(q) = s[2] + 2
    BY <1>3, <1>7, <2>3, <2>5
  <2> QED BY <1>3, <1>8, <2>1, <2>4, <2>5, <2>7, <2>8 DEF LeadsTo
<1>13. Onward(e, b) \in Nat
  BY <1>4, <1>10, <1>11
<1> QED BY <1>1, <1>2, <1>3, <1>4, <1>6, <1>8, <1>9, <1>12, <1>13

LEMMA ExpandKeeps ==
  ASSUME SearchInv, NEW e \in heap, Expand(e)
  PROVE  SearchInv'
<1>1. PICK x : x = e.to OBVIOUS
<1>2. PICK better : better = Found(e) OBVIOUS
<1>3. PICK seen : seen = DOMAIN dist \cup better OBVIOUS
<1>4. PICK nd : nd = dist' OBVIOUS
<1>5. /\ nd = [s \in seen |-> IF s \in better THEN Onward(e, s[1]) ELSE dist[s]]
      /\ route' = [s \in seen |-> IF s \in better THEN Append(route[e.to], s[1]) ELSE route[s]]
      /\ heap' = (heap \ {e}) \cup {[to |-> s, dist |-> Onward(e, s[1])] : s \in better}
      /\ UNCHANGED <<hop, pass, goal>> /\ ~Stale(e) /\ x[1] # goal
  BY <1>1, <1>2, <1>3, <1>4 DEF Expand, Found
<1>6. DOMAIN nd = seen /\ \A s \in seen : nd[s] = IF s \in better THEN Onward(e, s[1]) ELSE dist[s]
  BY <1>5
<1>7. e.dist \in Nat /\ x \in DOMAIN dist /\ dist[x] = e.dist /\ Due(e)
  <2>1. Due(e) /\ ~(e.dist > dist[x]) /\ dist[x] \in Nat
    BY <1>1, <1>5 DEF Stale, SearchInv, SearchTypes, Due
  <2> QED BY <1>1, <2>1 DEF Due
<1>8. CostsTyped /\ CostsTyped' /\ DOMAIN dist \in SUBSET SearchStates /\ \A s \in DOMAIN dist : dist[s] \in Nat
  BY <1>5, SameCosts DEF SearchInv, SearchTypes
<1>9. \A s \in better : /\ s \in SearchStates /\ s # Origin /\ s # x /\ Onward(e, s[1]) \in Nat
                        /\ s[1] \in Better(e) /\ s = <<s[1], Relays(x)>>
                        /\ LeadsTo(Append(route[e.to], s[1]), s, Onward(e, s[1]))
  BY <1>1, <1>2, <1>5, FoundIs
<1>10. \A s \in seen : nd[s] \in Nat
  BY <1>3, <1>6, <1>8, <1>9
<1>11. \A s \in DOMAIN dist : s \in seen /\ nd[s] <= dist[s]
  <2> SUFFICES ASSUME NEW s \in DOMAIN dist PROVE s \in seen /\ nd[s] <= dist[s]
    OBVIOUS
  <2>1. s \in seen
    BY <1>3
  <2>2. CASE s \in better
    <3>1. nd[s] = Onward(e, s[1]) /\ s[1] \in Better(e) /\ s = <<s[1], Relays(x)>>
      BY <1>6, <1>9, <2>1, <2>2
    <3>2. Onward(e, s[1]) < dist[s]
      BY <1>1, <3>1 DEF Better
    <3> QED BY <1>8, <1>10, <2>1, <3>1, <3>2
  <2>3. CASE s \notin better
    <3>1. nd[s] = dist[s]
      BY <1>6, <2>1, <2>3
    <3> QED BY <1>8, <2>1, <3>1
  <2> QED BY <2>2, <2>3
<1>12. SearchTypes'
  <2>1. Origin \in seen /\ nd[Origin] = 0
    BY <1>3, <1>6, <1>9 DEF SearchInv, SearchTypes
  <2>2. seen \in SUBSET SearchStates /\ nd \in [seen -> Nat] /\ DOMAIN route' = seen
    BY <1>3, <1>5, <1>8, <1>9, <1>10
  <2>3. ASSUME NEW f \in heap' PROVE Due(f)'
    <3>1. CASE f \in heap
      <4>1. Due(f)
        BY <3>1 DEF SearchInv, SearchTypes
      <4>2. f.to \in DOMAIN dist /\ f.dist \in Nat /\ dist[f.to] <= f.dist /\ f = [to |-> f.to, dist |-> f.dist]
        BY <4>1 DEF Due
      <4>3. f.to \in seen /\ nd[f.to] <= dist[f.to] /\ nd[f.to] \in Nat /\ dist[f.to] \in Nat
        BY <1>8, <1>10, <1>11, <4>2
      <4>4. nd[f.to] <= f.dist
        BY <4>2, <4>3
      <4> QED BY <1>4, <1>6, <4>2, <4>3, <4>4 DEF Due
    <3>2. CASE f \notin heap
      <4>1. PICK s \in better : f = [to |-> s, dist |-> Onward(e, s[1])]
        BY <1>5, <3>2
      <4>2. f.to = s /\ f.dist = Onward(e, s[1]) /\ f.dist \in Nat
        BY <1>9, <4>1
      <4>3. s \in seen /\ nd[s] = f.dist
        BY <1>3, <1>6, <4>2
      <4> QED BY <1>4, <1>6, <4>1, <4>2, <4>3 DEF Due
    <3> QED BY <3>1, <3>2
  <2>4. SearchStates' = SearchStates
    BY DEF SearchStates
  <2> QED BY <1>4, <1>5, <1>6, <1>8, <2>1, <2>2, <2>3, <2>4 DEF SearchInv, SearchTypes
<1>13. ASSUME NEW s, NEW c, LeadsTo(route'[s], s, c) PROVE LeadsTo(route[s], s, c)'
  BY <1>5, <1>13, SameCosts DEF LeadsTo
<1>14. ASSUME NEW s \in seen
       PROVE  (/\ Entry(s) \in heap \/ (GoneOn(s) /\ s[1] # goal)
               /\ LeadsTo(route[s], s, dist[s]))'
  <2>1. CASE s \in better
    <3>1. nd[s] = Onward(e, s[1]) /\ route'[s] = Append(route[e.to], s[1])
      BY <1>5, <1>6, <2>1
    <3>2. (Entry(s) \in heap)'
      BY <1>4, <1>5, <2>1, <3>1 DEF Entry
    <3>3. LeadsTo(route'[s], s, nd[s])
      BY <1>9, <2>1, <3>1
    <3>4. LeadsTo(route[s], s, dist[s])'
      BY <1>4, <1>13, <3>3
    <3> QED BY <3>2, <3>4
  <2>2. CASE s \notin better
    <3>1. s \in DOMAIN dist /\ nd[s] = dist[s] /\ route'[s] = route[s]
      BY <1>3, <1>5, <1>6, <2>2
    <3>2. LeadsTo(route[s], s, dist[s])'
      <4>1. LeadsTo(route'[s], s, nd[s])
        BY <3>1 DEF SearchInv
      <4> QED BY <1>4, <1>13, <4>1
    <3>3. CASE s = x
      <4>1. GoneOn(x)'
        <5> SUFFICES ASSUME Forwards(x), NEW b \in Nodes, <<x[1], b>> \in Links, hop[<<x[1], b>>] # Barred
                     PROVE  /\ <<b, Relays(x)>> \in seen
                            /\ nd[<<b, Relays(x)>>] <= nd[x] + Leaving(x) + hop[<<x[1], b>>]
          BY <1>4, <1>5, <1>6 DEF GoneOn, Leaving
        <5> DEFINE t == <<b, Relays(x)>>
        <5>1. Onward(e, b) = nd[x] + Leaving(x) + hop[<<x[1], b>>]
          BY <1>1, <1>7, <3>1, <3>3 DEF Onward, Leaving
        <5>2. CASE b \in Better(e)
          <6>1. t \in better /\ t[1] = b
            BY <1>1, <1>2, <5>2 DEF Found
          <6>2. t \in seen /\ nd[t] = Onward(e, b) /\ nd[t] \in Nat
            BY <1>3, <1>6, <1>10, <6>1
          <6> QED BY <5>1, <6>2
        <5>3. CASE b \notin Better(e)
          <6>1. t \in DOMAIN dist /\ ~(Onward(e, b) < dist[t])
            BY <1>1, <5>3 DEF Better
          <6>2. t \in seen /\ nd[t] <= dist[t] /\ nd[t] \in Nat /\ dist[t] \in Nat
            BY <1>8, <1>10, <1>11, <6>1
          <6>3. nd[x] \in Nat /\ Leaving(x) \in Nat /\ hop[<<x[1], b>>] \in Nat
            <7>1. x[1] \in Nodes
              BY DEF Links
            <7> QED BY <1>7, <1>8, <3>1, <3>3, <7>1 DEF CostsTyped, Leaving
          <6> QED BY <5>1, <6>1, <6>2, <6>3
        <5> QED BY <5>2, <5>3
      <4> QED BY <1>5, <3>2, <3>3, <4>1
    <3>4. CASE s # x
      <4>1. CASE Entry(s) \in heap
        <5>1. Entry(s) # e
          BY <1>1, <3>4 DEF Entry
        <5>2. Entry(s)' = Entry(s)
          BY <1>4, <3>1 DEF Entry
        <5> QED BY <1>5, <3>2, <4>1, <5>1, <5>2
      <4>2. CASE GoneOn(s) /\ s[1] # goal
        <5>1. GoneOn(s)'
          <6> SUFFICES ASSUME Forwards(s), NEW b \in Nodes, <<s[1], b>> \in Links, hop[<<s[1], b>>] # Barred
                       PROVE  /\ <<b, Relays(s)>> \in seen
                              /\ nd[<<b, Relays(s)>>] <= nd[s] + Leaving(s) + hop[<<s[1], b>>]
            BY <1>4, <1>5, <1>6 DEF GoneOn, Leaving
          <6> DEFINE t == <<b, Relays(s)>>
          <6>1. t \in DOMAIN dist /\ dist[t] <= nd[s] + Leaving(s) + hop[<<s[1], b>>]
            BY <3>1, <4>2 DEF GoneOn
          <6>2. t \in seen /\ nd[t] <= dist[t] /\ nd[t] \in Nat /\ dist[t] \in Nat
            BY <1>8, <1>10, <1>11, <6>1
          <6>3. nd[s] \in Nat /\ Leaving(s) \in Nat /\ hop[<<s[1], b>>] \in Nat
            <7>1. s[1] \in Nodes
              BY DEF Links
            <7> QED BY <1>8, <1>10, <7>1 DEF CostsTyped, Leaving
          <6> QED BY <6>1, <6>2, <6>3
        <5> QED BY <1>5, <3>2, <4>2, <5>1
      <4> QED BY <3>1, <4>1, <4>2 DEF SearchInv
    <3> QED BY <3>3, <3>4
  <2> QED BY <2>1, <2>2
<1> QED BY <1>4, <1>6, <1>12, <1>14 DEF SearchInv

-----------------------------------------------------------------------------
Destinations == Nodes \ {Source}
(* What has been stitched of a route, and who is to be joined yet.          *)
RouteOf(p) == \E v \in Destinations : p \in Routes(v)
PathOK ==
  path # NoPath =>
    /\ RouteOf(path) /\ place \in 2..Len(path) + 1
    /\ \A i \in 1..place - 1 : path[i] \in Joined \cup {Source}
Accounted(v) == v \in Joined \/ path \in Routes(v) \/ \E f \in found : f.hops \in Routes(v)
Stitched ==
  /\ parent \in [Nodes -> 0..N] /\ DOMAIN hopCount = Joined \cup {Source}
  /\ hopCount \in [DOMAIN hopCount -> Nat] /\ IsTree
  /\ \A f \in found : RouteOf(f.hops)
  /\ goal < N => Joined = {} /\ path = NoPath
  /\ \A v \in Joined : Routes(v) # {}
  /\ \A v \in Destinations : v < goal /\ Routes(v) # {} => Accounted(v)
TreeInv == SearchInv /\ Stitched /\ PathOK

LEMMA TreeInvImplies == TreeInv => TreeBuilt
<1> SUFFICES ASSUME TreeInv PROVE TreeBuilt OBVIOUS
<1>1. FindsCheapest
  BY SearchFinds DEF TreeInv
<1>2. IsTree
  BY DEF TreeInv, Stitched
<1>3. ReachesAll
  <2> SUFFICES ASSUME goal = N, found = {}, path = NoPath, NEW v \in Destinations
               PROVE  v \in Joined <=> Routes(v) # {}
    BY DEF ReachesAll, Destinations
  <2>1. v < goal /\ v \in Nodes
    BY SizesAre DEF Nodes, Destinations
  <2>2. NoPath \notin Routes(v)
    <3> SUFFICES ASSUME NoPath \in Routes(v) PROVE FALSE OBVIOUS
    <3>1. Len(NoPath) >= 2
      BY <2>1, RoutesAre
    <3> QED BY <3>1 DEF NoPath
  <2> QED BY <2>1, <2>2 DEF TreeInv, Stitched, Accounted
<1> QED BY <1>1, <1>2, <1>3 DEF TreeBuilt

LEMMA TreeStarts == TreeInit => TreeInv
<1> SUFFICES ASSUME TreeInit PROVE TreeInv OBVIOUS
<1>1. /\ hop \in [Links -> HopCosts \cup {Barred}] /\ pass \in [Nodes -> PassCosts]
      /\ goal = 0 /\ dist = [s \in {Origin} |-> 0] /\ route = [s \in {Origin} |-> <<Source>>]
      /\ heap = {[to |-> Origin, dist |-> 0]} /\ found = {} /\ path = NoPath
      /\ parent = [v \in Nodes |-> NoParent] /\ hopCount = [v \in {Source} |-> 0]
  BY DEF TreeInit, CostsInit, SearchInit
<1>2. CostsTyped
  <2>1. HopCosts \cup {Barred} \in SUBSET Nat /\ PassCosts \in SUBSET Nat
    BY TreeAssumption DEF Barred
  <2> QED BY <1>1, <2>1 DEF CostsTyped
<1>3. goal \in 0..N
  BY <1>1, SizesAre
<1>4. SearchInv
  BY <1>1, <1>2, <1>3, SearchStarts
<1>5. Joined = {} /\ NoParent \in 0..N
  BY <1>1, SizesAre DEF Joined, NoParent
<1>6. \A v \in Destinations : ~(v < goal)
  BY <1>1 DEF Destinations, Nodes
<1>7. IsTree
  BY <1>1, <1>5, SizesAre DEF IsTree
<1>8. hopCount \in [DOMAIN hopCount -> Nat] /\ DOMAIN hopCount = {Source}
  BY <1>1
<1> QED BY <1>1, <1>4, <1>5, <1>6, <1>7, <1>8 DEF TreeInv, Stitched, PathOK

(* A search that ends: the tree is not yet begun.                           *)
LEMMA NextGoalStitched ==
  ASSUME TreeInv, goal \in Nodes, goal' = goal + 1, UNCHANGED <<hop, pass, stitching>>,
         found \subseteq found', \A f \in found' : RouteOf(f.hops),
         goal \in Destinations /\ Routes(goal) # {} => \E f \in found' : f.hops \in Routes(goal)
  PROVE  (Stitched /\ PathOK)'
<1>1. UNCHANGED <<path, place, parent, hopCount>> /\ \A d : Routes(d)' = Routes(d)
  BY SameCosts DEF stitching
<1>2. goal \in Nat /\ goal < N /\ N \in Nat
  BY SizesAre DEF Nodes
<1>3. Joined' = Joined /\ Joined = {} /\ path = NoPath
  BY <1>1, <1>2 DEF Joined, TreeInv, Stitched
<1>4. \A p : RouteOf(p)' = RouteOf(p)
  BY <1>1 DEF RouteOf
<1>5. IsTree'
  BY <1>1, <1>3 DEF TreeInv, Stitched, IsTree
<1>6. ASSUME NEW v \in Destinations, v < goal + 1, Routes(v) # {} PROVE Accounted(v)'
  <2>1. v \in Nat
    BY DEF Destinations, Nodes
  <2>2. CASE v = goal
    BY <1>1, <1>6, <2>2 DEF Accounted
  <2>3. CASE v # goal
    <3>1. v < goal
      BY <1>2, <1>6, <2>1, <2>3
    <3>2. Accounted(v)
      BY <1>6, <3>1 DEF TreeInv, Stitched
    <3> QED BY <1>1, <1>3, <3>2 DEF Accounted
  <2> QED BY <2>2, <2>3
<1>7. (\A v \in Destinations : v < goal /\ Routes(v) # {} => Accounted(v))'
  BY <1>1, <1>6 DEF Destinations
<1>8. PathOK'
  BY <1>1, <1>3 DEF PathOK
<1> QED BY <1>1, <1>3, <1>4, <1>5, <1>7, <1>8 DEF TreeInv, Stitched

LEMMA ReachKeeps ==
  ASSUME TreeInv, NEW e \in heap, Reach(e)
  PROVE  TreeInv'
<1>1. /\ goal \in Destinations /\ goal \in Nodes /\ e \in Nearest /\ ~Stale(e) /\ e.to[1] = goal
      /\ found' = found \cup {[hops |-> route[e.to], cost |-> e.dist]}
      /\ NextGoal /\ UNCHANGED <<hop, pass, stitching>>
  BY DEF Reach, Destinations
<1>2. route[e.to] \in Routes(goal)
  BY <1>1, SearchFinds DEF TreeInv, FindsCheapest, Destinations
<1>3. \A f \in found' : RouteOf(f.hops)
  BY <1>1, <1>2 DEF TreeInv, Stitched, RouteOf
<1>4. \E f \in found' : f.hops \in Routes(goal)
  <2>1. PICK f : f = [hops |-> route[e.to], cost |-> e.dist] OBVIOUS
  <2>2. f \in found' /\ f.hops = route[e.to]
    BY <1>1, <2>1
  <2> QED BY <1>2, <2>2
<1>5. goal' = goal + 1 /\ found \subseteq found'
  BY <1>1 DEF NextGoal
<1>6. (Stitched /\ PathOK)'
  BY <1>1, <1>3, <1>4, <1>5, NextGoalStitched
<1>7. SearchInv'
  BY <1>1, NextGoalKeeps DEF TreeInv
<1> QED BY <1>6, <1>7 DEF TreeInv

LEMMA NoneFoundKeeps ==
  ASSUME TreeInv, SkipSource \/ GiveUp
  PROVE  TreeInv'
<1>1. goal \in Nodes /\ NextGoal /\ found' = found /\ UNCHANGED <<hop, pass, stitching>> /\ goal' = goal + 1
  BY SizesAre DEF SkipSource, GiveUp, NextGoal
<1>2. goal \in Destinations => Routes(goal) = {}
  <2>1. CASE SkipSource
    BY <2>1 DEF SkipSource, Destinations
  <2>2. CASE GiveUp
    <3>1. goal \in Nodes \ {Source} /\ heap = {}
      BY <2>2 DEF GiveUp
    <3> QED BY <3>1, SearchFinds DEF TreeInv, FindsCheapest
  <2> QED BY <2>1, <2>2
<1>3. \A f \in found' : RouteOf(f.hops)
  BY <1>1 DEF TreeInv, Stitched
<1>4. (Stitched /\ PathOK)'
  BY <1>1, <1>2, <1>3, NextGoalStitched
<1>5. SearchInv'
  BY <1>1, NextGoalKeeps DEF TreeInv
<1> QED BY <1>4, <1>5 DEF TreeInv

(* A step of the search leaves the tree alone, a step of the tree the search. *)
LEMMA StitchedStays ==
  ASSUME Stitched /\ PathOK, UNCHANGED <<hop, pass, goal, found, stitching>>
  PROVE  (Stitched /\ PathOK)'
<1>1. UNCHANGED <<goal, found, path, place, parent, hopCount>> /\ \A d : Routes(d)' = Routes(d)
  BY SameCosts DEF stitching
<1>2. Joined' = Joined /\ \A p : RouteOf(p)' = RouteOf(p)
  BY <1>1 DEF Joined, RouteOf
<1>3. \A v : Accounted(v)' = Accounted(v)
  BY <1>1, <1>2 DEF Accounted
<1>4. IsTree' = IsTree
  BY <1>1, <1>2 DEF IsTree
<1>5. PathOK'
  BY <1>1, <1>2 DEF PathOK
<1> QED BY <1>1, <1>2, <1>3, <1>4, <1>5 DEF Stitched, Destinations

LEMMA SearchStays ==
  ASSUME SearchInv, UNCHANGED <<hop, pass, search>>
  PROVE  SearchInv'
<1>1. UNCHANGED <<hop, pass, goal, dist, route, heap>>
  BY DEF search
<1>2. SearchTypes'
  BY <1>1, SameCosts DEF SearchInv, SearchTypes, Due
<1>3. \A s : Entry(s)' = Entry(s) /\ (GoneOn(s) => GoneOn(s)')
  BY <1>1 DEF Entry, GoneOn, Leaving
<1>4. \A p, s, c : LeadsTo(p, s, c)' = LeadsTo(p, s, c)
  BY <1>1, SameCosts DEF LeadsTo
<1> QED BY <1>1, <1>2, <1>3, <1>4 DEF SearchInv

LEMMA TakeRouteKeeps ==
  ASSUME TreeInv, TakeRoute
  PROVE  TreeInv'
<1>1. PICK f \in found : found' = found \ {f} /\ path' = f.hops /\ place' = 2
  BY DEF TakeRoute
<1>2. goal = N /\ path = NoPath /\ UNCHANGED <<hop, pass, search, parent, hopCount>> /\ goal' = goal
  BY DEF TakeRoute, search
<1>3. SearchInv'
  BY <1>2, SearchStays DEF TreeInv
<1>4. Joined' = Joined /\ \A d : Routes(d)' = Routes(d)
  BY <1>2, SameCosts DEF Joined
<1>5. \A p : RouteOf(p)' = RouteOf(p)
  BY <1>4 DEF RouteOf
<1>6. RouteOf(path')
  BY <1>1 DEF TreeInv, Stitched
<1>7. PathOK'
  <2>1. PICK v \in Destinations : path' \in Routes(v)
    BY <1>6 DEF RouteOf
  <2>2. Walk(path') /\ Len(path') >= 2
    BY <2>1, RoutesAre DEF Destinations
  <2>3. Len(path') \in Nat /\ path'[1] = Source
    BY <2>2, WalkIs DEF TreeInv, SearchInv, SearchTypes
  <2>4. place' \in 2..Len(path') + 1
    BY <1>1, <2>2, <2>3
  <2>5. \A i \in 1..place' - 1 : i = 1
    BY <1>1
  <2> QED BY <1>5, <1>6, <2>3, <2>4, <2>5 DEF PathOK
<1>8. ASSUME NEW v \in Destinations, Accounted(v) PROVE Accounted(v)'
  <2>1. path \notin Routes(v)
    <3> SUFFICES ASSUME path \in Routes(v) PROVE FALSE OBVIOUS
    <3>1. Len(path) >= 2
      BY RoutesAre DEF Destinations
    <3> QED BY <1>2, <3>1 DEF NoPath
  <2> QED BY <1>1, <1>4, <1>8, <2>1 DEF Accounted
<1>9. IsTree'
  BY <1>2, <1>4 DEF TreeInv, Stitched, IsTree
<1>10. ~(goal' < N)
  BY <1>2, SizesAre
<1> QED BY <1>1, <1>2, <1>3, <1>4, <1>5, <1>7, <1>8, <1>9, <1>10 DEF TreeInv, Stitched, Destinations

(* The part of a route up to a node is a route to that node.                *)
LEMMA PartIsRoute ==
  ASSUME CostsTyped, NEW p, RouteOf(p), NEW i \in 2..Len(p)
  PROVE  p[i] \in Destinations /\ Routes(p[i]) # {}
<1>1. PICK v \in Destinations : p \in Routes(v)
  BY DEF RouteOf
<1>2. Walk(p) /\ Len(p) >= 2 /\ \A j, k \in 1..Len(p) : j # k => p[j] # p[k]
  BY <1>1, RoutesAre DEF Destinations
<1>3. Len(p) \in Nat /\ Len(p) <= MaxRelayHops + 2 /\ p[i] \in Destinations /\ p[1] = Source
  BY <1>2, WalkIs DEF Destinations
<1>4. PICK q : q = SubSeq(p, 1, i)
  OBVIOUS
<1>5. q \in Seq(Nodes) /\ Len(q) = i /\ \A j \in 1..i : q[j] = p[j]
  BY <1>2, <1>3, <1>4 DEF Walk
<1>6. Walk(q)
  <2>1. Len(q) \in 1..MaxRelayHops + 2 /\ q[1] = Source
    BY <1>3, <1>5, SizesAre
  <2>2. ASSUME NEW j \in 2..Len(q)
        PROVE  <<q[j - 1], q[j]>> \in Links /\ hop[<<q[j - 1], q[j]>>] # Barred
    <3>1. j \in 2..Len(p) /\ q[j - 1] = p[j - 1] /\ q[j] = p[j]
      BY <1>3, <1>5
    <3> QED BY <1>2, <3>1 DEF Walk
  <2> QED BY <1>5, <2>1, <2>2 DEF Walk
<1>7. \A j, k \in 1..Len(q) : j # k => q[j] # q[k]
  BY <1>2, <1>3, <1>5
<1>8. q[Len(q)] = p[i] /\ Len(q) >= 2
  BY <1>3, <1>5
<1>9. q \in Routes(p[i])
  BY <1>3, <1>6, <1>7, <1>8, RoutesAre DEF Destinations
<1> QED BY <1>3, <1>9

LEMMA StitchKeeps ==
  ASSUME TreeInv, Stitch
  PROVE  TreeInv'
<1>1. /\ path # NoPath /\ place <= Len(path) /\ place' = place + 1
      /\ UNCHANGED <<hop, pass, search, found, path>> /\ goal' = goal
  BY DEF Stitch, search
<1>2. SearchInv' /\ CostsTyped
  BY <1>1, SearchStays DEF TreeInv, SearchInv, SearchTypes
<1>3. \A d : Routes(d)' = Routes(d)
  BY <1>1, SameCosts
<1>4. \A p : RouteOf(p)' = RouteOf(p)
  BY <1>3 DEF RouteOf
<1>5. /\ RouteOf(path) /\ place \in 2..Len(path) + 1
      /\ \A i \in 1..place - 1 : path[i] \in Joined \cup {Source}
  BY <1>1 DEF TreeInv, PathOK
<1>6. Len(path) \in Nat /\ \A i \in 1..Len(path) : path[i] \in Nodes
  <2>1. PICK v \in Destinations : path \in Routes(v)
    BY <1>5 DEF RouteOf
  <2>2. Walk(path)
    BY <2>1, RoutesAre DEF Destinations
  <2> QED BY <1>2, <2>2, WalkIs
<1>7. place \in 2..Len(path) /\ place \in Nat /\ place - 1 \in 1..place - 1 /\ place - 1 \in 1..Len(path)
  BY <1>1, <1>5, <1>6
<1>8. PICK v : v = path[place] OBVIOUS
<1>9. PICK u : u = path[place - 1] OBVIOUS
<1>10. v \in Destinations /\ v \in Nodes /\ v # Source /\ Routes(v) # {}
  BY <1>2, <1>5, <1>7, <1>8, PartIsRoute DEF Destinations
<1>11. u \in Joined \cup {Source} /\ u \in Nodes
  BY <1>5, <1>6, <1>7, <1>9
<1>12. Joined' = Joined \cup {v} /\ (Stitched /\ PathOK)'
  <2>0. goal = N
    <3>1. ~(goal < N)
      BY <1>1 DEF TreeInv, Stitched
    <3> QED BY <3>1, SizesAre DEF TreeInv, SearchInv, SearchTypes
  <2>1. /\ Joined' = Joined \cup {v} /\ parent' \in [Nodes -> 0..N]
        /\ DOMAIN hopCount' = Joined' \cup {Source} /\ hopCount' \in [DOMAIN hopCount' -> Nat] /\ IsTree'
    <3>1. /\ parent \in [Nodes -> 0..N] /\ DOMAIN hopCount = Joined \cup {Source}
          /\ hopCount \in [DOMAIN hopCount -> Nat] /\ IsTree
      BY DEF TreeInv, Stitched
    <3>2. CASE parent[v] # NoParent
      <4>1. UNCHANGED <<parent, hopCount>>
        BY <1>8, <3>2 DEF Stitch
      <4>2. Joined' = Joined /\ v \in Joined
        BY <1>10, <3>2, <4>1 DEF Joined
      <4>3. IsTree'
        BY <3>1, <4>1, <4>2 DEF IsTree
      <4> QED BY <3>1, <4>1, <4>2, <4>3
    <3>3. CASE parent[v] = NoParent
      <4>1. parent' = [parent EXCEPT ![v] = u]
        BY <1>8, <1>9, <1>10, <3>3 DEF Stitch
      <4>2. hopCount' = [w \in DOMAIN hopCount \cup {v} |-> IF w = v THEN hopCount[u] + 1 ELSE hopCount[w]]
        BY <1>8, <1>9, <1>10, <3>3 DEF Stitch
      <4>3. u # NoParent /\ u \in 0..N
        BY <1>11, SizesAre DEF Nodes, NoParent
      <4>4. parent' \in [Nodes -> 0..N] /\ parent'[v] = u /\ \A w \in Nodes \ {v} : parent'[w] = parent[w]
        BY <1>10, <3>1, <4>1, <4>3
      <4>5. Joined' = Joined \cup {v} /\ v \notin Joined
        BY <1>10, <3>3, <4>3, <4>4 DEF Joined
      <4>6. hopCount[u] \in Nat /\ u # v /\ u \in DOMAIN hopCount
        BY <1>10, <1>11, <3>1, <4>5
      <4>7. /\ DOMAIN hopCount' = Joined' \cup {Source} /\ hopCount' \in [DOMAIN hopCount' -> Nat]
            /\ hopCount'[v] = hopCount[u] + 1 /\ \A w \in Joined \cup {Source} : hopCount'[w] = hopCount[w]
        <5>1. \A w \in Joined \cup {Source} : w # v
          BY <1>10, <4>5
        <5>2. \A w \in DOMAIN hopCount : hopCount[w] \in Nat
          BY <3>1
        <5> QED BY <3>1, <4>2, <4>5, <4>6, <5>1, <5>2
      <4>8. IsTree'
        <5>1. parent'[Source] = NoParent /\ hopCount'[Source] = 0
          BY <1>10, <3>1, <4>4, <4>7, SizesAre DEF IsTree
        <5>2. ASSUME NEW w \in Joined'
              PROVE  parent'[w] \in Joined' \cup {Source} /\ hopCount'[w] = hopCount'[parent'[w]] + 1
          <6>1. CASE w = v
            BY <1>11, <4>4, <4>5, <4>7, <6>1
          <6>2. CASE w # v
            <7>1. w \in Joined /\ w \in Nodes \ {v}
              BY <4>5, <6>2 DEF Joined
            <7>2. parent[w] \in Joined \cup {Source} /\ hopCount[w] = hopCount[parent[w]] + 1
              BY <3>1, <7>1 DEF IsTree
            <7> QED BY <4>4, <4>5, <4>7, <7>1, <7>2
          <6> QED BY <6>1, <6>2
        <5> QED BY <5>1, <5>2 DEF IsTree
      <4> QED BY <4>4, <4>5, <4>7, <4>8
    <3> QED BY <3>2, <3>3
  <2>2. \A f \in found' : RouteOf(f.hops)'
    BY <1>1, <1>4 DEF TreeInv, Stitched
  <2>3. \A w \in Joined' : Routes(w)' # {}
    BY <1>3, <1>10, <2>1 DEF TreeInv, Stitched
  <2>4. \A w \in Destinations : Accounted(w) => Accounted(w)'
    BY <1>1, <1>3, <2>1 DEF Accounted
  <2>5. (\A w \in Destinations : w < goal /\ Routes(w) # {} => Accounted(w))'
    BY <1>1, <1>3, <2>4 DEF TreeInv, Stitched, Destinations
  <2>6. ~(goal' < N)
    BY <1>1, <2>0, SizesAre
  <2>7. PathOK'
    <3>1. place' \in 2..Len(path) + 1
      BY <1>1, <1>6, <1>7
    <3>2. ASSUME NEW i \in 1..place' - 1 PROVE path[i] \in Joined' \cup {Source}
      <4>1. i = place \/ i \in 1..place - 1
        BY <1>1, <1>7
      <4> QED BY <1>5, <1>8, <2>1, <4>1
    <3> QED BY <1>1, <1>4, <1>5, <3>1, <3>2 DEF PathOK
  <2>8. Stitched'
    BY <2>1, <2>2, <2>3, <2>5, <2>6 DEF Stitched
  <2> QED BY <2>1, <2>7, <2>8
<1> QED BY <1>2, <1>12 DEF TreeInv

LEMMA EndRouteKeeps ==
  ASSUME TreeInv, EndRoute
  PROVE  TreeInv'
<1>1. /\ path # NoPath /\ place > Len(path) /\ path' = NoPath
      /\ UNCHANGED <<hop, pass, search, found, parent, hopCount>> /\ goal' = goal
  BY DEF EndRoute, search
<1>2. SearchInv' /\ CostsTyped
  BY <1>1, SearchStays DEF TreeInv, SearchInv, SearchTypes
<1>3. Joined' = Joined /\ \A d : Routes(d)' = Routes(d)
  BY <1>1, SameCosts DEF Joined
<1>4. \A p : RouteOf(p)' = RouteOf(p)
  BY <1>3 DEF RouteOf
<1>5. PathOK' /\ IsTree'
  BY <1>1, <1>3 DEF TreeInv, Stitched, PathOK, IsTree
<1>6. ASSUME NEW v \in Destinations, Accounted(v) PROVE Accounted(v)'
  <2>1. CASE path \in Routes(v)
    <3>1. Walk(path) /\ Len(path) >= 2 /\ path[Len(path)] = v
      BY <2>1, RoutesAre DEF Destinations
    <3>2. Len(path) \in Nat
      BY <1>2, <3>1, WalkIs
    <3>3. place \in 2..Len(path) + 1 /\ \A i \in 1..place - 1 : path[i] \in Joined \cup {Source}
      BY <1>1 DEF TreeInv, PathOK
    <3>4. Len(path) \in 1..place - 1
      BY <1>1, <3>1, <3>2, <3>3
    <3>5. v \in Joined
      BY <3>1, <3>3, <3>4 DEF Destinations
    <3> QED BY <1>3, <3>5 DEF Accounted
  <2>2. CASE path \notin Routes(v)
    BY <1>1, <1>3, <1>6, <2>2 DEF Accounted
  <2> QED BY <2>1, <2>2
<1>7. (\A v \in Destinations : v < goal /\ Routes(v) # {} => Accounted(v))'
  BY <1>1, <1>3, <1>6 DEF TreeInv, Stitched, Destinations
<1>8. Stitched'
  BY <1>1, <1>3, <1>4, <1>5, <1>7 DEF TreeInv, Stitched
<1> QED BY <1>2, <1>5, <1>8 DEF TreeInv

LEMMA TreeStep ==
  ASSUME TreeInv, TreeNext \/ UNCHANGED treeVars
  PROVE  TreeInv'
<1>1. CASE UNCHANGED treeVars
  <2>1. UNCHANGED <<hop, pass, goal, found, stitching>> /\ UNCHANGED <<hop, pass, search>>
    BY <1>1 DEF treeVars, stitching, search
  <2>2. SearchInv'
    BY <2>1, SearchStays DEF TreeInv
  <2>3. (Stitched /\ PathOK)'
    BY <2>1, StitchedStays DEF TreeInv
  <2> QED BY <2>2, <2>3 DEF TreeInv
<1>2. ASSUME NEW e \in heap, Drop(e) \/ Expand(e) PROVE TreeInv'
  <2>1. UNCHANGED <<hop, pass, goal, found, stitching>>
    BY <1>2 DEF Drop, Expand
  <2>2. (Stitched /\ PathOK)'
    BY <2>1, StitchedStays DEF TreeInv
  <2>3. SearchInv'
    BY <1>2, DropKeeps, ExpandKeeps DEF TreeInv
  <2> QED BY <2>2, <2>3 DEF TreeInv
<1> QED BY <1>1, <1>2, ReachKeeps, NoneFoundKeeps, TakeRouteKeeps, StitchKeeps, EndRouteKeeps DEF TreeNext

-----------------------------------------------------------------------------
(* A behaviour of another service leaves the search where it starts.        *)
NoTree == SearchInit
LEMMA NoTreeIsBuilt == NoTree => TreeBuilt
<1> SUFFICES ASSUME NoTree PROVE TreeBuilt OBVIOUS
<1>1. /\ goal = 0 /\ heap = {[to |-> Origin, dist |-> 0]}
      /\ parent = [v \in Nodes |-> NoParent] /\ hopCount = [v \in {Source} |-> 0]
  BY DEF NoTree, SearchInit
<1>2. FindsCheapest
  <2>1. \A e \in heap : e.to[1] = Source
    BY <1>1 DEF Origin
  <2> QED BY <1>1, <2>1 DEF FindsCheapest, Nearest
<1>3. Joined = {}
  BY <1>1 DEF Joined
<1>4. IsTree
  BY <1>1, <1>3, SizesAre DEF IsTree
<1>5. ReachesAll
  BY <1>1, SizesAre DEF ReachesAll, Nodes
<1> QED BY <1>2, <1>4, <1>5 DEF TreeBuilt

TreeOrNot == IF service = "tree" THEN TreeInv ELSE NoTree

LEMMA TreeStays == MCSpec => []TreeOrNot
<1>1. MCInit => TreeOrNot
  <2> SUFFICES ASSUME MCInit PROVE TreeOrNot OBVIOUS
  <2>1. CASE service = "tree"
    <3>1. TreeInit
      BY <2>1, Zenon DEF MCInit, TreeInit
    <3> QED BY <2>1, <3>1, TreeStarts DEF TreeOrNot
  <2>2. CASE service # "tree"
    <3>1. SearchInit
      BY Zenon DEF MCInit
    <3> QED BY <2>2, <3>1 DEF TreeOrNot, NoTree
  <2> QED BY <2>1, <2>2
<1>2. TreeOrNot /\ [MCNext]_<<treeVars, flowVars, shopVars, imagesVars, threadsVars, vars, settingsVars, service, calm>> => TreeOrNot'
  <2> SUFFICES ASSUME TreeOrNot,
                      [MCNext]_<<treeVars, flowVars, shopVars, imagesVars, threadsVars, vars, settingsVars, service, calm>>
               PROVE  TreeOrNot'
    OBVIOUS
  <2>1. service' = service
    BY Zenon DEF MCNext
  <2>2. CASE service = "tree"
    <3>1. TreeNext \/ UNCHANGED treeVars
      BY Zenon DEF MCNext
    <3> QED BY <2>1, <2>2, <3>1, TreeStep DEF TreeOrNot
  <2>3. CASE service # "tree"
    <3>1. UNCHANGED treeVars
      BY <2>3, Zenon DEF MCNext
    <3>2. UNCHANGED <<goal, dist, route, heap, found, path, place, parent, hopCount>>
      BY <3>1 DEF treeVars
    <3>3. NoTree'
      BY <2>3, <3>2 DEF TreeOrNot, NoTree, SearchInit, NextGoal
    <3> QED BY <2>1, <2>3, <3>3 DEF TreeOrNot
  <2> QED BY <2>2, <2>3
<1> QED BY <1>1, <1>2, PTL DEF MCSpec

(* OptimizerSound: for any overlay, costs, routes and number of iterations, *)
(* the search finds the cheapest route the bound on relays allows, the      *)
(* routes are stitched into one tree that reaches whoever can be reached,   *)
(* and the flows carry the demand, along cheapest routes only where the gap *)
(* closed.                                                                  *)
THEOREM OptimizerIsSound == MCSpec => []OptimizerSound
<1>1. MCInit => FlowsInv BY FlowsStart, Zenon DEF MCInit
<1>2. FlowsInv /\ [MCNext]_<<treeVars, flowVars, shopVars, imagesVars, threadsVars, vars, settingsVars, service, calm>> => FlowsInv'
  <2> SUFFICES ASSUME FlowsInv,
                      [MCNext]_<<treeVars, flowVars, shopVars, imagesVars, threadsVars, vars, settingsVars, service, calm>>
               PROVE  FlowsInv'
    OBVIOUS
  <2>1. FlowNext \/ UNCHANGED flowVars BY Zenon DEF MCNext
  <2> QED BY <2>1, FlowsStep
<1>3. TreeOrNot /\ FlowsInv => OptimizerSound
  BY TreeInvImplies, NoTreeIsBuilt, FlowsInvImplies DEF TreeOrNot, OptimizerSound
<1> QED BY <1>1, <1>2, <1>3, TreeStays, PTL DEF MCSpec

=============================================================================
