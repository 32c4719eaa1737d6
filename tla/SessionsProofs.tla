--------------------------- MODULE SessionsProofs ---------------------------
(* Proofs about Sessions.  The user of a key is kept however the requests   *)
(* interleave; that stamps tell the truth is proved under the assumption    *)
(* that no change or bump falls between a resolution and its stamp; that    *)
(* who left a key stays away, of requests of one key that take turns.       *)
EXTENDS MCSessions, TLAPS

(* Steps of a worker that has read a session.                               *)
Filled == {"store", "serve", "issue"}
Busy == {"resolve", "stamp", "store", "serve"}

(* Where each worker is in filling its session.                             *)
TodoInv ==
  \A w \in Workers :
    /\ worker[w].at \in Filled => worker[w].todo = {}
    /\ worker[w].at \in {"resolve", "stamp"} => worker[w].todo # {}

IInv == TypeOK /\ TodoInv

USE SessionsAssumption DEF Keys, NoKey, Nobody

LEMMA DeadSession == Dead \in Session /\ Unfilled \in [Kinds -> Nat]
  BY DEF Dead, Session, Unfilled

LEMMA IdleRequest == Idle \in Request /\ Idle.at = "idle" /\ Idle.todo = {}
  BY DeadSession DEF Idle, Request

LEMMA FreshSession == ASSUME NEW u \in Users \cup {Nobody} PROVE Fresh(u) \in Session
  BY DeadSession DEF Fresh, Session

(* Every version, epoch or stamp is a function of the two kinds.            *)
LEMMA InitTypes == Init => IInv
  BY IdleRequest, DeadSession DEF Init, IInv, TypeOK, TodoInv, Filled, Kinds

LEMMA StaleKinds == \A s : Stale(s) \in SUBSET Kinds
  BY DEF Stale, Kinds

(* What the steps of one worker have in common: another worker's record is  *)
(* left alone.                                                              *)
LEMMA WorkerStep ==
  ASSUME TypeOK, TodoInv, NEW w \in Workers, NEW r \in Request,
         worker' = [worker EXCEPT ![w] = r],
         r.at \in Filled => r.todo = {},
         r.at \in {"resolve", "stamp"} => r.todo # {}
  PROVE  worker' \in [Workers -> Request] /\ TodoInv'
  BY DEF TypeOK, TodoInv

LEMMA ArriveTypes ==
  ASSUME IInv, NEW w \in Workers, Arrive(w)
  PROVE  IInv'
<1>1. PICK by \in {"cookie", "token"}, key \in given \cup {NoKey} :
        worker' = [worker EXCEPT ![w] =
            [Idle EXCEPT !.at = "manage", !.by = by, !.key = key, !.since = announced]]
  BY DEF Arrive
<1>2. [Idle EXCEPT !.at = "manage", !.by = by, !.key = key, !.since = announced] \in Request
  <2>1. announced \in [Kinds -> Nat] /\ key \in 0..MaxKeys
    BY DEF IInv, TypeOK
  <2> QED BY <2>1, IdleRequest DEF Request
<1>3. worker' \in [Workers -> Request] /\ TodoInv'
  <2> DEFINE r == [Idle EXCEPT !.at = "manage", !.by = by, !.key = key, !.since = announced]
  <2>1. r.at = "manage"
    BY IdleRequest DEF Request
  <2> HIDE DEF r
  <2> QED BY <1>1, <1>2, <2>1, WorkerStep DEF IInv, Filled, r
<1> QED
  BY <1>3 DEF IInv, TypeOK, Arrive, keyVars, dataVars

LEMMA ManageTypes ==
  ASSUME IInv, NEW w \in Workers, ManageSession(w)
  PROVE  IInv'
<1> DEFINE x == worker[w]
           todo == IF Live(x.key) THEN Stale(store[x.key]) ELSE Kinds
           r == IF Live(x.key)
                  THEN [x EXCEPT !.at = Filling(todo), !.todo = todo,
                                 !.session = store[x.key], !.dst = x.key]
                  ELSE [x EXCEPT !.at = Filling(todo), !.todo = todo,
                                 !.session = Fresh(Nobody),
                                 !.dst = IF x.by = "token" THEN NoKey ELSE minted + 1]
<1>1. worker' = [worker EXCEPT ![w] = r]
  BY DEF ManageSession
<1>2. x \in Request /\ todo \in SUBSET Kinds
  BY StaleKinds DEF IInv, TypeOK
<1>3. Live(x.key) => store[x.key] \in Session
  BY <1>2 DEF IInv, TypeOK, Live, Request
<1>4. Fresh(Nobody) \in Session
  BY FreshSession
<1>5. Filling(todo) \in {"store", "resolve"} /\ (Filling(todo) = "store" <=> todo = {})
  BY DEF Filling
<1>6. minted' \in 0..MaxKeys /\ owner' \in [Keys -> Users \cup {Nobody}]
  <2>1. minted \in 0..MaxKeys /\ owner \in [Keys -> Users \cup {Nobody}]
    BY DEF IInv, TypeOK
  <2>2. CASE UNCHANGED <<minted, owner>>
    BY <2>1, <2>2
  <2>3. CASE Mint(Nobody)
    BY <2>1, <2>3 DEF Mint
  <2> QED BY <2>2, <2>3 DEF ManageSession
<1>7. ~Live(x.key) /\ x.by # "token" => minted + 1 \in 0..MaxKeys
  BY DEF ManageSession, Mint, IInv, TypeOK
<1>8. r \in Request
  <2> HIDE DEF x, todo
  <2>1. CASE Live(x.key)
    BY <2>1, <1>2, <1>3, <1>5 DEF Request
  <2>2. CASE ~Live(x.key)
    <3>1. (IF x.by = "token" THEN NoKey ELSE minted + 1) \in 0..MaxKeys
      BY <2>2, <1>7
    <3> QED BY <2>2, <3>1, <1>2, <1>4, <1>5 DEF Request
  <2> QED BY <2>1, <2>2
<1>9. r.at = Filling(todo) /\ r.todo = todo
  BY <1>2 DEF Request
<1>10. worker' \in [Workers -> Request] /\ TodoInv'
  <2> HIDE DEF r, todo
  <2> QED BY <1>1, <1>5, <1>8, <1>9, WorkerStep DEF IInv, Filled
<1> QED
  BY <1>6, <1>10 DEF IInv, TypeOK, ManageSession, dataVars

LEMMA ResolveTypes ==
  ASSUME IInv, NEW w \in Workers, Resolve(w)
  PROVE  IInv'
<1> DEFINE r == [worker[w] EXCEPT !.at = "stamp", !.read = data[NextKind(worker[w].todo)]]
<1>1. worker' = [worker EXCEPT ![w] = r]
  BY DEF Resolve
<1>2. r \in Request /\ r.at = "stamp" /\ r.todo = worker[w].todo
  <2>1. worker[w] \in Request /\ data[NextKind(worker[w].todo)] \in Nat
    BY DEF IInv, TypeOK, NextKind, Kinds
  <2> QED BY <2>1 DEF Request
<1>3. worker' \in [Workers -> Request] /\ TodoInv'
  <2> HIDE DEF r
  <2> QED BY <1>1, <1>2, WorkerStep DEF IInv, TodoInv, Filled, Resolve
<1> QED
  BY <1>3 DEF IInv, TypeOK, Resolve, keyVars, dataVars

LEMMA StampTypes ==
  ASSUME IInv, NEW w \in Workers, Stamp(w)
  PROVE  IInv'
<1> DEFINE x == worker[w]
           k == NextKind(x.todo)
           r == [x EXCEPT !.at = Filling(x.todo \ {k}), !.todo = @ \ {k}, !.read = 0,
                          !.session.version[k] = x.read, !.session.stamp[k] = epoch[k]]
<1>1. worker' = [worker EXCEPT ![w] = r]
  BY DEF Stamp
<1>2. x \in Request /\ k \in Kinds /\ epoch[k] \in Nat
  BY DEF IInv, TypeOK, NextKind, Kinds
<1>3. r \in Request /\ r.at = Filling(x.todo \ {k}) /\ r.todo = x.todo \ {k}
  <2> DEFINE s == [x.session EXCEPT !.version[k] = x.read, !.stamp[k] = epoch[k]]
  <2>1. s \in Session
    BY <1>2 DEF Request, Session
  <2>2. r = [x EXCEPT !.at = Filling(x.todo \ {k}), !.todo = x.todo \ {k}, !.read = 0,
                      !.session = s]
    BY <1>2 DEF Request, Session
  <2>3. Filling(x.todo \ {k}) \in {"store", "resolve"} /\ x.todo \ {k} \in SUBSET Kinds
    BY <1>2 DEF Filling, Request
  <2> HIDE DEF s, r, x, k
  <2> QED BY <1>2, <2>1, <2>2, <2>3 DEF Request
<1>4. worker' \in [Workers -> Request] /\ TodoInv'
  <2> HIDE DEF r
  <2> QED BY <1>1, <1>3, WorkerStep DEF IInv, Filled, Filling
<1> QED
  BY <1>4 DEF IInv, TypeOK, Stamp, keyVars, dataVars

LEMMA StoreTypes ==
  ASSUME IInv, NEW w \in Workers, StoreSession(w)
  PROVE  IInv'
<1> DEFINE x == worker[w]
<1>1. x \in Request /\ x.session \in Session /\ x.dst \in 0..MaxKeys /\ x.at = "store"
  BY DEF IInv, TypeOK, Request, StoreSession
<1>2. store' \in [Keys -> Session] /\ given' \in SUBSET Keys
  BY <1>1 DEF IInv, TypeOK, StoreSession
<1>3. PICK at \in {"serve", "issue", "idle"} :
        worker' = [worker EXCEPT ![w] = IF at = "idle" THEN Idle ELSE [x EXCEPT !.at = at]]
  BY DEF StoreSession
<1> DEFINE r == IF at = "idle" THEN Idle ELSE [x EXCEPT !.at = at]
<1>4. r \in Request /\ r.at = at /\ r.todo = {}
  BY <1>1, IdleRequest DEF Request, IInv, TodoInv, Filled
<1>5. worker' \in [Workers -> Request] /\ TodoInv'
  <2> HIDE DEF r
  <2> QED BY <1>3, <1>4, WorkerStep DEF IInv, r
<1> QED
  BY <1>2, <1>5 DEF IInv, TypeOK, StoreSession, dataVars

LEMMA ServeTypes ==
  ASSUME IInv, NEW w \in Workers, Serve(w)
  PROVE  IInv'
<1>1. store' \in [Keys -> Session]
  BY DEF IInv, TypeOK, Serve, Cookie, Request
<1>2. worker' \in [Workers -> Request] /\ TodoInv'
  BY IdleRequest, WorkerStep DEF IInv, Serve
<1> QED
  BY <1>1, <1>2 DEF IInv, TypeOK, Serve, dataVars

(* The record FillAs leaves the worker with.                                *)
LEMMA FillAsTypes ==
  ASSUME IInv, NEW w \in Workers, NEW s \in Session, NEW dst \in 0..MaxKeys,
         NEW step \in {"manage", "login", "logout", "token"}, FillAs(w, step, s, dst)
  PROVE  worker' \in [Workers -> Request] /\ TodoInv'
<1> DEFINE r == [worker[w] EXCEPT !.at = "resolve", !.todo = Kinds, !.step = step,
                                  !.session = s, !.dst = dst]
<1>1. r \in Request /\ r.at = "resolve" /\ r.todo = Kinds
  <2>1. worker[w] \in Request
    BY DEF IInv, TypeOK
  <2> QED BY <2>1 DEF Request
<1>2. worker' = [worker EXCEPT ![w] = r]
  BY DEF FillAs
<1> HIDE DEF r
<1> QED
  BY <1>1, <1>2, WorkerStep DEF IInv, Filled, Kinds

LEMMA LoginTypes ==
  ASSUME IInv, NEW w \in Workers, NEW u \in Users, Login(w, u)
  PROVE  IInv'
<1>1. minted + 1 \in 0..MaxKeys /\ minted' \in 0..MaxKeys
      /\ owner' \in [Keys -> Users \cup {Nobody}]
  BY DEF Login, Mint, IInv, TypeOK
<1>2. store' \in [Keys -> Session]
  BY DeadSession DEF Login, IInv, TypeOK
<1>3. worker' \in [Workers -> Request] /\ TodoInv'
  BY <1>1, FreshSession, FillAsTypes DEF Login
<1> QED
  BY <1>1, <1>2, <1>3 DEF IInv, TypeOK, Login, dataVars

LEMMA LogoutTypes ==
  ASSUME IInv, NEW w \in Workers, Logout(w)
  PROVE  IInv'
<1>1. Cookie(w) \in Keys
  BY DEF Logout, Live, Cookie, IInv, TypeOK, Request
<1>2. [store[Cookie(w)] EXCEPT !.user = Nobody] \in Session
  <2>1. store[Cookie(w)] \in Session
    BY <1>1 DEF IInv, TypeOK
  <2> QED BY <2>1 DEF Session
<1>3. worker' \in [Workers -> Request] /\ TodoInv'
  BY <1>1, <1>2, FillAsTypes DEF Logout
<1> QED
  BY <1>3 DEF IInv, TypeOK, Logout, dataVars, keyVars

LEMMA IssueTypes ==
  ASSUME IInv, NEW w \in Workers, IssueToken(w)
  PROVE  IInv'
<1> DEFINE u == worker[w].session.user
<1>1. u \in Users \cup {Nobody}
  BY DEF IInv, TypeOK, Request, Session
<1>2. minted + 1 \in 0..MaxKeys /\ minted' \in 0..MaxKeys
      /\ owner' \in [Keys -> Users \cup {Nobody}]
  BY <1>1 DEF IssueToken, Mint, IInv, TypeOK
<1>3. worker' \in [Workers -> Request] /\ TodoInv'
  BY <1>1, <1>2, FreshSession, FillAsTypes DEF IssueToken
<1> QED
  BY <1>2, <1>3 DEF IInv, TypeOK, IssueToken, dataVars

LEMMA AroundTypes ==
  ASSUME IInv, \/ \E k \in Kinds : Change(k) \/ Bump(k)
               \/ \E k \in Keys : Expire(k)
               \/ Restart
  PROVE  IInv'
<1>1. ASSUME NEW k \in Kinds, Change(k) PROVE IInv'
  <2>1. owed[k] + 1 \in Nat /\ data[k] + 1 \in Nat
    BY DEF IInv, TypeOK
  <2> QED BY <1>1, <2>1 DEF Change, IInv, TypeOK, TodoInv, keyVars
<1>2. ASSUME NEW k \in Kinds, Bump(k) PROVE IInv'
  <2>1. owed[k] - 1 \in Nat /\ epoch[k] + 1 \in Nat /\ data[k] \in Nat
    BY <1>2 DEF Bump, IInv, TypeOK
  <2> QED BY <1>2, <2>1 DEF Bump, IInv, TypeOK, TodoInv, keyVars
<1>3. ASSUME NEW k \in Keys, Expire(k) PROVE IInv'
  BY <1>3, DeadSession DEF Expire, IInv, TypeOK, TodoInv, dataVars
<1>4. ASSUME Restart PROVE IInv'
  <2>1. restarts' \in 0..MaxRestarts
    BY <1>4 DEF Restart, IInv, TypeOK
  <2>2. epoch' \in [Kinds -> Nat] /\ owed' \in [Kinds -> Nat] /\ announced' \in [Kinds -> Nat]
    BY <1>4 DEF Restart, IInv, TypeOK, Kinds
  <2>3. worker' \in [Workers -> Request] /\ TodoInv'
    BY <1>4, IdleRequest DEF Restart, TodoInv, Filled
  <2> QED BY <1>4, <2>1, <2>2, <2>3 DEF Restart, IInv, TypeOK, keyVars
<1> QED
  BY <1>1, <1>2, <1>3, <1>4

LEMMA StepTypes == IInv /\ [Next]_vars => IInv'
<1> SUFFICES ASSUME IInv, [Next]_vars PROVE IInv'
  OBVIOUS
<1>1. CASE Next
  BY <1>1, ArriveTypes, ManageTypes, ResolveTypes, StampTypes, StoreTypes, ServeTypes,
     LoginTypes, LogoutTypes, IssueTypes, AroundTypes DEF Next
<1>2. CASE UNCHANGED vars
  BY <1>2 DEF vars, dataVars, keyVars, IInv, TypeOK, TodoInv
<1> QED
  BY <1>1, <1>2

LEMMA Types == Spec => []IInv
<1>1. IInv /\ [Next]_vars => IInv'
  BY StepTypes
<1> QED
  BY <1>1, InitTypes, PTL DEF Spec

(* Every variable of Sessions keeps its type.                               *)
THEOREM TypeCorrect == Spec => []TypeOK
<1>1. IInv => TypeOK
  BY DEF IInv
<1> QED
  BY <1>1, Types, PTL

-----------------------------------------------------------------------------
(* A key keeps its user.  What a request will store under dst, or under the *)
(* key it came with, belongs there.                                         *)
OwnWorker(x) ==
  /\ x.key <= minted /\ x.dst <= minted
  /\ x.dst # NoKey => x.session.user \in {owner[x.dst], Nobody}
  /\ x.step = "manage" /\ x.key # NoKey => x.session.user \in {owner[x.key], Nobody}
  /\ x.at = "serve" => x.step = "manage"

OwnInv ==
  /\ IInv
  /\ KeyKeepsItsUser
  /\ \A k \in Keys : k > minted => owner[k] = Nobody
  /\ \A k \in given : k <= minted
  /\ \A w \in Workers : OwnWorker(worker[w])

LEMMA IdleOwn == IInv => OwnWorker(Idle)
  BY DEF IInv, TypeOK, OwnWorker, Idle, Dead

LEMMA InitOwn == Init => OwnInv
<1> SUFFICES ASSUME Init PROVE OwnInv
  OBVIOUS
<1>1. IInv /\ OwnWorker(Idle)
  BY InitTypes, IdleOwn
<1> QED
  BY <1>1 DEF Init, OwnInv, KeyKeepsItsUser, Dead

(* A step that mints no key: it is enough to look at what it stores and at  *)
(* the worker that takes it.                                                *)
LEMMA OwnStep ==
  ASSUME OwnInv, IInv', UNCHANGED <<owner, minted>>,
         NEW w \in Workers, OwnWorker(worker'[w]),
         \A v \in Workers : v # w => worker'[v] = worker[v],
         KeyKeepsItsUser', \A k \in given' : k <= minted
  PROVE  OwnInv'
<1>1. \A v \in Workers : OwnWorker(worker'[v])
  BY DEF OwnInv
<1>2. \A v \in Workers : OwnWorker(worker[v])'
  BY <1>1 DEF OwnWorker
<1> QED
  BY <1>2 DEF OwnInv

LEMMA ArriveOwn ==
  ASSUME OwnInv, IInv', NEW w \in Workers, Arrive(w)
  PROVE  OwnInv'
<1>1. PICK by \in {"cookie", "token"}, key \in given \cup {NoKey} :
        worker' = [worker EXCEPT ![w] =
            [Idle EXCEPT !.at = "manage", !.by = by, !.key = key, !.since = announced]]
  BY DEF Arrive
<1>2. OwnWorker(worker'[w])
  BY <1>1 DEF OwnWorker, Idle, Dead, OwnInv, IInv, TypeOK
<1> QED
  BY <1>1, <1>2, OwnStep DEF Arrive, OwnInv, IInv, TypeOK, keyVars, KeyKeepsItsUser

LEMMA ManageOwn ==
  ASSUME OwnInv, IInv', NEW w \in Workers, ManageSession(w)
  PROVE  OwnInv'
<1> DEFINE x == worker[w]
<1>1. x \in Request /\ OwnWorker(x) /\ minted \in 0..MaxKeys
  BY DEF OwnInv, IInv, TypeOK
<1>2. CASE Live(x.key)
  <2>1. x.key \in Keys /\ store[x.key].user \in {owner[x.key], Nobody}
    BY <1>1, <1>2 DEF Live, Request, OwnInv, KeyKeepsItsUser
  <2> DEFINE todo == Stale(store[x.key])
             r == [x EXCEPT !.at = Filling(todo), !.todo = todo,
                            !.session = store[x.key], !.dst = x.key]
  <2>2. worker' = [worker EXCEPT ![w] = r] /\ UNCHANGED <<minted, owner>>
    BY <1>2 DEF ManageSession
  <2>3. r.key = x.key /\ r.dst = x.key /\ r.session = store[x.key] /\ r.at # "serve"
        /\ r.step = x.step
    BY <1>1 DEF Request, Filling
  <2>4. worker'[w] = r
    BY <2>2 DEF OwnInv, IInv, TypeOK
  <2>5. OwnWorker(worker'[w])
    <3> HIDE DEF r
    <3> QED BY <1>1, <2>1, <2>3, <2>4 DEF OwnWorker
  <2> QED
    BY <1>2, <2>5, OwnStep DEF ManageSession, OwnInv, IInv, TypeOK, KeyKeepsItsUser
<1>3. CASE ~Live(x.key)
  <2> DEFINE todo == Kinds
             r == [x EXCEPT !.at = Filling(Kinds), !.todo = Kinds,
                            !.session = Fresh(Nobody),
                            !.dst = IF x.by = "token" THEN NoKey ELSE minted + 1]
  <2>1. worker' = [worker EXCEPT ![w] = r]
        /\ IF x.by = "token" THEN UNCHANGED <<minted, owner>> ELSE Mint(Nobody)
    BY <1>3 DEF ManageSession
  <2>2. r.key = x.key /\ r.session.user = Nobody /\ r.at = "resolve"
        /\ r.dst = IF x.by = "token" THEN NoKey ELSE minted + 1
    BY <1>1 DEF Request, Fresh, Filling, Kinds
  <2>3. worker'[w] = r
    BY <2>1 DEF OwnInv, IInv, TypeOK
  <2>4. owner' = owner /\ minted' \in 0..MaxKeys /\ minted' >= minted
    <3>1. CASE Mint(Nobody)
      <4>1. owner[minted + 1] = Nobody /\ minted + 1 \in Keys /\ minted' = minted + 1
        BY <1>1, <3>1 DEF Mint, OwnInv
      <4> QED BY <1>1, <3>1, <4>1 DEF Mint, OwnInv, IInv, TypeOK
    <3> QED BY <1>1, <2>1, <3>1
  <2>5. OwnWorker(worker[w])'
    <3>1. r.dst <= minted'
      BY <1>1, <2>1, <2>2 DEF Mint
    <3> HIDE DEF r
    <3> QED BY <1>1, <2>2, <2>3, <2>4, <3>1 DEF OwnWorker, Request
  <2>6. ASSUME NEW v \in Workers, v # w PROVE OwnWorker(worker[v])'
    <3>1. worker'[v] = worker[v] /\ OwnWorker(worker[v]) /\ worker[v] \in Request
      BY <2>1, <2>6 DEF OwnInv, IInv, TypeOK
    <3> QED
      BY <1>1, <3>1, <2>4 DEF OwnWorker, Request
  <2>7. store' = store /\ given' = given
    BY DEF ManageSession
  <2> QED
    BY <1>1, <2>4, <2>5, <2>6, <2>7 DEF OwnInv, IInv, TypeOK, KeyKeepsItsUser
<1> QED
  BY <1>2, <1>3

LEMMA FillingOwn ==
  ASSUME OwnInv, IInv', NEW w \in Workers, Resolve(w) \/ Stamp(w)
  PROVE  OwnInv'
<1>1. worker[w] \in Request /\ OwnWorker(worker[w])
  BY DEF OwnInv, IInv, TypeOK
<1>2. /\ worker'[w].key = worker[w].key /\ worker'[w].dst = worker[w].dst
      /\ worker'[w].step = worker[w].step /\ worker'[w].at # "serve"
      /\ worker'[w].session.user = worker[w].session.user
  <2>1. CASE Resolve(w)
    BY <1>1, <2>1 DEF Resolve, Request, OwnInv, IInv, TypeOK
  <2>2. CASE Stamp(w)
    <3> DEFINE x == worker[w]
               k == NextKind(x.todo)
               s == [x.session EXCEPT !.version[k] = x.read, !.stamp[k] = epoch[k]]
               r == [x EXCEPT !.at = Filling(x.todo \ {k}), !.todo = x.todo \ {k},
                              !.read = 0, !.session = s]
    <3>1. worker'[w] = r
      BY <1>1, <2>2 DEF Stamp, Request, Session, OwnInv, IInv, TypeOK
    <3>2. Filling(x.todo \ {k}) # "serve" /\ x.session \in Session
      BY <1>1 DEF Filling, Request
    <3>3. s.user = x.session.user
      BY <3>2 DEF Session
    <3> HIDE DEF k, s
    <3> QED BY <1>1, <3>1, <3>2, <3>3 DEF Request
  <2> QED BY <2>1, <2>2
<1>3. OwnWorker(worker'[w])
  BY <1>1, <1>2 DEF OwnWorker
<1> QED
  BY <1>3, OwnStep DEF Resolve, Stamp, OwnInv, IInv, TypeOK, keyVars, KeyKeepsItsUser

LEMMA StoreOwn ==
  ASSUME OwnInv, IInv', NEW w \in Workers, StoreSession(w)
  PROVE  OwnInv'
<1> DEFINE x == worker[w]
<1>1. x \in Request /\ OwnWorker(x)
  BY DEF OwnInv, IInv, TypeOK
<1>2. OwnWorker(worker'[w])
  <2>1. PICK at \in {"serve", "issue", "idle"} :
          /\ worker'[w] = IF at = "idle" THEN Idle ELSE [x EXCEPT !.at = at]
          /\ at = "serve" => x.step = "manage"
    BY DEF StoreSession, OwnInv, IInv, TypeOK
  <2>2. CASE at = "idle"
    BY <2>1, <2>2, IdleOwn DEF OwnInv
  <2>3. CASE at # "idle"
    <3> DEFINE r == [x EXCEPT !.at = at]
    <3>1. r.at = at /\ r.key = x.key /\ r.dst = x.dst /\ r.step = x.step /\ r.session = x.session
      BY <1>1 DEF Request
    <3>2. worker'[w] = r
      BY <2>1, <2>3
    <3> HIDE DEF r
    <3> QED BY <1>1, <2>1, <3>1, <3>2 DEF OwnWorker
  <2> QED BY <2>2, <2>3
<1>3. KeyKeepsItsUser'
  BY <1>1 DEF StoreSession, KeyKeepsItsUser, OwnWorker, OwnInv, IInv, TypeOK
<1>4. \A k \in given' : k <= minted
  BY <1>1 DEF StoreSession, OwnWorker, OwnInv
<1> QED
  BY <1>2, <1>3, <1>4, OwnStep DEF StoreSession, OwnInv, IInv, TypeOK

LEMMA ServeOwn ==
  ASSUME OwnInv, IInv', NEW w \in Workers, Serve(w)
  PROVE  OwnInv'
<1>1. worker[w] \in Request /\ OwnWorker(worker[w]) /\ worker[w].step = "manage"
  BY DEF OwnInv, IInv, TypeOK, Serve, OwnWorker
<1>2. OwnWorker(worker'[w])
  BY IdleOwn DEF Serve, OwnInv, IInv, TypeOK
<1>3. KeyKeepsItsUser'
  BY <1>1 DEF Serve, Cookie, KeyKeepsItsUser, OwnWorker, OwnInv, IInv, TypeOK
<1> QED
  BY <1>2, <1>3, OwnStep DEF Serve, OwnInv, IInv, TypeOK

LEMMA LogoutOwn ==
  ASSUME OwnInv, IInv', NEW w \in Workers, Logout(w)
  PROVE  OwnInv'
<1>1. worker[w] \in Request /\ OwnWorker(worker[w])
  BY DEF OwnInv, IInv, TypeOK
<1>2. Cookie(w) \in Keys /\ Cookie(w) = worker[w].key
  BY <1>1 DEF Logout, Live, Cookie, Request
<1>3. [store[Cookie(w)] EXCEPT !.user = Nobody].user = Nobody
  BY <1>2 DEF OwnInv, IInv, TypeOK, Session
<1>4. OwnWorker(worker'[w])
  BY <1>1, <1>2, <1>3 DEF Logout, FillAs, OwnWorker, OwnInv, IInv, TypeOK, Request
<1>5. \A v \in Workers : v # w => worker'[v] = worker[v]
  BY DEF Logout, FillAs, OwnInv, IInv, TypeOK
<1> QED
  BY <1>4, <1>5, OwnStep DEF Logout, OwnInv, KeyKeepsItsUser, keyVars

(* A login and a token store a session of u under a new key of u.           *)
LEMMA MintOwn ==
  ASSUME OwnInv, IInv', NEW w \in Workers, NEW u \in Users \cup {Nobody}, Mint(u),
         NEW step \in {"login", "token"}, FillAs(w, step, Fresh(u), minted + 1),
         given' = given, \A k \in Keys : store'[k] \in {store[k], Dead}
  PROVE  OwnInv'
<1> DEFINE x == worker[w]
<1>1. x \in Request /\ OwnWorker(x) /\ minted \in 0..MaxKeys /\ minted + 1 \in Keys
  BY DEF OwnInv, IInv, TypeOK, Mint
<1>2. /\ owner'[minted + 1] = u /\ minted' = minted + 1
      /\ \A k \in Keys : k # minted + 1 => owner'[k] = owner[k]
  BY <1>1 DEF OwnInv, IInv, TypeOK, Mint
<1>3. KeyKeepsItsUser'
  <2> SUFFICES ASSUME NEW k \in Keys PROVE store'[k].user \in {owner'[k], Nobody}
    BY DEF KeyKeepsItsUser
  <2>1. store[k].user \in {owner[k], Nobody} /\ (k = minted + 1 => owner[k] = Nobody)
    BY <1>1 DEF OwnInv, KeyKeepsItsUser
  <2> QED
    BY <1>1, <1>2, <2>1 DEF Dead
<1>4. \A k \in Keys : k > minted' => owner'[k] = Nobody
  BY <1>1, <1>2 DEF OwnInv
<1>5. \A k \in given' : k <= minted'
  BY <1>1, <1>2 DEF OwnInv, IInv, TypeOK
<1>6. OwnWorker(worker[w])'
  <2>1. /\ worker'[w].key = x.key /\ worker'[w].dst = minted + 1 /\ worker'[w].step = step
        /\ worker'[w].at = "resolve" /\ worker'[w].session.user = u
    BY <1>1 DEF FillAs, Fresh, OwnInv, IInv, TypeOK, Request
  <2> QED
    BY <1>1, <1>2, <2>1 DEF OwnWorker, Request
<1>7. ASSUME NEW v \in Workers, v # w PROVE OwnWorker(worker[v])'
  <2>1. worker'[v] = worker[v] /\ OwnWorker(worker[v]) /\ worker[v] \in Request
    BY <1>7 DEF FillAs, OwnInv, IInv, TypeOK
  <2> QED
    BY <1>1, <1>2, <2>1 DEF OwnWorker, Request
<1> QED
  BY <1>3, <1>4, <1>5, <1>6, <1>7 DEF OwnInv

LEMMA LoginOwn ==
  ASSUME OwnInv, IInv', NEW w \in Workers, NEW u \in Users, Login(w, u)
  PROVE  OwnInv'
<1>1. \A k \in Keys : store'[k] \in {store[k], Dead}
  BY DEF Login, OwnInv, IInv, TypeOK
<1> QED
  BY <1>1, MintOwn DEF Login

LEMMA IssueOwn ==
  ASSUME OwnInv, IInv', NEW w \in Workers, IssueToken(w)
  PROVE  OwnInv'
<1>1. worker[w].session.user \in Users \cup {Nobody}
  BY DEF OwnInv, IInv, TypeOK, Request, Session
<1> QED
  BY <1>1, MintOwn DEF IssueToken

LEMMA AroundOwn ==
  ASSUME OwnInv, IInv', \/ \E k \in Kinds : Change(k) \/ Bump(k)
                        \/ \E k \in Keys : Expire(k)
                        \/ Restart
  PROVE  OwnInv'
<1>1. UNCHANGED <<owner, minted, given>>
  BY DEF Change, Bump, Expire, Restart, keyVars
<1>2. KeyKeepsItsUser'
  <2>1. \A k \in Keys : store'[k] \in {store[k], Dead}
    BY DEF Change, Bump, Expire, Restart, keyVars, OwnInv, IInv, TypeOK
  <2> QED
    BY <1>1, <2>1 DEF OwnInv, KeyKeepsItsUser, Dead
<1>3. ASSUME NEW v \in Workers PROVE OwnWorker(worker[v])'
  <2>1. worker'[v] \in {worker[v], Idle}
    BY DEF Change, Bump, Expire, Restart
  <2>2. OwnWorker(worker'[v])
    BY <2>1, IdleOwn DEF OwnInv
  <2> QED
    BY <1>1, <2>2 DEF OwnWorker
<1> QED
  BY <1>1, <1>2, <1>3 DEF OwnInv

LEMMA StepOwn == OwnInv /\ [Next]_vars => OwnInv'
<1> SUFFICES ASSUME OwnInv, [Next]_vars PROVE OwnInv'
  OBVIOUS
<1>1. IInv'
  BY StepTypes DEF OwnInv
<1>2. CASE Next
  BY <1>1, <1>2, ArriveOwn, ManageOwn, FillingOwn, StoreOwn, ServeOwn, LoginOwn, LogoutOwn,
     IssueOwn, AroundOwn DEF Next
<1>3. CASE UNCHANGED vars
  BY <1>1, <1>3 DEF vars, keyVars, OwnInv, KeyKeepsItsUser, OwnWorker
<1> QED
  BY <1>2, <1>3

(* No session is ever stored under another user's key, whatever the         *)
(* interleaving of requests, logins, logouts and restarts.                  *)
THEOREM KeysAreKept == Spec => []KeyKeepsItsUser
<1>1. OwnInv /\ [Next]_vars => OwnInv'
  BY StepOwn
<1>2. OwnInv => KeyKeepsItsUser
  BY DEF OwnInv
<1> QED
  BY InitOwn, <1>1, <1>2, PTL DEF Spec

-----------------------------------------------------------------------------
(* Stamps tell the truth, when nothing falls between a resolution and its   *)
(* stamp.  A session's rights stamp is never ahead of the epoch; while it   *)
(* is current, its configuration was stamped in this run of the process, so *)
(* that stamp is not ahead either and a bump makes it differ.               *)
Sound(s, kinds) ==
  /\ s.stamp["rights"] <= epoch["rights"]
  /\ s.stamp["rights"] = epoch["rights"] /\ "rights" \in kinds =>
       /\ s.version["rights"] >= announced["rights"]
       /\ "config" \in kinds =>
            /\ s.stamp["config"] <= epoch["config"]
            /\ s.stamp["config"] = epoch["config"] =>
                 s.version["config"] >= announced["config"]

TruthWorker(x) ==
  /\ x.at = "serve" => x.step = "manage"
  /\ "rights" \in x.todo => "config" \in x.todo
  /\ Sound(x.session, Kinds \ x.todo)
  /\ x.at = "stamp" => x.read = data[NextKind(x.todo)]
  /\ \A k \in Kinds : x.since[k] <= announced[k]
  /\ x.step = "manage" /\ x.at \in Busy =>
       \A k \in Kinds \ x.todo : x.session.version[k] >= x.since[k]

TruthInv ==
  /\ IInv
  /\ epoch["rights"] >= 1
  /\ \A k \in Kinds : announced[k] <= data[k]
  /\ \A k \in Keys : Sound(store[k], Kinds)
  /\ \A w \in Workers : TruthWorker(worker[w])

LEMMA BlankSound ==
  ASSUME TruthInv, NEW kinds
  PROVE  Sound(Dead, kinds) /\ TruthWorker(Idle) /\ \A u : Sound(Fresh(u), {})
<1>1. epoch \in [Kinds -> Nat] /\ announced \in [Kinds -> Nat] /\ epoch["rights"] >= 1
  BY DEF TruthInv, IInv, TypeOK
<1> QED
  BY <1>1 DEF Sound, Dead, TruthWorker, Idle, Fresh, Unfilled, Kinds, Busy

LEMMA InitTruth == Init => TruthInv
<1> SUFFICES ASSUME Init PROVE TruthInv
  OBVIOUS
<1>1. IInv /\ epoch["rights"] = 1 /\ \A k \in Kinds : announced[k] = 1 /\ data[k] = 1
  BY InitTypes DEF Init, Kinds
<1>2. \A kinds : Sound(Dead, kinds)
  BY <1>1 DEF Sound, Dead, Unfilled, Kinds
<1>3. TruthWorker(Idle)
  BY <1>1, <1>2 DEF TruthWorker, Idle, Unfilled, Busy
<1> QED
  BY <1>1, <1>2, <1>3 DEF Init, TruthInv

(* A step of one worker: what it stores and its own record are sound.       *)
LEMMA TruthStep ==
  ASSUME TruthInv, IInv', UNCHANGED dataVars,
         NEW w \in Workers, TruthWorker(worker'[w]),
         \A v \in Workers : v # w => worker'[v] = worker[v],
         \A k \in Keys : Sound(store'[k], Kinds)
  PROVE  TruthInv'
<1>1. \A v \in Workers : TruthWorker(worker'[v])
  BY DEF TruthInv
<1>2. \A v \in Workers : TruthWorker(worker[v])'
  BY <1>1 DEF TruthWorker, Sound, dataVars
<1>3. \A k \in Keys : Sound(store[k], Kinds)'
  BY DEF Sound, dataVars
<1> QED
  BY <1>2, <1>3 DEF TruthInv, dataVars

LEMMA ArriveTruth ==
  ASSUME TruthInv, IInv', NEW w \in Workers, Arrive(w)
  PROVE  TruthInv'
<1>1. PICK by \in {"cookie", "token"}, key \in given \cup {NoKey} :
        worker' = [worker EXCEPT ![w] =
            [Idle EXCEPT !.at = "manage", !.by = by, !.key = key, !.since = announced]]
  BY DEF Arrive
<1>2. /\ worker'[w].at = "manage" /\ worker'[w].since = announced
      /\ worker'[w].session = Dead /\ worker'[w].todo = {}
  BY <1>1 DEF Idle, TruthInv, IInv, TypeOK
<1>3. TruthWorker(worker'[w])
  <2>1. Sound(Dead, Kinds \ {}) /\ announced \in [Kinds -> Nat]
    BY BlankSound DEF TruthInv, IInv, TypeOK
  <2> QED BY <1>2, <2>1 DEF TruthWorker, Busy
<1> QED
  BY <1>1, <1>3, TruthStep DEF Arrive, TruthInv, IInv, TypeOK, keyVars

(* What is not stale is at least as new as what has been announced.         *)
LEMMA NotStale ==
  ASSUME TruthInv, NEW s \in Session, Sound(s, Kinds)
  PROVE  /\ Sound(s, Kinds \ Stale(s))
         /\ \A k \in Kinds \ Stale(s) : s.version[k] >= announced[k]
<1>1. epoch \in [Kinds -> Nat] /\ announced \in [Kinds -> Nat]
  BY DEF TruthInv, IInv, TypeOK
<1> QED
  BY <1>1 DEF Sound, Stale, Session, Kinds

LEMMA ManageTruth ==
  ASSUME TruthInv, IInv', NEW w \in Workers, ManageSession(w)
  PROVE  TruthInv'
<1> DEFINE x == worker[w]
<1>1. x \in Request /\ TruthWorker(x) /\ announced \in [Kinds -> Nat]
  BY DEF TruthInv, IInv, TypeOK
<1>2. CASE Live(x.key)
  <2> DEFINE todo == Stale(store[x.key])
             r == [x EXCEPT !.at = Filling(todo), !.todo = todo,
                            !.session = store[x.key], !.dst = x.key]
  <2>1. worker' = [worker EXCEPT ![w] = r]
    BY <1>2 DEF ManageSession
  <2>2. worker'[w] = r
    BY <2>1 DEF TruthInv, IInv, TypeOK
  <2>3. /\ r.at = Filling(todo) /\ r.todo = todo /\ r.session = store[x.key]
        /\ r.since = x.since
    BY <1>1 DEF Request
  <2>4. x.key \in Keys /\ store[x.key] \in Session /\ Sound(store[x.key], Kinds)
    BY <1>1, <1>2 DEF Live, Request, TruthInv, IInv, TypeOK
  <2>5. Sound(store[x.key], Kinds \ todo)
        /\ \A k \in Kinds \ todo : store[x.key].version[k] >= announced[k]
    BY <2>4, NotStale
  <2>6. \A k \in Kinds \ todo : store[x.key].version[k] >= x.since[k]
    BY <1>1, <2>4, <2>5 DEF TruthWorker, Request, Session
  <2>7. TruthWorker(worker'[w])
    <3>1. Filling(todo) \notin {"stamp", "serve"} /\ ("rights" \in todo => "config" \in todo)
      BY DEF Filling, Stale, Kinds
    <3> HIDE DEF r, todo
    <3> QED BY <1>1, <2>2, <2>3, <2>5, <2>6, <3>1 DEF TruthWorker
  <2> QED
    BY <2>1, <2>7, TruthStep DEF ManageSession, TruthInv, IInv, TypeOK
<1>3. CASE ~Live(x.key)
  <2> DEFINE r == [x EXCEPT !.at = Filling(Kinds), !.todo = Kinds,
                            !.session = Fresh(Nobody),
                            !.dst = IF x.by = "token" THEN NoKey ELSE minted + 1]
  <2>1. worker' = [worker EXCEPT ![w] = r]
    BY <1>3 DEF ManageSession
  <2>2. worker'[w] = r
    BY <2>1 DEF TruthInv, IInv, TypeOK
  <2>3. r.at \notin {"stamp", "serve"} /\ r.todo = Kinds /\ r.session = Fresh(Nobody) /\ r.since = x.since
    BY <1>1 DEF Request, Filling
  <2>4. Sound(Fresh(Nobody), Kinds \ Kinds)
    <3>1. Kinds \ Kinds = {}
      OBVIOUS
    <3> QED BY <3>1, BlankSound
  <2>5. TruthWorker(worker'[w])
    <3> HIDE DEF r
    <3>1. "config" \in r.todo /\ \A k \in Kinds \ r.todo : FALSE
      BY <2>3 DEF Kinds
    <3> QED BY <1>1, <2>2, <2>3, <2>4, <3>1 DEF TruthWorker
  <2> QED
    BY <2>1, <2>5, TruthStep DEF ManageSession, TruthInv, IInv, TypeOK
<1> QED
  BY <1>2, <1>3

LEMMA ResolveTruth ==
  ASSUME TruthInv, IInv', NEW w \in Workers, Resolve(w)
  PROVE  TruthInv'
<1> DEFINE x == worker[w]
           r == [x EXCEPT !.at = "stamp", !.read = data[NextKind(x.todo)]]
<1>1. x \in Request /\ TruthWorker(x) /\ x.at = "resolve"
  BY DEF TruthInv, IInv, TypeOK, Resolve
<1>2. worker' = [worker EXCEPT ![w] = r] /\ worker'[w] = r
  BY DEF Resolve, TruthInv, IInv, TypeOK
<1>3. /\ r.at = "stamp" /\ r.todo = x.todo /\ r.read = data[NextKind(x.todo)] /\ r.session = x.session
      /\ r.since = x.since /\ r.step = x.step
  BY <1>1 DEF Request
<1>4. TruthWorker(worker'[w])
  <2> HIDE DEF r
  <2> QED BY <1>1, <1>2, <1>3 DEF TruthWorker, Busy
<1> QED
  BY <1>2, <1>4, TruthStep DEF Resolve, TruthInv, IInv, TypeOK, keyVars

LEMMA StampTruth ==
  ASSUME TruthInv, IInv', NEW w \in Workers, Stamp(w)
  PROVE  TruthInv'
<1> DEFINE x == worker[w]
           k == NextKind(x.todo)
           s == [x.session EXCEPT !.version[k] = x.read, !.stamp[k] = epoch[k]]
           r == [x EXCEPT !.at = Filling(x.todo \ {k}), !.todo = x.todo \ {k}, !.read = 0,
                          !.session = s]
<1>1. /\ x \in Request /\ x.session \in Session /\ TruthWorker(x) /\ x.at = "stamp"
      /\ x.todo # {} /\ x.todo \in SUBSET Kinds
  BY DEF TruthInv, IInv, TypeOK, TodoInv, Stamp, Request
<1>2. worker' = [worker EXCEPT ![w] = r] /\ worker'[w] = r
  <2>1. r = [x EXCEPT !.at = Filling(x.todo \ {k}), !.todo = @ \ {k}, !.read = 0,
                      !.session.version[k] = x.read, !.session.stamp[k] = epoch[k]]
    BY <1>1 DEF Request, Session
  <2>2. worker' = [worker EXCEPT ![w] =
          [x EXCEPT !.at = Filling(x.todo \ {k}), !.todo = @ \ {k}, !.read = 0,
                    !.session.version[k] = x.read, !.session.stamp[k] = epoch[k]]]
    BY DEF Stamp
  <2> HIDE DEF r
  <2> QED BY <2>1, <2>2 DEF TruthInv, IInv, TypeOK
<1>3. /\ r.at \notin {"stamp", "serve"} /\ r.todo = x.todo \ {k} /\ r.session = s
      /\ r.since = x.since /\ r.step = x.step
  BY <1>1 DEF Request, Filling
<1>4. /\ k \in x.todo /\ (k = "config" => "rights" \notin x.todo)
      /\ epoch \in [Kinds -> Nat] /\ announced \in [Kinds -> Nat] /\ data \in [Kinds -> Nat]
      /\ x.read = data[k] /\ \A j \in Kinds : announced[j] <= data[j]
  <2>1. k \in x.todo /\ (k = "config" => "rights" \notin x.todo)
    BY <1>1 DEF NextKind, Kinds
  <2> QED BY <1>1, <2>1 DEF TruthWorker, TruthInv, IInv, TypeOK
<1>5. /\ s.stamp[k] = epoch[k] /\ s.version[k] = data[k]
      /\ \A j \in Kinds : j # k => /\ s.stamp[j] = x.session.stamp[j]
                                   /\ s.version[j] = x.session.version[j]
      /\ s \in Session
  BY <1>1, <1>4 DEF Session
<1>6. Sound(s, Kinds \ (x.todo \ {k}))
  <2>1. Sound(x.session, Kinds \ x.todo) /\ ("rights" \in x.todo => "config" \in x.todo)
    BY <1>1 DEF TruthWorker
  <2>2. CASE k = "rights"
    <3>1. "config" \notin Kinds \ (x.todo \ {k})
      BY <1>4, <2>1, <2>2
    <3> HIDE DEF s, k
    <3> QED BY <1>4, <1>5, <2>2, <3>1 DEF Sound, Session, Kinds
  <2>3. CASE k = "config"
    <3>1. "rights" \in Kinds \ x.todo
      BY <1>4, <2>3 DEF Kinds
    <3> HIDE DEF s, k
    <3> QED BY <1>4, <1>5, <2>1, <2>3, <3>1 DEF Sound, Session, Kinds
  <2> QED BY <1>1, <1>4, <2>2, <2>3 DEF Kinds
<1>7. ASSUME x.step = "manage", NEW j \in Kinds \ (x.todo \ {k})
      PROVE  s.version[j] >= x.since[j]
  <2>1. x.since[j] <= announced[j] /\ x.since \in [Kinds -> Nat]
    BY <1>1 DEF TruthWorker, Request
  <2>2. CASE j = k
    <3> HIDE DEF s, k
    <3> QED BY <1>4, <1>5, <2>1, <2>2
  <2>3. CASE j # k
    <3>1. x.session.version[j] >= x.since[j]
      BY <1>1, <1>7, <2>3 DEF TruthWorker, Busy
    <3> HIDE DEF s, k
    <3> QED BY <1>5, <2>3, <3>1
  <2> QED BY <2>2, <2>3
<1>8. TruthWorker(worker'[w])
  <2>1. "rights" \in x.todo \ {k} => "config" \in x.todo \ {k}
    BY <1>4, <1>1 DEF TruthWorker
  <2> HIDE DEF r, s, k
  <2> QED BY <1>1, <1>2, <1>3, <1>6, <1>7, <2>1 DEF TruthWorker
<1> QED
  BY <1>2, <1>8, TruthStep DEF Stamp, TruthInv, IInv, TypeOK, keyVars

LEMMA StoreTruth ==
  ASSUME TruthInv, IInv', NEW w \in Workers, StoreSession(w)
  PROVE  TruthInv'
<1> DEFINE x == worker[w]
<1>1. /\ x \in Request /\ TruthWorker(x) /\ x.at = "store" /\ x.todo = {}
  BY DEF TruthInv, IInv, TypeOK, TodoInv, StoreSession, Filled
<1>2. Sound(x.session, Kinds)
  BY <1>1 DEF TruthWorker
<1>3. \A k \in Keys : Sound(store'[k], Kinds)
  BY <1>2 DEF StoreSession, TruthInv, IInv, TypeOK
<1>4. TruthWorker(worker'[w])
  <2>1. PICK at \in {"serve", "issue", "idle"} :
          /\ worker'[w] = IF at = "idle" THEN Idle ELSE [x EXCEPT !.at = at]
          /\ at = "serve" => x.step = "manage"
    BY DEF StoreSession, TruthInv, IInv, TypeOK
  <2>2. CASE at = "idle"
    BY <2>1, <2>2, BlankSound
  <2>3. CASE at # "idle"
    <3> DEFINE r == [x EXCEPT !.at = at]
    <3>1. /\ r.at = at /\ r.todo = x.todo /\ r.session = x.session
          /\ r.since = x.since /\ r.step = x.step
      BY <1>1 DEF Request
    <3>2. worker'[w] = r
      BY <2>1, <2>3
    <3> HIDE DEF r
    <3> QED BY <1>1, <2>1, <3>1, <3>2 DEF TruthWorker, Busy
  <2> QED BY <2>2, <2>3
<1>5. \A v \in Workers : v # w => worker'[v] = worker[v]
  BY DEF StoreSession, TruthInv, IInv, TypeOK
<1> QED
  BY <1>3, <1>4, <1>5, TruthStep DEF StoreSession

LEMMA ServeTruth ==
  ASSUME TruthInv, IInv', NEW w \in Workers, Serve(w)
  PROVE  TruthInv'
<1>1. Sound(worker[w].session, Kinds)
  <2>1. worker[w].todo = {}
    BY DEF TruthInv, IInv, TodoInv, Serve, Filled
  <2>2. Sound(worker[w].session, Kinds \ worker[w].todo)
    BY DEF TruthInv, TruthWorker
  <2>3. Kinds \ {} = Kinds
    OBVIOUS
  <2> QED BY <2>1, <2>2, <2>3
<1>2. \A k \in Keys : Sound(store'[k], Kinds)
  BY <1>1 DEF Serve, TruthInv, IInv, TypeOK
<1>3. TruthWorker(worker'[w])
  BY BlankSound DEF Serve, TruthInv, IInv, TypeOK
<1> QED
  BY <1>2, <1>3, TruthStep DEF Serve, TruthInv, IInv, TypeOK

(* A session that is to be filled from scratch.                             *)
LEMMA FillTruth ==
  ASSUME TruthInv, IInv', NEW w \in Workers, NEW step \in {"login", "logout", "token"},
         NEW s, NEW dst, Sound(s, {}), FillAs(w, step, s, dst),
         UNCHANGED dataVars, \A k \in Keys : store'[k] \in {store[k], Dead}
  PROVE  TruthInv'
<1> DEFINE x == worker[w]
           r == [x EXCEPT !.at = "resolve", !.todo = Kinds, !.step = step,
                          !.session = s, !.dst = dst]
<1>1. x \in Request /\ TruthWorker(x)
  BY DEF TruthInv, IInv, TypeOK
<1>2. worker' = [worker EXCEPT ![w] = r] /\ worker'[w] = r
  BY DEF FillAs, TruthInv, IInv, TypeOK
<1>3. /\ r.at = "resolve" /\ r.todo = Kinds /\ r.session = s
      /\ r.since = x.since /\ r.step = step
  BY <1>1 DEF Request
<1>4. Kinds \ Kinds = {} /\ "config" \in Kinds
  BY DEF Kinds
<1>5. TruthWorker(worker'[w])
  <2> HIDE DEF r
  <2> QED BY <1>1, <1>2, <1>3, <1>4 DEF TruthWorker
<1>6. \A k \in Keys : Sound(store'[k], Kinds)
  BY BlankSound DEF TruthInv
<1>7. \A v \in Workers : v # w => worker'[v] = worker[v]
  BY <1>2 DEF TruthInv, IInv, TypeOK
<1> QED
  BY <1>5, <1>6, <1>7, TruthStep

LEMMA HandlerTruth ==
  ASSUME TruthInv, IInv', NEW w \in Workers,
         Logout(w) \/ IssueToken(w) \/ \E u \in Users : Login(w, u)
  PROVE  TruthInv'
<1>1. ASSUME NEW u \in Users, Login(w, u) PROVE TruthInv'
  <2>1. \A k \in Keys : store'[k] \in {store[k], Dead}
    BY <1>1 DEF Login, TruthInv, IInv, TypeOK
  <2> QED BY <1>1, <2>1, BlankSound, FillTruth DEF Login
<1>2. ASSUME IssueToken(w) PROVE TruthInv'
  BY <1>2, BlankSound, FillTruth DEF IssueToken
<1>3. ASSUME Logout(w) PROVE TruthInv'
  <2> DEFINE s == [store[Cookie(w)] EXCEPT !.user = Nobody]
  <2>1. Cookie(w) \in Keys
    BY <1>3 DEF Logout, Live, Cookie, TruthInv, IInv, TypeOK, Request
  <2>2. Sound(store[Cookie(w)], Kinds) /\ store[Cookie(w)] \in Session
    BY <2>1 DEF TruthInv, IInv, TypeOK
  <2>3. s.stamp = store[Cookie(w)].stamp
    BY <2>2 DEF Session
  <2>4. Sound(s, {})
    <3> HIDE DEF s
    <3> QED BY <2>2, <2>3 DEF Sound
  <2> QED BY <1>3, <2>4, FillTruth DEF Logout, keyVars
<1> QED
  BY <1>1, <1>2, <1>3

(* Versions and epochs only grow, and no worker is between its resolution   *)
(* and its stamp when they do.                                              *)
LEMMA DataTruth ==
  ASSUME Straddle = FALSE, TruthInv, IInv', NEW k \in Kinds, Change(k) \/ Bump(k)
  PROVE  TruthInv'
<1>1. /\ epoch \in [Kinds -> Nat] /\ announced \in [Kinds -> Nat] /\ data \in [Kinds -> Nat]
      /\ \A j \in Kinds : announced[j] <= data[j]
  BY DEF TruthInv, IInv, TypeOK
<1>2. /\ \A j \in Kinds : announced'[j] \in {announced[j], data[j]}
      /\ \A j \in Kinds : epoch'[j] = epoch[j] => announced'[j] = announced[j]
      /\ \A j \in Kinds : epoch'[j] \in {epoch[j], epoch[j] + 1}
      /\ \A j \in Kinds : data'[j] >= data[j]
      /\ UNCHANGED <<store, worker>>
      /\ \A v \in Workers : worker[v].at # "stamp"
  BY <1>1 DEF Change, Bump, Undisturbed, keyVars
<1>3. ASSUME NEW s \in Session, NEW kinds, Sound(s, kinds)
      PROVE  /\ s.stamp["rights"] <= epoch'["rights"]
             /\ s.stamp["rights"] = epoch'["rights"] /\ "rights" \in kinds =>
                  /\ s.version["rights"] >= announced'["rights"]
                  /\ "config" \in kinds =>
                       /\ s.stamp["config"] <= epoch'["config"]
                       /\ s.stamp["config"] = epoch'["config"] =>
                            s.version["config"] >= announced'["config"]
  BY <1>1, <1>2, <1>3 DEF Sound, Session, Kinds
<1>4. \A j \in Keys : Sound(store[j], Kinds)'
  <2> SUFFICES ASSUME NEW j \in Keys PROVE Sound(store[j], Kinds)'
    OBVIOUS
  <2>1. store[j] \in Session /\ Sound(store[j], Kinds)
    BY DEF TruthInv, IInv, TypeOK
  <2> QED BY <1>2, <1>3, <2>1 DEF Sound
<1>5. \A v \in Workers : TruthWorker(worker[v])'
  <2> SUFFICES ASSUME NEW v \in Workers PROVE TruthWorker(worker[v])'
    OBVIOUS
  <2>1. worker[v] \in Request /\ worker[v].session \in Session /\ TruthWorker(worker[v])
    BY DEF TruthInv, IInv, TypeOK, Request
  <2>2. Sound(worker[v].session, Kinds \ worker[v].todo)'
    BY <1>2, <1>3, <2>1 DEF Sound, TruthWorker
  <2>3. \A j \in Kinds : worker[v].since[j] <= announced'[j]
    BY <1>1, <1>2, <2>1 DEF TruthWorker, Request
  <2> QED BY <1>2, <2>1, <2>2, <2>3 DEF TruthWorker
<1>6. \A j \in Kinds : announced'[j] <= data'[j]
  BY <1>1, <1>2 DEF Change, Bump
<1>7. epoch'["rights"] >= 1
  BY <1>1, <1>2 DEF TruthInv, Kinds
<1> QED
  BY <1>4, <1>5, <1>6, <1>7 DEF TruthInv

LEMMA ExpireTruth ==
  ASSUME TruthInv, IInv', NEW k \in Keys, Expire(k)
  PROVE  TruthInv'
<1>1. \A j \in Keys : Sound(store'[j], Kinds)
  BY BlankSound DEF Expire, TruthInv, IInv, TypeOK
<1>2. UNCHANGED <<data, announced, epoch, worker>>
  BY DEF Expire, dataVars
<1>3. \A v \in Workers : TruthWorker(worker[v])'
  BY <1>2 DEF TruthInv, TruthWorker, Sound
<1>4. \A j \in Keys : Sound(store[j], Kinds)'
  BY <1>1, <1>2 DEF Sound
<1> QED
  BY <1>2, <1>3, <1>4 DEF TruthInv

(* A restart leaves every stored stamp of the rights behind the epoch.      *)
LEMMA RestartTruth ==
  ASSUME TruthInv, IInv', Restart
  PROVE  TruthInv'
<1>1. epoch \in [Kinds -> Nat] /\ data \in [Kinds -> Nat] /\ "rights" \in Kinds
  BY DEF TruthInv, IInv, TypeOK, Kinds
<1>2. epoch'["rights"] = epoch["rights"] + 1 /\ announced' = data /\ data' = data
      /\ store' = store
  BY <1>1 DEF Restart, keyVars
<1>3. \A j \in Keys : Sound(store[j], Kinds)'
  <2> SUFFICES ASSUME NEW j \in Keys PROVE Sound(store[j], Kinds)'
    OBVIOUS
  <2>1. store[j] \in Session /\ store[j].stamp["rights"] <= epoch["rights"]
    BY DEF TruthInv, IInv, TypeOK, Sound
  <2> QED BY <1>1, <1>2, <2>1 DEF Sound, Session
<1>4. ASSUME NEW v \in Workers PROVE TruthWorker(worker[v])'
  <2>1. worker'[v] = Idle
    BY DEF Restart
  <2>2. TruthWorker(Idle)'
    BY <1>1, <1>2 DEF TruthInv, TruthWorker, Idle, Sound, Dead, Unfilled, Busy
  <2> QED BY <2>1, <2>2 DEF TruthWorker, Sound
<1> QED
  BY <1>1, <1>2, <1>3, <1>4 DEF TruthInv

LEMMA StepTruth ==
  ASSUME Straddle = FALSE
  PROVE  TruthInv /\ [Next]_vars => TruthInv'
<1> SUFFICES ASSUME TruthInv, [Next]_vars PROVE TruthInv'
  OBVIOUS
<1>1. IInv'
  BY StepTypes DEF TruthInv
<1>2. CASE Next
  BY <1>1, <1>2, ArriveTruth, ManageTruth, ResolveTruth, StampTruth, StoreTruth, ServeTruth,
     HandlerTruth, DataTruth, ExpireTruth, RestartTruth DEF Next
<1>3. CASE UNCHANGED vars
  BY <1>1, <1>3 DEF vars, dataVars, keyVars, TruthInv, Sound, TruthWorker
<1> QED
  BY <1>2, <1>3

LEMMA AlwaysTruth == ASSUME Straddle = FALSE PROVE Spec => []TruthInv
<1>1. TruthInv /\ [Next]_vars => TruthInv'
  BY StepTruth
<1> QED
  BY InitTruth, <1>1, PTL DEF Spec

(* A session stamped with the current epoch holds what was last announced.  *)
THEOREM StampsAreTruthful == ASSUME Straddle = FALSE PROVE Spec => []StampsTruthful
<1>1. TruthInv => StampsTruthful
  BY DEF TruthInv, StampsTruthful, Sound, Truthful, TruthWorker
<1> QED
  BY <1>1, AlwaysTruth, PTL

(* A request that comes after a change was announced is served with it.     *)
THEOREM ServesTheAnnounced == ASSUME Straddle = FALSE PROVE Spec => []ServedFresh
<1>1. TruthInv => ServedFresh
  <2> SUFFICES ASSUME TruthInv, NEW w \in Workers, worker[w].at = "serve", NEW k \in Kinds
               PROVE  worker[w].session.version[k] >= worker[w].since[k]
    BY DEF ServedFresh
  <2>1. worker[w].todo = {} /\ TruthWorker(worker[w])
    BY DEF TruthInv, IInv, TodoInv, Filled
  <2> QED BY <2>1 DEF TruthWorker, Busy
<1> QED
  BY <1>1, AlwaysTruth, PTL
-----------------------------------------------------------------------------
(* While the requests of one key take turns, a request that has read a      *)
(* user's session will write him back under the key he is still at; a login *)
(* and a token store under a key nobody has yet; a logout stores nobody.    *)
Comes(x, S, G) ==
  /\ x.at = "manage" => x.step = "manage"
  /\ x.at \in Busy /\ x.step = "manage" /\ x.session.user # Nobody =>
       x.dst = x.key /\ x.key # NoKey /\ S[x.key].user = x.session.user
  /\ x.at \in {"resolve", "stamp", "store"} /\ x.step \in {"login", "token"} => x.dst \notin G /\ x.dst # NoKey
  /\ x.step = "logout" => x.session.user = Nobody

TurnsInv == OwnInv /\ KeysTakeTurns /\ \A w \in Workers : Comes(worker[w], store, given)

LEMMA OthersCome ==
  ASSUME TurnsInv, NEW w \in Workers, worker[w].at # "idle", NEW S, NEW G,
         \A k \in Keys : k \notin KeysOf(worker[w]) => S[k] = store[k],
         G \subseteq given \cup KeysOf(worker[w]),
         NEW v \in Workers, v # w
  PROVE  Comes(worker[v], S, G)
<1>1. worker[v] \in Request
  BY DEF TurnsInv, OwnInv, IInv, TypeOK
<1>2. CASE worker[v].at = "idle"
  BY <1>2 DEF TurnsInv, Comes, Busy
<1>3. CASE worker[v].at # "idle"
  <2>1. KeysOf(worker[w]) \cap KeysOf(worker[v]) = {}
    BY <1>3 DEF TurnsInv, KeysTakeTurns
  <2>2. /\ worker[v].key # NoKey => worker[v].key \in Keys /\ worker[v].key \notin KeysOf(worker[w])
        /\ worker[v].dst # NoKey => worker[v].dst \notin KeysOf(worker[w])
    BY <1>1, <2>1 DEF KeysOf, Request
  <2>3. Comes(worker[v], store, given)
    BY DEF TurnsInv
  <2>4. worker[v].dst # NoKey /\ worker[v].dst \notin given => worker[v].dst \notin G
    BY <2>2
  <2> QED BY <2>2, <2>3, <2>4 DEF Comes
<1> QED BY <1>2, <1>3

(* A step of one request.                                                   *)
LEMMA OneComes ==
  ASSUME TurnsInv, NEW w \in Workers, worker[w].at # "idle",
         \A k \in Keys : k \notin KeysOf(worker[w]) => store'[k] = store[k],
         given' \subseteq given \cup KeysOf(worker[w]),
         \A v \in Workers : v # w => worker'[v] = worker[v],
         Comes(worker'[w], store', given')
  PROVE  \A v \in Workers : Comes(worker[v], store, given)'
<1>1. PICK S : S = store'
  OBVIOUS
<1>2. PICK G : G = given'
  OBVIOUS
<1>3. \A v \in Workers : Comes(worker'[v], S, G)
  BY <1>1, <1>2, OthersCome
<1> QED BY <1>1, <1>2, <1>3 DEF Comes

LEMMA ArriveComes ==
  ASSUME TurnsInv, NEW w \in Workers, Arrive(w)
  PROVE  \A v \in Workers : Comes(worker[v], store, given)'
<1>1. /\ worker'[w].at = "manage" /\ worker'[w].step = "manage"
      /\ \A v \in Workers : v # w => worker'[v] = worker[v]
  BY DEF Arrive, Idle, TurnsInv, OwnInv, IInv, TypeOK
<1>2. UNCHANGED <<store, given>>
  BY DEF Arrive, keyVars
<1>3. \A v \in Workers : Comes(worker'[v], store, given)
  BY <1>1 DEF TurnsInv, Comes, Busy
<1> QED BY <1>2, <1>3 DEF Comes

LEMMA ManageComes ==
  ASSUME TurnsInv, NEW w \in Workers, ManageSession(w)
  PROVE  \A v \in Workers : Comes(worker[v], store, given)'
<1>1. PICK x \in Request : x = worker[w]
  BY DEF TurnsInv, OwnInv, IInv, TypeOK
<1>2. x.at = "manage" /\ x.step = "manage" /\ UNCHANGED <<store, given>>
  BY <1>1 DEF ManageSession, TurnsInv, Comes
<1>3. \A v \in Workers : v # w => worker'[v] = worker[v]
  BY DEF ManageSession, TurnsInv, OwnInv, IInv, TypeOK
<1>4. CASE Live(x.key)
  <2> DEFINE todo == Stale(store[x.key])
             y == [x EXCEPT !.at = Filling(todo), !.todo = todo,
                            !.session = store[x.key], !.dst = x.key]
  <2>1. worker' = [worker EXCEPT ![w] = y]
    BY <1>1, <1>4 DEF ManageSession
  <2>2. /\ y.key = x.key /\ y.dst = x.key /\ y.session = store[x.key] /\ y.at \in {"resolve", "store"}
        /\ y.step = x.step
    BY DEF Request, Filling
  <2>3. worker'[w] = y
    BY <2>1 DEF TurnsInv, OwnInv, IInv, TypeOK
  <2> HIDE DEF y
  <2>4. Comes(y, store, given)
    BY <1>2, <1>4, <2>2 DEF Comes, Live
  <2> QED BY <1>1, <1>2, <1>3, <2>3, <2>4, OneComes
<1>5. CASE ~Live(x.key)
  <2> DEFINE y == [x EXCEPT !.at = Filling(Kinds), !.todo = Kinds, !.session = Fresh(Nobody),
                            !.dst = IF x.by = "token" THEN NoKey ELSE minted + 1]
  <2>1. worker' = [worker EXCEPT ![w] = y]
    BY <1>1, <1>5 DEF ManageSession
  <2>2. y.session.user = Nobody /\ y.at \in {"resolve", "store"} /\ y.step = x.step
    BY DEF Request, Filling, Fresh
  <2>3. worker'[w] = y
    BY <2>1 DEF TurnsInv, OwnInv, IInv, TypeOK
  <2> HIDE DEF y
  <2>4. Comes(y, store, given)
    BY <1>2, <2>2 DEF Comes
  <2> QED BY <1>1, <1>2, <1>3, <2>3, <2>4, OneComes
<1> QED BY <1>4, <1>5

LEMMA FillingComes ==
  ASSUME TurnsInv, NEW w \in Workers, Resolve(w) \/ Stamp(w)
  PROVE  \A v \in Workers : Comes(worker[v], store, given)'
<1>1. PICK x \in Request : x = worker[w]
  BY DEF TurnsInv, OwnInv, IInv, TypeOK
<1>2. x.at \in {"resolve", "stamp"} /\ UNCHANGED <<store, given>>
  BY <1>1 DEF Resolve, Stamp, keyVars
<1>3. \A v \in Workers : v # w => worker'[v] = worker[v]
  BY DEF Resolve, Stamp, TurnsInv, OwnInv, IInv, TypeOK
<1>4. PICK y : y = worker'[w]
  OBVIOUS
<1>5. /\ y.key = x.key /\ y.dst = x.dst /\ y.step = x.step /\ y.at \in {"resolve", "stamp", "store"}
      /\ y.session.user = x.session.user
  <2>1. CASE Resolve(w)
    BY <1>1, <1>4, <2>1 DEF Resolve, Request, TurnsInv, OwnInv, IInv, TypeOK
  <2>2. CASE Stamp(w)
    <3> DEFINE k == NextKind(x.todo)
               s == [x.session EXCEPT !.version[k] = x.read, !.stamp[k] = epoch[k]]
               r == [x EXCEPT !.at = Filling(x.todo \ {k}), !.todo = x.todo \ {k},
                              !.read = 0, !.session = s]
    <3>1. y = r
      BY <1>1, <1>4, <2>2 DEF Stamp, Request, Session, TurnsInv, OwnInv, IInv, TypeOK
    <3>2. Filling(x.todo \ {k}) \in {"store", "resolve"} /\ x.session \in Session
      BY <1>1 DEF Filling, Request
    <3>3. s.user = x.session.user
      BY <3>2 DEF Session
    <3> HIDE DEF k, s
    <3> QED BY <1>1, <3>1, <3>2, <3>3 DEF Request
  <2> QED BY <2>1, <2>2
<1>6. Comes(y, store, given)
  BY <1>1, <1>2, <1>5 DEF TurnsInv, Comes, Busy
<1> QED BY <1>1, <1>2, <1>3, <1>4, <1>6, OneComes

LEMMA StoreComes ==
  ASSUME TurnsInv, NEW w \in Workers, StoreSession(w)
  PROVE  \A v \in Workers : Comes(worker[v], store, given)'
<1>1. PICK x \in Request : x = worker[w]
  BY DEF TurnsInv, OwnInv, IInv, TypeOK
<1>2. x.at = "store"
  BY <1>1 DEF StoreSession
<1>3. \A v \in Workers : v # w => worker'[v] = worker[v]
  BY DEF StoreSession, TurnsInv, OwnInv, IInv, TypeOK
<1>4. \A k \in Keys : k \notin KeysOf(x) => store'[k] = store[k]
  BY <1>1 DEF StoreSession, KeysOf, TurnsInv, OwnInv, IInv, TypeOK
<1>5. given' \subseteq given \cup KeysOf(x)
  BY <1>1 DEF StoreSession, KeysOf
<1>6. PICK at \in {"serve", "issue", "idle"} :
        /\ worker'[w] = IF at = "idle" THEN Idle ELSE [x EXCEPT !.at = at]
        /\ at = "serve" => x.step = "manage"
        /\ at = "issue" => x.step = "login"
  BY <1>1 DEF StoreSession, TurnsInv, OwnInv, IInv, TypeOK
<1>7. CASE at = "idle"
  <2>1. worker'[w] = Idle
    BY <1>6, <1>7
  <2>2. Comes(Idle, store', given')
    BY DEF Comes, Idle, Busy
  <2> QED BY <1>1, <1>2, <1>3, <1>4, <1>5, <2>1, <2>2, OneComes
<1>8. CASE at # "idle"
  <2>1. PICK y : y = [x EXCEPT !.at = at]
    OBVIOUS
  <2>2. y.at = at /\ y.key = x.key /\ y.dst = x.dst /\ y.step = x.step /\ y.session = x.session
    BY <2>1 DEF Request
  <2>3. Comes(x, store, given)
    BY <1>1 DEF TurnsInv
  <2>4. x.dst # NoKey => x.dst \in Keys /\ store'[x.dst] = x.session
    BY <1>1 DEF StoreSession, Request, TurnsInv, OwnInv, IInv, TypeOK
  <2>5. Comes(y, store', given')
    BY <1>2, <1>6, <1>8, <2>2, <2>3, <2>4 DEF Comes, Busy
  <2> QED BY <1>1, <1>2, <1>3, <1>4, <1>5, <1>6, <1>8, <2>1, <2>5, OneComes
<1> QED BY <1>7, <1>8

LEMMA ServeComes ==
  ASSUME TurnsInv, NEW w \in Workers, Serve(w)
  PROVE  \A v \in Workers : Comes(worker[v], store, given)'
<1>1. /\ worker[w].at = "serve" /\ worker'[w] = Idle /\ given' = given
      /\ \A v \in Workers : v # w => worker'[v] = worker[v]
  BY DEF Serve, TurnsInv, OwnInv, IInv, TypeOK
<1>2. \A k \in Keys : k \notin KeysOf(worker[w]) => store'[k] = store[k]
  BY DEF Serve, Cookie, KeysOf, TurnsInv, OwnInv, IInv, TypeOK
<1>3. Comes(Idle, store', given')
  BY DEF Comes, Idle, Busy
<1> QED BY <1>1, <1>2, <1>3, OneComes

(* A request that goes on to store another session.                         *)
LEMMA FillComes ==
  ASSUME TurnsInv, NEW w \in Workers, worker[w].at # "idle", NEW step \in {"login", "token", "logout"},
         NEW s, NEW dst, FillAs(w, step, s, dst),
         step = "logout" => s.user = Nobody,
         step # "logout" => dst \notin given /\ dst # NoKey,
         given' = given, \A k \in Keys : k \notin KeysOf(worker[w]) => store'[k] = store[k]
  PROVE  \A v \in Workers : Comes(worker[v], store, given)'
<1>1. PICK x \in Request : x = worker[w]
  BY DEF TurnsInv, OwnInv, IInv, TypeOK
<1>2. PICK y : y = [x EXCEPT !.at = "resolve", !.todo = Kinds, !.step = step, !.session = s, !.dst = dst]
  OBVIOUS
<1>3. y.at = "resolve" /\ y.step = step /\ y.session = s /\ y.dst = dst
  BY <1>2 DEF Request
<1>4. worker'[w] = y /\ \A v \in Workers : v # w => worker'[v] = worker[v]
  BY <1>1, <1>2 DEF FillAs, TurnsInv, OwnInv, IInv, TypeOK
<1>5. Comes(y, store', given')
  BY <1>3 DEF Comes
<1> QED BY <1>4, <1>5, OneComes

LEMMA HandlerComes ==
  ASSUME TurnsInv, NEW w \in Workers, Logout(w) \/ IssueToken(w) \/ \E u \in Users : Login(w, u)
  PROVE  \A v \in Workers : Comes(worker[v], store, given)'
<1>1. minted \in Nat /\ minted + 1 \notin given /\ minted + 1 # NoKey
  BY DEF TurnsInv, OwnInv, IInv, TypeOK
<1>2. CASE Logout(w)
  <2>1. PICK s : s = [store[Cookie(w)] EXCEPT !.user = Nobody]
    OBVIOUS
  <2>2. s.user = Nobody
    <3>1. Cookie(w) \in Keys
      BY <1>2 DEF Logout, Live, Cookie, Request, TurnsInv, OwnInv, IInv, TypeOK
    <3> QED BY <2>1, <3>1 DEF TurnsInv, OwnInv, IInv, TypeOK, Session
  <2> QED BY <1>2, <2>1, <2>2, FillComes DEF Logout, keyVars
<1>3. CASE IssueToken(w)
  BY <1>1, <1>3, FillComes DEF IssueToken
<1>4. ASSUME NEW u \in Users, Login(w, u) PROVE \A v \in Workers : Comes(worker[v], store, given)'
  <2>1. \A k \in Keys : k \notin KeysOf(worker[w]) => store'[k] = store[k]
    BY <1>4 DEF Login, Cookie, KeysOf, TurnsInv, OwnInv, IInv, TypeOK
  <2> QED BY <1>1, <1>4, <2>1, FillComes DEF Login
<1> QED BY <1>2, <1>3, <1>4

LEMMA AroundComes ==
  ASSUME TurnsInv, \/ \E k \in Kinds : Change(k) \/ Bump(k)
                   \/ \E k \in Keys : Expire(k)
                   \/ Restart
  PROVE  \A v \in Workers : Comes(worker[v], store, given)'
<1>1. ASSUME NEW k \in Kinds, Change(k) \/ Bump(k) PROVE \A v \in Workers : Comes(worker[v], store, given)'
  BY <1>1 DEF Change, Bump, keyVars, TurnsInv, Comes
<1>2. ASSUME NEW k \in Keys, Expire(k) PROVE \A v \in Workers : Comes(worker[v], store, given)'
  <2>1. \A i \in Keys : i # k => store'[i] = store[i]
    BY <1>2 DEF Expire, TurnsInv, OwnInv, IInv, TypeOK
  <2>2. UNCHANGED <<given, worker>>
    BY <1>2 DEF Expire
  <2>3. ASSUME NEW v \in Workers PROVE Comes(worker[v], store', given)
    <3>1. worker[v] \in Request /\ Comes(worker[v], store, given)
      BY DEF TurnsInv, OwnInv, IInv, TypeOK
    <3>2. worker[v].at # "idle" => k # worker[v].key
      BY <1>2 DEF Expire
    <3> QED BY <2>1, <3>1, <3>2 DEF Comes, Busy, Request
  <2> QED BY <2>2, <2>3 DEF Comes
<1>3. ASSUME Restart PROVE \A v \in Workers : Comes(worker[v], store, given)'
  BY <1>3 DEF Restart, Comes, Idle, Busy
<1> QED BY <1>1, <1>2, <1>3

LEMMA ComesStep ==
  ASSUME TurnsInv, Next
  PROVE  \A v \in Workers : Comes(worker[v], store, given)'
BY ArriveComes, ManageComes, FillingComes, StoreComes, ServeComes, HandlerComes, AroundComes DEF Next

(* Whoever writes a user writes him where he is.                            *)
LEMMA NobodyReturns ==
  ASSUME TurnsInv, Next, NEW k \in Keys, Left(k)
  PROVE  store'[k].user = Nobody
<1>0. store \in [Keys -> Session] /\ k \in given /\ store[k].user = Nobody
  BY DEF TurnsInv, OwnInv, IInv, TypeOK, Left
<1>1. CASE store' = store
  BY <1>0, <1>1
<1>2. ASSUME NEW w \in Workers, StoreSession(w) PROVE store'[k].user = Nobody
  <2>1. PICK x \in Request : x = worker[w]
    BY DEF TurnsInv, OwnInv, IInv, TypeOK
  <2>2. CASE x.dst # k
    BY <1>0, <1>2, <2>1, <2>2 DEF StoreSession
  <2>3. CASE x.dst = k
    <3>1. store'[k] = x.session /\ x.at = "store"
      BY <1>0, <1>2, <2>1, <2>3 DEF StoreSession
    <3>2. Comes(x, store, given)
      BY <2>1 DEF TurnsInv
    <3> QED BY <1>0, <2>3, <3>1, <3>2 DEF Comes, Busy, Request
  <2> QED BY <2>2, <2>3
<1>3. ASSUME NEW w \in Workers, Serve(w) PROVE store'[k].user = Nobody
  <2>1. PICK x \in Request : x = worker[w]
    BY DEF TurnsInv, OwnInv, IInv, TypeOK
  <2>2. CASE Cookie(w) = k /\ store' # store
    <3>1. store'[k] = x.session /\ x.at = "serve" /\ x.key = k
      BY <1>0, <1>3, <2>1, <2>2 DEF Serve, Cookie
    <3>2. Comes(x, store, given) /\ OwnWorker(x)
      BY <2>1 DEF TurnsInv, OwnInv
    <3> QED BY <1>0, <3>1, <3>2 DEF Comes, Busy, OwnWorker
  <2>3. CASE ~(Cookie(w) = k /\ store' # store)
    BY <1>0, <1>3, <2>3 DEF Serve
  <2> QED BY <2>2, <2>3
<1>4. ASSUME NEW w \in Workers, NEW u \in Users, Login(w, u) PROVE store'[k].user = Nobody
  BY <1>0, <1>4 DEF Login, Dead
<1>5. ASSUME NEW i \in Keys, Expire(i) PROVE store'[k].user = Nobody
  BY <1>0, <1>5 DEF Expire, Dead
<1> QED
  BY <1>1, <1>2, <1>3, <1>4, <1>5
     DEF Next, Arrive, ManageSession, Resolve, Stamp, Logout, IssueToken, Change, Bump, Restart, keyVars

(* When the requests of each key take turns, a user who left a key never    *)
(* comes back under it, for any users, requests and keys.                   *)
THEOREM WhoLeavesStaysAway == MCSpec => CalmLeftForGood
<1> DEFINE Inv == calm => TurnsInv
<1>1. MCInit => Inv
  <2> SUFFICES ASSUME MCInit, calm PROVE TurnsInv
    OBVIOUS
  <2>1. Init
    BY DEF MCInit
  <2>2. OwnInv
    BY <2>1, InitOwn
  <2>3. \A w \in Workers : worker[w] = Idle
    BY <2>1 DEF Init
  <2> QED BY <2>2, <2>3 DEF TurnsInv, KeysTakeTurns, Comes, Idle, Busy
<1>2. Inv /\ [MCNext]_<<vars, calm>> => Inv'
  <2> SUFFICES ASSUME Inv, [MCNext]_<<vars, calm>>, calm' PROVE TurnsInv'
    OBVIOUS
  <2>1. calm /\ TurnsInv
    BY DEF MCNext
  <2>2. [Next]_vars /\ (MCNext \/ UNCHANGED vars)
    BY DEF MCNext
  <2>3. OwnInv'
    BY <2>1, <2>2, StepOwn DEF TurnsInv
  <2>4. CASE MCNext
    <3>1. Next /\ KeysTakeTurns'
      BY <2>1, <2>4 DEF MCNext
    <3> QED BY <2>1, <2>3, <3>1, ComesStep DEF TurnsInv
  <2>5. CASE UNCHANGED vars
    <3>1. UNCHANGED <<worker, store, given>>
      BY <2>5 DEF vars, keyVars
    <3> QED BY <2>1, <2>3, <3>1 DEF TurnsInv, KeysTakeTurns, Comes
  <2> QED BY <2>2, <2>4, <2>5
<1>3. Inv /\ [MCNext]_<<vars, calm>> =>
        [calm => \A k \in Keys : Left(k) => store'[k].user = Nobody]_<<vars, calm>>
  BY NobodyReturns DEF MCNext
<1> QED
  BY <1>1, <1>2, <1>3, PTL DEF MCSpec, CalmLeftForGood
=============================================================================
