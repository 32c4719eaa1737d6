------------------------------- MODULE Sessions -------------------------------
(***************************************************************************)
(* Sessions and the rights cached in them, auth/sessions.go, with the      *)
(* epochs that tell a stale copy (config/config.go) and the handlers that  *)
(* log in, log out, issue tokens and store a fieldset's hash.              *)
(*                                                                         *)
(* A session is stored in Redis under a random key, which a client sends   *)
(* as its cookie or as a bearer token.  Rights and configuration are       *)
(* resolved from the database into the session and stamped with the        *)
(* current epoch; whoever changes them bumps the epoch after its write.    *)
(* A request reads its session once, refreshes what is stale, and writes   *)
(* the whole session back: nothing joins these steps.                      *)
(*                                                                         *)
(* What the database holds of a kind is a version number.  The             *)
(* configuration takes several queries; its version is that of the first.  *)
(***************************************************************************)
EXTENDS Naturals, FiniteSets

CONSTANTS
  Users,        \* user ids, all positive
  Workers,      \* goroutines serving requests
  Straddle,     \* may a change or a bump fall between resolving and stamping
  MaxKeys,      \* bound: session keys minted
  MaxRequests,  \* bound: requests
  MaxChanges,   \* bound: changes of the rights and of the configuration together
  MaxRestarts   \* bound: restarts of the server

ASSUME SessionsAssumption ==
  /\ Users \subseteq Nat \ {0}
  /\ Straddle \in BOOLEAN
  /\ MaxKeys \in Nat /\ MaxRequests \in Nat /\ MaxChanges \in Nat /\ MaxRestarts \in Nat

VARIABLES
  data,       \* per kind, the version the database holds
  owed,       \* per kind, writers that have yet to bump its epoch
  announced,  \* per kind, the latest version whose bump (or a restart) was seen
  epoch,      \* rightsEpoch and configEpoch
  store,      \* the session stored under each key
  owner,      \* the user each key was minted for
  minted,     \* keys 1..minted have been made
  given,      \* keys under which a session was stored, and which a client has
  worker,     \* per goroutine, its request
  requests,   \* requests so far
  restarts    \* restarts so far

dataVars == <<data, owed, announced, epoch>>
keyVars == <<store, owner, minted, given>>
vars == <<dataVars, keyVars, worker, requests, restarts>>

Kinds == {"rights", "config"}
Nobody == 0   \* UserID of an anonymous session
NoKey == 0
Keys == 1..MaxKeys

(* A kind's version and epoch in a session; version 0 was never resolved.   *)
Session == [user: Users \cup {Nobody}, live: BOOLEAN,
            version: [Kinds -> Nat], stamp: [Kinds -> Nat]]
Unfilled == [k \in Kinds |-> 0]
Fresh(u) == [user |-> u, live |-> TRUE, version |-> Unfilled, stamp |-> Unfilled]

(* No session, an expired one, and the one RevokeToken overwrites with: no  *)
(* request is served from them.                                             *)
Dead == [user |-> Nobody, live |-> FALSE, version |-> Unfilled, stamp |-> Unfilled]

(* todo: the kinds fillSessionRights and fillSessionConfig have yet to do;  *)
(* dst: the key the session will be stored under; since: what had been      *)
(* announced when the request came.                                         *)
Idle == [at |-> "idle", by |-> "cookie", key |-> NoKey, dst |-> NoKey,
         session |-> Dead, todo |-> {}, read |-> 0, step |-> "manage", since |-> Unfilled]

Live(k) == k # NoKey /\ store[k].live
Cookie(w) == IF worker[w].by = "cookie" THEN worker[w].key ELSE NoKey

Init ==
  /\ data = [k \in Kinds |-> 1]
  /\ owed = [k \in Kinds |-> 0]
  /\ announced = data
  /\ epoch = [k \in Kinds |-> IF k = "rights" THEN 1 ELSE 0]
  /\ store = [k \in Keys |-> Dead]
  /\ owner = [k \in Keys |-> Nobody]
  /\ minted = 0
  /\ given = {}
  /\ worker = [w \in Workers |-> Idle]
  /\ requests = 0
  /\ restarts = 0

-----------------------------------------------------------------------------
(* Steps of a request.                                                     *)

(* A client sends one credential, a cookie or a token it was given, or none.*)
Arrive(w) ==
  /\ worker[w].at = "idle"
  /\ requests < MaxRequests
  /\ requests' = requests + 1
  /\ \E by \in {"cookie", "token"}, key \in given \cup {NoKey} :
       /\ by = "token" => key # NoKey
       /\ worker' = [worker EXCEPT ![w] =
            [Idle EXCEPT !.at = "manage", !.by = by, !.key = key, !.since = announced]]
  /\ UNCHANGED <<dataVars, keyVars, restarts>>

\* Mutant: only the stamp of the rights is compared.
ConfigNeverStale(s) == IF s.stamp["rights"] # epoch["rights"] THEN Kinds ELSE {}

(* What is stale in a session: with the rights the configuration is        *)
(* resolved, too.                                                          *)
Stale(s) ==
  IF s.stamp["rights"] # epoch["rights"] THEN Kinds
  ELSE {k \in {"config"} : s.stamp[k] # epoch[k]}

Mint(u) ==
  /\ minted < MaxKeys
  /\ minted' = minted + 1
  /\ owner' = [owner EXCEPT ![minted + 1] = u]

(* Fill what is in todo, then store the session.                            *)
Filling(todo) == IF todo = {} THEN "store" ELSE "resolve"

(* ManageSession and manageTokenSession: the session of a key that is       *)
(* alive, or a new anonymous one, which a token request does not store.     *)
ManageSession(w) ==
  LET x == worker[w]
      todo == IF Live(x.key) THEN Stale(store[x.key]) ELSE Kinds
  IN  /\ x.at = "manage"
      /\ IF Live(x.key)
           THEN /\ worker' = [worker EXCEPT ![w] =
                     [x EXCEPT !.at = Filling(todo), !.todo = todo,
                               !.session = store[x.key], !.dst = x.key]]
                /\ UNCHANGED <<minted, owner>>
           ELSE /\ worker' = [worker EXCEPT ![w] =
                     [x EXCEPT !.at = Filling(todo), !.todo = todo,
                               !.session = Fresh(Nobody),
                               !.dst = IF x.by = "token" THEN NoKey ELSE minted + 1]]
                /\ IF x.by = "token" THEN UNCHANGED <<minted, owner>> ELSE Mint(Nobody)
      /\ UNCHANGED <<dataVars, store, given, requests, restarts>>

(* fillSessionRights resolves the rights first.                             *)
NextKind(todo) == IF "rights" \in todo THEN "rights" ELSE "config"

Resolve(w) ==
  /\ worker[w].at = "resolve"
  /\ worker' = [worker EXCEPT ![w].at = "stamp",
                              ![w].read = data[NextKind(worker[w].todo)]]
  /\ UNCHANGED <<dataVars, keyVars, requests, restarts>>

Stamp(w) ==
  LET x == worker[w]
      k == NextKind(x.todo)
  IN  /\ x.at = "stamp"
      /\ worker' = [worker EXCEPT ![w] =
           [x EXCEPT !.at = Filling(x.todo \ {k}), !.todo = @ \ {k}, !.read = 0,
                     !.session.version[k] = x.read, !.session.stamp[k] = epoch[k]]]
      /\ UNCHANGED <<dataVars, keyVars, requests, restarts>>

(* Write the whole session, then go on: serve the request, or end it.       *)
StoreSession(w) ==
  LET x == worker[w]
  IN  /\ x.at = "store"
      /\ store' = IF x.dst = NoKey THEN store ELSE [store EXCEPT ![x.dst] = x.session]
      /\ given' = given \cup ({x.dst} \ {NoKey})
      /\ \/ /\ x.step = "manage"
            /\ worker' = [worker EXCEPT ![w].at = "serve"]
         \/ /\ x.step = "login"   \* a mobile client is issued a token as well
            /\ worker' = [worker EXCEPT ![w].at = "issue"]
         \/ /\ x.step # "manage"
            /\ worker' = [worker EXCEPT ![w] = Idle]
      /\ UNCHANGED <<dataVars, owner, minted, requests, restarts>>

-----------------------------------------------------------------------------
(* What the handler does with the session.                                  *)

(* Most handlers leave the session alone; so does a logout without a live   *)
(* session.  GetFieldset stores the request's session again, under its      *)
(* cookie, when the fieldset's hash has changed.                            *)
Serve(w) ==
  /\ worker[w].at = "serve"
  /\ \/ UNCHANGED store
     \/ Cookie(w) # NoKey /\ store' = [store EXCEPT ![Cookie(w)] = worker[w].session]
  /\ worker' = [worker EXCEPT ![w] = Idle]
  /\ UNCHANGED <<dataVars, owner, minted, given, requests, restarts>>

(* The rest of a request's life is to fill a session s and store it.        *)
FillAs(w, step, s, dst) ==
  worker' = [worker EXCEPT ![w] =
    [worker[w] EXCEPT !.at = "resolve", !.todo = Kinds, !.step = step,
                      !.session = s, !.dst = dst]]

\* Mutant: the session the client came with is promoted in place.
LoginInPlace(w, u) ==
  /\ worker[w].at = "serve"
  /\ Cookie(w) # NoKey
  /\ FillAs(w, "login", Fresh(u), Cookie(w))
  /\ UNCHANGED <<dataVars, keyVars, requests, restarts>>

(* Login: a session under a new key; the old key is overwritten first.      *)
Login(w, u) ==
  /\ worker[w].at = "serve"
  /\ Mint(u)
  /\ store' = IF Cookie(w) = NoKey THEN store ELSE [store EXCEPT ![Cookie(w)] = Dead]
  /\ FillAs(w, "login", Fresh(u), minted + 1)
  /\ UNCHANGED <<dataVars, given, requests, restarts>>

(* Logout: read the session again, drop its user, resolve, write back.      *)
Logout(w) ==
  /\ worker[w].at = "serve"
  /\ Live(Cookie(w))
  /\ FillAs(w, "logout", [store[Cookie(w)] EXCEPT !.user = Nobody], Cookie(w))
  /\ UNCHANGED <<dataVars, keyVars, requests, restarts>>

\* Mutant: the token is the key the client came with.
IssueTokenReusesKey(w) ==
  LET u == worker[w].session.user
  IN  /\ worker[w].at = "issue"
      /\ FillAs(w, "token", Fresh(u), Cookie(w))
      /\ UNCHANGED <<dataVars, keyVars, requests, restarts>>

(* IssueToken, after a login or for a user who asks for a token.            *)
IssueToken(w) ==
  LET u == worker[w].session.user
  IN  /\ \/ worker[w].at = "issue"
         \/ worker[w].at = "serve" /\ u # Nobody
      /\ Mint(u)
      /\ FillAs(w, "token", Fresh(u), minted + 1)
      /\ UNCHANGED <<dataVars, store, given, requests, restarts>>

-----------------------------------------------------------------------------
(* Around the requests.                                                     *)

(* A writer changes the database and bumps the epoch after it               *)
(* (notifyRightsChange, the console, saveUserConfigValue).                  *)
Undisturbed == Straddle \/ \A w \in Workers : worker[w].at # "stamp"

Change(k) ==
  /\ Undisturbed
  /\ data["rights"] + data["config"] < 2 + MaxChanges
  /\ data' = [data EXCEPT ![k] = @ + 1]
  /\ owed' = [owed EXCEPT ![k] = @ + 1]
  /\ UNCHANGED <<announced, epoch, keyVars, worker, requests, restarts>>

(* A bump by hand, from the console, is one after a change to the same.     *)
Bump(k) ==
  /\ Undisturbed
  /\ owed[k] > 0
  /\ owed' = [owed EXCEPT ![k] = @ - 1]
  /\ epoch' = [epoch EXCEPT ![k] = @ + 1]
  /\ announced' = [announced EXCEPT ![k] = data[k]]
  /\ UNCHANGED <<data, keyVars, worker, requests, restarts>>

(* Thirty days pass for a session no request holds.                         *)
Expire(k) ==
  /\ Live(k)
  /\ \A w \in Workers : worker[w].at # "idle" => k \notin {worker[w].key, worker[w].dst}
  /\ store' = [store EXCEPT ![k] = Dead]
  /\ UNCHANGED <<dataVars, owner, minted, given, worker, requests, restarts>>

\* Mutant: both epochs start over, as configEpoch does.
RestartFromZero ==
  /\ restarts < MaxRestarts
  /\ restarts' = restarts + 1
  /\ worker' = [w \in Workers |-> Idle]
  /\ owed' = [k \in Kinds |-> 0]
  /\ announced' = data
  /\ epoch' = [k \in Kinds |-> IF k = "rights" THEN 1 ELSE 0]
  /\ UNCHANGED <<data, keyVars, requests>>

(* The process restarts and Redis keeps the sessions.  rightsEpoch starts   *)
(* from the time, later than any epoch it reached; configEpoch from zero.   *)
Restart ==
  /\ restarts < MaxRestarts
  /\ restarts' = restarts + 1
  /\ worker' = [w \in Workers |-> Idle]
  /\ owed' = [k \in Kinds |-> 0]
  /\ announced' = data
  /\ epoch' = [k \in Kinds |-> IF k = "rights" THEN epoch[k] + 1 ELSE 0]
  /\ UNCHANGED <<data, keyVars, requests>>

Next ==
  \/ \E w \in Workers :
       \/ Arrive(w) \/ ManageSession(w) \/ Resolve(w) \/ Stamp(w) \/ StoreSession(w)
       \/ Serve(w) \/ Logout(w) \/ IssueToken(w)
       \/ \E u \in Users : Login(w, u)
  \/ \E k \in Kinds : Change(k) \/ Bump(k)
  \/ \E k \in Keys : Expire(k)
  \/ Restart

Spec == Init /\ [][Next]_vars

-----------------------------------------------------------------------------
(* Properties.                                                             *)

Request == [at: {"idle", "manage", "resolve", "stamp", "store", "serve", "issue"},
            by: {"cookie", "token"}, key: 0..MaxKeys, dst: 0..MaxKeys,
            session: Session, todo: SUBSET Kinds, read: Nat,
            step: {"manage", "login", "logout", "token"}, since: [Kinds -> Nat]]

TypeOK ==
  /\ data \in [Kinds -> Nat] /\ owed \in [Kinds -> Nat]
  /\ announced \in [Kinds -> Nat] /\ epoch \in [Kinds -> Nat]
  /\ store \in [Keys -> Session]
  /\ owner \in [Keys -> Users \cup {Nobody}]
  /\ minted \in 0..MaxKeys
  /\ given \in SUBSET Keys
  /\ worker \in [Workers -> Request]
  /\ requests \in 0..MaxRequests
  /\ restarts \in 0..MaxRestarts

(* A key serves the user it was minted for, or nobody: whatever requests    *)
(* write back, in whatever order, no session ends up under another user's   *)
(* key, and an anonymous key is never promoted (Login: "a brand-new session *)
(* id", "the one place that actually sets UserID").                         *)
KeyKeepsItsUser ==
  \A k \in Keys : store[k].user \in {owner[k], Nobody}

(* A stamp that says "current" is right: the rights are no older than the   *)
(* last change that was announced, and then the same holds of the           *)
(* configuration, although its epoch starts over with every restart         *)
(* (rightsStale, configStale, the comment on rightsEpoch).                  *)
Truthful(s, kinds) ==
  s.stamp["rights"] = epoch["rights"] /\ "rights" \in kinds =>
    /\ s.version["rights"] >= announced["rights"]
    /\ s.stamp["config"] = epoch["config"] /\ "config" \in kinds =>
         s.version["config"] >= announced["config"]

StampsTruthful ==
  /\ \A k \in Keys : store[k].live => Truthful(store[k], Kinds)
  /\ \A w \in Workers : worker[w].at \in {"resolve", "stamp", "store", "serve"} =>
       Truthful(worker[w].session, Kinds \ worker[w].todo)

(* "Active sessions pick up the new rights on their next request": a        *)
(* request that comes after a change was announced is served with it        *)
(* (BumpRightsEpoch, ManageSession).                                        *)
ServedFresh ==
  \A w \in Workers : worker[w].at = "serve" =>
    \A k \in Kinds : worker[w].session.version[k] >= worker[w].since[k]

(* A user who left a key never comes back under it: a login overwrites the  *)
(* old key, a logout drops the user, and both are for good (Login,          *)
(* Logout, RevokeToken).                                                    *)
Left(k) == k \in given /\ owner[k] # Nobody /\ store[k].user = Nobody
LeftForGood == [][\A k \in Keys : Left(k) => store'[k].user = Nobody]_vars
=============================================================================
