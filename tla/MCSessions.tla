----------------------------- MODULE MCSessions -----------------------------
(* Sessions on small instances.                                             *)
EXTENDS Sessions, TLC

(* In half of the behaviours the requests that use one key take turns: there *)
(* a user who left a key stays away.  Nothing changes in the database then,  *)
(* which is what the other half is about.                                    *)
VARIABLE calm

CONSTANT MaxOverlap  \* bound: requests of the behaviours that are not calm

KeysOf(x) == {x.key, x.dst} \ {NoKey}
KeysTakeTurns ==
  \A w1, w2 \in Workers :
    w1 # w2 /\ worker[w1].at # "idle" /\ worker[w2].at # "idle"
      => KeysOf(worker[w1]) \cap KeysOf(worker[w2]) = {}

(* The behaviours that are not calm begin with a user who has logged in.    *)
LoggedIn(u) ==
  [user |-> u, live |-> TRUE, version |-> data, stamp |-> epoch]

MCInit ==
  \/ Init /\ calm = TRUE
  \/ /\ calm = FALSE
     /\ data = [k \in Kinds |-> 1]
     /\ owed = [k \in Kinds |-> 0]
     /\ announced = data
     /\ epoch = [k \in Kinds |-> IF k = "rights" THEN 1 ELSE 0]
     /\ \E u \in Users :
          /\ store = [k \in Keys |-> IF k = 1 THEN LoggedIn(u) ELSE Dead]
          /\ owner = [k \in Keys |-> IF k = 1 THEN u ELSE Nobody]
     /\ minted = 1 /\ given = {1}
     /\ worker = [w \in Workers |-> Idle]
     /\ requests = 0 /\ restarts = 0

MCNext ==
  /\ Next
  /\ UNCHANGED calm
  /\ IF calm THEN KeysTakeTurns' /\ UNCHANGED <<data, restarts>> ELSE requests' <= MaxOverlap
MCSpec == MCInit /\ [][MCNext]_<<vars, calm>>

Symmetry == Permutations(Workers)

(* LeftForGood of a calm behaviour (Login, Logout, RevokeToken).            *)
CalmLeftForGood ==
  [][calm => \A k \in Keys : Left(k) => store'[k].user = Nobody]_<<vars, calm>>
=============================================================================
