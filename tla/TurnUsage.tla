------------------------------- MODULE TurnUsage -------------------------------
(***************************************************************************)
(* The monthly cap on what may be relayed through Cloudflare               *)
(* (controllers/turn).  An action asks for the month's total, and clients  *)
(* that want servers for a call are given credentials for these relays     *)
(* unless its last answer was over the cap.  The action runs once at a     *)
(* time (RunsApart in Actions).                                            *)
(***************************************************************************)
EXTENDS Naturals

CONSTANTS
  CapBytes,
  MaxUsed,    \* bound: bytes relayed in a month
  MaxMonths   \* bound

ASSUME UsageAssumption == CapBytes \in Nat \ {0} /\ MaxUsed \in Nat /\ MaxMonths \in Nat

VARIABLES
  month,
  relayed,   \* bytes relayed this month
  reported,  \* as far as Cloudflare has counted them, which it does late
  overCap,
  asking,    \* the check under way: [at, month, total]
  live,      \* whether credentials are out that are still good
  client,    \* a request for servers: "idle" or "fetching"
  foundOver  \* history: the last month that was found over the cap

usageVars == <<month, relayed, reported, overCap, asking, live, client, foundOver>>

NoCheck == [at |-> "idle", month |-> 0, total |-> 0]

UsageInit ==
  /\ month = 1 /\ relayed = 0 /\ reported = 0
  /\ overCap = FALSE /\ asking = NoCheck
  /\ live = FALSE /\ client = "idle" /\ foundOver = 0

(* Credentials outlast the check that ends them by up to a day.             *)
Relay ==
  /\ live /\ relayed < MaxUsed /\ relayed' = relayed + 1
  /\ UNCHANGED <<month, reported, overCap, asking, live, client, foundOver>>

CountUp ==
  /\ reported < relayed /\ reported' = reported + 1
  /\ UNCHANGED <<month, relayed, overCap, asking, live, client, foundOver>>

EndMonth ==
  /\ month < MaxMonths /\ month' = month + 1
  /\ relayed' = 0 /\ reported' = 0
  /\ UNCHANGED <<overCap, asking, live, client, foundOver>>

ExpireCredentials ==
  /\ live /\ live' = FALSE
  /\ UNCHANGED <<month, relayed, reported, overCap, asking, client, foundOver>>

-----------------------------------------------------------------------------
(* CheckUsage, from the start of the month it is asked in.                  *)
AskUsage ==
  /\ asking = NoCheck
  /\ asking' = [at |-> "asked", month |-> month, total |-> 0]
  /\ UNCHANGED <<month, relayed, reported, overCap, live, client, foundOver>>

CountUsage(was) ==
  /\ asking.at = "asked"
  /\ asking' = [asking EXCEPT !.at = "counted",
                  !.total = IF asking.month = month THEN reported ELSE was]
  /\ UNCHANGED <<month, relayed, reported, overCap, live, client, foundOver>>

Checked ==
  /\ asking.at = "counted" /\ asking' = NoCheck
  /\ overCap' = (asking.total >= CapBytes)
  /\ foundOver' = IF overCap' THEN asking.month ELSE foundOver
  /\ UNCHANGED <<month, relayed, reported, live, client>>

(* An error leaves what is known.  Mutant: it is forgotten.                 *)
ForgetOver == FALSE
KeepOver == overCap

CheckFails ==
  /\ asking # NoCheck /\ asking' = NoCheck
  /\ overCap' = KeepOver
  /\ UNCHANGED <<month, relayed, reported, live, client, foundOver>>

-----------------------------------------------------------------------------
(* GetIceServers looks at the cap, and fetches credentials after that.      *)
WantServers ==
  /\ client = "idle" /\ ~overCap /\ client' = "fetching"
  /\ UNCHANGED <<month, relayed, reported, overCap, asking, live, foundOver>>

FetchCredentials ==
  /\ client = "fetching" /\ client' = "idle"
  /\ live' \in {live, TRUE}
  /\ UNCHANGED <<month, relayed, reported, overCap, asking, foundOver>>

-----------------------------------------------------------------------------
Checking == AskUsage \/ (\E was \in {0, CapBytes} : CountUsage(was)) \/ Checked \/ CheckFails
UsageNext ==
  \/ Relay \/ CountUp \/ EndMonth \/ ExpireCredentials
  \/ Checking \/ WantServers \/ FetchCredentials

UsageSpec == UsageInit /\ [][UsageNext]_usageVars

-----------------------------------------------------------------------------
(* Properties.                                                             *)

(* A month that was found over the cap stays so to every client that asks   *)
(* in it, whatever checks fail or are late ("credentials suspended for the  *)
(* rest of the month", CheckUsage).                                         *)
SuspendedForTheMonth == foundOver = month => overCap
================================================================================
