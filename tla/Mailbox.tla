------------------------------- MODULE Mailbox -------------------------------
(***************************************************************************)
(* What the signal queue promises one recipient                            *)
(* (go/engine/controllers/mesh/signal.go): a signal put into a room waits  *)
(* there behind the earlier ones, and the room's whole content is handed   *)
(* over once, to one reader.                                               *)
(***************************************************************************)
EXTENDS Naturals, Sequences

CONSTANTS Rooms

VARIABLES
  pending,   \* per room, the signals waiting, oldest first
  handed,    \* the signals that were handed to some reader
  count      \* signals put so far; a signal is its number

Contents(s) == {s[i] : i \in 1..Len(s)}

Init ==
  /\ pending = [r \in Rooms |-> <<>>]
  /\ handed = {}
  /\ count = 0

Put(r) ==
  /\ pending' = [pending EXCEPT ![r] = Append(@, count + 1)]
  /\ count' = count + 1
  /\ UNCHANGED handed

HandOver(r) ==
  /\ pending[r] # <<>>
  /\ Contents(pending[r]) \cap handed = {}
  /\ handed' = handed \cup Contents(pending[r])
  /\ pending' = [pending EXCEPT ![r] = <<>>]
  /\ UNCHANGED count

Next == \E r \in Rooms : Put(r) \/ HandOver(r)

Spec == Init /\ [][Next]_<<pending, handed, count>>
=============================================================================
