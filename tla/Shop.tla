--------------------------------- MODULE Shop ---------------------------------
(***************************************************************************)
(* A buyer's cart and its checkout (cart.go, payments/checkout.go,         *)
(* products.go).  The lines of a cart are keyed by their owner, so buyers  *)
(* do not meet; one buyer does, with several requests at once.  Every      *)
(* database statement is a step, none is in a transaction, and any but an  *)
(* ignored one may fail and end the request with what it did still there.  *)
(*                                                                         *)
(* Amounts of money are left out: what is bought is counted in units.      *)
(***************************************************************************)
EXTENDS Naturals, FiniteSets, FiniteSetsExt

CONSTANTS
  Products, Currencies,
  MaxQuantity,          \* of one line, in a cart and in a payment
  Requests,             \* the buyer's requests under way
  MaxLine,              \* bound: what is typed into a line in the cart's list
  MaxPayments, MaxFailures, MaxCatalogues \* bounds

ASSUME ShopAssumption ==
  /\ IsFiniteSet(Products) /\ IsFiniteSet(Requests)
  /\ MaxQuantity \in Nat \ {0} /\ MaxLine \in Nat
  /\ {MaxPayments, MaxFailures, MaxCatalogues} \subseteq Nat

VARIABLES
  cart,      \* units of every product; 0: no line
  onSale,    \* products that are active and within the buyer's access
  currency,  \* of every product
  enabled,   \* whether the payment platform is
  payments,  \* id -> [items, status, charged]
  checkout,  \* what every request is at
  owed,      \* history: units put in the cart or bought, less those dropped by a rule
  failures,  \* statements and charges that failed
  edits      \* of the catalogue

shopVars == <<cart, onSale, currency, enabled, payments, checkout, owed, failures, edits>>
shelf == <<onSale, currency, enabled, edits>>

Nothing == [p \in Products |-> 0]
Lines(units) == {p \in Products : units[p] > 0}
Only(p, n) == [Nothing EXCEPT ![p] = n]
Plus(x, y) == [p \in Products |-> x[p] + y[p]]
Less(x, y) == [p \in Products |-> x[p] - y[p]]
Within(units, set) == [p \in Products |-> IF p \in set THEN units[p] ELSE 0]
Least(a, b) == IF a <= b THEN a ELSE b

(* direct: a product bought past the cart, which nothing is restored to;    *)
(* back: lines on their way back to the cart; payment: its id, or 0.        *)
NoCheckout == [at |-> "idle", direct |-> FALSE, buying |-> Nothing, back |-> Nothing,
               mixed |-> FALSE, payment |-> 0]

At(r, place) == checkout[r].at = place
Moves(r, c) == checkout' = [checkout EXCEPT ![r] = c]
Steady == UNCHANGED failures
Failing == failures < MaxFailures /\ failures' = failures + 1

ShopInit ==
  /\ cart = Nothing /\ owed = Nothing
  /\ onSale = Products /\ currency \in [Products -> Currencies] /\ enabled = TRUE
  /\ payments = <<>>
  /\ checkout = [r \in Requests |-> NoCheckout]
  /\ failures = 0 /\ edits = 0

-----------------------------------------------------------------------------
(* What administrators and the engine's own routes do.                     *)
EditCatalogue ==
  /\ edits < MaxCatalogues /\ edits' = edits + 1
  /\ \/ \E p \in Products : onSale' = (onSale \cup {p}) \ (onSale \cap {p})
        /\ UNCHANGED <<currency, enabled>>
     \/ \E p \in Products, c \in Currencies : c # currency[p] /\ currency' = [currency EXCEPT ![p] = c]
        /\ UNCHANGED <<onSale, enabled>>
     \/ enabled' = ~enabled /\ UNCHANGED <<onSale, currency>>
  /\ UNCHANGED <<cart, payments, checkout, owed, failures>>

(* The owner creates, edits or deletes a line; only the table's own check   *)
(* looks at the quantity, and it has no upper limit.                        *)
EditLine(p, n) ==
  /\ n # cart[p]
  /\ cart' = [cart EXCEPT ![p] = n]
  /\ owed' = [owed EXCEPT ![p] = @ + n - cart[p]]
  /\ UNCHANGED <<shelf, payments, checkout, failures>>

-----------------------------------------------------------------------------
(* add, putInCart.                                                         *)
Raised(p, n) == Least(cart[p] + n, MaxQuantity)

AskToAdd(r, p, n) ==
  /\ At(r, "idle") /\ p \in onSale
  /\ Moves(r, [NoCheckout EXCEPT !.at = "adding", !.back = Only(p, n)])
  /\ owed' = [owed EXCEPT ![p] = @ + n]
  /\ UNCHANGED <<cart, shelf, payments, failures>>

(* Lines go back one by one; what does not fit under the cap is dropped.    *)
PutInCart(r, p) ==
  /\ checkout[r].at \in {"adding", "leaving", "restoring"} /\ p \in Lines(checkout[r].back)
  /\ LET n == checkout[r].back[p]
     IN  /\ cart' = [cart EXCEPT ![p] = Raised(p, n)]
         /\ owed' = [owed EXCEPT ![p] = @ + Raised(p, n) - (cart[p] + n)]
  /\ Moves(r, [checkout[r] EXCEPT !.back[p] = 0])
  /\ UNCHANGED <<shelf, payments, failures>>

(* Its error is an answer to the one who adds and ignored by a checkout.    *)
PutFails(r, p) ==
  /\ checkout[r].at \in {"adding", "leaving", "restoring"} /\ p \in Lines(checkout[r].back)
  /\ Failing
  /\ owed' = IF At(r, "adding") THEN [owed EXCEPT ![p] = @ - checkout[r].back[p]] ELSE owed
  /\ Moves(r, [checkout[r] EXCEPT !.back[p] = 0])
  /\ UNCHANGED <<cart, shelf, payments>>

AllPut(r) ==
  /\ checkout[r].at \in {"adding", "leaving", "restoring"} /\ checkout[r].back = Nothing
  /\ Moves(r, IF At(r, "leaving") THEN [checkout[r] EXCEPT !.at = "checking"] ELSE NoCheckout)
  /\ UNCHANGED <<cart, shelf, payments, owed, failures>>

-----------------------------------------------------------------------------
(* checkout, pay.                                                          *)
Restores(r) == [checkout[r] EXCEPT !.at = "restoring", !.buying = Nothing, !.back = checkout[r].buying]

(* An error of payments.Checkout: the cart's lines are restored.            *)
Refused(r) ==
  IF checkout[r].direct
  THEN Moves(r, NoCheckout) /\ owed' = Less(owed, checkout[r].buying)
  ELSE Moves(r, Restores(r)) /\ UNCHANGED owed

Take(r) ==
  /\ At(r, "idle") /\ Lines(cart) # {}
  /\ Moves(r, [NoCheckout EXCEPT !.at = "pricing", !.buying = cart])
  /\ cart' = Nothing
  /\ UNCHANGED <<shelf, payments, owed, failures>>

(* Mutant: every line is restored, not just those that cannot be bought.    *)
PriceAndRestoreAll(r) ==
  /\ At(r, "pricing")
  /\ LET bought == Within(checkout[r].buying, onSale)
     IN  Moves(r, [checkout[r] EXCEPT !.at = "leaving", !.buying = bought,
                     !.back = checkout[r].buying,
                     !.mixed = Cardinality({currency[p] : p \in Lines(bought)}) > 1])
  /\ UNCHANGED <<cart, shelf, payments, owed, failures>>

Price(r) ==
  /\ At(r, "pricing")
  /\ LET bought == Within(checkout[r].buying, onSale)
     IN  Moves(r, [checkout[r] EXCEPT !.at = "leaving", !.buying = bought,
                     !.back = Less(checkout[r].buying, bought),
                     !.mixed = Cardinality({currency[p] : p \in Lines(bought)}) > 1])
  /\ UNCHANGED <<cart, shelf, payments, owed, failures>>

PriceFails(r) ==
  /\ At(r, "pricing") /\ Failing
  /\ Moves(r, Restores(r))
  /\ UNCHANGED <<cart, shelf, payments, owed>>

(* One product bought directly.                                            *)
Buy(r, p, n) ==
  /\ At(r, "idle") /\ p \in onSale
  /\ Moves(r, [NoCheckout EXCEPT !.at = "checking", !.direct = TRUE, !.buying = Only(p, n)])
  /\ owed' = [owed EXCEPT ![p] = @ + n]
  /\ UNCHANGED <<cart, shelf, payments, failures>>

(* payments.Checkout: what it refuses, and the platform it loads.           *)
Payable(c) ==
  /\ Lines(c.buying) # {} /\ ~c.mixed
  /\ \A p \in Products : c.buying[p] <= MaxQuantity

Check(r) ==
  /\ At(r, "checking")
  /\ IF Payable(checkout[r]) /\ enabled
     THEN Moves(r, [checkout[r] EXCEPT !.at = "recording"]) /\ UNCHANGED owed
     ELSE Refused(r)
  /\ UNCHANGED <<cart, shelf, payments, failures>>

(* The platform cannot be read, or the payment not be inserted.             *)
CheckFails(r) ==
  /\ \/ At(r, "checking") /\ Payable(checkout[r])
     \/ At(r, "recording")
  /\ Failing /\ Refused(r)
  /\ UNCHANGED <<cart, shelf, payments>>

InsertPayment(r) ==
  /\ At(r, "recording") /\ Cardinality(DOMAIN payments) < MaxPayments
  /\ LET id == Cardinality(DOMAIN payments) + 1
     IN  /\ payments' = [i \in DOMAIN payments \cup {id} |->
                           IF i = id THEN [items |-> checkout[r].buying, status |-> "pending", charged |-> FALSE]
                           ELSE payments[i]]
         /\ Moves(r, [checkout[r] EXCEPT !.at = "charging", !.payment = id])
  /\ UNCHANGED <<cart, shelf, owed, failures>>

(* The provider's answer.                                                  *)
Charge(r) ==
  /\ At(r, "charging")
  /\ payments' = [payments EXCEPT ![checkout[r].payment].charged = TRUE]
  /\ Moves(r, [checkout[r] EXCEPT !.at = "updating"])
  /\ UNCHANGED <<cart, shelf, owed, failures>>

ChargeFails(r) ==
  /\ At(r, "charging") /\ Failing
  /\ Moves(r, [checkout[r] EXCEPT !.at = "declined"])
  /\ UNCHANGED <<cart, shelf, payments, owed>>

(* The failed payment is marked so, and the answer is its error either way. *)
Decline(r) ==
  /\ At(r, "declined") /\ Refused(r)
  /\ payments' = [payments EXCEPT ![checkout[r].payment].status = "failed"]
  /\ UNCHANGED <<cart, shelf, failures>>

DeclineFails(r) ==
  /\ At(r, "declined") /\ Refused(r) /\ Failing
  /\ UNCHANGED <<cart, shelf, payments>>

Update(r) ==
  /\ At(r, "updating")
  /\ Moves(r, NoCheckout)
  /\ UNCHANGED <<cart, shelf, payments, owed, failures>>

UpdateFails(r) ==
  /\ At(r, "updating") /\ Refused(r) /\ Failing
  /\ UNCHANGED <<cart, shelf, payments>>

-----------------------------------------------------------------------------
Adding(r) == \E p \in Products, n \in 1..MaxQuantity : AskToAdd(r, p, n) \/ Buy(r, p, n)
Putting(r) == AllPut(r) \/ \E p \in Products : PutInCart(r, p)
Paying(r) ==
  \/ Take(r) \/ Price(r) \/ PriceFails(r) \/ Check(r) \/ CheckFails(r) \/ InsertPayment(r)
  \/ Charge(r) \/ ChargeFails(r) \/ Decline(r) \/ Update(r)
(* Statements whose failure nothing makes good.                             *)
Unforgiven(r) == DeclineFails(r) \/ UpdateFails(r) \/ \E p \in Products : PutFails(r, p)

ShopNext ==
  \/ EditCatalogue
  \/ \E p \in Products, n \in 0..MaxLine : EditLine(p, n)
  \/ \E r \in Requests : Adding(r) \/ Putting(r) \/ Paying(r) \/ Unforgiven(r)

ShopSpec == ShopInit /\ [][ShopNext]_shopVars

-----------------------------------------------------------------------------
(* Properties.                                                             *)
Open == {i \in DOMAIN payments : payments[i].status = "pending"}

(* What a request holds in memory only.                                    *)
Held(r, p) ==
  checkout[r].back[p] + (IF checkout[r].payment = 0 THEN checkout[r].buying[p] ELSE 0)

HeldUnits(p) == SumFunction([r \in Requests |-> Held(r, p)])
OpenUnits(p) == SumFunction([i \in Open |-> payments[i].items[p]])

(* Every unit is in one place: in the cart, in a request under way or in an *)
(* open payment, and none is in two, whatever requests of one buyer run at  *)
(* once and wherever one of their statements fails (cart.go:141, "so two    *)
(* concurrent checkouts can't both charge the same lines").                 *)
UnitsConserved ==
  \A p \in Products : owed[p] = cart[p] + HeldUnits(p) + OpenUnits(p)

(* "Pays for the whole cart, emptying it unless the charge failed": lines   *)
(* whose charge worked are not restored (cart.go:130).                      *)
ChargedStaysOut ==
  \A r \in Requests :
    At(r, "restoring") /\ checkout[r].payment # 0 => ~payments[checkout[r].payment].charged
===============================================================================
