------------------------------ MODULE Inventory ------------------------------
(***************************************************************************)
(* What buyers and sellers are promised about goods: a purchase takes its  *)
(* quantity from the shelf when it is placed, moves from new to accepted   *)
(* to completed or is cancelled, and in that case its quantity goes back   *)
(* once.  Each of these is one event.  Shop implements this specification. *)
(***************************************************************************)
EXTENDS Integers

CONSTANTS Products, Requests, Initially, NoPurchase

VARIABLES
  shelf,    \* how many of a product are on the shelf
  gone,     \* how many of it completed purchases took
  supply,   \* how many its seller ever provided
  bought    \* the purchase each request led to

inventoryVars == <<shelf, gone, supply, bought>>

IInit ==
  /\ shelf = Initially
  /\ gone = [p \in Products |-> 0]
  /\ supply = Initially
  /\ bought = [r \in Requests |-> NoPurchase]

IPlace(r, p) ==
  /\ bought[r] = NoPurchase
  /\ \E q \in 1..shelf[p] :
       /\ bought' = [bought EXCEPT ![r] = [product |-> p, quantity |-> q, status |-> "new"]]
       /\ shelf' = [shelf EXCEPT ![p] = @ - q]
  /\ UNCHANGED <<gone, supply>>

Becomes(r, status) == bought' = [bought EXCEPT ![r].status = status]

IAccept(r) ==
  /\ bought[r] # NoPurchase
  /\ bought[r].status = "new"
  /\ Becomes(r, "accepted")
  /\ UNCHANGED <<shelf, gone, supply>>

IComplete(r) ==
  /\ bought[r] # NoPurchase
  /\ bought[r].status = "accepted"
  /\ Becomes(r, "completed")
  /\ gone' = [gone EXCEPT ![bought[r].product] = @ + bought[r].quantity]
  /\ UNCHANGED <<shelf, supply>>

ICancel(r) ==
  /\ bought[r] # NoPurchase
  /\ bought[r].status \in {"new", "accepted"}
  /\ Becomes(r, "cancelled")
  /\ shelf' = [shelf EXCEPT ![bought[r].product] = @ + bought[r].quantity]
  /\ UNCHANGED <<gone, supply>>

\* The seller counts the shelf again.
IRecount(p) ==
  /\ shelf'[p] \in Nat
  /\ shelf' = [shelf EXCEPT ![p] = shelf'[p]]
  /\ supply' = [supply EXCEPT ![p] = @ + shelf'[p] - shelf[p]]
  /\ UNCHANGED <<gone, bought>>

INext ==
  \/ \E r \in Requests : \/ \E p \in Products : IPlace(r, p)
                         \/ IAccept(r) \/ IComplete(r) \/ ICancel(r)
  \/ \E p \in Products : IRecount(p)

ISpec == IInit /\ [][INext]_inventoryVars
=============================================================================
