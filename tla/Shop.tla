-------------------------------- MODULE Shop --------------------------------
(***************************************************************************)
(* The shop: purchases (createPurchase and updatePurchase of               *)
(* purchase.service.ts), the seller's edits and deletions of a product     *)
(* (product.service.ts) and an admin's moderation of it (setProductActive  *)
(* of admin.service.ts).                                                   *)
(*                                                                         *)
(* Purchases are MongoDB transactions with snapshot isolation: one step    *)
(* takes the snapshot and decides, a later one writes and commits, and a   *)
(* transaction that is to write a document somebody has written since its  *)
(* snapshot is run again.  Edits, deletions and moderation are a find and  *)
(* a save with no condition between them.                                  *)
(***************************************************************************)
EXTENDS Integers, Functions

CONSTANTS
  Products,
  Requests,    \* a buyer's requestIds, unique for each buyer
  Quantities,  \* what a buyer may order
  Counts,      \* the stock a seller may enter
  Initially,   \* [Products -> Nat], the stock at the start
  Handlers,    \* HTTP handlers that can be in flight at once
  NoPurchase

Statuses == {"new", "accepted", "completed", "cancelled"}
Purchases == [product : Products, quantity : Quantities, status : Statuses]

ASSUME QuantitiesAssumption == Quantities \subseteq Nat \ {0}
ASSUME CountsAssumption == Counts \subseteq Nat
ASSUME InitiallyAssumption == Initially \in [Products -> Nat]
ASSUME DocumentsAssumption == Products \cap Requests = {}
ASSUME NoPurchaseAssumption == NoPurchase \notin Purchases

VARIABLES
  stock,     \* Product.stock
  soldCount, \* Product.soldCount
  isActive,  \* Product.isActive
  deleted,   \* Product.deletedAt is set
  supplied,  \* history: how many the seller provided, by the edits of the stock
  purchase,  \* the Purchase with a requestId
  task       \* what each handler is doing

productVars == <<stock, soldCount, isActive, deleted, supplied>>
vars == <<productVars, purchase, task>>

NoTask == [pc |-> "idle"]
Buying == [pc : {"buy", "place"}, request : Requests, product : Products,
           quantity : Quantities, stale : BOOLEAN]
Changing == [pc : {"open", "change"}, request : Requests, to : Statuses \ {"new"},
             stale : BOOLEAN]
Editing == [pc : {"edit"}, product : Products, count : Counts, changes : BOOLEAN]
Removing == [pc : {"remove"}, product : Products]
Moderating == [pc : {"moderate"}, product : Products, show : BOOLEAN, changes : BOOLEAN]
Tasks == {NoTask} \cup Buying \cup Changing \cup Editing \cup Removing \cup Moderating

\* The variables have their types: above all, the stock never goes below zero.
TypeOK ==
  /\ stock \in [Products -> Nat]
  /\ soldCount \in [Products -> Nat]
  /\ isActive \in [Products -> BOOLEAN]
  /\ deleted \in [Products -> BOOLEAN]
  /\ supplied \in [Products -> Int]
  /\ purchase \in [Requests -> Purchases \cup {NoPurchase}]
  /\ task \in [Handlers -> Tasks]

Init ==
  /\ stock = Initially
  /\ soldCount = [p \in Products |-> 0]
  /\ isActive = [p \in Products |-> TRUE]
  /\ deleted = [p \in Products |-> FALSE]
  /\ supplied = Initially
  /\ purchase = [r \in Requests |-> NoPurchase]
  /\ task = [h \in Handlers |-> NoTask]

-----------------------------------------------------------------------------
At(h, label) == task[h].pc = label
Become(h, t) == task' = [task EXCEPT ![h] = t]
Goto(h, label) == Become(h, [task[h] EXCEPT !.pc = label])
Return(h) == Become(h, NoTask)

Placed(r) == purchase[r] # NoPurchase

\* The documents a transaction that has its snapshot is going to write.
Writes(t) ==
  CASE t.pc = "place" -> {t.request, t.product}
    [] t.pc = "change" -> {t.request} \cup (IF t.to = "accepted" THEN {}
                                            ELSE {purchase[t.request].product})
    [] OTHER -> {}

\* The handler's writes are committed; a snapshot taken before them is out of date.
Commit(h, documents) ==
  task' = [g \in Handlers |->
             IF g = h THEN NoTask
             ELSE IF Writes(task[g]) \cap documents # {} THEN [task[g] EXCEPT !.stale = TRUE]
             ELSE task[g]]

\* WriteConflict, or the unique index on the buyer's requestId.
Mutant_LastWriteWins(h) == FALSE
Conflicts(h) == task[h].stale

-----------------------------------------------------------------------------
(* createPurchase. *)

\* A request that has its purchase already is answered with it.
Submit(h, r, p, q) ==
  /\ At(h, "idle")
  /\ ~Placed(r)
  /\ Become(h, [pc |-> "buy", request |-> r, product |-> p, quantity |-> q, stale |-> FALSE])
  /\ UNCHANGED <<productVars, purchase>>

OpenPurchase(h) ==
  /\ At(h, "buy")
  /\ IF Placed(task[h].request) THEN Return(h)
     ELSE Become(h, [task[h] EXCEPT !.pc = "place", !.stale = FALSE])
  /\ UNCHANGED <<productVars, purchase>>

Mutant_Oversell(p, q) == isActive[p]
InStock(p, q) == isActive[p] /\ stock[p] >= q

PlacePurchase(h) ==
  LET r == task[h].request
      p == task[h].product
      q == task[h].quantity
  IN
  /\ At(h, "place")
  /\ ~Conflicts(h)
  /\ InStock(p, q)
  /\ stock' = [stock EXCEPT ![p] = @ - q]
  /\ purchase' = [purchase EXCEPT ![r] = [product |-> p, quantity |-> q, status |-> "new"]]
  /\ Commit(h, {r, p})
  /\ UNCHANGED <<soldCount, isActive, deleted, supplied>>

RetryPurchase(h) ==
  /\ At(h, "place")
  /\ Conflicts(h)
  /\ Goto(h, "buy")
  /\ UNCHANGED <<productVars, purchase>>

-----------------------------------------------------------------------------
(* updatePurchase, by the seller, or by the buyer to cancel. *)

\* Which status may follow which.
MayBecome(from, to) ==
  CASE to = "accepted" -> from = "new"
    [] to = "completed" -> from = "accepted"
    [] to = "cancelled" -> from \in {"new", "accepted"}

UpdatePurchase(h, r, to) ==
  /\ At(h, "idle")
  /\ Placed(r)
  /\ Become(h, [pc |-> "open", request |-> r, to |-> to, stale |-> FALSE])
  /\ UNCHANGED <<productVars, purchase>>

OpenChange(h) ==
  /\ At(h, "open")
  /\ IF MayBecome(purchase[task[h].request].status, task[h].to)
     THEN Become(h, [task[h] EXCEPT !.pc = "change", !.stale = FALSE])
     ELSE Return(h)
  /\ UNCHANGED <<productVars, purchase>>

\* A cancelled purchase gives its quantity back, a completed one counts as sold.
Mutant_GiveBackNew(r, to) == to = "cancelled" /\ purchase[r].status = "new"
GivesBack(r, to) == to = "cancelled"

SaveChange(h) ==
  LET r == task[h].request
      to == task[h].to
      p == purchase[r].product
      q == purchase[r].quantity
  IN
  /\ At(h, "change")
  /\ ~Conflicts(h)
  /\ purchase' = [purchase EXCEPT ![r].status = to]
  /\ stock' = IF GivesBack(r, to) THEN [stock EXCEPT ![p] = @ + q] ELSE stock
  /\ soldCount' = IF to = "completed" THEN [soldCount EXCEPT ![p] = @ + q] ELSE soldCount
  /\ Commit(h, Writes(task[h]))
  /\ UNCHANGED <<isActive, deleted, supplied>>

RetryChange(h) ==
  /\ At(h, "change")
  /\ Conflicts(h)
  /\ Goto(h, "open")
  /\ UNCHANGED <<productVars, purchase>>

-----------------------------------------------------------------------------
(* updateProduct, deleteProduct and setProductActive.  save() writes the   *)
(* fields that differ from what was read, with no condition.               *)

UpdateProduct(h, p, n) ==
  /\ At(h, "idle")
  /\ isActive[p]
  /\ Become(h, [pc |-> "edit", product |-> p, count |-> n, changes |-> n # stock[p]])
  /\ UNCHANGED <<productVars, purchase>>

SaveEdit(h) ==
  LET p == task[h].product
      n == IF task[h].changes THEN task[h].count ELSE stock[p]
  IN
  /\ At(h, "edit")
  /\ stock' = [stock EXCEPT ![p] = n]
  /\ supplied' = [supplied EXCEPT ![p] = @ + n - stock[p]]
  /\ Commit(h, {p})
  /\ UNCHANGED <<soldCount, isActive, deleted, purchase>>

DeleteProduct(h, p) ==
  /\ At(h, "idle")
  /\ isActive[p]
  /\ Become(h, [pc |-> "remove", product |-> p])
  /\ UNCHANGED <<productVars, purchase>>

SaveDeletion(h) ==
  LET p == task[h].product IN
  /\ At(h, "remove")
  /\ isActive' = [isActive EXCEPT ![p] = FALSE]
  /\ deleted' = [deleted EXCEPT ![p] = TRUE]
  /\ Commit(h, {p})
  /\ UNCHANGED <<stock, soldCount, supplied, purchase>>

SetProductActive(h, p, show) ==
  /\ At(h, "idle")
  /\ ~(show /\ deleted[p])
  /\ Become(h, [pc |-> "moderate", product |-> p, show |-> show, changes |-> show # isActive[p]])
  /\ UNCHANGED <<productVars, purchase>>

SaveModeration(h) ==
  LET p == task[h].product IN
  /\ At(h, "moderate")
  /\ isActive' = IF task[h].changes THEN [isActive EXCEPT ![p] = task[h].show] ELSE isActive
  /\ IF task[h].changes THEN Commit(h, {p}) ELSE Return(h)
  /\ UNCHANGED <<stock, soldCount, deleted, supplied, purchase>>

\* The product is sold out or hidden, the buyer's or the seller's account is not
\* available, the connection fails or the process dies: the transaction aborts.
Abandon(h) ==
  /\ ~At(h, "idle")
  /\ Return(h)
  /\ UNCHANGED <<productVars, purchase>>

-----------------------------------------------------------------------------
Handle(h) ==
  \/ \E r \in Requests, p \in Products, q \in Quantities : Submit(h, r, p, q)
  \/ OpenPurchase(h) \/ PlacePurchase(h) \/ RetryPurchase(h)
  \/ \E r \in Requests, to \in Statuses \ {"new"} : UpdatePurchase(h, r, to)
  \/ OpenChange(h) \/ SaveChange(h) \/ RetryChange(h)
  \/ \E p \in Products : \/ \E n \in Counts : UpdateProduct(h, p, n)
                         \/ DeleteProduct(h, p)
                         \/ \E show \in BOOLEAN : SetProductActive(h, p, show)
  \/ SaveEdit(h) \/ SaveDeletion(h) \/ SaveModeration(h)
  \/ Abandon(h)

Next == \E h \in Handlers : Handle(h)

Spec == Init /\ [][Next]_vars

-----------------------------------------------------------------------------
Ordered(p, statuses) ==
  LET ordered == {r \in Requests : Placed(r) /\ purchase[r].product = p
                                             /\ purchase[r].status \in statuses}
  IN  SumFunction([r \in ordered |-> purchase[r].quantity])

\* Nothing is lost or made up: what is on the shelf and what live purchases hold is
\* what the seller provided, and the sold count is the quantity of the completed ones,
\* however purchases, retries and edits interleave and whoever repeats a completion.
StockAddsUp ==
  \A p \in Products :
    /\ stock[p] + Ordered(p, {"new", "accepted", "completed"}) = supplied[p]
    /\ soldCount[p] = Ordered(p, {"completed"})

\* The transactions behave as the single events of Inventory.
Stock == INSTANCE Inventory WITH
  shelf <- stock, gone <- soldCount, supply <- supplied, bought <- purchase
ImplementsInventory == Stock!ISpec

\* "a seller's own delete cannot be undone by anyone else": a deleted product is
\* never on sale again.  It can be, when an admin hides it and restores it around the
\* saving of a deletion that is on its way.
DeletedStaysDown == \A p \in Products : deleted[p] => ~isActive[p]
=============================================================================
