----------------------------- MODULE ShopProofs -----------------------------
(***************************************************************************)
(* Proofs about Shop, for any products, requests and quantities and any    *)
(* number of handlers: stock never goes below zero, and the transactions   *)
(* implement the single events of Inventory.                               *)
(***************************************************************************)
EXTENDS Shop, SumTheorems, TLAPS

USE DEF At

-----------------------------------------------------------------------------
(* A handler whose snapshot is still current has decided from purchases    *)
(* that nobody has changed; a purchase, once placed, stays.                *)

Current(h) ==
  LET t == task[h] IN
  /\ t.pc = "place" /\ ~t.stale => purchase[t.request] = NoPurchase
  /\ t.pc \in {"open", "change"} => purchase[t.request] # NoPurchase
  /\ t.pc = "change" /\ ~t.stale => MayBecome(purchase[t.request].status, t.to)

Inv == TypeOK /\ \A h \in Handlers : Current(h)

-----------------------------------------------------------------------------
(* What a handler remembers, field by field. *)

LEMMA TaskFields ==
  ASSUME NEW t \in Tasks
  PROVE  /\ t.pc \in {"buy", "place"} =>
              /\ t \in Buying
              /\ t.request \in Requests /\ t.product \in Products /\ t.quantity \in Quantities
         /\ t.pc \in {"open", "change"} =>
              /\ t \in Changing
              /\ t.request \in Requests /\ t.to \in Statuses \ {"new"}
         /\ t.pc = "edit" => t.product \in Products /\ t.count \in Counts /\ t.changes \in BOOLEAN
         /\ t.pc = "remove" => t.product \in Products
         /\ t.pc = "moderate" => t.product \in Products /\ t.show \in BOOLEAN /\ t.changes \in BOOLEAN
<1>1. CASE t = NoTask
  BY <1>1 DEF NoTask
<1>2. CASE t \in Buying
  BY <1>2 DEF Buying
<1>3. CASE t \in Changing
  BY <1>3 DEF Changing
<1>4. CASE t \in Editing
  BY <1>4 DEF Editing
<1>5. CASE t \in Removing
  BY <1>5 DEF Removing
<1>6. CASE t \in Moderating
  BY <1>6 DEF Moderating
<1> QED BY <1>1, <1>2, <1>3, <1>4, <1>5, <1>6 DEF Tasks

LEMMA PlacedFields ==
  ASSUME TypeOK, NEW r \in Requests, purchase[r] # NoPurchase
  PROVE  /\ purchase[r] \in Purchases
         /\ purchase[r].product \in Products
         /\ purchase[r].quantity \in Nat \ {0}
         /\ purchase[r].status \in Statuses
<1>1. purchase[r] \in Purchases
  BY DEF TypeOK
<1> QED BY <1>1, QuantitiesAssumption DEF Purchases

\* A handler that begins or goes on with a task of the right type.
LEMMA BecomeKeeps ==
  ASSUME Inv, NEW h \in Handlers, NEW t \in Tasks, Become(h, t), UNCHANGED <<productVars, purchase>>,
         t.pc = "place" /\ ~t.stale => purchase[t.request] = NoPurchase,
         t.pc \in {"open", "change"} => purchase[t.request] # NoPurchase,
         t.pc = "change" /\ ~t.stale => MayBecome(purchase[t.request].status, t.to)
  PROVE  Inv'
<1>1. TypeOK'
  BY DEF Inv, TypeOK, Become, productVars
<1>2. ASSUME NEW g \in Handlers PROVE Current(g)'
  <2>1. CASE g = h
    <3>1. task'[g] = t
      BY <2>1 DEF Become, Inv, TypeOK
    <3> QED BY <3>1 DEF Current, MayBecome
  <2>2. CASE g # h
    <3>1. task'[g] = task[g]
      BY <2>2 DEF Become, Inv, TypeOK
    <3> QED BY <3>1 DEF Current, Inv, MayBecome
  <2> QED BY <2>1, <2>2
<1> QED BY <1>1, <1>2 DEF Inv

LEMMA ReturnKeeps ==
  ASSUME Inv, NEW h \in Handlers, Return(h), UNCHANGED <<productVars, purchase>>
  PROVE  Inv'
<1>1. NoTask \in Tasks /\ NoTask.pc = "idle"
  BY DEF Tasks, NoTask
<1> QED BY <1>1, BecomeKeeps DEF Return

\* A committed transaction leaves every other handler's task well typed, and every
\* snapshot that is still current untouched.
LEMMA CommitTypes ==
  ASSUME TypeOK, NEW h \in Handlers, NEW documents, Commit(h, documents)
  PROVE  task' \in [Handlers -> Tasks]
<1> SUFFICES ASSUME NEW g \in Handlers PROVE task'[g] \in Tasks
  BY DEF Commit
<1>1. CASE g = h
  BY <1>1 DEF Commit, Tasks
<1>2. CASE g # h /\ Writes(task[g]) \cap documents = {}
  BY <1>2 DEF Commit, TypeOK
<1>3. CASE g # h /\ Writes(task[g]) \cap documents # {}
  <2>1. task[g] \in Tasks /\ task[g].pc \in {"place", "change"}
    BY <1>3 DEF Writes, TypeOK
  <2>2. task'[g] = [task[g] EXCEPT !.stale = TRUE]
    BY <1>3 DEF Commit
  <2>3. CASE task[g].pc = "place"
    <3>1. task[g] \in Buying
      BY <2>1, <2>3, TaskFields
    <3>2. task'[g] \in Buying
      BY <2>2, <3>1 DEF Buying
    <3> QED BY <3>2 DEF Tasks
  <2>4. CASE task[g].pc = "change"
    <3>1. task[g] \in Changing
      BY <2>1, <2>4, TaskFields
    <3>2. task'[g] \in Changing
      BY <2>2, <3>1 DEF Changing
    <3> QED BY <3>2 DEF Tasks
  <2> QED BY <2>1, <2>3, <2>4
<1> QED BY <1>1, <1>2, <1>3

LEMMA CommitKeeps ==
  ASSUME Inv, TypeOK', NEW h \in Handlers, NEW documents, Commit(h, documents),
         \A r \in Requests : purchase'[r] # purchase[r] =>
                               r \in documents /\ purchase'[r] # NoPurchase
  PROVE  Inv'
<1> SUFFICES ASSUME NEW g \in Handlers PROVE Current(g)'
  BY DEF Inv
<1>1. CASE g = h
  <2>1. task'[g].pc = "idle"
    BY <1>1 DEF Commit, NoTask
  <2> QED BY <2>1 DEF Current
<1>2. CASE g # h /\ Writes(task[g]) \cap documents = {}
  <2>1. task'[g] = task[g]
    BY <1>2 DEF Commit
  <2>2. task[g].pc \in {"place", "open", "change"} => task[g].request \in Requests
    BY TaskFields DEF Inv, TypeOK
  <2>3. task[g].pc \in {"place", "change"} => task[g].request \in Writes(task[g])
    BY DEF Writes
  <2>4. task[g].pc \in {"place", "change"} => purchase'[task[g].request] = purchase[task[g].request]
    BY <1>2, <2>2, <2>3
  <2>5. Current(g)
    BY DEF Inv
  <2> QED BY <2>1, <2>2, <2>4, <2>5 DEF Current, MayBecome
<1>3. CASE g # h /\ Writes(task[g]) \cap documents # {}
  <2>1. task[g] \in Tasks /\ task[g].pc \in {"place", "change"}
    BY <1>3 DEF Writes, Inv, TypeOK
  <2>2. task'[g] = [task[g] EXCEPT !.stale = TRUE]
    BY <1>3 DEF Commit
  <2>3. task[g] \in Buying \/ task[g] \in Changing
    BY <2>1, TaskFields
  <2>4. task'[g].stale /\ task'[g].pc = task[g].pc /\ task'[g].request = task[g].request
    BY <2>2, <2>3 DEF Buying, Changing
  <2>5. task[g].request \in Requests
    BY <2>1, TaskFields
  <2>6. Current(g)
    BY DEF Inv
  <2> QED BY <2>1, <2>4, <2>5, <2>6 DEF Current
<1> QED BY <1>1, <1>2, <1>3

-----------------------------------------------------------------------------
(* The two transactions' commits, which later proofs need in detail. *)

\* What a purchase is placed from.
LEMMA PlaceFacts ==
  ASSUME Inv, NEW h \in Handlers, PlacePurchase(h)
  PROVE  LET t == task[h] IN
         /\ t.request \in Requests /\ t.product \in Products /\ t.quantity \in Quantities
         /\ purchase[t.request] = NoPurchase
         /\ t.quantity \in 1..stock[t.product]
         /\ stock[t.product] - t.quantity \in Nat
<1>1. task[h].pc = "place" /\ ~task[h].stale /\ stock[task[h].product] >= task[h].quantity
  BY DEF PlacePurchase, Conflicts, InStock
<1>2. task[h].request \in Requests /\ task[h].product \in Products /\ task[h].quantity \in Quantities
  BY <1>1, TaskFields DEF Inv, TypeOK
<1>3. purchase[task[h].request] = NoPurchase
  BY <1>1 DEF Inv, Current
<1>4. task[h].quantity \in Nat \ {0} /\ stock[task[h].product] \in Nat
  BY <1>2, QuantitiesAssumption DEF Inv, TypeOK
<1> QED BY <1>1, <1>2, <1>3, <1>4

\* What a purchase is changed from.
LEMMA ChangeFacts ==
  ASSUME Inv, NEW h \in Handlers, SaveChange(h)
  PROVE  LET t == task[h]
             b == purchase[t.request]
         IN
         /\ t.request \in Requests /\ t.to \in {"accepted", "completed", "cancelled"}
         /\ b # NoPurchase /\ b \in Purchases
         /\ b.product \in Products /\ b.quantity \in Nat \ {0}
         /\ MayBecome(b.status, t.to)
<1>1. task[h].pc = "change" /\ ~task[h].stale
  BY DEF SaveChange, Conflicts
<1>2. task[h].request \in Requests /\ task[h].to \in {"accepted", "completed", "cancelled"}
  BY <1>1, TaskFields DEF Inv, TypeOK, Statuses
<1>3. purchase[task[h].request] # NoPurchase /\ MayBecome(purchase[task[h].request].status, task[h].to)
  BY <1>1 DEF Inv, Current
<1>4. TypeOK
  BY DEF Inv
<1> QED BY <1>2, <1>3, <1>4, PlacedFields

LEMMA PlaceKeeps ==
  ASSUME Inv, NEW h \in Handlers, PlacePurchase(h)
  PROVE  Inv'
<1> DEFINE r == task[h].request
           p == task[h].product
           q == task[h].quantity
           new == [product |-> p, quantity |-> q, status |-> "new"]
<1>1. r \in Requests /\ p \in Products /\ q \in Quantities /\ stock[p] - q \in Nat
  BY PlaceFacts
<1>2. new \in Purchases
  BY <1>1 DEF Purchases, Statuses
<1>3. purchase' = [purchase EXCEPT ![r] = new] /\ stock' = [stock EXCEPT ![p] = stock[p] - q]
  BY DEF PlacePurchase
<1>4. TypeOK /\ Commit(h, {r, p}) /\ UNCHANGED <<soldCount, isActive, deleted, supplied>>
  BY DEF PlacePurchase, Inv
<1>5. TypeOK'
  <2>1. task' \in [Handlers -> Tasks]
    BY <1>4, CommitTypes
  <2>2. purchase' \in [Requests -> Purchases \cup {NoPurchase}]
    BY <1>2, <1>3, <1>4 DEF TypeOK
  <2>3. stock' \in [Products -> Nat]
    BY <1>1, <1>3, <1>4 DEF TypeOK
  <2> QED BY <1>4, <2>1, <2>2, <2>3 DEF TypeOK
<1>6. \A s \in Requests : purchase'[s] # purchase[s] => s \in {r, p} /\ purchase'[s] # NoPurchase
  BY <1>2, <1>3, <1>4, NoPurchaseAssumption DEF TypeOK
<1> QED BY <1>4, <1>5, <1>6, CommitKeeps

LEMMA ChangeKeeps ==
  ASSUME Inv, NEW h \in Handlers, SaveChange(h)
  PROVE  Inv'
<1> DEFINE r == task[h].request
           b == purchase[r]
           p == b.product
           q == b.quantity
           changed == [b EXCEPT !.status = task[h].to]
<1>1. /\ r \in Requests /\ task[h].to \in {"accepted", "completed", "cancelled"}
      /\ b \in Purchases /\ p \in Products /\ q \in Nat
  BY ChangeFacts
<1>2. changed \in Purchases
  BY <1>1 DEF Purchases, Statuses
<1>3. /\ TypeOK /\ Commit(h, Writes(task[h])) /\ UNCHANGED <<isActive, deleted, supplied>>
      /\ task[h].pc = "change"
  BY DEF SaveChange, Inv
<1>4. purchase' = [purchase EXCEPT ![r] = changed]
  BY <1>1 DEF SaveChange
<1>5. /\ stock' = [stock EXCEPT ![p] = stock[p] + q] \/ stock' = stock
      /\ soldCount' = [soldCount EXCEPT ![p] = soldCount[p] + q] \/ soldCount' = soldCount
  BY DEF SaveChange
<1>6. TypeOK'
  <2>1. task' \in [Handlers -> Tasks]
    BY <1>3, CommitTypes
  <2>2. purchase' \in [Requests -> Purchases \cup {NoPurchase}]
    BY <1>2, <1>3, <1>4 DEF TypeOK
  <2>3. stock[p] + q \in Nat /\ soldCount[p] + q \in Nat
    BY <1>1, <1>3 DEF TypeOK
  <2>4. stock' \in [Products -> Nat]
    BY <1>3, <1>5, <2>3 DEF TypeOK
  <2>5. soldCount' \in [Products -> Nat]
    BY <1>3, <1>5, <2>3 DEF TypeOK
  <2> QED BY <1>3, <2>1, <2>2, <2>4, <2>5 DEF TypeOK
<1>7. r \in Writes(task[h])
  BY <1>3 DEF Writes
<1>8. \A s \in Requests : purchase'[s] # purchase[s] =>
                            s \in Writes(task[h]) /\ purchase'[s] # NoPurchase
  BY <1>2, <1>3, <1>4, <1>7, NoPurchaseAssumption DEF TypeOK
<1> QED BY <1>3, <1>6, <1>8, CommitKeeps

-----------------------------------------------------------------------------
(* Every step keeps the invariant. *)

LEMMA PurchaseKeeps ==
  ASSUME Inv, NEW h \in Handlers,
         \/ \E r \in Requests, p \in Products, q \in Quantities : Submit(h, r, p, q)
         \/ OpenPurchase(h) \/ PlacePurchase(h) \/ RetryPurchase(h)
  PROVE  Inv'
<1>1. ASSUME NEW r \in Requests, NEW p \in Products, NEW q \in Quantities, Submit(h, r, p, q)
      PROVE Inv'
  <2> DEFINE t == [pc |-> "buy", request |-> r, product |-> p, quantity |-> q, stale |-> FALSE]
  <2>1. t \in Tasks /\ t.pc = "buy"
    BY DEF Tasks, Buying
  <2>2. Become(h, t) /\ UNCHANGED <<productVars, purchase>>
    BY <1>1 DEF Submit
  <2> HIDE DEF t
  <2> QED BY <2>1, <2>2, BecomeKeeps
<1>2. CASE OpenPurchase(h)
  <2> DEFINE t == [task[h] EXCEPT !.pc = "place", !.stale = FALSE]
  <2>1. task[h] \in Buying
    BY <1>2, TaskFields DEF OpenPurchase, Inv, TypeOK
  <2>2. t \in Tasks /\ t.pc = "place" /\ t.request = task[h].request
    BY <2>1 DEF Buying, Tasks
  <2>3. UNCHANGED <<productVars, purchase>>
    BY <1>2 DEF OpenPurchase
  <2>4. CASE Return(h)
    BY <2>3, <2>4, ReturnKeeps
  <2>5. CASE Become(h, t) /\ purchase[task[h].request] = NoPurchase
    <3> HIDE DEF t
    <3> QED BY <2>2, <2>3, <2>5, BecomeKeeps
  <2> QED BY <1>2, <2>4, <2>5 DEF OpenPurchase, Placed
<1>3. CASE PlacePurchase(h)
  BY <1>3, PlaceKeeps
<1>4. CASE RetryPurchase(h)
  <2> DEFINE t == [task[h] EXCEPT !.pc = "buy"]
  <2>1. task[h] \in Buying
    BY <1>4, TaskFields DEF RetryPurchase, Inv, TypeOK
  <2>2. t \in Tasks /\ t.pc = "buy"
    BY <2>1 DEF Buying, Tasks
  <2>3. Become(h, t) /\ UNCHANGED <<productVars, purchase>>
    BY <1>4 DEF RetryPurchase, Goto
  <2> HIDE DEF t
  <2> QED BY <2>2, <2>3, BecomeKeeps
<1> QED BY <1>1, <1>2, <1>3, <1>4

LEMMA StatusKeeps ==
  ASSUME Inv, NEW h \in Handlers,
         \/ \E r \in Requests, to \in Statuses \ {"new"} : UpdatePurchase(h, r, to)
         \/ OpenChange(h) \/ SaveChange(h) \/ RetryChange(h)
  PROVE  Inv'
<1>1. ASSUME NEW r \in Requests, NEW to \in Statuses \ {"new"}, UpdatePurchase(h, r, to)
      PROVE Inv'
  <2> DEFINE t == [pc |-> "open", request |-> r, to |-> to, stale |-> FALSE]
  <2>1. t \in Tasks /\ t.pc = "open" /\ t.request = r
    BY DEF Tasks, Changing
  <2>2. Become(h, t) /\ UNCHANGED <<productVars, purchase>> /\ purchase[r] # NoPurchase
    BY <1>1 DEF UpdatePurchase, Placed
  <2> HIDE DEF t
  <2> QED BY <2>1, <2>2, BecomeKeeps
<1>2. CASE OpenChange(h)
  <2> DEFINE t == [task[h] EXCEPT !.pc = "change", !.stale = FALSE]
  <2>1. task[h] \in Changing /\ purchase[task[h].request] # NoPurchase
    BY <1>2, TaskFields DEF OpenChange, Inv, TypeOK, Current
  <2>2. t \in Tasks /\ t.pc = "change" /\ t.request = task[h].request /\ t.to = task[h].to
    BY <2>1 DEF Changing, Tasks
  <2>3. UNCHANGED <<productVars, purchase>>
    BY <1>2 DEF OpenChange
  <2>4. CASE Return(h)
    BY <2>3, <2>4, ReturnKeeps
  <2>5. CASE Become(h, t) /\ MayBecome(purchase[task[h].request].status, task[h].to)
    <3> HIDE DEF t
    <3> QED BY <2>1, <2>2, <2>3, <2>5, BecomeKeeps
  <2> QED BY <1>2, <2>4, <2>5 DEF OpenChange
<1>3. CASE SaveChange(h)
  BY <1>3, ChangeKeeps
<1>4. CASE RetryChange(h)
  <2> DEFINE t == [task[h] EXCEPT !.pc = "open"]
  <2>1. task[h] \in Changing /\ purchase[task[h].request] # NoPurchase
    BY <1>4, TaskFields DEF RetryChange, Inv, TypeOK, Current
  <2>2. t \in Tasks /\ t.pc = "open" /\ t.request = task[h].request
    BY <2>1 DEF Changing, Tasks
  <2>3. Become(h, t) /\ UNCHANGED <<productVars, purchase>>
    BY <1>4 DEF RetryChange, Goto
  <2> HIDE DEF t
  <2> QED BY <2>1, <2>2, <2>3, BecomeKeeps
<1> QED BY <1>1, <1>2, <1>3, <1>4

LEMMA ProductKeeps ==
  ASSUME Inv, NEW h \in Handlers,
         \/ \E p \in Products : \/ \E n \in Counts : UpdateProduct(h, p, n)
                                \/ DeleteProduct(h, p)
                                \/ \E show \in BOOLEAN : SetProductActive(h, p, show)
         \/ SaveEdit(h) \/ SaveDeletion(h) \/ SaveModeration(h)
         \/ Abandon(h)
  PROVE  Inv'
<1>1. ASSUME NEW p \in Products, NEW n \in Counts, UpdateProduct(h, p, n) PROVE Inv'
  <2> DEFINE t == [pc |-> "edit", product |-> p, count |-> n, changes |-> n # stock[p]]
  <2>1. t \in Tasks /\ t.pc = "edit"
    BY DEF Tasks, Editing
  <2>2. Become(h, t) /\ UNCHANGED <<productVars, purchase>>
    BY <1>1 DEF UpdateProduct
  <2> HIDE DEF t
  <2> QED BY <2>1, <2>2, BecomeKeeps
<1>2. ASSUME NEW p \in Products, DeleteProduct(h, p) PROVE Inv'
  <2> DEFINE t == [pc |-> "remove", product |-> p]
  <2>1. t \in Tasks /\ t.pc = "remove"
    BY DEF Tasks, Removing
  <2>2. Become(h, t) /\ UNCHANGED <<productVars, purchase>>
    BY <1>2 DEF DeleteProduct
  <2> HIDE DEF t
  <2> QED BY <2>1, <2>2, BecomeKeeps
<1>3. ASSUME NEW p \in Products, NEW show \in BOOLEAN, SetProductActive(h, p, show) PROVE Inv'
  <2> DEFINE t == [pc |-> "moderate", product |-> p, show |-> show, changes |-> show # isActive[p]]
  <2>1. t \in Tasks /\ t.pc = "moderate"
    BY DEF Tasks, Moderating
  <2>2. Become(h, t) /\ UNCHANGED <<productVars, purchase>>
    BY <1>3 DEF SetProductActive
  <2> HIDE DEF t
  <2> QED BY <2>1, <2>2, BecomeKeeps
<1> DEFINE p == task[h].product
<1>4. TypeOK /\ task[h] \in Tasks
  BY DEF Inv, TypeOK
<1>5. CASE SaveEdit(h)
  <2> DEFINE n == IF task[h].changes THEN task[h].count ELSE stock[p]
  <2>1. p \in Products /\ task[h].count \in Counts
    BY <1>4, <1>5, TaskFields DEF SaveEdit
  <2>2. n \in Nat /\ stock[p] \in Nat /\ supplied[p] \in Int
    BY <1>4, <2>1, CountsAssumption DEF TypeOK
  <2>3. /\ stock' = [stock EXCEPT ![p] = n] /\ supplied' = [supplied EXCEPT ![p] = @ + n - stock[p]]
        /\ Commit(h, {p}) /\ UNCHANGED <<soldCount, isActive, deleted, purchase>>
    BY <1>5 DEF SaveEdit
  <2> HIDE DEF n
  <2>4. task' \in [Handlers -> Tasks]
    BY <1>4, <2>3, CommitTypes
  <2>5. TypeOK'
    BY <1>4, <2>1, <2>2, <2>3, <2>4 DEF TypeOK
  <2> QED BY <2>3, <2>5, CommitKeeps
<1>6. CASE SaveDeletion(h)
  <2>1. Commit(h, {p}) /\ UNCHANGED <<stock, soldCount, supplied, purchase>>
    BY <1>6 DEF SaveDeletion
  <2>2. isActive' \in [Products -> BOOLEAN] /\ deleted' \in [Products -> BOOLEAN]
    BY <1>4, <1>6 DEF SaveDeletion, TypeOK
  <2>3. task' \in [Handlers -> Tasks]
    BY <1>4, <2>1, CommitTypes
  <2>4. TypeOK'
    BY <1>4, <2>1, <2>2, <2>3 DEF TypeOK
  <2> QED BY <2>1, <2>4, CommitKeeps
<1>7. CASE SaveModeration(h)
  <2>1. p \in Products /\ task[h].show \in BOOLEAN /\ task[h].changes \in BOOLEAN
    BY <1>4, <1>7, TaskFields DEF SaveModeration
  <2>2. UNCHANGED <<stock, soldCount, deleted, supplied, purchase>>
    BY <1>7 DEF SaveModeration
  <2>3. CASE task[h].changes
    <3>1. Commit(h, {p}) /\ isActive' \in [Products -> BOOLEAN]
      BY <1>4, <1>7, <2>1, <2>3 DEF SaveModeration, TypeOK
    <3>2. task' \in [Handlers -> Tasks]
      BY <1>4, <3>1, CommitTypes
    <3>3. TypeOK'
      BY <1>4, <2>2, <3>1, <3>2 DEF TypeOK
    <3> QED BY <2>2, <3>1, <3>3, CommitKeeps
  <2>4. CASE ~task[h].changes
    <3>1. Return(h) /\ UNCHANGED <<productVars, purchase>>
      BY <1>7, <2>2, <2>4 DEF SaveModeration, productVars
    <3> QED BY <3>1, ReturnKeeps
  <2> QED BY <2>3, <2>4
<1>8. CASE Abandon(h)
  BY <1>8, ReturnKeeps DEF Abandon
<1> QED BY <1>1, <1>2, <1>3, <1>5, <1>6, <1>7, <1>8

LEMMA StepKeeps == Inv /\ [Next]_vars => Inv'
<1> SUFFICES ASSUME Inv, [Next]_vars PROVE Inv'
  OBVIOUS
<1>1. CASE UNCHANGED vars
  BY <1>1 DEF vars, productVars, Inv, TypeOK, Current, MayBecome
<1>2. ASSUME NEW h \in Handlers, Handle(h) PROVE Inv'
  BY <1>2, PurchaseKeeps, StatusKeeps, ProductKeeps DEF Handle
<1> QED BY <1>1, <1>2 DEF Next

LEMMA InitHolds == Init => Inv
<1> SUFFICES ASSUME Init PROVE Inv
  OBVIOUS
<1>1. NoTask \in Tasks /\ NoTask.pc = "idle"
  BY DEF Tasks, NoTask
<1>2. TypeOK
  BY <1>1, InitiallyAssumption DEF Init, TypeOK
<1> QED BY <1>1, <1>2 DEF Init, Inv, Current

LEMMA Invariance == Spec => []Inv
BY InitHolds, StepKeeps, PTL DEF Spec

\* Stock never goes below zero, for any quantities bought, edits of the stock and
\* interleaving of their handlers: createPurchase takes what it has found in a
\* snapshot that is still current.
THEOREM StockNeverNegative == Spec => []TypeOK
<1>1. Inv => TypeOK
  BY DEF Inv
<1> QED BY <1>1, Invariance, PTL

-----------------------------------------------------------------------------
(* The refinement. *)

LEMMA PlaceIsOneEvent ==
  ASSUME Inv, NEW h \in Handlers, PlacePurchase(h)
  PROVE  Stock!INext
<1> DEFINE r == task[h].request
           p == task[h].product
<1>1. /\ r \in Requests /\ p \in Products /\ purchase[r] = NoPurchase
      /\ task[h].quantity \in 1..stock[p]
  BY PlaceFacts
<1>2. Stock!IPlace(r, p)
  BY <1>1 DEF PlacePurchase, Stock!IPlace
<1> QED BY <1>1, <1>2 DEF Stock!INext

LEMMA ChangeIsOneEvent ==
  ASSUME Inv, NEW h \in Handlers, SaveChange(h)
  PROVE  \E r \in Requests : Stock!IAccept(r) \/ Stock!IComplete(r) \/ Stock!ICancel(r)
<1> DEFINE r == task[h].request
           to == task[h].to
<1>1. /\ r \in Requests /\ to \in {"accepted", "completed", "cancelled"}
      /\ purchase[r] # NoPurchase /\ MayBecome(purchase[r].status, to)
  BY ChangeFacts
<1>2. CASE to = "accepted"
  <2>1. Stock!IAccept(r)
    BY <1>1, <1>2 DEF SaveChange, GivesBack, MayBecome, Stock!IAccept, Stock!Becomes
  <2> QED BY <1>1, <2>1
<1>3. CASE to = "completed"
  <2>1. Stock!IComplete(r)
    BY <1>1, <1>3 DEF SaveChange, GivesBack, MayBecome, Stock!IComplete, Stock!Becomes
  <2> QED BY <1>1, <2>1
<1>4. CASE to = "cancelled"
  <2>1. Stock!ICancel(r)
    BY <1>1, <1>4 DEF SaveChange, GivesBack, MayBecome, Stock!ICancel, Stock!Becomes
  <2> QED BY <1>1, <2>1
<1> QED BY <1>1, <1>2, <1>3, <1>4

LEMMA EditIsOneEvent ==
  ASSUME Inv, NEW h \in Handlers, SaveEdit(h)
  PROVE  \E p \in Products : Stock!IRecount(p)
<1> DEFINE p == task[h].product
           n == IF task[h].changes THEN task[h].count ELSE stock[p]
<1>1. TypeOK /\ task[h] \in Tasks
  BY DEF Inv, TypeOK
<1>2. p \in Products /\ task[h].count \in Counts
  BY <1>1, TaskFields DEF SaveEdit
<1>3. n \in Nat
  BY <1>1, <1>2, CountsAssumption DEF TypeOK
<1>4. /\ stock' = [stock EXCEPT ![p] = n]
      /\ supplied' = [supplied EXCEPT ![p] = @ + n - stock[p]]
      /\ UNCHANGED <<soldCount, purchase>>
  BY DEF SaveEdit
<1> HIDE DEF n
<1>5. stock'[p] = n
  BY <1>1, <1>2, <1>4 DEF TypeOK
<1>6. Stock!IRecount(p)
  BY <1>3, <1>4, <1>5 DEF Stock!IRecount
<1> QED BY <1>2, <1>6

\* The events a step can be.
LEMMA StepIsEvent ==
  ASSUME Inv, [Next]_vars
  PROVE  \/ \E h \in Handlers : PlacePurchase(h)
         \/ \E r \in Requests : Stock!IAccept(r) \/ Stock!IComplete(r) \/ Stock!ICancel(r)
         \/ \E p \in Products : Stock!IRecount(p)
         \/ UNCHANGED <<stock, soldCount, supplied, purchase>>
<1>1. CASE UNCHANGED vars
  BY <1>1 DEF vars, productVars
<1>2. ASSUME NEW h \in Handlers, Handle(h), ~PlacePurchase(h), ~SaveChange(h), ~SaveEdit(h)
      PROVE  UNCHANGED <<stock, soldCount, supplied, purchase>>
  BY <1>2 DEF Handle, Submit, OpenPurchase, RetryPurchase, UpdatePurchase, OpenChange,
     RetryChange, UpdateProduct, DeleteProduct, SetProductActive, SaveDeletion,
     SaveModeration, Abandon, productVars
<1> QED BY <1>1, <1>2, ChangeIsOneEvent, EditIsOneEvent DEF Next

LEMMA StepRefines == Inv /\ [Next]_vars => [Stock!INext]_(Stock!inventoryVars)
<1> SUFFICES ASSUME Inv, [Next]_vars
             PROVE  Stock!INext \/ UNCHANGED <<stock, soldCount, supplied, purchase>>
  BY DEF Stock!inventoryVars
<1> QED BY StepIsEvent, PlaceIsOneEvent DEF Stock!INext

\* The transactions of the shop are the single events of Inventory: a purchase takes
\* stock once, follows its statuses and gives stock back once, whatever repeats,
\* overlaps or aborts.
THEOREM ShopImplementsInventory == Spec => ImplementsInventory
<1>1. Init => Stock!IInit
  BY DEF Init, Stock!IInit
<1> QED BY <1>1, Invariance, StepRefines, PTL DEF Spec, ImplementsInventory, Stock!ISpec

-----------------------------------------------------------------------------
(* The sums.  They follow from the events of Inventory: a placed purchase  *)
(* keeps its product and quantity, and moves the quantity between the      *)
(* shelf and the sums as its status changes.                               *)

Live == {"new", "accepted", "completed"}
Quantity == [r \in Requests |-> purchase[r].quantity]
PlacedOnes == {r \in Requests : Placed(r)}
OrderedOnes(p, statuses) ==
  {r \in PlacedOnes : purchase[r].product = p /\ purchase[r].status \in statuses}
Held(p, statuses) == SumFunctionOnSet(Quantity, OrderedOnes(p, statuses))

SumsInv ==
  /\ IsFiniteSet(PlacedOnes)
  /\ \A p \in Products : /\ stock[p] + Held(p, Live) = supplied[p]
                         /\ soldCount[p] = Held(p, {"completed"})

LEMMA QuantityNat == ASSUME TypeOK, NEW r \in PlacedOnes PROVE Quantity[r] \in Nat
BY PlacedFields DEF PlacedOnes, Placed, Quantity

LEMMA HeldInt ==
  ASSUME TypeOK, IsFiniteSet(PlacedOnes), NEW p, NEW statuses
  PROVE  /\ IsFiniteSet(OrderedOnes(p, statuses))
         /\ \A r \in OrderedOnes(p, statuses) : Quantity[r] \in Int
         /\ Held(p, statuses) \in Int
<1>1. OrderedOnes(p, statuses) \subseteq PlacedOnes
  BY DEF OrderedOnes
<1>2. IsFiniteSet(OrderedOnes(p, statuses))
  BY <1>1, FS_Subset
<1>3. \A r \in OrderedOnes(p, statuses) : Quantity[r] \in Int
  BY <1>1, QuantityNat
<1> QED BY <1>2, <1>3, SumInt DEF Held

\* What the sum of a group of purchases is that stays, gains one or loses one.
LEMMA HeldStays ==
  ASSUME TypeOK, IsFiniteSet(PlacedOnes), NEW p, NEW statuses,
         OrderedOnes(p, statuses)' = OrderedOnes(p, statuses),
         \A r \in PlacedOnes : Quantity'[r] = Quantity[r]
  PROVE  Held(p, statuses)' = Held(p, statuses)
<1>1. \A r \in OrderedOnes(p, statuses) : Quantity'[r] = Quantity[r]
  BY DEF OrderedOnes
<1> QED BY <1>1, HeldInt, SumAgree DEF Held

LEMMA HeldGains ==
  ASSUME TypeOK, IsFiniteSet(PlacedOnes), NEW p, NEW statuses, NEW r,
         r \notin OrderedOnes(p, statuses), Quantity'[r] \in Nat,
         OrderedOnes(p, statuses)' = OrderedOnes(p, statuses) \cup {r},
         \A s \in PlacedOnes : Quantity'[s] = Quantity[s]
  PROVE  Held(p, statuses)' = Held(p, statuses) + Quantity'[r]
<1>1. \A s \in OrderedOnes(p, statuses) : Quantity'[s] = Quantity[s]
  BY DEF OrderedOnes
<1>2. IsFiniteSet(OrderedOnes(p, statuses)) /\ \A s \in OrderedOnes(p, statuses) \cup {r} : Quantity'[s] \in Int
  BY <1>1, HeldInt
<1>3. SumFunctionOnSet(Quantity', OrderedOnes(p, statuses) \cup {r})
        = SumFunctionOnSet(Quantity', OrderedOnes(p, statuses)) + Quantity'[r]
  BY <1>2, SumAdd
<1>4. SumFunctionOnSet(Quantity', OrderedOnes(p, statuses)) = SumFunctionOnSet(Quantity, OrderedOnes(p, statuses))
  BY <1>1, <1>2, SumAgree
<1> QED BY <1>3, <1>4 DEF Held

LEMMA HeldLoses ==
  ASSUME TypeOK, IsFiniteSet(PlacedOnes), NEW p, NEW statuses, NEW r,
         r \in OrderedOnes(p, statuses),
         OrderedOnes(p, statuses)' = OrderedOnes(p, statuses) \ {r},
         \A s \in PlacedOnes : Quantity'[s] = Quantity[s]
  PROVE  Held(p, statuses)' = Held(p, statuses) - Quantity[r]
<1> DEFINE rest == OrderedOnes(p, statuses) \ {r}
<1>1. \A s \in rest : Quantity'[s] = Quantity[s]
  BY DEF OrderedOnes
<1>2. /\ IsFiniteSet(OrderedOnes(p, statuses)) /\ \A s \in OrderedOnes(p, statuses) : Quantity[s] \in Int
      /\ IsFiniteSet(rest)
  BY HeldInt, FS_Subset
<1>3. SumFunctionOnSet(Quantity, OrderedOnes(p, statuses)) = Quantity[r] + SumFunctionOnSet(Quantity, rest)
  BY <1>2, SumRemove
<1>4. SumFunctionOnSet(Quantity', rest) = SumFunctionOnSet(Quantity, rest)
  BY <1>1, <1>2, SumAgree
<1>5. SumFunctionOnSet(Quantity, rest) \in Int /\ Quantity[r] \in Int
  BY <1>2, SumInt
<1> QED BY <1>3, <1>4, <1>5 DEF Held

\* A purchase whose status changes is still placed, with its product and quantity.
LEMMA StatusChange ==
  ASSUME TypeOK, NEW r \in Requests, Placed(r), NEW s \in Statuses, Stock!Becomes(r, s)
  PROVE  /\ PlacedOnes' = PlacedOnes
         /\ \A i \in PlacedOnes : Quantity'[i] = Quantity[i]
         /\ \A p, statuses :
              /\ (p # purchase[r].product \/ (purchase[r].status \in statuses <=> s \in statuses))
                   => OrderedOnes(p, statuses)' = OrderedOnes(p, statuses)
              /\ (p = purchase[r].product /\ s \in statuses)
                   => OrderedOnes(p, statuses)' = OrderedOnes(p, statuses) \cup {r}
              /\ (p = purchase[r].product /\ s \notin statuses)
                   => OrderedOnes(p, statuses)' = OrderedOnes(p, statuses) \ {r}
<1>1. PICK b : b = [purchase[r] EXCEPT !.status = s]
  OBVIOUS
<1>2. purchase[r] \in Purchases
  BY PlacedFields DEF Placed
<1>3. /\ b \in Purchases /\ b.product = purchase[r].product /\ b.quantity = purchase[r].quantity
      /\ b.status = s
  BY <1>1, <1>2 DEF Purchases
<1>4. \A i \in Requests : purchase'[i] = IF i = r THEN b ELSE purchase[i]
  BY <1>1 DEF TypeOK, Stock!Becomes
<1>5. PlacedOnes' = PlacedOnes
  BY <1>3, <1>4, NoPurchaseAssumption DEF PlacedOnes, Placed
<1>6. \A i \in PlacedOnes : Quantity'[i] = Quantity[i]
  BY <1>3, <1>4 DEF PlacedOnes, Quantity
<1>7. \A i \in PlacedOnes : /\ purchase'[i].product = purchase[i].product
                            /\ purchase'[i].status = IF i = r THEN s ELSE purchase[i].status
  BY <1>3, <1>4 DEF PlacedOnes
<1>8. r \in PlacedOnes
  BY DEF PlacedOnes
<1> HIDE DEF Placed
<1>9. \A p, statuses : OrderedOnes(p, statuses)' =
        {i \in PlacedOnes : /\ purchase[i].product = p
                            /\ (IF i = r THEN s ELSE purchase[i].status) \in statuses}
  BY <1>5, <1>7 DEF OrderedOnes
<1>10. ASSUME NEW p, NEW statuses
       PROVE  /\ (p # purchase[r].product \/ (purchase[r].status \in statuses <=> s \in statuses))
                   => OrderedOnes(p, statuses)' = OrderedOnes(p, statuses)
              /\ (p = purchase[r].product /\ s \in statuses)
                   => OrderedOnes(p, statuses)' = OrderedOnes(p, statuses) \cup {r}
              /\ (p = purchase[r].product /\ s \notin statuses)
                   => OrderedOnes(p, statuses)' = OrderedOnes(p, statuses) \ {r}
  <2>1. \A i : i \in OrderedOnes(p, statuses)' <=>
                (/\ i \in PlacedOnes /\ purchase[i].product = p
                 /\ (i = r => s \in statuses) /\ (i # r => purchase[i].status \in statuses))
    BY <1>9
  <2>2. \A i : i \in OrderedOnes(p, statuses) <=>
                (i \in PlacedOnes /\ purchase[i].product = p /\ purchase[i].status \in statuses)
    BY DEF OrderedOnes
  <2>3. CASE p # purchase[r].product \/ (purchase[r].status \in statuses <=> s \in statuses)
    <3>1. \A i : i \in OrderedOnes(p, statuses)' <=> i \in OrderedOnes(p, statuses)
      BY <2>1, <2>2, <2>3
    <3>2. OrderedOnes(p, statuses)' = OrderedOnes(p, statuses)
      BY <3>1
    <3> QED BY <2>1, <2>2, <2>3, <1>8, <3>2
  <2>4. CASE p = purchase[r].product /\ s \in statuses
    <3>1. \A i : i \in OrderedOnes(p, statuses)' <=> i \in OrderedOnes(p, statuses) \cup {r}
      BY <1>8, <2>1, <2>2, <2>4
    <3>2. OrderedOnes(p, statuses)' = OrderedOnes(p, statuses) \cup {r}
      BY <3>1
    <3>3. purchase[r].status \in statuses => OrderedOnes(p, statuses) \cup {r} = OrderedOnes(p, statuses)
      BY <1>8, <2>2, <2>4
    <3> QED BY <2>4, <3>2, <3>3
  <2>5. CASE p = purchase[r].product /\ s \notin statuses
    <3>1. \A i : i \in OrderedOnes(p, statuses)' <=> i \in OrderedOnes(p, statuses) \ {r}
      BY <2>1, <2>2, <2>5
    <3>2. OrderedOnes(p, statuses)' = OrderedOnes(p, statuses) \ {r}
      BY <3>1
    <3>3. purchase[r].status \notin statuses => OrderedOnes(p, statuses) \ {r} = OrderedOnes(p, statuses)
      BY <2>2
    <3> QED BY <2>5, <3>2, <3>3
  <2> QED BY <2>3, <2>4, <2>5
<1> QED BY <1>5, <1>6, <1>10

LEMMA SumsPlace ==
  ASSUME Inv, TypeOK', SumsInv, NEW h \in Handlers, PlacePurchase(h)
  PROVE  SumsInv'
<1> USE DEF SumsInv
<1>0. TypeOK
  BY DEF Inv
<1>1. PICK r \in Requests, p \in Products, q \in Quantities :
        r = task[h].request /\ p = task[h].product /\ q = task[h].quantity
  BY PlaceFacts
<1>2. PICK b : b = [product |-> p, quantity |-> q, status |-> "new"]
  OBVIOUS
<1>3. /\ purchase[r] = NoPurchase /\ UNCHANGED <<soldCount, supplied>>
      /\ purchase' = [purchase EXCEPT ![r] = b] /\ stock' = [stock EXCEPT ![p] = @ - q]
  BY <1>1, <1>2, PlaceFacts DEF PlacePurchase
<1>4. b.product = p /\ b.quantity = q /\ b.status = "new" /\ q \in Nat /\ stock[p] \in Nat
  BY <1>0, <1>2, QuantitiesAssumption DEF TypeOK
<1>5. \A i \in Requests : purchase'[i] = IF i = r THEN b ELSE purchase[i]
  BY <1>0, <1>3 DEF TypeOK
<1>6. b # NoPurchase
  BY <1>2, NoPurchaseAssumption DEF Purchases, Statuses
<1>7. r \notin PlacedOnes /\ PlacedOnes' = PlacedOnes \cup {r}
  BY <1>3, <1>5, <1>6 DEF PlacedOnes, Placed
<1>8. IsFiniteSet(PlacedOnes')
  BY <1>7, FS_AddElement
<1>9. (\A i \in PlacedOnes : Quantity'[i] = Quantity[i]) /\ Quantity'[r] = q
  BY <1>4, <1>5, <1>7 DEF PlacedOnes, Quantity
<1>10. \A k \in PlacedOnes : purchase'[k] = purchase[k]
  BY <1>5, <1>7 DEF PlacedOnes
<1>11. ASSUME NEW i, NEW statuses, i # p \/ "new" \notin statuses
       PROVE  OrderedOnes(i, statuses)' = OrderedOnes(i, statuses)
  BY <1>4, <1>5, <1>7, <1>10, <1>11 DEF OrderedOnes
<1>12. OrderedOnes(p, Live)' = OrderedOnes(p, Live) \cup {r} /\ r \notin OrderedOnes(p, Live)
  BY <1>4, <1>5, <1>7, <1>10 DEF OrderedOnes, Live
<1>13. Held(p, Live)' = Held(p, Live) + q
  BY <1>0, <1>4, <1>9, <1>12, HeldGains
<1>14. \A i \in Products : Held(i, {"completed"})' = Held(i, {"completed"})
  BY <1>0, <1>9, <1>11, HeldStays
<1>15. \A i \in Products : i # p => Held(i, Live)' = Held(i, Live)
  BY <1>0, <1>9, <1>11, HeldStays
<1>16. stock'[p] = stock[p] - q /\ \A i \in Products : i # p => stock'[i] = stock[i]
  BY <1>0, <1>3 DEF TypeOK
<1>17. Held(p, Live) \in Int
  BY <1>0, HeldInt
<1> QED BY <1>3, <1>4, <1>8, <1>13, <1>14, <1>15, <1>16, <1>17

LEMMA SumsNext ==
  ASSUME Inv, Inv', SumsInv, [Next]_vars
  PROVE  SumsInv'
<1> USE DEF SumsInv
<1>0. TypeOK /\ TypeOK'
  BY DEF Inv
<1>1. CASE UNCHANGED <<stock, soldCount, supplied, purchase>>
  <2>1. UNCHANGED <<stock, soldCount, supplied, purchase>>
    BY <1>1
  <2>2. PlacedOnes' = PlacedOnes /\ Quantity' = Quantity
    BY <2>1 DEF PlacedOnes, Placed, Quantity
  <2>3. \A p, statuses : OrderedOnes(p, statuses)' = OrderedOnes(p, statuses)
    BY <2>1, <2>2 DEF OrderedOnes
  <2> QED BY <2>1, <2>2, <2>3, <1>0, HeldStays
<1>3. ASSUME NEW r \in Requests, Stock!IAccept(r) PROVE SumsInv'
  <2>1. /\ Placed(r) /\ purchase[r].status = "new" /\ Stock!Becomes(r, "accepted")
        /\ UNCHANGED <<stock, soldCount, supplied>>
    BY <1>3 DEF Stock!IAccept, Placed
  <2>2. /\ PlacedOnes' = PlacedOnes /\ \A i \in PlacedOnes : Quantity'[i] = Quantity[i]
        /\ \A p : OrderedOnes(p, Live)' = OrderedOnes(p, Live)
        /\ \A p : OrderedOnes(p, {"completed"})' = OrderedOnes(p, {"completed"})
    BY <2>1, <1>0, StatusChange DEF Statuses, Live
  <2>3. \A p : Held(p, Live)' = Held(p, Live) /\ Held(p, {"completed"})' = Held(p, {"completed"})
    BY <2>2, <1>0, HeldStays
  <2> QED BY <2>1, <2>2, <2>3
<1>4. ASSUME NEW r \in Requests, Stock!IComplete(r) PROVE SumsInv'
  <2>1. /\ Placed(r) /\ purchase[r].status = "accepted" /\ Stock!Becomes(r, "completed")
        /\ soldCount' = [soldCount EXCEPT ![purchase[r].product] = @ + purchase[r].quantity]
        /\ UNCHANGED <<stock, supplied>>
    BY <1>4 DEF Stock!IComplete, Placed
  <2>2. PICK p \in Products : p = purchase[r].product
    BY <2>1, <1>0, PlacedFields DEF Placed
  <2>3. /\ PlacedOnes' = PlacedOnes /\ \A i \in PlacedOnes : Quantity'[i] = Quantity[i]
        /\ \A i : OrderedOnes(i, Live)' = OrderedOnes(i, Live)
        /\ \A i : i # p => OrderedOnes(i, {"completed"})' = OrderedOnes(i, {"completed"})
        /\ OrderedOnes(p, {"completed"})' = OrderedOnes(p, {"completed"}) \cup {r}
    BY <2>1, <2>2, <1>0, StatusChange DEF Statuses, Live
  <2>4. r \in PlacedOnes /\ r \notin OrderedOnes(p, {"completed"}) /\ Quantity[r] = purchase[r].quantity
    BY <2>1 DEF PlacedOnes, OrderedOnes, Quantity
  <2>5. Quantity[r] \in Nat /\ Quantity'[r] = Quantity[r]
    BY <2>3, <2>4, <1>0, QuantityNat
  <2>6. Held(p, {"completed"})' = Held(p, {"completed"}) + Quantity[r]
    BY <2>3, <2>4, <2>5, <1>0, HeldGains
  <2>7. \A i \in Products : Held(i, Live)' = Held(i, Live)
    BY <2>3, <1>0, HeldStays
  <2>8. \A i \in Products : i # p => Held(i, {"completed"})' = Held(i, {"completed"})
    BY <2>3, <1>0, HeldStays
  <2>9. /\ soldCount'[p] = soldCount[p] + Quantity[r]
        /\ \A i \in Products : i # p => soldCount'[i] = soldCount[i]
    BY <1>0, <2>1, <2>2, <2>4 DEF TypeOK
  <2> QED BY <2>1, <2>3, <2>6, <2>7, <2>8, <2>9
<1>5. ASSUME NEW r \in Requests, Stock!ICancel(r) PROVE SumsInv'
  <2>1. /\ Placed(r) /\ purchase[r].status \in {"new", "accepted"} /\ Stock!Becomes(r, "cancelled")
        /\ stock' = [stock EXCEPT ![purchase[r].product] = @ + purchase[r].quantity]
        /\ UNCHANGED <<soldCount, supplied>>
    BY <1>5 DEF Stock!ICancel, Placed
  <2>2. PICK p \in Products : p = purchase[r].product
    BY <2>1, <1>0, PlacedFields DEF Placed
  <2>3. /\ PlacedOnes' = PlacedOnes /\ \A i \in PlacedOnes : Quantity'[i] = Quantity[i]
        /\ \A i : OrderedOnes(i, {"completed"})' = OrderedOnes(i, {"completed"})
        /\ \A i : i # p => OrderedOnes(i, Live)' = OrderedOnes(i, Live)
        /\ OrderedOnes(p, Live)' = OrderedOnes(p, Live) \ {r}
    BY <2>1, <2>2, <1>0, StatusChange DEF Statuses, Live
  <2>4. r \in PlacedOnes /\ r \in OrderedOnes(p, Live) /\ Quantity[r] = purchase[r].quantity
    BY <2>1, <2>2 DEF PlacedOnes, OrderedOnes, Quantity, Live
  <2>5. Quantity[r] \in Nat
    BY <2>4, <1>0, QuantityNat
  <2>6. Held(p, Live)' = Held(p, Live) - Quantity[r]
    BY <2>3, <2>4, <1>0, HeldLoses
  <2>7. \A i \in Products : Held(i, {"completed"})' = Held(i, {"completed"})
    BY <2>3, <1>0, HeldStays
  <2>8. \A i \in Products : i # p => Held(i, Live)' = Held(i, Live)
    BY <2>3, <1>0, HeldStays
  <2>9. /\ stock'[p] = stock[p] + Quantity[r] /\ stock[p] \in Nat
        /\ \A i \in Products : i # p => stock'[i] = stock[i]
    BY <1>0, <2>1, <2>2, <2>4 DEF TypeOK
  <2>10. Held(p, Live) \in Int
    BY <1>0, HeldInt
  <2> QED BY <2>1, <2>3, <2>5, <2>6, <2>7, <2>8, <2>9, <2>10
<1>6. ASSUME NEW p \in Products, Stock!IRecount(p) PROVE SumsInv'
  <2>1. /\ stock' = [stock EXCEPT ![p] = stock'[p]]
        /\ supplied' = [supplied EXCEPT ![p] = @ + stock'[p] - stock[p]]
        /\ UNCHANGED <<soldCount, purchase>>
    BY <1>6 DEF Stock!IRecount
  <2>2. PlacedOnes' = PlacedOnes /\ Quantity' = Quantity
    BY <2>1 DEF PlacedOnes, Placed, Quantity
  <2>3. \A i, statuses : OrderedOnes(i, statuses)' = OrderedOnes(i, statuses)
    BY <2>1, <2>2 DEF OrderedOnes
  <2>4. \A i, statuses : Held(i, statuses)' = Held(i, statuses)
    BY <2>2, <2>3, <1>0, HeldStays
  <2>5. PICK n \in Nat : n = stock'[p]
    BY <1>0 DEF TypeOK
  <2>6. /\ supplied'[p] = supplied[p] + n - stock[p] /\ stock[p] \in Nat /\ supplied[p] \in Int
        /\ \A i \in Products : i # p => supplied'[i] = supplied[i] /\ stock'[i] = stock[i]
    BY <1>0, <2>1, <2>5 DEF TypeOK
  <2>7. Held(p, Live) \in Int
    BY <1>0, HeldInt
  <2> QED BY <2>1, <2>2, <2>4, <2>5, <2>6, <2>7
<1>2. ASSUME NEW h \in Handlers, PlacePurchase(h) PROVE SumsInv'
  BY <1>0, <1>2, SumsPlace
<1> QED BY <1>1, <1>2, <1>3, <1>4, <1>5, <1>6, StepIsEvent

LEMMA SumsInit == Init => SumsInv
<1> SUFFICES ASSUME Init PROVE SumsInv
  OBVIOUS
<1>1. PlacedOnes = {}
  BY DEF Init, PlacedOnes, Placed
<1>2. \A p, statuses : OrderedOnes(p, statuses) = {}
  BY <1>1 DEF OrderedOnes
<1>3. \A p, statuses : Held(p, statuses) = 0
  BY <1>2, SumEmpty DEF Held
<1> QED BY <1>1, <1>3, FS_EmptySet, InitiallyAssumption DEF Init, SumsInv

LEMMA OrderedIsHeld ==
  ASSUME IsFiniteSet(PlacedOnes), NEW p, NEW statuses
  PROVE  Ordered(p, statuses) = Held(p, statuses)
<1> DEFINE ones == OrderedOnes(p, statuses)
           f == [r \in ones |-> purchase[r].quantity]
<1>1. IsFiniteSet(ones) /\ ones \subseteq Requests
  BY FS_Subset DEF OrderedOnes, PlacedOnes
<1>2. ones = {r \in Requests : Placed(r) /\ purchase[r].product = p /\ purchase[r].status \in statuses}
  BY DEF OrderedOnes, PlacedOnes
<1>3. Ordered(p, statuses) = SumFunctionOnSet(f, ones)
  <2>1. Ordered(p, statuses) = SumFunction(f)
    BY <1>2 DEF Ordered
  <2>2. DOMAIN f = ones
    OBVIOUS
  <2> QED BY <2>1, <2>2, Zenon DEF SumFunction
<1>4. \A r \in ones : f[r] = Quantity[r]
  BY <1>1 DEF Quantity
<1> HIDE DEF f
<1> QED BY <1>1, <1>3, <1>4, SumAgree DEF Held

\* Nothing is lost or made up, for any products, quantities and number of handlers:
\* what is on the shelf and what live purchases hold is what the seller provided, and
\* what counts as sold is what the completed purchases took, however purchases,
\* retries and edits interleave and whoever repeats a completion.
THEOREM NothingIsLost == Spec => []StockAddsUp
<1>1. Inv /\ Inv' /\ SumsInv /\ [Next]_vars => SumsInv'
  BY SumsNext
<1>2. SumsInv => StockAddsUp
  BY OrderedIsHeld DEF SumsInv, StockAddsUp, Live
<1> QED BY <1>1, <1>2, SumsInit, Invariance, PTL DEF Spec
=============================================================================
