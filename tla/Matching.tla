------------------------------ MODULE Matching ------------------------------
(***************************************************************************)
(* The search for a pro and the life of a job: createOrder, cancelOrder    *)
(* and completeOrder of order.service.ts, startMatching, offerNext,        *)
(* passOffer, expireOffer, acceptOffer and abortMatching of                *)
(* matching.service.ts, and the offer-timeout job of the BullMQ worker.    *)
(*                                                                         *)
(* Every handler is cut at its awaits: one action is one MongoDB or Redis  *)
(* command (or one MongoDB transaction), and any number of handlers        *)
(* interleave between them.  What a handler remembers across an await is   *)
(* its task record; what survives it is in MongoDB or Redis.               *)
(***************************************************************************)
EXTENDS Integers, Sequences, FiniteSets

CONSTANTS
  Orders,        \* order ids
  Masters,       \* pros
  Clients,       \* clients
  ClientOf,      \* [Orders -> Clients], who posts which order
  CanServe,      \* the <<order, pro>> pairs of a matching trade, not one's own
  Fee,           \* env.ORDER_ACCEPT_FEE
  Funds,         \* [Masters -> Nat], the balances at the start
  Requests,      \* HTTP handlers that can be in flight at once
  Workers,       \* slots of the BullMQ matching worker
  Transactional, \* supportsTransactions(): replica set or standalone mongod
  Crashing,      \* the handlers that may die with their process
  Faults,        \* which of AllFaults the environment shows
  NoMaster, NoOrder, Free, Orphan

AllFaults == {"lateWorker", "armFails", "slowOffer", "quickPass", "queueExpires"}

Procs == Requests \cup Workers

ASSUME OrdersAssumption == IsFiniteSet(Orders)
ASSUME MastersAssumption == IsFiniteSet(Masters)
ASSUME ClientOfAssumption == ClientOf \in [Orders -> Clients]
ASSUME CanServeAssumption == CanServe \subseteq Orders \X Masters
ASSUME FeeAssumption == Fee \in Nat
ASSUME FundsAssumption == Funds \in [Masters -> Nat]
ASSUME TransactionalAssumption == Transactional \in BOOLEAN
ASSUME CrashingAssumption == Crashing \subseteq Procs
ASSUME FaultsAssumption == Faults \subseteq AllFaults
ASSUME NoMasterAssumption == NoMaster \notin Masters
ASSUME NoOrderAssumption == NoOrder \notin Orders
ASSUME LockAssumption == Free \notin Procs /\ Orphan \notin Procs /\ Free # Orphan

VARIABLES
  \* MongoDB
  status,        \* Order.status, "absent" before the document exists
  master,        \* Order.master
  offers,        \* Order.offers: the outcome recorded for each pro
  chat,          \* the order's Chat: "none", "open" or "closed" (isClosed)
  balance,       \* User.balance of each pro
  fees,          \* ORDER_FEE ledger entries, as <<order, pro>>
  completedJobs, \* MasterProfile.completedJobs
  cancelledJobs, \* MasterProfile.cancelledJobs
  \* Redis
  matchQueue,    \* match:queue:<order>, the candidates still to be tried
  matchOffer,    \* match:offer:<order>, the outstanding offer
  masterOffer,   \* match:master:<pro>, the order the pro is reserved for
  lock,          \* matching:advance:<order>, who advances the search
  timers,        \* the delayed offer-timeout jobs, as <<order, pro>>
  \* memory
  task           \* what each handler is doing

orderVars  == <<status, master, offers>>
walletVars == <<balance, fees>>
tallyVars  == <<completedJobs, cancelledJobs>>
redisVars  == <<matchQueue, matchOffer, masterOffer, lock, timers>>
vars == <<orderVars, chat, walletVars, tallyVars, redisVars, task>>

Statuses == {"absent", "pending", "matching", "accepted", "done", "cancelled"}
Outcomes == {"none", "pending", "accepted", "passed", "timeout"}

NoOffer == [master |-> NoMaster, fresh |-> FALSE]
Offers == [master : Masters, fresh : BOOLEAN] \cup {NoOffer}

Ops == {"none", "post", "pass", "expire", "accept", "cancel", "penalty", "complete"}
Labels == {"idle", "create", "candidates", "enqueue",
           "lock", "check", "dropStale", "outstanding", "pop", "reserve", "giveUp",
           "offer", "push", "arm", "undoRead", "undo", "unlock",
           "answer", "clearRead", "clear",
           "charge", "debit", "assign", "recredit", "mark", "ledger", "openChat", "dropQueue",
           "cancelWrite", "abortRead", "abortDrop", "penalise", "closeChat",
           "credit", "reopenChat"}

NoTask == [pc |-> "idle", op |-> "none", order |-> NoOrder, master |-> NoMaster,
           seen |-> "absent", mine |-> FALSE, found |-> <<>>]

Tasks == [pc : Labels, op : Ops, order : Orders \cup {NoOrder},
          master : Masters \cup {NoMaster}, seen : Statuses,
          mine : BOOLEAN, found : Seq(Masters)]

StoreTypeOK ==
  /\ status \in [Orders -> Statuses]
  /\ master \in [Orders -> Masters \cup {NoMaster}]
  /\ offers \in [Orders -> [Masters -> Outcomes]]
  /\ chat \in [Orders -> {"none", "open", "closed"}]
  /\ balance \in [Masters -> Nat]
  /\ fees \subseteq Orders \X Masters
  /\ completedJobs \in [Masters -> Nat]
  /\ cancelledJobs \in [Masters -> Nat]
  /\ matchQueue \in [Orders -> Seq(Masters)]
  /\ matchOffer \in [Orders -> Offers]
  /\ masterOffer \in [Masters -> Orders \cup {NoOrder}]
  /\ lock \in [Orders -> Procs \cup {Free, Orphan}]
  /\ timers \subseteq Orders \X Masters

\* The variables have their types: above all, no balance goes below zero, which
\* the condition of acceptOffer's $inc is there to prevent.
TypeOK == StoreTypeOK /\ task \in [Procs -> Tasks]

Init ==
  /\ status = [o \in Orders |-> "absent"]
  /\ master = [o \in Orders |-> NoMaster]
  /\ offers = [o \in Orders |-> [m \in Masters |-> "none"]]
  /\ chat = [o \in Orders |-> "none"]
  /\ balance = Funds
  /\ fees = {}
  /\ completedJobs = [m \in Masters |-> 0]
  /\ cancelledJobs = [m \in Masters |-> 0]
  /\ matchQueue = [o \in Orders |-> <<>>]
  /\ matchOffer = [o \in Orders |-> NoOffer]
  /\ masterOffer = [m \in Masters |-> NoOrder]
  /\ lock = [o \in Orders |-> Free]
  /\ timers = {}
  /\ task = [p \in Procs |-> NoTask]

-----------------------------------------------------------------------------
(* How a handler moves through its steps. *)

At(p, label) == task[p].pc = label
Become(p, t) == task' = [task EXCEPT ![p] = t]
Goto(p, label) == Become(p, [task[p] EXCEPT !.pc = label])
Return(p) == Become(p, NoTask)
Begin(p, op, label, o, m) ==
  /\ At(p, "idle")
  /\ Become(p, [NoTask EXCEPT !.pc = label, !.op = op, !.order = o, !.master = m])

Searching(o) == status[o] \in {"pending", "matching"}
\* The filter of every write that must not touch a job that has moved on.
StillOpen(o) == Searching(o) /\ master[o] = NoMaster

-----------------------------------------------------------------------------
(* createOrder, then startMatching in the same process, not awaited. *)

HasWaitingJob(c) == \E o \in Orders : ClientOf[o] = c /\ Searching(o)

CreateOrder(p, o) ==
  /\ p \in Requests
  /\ status[o] = "absent"
  /\ \A q \in Procs : task[q].op = "post" => task[q].order # o
  /\ ~HasWaitingJob(ClientOf[o])
  /\ IF Transactional
     THEN /\ Begin(p, "post", "candidates", o, NoMaster)
          /\ status' = [status EXCEPT ![o] = "pending"]
     ELSE /\ Begin(p, "post", "create", o, NoMaster)
          /\ UNCHANGED status
  /\ UNCHANGED <<master, offers, chat, walletVars, tallyVars, redisVars>>

\* Standalone mongod: the insert is a second command after the check.
InsertOrder(p) ==
  /\ At(p, "create")
  /\ status' = [status EXCEPT ![task[p].order] = "pending"]
  /\ Goto(p, "candidates")
  /\ UNCHANGED <<master, offers, chat, walletVars, tallyVars, redisVars>>

\* Whom the aggregation returns depends on who is available, near, recently
\* seen and best rated: any order of any pros who can serve and can pay.
Candidates(o) ==
  LET able == {m \in Masters : <<o, m>> \in CanServe /\ balance[m] >= Fee}
  IN {q \in UNION {[1..n -> able] : n \in 0..Cardinality(able)} :
        \A i, j \in DOMAIN q : q[i] = q[j] => i = j}

BuildCandidates(p) ==
  /\ At(p, "candidates")
  /\ \E q \in Candidates(task[p].order) :
       Become(p, [task[p] EXCEPT !.pc = "enqueue", !.found = q])
  /\ UNCHANGED <<orderVars, chat, walletVars, tallyVars, redisVars>>

\* DEL, then RPUSH: no handler reads the queue between the two.
EnqueueCandidates(p) ==
  /\ At(p, "enqueue")
  /\ matchQueue' = [matchQueue EXCEPT ![task[p].order] = task[p].found]
  /\ IF task[p].found = <<>>
     THEN Return(p)
     ELSE Become(p, [task[p] EXCEPT !.pc = "lock", !.found = <<>>])
  /\ UNCHANGED <<orderVars, chat, walletVars, tallyVars, matchOffer, masterOffer, lock, timers>>

-----------------------------------------------------------------------------
(* offerNext: the lock, then offerNextUnlocked. *)

\* SET NX; a caller that finds the lock taken throws MATCHING_BUSY.
AcquireLock(p) ==
  LET o == task[p].order IN
  /\ At(p, "lock")
  /\ IF lock[o] = Free
     THEN /\ lock' = [lock EXCEPT ![o] = p]
          /\ Become(p, [NoTask EXCEPT !.pc = "check", !.op = task[p].op, !.order = o])
     ELSE /\ Return(p)
          /\ UNCHANGED lock
  /\ UNCHANGED <<orderVars, chat, walletVars, tallyVars, matchQueue, matchOffer, masterOffer, timers>>

CheckSearching(p) ==
  /\ At(p, "check")
  /\ Goto(p, IF Searching(task[p].order) THEN "outstanding" ELSE "dropStale")
  /\ UNCHANGED <<orderVars, chat, walletVars, tallyVars, redisVars>>

Mutant_KeepStaleQueue(p) ==
  /\ At(p, "dropStale")
  /\ Goto(p, "unlock")
  /\ UNCHANGED <<orderVars, chat, walletVars, tallyVars, redisVars>>
DropStaleQueue(p) ==
  /\ At(p, "dropStale")
  /\ matchQueue' = [matchQueue EXCEPT ![task[p].order] = <<>>]
  /\ Goto(p, "unlock")
  /\ UNCHANGED <<orderVars, chat, walletVars, tallyVars, matchOffer, masterOffer, lock, timers>>

CheckOutstanding(p) ==
  /\ At(p, "outstanding")
  /\ Goto(p, IF matchOffer[task[p].order].fresh THEN "unlock" ELSE "pop")
  /\ UNCHANGED <<orderVars, chat, walletVars, tallyVars, redisVars>>

PopCandidate(p) ==
  LET o == task[p].order IN
  /\ At(p, "pop")
  /\ IF matchQueue[o] = <<>>
     THEN /\ Goto(p, "giveUp")
          /\ UNCHANGED matchQueue
     ELSE /\ Become(p, [task[p] EXCEPT !.pc = "reserve", !.master = Head(matchQueue[o])])
          /\ matchQueue' = [matchQueue EXCEPT ![o] = Tail(@)]
  /\ UNCHANGED <<orderVars, chat, walletVars, tallyVars, matchOffer, masterOffer, lock, timers>>

\* SET NX on the pro; one who is held for another job is dropped from the queue.
ReserveMaster(p) ==
  LET m == task[p].master IN
  /\ At(p, "reserve")
  /\ IF masterOffer[m] = NoOrder
     THEN /\ masterOffer' = [masterOffer EXCEPT ![m] = task[p].order]
          /\ Goto(p, "offer")
     ELSE /\ Become(p, [task[p] EXCEPT !.pc = "pop", !.master = NoMaster])
          /\ UNCHANGED masterOffer
  /\ UNCHANGED <<orderVars, chat, walletVars, tallyVars, matchQueue, matchOffer, lock, timers>>

GiveUp(p) ==
  LET o == task[p].order IN
  /\ At(p, "giveUp")
  /\ status' = IF StillOpen(o) THEN [status EXCEPT ![o] = "pending"] ELSE status
  /\ Goto(p, "unlock")
  /\ UNCHANGED <<master, offers, chat, walletVars, tallyVars, redisVars>>

SetOffer(p) ==
  /\ At(p, "offer")
  /\ matchOffer' = [matchOffer EXCEPT ![task[p].order] =
                      [master |-> task[p].master, fresh |-> TRUE]]
  /\ Goto(p, "push")
  /\ UNCHANGED <<orderVars, chat, walletVars, tallyVars, matchQueue, masterOffer, lock, timers>>

PushOffer(p) ==
  LET o == task[p].order IN
  /\ At(p, "push")
  /\ IF StillOpen(o)
     THEN /\ status' = [status EXCEPT ![o] = "matching"]
          /\ offers' = [offers EXCEPT ![o][task[p].master] = "pending"]
          /\ Goto(p, "arm")
     ELSE /\ Goto(p, "undoRead")
          /\ UNCHANGED <<status, offers>>
  /\ UNCHANGED <<master, chat, walletVars, tallyVars, redisVars>>

Mutant_NeverArm(p) ==
  /\ At(p, "arm")
  /\ Goto(p, "unlock")
  /\ UNCHANGED <<orderVars, chat, walletVars, tallyVars, redisVars>>
ArmTimeout(p) ==
  /\ At(p, "arm")
  /\ \/ /\ timers' = timers \cup {<<task[p].order, task[p].master>>}
        /\ Goto(p, "unlock")
     \/ /\ "armFails" \in Faults
        /\ Goto(p, "undoRead")
        /\ UNCHANGED timers
  /\ UNCHANGED <<orderVars, chat, walletVars, tallyVars, matchQueue, matchOffer, masterOffer, lock>>

ReleaseLock(p) ==
  LET o == task[p].order IN
  /\ At(p, "unlock")
  /\ lock' = IF lock[o] = p THEN [lock EXCEPT ![o] = Free] ELSE lock
  /\ Return(p)
  /\ UNCHANGED <<orderVars, chat, walletVars, tallyVars, matchQueue, matchOffer, masterOffer, timers>>

-----------------------------------------------------------------------------
(* clearOffer: GET the offer, then compare-and-delete it, the pro's        *)
(* reservation and the timeout.  The three deletions are sent together.    *)

OfferIsOf(o, m) == matchOffer[o].master = m

\* deleteIfValue on the reservation: another job's is left alone.
Mutant_AnyReservation(o, m) == TRUE
HoldsReservation(o, m) == masterOffer[m] = o

ReadBeforeClear(p, here, there) ==
  /\ At(p, here)
  /\ Become(p, [task[p] EXCEPT !.pc = there,
                                !.mine = OfferIsOf(task[p].order, task[p].master)])
  /\ UNCHANGED <<orderVars, chat, walletVars, tallyVars, redisVars>>

ClearOffer(p, here) ==
  LET o == task[p].order
      m == task[p].master
  IN
  /\ At(p, here)
  /\ matchOffer' = IF task[p].mine /\ OfferIsOf(o, m)
                   THEN [matchOffer EXCEPT ![o] = NoOffer] ELSE matchOffer
  /\ masterOffer' = IF HoldsReservation(o, m)
                    THEN [masterOffer EXCEPT ![m] = NoOrder] ELSE masterOffer
  /\ timers' = timers \ {<<o, m>>}
  /\ UNCHANGED <<orderVars, chat, walletVars, tallyVars, matchQueue, lock>>

ReadForUndo(p) == ReadBeforeClear(p, "undoRead", "undo")

\* offerNextUnlocked failed after the reservation: undo it and rethrow.
UndoOffer(p) == ClearOffer(p, "undo") /\ Goto(p, "unlock")

ReadForClear(p) == ReadBeforeClear(p, "clearRead", "clear")

\* The closing clearOffer of passOffer and expireOffer, which then advance the
\* search, and of acceptOffer and abortMatching, which are done with it.
Mutant_TimeoutStops(p) == task[p].op = "pass"
Advances(p) == task[p].op \in {"pass", "expire"}

ClearAnswered(p) ==
  /\ ClearOffer(p, "clear")
  /\ IF Advances(p) THEN Goto(p, "lock") ELSE Return(p)

-----------------------------------------------------------------------------
(* passOffer and expireOffer. *)

\* The call that makes an offer goes on after the offer is visible (the socket
\* event, the push).  A pass overtakes the rest of it only under "quickPass",
\* the end of the 45 seconds only under "slowOffer".
OfferMade(o, unless) == lock[o] = Free \/ unless \in Faults

PassOffer(p, o, m) ==
  /\ p \in Requests
  /\ OfferIsOf(o, m)
  /\ OfferMade(o, "quickPass")
  /\ Begin(p, "pass", "answer", o, m)
  /\ UNCHANGED <<orderVars, chat, walletVars, tallyVars, redisVars>>

\* The worker takes the delayed job once its window has passed.
ExpireOffer(p, o, m) ==
  /\ p \in Workers
  /\ At(p, "idle")
  /\ <<o, m>> \in timers
  /\ ~(OfferIsOf(o, m) /\ matchOffer[o].fresh)
  /\ OfferMade(o, "slowOffer")
  /\ timers' = timers \ {<<o, m>>}
  /\ IF OfferIsOf(o, m) THEN Begin(p, "expire", "answer", o, m) ELSE UNCHANGED task
  /\ UNCHANGED <<orderVars, chat, walletVars, tallyVars, matchQueue, matchOffer, masterOffer, lock>>

Mutant_AnyAnswer(o, m) == status[o] = "matching"
Unanswered(o, m) == status[o] = "matching" /\ offers[o][m] = "pending"

RecordAnswer(p) ==
  LET o == task[p].order
      m == task[p].master
  IN
  /\ At(p, "answer")
  /\ IF Unanswered(o, m)
     THEN /\ offers' = [offers EXCEPT ![o][m] = IF task[p].op = "pass" THEN "passed" ELSE "timeout"]
          /\ Goto(p, "clearRead")
     ELSE /\ Return(p)
          /\ UNCHANGED offers
  /\ UNCHANGED <<status, master, chat, walletVars, tallyVars, redisVars>>

-----------------------------------------------------------------------------
(* acceptOffer. *)

\* The job rings this pro, or rings nobody and this pro takes it from the feed.
AcceptOffer(p, o, m) ==
  /\ p \in Requests
  /\ status[o] # "absent"
  /\ \/ OfferIsOf(o, m)
     \/ matchOffer[o] = NoOffer /\ <<o, m>> \in CanServe
  /\ Begin(p, "accept", IF Transactional THEN "charge" ELSE "debit", o, m)
  /\ UNCHANGED <<orderVars, chat, walletVars, tallyVars, redisVars>>

\* The pro's account is blocked or inactive, or cannot pay.
RefuseAccept(p) ==
  /\ At(p, "charge") \/ At(p, "debit")
  /\ Return(p)
  /\ UNCHANGED <<orderVars, chat, walletVars, tallyVars, redisVars>>

MarkAccepted(o, m) ==
  offers' = IF offers[o][m] = "pending" THEN [offers EXCEPT ![o][m] = "accepted"] ELSE offers

FeeEntry(o, m) == IF Fee > 0 THEN {<<o, m>>} ELSE {}

\* The debit's own condition.
Mutant_UncheckedDebit(m) == TRUE
CanPay(m) == balance[m] >= Fee

\* The job is gone: the transaction aborts and takes the debit with it.
Mutant_KeepDebit(p) ==
  /\ balance' = [balance EXCEPT ![task[p].master] = @ - Fee]
  /\ Return(p)
  /\ UNCHANGED <<orderVars, fees, chat>>
LoseRace(p) == Return(p) /\ UNCHANGED <<orderVars, walletVars, chat>>

\* One transaction: debit, assignment, outcome, ledger entry and chat.
ChargeAndAssign(p) ==
  LET o == task[p].order
      m == task[p].master
  IN
  /\ At(p, "charge")
  /\ CanPay(m)
  /\ IF StillOpen(o)
     THEN /\ balance' = [balance EXCEPT ![m] = @ - Fee]
          /\ status' = [status EXCEPT ![o] = "accepted"]
          /\ master' = [master EXCEPT ![o] = m]
          /\ MarkAccepted(o, m)
          /\ fees' = fees \cup FeeEntry(o, m)
          /\ chat' = [chat EXCEPT ![o] = "open"]
          /\ Goto(p, "dropQueue")
     ELSE LoseRace(p)
  /\ UNCHANGED <<tallyVars, redisVars>>

\* Without transactions the same writes are commands of their own.
Debit(p) ==
  LET m == task[p].master IN
  /\ At(p, "debit")
  /\ CanPay(m)
  /\ balance' = [balance EXCEPT ![m] = @ - Fee]
  /\ Goto(p, "assign")
  /\ UNCHANGED <<orderVars, chat, fees, tallyVars, redisVars>>

Assign(p) ==
  LET o == task[p].order IN
  /\ At(p, "assign")
  /\ IF StillOpen(o)
     THEN /\ status' = [status EXCEPT ![o] = "accepted"]
          /\ master' = [master EXCEPT ![o] = task[p].master]
          /\ Goto(p, "mark")
     ELSE /\ Goto(p, "recredit")
          /\ UNCHANGED <<status, master>>
  /\ UNCHANGED <<offers, chat, walletVars, tallyVars, redisVars>>

Mutant_NoRecredit(p) ==
  /\ At(p, "recredit")
  /\ Return(p)
  /\ UNCHANGED <<orderVars, chat, walletVars, tallyVars, redisVars>>
Recredit(p) ==
  /\ At(p, "recredit")
  /\ balance' = [balance EXCEPT ![task[p].master] = @ + Fee]
  /\ Return(p)
  /\ UNCHANGED <<orderVars, chat, fees, tallyVars, redisVars>>

MarkOffer(p) ==
  /\ At(p, "mark")
  /\ MarkAccepted(task[p].order, task[p].master)
  /\ Goto(p, "ledger")
  /\ UNCHANGED <<status, master, chat, walletVars, tallyVars, redisVars>>

RecordFee(p) ==
  /\ At(p, "ledger")
  /\ fees' = fees \cup FeeEntry(task[p].order, task[p].master)
  /\ Goto(p, "openChat")
  /\ UNCHANGED <<orderVars, chat, balance, tallyVars, redisVars>>

OpenChat(p) ==
  /\ At(p, "openChat")
  /\ chat' = [chat EXCEPT ![task[p].order] = "open"]
  /\ Goto(p, "dropQueue")
  /\ UNCHANGED <<orderVars, walletVars, tallyVars, redisVars>>

DropQueue(p) ==
  /\ At(p, "dropQueue")
  /\ matchQueue' = [matchQueue EXCEPT ![task[p].order] = <<>>]
  /\ Goto(p, "clearRead")
  /\ UNCHANGED <<orderVars, chat, walletVars, tallyVars, matchOffer, masterOffer, lock, timers>>

-----------------------------------------------------------------------------
(* cancelOrder, by the client or an admin ("cancel") or by the pro who     *)
(* holds the job ("penalty"), and abortMatching.                           *)

CancelOrder(p, o, op) ==
  /\ p \in Requests
  /\ op = "penalty" => master[o] # NoMaster
  /\ status[o] \in {"pending", "matching", "accepted"}
  /\ At(p, "idle")
  /\ Become(p, [NoTask EXCEPT !.pc = "cancelWrite", !.op = op, !.order = o,
                              !.master = master[o], !.seen = status[o]])
  /\ UNCHANGED <<orderVars, chat, walletVars, tallyVars, redisVars>>

\* The filter on the status just read.
Mutant_PlainSave(p) == TRUE
SameAsRead(p) == status[task[p].order] = task[p].seen

CancelWrite(p) ==
  LET o == task[p].order IN
  /\ At(p, "cancelWrite")
  /\ IF SameAsRead(p)
     THEN /\ status' = [status EXCEPT ![o] = "cancelled"]
          /\ Goto(p, IF task[p].seen # "accepted" THEN "abortRead"
                      ELSE IF task[p].op = "penalty" THEN "penalise" ELSE "closeChat")
     ELSE /\ Return(p)
          /\ UNCHANGED status
  /\ UNCHANGED <<master, offers, chat, walletVars, tallyVars, redisVars>>

\* A job still searching has no pro: what is cleared is the ringing pro's offer.
AbortRead(p) ==
  /\ At(p, "abortRead")
  /\ Become(p, [task[p] EXCEPT !.pc = "abortDrop",
                                !.master = matchOffer[task[p].order].master])
  /\ UNCHANGED <<orderVars, chat, walletVars, tallyVars, redisVars>>

AbortDrop(p) ==
  /\ At(p, "abortDrop")
  /\ matchQueue' = [matchQueue EXCEPT ![task[p].order] = <<>>]
  /\ IF task[p].master = NoMaster THEN Return(p) ELSE Goto(p, "clearRead")
  /\ UNCHANGED <<orderVars, chat, walletVars, tallyVars, matchOffer, masterOffer, lock, timers>>

Penalise(p) ==
  /\ At(p, "penalise")
  /\ cancelledJobs' = [cancelledJobs EXCEPT ![task[p].master] = @ + 1]
  /\ Goto(p, "closeChat")
  /\ UNCHANGED <<orderVars, chat, walletVars, completedJobs, redisVars>>

CloseChat(p) ==
  LET o == task[p].order IN
  /\ At(p, "closeChat")
  /\ chat' = IF chat[o] = "none" THEN chat ELSE [chat EXCEPT ![o] = "closed"]
  /\ Return(p)
  /\ UNCHANGED <<orderVars, walletVars, tallyVars, redisVars>>

-----------------------------------------------------------------------------
(* completeOrder, by the pro who holds the job. *)

CompleteOrder(p, o) ==
  /\ p \in Requests
  /\ status[o] = "accepted"
  /\ Begin(p, "complete", "credit", o, master[o])
  /\ status' = [status EXCEPT ![o] = "done"]
  /\ UNCHANGED <<master, offers, chat, walletVars, tallyVars, redisVars>>

CreditCompletion(p) ==
  /\ At(p, "credit")
  /\ completedJobs' = [completedJobs EXCEPT ![task[p].master] = @ + 1]
  /\ Goto(p, "reopenChat")
  /\ UNCHANGED <<orderVars, chat, walletVars, cancelledJobs, redisVars>>

ReopenChat(p) ==
  LET o == task[p].order IN
  /\ At(p, "reopenChat")
  /\ chat' = IF chat[o] = "none" THEN chat ELSE [chat EXCEPT ![o] = "open"]
  /\ Return(p)
  /\ UNCHANGED <<orderVars, walletVars, tallyVars, redisVars>>

-----------------------------------------------------------------------------
(* Time and failure. *)

\* The 45 seconds of an offer pass; expiresAt is now behind Date.now().
OfferWindowCloses(o) ==
  /\ matchOffer[o].fresh
  /\ OfferMade(o, "slowOffer")
  /\ matchOffer' = [matchOffer EXCEPT ![o].fresh = FALSE]
  /\ UNCHANGED <<orderVars, chat, walletVars, tallyVars, matchQueue, masterOffer, lock, timers, task>>

\* Its Redis key goes ten seconds later, by when the timeout job has run unless
\* the worker is late.
OfferKeyExpires(o) ==
  LET offer == matchOffer[o] IN
  /\ offer # NoOffer
  /\ ~offer.fresh
  /\ "lateWorker" \in Faults \/ <<o, offer.master>> \notin timers
  /\ matchOffer' = [matchOffer EXCEPT ![o] = NoOffer]
  /\ UNCHANGED <<orderVars, chat, walletVars, tallyVars, matchQueue, masterOffer, lock, timers, task>>

Mutant_NoExpiry(m) == FALSE /\ UNCHANGED vars
\* The reservation has the same 55 seconds: a running offerNext is well inside
\* them, and so is a ringing offer.
ReservationExpires(m) ==
  LET o == masterOffer[m] IN
  /\ o # NoOrder
  /\ ~(OfferIsOf(o, m) /\ matchOffer[o].fresh)
  /\ \A p \in Procs : task[p].order = o /\ task[p].master = m => ~At(p, "offer")
  /\ masterOffer' = [masterOffer EXCEPT ![m] = NoOrder]
  /\ UNCHANGED <<orderVars, chat, walletVars, tallyVars, matchQueue, matchOffer, lock, timers, task>>

QueueKeyExpires(o) ==
  /\ "queueExpires" \in Faults
  /\ matchQueue[o] # <<>>
  /\ matchQueue' = [matchQueue EXCEPT ![o] = <<>>]
  /\ UNCHANGED <<orderVars, chat, walletVars, tallyVars, matchOffer, masterOffer, lock, timers, task>>

\* A live holder renews the lock, a dead one's runs out.
LockExpires(o) ==
  /\ lock[o] = Orphan
  /\ lock' = [lock EXCEPT ![o] = Free]
  /\ UNCHANGED <<orderVars, chat, walletVars, tallyVars, matchQueue, matchOffer, masterOffer, timers, task>>

\* The process dies and the handler's memory is gone.  BullMQ hands a stalled job
\* out again; one that had recorded its answer then finds nothing left to expire.
Crash(p) ==
  /\ p \in Crashing
  /\ ~At(p, "idle")
  /\ lock' = [o \in Orders |-> IF lock[o] = p THEN Orphan ELSE lock[o]]
  /\ timers' = IF task[p].op = "expire" /\ At(p, "answer")
               THEN timers \cup {<<task[p].order, task[p].master>>} ELSE timers
  /\ Return(p)
  /\ UNCHANGED <<orderVars, chat, walletVars, tallyVars, matchQueue, matchOffer, masterOffer>>

-----------------------------------------------------------------------------
Step(p) ==
  \/ InsertOrder(p) \/ BuildCandidates(p) \/ EnqueueCandidates(p)
  \/ AcquireLock(p) \/ CheckSearching(p) \/ DropStaleQueue(p) \/ CheckOutstanding(p)
  \/ PopCandidate(p) \/ ReserveMaster(p) \/ GiveUp(p)
  \/ SetOffer(p) \/ PushOffer(p) \/ ArmTimeout(p) \/ ReleaseLock(p)
  \/ ReadForUndo(p) \/ UndoOffer(p) \/ ReadForClear(p) \/ ClearAnswered(p)
  \/ RecordAnswer(p)
  \/ RefuseAccept(p) \/ ChargeAndAssign(p)
  \/ Debit(p) \/ Assign(p) \/ Recredit(p) \/ MarkOffer(p) \/ RecordFee(p) \/ OpenChat(p)
  \/ DropQueue(p)
  \/ CancelWrite(p) \/ AbortRead(p) \/ AbortDrop(p) \/ Penalise(p) \/ CloseChat(p)
  \/ CreditCompletion(p) \/ ReopenChat(p)

Request(p) ==
  \E o \in Orders :
    \/ CreateOrder(p, o)
    \/ \E m \in Masters : PassOffer(p, o, m) \/ AcceptOffer(p, o, m)
    \/ \E op \in {"cancel", "penalty"} : CancelOrder(p, o, op)
    \/ CompleteOrder(p, o)

Timeout(o, m) == \E p \in Workers : ExpireOffer(p, o, m)

Clock ==
  \/ \E o \in Orders : \/ OfferWindowCloses(o) \/ OfferKeyExpires(o)
                       \/ QueueKeyExpires(o) \/ LockExpires(o)
  \/ \E m \in Masters : ReservationExpires(m)

Next ==
  \/ \E p \in Procs : Step(p) \/ Request(p) \/ Crash(p)
  \/ \E o \in Orders, m \in Masters : Timeout(o, m)
  \/ Clock

Spec == Init /\ [][Next]_vars

\* Handlers run on once started, a due timeout is picked up by the worker and
\* Redis keys expire; clients and pros need never do anything.
Fairness ==
  /\ \A p \in Procs : WF_vars(Step(p))
  /\ \A o \in Orders : /\ WF_vars(OfferWindowCloses(o)) /\ WF_vars(OfferKeyExpires(o))
                       /\ WF_vars(LockExpires(o))
                       /\ \A m \in Masters : WF_vars(Timeout(o, m))
  /\ \A m \in Masters : WF_vars(ReservationExpires(m))

FairSpec == Spec /\ Fairness

-----------------------------------------------------------------------------
(* Safety. *)

AtRest == \A p \in Procs : At(p, "idle")
JobsOf(m) == {o \in Orders : master[o] = m}

\* A fee is taken for exactly the jobs a pro holds or held, whatever crashes and
\* whoever races: "a pro can never be charged for a job they did not get", and
\* none gets one for free.
FeeMatchesJob ==
  /\ Fee > 0 => \A o \in Orders, m \in Masters : <<o, m>> \in fees <=> master[o] = m
  /\ \A m \in Masters : balance[m] + Fee * Cardinality(JobsOf(m)) = Funds[m]

\* The same for the standalone fallback, once no accept is half-way.
BooksBalanceAtRest == AtRest => FeeMatchesJob

\* A pro's phone rings for a job: the card is up and the job waits for the answer.
Ringing(o, m) ==
  /\ status[o] = "matching"
  /\ offers[o][m] = "pending"
  /\ matchOffer[o] = [master |-> m, fresh |-> TRUE]

\* A ringing pro is reserved for that very job: no second job rings the phone
\* and a reconnecting pro finds the card by the reservation.
RingingIsReserved ==
  \A o \in Orders, m \in Masters : Ringing(o, m) => masterOffer[m] = o

\* Of the handlers that answer one offer (a pass and its timeout, a timeout handed
\* out twice) a single one goes on to advance the search.
OneAdvances ==
  \A p, q \in Procs :
    /\ task[p].op \in {"pass", "expire"} /\ task[p].pc \in {"clearRead", "clear", "lock"}
    /\ task[q].op \in {"pass", "expire"} /\ task[q].pc \in {"clearRead", "clear", "lock"}
    /\ task[p].order = task[q].order
    => p = q

\* When every handler has finished, the chat, the pro's counters and the queue
\* agree with the order whatever the order of the commands was.
TidyAtRest ==
  AtRest =>
    /\ \A o \in Orders :
         /\ chat[o] = "open" <=> status[o] \in {"accepted", "done"}
         /\ chat[o] = "closed" <=> status[o] = "cancelled" /\ master[o] # NoMaster
         /\ matchQueue[o] # <<>> => Searching(o)
    /\ \A m \in Masters :
         /\ completedJobs[m] = Cardinality({o \in JobsOf(m) : status[o] = "done"})
         /\ cancelledJobs[m] <= Cardinality({o \in JobsOf(m) : status[o] = "cancelled"})

(* What a step may never do. *)

\* An answer, once recorded, is final, and a pro who has answered is never
\* offered the job again.
AnsweredOnce ==
  [][\A o \in Orders, m \in Masters :
       offers[o][m] \in {"passed", "timeout", "accepted"} => offers'[o][m] = offers[o][m]]_offers

\* The job, seen without the search, behaves as JobLifecycle promises.
Lifecycle == INSTANCE JobLifecycle WITH
  stage <- [o \in Orders |-> IF Searching(o) THEN "open" ELSE status[o]],
  pro <- master,
  charged <- fees
ImplementsLifecycle == Lifecycle!LSpec

(* Liveness. *)

\* A search comes to an end: somebody takes the job, it is cancelled, or it goes
\* back to the feed as "pending" when the candidates run out.
SearchEnds == \A o \in Orders : status[o] = "matching" ~> status[o] # "matching"

\* Nobody is asked any more, yet the job still claims to be searching.
Stalled(o) == status[o] = "matching" /\ \A m \in Masters : offers[o][m] # "pending"

\* An answered offer hands the job on: "if you pass, the job goes to the next pro".
AnswerMovesOn == \A o \in Orders : Stalled(o) ~> ~Stalled(o)

\* Whatever dies half-way, a reserved pro becomes free again.
ReservationEnds == \A o \in Orders, m \in Masters : masterOffer[m] = o ~> masterOffer[m] # o
=============================================================================
