--------------------------- MODULE MatchingProofs ---------------------------
(***************************************************************************)
(* Proofs about Matching, for any sets of orders, pros and handlers and    *)
(* any combination of faults and crashes: its types, its orders, its       *)
(* wallets, the job lifecycle it implements, and its offers: who carries   *)
(* a search on, whom it may still ask, and for whom a ringing pro is       *)
(* reserved; and what a job leaves behind once the handlers have finished: *)
(* the money of those who took it, with and without transactions, the      *)
(* queue, the chat and the counters of its pro.                            *)
(***************************************************************************)
EXTENDS Matching, TLAPS, FiniteSetTheorems

-----------------------------------------------------------------------------
(* Type correctness. *)

\* The steps that write the pro they remember somewhere.
NamesMaster == {"reserve", "offer", "push", "arm", "answer",
                "charge", "debit", "assign", "recredit", "mark", "ledger"}

\* A busy handler knows its order, and its pro where it needs one.
TaskOK ==
  /\ task \in [Procs -> Tasks]
  /\ \A p \in Procs :
       /\ task[p].pc # "idle" => task[p].order \in Orders
       /\ task[p].pc \in NamesMaster => task[p].master \in Masters

TypeInv == StoreTypeOK /\ TaskOK

USE DEF At, orderVars, walletVars, tallyVars, redisVars

LEMMA NoTaskType == NoTask \in Tasks
BY DEF NoTask, Tasks, Labels, Ops, Statuses

LEMMA BecomeType ==
  ASSUME TaskOK, NEW p \in Procs, NEW t \in Tasks, Become(p, t),
         t.pc # "idle" => t.order \in Orders,
         t.pc \in NamesMaster => t.master \in Masters
  PROVE  TaskOK'
BY DEF TaskOK, Become

\* A handler that moves on keeps what it remembers.
LEMMA GotoType ==
  ASSUME TaskOK, NEW p \in Procs, NEW label \in Labels, Goto(p, label),
         label # "idle" => task[p].order \in Orders,
         label \in NamesMaster => task[p].master \in Masters
  PROVE  TaskOK'
<1> DEFINE t == [task[p] EXCEPT !.pc = label]
<1>1. t \in Tasks /\ t.pc = label /\ t.order = task[p].order /\ t.master = task[p].master
  BY DEF TaskOK, Tasks
<1>2. Become(p, t)
  BY DEF Goto
<1> HIDE DEF t
<1> QED BY <1>1, <1>2, BecomeType

LEMMA ReturnType == ASSUME TaskOK, NEW p \in Procs, Return(p) PROVE TaskOK'
<1>1. NoTask.pc = "idle" /\ "idle" \notin NamesMaster
  BY DEF NoTask, NamesMaster
<1> QED BY <1>1, NoTaskType, BecomeType DEF Return

LEMMA BeginType ==
  ASSUME TaskOK, NEW p \in Procs, NEW op \in Ops, NEW label \in Labels,
         NEW o \in Orders, NEW m \in Masters \cup {NoMaster}, Begin(p, op, label, o, m),
         label \in NamesMaster => m \in Masters
  PROVE  TaskOK'
<1> DEFINE t == [NoTask EXCEPT !.pc = label, !.op = op, !.order = o, !.master = m]
<1>1. t \in Tasks /\ t.pc = label /\ t.order = o /\ t.master = m
  BY NoTaskType DEF NoTask, Tasks
<1>2. Become(p, t)
  BY DEF Begin
<1> HIDE DEF t
<1> QED BY <1>1, <1>2, BecomeType

LEMMA EmptyQueue == <<>> \in Seq(Masters)
OBVIOUS

\* A handler that moves on with a pro, or with the candidates it found.
LEMMA GotoWithMasterType ==
  ASSUME TaskOK, NEW p \in Procs, NEW label \in Labels, NEW m \in Masters \cup {NoMaster},
         Become(p, [task[p] EXCEPT !.pc = label, !.master = m]),
         label # "idle" => task[p].order \in Orders,
         label \in NamesMaster => m \in Masters
  PROVE  TaskOK'
<1> DEFINE t == [task[p] EXCEPT !.pc = label, !.master = m]
<1>1. t \in Tasks /\ t.pc = label /\ t.order = task[p].order /\ t.master = m
  BY DEF TaskOK, Tasks
<1>2. Become(p, t)
  OBVIOUS
<1> HIDE DEF t
<1> QED BY <1>1, <1>2, BecomeType

LEMMA GotoWithFoundType ==
  ASSUME TaskOK, NEW p \in Procs, NEW label \in Labels \ NamesMaster, NEW q \in Seq(Masters),
         Become(p, [task[p] EXCEPT !.pc = label, !.found = q]),
         label # "idle" => task[p].order \in Orders
  PROVE  TaskOK'
<1> DEFINE t == [task[p] EXCEPT !.pc = label, !.found = q]
<1>1. t \in Tasks /\ t.pc = label /\ t.order = task[p].order
  BY DEF TaskOK, Tasks
<1>2. Become(p, t)
  OBVIOUS
<1> HIDE DEF t
<1> QED BY <1>1, <1>2, BecomeType

LEMMA SameStore ==
  ASSUME StoreTypeOK, UNCHANGED <<orderVars, chat, walletVars, tallyVars, redisVars>>
  PROVE  StoreTypeOK'
BY DEF StoreTypeOK

LEMMA InitType == Init => TypeInv
<1> SUFFICES ASSUME Init PROVE TypeInv
  OBVIOUS
<1>1. StoreTypeOK
  BY FundsAssumption, LockAssumption
     DEF Init, StoreTypeOK, Statuses, Outcomes, Offers, NoOffer
<1>2. TaskOK
  <2>1. NoTask.pc = "idle" /\ "idle" \notin NamesMaster
    BY DEF NoTask, NamesMaster
  <2> QED BY <2>1, NoTaskType DEF Init, TaskOK
<1> QED BY <1>1, <1>2 DEF TypeInv

\* The two halves of clearOffer.
LEMMA ReadType ==
  ASSUME TaskOK, NEW p \in Procs, NEW here, NEW there \in Labels \ NamesMaster,
         ReadBeforeClear(p, here, there), here # "idle"
  PROVE  TaskOK'
<1> DEFINE t == [task[p] EXCEPT !.pc = there,
                                !.mine = OfferIsOf(task[p].order, task[p].master)]
<1>1. OfferIsOf(task[p].order, task[p].master) \in BOOLEAN
  BY DEF OfferIsOf
<1>2. t \in Tasks /\ t.pc = there /\ t.order \in Orders
  <2> HIDE DEF OfferIsOf
  <2> QED BY <1>1 DEF ReadBeforeClear, TaskOK, Tasks
<1>3. Become(p, t)
  BY DEF ReadBeforeClear
<1> HIDE DEF t
<1> QED BY <1>2, <1>3, BecomeType

LEMMA ClearType ==
  ASSUME StoreTypeOK, NEW p \in Procs, NEW here, ClearOffer(p, here)
  PROVE  StoreTypeOK'
BY DEF ClearOffer, StoreTypeOK, Offers

\* One outcome recorded, one fee taken.
LEMMA OutcomeType ==
  ASSUME StoreTypeOK, NEW o \in Orders, NEW m \in Masters, NEW v \in Outcomes,
         offers' = [offers EXCEPT ![o][m] = v]
  PROVE  offers' \in [Orders -> [Masters -> Outcomes]]
<1>1. offers[o] \in [Masters -> Outcomes]
  BY DEF StoreTypeOK
<1>2. [offers[o] EXCEPT ![m] = v] \in [Masters -> Outcomes]
  BY <1>1
<1> QED BY <1>2 DEF StoreTypeOK

LEMMA TallyType ==
  ASSUME NEW f \in [Masters -> Nat], NEW m
  PROVE  [f EXCEPT ![m] = @ + 1] \in [Masters -> Nat]
<1>1. CASE m \in Masters
  BY <1>1
<1>2. CASE m \notin Masters
  BY <1>2
<1> QED BY <1>1, <1>2

LEMMA DebitType ==
  ASSUME StoreTypeOK, NEW m \in Masters, CanPay(m)
  PROVE  [balance EXCEPT ![m] = @ - Fee] \in [Masters -> Nat]
<1>1. balance[m] - Fee \in Nat
  BY FeeAssumption DEF StoreTypeOK, CanPay
<1> QED BY <1>1 DEF StoreTypeOK

\* createOrder and startMatching.
LEMMA PostStepType ==
  ASSUME TypeInv, NEW p \in Procs,
         InsertOrder(p) \/ BuildCandidates(p) \/ EnqueueCandidates(p)
  PROVE  TypeInv'
<1> USE DEF TypeInv
<1>1. CASE InsertOrder(p)
  <2>1. TaskOK'
    BY <1>1, GotoType DEF InsertOrder, TaskOK, Labels, NamesMaster
  <2>2. StoreTypeOK'
    BY <1>1 DEF InsertOrder, StoreTypeOK, TaskOK, Statuses
  <2> QED BY <2>1, <2>2
<1>2. CASE BuildCandidates(p)
  <2>1. PICK q \in Candidates(task[p].order) :
          Become(p, [task[p] EXCEPT !.pc = "enqueue", !.found = q])
    BY <1>2 DEF BuildCandidates
  <2>2. q \in Seq(Masters)
    <3> DEFINE able == {m \in Masters : <<task[p].order, m>> \in CanServe /\ balance[m] >= Fee}
    <3>1. PICK n \in 0..Cardinality(able) : q \in [1..n -> able]
      BY DEF Candidates
    <3>2. Cardinality(able) \in Nat
      BY MastersAssumption, FS_Subset, FS_CardinalityType
    <3>3. n \in Nat /\ able \subseteq Masters
      BY <3>2
    <3>4. q \in [1..n -> Masters]
      BY <3>1, <3>3
    <3> QED BY <3>3, <3>4
  <2>3. TaskOK'
    BY <1>2, <2>1, <2>2, GotoWithFoundType DEF BuildCandidates, TaskOK, Labels, NamesMaster
  <2>4. StoreTypeOK'
    BY <1>2, SameStore DEF BuildCandidates
  <2> QED BY <2>3, <2>4
<1>3. CASE EnqueueCandidates(p)
  <2>1. CASE task[p].found = <<>>
    <3>1. TaskOK'
      BY <1>3, <2>1, ReturnType DEF EnqueueCandidates
    <3>2. StoreTypeOK'
      BY <1>3 DEF EnqueueCandidates, StoreTypeOK, TaskOK, Tasks
    <3> QED BY <3>1, <3>2
  <2>2. CASE task[p].found # <<>>
    <3>1. Become(p, [task[p] EXCEPT !.pc = "lock", !.found = <<>>])
      BY <1>3, <2>2 DEF EnqueueCandidates
    <3>2. TaskOK'
      BY <1>3, <3>1, EmptyQueue, GotoWithFoundType
         DEF EnqueueCandidates, TaskOK, Labels, NamesMaster
    <3>3. StoreTypeOK'
      BY <1>3 DEF EnqueueCandidates, StoreTypeOK, TaskOK, Tasks
    <3> QED BY <3>2, <3>3
  <2> QED BY <2>1, <2>2
<1> QED BY <1>1, <1>2, <1>3

\* offerNext, up to the pro it reserves.
LEMMA ReserveStepType ==
  ASSUME TypeInv, NEW p \in Procs,
         \/ AcquireLock(p) \/ CheckSearching(p) \/ DropStaleQueue(p)
         \/ CheckOutstanding(p) \/ PopCandidate(p) \/ ReserveMaster(p) \/ GiveUp(p)
  PROVE  TypeInv'
<1> USE DEF TypeInv
<1>1. CASE AcquireLock(p)
  <2>1. CASE lock[task[p].order] = Free
    <3>1. Become(p, [NoTask EXCEPT !.pc = "check", !.op = task[p].op, !.order = task[p].order])
      BY <1>1, <2>1 DEF AcquireLock
    <3>2. TaskOK'
      <4> DEFINE t == [NoTask EXCEPT !.pc = "check", !.op = task[p].op, !.order = task[p].order]
      <4>1. t \in Tasks /\ t.pc = "check" /\ t.order \in Orders
        BY <1>1, NoTaskType DEF AcquireLock, TaskOK, Tasks, Labels, NoTask
      <4>2. "check" \notin NamesMaster
        BY DEF NamesMaster
      <4>3. Become(p, t)
        BY <3>1
      <4> HIDE DEF t
      <4> QED BY <4>1, <4>2, <4>3, BecomeType
    <3>3. StoreTypeOK'
      BY <1>1, <2>1 DEF AcquireLock, StoreTypeOK, TaskOK
    <3> QED BY <3>2, <3>3
  <2>2. CASE lock[task[p].order] # Free
    <3>1. Return(p) /\ UNCHANGED lock
      BY <1>1, <2>2 DEF AcquireLock
    <3> QED BY <1>1, <3>1, ReturnType, SameStore DEF AcquireLock
  <2> QED BY <2>1, <2>2
<1>2. CASE CheckSearching(p)
  <2>1. TaskOK'
    BY <1>2, GotoType DEF CheckSearching, TaskOK, Labels, NamesMaster
  <2> QED BY <1>2, <2>1, SameStore DEF CheckSearching
<1>3. CASE DropStaleQueue(p)
  <2>1. TaskOK'
    BY <1>3, GotoType DEF DropStaleQueue, TaskOK, Labels, NamesMaster
  <2>2. StoreTypeOK'
    BY <1>3, EmptyQueue DEF DropStaleQueue, StoreTypeOK
  <2> QED BY <2>1, <2>2
<1>4. CASE CheckOutstanding(p)
  <2>1. TaskOK'
    BY <1>4, GotoType DEF CheckOutstanding, TaskOK, Labels, NamesMaster
  <2> QED BY <1>4, <2>1, SameStore DEF CheckOutstanding
<1>5. CASE PopCandidate(p)
  <2> DEFINE queue == matchQueue[task[p].order]
  <2>0. task[p].order \in Orders /\ queue \in Seq(Masters)
    BY <1>5 DEF PopCandidate, TaskOK, StoreTypeOK
  <2>1. CASE queue = <<>>
    <3>1. Goto(p, "giveUp") /\ UNCHANGED matchQueue
      BY <1>5, <2>1 DEF PopCandidate
    <3>2. TaskOK'
      BY <1>5, <3>1, GotoType DEF PopCandidate, TaskOK, Labels, NamesMaster
    <3> QED BY <1>5, <3>1, <3>2, SameStore DEF PopCandidate
  <2>2. CASE queue # <<>>
    <3>1. Head(queue) \in Masters /\ Tail(queue) \in Seq(Masters)
      BY <2>0, <2>2
    <3>2. Become(p, [task[p] EXCEPT !.pc = "reserve", !.master = Head(queue)])
      BY <1>5, <2>2 DEF PopCandidate
    <3>3. TaskOK'
      <4> HIDE DEF queue
      <4> QED BY <2>0, <3>1, <3>2, GotoWithMasterType DEF Labels
    <3>4. matchQueue' = [matchQueue EXCEPT ![task[p].order] = Tail(queue)]
      BY <1>5, <2>2 DEF PopCandidate
    <3>5. StoreTypeOK'
      <4> HIDE DEF queue
      <4> QED BY <1>5, <2>0, <3>1, <3>4 DEF PopCandidate, StoreTypeOK
    <3> QED BY <3>3, <3>5
  <2> QED BY <2>1, <2>2
<1>6. CASE ReserveMaster(p)
  <2>1. TaskOK'
    <3>1. CASE Goto(p, "offer")
      <4>1. task[p].order \in Orders /\ task[p].master \in Masters
        BY <1>6 DEF ReserveMaster, TaskOK, NamesMaster
      <4> QED BY <3>1, <4>1, GotoType DEF Labels
    <3>2. CASE Become(p, [task[p] EXCEPT !.pc = "pop", !.master = NoMaster])
      <4>1. "pop" \in Labels /\ "pop" \notin NamesMaster
        BY DEF Labels, NamesMaster
      <4>2. task[p].order \in Orders
        BY <1>6 DEF ReserveMaster, TaskOK
      <4> QED BY <3>2, <4>1, <4>2, GotoWithMasterType
    <3> QED BY <1>6, <3>1, <3>2 DEF ReserveMaster
  <2>2. StoreTypeOK'
    BY <1>6 DEF ReserveMaster, StoreTypeOK, TaskOK
  <2> QED BY <2>1, <2>2
<1>7. CASE GiveUp(p)
  <2>1. TaskOK'
    BY <1>7, GotoType DEF GiveUp, TaskOK, Labels, NamesMaster
  <2>2. StoreTypeOK'
    BY <1>7 DEF GiveUp, StoreTypeOK, Statuses
  <2> QED BY <2>1, <2>2
<1> QED BY <1>1, <1>2, <1>3, <1>4, <1>5, <1>6, <1>7

\* offerNext, from the offer to the lock it releases.
LEMMA OfferStepType ==
  ASSUME TypeInv, NEW p \in Procs,
         \/ SetOffer(p) \/ PushOffer(p) \/ ArmTimeout(p) \/ ReleaseLock(p)
         \/ ReadForUndo(p) \/ UndoOffer(p)
  PROVE  TypeInv'
<1> USE DEF TypeInv
<1>1. CASE SetOffer(p)
  <2>1. task[p].order \in Orders /\ task[p].master \in Masters
    BY <1>1 DEF SetOffer, TaskOK, NamesMaster
  <2>2. TaskOK'
    BY <1>1, <2>1, GotoType DEF SetOffer, Labels
  <2>3. StoreTypeOK'
    BY <1>1, <2>1 DEF SetOffer, StoreTypeOK, Offers
  <2> QED BY <2>2, <2>3
<1>2. CASE PushOffer(p)
  <2>1. task[p].order \in Orders /\ task[p].master \in Masters
    BY <1>2 DEF PushOffer, TaskOK, NamesMaster
  <2>2. TaskOK'
    BY <1>2, <2>1, GotoType DEF PushOffer, Labels, NamesMaster
  <2>3. StoreTypeOK'
    <3>1. "pending" \in Outcomes
      BY DEF Outcomes
    <3>2. offers' \in [Orders -> [Masters -> Outcomes]]
      <4>1. \/ offers' = [offers EXCEPT ![task[p].order][task[p].master] = "pending"]
            \/ offers' = offers
        BY <1>2 DEF PushOffer
      <4> QED BY <2>1, <3>1, <4>1, OutcomeType DEF StoreTypeOK
    <3> QED BY <1>2, <3>2 DEF PushOffer, StoreTypeOK, Statuses
  <2> QED BY <2>2, <2>3
<1>3. CASE ArmTimeout(p)
  <2>1. task[p].order \in Orders /\ task[p].master \in Masters
    BY <1>3 DEF ArmTimeout, TaskOK, NamesMaster
  <2>2. TaskOK'
    BY <1>3, <2>1, GotoType DEF ArmTimeout, Labels, NamesMaster
  <2>3. StoreTypeOK'
    BY SMTT(20), <1>3, <2>1 DEF ArmTimeout, StoreTypeOK
  <2> QED BY <2>2, <2>3
<1>4. CASE ReleaseLock(p)
  <2>1. TaskOK'
    BY <1>4, ReturnType DEF ReleaseLock
  <2>2. StoreTypeOK'
    BY <1>4 DEF ReleaseLock, StoreTypeOK
  <2> QED BY <2>1, <2>2
<1>5. CASE ReadForUndo(p)
  BY <1>5, SameStore, ReadType DEF ReadForUndo, ReadBeforeClear, TaskOK, Labels, NamesMaster
<1>6. CASE UndoOffer(p)
  <2>1. TaskOK'
    BY <1>6, GotoType DEF UndoOffer, ClearOffer, TaskOK, Labels, NamesMaster
  <2> QED BY <1>6, <2>1, ClearType DEF UndoOffer
<1> QED BY <1>1, <1>2, <1>3, <1>4, <1>5, <1>6

\* passOffer and expireOffer, and the closing clearOffer they share with
\* acceptOffer and abortMatching.
LEMMA AnswerStepType ==
  ASSUME TypeInv, NEW p \in Procs,
         ReadForClear(p) \/ ClearAnswered(p) \/ RecordAnswer(p)
  PROVE  TypeInv'
<1> USE DEF TypeInv
<1>1. CASE ReadForClear(p)
  BY <1>1, SameStore, ReadType DEF ReadForClear, ReadBeforeClear, TaskOK, Labels, NamesMaster
<1>2. CASE ClearAnswered(p)
  <2>1. TaskOK'
    BY <1>2, GotoType, ReturnType DEF ClearAnswered, ClearOffer, TaskOK, Labels, NamesMaster
  <2> QED BY <1>2, <2>1, ClearType DEF ClearAnswered
<1>3. CASE RecordAnswer(p)
  <2>1. TaskOK'
    BY <1>3, GotoType, ReturnType DEF RecordAnswer, TaskOK, Labels, NamesMaster
  <2>2. StoreTypeOK'
    <3>1. task[p].order \in Orders /\ task[p].master \in Masters
      BY <1>3 DEF RecordAnswer, TaskOK, NamesMaster
    <3> DEFINE v == IF task[p].op = "pass" THEN "passed" ELSE "timeout"
    <3>2. v \in Outcomes
      BY DEF Outcomes
    <3>3. offers' \in [Orders -> [Masters -> Outcomes]]
      <4>1. offers' = [offers EXCEPT ![task[p].order][task[p].master] = v] \/ offers' = offers
        BY <1>3 DEF RecordAnswer
      <4> HIDE DEF v
      <4> QED BY <3>1, <3>2, <4>1, OutcomeType DEF StoreTypeOK
    <3> QED BY <1>3, <3>3 DEF RecordAnswer, StoreTypeOK
  <2> QED BY <2>1, <2>2
<1> QED BY <1>1, <1>2, <1>3

\* acceptOffer, in one transaction or as commands of their own.
LEMMA AcceptStepType ==
  ASSUME TypeInv, NEW p \in Procs,
         \/ RefuseAccept(p) \/ ChargeAndAssign(p) \/ Debit(p) \/ Assign(p) \/ Recredit(p)
         \/ MarkOffer(p) \/ RecordFee(p) \/ OpenChat(p) \/ DropQueue(p)
  PROVE  TypeInv'
<1> USE DEF TypeInv
<1>1. CASE RefuseAccept(p)
  BY <1>1, ReturnType, SameStore DEF RefuseAccept
<1>2. CASE ChargeAndAssign(p)
  <2>1. task[p].order \in Orders /\ task[p].master \in Masters
    BY <1>2 DEF ChargeAndAssign, TaskOK, NamesMaster
  <2>2. CASE StillOpen(task[p].order)
    <3>1. TaskOK'
      BY <1>2, <2>1, <2>2, GotoType DEF ChargeAndAssign, Labels, NamesMaster
    <3>2. balance' \in [Masters -> Nat]
      BY <1>2, <2>1, <2>2, DebitType DEF ChargeAndAssign
    <3>3. /\ status' \in [Orders -> Statuses]
          /\ master' \in [Orders -> Masters \cup {NoMaster}]
          /\ offers' \in [Orders -> [Masters -> Outcomes]]
      <4>1. "accepted" \in Outcomes
        BY DEF Outcomes
      <4>2. \/ offers' = [offers EXCEPT ![task[p].order][task[p].master] = "accepted"]
            \/ offers' = offers
        BY <1>2, <2>2 DEF ChargeAndAssign, MarkAccepted
      <4>3. offers' \in [Orders -> [Masters -> Outcomes]]
        BY <2>1, <4>1, <4>2, OutcomeType DEF StoreTypeOK
      <4> QED BY ZenonT(30), <1>2, <2>1, <2>2, <4>3 DEF ChargeAndAssign, StoreTypeOK, Statuses
    <3>4. fees' \subseteq Orders \X Masters
      BY <1>2, <2>1, <2>2 DEF ChargeAndAssign, FeeEntry, StoreTypeOK
    <3>5. chat' \in [Orders -> {"none", "open", "closed"}]
      BY <1>2, <2>1, <2>2 DEF ChargeAndAssign, StoreTypeOK
    <3>6. StoreTypeOK'
      BY <1>2, <3>2, <3>3, <3>4, <3>5 DEF ChargeAndAssign, StoreTypeOK
    <3> QED BY <3>1, <3>6
  <2>3. CASE ~StillOpen(task[p].order)
    <3>1. LoseRace(p) /\ UNCHANGED <<tallyVars, redisVars>>
      BY <1>2, <2>3 DEF ChargeAndAssign
    <3> QED BY <3>1, ReturnType, SameStore DEF LoseRace
  <2> QED BY <2>2, <2>3
<1>3. CASE Debit(p)
  <2>1. task[p].order \in Orders /\ task[p].master \in Masters
    BY <1>3 DEF Debit, TaskOK, NamesMaster
  <2>2. TaskOK'
    BY <1>3, <2>1, GotoType DEF Debit, Labels
  <2>3. balance' \in [Masters -> Nat]
    BY <1>3, <2>1, DebitType DEF Debit
  <2>4. StoreTypeOK'
    BY <1>3, <2>3 DEF Debit, StoreTypeOK
  <2> QED BY <2>2, <2>4
<1>4. CASE Assign(p)
  <2>1. task[p].order \in Orders /\ task[p].master \in Masters
    BY <1>4 DEF Assign, TaskOK, NamesMaster
  <2>2. TaskOK'
    BY <1>4, <2>1, GotoType DEF Assign, Labels
  <2>3. StoreTypeOK'
    BY <1>4, <2>1 DEF Assign, StoreTypeOK, Statuses
  <2> QED BY <2>2, <2>3
<1>5. CASE Recredit(p)
  <2>1. TaskOK'
    BY <1>5, ReturnType DEF Recredit
  <2>2. balance' \in [Masters -> Nat]
    BY <1>5, FeeAssumption DEF Recredit, StoreTypeOK, TaskOK, NamesMaster
  <2>3. StoreTypeOK'
    BY <1>5, <2>2 DEF Recredit, StoreTypeOK
  <2> QED BY <2>1, <2>3
<1>6. CASE MarkOffer(p)
  <2>1. task[p].order \in Orders /\ task[p].master \in Masters
    BY <1>6 DEF MarkOffer, TaskOK, NamesMaster
  <2>2. TaskOK'
    BY <1>6, <2>1, GotoType DEF MarkOffer, Labels
  <2>3. StoreTypeOK'
    BY <1>6, <2>1 DEF MarkOffer, MarkAccepted, StoreTypeOK, Outcomes
  <2> QED BY <2>2, <2>3
<1>7. CASE RecordFee(p)
  <2>1. task[p].order \in Orders /\ task[p].master \in Masters
    BY <1>7 DEF RecordFee, TaskOK, NamesMaster
  <2>2. TaskOK'
    BY <1>7, <2>1, GotoType DEF RecordFee, Labels, NamesMaster
  <2>3. StoreTypeOK'
    BY <1>7, <2>1 DEF RecordFee, FeeEntry, StoreTypeOK
  <2> QED BY <2>2, <2>3
<1>8. CASE OpenChat(p)
  <2>1. TaskOK'
    BY <1>8, GotoType DEF OpenChat, TaskOK, Labels, NamesMaster
  <2>2. StoreTypeOK'
    BY <1>8 DEF OpenChat, StoreTypeOK
  <2> QED BY <2>1, <2>2
<1>9. CASE DropQueue(p)
  <2>1. TaskOK'
    BY <1>9, GotoType DEF DropQueue, TaskOK, Labels, NamesMaster
  <2>2. StoreTypeOK'
    BY <1>9, EmptyQueue DEF DropQueue, StoreTypeOK
  <2> QED BY <2>1, <2>2
<1> QED BY <1>1, <1>2, <1>3, <1>4, <1>5, <1>6, <1>7, <1>8, <1>9

\* cancelOrder and abortMatching.
LEMMA CancelStepType ==
  ASSUME TypeInv, NEW p \in Procs,
         \/ CancelWrite(p) \/ AbortRead(p) \/ AbortDrop(p) \/ Penalise(p) \/ CloseChat(p)
  PROVE  TypeInv'
<1> USE DEF TypeInv
<1>1. CASE CancelWrite(p)
  <2>1. TaskOK'
    BY <1>1, GotoType, ReturnType DEF CancelWrite, TaskOK, Labels, NamesMaster
  <2>2. StoreTypeOK'
    BY <1>1 DEF CancelWrite, StoreTypeOK, Statuses
  <2> QED BY <2>1, <2>2
<1>2. CASE AbortRead(p)
  <2> DEFINE m == matchOffer[task[p].order].master
  <2>1. task[p].order \in Orders
    BY <1>2 DEF AbortRead, TaskOK
  <2>2. m \in Masters \cup {NoMaster}
    BY <2>1 DEF StoreTypeOK, Offers, NoOffer
  <2>3. "abortDrop" \in Labels /\ "abortDrop" \notin NamesMaster
    BY DEF Labels, NamesMaster
  <2>4. Become(p, [task[p] EXCEPT !.pc = "abortDrop", !.master = m])
    BY <1>2 DEF AbortRead
  <2>5. TaskOK'
    <3> HIDE DEF m
    <3> QED BY <2>1, <2>2, <2>3, <2>4, GotoWithMasterType
  <2> QED BY <1>2, <2>5, SameStore DEF AbortRead
<1>3. CASE AbortDrop(p)
  <2>1. TaskOK'
    BY <1>3, GotoType, ReturnType DEF AbortDrop, TaskOK, Labels, NamesMaster
  <2>2. StoreTypeOK'
    BY <1>3, EmptyQueue DEF AbortDrop, StoreTypeOK
  <2> QED BY <2>1, <2>2
<1>4. CASE Penalise(p)
  <2>1. TaskOK'
    BY <1>4, GotoType DEF Penalise, TaskOK, Labels, NamesMaster
  <2>2. cancelledJobs' \in [Masters -> Nat]
    BY <1>4, TallyType DEF Penalise, StoreTypeOK
  <2>3. StoreTypeOK'
    BY <1>4, <2>2 DEF Penalise, StoreTypeOK
  <2> QED BY <2>1, <2>3
<1>5. CASE CloseChat(p)
  <2>1. TaskOK'
    BY <1>5, ReturnType DEF CloseChat
  <2>2. StoreTypeOK'
    BY <1>5 DEF CloseChat, StoreTypeOK
  <2> QED BY <2>1, <2>2
<1> QED BY <1>1, <1>2, <1>3, <1>4, <1>5

\* completeOrder.
LEMMA CompleteStepType ==
  ASSUME TypeInv, NEW p \in Procs, CreditCompletion(p) \/ ReopenChat(p)
  PROVE  TypeInv'
<1> USE DEF TypeInv
<1>1. CASE CreditCompletion(p)
  <2>1. TaskOK'
    BY <1>1, GotoType DEF CreditCompletion, TaskOK, Labels, NamesMaster
  <2>2. completedJobs' \in [Masters -> Nat]
    BY <1>1, TallyType DEF CreditCompletion, StoreTypeOK
  <2>3. StoreTypeOK'
    BY <1>1, <2>2 DEF CreditCompletion, StoreTypeOK
  <2> QED BY <2>1, <2>3
<1>2. CASE ReopenChat(p)
  <2>1. TaskOK'
    BY <1>2, ReturnType DEF ReopenChat
  <2>2. StoreTypeOK'
    BY <1>2 DEF ReopenChat, StoreTypeOK
  <2> QED BY <2>1, <2>2
<1> QED BY <1>1, <1>2

\* The calls of clients and pros.
LEMMA RequestType ==
  ASSUME TypeInv, NEW p \in Procs, Request(p)
  PROVE  TypeInv'
<1> USE DEF TypeInv
<1>1. PICK o \in Orders :
        \/ CreateOrder(p, o)
        \/ \E m \in Masters : PassOffer(p, o, m) \/ AcceptOffer(p, o, m)
        \/ \E op \in {"cancel", "penalty"} : CancelOrder(p, o, op)
        \/ CompleteOrder(p, o)
  BY DEF Request
<1>2. CASE CreateOrder(p, o)
  <2>1. TaskOK'
    BY <1>2, BeginType DEF CreateOrder, Labels, NamesMaster, Ops
  <2>2. StoreTypeOK'
    BY <1>2 DEF CreateOrder, StoreTypeOK, Statuses
  <2> QED BY <2>1, <2>2
<1>3. ASSUME NEW m \in Masters, PassOffer(p, o, m) PROVE TypeInv'
  <2>1. TaskOK'
    BY <1>3, BeginType DEF PassOffer, Labels, Ops
  <2> QED BY <1>3, <2>1, SameStore DEF PassOffer
<1>4. ASSUME NEW m \in Masters, AcceptOffer(p, o, m) PROVE TypeInv'
  <2>1. TaskOK'
    BY <1>4, BeginType DEF AcceptOffer, Labels, Ops
  <2> QED BY <1>4, <2>1, SameStore DEF AcceptOffer
<1>5. ASSUME NEW op \in {"cancel", "penalty"}, CancelOrder(p, o, op) PROVE TypeInv'
  <2> DEFINE t == [NoTask EXCEPT !.pc = "cancelWrite", !.op = op, !.order = o,
                                 !.master = master[o], !.seen = status[o]]
  <2>1. t \in Tasks /\ t.pc = "cancelWrite" /\ t.order = o
    <3>1. master[o] \in Masters \cup {NoMaster} /\ status[o] \in Statuses
      BY DEF StoreTypeOK
    <3>2. "cancelWrite" \in Labels /\ op \in Ops
      BY DEF Labels, Ops
    <3> QED BY <3>1, <3>2, NoTaskType DEF Tasks, NoTask
  <2>2. "cancelWrite" \notin NamesMaster
    BY DEF NamesMaster
  <2>3. Become(p, t)
    BY <1>5 DEF CancelOrder
  <2>4. TaskOK'
    <3> HIDE DEF t
    <3> QED BY <2>1, <2>2, <2>3, BecomeType
  <2> QED BY <1>5, <2>4, SameStore DEF CancelOrder
<1>6. CASE CompleteOrder(p, o)
  <2>1. master[o] \in Masters \cup {NoMaster}
    BY DEF StoreTypeOK
  <2>2. TaskOK'
    BY <1>6, <2>1, BeginType DEF CompleteOrder, Labels, NamesMaster, Ops
  <2>3. StoreTypeOK'
    BY <1>6 DEF CompleteOrder, StoreTypeOK, Statuses
  <2> QED BY <2>2, <2>3
<1> QED BY <1>1, <1>2, <1>3, <1>4, <1>5, <1>6

\* The worker, the clock and crashes.
LEMMA TimeoutType ==
  ASSUME TypeInv, NEW o \in Orders, NEW m \in Masters, Timeout(o, m)
  PROVE  TypeInv'
<1> USE DEF TypeInv
<1>1. PICK p \in Workers : ExpireOffer(p, o, m)
  BY DEF Timeout
<1>2. TaskOK'
  <2>1. CASE UNCHANGED task
    BY <2>1 DEF TaskOK
  <2>2. CASE Begin(p, "expire", "answer", o, m)
    BY <2>2, BeginType DEF Procs, Labels, Ops
  <2> QED BY <1>1, <2>1, <2>2 DEF ExpireOffer
<1>3. StoreTypeOK'
  BY <1>1 DEF ExpireOffer, StoreTypeOK
<1> QED BY <1>2, <1>3

LEMMA ClockType ==
  ASSUME TypeInv, Clock
  PROVE  TypeInv'
<1> USE DEF TypeInv
<1>1. UNCHANGED task
  BY DEF Clock, OfferWindowCloses, OfferKeyExpires, QueueKeyExpires, LockExpires,
         ReservationExpires
<1>2. TaskOK'
  BY <1>1 DEF TaskOK
<1>3. ASSUME NEW o \in Orders, OfferWindowCloses(o) PROVE StoreTypeOK'
  <2>1. matchOffer[o] \in [master : Masters, fresh : BOOLEAN]
    BY <1>3 DEF OfferWindowCloses, StoreTypeOK, Offers, NoOffer
  <2>2. [matchOffer[o] EXCEPT !.fresh = FALSE] \in Offers
    BY <2>1 DEF Offers
  <2>3. matchOffer' = [matchOffer EXCEPT ![o] = [matchOffer[o] EXCEPT !.fresh = FALSE]]
    BY <1>3 DEF OfferWindowCloses
  <2> QED BY <1>3, <2>2, <2>3 DEF OfferWindowCloses, StoreTypeOK
<1>4. ASSUME NEW o \in Orders, OfferKeyExpires(o) PROVE StoreTypeOK'
  BY <1>4 DEF OfferKeyExpires, StoreTypeOK, Offers
<1>5. ASSUME NEW o \in Orders, QueueKeyExpires(o) PROVE StoreTypeOK'
  BY <1>5, EmptyQueue DEF QueueKeyExpires, StoreTypeOK
<1>6. ASSUME NEW o \in Orders, LockExpires(o) PROVE StoreTypeOK'
  BY <1>6 DEF LockExpires, StoreTypeOK
<1>7. ASSUME NEW m \in Masters, ReservationExpires(m) PROVE StoreTypeOK'
  BY <1>7 DEF ReservationExpires, StoreTypeOK
<1> QED BY <1>2, <1>3, <1>4, <1>5, <1>6, <1>7 DEF Clock

LEMMA CrashType ==
  ASSUME TypeInv, NEW p \in Procs, Crash(p)
  PROVE  TypeInv'
<1> USE DEF TypeInv
<1>1. TaskOK'
  BY ReturnType DEF Crash
<1>2. lock' \in [Orders -> Procs \cup {Free, Orphan}]
  BY DEF Crash, StoreTypeOK
<1>3. timers' \subseteq Orders \X Masters
  BY DEF Crash, StoreTypeOK, TaskOK, NamesMaster
<1>4. StoreTypeOK'
  BY <1>2, <1>3 DEF Crash, StoreTypeOK
<1> QED BY <1>1, <1>4

LEMMA NextType == ASSUME TypeInv, [Next]_vars PROVE TypeInv'
<1>1. CASE UNCHANGED vars
  BY <1>1 DEF vars, TypeInv, StoreTypeOK, TaskOK
<1>2. ASSUME NEW p \in Procs, Step(p) PROVE TypeInv'
  BY <1>2, PostStepType, ReserveStepType, OfferStepType, AnswerStepType, AcceptStepType,
     CancelStepType, CompleteStepType DEF Step
<1> QED BY <1>1, <1>2, RequestType, TimeoutType, ClockType, CrashType DEF Next

\* Every variable keeps its type, whatever the handlers do and whichever of them
\* dies: acceptOffer never drives a balance below zero, and every handler that
\* writes an order or a pro has one to write.
THEOREM TypeCorrect == Spec => []TypeOK
<1>1. TypeInv => TypeOK
  BY DEF TypeInv, TypeOK, TaskOK
<1> QED BY <1>1, InitType, NextType, PTL DEF Spec

-----------------------------------------------------------------------------
(* On a replica set: what the transactions of createOrder and acceptOffer  *)
(* buy.  The commands a standalone mongod runs one by one never run, and   *)
(* the only step that touches a job's pro, a balance or the fee ledger is  *)
(* the accepting transaction.                                              *)

StandaloneSteps == {"create", "debit", "assign", "recredit", "mark", "ledger", "openChat"}

Cancellable == {"pending", "matching", "accepted"}

\* No handler is at a standalone step, and cancelOrder goes on to write only
\* after it has read a job it may cancel.
TransactionalInv ==
  \A p \in Procs :
    /\ task[p].pc \notin StandaloneSteps
    /\ task[p].pc = "cancelWrite" => task[p].seen \in Cancellable

LEMMA BecomeAtomic ==
  ASSUME TaskOK, TransactionalInv, NEW p \in Procs, NEW t, Become(p, t),
         t.pc \notin StandaloneSteps,
         t.pc = "cancelWrite" => t.seen \in Cancellable
  PROVE  TransactionalInv'
BY DEF TaskOK, TransactionalInv, Become

LEMMA GotoAtomic ==
  ASSUME TaskOK, TransactionalInv, NEW p \in Procs, NEW label, Goto(p, label),
         label \notin StandaloneSteps, label # "cancelWrite"
  PROVE  TransactionalInv'
<1>1. [task[p] EXCEPT !.pc = label].pc = label
  BY DEF TaskOK, Tasks
<1> QED BY <1>1, BecomeAtomic DEF Goto

LEMMA ReturnAtomic ==
  ASSUME TaskOK, TransactionalInv, NEW p \in Procs, Return(p) PROVE TransactionalInv'
<1>1. NoTask.pc = "idle" /\ "idle" \notin StandaloneSteps
  BY DEF NoTask, StandaloneSteps
<1> QED BY <1>1, BecomeAtomic DEF Return

LEMMA BeginAtomic ==
  ASSUME TaskOK, TransactionalInv, NEW p \in Procs, NEW op, NEW label, NEW o, NEW m,
         Begin(p, op, label, o, m), label \notin StandaloneSteps, label # "cancelWrite"
  PROVE  TransactionalInv'
<1> DEFINE t == [NoTask EXCEPT !.pc = label, !.op = op, !.order = o, !.master = m]
<1>1. t.pc = label
  BY DEF NoTask
<1>2. Become(p, t)
  BY DEF Begin
<1> HIDE DEF t
<1> QED BY <1>1, <1>2, BecomeAtomic

\* Every step of a handler but the accepting transaction leaves the money and the
\* pros alone.
LEMMA HandlerAtomic ==
  ASSUME TypeInv, TransactionalInv, NEW p \in Procs, Step(p)
  PROVE  /\ TransactionalInv'
         /\ \/ UNCHANGED <<master, balance, fees>>
            \/ ChargeAndAssign(p) /\ StillOpen(task[p].order)
<1> USE DEF TypeInv
<1>1. CASE InsertOrder(p) \/ Debit(p) \/ Assign(p) \/ Recredit(p) \/ MarkOffer(p)
           \/ RecordFee(p) \/ OpenChat(p)
  BY <1>1 DEF InsertOrder, Debit, Assign, Recredit, MarkOffer, RecordFee, OpenChat,
              TransactionalInv, StandaloneSteps
<1>2. CASE BuildCandidates(p)
  BY <1>2, BecomeAtomic DEF BuildCandidates, TaskOK, Tasks, StandaloneSteps
<1>3. CASE EnqueueCandidates(p)
  BY <1>3, BecomeAtomic, ReturnAtomic DEF EnqueueCandidates, TaskOK, Tasks, StandaloneSteps
<1>4. CASE AcquireLock(p)
  BY <1>4, BecomeAtomic, ReturnAtomic DEF AcquireLock, NoTask, StandaloneSteps
<1>5. CASE CheckSearching(p) \/ DropStaleQueue(p) \/ CheckOutstanding(p) \/ GiveUp(p)
           \/ SetOffer(p) \/ PushOffer(p) \/ ArmTimeout(p) \/ DropQueue(p)
  BY <1>5, GotoAtomic
     DEF CheckSearching, DropStaleQueue, CheckOutstanding, GiveUp, SetOffer, PushOffer,
         ArmTimeout, DropQueue, StandaloneSteps
<1>6. CASE PopCandidate(p)
  BY <1>6, GotoAtomic, BecomeAtomic DEF PopCandidate, TaskOK, Tasks, StandaloneSteps
<1>7. CASE ReserveMaster(p)
  BY <1>7, GotoAtomic, BecomeAtomic DEF ReserveMaster, TaskOK, Tasks, StandaloneSteps
<1>8. CASE ReleaseLock(p) \/ RefuseAccept(p) \/ CloseChat(p) \/ ReopenChat(p)
  BY <1>8, ReturnAtomic DEF ReleaseLock, RefuseAccept, CloseChat, ReopenChat
<1>9. CASE ReadForUndo(p) \/ ReadForClear(p)
  BY <1>9, BecomeAtomic
     DEF ReadForUndo, ReadForClear, ReadBeforeClear, TaskOK, Tasks, StandaloneSteps
<1>10. CASE UndoOffer(p) \/ ClearAnswered(p)
  BY <1>10, GotoAtomic, ReturnAtomic DEF UndoOffer, ClearAnswered, ClearOffer, StandaloneSteps
<1>11. CASE RecordAnswer(p)
  BY <1>11, GotoAtomic, ReturnAtomic DEF RecordAnswer, StandaloneSteps
<1>12. CASE ChargeAndAssign(p)
  BY <1>12, GotoAtomic, ReturnAtomic DEF ChargeAndAssign, LoseRace, StandaloneSteps
<1>13. CASE CancelWrite(p)
  BY <1>13, GotoAtomic, ReturnAtomic DEF CancelWrite, StandaloneSteps
<1>14. CASE AbortRead(p)
  BY <1>14, BecomeAtomic DEF AbortRead, TaskOK, Tasks, StandaloneSteps
<1>15. CASE AbortDrop(p) \/ Penalise(p) \/ CreditCompletion(p)
  BY <1>15, GotoAtomic, ReturnAtomic DEF AbortDrop, Penalise, CreditCompletion, StandaloneSteps
<1> QED BY <1>1, <1>2, <1>3, <1>4, <1>5, <1>6, <1>7, <1>8, <1>9, <1>10, <1>11, <1>12,
           <1>13, <1>14, <1>15 DEF Step

LEMMA RequestAtomic ==
  ASSUME TypeInv, TransactionalInv, Transactional, NEW p \in Procs, Request(p)
  PROVE  TransactionalInv' /\ UNCHANGED <<master, balance, fees>>
<1> USE DEF TypeInv
<1>1. PICK o \in Orders :
        \/ CreateOrder(p, o)
        \/ \E m \in Masters : PassOffer(p, o, m) \/ AcceptOffer(p, o, m)
        \/ \E op \in {"cancel", "penalty"} : CancelOrder(p, o, op)
        \/ CompleteOrder(p, o)
  BY DEF Request
<1>2. CASE CreateOrder(p, o)
  BY <1>2, BeginAtomic DEF CreateOrder, StandaloneSteps
<1>3. ASSUME NEW m \in Masters, PassOffer(p, o, m) \/ AcceptOffer(p, o, m)
      PROVE  TransactionalInv' /\ UNCHANGED <<master, balance, fees>>
  BY <1>3, BeginAtomic DEF PassOffer, AcceptOffer, StandaloneSteps
<1>4. ASSUME NEW op \in {"cancel", "penalty"}, CancelOrder(p, o, op)
      PROVE  TransactionalInv' /\ UNCHANGED <<master, balance, fees>>
  <2> DEFINE t == [NoTask EXCEPT !.pc = "cancelWrite", !.op = op, !.order = o,
                                 !.master = master[o], !.seen = status[o]]
  <2>1. t.pc = "cancelWrite" /\ t.seen = status[o]
    BY DEF NoTask
  <2>2. "cancelWrite" \notin StandaloneSteps /\ status[o] \in Cancellable
    BY <1>4 DEF CancelOrder, StandaloneSteps, Cancellable
  <2>3. Become(p, t)
    BY <1>4 DEF CancelOrder
  <2>4. TransactionalInv'
    <3> HIDE DEF t
    <3> QED BY <2>1, <2>2, <2>3, BecomeAtomic
  <2> QED BY <1>4, <2>4 DEF CancelOrder
<1>5. CASE CompleteOrder(p, o)
  BY <1>5, BeginAtomic DEF CompleteOrder, StandaloneSteps
<1> QED BY <1>1, <1>2, <1>3, <1>4, <1>5

LEMMA EnvironmentAtomic ==
  ASSUME TypeInv, TransactionalInv,
         \/ Clock
         \/ \E o \in Orders, m \in Masters : Timeout(o, m)
         \/ \E p \in Procs : Crash(p)
         \/ UNCHANGED vars
  PROVE  TransactionalInv' /\ UNCHANGED <<status, master, balance, fees>>
<1> USE DEF TypeInv
<1>1. CASE Clock
  <2>1. UNCHANGED <<orderVars, walletVars, task>>
    BY <1>1 DEF Clock, OfferWindowCloses, OfferKeyExpires, QueueKeyExpires, LockExpires,
                ReservationExpires
  <2> QED BY <2>1 DEF TransactionalInv
<1>2. ASSUME NEW o \in Orders, NEW m \in Masters, Timeout(o, m)
      PROVE  TransactionalInv' /\ UNCHANGED <<status, master, balance, fees>>
  <2>1. PICK p \in Workers : ExpireOffer(p, o, m)
    BY <1>2 DEF Timeout
  <2>2. CASE Begin(p, "expire", "answer", o, m)
    BY <2>1, <2>2, BeginAtomic DEF ExpireOffer, Procs, StandaloneSteps
  <2>3. CASE UNCHANGED task
    BY <2>1, <2>3 DEF ExpireOffer, TransactionalInv
  <2> QED BY <2>1, <2>2, <2>3 DEF ExpireOffer
<1>3. ASSUME NEW p \in Procs, Crash(p)
      PROVE  TransactionalInv' /\ UNCHANGED <<status, master, balance, fees>>
  BY <1>3, ReturnAtomic DEF Crash
<1>4. CASE UNCHANGED vars
  BY <1>4 DEF vars, TransactionalInv
<1> QED BY <1>1, <1>2, <1>3, <1>4

LEMMA NextAtomic ==
  ASSUME TypeInv, TransactionalInv, Transactional, [Next]_vars
  PROVE  /\ TransactionalInv'
         /\ \/ UNCHANGED <<master, balance, fees>>
            \/ \E p \in Procs : ChargeAndAssign(p) /\ StillOpen(task[p].order)
BY HandlerAtomic, RequestAtomic, EnvironmentAtomic DEF Next

-----------------------------------------------------------------------------
(* A fee for exactly the jobs a pro got. *)

LEMMA FeeArithmetic ==
  ASSUME NEW b \in Nat, NEW n \in Nat, NEW f \in Nat, NEW total \in Nat, b + f * n = total
  PROVE  (b - f) + f * (n + 1) = total
<1>1. f * (n + 1) = f * n + f
  OBVIOUS
<1> QED BY <1>1

\* The accepting transaction adds one job and one fee, to the same pro.
LEMMA AcceptKeepsBooks ==
  ASSUME TypeInv, FeeMatchesJob, NEW p \in Procs, ChargeAndAssign(p), StillOpen(task[p].order)
  PROVE  FeeMatchesJob'
<1> DEFINE o == task[p].order
           m == task[p].master
<1>1. o \in Orders /\ m \in Masters /\ master[o] = NoMaster
  BY DEF ChargeAndAssign, StillOpen, TypeInv, TaskOK, NamesMaster
<1>2. /\ master' = [master EXCEPT ![o] = m]
      /\ balance' = [balance EXCEPT ![m] = @ - Fee]
      /\ fees' = fees \cup FeeEntry(o, m)
  BY DEF ChargeAndAssign
<1>3. master \in [Orders -> Masters \cup {NoMaster}] /\ balance \in [Masters -> Nat]
  BY DEF TypeInv, StoreTypeOK
<1> HIDE DEF o, m
<1>4. ASSUME Fee > 0, NEW x \in Orders, NEW y \in Masters
      PROVE  <<x, y>> \in fees' <=> master'[x] = y
  <2>1. <<x, y>> \in fees <=> master[x] = y
    BY <1>4 DEF FeeMatchesJob
  <2>2. fees' = fees \cup {<<o, m>>}
    BY <1>2, <1>4 DEF FeeEntry
  <2> QED BY <1>1, <1>2, <1>3, <2>1, <2>2, NoMasterAssumption
<1>5. ASSUME NEW y \in Masters
      PROVE  balance'[y] + Fee * Cardinality(JobsOf(y)') = Funds[y]
  <2>1. balance[y] + Fee * Cardinality(JobsOf(y)) = Funds[y]
    BY DEF FeeMatchesJob
  <2>2. CASE y = m
    <3>1. JobsOf(y)' = JobsOf(y) \cup {o} /\ o \notin JobsOf(y)
      BY <1>1, <1>2, <1>3, <2>2, NoMasterAssumption DEF JobsOf
    <3>2. IsFiniteSet(JobsOf(y)) /\ Cardinality(JobsOf(y)) \in Nat
      BY OrdersAssumption, FS_Subset, FS_CardinalityType DEF JobsOf
    <3>3. Cardinality(JobsOf(y)') = Cardinality(JobsOf(y)) + 1
      BY <3>1, <3>2, FS_AddElement
    <3>4. balance'[y] = balance[y] - Fee /\ balance[y] \in Nat /\ Funds[y] \in Nat
      BY <1>1, <1>2, <1>3, <2>2, FundsAssumption
    <3> QED BY <2>1, <3>2, <3>3, <3>4, FeeAssumption, FeeArithmetic
  <2>3. CASE y # m
    <3>1. JobsOf(y)' = JobsOf(y)
      BY <1>1, <1>2, <1>3, <2>3, NoMasterAssumption DEF JobsOf
    <3>2. balance'[y] = balance[y]
      BY <1>2, <1>3, <2>3
    <3> QED BY <2>1, <3>1, <3>2
  <2> QED BY <2>2, <2>3
<1> QED BY <1>4, <1>5 DEF FeeMatchesJob

LEMMA InitBooks == Init => TransactionalInv /\ FeeMatchesJob
<1> SUFFICES ASSUME Init PROVE TransactionalInv /\ FeeMatchesJob
  OBVIOUS
<1>1. TransactionalInv
  BY DEF Init, TransactionalInv, NoTask, StandaloneSteps
<1>2. ASSUME NEW m \in Masters PROVE balance[m] + Fee * Cardinality(JobsOf(m)) = Funds[m]
  <2>1. JobsOf(m) = {}
    BY <1>2, NoMasterAssumption DEF Init, JobsOf
  <2>2. Cardinality(JobsOf(m)) = 0
    BY <2>1, FS_EmptySet
  <2> QED BY <2>2, FundsAssumption, FeeAssumption DEF Init
<1>3. ASSUME NEW o \in Orders, NEW m \in Masters PROVE ~(<<o, m>> \in fees) /\ master[o] # m
  BY NoMasterAssumption DEF Init
<1> QED BY <1>1, <1>2, <1>3 DEF FeeMatchesJob

LEMMA NextBooks ==
  ASSUME TypeInv, TransactionalInv, FeeMatchesJob, Transactional, [Next]_vars
  PROVE  FeeMatchesJob'
<1>1. CASE UNCHANGED <<master, balance, fees>>
  BY <1>1 DEF FeeMatchesJob, JobsOf
<1>2. CASE \E p \in Procs : ChargeAndAssign(p) /\ StillOpen(task[p].order)
  BY <1>2, AcceptKeepsBooks
<1> QED BY <1>1, <1>2, NextAtomic

\* Where MongoDB has transactions, a fee is taken for exactly the jobs a pro got,
\* at every moment and not only once the handlers have finished: a pro is never
\* charged for a job somebody else took, none gets a job for free, and no money
\* appears or disappears.
THEOREM FeeIffAssigned == ASSUME Transactional PROVE Spec => []FeeMatchesJob
<1> DEFINE Inv == TypeInv /\ TransactionalInv /\ FeeMatchesJob
<1>1. Init => Inv
  BY InitType, InitBooks
<1>2. Inv /\ [Next]_vars => Inv'
  BY NextType, NextAtomic, NextBooks
<1>3. Inv => FeeMatchesJob
  OBVIOUS
<1> HIDE DEF Inv
<1> QED BY <1>1, <1>2, <1>3, PTL DEF Spec

-----------------------------------------------------------------------------
(* Matching implements JobLifecycle: every step is one of its four events  *)
(* or does not show.                                                       *)

Stage(o) == IF Searching(o) THEN "open" ELSE status[o]

\* One job's status changes.
LEMMA StageMoves ==
  ASSUME StoreTypeOK, NEW o \in Orders, NEW v, status' = [status EXCEPT ![o] = v]
  PROVE  [x \in Orders |-> Stage(x)]'
           = [[x \in Orders |-> Stage(x)] EXCEPT
                ![o] = IF v \in {"pending", "matching"} THEN "open" ELSE v]
BY DEF StoreTypeOK, Stage, Searching

LEMMA StepImplements ==
  ASSUME TypeInv, TransactionalInv, Fee > 0, NEW p \in Procs, Step(p)
  PROVE  [Lifecycle!LNext]_Lifecycle!lifecycleVars
<1> USE DEF TypeInv
<1>1. CASE UNCHANGED <<status, master, fees>>
  BY <1>1 DEF Lifecycle!lifecycleVars, Searching
<1>2. CASE GiveUp(p) \/ PushOffer(p)
  <2>1. task[p].order \in Orders
    BY <1>2 DEF GiveUp, PushOffer, TaskOK
  <2>2. CASE StillOpen(task[p].order)
    <3>1. PICK v \in {"pending", "matching"} : status' = [status EXCEPT ![task[p].order] = v]
      BY <1>2, <2>2 DEF GiveUp, PushOffer
    <3>2. [x \in Orders |-> Stage(x)]' = [x \in Orders |-> Stage(x)]
      <4>1. Stage(task[p].order) = "open"
        BY <2>2 DEF Stage, StillOpen
      <4>2. [x \in Orders |-> Stage(x)]'
            = [[x \in Orders |-> Stage(x)] EXCEPT ![task[p].order] = "open"]
        BY <2>1, <3>1, StageMoves
      <4> QED BY <2>1, <4>1, <4>2
    <3>3. UNCHANGED <<master, fees>>
      BY <1>2 DEF GiveUp, PushOffer
    <3> QED BY <3>2, <3>3 DEF Lifecycle!lifecycleVars, Stage
  <2>3. CASE ~StillOpen(task[p].order)
    BY <1>1, <1>2, <2>3 DEF GiveUp, PushOffer
  <2> QED BY <2>2, <2>3
<1>3. CASE ChargeAndAssign(p)
  <2>1. PICK job \in Orders, pro \in Masters : job = task[p].order /\ pro = task[p].master
    BY <1>3 DEF ChargeAndAssign, TaskOK, NamesMaster
  <2>2. CASE StillOpen(job)
    <3>1. /\ status' = [status EXCEPT ![job] = "accepted"]
          /\ master' = [master EXCEPT ![job] = pro]
          /\ fees' = fees \cup {<<job, pro>>}
      BY <1>3, <2>1, <2>2 DEF ChargeAndAssign, FeeEntry
    <3>2. Stage(job) = "open"
      BY <2>2 DEF Stage, StillOpen
    <3>3. [x \in Orders |-> Stage(x)]' = [[x \in Orders |-> Stage(x)] EXCEPT ![job] = "accepted"]
      BY <2>1, <3>1, StageMoves
    <3>4. Lifecycle!LTake(job, pro)
      BY <2>1, <3>1, <3>2, <3>3 DEF Lifecycle!LTake, Stage
    <3> QED BY <2>1, <3>4 DEF Lifecycle!LNext
  <2>3. CASE ~StillOpen(job)
    BY <1>1, <1>3, <2>1, <2>3 DEF ChargeAndAssign, LoseRace
  <2> QED BY <2>2, <2>3
<1>4. CASE CancelWrite(p)
  <2>1. PICK job \in Orders : job = task[p].order /\ task[p].seen \in Cancellable
    BY <1>4 DEF CancelWrite, TaskOK, TransactionalInv
  <2>2. CASE SameAsRead(p)
    <3>1. status' = [status EXCEPT ![job] = "cancelled"] /\ UNCHANGED <<master, fees>>
      BY <1>4, <2>1, <2>2 DEF CancelWrite
    <3>2. Stage(job) \in {"open", "accepted"}
      BY <2>1, <2>2 DEF SameAsRead, Cancellable, Stage, Searching
    <3>3. [x \in Orders |-> Stage(x)]' = [[x \in Orders |-> Stage(x)] EXCEPT ![job] = "cancelled"]
      BY <2>1, <3>1, StageMoves
    <3>4. Lifecycle!LCancel(job)
      BY <2>1, <3>1, <3>2, <3>3 DEF Lifecycle!LCancel, Stage
    <3> QED BY <2>1, <3>4 DEF Lifecycle!LNext
  <2>3. CASE ~SameAsRead(p)
    BY <1>1, <1>4, <2>3 DEF CancelWrite
  <2> QED BY <2>2, <2>3
<1>5. CASE InsertOrder(p) \/ Debit(p) \/ Assign(p) \/ Recredit(p) \/ MarkOffer(p)
           \/ RecordFee(p) \/ OpenChat(p)
  BY <1>5 DEF InsertOrder, Debit, Assign, Recredit, MarkOffer, RecordFee, OpenChat,
              TransactionalInv, StandaloneSteps
<1>6. \/ UNCHANGED <<status, master, fees>>
      \/ GiveUp(p) \/ PushOffer(p) \/ ChargeAndAssign(p) \/ CancelWrite(p)
      \/ InsertOrder(p) \/ Debit(p) \/ Assign(p) \/ Recredit(p) \/ MarkOffer(p)
      \/ RecordFee(p) \/ OpenChat(p)
  BY DEF Step, BuildCandidates, EnqueueCandidates, AcquireLock, CheckSearching,
         DropStaleQueue, CheckOutstanding, PopCandidate, ReserveMaster, SetOffer, ArmTimeout,
         ReleaseLock, ReadForUndo, UndoOffer, ReadForClear, ClearAnswered, ReadBeforeClear,
         ClearOffer, RecordAnswer, RefuseAccept, DropQueue, AbortRead, AbortDrop, Penalise,
         CloseChat, CreditCompletion, ReopenChat
<1> QED BY <1>1, <1>2, <1>3, <1>4, <1>5, <1>6

LEMMA RequestImplements ==
  ASSUME TypeInv, Transactional, NEW p \in Procs, Request(p)
  PROVE  [Lifecycle!LNext]_Lifecycle!lifecycleVars
<1> USE DEF TypeInv
<1>1. PICK o \in Orders :
        \/ CreateOrder(p, o)
        \/ \E m \in Masters : PassOffer(p, o, m) \/ AcceptOffer(p, o, m)
        \/ \E op \in {"cancel", "penalty"} : CancelOrder(p, o, op)
        \/ CompleteOrder(p, o)
  BY DEF Request
<1>2. CASE CreateOrder(p, o)
  <2>1. status' = [status EXCEPT ![o] = "pending"] /\ UNCHANGED <<master, fees>>
    BY <1>2 DEF CreateOrder
  <2>2. Stage(o) = "absent"
    BY <1>2 DEF CreateOrder, Stage, Searching
  <2>3. [x \in Orders |-> Stage(x)]' = [[x \in Orders |-> Stage(x)] EXCEPT ![o] = "open"]
    BY <2>1, StageMoves
  <2>4. Lifecycle!LPost(o)
    BY <2>1, <2>2, <2>3 DEF Lifecycle!LPost, Stage
  <2> QED BY <2>4 DEF Lifecycle!LNext
<1>3. CASE CompleteOrder(p, o)
  <2>1. status' = [status EXCEPT ![o] = "done"] /\ UNCHANGED <<master, fees>>
    BY <1>3 DEF CompleteOrder
  <2>2. Stage(o) = "accepted"
    BY <1>3 DEF CompleteOrder, Stage, Searching
  <2>3. [x \in Orders |-> Stage(x)]' = [[x \in Orders |-> Stage(x)] EXCEPT ![o] = "done"]
    BY <2>1, StageMoves
  <2>4. Lifecycle!LComplete(o)
    BY <2>1, <2>2, <2>3 DEF Lifecycle!LComplete, Stage
  <2> QED BY <2>4 DEF Lifecycle!LNext
<1>4. CASE UNCHANGED <<status, master, fees>>
  BY <1>4 DEF Lifecycle!lifecycleVars, Searching
<1> QED BY <1>1, <1>2, <1>3, <1>4 DEF PassOffer, AcceptOffer, CancelOrder

LEMMA NextImplements ==
  ASSUME TypeInv, TransactionalInv, Transactional, Fee > 0, [Next]_vars
  PROVE  [Lifecycle!LNext]_Lifecycle!lifecycleVars
<1>1. CASE UNCHANGED <<status, master, balance, fees>>
  BY <1>1 DEF Lifecycle!lifecycleVars, Searching
<1> QED BY <1>1, StepImplements, RequestImplements, EnvironmentAtomic DEF Next

\* With transactions and a fee to take, the search for a pro is invisible from
\* outside: a job is posted, taken by one pro in the same event as the fee,
\* completed or cancelled, and nothing else ever happens to it.
THEOREM MatchingImplementsLifecycle ==
  ASSUME Transactional, Fee > 0 PROVE Spec => ImplementsLifecycle
<1> DEFINE Inv == TypeInv /\ TransactionalInv
<1>1. Init => Inv
  BY InitType, InitBooks
<1>2. Inv /\ [Next]_vars => Inv'
  BY NextType, NextAtomic
<1>3. Init => Lifecycle!LInit
  BY DEF Init, Lifecycle!LInit, Searching
<1>4. Inv /\ [Next]_vars => [Lifecycle!LNext]_Lifecycle!lifecycleVars
  BY NextImplements
<1> HIDE DEF Inv
<1> QED BY <1>1, <1>2, <1>3, <1>4, PTL DEF Spec, ImplementsLifecycle, Lifecycle!LSpec

-----------------------------------------------------------------------------
(* The offers. What a handler may be doing. *)

Starting == {"create", "candidates", "enqueue"}
Advancing == {"lock", "check", "dropStale", "outstanding", "pop", "reserve", "giveUp",
              "offer", "push"}
Ending == {"arm", "undoRead", "undo", "unlock"}
Clearing == {"clearRead", "clear"}

Accepting == {"charge", "debit", "assign", "recredit", "mark", "ledger", "openChat", "dropQueue"}
Cancelling == {"cancelWrite", "abortRead", "abortDrop", "penalise", "closeChat"}

\* Which operation a handler at a label is busy with.
PlaceOK(pc, op) ==
  /\ pc \in Starting => op = "post"
  /\ pc \in Advancing \cup Ending => op \in {"post", "pass", "expire"}
  /\ pc = "answer" => op \in {"pass", "expire"}
  /\ pc \in Clearing => op \in {"pass", "expire", "accept", "cancel", "penalty"}
  /\ pc \in Accepting => op = "accept"
  /\ pc \in Cancelling => op \in {"cancel", "penalty"}
  /\ pc \in {"credit", "reopenChat"} => op = "complete"
  /\ pc = "idle" => op = "none"

PlaceInv == \A p \in Procs : PlaceOK(task[p].pc, task[p].op)

\* What a step changes in memory: one handler's task.
OthersStay(p) == \A q \in Procs \ {p} : task'[q] = task[q]

LEMMA BecomeMoves ==
  ASSUME TaskOK, NEW p \in Procs, NEW t, Become(p, t)
  PROVE  task'[p] = t /\ OthersStay(p)
BY DEF TaskOK, Become, OthersStay

LEMMA GotoMoves ==
  ASSUME TaskOK, NEW p \in Procs, NEW label, Goto(p, label)
  PROVE  /\ OthersStay(p)
         /\ task'[p].pc = label
         /\ task'[p].op = task[p].op /\ task'[p].order = task[p].order
         /\ task'[p].master = task[p].master /\ task'[p].seen = task[p].seen
         /\ task'[p].mine = task[p].mine /\ task'[p].found = task[p].found
<1>1. task[p] \in Tasks
  BY DEF TaskOK
<1> QED BY <1>1, BecomeMoves DEF Goto, Tasks

\* A handler that moves on and remembers one thing more.
LEMMA GotoWithMasterMoves ==
  ASSUME TaskOK, NEW p \in Procs, NEW label, NEW m,
         Become(p, [task[p] EXCEPT !.pc = label, !.master = m])
  PROVE  /\ OthersStay(p)
         /\ task'[p].pc = label /\ task'[p].master = m
         /\ task'[p].op = task[p].op /\ task'[p].order = task[p].order
         /\ task'[p].seen = task[p].seen /\ task'[p].found = task[p].found
<1> DEFINE t == [task[p] EXCEPT !.pc = label, !.master = m]
<1>1. /\ t.pc = label /\ t.master = m /\ t.op = task[p].op /\ t.order = task[p].order
      /\ t.seen = task[p].seen /\ t.found = task[p].found
  BY DEF TaskOK, Tasks
<1>2. Become(p, t)
  OBVIOUS
<1> HIDE DEF t
<1> QED BY <1>1, <1>2, BecomeMoves

LEMMA GotoWithFoundMoves ==
  ASSUME TaskOK, NEW p \in Procs, NEW label, NEW q,
         Become(p, [task[p] EXCEPT !.pc = label, !.found = q])
  PROVE  /\ OthersStay(p)
         /\ task'[p].pc = label /\ task'[p].found = q
         /\ task'[p].op = task[p].op /\ task'[p].order = task[p].order
         /\ task'[p].master = task[p].master
<1> DEFINE t == [task[p] EXCEPT !.pc = label, !.found = q]
<1>1. /\ t.pc = label /\ t.found = q /\ t.op = task[p].op /\ t.order = task[p].order
      /\ t.master = task[p].master
  BY DEF TaskOK, Tasks
<1>2. Become(p, t)
  OBVIOUS
<1> HIDE DEF t
<1> QED BY <1>1, <1>2, BecomeMoves

LEMMA ReadMoves ==
  ASSUME TaskOK, NEW p \in Procs, NEW here, NEW there, ReadBeforeClear(p, here, there)
  PROVE  /\ OthersStay(p)
         /\ task[p].pc = here /\ task'[p].pc = there
         /\ task'[p].mine = OfferIsOf(task[p].order, task[p].master)
         /\ task'[p].op = task[p].op /\ task'[p].order = task[p].order
         /\ task'[p].master = task[p].master /\ task'[p].found = task[p].found
         /\ UNCHANGED <<orderVars, chat, walletVars, tallyVars, redisVars>>
<1> DEFINE mine == OfferIsOf(task[p].order, task[p].master)
           t == [task[p] EXCEPT !.pc = there, !.mine = mine]
<1> HIDE DEF mine
<1>1. /\ t.pc = there /\ t.mine = mine /\ t.op = task[p].op /\ t.order = task[p].order
      /\ t.master = task[p].master /\ t.found = task[p].found
  BY DEF TaskOK, Tasks
<1>2. Become(p, t) /\ task[p].pc = here
  BY DEF ReadBeforeClear, mine
<1>3. UNCHANGED <<orderVars, chat, walletVars, tallyVars, redisVars>>
  BY Zenon DEF ReadBeforeClear
<1> HIDE DEF t
<1> QED BY <1>1, <1>2, <1>3, BecomeMoves DEF mine

\* A handler that gets the lock starts over with its order alone.
LEMMA LockMoves ==
  ASSUME TaskOK, NEW p \in Procs,
         Become(p, [NoTask EXCEPT !.pc = "check", !.op = task[p].op, !.order = task[p].order])
  PROVE  /\ OthersStay(p)
         /\ task'[p].pc = "check" /\ task'[p].op = task[p].op
         /\ task'[p].order = task[p].order /\ task'[p].found = <<>>
<1> DEFINE t == [NoTask EXCEPT !.pc = "check", !.op = task[p].op, !.order = task[p].order]
<1>1. t.pc = "check" /\ t.op = task[p].op /\ t.order = task[p].order /\ t.found = <<>>
  BY DEF NoTask
<1>2. Become(p, t)
  OBVIOUS
<1> HIDE DEF t
<1> QED BY <1>1, <1>2, BecomeMoves

LEMMA ReturnMoves ==
  ASSUME TaskOK, NEW p \in Procs, Return(p)
  PROVE  /\ OthersStay(p)
         /\ task'[p].pc = "idle" /\ task'[p].op = "none" /\ task'[p].order = NoOrder
         /\ task'[p].found = <<>>
BY BecomeMoves DEF Return, NoTask

LEMMA BeginMoves ==
  ASSUME TaskOK, NEW p \in Procs, NEW op, NEW label, NEW o, NEW m, Begin(p, op, label, o, m)
  PROVE  /\ OthersStay(p) /\ task[p].pc = "idle"
         /\ task'[p].pc = label /\ task'[p].op = op /\ task'[p].order = o
         /\ task'[p].master = m /\ task'[p].found = <<>>
<1> DEFINE t == [NoTask EXCEPT !.pc = label, !.op = op, !.order = o, !.master = m]
<1>1. t.pc = label /\ t.op = op /\ t.order = o /\ t.master = m /\ t.found = <<>>
  BY DEF NoTask
<1>2. Become(p, t) /\ task[p].pc = "idle"
  BY DEF Begin
<1> HIDE DEF t
<1> QED BY <1>1, <1>2, BecomeMoves

LEMMA CancelMoves ==
  ASSUME TaskOK, NEW p \in Procs, NEW o, NEW op, CancelOrder(p, o, op)
  PROVE  /\ OthersStay(p) /\ task[p].pc = "idle"
         /\ task'[p].pc = "cancelWrite" /\ task'[p].op = op /\ task'[p].order = o
         /\ task'[p].master = master[o] /\ task'[p].seen = status[o] /\ task'[p].found = <<>>
<1> DEFINE t == [NoTask EXCEPT !.pc = "cancelWrite", !.op = op, !.order = o,
                               !.master = master[o], !.seen = status[o]]
<1>1. /\ t.pc = "cancelWrite" /\ t.op = op /\ t.order = o /\ t.master = master[o]
      /\ t.seen = status[o] /\ t.found = <<>>
  BY DEF NoTask
<1>2. Become(p, t) /\ task[p].pc = "idle"
  BY DEF CancelOrder
<1> HIDE DEF t
<1> QED BY <1>1, <1>2, BecomeMoves

\* The steps that remember something, in these terms.
LEMMA BuildMoves ==
  ASSUME TaskOK, NEW p \in Procs, BuildCandidates(p)
  PROVE  /\ OthersStay(p)
         /\ task[p].pc = "candidates" /\ task'[p].pc = "enqueue"
         /\ task'[p].found \in Candidates(task[p].order)
         /\ task'[p].op = task[p].op /\ task'[p].order = task[p].order
         /\ task'[p].master = task[p].master
         /\ UNCHANGED <<orderVars, chat, walletVars, tallyVars, redisVars>>
<1>1. PICK q \in Candidates(task[p].order) :
        Become(p, [task[p] EXCEPT !.pc = "enqueue", !.found = q])
  BY DEF BuildCandidates
<1>2. task[p].pc = "candidates" /\ UNCHANGED <<orderVars, chat, walletVars, tallyVars, redisVars>>
  BY DEF BuildCandidates
<1> QED BY <1>1, <1>2, GotoWithFoundMoves

LEMMA EnqueueMoves ==
  ASSUME TaskOK, NEW p \in Procs, EnqueueCandidates(p)
  PROVE  /\ task[p].pc = "enqueue"
         /\ matchQueue' = [matchQueue EXCEPT ![task[p].order] = task[p].found]
         /\ UNCHANGED <<orderVars, chat, walletVars, tallyVars, matchOffer, masterOffer, lock, timers>>
         /\ \/ Return(p)
            \/ /\ OthersStay(p)
               /\ task'[p].pc = "lock" /\ task'[p].found = <<>>
               /\ task'[p].op = task[p].op /\ task'[p].order = task[p].order
               /\ task'[p].master = task[p].master
<1>1. \/ Return(p)
      \/ Become(p, [task[p] EXCEPT !.pc = "lock", !.found = <<>>])
  BY DEF EnqueueCandidates
<1>2. /\ task[p].pc = "enqueue"
      /\ matchQueue' = [matchQueue EXCEPT ![task[p].order] = task[p].found]
      /\ UNCHANGED <<orderVars, chat, walletVars, tallyVars, matchOffer, masterOffer, lock, timers>>
  BY Zenon DEF EnqueueCandidates
<1>3. CASE Become(p, [task[p] EXCEPT !.pc = "lock", !.found = <<>>])
  BY <1>2, <1>3, GotoWithFoundMoves
<1> QED BY <1>1, <1>2, <1>3

LEMMA AcquireMoves ==
  ASSUME TaskOK, NEW p \in Procs, AcquireLock(p)
  PROVE  /\ task[p].pc = "lock"
         /\ UNCHANGED <<orderVars, chat, walletVars, tallyVars, matchQueue, matchOffer, masterOffer, timers>>
         /\ \/ Return(p) /\ UNCHANGED lock
            \/ /\ OthersStay(p)
               /\ task'[p].pc = "check" /\ task'[p].op = task[p].op
               /\ task'[p].order = task[p].order /\ task'[p].found = <<>>
               /\ lock[task[p].order] = Free /\ lock' = [lock EXCEPT ![task[p].order] = p]
<1> DEFINE Taken == /\ lock[task[p].order] = Free
                    /\ lock' = [lock EXCEPT ![task[p].order] = p]
<1>1. \/ Return(p) /\ UNCHANGED lock
      \/ Become(p, [NoTask EXCEPT !.pc = "check", !.op = task[p].op, !.order = task[p].order])
         /\ Taken
  BY Zenon DEF AcquireLock
<1>2. /\ task[p].pc = "lock"
      /\ UNCHANGED <<orderVars, chat, walletVars, tallyVars, matchQueue, matchOffer, masterOffer, timers>>
  BY Zenon DEF AcquireLock
<1> QED BY <1>1, <1>2, LockMoves

LEMMA PopMoves ==
  ASSUME TaskOK, NEW p \in Procs, PopCandidate(p)
  PROVE  /\ task[p].pc = "pop"
         /\ UNCHANGED <<orderVars, chat, walletVars, tallyVars, matchOffer, masterOffer, lock, timers>>
         /\ \/ Goto(p, "giveUp") /\ UNCHANGED matchQueue
            \/ /\ OthersStay(p)
               /\ matchQueue[task[p].order] # <<>>
               /\ matchQueue' = [matchQueue EXCEPT ![task[p].order] = Tail(matchQueue[task[p].order])]
               /\ task'[p].pc = "reserve" /\ task'[p].master = Head(matchQueue[task[p].order])
               /\ task'[p].op = task[p].op /\ task'[p].order = task[p].order
               /\ task'[p].found = task[p].found
<1>1. CASE matchQueue[task[p].order] = <<>>
  BY <1>1, Zenon DEF PopCandidate
<1>2. CASE matchQueue[task[p].order] # <<>>
  <2>1. Become(p, [task[p] EXCEPT !.pc = "reserve", !.master = Head(matchQueue[task[p].order])])
    BY <1>2, Zenon DEF PopCandidate
  <2>2. /\ task[p].pc = "pop"
        /\ matchQueue' = [matchQueue EXCEPT ![task[p].order] = Tail(@)]
        /\ UNCHANGED <<orderVars, chat, walletVars, tallyVars, matchOffer, masterOffer, lock, timers>>
    BY <1>2, Zenon DEF PopCandidate
  <2>3. task[p] \in Tasks
    BY DEF TaskOK
  <2>4. task'[p] = [task[p] EXCEPT !.pc = "reserve", !.master = Head(matchQueue[task[p].order])]
        /\ OthersStay(p)
    BY <2>1, BecomeMoves, Zenon
  <2> QED BY <1>2, <2>2, <2>3, <2>4 DEF Tasks
<1> QED BY <1>1, <1>2

LEMMA ReserveMoves ==
  ASSUME TaskOK, NEW p \in Procs, ReserveMaster(p)
  PROVE  /\ task[p].pc = "reserve"
         /\ UNCHANGED <<orderVars, chat, walletVars, tallyVars, matchQueue, matchOffer, lock, timers>>
         /\ \/ /\ Goto(p, "offer")
               /\ masterOffer[task[p].master] = NoOrder
               /\ masterOffer' = [masterOffer EXCEPT ![task[p].master] = task[p].order]
            \/ /\ OthersStay(p)
               /\ task'[p].pc = "pop"
               /\ task'[p].op = task[p].op /\ task'[p].order = task[p].order
               /\ task'[p].found = task[p].found
               /\ UNCHANGED masterOffer
<1>1. CASE masterOffer[task[p].master] = NoOrder
  BY <1>1, Zenon DEF ReserveMaster
<1>2. CASE masterOffer[task[p].master] # NoOrder
  <2>1. Become(p, [task[p] EXCEPT !.pc = "pop", !.master = NoMaster])
    BY <1>2, Zenon DEF ReserveMaster
  <2>2. /\ task[p].pc = "reserve"
        /\ UNCHANGED <<orderVars, chat, walletVars, tallyVars, redisVars>>
    BY <1>2, Zenon DEF ReserveMaster
  <2> QED BY <2>1, <2>2, GotoWithMasterMoves
<1> QED BY <1>1, <1>2

LEMMA AbortMoves ==
  ASSUME TaskOK, NEW p \in Procs, AbortRead(p)
  PROVE  /\ OthersStay(p)
         /\ task[p].pc = "abortRead" /\ task'[p].pc = "abortDrop"
         /\ task'[p].master = matchOffer[task[p].order].master
         /\ task'[p].op = task[p].op /\ task'[p].order = task[p].order
         /\ task'[p].found = task[p].found /\ task'[p].seen = task[p].seen
         /\ UNCHANGED <<orderVars, chat, walletVars, tallyVars, redisVars>>
<1>1. Become(p, [task[p] EXCEPT !.pc = "abortDrop",
                                !.master = matchOffer[task[p].order].master])
  BY Zenon DEF AbortRead
<1>2. task[p].pc = "abortRead" /\ UNCHANGED <<orderVars, chat, walletVars, tallyVars, redisVars>>
  BY Zenon DEF AbortRead
<1>3. task[p] \in Tasks
  BY DEF TaskOK
<1>4. task'[p] = [task[p] EXCEPT !.pc = "abortDrop", !.master = matchOffer[task[p].order].master]
      /\ OthersStay(p)
  BY <1>1, BecomeMoves, Zenon
<1> QED BY <1>2, <1>3, <1>4 DEF Tasks

-----------------------------------------------------------------------------

LEMMA InitPlaces == Init => PlaceInv
BY DEF Init, PlaceInv, NoTask, PlaceOK, Accepting, Cancelling, Starting, Advancing, Ending, Clearing

LEMMA StepPlaces ==
  ASSUME TypeInv, PlaceInv, NEW p \in Procs, Step(p)
  PROVE  PlaceInv'
<1> USE DEF TypeInv, PlaceInv, PlaceOK, Accepting, Cancelling, Starting, Advancing, Ending, Clearing
<1>1. CASE InsertOrder(p) \/ CheckSearching(p) \/ DropStaleQueue(p) \/ CheckOutstanding(p) \/ GiveUp(p)
           \/ SetOffer(p) \/ PushOffer(p) \/ ArmTimeout(p) \/ Debit(p) \/ Assign(p) \/ MarkOffer(p)
           \/ RecordFee(p) \/ OpenChat(p) \/ DropQueue(p) \/ Penalise(p) \/ CreditCompletion(p)
           \/ UndoOffer(p)
  BY SMTT(20), <1>1, GotoMoves DEF InsertOrder, CheckSearching, DropStaleQueue, CheckOutstanding, GiveUp,
     SetOffer, PushOffer, ArmTimeout, Debit, Assign, MarkOffer, RecordFee, OpenChat, DropQueue,
     Penalise, CreditCompletion, UndoOffer, ClearOffer, OthersStay
<1>2. CASE ReleaseLock(p) \/ RefuseAccept(p) \/ Recredit(p) \/ CloseChat(p) \/ ReopenChat(p)
  BY <1>2, ReturnMoves DEF ReleaseLock, RefuseAccept, Recredit, CloseChat, ReopenChat, OthersStay
<1>3. CASE RecordAnswer(p) \/ ChargeAndAssign(p) \/ ClearAnswered(p) \/ AbortDrop(p)
  BY <1>3, GotoMoves, ReturnMoves
     DEF RecordAnswer, ChargeAndAssign, LoseRace, ClearAnswered, ClearOffer, Advances,
         AbortDrop, OthersStay
<1>5. CASE CancelWrite(p)
  BY <1>5, GotoMoves, ReturnMoves DEF CancelWrite, OthersStay
<1>4. CASE BuildCandidates(p) \/ EnqueueCandidates(p) \/ AcquireLock(p)
  BY <1>4, BuildMoves, EnqueueMoves, AcquireMoves, ReturnMoves DEF OthersStay
<1>6. CASE PopCandidate(p) \/ ReserveMaster(p) \/ AbortRead(p)
  BY <1>6, GotoMoves, PopMoves, ReserveMoves, AbortMoves DEF OthersStay
<1>7. CASE ReadForUndo(p) \/ ReadForClear(p)
  BY <1>7, ReadMoves DEF ReadForUndo, ReadForClear, OthersStay
<1> QED BY <1>1, <1>2, <1>3, <1>4, <1>5, <1>6, <1>7 DEF Step

LEMMA RequestPlaces ==
  ASSUME TypeInv, PlaceInv, NEW p \in Procs, Request(p)
  PROVE  PlaceInv'
<1> USE DEF TypeInv, PlaceInv, PlaceOK, Accepting, Cancelling, Starting, Advancing, Ending, Clearing
<1>1. ASSUME NEW o \in Orders, NEW m \in Masters, PassOffer(p, o, m) \/ AcceptOffer(p, o, m)
      PROVE  PlaceInv'
  BY <1>1, BeginMoves DEF PassOffer, AcceptOffer, OthersStay
<1>2. ASSUME NEW o \in Orders, CreateOrder(p, o) \/ CompleteOrder(p, o)
      PROVE  PlaceInv'
  BY <1>2, BeginMoves DEF CreateOrder, CompleteOrder, OthersStay
<1>3. ASSUME NEW o \in Orders, NEW op \in {"cancel", "penalty"}, CancelOrder(p, o, op)
      PROVE  PlaceInv'
  BY <1>3, CancelMoves DEF OthersStay
<1> QED BY <1>1, <1>2, <1>3 DEF Request

LEMMA EnvironmentPlaces ==
  ASSUME TypeInv, PlaceInv,
         \/ Clock
         \/ \E o \in Orders, m \in Masters : Timeout(o, m)
         \/ \E p \in Procs : Crash(p)
         \/ UNCHANGED vars
  PROVE  PlaceInv'
<1> USE DEF TypeInv, PlaceInv, PlaceOK, Accepting, Cancelling, Starting, Advancing, Ending, Clearing
<1>1. CASE Clock \/ UNCHANGED vars
  <2>1. UNCHANGED task
    BY <1>1 DEF vars, Clock, OfferWindowCloses, OfferKeyExpires, QueueKeyExpires, LockExpires,
                ReservationExpires
  <2> QED BY <2>1
<1>2. ASSUME NEW o \in Orders, NEW m \in Masters, Timeout(o, m) PROVE PlaceInv'
  <2>1. PICK p \in Workers : ExpireOffer(p, o, m)
    BY <1>2 DEF Timeout
  <2> QED BY <2>1, BeginMoves DEF ExpireOffer, OthersStay, Procs
<1>3. ASSUME NEW p \in Procs, Crash(p) PROVE PlaceInv'
  BY <1>3, ReturnMoves DEF Crash, OthersStay
<1> QED BY <1>1, <1>2, <1>3

LEMMA NextPlaces == ASSUME TypeInv, PlaceInv, [Next]_vars PROVE PlaceInv'
BY StepPlaces, RequestPlaces, EnvironmentPlaces DEF Next

-----------------------------------------------------------------------------
(* Who carries the search of a job on: the post until it has made its first *)
(* offer, then whoever recorded the answer to the last one.                 *)

Carries(p, o) ==
  /\ task[p].order = o
  /\ \/ task[p].op = "post" /\ task[p].pc \in Starting \cup Advancing
     \/ task[p].op \in {"pass", "expire"} /\ task[p].pc \in Clearing \cup Advancing

Asked(o, m) == offers[o][m] = "pending"

\* There is one such handler or one pro who is asked, never two and never both.
TokenInv ==
  \A o \in Orders :
    /\ \A p, q \in Procs : Carries(p, o) /\ Carries(q, o) => p = q
    /\ \A m, n \in Masters : Asked(o, m) /\ Asked(o, n) => m = n
    /\ \A p \in Procs, m \in Masters : ~(Carries(p, o) /\ Asked(o, m))
    /\ status[o] = "absent" =>
         /\ \A m \in Masters : ~Asked(o, m)
         /\ \A p \in Procs : Carries(p, o) => task[p].pc = "create"

\* What most steps do to the token: nothing, or lose it.
TokenKept(p) ==
  /\ OthersStay(p)
  /\ \A o \in Orders :
       /\ Carries(p, o)' => Carries(p, o) /\ (status'[o] = "absent" => task[p].pc # "create")
       /\ status'[o] = "absent" => status[o] = "absent"
       /\ \A m \in Masters : Asked(o, m)' => Asked(o, m)

LEMMA TokenFrame ==
  ASSUME TokenInv, NEW p \in Procs, TokenKept(p)
  PROVE  TokenInv'
BY DEF TokenInv, TokenKept, Carries, Asked, OthersStay

LEMMA StepToken ==
  ASSUME TypeInv, PlaceInv, TokenInv, NEW p \in Procs, Step(p)
  PROVE  TokenInv'
<1> USE DEF TypeInv
<1> USE DEF Starting, Advancing, Ending, Clearing
<1>1. CASE \/ CheckSearching(p) \/ DropStaleQueue(p) \/ CheckOutstanding(p)
           \/ SetOffer(p) \/ ArmTimeout(p) \/ UndoOffer(p)
           \/ Debit(p) \/ RecordFee(p) \/ OpenChat(p) \/ DropQueue(p) \/ Penalise(p) \/ CreditCompletion(p)
  BY SMTT(20), <1>1, GotoMoves, TokenFrame
     DEF CheckSearching, DropStaleQueue, CheckOutstanding, SetOffer, ArmTimeout, UndoOffer, ClearOffer,
         Debit, RecordFee, OpenChat, DropQueue, Penalise, CreditCompletion, TokenKept, Carries, Asked, PlaceInv, PlaceOK, Accepting, Cancelling
<1>2. CASE ReleaseLock(p) \/ RefuseAccept(p) \/ Recredit(p) \/ CloseChat(p) \/ ReopenChat(p) \/ AbortDrop(p) \/ ClearAnswered(p)
  BY SMTT(20), <1>2, GotoMoves, ReturnMoves, TokenFrame
     DEF ReleaseLock, RefuseAccept, Recredit, CloseChat, ReopenChat, AbortDrop, ClearAnswered, ClearOffer, Advances,
       TokenKept, Carries, Asked, PlaceInv, PlaceOK, Accepting, Cancelling
<1>3. CASE BuildCandidates(p) \/ EnqueueCandidates(p) \/ AcquireLock(p) \/ PopCandidate(p)
           \/ ReserveMaster(p) \/ AbortRead(p) \/ ReadForUndo(p) \/ ReadForClear(p)
  BY <1>3, GotoMoves, ReturnMoves, BuildMoves, EnqueueMoves, AcquireMoves, PopMoves, ReserveMoves, AbortMoves, ReadMoves, TokenFrame
     DEF ReadForUndo, ReadForClear,
       TokenKept, Carries, Asked, PlaceInv, PlaceOK, Accepting, Cancelling
<1>4. CASE GiveUp(p) \/ Assign(p) \/ ChargeAndAssign(p) \/ MarkOffer(p) \/ CancelWrite(p)
  <2>1. task[p].order \in Orders /\ (MarkOffer(p) \/ ChargeAndAssign(p) => task[p].master \in Masters)
    BY <1>4 DEF TaskOK, NamesMaster, GiveUp, Assign, ChargeAndAssign, MarkOffer, CancelWrite
  <2>2. \A o \in Orders : status'[o] = "absent" => status[o] = "absent"
    BY <1>4, <2>1 DEF GiveUp, Assign, ChargeAndAssign, LoseRace, MarkOffer, CancelWrite, StoreTypeOK, StillOpen, Searching
  <2>3. \A o \in Orders, m \in Masters : Asked(o, m)' => Asked(o, m)
    <3>1. CASE UNCHANGED offers
      BY <3>1 DEF Asked
    <3>2. CASE MarkAccepted(task[p].order, task[p].master) /\ task[p].master \in Masters
      BY <2>1, <3>2 DEF MarkAccepted, StoreTypeOK, Asked
    <3> QED BY <1>4, <2>1, <3>1, <3>2
            DEF GiveUp, Assign, ChargeAndAssign, LoseRace, MarkOffer, CancelWrite
  <2>4. OthersStay(p) /\ \A o \in Orders : Carries(p, o)' => Carries(p, o) /\ task[p].pc # "create"
    BY <1>4, GotoMoves, ReturnMoves
       DEF GiveUp, Assign, ChargeAndAssign, LoseRace, MarkOffer, CancelWrite, Carries, PlaceInv, PlaceOK, Accepting, Cancelling
  <2> QED BY <2>2, <2>3, <2>4, TokenFrame DEF TokenKept
<1>5. CASE InsertOrder(p)
  <2>1. task[p].order \in Orders
    BY <1>5 DEF TaskOK, InsertOrder
  <2>2. /\ OthersStay(p) /\ task[p].pc = "create" /\ task'[p].pc = "candidates" 
        /\ task'[p].op = task[p].op /\ task'[p].order = task[p].order
        /\ status' = [status EXCEPT ![task[p].order] = "pending"] /\ UNCHANGED offers
    BY <1>5, GotoMoves DEF InsertOrder
  <2>3. \A q \in Procs, o \in Orders : Carries(q, o)' => Carries(q, o)
    BY <2>2 DEF Carries, OthersStay
  <2>4. \A o \in Orders, m \in Masters : Asked(o, m)' = Asked(o, m)
    BY <2>2 DEF Asked
  <2>5. \A o \in Orders : status'[o] = "absent" => status[o] = "absent" /\ o # task[p].order
    BY <2>1, <2>2 DEF StoreTypeOK
  <2>6. \A q \in Procs, o \in Orders : Carries(q, o)' /\ status'[o] = "absent" => q # p /\ task'[q] = task[q]
    BY <2>2, <2>5 DEF Carries, OthersStay
  <2> QED BY <2>3, <2>4, <2>5, <2>6 DEF TokenInv
<1>6. CASE PushOffer(p)
  <2> DEFINE x == task[p].order
             y == task[p].master
  <2>1. x \in Orders /\ y \in Masters
    BY <1>6 DEF TaskOK, PushOffer, NamesMaster
  <2>2. OthersStay(p) /\ \A o \in Orders : Carries(p, o) <=> o = x
    BY <1>6, <2>1, GotoMoves DEF PushOffer, Carries, PlaceInv, PlaceOK
  <2>3. \A o \in Orders : ~Carries(p, o)'
    BY <1>6, GotoMoves DEF PushOffer, Carries
  <2>4. \A q \in Procs, o \in Orders : Carries(q, o)' => Carries(q, o) /\ o # x /\ task'[q] = task[q]
    BY <2>1, <2>2, <2>3 DEF TokenInv, OthersStay, Carries
  <2>5. \A o \in Orders : status'[o] = "absent" => status[o] = "absent"
    BY <1>6, <2>1 DEF StoreTypeOK, PushOffer
  <2>6. \A o \in Orders, m \in Masters : Asked(o, m)' => Asked(o, m) \/ (o = x /\ m = y /\ status'[o] = "matching")
    BY <1>6, <2>1 DEF StoreTypeOK, PushOffer, Asked
  <2>7. \A m \in Masters : ~Asked(x, m)
    BY <2>1, <2>2 DEF TokenInv
  <2> HIDE DEF x, y
  <2> QED BY <2>1, <2>4, <2>5, <2>6, <2>7 DEF TokenInv
<1>7. CASE RecordAnswer(p)
  <2> DEFINE x == task[p].order
             y == task[p].master
  <2>1. x \in Orders /\ y \in Masters
    BY <1>7 DEF TaskOK, RecordAnswer, NamesMaster
  <2>2. CASE ~Unanswered(x, y)
    BY <1>7, <2>2, ReturnMoves, TokenFrame DEF RecordAnswer, TokenKept, Carries, Asked
  <2>3. CASE Unanswered(x, y)
    <3>1. Asked(x, y) /\ status[x] = "matching"
      BY <2>3 DEF Unanswered, Asked
    <3>2. OthersStay(p) /\ UNCHANGED status /\ \A o \in Orders : Carries(p, o)' <=> o = x
      BY <1>7, <2>1, <2>3, GotoMoves DEF RecordAnswer, Carries, PlaceInv, PlaceOK
    <3>3. \A q \in Procs, o \in Orders : q # p => (Carries(q, o)' <=> Carries(q, o)) /\ task'[q] = task[q]
      BY <3>2 DEF OthersStay, Carries
    <3>4. \A o \in Orders, m \in Masters : Asked(o, m)' => Asked(o, m) /\ ~(o = x /\ m = y)
      <4>1. PICK v \in {"passed", "timeout"} : offers' = [offers EXCEPT ![x][y] = v]
        BY <1>7, <2>3 DEF RecordAnswer
      <4> HIDE DEF x, y
      <4> QED BY <2>1, <4>1 DEF StoreTypeOK, Asked
    <3>5. \A o \in Orders, m \in Masters : o = x => ~Asked(o, m)'
      BY <2>1, <3>1, <3>4 DEF TokenInv
    <3>6. \A q \in Procs : ~Carries(q, x)
      BY <2>1, <3>1 DEF TokenInv
    <3> HIDE DEF x, y
    <3> QED BY <2>1, <3>1, <3>2, <3>3, <3>4, <3>5, <3>6 DEF TokenInv
  <2> QED BY <2>2, <2>3
<1> QED BY <1>1, <1>2, <1>3, <1>4, <1>5, <1>6, <1>7 DEF Step

LEMMA RequestToken ==
  ASSUME TypeInv, PlaceInv, TokenInv, NEW p \in Procs, Request(p)
  PROVE  TokenInv'
<1> USE DEF TypeInv, Starting, Advancing, Ending, Clearing
<1>1. ASSUME NEW o \in Orders, NEW m \in Masters, PassOffer(p, o, m) \/ AcceptOffer(p, o, m)
      PROVE  TokenInv'
  BY <1>1, BeginMoves, TokenFrame DEF PassOffer, AcceptOffer, TokenKept, Carries, Asked
<1>2. ASSUME NEW o \in Orders, NEW op \in {"cancel", "penalty"}, CancelOrder(p, o, op)
      PROVE  TokenInv'
  <2>1. UNCHANGED <<status, offers>>
    BY <1>2 DEF CancelOrder
  <2> QED BY <1>2, <2>1, CancelMoves, TokenFrame DEF TokenKept, Carries, Asked
<1>3. ASSUME NEW o \in Orders, CompleteOrder(p, o) PROVE TokenInv'
  <2>1. UNCHANGED offers /\ \A x \in Orders : status'[x] = "absent" => status[x] = "absent"
    BY <1>3 DEF CompleteOrder, StoreTypeOK
  <2>2. OthersStay(p) /\ task'[p].pc = "credit"
    BY <1>3, BeginMoves DEF CompleteOrder
  <2> QED BY <2>1, <2>2, TokenFrame DEF TokenKept, Carries, Asked
<1>4. ASSUME NEW o \in Orders, CreateOrder(p, o) PROVE TokenInv'
  <2>1. /\ OthersStay(p) /\ task[p].pc = "idle" /\ UNCHANGED offers
        /\ task'[p].order = o /\ task'[p].op = "post"
        /\ task'[p].pc \in {"candidates", "create"}
        /\ task'[p].pc = "candidates" => status'[o] = "pending"
        /\ \A x \in Orders : status'[x] = "absent" => status[x] = "absent"
    BY <1>4, BeginMoves DEF CreateOrder, StoreTypeOK
  <2>2. /\ \A q \in Procs : task[q].op = "post" => task[q].order # o
        /\ status[o] = "absent"
    BY <1>4 DEF CreateOrder
  <2>3. \A q \in Procs : ~Carries(q, o)
    BY <2>2 DEF TokenInv, Carries, PlaceInv, PlaceOK
  <2>4. \A q \in Procs, x \in Orders : Carries(q, x)' =>
           (Carries(q, x) /\ task'[q] = task[q]) \/ (q = p /\ x = o)
    BY <2>1 DEF Carries, OthersStay
  <2>5. \A x \in Orders, m \in Masters : Asked(x, m)' <=> Asked(x, m)
    BY <2>1 DEF Asked
  <2> QED BY <2>1, <2>2, <2>3, <2>4, <2>5 DEF TokenInv
<1> QED BY <1>1, <1>2, <1>3, <1>4 DEF Request

LEMMA EnvironmentToken ==
  ASSUME TypeInv, PlaceInv, TokenInv,
         \/ Clock
         \/ \E o \in Orders, m \in Masters : Timeout(o, m)
         \/ \E p \in Procs : Crash(p)
         \/ UNCHANGED vars
  PROVE  TokenInv'
<1> USE DEF TypeInv, Starting, Advancing, Ending, Clearing
<1>1. CASE Clock \/ UNCHANGED vars
  <2>1. UNCHANGED <<status, offers, task>>
    BY <1>1 DEF vars, Clock, OfferWindowCloses, OfferKeyExpires, QueueKeyExpires, LockExpires,
                ReservationExpires
  <2> QED BY <2>1 DEF TokenInv, Carries, Asked
<1>2. ASSUME NEW o \in Orders, NEW m \in Masters, Timeout(o, m) PROVE TokenInv'
  <2>1. PICK p \in Workers : ExpireOffer(p, o, m)
    BY <1>2 DEF Timeout
  <2>2. CASE UNCHANGED task
    BY <2>1, <2>2 DEF ExpireOffer, TokenInv, Carries, Asked
  <2>3. CASE Begin(p, "expire", "answer", o, m)
    BY <2>1, <2>3, BeginMoves, TokenFrame DEF ExpireOffer, TokenKept, Carries, Asked, Procs
  <2> QED BY <2>1, <2>2, <2>3 DEF ExpireOffer
<1>3. ASSUME NEW p \in Procs, Crash(p) PROVE TokenInv'
  BY <1>3, ReturnMoves, TokenFrame DEF Crash, TokenKept, Carries, Asked
<1> QED BY <1>1, <1>2, <1>3

LEMMA NextToken == ASSUME TypeInv, PlaceInv, TokenInv, [Next]_vars PROVE TokenInv'
BY StepToken, RequestToken, EnvironmentToken DEF Next

LEMMA InitToken == Init => TokenInv
BY NoOrderAssumption DEF Init, TokenInv, Carries, Asked, NoTask

\* Of the handlers that answer one offer - the pro's pass and its timeout, a timeout
\* handed out twice - a single one goes on to advance the search, whatever crashes and
\* whichever lock or Redis key runs out under them.
THEOREM AnswersDoNotRace == Spec => []OneAdvances
<1> DEFINE Inv == TypeInv /\ PlaceInv /\ TokenInv
<1>1. Init => Inv
  BY InitType, InitPlaces, InitToken
<1>2. Inv /\ [Next]_vars => Inv'
  BY NextType, NextPlaces, NextToken
<1>3. Inv => OneAdvances
  BY DEF TypeInv, TaskOK, TokenInv, OneAdvances, Carries, Clearing, Advancing
<1> HIDE DEF Inv
<1> QED BY <1>1, <1>2, <1>3, PTL DEF Spec

-----------------------------------------------------------------------------
(* Whom a search may still ask. *)

Listed(q, m) == \E i \in 1..Len(q) : q[i] = m
Distinct(q) == \A i, j \in 1..Len(q) : q[i] = q[j] => i = j

InHand == {"reserve", "offer", "push"}

\* Nobody has been asked yet, and nobody is queued.
Untouched(o) == matchQueue[o] = <<>> /\ \A m \in Masters : offers[o][m] = "none"

\* The pros in the queue, and the one taken out of it, have never been asked.
QueueInv ==
  /\ \A o \in Orders :
       /\ Distinct(matchQueue[o])
       /\ \A m \in Masters : Listed(matchQueue[o], m) => offers[o][m] = "none"
       /\ status[o] = "absent" => Untouched(o)
  /\ \A p \in Procs :
       /\ Distinct(task[p].found)
       /\ task[p].pc \in Starting => Untouched(task[p].order)
       /\ task[p].pc \in InHand =>
            /\ offers[task[p].order][task[p].master] = "none"
            /\ ~Listed(matchQueue[task[p].order], task[p].master)

LEMMA EmptyIsDistinct == Distinct(<<>>) /\ \A m : ~Listed(<<>>, m)
BY DEF Distinct, Listed

LEMMA HeadAndTail ==
  ASSUME NEW q \in Seq(Masters), q # <<>>, Distinct(q)
  PROVE  /\ Head(q) \in Masters /\ Tail(q) \in Seq(Masters)
         /\ Listed(q, Head(q)) /\ ~Listed(Tail(q), Head(q))
         /\ Distinct(Tail(q))
         /\ \A m : Listed(Tail(q), m) => Listed(q, m)
<1>1. /\ Len(q) \in Nat /\ Len(q) >= 1 /\ Head(q) = q[1]
      /\ Len(Tail(q)) = Len(q) - 1
      /\ \A i \in 1..Len(Tail(q)) : Tail(q)[i] = q[i + 1]
  OBVIOUS
<1> QED BY <1>1 DEF Distinct, Listed

LEMMA CandidatesAreDistinct ==
  ASSUME NEW o \in Orders, NEW q \in Candidates(o)
  PROVE  Distinct(q)
BY MastersAssumption, FS_Subset, FS_CardinalityType DEF Candidates, Distinct

\* What most steps do to the queues: nothing, or empty one.
QueueKept(p) ==
  /\ OthersStay(p)
  /\ \A o \in Orders :
       /\ matchQueue'[o] \in {matchQueue[o], <<>>}
       /\ status'[o] = "absent" => status[o] = "absent"
       /\ \A m \in Masters : offers[o][m] = "none" => offers'[o][m] = "none"
  /\ task'[p].found \in {task[p].found, <<>>}
  /\ task'[p].pc \in Starting => task[p].pc \in Starting /\ task'[p].order = task[p].order
  /\ task'[p].pc \in InHand =>
       /\ task[p].pc \in InHand
       /\ task'[p].order = task[p].order /\ task'[p].master = task[p].master

LEMMA QueueFrame ==
  ASSUME TaskOK, TaskOK', QueueInv, NEW p \in Procs, QueueKept(p)
  PROVE  QueueInv'
<1>1. ASSUME NEW q \in Procs
      PROVE  /\ task[q].pc \in Starting => task[q].order \in Orders
             /\ task[q].pc \in InHand => task[q].order \in Orders /\ task[q].master \in Masters
  BY DEF TaskOK, Starting, InHand, NamesMaster
<1>2. \A o \in Orders : Untouched(o) => Untouched(o)'
  BY DEF QueueKept, Untouched
<1>3. \A o \in Orders, m \in Masters : Listed(matchQueue'[o], m) => Listed(matchQueue[o], m)
  BY EmptyIsDistinct DEF QueueKept
<1>4. \A o \in Orders : Distinct(matchQueue'[o])
  BY EmptyIsDistinct DEF QueueKept, QueueInv
<1>5. ASSUME NEW o \in Orders
      PROVE  /\ \A m \in Masters : Listed(matchQueue'[o], m) => offers'[o][m] = "none"
             /\ status'[o] = "absent" => Untouched(o)'
  BY <1>2, <1>3 DEF QueueInv, QueueKept
<1>6. ASSUME NEW q \in Procs
      PROVE  /\ Distinct(task'[q].found)
             /\ task'[q].pc \in Starting => task[q].pc \in Starting /\ task'[q].order = task[q].order
             /\ task'[q].pc \in InHand =>
                  /\ task[q].pc \in InHand
                  /\ task'[q].order = task[q].order /\ task'[q].master = task[q].master
  BY EmptyIsDistinct DEF QueueKept, OthersStay, QueueInv
<1>7. ASSUME NEW q \in Procs, task'[q].pc \in InHand
      PROVE  /\ offers'[task[q].order][task[q].master] = "none"
             /\ ~Listed(matchQueue'[task[q].order], task[q].master)
  BY <1>1, <1>3, <1>6, <1>7 DEF QueueInv, QueueKept
<1>8. ASSUME NEW q \in Procs, task'[q].pc \in Starting
      PROVE  matchQueue'[task[q].order] = <<>> /\ \A m \in Masters : offers'[task[q].order][m] = "none"
  BY <1>1, <1>6, <1>8 DEF QueueInv, QueueKept, Untouched
<1> QED BY <1>4, <1>5, <1>6, <1>7, <1>8 DEF QueueInv, Untouched

\* No step but PushOffer changes an outcome that is not pending.
LEMMA MarkKeepsAnswers ==
  ASSUME StoreTypeOK, NEW o \in Orders, NEW m \in Masters, MarkAccepted(o, m)
  PROVE  \A x \in Orders, y \in Masters : offers[x][y] # "pending" => offers'[x][y] = offers[x][y]
BY DEF MarkAccepted, StoreTypeOK

LEMMA StepQueue ==
  ASSUME TypeInv, TypeInv', PlaceInv, TokenInv, QueueInv, NEW p \in Procs, Step(p)
  PROVE  QueueInv'
<1> USE DEF TypeInv
<1>0. TaskOK /\ TaskOK'
  OBVIOUS
<1>1. CASE \/ CheckSearching(p) \/ CheckOutstanding(p)
           \/ SetOffer(p) \/ ArmTimeout(p) \/ UndoOffer(p)
           \/ Debit(p) \/ RecordFee(p) \/ OpenChat(p) \/ Penalise(p) \/ CreditCompletion(p)
  <2>1. UNCHANGED <<status, offers, matchQueue>>
    BY <1>1 DEF CheckSearching, CheckOutstanding, SetOffer, ArmTimeout, UndoOffer, ClearOffer,
                Debit, RecordFee, OpenChat, Penalise, CreditCompletion
  <2>2. /\ OthersStay(p) /\ task'[p].found = task[p].found
        /\ task'[p].pc \notin Starting
        /\ task'[p].pc \in InHand =>
             /\ task[p].pc \in InHand
             /\ task'[p].order = task[p].order /\ task'[p].master = task[p].master
    BY <1>1, GotoMoves
       DEF CheckSearching, CheckOutstanding, SetOffer, ArmTimeout, UndoOffer, ClearOffer,
           Debit, RecordFee, OpenChat, Penalise, CreditCompletion, Starting, InHand
  <2> QED BY <1>0, <2>1, <2>2, QueueFrame DEF QueueKept
<1>8. CASE DropStaleQueue(p) \/ DropQueue(p)
  <2>1. QueueKept(p)
    BY <1>8, GotoMoves DEF DropStaleQueue, DropQueue, QueueKept, Starting, InHand, StoreTypeOK
  <2> QED BY <1>0, <2>1, QueueFrame
<1>2. CASE ReleaseLock(p) \/ RefuseAccept(p) \/ Recredit(p) \/ CloseChat(p) \/ ReopenChat(p) \/ AbortDrop(p) \/ ClearAnswered(p)
  <2>1. QueueKept(p)
    BY <1>2, GotoMoves, ReturnMoves
     DEF ReleaseLock, RefuseAccept, Recredit, CloseChat, ReopenChat, AbortDrop, ClearAnswered, ClearOffer, Advances,
       QueueKept, Starting, InHand, StoreTypeOK
  <2> QED BY <1>0, <2>1, QueueFrame
<1>3. CASE AcquireLock(p) \/ ReserveMaster(p) \/ AbortRead(p) \/ ReadForUndo(p) \/ ReadForClear(p)
  <2>1. QueueKept(p)
    BY <1>3, GotoMoves, ReturnMoves, AcquireMoves, ReserveMoves, AbortMoves, ReadMoves
       DEF ReadForUndo, ReadForClear, QueueKept, Starting, InHand
  <2> QED BY <1>0, <2>1, QueueFrame
<1>4. CASE GiveUp(p) \/ Assign(p) \/ ChargeAndAssign(p) \/ MarkOffer(p) \/ CancelWrite(p) \/ InsertOrder(p)
  <2>1. task[p].order \in Orders /\ (MarkOffer(p) \/ ChargeAndAssign(p) => task[p].master \in Masters)
    BY <1>4 DEF TaskOK, NamesMaster, GiveUp, Assign, ChargeAndAssign, MarkOffer, CancelWrite, InsertOrder
  <2>2. \A o \in Orders : status'[o] = "absent" => status[o] = "absent"
    BY <1>4, <2>1 DEF GiveUp, Assign, ChargeAndAssign, LoseRace, MarkOffer, CancelWrite, InsertOrder, StoreTypeOK, StillOpen, Searching
  <2>3. \A o \in Orders, m \in Masters : offers[o][m] = "none" => offers'[o][m] = "none"
    BY <1>4, <2>1, MarkKeepsAnswers DEF GiveUp, Assign, ChargeAndAssign, LoseRace, MarkOffer, CancelWrite, InsertOrder
  <2>4. /\ OthersStay(p) /\ UNCHANGED matchQueue
        /\ task'[p].found \in {task[p].found, <<>>}
        /\ task'[p].pc \in Starting => task[p].pc \in Starting /\ task'[p].order = task[p].order
        /\ task'[p].pc \notin InHand
    BY <1>4, GotoMoves, ReturnMoves
       DEF GiveUp, Assign, ChargeAndAssign, LoseRace, MarkOffer, CancelWrite, InsertOrder, Starting, InHand
  <2> QED BY <1>0, <2>2, <2>3, <2>4, QueueFrame DEF QueueKept
<1>5. CASE RecordAnswer(p)
  <2>1. task[p].order \in Orders /\ task[p].master \in Masters
    BY <1>5 DEF TaskOK, NamesMaster, RecordAnswer
  <2>2. \A o \in Orders, m \in Masters : offers[o][m] = "none" => offers'[o][m] = "none"
    <3>1. CASE UNCHANGED offers
      BY <3>1
    <3>2. ASSUME NEW v, offers' = [offers EXCEPT ![task[p].order][task[p].master] = v],
                 offers[task[p].order][task[p].master] = "pending"
          PROVE  \A o \in Orders, m \in Masters : offers[o][m] = "none" => offers'[o][m] = "none"
      BY SMTT(20), <2>1, <3>2 DEF StoreTypeOK
    <3> QED BY <1>5, <3>1, <3>2 DEF RecordAnswer, Unanswered
  <2>3. /\ OthersStay(p) /\ UNCHANGED <<status, matchQueue>>
        /\ task'[p].found \in {task[p].found, <<>>}
        /\ task'[p].pc \notin Starting /\ task'[p].pc \notin InHand
    BY <1>5, GotoMoves, ReturnMoves DEF RecordAnswer, Starting, InHand
  <2> QED BY <1>0, <2>2, <2>3, QueueFrame DEF QueueKept
<1>6. CASE BuildCandidates(p)
  <2>1. /\ OthersStay(p) /\ UNCHANGED <<status, offers, matchQueue>>
        /\ task[p].pc \in Starting /\ task'[p].pc \in Starting /\ task'[p].pc \notin InHand
        /\ task'[p].order = task[p].order /\ task[p].order \in Orders
        /\ task'[p].found \in Candidates(task[p].order)
    BY <1>6, BuildMoves DEF Starting, InHand, TaskOK
  <2>2. Distinct(task'[p].found)
    BY <2>1, CandidatesAreDistinct
  <2> QED BY <2>1, <2>2 DEF QueueInv, OthersStay, Untouched
<1>7. CASE EnqueueCandidates(p)
  <2> DEFINE x == task[p].order
  <2>1. /\ OthersStay(p) /\ UNCHANGED <<status, offers>>
        /\ task[p].pc \in Starting /\ task'[p].pc \notin Starting /\ task'[p].pc \notin InHand
        /\ x \in Orders
        /\ matchQueue' = [matchQueue EXCEPT ![x] = task[p].found]
        /\ task'[p].found = <<>>
    BY <1>7, EnqueueMoves, ReturnMoves DEF Starting, InHand, TaskOK
  <2>2. \A q \in Procs : task'[q].pc \in Starting \cup InHand => task'[q] = task[q] /\ q # p /\ task[q].order \in Orders
    BY <2>1 DEF OthersStay, TaskOK, Starting, InHand
  <2>3. \A q \in Procs : task'[q].pc \in Starting \cup InHand => task[q].order # x
    BY <2>1, <2>2 DEF TokenInv, Carries, PlaceInv, PlaceOK, Starting, Advancing, InHand
  <2>4. Untouched(x) /\ Distinct(task[p].found) /\ status[x] # "absent"
    BY <1>7, <2>1 DEF QueueInv, TokenInv, Carries, PlaceInv, PlaceOK, Starting, EnqueueCandidates
  <2> HIDE DEF x
  <2>5. \A o \in Orders : matchQueue'[o] = IF o = x THEN task[p].found ELSE matchQueue[o]
    BY <2>1 DEF StoreTypeOK
  <2>6. \A q \in Procs : Distinct(task'[q].found)
    BY <2>1, EmptyIsDistinct DEF QueueInv, OthersStay
  <2> QED BY <2>1, <2>2, <2>3, <2>4, <2>5, <2>6 DEF QueueInv, Untouched
<1>9. CASE PopCandidate(p)
  <2> DEFINE x == task[p].order
  <2>1. CASE Goto(p, "giveUp") /\ UNCHANGED matchQueue
    BY <1>0, <1>9, <2>1, GotoMoves, PopMoves, QueueFrame DEF QueueKept, Starting, InHand
  <2>2. CASE ~(Goto(p, "giveUp") /\ UNCHANGED matchQueue)
    <3>1. /\ OthersStay(p) /\ UNCHANGED <<status, offers>>
          /\ task[p].pc = "pop" /\ task'[p].pc = "reserve" /\ x \in Orders
          /\ matchQueue[x] # <<>>
          /\ matchQueue' = [matchQueue EXCEPT ![x] = Tail(matchQueue[x])]
          /\ task'[p].order = x /\ task'[p].master = Head(matchQueue[x])
          /\ task'[p].found = task[p].found
      BY <1>9, <2>2, PopMoves DEF TaskOK
    <3>2. \A q \in Procs \ {p} : task[q].pc \in Starting \cup InHand => task[q].order # x
      BY <3>1 DEF TokenInv, Carries, PlaceInv, PlaceOK, Starting, Advancing, InHand
    <3>3. status[x] # "absent"
      BY <3>1 DEF QueueInv, Untouched
    <3>4. \A q \in Procs \ {p} : task[q].pc \in Starting \cup InHand => task[q].order \in Orders
      BY DEF TaskOK, Starting, InHand
    <3>5. matchQueue[x] \in Seq(Masters) /\ Distinct(matchQueue[x])
      BY <3>1 DEF StoreTypeOK, QueueInv
    <3> DEFINE y == Head(matchQueue[x])
    <3>6. /\ y \in Masters /\ Listed(matchQueue[x], y) /\ ~Listed(Tail(matchQueue[x]), y)
          /\ Distinct(Tail(matchQueue[x]))
          /\ \A m : Listed(Tail(matchQueue[x]), m) => Listed(matchQueue[x], m)
      BY <3>1, <3>5, HeadAndTail
    <3>7. \A o \in Orders : matchQueue'[o] = IF o = x THEN Tail(matchQueue[x]) ELSE matchQueue[o]
      BY <3>1 DEF StoreTypeOK
    <3>8. /\ task'[p].pc \in InHand /\ task'[p].pc \notin Starting
          /\ task'[p].master = y /\ offers[x][y] = "none"
      BY <3>1, <3>6 DEF QueueInv, Starting, InHand
    <3> HIDE DEF x, y
    <3>9. ASSUME NEW o \in Orders
          PROVE  /\ Distinct(matchQueue'[o])
                 /\ \A m \in Masters : Listed(matchQueue'[o], m) => offers'[o][m] = "none"
                 /\ status'[o] = "absent" => Untouched(o)'
      BY <3>1, <3>3, <3>6, <3>7 DEF QueueInv, Untouched
    <3>10. ASSUME NEW q \in Procs
           PROVE  /\ Distinct(task'[q].found)
                  /\ task'[q].pc \in Starting => Untouched(task[q].order)' /\ task'[q] = task[q]
                  /\ task'[q].pc \in InHand =>
                       /\ offers'[task'[q].order][task'[q].master] = "none"
                       /\ ~Listed(matchQueue'[task'[q].order], task'[q].master)
      <4>1. CASE q = p
        BY <3>1, <3>6, <3>7, <3>8, <4>1 DEF QueueInv
      <4>2. CASE q # p
        <5>1. task'[q] = task[q]
          BY <3>1, <4>2 DEF OthersStay
        <5>2. task[q].pc \in Starting \cup InHand => matchQueue'[task[q].order] = matchQueue[task[q].order]
          BY <3>2, <3>4, <3>7, <4>2
        <5> QED BY <3>1, <5>1, <5>2 DEF QueueInv, Untouched
      <4> QED BY <4>1, <4>2
    <3> QED BY <3>9, <3>10 DEF QueueInv, Untouched
  <2> QED BY <2>1, <2>2
<1>10. CASE PushOffer(p)
  <2> DEFINE x == task[p].order
             y == task[p].master
  <2>0. /\ x \in Orders /\ y \in Masters /\ task[p].pc = "push" /\ UNCHANGED matchQueue
    BY <1>10 DEF PushOffer, TaskOK, NamesMaster
  <2>1. CASE ~StillOpen(x)
    <3>1. QueueKept(p)
      BY <1>10, <2>1, GotoMoves DEF PushOffer, QueueKept, Starting, InHand
    <3> QED BY <1>0, <3>1, QueueFrame
  <2>2. CASE StillOpen(x)
    <3>1. /\ OthersStay(p)
          /\ task'[p].pc = "arm" /\ task'[p].found = task[p].found
          /\ status' = [status EXCEPT ![x] = "matching"]
          /\ offers' = [offers EXCEPT ![x][y] = "pending"]
      BY <1>10, <2>2, GotoMoves DEF PushOffer
    <3>2. \A q \in Procs \ {p} : task[q].pc \in Starting \cup InHand => task[q].order # x /\ task[q].order \in Orders
      BY <2>0 DEF TokenInv, Carries, PlaceInv, PlaceOK, Starting, Advancing, InHand, TaskOK
    <3>3. ~Listed(matchQueue[x], y)
      BY <2>0 DEF QueueInv, InHand
    <3>4. task'[p].pc \notin Starting /\ task'[p].pc \notin InHand
      BY <3>1 DEF Starting, InHand
    <3> HIDE DEF x, y
    <3>5. \A o \in Orders : /\ status'[o] = "absent" => status[o] = "absent" /\ o # x
                            /\ o # x => offers'[o] = offers[o]
                            /\ \A m \in Masters : m # y => offers'[o][m] = offers[o][m]
      BY <2>0, <3>1 DEF StoreTypeOK
    <3>6. ASSUME NEW o \in Orders
          PROVE  /\ Distinct(matchQueue'[o])
                 /\ \A m \in Masters : Listed(matchQueue'[o], m) => offers'[o][m] = "none"
                 /\ status'[o] = "absent" => Untouched(o)'
      BY <2>0, <3>3, <3>5 DEF QueueInv, Untouched
    <3>7. ASSUME NEW q \in Procs
          PROVE  /\ Distinct(task'[q].found)
                 /\ task'[q].pc \in Starting => Untouched(task[q].order)'
                 /\ task'[q].pc \in InHand =>
                       /\ offers'[task'[q].order][task'[q].master] = "none"
                       /\ ~Listed(matchQueue'[task'[q].order], task'[q].master)
      <4>1. CASE q = p
        BY <3>1, <3>4, <4>1 DEF QueueInv
      <4>2. CASE q # p
        BY <2>0, <3>1, <3>2, <3>5, <4>2 DEF QueueInv, Untouched, OthersStay
      <4> QED BY <4>1, <4>2
    <3> QED BY <3>6, <3>7 DEF QueueInv
  <2> QED BY <2>1, <2>2
<1> QED BY <1>1, <1>2, <1>3, <1>4, <1>5, <1>6, <1>7, <1>8, <1>9, <1>10 DEF Step

LEMMA RequestQueue ==
  ASSUME TypeInv, TypeInv', PlaceInv, QueueInv, NEW p \in Procs, Request(p)
  PROVE  QueueInv'
<1> USE DEF TypeInv
<1>0. TaskOK /\ TaskOK'
  OBVIOUS
<1>1. ASSUME NEW o \in Orders, NEW m \in Masters, PassOffer(p, o, m) \/ AcceptOffer(p, o, m)
      PROVE  QueueInv'
  <2>1. QueueKept(p)
    BY <1>1, BeginMoves DEF PassOffer, AcceptOffer, QueueKept, Starting, InHand
  <2> QED BY <1>0, <2>1, QueueFrame
<1>2. ASSUME NEW o \in Orders, NEW op \in {"cancel", "penalty"}, CancelOrder(p, o, op)
      PROVE  QueueInv'
  <2>1. UNCHANGED <<status, offers, matchQueue>>
    BY <1>2 DEF CancelOrder
  <2>2. QueueKept(p)
    BY <1>2, <2>1, CancelMoves DEF QueueKept, Starting, InHand
  <2> QED BY <1>0, <2>2, QueueFrame
<1>3. ASSUME NEW o \in Orders, CompleteOrder(p, o) PROVE QueueInv'
  <2>1. UNCHANGED <<offers, matchQueue>> /\ \A x \in Orders : status'[x] = "absent" => status[x] = "absent"
    BY <1>3 DEF CompleteOrder, StoreTypeOK
  <2>2. OthersStay(p) /\ task'[p].pc = "credit" /\ task'[p].found = <<>>
    BY <1>3, BeginMoves DEF CompleteOrder
  <2>3. QueueKept(p)
    BY <2>1, <2>2 DEF QueueKept, Starting, InHand
  <2> QED BY <1>0, <2>3, QueueFrame
<1>4. ASSUME NEW o \in Orders, CreateOrder(p, o) PROVE QueueInv'
  <2>1. /\ OthersStay(p) /\ UNCHANGED <<offers, matchQueue>>
        /\ task'[p].order = o /\ task'[p].found = <<>>
        /\ task'[p].pc \in {"candidates", "create"}
        /\ \A x \in Orders : status'[x] = "absent" => status[x] = "absent"
    BY <1>4, BeginMoves DEF CreateOrder, StoreTypeOK
  <2>2. Untouched(o)
    BY <1>4 DEF CreateOrder, QueueInv
  <2>3. ASSUME NEW x \in Orders
        PROVE  /\ Distinct(matchQueue'[x])
               /\ \A m \in Masters : Listed(matchQueue'[x], m) => offers'[x][m] = "none"
               /\ status'[x] = "absent" => Untouched(x)'
    BY <2>1 DEF QueueInv, Untouched
  <2>4. ASSUME NEW q \in Procs
        PROVE  /\ Distinct(task'[q].found)
               /\ task'[q].pc \in Starting => Untouched(task[q].order)'
               /\ task'[q].pc \in InHand =>
                     /\ offers'[task'[q].order][task'[q].master] = "none"
                     /\ ~Listed(matchQueue'[task'[q].order], task'[q].master)
    <3>1. CASE q = p
      BY <2>1, <2>2, <3>1, EmptyIsDistinct DEF InHand, Untouched
    <3>2. CASE q # p
      BY <2>1, <3>2 DEF QueueInv, OthersStay, Untouched
    <3> QED BY <3>1, <3>2
  <2> QED BY <2>3, <2>4 DEF QueueInv
<1> QED BY <1>1, <1>2, <1>3, <1>4 DEF Request

LEMMA EnvironmentQueue ==
  ASSUME TypeInv, TypeInv', QueueInv,
         \/ Clock
         \/ \E o \in Orders, m \in Masters : Timeout(o, m)
         \/ \E p \in Procs : Crash(p)
         \/ UNCHANGED vars
  PROVE  QueueInv'
<1> USE DEF TypeInv
<1>0. TaskOK /\ TaskOK'
  OBVIOUS
<1>1. CASE UNCHANGED <<status, offers, matchQueue, task>>
  BY <1>1 DEF QueueInv, Untouched
<1>2. ASSUME NEW x \in Orders, QueueKeyExpires(x) PROVE QueueInv'
  <2>1. UNCHANGED <<status, offers, task>> /\ \A o \in Orders : matchQueue'[o] \in {matchQueue[o], <<>>}
    BY <1>2 DEF QueueKeyExpires, StoreTypeOK
  <2>2. ASSUME NEW p \in Procs PROVE QueueKept(p)
    BY <2>1 DEF QueueKept, OthersStay
  <2>3. CASE Procs = {}
    BY <2>1, <2>3, EmptyIsDistinct DEF QueueInv, Untouched
  <2> QED BY <1>0, <2>2, <2>3, QueueFrame
<1>3. CASE Clock
  <2>1. UNCHANGED <<status, offers, matchQueue, task>> \/ \E o \in Orders : QueueKeyExpires(o)
    BY <1>3 DEF Clock, OfferWindowCloses, OfferKeyExpires, LockExpires, ReservationExpires
  <2> QED BY <1>1, <1>2, <2>1
<1>4. ASSUME NEW o \in Orders, NEW m \in Masters, Timeout(o, m) PROVE QueueInv'
  <2>1. PICK p \in Workers : ExpireOffer(p, o, m)
    BY <1>4 DEF Timeout
  <2>2. UNCHANGED <<status, offers, matchQueue>>
    BY <2>1 DEF ExpireOffer
  <2>3. CASE Begin(p, "expire", "answer", o, m)
    <3>1. p \in Procs
      BY DEF Procs
    <3>2. QueueKept(p)
      BY <2>2, <2>3, <3>1, BeginMoves DEF QueueKept, Starting, InHand
    <3> QED BY <1>0, <3>1, <3>2, QueueFrame
  <2> QED BY <1>1, <2>1, <2>2, <2>3 DEF ExpireOffer
<1>5. ASSUME NEW p \in Procs, Crash(p) PROVE QueueInv'
  <2>1. QueueKept(p)
    BY <1>5, ReturnMoves DEF Crash, QueueKept, Starting, InHand
  <2> QED BY <1>0, <2>1, QueueFrame
<1>6. CASE UNCHANGED vars
  BY <1>1, <1>6 DEF vars
<1> QED BY <1>3, <1>4, <1>5, <1>6

LEMMA NextQueue ==
  ASSUME TypeInv, PlaceInv, TokenInv, QueueInv, [Next]_vars
  PROVE  QueueInv'
BY NextType, StepQueue, RequestQueue, EnvironmentQueue DEF Next

LEMMA InitQueue == Init => QueueInv
BY EmptyIsDistinct DEF Init, QueueInv, Untouched, NoTask, Starting, InHand

\* The life of an outcome: asked, then answered.  Only PushOffer, RecordAnswer and the
\* acceptance write one.
LEMMA OutcomeSteps ==
  ASSUME TypeInv, QueueInv, [Next]_vars, NEW o \in Orders, NEW m \in Masters
  PROVE  \/ offers'[o][m] = offers[o][m]
         \/ offers[o][m] = "none" /\ offers'[o][m] = "pending"
         \/ offers[o][m] = "pending" /\ offers'[o][m] \in {"passed", "timeout", "accepted"}
<1> USE DEF TypeInv
<1> DEFINE Moves == \/ offers'[o][m] = offers[o][m]
                    \/ offers[o][m] = "none" /\ offers'[o][m] = "pending"
                    \/ offers[o][m] = "pending" /\ offers'[o][m] \in {"passed", "timeout", "accepted"}
<1>1. ASSUME NEW x \in Orders, NEW y \in Masters, NEW v, offers' = [offers EXCEPT ![x][y] = v],
             \/ offers[x][y] = "none" /\ v = "pending"
             \/ offers[x][y] = "pending" /\ v \in {"passed", "timeout", "accepted"}
      PROVE  Moves
  <2> HIDE DEF Moves
  <2>1. StoreTypeOK /\ offers' = [offers EXCEPT ![x][y] = v]
    BY <1>1
  <2>2. \A a \in Orders, b \in Masters : offers'[a][b] = IF a = x /\ b = y THEN v ELSE offers[a][b]
    BY <2>1 DEF StoreTypeOK
  <2> QED BY <1>1, <2>2 DEF Moves
<1>2. ASSUME NEW p \in Procs, PushOffer(p) PROVE Moves
  <2>1. /\ task[p].order \in Orders /\ task[p].master \in Masters
        /\ offers[task[p].order][task[p].master] = "none"
    BY <1>2 DEF PushOffer, TaskOK, NamesMaster, QueueInv, InHand
  <2>2. UNCHANGED offers \/ offers' = [offers EXCEPT ![task[p].order][task[p].master] = "pending"]
    BY <1>2 DEF PushOffer
  <2>3. CASE UNCHANGED offers
    BY <2>3
  <2> HIDE DEF Moves
  <2> QED BY <2>1, <2>2, <2>3, <1>1
<1>3. ASSUME NEW p \in Procs, RecordAnswer(p) PROVE Moves
  <2>1. /\ task[p].order \in Orders /\ task[p].master \in Masters
    BY <1>3 DEF RecordAnswer, TaskOK, NamesMaster
  <2>2. \/ UNCHANGED offers
        \/ /\ offers[task[p].order][task[p].master] = "pending"
           /\ \E v \in {"passed", "timeout"} :
                offers' = [offers EXCEPT ![task[p].order][task[p].master] = v]
    BY <1>3 DEF RecordAnswer, Unanswered
  <2>3. CASE UNCHANGED offers
    BY <2>3
  <2> HIDE DEF Moves
  <2> QED BY <2>1, <2>2, <2>3, <1>1
<1>4. ASSUME NEW p \in Procs, MarkOffer(p) \/ ChargeAndAssign(p) PROVE Moves
  <2>1. UNCHANGED offers \/ MarkAccepted(task[p].order, task[p].master)
    BY <1>4 DEF MarkOffer, ChargeAndAssign, LoseRace
  <2>2. /\ task[p].order \in Orders /\ task[p].master \in Masters
    BY <1>4 DEF MarkOffer, ChargeAndAssign, TaskOK, NamesMaster
  <2>3. \/ UNCHANGED offers
        \/ /\ offers[task[p].order][task[p].master] = "pending"
           /\ offers' = [offers EXCEPT ![task[p].order][task[p].master] = "accepted"]
    BY <2>1 DEF MarkAccepted
  <2>4. CASE UNCHANGED offers
    BY <2>4
  <2> HIDE DEF Moves
  <2> QED BY <2>2, <2>3, <2>4, <1>1
<1>5. ASSUME NEW p \in Procs, Step(p), ~PushOffer(p), ~RecordAnswer(p), ~MarkOffer(p), ~ChargeAndAssign(p)
      PROVE  UNCHANGED offers
  BY <1>5
     DEF Step, InsertOrder, BuildCandidates, EnqueueCandidates, AcquireLock, CheckSearching,
         DropStaleQueue, CheckOutstanding, PopCandidate, ReserveMaster, GiveUp, SetOffer,
         ArmTimeout, ReleaseLock, ReadForUndo, UndoOffer, ReadForClear, ReadBeforeClear,
         ClearAnswered, ClearOffer, RefuseAccept, Debit, Assign, Recredit, RecordFee, OpenChat,
         DropQueue, CancelWrite, AbortRead, AbortDrop, Penalise, CloseChat, CreditCompletion,
         ReopenChat
<1>6. ASSUME NEW p \in Procs, Request(p) \/ Crash(p) PROVE UNCHANGED offers
  BY <1>6 DEF Request, CreateOrder, PassOffer, AcceptOffer, CancelOrder, CompleteOrder, Crash
<1>7. ASSUME Clock \/ (\E x \in Orders, y \in Masters : Timeout(x, y)) PROVE UNCHANGED offers
  BY <1>7 DEF Clock, OfferWindowCloses, OfferKeyExpires, QueueKeyExpires, LockExpires,
              ReservationExpires, Timeout, ExpireOffer
<1> QED BY <1>2, <1>3, <1>4, <1>5, <1>6, <1>7 DEF Next, vars

\* A recorded answer is final, whatever steps follow: the queue never gives back a pro
\* who was asked before, so no pro is offered the same job twice.
THEOREM AnswersAreFinal == Spec => AnsweredOnce
<1> DEFINE Inv == TypeInv /\ PlaceInv /\ TokenInv /\ QueueInv
           Kept == \A o \in Orders, m \in Masters :
                     offers[o][m] \in {"passed", "timeout", "accepted"} => offers'[o][m] = offers[o][m]
<1>1. Init => Inv
  BY InitType, InitPlaces, InitToken, InitQueue
<1>2. Inv /\ [Next]_vars => Inv'
  BY NextType, NextPlaces, NextToken, NextQueue
<1>3. Inv /\ [Next]_vars => [Kept]_offers
  BY OutcomeSteps
<1>4. [][Kept]_offers <=> AnsweredOnce
  BY DEF AnsweredOnce
<1> HIDE DEF Inv, Kept
<1> QED BY <1>1, <1>2, <1>3, <1>4, PTL DEF Spec

-----------------------------------------------------------------------------
(* How far a job has come when a handler writes about it. *)

\* The search is over, for good.
Over(o) == status[o] \in {"accepted", "done", "cancelled"}

\* After the assignment or the cancellation has been written.
Settled == {"mark", "ledger", "openChat", "dropQueue", "abortRead", "abortDrop"}
Undoing == {"undoRead", "undo"}

HandlerStage(p) ==
  /\ task[p].pc \in Undoing \cup Clearing \cup {"openChat", "dropQueue"} => task[p].master \in Masters
  /\ task[p].pc \notin {"idle", "create"} => status[task[p].order] # "absent"
  /\ task[p].pc = "create" => status[task[p].order] = "absent"
  /\ task[p].pc = "cancelWrite" => task[p].seen # "absent"
  /\ task[p].pc \in Settled => Over(task[p].order)
  /\ task[p].pc \in Clearing /\ ~Advances(p) => Over(task[p].order)
  /\ task[p].pc \in Clearing /\ Advances(p) =>
       offers[task[p].order][task[p].master] \in {"passed", "timeout"}
  /\ task[p].pc = "arm" => offers[task[p].order][task[p].master] # "none"
  /\ task[p].pc \in Undoing =>
       Over(task[p].order) \/ offers[task[p].order][task[p].master] # "none"

StageInv ==
  /\ \A o \in Orders :
       /\ ~Over(o) => master[o] = NoMaster
       /\ status[o] = "absent" => matchOffer[o] = NoOffer
  /\ \A p \in Procs : HandlerStage(p)

\* A job only moves on, and so do the answers it got.
Onwards ==
  /\ \A o \in Orders :
       /\ status'[o] = "absent" => status[o] = "absent"
       /\ Over(o) => Over(o)'
       /\ ~Over(o)' => master'[o] = master[o]
  /\ \A o \in Orders, m \in Masters :
       /\ offers[o][m] # "none" => offers'[o][m] # "none"
       /\ offers[o][m] \in {"passed", "timeout"} => offers'[o][m] = offers[o][m]

\* The steps that write a status, and when.
LEMMA StatusSteps ==
  ASSUME TypeInv, StageInv, NEW p \in Procs, Step(p), NEW o \in Orders
  PROVE  \/ status'[o] = status[o] /\ master'[o] = master[o]
         \/ /\ task[p].order = o
            /\ \/ task[p].pc = "create" /\ status[o] = "absent" /\ status'[o] = "pending"
               \/ StillOpen(o) /\ status'[o] \in {"pending", "matching"}
               \/ status[o] # "absent" /\ Over(o)'
            /\ ~Over(o)' => master'[o] = master[o]
<1> USE DEF TypeInv
<1>1. CASE InsertOrder(p)
  BY <1>1 DEF InsertOrder, StageInv, HandlerStage, TaskOK, StoreTypeOK
<1>2. CASE GiveUp(p) \/ PushOffer(p)
  BY <1>2 DEF GiveUp, PushOffer, TaskOK, StoreTypeOK
<1>3. CASE Assign(p)
  BY <1>3 DEF Assign, StillOpen, Searching, Over, TaskOK, StoreTypeOK
<1>4. CASE ChargeAndAssign(p)
  BY <1>4 DEF ChargeAndAssign, LoseRace, StillOpen, Searching, Over, TaskOK, StoreTypeOK
<1>5. CASE CancelWrite(p)
  BY <1>5 DEF CancelWrite, SameAsRead, StageInv, HandlerStage, Over, TaskOK, StoreTypeOK
<1>6. ASSUME ~InsertOrder(p), ~GiveUp(p), ~PushOffer(p), ~Assign(p), ~ChargeAndAssign(p), ~CancelWrite(p)
      PROVE  UNCHANGED <<status, master>>
  BY <1>6 DEF Step, BuildCandidates, EnqueueCandidates, AcquireLock, CheckSearching,
     DropStaleQueue, CheckOutstanding, PopCandidate, ReserveMaster, SetOffer, ArmTimeout,
     ReleaseLock, ReadForUndo, UndoOffer, ReadForClear, ReadBeforeClear, ClearAnswered, ClearOffer,
     RecordAnswer, RefuseAccept, Debit, Recredit, MarkOffer, RecordFee, OpenChat, DropQueue, AbortRead,
     AbortDrop, Penalise, CloseChat, CreditCompletion, ReopenChat
<1> QED BY <1>1, <1>2, <1>3, <1>4, <1>5, <1>6

LEMMA StepOnwards ==
  ASSUME TypeInv, QueueInv, StageInv, NEW p \in Procs, Step(p)
  PROVE  Onwards
<1>1. \A o \in Orders :
        /\ status'[o] = "absent" => status[o] = "absent"
        /\ Over(o) => Over(o)'
        /\ ~Over(o)' => master'[o] = master[o]
  BY StatusSteps DEF Over, StillOpen, Searching
<1>2. [Next]_vars
  BY DEF Next
<1> QED BY <1>1, <1>2, OutcomeSteps DEF Onwards

\* A handler that does not move keeps its place in the story.
LEMMA OthersOnwards ==
  ASSUME TaskOK, Onwards, NEW q \in Procs, task'[q] = task[q], HandlerStage(q),
         task[q].pc = "create" => status'[task[q].order] = "absent"
  PROVE  HandlerStage(q)'
<1>1. /\ task[q].pc # "idle" => task[q].order \in Orders
      /\ task[q].pc = "arm" => task[q].master \in Masters
  BY DEF TaskOK, NamesMaster
<1>2. Advances(q)' <=> Advances(q)
  BY DEF Advances
<1> QED BY <1>1, <1>2 DEF HandlerStage, Onwards, Over, Settled, Undoing, Clearing

LEMMA StepStage ==
  ASSUME TypeInv, PlaceInv, TokenInv, QueueInv, StageInv, NEW p \in Procs, Step(p)
  PROVE  StageInv'
<1> USE DEF TypeInv
<1>1. Onwards
  BY StepOnwards
<1>2. OthersStay(p)
  BY ZenonT(30), GotoMoves, ReturnMoves, BuildMoves, EnqueueMoves, AcquireMoves, PopMoves, ReserveMoves, AbortMoves, ReadMoves
     DEF Step, InsertOrder, CheckSearching,
         DropStaleQueue, CheckOutstanding, GiveUp, SetOffer, PushOffer, RecordAnswer, MarkOffer, ChargeAndAssign, LoseRace,
         ArmTimeout, ReleaseLock, ReadForUndo, UndoOffer, ReadForClear,
         ClearAnswered, ClearOffer, RefuseAccept, Debit, Assign, Recredit, RecordFee, OpenChat,
         DropQueue, CancelWrite, AbortDrop, Penalise, CloseChat, CreditCompletion,
         ReopenChat
<1>3. ASSUME NEW q \in Procs, q # p PROVE HandlerStage(q)'
  <2>1. task'[q] = task[q] /\ HandlerStage(q)
    BY <1>2, <1>3 DEF OthersStay, StageInv
  <2>2. ASSUME task[q].pc = "create" PROVE status'[task[q].order] = "absent"
    <3>1. task[q].order \in Orders /\ status[task[q].order] = "absent"
      BY <2>1, <2>2 DEF TaskOK, HandlerStage
    <3>2. Carries(q, task[q].order)
      BY <2>2 DEF Carries, PlaceInv, PlaceOK, Starting
    <3>3. task[p].pc = "create" => task[p].order # task[q].order
      BY <1>3, <3>1, <3>2 DEF TokenInv, Carries, PlaceInv, PlaceOK, Starting
    <3> QED BY <3>1, <3>3, StatusSteps DEF StillOpen, Searching
  <2> QED BY <1>1, <2>1, <2>2, OthersOnwards
<1>4. HandlerStage(p)
  BY DEF StageInv
<1>5. HandlerStage(p)'
  <2> USE DEF Settled, Undoing, Clearing
  <2>1. CASE \/ CheckSearching(p) \/ DropStaleQueue(p) \/ CheckOutstanding(p) \/ GiveUp(p) \/ SetOffer(p)
    BY <1>1, <1>4, <2>1, GotoMoves
       DEF CheckSearching, DropStaleQueue, CheckOutstanding, GiveUp, SetOffer, HandlerStage, Onwards, TaskOK
  <2>2. CASE Debit(p) \/ RecordFee(p) \/ OpenChat(p) \/ MarkOffer(p) \/ Penalise(p) \/ CreditCompletion(p)
    BY <1>1, <1>4, <2>2, GotoMoves
       DEF Debit, RecordFee, OpenChat, MarkOffer, Penalise, CreditCompletion, HandlerStage, Onwards, TaskOK, NamesMaster
  <2>3. CASE \/ ReleaseLock(p) \/ RefuseAccept(p) \/ Recredit(p) \/ CloseChat(p) \/ ReopenChat(p)
    BY <2>3, ReturnMoves DEF ReleaseLock, RefuseAccept, Recredit, CloseChat, ReopenChat, HandlerStage
  <2>4. CASE \/ BuildCandidates(p) \/ EnqueueCandidates(p) \/ AcquireLock(p) \/ PopCandidate(p) \/ ReserveMaster(p)
    BY <1>1, <1>4, <2>4, GotoMoves, ReturnMoves, BuildMoves, EnqueueMoves, AcquireMoves, PopMoves, ReserveMoves
       DEF HandlerStage, Onwards, TaskOK
  <2>5. CASE ReadForUndo(p) \/ ReadForClear(p) \/ UndoOffer(p) \/ ClearAnswered(p)
    <3>1. CASE ReadForUndo(p) \/ ReadForClear(p)
      BY <1>1, <1>4, <3>1, ReadMoves
         DEF ReadForUndo, ReadForClear, HandlerStage, Onwards, Over, TaskOK, Advances
    <3>2. CASE UndoOffer(p) \/ ClearAnswered(p)
      BY <1>1, <1>4, <3>2, GotoMoves, ReturnMoves
         DEF UndoOffer, ClearAnswered, ClearOffer, HandlerStage, Onwards, TaskOK, Advances
    <3> QED BY <2>5, <3>1, <3>2
  <2>6. CASE InsertOrder(p)
    BY <1>4, <2>6, GotoMoves DEF InsertOrder, HandlerStage, TaskOK, StoreTypeOK
  <2>7. CASE PushOffer(p)
    <3> DEFINE x == task[p].order
               y == task[p].master
    <3>1. /\ x \in Orders /\ y \in Masters /\ status[x] # "absent" /\ status[x] \in Statuses
          /\ ~Over(x) => master[x] = NoMaster
      BY <1>4, <2>7 DEF PushOffer, HandlerStage, TaskOK, NamesMaster, StageInv, StoreTypeOK
    <3>2. task'[p].order = x /\ task'[p].master = y
      BY <2>7, GotoMoves DEF PushOffer
    <3>3. CASE StillOpen(x)
      <4>1. task'[p].pc = "arm" /\ offers' = [offers EXCEPT ![x][y] = "pending"]
        BY <2>7, <3>3, GotoMoves DEF PushOffer
      <4>2. offers'[x][y] # "none" /\ status'[x] # "absent"
        BY <1>1, <3>1, <4>1 DEF Onwards, StoreTypeOK
      <4> QED BY <3>2, <4>1, <4>2 DEF HandlerStage
    <3>4. CASE ~StillOpen(x)
      <4>1. task'[p].pc = "undoRead" /\ UNCHANGED status
        BY <2>7, <3>4, GotoMoves DEF PushOffer
      <4>2. status[x] \in {"accepted", "done", "cancelled"}
        BY <3>1, <3>4 DEF StillOpen, Searching, Over, Statuses
      <4> HIDE DEF x, y
      <4> QED BY <3>1, <3>2, <4>1, <4>2 DEF HandlerStage, Over
    <3> QED BY <3>3, <3>4
  <2>8. CASE ArmTimeout(p)
    BY <1>1, <1>4, <2>8, GotoMoves DEF ArmTimeout, HandlerStage, Onwards, TaskOK, NamesMaster, Over
  <2>9. CASE RecordAnswer(p)
    <3> DEFINE x == task[p].order
               y == task[p].master
    <3>1. x \in Orders /\ y \in Masters /\ status[x] # "absent"
      BY <1>4, <2>9 DEF RecordAnswer, HandlerStage, TaskOK, NamesMaster
    <3>2. CASE Unanswered(x, y)
      <4>1. /\ task'[p].order = x /\ task'[p].master = y /\ task'[p].pc = "clearRead"
            /\ task'[p].op \in {"pass", "expire"}
        BY <2>9, <3>2, GotoMoves DEF RecordAnswer, PlaceInv, PlaceOK
      <4>2. PICK v \in {"passed", "timeout"} : offers' = [offers EXCEPT ![x][y] = v]
        BY <2>9, <3>2 DEF RecordAnswer
      <4>3. offers'[x][y] \in {"passed", "timeout"} /\ status'[x] # "absent"
        BY <1>1, <3>1, <4>2 DEF Onwards, StoreTypeOK
      <4> HIDE DEF x, y
      <4> QED BY <3>1, <4>1, <4>3 DEF HandlerStage, Advances
    <3>3. CASE ~Unanswered(x, y)
      BY <2>9, <3>3, ReturnMoves DEF RecordAnswer, HandlerStage
    <3> QED BY <3>2, <3>3
  <2>10. CASE ChargeAndAssign(p) \/ Assign(p)
    BY SMTT(20), <1>1, <1>4, <2>10, GotoMoves, ReturnMoves DEF Assign, ChargeAndAssign, LoseRace, HandlerStage, Onwards, TaskOK, NamesMaster, StoreTypeOK, Over
  <2>11. CASE DropQueue(p) \/ AbortDrop(p) \/ AbortRead(p)
    BY SMTT(20), <1>1, <1>4, <2>11, GotoMoves, ReturnMoves, AbortMoves DEF DropQueue, AbortDrop, HandlerStage, Onwards, TaskOK, Tasks, Over, Advances, PlaceInv, PlaceOK, Accepting, Cancelling
  <2>12. CASE CancelWrite(p)
    BY <1>1, <1>4, <2>12, GotoMoves, ReturnMoves DEF CancelWrite, HandlerStage, Onwards, TaskOK, StoreTypeOK, Over
  <2> QED BY <2>1, <2>2, <2>3, <2>4, <2>5, <2>6, <2>7, <2>8, <2>9, <2>10, <2>11, <2>12 DEF Step
<1>6. ASSUME NEW o \in Orders
      PROVE  /\ ~Over(o)' => master'[o] = NoMaster
             /\ status'[o] = "absent" => matchOffer'[o] = NoOffer
  <2>1. ~Over(o)' => master'[o] = NoMaster
    BY <1>1 DEF Onwards, StageInv
  <2>2. CASE SetOffer(p)
    <3>1. task[p].pc = "offer" /\ task[p].order \in Orders /\ UNCHANGED status
      BY <2>2 DEF SetOffer, TaskOK
    <3>2. status[task[p].order] # "absent"
      BY <1>4, <3>1 DEF HandlerStage
    <3>3. o # task[p].order => matchOffer'[o] = matchOffer[o]
      BY <2>2, <3>1 DEF SetOffer, StoreTypeOK
    <3> QED BY <2>1, <3>1, <3>2, <3>3 DEF StageInv
  <2>3. CASE UndoOffer(p) \/ ClearAnswered(p)
    <3>1. \A x \in Orders : matchOffer[x] = NoOffer => matchOffer'[x] = NoOffer
      BY <2>3 DEF UndoOffer, ClearAnswered, ClearOffer, StoreTypeOK
    <3> QED BY <1>1, <3>1 DEF Onwards, StageInv
  <2>4. CASE ~SetOffer(p) /\ ~UndoOffer(p) /\ ~ClearAnswered(p)
    <3>1. UNCHANGED matchOffer
      BY <2>4 DEF Step, InsertOrder, BuildCandidates, EnqueueCandidates, AcquireLock, CheckSearching,
         DropStaleQueue, CheckOutstanding, PopCandidate, ReserveMaster, GiveUp, PushOffer,
         ArmTimeout, ReleaseLock, ReadForUndo, ReadForClear, ReadBeforeClear, RecordAnswer,
         RefuseAccept, ChargeAndAssign, LoseRace, Debit, Assign, Recredit, MarkOffer, RecordFee, OpenChat,
         DropQueue, CancelWrite, AbortRead, AbortDrop, Penalise, CloseChat, CreditCompletion,
         ReopenChat
    <3> QED BY <1>1, <3>1 DEF Onwards, StageInv
  <2> QED BY <2>1, <2>2, <2>3, <2>4
<1> QED BY <1>3, <1>5, <1>6 DEF StageInv

LEMMA RequestStage ==
  ASSUME TypeInv, PlaceInv, QueueInv, StageInv, NEW p \in Procs, Request(p)
  PROVE  StageInv'
<1> USE DEF TypeInv
<1>1. UNCHANGED <<master, offers, matchOffer>>
  BY DEF Request, CreateOrder, PassOffer, AcceptOffer, CancelOrder, CompleteOrder
<1>2. PICK o \in Orders :
        \/ CreateOrder(p, o)
        \/ \E m \in Masters : PassOffer(p, o, m) \/ AcceptOffer(p, o, m)
        \/ \E op \in {"cancel", "penalty"} : CancelOrder(p, o, op)
        \/ CompleteOrder(p, o)
  BY DEF Request
<1>3. \/ UNCHANGED status
      \/ status[o] = "absent" /\ status' = [status EXCEPT ![o] = "pending"]
      \/ status[o] = "accepted" /\ status' = [status EXCEPT ![o] = "done"]
  BY <1>2 DEF CreateOrder, PassOffer, AcceptOffer, CancelOrder, CompleteOrder
<1>4. Onwards
  <2>1. \A x \in Orders : /\ status'[x] = "absent" => status[x] = "absent"
                          /\ Over(x) => Over(x)'
    BY <1>3 DEF Over, StoreTypeOK
  <2> QED BY <1>1, <2>1 DEF Onwards
<1>5. OthersStay(p)
  BY <1>2, BeginMoves, CancelMoves DEF CreateOrder, PassOffer, AcceptOffer, CompleteOrder
<1>6. ASSUME NEW q \in Procs, q # p PROVE HandlerStage(q)'
  <2>1. task'[q] = task[q] /\ HandlerStage(q)
    BY <1>5, <1>6 DEF OthersStay, StageInv
  <2>2. ASSUME task[q].pc = "create" PROVE status'[task[q].order] = "absent"
    <3>1. /\ task[q].order \in Orders /\ status[task[q].order] = "absent"
          /\ task[q].op = "post"
      BY <2>1, <2>2 DEF TaskOK, HandlerStage, PlaceInv, PlaceOK, Starting
    <3>2. CreateOrder(p, o) => task[q].order # o
      BY <3>1 DEF CreateOrder
    <3>3. ~CreateOrder(p, o) => status[o] # "absent" \/ UNCHANGED status
      BY <1>2 DEF PassOffer, AcceptOffer, CancelOrder, CompleteOrder
    <3> QED BY <1>3, <3>1, <3>2, <3>3 DEF StoreTypeOK
  <2> QED BY <1>4, <2>1, <2>2, OthersOnwards
<1>7. HandlerStage(p)'
  <2> USE DEF Settled, Undoing, Clearing
  <2>1. CASE CreateOrder(p, o)
    BY <2>1, BeginMoves DEF CreateOrder, HandlerStage, StoreTypeOK
  <2>2. ASSUME NEW m \in Masters, PassOffer(p, o, m) PROVE HandlerStage(p)'
    <3>1. matchOffer[o] # NoOffer /\ UNCHANGED status
      BY <2>2, NoMasterAssumption DEF PassOffer, OfferIsOf, NoOffer
    <3> QED BY <2>2, <3>1, BeginMoves DEF PassOffer, HandlerStage, StageInv
  <2>3. ASSUME NEW m \in Masters, AcceptOffer(p, o, m) PROVE HandlerStage(p)'
    BY <2>3, BeginMoves DEF AcceptOffer, HandlerStage
  <2>4. ASSUME NEW op \in {"cancel", "penalty"}, CancelOrder(p, o, op) PROVE HandlerStage(p)'
    <3>1. status[o] # "absent" /\ UNCHANGED status
      BY <2>4 DEF CancelOrder
    <3> QED BY <2>4, <3>1, CancelMoves DEF HandlerStage
  <2>5. CASE CompleteOrder(p, o)
    <3>1. task'[p].pc = "credit" /\ task'[p].order = o
      BY <2>5, BeginMoves DEF CompleteOrder
    <3>2. status'[o] # "absent"
      BY <2>5 DEF CompleteOrder, StoreTypeOK
    <3> QED BY <3>1, <3>2 DEF HandlerStage
  <2> QED BY <1>2, <2>1, <2>2, <2>3, <2>4, <2>5
<1>8. ASSUME NEW x \in Orders
      PROVE  /\ ~Over(x)' => master'[x] = NoMaster
             /\ status'[x] = "absent" => matchOffer'[x] = NoOffer
  BY <1>1, <1>4 DEF Onwards, StageInv
<1> QED BY <1>6, <1>7, <1>8 DEF StageInv

LEMMA EnvironmentStage ==
  ASSUME TypeInv, StageInv,
         \/ Clock
         \/ \E o \in Orders, m \in Masters : Timeout(o, m)
         \/ \E p \in Procs : Crash(p)
         \/ UNCHANGED vars
  PROVE  StageInv'
<1> USE DEF TypeInv
<1>1. UNCHANGED orderVars /\ \A o \in Orders : matchOffer[o] = NoOffer => matchOffer'[o] = NoOffer
  <2>1. ASSUME NEW o \in Orders, OfferWindowCloses(o) \/ OfferKeyExpires(o)
        PROVE  UNCHANGED orderVars /\ \A x \in Orders : matchOffer[x] = NoOffer => matchOffer'[x] = NoOffer
    <3>1. NoOffer.fresh = FALSE
      BY DEF NoOffer
    <3>2. CASE OfferKeyExpires(o)
      BY <3>2 DEF OfferKeyExpires, StoreTypeOK
    <3>3. CASE OfferWindowCloses(o)
      <4>1. matchOffer[o] # NoOffer
        BY <3>1, <3>3 DEF OfferWindowCloses
      <4>2. \A x \in Orders : x # o => matchOffer'[x] = matchOffer[x]
        BY <3>3 DEF OfferWindowCloses, StoreTypeOK
      <4> QED BY <3>3, <4>1, <4>2 DEF OfferWindowCloses
    <3> QED BY <2>1, <3>2, <3>3
  <2>2. ASSUME ~\E o \in Orders : OfferWindowCloses(o) \/ OfferKeyExpires(o)
        PROVE  UNCHANGED <<orderVars, matchOffer>>
    BY <2>2 DEF Clock, QueueKeyExpires, LockExpires, ReservationExpires, Timeout, ExpireOffer, Crash, vars
  <2> QED BY <2>1, <2>2
<1>2. \A o \in Orders :
        /\ ~Over(o)' => master'[o] = NoMaster
        /\ status'[o] = "absent" => matchOffer'[o] = NoOffer
  BY <1>1 DEF StageInv, Over
<1>3. ASSUME NEW q \in Procs, task'[q] = task[q] PROVE HandlerStage(q)'
  BY <1>1, <1>3 DEF StageInv, HandlerStage, Over, Advances
<1>4. CASE Clock \/ UNCHANGED vars
  <2>1. UNCHANGED task
    BY <1>4 DEF vars, Clock, OfferWindowCloses, OfferKeyExpires, QueueKeyExpires, LockExpires,
                ReservationExpires
  <2> QED BY <1>2, <1>3, <2>1 DEF StageInv
<1>5. ASSUME NEW o \in Orders, NEW m \in Masters, Timeout(o, m) PROVE StageInv'
  <2>1. PICK p \in Workers : ExpireOffer(p, o, m)
    BY <1>5 DEF Timeout
  <2>2. CASE UNCHANGED task
    BY <1>2, <1>3, <2>2 DEF StageInv
  <2>3. CASE Begin(p, "expire", "answer", o, m) /\ OfferIsOf(o, m)
    <3>1. matchOffer[o] # NoOffer
      BY <2>3, NoMasterAssumption DEF OfferIsOf, NoOffer
    <3>2. p \in Procs
      BY DEF Procs
    <3>3. HandlerStage(p)'
      BY <1>1, <2>3, <3>1, <3>2, BeginMoves DEF HandlerStage, StageInv, Settled, Undoing, Clearing
    <3> QED BY <1>2, <1>3, <2>3, <3>2, <3>3, BeginMoves DEF StageInv, OthersStay
  <2> QED BY <2>1, <2>2, <2>3 DEF ExpireOffer
<1>6. ASSUME NEW p \in Procs, Crash(p) PROVE StageInv'
  <2>1. HandlerStage(p)'
    BY <1>6, ReturnMoves DEF Crash, HandlerStage, Settled, Undoing, Clearing
  <2> QED BY <1>2, <1>3, <1>6, <2>1, ReturnMoves DEF Crash, StageInv, OthersStay
<1> QED BY <1>4, <1>5, <1>6

LEMMA NextStage ==
  ASSUME TypeInv, PlaceInv, TokenInv, QueueInv, StageInv, [Next]_vars
  PROVE  StageInv'
BY StepStage, RequestStage, EnvironmentStage DEF Next

LEMMA InitStage == Init => StageInv
BY DEF Init, StageInv, HandlerStage, NoTask, Over, Settled, Undoing, Clearing
-----------------------------------------------------------------------------
(* Whom a ringing phone is reserved for. *)

\* From the reservation to the ringing, as long as the job is searching; and a failed
\* offer that is not outstanding when it is undone does not become so.
RingInv ==
  /\ RingingIsReserved
  /\ \A p \in Procs :
       /\ task[p].pc = "offer" /\ ~Over(task[p].order) =>
            masterOffer[task[p].master] = task[p].order
       /\ /\ task[p].pc = "push" /\ ~Over(task[p].order)
          /\ matchOffer[task[p].order] = [master |-> task[p].master, fresh |-> TRUE]
          => masterOffer[task[p].master] = task[p].order
       /\ task[p].pc = "undo" /\ ~task[p].mine =>
            Over(task[p].order) \/ ~OfferIsOf(task[p].order, task[p].master)

\* What most steps do to the ringing pros: nothing, or they stop one.
RingKept(p) ==
  /\ OthersStay(p)
  /\ UNCHANGED <<matchOffer, masterOffer>>
  /\ \A o \in Orders : /\ status'[o] = "matching" => status[o] = "matching"
                       /\ Over(o) => Over(o)'
                       /\ \A m \in Masters : Asked(o, m)' => Asked(o, m)
  /\ task'[p].pc \notin {"offer", "push", "undo"}

LEMMA RingFrame ==
  ASSUME TaskOK, RingInv, NEW p \in Procs, RingKept(p)
  PROVE  RingInv'
<1>1. RingingIsReserved'
  BY DEF RingInv, RingKept, RingingIsReserved, Ringing, Asked
<1>2. ASSUME NEW q \in Procs, q # p
      PROVE  /\ task'[q] = task[q]
             /\ task[q].pc # "idle" => task[q].order \in Orders
  BY <1>2 DEF RingKept, OthersStay, TaskOK
<1> QED BY <1>1, <1>2 DEF RingInv, RingKept, Over, OfferIsOf

\* The handler that makes an offer is the only one that carries the search on.
LEMMA InHandIsAlone ==
  ASSUME TaskOK, PlaceInv, TokenInv, NEW p \in Procs, NEW q \in Procs,
         task[q].pc \in InHand, Carries(p, task[q].order)
  PROVE  p = q
BY DEF TaskOK, PlaceInv, PlaceOK, TokenInv, Carries, InHand, Advancing

\* The steps of a handler that have nothing to do with reservations or offers.
QuietStep(p) ==
  \/ InsertOrder(p) \/ BuildCandidates(p) \/ EnqueueCandidates(p)
  \/ AcquireLock(p) \/ CheckSearching(p) \/ DropStaleQueue(p) \/ CheckOutstanding(p)
  \/ PopCandidate(p) \/ GiveUp(p) \/ ArmTimeout(p) \/ ReleaseLock(p) \/ ReadForClear(p)
  \/ RecordAnswer(p) \/ RefuseAccept(p) \/ ChargeAndAssign(p)
  \/ Debit(p) \/ Assign(p) \/ Recredit(p) \/ MarkOffer(p) \/ RecordFee(p) \/ OpenChat(p)
  \/ DropQueue(p) \/ CancelWrite(p) \/ AbortRead(p) \/ AbortDrop(p) \/ Penalise(p) \/ CloseChat(p)
  \/ CreditCompletion(p) \/ ReopenChat(p)

LEMMA QuietStepRing ==
  ASSUME TypeInv, QueueInv, StageInv, RingInv, NEW p \in Procs, Step(p), QuietStep(p)
  PROVE  RingInv'
<1> USE DEF TypeInv
<1>1. /\ OthersStay(p) /\ UNCHANGED <<matchOffer, masterOffer>>
      /\ task'[p].pc \notin {"offer", "push", "undo"}
      /\ task[p].pc # "push"
  <2>1. CASE \/ InsertOrder(p) \/ CheckSearching(p) \/ DropStaleQueue(p) \/ CheckOutstanding(p) \/ GiveUp(p)
             \/ ArmTimeout(p) \/ Debit(p) \/ Assign(p) \/ MarkOffer(p) \/ RecordFee(p) \/ OpenChat(p)
             \/ DropQueue(p) \/ Penalise(p) \/ CreditCompletion(p)
    BY SMTT(20), <2>1, GotoMoves
       DEF InsertOrder, CheckSearching, DropStaleQueue, CheckOutstanding, GiveUp, ArmTimeout, Debit, Assign,
           MarkOffer, RecordFee, OpenChat, DropQueue, Penalise, CreditCompletion
  <2>2. CASE \/ ReleaseLock(p) \/ RefuseAccept(p) \/ Recredit(p) \/ CloseChat(p) \/ ReopenChat(p)
             \/ RecordAnswer(p) \/ ChargeAndAssign(p) \/ CancelWrite(p) \/ AbortDrop(p)
    BY SMTT(20), <2>2, GotoMoves, ReturnMoves
       DEF ReleaseLock, RefuseAccept, Recredit, CloseChat, ReopenChat, RecordAnswer, ChargeAndAssign, LoseRace,
           CancelWrite, AbortDrop
  <2>3. CASE \/ BuildCandidates(p) \/ EnqueueCandidates(p) \/ AcquireLock(p) \/ PopCandidate(p)
             \/ AbortRead(p) \/ ReadForClear(p)
    BY <2>3, GotoMoves, ReturnMoves, BuildMoves, EnqueueMoves, AcquireMoves, PopMoves, AbortMoves, ReadMoves
       DEF ReadForClear
  <2> QED BY <2>1, <2>2, <2>3 DEF QuietStep
<1>2. UNCHANGED offers \/ \A o \in Orders, m \in Masters : Asked(o, m)' => Asked(o, m)
  <2>1. CASE RecordAnswer(p) \/ MarkOffer(p) \/ ChargeAndAssign(p)
    <3>1. task[p].order \in Orders /\ task[p].master \in Masters
      BY <2>1 DEF TaskOK, NamesMaster, RecordAnswer, MarkOffer, ChargeAndAssign
    <3>2. UNCHANGED offers \/ \E v \in {"passed", "timeout", "accepted"} : offers' = [offers EXCEPT ![task[p].order][task[p].master] = v]
      BY <2>1 DEF RecordAnswer, MarkOffer, ChargeAndAssign, LoseRace, MarkAccepted
    <3>3. ASSUME NEW v \in {"passed", "timeout", "accepted"}, offers' = [offers EXCEPT ![task[p].order][task[p].master] = v]
          PROVE  \A o \in Orders, m \in Masters : Asked(o, m)' => Asked(o, m)
      BY <3>1, <3>3 DEF StoreTypeOK, Asked
    <3> QED BY <3>2, <3>3
  <2>2. CASE ~(RecordAnswer(p) \/ MarkOffer(p) \/ ChargeAndAssign(p))
    BY <2>2
     DEF QuietStep, InsertOrder, BuildCandidates, EnqueueCandidates, AcquireLock, CheckSearching,
         DropStaleQueue, CheckOutstanding, PopCandidate, GiveUp,
         ArmTimeout, ReleaseLock, ReadForClear, ReadBeforeClear,
         RefuseAccept, Debit, Assign, Recredit, RecordFee, OpenChat,
         DropQueue, CancelWrite, AbortRead, AbortDrop, Penalise, CloseChat, CreditCompletion,
         ReopenChat
  <2> QED BY <2>1, <2>2
<1>3. \A o \in Orders : status'[o] = "matching" => status[o] = "matching"
  <2>1. CASE GiveUp(p) \/ InsertOrder(p)
    BY <2>1 DEF GiveUp, InsertOrder, StoreTypeOK
  <2>2. CASE Assign(p) \/ ChargeAndAssign(p) \/ CancelWrite(p)
    BY <2>2 DEF Assign, ChargeAndAssign, LoseRace, CancelWrite, StoreTypeOK
  <2>3. CASE ~(GiveUp(p) \/ InsertOrder(p) \/ Assign(p) \/ ChargeAndAssign(p) \/ CancelWrite(p))
    <3>1. UNCHANGED status
     BY <2>3
     DEF QuietStep, BuildCandidates, EnqueueCandidates, AcquireLock, CheckSearching,
         DropStaleQueue, CheckOutstanding, PopCandidate, RecordAnswer, MarkOffer,
         ArmTimeout, ReleaseLock, ReadForClear, ReadBeforeClear,
         RefuseAccept, Debit, Recredit, RecordFee, OpenChat,
         DropQueue, AbortRead, AbortDrop, Penalise, CloseChat, CreditCompletion,
         ReopenChat
    <3> QED BY <3>1
  <2> QED BY <2>1, <2>2, <2>3
<1>4. RingKept(p)
  BY <1>1, <1>2, <1>3, StepOnwards DEF RingKept, Onwards, Asked
<1> QED BY <1>4, RingFrame

LEMMA StepRing ==
  ASSUME TypeInv, PlaceInv, TokenInv, QueueInv, StageInv, RingInv, NEW p \in Procs, Step(p)
  PROVE  RingInv'
<1> USE DEF TypeInv
<1> DEFINE x == task[p].order
           y == task[p].master
<1>1. Onwards
  BY StepOnwards
<1>2. CASE ReserveMaster(p)
  <2>1. /\ x \in Orders /\ y \in Masters
        /\ OthersStay(p) /\ UNCHANGED <<status, offers, matchOffer>>
        /\ task'[p].order = x /\ task'[p].pc \in {"offer", "pop"}
    BY <1>2, ReserveMoves, GotoMoves DEF TaskOK, NamesMaster
  <2>2. \/ UNCHANGED masterOffer /\ task'[p].pc = "pop"
        \/ /\ masterOffer[y] = NoOrder /\ masterOffer' = [masterOffer EXCEPT ![y] = x]
           /\ task'[p].master = y
    BY <1>2, ReserveMoves, GotoMoves
  <2> HIDE DEF x, y
  <2>3. \A m \in Masters, o \in Orders : masterOffer[m] = o => masterOffer'[m] = o
    BY <2>1, <2>2, NoOrderAssumption DEF StoreTypeOK
  <2>4. RingingIsReserved'
    BY <2>1, <2>3 DEF RingInv, RingingIsReserved, Ringing
  <2>5. task'[p].pc = "offer" => masterOffer'[task'[p].master] = task'[p].order
    BY <2>1, <2>2 DEF StoreTypeOK
  <2>6. ASSUME NEW q \in Procs, q # p
        PROVE  /\ task'[q] = task[q]
               /\ task[q].pc \in {"offer", "push"} => task[q].order \in Orders /\ task[q].master \in Masters
    BY <2>1, <2>6 DEF OthersStay, TaskOK, NamesMaster
  <2> QED BY <2>1, <2>3, <2>4, <2>5, <2>6 DEF RingInv, Over, OfferIsOf
<1>3. CASE SetOffer(p)
  <2>1. /\ x \in Orders /\ y \in Masters /\ task[p].pc = "offer"
        /\ OthersStay(p) /\ UNCHANGED <<status, offers, masterOffer>>
        /\ task'[p].order = x /\ task'[p].master = y /\ task'[p].pc = "push"
        /\ matchOffer' = [matchOffer EXCEPT ![x] = [master |-> y, fresh |-> TRUE]]
    BY <1>3, GotoMoves DEF SetOffer, TaskOK, NamesMaster
  <2>2. offers[x][y] = "none" /\ Carries(p, x)
    BY <2>1 DEF QueueInv, InHand, Carries, PlaceInv, PlaceOK, Advancing
  <2>3. ~Over(x) => masterOffer[y] = x
    BY <2>1 DEF RingInv
  <2>4. ASSUME NEW q \in Procs, q # p
        PROVE  /\ task'[q] = task[q]
               /\ task[q].pc \in InHand => task[q].order # x
               /\ task[q].pc \in {"offer", "push", "undo"} => task[q].order \in Orders /\ task[q].master \in Masters
    BY <2>1, <2>2, <2>4, InHandIsAlone DEF OthersStay, StageInv, HandlerStage, Undoing, TaskOK, NamesMaster
  <2>5. ASSUME NEW q \in Procs, q # p, task[q].pc = "undo", task[q].order = x, task[q].master = y
        PROVE  Over(x)
    BY <2>2, <2>5 DEF StageInv, HandlerStage, Undoing
  <2> HIDE DEF x, y
  <2>6. \A o \in Orders : matchOffer'[o] = IF o = x THEN [master |-> y, fresh |-> TRUE] ELSE matchOffer[o]
    BY <2>1 DEF StoreTypeOK
  <2>7. RingingIsReserved'
    BY <2>1, <2>2, <2>6 DEF RingInv, RingingIsReserved, Ringing
  <2>8. ASSUME NEW q \in Procs
        PROVE  /\ task'[q].pc = "offer" /\ ~Over(task[q].order)' =>
                    masterOffer'[task'[q].master] = task'[q].order
               /\ /\ task'[q].pc = "push" /\ ~Over(task[q].order)'
                  /\ matchOffer'[task'[q].order] = [master |-> task'[q].master, fresh |-> TRUE]
                  => masterOffer'[task'[q].master] = task'[q].order
               /\ task'[q].pc = "undo" /\ ~task'[q].mine =>
                    Over(task[q].order)' \/ ~OfferIsOf(task[q].order, task[q].master)'
    <3>1. CASE q = p
      BY <2>1, <2>3, <3>1 DEF Over
    <3>2. CASE q # p
      BY <2>1, <2>4, <2>5, <2>6, <3>2 DEF RingInv, Over, InHand, OfferIsOf
    <3> QED BY <3>1, <3>2
  <2> QED BY <2>7, <2>8 DEF RingInv
<1>4. CASE PushOffer(p)
  <2>1. /\ x \in Orders /\ y \in Masters /\ task[p].pc = "push"
        /\ OthersStay(p) /\ UNCHANGED <<matchOffer, masterOffer>>
        /\ task'[p].pc \in {"arm", "undoRead"}
        /\ UNCHANGED <<status, offers>> \/ 
             /\ StillOpen(x)
             /\ status' = [status EXCEPT ![x] = "matching"]
             /\ offers' = [offers EXCEPT ![x][y] = "pending"]
    BY <1>4, GotoMoves DEF PushOffer, TaskOK, NamesMaster
  <2>2. \A m \in Masters : ~Asked(x, m)
    BY <2>1 DEF TokenInv, Carries, PlaceInv, PlaceOK, Advancing
  <2>3. StillOpen(x) => ~Over(x)
    BY DEF StillOpen, Searching, Over
  <2>4. matchOffer[x] = [master |-> y, fresh |-> TRUE] => Over(x) \/ masterOffer[y] = x
    BY <2>1 DEF RingInv
  <2> HIDE DEF x, y
  <2>5. \A o \in Orders, m \in Masters : Ringing(o, m)' => Ringing(o, m) \/ (o = x /\ m = y /\ StillOpen(x))
    BY <2>1, <2>2 DEF Ringing, Asked, StoreTypeOK
  <2>6. RingingIsReserved'
    BY <2>1, <2>3, <2>4, <2>5 DEF RingInv, RingingIsReserved, Ringing
  <2>7. ASSUME NEW q \in Procs, q # p
        PROVE  task'[q] = task[q] /\ (task[q].pc # "idle" => task[q].order \in Orders)
    BY <2>1, <2>7 DEF OthersStay, TaskOK
  <2> QED BY <1>1, <2>1, <2>6, <2>7 DEF RingInv, Onwards, Over, OfferIsOf
<1>5. CASE ReadForUndo(p)
  <2>1. /\ OthersStay(p) /\ UNCHANGED <<status, offers, matchOffer, masterOffer>>
        /\ task'[p].pc = "undo" /\ task'[p].order = task[p].order /\ task'[p].master = task[p].master
        /\ task'[p].mine = OfferIsOf(task[p].order, task[p].master)
    BY <1>5, ReadMoves DEF ReadForUndo
  <2>2. RingingIsReserved'
    BY <2>1 DEF RingInv, RingingIsReserved, Ringing
  <2>3. ASSUME NEW q \in Procs, q # p PROVE task'[q] = task[q]
    BY <2>1, <2>3 DEF OthersStay
  <2> QED BY ZenonT(30), <2>1, <2>2, <2>3 DEF RingInv, Over, OfferIsOf
<1>6. CASE UndoOffer(p) \/ ClearAnswered(p)
  <2>1. /\ x \in Orders /\ y \in Masters /\ task[p].pc \in {"undo", "clear"}
        /\ OthersStay(p) /\ UNCHANGED <<status, offers>>
        /\ task'[p].pc \notin {"offer", "push", "undo"}
        /\ matchOffer' = IF task[p].mine /\ OfferIsOf(x, y)
                         THEN [matchOffer EXCEPT ![x] = NoOffer] ELSE matchOffer
        /\ masterOffer' = IF HoldsReservation(x, y)
                          THEN [masterOffer EXCEPT ![y] = NoOrder] ELSE masterOffer
    <3>1. x \in Orders /\ y \in Masters /\ task[p].pc \in {"undo", "clear"}
      BY <1>6 DEF UndoOffer, ClearAnswered, ClearOffer, TaskOK, StageInv, HandlerStage, Undoing, Clearing
    <3> QED BY <1>6, <3>1, GotoMoves, ReturnMoves DEF UndoOffer, ClearAnswered, ClearOffer
  <2>2. Over(x) \/ offers[x][y] # "none"
    BY <2>1 DEF StageInv, HandlerStage, Undoing, Clearing
  <2>3. Ringing(x, y) => task[p].mine /\ OfferIsOf(x, y)
    <3>1. CASE task[p].pc = "undo"
      BY <3>1 DEF RingInv, Ringing, OfferIsOf, Over
    <3>2. CASE task[p].pc = "clear"
      BY <3>2 DEF StageInv, HandlerStage, Clearing, Ringing, Over
    <3> QED BY <2>1, <3>1, <3>2
  <2>4. ASSUME NEW q \in Procs, q # p, task[q].pc \in {"offer", "push"}, task[q].order = x, task[q].master = y
        PROVE  Over(x)
    <3>1. offers[x][y] = "none"
      BY <2>4 DEF QueueInv, InHand
    <3> QED BY <2>2, <3>1
  <2>5. ASSUME NEW q \in Procs, q # p
        PROVE  /\ task'[q] = task[q]
               /\ task[q].pc # "idle" => task[q].order \in Orders
               /\ task[q].pc \in {"offer", "push", "undo"} => task[q].master \in Masters
    BY <2>1, <2>5 DEF OthersStay, StageInv, HandlerStage, Undoing, TaskOK, NamesMaster
  <2> HIDE DEF x, y
  <2>6. /\ \A o \in Orders : matchOffer'[o] = NoOffer \/ matchOffer'[o] = matchOffer[o]
        /\ task[p].mine /\ OfferIsOf(x, y) => matchOffer'[x] = NoOffer
        /\ \A o \in Orders, m \in Masters : ~(o = x /\ m = y) => (masterOffer[m] = o => masterOffer'[m] = o)
    BY <2>1, NoOrderAssumption DEF StoreTypeOK, HoldsReservation
  <2>7. NoOffer.fresh = FALSE /\ NoOffer.master \notin Masters
    BY NoMasterAssumption DEF NoOffer
  <2>8. RingingIsReserved'
    <3>1. \A o \in Orders, m \in Masters : Ringing(o, m)' => Ringing(o, m)
      BY <2>1, <2>6, <2>7 DEF Ringing
    <3>2. \A o \in Orders, m \in Masters : Ringing(o, m)' => ~(o = x /\ m = y)
      <4>1. ASSUME NEW m PROVE [master |-> m, fresh |-> TRUE].fresh = TRUE
        OBVIOUS
      <4>2. ASSUME NEW o \in Orders, NEW m \in Masters, Ringing(o, m)', o = x, m = y PROVE FALSE
        <5>1. Ringing(x, y)
          BY <3>1, <4>2
        <5>2. matchOffer'[x] = NoOffer
          BY <2>3, <2>6, <5>1
        <5> QED BY <2>7, <4>1, <4>2, <5>2 DEF Ringing
      <4> QED BY <4>2
    <3> QED BY <2>6, <3>1, <3>2 DEF RingInv, RingingIsReserved
  <2>9. ASSUME NEW q \in Procs, q # p
        PROVE  /\ task[q].pc = "offer" /\ ~Over(task[q].order) => masterOffer'[task[q].master] = task[q].order
               /\ /\ task[q].pc = "push" /\ ~Over(task[q].order)
                  /\ matchOffer'[task[q].order] = [master |-> task[q].master, fresh |-> TRUE]
                  => masterOffer'[task[q].master] = task[q].order
               /\ task[q].pc = "undo" /\ ~task[q].mine =>
                    Over(task[q].order) \/ matchOffer'[task[q].order].master # task[q].master
    BY <2>4, <2>5, <2>6, <2>7, <2>9 DEF RingInv, OfferIsOf
  <2> QED BY <2>1, <2>5, <2>8, <2>9 DEF RingInv, Over, OfferIsOf
<1> QED BY <1>2, <1>3, <1>4, <1>5, <1>6, QuietStepRing DEF Step, QuietStep

LEMMA RequestRing ==
  ASSUME TypeInv, RingInv, NEW p \in Procs, Request(p)
  PROVE  RingInv'
<1> USE DEF TypeInv
<1>1. UNCHANGED <<offers, matchOffer, masterOffer>>
  BY DEF Request, CreateOrder, PassOffer, AcceptOffer, CancelOrder, CompleteOrder
<1>2. PICK o \in Orders :
        \/ CreateOrder(p, o)
        \/ \E m \in Masters : PassOffer(p, o, m) \/ AcceptOffer(p, o, m)
        \/ \E op \in {"cancel", "penalty"} : CancelOrder(p, o, op)
        \/ CompleteOrder(p, o)
  BY DEF Request
<1>3. \/ UNCHANGED status
      \/ status[o] = "absent" /\ status' = [status EXCEPT ![o] = "pending"]
      \/ status[o] = "accepted" /\ status' = [status EXCEPT ![o] = "done"]
  BY <1>2 DEF CreateOrder, PassOffer, AcceptOffer, CancelOrder, CompleteOrder
<1>4. \A x \in Orders : /\ status'[x] = "matching" => status[x] = "matching"
                        /\ Over(x) => Over(x)'
  BY <1>3 DEF Over, StoreTypeOK
<1>5. OthersStay(p) /\ task'[p].pc \notin {"offer", "push", "undo"}
  <2>1. CASE \E op \in {"cancel", "penalty"} : CancelOrder(p, o, op)
    BY <2>1, CancelMoves
  <2>2. CASE CreateOrder(p, o) \/ CompleteOrder(p, o)
    <3>1. \E label \in {"candidates", "create", "credit"}, op \in {"post", "complete"} :
            \E m : Begin(p, op, label, o, m)
      BY <2>2 DEF CreateOrder, CompleteOrder
    <3> QED BY <3>1, BeginMoves
  <2>3. ASSUME NEW m \in Masters, PassOffer(p, o, m) \/ AcceptOffer(p, o, m)
        PROVE  OthersStay(p) /\ task'[p].pc \notin {"offer", "push", "undo"}
    <3>1. \E label \in {"answer", "charge", "debit"}, op \in {"pass", "accept"} : Begin(p, op, label, o, m)
      BY <2>3 DEF PassOffer, AcceptOffer
    <3> QED BY <3>1, BeginMoves
  <2> QED BY <1>2, <2>1, <2>2, <2>3
<1>6. RingKept(p)
  BY <1>1, <1>4, <1>5 DEF RingKept, Asked
<1> QED BY <1>6, RingFrame

\* The clock takes nothing from a ringing pro, nor from one about to ring.
LEMMA WindowRing ==
  ASSUME TypeInv, StageInv, RingInv, NEW x \in Orders, OfferWindowCloses(x) \/ OfferKeyExpires(x)
  PROVE  RingInv'
<1> USE DEF TypeInv
<1>1. NoOffer.fresh = FALSE /\ NoOffer.master = NoMaster
  BY DEF NoOffer
<1>2. ASSUME NEW m PROVE [master |-> m, fresh |-> TRUE].fresh = TRUE
  OBVIOUS
<1>3. UNCHANGED <<status, offers, task, masterOffer>>
      /\ \A o \in Orders : o # x => matchOffer'[o] = matchOffer[o]
  BY DEF OfferWindowCloses, OfferKeyExpires, StoreTypeOK
<1>4. ~matchOffer'[x].fresh /\ matchOffer'[x].master \in {matchOffer[x].master, NoMaster}
  <2>1. CASE OfferKeyExpires(x)
    BY <1>1, <2>1 DEF OfferKeyExpires, StoreTypeOK
  <2>2. CASE OfferWindowCloses(x)
    <3>1. matchOffer[x] \in [master : Masters, fresh : BOOLEAN]
      BY <1>1, <2>2 DEF OfferWindowCloses, StoreTypeOK, Offers
    <3>2. matchOffer'[x] = [matchOffer[x] EXCEPT !.fresh = FALSE]
      BY <2>2 DEF OfferWindowCloses, StoreTypeOK
    <3> QED BY <3>1, <3>2
  <2> QED BY <2>1, <2>2
<1>5. RingingIsReserved'
  BY <1>2, <1>3, <1>4 DEF RingInv, RingingIsReserved, Ringing
<1>6. ASSUME NEW p \in Procs
      PROVE  /\ task[p].pc \in {"offer", "push", "undo"} => task[p].order \in Orders
             /\ task[p].pc = "undo" => task[p].master \in Masters
  BY DEF TaskOK, StageInv, HandlerStage, Undoing
<1> QED BY <1>2, <1>3, <1>4, <1>5, <1>6, NoMasterAssumption DEF RingInv, Over, OfferIsOf

LEMMA ReservationRing ==
  ASSUME TypeInv, RingInv, NEW n \in Masters, ReservationExpires(n)
  PROVE  RingInv'
<1> USE DEF TypeInv
<1> DEFINE x == masterOffer[n]
<1>1. UNCHANGED <<status, offers, task, matchOffer>>
      /\ \A m \in Masters : m # n => masterOffer'[m] = masterOffer[m]
  BY DEF ReservationExpires, StoreTypeOK
<1>2. /\ ~(OfferIsOf(x, n) /\ matchOffer[x].fresh)
      /\ \A p \in Procs : task[p].order = x /\ task[p].master = n => task[p].pc # "offer"
  BY DEF ReservationExpires
<1>3. ASSUME NEW m
      PROVE  [master |-> m, fresh |-> TRUE].fresh = TRUE /\ [master |-> m, fresh |-> TRUE].master = m
  OBVIOUS
<1>4. matchOffer[x] # [master |-> n, fresh |-> TRUE]
  BY <1>2, <1>3 DEF OfferIsOf
<1>5. RingingIsReserved'
  BY <1>1, <1>4 DEF RingInv, RingingIsReserved, Ringing
<1>6. ASSUME NEW p \in Procs, task[p].pc \in {"offer", "push"}
      PROVE  task[p].order \in Orders /\ task[p].master \in Masters
  BY <1>6 DEF TaskOK, NamesMaster
<1> QED BY <1>1, <1>2, <1>4, <1>5, <1>6 DEF RingInv, Over, OfferIsOf

\* The clock takes nothing from a ringing pro, nor from one about to ring; a crash and a
\* new timeout leave the offers alone.
LEMMA EnvironmentRing ==
  ASSUME TypeInv, StageInv, RingInv,
         \/ Clock
         \/ \E o \in Orders, m \in Masters : Timeout(o, m)
         \/ \E p \in Procs : Crash(p)
         \/ UNCHANGED vars
  PROVE  RingInv'
<1> USE DEF TypeInv
<1>1. CASE UNCHANGED <<status, offers, task, matchOffer, masterOffer>>
  BY <1>1 DEF RingInv, RingingIsReserved, Ringing, Over, OfferIsOf
<1>2. CASE Clock
  <2>1. \/ UNCHANGED <<status, offers, task, matchOffer, masterOffer>>
        \/ \E o \in Orders : OfferWindowCloses(o) \/ OfferKeyExpires(o)
        \/ \E m \in Masters : ReservationExpires(m)
    BY <1>2 DEF Clock, QueueKeyExpires, LockExpires
  <2> QED BY <1>1, <2>1, WindowRing, ReservationRing
<1>3. ASSUME NEW o \in Orders, NEW m \in Masters, Timeout(o, m) PROVE RingInv'
  <2>1. PICK p \in Workers : ExpireOffer(p, o, m)
    BY <1>3 DEF Timeout
  <2>2. p \in Procs /\ UNCHANGED <<status, offers, matchOffer, masterOffer>>
    BY <2>1 DEF ExpireOffer, Procs
  <2>3. CASE Begin(p, "expire", "answer", o, m)
    <3>1. RingKept(p)
      BY <2>2, <2>3, BeginMoves DEF RingKept, Asked, Over
    <3> QED BY <2>2, <3>1, RingFrame
  <2> QED BY <1>1, <2>1, <2>2, <2>3 DEF ExpireOffer
<1>4. ASSUME NEW p \in Procs, Crash(p) PROVE RingInv'
  <2>1. RingKept(p)
    BY <1>4, ReturnMoves DEF Crash, RingKept, Asked, Over
  <2> QED BY <1>4, <2>1, RingFrame
<1> QED BY <1>1, <1>2, <1>3, <1>4 DEF vars

LEMMA NextRing ==
  ASSUME TypeInv, PlaceInv, TokenInv, QueueInv, StageInv, RingInv, [Next]_vars
  PROVE  RingInv'
BY StepRing, RequestRing, EnvironmentRing DEF Next

LEMMA InitRing == Init => RingInv
BY DEF Init, RingInv, RingingIsReserved, Ringing, NoTask

\* A pro whose phone rings for a job is reserved for that job, so no second job can ring
\* it, whatever runs out, crashes or is undone in between.
THEOREM RingingProIsReserved == Spec => []RingingIsReserved
<1> DEFINE Inv == TypeInv /\ PlaceInv /\ TokenInv /\ QueueInv /\ StageInv /\ RingInv
<1>1. Init => Inv
  BY InitType, InitPlaces, InitToken, InitQueue, InitStage, InitRing
<1>2. Inv /\ [Next]_vars => Inv'
  BY NextType, NextPlaces, NextToken, NextQueue, NextStage, NextRing
<1>3. Inv => RingingIsReserved
  BY DEF RingInv
<1> HIDE DEF Inv
<1> QED BY <1>1, <1>2, <1>3, PTL DEF Spec

-----------------------------------------------------------------------------
(* What a job leaves behind. Counting handlers and jobs. *)

\* The handlers at one of these labels on behalf of a pro.
Busy(m, labels) == {p \in Procs : task[p].pc \in labels /\ task[p].master = m}

LEMMA BusySame ==
  ASSUME NEW p \in Procs, OthersStay(p), NEW m, NEW labels,
         \/ task[p].pc \notin labels /\ task'[p].pc \notin labels
         \/ /\ task[p].pc \in labels /\ task'[p].pc \in labels
            /\ task'[p].master = task[p].master
  PROVE  Busy(m, labels)' = Busy(m, labels)
BY DEF Busy, OthersStay

LEMMA BusyJoins ==
  ASSUME NEW p \in Procs, OthersStay(p), NEW m, NEW labels, IsFiniteSet(Busy(m, labels)),
         task[p].pc \notin labels, task'[p].pc \in labels
  PROVE  /\ IsFiniteSet(Busy(m, labels)')
         /\ Cardinality(Busy(m, labels))' =
              IF m = task'[p].master THEN Cardinality(Busy(m, labels)) + 1
                                     ELSE Cardinality(Busy(m, labels))
<1>1. CASE m = task'[p].master
  <2>1. Busy(m, labels)' = Busy(m, labels) \cup {p} /\ p \notin Busy(m, labels)
    BY <1>1 DEF Busy, OthersStay
  <2>2. /\ IsFiniteSet(Busy(m, labels) \cup {p})
        /\ Cardinality(Busy(m, labels) \cup {p}) = Cardinality(Busy(m, labels)) + 1
    BY <2>1, FS_AddElement
  <2> QED BY <1>1, <2>1, <2>2
<1>2. CASE m # task'[p].master
  <2>1. Busy(m, labels)' = Busy(m, labels)
    BY <1>2 DEF Busy, OthersStay
  <2> QED BY <1>2, <2>1
<1> QED BY <1>1, <1>2

LEMMA BusyLeaves ==
  ASSUME NEW p \in Procs, OthersStay(p), NEW m, NEW labels, IsFiniteSet(Busy(m, labels)),
         task[p].pc \in labels, task'[p].pc \notin labels
  PROVE  /\ IsFiniteSet(Busy(m, labels)')
         /\ Cardinality(Busy(m, labels))' \in Nat
         /\ Cardinality(Busy(m, labels)) =
              IF m = task[p].master THEN Cardinality(Busy(m, labels))' + 1
                                    ELSE Cardinality(Busy(m, labels))'
<1>1. CASE m = task[p].master
  <2>1. Busy(m, labels)' = Busy(m, labels) \ {p} /\ p \in Busy(m, labels)
    BY <1>1 DEF Busy, OthersStay
  <2>2. /\ IsFiniteSet(Busy(m, labels) \ {p})
        /\ Cardinality(Busy(m, labels) \ {p}) = Cardinality(Busy(m, labels)) - 1
    BY <2>1, FS_RemoveElement
  <2>3. Cardinality(Busy(m, labels)) \in Nat /\ Cardinality(Busy(m, labels)') \in Nat
    BY <2>1, <2>2, FS_CardinalityType
  <2> QED BY <1>1, <2>1, <2>2, <2>3
<1>2. CASE m # task[p].master
  <2>1. Busy(m, labels)' = Busy(m, labels)
    BY <1>2 DEF Busy, OthersStay
  <2> QED BY <1>2, <2>1, FS_CardinalityType
<1> QED BY <1>1, <1>2

-----------------------------------------------------------------------------
(* Where the money is while an accept runs as commands of their own.       *)

\* The fee is taken and the job not assigned yet, or the fee is to go back.
PayPending == {"assign", "recredit"}
Paying(m) == Busy(m, PayPending)

\* The job is assigned and its ledger entry still to be written.
FeePending == {"mark", "ledger"}
Booking(p, o) == task[p].pc \in FeePending /\ task[p].order = o

\* What a pro owns: the balance, the jobs paid for and the fees in flight.
Worth(m) == balance[m] + Fee * (Cardinality(JobsOf(m)) + Cardinality(Paying(m)))

PaidInv == \A m \in Masters : IsFiniteSet(Paying(m)) /\ Worth(m) <= Funds[m]
KeptInv == \A m \in Masters : Worth(m) = Funds[m]

\* One handler at most has a ledger entry to write for a job, and the pro it
\* names is the job's.
BookingInv ==
  /\ \A o \in Orders, p, q \in Procs : Booking(p, o) /\ Booking(q, o) => p = q
  /\ \A o \in Orders, p \in Procs : Booking(p, o) => master[o] = task[p].master

\* An entry stands for an assignment that no handler has still to book.
LedgerInv ==
  Fee > 0 =>
    \A o \in Orders, m \in Masters :
      <<o, m>> \in fees <=> master[o] = m /\ \A p \in Procs : ~Booking(p, o)

\* A step of a handler that has no money in hand, before or after.
MoneyAlone(p) ==
  /\ OthersStay(p)
  /\ UNCHANGED <<master, balance, fees>>
  /\ task[p].pc \notin PayPending \cup FeePending
  /\ task'[p].pc \notin PayPending \cup FeePending

MoneyStep(p) ==
  Debit(p) \/ Assign(p) \/ Recredit(p) \/ MarkOffer(p) \/ RecordFee(p) \/ ChargeAndAssign(p)

LEMMA StepMoney ==
  ASSUME TypeInv, NEW p \in Procs, Step(p)
  PROVE  MoneyAlone(p) \/ MoneyStep(p)
<1> USE DEF TypeInv, MoneyAlone, MoneyStep, PayPending, FeePending
<1>1. CASE InsertOrder(p) \/ CheckSearching(p) \/ DropStaleQueue(p) \/ CheckOutstanding(p) \/ GiveUp(p)
           \/ SetOffer(p) \/ PushOffer(p) \/ ArmTimeout(p)
           \/ OpenChat(p) \/ DropQueue(p) \/ Penalise(p) \/ CreditCompletion(p) \/ UndoOffer(p)
  BY SMTT(20), <1>1, GotoMoves DEF InsertOrder, CheckSearching, DropStaleQueue, CheckOutstanding, GiveUp,
     SetOffer, PushOffer, ArmTimeout, OpenChat, DropQueue, Penalise, CreditCompletion, UndoOffer,
     ClearOffer
<1>2. CASE ReleaseLock(p) \/ RefuseAccept(p) \/ CloseChat(p) \/ ReopenChat(p)
  BY <1>2, ReturnMoves DEF ReleaseLock, RefuseAccept, CloseChat, ReopenChat
<1>3. CASE RecordAnswer(p) \/ ClearAnswered(p) \/ AbortDrop(p) \/ CancelWrite(p)
  BY <1>3, GotoMoves, ReturnMoves
     DEF RecordAnswer, ClearAnswered, ClearOffer, AbortDrop, CancelWrite
<1>4. CASE BuildCandidates(p) \/ EnqueueCandidates(p) \/ AcquireLock(p)
  BY <1>4, BuildMoves, EnqueueMoves, AcquireMoves, ReturnMoves
<1>5. CASE PopCandidate(p) \/ ReserveMaster(p) \/ AbortRead(p)
  BY <1>5, GotoMoves, PopMoves, ReserveMoves, AbortMoves
<1>6. CASE ReadForUndo(p) \/ ReadForClear(p)
  BY <1>6, ReadMoves DEF ReadForUndo, ReadForClear
<1> QED BY <1>1, <1>2, <1>3, <1>4, <1>5, <1>6 DEF Step

LEMMA RequestMoney ==
  ASSUME TypeInv, NEW p \in Procs, Request(p)
  PROVE  MoneyAlone(p)
<1> USE DEF TypeInv, MoneyAlone, PayPending, FeePending
<1>1. ASSUME NEW o \in Orders, NEW m \in Masters, PassOffer(p, o, m) PROVE MoneyAlone(p)
  BY <1>1, BeginMoves DEF PassOffer
<1>2. ASSUME NEW o \in Orders, NEW m \in Masters, AcceptOffer(p, o, m) PROVE MoneyAlone(p)
  <2>1. Begin(p, "accept", "charge", o, m) \/ Begin(p, "accept", "debit", o, m)
    BY <1>2 DEF AcceptOffer
  <2> QED BY <1>2, <2>1, BeginMoves DEF AcceptOffer
<1>3. ASSUME NEW o \in Orders, CreateOrder(p, o) \/ CompleteOrder(p, o) PROVE MoneyAlone(p)
  BY <1>3, BeginMoves DEF CreateOrder, CompleteOrder
<1>4. ASSUME NEW o \in Orders, NEW op \in {"cancel", "penalty"}, CancelOrder(p, o, op)
      PROVE  MoneyAlone(p)
  BY <1>4, CancelMoves DEF CancelOrder
<1> QED BY <1>1, <1>2, <1>3, <1>4 DEF Request

\* A step that is no handler's leaves the money and the handlers who have it in hand alone.
LEMMA EnvironmentMoney ==
  ASSUME TypeInv,
         \/ Clock
         \/ \E o \in Orders, m \in Masters : Timeout(o, m)
         \/ UNCHANGED vars
  PROVE  UNCHANGED <<master, balance, fees, task>> \/ \E p \in Procs : MoneyAlone(p)
<1> USE DEF TypeInv
<1>1. CASE Clock \/ UNCHANGED vars
  BY <1>1 DEF vars, Clock, OfferWindowCloses, OfferKeyExpires, QueueKeyExpires, LockExpires,
              ReservationExpires
<1>2. ASSUME NEW o \in Orders, NEW m \in Masters, Timeout(o, m)
      PROVE  UNCHANGED <<master, balance, fees, task>> \/ \E p \in Procs : MoneyAlone(p)
  <2>1. PICK p \in Workers : ExpireOffer(p, o, m)
    BY <1>2 DEF Timeout
  <2>2. p \in Procs
    BY DEF Procs
  <2>3. CASE Begin(p, "expire", "answer", o, m)
    BY <2>1, <2>2, <2>3, BeginMoves DEF ExpireOffer, MoneyAlone, PayPending, FeePending
  <2> QED BY <2>1, <2>2, <2>3 DEF ExpireOffer
<1> QED BY <1>1, <1>2

LEMMA JobsAreFinite == ASSUME NEW m PROVE IsFiniteSet(JobsOf(m)) /\ Cardinality(JobsOf(m)) \in Nat
<1>1. JobsOf(m) \subseteq Orders
  BY DEF JobsOf
<1> QED BY <1>1, OrdersAssumption, FS_Subset, FS_CardinalityType

\* One job more, for a pro it did not have.
LEMMA AssignedJob ==
  ASSUME TypeInv, NEW o \in Orders, NEW n \in Masters, master[o] = NoMaster,
         master' = [master EXCEPT ![o] = n], NEW m \in Masters
  PROVE  Cardinality(JobsOf(m))' =
           IF m = n THEN Cardinality(JobsOf(m)) + 1 ELSE Cardinality(JobsOf(m))
<1>1. master \in [Orders -> Masters \cup {NoMaster}]
  BY DEF TypeInv, StoreTypeOK
<1>2. CASE m = n
  <2>1. JobsOf(m)' = JobsOf(m) \cup {o} /\ o \notin JobsOf(m)
    BY <1>1, <1>2, NoMasterAssumption DEF JobsOf
  <2>2. Cardinality(JobsOf(m) \cup {o}) = Cardinality(JobsOf(m)) + 1
    BY <2>1, JobsAreFinite, FS_AddElement
  <2> QED BY <1>2, <2>1, <2>2
<1>3. CASE m # n
  <2>1. JobsOf(m)' = JobsOf(m)
    BY <1>1, <1>3, NoMasterAssumption DEF JobsOf
  <2> QED BY <1>3, <2>1
<1> QED BY <1>2, <1>3

LEMMA WorthArithmetic ==
  ASSUME NEW b \in Nat, NEW f \in Nat, NEW j \in Nat, NEW k \in Nat
  PROVE  /\ f * (j + (k + 1)) = f * (j + k) + f
         /\ f * ((j + 1) + k) = f * (j + k) + f
         /\ f * (j + k) \in Nat
         /\ f * j <= f * (j + k)
<1>1. /\ f * (j + (k + 1)) = f * j + f * k + f
      /\ f * ((j + 1) + k) = f * j + f * k + f
      /\ f * (j + k) = f * j + f * k
  OBVIOUS
<1>2. f * j \in Nat /\ f * k \in Nat
  OBVIOUS
<1> QED BY <1>1, <1>2

\* Whatever a handler does, what each pro owns stays the same.
LEMMA StepWorth ==
  ASSUME TypeInv, PaidInv, NEW p \in Procs, MoneyAlone(p) \/ MoneyStep(p), NEW m \in Masters
  PROVE  IsFiniteSet(Paying(m)') /\ Worth(m)' = Worth(m)
<1> DEFINE b == balance[m]
           j == Cardinality(JobsOf(m))
           k == Cardinality(Paying(m))
<1>1. b \in Nat /\ j \in Nat /\ k \in Nat /\ IsFiniteSet(Paying(m))
  BY JobsAreFinite, FS_CardinalityType DEF PaidInv, TypeInv, StoreTypeOK
<1>2. CASE MoneyAlone(p) \/ MarkOffer(p) \/ RecordFee(p)
  <2>1. OthersStay(p) /\ UNCHANGED <<master, balance>>
        /\ task[p].pc \notin PayPending /\ task'[p].pc \notin PayPending
    BY <1>2, GotoMoves DEF MoneyAlone, MarkOffer, RecordFee, TypeInv, PayPending
  <2>2. Paying(m)' = Paying(m) /\ JobsOf(m)' = JobsOf(m)
    BY <2>1, BusySame DEF Paying, JobsOf
  <2> QED BY <1>1, <2>1, <2>2 DEF Worth
<1>3. CASE Debit(p)
  <2>1. task[p].master \in Masters /\ Fee <= balance[task[p].master]
    BY <1>3, FeeAssumption DEF Debit, CanPay, TypeInv, TaskOK, StoreTypeOK, NamesMaster
  <2>2. OthersStay(p) /\ task[p].pc \notin PayPending /\ task'[p].pc \in PayPending
        /\ task'[p].master = task[p].master
    BY <1>3, GotoMoves DEF Debit, TypeInv, PayPending
  <2>3. IsFiniteSet(Paying(m)') /\ k' = IF m = task[p].master THEN k + 1 ELSE k
    BY <1>1, <2>2, BusyJoins DEF Paying
  <2>4. b' = IF m = task[p].master THEN b - Fee ELSE b
    BY <1>3, <2>1 DEF Debit, TypeInv, StoreTypeOK
  <2>5. j' = j
    BY <1>3 DEF Debit, JobsOf
  <2> HIDE DEF b, j, k
  <2>6. b' + Fee * (j' + k') = b + Fee * (j + k)
    <3>1. CASE m = task[p].master
      <4>1. k' = k + 1 /\ b' = b - Fee /\ j' = j
        BY <2>3, <2>4, <2>5, <3>1
      <4>2. Fee * (j + (k + 1)) = Fee * (j + k) + Fee /\ Fee * (j + k) \in Nat
        BY <1>1, FeeAssumption, WorthArithmetic
      <4> QED BY <1>1, <4>1, <4>2, FeeAssumption
    <3> QED BY <2>3, <2>4, <2>5, <3>1
  <2> QED BY <2>3, <2>6 DEF Worth, b, j, k
<1>4. CASE Recredit(p)
  <2>1. task[p].master \in Masters
    BY <1>4 DEF Recredit, TypeInv, TaskOK, NamesMaster
  <2>2. OthersStay(p) /\ task[p].pc \in PayPending /\ task'[p].pc \notin PayPending
    BY <1>4, ReturnMoves DEF Recredit, TypeInv, PayPending
  <2>3. IsFiniteSet(Paying(m)') /\ k' \in Nat /\ k = IF m = task[p].master THEN k' + 1 ELSE k'
    BY <1>1, <2>2, BusyLeaves DEF Paying
  <2>4. b' = IF m = task[p].master THEN b + Fee ELSE b
    BY <1>4, <2>1 DEF Recredit, TypeInv, StoreTypeOK
  <2>5. j' = j
    BY <1>4 DEF Recredit, JobsOf
  <2> HIDE DEF b, j, k
  <2>6. b' + Fee * (j' + k') = b + Fee * (j + k)
    <3>1. CASE m = task[p].master
      <4>1. k = k' + 1 /\ b' = b + Fee /\ j' = j
        BY <2>3, <2>4, <2>5, <3>1
      <4>2. Fee * (j + (k' + 1)) = Fee * (j + k') + Fee /\ Fee * (j + k') \in Nat
        BY <1>1, <2>3, FeeAssumption, WorthArithmetic
      <4> QED BY <1>1, <4>1, <4>2, FeeAssumption
    <3> QED BY <2>3, <2>4, <2>5, <3>1
  <2> QED BY <2>3, <2>6 DEF Worth, b, j, k
<1>5. CASE Assign(p)
  <2>1. task[p].master \in Masters /\ task[p].order \in Orders
    BY <1>5 DEF Assign, TypeInv, TaskOK, NamesMaster
  <2>2. CASE StillOpen(task[p].order)
    <3>1. master[task[p].order] = NoMaster /\ UNCHANGED balance
          /\ master' = [master EXCEPT ![task[p].order] = task[p].master]
      BY <1>5, <2>2 DEF Assign, StillOpen
    <3>2. OthersStay(p) /\ task[p].pc \in PayPending /\ task'[p].pc \notin PayPending
      BY <1>5, <2>2, GotoMoves DEF Assign, TypeInv, PayPending
    <3>3. IsFiniteSet(Paying(m)') /\ k' \in Nat /\ k = IF m = task[p].master THEN k' + 1 ELSE k'
      BY <1>1, <3>2, BusyLeaves DEF Paying
    <3>4. j' = IF m = task[p].master THEN j + 1 ELSE j
      BY <2>1, <3>1, AssignedJob
    <3>5. b' = b
      BY <3>1
    <3> HIDE DEF b, j, k
    <3>6. j' + k' = j + k
      BY <1>1, <3>3, <3>4
    <3> QED BY <3>3, <3>5, <3>6 DEF Worth, b, j, k
  <2>3. CASE ~StillOpen(task[p].order)
    <3>1. UNCHANGED <<master, balance>>
      BY <1>5, <2>3 DEF Assign
    <3>2. OthersStay(p) /\ task[p].pc \in PayPending /\ task'[p].pc \in PayPending
          /\ task'[p].master = task[p].master
      BY <1>5, <2>3, GotoMoves DEF Assign, TypeInv, PayPending
    <3>3. Paying(m)' = Paying(m) /\ JobsOf(m)' = JobsOf(m)
      BY <3>1, <3>2, BusySame DEF Paying, JobsOf
    <3> QED BY <1>1, <3>1, <3>3 DEF Worth
  <2> QED BY <2>2, <2>3
<1>6. CASE ChargeAndAssign(p)
  <2>1. task[p].master \in Masters /\ task[p].order \in Orders /\ Fee <= balance[task[p].master]
    BY <1>6, FeeAssumption DEF ChargeAndAssign, CanPay, TypeInv, TaskOK, StoreTypeOK, NamesMaster
  <2>2. OthersStay(p) /\ task[p].pc \notin PayPending /\ task'[p].pc \notin PayPending
    BY <1>6, GotoMoves, ReturnMoves DEF ChargeAndAssign, LoseRace, TypeInv, PayPending
  <2>3. Paying(m)' = Paying(m)
    BY <2>2, BusySame DEF Paying
  <2>4. CASE StillOpen(task[p].order)
    <3>1. master[task[p].order] = NoMaster
          /\ balance' = [balance EXCEPT ![task[p].master] = @ - Fee]
          /\ master' = [master EXCEPT ![task[p].order] = task[p].master]
      BY <1>6, <2>4 DEF ChargeAndAssign, StillOpen
    <3>2. b' = IF m = task[p].master THEN b - Fee ELSE b
      BY <2>1, <3>1 DEF TypeInv, StoreTypeOK
    <3>3. j' = IF m = task[p].master THEN j + 1 ELSE j
      BY <2>1, <3>1, AssignedJob
    <3>4. k' = k
      BY <2>3
    <3> HIDE DEF b, j, k
    <3>5. b' + Fee * (j' + k') = b + Fee * (j + k)
      <4>1. CASE m = task[p].master
        <5>1. j' = j + 1 /\ b' = b - Fee /\ k' = k
          BY <3>2, <3>3, <3>4, <4>1
        <5>2. Fee * ((j + 1) + k) = Fee * (j + k) + Fee /\ Fee * (j + k) \in Nat
          BY <1>1, FeeAssumption, WorthArithmetic
        <5> QED BY <1>1, <5>1, <5>2, FeeAssumption
      <4> QED BY <3>2, <3>3, <3>4, <4>1
    <3> QED BY <1>1, <2>3, <3>5 DEF Worth, b, j, k
  <2>5. CASE ~StillOpen(task[p].order)
    <3>1. UNCHANGED <<master, balance>>
      BY <1>6, <2>5 DEF ChargeAndAssign, LoseRace
    <3>2. JobsOf(m)' = JobsOf(m)
      BY <3>1 DEF JobsOf
    <3> QED BY <1>1, <2>3, <3>1, <3>2 DEF Worth
  <2> QED BY <2>4, <2>5
<1> QED BY <1>2, <1>3, <1>4, <1>5, <1>6 DEF MoneyStep

LEMMA FewerFees ==
  ASSUME NEW b \in Nat, NEW f \in Nat, NEW j \in Nat, NEW k \in Nat, NEW n \in Nat, n <= k
  PROVE  b + f * (j + n) <= b + f * (j + k)
<1>1. PICK d \in Nat : k = n + d
  <2>1. k - n \in Nat /\ k = n + (k - n)
    OBVIOUS
  <2> QED BY <2>1
<1>2. f * (j + (n + d)) = f * (j + n) + f * d
  OBVIOUS
<1>3. f * d \in Nat /\ f * (j + n) \in Nat
  OBVIOUS
<1> QED BY <1>1, <1>2, <1>3

\* A handler that dies takes along the fee it had in hand, and no more.
LEMMA CrashWorth ==
  ASSUME TypeInv, PaidInv, NEW p \in Procs, Crash(p), NEW m \in Masters
  PROVE  IsFiniteSet(Paying(m)') /\ Worth(m)' <= Worth(m)
<1> DEFINE b == balance[m]
           j == Cardinality(JobsOf(m))
           k == Cardinality(Paying(m))
<1>1. b \in Nat /\ j \in Nat /\ k \in Nat /\ IsFiniteSet(Paying(m))
  BY JobsAreFinite, FS_CardinalityType DEF PaidInv, TypeInv, StoreTypeOK
<1>2. Paying(m)' \subseteq Paying(m)
  BY ReturnMoves DEF Crash, Paying, Busy, PayPending, OthersStay, TypeInv
<1>3. IsFiniteSet(Paying(m)') /\ k' \in Nat /\ k' <= k
  BY <1>1, <1>2, FS_Subset, FS_CardinalityType
<1>4. b' = b /\ j' = j
  BY DEF Crash, JobsOf
<1> HIDE DEF b, j, k
<1>5. b' + Fee * (j' + k') <= b + Fee * (j + k)
  BY <1>1, <1>3, <1>4, FeeAssumption, FewerFees
<1> QED BY <1>3, <1>5 DEF Worth, b, j, k

\* The steps there are: the clock, which touches no money, a handler's, and its crash.
LEMMA NextMoney ==
  ASSUME TypeInv, [Next]_vars
  PROVE  \/ UNCHANGED <<master, balance, fees, task>>
         \/ \E p \in Procs : MoneyAlone(p) \/ MoneyStep(p) \/ Crash(p)
BY StepMoney, RequestMoney, EnvironmentMoney DEF Next

LEMMA WorthType ==
  ASSUME TypeInv, PaidInv, NEW m \in Masters
  PROVE  Worth(m) \in Nat
<1>1. balance[m] \in Nat /\ Cardinality(JobsOf(m)) \in Nat /\ Cardinality(Paying(m)) \in Nat
  BY JobsAreFinite, FS_CardinalityType DEF PaidInv, TypeInv, StoreTypeOK
<1> QED BY <1>1, FeeAssumption, WorthArithmetic DEF Worth

LEMMA NextPaid ==
  ASSUME TypeInv, PaidInv, [Next]_vars
  PROVE  PaidInv' /\ (KeptInv /\ Crashing = {} => KeptInv')
<1>1. CASE UNCHANGED <<master, balance, fees, task>>
  <2>1. ASSUME NEW m \in Masters PROVE Paying(m)' = Paying(m) /\ Worth(m)' = Worth(m)
    BY <1>1 DEF Paying, Busy, Worth, JobsOf
  <2> QED BY <2>1 DEF PaidInv, KeptInv
<1>2. ASSUME NEW p \in Procs, MoneyAlone(p) \/ MoneyStep(p)
      PROVE  PaidInv' /\ (KeptInv => KeptInv')
  BY <1>2, StepWorth DEF PaidInv, KeptInv
<1>3. ASSUME NEW p \in Procs, Crash(p) PROVE PaidInv' /\ Crashing # {}
  <2>1. ASSUME NEW m \in Masters PROVE IsFiniteSet(Paying(m)') /\ Worth(m)' <= Funds[m]
    <3>1. TypeInv'
      BY <1>3, CrashType
    <3>2. IsFiniteSet(Paying(m)') /\ Worth(m)' <= Worth(m)
      BY <1>3, CrashWorth
    <3>3. Worth(m)' \in Nat
      <4>1. /\ balance'[m] \in Nat /\ IsFiniteSet(JobsOf(m)')
        BY <1>3, <3>1, JobsAreFinite DEF TypeInv, StoreTypeOK, Crash, JobsOf
      <4>2. Cardinality(JobsOf(m)') \in Nat /\ Cardinality(Paying(m)') \in Nat
        BY <3>2, <4>1, FS_CardinalityType
      <4> QED BY <4>1, <4>2, FeeAssumption, WorthArithmetic DEF Worth
    <3>4. Worth(m) \in Nat /\ Worth(m) <= Funds[m] /\ Funds[m] \in Nat
      BY WorthType, FundsAssumption DEF PaidInv
    <3> QED BY <3>2, <3>3, <3>4
  <2> QED BY <1>3, <2>1 DEF PaidInv, Crash
<1> QED BY <1>1, <1>2, <1>3, NextMoney

LEMMA InitPaid == Init => PaidInv /\ KeptInv
<1> SUFFICES ASSUME Init, NEW m \in Masters
             PROVE  IsFiniteSet(Paying(m)) /\ Worth(m) = Funds[m] /\ Funds[m] \in Nat
  BY DEF PaidInv, KeptInv
<1>1. JobsOf(m) = {}
  BY NoMasterAssumption DEF Init, JobsOf
<1>2. Paying(m) = {}
  BY DEF Init, Paying, Busy, PayPending, NoTask
<1>3. Cardinality({}) = 0 /\ IsFiniteSet({})
  BY FS_EmptySet
<1> QED BY <1>1, <1>2, <1>3, FundsAssumption, FeeAssumption DEF Init, Worth

-----------------------------------------------------------------------------
(* The ledger. *)

LEMMA NextBooking ==
  ASSUME TypeInv, BookingInv, [Next]_vars
  PROVE  BookingInv'
<1>1. CASE UNCHANGED <<master, balance, fees, task>>
  BY <1>1 DEF BookingInv, Booking
<1>2. ASSUME NEW p \in Procs, OthersStay(p), UNCHANGED master,
             task'[p].pc \in FeePending =>
               /\ task[p].pc \in FeePending
               /\ task'[p].order = task[p].order /\ task'[p].master = task[p].master
      PROVE  BookingInv'
  BY <1>2 DEF BookingInv, Booking, OthersStay
<1>3. ASSUME NEW p \in Procs, MoneyAlone(p) \/ Crash(p) \/ Debit(p) \/ Recredit(p)
                              \/ MarkOffer(p) \/ RecordFee(p)
      PROVE  BookingInv'
  <2>1. OthersStay(p) /\ UNCHANGED master
    BY <1>3, GotoMoves, ReturnMoves DEF MoneyAlone, Crash, Debit, Recredit, MarkOffer, RecordFee, TypeInv
  <2>2. \/ task'[p].pc \notin FeePending
        \/ MarkOffer(p)
    BY <1>3, GotoMoves, ReturnMoves
       DEF MoneyAlone, Crash, Debit, Recredit, RecordFee, TypeInv, FeePending
  <2>3. CASE MarkOffer(p)
    BY <1>2, <2>1, <2>3, GotoMoves DEF MarkOffer, TypeInv, FeePending
  <2> QED BY <1>2, <2>1, <2>2, <2>3
<1>4. ASSUME NEW p \in Procs, Assign(p) \/ ChargeAndAssign(p) PROVE BookingInv'
  <2> DEFINE o == task[p].order
  <2>1. o \in Orders /\ task[p].master \in Masters
    BY <1>4 DEF Assign, ChargeAndAssign, TypeInv, TaskOK, NamesMaster
  <2>2. OthersStay(p)
    BY <1>4, GotoMoves, ReturnMoves DEF Assign, ChargeAndAssign, LoseRace, TypeInv
  <2>3. CASE StillOpen(o)
    <3>1. master[o] = NoMaster /\ master' = [master EXCEPT ![o] = task[p].master]
      BY <1>4, <2>3 DEF Assign, ChargeAndAssign, StillOpen
    <3>2. ASSUME NEW q \in Procs PROVE ~Booking(q, o)
      <4>1. SUFFICES ASSUME Booking(q, o) PROVE FALSE
        OBVIOUS
      <4>2. task[q].master \in Masters /\ master[o] = task[q].master
        BY <2>1, <4>1 DEF Booking, BookingInv, FeePending, TypeInv, TaskOK, NamesMaster
      <4> QED BY <3>1, <4>2, NoMasterAssumption
    <3>3. task'[p].order = o /\ task'[p].master = task[p].master
      BY <1>4, <2>3, GotoMoves DEF Assign, ChargeAndAssign, TypeInv
    <3>4. master'[o] = task[p].master /\ \A x \in Orders \ {o} : master'[x] = master[x]
      BY <2>1, <3>1 DEF TypeInv, StoreTypeOK
    <3> HIDE DEF o
    <3>5. task[p].order = o
      BY DEF o
    <3>6. PICK x : x = o
      OBVIOUS
    <3>7. ASSUME NEW q \in Procs, NEW y \in Orders, Booking(q, y)'
          PROVE  IF q = p THEN y = x ELSE y # x /\ Booking(q, y) /\ task'[q] = task[q]
      BY <2>2, <3>2, <3>3, <3>6, <3>7 DEF Booking, OthersStay
    <3> QED BY <2>1, <3>3, <3>4, <3>6, <3>7 DEF BookingInv
  <2>4. CASE ~StillOpen(o)
    <3>1. UNCHANGED master /\ task'[p].pc \notin FeePending
      BY <1>4, <2>4, GotoMoves, ReturnMoves
         DEF Assign, ChargeAndAssign, LoseRace, TypeInv, FeePending
    <3> QED BY <1>2, <2>2, <3>1
  <2> QED BY <2>3, <2>4
<1> QED BY <1>1, <1>3, <1>4, NextMoney DEF MoneyStep

LEMMA NextLedger ==
  ASSUME TypeInv, BookingInv, LedgerInv, Crashing = {}, [Next]_vars
  PROVE  LedgerInv'
<1> SUFFICES ASSUME Fee > 0, NEW x \in Orders, NEW y \in Masters
             PROVE  <<x, y>> \in fees' <=> master'[x] = y /\ \A q \in Procs : ~Booking(q, x)'
  BY DEF LedgerInv
<1>0. <<x, y>> \in fees <=> master[x] = y /\ \A q \in Procs : ~Booking(q, x)
  BY DEF LedgerInv
<1>1. CASE UNCHANGED <<master, balance, fees, task>>
  BY <1>0, <1>1 DEF Booking
<1>2. ASSUME NEW p \in Procs, MoneyAlone(p) \/ Debit(p) \/ Recredit(p) \/ MarkOffer(p)
      PROVE  <<x, y>> \in fees' <=> master'[x] = y /\ \A q \in Procs : ~Booking(q, x)'
  <2>1. OthersStay(p) /\ UNCHANGED <<master, fees>>
    BY <1>2, GotoMoves, ReturnMoves DEF MoneyAlone, Debit, Recredit, MarkOffer, TypeInv
  <2>2. Booking(p, x)' <=> Booking(p, x)
    BY <1>2, GotoMoves, ReturnMoves
       DEF MoneyAlone, Debit, Recredit, MarkOffer, Booking, FeePending, TypeInv
  <2>3. \A q \in Procs : Booking(q, x)' <=> Booking(q, x)
    BY <2>1, <2>2 DEF Booking, OthersStay
  <2> QED BY <1>0, <2>1, <2>3
<1>3. ASSUME NEW p \in Procs, RecordFee(p)
      PROVE  <<x, y>> \in fees' <=> master'[x] = y /\ \A q \in Procs : ~Booking(q, x)'
  <2>1. /\ task[p].order \in Orders /\ task[p].master \in Masters
        /\ Booking(p, task[p].order) /\ master[task[p].order] = task[p].master
    BY <1>3 DEF RecordFee, TypeInv, TaskOK, NamesMaster, Booking, FeePending, BookingInv
  <2>2. fees' = fees \cup {<<task[p].order, task[p].master>>} /\ UNCHANGED master
    BY <1>3 DEF RecordFee, FeeEntry
  <2>3. OthersStay(p) /\ ~Booking(p, x)'
    BY <1>3, GotoMoves DEF RecordFee, TypeInv, Booking, FeePending
  <2>4. CASE x = task[p].order
    <3>1. \A q \in Procs : ~Booking(q, x)'
      BY <2>1, <2>3, <2>4 DEF BookingInv, Booking, OthersStay
    <3>2. master'[x] = task[p].master /\ (<<x, y>> \in fees => y = task[p].master)
      BY <1>0, <2>1, <2>2, <2>4
    <3> QED BY <2>2, <2>4, <3>1, <3>2
  <2>5. CASE x # task[p].order
    <3>1. \A q \in Procs : Booking(q, x)' <=> Booking(q, x)
      BY <2>3, <2>5 DEF Booking, OthersStay
    <3> QED BY <1>0, <2>2, <2>5, <3>1
  <2> QED BY <2>4, <2>5
<1>4. ASSUME NEW p \in Procs, Assign(p) \/ ChargeAndAssign(p)
      PROVE  <<x, y>> \in fees' <=> master'[x] = y /\ \A q \in Procs : ~Booking(q, x)'
  <2> DEFINE o == task[p].order
  <2>1. o \in Orders /\ task[p].master \in Masters
    BY <1>4 DEF Assign, ChargeAndAssign, TypeInv, TaskOK, NamesMaster
  <2>2. OthersStay(p) /\ task[p].pc \notin FeePending
    BY <1>4, GotoMoves, ReturnMoves DEF Assign, ChargeAndAssign, LoseRace, TypeInv, FeePending
  <2>3. CASE x # o \/ ~StillOpen(o)
    <3>1. ~Booking(p, x)'
      <4>1. CASE x # o
        <5>1. task'[p].order = o \/ task'[p].pc \notin FeePending
          BY <1>4, GotoMoves, ReturnMoves DEF Assign, ChargeAndAssign, LoseRace, TypeInv, FeePending
        <5> QED BY <4>1, <5>1 DEF Booking
      <4>2. CASE ~StillOpen(o)
        BY <1>4, <4>2, GotoMoves, ReturnMoves
           DEF Assign, ChargeAndAssign, LoseRace, TypeInv, FeePending, Booking
      <4> QED BY <2>3, <4>1, <4>2
    <3>2. \A q \in Procs : Booking(q, x)' <=> Booking(q, x)
      BY <2>2, <3>1 DEF Booking, OthersStay
    <3>3. master'[x] = master[x]
      BY <1>4, <2>1, <2>3 DEF Assign, ChargeAndAssign, LoseRace, TypeInv, StoreTypeOK
    <3>4. <<x, y>> \in fees' <=> <<x, y>> \in fees
      BY <1>4, <2>1, <2>3 DEF Assign, ChargeAndAssign, LoseRace, FeeEntry
    <3> QED BY <1>0, <3>2, <3>3, <3>4
  <2>4. CASE x = o /\ StillOpen(o)
    <3>1. master[x] = NoMaster /\ master'[x] = task[p].master
      BY <1>4, <2>1, <2>4 DEF Assign, ChargeAndAssign, StillOpen, TypeInv, StoreTypeOK
    <3>2. <<x, y>> \notin fees
      BY <1>0, <3>1, NoMasterAssumption
    <3>3. CASE Assign(p)
      <4>1. Booking(p, x)'
        BY <2>4, <3>3, GotoMoves DEF Assign, TypeInv, FeePending, Booking
      <4> QED BY <3>2, <3>3, <4>1 DEF Assign
    <3>4. CASE ChargeAndAssign(p)
      <4>1. fees' = fees \cup {<<x, task[p].master>>}
        BY <2>4, <3>4 DEF ChargeAndAssign, FeeEntry
      <4>2. ASSUME NEW q \in Procs PROVE ~Booking(q, x)
        <5>1. SUFFICES ASSUME Booking(q, x) PROVE FALSE
          OBVIOUS
        <5>2. task[q].master \in Masters /\ master[x] = task[q].master
          BY <5>1 DEF Booking, BookingInv, FeePending, TypeInv, TaskOK, NamesMaster
        <5> QED BY <3>1, <5>2, NoMasterAssumption
      <4>3. task'[p].pc = "dropQueue"
        BY <2>4, <3>4, GotoMoves DEF ChargeAndAssign, TypeInv
      <4>4. \A q \in Procs : ~Booking(q, x)'
        BY <2>2, <4>2, <4>3 DEF Booking, FeePending, OthersStay
      <4> QED BY <3>1, <3>2, <4>1, <4>4
    <3> QED BY <1>4, <3>3, <3>4
  <2> QED BY <2>3, <2>4
<1>5. ASSUME NEW p \in Procs PROVE ~Crash(p)
  BY DEF Crash
<1> QED BY <1>1, <1>2, <1>3, <1>4, <1>5, NextMoney DEF MoneyStep

LEMMA InitLedger == Init => BookingInv /\ LedgerInv
BY NoMasterAssumption DEF Init, BookingInv, LedgerInv, Booking, FeePending, NoTask

-----------------------------------------------------------------------------

\* No pro gets a job for free, even when an accept on a standalone mongod dies between
\* its commands: all such a pro can lose is a fee for a job not got.
JobsArePaid == \A m \in Masters : balance[m] + Fee * Cardinality(JobsOf(m)) <= Funds[m]

\* A job has been paid for by the pro who holds it, on a replica set and on a standalone
\* mongod, and whatever crashes.
THEOREM NoJobForFree == Spec => []JobsArePaid
<1>1. Init => TypeInv /\ PaidInv
  BY InitType, InitPaid
<1>2. TypeInv /\ PaidInv /\ [Next]_vars => TypeInv' /\ PaidInv'
  BY NextType, NextPaid
<1>3. TypeInv /\ PaidInv => JobsArePaid
  <2> SUFFICES ASSUME TypeInv, PaidInv, NEW m \in Masters
               PROVE  balance[m] + Fee * Cardinality(JobsOf(m)) <= Funds[m]
    BY DEF JobsArePaid
  <2> DEFINE j == Cardinality(JobsOf(m))
             k == Cardinality(Paying(m))
  <2>1. balance[m] \in Nat /\ j \in Nat /\ k \in Nat /\ Funds[m] \in Nat
    BY JobsAreFinite, FS_CardinalityType, FundsAssumption DEF PaidInv, TypeInv, StoreTypeOK
  <2>2. balance[m] + Fee * (j + k) <= Funds[m]
    BY DEF PaidInv, Worth
  <2> HIDE DEF j, k
  <2>3. Fee * j <= Fee * (j + k) /\ Fee * (j + k) \in Nat /\ Fee * j \in Nat
    BY <2>1, FeeAssumption, WorthArithmetic
  <2>4. balance[m] + Fee * j <= Funds[m]
    BY <2>1, <2>2, <2>3
  <2> QED BY <2>4 DEF j
<1> QED BY <1>1, <1>2, <1>3, PTL DEF Spec

\* Once no handler is half-way, every fee taken is for a job the pro holds and every job
\* held has its fee: by the transactions, whatever crashes, and without them as long as
\* no handler dies.
THEOREM BooksBalance ==
  ASSUME Transactional \/ Crashing = {}
  PROVE  Spec => []BooksBalanceAtRest
<1>1. CASE Transactional
  <2>1. Spec => []FeeMatchesJob
    BY <1>1, FeeIffAssigned
  <2>2. FeeMatchesJob => BooksBalanceAtRest
    BY DEF BooksBalanceAtRest
  <2> QED BY <2>1, <2>2, PTL
<1>2. CASE Crashing = {}
  <2> DEFINE Inv == TypeInv /\ PaidInv /\ KeptInv /\ BookingInv /\ LedgerInv
  <2>1. Init => Inv
    BY InitType, InitPaid, InitLedger
  <2>2. Inv /\ [Next]_vars => Inv'
    BY <1>2, NextType, NextPaid, NextBooking, NextLedger
  <2>3. Inv => BooksBalanceAtRest
    <3> SUFFICES ASSUME Inv, AtRest PROVE FeeMatchesJob
      BY DEF BooksBalanceAtRest
    <3>1. \A o \in Orders, p \in Procs : ~Booking(p, o)
      BY DEF AtRest, Booking, FeePending
    <3>2. Fee > 0 => \A o \in Orders, m \in Masters : <<o, m>> \in fees <=> master[o] = m
      BY <3>1 DEF LedgerInv
    <3>3. ASSUME NEW m \in Masters PROVE balance[m] + Fee * Cardinality(JobsOf(m)) = Funds[m]
      <4>1. Paying(m) = {}
        BY DEF AtRest, Paying, Busy, PayPending
      <4>2. Cardinality(Paying(m)) = 0 /\ Cardinality(JobsOf(m)) \in Nat
        BY <4>1, FS_EmptySet, JobsAreFinite
      <4> QED BY <4>2 DEF KeptInv, Worth
    <3> QED BY <3>2, <3>3 DEF FeeMatchesJob
  <2> HIDE DEF Inv
  <2> QED BY <2>1, <2>2, <2>3, PTL DEF Spec
<1> QED BY <1>1, <1>2

-----------------------------------------------------------------------------
(* The lock, as long as no handler dies holding it. *)

InsideLabels == {"check", "dropStale", "outstanding", "pop", "reserve", "giveUp",
                 "offer", "push", "arm", "undoRead", "undo", "unlock"}
Inside(p, o) == task[p].order = o /\ task[p].pc \in InsideLabels

\* The post of a job that has not advanced its search yet.
FirstLabels == Starting \cup {"lock"}
First(p, o) == task[p].order = o /\ task[p].op = "post" /\ task[p].pc \in FirstLabels

\* The lock is held by a handler that will release it, and never against the post's
\* first advance.
LockInv ==
  \A o \in Orders :
    /\ lock[o] # Free => \E p \in Procs : lock[o] = p /\ Inside(p, o)
    /\ \A p, q \in Procs : ~(First(p, o) /\ Inside(q, o))

\* What most steps do to the lock: nothing.
LockKept(p) ==
  /\ OthersStay(p)
  /\ UNCHANGED lock
  /\ task[p].pc \in InsideLabels => task'[p].pc \in InsideLabels /\ task'[p].order = task[p].order
  /\ task'[p].pc \in InsideLabels => task[p].pc \in InsideLabels /\ task'[p].order = task[p].order
  /\ task'[p].op = "post" /\ task'[p].pc \in FirstLabels =>
       /\ task[p].op = "post" /\ task[p].pc \in FirstLabels
       /\ task'[p].order = task[p].order

LEMMA LockFrame ==
  ASSUME LockInv, NEW p \in Procs, LockKept(p)
  PROVE  LockInv'
<1>1. \A q \in Procs, o \in Orders : (Inside(q, o)' <=> Inside(q, o)) /\ (First(q, o)' => First(q, o))
  BY DEF LockKept, OthersStay, Inside, First
<1> QED BY <1>1 DEF LockInv, LockKept

LEMMA StepLock ==
  ASSUME TypeInv, PlaceInv, TokenInv, LockInv, NEW p \in Procs, Step(p)
  PROVE  LockInv'
<1> USE DEF TypeInv
<1>1. CASE InsertOrder(p) \/ CheckSearching(p) \/ DropStaleQueue(p) \/ CheckOutstanding(p) \/ GiveUp(p)
           \/ SetOffer(p) \/ PushOffer(p) \/ ArmTimeout(p) \/ Debit(p) \/ Assign(p) \/ MarkOffer(p)
           \/ RecordFee(p) \/ OpenChat(p) \/ DropQueue(p) \/ Penalise(p) \/ CreditCompletion(p)
           \/ UndoOffer(p)
  <2>1. LockKept(p)
    BY SMTT(20), <1>1, GotoMoves DEF InsertOrder, CheckSearching, DropStaleQueue, CheckOutstanding, GiveUp,
       SetOffer, PushOffer, ArmTimeout, Debit, Assign, MarkOffer, RecordFee, OpenChat, DropQueue,
       Penalise, CreditCompletion, UndoOffer, ClearOffer, LockKept, InsideLabels, FirstLabels, Starting
  <2> QED BY <2>1, LockFrame
<1>2. CASE RefuseAccept(p) \/ Recredit(p) \/ CloseChat(p) \/ ReopenChat(p) \/ RecordAnswer(p)
           \/ ChargeAndAssign(p) \/ AbortDrop(p) \/ CancelWrite(p)
  <2>1. LockKept(p)
    BY <1>2, GotoMoves, ReturnMoves
       DEF RefuseAccept, Recredit, CloseChat, ReopenChat, RecordAnswer, ChargeAndAssign, LoseRace,
           AbortDrop, CancelWrite, LockKept, InsideLabels, FirstLabels, Starting
  <2> QED BY <2>1, LockFrame
<1>3. CASE BuildCandidates(p) \/ EnqueueCandidates(p) \/ PopCandidate(p) \/ ReserveMaster(p) \/ AbortRead(p)
  <2>1. LockKept(p)
    BY <1>3, GotoMoves, ReturnMoves, BuildMoves, EnqueueMoves, PopMoves, ReserveMoves, AbortMoves
       DEF LockKept, InsideLabels, FirstLabels, Starting
  <2> QED BY <2>1, LockFrame
<1>4. CASE ReadForUndo(p) \/ ReadForClear(p)
  <2>1. LockKept(p)
    BY <1>4, ReadMoves DEF ReadForUndo, ReadForClear, LockKept, InsideLabels, FirstLabels, Starting
  <2> QED BY <2>1, LockFrame
<1>5. CASE ClearAnswered(p)
  <2>1. task[p].pc = "clear" /\ UNCHANGED lock
    BY <1>5 DEF ClearAnswered, ClearOffer
  <2>2. task[p].op # "post"
    BY <2>1 DEF PlaceInv, PlaceOK, Clearing
  <2>3. LockKept(p)
    BY <1>5, <2>1, <2>2, GotoMoves, ReturnMoves
       DEF ClearAnswered, LockKept, InsideLabels, FirstLabels, Starting
  <2> QED BY <2>3, LockFrame
<1>6. CASE AcquireLock(p)
  <2>1. CASE Return(p) /\ UNCHANGED lock
    <3>1. LockKept(p)
      BY <1>6, <2>1, ReturnMoves, AcquireMoves DEF LockKept, InsideLabels, FirstLabels, Starting
    <3> QED BY <3>1, LockFrame
  <2>2. CASE /\ OthersStay(p)
             /\ task'[p].pc = "check" /\ task'[p].op = task[p].op
             /\ task'[p].order = task[p].order /\ task'[p].found = <<>>
             /\ lock[task[p].order] = Free /\ lock' = [lock EXCEPT ![task[p].order] = p]
    <3>1. task[p].pc = "lock"
      BY <1>6, AcquireMoves
    <3>2. PICK x \in Orders : x = task[p].order
      BY <3>1 DEF TaskOK
    <3>3. lock'[x] = p /\ \A o \in Orders \ {x} : lock'[o] = lock[o]
      BY <2>2, <3>2 DEF StoreTypeOK
    <3>4. Inside(p, x)' /\ \A o \in Orders : ~First(p, o)' /\ (Inside(p, o)' => o = x)
      BY <2>2, <3>1, <3>2 DEF Inside, First, InsideLabels, FirstLabels, Starting
    <3>5. \A q \in Procs \ {p}, o \in Orders : (Inside(q, o)' <=> Inside(q, o)) /\ (First(q, o)' <=> First(q, o))
      BY <2>2 DEF Inside, First, OthersStay
    <3>6. ~\E o \in Orders : Inside(p, o)
      BY <3>1 DEF Inside, InsideLabels
    <3>7. ASSUME NEW q \in Procs, First(q, x), q # p PROVE FALSE
      <4>1. Carries(q, x)
        BY <3>7 DEF First, FirstLabels, Carries, Advancing
      <4>2. task[p].op \in {"post", "pass", "expire"}
        BY <3>1 DEF PlaceInv, PlaceOK, Advancing
      <4>3. Carries(p, x)
        BY <3>1, <3>2, <4>2 DEF Carries, Advancing
      <4> QED BY <3>7, <4>1, <4>3 DEF TokenInv
    <3>8. \A o \in Orders : lock'[o] # Free => \E q \in Procs : lock'[o] = q /\ Inside(q, o)'
      BY <3>3, <3>4, <3>5, <3>6 DEF LockInv
    <3>9. ASSUME NEW o \in Orders, NEW q \in Procs, NEW r \in Procs, First(q, o)', Inside(r, o)'
          PROVE  FALSE
      BY <3>4, <3>5, <3>7, <3>9 DEF LockInv
    <3> QED BY <3>8, <3>9 DEF LockInv
  <2> QED BY <1>6, <2>1, <2>2, AcquireMoves
<1>7. CASE ReleaseLock(p)
  <2>1. OthersStay(p) /\ task'[p].pc = "idle"
    BY <1>7, ReturnMoves DEF ReleaseLock
  <2>2. PICK x \in Orders : x = task[p].order
    BY <1>7 DEF ReleaseLock, TaskOK
  <2>3. /\ \A o \in Orders \ {x} : lock'[o] = lock[o]
        /\ lock'[x] = Free \/ (lock'[x] = lock[x] /\ lock[x] # p)
    <3>1. lock' = IF lock[x] = p THEN [lock EXCEPT ![x] = Free] ELSE lock
      BY <1>7, <2>2 DEF ReleaseLock
    <3>2. lock \in [Orders -> Procs \cup {Free, Orphan}]
      BY DEF StoreTypeOK
    <3>3. CASE lock[x] = p
      <4>1. lock' = [lock EXCEPT ![x] = Free]
        BY <3>1, <3>3
      <4> QED BY <3>2, <4>1
    <3>4. CASE lock[x] # p
      BY <3>1, <3>4
    <3> QED BY <3>3, <3>4
  <2>4. \A q \in Procs \ {p}, o \in Orders : (Inside(q, o)' <=> Inside(q, o)) /\ (First(q, o)' <=> First(q, o))
    BY <2>1 DEF Inside, First, OthersStay
  <2>5. \A o \in Orders : ~Inside(p, o)' /\ ~First(p, o)' /\ (Inside(p, o) => o = x)
    BY <2>1, <2>2 DEF Inside, First, InsideLabels, FirstLabels, Starting
  <2> QED BY <2>3, <2>4, <2>5 DEF LockInv
<1> QED BY <1>1, <1>2, <1>3, <1>4, <1>5, <1>6, <1>7 DEF Step

\* A new post finds nobody inside: its job has been nobody's business so far.
LEMMA RequestLock ==
  ASSUME TypeInv, StageInv, LockInv, NEW p \in Procs, Request(p)
  PROVE  LockInv'
<1> USE DEF TypeInv
<1>1. ASSUME NEW o \in Orders, NEW m \in Masters, PassOffer(p, o, m) PROVE LockInv'
  <2>1. LockKept(p)
    BY <1>1, BeginMoves DEF PassOffer, LockKept, InsideLabels, FirstLabels, Starting
  <2> QED BY <2>1, LockFrame
<1>2. ASSUME NEW o \in Orders, NEW m \in Masters, AcceptOffer(p, o, m) PROVE LockInv'
  <2>1. Begin(p, "accept", "charge", o, m) \/ Begin(p, "accept", "debit", o, m)
    BY <1>2 DEF AcceptOffer
  <2>2. LockKept(p)
    BY <1>2, <2>1, BeginMoves DEF AcceptOffer, LockKept, InsideLabels, FirstLabels, Starting
  <2> QED BY <2>2, LockFrame
<1>3. ASSUME NEW o \in Orders, CompleteOrder(p, o) PROVE LockInv'
  <2>1. LockKept(p)
    BY <1>3, BeginMoves DEF CompleteOrder, LockKept, InsideLabels, FirstLabels, Starting
  <2> QED BY <2>1, LockFrame
<1>4. ASSUME NEW o \in Orders, NEW op \in {"cancel", "penalty"}, CancelOrder(p, o, op) PROVE LockInv'
  <2>1. LockKept(p)
    BY <1>4, CancelMoves DEF CancelOrder, LockKept, InsideLabels, FirstLabels, Starting
  <2> QED BY <2>1, LockFrame
<1>5. ASSUME NEW o \in Orders, CreateOrder(p, o) PROVE LockInv'
  <2>1. /\ OthersStay(p) /\ task[p].pc = "idle" /\ UNCHANGED lock /\ status[o] = "absent"
        /\ task'[p].pc \in Starting /\ task'[p].order = o
    BY <1>5, BeginMoves DEF CreateOrder, Starting
  <2>2. \A q \in Procs : ~Inside(q, o)
    BY <2>1 DEF Inside, InsideLabels, StageInv, HandlerStage
  <2>3. \A q \in Procs, x \in Orders : Inside(q, x)' <=> Inside(q, x)
    BY <2>1 DEF Inside, InsideLabels, Starting, OthersStay
  <2>4. \A q \in Procs, x \in Orders : First(q, x)' => First(q, x) \/ x = o
    BY <2>1 DEF First, OthersStay
  <2> QED BY <2>1, <2>2, <2>3, <2>4 DEF LockInv
<1> QED BY <1>1, <1>2, <1>3, <1>4, <1>5 DEF Request

LEMMA EnvironmentLock ==
  ASSUME TypeInv, LockInv,
         \/ Clock
         \/ \E o \in Orders, m \in Masters : Timeout(o, m)
         \/ UNCHANGED vars
  PROVE  LockInv'
<1> USE DEF TypeInv
<1>1. CASE UNCHANGED <<lock, task>>
  BY <1>1 DEF LockInv, Inside, First
<1>2. ASSUME NEW o \in Orders, LockExpires(o) PROVE LockInv'
  <2>1. UNCHANGED task /\ \A x \in Orders : lock'[x] # Free => lock'[x] = lock[x]
    BY <1>2 DEF LockExpires, StoreTypeOK
  <2> QED BY <2>1 DEF LockInv, Inside, First
<1>3. CASE Clock
  <2>1. UNCHANGED <<lock, task>> \/ \E o \in Orders : LockExpires(o)
    BY <1>3 DEF Clock, OfferWindowCloses, OfferKeyExpires, QueueKeyExpires, ReservationExpires
  <2> QED BY <1>1, <1>2, <2>1
<1>4. ASSUME NEW o \in Orders, NEW m \in Masters, Timeout(o, m) PROVE LockInv'
  <2>1. PICK p \in Workers : ExpireOffer(p, o, m)
    BY <1>4 DEF Timeout
  <2>2. CASE Begin(p, "expire", "answer", o, m)
    <3>1. p \in Procs /\ LockKept(p)
      BY <2>1, <2>2, BeginMoves DEF Procs, ExpireOffer, LockKept, InsideLabels, FirstLabels, Starting
    <3> QED BY <3>1, LockFrame
  <2> QED BY <1>1, <2>1, <2>2 DEF ExpireOffer
<1> QED BY <1>1, <1>3, <1>4 DEF vars

LEMMA NextLock ==
  ASSUME TypeInv, PlaceInv, TokenInv, StageInv, LockInv, Crashing = {}, [Next]_vars
  PROVE  LockInv'
<1>1. ASSUME NEW p \in Procs PROVE ~Crash(p)
  BY DEF Crash
<1> QED BY <1>1, StepLock, RequestLock, EnvironmentLock DEF Next

LEMMA InitLock == Init => LockInv
BY DEF Init, LockInv, First, FirstLabels, Starting, NoTask

-----------------------------------------------------------------------------
(* The queue of a job that is no longer searched for. *)

\* A handler that will empty the queue before it is done.
Draining(p, o) ==
  /\ task[p].order = o
  /\ \/ task[p].pc \in Settled
     \/ task[p].op = "post" /\ task[p].pc \in {"lock", "check", "dropStale"}

DrainInv ==
  \A o \in Orders :
    matchQueue[o] # <<>> /\ ~Searching(o) => \E p \in Procs : Draining(p, o)

\* What most steps do: leave the queue as it is, or shorten it, and the job as it is.
DrainKept(p) ==
  /\ OthersStay(p)
  /\ \A o \in Orders :
       matchQueue'[o] # <<>> /\ ~Searching(o)' =>
         \/ Draining(p, o)'
         \/ matchQueue[o] # <<>> /\ ~Searching(o) /\ ~Draining(p, o)

LEMMA DrainFrame ==
  ASSUME DrainInv, NEW p \in Procs, DrainKept(p)
  PROVE  DrainInv'
<1>1. \A q \in Procs \ {p}, o \in Orders : Draining(q, o)' <=> Draining(q, o)
  BY DEF DrainKept, OthersStay, Draining
<1> QED BY <1>1 DEF DrainInv, DrainKept

LEMMA StepDrain ==
  ASSUME TypeInv, PlaceInv, StageInv, LockInv, DrainInv, NEW p \in Procs, Step(p)
  PROVE  DrainInv'
<1> USE DEF TypeInv
<1>0. ASSUME OthersStay(p), UNCHANGED <<status, matchQueue>>,
             \A o \in Orders : Draining(p, o) => Draining(p, o)' \/ Searching(o)
      PROVE  DrainInv'
  BY <1>0, DrainFrame DEF DrainKept, Searching
<1>1. CASE CheckOutstanding(p) \/ SetOffer(p) \/ ArmTimeout(p) \/ Debit(p) \/ MarkOffer(p)
           \/ RecordFee(p) \/ OpenChat(p) \/ Penalise(p) \/ CreditCompletion(p) \/ UndoOffer(p)
  BY <1>0, <1>1, GotoMoves DEF CheckOutstanding, SetOffer, ArmTimeout, Debit, MarkOffer, RecordFee,
     OpenChat, Penalise, CreditCompletion, UndoOffer, ClearOffer, Draining, Settled
<1>2. CASE RefuseAccept(p) \/ Recredit(p) \/ CloseChat(p) \/ ReopenChat(p) \/ RecordAnswer(p)
           \/ ReleaseLock(p) \/ ClearAnswered(p)
  BY <1>0, <1>2, GotoMoves, ReturnMoves
     DEF RefuseAccept, Recredit, CloseChat, ReopenChat, RecordAnswer, ReleaseLock,
         ClearAnswered, ClearOffer, Draining, Settled
<1>3. CASE BuildCandidates(p) \/ ReserveMaster(p) \/ AbortRead(p)
  BY <1>0, <1>3, GotoMoves, BuildMoves, ReserveMoves, AbortMoves DEF Draining, Settled
<1>4. CASE ReadForUndo(p) \/ ReadForClear(p)
  BY <1>0, <1>4, ReadMoves DEF ReadForUndo, ReadForClear, Draining, Settled
<1>5. CASE CheckSearching(p)
  <2>1. PICK x \in Orders : x = task[p].order
    BY <1>5 DEF CheckSearching, TaskOK
  <2>2. /\ OthersStay(p) /\ UNCHANGED <<status, matchQueue>> /\ task[p].pc = "check"
        /\ task'[p].op = task[p].op /\ task'[p].order = task[p].order
        /\ ~Searching(x) => task'[p].pc = "dropStale"
    BY <1>5, <2>1, GotoMoves DEF CheckSearching
  <2>3. \A o \in Orders : Draining(p, o) => Draining(p, o)' \/ Searching(o)
    BY <2>1, <2>2 DEF Draining, Settled
  <2> QED BY <1>0, <2>2, <2>3
<1>6. CASE DropStaleQueue(p) \/ DropQueue(p) \/ AbortDrop(p)
  <2>1. PICK x \in Orders : x = task[p].order
    BY <1>6 DEF DropStaleQueue, DropQueue, AbortDrop, TaskOK
  <2>2. OthersStay(p) /\ UNCHANGED status /\ matchQueue' = [matchQueue EXCEPT ![x] = <<>>]
    BY <1>6, <2>1, GotoMoves, ReturnMoves DEF DropStaleQueue, DropQueue, AbortDrop
  <2>3. \A o \in Orders : o # x => ~Draining(p, o)
    BY <2>1 DEF Draining
  <2>4. DrainKept(p)
    BY <2>2, <2>3 DEF DrainKept, Searching, StoreTypeOK
  <2> QED BY <2>4, DrainFrame
<1>7. CASE PopCandidate(p)
  <2>1. PICK x \in Orders : x = task[p].order
    BY <1>7, PopMoves DEF TaskOK
  <2>2. /\ OthersStay(p) /\ UNCHANGED status /\ task[p].pc = "pop"
        /\ \/ UNCHANGED matchQueue
           \/ matchQueue[x] # <<>> /\ matchQueue' = [matchQueue EXCEPT ![x] = Tail(matchQueue[x])]
    BY <1>7, <2>1, GotoMoves, PopMoves
  <2>3. \A o \in Orders : matchQueue'[o] # <<>> => matchQueue[o] # <<>>
    BY <2>2 DEF StoreTypeOK
  <2>4. DrainKept(p)
    BY <2>2, <2>3 DEF DrainKept, Searching, Draining, Settled
  <2> QED BY <2>4, DrainFrame
<1>8. CASE EnqueueCandidates(p)
  <2>1. PICK x \in Orders : x = task[p].order
    BY <1>8, EnqueueMoves DEF TaskOK
  <2>2. /\ task[p].pc = "enqueue" /\ UNCHANGED status
        /\ matchQueue' = [matchQueue EXCEPT ![x] = task[p].found]
    BY <1>8, <2>1, EnqueueMoves
  <2>3. task[p].op = "post"
    BY <2>2 DEF PlaceInv, PlaceOK, Starting
  <2>4. \A o \in Orders : ~Draining(p, o)
    BY <2>2 DEF Draining, Settled
  <2>5. CASE task[p].found = <<>>
    <3>1. OthersStay(p)
      BY <1>8, EnqueueMoves, ReturnMoves
    <3> QED BY <2>2, <2>4, <2>5, <3>1, DrainFrame DEF DrainKept, Searching, StoreTypeOK
  <2>6. CASE task[p].found # <<>>
    <3>1. Become(p, [task[p] EXCEPT !.pc = "lock", !.found = <<>>])
      BY <1>8, <2>6 DEF EnqueueCandidates
    <3>2. OthersStay(p) /\ task'[p].pc = "lock" /\ task'[p].op = "post" /\ task'[p].order = x
      BY <2>1, <2>3, <3>1, GotoWithFoundMoves
    <3>3. Draining(p, x)'
      BY <3>2 DEF Draining
    <3>4. \A o \in Orders \ {x} : matchQueue'[o] = matchQueue[o]
      BY <2>2 DEF StoreTypeOK
    <3> QED BY <2>2, <2>4, <3>2, <3>3, <3>4, DrainFrame DEF DrainKept, Searching
  <2> QED BY <2>5, <2>6
<1>9. CASE AcquireLock(p)
  <2>1. task[p].pc = "lock" /\ UNCHANGED <<status, matchQueue>>
    BY <1>9, AcquireMoves
  <2>2. PICK x \in Orders : x = task[p].order
    BY <2>1 DEF TaskOK
  <2>3. CASE task[p].op = "post"
    <3>1. First(p, x)
      BY <2>1, <2>2, <2>3 DEF First, FirstLabels
    <3>2. lock[x] = Free
      BY <3>1 DEF LockInv
    <3>3. Become(p, [NoTask EXCEPT !.pc = "check", !.op = task[p].op, !.order = task[p].order])
      BY <1>9, <2>2, <3>2 DEF AcquireLock
    <3>4. OthersStay(p) /\ task'[p].pc = "check" /\ task'[p].op = "post" /\ task'[p].order = x
      BY <2>2, <2>3, <3>3, LockMoves
    <3>5. \A o \in Orders : Draining(p, o) => Draining(p, o)'
      BY <2>2, <3>4 DEF Draining
    <3> QED BY <1>0, <2>1, <3>4, <3>5
  <2>4. CASE task[p].op # "post"
    <3>1. OthersStay(p) /\ \A o \in Orders : ~Draining(p, o)
      BY <1>9, <2>1, <2>4, AcquireMoves, ReturnMoves DEF Draining, Settled
    <3> QED BY <1>0, <2>1, <3>1
  <2> QED BY <2>3, <2>4
<1>10. CASE InsertOrder(p) \/ GiveUp(p) \/ PushOffer(p)
  <2>1. /\ OthersStay(p) /\ UNCHANGED matchQueue
        /\ task[p].pc \in {"create", "giveUp", "push"}
    BY <1>10, GotoMoves DEF InsertOrder, GiveUp, PushOffer
  <2>2. \A o \in Orders : ~Searching(o)' => ~Searching(o)
    BY <1>10 DEF InsertOrder, GiveUp, PushOffer, StillOpen, Searching, StoreTypeOK
  <2>3. \A o \in Orders : ~Draining(p, o)
    BY <2>1 DEF Draining, Settled
  <2>4. DrainKept(p)
    BY <2>1, <2>2, <2>3 DEF DrainKept
  <2> QED BY <2>4, DrainFrame
<1>11. CASE Assign(p) \/ ChargeAndAssign(p) \/ CancelWrite(p)
  <2>1. PICK x \in Orders : x = task[p].order
    BY <1>11 DEF Assign, ChargeAndAssign, CancelWrite, TaskOK
  <2>2. /\ OthersStay(p) /\ UNCHANGED matchQueue
        /\ task[p].pc \in {"assign", "charge", "cancelWrite"}
        /\ \A o \in Orders \ {x} : status'[o] = status[o]
    BY <1>11, <2>1, GotoMoves, ReturnMoves
       DEF Assign, ChargeAndAssign, LoseRace, CancelWrite, StoreTypeOK
  <2>3. \A o \in Orders : ~Draining(p, o)
    BY <2>2 DEF Draining, Settled
  <2>4. CASE Searching(x) /\ ~Searching(x)'
    <3>1. Draining(p, x)' => DrainInv'
      BY <2>2, <2>3, DrainFrame DEF DrainKept, Searching
    <3>2. task'[p].pc \in Settled /\ task'[p].order = x => Draining(p, x)'
      BY DEF Draining
    <3>3. task'[p].pc \in Settled /\ task'[p].order = x
      <4>1. CASE Assign(p)
        BY <2>1, <2>4, <4>1, GotoMoves DEF Assign, Settled, Searching
      <4>2. CASE ChargeAndAssign(p)
        BY <2>1, <2>4, <4>2, GotoMoves DEF ChargeAndAssign, LoseRace, Settled, Searching
      <4>3. CASE CancelWrite(p)
        <5>1. SameAsRead(p) /\ task[p].seen # "accepted"
          BY <2>1, <2>4, <4>3 DEF CancelWrite, SameAsRead, Searching
        <5> QED BY <2>1, <4>3, <5>1, GotoMoves DEF CancelWrite, Settled
      <4> QED BY <1>11, <4>1, <4>2, <4>3
    <3> QED BY <3>1, <3>2, <3>3
  <2>5. CASE ~(Searching(x) /\ ~Searching(x)')
    <3>1. DrainKept(p)
      BY <2>2, <2>3, <2>5 DEF DrainKept, Searching
    <3> QED BY <3>1, DrainFrame
  <2> QED BY <2>4, <2>5
<1> QED BY <1>1, <1>2, <1>3, <1>4, <1>5, <1>6, <1>7, <1>8, <1>9, <1>10, <1>11 DEF Step

LEMMA RequestDrain ==
  ASSUME TypeInv, DrainInv, NEW p \in Procs, Request(p)
  PROVE  DrainInv'
<1> USE DEF TypeInv
<1>1. ASSUME OthersStay(p), task[p].pc = "idle", UNCHANGED matchQueue,
             \A o \in Orders : ~Searching(o)' => Draining(p, o)' \/ ~Searching(o) \/ matchQueue[o] = <<>>
      PROVE  DrainInv'
  <2>1. \A o \in Orders : ~Draining(p, o)
    BY <1>1 DEF Draining, Settled
  <2>2. DrainKept(p)
    BY <1>1, <2>1 DEF DrainKept
  <2> QED BY <2>2, DrainFrame
<1>2. ASSUME NEW o \in Orders, NEW m \in Masters, PassOffer(p, o, m) PROVE DrainInv'
  BY <1>1, <1>2, BeginMoves DEF PassOffer, Searching
<1>3. ASSUME NEW o \in Orders, NEW m \in Masters, AcceptOffer(p, o, m) PROVE DrainInv'
  <2>1. Begin(p, "accept", "charge", o, m) \/ Begin(p, "accept", "debit", o, m)
    BY <1>3 DEF AcceptOffer
  <2> QED BY <1>1, <1>3, <2>1, BeginMoves DEF AcceptOffer, Searching
<1>4. ASSUME NEW o \in Orders, NEW op \in {"cancel", "penalty"}, CancelOrder(p, o, op) PROVE DrainInv'
  BY <1>1, <1>4, CancelMoves DEF CancelOrder, Searching
<1>5. ASSUME NEW o \in Orders, CreateOrder(p, o) \/ CompleteOrder(p, o) PROVE DrainInv'
  <2>1. OthersStay(p) /\ task[p].pc = "idle" /\ UNCHANGED matchQueue
    BY <1>5, BeginMoves DEF CreateOrder, CompleteOrder
  <2>2. \A x \in Orders : ~Searching(x)' => ~Searching(x)
    BY <1>5 DEF CreateOrder, CompleteOrder, Searching, StoreTypeOK
  <2> QED BY <1>1, <2>1, <2>2
<1> QED BY <1>2, <1>3, <1>4, <1>5 DEF Request

LEMMA EnvironmentDrain ==
  ASSUME TypeInv, DrainInv,
         \/ Clock
         \/ \E o \in Orders, m \in Masters : Timeout(o, m)
         \/ UNCHANGED vars
  PROVE  DrainInv'
<1> USE DEF TypeInv
<1>1. CASE UNCHANGED <<status, matchQueue, task>>
  BY <1>1 DEF DrainInv, Draining, Searching
<1>2. ASSUME NEW o \in Orders, QueueKeyExpires(o) PROVE DrainInv'
  <2>1. UNCHANGED <<status, task>> /\ \A x \in Orders : matchQueue'[x] # <<>> => matchQueue[x] # <<>>
    BY <1>2 DEF QueueKeyExpires, StoreTypeOK
  <2> QED BY <2>1 DEF DrainInv, Draining, Searching
<1>3. CASE Clock
  <2>1. UNCHANGED <<status, matchQueue, task>> \/ \E o \in Orders : QueueKeyExpires(o)
    BY <1>3 DEF Clock, OfferWindowCloses, OfferKeyExpires, LockExpires, ReservationExpires
  <2> QED BY <1>1, <1>2, <2>1
<1>4. ASSUME NEW o \in Orders, NEW m \in Masters, Timeout(o, m) PROVE DrainInv'
  <2>1. PICK p \in Workers : ExpireOffer(p, o, m)
    BY <1>4 DEF Timeout
  <2>2. CASE Begin(p, "expire", "answer", o, m)
    <3>1. /\ p \in Procs /\ OthersStay(p) /\ UNCHANGED <<status, matchQueue>>
          /\ \A x \in Orders : ~Draining(p, x)
      BY <2>1, <2>2, BeginMoves DEF Procs, ExpireOffer, Draining, Settled
    <3> QED BY <3>1, DrainFrame DEF DrainKept, Searching
  <2> QED BY <1>1, <2>1, <2>2 DEF ExpireOffer
<1> QED BY <1>1, <1>3, <1>4 DEF vars

LEMMA NextDrain ==
  ASSUME TypeInv, PlaceInv, StageInv, LockInv, DrainInv, Crashing = {}, [Next]_vars
  PROVE  DrainInv'
<1>1. ASSUME NEW p \in Procs PROVE ~Crash(p)
  BY DEF Crash
<1> QED BY <1>1, StepDrain, RequestDrain, EnvironmentDrain DEF Next

LEMMA InitDrain == Init => DrainInv
BY DEF Init, DrainInv

-----------------------------------------------------------------------------
(* The chat and the counters of a job that has ended, on a replica set. *)

Closing == {"penalise", "closeChat"}
Finishing == {"credit", "reopenChat"}

\* What a handler that ends a job knows about it.
EndingTask(p) ==
  /\ task[p].pc = "cancelWrite" =>
       /\ task[p].seen = "accepted" =>
            task[p].master \in Masters /\ master[task[p].order] = task[p].master
       /\ task[p].op = "penalty" => task[p].seen = "accepted"
  /\ task[p].pc \in Closing => status[task[p].order] = "cancelled"
  /\ task[p].pc \in Finishing => status[task[p].order] = "done"
  /\ task[p].pc \in {"penalise", "credit"} =>
       task[p].master \in Masters /\ master[task[p].order] = task[p].master

ChatOf(o) ==
  /\ chat[o] = "none" <=> master[o] = NoMaster
  /\ status[o] \in {"accepted", "done"} => chat[o] = "open"
  /\ status[o] = "cancelled" /\ chat[o] = "open" =>
       \E p \in Procs : task[p].order = o /\ task[p].pc \in Closing

\* A chat is there once a pro is; it is open while the job is on or done, and when the
\* job is cancelled a handler is on its way to close it.
EndInv ==
  /\ \A o \in Orders : ChatOf(o)
  /\ \A p \in Procs : EndingTask(p)

\* The jobs of a pro that ended so, and the handlers that have still to count one.
Ended(m, s) == {o \in JobsOf(m) : status[o] = s}

TallyOf(m) ==
  /\ IsFiniteSet(Busy(m, {"credit"})) /\ IsFiniteSet(Busy(m, {"penalise"}))
  /\ completedJobs[m] + Cardinality(Busy(m, {"credit"})) = Cardinality(Ended(m, "done"))
  /\ cancelledJobs[m] + Cardinality(Busy(m, {"penalise"})) <= Cardinality(Ended(m, "cancelled"))

TallyInv == \A m \in Masters : TallyOf(m)

\* A step that ends no job and follows up on none.
EndLabels == {"cancelWrite", "penalise", "closeChat", "credit", "reopenChat"}
EndAlone(p) ==
  /\ OthersStay(p)
  /\ UNCHANGED <<master, chat, completedJobs, cancelledJobs>>
  /\ \A o \in Orders : \/ status'[o] = status[o]
                       \/ (~Over(o) /\ ~Over(o)')
  /\ task[p].pc \notin EndLabels /\ task'[p].pc \notin EndLabels

EndStep(p) ==
  \/ ChargeAndAssign(p) \/ CancelWrite(p) \/ Penalise(p) \/ CloseChat(p)
  \/ CreditCompletion(p) \/ ReopenChat(p)

LEMMA StepEnds ==
  ASSUME TypeInv, StageInv, TransactionalInv, NEW p \in Procs, Step(p)
  PROVE  EndAlone(p) \/ EndStep(p)
<1> USE DEF TypeInv, EndAlone, EndStep, EndLabels
<1>1. CASE CheckSearching(p) \/ DropStaleQueue(p) \/ CheckOutstanding(p)
           \/ SetOffer(p) \/ ArmTimeout(p) \/ DropQueue(p) \/ UndoOffer(p)
  BY <1>1, GotoMoves DEF CheckSearching, DropStaleQueue, CheckOutstanding,
     SetOffer, ArmTimeout, DropQueue, UndoOffer, ClearOffer
<1>2. CASE GiveUp(p) \/ PushOffer(p)
  <2>1. \A o \in Orders : status'[o] = status[o] \/ (~Over(o) /\ ~Over(o)')
    BY <1>2 DEF GiveUp, PushOffer, StillOpen, Searching, Over, StoreTypeOK
  <2> QED BY <1>2, <2>1, GotoMoves DEF GiveUp, PushOffer
<1>3. CASE ReleaseLock(p) \/ RefuseAccept(p)
  BY <1>3, ReturnMoves DEF ReleaseLock, RefuseAccept
<1>4. CASE RecordAnswer(p) \/ ClearAnswered(p) \/ AbortDrop(p)
  BY <1>4, GotoMoves, ReturnMoves DEF RecordAnswer, ClearAnswered, ClearOffer, AbortDrop
<1>5. CASE BuildCandidates(p) \/ EnqueueCandidates(p) \/ AcquireLock(p)
  BY <1>5, BuildMoves, EnqueueMoves, AcquireMoves, ReturnMoves
<1>6. CASE PopCandidate(p) \/ ReserveMaster(p) \/ AbortRead(p)
  BY <1>6, GotoMoves, PopMoves, ReserveMoves, AbortMoves
<1>7. CASE ReadForUndo(p) \/ ReadForClear(p)
  BY <1>7, ReadMoves DEF ReadForUndo, ReadForClear
<1>8. ~(InsertOrder(p) \/ Debit(p) \/ Assign(p) \/ Recredit(p) \/ MarkOffer(p) \/ RecordFee(p) \/ OpenChat(p))
  BY DEF TransactionalInv, StandaloneSteps, InsertOrder, Debit, Assign, Recredit, MarkOffer,
         RecordFee, OpenChat
<1> QED BY <1>1, <1>2, <1>3, <1>4, <1>5, <1>6, <1>7, <1>8 DEF Step

LEMMA RequestEnds ==
  ASSUME TypeInv, NEW p \in Procs, Request(p)
  PROVE  \/ EndAlone(p)
         \/ \E o \in Orders, op \in {"cancel", "penalty"} : CancelOrder(p, o, op)
         \/ \E o \in Orders : CompleteOrder(p, o)
<1> USE DEF TypeInv, EndAlone, EndLabels
<1>1. ASSUME NEW o \in Orders, NEW m \in Masters, PassOffer(p, o, m) PROVE EndAlone(p)
  BY <1>1, BeginMoves DEF PassOffer
<1>2. ASSUME NEW o \in Orders, NEW m \in Masters, AcceptOffer(p, o, m) PROVE EndAlone(p)
  <2>1. Begin(p, "accept", "charge", o, m) \/ Begin(p, "accept", "debit", o, m)
    BY <1>2 DEF AcceptOffer
  <2> QED BY <1>2, <2>1, BeginMoves DEF AcceptOffer
<1>3. ASSUME NEW o \in Orders, CreateOrder(p, o) PROVE EndAlone(p)
  <2>1. \A x \in Orders : status'[x] = status[x] \/ (~Over(x) /\ ~Over(x)')
    BY <1>3 DEF CreateOrder, Over, StoreTypeOK
  <2> QED BY <1>3, <2>1, BeginMoves DEF CreateOrder
<1> QED BY <1>1, <1>2, <1>3 DEF Request

LEMMA EnvironmentEnds ==
  ASSUME TypeInv,
         \/ Clock
         \/ \E o \in Orders, m \in Masters : Timeout(o, m)
         \/ UNCHANGED vars
  PROVE  UNCHANGED <<status, master, chat, completedJobs, cancelledJobs, task>> \/ \E p \in Procs : EndAlone(p)
<1> USE DEF TypeInv
<1>1. CASE Clock \/ UNCHANGED vars
  BY <1>1 DEF vars, Clock, OfferWindowCloses, OfferKeyExpires, QueueKeyExpires, LockExpires,
              ReservationExpires
<1>2. ASSUME NEW o \in Orders, NEW m \in Masters, Timeout(o, m)
      PROVE  UNCHANGED <<status, master, chat, completedJobs, cancelledJobs, task>> \/ \E p \in Procs : EndAlone(p)
  <2>1. PICK p \in Workers : ExpireOffer(p, o, m)
    BY <1>2 DEF Timeout
  <2>2. p \in Procs
    BY DEF Procs
  <2>3. CASE Begin(p, "expire", "answer", o, m)
    BY <2>1, <2>2, <2>3, BeginMoves DEF ExpireOffer, EndAlone, EndLabels
  <2> QED BY <2>1, <2>2, <2>3 DEF ExpireOffer
<1> QED BY <1>1, <1>2

LEMMA NextEnds ==
  ASSUME TypeInv, StageInv, TransactionalInv, Crashing = {}, [Next]_vars
  PROVE  \/ UNCHANGED <<status, master, chat, completedJobs, cancelledJobs, task>>
         \/ \E p \in Procs : \/ EndAlone(p) \/ EndStep(p)
                             \/ \E o \in Orders, op \in {"cancel", "penalty"} : CancelOrder(p, o, op)
                             \/ \E o \in Orders : CompleteOrder(p, o)
<1>1. ASSUME NEW p \in Procs PROVE ~Crash(p)
  BY DEF Crash
<1> QED BY <1>1, StepEnds, RequestEnds, EnvironmentEnds DEF Next

\* Once a job has ended it stays so, and once it has a pro it keeps the pro.
LEMMA EndIsFinal ==
  ASSUME TypeInv, TransactionalInv, NEW p \in Procs,
         \/ EndAlone(p) \/ EndStep(p)
         \/ \E o \in Orders, op \in {"cancel", "penalty"} : CancelOrder(p, o, op)
         \/ \E o \in Orders : CompleteOrder(p, o)
  PROVE  \A o \in Orders :
           /\ status[o] \in {"done", "cancelled"} => status'[o] = status[o]
           /\ master[o] # NoMaster => master'[o] = master[o]
<1> USE DEF TypeInv
<1>1. CASE EndAlone(p)
  BY <1>1 DEF EndAlone, Over
<1>2. CASE ChargeAndAssign(p)
  BY <1>2 DEF ChargeAndAssign, LoseRace, StillOpen, Searching, StoreTypeOK, TaskOK
<1>3. CASE CancelWrite(p)
  BY <1>3 DEF CancelWrite, SameAsRead, TransactionalInv, Cancellable, StoreTypeOK, TaskOK
<1>4. CASE Penalise(p) \/ CloseChat(p) \/ CreditCompletion(p) \/ ReopenChat(p)
  BY <1>4 DEF Penalise, CloseChat, CreditCompletion, ReopenChat
<1>5. ASSUME NEW x \in Orders, NEW op, CancelOrder(p, x, op) PROVE UNCHANGED <<status, master>>
  BY <1>5 DEF CancelOrder
<1>6. ASSUME NEW x \in Orders, CompleteOrder(p, x)
      PROVE  UNCHANGED master /\ \A o \in Orders : status[o] # "accepted" => status'[o] = status[o]
  BY <1>6 DEF CompleteOrder, StoreTypeOK
<1> QED BY <1>1, <1>2, <1>3, <1>4, <1>5, <1>6 DEF EndStep

LEMMA HasPro ==
  ASSUME TypeInv, StageInv, EndInv, NEW o \in Orders, status[o] \in Cancellable
  PROVE  (status[o] = "accepted") <=> (master[o] \in Masters)
<1>1. master[o] \in Masters \cup {NoMaster}
  BY DEF TypeInv, StoreTypeOK
<1> QED BY <1>1, NoMasterAssumption DEF EndInv, ChatOf, StageInv, Over, Cancellable

LEMMA NextEndingTask ==
  ASSUME TypeInv, StageInv, TransactionalInv, EndInv, Crashing = {}, [Next]_vars
  PROVE  \A p \in Procs : EndingTask(p)'
<1> USE DEF TypeInv
<1>1. CASE UNCHANGED <<status, master, chat, completedJobs, cancelledJobs, task>>
  BY <1>1 DEF EndInv, EndingTask
<1>2. ASSUME NEW p \in Procs, OthersStay(p), EndingTask(p)',
             \A o \in Orders :
               /\ status[o] \in {"done", "cancelled"} => status'[o] = status[o]
               /\ master[o] # NoMaster => master'[o] = master[o]
      PROVE  \A q \in Procs : EndingTask(q)'
  <2> SUFFICES ASSUME NEW q \in Procs \ {p} PROVE EndingTask(q)'
    BY <1>2
  <2>1. task'[q] = task[q] /\ EndingTask(q) /\ (task[q].pc # "idle" => task[q].order \in Orders)
    BY <1>2 DEF OthersStay, EndInv, TaskOK
  <2> QED BY <1>2, <2>1, NoMasterAssumption DEF EndingTask, Closing, Finishing
<1>3. ASSUME NEW p \in Procs, EndAlone(p) PROVE OthersStay(p) /\ EndingTask(p)'
  BY <1>3 DEF EndAlone, EndLabels, EndingTask, Closing, Finishing
<1>4. ASSUME NEW p \in Procs, ChargeAndAssign(p) PROVE OthersStay(p) /\ EndingTask(p)'
  BY <1>4, GotoMoves, ReturnMoves
     DEF ChargeAndAssign, LoseRace, EndingTask, Closing, Finishing
<1>5. ASSUME NEW p \in Procs, CancelWrite(p) PROVE OthersStay(p) /\ EndingTask(p)'
  <2>1. PICK x \in Orders : x = task[p].order
    BY <1>5 DEF CancelWrite, TaskOK
  <2>2. EndingTask(p) /\ task[p].pc = "cancelWrite" /\ UNCHANGED master
    BY <1>5 DEF EndInv, CancelWrite
  <2>3. CASE SameAsRead(p)
    <3>1. status'[x] = "cancelled"
      BY <1>5, <2>1, <2>3 DEF CancelWrite, StoreTypeOK
    <3>2. /\ OthersStay(p) /\ task'[p].order = x /\ task'[p].master = task[p].master
          /\ task'[p].pc \in {"abortRead"} \cup Closing
          /\ task'[p].pc = "penalise" => task[p].seen = "accepted"
      BY <1>5, <2>1, <2>3, GotoMoves DEF CancelWrite, Closing
    <3> QED BY <2>1, <2>2, <3>1, <3>2 DEF EndingTask, Closing, Finishing
  <2>4. CASE ~SameAsRead(p)
    BY <1>5, <2>4, ReturnMoves DEF CancelWrite, EndingTask, Closing, Finishing
  <2> QED BY <2>3, <2>4
<1>6. ASSUME NEW p \in Procs, Penalise(p) \/ CreditCompletion(p)
      PROVE  OthersStay(p) /\ EndingTask(p)'
  BY <1>6, GotoMoves DEF Penalise, CreditCompletion, EndInv, EndingTask, Closing, Finishing
<1>7. ASSUME NEW p \in Procs, CloseChat(p) \/ ReopenChat(p)
      PROVE  OthersStay(p) /\ EndingTask(p)'
  BY <1>7, ReturnMoves DEF CloseChat, ReopenChat, EndingTask, Closing, Finishing
<1>8. ASSUME NEW p \in Procs, NEW o \in Orders, NEW op \in {"cancel", "penalty"}, CancelOrder(p, o, op)
      PROVE  OthersStay(p) /\ EndingTask(p)'
  <2>1. /\ OthersStay(p) /\ task'[p].pc = "cancelWrite" /\ task'[p].op = op /\ task'[p].order = o
        /\ task'[p].master = master[o] /\ task'[p].seen = status[o]
    BY <1>8, CancelMoves
  <2>2. /\ UNCHANGED master /\ status[o] \in Cancellable
        /\ op = "penalty" => master[o] # NoMaster
    BY <1>8 DEF CancelOrder, Cancellable
  <2>3. master[o] \in Masters \cup {NoMaster}
    BY DEF StoreTypeOK
  <2>4. (status[o] = "accepted") <=> (master[o] \in Masters)
    BY <2>2, HasPro
  <2> QED BY <2>1, <2>2, <2>3, <2>4 DEF EndingTask, Closing, Finishing
<1>9. ASSUME NEW p \in Procs, NEW o \in Orders, CompleteOrder(p, o)
      PROVE  OthersStay(p) /\ EndingTask(p)'
  <2>1. /\ OthersStay(p) /\ task'[p].pc = "credit" /\ task'[p].order = o /\ task'[p].master = master[o]
    BY <1>9, BeginMoves DEF CompleteOrder
  <2>2. status[o] = "accepted" /\ UNCHANGED master /\ status'[o] = "done"
    BY <1>9 DEF CompleteOrder, StoreTypeOK
  <2>3. master[o] \in Masters
    BY <2>2, HasPro DEF Cancellable
  <2> QED BY <2>1, <2>2, <2>3 DEF EndingTask, Closing, Finishing
<1>10. ASSUME NEW p \in Procs,
              \/ EndAlone(p) \/ EndStep(p)
              \/ \E o \in Orders, op \in {"cancel", "penalty"} : CancelOrder(p, o, op)
              \/ \E o \in Orders : CompleteOrder(p, o)
       PROVE  \A q \in Procs : EndingTask(q)'
  <2>1. OthersStay(p) /\ EndingTask(p)'
    BY <1>3, <1>4, <1>5, <1>6, <1>7, <1>8, <1>9, <1>10 DEF EndStep
  <2> QED BY <1>2, <1>10, <2>1, EndIsFinal
<1> QED BY <1>1, <1>10, NextEnds

LEMMA NextChat ==
  ASSUME TypeInv, StageInv, TransactionalInv, EndInv, Crashing = {}, [Next]_vars
  PROVE  \A o \in Orders : ChatOf(o)'
<1> USE DEF TypeInv
<1>1. CASE UNCHANGED <<status, master, chat, completedJobs, cancelledJobs, task>>
  BY <1>1 DEF EndInv, ChatOf
\* Where nothing is written, a handler on its way to close the chat stays on it.
<1>2. ASSUME NEW p \in Procs, OthersStay(p), NEW o \in Orders,
             chat'[o] = chat[o], master'[o] = master[o],
             \/ status'[o] = status[o]
             \/ ~Over(o)'
             \/ status[o] = "accepted" /\ status'[o] = "done",
             task[p].pc \in Closing /\ task[p].order = o =>
               task'[p].pc \in Closing /\ task'[p].order = o
      PROVE  ChatOf(o)'
  BY <1>2 DEF EndInv, ChatOf, OthersStay, Over
<1>3. ASSUME NEW p \in Procs, EndAlone(p) PROVE \A o \in Orders : ChatOf(o)'
  BY <1>2, <1>3 DEF EndAlone, EndLabels, Closing
<1>4. ASSUME NEW p \in Procs, ChargeAndAssign(p) PROVE \A o \in Orders : ChatOf(o)'
  <2>1. PICK x \in Orders : x = task[p].order
    BY <1>4 DEF ChargeAndAssign, TaskOK
  <2>2. task[p].master \in Masters /\ OthersStay(p) /\ task[p].pc \notin Closing
    BY <1>4, GotoMoves, ReturnMoves DEF ChargeAndAssign, LoseRace, TaskOK, NamesMaster, Closing
  <2>3. CASE StillOpen(x)
    <3>1. /\ status' = [status EXCEPT ![x] = "accepted"] /\ chat' = [chat EXCEPT ![x] = "open"]
          /\ master' = [master EXCEPT ![x] = task[p].master]
      BY <1>4, <2>1, <2>3 DEF ChargeAndAssign
    <3>2. status'[x] = "accepted" /\ chat'[x] = "open" /\ master'[x] = task[p].master
      BY <3>1 DEF StoreTypeOK
    <3>3. \A o \in Orders \ {x} :
            status'[o] = status[o] /\ chat'[o] = chat[o] /\ master'[o] = master[o]
      BY <3>1 DEF StoreTypeOK
    <3>4. ChatOf(x)'
      BY <2>2, <3>2, NoMasterAssumption DEF ChatOf
    <3> QED BY <1>2, <2>2, <3>3, <3>4
  <2>4. CASE ~StillOpen(x)
    <3>1. UNCHANGED <<status, chat, master>>
      BY <1>4, <2>1, <2>4 DEF ChargeAndAssign, LoseRace
    <3> QED BY <1>2, <2>2, <3>1
  <2> QED BY <2>3, <2>4
<1>5. ASSUME NEW p \in Procs, CancelWrite(p) PROVE \A o \in Orders : ChatOf(o)'
  <2>1. PICK x \in Orders : x = task[p].order
    BY <1>5 DEF CancelWrite, TaskOK
  <2>2. task[p].pc = "cancelWrite" /\ OthersStay(p) /\ UNCHANGED <<master, chat>>
    BY <1>5, GotoMoves, ReturnMoves DEF CancelWrite
  <2>3. CASE SameAsRead(p)
    <3>1. status' = [status EXCEPT ![x] = "cancelled"] /\ status[x] = task[p].seen
      BY <1>5, <2>1, <2>3 DEF CancelWrite, SameAsRead
    <3>2. status'[x] = "cancelled" /\ \A o \in Orders \ {x} : status'[o] = status[o]
      BY <3>1 DEF StoreTypeOK
    <3>3. /\ task'[p].order = x
          /\ task[p].seen = "accepted" => task'[p].pc \in Closing
      BY <1>5, <2>1, <2>3, GotoMoves DEF CancelWrite, Closing
    <3>4. status[x] \in Cancellable
      BY <2>2, <3>1 DEF TransactionalInv
    <3>5. chat[x] = "open" => status[x] = "accepted"
      BY <3>4, HasPro DEF EndInv, ChatOf, StageInv, Over, Cancellable
    <3>6. ChatOf(x)
      BY DEF EndInv
    <3>7. ChatOf(x)'
      BY <2>2, <3>1, <3>2, <3>3, <3>5, <3>6 DEF ChatOf
    <3> QED BY <1>2, <2>2, <3>2, <3>7 DEF Closing
  <2>4. CASE ~SameAsRead(p)
    <3>1. UNCHANGED status
      BY <1>5, <2>4 DEF CancelWrite
    <3> QED BY <1>2, <2>2, <3>1 DEF Closing
  <2> QED BY <2>3, <2>4
<1>6. ASSUME NEW p \in Procs, Penalise(p) \/ CreditCompletion(p) PROVE \A o \in Orders : ChatOf(o)'
  <2>1. /\ OthersStay(p) /\ UNCHANGED <<status, master, chat>>
        /\ task[p].pc \in Closing => task'[p].pc \in Closing
        /\ task'[p].order = task[p].order
    BY <1>6, GotoMoves DEF Penalise, CreditCompletion, Closing
  <2> QED BY <1>2, <2>1
<1>7. ASSUME NEW p \in Procs, CloseChat(p) \/ ReopenChat(p) PROVE \A o \in Orders : ChatOf(o)'
  <2>1. PICK x \in Orders : x = task[p].order
    BY <1>7 DEF CloseChat, ReopenChat, TaskOK
  <2>2. OthersStay(p) /\ UNCHANGED <<status, master>>
    BY <1>7, ReturnMoves DEF CloseChat, ReopenChat
  <2>3. \A o \in Orders \ {x} : chat'[o] = chat[o]
    BY <1>7, <2>1 DEF CloseChat, ReopenChat, StoreTypeOK
  <2>4. ChatOf(x) /\ EndingTask(p)
    BY DEF EndInv
  <2>5. CASE CloseChat(p)
    <3>1. status[x] = "cancelled"
      BY <2>1, <2>4, <2>5 DEF CloseChat, EndingTask, Closing
    <3>2. chat'[x] = IF chat[x] = "none" THEN "none" ELSE "closed"
      BY <2>1, <2>5 DEF CloseChat, StoreTypeOK
    <3>3. ChatOf(x)'
      BY <2>2, <2>4, <3>1, <3>2 DEF ChatOf
    <3> QED BY <1>2, <2>1, <2>2, <2>3, <3>3
  <2>6. CASE ReopenChat(p)
    <3>1. status[x] = "done" /\ task[p].pc = "reopenChat"
      BY <2>1, <2>4, <2>6 DEF ReopenChat, EndingTask, Finishing
    <3>2. chat[x] = "open"
      BY <2>4, <3>1 DEF ChatOf
    <3>3. chat'[x] = chat[x]
      BY <2>1, <2>6, <3>2 DEF ReopenChat, StoreTypeOK
    <3> QED BY <1>2, <2>2, <2>3, <3>1, <3>3 DEF Closing
  <2> QED BY <1>7, <2>5, <2>6
<1>8. ASSUME NEW p \in Procs, NEW x \in Orders, NEW op \in {"cancel", "penalty"}, CancelOrder(p, x, op)
      PROVE  \A o \in Orders : ChatOf(o)'
  <2>1. OthersStay(p) /\ UNCHANGED <<status, master, chat>> /\ task[p].pc = "idle"
    BY <1>8, CancelMoves DEF CancelOrder
  <2> QED BY <1>2, <2>1 DEF Closing
<1>9. ASSUME NEW p \in Procs, NEW x \in Orders, CompleteOrder(p, x) PROVE \A o \in Orders : ChatOf(o)'
  <2>1. OthersStay(p) /\ UNCHANGED <<master, chat>> /\ task[p].pc = "idle"
    BY <1>9, BeginMoves DEF CompleteOrder
  <2>2. status[x] = "accepted" /\ status'[x] = "done" /\ \A o \in Orders \ {x} : status'[o] = status[o]
    BY <1>9 DEF CompleteOrder, StoreTypeOK
  <2> QED BY <1>2, <2>1, <2>2 DEF Closing
<1> QED BY <1>1, <1>3, <1>4, <1>5, <1>6, <1>7, <1>8, <1>9, NextEnds DEF EndStep

LEMMA EndedAreFinite ==
  ASSUME NEW m, NEW s
  PROVE  IsFiniteSet(Ended(m, s)) /\ Cardinality(Ended(m, s)) \in Nat
<1>1. Ended(m, s) \subseteq JobsOf(m)
  BY DEF Ended
<1> QED BY <1>1, JobsAreFinite, FS_Subset, FS_CardinalityType

\* A job ends, for the pro who has it, and no other.
LEMMA OneMoreEnded ==
  ASSUME TypeInv, NEW x \in Orders, NEW s, status[x] # s, UNCHANGED master,
         status' = [status EXCEPT ![x] = s], NEW m
  PROVE  Cardinality(Ended(m, s))' =
           IF m = master[x] THEN Cardinality(Ended(m, s)) + 1 ELSE Cardinality(Ended(m, s))
<1>0. status \in [Orders -> Statuses]
  BY DEF TypeInv, StoreTypeOK
<1>1. CASE m = master[x]
  <2>1. Ended(m, s)' = Ended(m, s) \cup {x} /\ x \notin Ended(m, s)
    BY <1>0, <1>1 DEF Ended, JobsOf
  <2>2. Cardinality(Ended(m, s) \cup {x}) = Cardinality(Ended(m, s)) + 1
    BY <2>1, EndedAreFinite, FS_AddElement
  <2> QED BY <1>1, <2>1, <2>2
<1>2. CASE m # master[x]
  <2>1. Ended(m, s)' = Ended(m, s)
    BY <1>0, <1>2 DEF Ended, JobsOf
  <2> QED BY <1>2, <2>1
<1> QED BY <1>1, <1>2

LEMMA TallyFrame ==
  ASSUME TallyInv, NEW m \in Masters,
         completedJobs'[m] = completedJobs[m], cancelledJobs'[m] = cancelledJobs[m],
         Busy(m, {"credit"})' = Busy(m, {"credit"}), Busy(m, {"penalise"})' = Busy(m, {"penalise"}),
         Ended(m, "done")' = Ended(m, "done"), Ended(m, "cancelled")' = Ended(m, "cancelled")
  PROVE  TallyOf(m)'
BY DEF TallyInv, TallyOf

\* A step that counts nothing and ends no job.
LEMMA SameEnded ==
  ASSUME NEW m, NEW s \in {"done", "cancelled"},
         \A o \in Orders :
           \/ status'[o] = status[o] /\ master'[o] = master[o]
           \/ status[o] # s /\ status'[o] # s
  PROVE  Ended(m, s)' = Ended(m, s)
BY DEF Ended, JobsOf

LEMMA NextTally ==
  ASSUME TypeInv, StageInv, TransactionalInv, EndInv, TallyInv, Crashing = {}, [Next]_vars
  PROVE  TallyInv'
<1> USE DEF TypeInv
<1> SUFFICES ASSUME NEW m \in Masters PROVE TallyOf(m)'
  BY DEF TallyInv, TallyOf
<1> DEFINE c == Cardinality(Busy(m, {"credit"}))
           n == Cardinality(Busy(m, {"penalise"}))
           d == Cardinality(Ended(m, "done"))
           e == Cardinality(Ended(m, "cancelled"))
<1>0. /\ IsFiniteSet(Busy(m, {"credit"})) /\ IsFiniteSet(Busy(m, {"penalise"}))
      /\ completedJobs[m] + c = d /\ cancelledJobs[m] + n <= e
  BY DEF TallyInv, TallyOf
<1>01. c \in Nat /\ n \in Nat /\ d \in Nat /\ e \in Nat
  BY <1>0, FS_CardinalityType, EndedAreFinite
<1>02. /\ completedJobs \in [Masters -> Nat] /\ cancelledJobs \in [Masters -> Nat]
       /\ status \in [Orders -> Statuses]
  BY DEF StoreTypeOK
<1>1. CASE UNCHANGED <<status, master, chat, completedJobs, cancelledJobs, task>>
  <2>1. /\ Busy(m, {"credit"})' = Busy(m, {"credit"})
        /\ Busy(m, {"penalise"})' = Busy(m, {"penalise"})
    BY <1>1 DEF Busy
  <2>2. Ended(m, "done")' = Ended(m, "done") /\ Ended(m, "cancelled")' = Ended(m, "cancelled")
    BY <1>1 DEF Ended, JobsOf
  <2> QED BY <1>1, <2>1, <2>2, TallyFrame
<1>2. ASSUME NEW p \in Procs, OthersStay(p),
             task[p].pc \notin {"credit", "penalise"}, task'[p].pc \notin {"credit", "penalise"},
             UNCHANGED <<completedJobs, cancelledJobs>>,
             \A o \in Orders :
               \/ status'[o] = status[o] /\ master'[o] = master[o]
               \/ status[o] \notin {"done", "cancelled"} /\ status'[o] \notin {"done", "cancelled"}
      PROVE  TallyOf(m)'
  <2>1. /\ Busy(m, {"credit"})' = Busy(m, {"credit"})
        /\ Busy(m, {"penalise"})' = Busy(m, {"penalise"})
    BY <1>2, BusySame
  <2>2. Ended(m, "done")' = Ended(m, "done") /\ Ended(m, "cancelled")' = Ended(m, "cancelled")
    BY <1>2, SameEnded
  <2> QED BY <1>2, <2>1, <2>2, TallyFrame
<1>3. ASSUME NEW p \in Procs, EndAlone(p) PROVE TallyOf(m)'
  BY <1>2, <1>3 DEF EndAlone, EndLabels, Over
<1>4. ASSUME NEW p \in Procs, ChargeAndAssign(p) PROVE TallyOf(m)'
  <2>1. /\ OthersStay(p) /\ UNCHANGED <<completedJobs, cancelledJobs>>
        /\ task[p].pc = "charge" /\ task'[p].pc \in {"dropQueue", "idle"}
    BY <1>4, GotoMoves, ReturnMoves DEF ChargeAndAssign, LoseRace
  <2>2. \A o \in Orders :
          \/ status'[o] = status[o] /\ master'[o] = master[o]
          \/ status[o] \notin {"done", "cancelled"} /\ status'[o] \notin {"done", "cancelled"}
    BY <1>4 DEF ChargeAndAssign, LoseRace, StillOpen, Searching, StoreTypeOK, TaskOK
  <2> QED BY <1>2, <2>1, <2>2
<1>5. ASSUME NEW p \in Procs, CloseChat(p) \/ ReopenChat(p) PROVE TallyOf(m)'
  <2>1. /\ OthersStay(p) /\ UNCHANGED <<completedJobs, cancelledJobs, status, master>>
        /\ task[p].pc \in {"closeChat", "reopenChat"} /\ task'[p].pc = "idle"
    BY <1>5, ReturnMoves DEF CloseChat, ReopenChat
  <2> QED BY <1>2, <2>1
<1>6. ASSUME NEW p \in Procs, NEW o \in Orders, NEW op, CancelOrder(p, o, op) PROVE TallyOf(m)'
  <2>1. /\ OthersStay(p) /\ UNCHANGED <<completedJobs, cancelledJobs, status, master>>
        /\ task[p].pc = "idle" /\ task'[p].pc = "cancelWrite"
    BY <1>6, CancelMoves DEF CancelOrder
  <2> QED BY <1>2, <2>1
<1>7. ASSUME NEW p \in Procs, CancelWrite(p) PROVE TallyOf(m)'
  <2>1. PICK x \in Orders : x = task[p].order
    BY <1>7 DEF CancelWrite, TaskOK
  <2>2. /\ task[p].pc = "cancelWrite" /\ OthersStay(p)
        /\ UNCHANGED <<master, completedJobs, cancelledJobs>>
    BY <1>7, GotoMoves, ReturnMoves DEF CancelWrite
  <2>3. CASE SameAsRead(p)
    <3>1. /\ status' = [status EXCEPT ![x] = "cancelled"]
          /\ status[x] \in Cancellable /\ task[p].seen = status[x]
      BY <1>7, <2>1, <2>2, <2>3 DEF CancelWrite, SameAsRead, TransactionalInv
    <3>2. /\ task'[p].pc \in {"abortRead", "penalise", "closeChat"}
          /\ task'[p].pc = "penalise" => task[p].seen = "accepted"
          /\ task'[p].master = task[p].master
      BY <1>7, <2>3, GotoMoves DEF CancelWrite
    <3>3. Busy(m, {"credit"})' = Busy(m, {"credit"})
      BY <2>2, <3>2, BusySame
    <3>4. Ended(m, "done")' = Ended(m, "done")
      <4>1. \A o \in Orders : \/ status'[o] = status[o] /\ master'[o] = master[o]
                              \/ status[o] # "done" /\ status'[o] # "done"
        BY <1>02, <2>2, <3>1 DEF Cancellable
      <4> QED BY <4>1, SameEnded
    <3>5. e' = IF m = master[x] THEN e + 1 ELSE e
      BY <2>2, <3>1, OneMoreEnded DEF Cancellable
    <3>6. CASE task'[p].pc = "penalise"
      <4>1. task[p].master = master[x]
        BY <2>1, <2>2, <3>2, <3>6 DEF EndInv, EndingTask
      <4>2. /\ IsFiniteSet(Busy(m, {"penalise"})')
            /\ n' = IF m = master[x] THEN n + 1 ELSE n
        BY <1>0, <2>2, <3>2, <3>6, <4>1, BusyJoins
      <4>3. cancelledJobs[m] \in Nat
        BY <1>02
      <4>4. cancelledJobs'[m] = cancelledJobs[m] /\ completedJobs'[m] = completedJobs[m]
        BY <2>2
      <4>5. c' = c /\ d' = d
        BY <3>3, <3>4
      <4> HIDE DEF c, n, d, e
      <4>6. cancelledJobs[m] + n' <= e' /\ completedJobs[m] + c' = d'
        BY <1>0, <1>01, <3>5, <4>2, <4>3, <4>5
      <4> QED BY <1>0, <3>3, <4>2, <4>4, <4>6 DEF TallyOf, c, n, d, e
    <3>7. CASE task'[p].pc # "penalise"
      <4>1. Busy(m, {"penalise"})' = Busy(m, {"penalise"})
        BY <2>2, <3>7, BusySame
      <4>2. cancelledJobs[m] \in Nat
        BY <1>02
      <4>3. cancelledJobs'[m] = cancelledJobs[m] /\ completedJobs'[m] = completedJobs[m]
        BY <2>2
      <4>4. c' = c /\ d' = d /\ n' = n
        BY <3>3, <3>4, <4>1
      <4> HIDE DEF c, n, d, e
      <4>5. cancelledJobs[m] + n' <= e' /\ completedJobs[m] + c' = d'
        BY <1>0, <1>01, <3>5, <4>2, <4>4
      <4> QED BY <1>0, <3>3, <4>1, <4>3, <4>5 DEF TallyOf, c, n, d, e
    <3> QED BY <3>6, <3>7
  <2>4. CASE ~SameAsRead(p)
    <3>1. UNCHANGED status /\ task'[p].pc = "idle"
      BY <1>7, <2>4, ReturnMoves DEF CancelWrite
    <3> QED BY <1>2, <2>2, <3>1
  <2> QED BY <2>3, <2>4
<1>8. ASSUME NEW p \in Procs, NEW x \in Orders, CompleteOrder(p, x) PROVE TallyOf(m)'
  <2>1. /\ OthersStay(p) /\ task[p].pc = "idle" /\ task'[p].pc = "credit"
        /\ task'[p].master = master[x]
    BY <1>8, BeginMoves DEF CompleteOrder
  <2>2. /\ status[x] = "accepted" /\ status' = [status EXCEPT ![x] = "done"]
        /\ UNCHANGED <<master, completedJobs, cancelledJobs>>
    BY <1>8 DEF CompleteOrder
  <2>3. Busy(m, {"penalise"})' = Busy(m, {"penalise"})
    BY <2>1, BusySame
  <2>4. Ended(m, "cancelled")' = Ended(m, "cancelled")
    <3>1. \A o \in Orders : \/ status'[o] = status[o] /\ master'[o] = master[o]
                            \/ status[o] # "cancelled" /\ status'[o] # "cancelled"
      BY <1>02, <2>2
    <3> QED BY <3>1, SameEnded
  <2>5. d' = IF m = master[x] THEN d + 1 ELSE d
    BY <2>2, OneMoreEnded
  <2>6. /\ IsFiniteSet(Busy(m, {"credit"})')
        /\ c' = IF m = master[x] THEN c + 1 ELSE c
    BY <1>0, <2>1, BusyJoins
  <2>7. completedJobs[m] \in Nat
    BY <1>02
  <2>8. cancelledJobs'[m] = cancelledJobs[m] /\ completedJobs'[m] = completedJobs[m]
    BY <2>2
  <2>9. n' = n /\ e' = e
    BY <2>3, <2>4
  <2> HIDE DEF c, n, d, e
  <2>10. completedJobs[m] + c' = d' /\ cancelledJobs[m] + n' <= e'
    BY <1>0, <1>01, <2>5, <2>6, <2>7, <2>9
  <2> QED BY <1>0, <2>3, <2>6, <2>8, <2>10 DEF TallyOf, c, n, d, e
<1>9. ASSUME NEW p \in Procs, CreditCompletion(p) PROVE TallyOf(m)'
  <2>1. /\ OthersStay(p) /\ task[p].pc = "credit" /\ task'[p].pc = "reopenChat"
        /\ UNCHANGED <<status, master, cancelledJobs>>
        /\ completedJobs' = [completedJobs EXCEPT ![task[p].master] = @ + 1]
    BY <1>9, GotoMoves DEF CreditCompletion
  <2>2. Busy(m, {"penalise"})' = Busy(m, {"penalise"})
    BY <2>1, BusySame
  <2>3. Ended(m, "done")' = Ended(m, "done") /\ Ended(m, "cancelled")' = Ended(m, "cancelled")
    BY <2>1, SameEnded
  <2>4. /\ IsFiniteSet(Busy(m, {"credit"})') /\ c' \in Nat
        /\ c = IF m = task[p].master THEN c' + 1 ELSE c'
    BY <1>0, <2>1, BusyLeaves
  <2>5. /\ completedJobs[m] \in Nat
        /\ completedJobs'[m] = IF m = task[p].master THEN completedJobs[m] + 1 ELSE completedJobs[m]
    BY <1>02, <2>1
  <2>6. n' = n /\ e' = e /\ d' = d /\ cancelledJobs'[m] = cancelledJobs[m]
    BY <2>1, <2>2, <2>3
  <2> HIDE DEF c, n, d, e
  <2>7. completedJobs'[m] + c' = d' /\ cancelledJobs'[m] + n' <= e'
    BY <1>0, <1>01, <2>4, <2>5, <2>6
  <2> QED BY <1>0, <2>2, <2>4, <2>7 DEF TallyOf, c, n, d, e
<1>10. ASSUME NEW p \in Procs, Penalise(p) PROVE TallyOf(m)'
  <2>1. /\ OthersStay(p) /\ task[p].pc = "penalise" /\ task'[p].pc = "closeChat"
        /\ UNCHANGED <<status, master, completedJobs>>
        /\ cancelledJobs' = [cancelledJobs EXCEPT ![task[p].master] = @ + 1]
    BY <1>10, GotoMoves DEF Penalise
  <2>2. Busy(m, {"credit"})' = Busy(m, {"credit"})
    BY <2>1, BusySame
  <2>3. Ended(m, "done")' = Ended(m, "done") /\ Ended(m, "cancelled")' = Ended(m, "cancelled")
    BY <2>1, SameEnded
  <2>4. /\ IsFiniteSet(Busy(m, {"penalise"})') /\ n' \in Nat
        /\ n = IF m = task[p].master THEN n' + 1 ELSE n'
    BY <1>0, <2>1, BusyLeaves
  <2>5. /\ cancelledJobs[m] \in Nat
        /\ cancelledJobs'[m] = IF m = task[p].master THEN cancelledJobs[m] + 1 ELSE cancelledJobs[m]
    BY <1>02, <2>1
  <2>6. c' = c /\ e' = e /\ d' = d /\ completedJobs'[m] = completedJobs[m]
    BY <2>1, <2>2, <2>3
  <2> HIDE DEF c, n, d, e
  <2>7. completedJobs'[m] + c' = d' /\ cancelledJobs'[m] + n' <= e'
    BY <1>0, <1>01, <2>4, <2>5, <2>6
  <2> QED BY <1>0, <2>2, <2>4, <2>7 DEF TallyOf, c, n, d, e
<1> QED BY <1>1, <1>3, <1>4, <1>5, <1>6, <1>7, <1>8, <1>9, <1>10, NextEnds DEF EndStep

LEMMA InitEnds == Init => EndInv /\ TallyInv
<1> SUFFICES ASSUME Init PROVE EndInv /\ TallyInv
  OBVIOUS
<1>1. EndInv
  BY DEF Init, EndInv, ChatOf, EndingTask, Closing, Finishing, NoTask
<1>2. ASSUME NEW m \in Masters
      PROVE  /\ Busy(m, {"credit"}) = {} /\ Busy(m, {"penalise"}) = {}
             /\ Ended(m, "done") = {} /\ Ended(m, "cancelled") = {}
             /\ completedJobs[m] = 0 /\ cancelledJobs[m] = 0
  BY <1>2 DEF Init, Busy, Ended, JobsOf, NoTask
<1>3. IsFiniteSet({}) /\ Cardinality({}) = 0
  BY FS_EmptySet
<1>4. TallyInv
  BY <1>2, <1>3 DEF TallyInv, TallyOf
<1> QED BY <1>1, <1>4

\* When every handler of a replica set has finished, the chat is open for a job that is on
\* or done and closed for one taken and cancelled, no queue is left behind, every finished
\* job is counted for its pro and no cancellation is counted twice: for any number of
\* handlers, late workers and expiring keys, as long as no handler dies half-way.
THEOREM NothingIsLeftOver ==
  ASSUME Transactional, Crashing = {}
  PROVE  Spec => []TidyAtRest
<1> DEFINE Inv == /\ TypeInv /\ PlaceInv /\ TokenInv /\ QueueInv /\ StageInv
                  /\ LockInv /\ DrainInv /\ TransactionalInv /\ EndInv /\ TallyInv
<1>1. Init => Inv
  BY InitType, InitPlaces, InitToken, InitQueue, InitStage, InitLock, InitDrain, InitBooks, InitEnds
<1>2. Inv /\ [Next]_vars => Inv'
  <2> SUFFICES ASSUME Inv, [Next]_vars PROVE Inv'
    OBVIOUS
  <2>1. TypeInv' /\ PlaceInv' /\ TokenInv' /\ QueueInv' /\ StageInv'
    BY NextType, NextPlaces, NextToken, NextQueue, NextStage
  <2>2. LockInv' /\ DrainInv' /\ TransactionalInv'
    BY NextLock, NextDrain, NextAtomic
  <2>3. EndInv' /\ TallyInv'
    BY NextEndingTask, NextChat, NextTally DEF EndInv
  <2> QED BY <2>1, <2>2, <2>3
<1>3. Inv => TidyAtRest
  <2> SUFFICES ASSUME Inv, AtRest
               PROVE  /\ \A o \in Orders :
                           /\ chat[o] = "open" <=> status[o] \in {"accepted", "done"}
                           /\ chat[o] = "closed" <=> status[o] = "cancelled" /\ master[o] # NoMaster
                           /\ matchQueue[o] # <<>> => Searching(o)
                      /\ \A m \in Masters :
                           /\ completedJobs[m] = Cardinality(Ended(m, "done"))
                           /\ cancelledJobs[m] <= Cardinality(Ended(m, "cancelled"))
    BY DEF TidyAtRest, Ended
  <2>1. ASSUME NEW o \in Orders
        PROVE  /\ chat[o] = "open" <=> status[o] \in {"accepted", "done"}
               /\ chat[o] = "closed" <=> status[o] = "cancelled" /\ master[o] # NoMaster
    <3>1. ChatOf(o) /\ \A p \in Procs : task[p].pc \notin Closing
      BY DEF EndInv, AtRest, Closing
    <3>2. ~Over(o) => master[o] = NoMaster
      BY DEF StageInv
    <3>3. chat[o] \in {"none", "open", "closed"} /\ status[o] \in Statuses
      BY DEF TypeInv, StoreTypeOK
    <3> QED BY <3>1, <3>2, <3>3 DEF ChatOf, Over, Statuses
  <2>2. ASSUME NEW o \in Orders, matchQueue[o] # <<>> PROVE Searching(o)
    BY <2>2 DEF DrainInv, Draining, Settled, AtRest
  <2>3. ASSUME NEW m \in Masters
        PROVE  /\ completedJobs[m] = Cardinality(Ended(m, "done"))
               /\ cancelledJobs[m] <= Cardinality(Ended(m, "cancelled"))
    <3>1. Busy(m, {"credit"}) = {} /\ Busy(m, {"penalise"}) = {}
      BY DEF AtRest, Busy
    <3>2. Cardinality(Busy(m, {"credit"})) = 0 /\ Cardinality(Busy(m, {"penalise"})) = 0
      BY <3>1, FS_EmptySet
    <3>3. completedJobs[m] \in Nat /\ cancelledJobs[m] \in Nat
      BY DEF TypeInv, StoreTypeOK
    <3> QED BY <3>2, <3>3 DEF TallyInv, TallyOf
  <2> QED BY <2>1, <2>2, <2>3
<1> HIDE DEF Inv
<1> QED BY <1>1, <1>2, <1>3, PTL DEF Spec
==============================================================================
