------------------------------- MODULE Wallet -------------------------------
(***************************************************************************)
(* The wallet: top-ups opened by startTopUp and settled or failed by the   *)
(* callbacks of Payme and Click, the job fee acceptOffer takes, the refund *)
(* an admin gives back with refundOrderFee and the correction an admin     *)
(* makes with adjustBalance.                                               *)
(*                                                                         *)
(* Money moves by $inc on User.balance and is then written down in the     *)
(* ledger of Transactions: two MongoDB commands, and so two actions, except *)
(* for the fee, which is one transaction (see Matching for the fallback).  *)
(***************************************************************************)
EXTENDS Integers, FiniteSets, Functions

CONSTANTS
  Users,
  TopUps,       \* TOP_UP transactions
  Jobs,         \* orders whose fee is taken and may be refunded
  Corrections,  \* adjustBalance calls an admin makes
  OwnerOf,      \* [TopUps -> Users]
  Amount,       \* [TopUps -> positive], what each top-up is for
  Payme,        \* the top-ups paid through Payme; Click has the others
  Fee,          \* env.ORDER_ACCEPT_FEE, positive while payments are on
  CorrectionOf, \* [Corrections -> [user, amount]], amounts of either sign
  Funds,        \* [Users -> Nat], the balances at the start
  Handlers,     \* HTTP handlers that can be in flight at once
  MaxCrashes    \* how many handlers may die half-way

ASSUME OwnerOfAssumption == OwnerOf \in [TopUps -> Users]
ASSUME AmountAssumption == Amount \in [TopUps -> Nat \ {0}]
ASSUME PaymeAssumption == Payme \subseteq TopUps
ASSUME FeeAssumption == Fee \in Nat \ {0}
ASSUME CorrectionOfAssumption == CorrectionOf \in [Corrections -> [user : Users, amount : Int]]
ASSUME FundsAssumption == Funds \in [Users -> Nat]
ASSUME HandlersAssumption == IsFiniteSet(Handlers)
ASSUME MaxCrashesAssumption == MaxCrashes \in Nat

VARIABLES
  balance,    \* User.balance
  status,     \* Transaction.status of each top-up, "absent" before it is opened
  registered, \* the Payme top-ups whose externalId is recorded
  chargedTo,  \* the settled ORDER_FEE entries, as <<job, user>>
  refunds,    \* how many settled REFUND entries each job has
  corrected,  \* the corrections with an ADJUSTMENT entry
  answers,    \* the states Payme was told, per top-up
  task,       \* what each handler is doing
  crashes,    \* how many handlers have died
  \* What became of the money, kept to state the properties:
  credits,    \* of each top-up's credits, see History
  returns,    \* of each job's fees given back
  adrift      \* what moved on each balance without an entry of its own

ledgerVars == <<status, registered, chargedTo, refunds, corrected>>
historyVars == <<credits, returns, adrift>>
vars == <<balance, ledgerVars, answers, task, crashes, historyVars>>

\* How often the money of a payment moved, how often the call that moved it died
\* before it wrote that down, and how many calls about the payment began while
\* another was under way that could still move it.
History == [moved : Nat, lost : Nat, doubled : Nat]
NoHistory == [moved |-> 0, lost |-> 0, doubled |-> 0]

NoTask == [pc |-> "idle", paid |-> FALSE]
Tasks == {NoTask}
         \cup [pc : {"credit", "settle"}, topUp : TopUps]
         \cup [pc : {"fail"}, topUp : TopUps, paid : BOOLEAN]
         \cup [pc : {"giveBack", "recordRefund"}, job : Jobs, user : Users]
         \cup [pc : {"recordCorrection"}, correction : Corrections]

\* The variables have their types: above all, no balance goes below zero, whatever
\* is spent while an admin's correction or an accept is under way.
TypeOK ==
  /\ balance \in [Users -> Nat]
  /\ status \in [TopUps -> {"absent", "pending", "success", "failed"}]
  /\ registered \subseteq Payme
  /\ chargedTo \subseteq Jobs \X Users
  /\ refunds \in [Jobs -> Nat]
  /\ corrected \subseteq Corrections
  /\ answers \in [TopUps -> SUBSET {"PAID", "CANCELLED", "CANCELLED_AFTER_PAY"}]
  /\ task \in [Handlers -> Tasks]
  /\ crashes \in 0..MaxCrashes
  /\ credits \in [TopUps -> History]
  /\ returns \in [Jobs -> History]
  /\ adrift \in [Users -> Int]

Init ==
  /\ balance = Funds
  /\ status = [t \in TopUps |-> "absent"]
  /\ registered = {}
  /\ chargedTo = {}
  /\ refunds = [j \in Jobs |-> 0]
  /\ corrected = {}
  /\ answers = [t \in TopUps |-> {}]
  /\ task = [h \in Handlers |-> NoTask]
  /\ crashes = 0
  /\ credits = [t \in TopUps |-> NoHistory]
  /\ returns = [j \in Jobs |-> NoHistory]
  /\ adrift = [u \in Users |-> 0]

-----------------------------------------------------------------------------
At(h, label) == task[h].pc = label
Become(h, t) == task' = [task EXCEPT ![h] = t]
Return(h) == Become(h, NoTask)
Goto(h, label) == Become(h, [task[h] EXCEPT !.pc = label])

Inc(u, amount) == balance' = [balance EXCEPT ![u] = @ + amount]
Tell(t, state) == answers' = [answers EXCEPT ![t] = @ \cup {state}]

\* The history of a payment: its money moves, its call dies, its call overlaps one.
Moved(past, p) == [past EXCEPT ![p].moved = @ + 1]
Lost(past, p) == [past EXCEPT ![p].lost = @ + 1]
Began(past, p, another) == IF another THEN [past EXCEPT ![p].doubled = @ + 1] ELSE past
Drifts(u, amount) == adrift' = [adrift EXCEPT ![u] = @ + amount]

OnTopUp(h, t) == task[h].pc \in {"credit", "settle", "fail"} /\ task[h].topUp = t
OnJob(h, j) == task[h].pc \in {"giveBack", "recordRefund"} /\ task[h].job = j
OnCorrection(h, c) == At(h, "recordCorrection") /\ task[h].correction = c

-----------------------------------------------------------------------------
(* Top-ups. *)

StartTopUp(t) ==
  /\ status[t] = "absent"
  /\ status' = [status EXCEPT ![t] = "pending"]
  /\ UNCHANGED <<balance, registered, chargedTo, refunds, corrected, answers, task, crashes, historyVars>>

\* Payme's CreateTransaction: Payme has one id for a top-up, and repeats the call.
CreateTransaction(t) ==
  /\ t \in Payme
  /\ status[t] \in {"pending", "success"}
  /\ registered' = registered \cup {t}
  /\ UNCHANGED <<balance, status, chargedTo, refunds, corrected, answers, task, crashes, historyVars>>

\* Which top-up a provider can name: Payme by the externalId of CreateTransaction,
\* Click by the id it was given at checkout.
Known(t) == IF t \in Payme THEN t \in registered ELSE status[t] # "absent"

\* A call about a pending top-up begins while another is under way.
Overlaps(t) == status[t] = "pending" /\ \E h \in Handlers : OnTopUp(h, t)

\* confirmTopUp, for Payme's PerformTransaction and Click's action 1: the status is
\* read, the balance credited and the status saved, in three commands.
Mutant_NotIdempotent(t) == status[t] # "failed"
Settleable(t) == status[t] = "pending"

ConfirmTopUp(h, t) ==
  /\ At(h, "idle")
  /\ Known(t)
  /\ IF Settleable(t)
     THEN /\ Become(h, [pc |-> "credit", topUp |-> t])
          /\ credits' = Began(credits, t, Overlaps(t))
          /\ UNCHANGED answers
     ELSE /\ UNCHANGED <<task, credits>>
          /\ IF status[t] = "success" THEN Tell(t, "PAID") ELSE UNCHANGED answers
  /\ UNCHANGED <<balance, ledgerVars, crashes, returns, adrift>>

CreditTopUp(h) ==
  LET t == task[h].topUp IN
  /\ At(h, "credit")
  /\ Inc(OwnerOf[t], Amount[t])
  /\ Goto(h, "settle")
  /\ credits' = Moved(credits, t)
  /\ UNCHANGED <<ledgerVars, answers, crashes, returns, adrift>>

\* save() writes the changed fields with no condition on the status: a top-up that
\* another call has settled meanwhile has its one entry, and the credit none.
SettleTopUp(h) ==
  LET t == task[h].topUp IN
  /\ At(h, "settle")
  /\ status' = [status EXCEPT ![t] = "success"]
  /\ IF status[t] = "success" THEN Drifts(OwnerOf[t], Amount[t]) ELSE UNCHANGED adrift
  /\ Tell(t, "PAID")
  /\ Return(h)
  /\ UNCHANGED <<balance, registered, chargedTo, refunds, corrected, crashes, credits, returns>>

\* Payme's CancelTransaction: what it answers depends on the status it read, and
\* failTopUp fails a top-up that is still pending.
CancelTransaction(h, t) ==
  /\ At(h, "idle")
  /\ t \in Payme /\ Known(t)
  /\ Become(h, [pc |-> "fail", topUp |-> t, paid |-> status[t] = "success"])
  /\ credits' = Began(credits, t, Overlaps(t))
  /\ UNCHANGED <<balance, ledgerVars, answers, crashes, returns, adrift>>

Mutant_NeverPaid(h) == "CANCELLED"
CancelState(h) == IF task[h].paid THEN "CANCELLED_AFTER_PAY" ELSE "CANCELLED"

\* The filter of failTopUp's update.
Mutant_FailAnyway(t) == TRUE
Failable(t) == status[t] = "pending"

FailTopUp(h) ==
  LET t == task[h].topUp IN
  /\ At(h, "fail")
  /\ status' = IF ~task[h].paid /\ Failable(t)
               THEN [status EXCEPT ![t] = "failed"] ELSE status
  /\ Tell(t, CancelState(h))
  /\ Return(h)
  /\ UNCHANGED <<balance, registered, chargedTo, refunds, corrected, crashes, historyVars>>

-----------------------------------------------------------------------------
(* Fees, refunds and corrections. *)

IsCharged(j) == \E u \in Users : <<j, u>> \in chargedTo

\* acceptOffer's transaction: the debit on condition that the balance covers it,
\* and the ORDER_FEE entry.
ChargeFee(u, j) ==
  /\ ~IsCharged(j)
  /\ balance[u] >= Fee
  /\ Inc(u, -Fee)
  /\ chargedTo' = chargedTo \cup {<<j, u>>}
  /\ UNCHANGED <<status, registered, refunds, corrected, answers, task, crashes, historyVars>>

\* refundOrderFee, for an admin who cancels the job or settles a dispute about it.
Mutant_RefundAgain(j) == TRUE
NotRefunded(j) == refunds[j] = 0

RefundOrderFee(h, j, u) ==
  /\ At(h, "idle")
  /\ <<j, u>> \in chargedTo
  /\ NotRefunded(j)
  /\ Become(h, [pc |-> "giveBack", job |-> j, user |-> u])
  /\ returns' = Began(returns, j, \E g \in Handlers : OnJob(g, j))
  /\ UNCHANGED <<balance, ledgerVars, answers, crashes, credits, adrift>>

GiveBackFee(h) ==
  /\ At(h, "giveBack")
  /\ Inc(task[h].user, Fee)
  /\ Goto(h, "recordRefund")
  /\ returns' = Moved(returns, task[h].job)
  /\ UNCHANGED <<ledgerVars, answers, crashes, credits, adrift>>

RecordRefund(h) ==
  /\ At(h, "recordRefund")
  /\ refunds' = [refunds EXCEPT ![task[h].job] = @ + 1]
  /\ Return(h)
  /\ UNCHANGED <<balance, status, registered, chargedTo, corrected, answers, crashes, historyVars>>

\* adjustBalance: a debit on condition that the balance covers it.
Mutant_UncheckedCorrection(c) == TRUE
Covered(c) == balance[CorrectionOf[c].user] + CorrectionOf[c].amount >= 0
            \/ CorrectionOf[c].amount >= 0

AdjustBalance(h, c) ==
  /\ At(h, "idle")
  /\ c \notin corrected /\ \A g \in Handlers : ~OnCorrection(g, c)
  /\ Covered(c)
  /\ Inc(CorrectionOf[c].user, CorrectionOf[c].amount)
  /\ Become(h, [pc |-> "recordCorrection", correction |-> c])
  /\ UNCHANGED <<ledgerVars, answers, crashes, historyVars>>

RecordCorrection(h) ==
  /\ At(h, "recordCorrection")
  /\ corrected' = corrected \cup {task[h].correction}
  /\ Return(h)
  /\ UNCHANGED <<balance, status, registered, chargedTo, refunds, answers, crashes, historyVars>>

\* The process dies, or the next command fails: nothing undoes the one before.
Crash(h) ==
  LET k == task[h] IN
  /\ ~At(h, "idle")
  /\ crashes < MaxCrashes
  /\ crashes' = crashes + 1
  /\ Return(h)
  /\ credits' = IF k.pc = "settle" THEN Lost(credits, k.topUp) ELSE credits
  /\ returns' = IF k.pc = "recordRefund" THEN Lost(returns, k.job) ELSE returns
  /\ CASE k.pc = "settle" -> Drifts(OwnerOf[k.topUp], Amount[k.topUp])
       [] k.pc = "recordRefund" -> Drifts(k.user, Fee)
       [] k.pc = "recordCorrection" -> Drifts(CorrectionOf[k.correction].user, CorrectionOf[k.correction].amount)
       [] OTHER -> UNCHANGED adrift
  /\ UNCHANGED <<balance, ledgerVars, answers>>

-----------------------------------------------------------------------------
Callback(h) ==
  \/ \E t \in TopUps : ConfirmTopUp(h, t) \/ CancelTransaction(h, t)
  \/ CreditTopUp(h) \/ SettleTopUp(h) \/ FailTopUp(h)

Admin(h) ==
  \/ \E j \in Jobs, u \in Users : RefundOrderFee(h, j, u)
  \/ \E c \in Corrections : AdjustBalance(h, c)
  \/ GiveBackFee(h) \/ RecordRefund(h) \/ RecordCorrection(h)

Next ==
  \/ \E t \in TopUps : StartTopUp(t) \/ CreateTransaction(t)
  \/ \E u \in Users, j \in Jobs : ChargeFee(u, j)
  \/ \E h \in Handlers : Callback(h) \/ Admin(h) \/ Crash(h)

Spec == Init /\ [][Next]_vars

-----------------------------------------------------------------------------
AtRest == \A h \in Handlers : At(h, "idle")

\* What the ledger holds for each job that was charged, and for each correction.
GivenBack == [j \in Jobs |-> Fee * (refunds[j] - 1)]
AmountOf == [c \in Corrections |-> CorrectionOf[c].amount]

\* What the ledger says a user's balance is: the sum over the settled entries.
Statement(u) ==
  LET settled == {t \in TopUps : OwnerOf[t] = u /\ status[t] = "success"}
      fees == {j \in Jobs : <<j, u>> \in chargedTo}
      adjustments == {c \in corrected : CorrectionOf[c].user = u}
  IN Funds[u] + SumFunctionOnSet(Amount, settled) + SumFunctionOnSet(GivenBack, fees)
     + SumFunctionOnSet(AmountOf, adjustments)

\* Once no call is under way every balance is what its ledger adds up to, whatever
\* calls overlapped: each settled top-up, each fee taken and given back and each
\* correction counts in it once. What it is off by is what moved without an entry:
\* by calls that died between the two commands, and by confirmations that settled
\* a top-up another had settled since they read it as pending.
BooksBalance == AtRest => \A u \in Users : balance[u] = Statement(u) + adrift[u]

\* A top-up is credited once and a job's fee given back once. Every further time the
\* money moved takes a call that died after it moved it and before the entry, or two
\* calls about the payment that overlapped: a call that comes after one that
\* returned never moves it.
MovedOnce ==
  /\ \A t \in TopUps : credits[t].moved <= 1 + credits[t].lost + credits[t].doubled
  /\ \A j \in Jobs : returns[j].moved <= 1 + returns[j].lost + returns[j].doubled

\* When Payme was told that a payment was cancelled before it was paid, the wallet is
\* not credited for it, then or later, but by a call that died after the credit (it
\* left the top-up pending) or one that overlapped another about the payment. Without
\* an overlap the payment stays failed and Payme is never told that it was made.
CancelledIsUnpaid ==
  \A t \in TopUps : "CANCELLED" \in answers[t] =>
    /\ credits[t].moved <= credits[t].lost + credits[t].doubled
    /\ credits[t].doubled = 0 => status[t] = "failed" /\ "PAID" \notin answers[t]

\* What confirmTopUp says of itself: "Providers retry callbacks, so this is idempotent:
\* an already-settled transaction returns as-is rather than crediting twice".
CreditedOnce == \A t \in TopUps : credits[t].moved <= 1
=============================================================================
