---------------------------- MODULE WalletProofs ----------------------------
(***************************************************************************)
(* Proofs about Wallet, for any users, top-ups, jobs and corrections, and  *)
(* any number of handlers and crashes.                                     *)
(***************************************************************************)
EXTENDS Wallet, SumTheorems, TLAPS

USE DEF At

-----------------------------------------------------------------------------
(* Type correctness.  What a handler remembers is stated field by field.   *)

Labels == {"idle", "credit", "settle", "fail", "giveBack", "recordRefund", "recordCorrection"}

LEMMA TaskFields ==
  ASSUME NEW t \in Tasks
  PROVE  /\ t.pc \in Labels
         /\ t.pc \in {"credit", "settle", "fail"} => t.topUp \in TopUps
         /\ t.pc = "fail" => t.paid \in BOOLEAN
         /\ t.pc \in {"giveBack", "recordRefund"} => t.job \in Jobs /\ t.user \in Users
         /\ t.pc = "recordCorrection" => t.correction \in Corrections
BY DEF Tasks, NoTask, Labels

LEMMA TypeBecome ==
  ASSUME TypeOK, NEW h \in Handlers, NEW t \in Tasks, Become(h, t)
  PROVE  task' \in [Handlers -> Tasks]
BY DEF TypeOK, Become

LEMMA TypeReturn ==
  ASSUME TypeOK, NEW h \in Handlers, Return(h)
  PROVE  task' \in [Handlers -> Tasks]
<1>1. NoTask \in Tasks
  BY DEF Tasks
<1> QED BY <1>1, TypeBecome DEF Return

\* A $inc that the balance covers.
LEMMA TypeInc ==
  ASSUME TypeOK, NEW u \in Users, NEW amount \in Int, balance[u] + amount >= 0, Inc(u, amount)
  PROVE  balance' \in [Users -> Nat]
<1>1. balance[u] + amount \in Nat
  BY DEF TypeOK
<1> QED BY <1>1 DEF TypeOK, Inc

LEMMA TypeTell ==
  ASSUME TypeOK, NEW t \in TopUps,
         NEW state \in {"PAID", "CANCELLED", "CANCELLED_AFTER_PAY"}, Tell(t, state)
  PROVE  answers' \in [TopUps -> SUBSET {"PAID", "CANCELLED", "CANCELLED_AFTER_PAY"}]
<1>1. answers[t] \cup {state} \in SUBSET {"PAID", "CANCELLED", "CANCELLED_AFTER_PAY"}
  BY DEF TypeOK
<1> QED BY <1>1 DEF TypeOK, Tell

LEMMA TypePast ==
  ASSUME NEW S, NEW past \in [S -> History], NEW p \in S
  PROVE  /\ Moved(past, p) \in [S -> History]
         /\ Lost(past, p) \in [S -> History]
         /\ \A b \in BOOLEAN : Began(past, p, b) \in [S -> History]
BY DEF Moved, Lost, Began, History

LEMMA TypeDrifts ==
  ASSUME TypeOK, NEW u \in Users, NEW amount \in Int, Drifts(u, amount)
  PROVE  adrift' \in [Users -> Int]
BY DEF TypeOK, Drifts

LEMMA TypeCallback ==
  ASSUME TypeOK, NEW h \in Handlers, Callback(h)
  PROVE  TypeOK'
<1>1. ASSUME NEW t \in TopUps, ConfirmTopUp(h, t) PROVE TypeOK'
  <2>1. CASE /\ Become(h, [pc |-> "credit", topUp |-> t]) /\ UNCHANGED answers
             /\ credits' = Began(credits, t, Overlaps(t))
    <3>1. [pc |-> "credit", topUp |-> t] \in Tasks
      BY DEF Tasks
    <3>2. task' \in [Handlers -> Tasks]
      BY <2>1, <3>1, TypeBecome
    <3>3. credits' \in [TopUps -> History]
      BY <2>1, TypePast DEF TypeOK, Overlaps
    <3> QED BY <1>1, <2>1, <3>2, <3>3 DEF ConfirmTopUp, ledgerVars, TypeOK
  <2>2. CASE UNCHANGED <<task, credits>> /\ (Tell(t, "PAID") \/ UNCHANGED answers)
    <3>1. answers' \in [TopUps -> SUBSET {"PAID", "CANCELLED", "CANCELLED_AFTER_PAY"}]
      BY <2>2, TypeTell DEF TypeOK
    <3> QED BY <1>1, <2>2, <3>1 DEF ConfirmTopUp, ledgerVars, TypeOK
  <2> QED BY <1>1, <2>1, <2>2 DEF ConfirmTopUp
<1>2. ASSUME NEW t \in TopUps, CancelTransaction(h, t) PROVE TypeOK'
  <2>1. [pc |-> "fail", topUp |-> t, paid |-> status[t] = "success"] \in Tasks
    BY DEF Tasks
  <2>2. task' \in [Handlers -> Tasks]
    BY <1>2, <2>1, TypeBecome DEF CancelTransaction
  <2>3. credits' \in [TopUps -> History]
    BY <1>2, TypePast DEF CancelTransaction, TypeOK, Overlaps
  <2> QED BY <1>2, <2>2, <2>3 DEF CancelTransaction, ledgerVars, TypeOK
<1>3. CASE CreditTopUp(h)
  <2> DEFINE t == task[h].topUp
  <2>1. task[h] \in [pc : {"credit", "settle"}, topUp : TopUps]
    BY <1>3 DEF CreditTopUp, TypeOK, Tasks, NoTask
  <2>2. OwnerOf[t] \in Users /\ Amount[t] \in Nat
    BY <2>1, OwnerOfAssumption, AmountAssumption
  <2>3. balance' \in [Users -> Nat]
    <3>1. Amount[t] \in Int /\ balance[OwnerOf[t]] + Amount[t] >= 0
      BY <2>2 DEF TypeOK
    <3> QED BY <1>3, <2>2, <3>1, TypeInc DEF CreditTopUp
  <2>4. task' \in [Handlers -> Tasks]
    <3>1. [task[h] EXCEPT !.pc = "settle"] \in Tasks
      BY <2>1 DEF Tasks
    <3> QED BY <1>3, <3>1, TypeBecome DEF CreditTopUp, Goto
  <2>5. credits' \in [TopUps -> History]
    BY <1>3, <2>1, TypePast DEF CreditTopUp, TypeOK
  <2> QED BY <1>3, <2>3, <2>4, <2>5 DEF CreditTopUp, ledgerVars, TypeOK
<1>4. CASE SettleTopUp(h)
  <2>1. task[h].topUp \in TopUps
    BY <1>4, TaskFields DEF SettleTopUp, TypeOK
  <2>2. task' \in [Handlers -> Tasks]
    BY <1>4, TypeReturn DEF SettleTopUp
  <2>3. answers' \in [TopUps -> SUBSET {"PAID", "CANCELLED", "CANCELLED_AFTER_PAY"}]
    BY <1>4, <2>1, TypeTell DEF SettleTopUp
  <2>4. adrift' \in [Users -> Int]
    <3>1. OwnerOf[task[h].topUp] \in Users /\ Amount[task[h].topUp] \in Int
      BY <2>1, OwnerOfAssumption, AmountAssumption
    <3> QED BY <1>4, <3>1, TypeDrifts DEF SettleTopUp, TypeOK
  <2> QED BY <1>4, <2>2, <2>3, <2>4 DEF SettleTopUp, TypeOK
<1>5. CASE FailTopUp(h)
  <2>1. task[h].topUp \in TopUps
    BY <1>5, TaskFields DEF FailTopUp, TypeOK
  <2>2. task' \in [Handlers -> Tasks]
    BY <1>5, TypeReturn DEF FailTopUp
  <2>3. answers' \in [TopUps -> SUBSET {"PAID", "CANCELLED", "CANCELLED_AFTER_PAY"}]
    BY <1>5, <2>1, TypeTell DEF FailTopUp, CancelState
  <2> QED BY <1>5, <2>2, <2>3 DEF FailTopUp, historyVars, TypeOK
<1> QED BY <1>1, <1>2, <1>3, <1>4, <1>5 DEF Callback

LEMMA TypeAdmin ==
  ASSUME TypeOK, NEW h \in Handlers, Admin(h)
  PROVE  TypeOK'
<1>1. ASSUME NEW j \in Jobs, NEW u \in Users, RefundOrderFee(h, j, u) PROVE TypeOK'
  <2>1. [pc |-> "giveBack", job |-> j, user |-> u] \in Tasks
    BY DEF Tasks
  <2>2. task' \in [Handlers -> Tasks]
    BY <1>1, <2>1, TypeBecome DEF RefundOrderFee
  <2>3. returns' \in [Jobs -> History]
    BY <1>1, TypePast DEF RefundOrderFee, TypeOK
  <2> QED BY <1>1, <2>2, <2>3 DEF RefundOrderFee, ledgerVars, TypeOK
<1>2. ASSUME NEW c \in Corrections, AdjustBalance(h, c) PROVE TypeOK'
  <2> DEFINE u == CorrectionOf[c].user
             amount == CorrectionOf[c].amount
  <2>1. u \in Users /\ amount \in Int
    BY CorrectionOfAssumption
  <2>2. balance[u] + amount >= 0
    BY <1>2, <2>1 DEF AdjustBalance, Covered, TypeOK
  <2>3. balance' \in [Users -> Nat]
    BY <1>2, <2>1, <2>2, TypeInc DEF AdjustBalance
  <2>4. [pc |-> "recordCorrection", correction |-> c] \in Tasks
    BY DEF Tasks
  <2>5. task' \in [Handlers -> Tasks]
    BY <1>2, <2>4, TypeBecome DEF AdjustBalance
  <2> QED BY <1>2, <2>3, <2>5 DEF AdjustBalance, ledgerVars, historyVars, TypeOK
<1>3. CASE GiveBackFee(h)
  <2>1. task[h] \in [pc : {"giveBack", "recordRefund"}, job : Jobs, user : Users]
    BY <1>3 DEF GiveBackFee, TypeOK, Tasks, NoTask
  <2>2. balance' \in [Users -> Nat]
    <3>1. Fee \in Int /\ balance[task[h].user] + Fee >= 0
      BY <2>1, FeeAssumption DEF TypeOK
    <3> QED BY <1>3, <2>1, <3>1, TypeInc DEF GiveBackFee
  <2>3. task' \in [Handlers -> Tasks]
    <3>1. [task[h] EXCEPT !.pc = "recordRefund"] \in Tasks
      BY <2>1 DEF Tasks
    <3> QED BY <1>3, <3>1, TypeBecome DEF GiveBackFee, Goto
  <2>4. returns' \in [Jobs -> History]
    BY <1>3, <2>1, TypePast DEF GiveBackFee, TypeOK
  <2> QED BY <1>3, <2>2, <2>3, <2>4 DEF GiveBackFee, ledgerVars, TypeOK
<1>4. CASE RecordRefund(h)
  <2>1. task[h].job \in Jobs
    BY <1>4, TaskFields DEF RecordRefund, TypeOK
  <2>2. task' \in [Handlers -> Tasks]
    BY <1>4, TypeReturn DEF RecordRefund
  <2>3. refunds' \in [Jobs -> Nat]
    BY <1>4, <2>1 DEF RecordRefund, TypeOK
  <2> QED BY <1>4, <2>2, <2>3 DEF RecordRefund, historyVars, TypeOK
<1>5. CASE RecordCorrection(h)
  <2>1. task[h].correction \in Corrections
    BY <1>5, TaskFields DEF RecordCorrection, TypeOK
  <2>2. task' \in [Handlers -> Tasks]
    BY <1>5, TypeReturn DEF RecordCorrection
  <2> QED BY <1>5, <2>1, <2>2 DEF RecordCorrection, historyVars, TypeOK
<1> QED BY <1>1, <1>2, <1>3, <1>4, <1>5 DEF Admin

\* What a task has moved on a user's balance and not yet written down.
Unwritten(u, k) ==
  CASE k.pc = "settle" /\ OwnerOf[k.topUp] = u -> Amount[k.topUp]
    [] k.pc = "recordRefund" /\ k.user = u -> Fee
    [] k.pc = "recordCorrection" /\ CorrectionOf[k.correction].user = u -> CorrectionOf[k.correction].amount
    [] OTHER -> 0

\* A call that dies leaves adrift what it had not written down, if anything.
LEMMA CrashDrifts ==
  ASSUME TypeOK, NEW h \in Handlers, Crash(h)
  PROVE  \/ UNCHANGED adrift /\ \A u \in Users : Unwritten(u, task[h]) = 0
         \/ \E v \in Users, amount \in Int :
              /\ Drifts(v, amount)
              /\ \A u \in Users : Unwritten(u, task[h]) = IF u = v THEN amount ELSE 0
<1> DEFINE k == task[h]
<1>1. k \in Tasks
  BY DEF TypeOK
<1>2. CASE k.pc = "settle"
  <2>1. k.topUp \in TopUps
    BY <1>1, <1>2, TaskFields
  <2>2. OwnerOf[k.topUp] \in Users /\ Amount[k.topUp] \in Int
    BY <2>1, OwnerOfAssumption, AmountAssumption
  <2>3. Drifts(OwnerOf[k.topUp], Amount[k.topUp])
    BY <1>2 DEF Crash
  <2>4. \A u \in Users : Unwritten(u, k) = IF u = OwnerOf[k.topUp] THEN Amount[k.topUp] ELSE 0
    BY <1>2 DEF Unwritten
  <2> QED BY <2>2, <2>3, <2>4
<1>3. CASE k.pc = "recordRefund"
  <2>1. k.user \in Users /\ Fee \in Int
    BY <1>1, <1>3, TaskFields, FeeAssumption
  <2>2. Drifts(k.user, Fee)
    BY <1>3 DEF Crash
  <2>3. \A u \in Users : Unwritten(u, k) = IF u = k.user THEN Fee ELSE 0
    BY <1>3 DEF Unwritten
  <2> QED BY <2>1, <2>2, <2>3
<1>4. CASE k.pc = "recordCorrection"
  <2> DEFINE c == CorrectionOf[k.correction]
  <2>1. k.correction \in Corrections
    BY <1>1, <1>4, TaskFields
  <2>2. c.user \in Users /\ c.amount \in Int
    BY <2>1, CorrectionOfAssumption
  <2>3. Drifts(c.user, c.amount)
    BY <1>4 DEF Crash
  <2>4. \A u \in Users : Unwritten(u, k) = IF u = c.user THEN c.amount ELSE 0
    BY <1>4 DEF Unwritten
  <2> QED BY <2>2, <2>3, <2>4
<1>5. CASE k.pc \notin {"settle", "recordRefund", "recordCorrection"}
  BY <1>5 DEF Crash, Unwritten
<1> QED BY <1>2, <1>3, <1>4, <1>5

LEMMA TypeNext == ASSUME TypeOK, [Next]_vars PROVE TypeOK'
<1>1. CASE UNCHANGED vars
  BY <1>1 DEF vars, ledgerVars, historyVars, TypeOK
<1>2. ASSUME NEW t \in TopUps, StartTopUp(t) \/ CreateTransaction(t) PROVE TypeOK'
  BY <1>2 DEF StartTopUp, CreateTransaction, historyVars, TypeOK
<1>3. ASSUME NEW u \in Users, NEW j \in Jobs, ChargeFee(u, j) PROVE TypeOK'
  <2>1. -Fee \in Int /\ balance[u] + (-Fee) >= 0
    BY <1>3, FeeAssumption DEF ChargeFee, TypeOK
  <2>2. balance' \in [Users -> Nat]
    BY <1>3, <2>1, TypeInc DEF ChargeFee
  <2> QED BY <1>3, <2>2 DEF ChargeFee, historyVars, TypeOK
<1>4. ASSUME NEW h \in Handlers, Crash(h) PROVE TypeOK'
  <2>1. task' \in [Handlers -> Tasks]
    BY <1>4, TypeReturn DEF Crash
  <2>2. crashes' \in 0..MaxCrashes
    BY <1>4, MaxCrashesAssumption DEF Crash, TypeOK
  <2>3. /\ \/ credits' = credits
           \/ task[h].topUp \in TopUps /\ credits' = Lost(credits, task[h].topUp)
        /\ \/ returns' = returns
           \/ task[h].job \in Jobs /\ returns' = Lost(returns, task[h].job)
    BY <1>4, TaskFields DEF Crash, TypeOK
  <2>4. credits' \in [TopUps -> History] /\ returns' \in [Jobs -> History]
    <3>1. credits \in [TopUps -> History] /\ returns \in [Jobs -> History]
      BY DEF TypeOK
    <3>2. credits' \in [TopUps -> History]
      <4>1. CASE credits' = credits
        BY <3>1, <4>1
      <4>2. CASE task[h].topUp \in TopUps /\ credits' = Lost(credits, task[h].topUp)
        BY <3>1, <4>2, TypePast
      <4> QED BY <2>3, <4>1, <4>2
    <3>3. returns' \in [Jobs -> History]
      <4>1. CASE returns' = returns
        BY <3>1, <4>1
      <4>2. CASE task[h].job \in Jobs /\ returns' = Lost(returns, task[h].job)
        BY <3>1, <4>2, TypePast
      <4> QED BY <2>3, <4>1, <4>2
    <3> QED BY <3>2, <3>3
  <2>5. adrift' \in [Users -> Int]
    BY <1>4, CrashDrifts, TypeDrifts DEF TypeOK
  <2> QED BY <1>4, <2>1, <2>2, <2>4, <2>5 DEF Crash, ledgerVars, TypeOK
<1> QED BY <1>1, <1>2, <1>3, <1>4, TypeCallback, TypeAdmin DEF Next

LEMMA TypeInit == Init => TypeOK
BY FundsAssumption, MaxCrashesAssumption DEF Init, TypeOK, Tasks, NoTask, History, NoHistory

\* No balance ever goes below zero, whether or not calls overlap and whoever dies
\* half-way: the fee's and the correction's conditions are evaluated in the command
\* that takes the money.
THEOREM WalletTypeCorrect == Spec => []TypeOK
BY TypeInit, TypeNext, PTL DEF Spec

-----------------------------------------------------------------------------
(* How many calls are at a step of a payment, and how that changes.        *)

Confirming(label, t) == {h \in Handlers : task[h].pc = label /\ task[h].topUp = t}
Returning(label, j) == {h \in Handlers : task[h].pc = label /\ task[h].job = j}
Size(S) == Cardinality(S)

LEMMA SizeNat == ASSUME NEW S \in SUBSET Handlers PROVE Size(S) \in Nat /\ (Size(S) = 0 <=> S = {})
BY HandlersAssumption, FS_Subset, FS_CardinalityType, FS_EmptySet DEF Size

LEMMA SizeAdd ==
  ASSUME NEW S \in SUBSET Handlers, NEW h \in Handlers, h \notin S
  PROVE  Size(S \cup {h}) = Size(S) + 1
BY HandlersAssumption, FS_Subset, FS_AddElement DEF Size

LEMMA SizeRemove ==
  ASSUME NEW S \in SUBSET Handlers, NEW h \in S
  PROVE  Size(S \ {h}) = Size(S) - 1
BY HandlersAssumption, FS_Subset, FS_RemoveElement DEF Size

\* Is the task at this step of this payment, as a number.
OneIf(b) == IF b THEN 1 ELSE 0
AtTopUp(k, label, t) == k.pc = label /\ k.topUp = t
AtJob(k, label, j) == k.pc = label /\ k.job = j

\* One handler changes what it does, and the sets of calls with it.
LEMMA SizeMove ==
  ASSUME NEW S \in SUBSET Handlers, NEW T \in SUBSET Handlers, NEW h \in Handlers,
         \A g \in Handlers \ {h} : g \in S <=> g \in T
  PROVE  Size(T) = Size(S) + OneIf(h \in T) - OneIf(h \in S)
<1>1. Size(S) \in Nat /\ Size(T) \in Nat
  BY SizeNat
<1>2. CASE h \in S /\ h \notin T
  <2>1. T = S \ {h}
    BY <1>2
  <2> QED BY <1>1, <1>2, <2>1, SizeRemove DEF OneIf
<1>3. CASE h \notin S /\ h \in T
  <2>1. T = S \cup {h}
    BY <1>3
  <2> QED BY <1>1, <1>3, <2>1, SizeAdd DEF OneIf
<1>4. CASE h \in S <=> h \in T
  <2>1. T = S
    BY <1>4
  <2> QED BY <1>1, <1>4, <2>1 DEF OneIf
<1> QED BY <1>2, <1>3, <1>4

LEMMA ConfirmingMove ==
  ASSUME TypeOK, NEW h \in Handlers, NEW k, Become(h, k), NEW label, NEW t
  PROVE  Size(Confirming(label, t))' = Size(Confirming(label, t))
           + OneIf(AtTopUp(k, label, t)) - OneIf(AtTopUp(task[h], label, t))
<1> DEFINE S == Confirming(label, t)
           T == Confirming(label, t)'
<1>1. S \in SUBSET Handlers /\ T \in SUBSET Handlers
  BY DEF Confirming
<1>2. \A g \in Handlers : task'[g] = IF g = h THEN k ELSE task[g]
  BY DEF Become, TypeOK
<1>3. \A g \in Handlers \ {h} : g \in S <=> g \in T
  BY <1>2 DEF Confirming
<1>4. (h \in T <=> AtTopUp(k, label, t)) /\ (h \in S <=> AtTopUp(task[h], label, t))
  BY <1>2 DEF Confirming, AtTopUp
<1>5. Size(T) = Size(S) + OneIf(h \in T) - OneIf(h \in S)
  <2> HIDE DEF S, T
  <2> QED BY <1>1, <1>3, SizeMove
<1>6. OneIf(h \in T) = OneIf(AtTopUp(k, label, t)) /\ OneIf(h \in S) = OneIf(AtTopUp(task[h], label, t))
  BY <1>4 DEF OneIf
<1>7. Size(Confirming(label, t))' = Size(T)
  BY DEF Size
<1> QED BY <1>5, <1>6, <1>7

LEMMA ReturningMove ==
  ASSUME TypeOK, NEW h \in Handlers, NEW k, Become(h, k), NEW label, NEW j
  PROVE  Size(Returning(label, j))' = Size(Returning(label, j))
           + OneIf(AtJob(k, label, j)) - OneIf(AtJob(task[h], label, j))
<1> DEFINE S == Returning(label, j)
           T == Returning(label, j)'
<1>1. S \in SUBSET Handlers /\ T \in SUBSET Handlers
  BY DEF Returning
<1>2. \A g \in Handlers : task'[g] = IF g = h THEN k ELSE task[g]
  BY DEF Become, TypeOK
<1>3. \A g \in Handlers \ {h} : g \in S <=> g \in T
  BY <1>2 DEF Returning
<1>4. (h \in T <=> AtJob(k, label, j)) /\ (h \in S <=> AtJob(task[h], label, j))
  BY <1>2 DEF Returning, AtJob
<1>5. Size(T) = Size(S) + OneIf(h \in T) - OneIf(h \in S)
  <2> HIDE DEF S, T
  <2> QED BY <1>1, <1>3, SizeMove
<1>6. OneIf(h \in T) = OneIf(AtJob(k, label, j)) /\ OneIf(h \in S) = OneIf(AtJob(task[h], label, j))
  BY <1>4 DEF OneIf
<1>7. Size(Returning(label, j))' = Size(T)
  BY DEF Size
<1> QED BY <1>5, <1>6, <1>7

-----------------------------------------------------------------------------
(* How often the money of a payment moves, whatever calls overlap or die.  *)

\* A fee was given back as often as there are refunds, calls on their way to write
\* one and calls that died there; a call that begins alone finds none of the first
\* two.
ReturnInv(j) ==
  LET writing == Size(Returning("recordRefund", j))
      moving == Size(Returning("giveBack", j))
  IN /\ returns[j].moved = returns[j].lost + refunds[j] + writing
     /\ refunds[j] + writing + moving <= 1 + returns[j].doubled

\* A call about a payment that was cancelled, or is about to be.
Cancelling(t) == \E h \in Handlers : AtTopUp(task[h], "fail", t) /\ ~task[h].paid
Cancelled(t) == status[t] = "failed" \/ "CANCELLED" \in answers[t] \/ Cancelling(t)

\* The same of a top-up, whose entry is its status; and how many more credits there
\* can be once it was cancelled.
CreditInv(t) ==
  LET writing == Size(Confirming("settle", t))
      moving == Size(Confirming("credit", t))
      c == credits[t]
  IN /\ status[t] # "success" => c.moved = c.lost + writing
     /\ status[t] = "success" => c.moved >= 1 + c.lost + writing
     /\ c.moved + moving <= 1 + c.lost + c.doubled
     /\ Cancelled(t) => c.moved + moving <= c.lost + c.doubled

\* What a provider was told, and what a call found, goes with the status.
ToldInv ==
  \A t \in TopUps :
    /\ t \in registered => status[t] # "absent"
    /\ "CANCELLED" \in answers[t] => status[t] \in {"failed", "success"}
    /\ "PAID" \in answers[t] => status[t] = "success"
    /\ \A h \in Handlers : AtTopUp(task[h], "fail", t) => status[t] # "absent"

MoneyInv ==
  /\ TypeOK
  /\ ToldInv
  /\ \A j \in Jobs : ReturnInv(j)
  /\ \A t \in TopUps : CreditInv(t)

LEMMA PastNat ==
  ASSUME TypeOK
  PROVE  /\ \A j \in Jobs : returns[j].moved \in Nat /\ returns[j].lost \in Nat
                            /\ returns[j].doubled \in Nat /\ refunds[j] \in Nat
         /\ \A t \in TopUps : credits[t].moved \in Nat /\ credits[t].lost \in Nat
                              /\ credits[t].doubled \in Nat
         /\ \A label, j : Size(Returning(label, j)) \in Nat /\ Size(Confirming(label, j)) \in Nat
<1>1. \A label, j : Returning(label, j) \in SUBSET Handlers /\ Confirming(label, j) \in SUBSET Handlers
  BY DEF Returning, Confirming
<1> QED BY <1>1, SizeNat DEF TypeOK, History

\* What a step does to the history of a payment.
Counts(c, moved, lost, doubled) == c.moved = moved /\ c.lost = lost /\ c.doubled = doubled

LEMMA PastMoved ==
  ASSUME NEW S, NEW past \in [S -> History], NEW p \in S, NEW q \in S, NEW then, then = Moved(past, p)
  PROVE  /\ p # q => then[q] = past[q]
         /\ p = q => Counts(then[q], past[q].moved + 1, past[q].lost, past[q].doubled)
BY DEF Moved, History, Counts

LEMMA PastLost ==
  ASSUME NEW S, NEW past \in [S -> History], NEW p \in S, NEW q \in S, NEW then, then = Lost(past, p)
  PROVE  /\ p # q => then[q] = past[q]
         /\ p = q => Counts(then[q], past[q].moved, past[q].lost + 1, past[q].doubled)
BY DEF Lost, History, Counts

LEMMA PastBegan ==
  ASSUME NEW S, NEW past \in [S -> History], NEW p \in S, NEW q \in S, NEW b \in BOOLEAN,
         NEW then, then = Began(past, p, b)
  PROVE  /\ p # q \/ ~b => then[q] = past[q]
         /\ p = q /\ b => Counts(then[q], past[q].moved, past[q].lost, past[q].doubled + 1)
BY DEF Began, History, Counts

\* A call that is about something else.
LEMMA ReturnFrame ==
  ASSUME TypeOK, NEW j \in Jobs, ReturnInv(j), returns'[j] = returns[j], refunds'[j] = refunds[j],
         NEW h \in Handlers, NEW k, Become(h, k),
         \A label \in {"giveBack", "recordRefund"} : ~AtJob(k, label, j) /\ ~AtJob(task[h], label, j)
  PROVE  ReturnInv(j)'
<1>1. ASSUME NEW label \in {"giveBack", "recordRefund"}
      PROVE  Size(Returning(label, j))' = Size(Returning(label, j))
  <2>1. OneIf(AtJob(k, label, j)) = 0 /\ OneIf(AtJob(task[h], label, j)) = 0
    BY DEF OneIf
  <2>2. Size(Returning(label, j))' = Size(Returning(label, j)) + 0 - 0
    BY <2>1, ReturningMove
  <2> QED BY <2>2, PastNat
<1>2. /\ Size(Returning("giveBack", j))' = Size(Returning("giveBack", j))
      /\ Size(Returning("recordRefund", j))' = Size(Returning("recordRefund", j))
  BY <1>1
<1> QED BY <1>2 DEF ReturnInv

LEMMA ReturnSame ==
  ASSUME NEW j \in Jobs, ReturnInv(j), UNCHANGED <<returns, refunds, task>>
  PROVE  ReturnInv(j)'
BY DEF ReturnInv, Size, Returning

\* A call begins, moves the money, writes it down or dies.
LEMMA ReturnBegins ==
  ASSUME MoneyInv, NEW h \in Handlers, NEW i \in Jobs, NEW u \in Users, RefundOrderFee(h, i, u),
         NEW j \in Jobs
  PROVE  ReturnInv(j)'
<1> DEFINE k == [pc |-> "giveBack", job |-> i, user |-> u]
           R == Size(Returning("recordRefund", j))
           G == Size(Returning("giveBack", j))
<1>1. TypeOK /\ ReturnInv(j)
  BY DEF MoneyInv
<1>0. PICK another \in BOOLEAN : another <=> \E g \in Handlers : OnJob(g, i)
  OBVIOUS
<1>2. Become(h, k) /\ task[h].pc = "idle" /\ UNCHANGED refunds /\ refunds[i] = 0
      /\ returns' = Began(returns, i, another)
  BY <1>0 DEF RefundOrderFee, ledgerVars, NotRefunded
<1>3. CASE j # i
  <2>1. returns'[j] = returns[j]
    BY <1>1, <1>2, <1>3, PastBegan DEF TypeOK
  <2> QED BY <1>1, <1>2, <1>3, <2>1, ReturnFrame DEF AtJob
<1>4. CASE j = i
  <2>1. /\ OneIf(AtJob(k, "giveBack", j)) = 1 /\ OneIf(AtJob(task[h], "giveBack", j)) = 0
        /\ OneIf(AtJob(k, "recordRefund", j)) = 0 /\ OneIf(AtJob(task[h], "recordRefund", j)) = 0
    BY <1>2, <1>4 DEF OneIf, AtJob
  <2>2. G' = G + 1 - 0 /\ R' = R + 0 - 0
    <3> HIDE DEF k
    <3> QED BY <1>1, <1>2, <2>1, ReturningMove
  <2>3. G \in Nat /\ R \in Nat /\ returns[j] \in History
    BY <1>1, <1>4, PastNat DEF TypeOK
  <2>4. CASE another
    <3>1. Counts(returns'[j], returns[j].moved, returns[j].lost, returns[j].doubled + 1)
      BY <1>1, <1>2, <1>4, <2>4, PastBegan DEF TypeOK
    <3> QED BY <1>1, <1>2, <1>4, <2>2, <2>3, <3>1 DEF ReturnInv, History, Counts
  <2>5. CASE ~another
    <3>1. returns'[j] = returns[j]
      BY <1>1, <1>2, <2>5, PastBegan DEF TypeOK
    <3>2. Returning("recordRefund", j) = {} /\ Returning("giveBack", j) = {}
      BY <1>0, <1>4, <2>5 DEF Returning, OnJob
    <3>3. G = 0 /\ R = 0
      BY <3>2, SizeNat
    <3> QED BY <1>1, <1>2, <1>4, <2>2, <2>3, <3>1, <3>3 DEF ReturnInv, History
  <2> QED BY <2>4, <2>5
<1> QED BY <1>3, <1>4

LEMMA ReturnMoves ==
  ASSUME MoneyInv, NEW h \in Handlers, GiveBackFee(h), NEW j \in Jobs
  PROVE  ReturnInv(j)'
<1> DEFINE i == task[h].job
           R == Size(Returning("recordRefund", j))
           G == Size(Returning("giveBack", j))
<1>1. TypeOK /\ ReturnInv(j)
  BY DEF MoneyInv
<1>2. task[h] \in [pc : {"giveBack", "recordRefund"}, job : Jobs, user : Users]
  BY <1>1 DEF GiveBackFee, TypeOK, Tasks, NoTask
<1>3. PICK k : k = [task[h] EXCEPT !.pc = "recordRefund"]
  OBVIOUS
<1>4. k.pc = "recordRefund" /\ k.job = i /\ task[h].pc = "giveBack" /\ Become(h, k) /\ i \in Jobs
      /\ UNCHANGED refunds /\ returns' = Moved(returns, i)
  BY <1>2, <1>3 DEF GiveBackFee, Goto, ledgerVars
<1>5. CASE j # i
  <2>1. returns'[j] = returns[j]
    BY <1>1, <1>4, <1>5, PastMoved DEF TypeOK
  <2> QED BY <1>1, <1>4, <1>5, <2>1, ReturnFrame DEF AtJob
<1>6. CASE j = i
  <2>1. /\ OneIf(AtJob(k, "giveBack", j)) = 0 /\ OneIf(AtJob(task[h], "giveBack", j)) = 1
        /\ OneIf(AtJob(k, "recordRefund", j)) = 1 /\ OneIf(AtJob(task[h], "recordRefund", j)) = 0
    BY <1>4, <1>6 DEF OneIf, AtJob
  <2>2. G' = G + 0 - 1 /\ R' = R + 1 - 0
    BY <1>1, <1>4, <2>1, ReturningMove
  <2>3. G \in Nat /\ R \in Nat /\ returns[j] \in History
    BY <1>1, <1>6, PastNat DEF TypeOK
  <2>4. Counts(returns'[j], returns[j].moved + 1, returns[j].lost, returns[j].doubled)
    BY <1>1, <1>4, <1>6, PastMoved DEF TypeOK
  <2>5. refunds'[j] = refunds[j] /\ refunds[j] \in Nat
    BY <1>1, <1>4, PastNat
  <2> QED BY <1>1, <2>2, <2>3, <2>4, <2>5 DEF ReturnInv, History, Counts
<1> QED BY <1>5, <1>6

LEMMA ReturnWrites ==
  ASSUME MoneyInv, NEW h \in Handlers, RecordRefund(h), NEW j \in Jobs
  PROVE  ReturnInv(j)'
<1> DEFINE i == task[h].job
           R == Size(Returning("recordRefund", j))
           G == Size(Returning("giveBack", j))
<1>1. TypeOK /\ ReturnInv(j)
  BY DEF MoneyInv
<1>2. i \in Jobs /\ task[h].pc = "recordRefund" /\ Become(h, NoTask) /\ UNCHANGED returns
      /\ refunds' = [refunds EXCEPT ![i] = @ + 1] /\ NoTask.pc = "idle"
  BY <1>1, TaskFields DEF RecordRefund, Return, historyVars, TypeOK, NoTask
<1>3. CASE j # i
  <2>1. returns'[j] = returns[j] /\ refunds'[j] = refunds[j]
    BY <1>1, <1>2, <1>3 DEF TypeOK
  <2> QED BY <1>1, <1>2, <1>3, <2>1, ReturnFrame DEF AtJob
<1>4. CASE j = i
  <2>1. /\ OneIf(AtJob(NoTask, "giveBack", j)) = 0 /\ OneIf(AtJob(task[h], "giveBack", j)) = 0
        /\ OneIf(AtJob(NoTask, "recordRefund", j)) = 0 /\ OneIf(AtJob(task[h], "recordRefund", j)) = 1
    BY <1>2, <1>4 DEF OneIf, AtJob
  <2>2. G' = G + 0 - 0 /\ R' = R + 0 - 1
    BY <1>1, <1>2, <2>1, ReturningMove
  <2>3. G \in Nat /\ R \in Nat /\ returns[j] \in History /\ refunds[j] \in Nat
    BY <1>1, <1>4, PastNat DEF TypeOK
  <2>4. returns'[j] = returns[j] /\ refunds'[j] = refunds[j] + 1
    BY <1>1, <1>2, <1>4 DEF TypeOK
  <2> QED BY <1>1, <2>2, <2>3, <2>4 DEF ReturnInv, History
<1> QED BY <1>3, <1>4

LEMMA ReturnDies ==
  ASSUME MoneyInv, NEW h \in Handlers, Crash(h), NEW j \in Jobs
  PROVE  ReturnInv(j)'
<1> DEFINE i == task[h].job
           R == Size(Returning("recordRefund", j))
           G == Size(Returning("giveBack", j))
<1>1. TypeOK /\ ReturnInv(j)
  BY DEF MoneyInv
<1>2. Become(h, NoTask) /\ UNCHANGED refunds /\ NoTask.pc = "idle"
      /\ returns' = IF task[h].pc = "recordRefund" THEN Lost(returns, i) ELSE returns
  BY DEF Crash, Return, ledgerVars, NoTask
<1>3. G \in Nat /\ R \in Nat /\ returns[j] \in History /\ refunds[j] \in Nat /\ refunds'[j] = refunds[j]
  BY <1>1, <1>2, PastNat DEF TypeOK
<1>4. OneIf(AtJob(NoTask, "giveBack", j)) = 0 /\ OneIf(AtJob(NoTask, "recordRefund", j)) = 0
  BY <1>2 DEF OneIf, AtJob
<1>5. CASE AtJob(task[h], "recordRefund", j)
  <2>1. Counts(returns'[j], returns[j].moved, returns[j].lost + 1, returns[j].doubled)
    BY <1>1, <1>2, <1>5, PastLost DEF TypeOK, AtJob
  <2>2. OneIf(AtJob(task[h], "giveBack", j)) = 0 /\ OneIf(AtJob(task[h], "recordRefund", j)) = 1
    BY <1>5 DEF OneIf, AtJob
  <2>3. G' = G + 0 - 0 /\ R' = R + 0 - 1
    BY <1>1, <1>2, <1>4, <2>2, ReturningMove
  <2> QED BY <1>1, <1>3, <2>1, <2>3 DEF ReturnInv, History, Counts
<1>6. CASE ~AtJob(task[h], "recordRefund", j)
  <2>1. returns'[j] = returns[j]
    <3>1. CASE task[h].pc = "recordRefund"
      <4>1. i \in Jobs /\ i # j
        BY <1>1, <1>6, <3>1, TaskFields DEF TypeOK, AtJob
      <4> QED BY <1>1, <1>2, <3>1, <4>1, PastLost DEF TypeOK
    <3>2. CASE task[h].pc # "recordRefund"
      BY <1>2, <3>2
    <3> QED BY <3>1, <3>2
  <2>2. OneIf(AtJob(task[h], "recordRefund", j)) = 0 /\ OneIf(AtJob(task[h], "giveBack", j)) \in {0, 1}
    BY <1>6 DEF OneIf
  <2>3. G' = G + 0 - OneIf(AtJob(task[h], "giveBack", j)) /\ R' = R + 0 - 0
    BY <1>1, <1>2, <1>4, <2>2, ReturningMove
  <2> QED BY <1>1, <1>3, <2>1, <2>2, <2>3 DEF ReturnInv, History
<1> QED BY <1>5, <1>6

\* Who is cancelling a top-up after one handler changed what it does.
LEMMA CancellingMove ==
  ASSUME TypeOK, NEW h \in Handlers, NEW k, Become(h, k), NEW t
  PROVE  Cancelling(t)' => Cancelling(t) \/ (AtTopUp(k, "fail", t) /\ ~k.paid)
<1>1. \A g \in Handlers : task'[g] = IF g = h THEN k ELSE task[g]
  BY DEF Become, TypeOK
<1> QED BY <1>1 DEF Cancelling, AtTopUp

\* A call that is about something else.
LEMMA CreditFrame ==
  ASSUME TypeOK, NEW t \in TopUps, CreditInv(t), credits'[t] = credits[t], status'[t] = status[t],
         "CANCELLED" \in answers'[t] => "CANCELLED" \in answers[t],
         NEW h \in Handlers, NEW k, Become(h, k),
         \A label \in {"credit", "settle"} : ~AtTopUp(k, label, t) /\ ~AtTopUp(task[h], label, t),
         AtTopUp(k, "fail", t) => k.paid
  PROVE  CreditInv(t)'
<1>1. ASSUME NEW label \in {"credit", "settle"}
      PROVE  Size(Confirming(label, t))' = Size(Confirming(label, t))
  <2>1. OneIf(AtTopUp(k, label, t)) = 0 /\ OneIf(AtTopUp(task[h], label, t)) = 0
    BY DEF OneIf
  <2>2. Size(Confirming(label, t))' = Size(Confirming(label, t)) + 0 - 0
    BY <2>1, ConfirmingMove
  <2> QED BY <2>2, PastNat
<1>2. /\ Size(Confirming("credit", t))' = Size(Confirming("credit", t))
      /\ Size(Confirming("settle", t))' = Size(Confirming("settle", t))
  BY <1>1
<1>3. Cancelled(t)' => Cancelled(t)
  BY CancellingMove DEF Cancelled
<1> QED BY <1>2, <1>3 DEF CreditInv

LEMMA CreditSame ==
  ASSUME NEW t \in TopUps, CreditInv(t), UNCHANGED <<credits, task>>, status'[t] = status[t],
         "CANCELLED" \in answers'[t] => "CANCELLED" \in answers[t]
  PROVE  CreditInv(t)'
<1>1. /\ Size(Confirming("credit", t))' = Size(Confirming("credit", t))
      /\ Size(Confirming("settle", t))' = Size(Confirming("settle", t))
      /\ Cancelled(t)' => Cancelled(t)
  BY DEF Size, Confirming, Cancelled, Cancelling
<1> QED BY <1>1 DEF CreditInv

LEMMA CreditOpens ==
  ASSUME MoneyInv, NEW s \in TopUps, StartTopUp(s), NEW t \in TopUps
  PROVE  CreditInv(t)'
<1>1. TypeOK /\ CreditInv(t) /\ ToldInv
  BY DEF MoneyInv
<1>2. /\ status[s] = "absent" /\ status' = [status EXCEPT ![s] = "pending"]
      /\ UNCHANGED <<credits, task, answers>>
  BY DEF StartTopUp, historyVars
<1>3. CASE t # s
  BY <1>1, <1>2, <1>3, CreditSame DEF TypeOK
<1>4. CASE t = s
  <2>1. status[t] = "absent" /\ status'[t] = "pending"
    BY <1>1, <1>2, <1>4 DEF TypeOK
  <2>2. "CANCELLED" \notin answers[t] /\ ~Cancelling(t)
    BY <1>1, <2>1 DEF ToldInv, Cancelling
  <2>3. ~Cancelled(t)'
    BY <1>2, <2>1, <2>2 DEF Cancelled, Cancelling
  <2>4. /\ Size(Confirming("credit", t))' = Size(Confirming("credit", t))
        /\ Size(Confirming("settle", t))' = Size(Confirming("settle", t))
    BY <1>2 DEF Size, Confirming
  <2> QED BY <1>1, <1>2, <2>1, <2>3, <2>4 DEF CreditInv
<1> QED BY <1>3, <1>4

\* A confirmation or a cancellation begins. One that begins alone finds a pending
\* top-up that was only ever credited by calls that died.
LEMMA CreditBegins ==
  ASSUME MoneyInv, NEW h \in Handlers, NEW s \in TopUps, NEW t \in TopUps, NEW k,
         Become(h, k), task[h].pc = "idle", k.pc \in {"credit", "fail"}, k.topUp = s,
         k.pc = "credit" => status[s] = "pending",
         k.pc = "fail" => (k.paid <=> status[s] = "success") /\ status[s] # "absent",
         UNCHANGED <<status, answers>>, credits' = Began(credits, s, Overlaps(s))
  PROVE  CreditInv(t)'
<1> DEFINE C == Size(Confirming("credit", t))
           W == Size(Confirming("settle", t))
<1>1. TypeOK /\ CreditInv(t) /\ ToldInv
  BY DEF MoneyInv
<1>2. PICK another \in BOOLEAN : another <=> Overlaps(s)
  OBVIOUS
<1>3. credits' = Began(credits, s, another)
  BY <1>2 DEF Began
<1>4. CASE t # s
  <2>1. credits'[t] = credits[t]
    BY <1>1, <1>3, <1>4, PastBegan DEF TypeOK
  <2> QED BY <1>1, <1>4, <2>1, CreditFrame DEF AtTopUp
<1>5. CASE t = s
  <2>1. /\ OneIf(AtTopUp(k, "settle", t)) = 0
        /\ OneIf(AtTopUp(task[h], "settle", t)) = 0 /\ OneIf(AtTopUp(task[h], "credit", t)) = 0
        /\ OneIf(AtTopUp(k, "credit", t)) = IF k.pc = "credit" THEN 1 ELSE 0
    BY <1>5 DEF OneIf, AtTopUp
  <2>2. W' = W + 0 - 0 /\ C' = C + OneIf(AtTopUp(k, "credit", t)) - 0
    BY <1>1, <2>1, ConfirmingMove
  <2>3. C \in Nat /\ W \in Nat /\ credits[t] \in History
    BY <1>1, PastNat DEF TypeOK
  <2>4. Cancelled(t)' => Cancelled(t) \/ (k.pc = "fail" /\ ~k.paid)
    BY <1>1, <1>5, CancellingMove DEF Cancelled, AtTopUp
  <2>5. status'[t] = status[t]
    OBVIOUS
  <2>6. CASE another
    <3>1. Counts(credits'[t], credits[t].moved, credits[t].lost, credits[t].doubled + 1)
      BY <1>1, <1>3, <1>5, <2>6, PastBegan DEF TypeOK
    <3>2. k.pc = "credit" \/ k.pc = "fail"
      OBVIOUS
    <3>3. CASE k.pc = "credit"
      <4>1. C' = C + 1 /\ (Cancelled(t)' => Cancelled(t))
        BY <2>1, <2>2, <2>4, <3>3
      <4> QED BY <1>1, <2>2, <2>3, <2>5, <3>1, <4>1 DEF CreditInv, History, Counts
    <3>4. CASE k.pc = "fail"
      <4>1. C' = C
        BY <2>1, <2>2, <2>3, <3>4
      <4> QED BY <1>1, <2>2, <2>3, <2>5, <3>1, <4>1 DEF CreditInv, History, Counts
    <3> QED BY <3>2, <3>3, <3>4
  <2>7. CASE ~another
    <3>1. credits'[t] = credits[t]
      BY <1>1, <1>3, <1>5, <2>7, PastBegan DEF TypeOK
    <3>2. CASE status[t] = "pending"
      <4>1. \A g \in Handlers : ~OnTopUp(g, t)
        BY <1>2, <1>5, <2>7, <3>2 DEF Overlaps
      <4>2. Confirming("credit", t) = {} /\ Confirming("settle", t) = {} /\ ~Cancelling(t)
        BY <4>1 DEF Confirming, OnTopUp, Cancelling, AtTopUp
      <4>3. C = 0 /\ W = 0
        BY <4>2, SizeNat
      <4>4. ~Cancelled(t)
        BY <1>1, <3>2, <4>2 DEF Cancelled, ToldInv
      <4>5. credits[t].moved = credits[t].lost
        BY <1>1, <2>3, <3>2, <4>3 DEF CreditInv, History
      <4>6. k.pc = "credit" => ~Cancelled(t)'
        BY <2>4, <4>4
      <4>7. C' \in {0, 1} /\ W' = 0 /\ (C' = 1 => k.pc = "credit")
        BY <2>1, <2>2, <4>3
      <4> QED BY <2>3, <2>5, <3>1, <3>2, <4>5, <4>6, <4>7 DEF CreditInv, History
    <3>3. CASE status[t] # "pending"
      <4>1. k.pc = "fail" /\ C' = C
        BY <1>5, <2>1, <2>2, <2>3, <3>3
      <4>2. status[t] # "success" => status[t] = "failed"
        BY <1>1, <1>5, <3>3, <4>1 DEF TypeOK
      <4>3. Cancelled(t)' => Cancelled(t)
        BY <1>5, <2>4, <4>2 DEF Cancelled
      <4> QED BY <1>1, <2>2, <2>3, <2>5, <3>1, <4>1, <4>3 DEF CreditInv
    <3> QED BY <3>2, <3>3
  <2> QED BY <2>6, <2>7
<1> QED BY <1>4, <1>5

LEMMA CreditMoves ==
  ASSUME MoneyInv, NEW h \in Handlers, CreditTopUp(h), NEW t \in TopUps
  PROVE  CreditInv(t)'
<1> DEFINE s == task[h].topUp
           C == Size(Confirming("credit", t))
           W == Size(Confirming("settle", t))
<1>1. TypeOK /\ CreditInv(t)
  BY DEF MoneyInv
<1>2. task[h] \in [pc : {"credit", "settle"}, topUp : TopUps]
  BY <1>1 DEF CreditTopUp, TypeOK, Tasks, NoTask
<1>3. PICK k : k = [task[h] EXCEPT !.pc = "settle"]
  OBVIOUS
<1>4. k.pc = "settle" /\ k.topUp = s /\ task[h].pc = "credit" /\ Become(h, k) /\ s \in TopUps
      /\ UNCHANGED <<status, answers>> /\ credits' = Moved(credits, s)
  BY <1>2, <1>3 DEF CreditTopUp, Goto, ledgerVars
<1>5. CASE t # s
  <2>1. credits'[t] = credits[t]
    BY <1>1, <1>4, <1>5, PastMoved DEF TypeOK
  <2> QED BY <1>1, <1>4, <1>5, <2>1, CreditFrame DEF AtTopUp
<1>6. CASE t = s
  <2>1. /\ OneIf(AtTopUp(k, "credit", t)) = 0 /\ OneIf(AtTopUp(task[h], "credit", t)) = 1
        /\ OneIf(AtTopUp(k, "settle", t)) = 1 /\ OneIf(AtTopUp(task[h], "settle", t)) = 0
    BY <1>4, <1>6 DEF OneIf, AtTopUp
  <2>2. C' = C + 0 - 1 /\ W' = W + 1 - 0
    BY <1>1, <1>4, <2>1, ConfirmingMove
  <2>3. C \in Nat /\ W \in Nat /\ credits[t] \in History
    BY <1>1, PastNat DEF TypeOK
  <2>4. Counts(credits'[t], credits[t].moved + 1, credits[t].lost, credits[t].doubled)
    BY <1>1, <1>4, <1>6, PastMoved DEF TypeOK
  <2>5. status'[t] = status[t] /\ (Cancelled(t)' => Cancelled(t))
    BY <1>1, <1>4, CancellingMove DEF Cancelled, AtTopUp
  <2> QED BY <1>1, <2>2, <2>3, <2>4, <2>5 DEF CreditInv, History, Counts
<1> QED BY <1>5, <1>6

LEMMA CreditWrites ==
  ASSUME MoneyInv, NEW h \in Handlers, SettleTopUp(h), NEW t \in TopUps
  PROVE  CreditInv(t)'
<1> DEFINE s == task[h].topUp
           C == Size(Confirming("credit", t))
           W == Size(Confirming("settle", t))
<1>1. TypeOK /\ CreditInv(t)
  BY DEF MoneyInv
<1>2. s \in TopUps /\ task[h].pc = "settle" /\ Become(h, NoTask) /\ UNCHANGED credits
      /\ status' = [status EXCEPT ![s] = "success"] /\ NoTask.pc = "idle"
      /\ answers' = [answers EXCEPT ![s] = @ \cup {"PAID"}]
  BY <1>1, TaskFields DEF SettleTopUp, Return, TypeOK, NoTask, Tell
<1>3. "CANCELLED" \in answers'[t] => "CANCELLED" \in answers[t]
  BY <1>1, <1>2 DEF TypeOK
<1>4. CASE t # s
  <2>1. status'[t] = status[t]
    BY <1>1, <1>2, <1>4 DEF TypeOK
  <2> QED BY <1>1, <1>2, <1>3, <1>4, <2>1, CreditFrame DEF AtTopUp
<1>5. CASE t = s
  <2>1. /\ OneIf(AtTopUp(NoTask, "credit", t)) = 0 /\ OneIf(AtTopUp(task[h], "credit", t)) = 0
        /\ OneIf(AtTopUp(NoTask, "settle", t)) = 0 /\ OneIf(AtTopUp(task[h], "settle", t)) = 1
    BY <1>2, <1>5 DEF OneIf, AtTopUp
  <2>2. C' = C + 0 - 0 /\ W' = W + 0 - 1
    BY <1>1, <1>2, <2>1, ConfirmingMove
  <2>3. C \in Nat /\ W \in Nat /\ credits[t] \in History /\ credits'[t] = credits[t]
    BY <1>1, <1>2, PastNat DEF TypeOK
  <2>4. status'[t] = "success"
    BY <1>1, <1>2, <1>5 DEF TypeOK
  <2>5. Cancelled(t)' => Cancelled(t)
    BY <1>1, <1>2, <1>3, <2>4, CancellingMove DEF Cancelled, AtTopUp
  <2>6. credits[t].moved >= credits[t].lost + W
    BY <1>1, <2>3 DEF CreditInv, History
  <2> QED BY <1>1, <2>2, <2>3, <2>4, <2>5, <2>6 DEF CreditInv, History
<1> QED BY <1>4, <1>5

\* A call that fails a top-up has counted it as cancelled since it began.
LEMMA CreditFails ==
  ASSUME MoneyInv, NEW h \in Handlers, FailTopUp(h), NEW t \in TopUps
  PROVE  CreditInv(t)'
<1> DEFINE s == task[h].topUp
           C == Size(Confirming("credit", t))
           W == Size(Confirming("settle", t))
<1>1. TypeOK /\ CreditInv(t)
  BY DEF MoneyInv
<1>2. s \in TopUps /\ task[h].pc = "fail" /\ Become(h, NoTask) /\ UNCHANGED credits /\ NoTask.pc = "idle"
      /\ answers' = [answers EXCEPT ![s] = @ \cup {CancelState(h)}]
      /\ status' = IF ~task[h].paid /\ status[s] = "pending"
                   THEN [status EXCEPT ![s] = "failed"] ELSE status
  BY <1>1, TaskFields DEF FailTopUp, Failable, Return, TypeOK, NoTask, Tell, historyVars
<1>3. CASE t # s
  <2>1. status'[t] = status[t] /\ answers'[t] = answers[t]
    BY <1>1, <1>2, <1>3 DEF TypeOK
  <2> QED BY <1>1, <1>2, <1>3, <2>1, CreditFrame DEF AtTopUp
<1>4. CASE t = s
  <2>1. \A label \in {"credit", "settle"} : ~AtTopUp(NoTask, label, t) /\ ~AtTopUp(task[h], label, t)
    BY <1>2 DEF AtTopUp
  <2>2. ~AtTopUp(NoTask, "fail", t)
    BY <1>2 DEF AtTopUp
  <2>3. CASE task[h].paid
    <3>1. status'[t] = status[t] /\ CancelState(h) = "CANCELLED_AFTER_PAY"
      BY <1>2, <2>3 DEF CancelState
    <3>2. "CANCELLED" \in answers'[t] => "CANCELLED" \in answers[t]
      BY <1>1, <1>2, <1>4, <3>1 DEF TypeOK
    <3>3. credits'[t] = credits[t]
      BY <1>2
    <3> QED BY <1>1, <1>2, <2>1, <2>2, <3>1, <3>2, <3>3, CreditFrame
  <2>4. CASE ~task[h].paid
    <3>1. Cancelled(t)
      BY <1>2, <1>4, <2>4 DEF Cancelled, Cancelling, AtTopUp
    <3>2. status'[t] = "success" <=> status[t] = "success"
      BY <1>1, <1>2 DEF TypeOK
    <3>3. OneIf(AtTopUp(NoTask, "credit", t)) = 0 /\ OneIf(AtTopUp(task[h], "credit", t)) = 0
          /\ OneIf(AtTopUp(NoTask, "settle", t)) = 0 /\ OneIf(AtTopUp(task[h], "settle", t)) = 0
      BY <2>1 DEF OneIf
    <3>4. C' = C + 0 - 0 /\ W' = W + 0 - 0
      BY <1>1, <1>2, <3>3, ConfirmingMove
    <3>5. C \in Nat /\ W \in Nat /\ credits'[t] = credits[t]
      BY <1>1, <1>2, PastNat
    <3> QED BY <1>1, <3>1, <3>2, <3>4, <3>5 DEF CreditInv
  <2> QED BY <2>3, <2>4
<1> QED BY <1>3, <1>4

LEMMA CreditDies ==
  ASSUME MoneyInv, NEW h \in Handlers, Crash(h), NEW t \in TopUps
  PROVE  CreditInv(t)'
<1> DEFINE s == task[h].topUp
           C == Size(Confirming("credit", t))
           W == Size(Confirming("settle", t))
<1>1. TypeOK /\ CreditInv(t)
  BY DEF MoneyInv
<1>2. Become(h, NoTask) /\ UNCHANGED <<status, answers>> /\ NoTask.pc = "idle"
      /\ credits' = IF task[h].pc = "settle" THEN Lost(credits, s) ELSE credits
  BY DEF Crash, Return, ledgerVars, NoTask
<1>3. C \in Nat /\ W \in Nat /\ credits[t] \in History /\ status'[t] = status[t]
  BY <1>1, <1>2, PastNat DEF TypeOK
<1>4. OneIf(AtTopUp(NoTask, "credit", t)) = 0 /\ OneIf(AtTopUp(NoTask, "settle", t)) = 0
  BY <1>2 DEF OneIf, AtTopUp
<1>5. Cancelled(t)' => Cancelled(t)
  BY <1>1, <1>2, CancellingMove DEF Cancelled, AtTopUp
<1>6. CASE AtTopUp(task[h], "settle", t)
  <2>1. Counts(credits'[t], credits[t].moved, credits[t].lost + 1, credits[t].doubled)
    BY <1>1, <1>2, <1>6, PastLost DEF TypeOK, AtTopUp
  <2>2. OneIf(AtTopUp(task[h], "credit", t)) = 0 /\ OneIf(AtTopUp(task[h], "settle", t)) = 1
    BY <1>6 DEF OneIf, AtTopUp
  <2>3. C' = C + 0 - 0 /\ W' = W + 0 - 1
    BY <1>1, <1>2, <1>4, <2>2, ConfirmingMove
  <2> QED BY <1>1, <1>3, <1>5, <2>1, <2>3 DEF CreditInv, History, Counts
<1>7. CASE ~AtTopUp(task[h], "settle", t)
  <2>1. credits'[t] = credits[t]
    <3>1. CASE task[h].pc = "settle"
      <4>1. s \in TopUps /\ s # t
        BY <1>1, <1>7, <3>1, TaskFields DEF TypeOK, AtTopUp
      <4> QED BY <1>1, <1>2, <3>1, <4>1, PastLost DEF TypeOK
    <3>2. CASE task[h].pc # "settle"
      BY <1>2, <3>2
    <3> QED BY <3>1, <3>2
  <2>2. OneIf(AtTopUp(task[h], "settle", t)) = 0 /\ OneIf(AtTopUp(task[h], "credit", t)) \in {0, 1}
    BY <1>7 DEF OneIf
  <2>3. C' = C + 0 - OneIf(AtTopUp(task[h], "credit", t)) /\ W' = W + 0 - 0
    BY <1>1, <1>2, <1>4, <2>2, ConfirmingMove
  <2> QED BY <1>1, <1>3, <1>5, <2>1, <2>2, <2>3 DEF CreditInv, History
<1> QED BY <1>6, <1>7

\* A step that leaves the status of every top-up and what was told of it.
LEMMA ToldFrame ==
  ASSUME TypeOK, ToldInv, UNCHANGED <<status, answers, registered>>, NEW h \in Handlers, NEW k,
         Become(h, k), \A t \in TopUps : AtTopUp(k, "fail", t) => status[t] # "absent"
  PROVE  ToldInv'
<1>1. \A g \in Handlers : task'[g] = IF g = h THEN k ELSE task[g]
  BY DEF Become, TypeOK
<1> QED BY <1>1 DEF ToldInv, AtTopUp

LEMMA ToldCallback ==
  ASSUME TypeOK, ToldInv, NEW h \in Handlers, Callback(h)
  PROVE  ToldInv'
<1>1. ASSUME NEW t \in TopUps, ConfirmTopUp(h, t) PROVE ToldInv'
  <2>1. CASE Become(h, [pc |-> "credit", topUp |-> t]) /\ UNCHANGED answers
    <3>1. PICK k : k = [pc |-> "credit", topUp |-> t]
      OBVIOUS
    <3>2. k.pc = "credit" /\ Become(h, k)
      BY <2>1, <3>1
    <3> QED BY <1>1, <2>1, <3>2, ToldFrame DEF ConfirmTopUp, ledgerVars, AtTopUp
  <2>2. CASE UNCHANGED <<task, answers>>
    BY <1>1, <2>2 DEF ConfirmTopUp, ledgerVars, ToldInv
  <2>3. CASE UNCHANGED task /\ status[t] = "success" /\ Tell(t, "PAID")
    <3>1. UNCHANGED <<task, status, registered>> /\ answers' = [answers EXCEPT ![t] = @ \cup {"PAID"}]
      BY <1>1, <2>3 DEF ConfirmTopUp, ledgerVars, Tell
    <3>2. ASSUME NEW s \in TopUps
          PROVE  /\ "CANCELLED" \in answers'[s] => "CANCELLED" \in answers[s]
                 /\ "PAID" \in answers'[s] => "PAID" \in answers[s] \/ s = t
      BY <3>1 DEF TypeOK
    <3> QED BY <2>3, <3>1, <3>2 DEF ToldInv
  <2> QED BY <1>1, <2>1, <2>2, <2>3 DEF ConfirmTopUp
<1>2. ASSUME NEW t \in TopUps, CancelTransaction(h, t) PROVE ToldInv'
  <2>1. PICK k : k = [pc |-> "fail", topUp |-> t, paid |-> status[t] = "success"]
    OBVIOUS
  <2>2. k.topUp = t /\ Become(h, k) /\ UNCHANGED <<status, answers, registered>>
    BY <1>2, <2>1 DEF CancelTransaction, ledgerVars
  <2>3. status[t] # "absent"
    BY <1>2 DEF CancelTransaction, Known, ToldInv
  <2> QED BY <2>2, <2>3, ToldFrame DEF AtTopUp
<1>3. CASE CreditTopUp(h)
  <2>1. task[h] \in [pc : {"credit", "settle"}, topUp : TopUps]
    BY <1>3 DEF CreditTopUp, TypeOK, Tasks, NoTask
  <2>2. PICK k : k = [task[h] EXCEPT !.pc = "settle"]
    OBVIOUS
  <2>3. k.pc = "settle" /\ Become(h, k) /\ UNCHANGED <<status, answers, registered>>
    BY <1>3, <2>1, <2>2 DEF CreditTopUp, Goto, ledgerVars
  <2> QED BY <2>3, ToldFrame DEF AtTopUp
<1>4. CASE SettleTopUp(h)
  <2>1. PICK s \in TopUps : s = task[h].topUp
    BY <1>4, TaskFields DEF SettleTopUp, TypeOK
  <2>2. /\ task' = [task EXCEPT ![h] = NoTask] /\ UNCHANGED registered
        /\ status' = [status EXCEPT ![s] = "success"]
        /\ answers' = [answers EXCEPT ![s] = @ \cup {"PAID"}]
    BY <1>4, <2>1 DEF SettleTopUp, Return, Become, Tell
  <2>3. \A g \in Handlers : task'[g] = IF g = h THEN NoTask ELSE task[g]
    BY <2>2 DEF TypeOK
  <2>4. ASSUME NEW t \in TopUps, t # s PROVE status'[t] = status[t] /\ answers'[t] = answers[t]
    BY <2>2, <2>4 DEF TypeOK
  <2>5. status'[s] = "success"
    BY <2>2 DEF TypeOK
  <2> QED BY <2>2, <2>3, <2>4, <2>5 DEF ToldInv, AtTopUp, NoTask
<1>5. CASE FailTopUp(h)
  <2>1. PICK s \in TopUps : s = task[h].topUp
    BY <1>5, TaskFields DEF FailTopUp, TypeOK
  <2>2. /\ task' = [task EXCEPT ![h] = NoTask] /\ UNCHANGED registered
        /\ answers' = [answers EXCEPT ![s] = @ \cup {CancelState(h)}]
        /\ status' = IF ~task[h].paid /\ status[s] = "pending"
                     THEN [status EXCEPT ![s] = "failed"] ELSE status
    BY <1>5, <2>1 DEF FailTopUp, Failable, Return, Become, Tell
  <2>3. \A g \in Handlers : task'[g] = IF g = h THEN NoTask ELSE task[g]
    BY <2>2 DEF TypeOK
  <2>4. ASSUME NEW t \in TopUps, t # s PROVE status'[t] = status[t] /\ answers'[t] = answers[t]
    BY <2>2, <2>4 DEF TypeOK
  <2>5. status[s] # "absent"
    BY <1>5, <2>1 DEF FailTopUp, ToldInv, AtTopUp
  <2>6. /\ status'[s] # "absent" /\ (status[s] = "success" => status'[s] = "success")
        /\ ~task[h].paid => status'[s] \in {"failed", "success"}
        /\ status[s] \in {"failed", "success"} => status'[s] \in {"failed", "success"}
    BY <2>2, <2>5 DEF TypeOK
  <2>7. /\ "PAID" \in answers'[s] => "PAID" \in answers[s]
        /\ "CANCELLED" \in answers'[s] => "CANCELLED" \in answers[s] \/ ~task[h].paid
    BY <2>2 DEF TypeOK, CancelState
  <2> QED BY <2>2, <2>3, <2>4, <2>6, <2>7 DEF ToldInv, AtTopUp, NoTask
<1> QED BY <1>1, <1>2, <1>3, <1>4, <1>5 DEF Callback

LEMMA ToldNext == ASSUME TypeOK, ToldInv, [Next]_vars PROVE ToldInv'
<1>1. CASE UNCHANGED vars
  BY <1>1 DEF vars, ledgerVars, ToldInv
<1>2. ASSUME NEW t \in TopUps, StartTopUp(t) PROVE ToldInv'
  <2>1. /\ status[t] = "absent" /\ status' = [status EXCEPT ![t] = "pending"]
        /\ UNCHANGED <<answers, registered, task>>
    BY <1>2 DEF StartTopUp
  <2>2. \A s \in TopUps : status'[s] = IF s = t THEN "pending" ELSE status[s]
    BY <2>1 DEF TypeOK
  <2> QED BY <2>1, <2>2 DEF ToldInv
<1>3. ASSUME NEW t \in TopUps, CreateTransaction(t) PROVE ToldInv'
  BY <1>3 DEF CreateTransaction, ToldInv
<1>4. ASSUME NEW u \in Users, NEW j \in Jobs, ChargeFee(u, j) PROVE ToldInv'
  BY <1>4 DEF ChargeFee, ToldInv
<1>5. ASSUME NEW h \in Handlers, NEW j \in Jobs, NEW u \in Users, RefundOrderFee(h, j, u)
      PROVE  ToldInv'
  BY <1>5, ToldFrame DEF RefundOrderFee, ledgerVars, AtTopUp
<1>6. ASSUME NEW h \in Handlers, NEW c \in Corrections, AdjustBalance(h, c) PROVE ToldInv'
  BY <1>6, ToldFrame DEF AdjustBalance, ledgerVars, AtTopUp
<1>7. ASSUME NEW h \in Handlers, GiveBackFee(h) PROVE ToldInv'
  <2>1. task[h] \in [pc : {"giveBack", "recordRefund"}, job : Jobs, user : Users]
    BY <1>7 DEF GiveBackFee, TypeOK, Tasks, NoTask
  <2>2. PICK k : k = [task[h] EXCEPT !.pc = "recordRefund"]
    OBVIOUS
  <2>3. k.pc = "recordRefund" /\ Become(h, k) /\ UNCHANGED <<status, answers, registered>>
    BY <1>7, <2>1, <2>2 DEF GiveBackFee, Goto, ledgerVars
  <2> QED BY <2>3, ToldFrame DEF AtTopUp
<1>8. ASSUME NEW h \in Handlers, RecordRefund(h) \/ RecordCorrection(h) \/ Crash(h) PROVE ToldInv'
  <2>1. Become(h, NoTask) /\ UNCHANGED <<status, answers, registered>> /\ NoTask.pc = "idle"
    BY <1>8 DEF RecordRefund, RecordCorrection, Crash, Return, ledgerVars, NoTask
  <2> QED BY <2>1, ToldFrame DEF AtTopUp
<1> QED BY <1>1, <1>2, <1>3, <1>4, <1>5, <1>6, <1>7, <1>8, ToldCallback DEF Next, Admin

LEMMA ReturnNext == ASSUME MoneyInv, [Next]_vars, NEW j \in Jobs PROVE ReturnInv(j)'
<1>1. TypeOK /\ ReturnInv(j)
  BY DEF MoneyInv
<1>2. CASE UNCHANGED vars
  BY <1>1, <1>2, ReturnSame DEF vars, ledgerVars, historyVars
<1>3. ASSUME NEW t \in TopUps, StartTopUp(t) \/ CreateTransaction(t) PROVE ReturnInv(j)'
  BY <1>1, <1>3, ReturnSame DEF StartTopUp, CreateTransaction, historyVars
<1>4. ASSUME NEW u \in Users, NEW i \in Jobs, ChargeFee(u, i) PROVE ReturnInv(j)'
  BY <1>1, <1>4, ReturnSame DEF ChargeFee, historyVars
<1>5. ASSUME NEW h \in Handlers, Callback(h) PROVE ReturnInv(j)'
  <2>1. UNCHANGED <<returns, refunds>>
    BY <1>5 DEF Callback, ConfirmTopUp, CancelTransaction, CreditTopUp, SettleTopUp, FailTopUp,
                historyVars, ledgerVars
  <2>2. /\ task[h].pc \notin {"giveBack", "recordRefund"}
        /\ \/ UNCHANGED task
           \/ \E k : k.pc \notin {"giveBack", "recordRefund"} /\ Become(h, k)
    <3>1. ASSUME NEW t \in TopUps, ConfirmTopUp(h, t) \/ CancelTransaction(h, t)
          PROVE  /\ task[h].pc = "idle"
                 /\ \/ UNCHANGED task
                    \/ \E k : k.pc \notin {"giveBack", "recordRefund"} /\ Become(h, k)
      BY <3>1 DEF ConfirmTopUp, CancelTransaction
    <3>2. ASSUME CreditTopUp(h)
          PROVE  task[h].pc = "credit" /\ \E k : k.pc = "settle" /\ Become(h, k)
      <4>1. task[h] \in [pc : {"credit", "settle"}, topUp : TopUps]
        BY <1>1, <3>2 DEF CreditTopUp, TypeOK, Tasks, NoTask
      <4>2. [task[h] EXCEPT !.pc = "settle"].pc = "settle"
        BY <4>1
      <4> QED BY <3>2, <4>2 DEF CreditTopUp, Goto
    <3>3. ASSUME SettleTopUp(h) \/ FailTopUp(h)
          PROVE  task[h].pc \in {"settle", "fail"} /\ Become(h, NoTask) /\ NoTask.pc = "idle"
      BY <3>3 DEF SettleTopUp, FailTopUp, Return, NoTask
    <3>4. CASE \E t \in TopUps : ConfirmTopUp(h, t) \/ CancelTransaction(h, t)
      BY <3>1, <3>4
    <3>5. CASE CreditTopUp(h)
      BY <3>2, <3>5
    <3>6. CASE SettleTopUp(h) \/ FailTopUp(h)
      BY <3>3, <3>6
    <3> QED BY <1>5, <3>4, <3>5, <3>6 DEF Callback
  <2>3. CASE UNCHANGED task
    BY <1>1, <2>1, <2>3, ReturnSame
  <2>4. ASSUME NEW k, k.pc \notin {"giveBack", "recordRefund"}, Become(h, k) PROVE ReturnInv(j)'
    BY <1>1, <2>1, <2>2, <2>4, ReturnFrame DEF AtJob
  <2> QED BY <2>2, <2>3, <2>4
<1>6. ASSUME NEW h \in Handlers, NEW c \in Corrections, AdjustBalance(h, c) PROVE ReturnInv(j)'
  <2>1. PICK k : k = [pc |-> "recordCorrection", correction |-> c]
    OBVIOUS
  <2>2. k.pc = "recordCorrection" /\ task[h].pc = "idle" /\ Become(h, k) /\ UNCHANGED <<returns, refunds>>
    BY <1>6, <2>1 DEF AdjustBalance, ledgerVars, historyVars
  <2> QED BY <1>1, <2>2, ReturnFrame DEF AtJob
<1>7. ASSUME NEW h \in Handlers, RecordCorrection(h) PROVE ReturnInv(j)'
  <2>1. Become(h, NoTask) /\ task[h].pc = "recordCorrection" /\ NoTask.pc = "idle" /\ UNCHANGED <<returns, refunds>>
    BY <1>7 DEF RecordCorrection, Return, historyVars, NoTask
  <2> QED BY <1>1, <2>1, ReturnFrame DEF AtJob
<1> QED BY <1>2, <1>3, <1>4, <1>5, <1>6, <1>7, ReturnBegins, ReturnMoves, ReturnWrites, ReturnDies
        DEF Next, Admin

LEMMA CreditNext == ASSUME MoneyInv, [Next]_vars, NEW t \in TopUps PROVE CreditInv(t)'
<1>1. TypeOK /\ CreditInv(t) /\ ToldInv
  BY DEF MoneyInv
<1>2. CASE UNCHANGED vars
  BY <1>1, <1>2, CreditSame DEF vars, ledgerVars, historyVars
<1>3. ASSUME NEW s \in TopUps, CreateTransaction(s) PROVE CreditInv(t)'
  BY <1>1, <1>3, CreditSame DEF CreateTransaction, historyVars
<1>4. ASSUME NEW u \in Users, NEW i \in Jobs, ChargeFee(u, i) PROVE CreditInv(t)'
  BY <1>1, <1>4, CreditSame DEF ChargeFee, historyVars
<1>5. ASSUME NEW h \in Handlers, NEW s \in TopUps, ConfirmTopUp(h, s) PROVE CreditInv(t)'
  <2>1. CASE Settleable(s)
    <3>1. PICK k : k = [pc |-> "credit", topUp |-> s]
      OBVIOUS
    <3>2. /\ k.pc = "credit" /\ k.topUp = s /\ task[h].pc = "idle" /\ Become(h, k)
          /\ status[s] = "pending" /\ UNCHANGED <<status, answers>>
          /\ credits' = Began(credits, s, Overlaps(s))
      BY <1>5, <2>1, <3>1 DEF ConfirmTopUp, Settleable, ledgerVars
    <3> QED BY <3>2, CreditBegins
  <2>2. CASE ~Settleable(s)
    <3>1. UNCHANGED <<task, credits, status>> /\ (UNCHANGED answers \/ Tell(s, "PAID"))
      BY <1>5, <2>2 DEF ConfirmTopUp, ledgerVars
    <3>2. "CANCELLED" \in answers'[t] => "CANCELLED" \in answers[t]
      BY <1>1, <3>1 DEF Tell, TypeOK
    <3> QED BY <1>1, <3>1, <3>2, CreditSame
  <2> QED BY <2>1, <2>2
<1>6. ASSUME NEW h \in Handlers, NEW s \in TopUps, CancelTransaction(h, s) PROVE CreditInv(t)'
  <2>1. PICK k : k = [pc |-> "fail", topUp |-> s, paid |-> status[s] = "success"]
    OBVIOUS
  <2>2. /\ k.pc = "fail" /\ k.topUp = s /\ (k.paid <=> status[s] = "success") /\ Become(h, k)
        /\ task[h].pc = "idle" /\ UNCHANGED <<status, answers>>
        /\ credits' = Began(credits, s, Overlaps(s))
    BY <1>6, <2>1 DEF CancelTransaction, ledgerVars
  <2>3. status[s] # "absent"
    BY <1>1, <1>6 DEF CancelTransaction, Known, ToldInv
  <2> QED BY <2>2, <2>3, CreditBegins
<1>7. ASSUME NEW h \in Handlers, Admin(h) PROVE CreditInv(t)'
  <2>1. UNCHANGED <<credits, status, answers>>
    BY <1>7 DEF Admin, RefundOrderFee, AdjustBalance, GiveBackFee, RecordRefund, RecordCorrection,
                historyVars, ledgerVars
  <2>2. /\ task[h].pc \notin {"credit", "settle", "fail"}
        /\ \E k : k.pc \notin {"credit", "settle", "fail"} /\ Become(h, k)
    <3>1. ASSUME NEW j \in Jobs, NEW u \in Users, RefundOrderFee(h, j, u)
          PROVE  task[h].pc = "idle" /\ \E k : k.pc = "giveBack" /\ Become(h, k)
      BY <3>1 DEF RefundOrderFee
    <3>2. ASSUME NEW c \in Corrections, AdjustBalance(h, c)
          PROVE  task[h].pc = "idle" /\ \E k : k.pc = "recordCorrection" /\ Become(h, k)
      BY <3>2 DEF AdjustBalance
    <3>3. ASSUME GiveBackFee(h)
          PROVE  task[h].pc = "giveBack" /\ \E k : k.pc = "recordRefund" /\ Become(h, k)
      <4>1. task[h] \in [pc : {"giveBack", "recordRefund"}, job : Jobs, user : Users]
        BY <1>1, <3>3 DEF GiveBackFee, TypeOK, Tasks, NoTask
      <4>2. [task[h] EXCEPT !.pc = "recordRefund"].pc = "recordRefund"
        BY <4>1
      <4> QED BY <3>3, <4>2 DEF GiveBackFee, Goto
    <3>4. ASSUME RecordRefund(h) \/ RecordCorrection(h)
          PROVE  task[h].pc \in {"recordRefund", "recordCorrection"} /\ Become(h, NoTask) /\ NoTask.pc = "idle"
      BY <3>4 DEF RecordRefund, RecordCorrection, Return, NoTask
    <3>5. CASE \E j \in Jobs, u \in Users : RefundOrderFee(h, j, u)
      BY <3>1, <3>5
    <3>6. CASE \E c \in Corrections : AdjustBalance(h, c)
      BY <3>2, <3>6
    <3>7. CASE GiveBackFee(h)
      BY <3>3, <3>7
    <3>8. CASE RecordRefund(h) \/ RecordCorrection(h)
      BY <3>4, <3>8
    <3> QED BY <1>7, <3>5, <3>6, <3>7, <3>8 DEF Admin
  <2>3. PICK k : k.pc \notin {"credit", "settle", "fail"} /\ Become(h, k)
    BY <2>2
  <2> QED BY <1>1, <2>1, <2>2, <2>3, CreditFrame DEF AtTopUp
<1> QED BY <1>2, <1>3, <1>4, <1>5, <1>6, <1>7, CreditOpens, CreditMoves, CreditWrites, CreditFails,
           CreditDies DEF Next, Callback

LEMMA MoneyNext == ASSUME MoneyInv, [Next]_vars PROVE MoneyInv'
<1>1. TypeOK' /\ ToldInv'
  BY TypeNext, ToldNext DEF MoneyInv
<1>2. ASSUME NEW j \in Jobs PROVE ReturnInv(j)'
  BY ReturnNext
<1>3. ASSUME NEW t \in TopUps PROVE CreditInv(t)'
  BY CreditNext
<1> QED BY <1>1, <1>2, <1>3 DEF MoneyInv

LEMMA MoneyInit == Init => MoneyInv
<1> SUFFICES ASSUME Init PROVE MoneyInv
  OBVIOUS
<1>1. TypeOK
  BY TypeInit
<1>2. ToldInv
  BY DEF Init, ToldInv, AtTopUp, NoTask
<1>3. \A label, p : Confirming(label, p) = {} \/ label = "idle"
  BY DEF Init, Confirming, NoTask
<1>4. \A label, p : Returning(label, p) = {} \/ label = "idle"
  BY DEF Init, Returning, NoTask
<1>5. ASSUME NEW j \in Jobs PROVE ReturnInv(j)
  <2>1. Size(Returning("giveBack", j)) = 0 /\ Size(Returning("recordRefund", j)) = 0
    BY <1>4, SizeNat
  <2>2. Counts(returns[j], 0, 0, 0) /\ refunds[j] = 0
    BY DEF Init, NoHistory, Counts
  <2> QED BY <2>1, <2>2 DEF ReturnInv, Counts
<1>6. ASSUME NEW t \in TopUps PROVE CreditInv(t)
  <2>1. Size(Confirming("credit", t)) = 0 /\ Size(Confirming("settle", t)) = 0
    BY <1>3, SizeNat
  <2>2. Counts(credits[t], 0, 0, 0) /\ status[t] = "absent" /\ ~Cancelled(t)
    BY DEF Init, NoHistory, Counts, Cancelled, Cancelling, AtTopUp, NoTask
  <2> QED BY <2>1, <2>2 DEF CreditInv, Counts
<1> QED BY <1>1, <1>2, <1>5, <1>6 DEF MoneyInv

\* However calls overlap and whoever dies half-way: a top-up is credited, and a
\* job's fee given back, once, and once more at most for each call that died with
\* the money moved and nothing written and for each that began while another call
\* about the same payment was under way.
THEOREM MoneyMovesOnce == Spec => []MovedOnce
<1>1. MoneyInv => MovedOnce
  <2> SUFFICES ASSUME MoneyInv PROVE MovedOnce
    OBVIOUS
  <2>1. TypeOK
    BY DEF MoneyInv
  <2>2. ASSUME NEW t \in TopUps PROVE credits[t].moved <= 1 + credits[t].lost + credits[t].doubled
    <3>1. CreditInv(t) /\ Size(Confirming("credit", t)) \in Nat /\ credits[t] \in History
      BY <2>1, PastNat DEF MoneyInv, TypeOK
    <3> QED BY <3>1 DEF CreditInv, History
  <2>3. ASSUME NEW j \in Jobs PROVE returns[j].moved <= 1 + returns[j].lost + returns[j].doubled
    <3>1. /\ ReturnInv(j) /\ returns[j] \in History /\ refunds[j] \in Nat
          /\ Size(Returning("giveBack", j)) \in Nat /\ Size(Returning("recordRefund", j)) \in Nat
      BY <2>1, PastNat DEF MoneyInv, TypeOK
    <3> QED BY <3>1 DEF ReturnInv, History
  <2> QED BY <2>2, <2>3 DEF MovedOnce
<1> QED BY <1>1, MoneyInit, MoneyNext, PTL DEF Spec

\* Once Payme was told that a payment was cancelled before it was paid, the wallet is
\* credited for it only by a call that died right after or one that overlapped
\* another about the payment; if none overlapped the payment stays failed and is
\* never reported as paid.
THEOREM CancelledStaysUnpaid == Spec => []CancelledIsUnpaid
<1>1. MoneyInv => CancelledIsUnpaid
  <2> SUFFICES ASSUME MoneyInv, NEW t \in TopUps, "CANCELLED" \in answers[t]
               PROVE  /\ credits[t].moved <= credits[t].lost + credits[t].doubled
                      /\ credits[t].doubled = 0 => status[t] = "failed" /\ "PAID" \notin answers[t]
    BY DEF CancelledIsUnpaid
  <2>1. TypeOK /\ ToldInv /\ CreditInv(t) /\ Cancelled(t)
    BY DEF MoneyInv, Cancelled
  <2>2. /\ Size(Confirming("credit", t)) \in Nat /\ Size(Confirming("settle", t)) \in Nat
        /\ credits[t] \in History
    BY <2>1, PastNat DEF TypeOK
  <2>3. credits[t].moved <= credits[t].lost + credits[t].doubled
    BY <2>1, <2>2 DEF CreditInv, History
  <2>4. ASSUME credits[t].doubled = 0 PROVE status[t] # "success"
    BY <2>1, <2>2, <2>3, <2>4 DEF CreditInv, History
  <2>5. status[t] \in {"failed", "success"} /\ ("PAID" \in answers[t] => status[t] = "success")
    BY <2>1 DEF ToldInv
  <2> QED BY <2>3, <2>4, <2>5
<1> QED BY <1>1, MoneyInit, MoneyNext, PTL DEF Spec


-----------------------------------------------------------------------------
(* The books.  Between the two commands of a handler the balance is ahead  *)
(* of the ledger by what the handler has still to write down; once every   *)
(* handler has returned, what is left is what went adrift.                 *)

\* A job is charged to one user, the one who gets the fee back; nothing is given
\* back of a job that was not charged.
FeeInv ==
  /\ \A j \in Jobs, u, v \in Users : <<j, u>> \in chargedTo /\ <<j, v>> \in chargedTo => u = v
  /\ \A h \in Handlers, j \in Jobs : OnJob(h, j) => <<j, task[h].user>> \in chargedTo
  /\ \A j \in Jobs : refunds[j] # 0 => IsCharged(j)

\* A correction is made by one handler at a time, and not once it has its entry.
CorrectionInv ==
  \A c \in Corrections, g, h \in Handlers :
    OnCorrection(g, c) => c \notin corrected /\ (OnCorrection(h, c) => g = h)

Settled(u) == {t \in TopUps : OwnerOf[t] = u /\ status[t] = "success"}
Charged(u) == {j \in Jobs : <<j, u>> \in chargedTo}
Adjusted(u) == {c \in corrected : CorrectionOf[c].user = u}
Finite(u) == IsFiniteSet(Settled(u)) /\ IsFiniteSet(Charged(u)) /\ IsFiniteSet(Adjusted(u))

\* What all the handlers have still to write down on a user's balance.
OnTheWay(u) == [h \in Handlers |-> Unwritten(u, task[h])]
Due(u) == SumFunctionOnSet(OnTheWay(u), Handlers)

BookOf(u) == Finite(u) /\ balance[u] = Statement(u) + adrift[u] + Due(u)

BooksInv == TypeOK /\ FeeInv /\ CorrectionInv /\ \A u \in Users : BookOf(u)

\* A handler that goes on with something else than a refund, or does nothing.
LEMMA FeeElsewhere ==
  ASSUME TypeOK, FeeInv, NEW h \in Handlers, UNCHANGED <<chargedTo, refunds>>,
         \/ UNCHANGED task
         \/ \E t : t.pc \notin {"giveBack", "recordRefund"} /\ Become(h, t)
  PROVE  FeeInv'
<1>1. ASSUME NEW g \in Handlers, NEW j \in Jobs, OnJob(g, j)'
      PROVE  OnJob(g, j) /\ task'[g] = task[g]
  BY <1>1 DEF OnJob, Become, TypeOK
<1> QED BY <1>1 DEF FeeInv, IsCharged

LEMMA FeeNext == ASSUME TypeOK, FeeInv, [Next]_vars PROVE FeeInv'
<1>1. CASE UNCHANGED vars
  BY <1>1 DEF vars, ledgerVars, FeeInv, OnJob, IsCharged
<1>2. ASSUME NEW t \in TopUps, StartTopUp(t) \/ CreateTransaction(t) PROVE FeeInv'
  BY <1>2 DEF StartTopUp, CreateTransaction, FeeInv, OnJob, IsCharged
<1>3. ASSUME NEW u \in Users, NEW j \in Jobs, ChargeFee(u, j) PROVE FeeInv'
  <2>1. ~IsCharged(j) /\ chargedTo' = chargedTo \cup {<<j, u>>} /\ UNCHANGED <<refunds, task>>
    BY <1>3 DEF ChargeFee
  <2> QED BY <2>1 DEF FeeInv, OnJob, IsCharged
<1>4. ASSUME NEW h \in Handlers, Callback(h) PROVE FeeInv'
  <2>1. ASSUME NEW t \in TopUps, ConfirmTopUp(h, t) PROVE FeeInv'
    BY <2>1, FeeElsewhere DEF ConfirmTopUp, ledgerVars
  <2>2. ASSUME NEW t \in TopUps, CancelTransaction(h, t) PROVE FeeInv'
    BY <2>2, FeeElsewhere DEF CancelTransaction, ledgerVars
  <2>3. CASE CreditTopUp(h)
    <3>1. task[h] \in [pc : {"credit", "settle"}, topUp : TopUps]
      BY <2>3 DEF CreditTopUp, TypeOK, Tasks, NoTask
    <3>2. [task[h] EXCEPT !.pc = "settle"].pc = "settle"
      BY <3>1
    <3> QED BY <2>3, <3>2, FeeElsewhere DEF CreditTopUp, Goto, ledgerVars
  <2>4. CASE SettleTopUp(h) \/ FailTopUp(h)
    BY <2>4, FeeElsewhere DEF SettleTopUp, FailTopUp, Return, NoTask
  <2> QED BY <1>4, <2>1, <2>2, <2>3, <2>4 DEF Callback
<1>5. ASSUME NEW h \in Handlers, NEW j \in Jobs, NEW u \in Users, RefundOrderFee(h, j, u)
      PROVE  FeeInv'
  <2>1. /\ Become(h, [pc |-> "giveBack", job |-> j, user |-> u])
        /\ UNCHANGED <<chargedTo, refunds>> /\ <<j, u>> \in chargedTo
    BY <1>5 DEF RefundOrderFee, ledgerVars
  <2>2. ASSUME NEW g \in Handlers, NEW i \in Jobs, OnJob(g, i)'
        PROVE  <<i, task'[g].user>> \in chargedTo
    BY <2>1, <2>2 DEF OnJob, Become, TypeOK, FeeInv
  <2> QED BY <2>1, <2>2 DEF FeeInv, IsCharged
<1>6. ASSUME NEW h \in Handlers, NEW c \in Corrections, AdjustBalance(h, c) PROVE FeeInv'
  BY <1>6, FeeElsewhere DEF AdjustBalance, ledgerVars
<1>7. ASSUME NEW h \in Handlers, GiveBackFee(h) PROVE FeeInv'
  <2>1. task[h] \in [pc : {"giveBack", "recordRefund"}, job : Jobs, user : Users]
    BY <1>7 DEF GiveBackFee, TypeOK, Tasks, NoTask
  <2>2. PICK k : k = [task[h] EXCEPT !.pc = "recordRefund"]
    OBVIOUS
  <2>3. k.job = task[h].job /\ k.user = task[h].user
    BY <2>1, <2>2
  <2>4. task' = [task EXCEPT ![h] = k] /\ UNCHANGED <<chargedTo, refunds>> /\ task[h].pc = "giveBack"
    BY <1>7, <2>2 DEF GiveBackFee, Goto, Become, ledgerVars
  <2>5. ASSUME NEW g \in Handlers, NEW i \in Jobs, OnJob(g, i)'
        PROVE  OnJob(g, i) /\ task'[g].user = task[g].user
    BY <2>3, <2>4, <2>5 DEF OnJob, TypeOK
  <2> QED BY <2>4, <2>5 DEF FeeInv, IsCharged
<1>8. ASSUME NEW h \in Handlers, RecordRefund(h) PROVE FeeInv'
  <2>1. PICK j \in Jobs : j = task[h].job /\ OnJob(h, j)
    BY <1>8, TaskFields DEF RecordRefund, TypeOK, OnJob
  <2>2. /\ task' = [task EXCEPT ![h] = NoTask] /\ refunds' = [refunds EXCEPT ![j] = @ + 1]
        /\ UNCHANGED chargedTo
    BY <1>8, <2>1 DEF RecordRefund, Return, Become
  <2>3. IsCharged(j)
    <3>1. task[h].user \in Users /\ <<j, task[h].user>> \in chargedTo
      BY <1>8, <2>1, TaskFields DEF RecordRefund, TypeOK, FeeInv
    <3> QED BY <3>1 DEF IsCharged
  <2>4. ASSUME NEW g \in Handlers, NEW i \in Jobs, OnJob(g, i)'
        PROVE  OnJob(g, i) /\ task'[g] = task[g]
    BY <2>2, <2>4 DEF OnJob, TypeOK, NoTask
  <2> QED BY ZenonT(30), <2>2, <2>3, <2>4 DEF FeeInv, IsCharged, TypeOK
<1>9. ASSUME NEW h \in Handlers, RecordCorrection(h) \/ Crash(h) PROVE FeeInv'
  BY <1>9, FeeElsewhere DEF RecordCorrection, Crash, Return, NoTask, ledgerVars
<1> QED BY <1>1, <1>2, <1>3, <1>4, <1>5, <1>6, <1>7, <1>8, <1>9 DEF Next, Admin


LEMMA CorrectionNext == ASSUME TypeOK, CorrectionInv, [Next]_vars PROVE CorrectionInv'
<1>1. ASSUME UNCHANGED <<task, corrected>> PROVE CorrectionInv'
  BY <1>1 DEF CorrectionInv, OnCorrection
<1>2. ASSUME NEW h \in Handlers, NEW k, k.pc # "recordCorrection", Become(h, k), UNCHANGED corrected
      PROVE  CorrectionInv'
  <2>1. \A g \in Handlers : task'[g] = IF g = h THEN k ELSE task[g]
    BY <1>2 DEF Become, TypeOK
  <2>2. \A g \in Handlers, c \in Corrections : OnCorrection(g, c)' => OnCorrection(g, c)
    BY <1>2, <2>1 DEF OnCorrection
  <2> QED BY <1>2, <2>2 DEF CorrectionInv
<1>3. CASE UNCHANGED vars
  BY <1>1, <1>3 DEF vars, ledgerVars
<1>4. ASSUME NEW t \in TopUps, StartTopUp(t) \/ CreateTransaction(t) PROVE CorrectionInv'
  BY <1>1, <1>4 DEF StartTopUp, CreateTransaction
<1>5. ASSUME NEW u \in Users, NEW j \in Jobs, ChargeFee(u, j) PROVE CorrectionInv'
  BY <1>1, <1>5 DEF ChargeFee
<1>6. ASSUME NEW h \in Handlers, Callback(h) PROVE CorrectionInv'
  <2>1. ASSUME NEW t \in TopUps, ConfirmTopUp(h, t) PROVE CorrectionInv'
    BY <1>1, <1>2, <2>1 DEF ConfirmTopUp, ledgerVars
  <2>2. ASSUME NEW t \in TopUps, CancelTransaction(h, t) PROVE CorrectionInv'
    BY <1>2, <2>2 DEF CancelTransaction, ledgerVars
  <2>3. CASE CreditTopUp(h)
    <3>1. task[h] \in [pc : {"credit", "settle"}, topUp : TopUps]
      BY <2>3 DEF CreditTopUp, TypeOK, Tasks, NoTask
    <3>2. PICK k : k = [task[h] EXCEPT !.pc = "settle"]
      OBVIOUS
    <3>3. k.pc = "settle" /\ Become(h, k) /\ UNCHANGED corrected
      BY <2>3, <3>1, <3>2 DEF CreditTopUp, Goto, ledgerVars
    <3> QED BY <1>2, <3>3
  <2>4. CASE SettleTopUp(h) \/ FailTopUp(h)
    BY <1>2, <2>4 DEF SettleTopUp, FailTopUp, Return, NoTask
  <2> QED BY <1>6, <2>1, <2>2, <2>3, <2>4 DEF Callback
<1>7. ASSUME NEW h \in Handlers, NEW j \in Jobs, NEW u \in Users, RefundOrderFee(h, j, u)
      PROVE  CorrectionInv'
  BY <1>2, <1>7 DEF RefundOrderFee, ledgerVars
<1>8. ASSUME NEW h \in Handlers, GiveBackFee(h) PROVE CorrectionInv'
  <2>1. task[h] \in [pc : {"giveBack", "recordRefund"}, job : Jobs, user : Users]
    BY <1>8 DEF GiveBackFee, TypeOK, Tasks, NoTask
  <2>2. PICK k : k = [task[h] EXCEPT !.pc = "recordRefund"]
    OBVIOUS
  <2>3. k.pc = "recordRefund" /\ Become(h, k) /\ UNCHANGED corrected
    BY <1>8, <2>1, <2>2 DEF GiveBackFee, Goto, ledgerVars
  <2> QED BY <1>2, <2>3
<1>9. ASSUME NEW h \in Handlers, RecordRefund(h) \/ Crash(h) PROVE CorrectionInv'
  BY <1>2, <1>9 DEF RecordRefund, Crash, Return, NoTask, ledgerVars
<1>10. ASSUME NEW h \in Handlers, NEW c \in Corrections, AdjustBalance(h, c) PROVE CorrectionInv'
  <2>1. PICK k : k = [pc |-> "recordCorrection", correction |-> c]
    OBVIOUS
  <2>2. k.correction = c /\ Become(h, k) /\ UNCHANGED corrected
    BY <1>10, <2>1 DEF AdjustBalance, ledgerVars
  <2>3. c \notin corrected /\ \A g \in Handlers : ~OnCorrection(g, c)
    BY <1>10 DEF AdjustBalance
  <2>4. \A g \in Handlers : task'[g] = IF g = h THEN k ELSE task[g]
    BY <2>2 DEF Become, TypeOK
  <2>5. \A g \in Handlers, d \in Corrections :
          OnCorrection(g, d)' => IF g = h THEN d = c ELSE OnCorrection(g, d)
    BY <2>2, <2>4 DEF OnCorrection
  <2> QED BY <2>2, <2>3, <2>5 DEF CorrectionInv
<1>11. ASSUME NEW h \in Handlers, RecordCorrection(h) PROVE CorrectionInv'
  <2>1. Become(h, NoTask) /\ corrected' = corrected \cup {task[h].correction} /\ NoTask.pc = "idle"
        /\ OnCorrection(h, task[h].correction) /\ task[h].correction \in Corrections
    BY <1>11, TaskFields DEF RecordCorrection, Return, NoTask, OnCorrection, TypeOK
  <2>2. \A g \in Handlers : task'[g] = IF g = h THEN NoTask ELSE task[g]
    BY <2>1 DEF Become, TypeOK
  <2>3. \A g \in Handlers, d \in Corrections : OnCorrection(g, d)' => g # h /\ OnCorrection(g, d)
    BY <2>1, <2>2 DEF OnCorrection
  <2> QED BY <2>1, <2>3 DEF CorrectionInv
<1> QED BY <1>3, <1>4, <1>5, <1>6, <1>7, <1>8, <1>9, <1>10, <1>11 DEF Next, Admin

-----------------------------------------------------------------------------
(* What a step does to the sides of a user's book.                         *)

LEMMA AmountsInt ==
  /\ \A t \in TopUps : Amount[t] \in Int
  /\ \A c \in Corrections : AmountOf[c] \in Int
BY AmountAssumption, CorrectionOfAssumption DEF AmountOf

LEMMA GivenBackInt == ASSUME TypeOK, NEW j \in Jobs PROVE GivenBack[j] \in Int
BY FeeAssumption DEF TypeOK, GivenBack

LEMMA UnwrittenInt == ASSUME NEW u \in Users, NEW k \in Tasks PROVE Unwritten(u, k) \in Int
<1>1. CASE k.pc = "settle" /\ OwnerOf[k.topUp] = u
  <2>1. k.topUp \in TopUps
    BY <1>1, TaskFields
  <2>2. Amount[k.topUp] \in Int
    BY <2>1, AmountAssumption
  <2> QED BY <1>1, <2>2 DEF Unwritten
<1>2. CASE k.pc = "recordRefund" /\ k.user = u
  BY <1>2, FeeAssumption DEF Unwritten
<1>3. CASE k.pc = "recordCorrection" /\ CorrectionOf[k.correction].user = u
  <2>1. k.correction \in Corrections
    BY <1>3, TaskFields
  <2>2. CorrectionOf[k.correction].amount \in Int
    BY <2>1, CorrectionOfAssumption
  <2> QED BY <1>3, <2>2 DEF Unwritten
<1>4. CASE /\ ~(k.pc = "settle" /\ OwnerOf[k.topUp] = u)
           /\ ~(k.pc = "recordRefund" /\ k.user = u)
           /\ ~(k.pc = "recordCorrection" /\ CorrectionOf[k.correction].user = u)
  BY <1>4 DEF Unwritten
<1> QED BY <1>1, <1>2, <1>3, <1>4

LEMMA DueInt == ASSUME TypeOK, NEW u \in Users PROVE Due(u) \in Int
<1>1. \A h \in Handlers : OnTheWay(u)[h] \in Int
  BY UnwrittenInt DEF OnTheWay, TypeOK
<1> QED BY <1>1, HandlersAssumption, SumInt DEF Due

\* One handler changes what it does.
LEMMA DueMove ==
  ASSUME TypeOK, NEW u \in Users, NEW h \in Handlers, NEW k \in Tasks, Become(h, k)
  PROVE  Due(u)' = Due(u) + (Unwritten(u, k) - Unwritten(u, task[h]))
<1> DEFINE f == OnTheWay(u)
           g == OnTheWay(u)'
<1>1. \A i \in Handlers : task'[i] = IF i = h THEN k ELSE task[i]
  BY DEF Become, TypeOK
<1>2. \A i \in Handlers : f[i] = Unwritten(u, task[i]) /\ g[i] = Unwritten(u, task'[i])
  BY DEF OnTheWay, Unwritten
<1>3. \A i \in Handlers : f[i] \in Int
  BY <1>2, UnwrittenInt DEF TypeOK
<1>4. g[h] = Unwritten(u, k) /\ g[h] \in Int /\ f[h] = Unwritten(u, task[h])
  BY <1>1, <1>2, UnwrittenInt
<1>5. \A i \in Handlers \ {h} : g[i] = f[i]
  BY <1>1, <1>2
<1>6. SumFunctionOnSet(g, Handlers) = SumFunctionOnSet(f, Handlers) + (g[h] - f[h])
  <2> HIDE DEF f, g
  <2> QED BY <1>3, <1>4, <1>5, HandlersAssumption, SumChange
<1> QED BY <1>4, <1>6 DEF Due

LEMMA DueSame == ASSUME NEW u, UNCHANGED task PROVE Due(u)' = Due(u)
BY DEF Due, OnTheWay

\* The entries of a user, as numbers.
LEMMA EntriesInt ==
  ASSUME TypeOK, NEW u \in Users, Finite(u)
  PROVE  /\ SumFunctionOnSet(Amount, Settled(u)) \in Int
         /\ SumFunctionOnSet(GivenBack, Charged(u)) \in Int
         /\ SumFunctionOnSet(AmountOf, Adjusted(u)) \in Int
         /\ Funds[u] \in Int /\ balance[u] \in Int /\ adrift[u] \in Int
<1>1. IsFiniteSet(Settled(u)) /\ \A t \in Settled(u) : Amount[t] \in Int
  BY AmountsInt DEF Finite, Settled
<1>2. IsFiniteSet(Charged(u)) /\ \A j \in Charged(u) : GivenBack[j] \in Int
  BY GivenBackInt DEF Finite, Charged
<1>3. IsFiniteSet(Adjusted(u)) /\ \A c \in Adjusted(u) : AmountOf[c] \in Int
  BY AmountsInt DEF Finite, Adjusted, TypeOK
<1> QED BY <1>1, <1>2, <1>3, SumInt, FundsAssumption DEF TypeOK

LEMMA StatementIs ==
  ASSUME NEW u
  PROVE  Statement(u) = Funds[u] + SumFunctionOnSet(Amount, Settled(u))
           + SumFunctionOnSet(GivenBack, Charged(u)) + SumFunctionOnSet(AmountOf, Adjusted(u))
BY DEF Statement, Settled, Charged, Adjusted

LEMMA StatementInt == ASSUME TypeOK, NEW u \in Users, Finite(u) PROVE Statement(u) \in Int
BY StatementIs, EntriesInt

\* No entry of the user changes.
LEMMA EntriesSame ==
  ASSUME NEW u, Finite(u), Settled(u)' = Settled(u), Charged(u)' = Charged(u),
         Adjusted(u)' = Adjusted(u), \A j \in Charged(u) : GivenBack'[j] = GivenBack[j]
  PROVE  Finite(u)' /\ Statement(u)' = Statement(u)
<1>1. SumFunctionOnSet(GivenBack', Charged(u)) = SumFunctionOnSet(GivenBack, Charged(u))
  BY SumAgree DEF Finite
<1>2. Statement(u)' = Funds[u] + SumFunctionOnSet(Amount, Settled(u)')
           + SumFunctionOnSet(GivenBack', Charged(u)') + SumFunctionOnSet(AmountOf, Adjusted(u)')
  BY DEF Statement, Settled, Charged, Adjusted
<1> QED BY <1>1, <1>2, StatementIs DEF Finite

\* A top-up is settled.
LEMMA EntrySettled ==
  ASSUME TypeOK, NEW u \in Users, Finite(u), NEW t \in TopUps, t \notin Settled(u),
         Settled(u)' = Settled(u) \cup {t}, Charged(u)' = Charged(u),
         Adjusted(u)' = Adjusted(u), GivenBack' = GivenBack
  PROVE  Finite(u)' /\ Statement(u)' = Statement(u) + Amount[t]
<1>1. IsFiniteSet(Settled(u)) /\ \A s \in Settled(u) \cup {t} : Amount[s] \in Int
  BY AmountsInt DEF Finite, Settled
<1>2. /\ SumFunctionOnSet(Amount, Settled(u) \cup {t}) = SumFunctionOnSet(Amount, Settled(u)) + Amount[t]
      /\ IsFiniteSet(Settled(u) \cup {t}) /\ Amount[t] \in Int
  BY <1>1, SumAdd, FS_AddElement
<1>3. Statement(u)' = Funds[u] + SumFunctionOnSet(Amount, Settled(u)')
           + SumFunctionOnSet(GivenBack', Charged(u)') + SumFunctionOnSet(AmountOf, Adjusted(u)')
  BY DEF Statement, Settled, Charged, Adjusted
<1> QED BY <1>2, <1>3, StatementIs, EntriesInt DEF Finite

\* A correction is written down.
LEMMA EntryCorrected ==
  ASSUME TypeOK, NEW u \in Users, Finite(u), NEW c \in Corrections, c \notin Adjusted(u),
         Adjusted(u)' = Adjusted(u) \cup {c}, Charged(u)' = Charged(u),
         Settled(u)' = Settled(u), GivenBack' = GivenBack
  PROVE  Finite(u)' /\ Statement(u)' = Statement(u) + AmountOf[c]
<1>1. IsFiniteSet(Adjusted(u)) /\ \A s \in Adjusted(u) \cup {c} : AmountOf[s] \in Int
  BY AmountsInt DEF Finite, Adjusted, TypeOK
<1>2. /\ SumFunctionOnSet(AmountOf, Adjusted(u) \cup {c}) = SumFunctionOnSet(AmountOf, Adjusted(u)) + AmountOf[c]
      /\ IsFiniteSet(Adjusted(u) \cup {c}) /\ AmountOf[c] \in Int
  BY <1>1, SumAdd, FS_AddElement
<1>3. Statement(u)' = Funds[u] + SumFunctionOnSet(Amount, Settled(u)')
           + SumFunctionOnSet(GivenBack', Charged(u)') + SumFunctionOnSet(AmountOf, Adjusted(u)')
  BY DEF Statement, Settled, Charged, Adjusted
<1> QED BY <1>2, <1>3, StatementIs, EntriesInt DEF Finite

\* A job is charged, of which nothing has been given back.
LEMMA EntryCharged ==
  ASSUME TypeOK, NEW u \in Users, Finite(u), NEW j \in Jobs, j \notin Charged(u),
         Charged(u)' = Charged(u) \cup {j}, GivenBack[j] = -Fee, GivenBack' = GivenBack,
         Settled(u)' = Settled(u), Adjusted(u)' = Adjusted(u)
  PROVE  Finite(u)' /\ Statement(u)' = Statement(u) - Fee
<1>1. IsFiniteSet(Charged(u)) /\ \A s \in Charged(u) \cup {j} : GivenBack[s] \in Int
  BY GivenBackInt DEF Finite, Charged
<1>2. /\ SumFunctionOnSet(GivenBack, Charged(u) \cup {j}) = SumFunctionOnSet(GivenBack, Charged(u)) + GivenBack[j]
      /\ IsFiniteSet(Charged(u) \cup {j})
  BY <1>1, SumAdd, FS_AddElement
<1>3. Statement(u)' = Funds[u] + SumFunctionOnSet(Amount, Settled(u)')
           + SumFunctionOnSet(GivenBack', Charged(u)') + SumFunctionOnSet(AmountOf, Adjusted(u)')
  BY DEF Statement, Settled, Charged, Adjusted
<1> QED BY <1>2, <1>3, StatementIs, EntriesInt, FeeAssumption DEF Finite

\* A refund of a charged job is written down.
LEMMA EntryRefunded ==
  ASSUME TypeOK, TypeOK', NEW u \in Users, Finite(u), NEW j \in Charged(u),
         GivenBack'[j] = GivenBack[j] + Fee, \A i \in Charged(u) \ {j} : GivenBack'[i] = GivenBack[i],
         Settled(u)' = Settled(u), Adjusted(u)' = Adjusted(u), Charged(u)' = Charged(u)
  PROVE  Finite(u)' /\ Statement(u)' = Statement(u) + Fee
<1>1. IsFiniteSet(Charged(u)) /\ \A i \in Charged(u) : GivenBack[i] \in Int
  BY GivenBackInt DEF Finite, Charged
<1>2. GivenBack'[j] \in Int /\ GivenBack[j] \in Int /\ GivenBack'[j] - GivenBack[j] = Fee
  BY <1>1, FeeAssumption
<1>3. SumFunctionOnSet(GivenBack', Charged(u)) = SumFunctionOnSet(GivenBack, Charged(u)) + Fee
  BY <1>1, <1>2, SumChange
<1>4. Statement(u)' = Funds[u] + SumFunctionOnSet(Amount, Settled(u)')
           + SumFunctionOnSet(GivenBack', Charged(u)') + SumFunctionOnSet(AmountOf, Adjusted(u)')
  BY DEF Statement, Settled, Charged, Adjusted
<1> QED BY <1>3, <1>4, StatementIs, EntriesInt, FeeAssumption DEF Finite

\* Money moves and its entry is due; the entry is written; the call that was to write
\* it never will, or settles a top-up that has its entry.
LEMMA BookMoves ==
  ASSUME TypeOK, NEW u \in Users, BookOf(u), NEW a \in Int, balance'[u] = balance[u] + a,
         Due(u)' = Due(u) + a, Finite(u)', Statement(u)' = Statement(u), adrift'[u] = adrift[u]
  PROVE  BookOf(u)'
BY StatementInt, EntriesInt, DueInt DEF BookOf

LEMMA BookWrites ==
  ASSUME TypeOK, NEW u \in Users, BookOf(u), NEW a \in Int, balance'[u] = balance[u],
         Due(u)' = Due(u) + (-a), Finite(u)', Statement(u)' = Statement(u) + a, adrift'[u] = adrift[u]
  PROVE  BookOf(u)'
BY StatementInt, EntriesInt, DueInt DEF BookOf

LEMMA BookDrifts ==
  ASSUME TypeOK, NEW u \in Users, BookOf(u), NEW a \in Int, balance'[u] = balance[u],
         Due(u)' = Due(u) + (-a), Finite(u)', Statement(u)' = Statement(u), adrift'[u] = adrift[u] + a
  PROVE  BookOf(u)'
BY StatementInt, EntriesInt, DueInt DEF BookOf

\* A step that moves no money and writes no entry.
LEMMA BookQuiet ==
  ASSUME TypeOK, NEW u \in Users, BookOf(u), UNCHANGED <<balance, chargedTo, refunds, corrected, adrift>>,
         Settled(u)' = Settled(u), Due(u)' = Due(u)
  PROVE  BookOf(u)'
<1>1. Charged(u)' = Charged(u) /\ Adjusted(u)' = Adjusted(u) /\ GivenBack' = GivenBack
  BY DEF Charged, Adjusted, GivenBack
<1>2. Finite(u)' /\ Statement(u)' = Statement(u)
  BY <1>1, EntriesSame DEF BookOf
<1> QED BY <1>2 DEF BookOf

LEMMA QuietMove ==
  ASSUME TypeOK, NEW u \in Users, NEW h \in Handlers, NEW k \in Tasks, Become(h, k),
         Unwritten(u, k) = Unwritten(u, task[h])
  PROVE  Due(u)' = Due(u)
<1>1. Due(u) \in Int /\ Unwritten(u, k) \in Int
  BY DueInt, UnwrittenInt
<1>2. Due(u)' = Due(u) + (Unwritten(u, k) - Unwritten(u, task[h]))
  BY DueMove
<1> QED BY <1>1, <1>2

Writing == {"settle", "recordRefund", "recordCorrection"}
LEMMA UnwrittenNone == ASSUME NEW u, NEW k, k.pc \notin Writing PROVE Unwritten(u, k) = 0
BY DEF Unwritten, Writing

LEMMA NoTaskIs == NoTask \in Tasks /\ NoTask.pc = "idle" /\ \A u : Unwritten(u, NoTask) = 0
BY DEF NoTask, Tasks, Unwritten

LEMMA BookCallback ==
  ASSUME BooksInv, NEW h \in Handlers, Callback(h), NEW u \in Users
  PROVE  BookOf(u)'
<1>0. TypeOK /\ BookOf(u)
  BY DEF BooksInv
<1>1. ASSUME NEW t \in TopUps, ConfirmTopUp(h, t) PROVE BookOf(u)'
  <2>1. UNCHANGED <<balance, status, chargedTo, refunds, corrected, adrift>> /\ task[h].pc = "idle"
        /\ (UNCHANGED task \/ Become(h, [pc |-> "credit", topUp |-> t]))
    BY <1>1 DEF ConfirmTopUp, ledgerVars
  <2>2. Settled(u)' = Settled(u)
    BY <2>1 DEF Settled
  <2>3. Due(u)' = Due(u)
    <3>1. CASE UNCHANGED task
      BY <3>1, DueSame
    <3>2. CASE Become(h, [pc |-> "credit", topUp |-> t])
      <4>1. PICK k \in Tasks : k = [pc |-> "credit", topUp |-> t]
        BY DEF Tasks
      <4>2. Unwritten(u, k) = 0 /\ Unwritten(u, task[h]) = 0
        BY <2>1, <4>1, UnwrittenNone DEF Writing
      <4> QED BY <1>0, <3>2, <4>1, <4>2, QuietMove
    <3> QED BY <2>1, <3>1, <3>2
  <2> QED BY <1>0, <2>1, <2>2, <2>3, BookQuiet
<1>2. ASSUME NEW t \in TopUps, CancelTransaction(h, t) PROVE BookOf(u)'
  <2>1. PICK k \in Tasks : k = [pc |-> "fail", topUp |-> t, paid |-> status[t] = "success"]
    BY DEF Tasks
  <2>2. UNCHANGED <<balance, status, chargedTo, refunds, corrected, adrift>> /\ task[h].pc = "idle"
        /\ Become(h, k) /\ k.pc = "fail"
    BY <1>2, <2>1 DEF CancelTransaction, ledgerVars
  <2>3. Unwritten(u, k) = 0 /\ Unwritten(u, task[h]) = 0
    BY <2>2, UnwrittenNone DEF Writing
  <2>4. Due(u)' = Due(u)
    BY <1>0, <2>2, <2>3, QuietMove
  <2>5. Settled(u)' = Settled(u)
    BY <2>2 DEF Settled
  <2> QED BY <1>0, <2>2, <2>4, <2>5, BookQuiet
<1>3. CASE CreditTopUp(h)
  <2>1. task[h] \in [pc : {"credit", "settle"}, topUp : TopUps] /\ task[h].pc = "credit"
    BY <1>0, <1>3 DEF CreditTopUp, TypeOK, Tasks, NoTask
  <2>2. PICK t \in TopUps : t = task[h].topUp
    BY <2>1
  <2>3. PICK k \in Tasks : k = [task[h] EXCEPT !.pc = "settle"]
    BY <2>1 DEF Tasks
  <2>4. k.pc = "settle" /\ k.topUp = t
    BY <2>1, <2>2, <2>3
  <2>5. /\ balance' = [balance EXCEPT ![OwnerOf[t]] = @ + Amount[t]] /\ Become(h, k)
        /\ UNCHANGED <<status, chargedTo, refunds, corrected, adrift>>
    BY <1>3, <2>2, <2>3 DEF CreditTopUp, Inc, Goto, ledgerVars
  <2>6. PICK a \in Int : a = Unwritten(u, k)
    BY UnwrittenInt
  <2>7. a = IF OwnerOf[t] = u THEN Amount[t] ELSE 0
    BY <2>4, <2>6 DEF Unwritten
  <2>8. balance'[u] = balance[u] + a
    BY <1>0, <2>5, <2>7 DEF TypeOK
  <2>9. Due(u)' = Due(u) + a
    <3>1. Unwritten(u, task[h]) = 0
      BY <2>1, UnwrittenNone DEF Writing
    <3>2. Due(u)' = Due(u) + (a - 0)
      BY <1>0, <2>5, <2>6, <3>1, DueMove
    <3> QED BY <3>2
  <2>10. Finite(u)' /\ Statement(u)' = Statement(u)
    BY <1>0, <2>5, EntriesSame DEF Settled, Charged, Adjusted, GivenBack, BookOf
  <2>11. adrift'[u] = adrift[u]
    BY <2>5
  <2> QED BY <1>0, <2>8, <2>9, <2>10, <2>11, BookMoves
<1>4. CASE SettleTopUp(h)
  <2>1. PICK t \in TopUps : t = task[h].topUp
    BY <1>0, <1>4, TaskFields DEF SettleTopUp, TypeOK
  <2>2. /\ Become(h, NoTask) /\ status' = [status EXCEPT ![t] = "success"]
        /\ UNCHANGED <<balance, chargedTo, refunds, corrected>> /\ task[h].pc = "settle"
        /\ IF status[t] = "success" THEN Drifts(OwnerOf[t], Amount[t]) ELSE UNCHANGED adrift
    BY <1>4, <2>1 DEF SettleTopUp, Return
  <2>3. PICK a \in Int : a = Unwritten(u, task[h])
    BY <1>0, UnwrittenInt DEF TypeOK
  <2>4. a = IF OwnerOf[t] = u THEN Amount[t] ELSE 0
    BY <2>1, <2>2, <2>3 DEF Unwritten
  <2>5. Due(u)' = Due(u) + (-a)
    <3>1. Due(u)' = Due(u) + (0 - a)
      BY <1>0, <2>2, <2>3, NoTaskIs, DueMove
    <3> QED BY <3>1
  <2>6. balance'[u] = balance[u]
    BY <2>2
  <2>7. Charged(u)' = Charged(u) /\ Adjusted(u)' = Adjusted(u) /\ GivenBack' = GivenBack
    BY <2>2 DEF Charged, Adjusted, GivenBack
  <2>8. CASE status[t] = "success"
    <3>1. Settled(u)' = Settled(u)
      BY <1>0, <2>2, <2>8 DEF Settled, TypeOK
    <3>2. Finite(u)' /\ Statement(u)' = Statement(u)
      BY <1>0, <2>7, <3>1, EntriesSame DEF BookOf
    <3>3. adrift'[u] = adrift[u] + a
      BY <1>0, <2>2, <2>4, <2>8 DEF Drifts, TypeOK
    <3> QED BY <1>0, <2>5, <2>6, <3>2, <3>3, BookDrifts
  <2>9. CASE status[t] # "success"
    <3>1. adrift'[u] = adrift[u]
      BY <2>2, <2>9
    <3>2. Finite(u)' /\ Statement(u)' = Statement(u) + a
      <4>1. CASE OwnerOf[t] = u
        <5>1. Settled(u)' = Settled(u) \cup {t} /\ t \notin Settled(u)
          BY <1>0, <2>2, <2>9, <4>1 DEF Settled, TypeOK
        <5> QED BY <1>0, <2>4, <2>7, <4>1, <5>1, EntrySettled DEF BookOf
      <4>2. CASE OwnerOf[t] # u
        <5>1. Settled(u)' = Settled(u)
          BY <1>0, <2>2, <4>2 DEF Settled, TypeOK
        <5>2. Finite(u)' /\ Statement(u)' = Statement(u)
          BY <1>0, <2>7, <5>1, EntriesSame DEF BookOf
        <5> QED BY <1>0, <2>4, <4>2, <5>2, StatementInt DEF BookOf
      <4> QED BY <4>1, <4>2
    <3> QED BY <1>0, <2>5, <2>6, <3>1, <3>2, BookWrites
  <2> QED BY <2>8, <2>9
<1>5. CASE FailTopUp(h)
  <2>1. Become(h, NoTask) /\ task[h].pc = "fail" /\ UNCHANGED <<balance, chargedTo, refunds, corrected, adrift>>
    BY <1>5 DEF FailTopUp, Return, historyVars
  <2>2. task[h].topUp \in TopUps
    BY <1>0, <1>5, TaskFields DEF FailTopUp, TypeOK
  <2>3. \A t \in TopUps : status'[t] = "success" <=> status[t] = "success"
    BY <1>0, <1>5, <2>2 DEF FailTopUp, Failable, TypeOK
  <2>4. Settled(u)' = Settled(u)
    BY <2>3 DEF Settled
  <2>5. Unwritten(u, task[h]) = 0
    BY <2>1, UnwrittenNone DEF Writing
  <2>6. Due(u)' = Due(u)
    BY <1>0, <2>1, <2>5, NoTaskIs, QuietMove
  <2> QED BY <1>0, <2>1, <2>4, <2>6, BookQuiet
<1> QED BY <1>1, <1>2, <1>3, <1>4, <1>5 DEF Callback

LEMMA BookAdmin ==
  ASSUME BooksInv, TypeOK', NEW h \in Handlers, Admin(h), NEW u \in Users
  PROVE  BookOf(u)'
<1>0. TypeOK /\ BookOf(u) /\ FeeInv /\ CorrectionInv
  BY DEF BooksInv
<1>1. ASSUME NEW j \in Jobs, NEW v \in Users, RefundOrderFee(h, j, v) PROVE BookOf(u)'
  <2>1. PICK k \in Tasks : k = [pc |-> "giveBack", job |-> j, user |-> v]
    BY DEF Tasks
  <2>2. UNCHANGED <<balance, status, chargedTo, refunds, corrected, adrift>> /\ task[h].pc = "idle"
        /\ Become(h, k) /\ k.pc = "giveBack"
    BY <1>1, <2>1 DEF RefundOrderFee, ledgerVars
  <2>3. Unwritten(u, k) = 0 /\ Unwritten(u, task[h]) = 0
    BY <2>2, UnwrittenNone DEF Writing
  <2>4. Due(u)' = Due(u)
    BY <1>0, <2>2, <2>3, QuietMove
  <2>5. Settled(u)' = Settled(u)
    BY <2>2 DEF Settled
  <2> QED BY <1>0, <2>2, <2>4, <2>5, BookQuiet
<1>2. ASSUME NEW c \in Corrections, AdjustBalance(h, c) PROVE BookOf(u)'
  <2>1. PICK k \in Tasks : k = [pc |-> "recordCorrection", correction |-> c]
    BY DEF Tasks
  <2>2. /\ balance' = [balance EXCEPT ![CorrectionOf[c].user] = @ + CorrectionOf[c].amount]
        /\ UNCHANGED <<status, chargedTo, refunds, corrected, adrift>> /\ task[h].pc = "idle"
        /\ Become(h, k) /\ k.pc = "recordCorrection" /\ k.correction = c
    BY <1>2, <2>1 DEF AdjustBalance, Inc, ledgerVars, historyVars
  <2>3. PICK a \in Int : a = Unwritten(u, k)
    BY UnwrittenInt
  <2>4. a = IF CorrectionOf[c].user = u THEN CorrectionOf[c].amount ELSE 0
    BY <2>2, <2>3 DEF Unwritten
  <2>5. balance'[u] = balance[u] + a
    BY <1>0, <2>2, <2>4 DEF TypeOK
  <2>6. Due(u)' = Due(u) + a
    <3>1. Unwritten(u, task[h]) = 0
      BY <2>2, UnwrittenNone DEF Writing
    <3>2. Due(u)' = Due(u) + (a - 0)
      BY <1>0, <2>2, <2>3, <3>1, DueMove
    <3> QED BY <3>2
  <2>7. Finite(u)' /\ Statement(u)' = Statement(u)
    BY <1>0, <2>2, EntriesSame DEF Settled, Charged, Adjusted, GivenBack, BookOf
  <2>8. adrift'[u] = adrift[u]
    BY <2>2
  <2> QED BY <1>0, <2>5, <2>6, <2>7, <2>8, BookMoves
<1>3. CASE GiveBackFee(h)
  <2>1. task[h] \in [pc : {"giveBack", "recordRefund"}, job : Jobs, user : Users] /\ task[h].pc = "giveBack"
    BY <1>0, <1>3 DEF GiveBackFee, TypeOK, Tasks, NoTask
  <2>2. PICK v \in Users : v = task[h].user
    BY <2>1
  <2>3. PICK k \in Tasks : k = [task[h] EXCEPT !.pc = "recordRefund"]
    BY <2>1 DEF Tasks
  <2>4. k.pc = "recordRefund" /\ k.user = v
    BY <2>1, <2>2, <2>3
  <2>5. /\ balance' = [balance EXCEPT ![v] = @ + Fee] /\ Become(h, k)
        /\ UNCHANGED <<status, chargedTo, refunds, corrected, adrift>>
    BY <1>3, <2>2, <2>3 DEF GiveBackFee, Inc, Goto, ledgerVars
  <2>6. PICK a \in Int : a = Unwritten(u, k)
    BY UnwrittenInt
  <2>7. a = IF v = u THEN Fee ELSE 0
    BY <2>4, <2>6 DEF Unwritten
  <2>8. balance'[u] = balance[u] + a
    BY <1>0, <2>5, <2>7 DEF TypeOK
  <2>9. Due(u)' = Due(u) + a
    <3>1. Unwritten(u, task[h]) = 0
      BY <2>1, UnwrittenNone DEF Writing
    <3>2. Due(u)' = Due(u) + (a - 0)
      BY <1>0, <2>5, <2>6, <3>1, DueMove
    <3> QED BY <3>2
  <2>10. Finite(u)' /\ Statement(u)' = Statement(u)
    BY <1>0, <2>5, EntriesSame DEF Settled, Charged, Adjusted, GivenBack, BookOf
  <2>11. adrift'[u] = adrift[u]
    BY <2>5
  <2> QED BY <1>0, <2>8, <2>9, <2>10, <2>11, BookMoves
<1>4. CASE RecordRefund(h)
  <2>1. PICK j \in Jobs, v \in Users : j = task[h].job /\ v = task[h].user
    BY <1>0, <1>4, TaskFields DEF RecordRefund, TypeOK
  <2>2. /\ Become(h, NoTask) /\ refunds' = [refunds EXCEPT ![j] = @ + 1]
        /\ UNCHANGED <<balance, status, chargedTo, corrected, adrift>> /\ task[h].pc = "recordRefund"
    BY <1>4, <2>1 DEF RecordRefund, Return, historyVars
  <2>3. PICK a \in Int : a = Unwritten(u, task[h])
    BY <1>0, UnwrittenInt DEF TypeOK
  <2>4. a = IF v = u THEN Fee ELSE 0
    BY <2>1, <2>2, <2>3 DEF Unwritten
  <2>5. Due(u)' = Due(u) + (-a)
    <3>1. Due(u)' = Due(u) + (0 - a)
      BY <1>0, <2>2, <2>3, NoTaskIs, DueMove
    <3> QED BY <3>1
  <2>6. balance'[u] = balance[u] /\ adrift'[u] = adrift[u]
    BY <2>2
  <2>7. Charged(u)' = Charged(u) /\ Adjusted(u)' = Adjusted(u) /\ Settled(u)' = Settled(u)
    BY <2>2 DEF Charged, Adjusted, Settled
  <2>8. <<j, v>> \in chargedTo /\ \A w \in Users : <<j, w>> \in chargedTo => w = v
    BY <1>0, <2>1, <2>2 DEF FeeInv, OnJob
  <2>9. /\ GivenBack'[j] = GivenBack[j] + Fee
        /\ \A i \in Jobs \ {j} : GivenBack'[i] = GivenBack[i]
    <3>1. GivenBack'[j] = Fee * (refunds[j] + 1 - 1) /\ GivenBack[j] = Fee * (refunds[j] - 1)
      BY <1>0, <2>2 DEF GivenBack, TypeOK
    <3>2. PICK r \in Nat : r = refunds[j]
      BY <1>0 DEF TypeOK
    <3>3. Fee * (r + 1 - 1) = Fee * (r - 1) + Fee
      BY FeeAssumption
    <3>4. \A i \in Jobs \ {j} : GivenBack'[i] = GivenBack[i]
      BY <1>0, <2>2 DEF GivenBack, TypeOK
    <3> QED BY <3>1, <3>2, <3>3, <3>4
  <2>10. Finite(u)' /\ Statement(u)' = Statement(u) + a
    <3>1. CASE u = v
      <4>1. j \in Charged(u) /\ \A i \in Charged(u) \ {j} : GivenBack'[i] = GivenBack[i]
        BY <2>8, <2>9, <3>1 DEF Charged
      <4> QED BY <1>0, <2>4, <2>7, <2>9, <3>1, <4>1, EntryRefunded DEF BookOf
    <3>2. CASE u # v
      <4>1. \A i \in Charged(u) : GivenBack'[i] = GivenBack[i]
        BY <2>8, <2>9, <3>2 DEF Charged
      <4>2. Finite(u)' /\ Statement(u)' = Statement(u)
        BY <1>0, <2>7, <4>1, EntriesSame DEF BookOf
      <4> QED BY <1>0, <2>4, <3>2, <4>2, StatementInt DEF BookOf
    <3> QED BY <3>1, <3>2
  <2> QED BY <1>0, <2>5, <2>6, <2>10, BookWrites
<1>5. CASE RecordCorrection(h)
  <2>1. PICK c \in Corrections : c = task[h].correction
    BY <1>0, <1>5, TaskFields DEF RecordCorrection, TypeOK
  <2>2. /\ Become(h, NoTask) /\ corrected' = corrected \cup {c}
        /\ UNCHANGED <<balance, status, chargedTo, refunds, adrift>> /\ task[h].pc = "recordCorrection"
    BY <1>5, <2>1 DEF RecordCorrection, Return, historyVars
  <2>3. PICK a \in Int : a = Unwritten(u, task[h])
    BY <1>0, UnwrittenInt DEF TypeOK
  <2>4. a = IF CorrectionOf[c].user = u THEN AmountOf[c] ELSE 0
    BY <2>1, <2>2, <2>3 DEF Unwritten, AmountOf
  <2>5. Due(u)' = Due(u) + (-a)
    <3>1. Due(u)' = Due(u) + (0 - a)
      BY <1>0, <2>2, <2>3, NoTaskIs, DueMove
    <3> QED BY <3>1
  <2>6. balance'[u] = balance[u] /\ adrift'[u] = adrift[u]
    BY <2>2
  <2>7. Charged(u)' = Charged(u) /\ Settled(u)' = Settled(u) /\ GivenBack' = GivenBack
    BY <2>2 DEF Charged, Settled, GivenBack
  <2>8. c \notin corrected
    BY <1>0, <2>1, <2>2 DEF CorrectionInv, OnCorrection
  <2>9. Finite(u)' /\ Statement(u)' = Statement(u) + a
    <3>1. CASE CorrectionOf[c].user = u
      <4>1. Adjusted(u)' = Adjusted(u) \cup {c} /\ c \notin Adjusted(u)
        BY <2>2, <2>8, <3>1 DEF Adjusted
      <4> QED BY <1>0, <2>4, <2>7, <3>1, <4>1, EntryCorrected DEF BookOf
    <3>2. CASE CorrectionOf[c].user # u
      <4>1. Adjusted(u)' = Adjusted(u)
        BY <2>2, <3>2 DEF Adjusted
      <4>2. Finite(u)' /\ Statement(u)' = Statement(u)
        BY <1>0, <2>7, <4>1, EntriesSame DEF BookOf
      <4> QED BY <1>0, <2>4, <3>2, <4>2, StatementInt DEF BookOf
    <3> QED BY <3>1, <3>2
  <2> QED BY <1>0, <2>5, <2>6, <2>9, BookWrites
<1> QED BY <1>1, <1>2, <1>3, <1>4, <1>5 DEF Admin

LEMMA BookCharge ==
  ASSUME BooksInv, NEW v \in Users, NEW j \in Jobs, ChargeFee(v, j), NEW u \in Users
  PROVE  BookOf(u)'
<1>0. TypeOK /\ BookOf(u) /\ FeeInv
  BY DEF BooksInv
<1>1. /\ ~IsCharged(j) /\ balance' = [balance EXCEPT ![v] = @ - Fee]
      /\ chargedTo' = chargedTo \cup {<<j, v>>}
      /\ UNCHANGED <<status, refunds, corrected, task, adrift>>
  BY <1>0, FeeAssumption DEF ChargeFee, Inc, TypeOK, historyVars
<1>2. Settled(u)' = Settled(u) /\ Adjusted(u)' = Adjusted(u) /\ GivenBack' = GivenBack
  BY <1>1 DEF Settled, Adjusted, GivenBack
<1>3. Due(u)' = Due(u) /\ Due(u) \in Int
  BY <1>0, <1>1, DueSame, DueInt
<1>4. CASE u = v
  <2>1. Charged(u)' = Charged(u) \cup {j} /\ j \notin Charged(u)
    BY <1>1, <1>4 DEF Charged, IsCharged
  <2>2. GivenBack[j] = -Fee
    BY <1>0, <1>1, FeeAssumption DEF FeeInv, GivenBack
  <2>3. Finite(u)' /\ Statement(u)' = Statement(u) - Fee
    BY <1>0, <1>2, <2>1, <2>2, EntryCharged DEF BookOf
  <2>4. balance'[u] = balance[u] - Fee /\ adrift'[u] = adrift[u]
    BY <1>0, <1>1, <1>4 DEF TypeOK
  <2> QED BY <1>0, <1>3, <2>3, <2>4, FeeAssumption, StatementInt, EntriesInt DEF BookOf
<1>5. CASE u # v
  <2>1. Charged(u)' = Charged(u)
    BY <1>1, <1>5 DEF Charged
  <2>2. Finite(u)' /\ Statement(u)' = Statement(u)
    BY <1>0, <1>2, <2>1, EntriesSame DEF BookOf
  <2>3. balance'[u] = balance[u] /\ adrift'[u] = adrift[u]
    BY <1>0, <1>1, <1>5 DEF TypeOK
  <2> QED BY <1>0, <1>3, <2>2, <2>3 DEF BookOf
<1> QED BY <1>4, <1>5

LEMMA BookCrash ==
  ASSUME BooksInv, NEW h \in Handlers, Crash(h), NEW u \in Users
  PROVE  BookOf(u)'
<1>0. TypeOK /\ BookOf(u)
  BY DEF BooksInv
<1>1. Become(h, NoTask) /\ UNCHANGED <<balance, status, chargedTo, refunds, corrected>>
  BY DEF Crash, Return, ledgerVars
<1>2. PICK a \in Int : a = Unwritten(u, task[h])
  BY <1>0, UnwrittenInt DEF TypeOK
<1>3. Due(u)' = Due(u) + (-a)
  <2>1. Due(u)' = Due(u) + (0 - a)
    BY <1>0, <1>1, <1>2, NoTaskIs, DueMove
  <2> QED BY <2>1
<1>4. adrift'[u] = adrift[u] + a
  <2>1. CASE UNCHANGED adrift /\ \A w \in Users : Unwritten(w, task[h]) = 0
    BY <1>0, <1>2, <2>1 DEF TypeOK
  <2>2. ASSUME NEW v \in Users, NEW amount \in Int, Drifts(v, amount),
               \A w \in Users : Unwritten(w, task[h]) = IF w = v THEN amount ELSE 0
        PROVE  adrift'[u] = adrift[u] + a
    BY <1>0, <1>2, <2>2 DEF Drifts, TypeOK
  <2> QED BY <1>0, <2>1, <2>2, CrashDrifts
<1>5. Finite(u)' /\ Statement(u)' = Statement(u)
  BY <1>0, <1>1, EntriesSame DEF Settled, Charged, Adjusted, GivenBack, BookOf
<1>6. balance'[u] = balance[u]
  BY <1>1
<1> QED BY <1>0, <1>3, <1>4, <1>5, <1>6, BookDrifts

LEMMA BooksNext == ASSUME BooksInv, [Next]_vars PROVE BooksInv'
<1>1. TypeOK' /\ FeeInv' /\ CorrectionInv'
  BY TypeNext, FeeNext, CorrectionNext DEF BooksInv
<1>2. ASSUME NEW u \in Users PROVE BookOf(u)'
  <2>1. TypeOK /\ BookOf(u)
    BY DEF BooksInv
  <2>2. CASE UNCHANGED vars
    BY <2>1, <2>2, DueSame, BookQuiet DEF vars, ledgerVars, historyVars, Settled
  <2>3. ASSUME NEW t \in TopUps, StartTopUp(t) \/ CreateTransaction(t) PROVE BookOf(u)'
    <3>1. /\ UNCHANGED <<balance, chargedTo, refunds, corrected, task, adrift>>
          /\ \A s \in TopUps : status'[s] = "success" <=> status[s] = "success"
      BY <2>1, <2>3 DEF StartTopUp, CreateTransaction, historyVars, TypeOK
    <3>2. Settled(u)' = Settled(u)
      BY <3>1 DEF Settled
    <3> QED BY <2>1, <3>1, <3>2, DueSame, BookQuiet
  <2>4. ASSUME NEW v \in Users, NEW j \in Jobs, ChargeFee(v, j) PROVE BookOf(u)'
    BY <2>4, BookCharge
  <2>5. ASSUME NEW h \in Handlers, Callback(h) PROVE BookOf(u)'
    BY <2>5, BookCallback
  <2>6. ASSUME NEW h \in Handlers, Admin(h) PROVE BookOf(u)'
    BY <1>1, <2>6, BookAdmin
  <2>7. ASSUME NEW h \in Handlers, Crash(h) PROVE BookOf(u)'
    BY <2>7, BookCrash
  <2> QED BY <2>2, <2>3, <2>4, <2>5, <2>6, <2>7 DEF Next
<1> QED BY <1>1, <1>2 DEF BooksInv

LEMMA BooksInit == Init => BooksInv
<1> SUFFICES ASSUME Init PROVE BooksInv
  OBVIOUS
<1>1. FeeInv /\ CorrectionInv
  BY DEF Init, FeeInv, CorrectionInv, OnJob, OnCorrection, NoTask
<1>2. ASSUME NEW u \in Users PROVE BookOf(u)
  <2>1. Settled(u) = {} /\ Charged(u) = {} /\ Adjusted(u) = {}
    BY DEF Init, Settled, Charged, Adjusted
  <2>2. Finite(u) /\ Statement(u) = Funds[u]
    BY <2>1, StatementIs, SumEmpty, FS_EmptySet, FundsAssumption DEF Finite
  <2>3. Due(u) = 0
    <3>1. \A h \in Handlers : OnTheWay(u)[h] = 0
      BY NoTaskIs DEF Init, OnTheWay
    <3>2. Cardinality(Handlers) \in Nat
      BY HandlersAssumption, FS_CardinalityType
    <3>3. Due(u) = 0 * Cardinality(Handlers)
      BY <3>1, HandlersAssumption, SumConstant DEF Due
    <3> QED BY <3>2, <3>3
  <2> QED BY <2>2, <2>3, FundsAssumption DEF Init, BookOf
<1> QED BY <1>1, <1>2, TypeInit DEF BooksInv

\* Once no handler is between its two commands, nothing is on its way.
LEMMA BooksAtRest == ASSUME BooksInv PROVE BooksBalance
<1> SUFFICES ASSUME AtRest, NEW u \in Users PROVE balance[u] = Statement(u) + adrift[u]
  BY DEF BooksBalance
<1>1. TypeOK /\ BookOf(u)
  BY DEF BooksInv
<1>2. \A h \in Handlers : OnTheWay(u)[h] = 0
  BY UnwrittenNone DEF AtRest, OnTheWay, Writing
<1>3. Cardinality(Handlers) \in Nat
  BY HandlersAssumption, FS_CardinalityType
<1>4. Due(u) = 0 * Cardinality(Handlers)
  BY <1>2, HandlersAssumption, SumConstant DEF Due
<1>5. Due(u) = 0
  BY <1>3, <1>4
<1> QED BY <1>1, <1>5, StatementInt, EntriesInt DEF BookOf

\* Once no call is under way, however calls overlapped and whoever died half-way,
\* every balance is what its ledger adds up to and what went adrift: a movement is
\* without an entry of its own only if its call died right after it, or if another
\* call settled the same top-up meanwhile; for any users, payments, jobs and amounts.
THEOREM LedgerAddsUp == Spec => []BooksBalance
BY BooksInit, BooksNext, BooksAtRest, PTL DEF Spec

=============================================================================
