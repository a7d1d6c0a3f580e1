--------------------------- MODULE BroadcastProofs ---------------------------
(***************************************************************************)
(* Proofs about Broadcast, for any broadcasts, users, batch size, number   *)
(* of workers and mishaps: nobody gets an announcement twice, a completed  *)
(* one has reached everybody, and what is final stays so.                  *)
(***************************************************************************)
EXTENDS Broadcast, FiniteSetTheorems, TLAPS

USE DEF At, Job

-----------------------------------------------------------------------------
(* Type correctness.  The count of failures stays in its range because a   *)
(* broadcast is claimed only while it is not given up.                     *)

FewFailures ==
  /\ \A b \in Broadcasts : status[b] # "failed" => attempts[b] < MaxAttempts
  /\ \A w \in Workers : task[w].pc # "idle" => task[w].attempts < MaxAttempts

TypeInv == TypeOK /\ FewFailures

LEMMA SendingFields ==
  ASSUME NEW w \in Workers, TypeOK, task[w].pc # "idle"
  PROVE  /\ task[w] \in Sending
         /\ task[w].pc \in {"read", "commit", "catch"} /\ task[w].job \in Broadcasts
         /\ task[w].attempts \in 0..MaxAttempts /\ task[w].batch \subseteq Users
         /\ task[w].stale \in BOOLEAN
<1>1. task[w] \in Sending
  BY DEF TypeOK, NoTask
<1> QED BY <1>1 DEF Sending

LEMMA IdleTask == NoTask.pc = "idle"
BY DEF NoTask

LEMMA GotoTypes ==
  ASSUME TypeOK, NEW w \in Workers, task[w].pc # "idle", NEW label \in {"read", "commit", "catch"},
         Goto(w, label)
  PROVE  /\ task' \in [Workers -> {NoTask} \cup Sending]
         /\ task'[w].pc = label /\ task'[w].attempts = task[w].attempts
         /\ \A v \in Workers \ {w} : task'[v] = task[v]
<1>1. task[w] \in Sending
  BY SendingFields
<1>2. [task[w] EXCEPT !.pc = label] \in Sending
  BY <1>1 DEF Sending
<1>3. task' = [task EXCEPT ![w] = [task[w] EXCEPT !.pc = label]]
  BY DEF Goto
<1> QED BY <1>1, <1>2, <1>3 DEF TypeOK, Sending

\* A write of a broadcast marks the snapshots of the others and touches nothing else.
LEMMA WriteTypes ==
  ASSUME TypeOK, NEW w \in Workers, NEW b \in Broadcasts, NEW t \in {NoTask} \cup Sending,
         Write(w, b, t)
  PROVE  /\ task' \in [Workers -> {NoTask} \cup Sending]
         /\ task'[w] = t
         /\ \A v \in Workers \ {w} :
              /\ task'[v].pc = task[v].pc
              /\ task[v].pc # "idle" => /\ task'[v].job = task[v].job
                                        /\ task'[v].attempts = task[v].attempts
                                        /\ task'[v].batch = task[v].batch
              /\ task[v].pc = "commit" /\ ~task'[v].stale => task'[v] = task[v] /\ task[v].job # b
<1>1. ASSUME NEW v \in Workers, v # w, At(v, "commit") /\ Job(v) = b
      PROVE  /\ task'[v] = [task[v] EXCEPT !.stale = TRUE]
             /\ task'[v] \in Sending /\ task'[v].stale
             /\ task'[v].pc = task[v].pc /\ task'[v].job = task[v].job
             /\ task'[v].attempts = task[v].attempts /\ task'[v].batch = task[v].batch
  <2>1. task'[v] = [task[v] EXCEPT !.stale = TRUE]
    BY <1>1 DEF Write
  <2>2. task[v] \in Sending
    BY <1>1, SendingFields
  <2> QED BY <2>1, <2>2 DEF Sending
<1>2. ASSUME NEW v \in Workers, v # w, ~(At(v, "commit") /\ Job(v) = b)
      PROVE  task'[v] = task[v]
  BY <1>2 DEF Write
<1>3. task'[w] = t
  BY DEF Write
<1>4. \A v \in Workers : task'[v] \in {NoTask} \cup Sending
  BY <1>1, <1>2, <1>3 DEF TypeOK
<1>5. task' \in [Workers -> {NoTask} \cup Sending]
  BY <1>4 DEF Write
<1> QED BY <1>1, <1>2, <1>3, <1>5

LEMMA NotifyTypes ==
  ASSUME TypeOK, NEW b \in Broadcasts, NEW batch \in SUBSET Users, Notify(b, batch)
  PROVE  /\ inbox' \in [Broadcasts -> [Users -> Nat]]
         /\ delivered' \in [Broadcasts -> Nat]
         /\ lastUser' \in [Broadcasts -> Users \cup {0}]
<1>1. Cardinality(batch) \in Nat
  BY UsersAssumption, FS_Subset, FS_CardinalityType
<1>2. delivered' \in [Broadcasts -> Nat]
  BY <1>1 DEF Notify, TypeOK
<1>3. lastUser' \in [Broadcasts -> Users \cup {0}]
  BY DEF Notify, TypeOK
<1>4. [u \in Users |-> inbox[b][u] + (IF u \in batch THEN 1 ELSE 0)] \in [Users -> Nat]
  BY DEF TypeOK
<1>5. inbox' \in [Broadcasts -> [Users -> Nat]]
  BY <1>4 DEF Notify, TypeOK
<1> QED BY <1>2, <1>3, <1>5

LEMMA TypeAudience ==
  ASSUME TypeInv,
         \/ \E b \in Broadcasts : QueueBroadcast(b) \/ LeaseEnds(b) \/ LeaseOutlived(b)
         \/ \E u \in Users : Leaves(u) \/ Returns(u)
  PROVE  TypeInv'
<1>1. ASSUME NEW b \in Broadcasts, QueueBroadcast(b) PROVE TypeInv'
  BY <1>1 DEF QueueBroadcast, TypeInv, TypeOK, FewFailures, progressVars
<1>2. ASSUME NEW b \in Broadcasts, LeaseEnds(b) PROVE TypeInv'
  BY <1>2 DEF LeaseEnds, TypeInv, TypeOK, FewFailures, progressVars, audienceVars
<1>3. ASSUME NEW b \in Broadcasts, LeaseOutlived(b) PROVE TypeInv'
  BY <1>3 DEF LeaseOutlived, TypeInv, TypeOK, FewFailures, progressVars, audienceVars
<1>4. ASSUME NEW u \in Users, Leaves(u) PROVE TypeInv'
  BY <1>4 DEF Leaves, TypeInv, TypeOK, FewFailures, progressVars
<1>5. ASSUME NEW u \in Users, Returns(u) PROVE TypeInv'
  BY <1>5 DEF Returns, TypeInv, TypeOK, FewFailures, progressVars
<1> QED BY <1>1, <1>2, <1>3, <1>4, <1>5

\* A step that changes only what a worker is doing.
LEMMA TypeOnlyTask ==
  ASSUME TypeInv, NEW w \in Workers, task' \in [Workers -> {NoTask} \cup Sending],
         task'[w].pc # "idle" => task'[w].attempts < MaxAttempts,
         \A v \in Workers \ {w} : task'[v] = task[v], mishaps' \in Nat,
         UNCHANGED <<status, leaseOwner, leased, attempts, progressVars, audienceVars>>
  PROVE  TypeInv'
<1>1. TypeOK'
  BY DEF TypeInv, TypeOK, progressVars, audienceVars
<1>2. FewFailures'
  BY DEF TypeInv, FewFailures
<1> QED BY <1>1, <1>2 DEF TypeInv

LEMMA TypeWorker ==
  ASSUME TypeInv, NEW w \in Workers, Proceed(w) \/ BatchFails(w) \/ Die(w)
  PROVE  TypeInv'
<1> USE MaxAttemptsAssumption
<1>a. TypeOK /\ FewFailures
  BY DEF TypeInv
<1>1. ASSUME NEW b \in Broadcasts, Claim(w, b) PROVE TypeInv'
  <2> DEFINE t == [pc |-> "read", job |-> b, attempts |-> attempts[b], batch |-> {}, stale |-> FALSE]
  <2>1. t \in Sending /\ t.attempts < MaxAttempts
    BY <1>a, <1>1 DEF Sending, Claim, Claimable, TypeOK, FewFailures
  <2>2. Write(w, b, t)
    BY <1>1 DEF Claim
  <2>3. /\ status' \in [Broadcasts -> {"unsent", "queued", "processing", "completed", "failed"}]
        /\ leaseOwner' \in [Broadcasts -> Workers \cup {NoOwner}]
        /\ leased' \in [Broadcasts -> BOOLEAN]
        /\ \A c \in Broadcasts : status'[c] # "failed" => status[c] # "failed"
    BY <1>a, <1>1 DEF Claim, Claimable, TypeOK
  <2>4. UNCHANGED <<attempts, progressVars, audienceVars, mishaps>>
    BY <1>1 DEF Claim
  <2> HIDE DEF t
  <2>5. TypeOK'
    BY <1>a, <2>1, <2>2, <2>3, <2>4, WriteTypes DEF TypeOK, progressVars, audienceVars
  <2>6. FewFailures'
    BY <1>a, <2>1, <2>2, <2>3, <2>4, WriteTypes DEF FewFailures
  <2> QED BY <2>5, <2>6 DEF TypeInv
<1>2. CASE ReadBatch(w)
  <2>1. PICK batch \in SUBSET Remaining(Job(w)) :
          task' = [task EXCEPT ![w].pc = "commit", ![w].batch = batch, ![w].stale = FALSE]
    BY <1>2 DEF ReadBatch
  <2>2. task[w] \in Sending /\ batch \subseteq Users
    BY <1>a, <1>2, SendingFields DEF ReadBatch, Remaining, TypeOK
  <2>3. [task[w] EXCEPT !.pc = "commit", !.batch = batch, !.stale = FALSE] \in Sending
    BY <2>2 DEF Sending
  <2>4. task' = [task EXCEPT ![w] = [task[w] EXCEPT !.pc = "commit", !.batch = batch, !.stale = FALSE]]
    BY <1>a, <2>1 DEF TypeOK
  <2>5. task'[w].attempts < MaxAttempts
    BY <1>a, <1>2, <2>2, <2>4 DEF TypeOK, FewFailures, Sending, ReadBatch
  <2>6. task' \in [Workers -> {NoTask} \cup Sending] /\ \A v \in Workers \ {w} : task'[v] = task[v]
    BY <1>a, <2>3, <2>4 DEF TypeOK
  <2>7. UNCHANGED <<status, leaseOwner, leased, attempts, progressVars, audienceVars, mishaps>>
    BY <1>2 DEF ReadBatch
  <2>8. mishaps' \in Nat
    BY <1>a, <2>7 DEF TypeOK
  <2> QED BY <2>5, <2>6, <2>7, <2>8, TypeOnlyTask
<1>3. CASE LoseLease(w) \/ RetryBatch(w) \/ BatchFails(w)
  <2>1. task[w].pc # "idle"
    BY <1>3 DEF LoseLease, RetryBatch, BatchFails
  <2>2. \E label \in {"read", "commit", "catch"} : Goto(w, label)
    BY <1>3 DEF LoseLease, RetryBatch, BatchFails
  <2>3. UNCHANGED <<status, leaseOwner, leased, attempts, progressVars, audienceVars, mishaps>>
    BY <1>3 DEF LoseLease, RetryBatch, BatchFails
  <2>4. task[w].attempts < MaxAttempts /\ mishaps' \in Nat
    BY <1>a, <2>1, <2>3 DEF FewFailures, TypeOK
  <2>5. /\ task' \in [Workers -> {NoTask} \cup Sending] /\ task'[w].attempts = task[w].attempts
        /\ \A v \in Workers \ {w} : task'[v] = task[v]
    BY <1>a, <2>1, <2>2, GotoTypes
  <2> QED BY <2>3, <2>4, <2>5, TypeOnlyTask
<1>4. CASE CommitBatch(w)
  <2>1. PICK t \in {NoTask, [task[w] EXCEPT !.pc = "catch"]} : Write(w, Job(w), t)
    BY <1>4 DEF CommitBatch
  <2>2. task[w] \in Sending /\ Job(w) \in Broadcasts /\ task[w].attempts < MaxAttempts
    BY <1>a, <1>4, SendingFields DEF CommitBatch, FewFailures
  <2>3. t \in {NoTask} \cup Sending /\ (t.pc # "idle" => t.attempts < MaxAttempts)
    BY <2>1, <2>2 DEF Sending, NoTask
  <2>4. task[w].batch \subseteq Users
    BY <1>a, <1>4, SendingFields DEF CommitBatch
  <2>5. /\ inbox' \in [Broadcasts -> [Users -> Nat]] /\ delivered' \in [Broadcasts -> Nat]
        /\ lastUser' \in [Broadcasts -> Users \cup {0}]
    BY <1>a, <1>4, <2>2, <2>4, NotifyTypes DEF CommitBatch
  <2>6. /\ status' \in [Broadcasts -> {"unsent", "queued", "processing", "completed", "failed"}]
        /\ leaseOwner' \in [Broadcasts -> Workers \cup {NoOwner}]
        /\ leased' \in [Broadcasts -> BOOLEAN]
        /\ attempts' \in [Broadcasts -> 0..MaxAttempts]
    <3>1. /\ status' = [status EXCEPT ![Job(w)] = "completed"] \/ status' = status
          /\ leaseOwner' = [leaseOwner EXCEPT ![Job(w)] = NoOwner]
          /\ leased' = [leased EXCEPT ![Job(w)] = FALSE]
          /\ attempts' = [attempts EXCEPT ![Job(w)] = 0]
      BY <1>4 DEF CommitBatch
    <3>2. 0 \in 0..MaxAttempts
      OBVIOUS
    <3>3. leased' \in [Broadcasts -> BOOLEAN]
      BY <1>a, <3>1, Zenon DEF TypeOK
    <3> QED BY <1>a, <3>1, <3>2, <3>3 DEF TypeOK
  <2>7. UNCHANGED <<audienceVars, mishaps>>
    BY <1>4 DEF CommitBatch
  <2>8. TypeOK'
    BY <1>a, <2>1, <2>2, <2>3, <2>5, <2>6, <2>7, WriteTypes DEF TypeOK, audienceVars
  <2>9. \A c \in Broadcasts : status'[c] # "failed" => attempts'[c] < MaxAttempts
    BY <1>a, <1>4 DEF CommitBatch, TypeOK, FewFailures
  <2>10. FewFailures'
    BY <1>a, <2>1, <2>2, <2>3, <2>9, WriteTypes DEF FewFailures
  <2> QED BY <2>8, <2>10 DEF TypeInv
<1>5. CASE RecordFailure(w)
  <2>1. CASE OwnsLease(w)
    <3> DEFINE b == Job(w)
               n == task[w].attempts + 1
    <3>1. b \in Broadcasts /\ n \in 0..MaxAttempts
      BY <1>a, <1>5, SendingFields DEF RecordFailure, FewFailures
    <3>2. /\ status' = [status EXCEPT ![b] = IF GivesUp(n) THEN "failed" ELSE "queued"]
          /\ attempts' = [attempts EXCEPT ![b] = n]
          /\ leased' = [leased EXCEPT ![b] = TRUE]
          /\ leaseOwner' = [leaseOwner EXCEPT ![b] = NoOwner]
          /\ Write(w, b, NoTask)
          /\ UNCHANGED <<progressVars, audienceVars, mishaps>>
      BY <1>5, <2>1 DEF RecordFailure
    <3>3. task' \in [Workers -> {NoTask} \cup Sending]
      BY <1>a, <3>1, <3>2, WriteTypes
    <3>4. TypeOK'
      BY <1>a, <3>1, <3>2, <3>3 DEF TypeOK, progressVars, audienceVars
    <3>5. \A c \in Broadcasts : status'[c] # "failed" => attempts'[c] < MaxAttempts
      BY <1>a, <3>1, <3>2 DEF TypeOK, FewFailures, GivesUp
    <3>6. FewFailures'
      BY <1>a, <3>1, <3>2, <3>5, WriteTypes, IdleTask DEF FewFailures
    <3> QED BY <3>4, <3>6 DEF TypeInv
  <2>2. CASE ~OwnsLease(w)
    BY <1>a, <1>5, <2>2, TypeOnlyTask, IdleTask DEF RecordFailure, Return, TypeOK
  <2> QED BY <2>1, <2>2
<1>6. CASE Die(w)
  BY <1>a, <1>6, TypeOnlyTask, IdleTask DEF Die, Return, TypeOK
<1> QED BY <1>1, <1>2, <1>3, <1>4, <1>5, <1>6 DEF Proceed

LEMMA TypeInit == Init => TypeInv
BY UsersAssumption, MaxAttemptsAssumption DEF Init, TypeInv, TypeOK, FewFailures, NoTask

LEMMA TypeStep == TypeInv /\ [Next]_vars => TypeInv'
<1> SUFFICES ASSUME TypeInv, [Next]_vars PROVE TypeInv'
  OBVIOUS
<1>1. CASE UNCHANGED vars
  BY <1>1 DEF vars, TypeInv, TypeOK, FewFailures, progressVars, audienceVars
<1>2. CASE Next
  BY <1>2, TypeAudience, TypeWorker DEF Next
<1> QED BY <1>1, <1>2

\* Every variable keeps its type; above all a broadcast is given up with its last
\* allowed failure, whichever of its workers record failures and in which order.
THEOREM BroadcastTypeCorrect == Spec => []TypeOK
<1>1. TypeInv => TypeOK
  BY DEF TypeInv
<1> QED BY <1>1, TypeInit, TypeStep, PTL DEF Spec

-----------------------------------------------------------------------------
(* What is delivered.  The ids up to lastUser are done with, those beyond  *)
(* have nothing yet, and a worker whose snapshot is current holds the next *)
(* ones: nobody else can have moved lastUser without making it stale.      *)

Progress(b) ==
  /\ \A u \in Users : inbox[b][u] <= 1 /\ (u > lastUser[b] => inbox[b][u] = 0)
  /\ \A u \in throughout[b] : u <= lastUser[b] => inbox[b][u] >= 1
  /\ status[b] = "completed" => \A u \in throughout[b] : inbox[b][u] >= 1
  /\ throughout[b] \subseteq eligible
  /\ status[b] = "unsent" => lastUser[b] = 0
  /\ leaseOwner[b] # NoOwner => status[b] = "processing"

Planned(w) ==
  LET b == task[w].job
      batch == task[w].batch
  IN  task[w].pc = "commit" /\ ~task[w].stale =>
        /\ leaseOwner[b] = w
        /\ \A u \in batch : u > lastUser[b]
        /\ \A u \in throughout[b] \ batch : u > lastUser[b] =>
             Cardinality(batch) = BatchSize /\ \A v \in batch : v < u

Inv == TypeInv /\ (\A b \in Broadcasts : Progress(b)) /\ (\A w \in Workers : Planned(w))

\* A step of w that changes nothing but what w does, and after which w is to commit
\* nothing, keeps the invariant.
LEMMA OnlyTaskKeeps ==
  ASSUME Inv, NEW w \in Workers, task'[w].pc # "commit",
         \A v \in Workers \ {w} : task'[v] = task[v],
         UNCHANGED <<status, leaseOwner, leased, attempts, progressVars, audienceVars>>
  PROVE  (\A b \in Broadcasts : Progress(b)') /\ (\A v \in Workers : Planned(v)')
<1>1. ASSUME NEW b \in Broadcasts PROVE Progress(b)'
  BY DEF Inv, Progress, progressVars, audienceVars
<1>2. ASSUME NEW v \in Workers PROVE Planned(v)'
  <2>1. CASE v = w
    BY <2>1 DEF Planned
  <2>2. CASE v # w
    BY <2>2 DEF Inv, Planned, progressVars, audienceVars
  <2> QED BY <2>1, <2>2
<1> QED BY <1>1, <1>2

\* A worker that writes broadcast b leaves the plans for the other broadcasts as they are.
LEMMA WriteKeepsPlans ==
  ASSUME Inv, NEW w \in Workers, NEW b \in Broadcasts, NEW t \in {NoTask} \cup Sending,
         t.pc # "commit", Write(w, b, t), throughout' = throughout,
         \A c \in Broadcasts \ {b} : leaseOwner'[c] = leaseOwner[c] /\ lastUser'[c] = lastUser[c]
  PROVE  \A v \in Workers : Planned(v)'
<1> SUFFICES ASSUME NEW v \in Workers, task'[v].pc = "commit", ~task'[v].stale
             PROVE  Planned(v)'
  BY DEF Planned
<1>1. TypeOK
  BY DEF Inv, TypeInv
<1>2. v # w /\ task'[v] = task[v] /\ task[v].job # b
  BY <1>1, WriteTypes
<1>3. task[v].job \in Broadcasts
  BY <1>1, <1>2, SendingFields
<1>4. Planned(v)
  BY DEF Inv
<1> QED BY <1>2, <1>3, <1>4 DEF Planned

LEMMA AudienceKeeps ==
  ASSUME Inv,
         \/ \E b \in Broadcasts : QueueBroadcast(b) \/ LeaseEnds(b) \/ LeaseOutlived(b)
         \/ \E u \in Users : Leaves(u) \/ Returns(u)
  PROVE  (\A b \in Broadcasts : Progress(b)') /\ (\A w \in Workers : Planned(w)')
<1>a. TypeOK
  BY DEF Inv, TypeInv
<1>1. ASSUME NEW b \in Broadcasts, QueueBroadcast(b)
      PROVE  (\A c \in Broadcasts : Progress(c)') /\ (\A w \in Workers : Planned(w)')
  <2>1. /\ status[b] = "unsent" /\ status' = [status EXCEPT ![b] = "queued"]
        /\ throughout' = [throughout EXCEPT ![b] = eligible]
        /\ UNCHANGED <<leaseOwner, lastUser, inbox, eligible, task>>
    BY <1>1 DEF QueueBroadcast, progressVars
  <2>2. lastUser[b] = 0 /\ leaseOwner[b] = NoOwner
    BY <2>1 DEF Inv, Progress
  <2>3. \A u \in Users : ~(u <= 0)
    <3>1. \A u \in Nat \ {0} : ~(u <= 0)
      OBVIOUS
    <3> QED BY <3>1, UsersAssumption
  <2>4. ASSUME NEW c \in Broadcasts PROVE Progress(c)'
    <3>1. Progress(c) /\ eligible \subseteq Users
      BY <1>a DEF Inv, TypeOK
    <3>2. CASE c = b
      <4>1. status'[b] = "queued" /\ throughout'[b] = eligible
        BY <1>a, <2>1 DEF TypeOK
      <4>2. ~\E u \in eligible : u <= lastUser[b]
        BY <2>2, <2>3, <3>1
      <4> QED BY <2>1, <2>2, <3>1, <3>2, <4>1, <4>2 DEF Progress
    <3>3. CASE c # b
      BY <1>a, <2>1, <3>1, <3>3 DEF Progress, TypeOK
    <3> QED BY <3>2, <3>3
  <2>5. ASSUME NEW w \in Workers PROVE Planned(w)'
    <3>1. task[w].pc = "commit" => task[w].job \in Broadcasts
      BY <1>a, SendingFields
    <3>2. task[w].pc = "commit" /\ ~task[w].stale => task[w].job # b
      BY <2>2, NoOwnerAssumption DEF Inv, Planned
    <3> QED BY <1>a, <2>1, <3>1, <3>2 DEF Inv, Planned, TypeOK
  <2> QED BY <2>4, <2>5
<1>2. ASSUME NEW b \in Broadcasts, LeaseEnds(b) \/ LeaseOutlived(b)
      PROVE  (\A c \in Broadcasts : Progress(c)') /\ (\A w \in Workers : Planned(w)')
  <2>1. UNCHANGED <<status, leaseOwner, lastUser, inbox, throughout, eligible, task>>
    BY <1>2 DEF LeaseEnds, LeaseOutlived, progressVars, audienceVars
  <2>2. ASSUME NEW c \in Broadcasts PROVE Progress(c)'
    BY <2>1 DEF Inv, Progress
  <2>3. ASSUME NEW w \in Workers PROVE Planned(w)'
    BY <2>1 DEF Inv, Planned
  <2> QED BY <2>2, <2>3
<1>3. ASSUME NEW u \in Users, Leaves(u) \/ Returns(u)
      PROVE  (\A c \in Broadcasts : Progress(c)') /\ (\A w \in Workers : Planned(w)')
  <2>1. UNCHANGED <<status, leaseOwner, lastUser, inbox, task>>
    BY <1>3 DEF Leaves, Returns, progressVars
  <2>2. \A c \in Broadcasts : throughout'[c] \subseteq throughout[c] /\ throughout'[c] \subseteq eligible'
    <3>1. \A c \in Broadcasts : throughout[c] \subseteq eligible
      BY DEF Inv, Progress
    <3> QED BY <1>3, <1>a, <3>1 DEF Leaves, Returns, TypeOK
  <2>3. ASSUME NEW c \in Broadcasts PROVE Progress(c)'
    BY <2>1, <2>2 DEF Inv, Progress
  <2>4. ASSUME NEW w \in Workers PROVE Planned(w)'
    <3>1. task[w].pc = "commit" => task[w].job \in Broadcasts
      BY <1>a, SendingFields
    <3> QED BY <2>1, <2>2, <3>1 DEF Inv, Planned
  <2> QED BY <2>3, <2>4
<1> QED BY <1>1, <1>2, <1>3

LEMMA ClaimKeeps ==
  ASSUME Inv, NEW w \in Workers, NEW b \in Broadcasts, Claim(w, b)
  PROVE  (\A c \in Broadcasts : Progress(c)') /\ (\A v \in Workers : Planned(v)')
<1> DEFINE t == [pc |-> "read", job |-> b, attempts |-> attempts[b], batch |-> {}, stale |-> FALSE]
<1>a. TypeOK
  BY DEF Inv, TypeInv
<1>1. /\ status[b] \in {"queued", "processing"} /\ status' = [status EXCEPT ![b] = "processing"]
      /\ leaseOwner' = [leaseOwner EXCEPT ![b] = w] /\ Write(w, b, t)
      /\ UNCHANGED <<lastUser, inbox, throughout, eligible>>
  BY DEF Claim, Claimable, progressVars, audienceVars
<1>2. ASSUME NEW c \in Broadcasts PROVE Progress(c)'
  BY <1>a, <1>1 DEF Inv, Progress, TypeOK
<1>3. t \in Sending /\ t.pc # "commit"
  BY <1>a DEF Sending, TypeOK
<1> HIDE DEF t
<1>4. \A v \in Workers : Planned(v)'
  BY <1>a, <1>1, <1>3, WriteKeepsPlans DEF TypeOK
<1> QED BY <1>2, <1>4

LEMMA ReadKeeps ==
  ASSUME Inv, NEW w \in Workers, ReadBatch(w)
  PROVE  (\A c \in Broadcasts : Progress(c)') /\ (\A v \in Workers : Planned(v)')
<1> DEFINE b == Job(w)
<1>a. TypeOK
  BY DEF Inv, TypeInv
<1>1. PICK batch \in SUBSET Remaining(b) :
        /\ IsBatch(batch, Remaining(b))
        /\ task' = [task EXCEPT ![w].pc = "commit", ![w].batch = batch, ![w].stale = FALSE]
  BY DEF ReadBatch
<1>2. /\ leaseOwner[b] = w /\ task[w] \in Sending /\ b \in Broadcasts
      /\ UNCHANGED <<status, leaseOwner, lastUser, inbox, throughout, eligible>>
  BY <1>a, SendingFields DEF ReadBatch, OwnsLease, progressVars, audienceVars
<1>3. /\ task'[w].job = b /\ task'[w].batch = batch
      /\ \A v \in Workers \ {w} : task'[v] = task[v]
  BY <1>a, <1>1, <1>2 DEF TypeOK, Sending
<1>4. ASSUME NEW c \in Broadcasts PROVE Progress(c)'
  BY <1>2 DEF Inv, Progress
<1>5. throughout[b] \subseteq eligible
  BY <1>2 DEF Inv, Progress
<1>6. ASSUME NEW u \in throughout[b] \ batch, u > lastUser[b]
      PROVE  Cardinality(batch) = BatchSize /\ \A v \in batch : v < u
  <2>1. u \in Remaining(b) \ batch
    BY <1>5, <1>6 DEF Remaining
  <2> QED BY <1>1, <2>1 DEF IsBatch
<1>7. \A u \in batch : u > lastUser[b]
  BY <1>1 DEF Remaining
<1>8. Planned(w)'
  <2>1. leaseOwner'[b] = w /\ lastUser' = lastUser /\ throughout' = throughout
    BY <1>2
  <2> HIDE DEF b
  <2> QED BY <1>3, <1>6, <1>7, <2>1 DEF Planned
<1>9. ASSUME NEW v \in Workers, v # w PROVE Planned(v)'
  BY <1>2, <1>3, <1>9 DEF Inv, Planned
<1> QED BY <1>4, <1>8, <1>9

LEMMA CommitKeeps ==
  ASSUME Inv, NEW w \in Workers, CommitBatch(w)
  PROVE  (\A c \in Broadcasts : Progress(c)') /\ (\A v \in Workers : Planned(v)')
<1>a. TypeOK
  BY DEF Inv, TypeInv
<1>b. task[w].job \in Broadcasts /\ task[w] \in Sending /\ task[w].batch \subseteq Users
  BY <1>a, SendingFields DEF CommitBatch
<1> PICK b \in Broadcasts, batch \in SUBSET Users : b = task[w].job /\ batch = task[w].batch
  BY <1>b
<1>1. b \in Broadcasts /\ task[w] \in Sending /\ batch \subseteq Users
  BY <1>b
<1>2. /\ leaseOwner[b] = w
      /\ \A u \in batch : u > lastUser[b]
      /\ \A u \in throughout[b] \ batch : u > lastUser[b] =>
           Cardinality(batch) = BatchSize /\ \A v \in batch : v < u
  BY <1>1 DEF CommitBatch, Conflicts, Inv, Planned
<1>3. PICK t \in {NoTask, [task[w] EXCEPT !.pc = "catch"]} : Write(w, b, t)
  BY DEF CommitBatch
<1>4. t \in {NoTask} \cup Sending /\ t.pc # "commit"
  BY <1>1, <1>3 DEF Sending, NoTask
<1>5. /\ Notify(b, batch) /\ leaseOwner' = [leaseOwner EXCEPT ![b] = NoOwner]
      /\ status' = IF IsLast(batch) THEN [status EXCEPT ![b] = "completed"] ELSE status
      /\ UNCHANGED <<throughout, eligible>>
  BY DEF CommitBatch, audienceVars
<1>6. \A c \in Broadcasts \ {b} :
        leaseOwner'[c] = leaseOwner[c] /\ lastUser'[c] = lastUser[c] /\ inbox'[c] = inbox[c]
  BY <1>a, <1>5 DEF Notify, TypeOK
<1>7. \A v \in Workers : Planned(v)'
  BY <1>1, <1>3, <1>4, <1>5, <1>6, WriteKeepsPlans
<1>8. ASSUME NEW c \in Broadcasts, c # b PROVE Progress(c)'
  <2>1. status'[c] = status[c]
    BY <1>a, <1>5, <1>8 DEF TypeOK
  <2> QED BY <1>5, <1>6, <1>8, <2>1 DEF Inv, Progress
<1>9. Progress(b)'
  <2>1. Progress(b) /\ status[b] = "processing" /\ leaseOwner'[b] = NoOwner
    BY <1>1, <1>2, <1>a, <1>5, NoOwnerAssumption DEF Inv, Progress, TypeOK
  <2>2. \A u \in Users : inbox'[b][u] = inbox[b][u] + (IF u \in batch THEN 1 ELSE 0)
    BY <1>1, <1>5, <1>a DEF Notify, TypeOK
  <2>3. /\ lastUser[b] \in Nat /\ lastUser'[b] \in Nat /\ lastUser'[b] >= lastUser[b]
        /\ \A u \in batch : u <= lastUser'[b]
        /\ lastUser'[b] # lastUser[b] => lastUser'[b] \in batch
    <3>1. CASE batch = {}
      BY <3>1, <1>1, <1>5, <1>a, UsersAssumption DEF Notify, TypeOK
    <3>2. CASE batch # {}
      <4>1. PICK last \in batch : /\ \A v \in batch : v <= last
                                  /\ lastUser' = [lastUser EXCEPT ![b] = last]
        BY <3>2, <1>5 DEF Notify
      <4>2. lastUser'[b] = last /\ last > lastUser[b]
        BY <4>1, <1>1, <1>2, <1>a DEF TypeOK
      <4>3. lastUser[b] \in Nat /\ last \in Nat
        BY <4>1, <1>1, <1>a, UsersAssumption DEF TypeOK
      <4> QED BY <4>1, <4>2, <4>3
    <3> QED BY <3>1, <3>2
  <2>4. Users \subseteq Nat /\ throughout'[b] = throughout[b] /\ throughout[b] \subseteq Users
    BY <1>1, <1>5, <1>a, UsersAssumption DEF TypeOK
  <2>5. \A u \in Users : inbox[b][u] \in Nat
    BY <1>1, <1>a DEF TypeOK
  <2>6. ASSUME NEW u \in Users
        PROVE  inbox'[b][u] <= 1 /\ (u > lastUser'[b] => inbox'[b][u] = 0)
    <3>1. CASE u \in batch
      BY <3>1, <1>2, <2>1, <2>2, <2>3, <2>4, <2>5 DEF Progress
    <3>2. CASE u \notin batch
      BY <3>2, <2>1, <2>2, <2>3, <2>4, <2>5 DEF Progress
    <3> QED BY <3>1, <3>2
  <2>7. ASSUME NEW u \in throughout[b], u <= lastUser'[b]
        PROVE  inbox'[b][u] >= 1
    <3>1. CASE u \in batch
      BY <3>1, <2>2, <2>4, <2>5
    <3>2. CASE u \notin batch /\ u <= lastUser[b]
      BY <3>2, <2>1, <2>2, <2>4, <2>5 DEF Progress
    <3>3. CASE u \notin batch /\ u > lastUser[b]
      BY <3>3, <2>7, <1>2, <2>3, <2>4
    <3> QED BY <3>1, <3>2, <3>3, <2>3, <2>4
  <2>8. ASSUME status'[b] = "completed", NEW u \in throughout[b]
        PROVE  inbox'[b][u] >= 1
    <3>1. Cardinality(batch) < BatchSize
      BY <2>8, <2>1, <1>5 DEF IsLast
    <3>2. Cardinality(batch) # BatchSize
      BY <3>1, BatchSizeAssumption
    <3>3. u \in batch \/ u <= lastUser[b]
      BY <3>2, <1>2, <2>3, <2>4
    <3>4. u \in batch \/ inbox[b][u] >= 1
      BY <3>3, <2>1 DEF Progress
    <3> QED BY <3>4, <2>2, <2>4, <2>5
  <2>9. status'[b] # "unsent"
    BY <1>1, <1>5, <1>a, <2>1 DEF TypeOK
  <2> QED BY <1>5, <2>1, <2>4, <2>6, <2>7, <2>8, <2>9 DEF Progress
<1> QED BY <1>7, <1>8, <1>9

LEMMA FailureKeeps ==
  ASSUME Inv, NEW w \in Workers, RecordFailure(w)
  PROVE  (\A c \in Broadcasts : Progress(c)') /\ (\A v \in Workers : Planned(v)')
<1> DEFINE b == Job(w)
<1>a. TypeOK
  BY DEF Inv, TypeInv
<1>1. CASE OwnsLease(w)
  <2>1. b \in Broadcasts /\ leaseOwner[b] = w
    BY <1>a, <1>1, SendingFields DEF RecordFailure, OwnsLease
  <2>2. status[b] = "processing"
    BY <2>1, NoOwnerAssumption DEF Inv, Progress
  <2>3. PICK s \in {"failed", "queued"} : status' = [status EXCEPT ![b] = s]
    BY <1>1 DEF RecordFailure
  <2>4. /\ leaseOwner' = [leaseOwner EXCEPT ![b] = NoOwner] /\ Write(w, b, NoTask)
        /\ UNCHANGED <<lastUser, inbox, throughout, eligible>>
    BY <1>1 DEF RecordFailure, progressVars, audienceVars
  <2>5. ASSUME NEW c \in Broadcasts PROVE Progress(c)'
    BY <1>a, <2>1, <2>2, <2>3, <2>4 DEF Inv, Progress, TypeOK
  <2>6. \A v \in Workers : Planned(v)'
    BY <1>a, <2>1, <2>4, IdleTask, WriteKeepsPlans DEF TypeOK
  <2> QED BY <2>5, <2>6
<1>2. CASE ~OwnsLease(w)
  BY <1>a, <1>2, IdleTask, OnlyTaskKeeps DEF RecordFailure, Return, TypeOK
<1> QED BY <1>1, <1>2

LEMMA StepKeeps == Inv /\ [Next]_vars => Inv'
<1> SUFFICES ASSUME Inv, [Next]_vars PROVE Inv'
  OBVIOUS
<1>a. TypeInv /\ TypeInv'
  BY TypeStep DEF Inv
<1> SUFFICES (\A b \in Broadcasts : Progress(b)') /\ (\A v \in Workers : Planned(v)')
  BY <1>a DEF Inv
<1>1. CASE UNCHANGED vars
  <2>1. UNCHANGED <<status, leaseOwner, lastUser, inbox, throughout, eligible, task>>
    BY <1>1 DEF vars, progressVars, audienceVars
  <2>2. ASSUME NEW b \in Broadcasts PROVE Progress(b)'
    BY <2>1 DEF Inv, Progress
  <2>3. ASSUME NEW w \in Workers PROVE Planned(w)'
    BY <2>1 DEF Inv, Planned
  <2> QED BY <2>2, <2>3
<1>2. ASSUME NEW w \in Workers, Proceed(w) \/ BatchFails(w) \/ Die(w)
      PROVE  (\A b \in Broadcasts : Progress(b)') /\ (\A v \in Workers : Planned(v)')
  <2>1. CASE LoseLease(w) \/ RetryBatch(w) \/ BatchFails(w)
    <3>1. PICK label \in {"read", "catch"} : Goto(w, label)
      BY <2>1 DEF LoseLease, RetryBatch, BatchFails
    <3>2. task[w].pc # "idle"
      BY <2>1 DEF LoseLease, RetryBatch, BatchFails
    <3>3. label \in {"read", "commit", "catch"} /\ label # "commit" /\ TypeOK
      BY <1>a DEF TypeInv
    <3>5. task'[w].pc # "commit" /\ \A v \in Workers \ {w} : task'[v] = task[v]
      BY <3>1, <3>2, <3>3, GotoTypes
    <3>4. UNCHANGED <<status, leaseOwner, leased, attempts, progressVars, audienceVars>>
      BY <2>1 DEF LoseLease, RetryBatch, BatchFails
    <3> QED BY <3>4, <3>5, OnlyTaskKeeps
  <2>2. CASE Die(w)
    BY <1>a, <2>2, IdleTask, OnlyTaskKeeps DEF Die, Return, TypeInv, TypeOK
  <2> QED BY <1>2, <2>1, <2>2, ClaimKeeps, ReadKeeps, CommitKeeps, FailureKeeps DEF Proceed
<1> QED BY <1>1, <1>2, AudienceKeeps DEF Next

LEMMA InitHolds == Init => Inv
<1> SUFFICES ASSUME Init PROVE Inv
  OBVIOUS
<1>1. TypeInv
  BY TypeInit
<1>2. ASSUME NEW b \in Broadcasts PROVE Progress(b)
  BY UsersAssumption DEF Init, Progress
<1>3. ASSUME NEW w \in Workers PROVE Planned(w)
  BY DEF Init, Planned, NoTask
<1> QED BY <1>1, <1>2, <1>3 DEF Inv

LEMMA Invariance == Spec => []Inv
BY InitHolds, StepKeeps, PTL DEF Spec

\* processBroadcastBatch notifies nobody twice, however many workers share a broadcast,
\* outlive their leases, die or take a commit for a failure.
THEOREM NobodyNotifiedTwice == Spec => []NotifiedOnce
<1>1. Inv => NotifiedOnce
  BY DEF Inv, Progress, NotifiedOnce
<1> QED BY <1>1, Invariance, PTL

\* A broadcast that processBroadcastBatch marks completed has reached everybody who was
\* in the audience from the start.
THEOREM CompletedReachesAll == Spec => []NobodySkipped
<1>1. Inv => NobodySkipped
  BY DEF Inv, Progress, NobodySkipped
<1> QED BY <1>1, Invariance, PTL

\* The progress that admins see and the audit log keeps (Broadcast.delivered) counts
\* exactly the users who got the announcement, whatever commits are lost or repeated.
THEOREM ProgressIsTrue == Spec => []DeliveredIsStored
<1> DEFINE Got(b) == {u \in Users : inbox[b][u] > 0}
<1>1. Init => DeliveredIsStored
  <2> SUFFICES ASSUME Init, NEW b \in Broadcasts PROVE delivered[b] = Cardinality(Got(b))
    BY DEF DeliveredIsStored
  <2>1. Got(b) = {} /\ delivered[b] = 0
    BY DEF Init
  <2> QED BY <2>1, FS_EmptySet
<1>2. Inv /\ DeliveredIsStored /\ [Next]_vars => DeliveredIsStored'
  <2> SUFFICES ASSUME Inv, DeliveredIsStored, [Next]_vars PROVE DeliveredIsStored'
    OBVIOUS
  <2>a. TypeOK
    BY DEF Inv, TypeInv
  <2>1. CASE UNCHANGED progressVars
    BY <2>1 DEF progressVars, DeliveredIsStored
  <2>2. ASSUME NEW w \in Workers, CommitBatch(w) PROVE DeliveredIsStored'
    <3>1. task[w].job \in Broadcasts /\ task[w].batch \subseteq Users
      BY <2>a, <2>2, SendingFields DEF CommitBatch
    <3> PICK b \in Broadcasts, batch \in SUBSET Users : b = task[w].job /\ batch = task[w].batch
      BY <3>1
    <3>2. /\ inbox' = [inbox EXCEPT ![b] = [u \in Users |-> @[u] + (IF u \in batch THEN 1 ELSE 0)]]
          /\ delivered' = [delivered EXCEPT ![b] = @ + Cardinality(batch)]
      BY <2>2 DEF CommitBatch, Notify
    <3>3. \A u \in batch : u > lastUser[b]
      BY <2>2 DEF CommitBatch, Conflicts, Inv, Planned
    <3>4. \A u \in batch : inbox[b][u] = 0
      BY <3>3 DEF Inv, Progress
    <3>5. \A u \in Users : /\ inbox[b][u] \in Nat
                           /\ inbox'[b][u] = inbox[b][u] + (IF u \in batch THEN 1 ELSE 0)
      BY <2>a, <3>2 DEF TypeOK
    <3>6. {u \in Users : inbox'[b][u] > 0} = Got(b) \cup batch
      <4>1. \A u \in Users : inbox'[b][u] > 0 <=> inbox[b][u] > 0 \/ u \in batch
        BY <3>5
      <4> QED BY <4>1
    <3>7. Got(b) \cap batch = {}
      BY <3>4
    <3>8. /\ IsFiniteSet(Got(b)) /\ IsFiniteSet(batch)
          /\ Cardinality(Got(b)) \in Nat /\ Cardinality(batch) \in Nat
      BY UsersAssumption, FS_Subset, FS_CardinalityType
    <3>9. Cardinality(Got(b) \cup batch) = Cardinality(Got(b)) + Cardinality(batch)
      <4>1. Cardinality(Got(b) \cap batch) = 0
        BY <3>7, FS_EmptySet
      <4>2. Cardinality(Got(b) \cup batch) =
              Cardinality(Got(b)) + Cardinality(batch) - Cardinality(Got(b) \cap batch)
        BY <3>8, FS_Union
      <4> HIDE DEF Got
      <4> QED BY <3>8, <4>1, <4>2
    <3>10. delivered'[b] = Cardinality({u \in Users : inbox'[b][u] > 0})
      <4>1. delivered[b] = Cardinality(Got(b)) /\ delivered'[b] = delivered[b] + Cardinality(batch)
        BY <2>a, <3>2 DEF TypeOK, DeliveredIsStored
      <4> QED BY <3>6, <3>9, <4>1
    <3>11. ASSUME NEW c \in Broadcasts, c # b
           PROVE  delivered'[c] = Cardinality({u \in Users : inbox'[c][u] > 0})
      <4>1. delivered'[c] = delivered[c] /\ inbox'[c] = inbox[c]
        BY <2>a, <3>2, <3>11 DEF TypeOK
      <4> QED BY <4>1 DEF DeliveredIsStored
    <3> QED BY <3>10, <3>11 DEF DeliveredIsStored
  <2>3. UNCHANGED progressVars \/ \E w \in Workers : CommitBatch(w)
    BY DEF Next, vars, QueueBroadcast, LeaseEnds, LeaseOutlived, Leaves, Returns, Proceed, Claim, ReadBatch,
       LoseLease, RetryBatch, RecordFailure, BatchFails, Die
  <2> QED BY <2>1, <2>2, <2>3
<1> QED BY <1>1, <1>2, Invariance, PTL DEF Spec

\* No worker's late failure, claim or commit changes a broadcast that is completed or
\* given up.
THEOREM FinalStaysFinal == Spec => FinalIsFinal
<1> DEFINE Final(b) == status[b] \in {"completed", "failed"} => status'[b] = status[b]
<1>1. Inv /\ [Next]_vars => \A b \in Broadcasts : Final(b)
  <2> SUFFICES ASSUME Inv, Next, NEW b \in Broadcasts PROVE Final(b)
    BY DEF vars
  <2>a. TypeOK
    BY DEF Inv, TypeInv
  <2>1. CASE status' = status
    BY <2>1
  <2>2. ASSUME NEW c \in Broadcasts, QueueBroadcast(c) PROVE Final(b)
    BY <2>a, <2>2 DEF QueueBroadcast, TypeOK
  <2>3. ASSUME NEW w \in Workers, NEW c \in Broadcasts, Claim(w, c) PROVE Final(b)
    BY <2>a, <2>3 DEF Claim, Claimable, TypeOK
  <2>4. ASSUME NEW w \in Workers, CommitBatch(w) PROVE Final(b)
    <3>1. task[w].job \in Broadcasts /\ leaseOwner[task[w].job] = w
      BY <2>a, <2>4, SendingFields DEF CommitBatch, Conflicts, Inv, Planned
    <3>2. status[task[w].job] = "processing"
      BY <3>1, NoOwnerAssumption DEF Inv, Progress
    <3> QED BY <2>a, <2>4, <3>2 DEF CommitBatch, TypeOK
  <2>5. ASSUME NEW w \in Workers, RecordFailure(w), OwnsLease(w) PROVE Final(b)
    <3>1. task[w].job \in Broadcasts /\ leaseOwner[task[w].job] = w
      BY <2>a, <2>5, SendingFields DEF RecordFailure, OwnsLease
    <3>2. status[task[w].job] = "processing"
      BY <3>1, NoOwnerAssumption DEF Inv, Progress
    <3> QED BY <2>a, <2>5, <3>2 DEF RecordFailure, TypeOK
  <2>6. status' = status \/ (\E c \in Broadcasts : QueueBroadcast(c))
          \/ \E w \in Workers : \/ \E c \in Broadcasts : Claim(w, c)
                                \/ CommitBatch(w)
                                \/ RecordFailure(w) /\ OwnsLease(w)
    BY DEF Next, LeaseEnds, LeaseOutlived, Leaves, Returns, Proceed, ReadBatch, LoseLease, RetryBatch,
       RecordFailure, BatchFails, Die
  <2> QED BY <2>1, <2>2, <2>3, <2>4, <2>5, <2>6
<1>2. Inv /\ [Next]_vars =>
        [\A b \in Broadcasts : status[b] \in {"completed", "failed"} => status'[b] = status[b]]_vars
  BY <1>1
<1> QED BY <1>2, Invariance, PTL DEF Spec, FinalIsFinal
=============================================================================
