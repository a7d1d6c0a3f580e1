------------------------------ MODULE Broadcast ------------------------------
(***************************************************************************)
(* Announcements of an admin to everybody (queueBroadcast and              *)
(* processBroadcastBatch of broadcast.service.ts).  Every process has a    *)
(* worker that takes the oldest broadcast whose lease is over and notifies *)
(* the next users, in the order of their ids, in one transaction with the  *)
(* broadcast's progress.                                                   *)
(*                                                                         *)
(* The transaction has a step that takes its snapshot and reads the users, *)
(* and one that commits.  If somebody wrote the broadcast in between, it   *)
(* is run again.  Users come and go at any time.                           *)
(***************************************************************************)
EXTENDS Integers, FiniteSets

CONSTANTS
  Count,        \* how many broadcasts are sent, in this order
  Users,        \* ids, which are ordered
  BatchSize,
  MaxAttempts,  \* failures in a row after which a broadcast is given up
  Workers,
  NoOwner,
  MaxMishaps    \* bound: leases outlived and workers that die

Broadcasts == 1..Count

ASSUME CountAssumption == Count \in Nat
ASSUME UsersAssumption == Users \subseteq Nat \ {0} /\ IsFiniteSet(Users)
ASSUME BatchSizeAssumption == BatchSize \in Nat \ {0}
ASSUME MaxAttemptsAssumption == MaxAttempts \in Nat \ {0}
ASSUME NoOwnerAssumption == NoOwner \notin Workers

VARIABLES
  status,     \* Broadcast.status, and "unsent" before it exists
  leaseOwner, \* Broadcast.leaseOwner; a worker claims under a new id each time
  leased,     \* Broadcast.leaseUntil is in the future
  attempts,   \* Broadcast.attempts
  lastUser,   \* Broadcast.lastUser, 0 before the first batch
  delivered,  \* Broadcast.delivered
  inbox,      \* [Broadcasts -> [Users -> Nat]]: notifications stored
  eligible,   \* the users audienceFilter finds
  throughout, \* history: the users eligible ever since a broadcast was queued
  task,       \* what each worker is doing
  mishaps

progressVars == <<lastUser, delivered, inbox>>
audienceVars == <<eligible, throughout>>
vars == <<status, leaseOwner, leased, attempts, progressVars, audienceVars, task, mishaps>>

NoTask == [pc |-> "idle"]
Sending == [pc : {"read", "commit", "catch"}, job : Broadcasts, attempts : 0..MaxAttempts,
            batch : SUBSET Users, stale : BOOLEAN]

TypeOK ==
  /\ status \in [Broadcasts -> {"unsent", "queued", "processing", "completed", "failed"}]
  /\ leaseOwner \in [Broadcasts -> Workers \cup {NoOwner}]
  /\ leased \in [Broadcasts -> BOOLEAN]
  /\ attempts \in [Broadcasts -> 0..MaxAttempts]
  /\ lastUser \in [Broadcasts -> Users \cup {0}]
  /\ delivered \in [Broadcasts -> Nat]
  /\ inbox \in [Broadcasts -> [Users -> Nat]]
  /\ eligible \subseteq Users
  /\ throughout \in [Broadcasts -> SUBSET Users]
  /\ task \in [Workers -> {NoTask} \cup Sending]
  /\ mishaps \in Nat

Init ==
  /\ status = [b \in Broadcasts |-> "unsent"]
  /\ leaseOwner = [b \in Broadcasts |-> NoOwner]
  /\ leased = [b \in Broadcasts |-> FALSE]
  /\ attempts = [b \in Broadcasts |-> 0]
  /\ lastUser = [b \in Broadcasts |-> 0]
  /\ delivered = [b \in Broadcasts |-> 0]
  /\ inbox = [b \in Broadcasts |-> [u \in Users |-> 0]]
  /\ eligible = Users
  /\ throughout = [b \in Broadcasts |-> Users]
  /\ task = [w \in Workers |-> NoTask]
  /\ mishaps = 0

-----------------------------------------------------------------------------
At(w, label) == task[w].pc = label
Job(w) == task[w].job
Goto(w, label) == task' = [task EXCEPT ![w].pc = label]
Return(w) == task' = [task EXCEPT ![w] = NoTask]

\* Worker w writes broadcast b and goes on with t: the snapshots that others took of b
\* are out of date.
Write(w, b, t) ==
  task' = [v \in Workers |->
             IF v = w THEN t
             ELSE IF At(v, "commit") /\ Job(v) = b THEN [task[v] EXCEPT !.stale = TRUE]
             ELSE task[v]]

Conflicts(w) == task[w].stale

OwnsLease(w) == leaseOwner[Job(w)] = w

-----------------------------------------------------------------------------
(* The audience. *)

\* An admin queues a broadcast.
QueueBroadcast(b) ==
  /\ status[b] = "unsent"
  /\ \A c \in Broadcasts : c < b => status[c] # "unsent"
  /\ status' = [status EXCEPT ![b] = "queued"]
  /\ throughout' = [throughout EXCEPT ![b] = eligible]
  /\ UNCHANGED <<leaseOwner, leased, attempts, progressVars, eligible, task, mishaps>>

\* A user is blocked, deletes the account or changes role.
Leaves(u) ==
  /\ u \in eligible
  /\ eligible' = eligible \ {u}
  /\ throughout' = [b \in Broadcasts |-> throughout[b] \ {u}]
  /\ UNCHANGED <<status, leaseOwner, leased, attempts, progressVars, task, mishaps>>

\* A user is unblocked.
Returns(u) ==
  /\ u \in Users \ eligible
  /\ eligible' = eligible \cup {u}
  /\ UNCHANGED <<status, leaseOwner, leased, attempts, progressVars, throughout, task, mishaps>>

-----------------------------------------------------------------------------
(* processBroadcastBatch. *)

Mutant_ClaimQueued(b) == status[b] = "queued" /\ ~leased[b]
Claimable(b) == status[b] \in {"queued", "processing"} /\ ~leased[b]

Claim(w, b) ==
  /\ At(w, "idle")
  /\ Claimable(b)
  /\ \A c \in Broadcasts : Claimable(c) => b <= c
  /\ status' = [status EXCEPT ![b] = "processing"]
  /\ leaseOwner' = [leaseOwner EXCEPT ![b] = w]
  /\ leased' = [leased EXCEPT ![b] = TRUE]
  /\ Write(w, b, [pc |-> "read", job |-> b, attempts |-> attempts[b], batch |-> {}, stale |-> FALSE])
  /\ UNCHANGED <<attempts, progressVars, audienceVars, mishaps>>

Mutant_FromLast(b) == {u \in eligible : u >= lastUser[b]}
Remaining(b) == {u \in eligible : u > lastUser[b]}

\* The first BatchSize of them, or all if there are fewer.
IsBatch(batch, users) ==
  /\ \A u \in batch, v \in users \ batch : u < v
  /\ \/ batch = users /\ Cardinality(batch) < BatchSize
     \/ Cardinality(batch) = BatchSize

ReadBatch(w) ==
  /\ At(w, "read")
  /\ OwnsLease(w)
  /\ \E batch \in SUBSET Remaining(Job(w)) :
       /\ IsBatch(batch, Remaining(Job(w)))
       /\ task' = [task EXCEPT ![w].pc = "commit", ![w].batch = batch, ![w].stale = FALSE]
  /\ UNCHANGED <<status, leaseOwner, leased, attempts, progressVars, audienceVars, mishaps>>

\* "Broadcast lease was replaced".
LoseLease(w) ==
  /\ At(w, "read")
  /\ ~OwnsLease(w)
  /\ Goto(w, "catch")
  /\ UNCHANGED <<status, leaseOwner, leased, attempts, progressVars, audienceVars, mishaps>>

Mutant_FullIsLast(batch) == Cardinality(batch) <= BatchSize
IsLast(batch) == Cardinality(batch) < BatchSize

Notify(b, batch) ==
  /\ inbox' = [inbox EXCEPT ![b] = [u \in Users |-> @[u] + (IF u \in batch THEN 1 ELSE 0)]]
  /\ delivered' = [delivered EXCEPT ![b] = @ + Cardinality(batch)]
  /\ IF batch = {} THEN UNCHANGED lastUser
     ELSE \E u \in batch : /\ \A v \in batch : v <= u
                           /\ lastUser' = [lastUser EXCEPT ![b] = u]

\* The answer to the commit may be lost: then the worker takes it for a failure.
CommitBatch(w) ==
  LET b == Job(w) IN
  /\ At(w, "commit")
  /\ ~Conflicts(w)
  /\ Notify(b, task[w].batch)
  /\ attempts' = [attempts EXCEPT ![b] = 0]
  /\ status' = IF IsLast(task[w].batch) THEN [status EXCEPT ![b] = "completed"] ELSE status
  /\ leaseOwner' = [leaseOwner EXCEPT ![b] = NoOwner]
  /\ leased' = [leased EXCEPT ![b] = FALSE]
  /\ \E t \in {NoTask, [task[w] EXCEPT !.pc = "catch"]} : Write(w, b, t)
  /\ UNCHANGED <<audienceVars, mishaps>>

RetryBatch(w) ==
  /\ At(w, "commit")
  /\ Conflicts(w)
  /\ Goto(w, "read")
  /\ UNCHANGED <<status, leaseOwner, leased, attempts, progressVars, audienceVars, mishaps>>

BatchFails(w) ==
  /\ At(w, "read") \/ At(w, "commit")
  /\ Goto(w, "catch")
  /\ UNCHANGED <<status, leaseOwner, leased, attempts, progressVars, audienceVars, mishaps>>

Mutant_OneMore(n) == n > MaxAttempts
GivesUp(n) == n >= MaxAttempts

\* The catch block: the broadcast waits ten seconds, or is given up.
RecordFailure(w) ==
  LET b == Job(w)
      n == task[w].attempts + 1
  IN
  /\ At(w, "catch")
  /\ IF OwnsLease(w)
     THEN /\ status' = [status EXCEPT ![b] = IF GivesUp(n) THEN "failed" ELSE "queued"]
          /\ attempts' = [attempts EXCEPT ![b] = n]
          /\ leased' = [leased EXCEPT ![b] = TRUE]
          /\ leaseOwner' = [leaseOwner EXCEPT ![b] = NoOwner]
          /\ Write(w, b, NoTask)
     ELSE Return(w) /\ UNCHANGED <<status, attempts, leased, leaseOwner>>
  /\ UNCHANGED <<progressVars, audienceVars, mishaps>>

\* The process dies, or the write of the failure fails too.
Die(w) ==
  /\ ~At(w, "idle")
  /\ mishaps < MaxMishaps
  /\ mishaps' = mishaps + 1
  /\ Return(w)
  /\ UNCHANGED <<status, leaseOwner, leased, attempts, progressVars, audienceVars>>

-----------------------------------------------------------------------------
(* Time. *)

InUse(b) == \E w \in Workers : ~At(w, "idle") /\ Job(w) = b /\ leaseOwner[b] = w

LeaseEnds(b) ==
  /\ leased[b]
  /\ ~InUse(b)
  /\ leased' = [leased EXCEPT ![b] = FALSE]
  /\ UNCHANGED <<status, leaseOwner, attempts, progressVars, audienceVars, task, mishaps>>

\* A batch that takes longer than its minute.
LeaseOutlived(b) ==
  /\ leased[b]
  /\ InUse(b)
  /\ mishaps < MaxMishaps
  /\ mishaps' = mishaps + 1
  /\ leased' = [leased EXCEPT ![b] = FALSE]
  /\ UNCHANGED <<status, leaseOwner, attempts, progressVars, audienceVars, task>>

-----------------------------------------------------------------------------
\* What the timer of the worker and the event loop bring about.
Proceed(w) ==
  \/ \E b \in Broadcasts : Claim(w, b)
  \/ ReadBatch(w) \/ LoseLease(w) \/ CommitBatch(w) \/ RetryBatch(w) \/ RecordFailure(w)

Next ==
  \/ \E b \in Broadcasts : QueueBroadcast(b) \/ LeaseEnds(b) \/ LeaseOutlived(b)
  \/ \E u \in Users : Leaves(u) \/ Returns(u)
  \/ \E w \in Workers : Proceed(w) \/ BatchFails(w) \/ Die(w)

Spec == Init /\ [][Next]_vars

\* A worker goes on with what it began and looks for work every second; leases end.
FairSpec ==
  /\ Spec
  /\ \A w \in Workers : WF_vars(Proceed(w))
  /\ \A b \in Broadcasts : WF_vars(LeaseEnds(b))

-----------------------------------------------------------------------------
\* Nobody gets an announcement twice: not when a worker outlives its lease, dies between
\* two batches or takes a commit for a failure.
NotifiedOnce == \A b \in Broadcasts, u \in Users : inbox[b][u] <= 1

\* A completed broadcast has reached every user who could get it all the time, however
\* the audience changed between its batches.
NobodySkipped ==
  \A b \in Broadcasts : status[b] = "completed" => \A u \in throughout[b] : inbox[b][u] >= 1

\* The progress that admins see, and that the audit log keeps, is what users got.
DeliveredIsStored ==
  \A b \in Broadcasts : delivered[b] = Cardinality({u \in Users : inbox[b][u] > 0})

\* A worker that comes late with a failure does not reopen what was completed or given up.
FinalIsFinal ==
  [][\A b \in Broadcasts : status[b] \in {"completed", "failed"} => status'[b] = status[b]]_vars

\* A queued broadcast is completed or given up in the end.
BroadcastEnds ==
  \A b \in Broadcasts : status[b] = "queued" ~> status[b] \in {"completed", "failed"}
=============================================================================
