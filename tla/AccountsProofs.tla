--------------------------- MODULE AccountsProofs ---------------------------
(***************************************************************************)
(* Proofs about Accounts, for any users, jobs and handlers: a client has   *)
(* one waiting job at a time, and a job appears only from an account that  *)
(* is usable at that moment.  Both rest on the account being held by the   *)
(* posting transaction from its first write to its commit.                 *)
(***************************************************************************)
EXTENDS Accounts, TLAPS

-----------------------------------------------------------------------------
\* While a transaction is open its handler holds the account, which stays as
\* usable as it was found, and no job appears that the snapshot did not show.
Posting(h) == task[h].pc \in {"look", "insert"}
HoldsAccount(h) ==
  LET u == task[h].user IN
  Posting(h) =>
    /\ holder[u] = h
    /\ Usable(u)
    /\ task[h].live \/ ~HasWaitingJob(u)
    /\ task[h].pc = "insert" => ~task[h].live

NamesUser(h) == task[h].pc # "idle" => task[h].user \in Users

IInv ==
  /\ TypeOK
  /\ \A h \in Handlers : NamesUser(h)
  /\ \A h \in Handlers : HoldsAccount(h)
  /\ OneWaitingJob

-----------------------------------------------------------------------------
LEMMA FreshIsDocument == Fresh \in Documents
BY DEF Fresh, Documents, Fields

LEMMA TaskFields ==
  ASSUME NEW t \in Tasks
  PROVE  /\ t.pc \in Labels /\ t.user \in Users \cup {NoUser} /\ t.live \in BOOLEAN
         /\ t.tries \in 0..MaxAttempts /\ t.copy \in Documents /\ t.changes \subseteq Fields
BY DEF Tasks

\* The tasks a handler can be given.
LEMMA TasksMade ==
  ASSUME NEW t \in Tasks
  PROVE  /\ NoTask \in Tasks
         /\ \A label \in Labels : [t EXCEPT !.pc = label] \in Tasks
         /\ \A label \in Labels, b \in BOOLEAN : [t EXCEPT !.pc = label, !.live = b] \in Tasks
         /\ \A label \in Labels, u \in Users :
              /\ [NoTask EXCEPT !.pc = label, !.user = u] \in Tasks
              /\ \A copy \in Documents, changes \in SUBSET Fields :
                   [NoTask EXCEPT !.pc = label, !.user = u, !.copy = copy, !.changes = changes]
                     \in Tasks
         /\ t.tries + 1 < MaxAttempts =>
              [t EXCEPT !.pc = "touch", !.tries = @ + 1] \in Tasks
<1>1. 0 \in 0..MaxAttempts
  BY BoundsAssumption
<1>2. NoTask \in Tasks
  BY <1>1, FreshIsDocument DEF NoTask, Tasks, Labels
<1>3. t.tries + 1 < MaxAttempts => [t EXCEPT !.pc = "touch", !.tries = @ + 1] \in Tasks
  <2>1. t.tries \in 0..MaxAttempts
    BY DEF Tasks
  <2>2. t.tries + 1 < MaxAttempts => t.tries + 1 \in 0..MaxAttempts
    BY <2>1, BoundsAssumption
  <2>3. \A n \in 0..MaxAttempts : [t EXCEPT !.pc = "touch", !.tries = n] \in Tasks
    BY DEF Tasks, Labels
  <2> QED BY <2>2, <2>3
<1>4. \A label \in Labels, u \in Users :
        /\ [NoTask EXCEPT !.pc = label, !.user = u] \in Tasks
        /\ \A copy \in Documents, changes \in SUBSET Fields :
             [NoTask EXCEPT !.pc = label, !.user = u, !.copy = copy, !.changes = changes] \in Tasks
  BY <1>2 DEF Tasks
<1> QED BY <1>2, <1>3, <1>4 DEF Tasks

LEMMA BeginFields ==
  ASSUME NEW label, NEW u, NEW copy, NEW changes
  PROVE  /\ [NoTask EXCEPT !.pc = label, !.user = u].pc = label
         /\ [NoTask EXCEPT !.pc = label, !.user = u].user = u
         /\ [NoTask EXCEPT !.pc = label, !.user = u, !.copy = copy, !.changes = changes].pc = label
         /\ [NoTask EXCEPT !.pc = label, !.user = u, !.copy = copy, !.changes = changes].user = u
BY DEF NoTask

LEMMA BecomeType ==
  ASSUME TypeOK, NEW h \in Handlers, NEW t \in Tasks, Become(h, t)
  PROVE  task' \in [Handlers -> Tasks]
BY DEF TypeOK, Become

-----------------------------------------------------------------------------
(* Type correctness, action by action. *)

LEMMA InitType == Init => TypeOK
<1>1. NoTask \in Tasks
  <2>1. 0 \in 0..MaxAttempts
    BY BoundsAssumption
  <2> QED BY <2>1, FreshIsDocument DEF NoTask, Tasks, Labels
<1> QED BY <1>1, FreshIsDocument, BoundsAssumption DEF Init, TypeOK, States

LEMMA AcceptType ==
  ASSUME TypeOK, NEW h \in Handlers, NEW t \in Tasks, Accept(h, t)
  PROVE  /\ task' \in [Handlers -> Tasks]
         /\ requests' \in 0..MaxRequests
BY BecomeType, BoundsAssumption DEF Accept, TypeOK

LEMMA RequestType ==
  ASSUME TypeOK, NEW h \in Handlers, Request(h)
  PROVE  TypeOK'
<1> PICK u \in Users :
      \/ Post(h, u) \/ Register(h, u) \/ SignIn(h, u) \/ DeleteAccount(h, u)
      \/ UpdateProfile(h, u)
      \/ \E copy \in Documents : UpdateUserStatus(h, u, copy)
  BY DEF Request
<1>0. task[h] \in Tasks
  BY DEF TypeOK
<1>1. \E t \in Tasks : Accept(h, t)
  <2>1. CASE \/ Post(h, u) \/ Register(h, u) \/ SignIn(h, u) \/ DeleteAccount(h, u)
             \/ UpdateProfile(h, u)
    BY <1>0, <2>1, TasksMade DEF Post, Register, SignIn, DeleteAccount, UpdateProfile, Begin, Labels
  <2>2. CASE \E copy \in Documents : UpdateUserStatus(h, u, copy)
    BY <1>0, <2>2, TasksMade DEF UpdateUserStatus, Labels
  <2> QED BY <2>1, <2>2
<1>2. task' \in [Handlers -> Tasks] /\ requests' \in 0..MaxRequests
  BY <1>1, AcceptType
<1>3. UNCHANGED <<accountVars, jobVars, holder>>
  BY DEF Post, Register, SignIn, DeleteAccount, UpdateProfile, UpdateUserStatus
<1> QED BY <1>2, <1>3 DEF TypeOK, accountVars, jobVars

LEMMA StepType ==
  ASSUME TypeOK, NEW h \in Handlers, NamesUser(h), Step(h)
  PROVE  TypeOK'
<1> DEFINE t == task[h]
<1>0. t \in Tasks /\ NoTask \in Tasks
  BY TasksMade DEF TypeOK
<1>1. \A label \in Labels : [t EXCEPT !.pc = label] \in Tasks
  BY <1>0, TasksMade
<1>2. t.pc # "idle" => t.user \in Users
  BY DEF NamesUser
<1>3. CASE TouchAccount(h)
  <2>1. HasWaitingJob(t.user) \in BOOLEAN
    BY DEF HasWaitingJob
  <2>2. [t EXCEPT !.pc = "look", !.live = HasWaitingJob(t.user)] \in Tasks
    BY <1>0, <2>1, TasksMade DEF Labels
  <2>3. task' \in [Handlers -> Tasks]
    BY <1>0, <1>3, <2>2, BecomeType DEF TouchAccount, Return
  <2> QED BY <1>3, <2>3 DEF TouchAccount, TypeOK, accountVars, jobVars
<1>4. CASE LookForWaiting(h)
  <2>1. task' \in [Handlers -> Tasks]
    BY <1>0, <1>1, <1>4, BecomeType DEF LookForWaiting, Return, Goto, Labels
  <2> QED BY <1>4, <2>1 DEF LookForWaiting, Release, TypeOK, accountVars, jobVars
<1>5. CASE InsertJob(h)
  <2>1. task' \in [Handlers -> Tasks]
    BY <1>0, <1>5, BecomeType DEF InsertJob, Return
  <2>2. t.user \in Users
    BY <1>2, <1>5 DEF InsertJob, At
  <2> QED BY <1>5, <2>1, <2>2 DEF InsertJob, Release, TypeOK, accountVars, States
<1>6. CASE DrawTakenCode(h)
  <2>1. task' \in [Handlers -> Tasks]
    BY <1>0, <1>6, BecomeType, TasksMade DEF DrawTakenCode, Retries, Return
  <2> QED BY <1>6, <2>1 DEF DrawTakenCode, Retries, Release, TypeOK, accountVars, jobVars
<1>7. CASE \/ CreateAccount(h) \/ BookBonus(h) \/ CreateProfile(h) \/ IssueSession(h)
           \/ TidyUp(h) \/ RevokeSessions(h) \/ SaveProfile(h) \/ CheckLive(h)
  <2>1. task' \in [Handlers -> Tasks]
    BY <1>0, <1>1, <1>7, BecomeType
    DEF CreateAccount, BookBonus, CreateProfile, IssueSession, TidyUp, RevokeSessions,
        SaveProfile, CheckLive, Return, Goto, Labels
  <2>2. t.user \in Users
    BY <1>2, <1>7
    DEF CreateAccount, BookBonus, CreateProfile, IssueSession, TidyUp, RevokeSessions,
        SaveProfile, CheckLive, At
  <2>3. /\ UNCHANGED <<account, jobVars, holder, requests>>
        /\ standing' \in [Users -> {"absent", "open", "deleted"}]
    BY <1>7
    DEF CreateAccount, BookBonus, CreateProfile, IssueSession, TidyUp, RevokeSessions,
        SaveProfile, CheckLive, TypeOK, accountVars
  <2>4. /\ named' \subseteq Users /\ booked' \subseteq Users
        /\ profiled' \subseteq Users /\ sessions' \subseteq Users
    BY <1>7, <2>2
    DEF CreateAccount, BookBonus, CreateProfile, IssueSession, TidyUp, RevokeSessions,
        SaveProfile, CheckLive, TypeOK, accountVars
  <2> QED BY <2>1, <2>3, <2>4 DEF TypeOK, jobVars
<1>8. CASE ScrubAccount(h)
  <2>1. task' \in [Handlers -> Tasks]
    BY <1>0, <1>1, <1>8, BecomeType DEF ScrubAccount, Goto, Labels
  <2>2. account' \in [Users -> Documents]
    BY <1>8 DEF ScrubAccount, TypeOK, Documents
  <2> QED BY <1>8, <2>1, <2>2 DEF ScrubAccount, TypeOK, jobVars
<1>9. CASE SaveStatus(h)
  <2>1. task' \in [Handlers -> Tasks]
    BY <1>0, <1>1, <1>9, BecomeType DEF SaveStatus, Goto, Return, Labels
  <2>2. account' \in [Users -> Documents]
    BY <1>0, <1>9, TaskFields DEF SaveStatus, TypeOK, Documents
  <2> QED BY <1>9, <2>1, <2>2 DEF SaveStatus, TypeOK, jobVars
<1> QED BY <1>3, <1>4, <1>5, <1>6, <1>7, <1>8, <1>9 DEF Step

\* What changes without a handler.
Elsewhere ==
  \/ \E j \in Jobs : EndJob(j) \/ \E m \in Masters : TakeJob(j, m)
  \/ \E u \in Users : SignOut(u)

LEMMA CrashType ==
  ASSUME TypeOK, NEW h \in Handlers, Crash(h)
  PROVE  TypeOK'
<1>1. NoTask \in Tasks
  BY TasksMade DEF TypeOK
<1> QED BY <1>1, BecomeType DEF Crash, Return, TypeOK, accountVars, jobVars

LEMMA ElsewhereType ==
  ASSUME TypeOK, Elsewhere
  PROVE  TypeOK'
BY MastersAssumption
DEF Elsewhere, EndJob, TakeJob, SignOut, TypeOK, accountVars, jobVars, States

-----------------------------------------------------------------------------
(* Every busy handler works for a user. *)

LEMMA RequestNames ==
  ASSUME IInv, NEW h \in Handlers, Request(h), NEW g \in Handlers
  PROVE  NamesUser(g)' /\ HoldsAccount(g)'
<1> PICK u \in Users :
      \/ Post(h, u) \/ Register(h, u) \/ SignIn(h, u) \/ DeleteAccount(h, u)
      \/ UpdateProfile(h, u)
      \/ \E copy \in Documents : UpdateUserStatus(h, u, copy)
  BY DEF Request
<1>1. UNCHANGED <<accountVars, jobVars, holder>>
  BY DEF Post, Register, SignIn, DeleteAccount, UpdateProfile, UpdateUserStatus
<1>2. /\ NamesUser(g) /\ HoldsAccount(g) /\ TypeOK
  BY DEF IInv
<1>3. CASE g # h
  <2>1. task'[g] = task[g]
    BY <1>2, <1>3
    DEF Post, Register, SignIn, DeleteAccount, UpdateProfile, UpdateUserStatus, Begin, Accept,
        Become, TypeOK
  <2> QED BY <1>1, <1>2, <2>1
          DEF NamesUser, HoldsAccount, Posting, Usable, HasWaitingJob, accountVars, jobVars
<1>4. CASE g = h
  <2>1. task'[h].user = u /\ ~(task'[h].pc \in {"look", "insert"})
    <3>1. CASE \/ Post(h, u) \/ Register(h, u) \/ SignIn(h, u) \/ DeleteAccount(h, u)
               \/ UpdateProfile(h, u)
      <4>1. PICK label \in Labels \ {"look", "insert"} : Begin(h, label, u)
        BY <3>1 DEF Post, Register, SignIn, DeleteAccount, UpdateProfile, Labels
      <4>2. task'[h] = [NoTask EXCEPT !.pc = label, !.user = u]
        BY <1>2, <4>1 DEF Begin, Accept, Become, TypeOK
      <4> QED BY <4>2, BeginFields
    <3>2. CASE \E copy \in Documents : UpdateUserStatus(h, u, copy)
      <4>1. PICK copy \in Documents : UpdateUserStatus(h, u, copy)
        BY <3>2
      <4>2. \E changes : task'[h] = [NoTask EXCEPT !.pc = "save", !.user = u, !.copy = copy,
                                                  !.changes = changes]
        BY <1>2, <4>1 DEF UpdateUserStatus, Accept, Become, TypeOK
      <4> QED BY <4>2, BeginFields
    <3> QED BY <3>1, <3>2
  <2> QED BY <1>4, <2>1 DEF NamesUser, HoldsAccount, Posting
<1> QED BY <1>3, <1>4

\* Where a step takes its handler.
LEMMA CrashMoves ==
  ASSUME TypeOK, NEW h \in Handlers, Crash(h)
  PROVE  task'[h] = NoTask
BY DEF Crash, Return, Become, TypeOK

LEMMA StepMoves ==
  ASSUME TypeOK, NEW h \in Handlers, Step(h) \/ Crash(h)
  PROVE  \/ task'[h] = NoTask
         \/ /\ task[h].pc # "idle" /\ task'[h].user = task[h].user
            /\ task'[h].pc \in {"look", "insert"} => TouchAccount(h) \/ LookForWaiting(h)
<1>0. task[h] \in Tasks /\ \A t : Become(h, t) => task'[h] = t
  BY DEF TypeOK, Become
<1>1. CASE TouchAccount(h)
  <2>1. \/ task'[h] = NoTask
        \/ task'[h] = [task[h] EXCEPT !.pc = "look", !.live = HasWaitingJob(task[h].user)]
    BY <1>0, <1>1 DEF TouchAccount, Return
  <2> QED BY <1>0, <1>1, <2>1 DEF TouchAccount, At, Tasks
<1>2. CASE LookForWaiting(h)
  <2>1. task'[h] = NoTask \/ task'[h] = [task[h] EXCEPT !.pc = "insert"]
    BY <1>0, <1>2 DEF LookForWaiting, Return, Goto
  <2> QED BY <1>0, <1>2, <2>1 DEF LookForWaiting, At, Tasks
<1>3. CASE DrawTakenCode(h)
  <2>1. CASE Return(h)
    BY <1>0, <2>1 DEF Return
  <2>2. CASE Become(h, [task[h] EXCEPT !.pc = "touch", !.tries = @ + 1])
    <3>1. task'[h] = [task[h] EXCEPT !.pc = "touch", !.tries = @ + 1]
      BY <1>0, <2>2
    <3>2. task'[h].user = task[h].user /\ task'[h].pc = "touch"
      BY <1>0, <3>1 DEF Tasks
    <3> QED BY <1>3, <3>2 DEF DrawTakenCode, Retries, At
  <2> QED BY <1>3, <2>1, <2>2 DEF DrawTakenCode, Retries
<1>4. CASE Return(h) \/ Crash(h)
  BY <1>0, <1>4, CrashMoves DEF Return
<1>5. ASSUME NEW label \in Labels \ {"look", "insert"}, Goto(h, label), ~At(h, "idle")
      PROVE  task[h].pc # "idle" /\ task'[h].user = task[h].user /\ task'[h].pc = label
  <2>1. task'[h] = [task[h] EXCEPT !.pc = label]
    BY <1>0, <1>5 DEF Goto
  <2> QED BY <1>0, <1>5, <2>1 DEF Tasks, At
<1>6. CASE CreateAccount(h) \/ BookBonus(h) \/ CreateProfile(h)
  <2>1. ~At(h, "idle") /\ (\/ Return(h) \/ Goto(h, "book") \/ Goto(h, "issue") \/ Goto(h, "profile"))
    BY <1>6 DEF CreateAccount, BookBonus, CreateProfile, At
  <2> QED BY <1>4, <1>5, <2>1 DEF Labels
<1>7. CASE InsertJob(h) \/ IssueSession(h) \/ RevokeSessions(h) \/ SaveProfile(h)
  BY <1>4, <1>7 DEF InsertJob, IssueSession, RevokeSessions, SaveProfile
<1>8. CASE CheckLive(h) \/ TidyUp(h) \/ ScrubAccount(h) \/ SaveStatus(h)
  <2>1. ~At(h, "idle") /\ (\/ Return(h) \/ Goto(h, "tidy") \/ Goto(h, "scrub") \/ Goto(h, "revoke"))
    BY <1>8 DEF CheckLive, TidyUp, ScrubAccount, SaveStatus, At
  <2> QED BY <1>4, <1>5, <2>1 DEF Labels
<1> QED BY <1>1, <1>2, <1>3, <1>4, <1>6, <1>7, <1>8 DEF Step

LEMMA StepNames ==
  ASSUME IInv, NEW h \in Handlers, Step(h) \/ Crash(h), NEW g \in Handlers
  PROVE  /\ NamesUser(g)'
         /\ g # h => task'[g] = task[g]
<1>1. /\ NamesUser(g) /\ TypeOK
  BY DEF IInv
<1>2. g # h => task'[g] = task[g]
  BY <1>1
  DEF Step, Crash, TouchAccount, LookForWaiting, InsertJob, DrawTakenCode, Retries, CreateAccount, BookBonus,
      CreateProfile, IssueSession, CheckLive, TidyUp, ScrubAccount, RevokeSessions, SaveStatus,
      SaveProfile, Goto, Return, Become, TypeOK
<1>3. task'[h] = NoTask \/ (task[h].pc # "idle" /\ task'[h].user = task[h].user)
  BY <1>1, StepMoves
<1> QED BY <1>1, <1>2, <1>3 DEF NamesUser, NoTask

-----------------------------------------------------------------------------
(* An open transaction keeps what it found. *)

LEMMA HoldsFrame ==
  ASSUME NEW g \in Handlers, HoldsAccount(g), task'[g] = task[g],
         Posting(g) =>
           LET u == task[g].user IN
           /\ holder'[u] = holder[u]
           /\ account'[u] = account[u]
           /\ \A j \in Jobs : client'[j] = u /\ state'[j] = "waiting" =>
                client[j] = u /\ state[j] = "waiting"
  PROVE  HoldsAccount(g)'
BY DEF HoldsAccount, Posting, Usable, HasWaitingJob

\* Nobody else's step reaches into a held account.
LEMMA OthersHold ==
  ASSUME IInv, NEW h \in Handlers, Step(h) \/ Crash(h), NEW g \in Handlers, g # h
  PROVE  HoldsAccount(g)'
<1> DEFINE u == task[g].user
<1>1. /\ HoldsAccount(g) /\ HoldsAccount(h) /\ NamesUser(g) /\ NamesUser(h) /\ TypeOK
  BY DEF IInv
<1>2. task'[g] = task[g]
  BY StepNames
<1>3. SUFFICES ASSUME Posting(g)
               PROVE  /\ holder'[u] = holder[u]
                      /\ account'[u] = account[u]
                      /\ \A j \in Jobs : client'[j] = u /\ state'[j] = "waiting" =>
                           client[j] = u /\ state[j] = "waiting"
  BY <1>1, <1>2, HoldsFrame
<1>4. u \in Users /\ holder[u] = g /\ g # Free
  BY <1>1, <1>3, FreeAssumption DEF NamesUser, HoldsAccount, Posting
<1>5. CASE TouchAccount(h) \/ ScrubAccount(h) \/ SaveStatus(h)
  <2>1. holder[task[h].user] = Free
    BY <1>5 DEF TouchAccount, ScrubAccount, SaveStatus
  <2>2. task[h].user # u
    BY <1>4, <2>1
  <2>3. UNCHANGED jobVars
    BY <1>5 DEF TouchAccount, ScrubAccount, SaveStatus
  <2>4. account'[u] = account[u]
    BY <1>1, <1>4, <1>5, <2>2 DEF TouchAccount, ScrubAccount, SaveStatus, accountVars, TypeOK
  <2>5. holder'[u] = holder[u]
    BY <1>1, <1>4, <1>5, <2>2 DEF TouchAccount, ScrubAccount, SaveStatus, TypeOK
  <2> QED BY <2>3, <2>4, <2>5 DEF jobVars
<1>6. CASE LookForWaiting(h) \/ InsertJob(h) \/ DrawTakenCode(h)
  <2>1. holder[task[h].user] = h
    BY <1>1, <1>6 DEF LookForWaiting, InsertJob, DrawTakenCode, Retries, At, HoldsAccount, Posting
  <2>2. task[h].user # u
    BY <1>4, <2>1
  <2>3. holder'[u] = holder[u] /\ account'[u] = account[u]
    BY <1>1, <1>4, <1>6, <2>2
    DEF LookForWaiting, InsertJob, DrawTakenCode, Retries, Release, accountVars, TypeOK
  <2>4. ASSUME NEW j \in Jobs, client'[j] = u, state'[j] = "waiting"
        PROVE  client[j] = u /\ state[j] = "waiting"
    BY <1>1, <1>6, <2>2, <2>4 DEF LookForWaiting, InsertJob, DrawTakenCode, Retries, jobVars, TypeOK
  <2> QED BY <2>3, <2>4
<1>7. CASE \/ CreateAccount(h) \/ BookBonus(h) \/ CreateProfile(h) \/ IssueSession(h)
           \/ TidyUp(h) \/ RevokeSessions(h) \/ SaveProfile(h) \/ CheckLive(h)
  BY <1>7
  DEF CreateAccount, BookBonus, CreateProfile, IssueSession, TidyUp, RevokeSessions,
      SaveProfile, CheckLive, accountVars, jobVars
<1>8. CASE Crash(h)
  BY <1>1, <1>4, <1>8 DEF Crash, accountVars, jobVars, TypeOK
<1> QED BY <1>5, <1>6, <1>7, <1>8 DEF Step

\* The step of the transaction itself.
LEMMA OwnHold ==
  ASSUME IInv, NEW h \in Handlers, Step(h) \/ Crash(h)
  PROVE  HoldsAccount(h)'
<1> DEFINE u == task[h].user
<1>1. /\ HoldsAccount(h) /\ NamesUser(h) /\ TypeOK
  BY DEF IInv
<1>2. CASE TouchAccount(h)
  <2>1. u \in Users
    BY <1>1, <1>2 DEF TouchAccount, At, NamesUser
  <2>2. CASE Usable(u)
    <3>1. task'[h] = [task[h] EXCEPT !.pc = "look", !.live = HasWaitingJob(u)]
      BY <1>1, <1>2, <2>2 DEF TouchAccount, Become, TypeOK
    <3>2. task'[h].pc = "look" /\ task'[h].live = HasWaitingJob(u) /\ task'[h].user = u
      <4>1. task[h] \in Tasks
        BY <1>1 DEF TypeOK
      <4> QED BY <3>1, <4>1 DEF Tasks
    <3>3. holder'[u] = h
      BY <1>1, <1>2, <2>1, <2>2 DEF TouchAccount, TypeOK
    <3>4. UNCHANGED <<account, state, client>>
      BY <1>2 DEF TouchAccount, accountVars, jobVars
    <3> QED BY <2>2, <3>2, <3>3, <3>4 DEF HoldsAccount, Usable, HasWaitingJob
  <2>3. CASE ~Usable(u)
    BY <1>1, <1>2, <2>3 DEF TouchAccount, Return, Become, TypeOK, NoTask, HoldsAccount, Posting
  <2> QED BY <2>2, <2>3
<1>3. CASE LookForWaiting(h)
  <2>1. CASE task[h].live
    BY <1>1, <1>3, <2>1 DEF LookForWaiting, Return, Become, TypeOK, NoTask, HoldsAccount, Posting
  <2>2. CASE ~task[h].live
    <3>1. /\ task'[h].pc = "insert" /\ task'[h].user = u /\ ~task'[h].live
          /\ UNCHANGED <<accountVars, jobVars, holder>>
      BY <1>1, <1>3, <2>2 DEF LookForWaiting, Goto, Become, TypeOK, Tasks
    <3> QED BY <1>1, <1>3, <2>2, <3>1
            DEF LookForWaiting, At, HoldsAccount, Posting, Usable, HasWaitingJob, accountVars, jobVars
  <2> QED BY <2>1, <2>2
<1>4. CASE (Step(h) /\ ~TouchAccount(h) /\ ~LookForWaiting(h)) \/ Crash(h)
  <2>1. ~(task'[h].pc \in {"look", "insert"})
    BY <1>1, <1>4, StepMoves, CrashMoves DEF NoTask
  <2> QED BY <2>1 DEF HoldsAccount, Posting
<1> QED BY <1>2, <1>3, <1>4

LEMMA ElsewhereHold ==
  ASSUME IInv, Elsewhere, NEW g \in Handlers
  PROVE  NamesUser(g)' /\ HoldsAccount(g)'
<1>1. HoldsAccount(g) /\ NamesUser(g) /\ TypeOK
  BY DEF IInv
<1>2. UNCHANGED <<account, holder, task>>
  BY DEF Elsewhere, EndJob, TakeJob, SignOut, accountVars
<1>3. \A j \in Jobs : state'[j] = "waiting" => state[j] = "waiting" /\ client'[j] = client[j]
  BY <1>1 DEF Elsewhere, EndJob, TakeJob, SignOut, accountVars, jobVars, TypeOK
<1>4. HoldsAccount(g)'
  BY <1>1, <1>2, <1>3, HoldsFrame
<1> QED BY <1>1, <1>2, <1>4 DEF NamesUser

-----------------------------------------------------------------------------
(* One waiting job. *)

\* A job starts to wait only where no other job of its client does.
LEMMA NextPosts ==
  ASSUME IInv, Next, NEW j \in Jobs, state'[j] = "waiting", state[j] # "waiting"
  PROVE  \E h \in Handlers :
           /\ state[j] = "none" /\ client'[j] = task[h].user
           /\ Usable(task[h].user)
           /\ \A i \in Jobs \ {j} : /\ state'[i] = state[i] /\ client'[i] = client[i]
                                    /\ ~(client[i] = task[h].user /\ state[i] = "waiting")
<1>0. TypeOK
  BY DEF IInv
<1>1. PICK h \in Handlers : InsertJob(h)
  BY <1>0
  DEF Next, Step, Request, Crash, TouchAccount, LookForWaiting, DrawTakenCode, Retries, CreateAccount,
      BookBonus, CreateProfile, IssueSession, CheckLive, TidyUp, ScrubAccount, RevokeSessions,
      SaveStatus, SaveProfile, EndJob, TakeJob, SignOut, Post, Register, SignIn, DeleteAccount,
      UpdateProfile, UpdateUserStatus, jobVars, TypeOK
<1>2. /\ task[h].pc = "insert" /\ HoldsAccount(h)
  BY <1>1 DEF InsertJob, At, IInv
<1>3. Usable(task[h].user) /\ ~HasWaitingJob(task[h].user)
  BY <1>2 DEF HoldsAccount, Posting
<1>4. /\ state[j] = "none" /\ client'[j] = task[h].user
      /\ \A i \in Jobs \ {j} : state'[i] = state[i] /\ client'[i] = client[i]
  BY <1>0, <1>1 DEF InsertJob, TypeOK
<1> QED BY <1>3, <1>4 DEF HasWaitingJob

LEMMA KeepsClient ==
  ASSUME IInv, Next, NEW j \in Jobs, state'[j] = "waiting", state[j] = "waiting"
  PROVE  client'[j] = client[j]
<1>0. TypeOK
  BY DEF IInv
<1> QED BY <1>0
  DEF Next, Step, Request, Crash, TouchAccount, LookForWaiting, DrawTakenCode, Retries, InsertJob,
      CreateAccount, BookBonus, CreateProfile, IssueSession, CheckLive, TidyUp, ScrubAccount,
      RevokeSessions, SaveStatus, SaveProfile, EndJob, TakeJob, SignOut, Post, Register, SignIn,
      DeleteAccount, UpdateProfile, UpdateUserStatus, jobVars, TypeOK

LEMMA OneWaitingStep ==
  ASSUME IInv, Next
  PROVE  OneWaitingJob'
<1>1. SUFFICES ASSUME NEW i \in Jobs, NEW j \in Jobs, i # j,
                      state'[i] = "waiting", state'[j] = "waiting"
               PROVE  client'[i] # client'[j]
  BY DEF OneWaitingJob
<1>2. CASE state[i] = "waiting" /\ state[j] = "waiting"
  BY <1>1, <1>2, KeepsClient DEF IInv, OneWaitingJob
<1>3. CASE state[j] # "waiting"
  <2>1. PICK h \in Handlers :
           /\ client'[j] = task[h].user
           /\ \A k \in Jobs \ {j} : /\ state'[k] = state[k] /\ client'[k] = client[k]
                                    /\ ~(client[k] = task[h].user /\ state[k] = "waiting")
    BY <1>1, <1>3, NextPosts
  <2> QED BY <1>1, <2>1
<1>4. CASE state[i] # "waiting"
  <2>1. PICK h \in Handlers :
           /\ client'[i] = task[h].user
           /\ \A k \in Jobs \ {i} : /\ state'[k] = state[k] /\ client'[k] = client[k]
                                    /\ ~(client[k] = task[h].user /\ state[k] = "waiting")
    BY <1>1, <1>4, NextPosts
  <2> QED BY <1>1, <2>1
<1> QED BY <1>2, <1>3, <1>4

-----------------------------------------------------------------------------
(* The theorems. *)

LEMMA InitIInv == Init => IInv
<1>1. SUFFICES ASSUME Init PROVE IInv
  OBVIOUS
<1>2. TypeOK
  BY <1>1, InitType
<1>3. \A h \in Handlers : NamesUser(h) /\ HoldsAccount(h)
  BY <1>1 DEF Init, NamesUser, HoldsAccount, Posting, NoTask
<1>4. OneWaitingJob
  BY <1>1 DEF Init, OneWaitingJob
<1> QED BY <1>2, <1>3, <1>4 DEF IInv

LEMMA NextIInv == IInv /\ [Next]_vars => IInv'
<1>1. SUFFICES ASSUME IInv, [Next]_vars PROVE IInv'
  OBVIOUS
<1>2. CASE Next
  <2>1. Elsewhere \/ \E h \in Handlers : Step(h) \/ Request(h) \/ Crash(h)
    BY <1>2 DEF Next, Elsewhere
  <2>2. TypeOK /\ \A h \in Handlers : NamesUser(h)
    BY <1>1 DEF IInv
  <2>3. TypeOK'
    BY <2>1, <2>2, StepType, RequestType, CrashType, ElsewhereType
  <2>4. ASSUME NEW g \in Handlers
        PROVE  NamesUser(g)' /\ HoldsAccount(g)'
    <3>1. CASE Elsewhere
      BY <1>1, <3>1, ElsewhereHold
    <3>2. ASSUME NEW h \in Handlers, Request(h)
          PROVE  NamesUser(g)' /\ HoldsAccount(g)'
      BY <1>1, <3>2, RequestNames
    <3>3. ASSUME NEW h \in Handlers, Step(h) \/ Crash(h)
          PROVE  NamesUser(g)' /\ HoldsAccount(g)'
      BY <1>1, <3>3, StepNames, OthersHold, OwnHold
    <3> QED BY <2>1, <3>1, <3>2, <3>3
  <2>5. OneWaitingJob'
    BY <1>1, <1>2, OneWaitingStep
  <2> QED BY <2>3, <2>4, <2>5 DEF IInv
<1>3. CASE UNCHANGED vars
  BY <1>1, <1>3
  DEF IInv, TypeOK, NamesUser, HoldsAccount, Posting, Usable, HasWaitingJob, OneWaitingJob,
      vars, accountVars, jobVars
<1> QED BY <1>1, <1>2, <1>3

\* The inductive invariant holds of every behaviour.
THEOREM InductiveInvariant == Spec => []IInv
BY InitIInv, NextIInv, PTL DEF Spec

\* The variables keep their types: a post draws at most MaxAttempts codes.
THEOREM TypeCorrect == Spec => []TypeOK
<1>1. IInv => TypeOK
  BY DEF IInv
<1> QED BY <1>1, InductiveInvariant, PTL

\* For any number of simultaneous posts, a client has one waiting job at a time.
THEOREM OneJobPerClient == Spec => []OneWaitingJob
<1>1. IInv => OneWaitingJob
  BY DEF IInv
<1> QED BY <1>1, InductiveInvariant, PTL

\* No job is ever posted from an account that has been blocked, deactivated or deleted.
THEOREM UsablePosts == Spec => PostedWhileUsable
<1>1. IInv /\ [Next]_vars =>
        [\A j \in Jobs : state[j] = "none" /\ state'[j] # "none" => Usable(client'[j])]_vars
  <2>0. SUFFICES ASSUME IInv, Next
                 PROVE  \A j \in Jobs : state[j] = "none" /\ state'[j] # "none" => Usable(client'[j])
    BY DEF vars
  <2>1. SUFFICES ASSUME NEW j \in Jobs, state[j] = "none", state'[j] # "none"
                 PROVE  Usable(client'[j])
    OBVIOUS
  <2>2. state'[j] = "waiting"
    <3>1. TypeOK
      BY <2>0 DEF IInv
    <3> QED BY <2>0, <2>1, <3>1
      DEF Next, Step, Request, Crash, TouchAccount, LookForWaiting, DrawTakenCode, Retries, InsertJob,
          CreateAccount, BookBonus, CreateProfile, IssueSession, CheckLive, TidyUp, ScrubAccount,
          RevokeSessions, SaveStatus, SaveProfile, EndJob, TakeJob, SignOut, Post, Register, SignIn,
          DeleteAccount, UpdateProfile, UpdateUserStatus, jobVars, TypeOK
  <2> QED BY <2>0, <2>1, <2>2, NextPosts
<1> QED BY <1>1, InductiveInvariant, PTL DEF Spec, PostedWhileUsable
=============================================================================
