------------------------------ MODULE Accounts ------------------------------
(***************************************************************************)
(* Accounts, and what may be posted from them: registration and sign-in    *)
(* (auth.service.ts), posting a job (createOrder of order.service.ts),     *)
(* editing and deleting one's account (user.service.ts) and an admin       *)
(* blocking or deactivating it (updateUserStatus of admin.service.ts).     *)
(*                                                                         *)
(* Posting is a MongoDB transaction whose first write, orderWriteVersion,  *)
(* takes the account's document until it commits or aborts: a second       *)
(* transaction that is to write it is run again, a write outside any       *)
(* transaction waits.  The standalone fallback, which touches no account,  *)
(* is in Matching.  A session stands for a refresh token with its access   *)
(* token; passwords and the tokens' lifetimes are left out.                *)
(***************************************************************************)
EXTENDS Naturals, FiniteSets

CONSTANTS
  Users,       \* account documents, registered or not yet
  Masters,     \* those that are, or would be, a pro's
  Jobs,
  Handlers,    \* HTTP handlers that can be in flight at once
  MaxAttempts, \* transactions tried until a job code is free (5)
  MaxRequests, \* requests served in a behaviour
  NoUser,      \* the client of a job not yet posted, the pro of one not taken
  Free         \* the holder of a document no transaction has written

Fields == {"isActive", "isBlocked"}
States == {"none", "waiting", "accepted", "ended"}
Labels == {"idle", "touch", "look", "insert", "create", "book", "profile", "issue",
           "checkLive", "tidy", "scrub", "save", "revoke", "rename"}

ASSUME MastersAssumption == Masters \subseteq Users
ASSUME NoUserAssumption == NoUser \notin Users
ASSUME FreeAssumption == Free \notin Handlers
ASSUME BoundsAssumption == MaxAttempts \in Nat \ {0} /\ MaxRequests \in Nat

VARIABLES
  standing,   \* an account is "absent", then "open", then "deleted"
  account,    \* isActive and isBlocked of each document
  named,      \* accounts whose document says who they are
  booked,     \* pros whose sign-up bonus has its ledger entry
  profiled,   \* pros with a MasterProfile
  sessions,   \* users who hold a refresh token
  state,      \* Order.status, with "pending" and "matching" as "waiting"
  client,     \* Order.client
  master,     \* Order.master
  holder,     \* the transaction that has written an account
  task,       \* what each handler is doing
  requests    \* how many requests have come in

accountVars == <<standing, account, named, booked, profiled, sessions>>
jobVars == <<state, client, master>>
vars == <<accountVars, jobVars, holder, task, requests>>

Documents == [Fields -> BOOLEAN]
Fresh == [f \in Fields |-> f = "isActive"]
\* "live" is what a look for a job found, "tries" counts the codes drawn; an
\* admin's copy of the account is "copy", its changed fields "changes".
Tasks == [pc : Labels, user : Users \cup {NoUser}, live : BOOLEAN, tries : 0..MaxAttempts,
          copy : Documents, changes : SUBSET Fields]
NoTask == [pc |-> "idle", user |-> NoUser, live |-> FALSE, tries |-> 0,
           copy |-> Fresh, changes |-> {}]

\* The variables have their types.
TypeOK ==
  /\ standing \in [Users -> {"absent", "open", "deleted"}]
  /\ named \subseteq Users /\ booked \subseteq Users
  /\ profiled \subseteq Users /\ sessions \subseteq Users
  /\ account \in [Users -> Documents]
  /\ state \in [Jobs -> States]
  /\ client \in [Jobs -> Users \cup {NoUser}]
  /\ master \in [Jobs -> Users \cup {NoUser}]
  /\ holder \in [Users -> Handlers \cup {Free}]
  /\ task \in [Handlers -> Tasks]
  /\ requests \in 0..MaxRequests

Init ==
  /\ standing = [u \in Users |-> "absent"]
  /\ named = {} /\ booked = {} /\ profiled = {} /\ sessions = {}
  /\ account = [u \in Users |-> Fresh]
  /\ state = [j \in Jobs |-> "none"]
  /\ client = [j \in Jobs |-> NoUser]
  /\ master = [j \in Jobs |-> NoUser]
  /\ holder = [u \in Users |-> Free]
  /\ task = [h \in Handlers |-> NoTask]
  /\ requests = 0

-----------------------------------------------------------------------------
At(h, label) == task[h].pc = label
Become(h, t) == task' = [task EXCEPT ![h] = t]
Goto(h, label) == Become(h, [task[h] EXCEPT !.pc = label])
Return(h) == Become(h, NoTask)
Accept(h, t) ==
  /\ At(h, "idle") /\ requests < MaxRequests
  /\ requests' = requests + 1
  /\ Become(h, t)
Begin(h, label, u) == Accept(h, [NoTask EXCEPT !.pc = label, !.user = u])

Usable(u) == account[u]["isActive"] /\ ~account[u]["isBlocked"]
HasWaitingJob(u) == \E j \in Jobs : client[j] = u /\ state[j] = "waiting"
HasLiveJob(u) == \E j \in Jobs : u \in {client[j], master[j]} /\ state[j] \in {"waiting", "accepted"}

Release(u) == holder' = [holder EXCEPT ![u] = Free]

-----------------------------------------------------------------------------
(* Posting a job: createOrder. *)

Post(h, u) ==
  /\ u \in sessions \ Masters
  /\ Begin(h, "touch", u)
  /\ UNCHANGED <<accountVars, jobVars, holder>>

Mutant_NoVersionWrite(h) ==
  LET u == task[h].user IN
  /\ At(h, "touch")
  /\ IF Usable(u) THEN Become(h, [task[h] EXCEPT !.pc = "look", !.live = HasWaitingJob(u)])
     ELSE Return(h)
  /\ UNCHANGED <<accountVars, jobVars, holder, requests>>
Mutant_NoAccountCheck(h) ==
  LET u == task[h].user IN
  /\ At(h, "touch") /\ holder[u] = Free
  /\ holder' = [holder EXCEPT ![u] = h]
  /\ Become(h, [task[h] EXCEPT !.pc = "look", !.live = HasWaitingJob(u)])
  /\ UNCHANGED <<accountVars, jobVars, requests>>
\* The first write of the transaction: it takes the account, provided it is
\* usable, and with it the snapshot in which a waiting job is looked for.
TouchAccount(h) ==
  LET u == task[h].user IN
  /\ At(h, "touch") /\ holder[u] = Free
  /\ IF Usable(u)
     THEN /\ holder' = [holder EXCEPT ![u] = h]
          /\ Become(h, [task[h] EXCEPT !.pc = "look", !.live = HasWaitingJob(u)])
     ELSE Return(h) /\ UNCHANGED holder
  /\ UNCHANGED <<accountVars, jobVars, requests>>

Mutant_LeakOnConflict(h) ==
  /\ At(h, "look")
  /\ IF task[h].live THEN Return(h) ELSE Goto(h, "insert")
  /\ UNCHANGED <<accountVars, jobVars, holder, requests>>
LookForWaiting(h) ==
  /\ At(h, "look")
  /\ IF task[h].live THEN Return(h) /\ Release(task[h].user)
     ELSE Goto(h, "insert") /\ UNCHANGED holder
  /\ UNCHANGED <<accountVars, jobVars, requests>>

\* The job is inserted and the transaction commits.
InsertJob(h) ==
  LET u == task[h].user IN
  /\ At(h, "insert")
  /\ \E j \in Jobs :
       /\ state[j] = "none"
       /\ state' = [state EXCEPT ![j] = "waiting"]
       /\ client' = [client EXCEPT ![j] = u]
  /\ Release(u)
  /\ Return(h)
  /\ UNCHANGED <<accountVars, master, requests>>

Mutant_RetryForever(h) ==
  /\ At(h, "insert")
  /\ Release(task[h].user)
  /\ Become(h, [task[h] EXCEPT !.pc = "touch", !.tries = @ + 1])
  /\ UNCHANGED <<accountVars, jobVars, requests>>
Retries(h) == task[h].tries + 1 < MaxAttempts
\* The code is taken: the duplicate aborts the transaction, which is run again.
DrawTakenCode(h) ==
  /\ At(h, "insert")
  /\ Release(task[h].user)
  /\ IF Retries(h)
     THEN Become(h, [task[h] EXCEPT !.pc = "touch", !.tries = @ + 1])
     ELSE Return(h)
  /\ UNCHANGED <<accountVars, jobVars, requests>>

\* What becomes of a job: Matching has the details.
TakeJob(j, m) ==
  /\ state[j] = "waiting" /\ m \in profiled
  /\ state' = [state EXCEPT ![j] = "accepted"]
  /\ master' = [master EXCEPT ![j] = m]
  /\ UNCHANGED <<accountVars, client, holder, task, requests>>

EndJob(j) ==
  /\ state[j] \in {"waiting", "accepted"}
  /\ state' = [state EXCEPT ![j] = "ended"]
  /\ UNCHANGED <<accountVars, client, master, holder, task, requests>>

-----------------------------------------------------------------------------
(* Registration and sign-in. *)

\* The number has no account yet.
Register(h, u) ==
  /\ standing[u] = "absent"
  /\ Begin(h, "create", u)
  /\ UNCHANGED <<accountVars, jobVars, holder>>

\* The unique index on the phone refuses the second of two.  A deleted account
\* has given its number up: who registers it again gets another document.
CreateAccount(h) ==
  LET u == task[h].user IN
  /\ At(h, "create")
  /\ IF standing[u] # "absent" THEN Return(h) /\ UNCHANGED <<standing, named>>
     ELSE /\ standing' = [standing EXCEPT ![u] = "open"]
          /\ named' = named \cup {u}
          /\ Goto(h, IF u \in Masters THEN "book" ELSE "issue")
  /\ UNCHANGED <<account, booked, profiled, sessions, jobVars, holder, requests>>

BookBonus(h) ==
  /\ At(h, "book")
  /\ booked' = booked \cup {task[h].user}
  /\ Goto(h, "profile")
  /\ UNCHANGED <<standing, account, named, profiled, sessions, jobVars, holder, requests>>

CreateProfile(h) ==
  /\ At(h, "profile")
  /\ profiled' = profiled \cup {task[h].user}
  /\ Goto(h, "issue")
  /\ UNCHANGED <<standing, account, named, booked, sessions, jobVars, holder, requests>>

\* login and refresh: the account is found usable, its session stored later.
SignIn(h, u) ==
  /\ standing[u] = "open" /\ Usable(u)
  /\ Begin(h, "issue", u)
  /\ UNCHANGED <<accountVars, jobVars, holder>>

IssueSession(h) ==
  /\ At(h, "issue")
  /\ sessions' = sessions \cup {task[h].user}
  /\ Return(h)
  /\ UNCHANGED <<standing, account, named, booked, profiled, jobVars, holder, requests>>

SignOut(u) ==
  /\ u \in sessions
  /\ sessions' = sessions \ {u}
  /\ UNCHANGED <<standing, account, named, booked, profiled, jobVars, holder, task, requests>>

-----------------------------------------------------------------------------
(* Deleting an account. *)

DeleteAccount(h, u) ==
  /\ u \in sessions
  /\ Begin(h, "checkLive", u)
  /\ UNCHANGED <<accountVars, jobVars, holder>>

CheckLive(h) ==
  /\ At(h, "checkLive")
  /\ IF HasLiveJob(task[h].user) THEN Return(h) ELSE Goto(h, "tidy")
  /\ UNCHANGED <<accountVars, jobVars, holder, requests>>

\* The trade profile goes; so do favourites, notifications, products and chats.
TidyUp(h) ==
  /\ At(h, "tidy")
  /\ profiled' = profiled \ {task[h].user}
  /\ Goto(h, "scrub")
  /\ UNCHANGED <<standing, account, named, booked, sessions, jobVars, holder, requests>>

ScrubAccount(h) ==
  LET u == task[h].user IN
  /\ At(h, "scrub") /\ holder[u] = Free
  /\ standing' = [standing EXCEPT ![u] = "deleted"]
  /\ account' = [account EXCEPT ![u]["isActive"] = FALSE]
  /\ named' = named \ {u}
  /\ Goto(h, "revoke")
  /\ UNCHANGED <<booked, profiled, sessions, jobVars, holder, requests>>

\* logoutEverywhere.
RevokeSessions(h) ==
  /\ At(h, "revoke")
  /\ sessions' = sessions \ {task[h].user}
  /\ Return(h)
  /\ UNCHANGED <<standing, account, named, booked, profiled, jobVars, holder, requests>>

-----------------------------------------------------------------------------
(* Edits: a find, a change of the copy in memory, and a save that writes only *)
(* the changed fields.                                                     *)

UpdateUserStatus(h, u, copy) ==
  LET changes == {f \in Fields : copy[f] # account[u][f]} IN
  /\ standing[u] # "absent"
  /\ changes # {}
  /\ Accept(h, [NoTask EXCEPT !.pc = "save", !.user = u, !.copy = copy, !.changes = changes])
  /\ UNCHANGED <<accountVars, jobVars, holder>>

SaveStatus(h) ==
  LET u == task[h].user
      copy == task[h].copy
  IN
  /\ At(h, "save") /\ holder[u] = Free
  /\ account' = [account EXCEPT ![u] =
                   [f \in Fields |-> IF f \in task[h].changes THEN copy[f] ELSE @[f]]]
  /\ IF copy["isBlocked"] \/ ~copy["isActive"] THEN Goto(h, "revoke") ELSE Return(h)
  /\ UNCHANGED <<standing, named, booked, profiled, sessions, jobVars, holder, requests>>

UpdateProfile(h, u) ==
  /\ u \in sessions
  /\ Begin(h, "rename", u)
  /\ UNCHANGED <<accountVars, jobVars, holder>>

SaveProfile(h) ==
  LET u == task[h].user IN
  /\ At(h, "rename") /\ holder[u] = Free
  /\ named' = named \cup {u}
  /\ Return(h)
  /\ UNCHANGED <<standing, account, booked, profiled, sessions, jobVars, holder, requests>>

-----------------------------------------------------------------------------
\* The process dies: its open transaction, if any, is rolled back.
Crash(h) ==
  /\ ~At(h, "idle")
  /\ holder' = [u \in Users |-> IF holder[u] = h THEN Free ELSE holder[u]]
  /\ Return(h)
  /\ UNCHANGED <<accountVars, jobVars, requests>>

Step(h) ==
  \/ TouchAccount(h) \/ LookForWaiting(h) \/ InsertJob(h) \/ DrawTakenCode(h)
  \/ CreateAccount(h) \/ BookBonus(h) \/ CreateProfile(h) \/ IssueSession(h)
  \/ CheckLive(h) \/ TidyUp(h) \/ ScrubAccount(h) \/ RevokeSessions(h)
  \/ SaveStatus(h) \/ SaveProfile(h)

Request(h) ==
  \E u \in Users :
    \/ Post(h, u) \/ Register(h, u) \/ SignIn(h, u) \/ DeleteAccount(h, u)
    \/ UpdateProfile(h, u)
    \/ \E copy \in Documents : UpdateUserStatus(h, u, copy)

Next ==
  \/ \E h \in Handlers : Step(h) \/ Request(h) \/ Crash(h)
  \/ \E j \in Jobs : EndJob(j) \/ \E m \in Masters : TakeJob(j, m)
  \/ \E u \in Users : SignOut(u)

Spec == Init /\ [][Next]_vars

\* A handler runs on once started.
FairSpec == Spec /\ \A h \in Handlers : WF_vars(Step(h))

-----------------------------------------------------------------------------
\* However many requests a client sends at once, one job of theirs waits for a
\* pro at a time: "you already have a job waiting for a pro".
OneWaitingJob ==
  \A i, j \in Jobs :
    state[i] = "waiting" /\ state[j] = "waiting" /\ client[i] = client[j] => i = j

\* A job appears only from an account that is usable at that very moment, even
\* if it is being blocked or deleted while the request runs.
PostedWhileUsable ==
  [][\A j \in Jobs : state[j] = "none" /\ state'[j] # "none" => Usable(client'[j])]_vars

\* No account stays taken: every post, block and deletion waiting for it goes on.
HeldAccountIsFreed == \A u \in Users : holder[u] # Free ~> holder[u] = Free

\* A deleted account has no job waiting for a pro: "finish or cancel your active
\* job before deleting your account".  It may have one, posted after deleteAccount
\* looked for it and before the account was scrubbed.
DeletedHasNoLiveJob ==
  \A u \in Users : standing[u] = "deleted" => ~HasWaitingJob(u)
=============================================================================
