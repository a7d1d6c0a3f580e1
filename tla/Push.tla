-------------------------------- MODULE Push --------------------------------
(***************************************************************************)
(* Notifications and their pushes: notify, markRead and the registration   *)
(* of devices of notification.service.ts, the worker of                    *)
(* notification.worker.ts and the sending of config/push.ts, for one user. *)
(*                                                                         *)
(* BullMQ is modelled by what the code asks of it (three attempts, with a  *)
(* pause in which what the last one started has finished) and by what it   *)
(* does with the job of a worker that died: it is run again, once.         *)
(***************************************************************************)
EXTENDS Integers, FiniteSets

CONSTANTS
  Notes,
  Phones,
  Browsers,
  MaxPushAttempts   \* attempts of the default job options

Tokens == Phones \cup Browsers

ASSUME PushAssumption ==
  /\ Phones \cap Browsers = {}
  /\ MaxPushAttempts \in Nat \ {0}

VARIABLES
  queueCapable,  \* isQueueCapable, found out when the process starts
  browserPush,   \* webPushEnabled: without its keys there is no browsers' provider
  pushTokens,
  gone,          \* browsers whose subscription has ended
  note,          \* the notifications: whether they are stored, read and sent
  push,          \* the push of each notification
  handed,        \* history: the devices whose service has taken the push,
  missed         \* and those whose service answered with an error that was logged, or
                 \* could not be reached, or said that the device is gone

pushVars == <<queueCapable, browserPush, pushTokens, gone, note, push, handed, missed>>

Pushes == [state : {"none", "posting", "queued", "active", "done", "failed"},
           tokens : SUBSET Tokens,
           attempts : 0..MaxPushAttempts,
           stalled : BOOLEAN,               \* its worker has died once
           inline : BOOLEAN,                \* sent by the request itself
           phones : {"todo", "ok", "failed"},
           browsers : {"todo", "stale", "ok"},
           stale : SUBSET Browsers]         \* found gone, and to be dropped
NoPush == [state |-> "none", tokens |-> {}, attempts |-> 0, stalled |-> FALSE,
           inline |-> FALSE, phones |-> "todo", browsers |-> "todo", stale |-> {}]
PushTypeOK ==
  /\ queueCapable \in BOOLEAN /\ browserPush \in BOOLEAN
  /\ pushTokens \subseteq Tokens
  /\ gone \subseteq Browsers
  /\ note \in [Notes -> [stored : BOOLEAN, isRead : BOOLEAN, sentAt : BOOLEAN]]
  /\ push \in [Notes -> Pushes]
  /\ handed \in [Notes -> SUBSET Tokens]
  /\ missed \in [Notes -> SUBSET Tokens]

PushInit ==
  /\ queueCapable \in BOOLEAN
  /\ browserPush \in BOOLEAN
  /\ pushTokens = {}
  /\ gone = {}
  /\ note = [n \in Notes |-> [stored |-> FALSE, isRead |-> FALSE, sentAt |-> FALSE]]
  /\ push = [n \in Notes |-> NoPush]
  /\ handed = [n \in Notes |-> {}]
  /\ missed = [n \in Notes |-> {}]

-----------------------------------------------------------------------------
PushIs(n, state) == push[n].state = state
PushBecome(n, p) == push' = [push EXCEPT ![n] = p]

\* Another attempt, if there is one left.
Retry(p) ==
  [p EXCEPT !.state = IF ~p.inline /\ p.attempts < MaxPushAttempts THEN "queued" ELSE "failed"]

\* notify stores the notification and looks at the devices it read beforehand.
Notify(n) ==
  /\ ~note[n].stored
  /\ note' = [note EXCEPT ![n].stored = TRUE]
  /\ IF pushTokens = {} THEN UNCHANGED push
     ELSE PushBecome(n, [NoPush EXCEPT !.state = "posting", !.tokens = pushTokens])
  /\ UNCHANGED <<queueCapable, browserPush, pushTokens, gone, handed, missed>>

\* The push is queued, or sent by the request if there can be no queue.
PostPush(n) ==
  /\ PushIs(n, "posting")
  /\ PushBecome(n, IF queueCapable THEN [push[n] EXCEPT !.state = "queued"]
                   ELSE [push[n] EXCEPT !.state = "active", !.inline = TRUE])
  /\ UNCHANGED <<queueCapable, browserPush, pushTokens, gone, note, handed, missed>>

\* Queue.add throws: the failure is logged.
QueueDown(n) ==
  /\ PushIs(n, "posting") /\ queueCapable
  /\ PushBecome(n, [push[n] EXCEPT !.state = "failed"])
  /\ UNCHANGED <<queueCapable, browserPush, pushTokens, gone, note, handed, missed>>

\* The worker takes the job.
StartPush(n) ==
  /\ PushIs(n, "queued")
  /\ PushBecome(n, [push[n] EXCEPT !.state = "active", !.attempts = @ + 1,
                                   !.phones = "todo", !.browsers = "todo", !.stale = {}])
  /\ UNCHANGED <<queueCapable, browserPush, pushTokens, gone, note, handed, missed>>

\* The services of some devices have been asked: those of S take the push.
HandOver(n, asked, S) ==
  /\ handed' = [handed EXCEPT ![n] = @ \cup S]
  /\ missed' = [missed EXCEPT ![n] = @ \cup (asked \ S)]

\* FcmProvider.send: one call per phone; an answer that is not ok is logged.
SendPhones(n) ==
  LET phones == push[n].tokens \cap Phones
  IN /\ PushIs(n, "active") /\ push[n].phones = "todo"
     /\ PushBecome(n, [push[n] EXCEPT !.phones = "ok"])
     /\ \E S \in SUBSET phones : HandOver(n, phones, S)
     /\ UNCHANGED <<queueCapable, browserPush, pushTokens, gone, note>>

\* It throws: there is no access token, and nobody is asked, or a call gets no answer.
Mutant_Settled(n) ==
  /\ PushIs(n, "active") /\ push[n].phones = "todo" /\ push[n].tokens \cap Phones # {}
  /\ PushBecome(n, [push[n] EXCEPT !.phones = "ok"])
  /\ \E asked \in SUBSET (push[n].tokens \cap Phones) \ {push[n].tokens \cap Phones} :
       \E S \in SUBSET asked : HandOver(n, asked, S)
  /\ UNCHANGED <<queueCapable, browserPush, pushTokens, gone, note>>
PhonesFail(n) ==
  /\ PushIs(n, "active") /\ push[n].phones = "todo" /\ push[n].tokens \cap Phones # {}
  /\ PushBecome(n, [push[n] EXCEPT !.phones = "failed"])
  /\ \E asked \in SUBSET (push[n].tokens \cap Phones) \ {push[n].tokens \cap Phones} :
       \E S \in SUBSET asked : HandOver(n, asked, S)
  /\ UNCHANGED <<queueCapable, browserPush, pushTokens, gone, note>>

\* WebPushProvider.send: whatever becomes of a call is swallowed, 404 and 410 tell who
\* is gone, and any other failure, with an answer or without, is logged.
SendBrowsers(n) ==
  LET browsers == push[n].tokens \cap Browsers
  IN /\ PushIs(n, "active") /\ push[n].browsers = "todo" /\ browserPush
     /\ \E S \in SUBSET (browsers \ gone), stale \in SUBSET (browsers \cap gone) :
          /\ HandOver(n, browsers, S)
          /\ PushBecome(n, [push[n] EXCEPT !.browsers = IF stale = {} THEN "ok" ELSE "stale",
                                           !.stale = stale])
     /\ UNCHANGED <<queueCapable, browserPush, pushTokens, gone, note>>

\* Without the provider RoutingProvider.send skips them.
SkipBrowsers(n) ==
  /\ PushIs(n, "active") /\ push[n].browsers = "todo" /\ ~browserPush
  /\ PushBecome(n, [push[n] EXCEPT !.browsers = "ok"])
  /\ UNCHANGED <<queueCapable, browserPush, pushTokens, gone, note, handed, missed>>

\* The stale token handler; its failure is ignored.
DropStale(n) ==
  /\ PushIs(n, "active") /\ push[n].browsers = "stale"
  /\ pushTokens' \in {pushTokens, pushTokens \ push[n].stale}
  /\ PushBecome(n, [push[n] EXCEPT !.browsers = "ok", !.stale = {}])
  /\ UNCHANGED <<queueCapable, browserPush, gone, note, handed, missed>>

\* Both halves are done, and the notification is marked as sent.
MarkSent(n) ==
  /\ PushIs(n, "active") /\ push[n].phones = "ok" /\ push[n].browsers = "ok"
  /\ note' = [note EXCEPT ![n].sentAt = TRUE]
  /\ PushBecome(n, [push[n] EXCEPT !.state = "done"])
  /\ UNCHANGED <<queueCapable, browserPush, pushTokens, gone, handed, missed>>

\* The phones' half has thrown, or the notification could not be updated.
FailPush(n) ==
  /\ PushIs(n, "active") /\ push[n].browsers = "ok" /\ push[n].phones # "todo"
  /\ PushBecome(n, Retry(push[n]))
  /\ UNCHANGED <<queueCapable, browserPush, pushTokens, gone, note, handed, missed>>

\* The worker's process dies; with an inline push it is the request's.
Mutant_StallForever(n) ==
  /\ PushIs(n, "active")
  /\ PushBecome(n, IF push[n].inline THEN [push[n] EXCEPT !.state = "failed"]
                   ELSE [push[n] EXCEPT !.state = "queued", !.attempts = @ - 1])
  /\ UNCHANGED <<queueCapable, browserPush, pushTokens, gone, note, handed, missed>>
PushWorkerDies(n) ==
  /\ PushIs(n, "active")
  /\ PushBecome(n, IF push[n].inline \/ push[n].stalled THEN [push[n] EXCEPT !.state = "failed"]
                   ELSE [push[n] EXCEPT !.state = "queued", !.stalled = TRUE, !.attempts = @ - 1])
  /\ UNCHANGED <<queueCapable, browserPush, pushTokens, gone, note, handed, missed>>

\* markRead, and markAllRead for every one of them.
ReadNotes(S) ==
  /\ \E n \in S : note[n].stored /\ ~note[n].isRead
  /\ note' = [n \in Notes |-> IF n \in S /\ note[n].stored THEN [note[n] EXCEPT !.isRead = TRUE]
                              ELSE note[n]]
  /\ UNCHANGED <<queueCapable, browserPush, pushTokens, gone, push, handed, missed>>

RegisterDevice(t) ==
  /\ t \notin pushTokens \cup gone
  /\ pushTokens' = pushTokens \cup {t}
  /\ UNCHANGED <<queueCapable, browserPush, gone, note, push, handed, missed>>

UnregisterDevice(t) ==
  /\ t \in pushTokens
  /\ pushTokens' = pushTokens \ {t}
  /\ UNCHANGED <<queueCapable, browserPush, gone, note, push, handed, missed>>

\* A person revokes the site's permission.
Unsubscribe(t) ==
  /\ t \in Browsers \ gone
  /\ gone' = gone \cup {t}
  /\ UNCHANGED <<queueCapable, browserPush, pushTokens, note, push, handed, missed>>

Sending(n) ==
  \/ StartPush(n) \/ SendPhones(n) \/ PhonesFail(n) \/ SendBrowsers(n) \/ SkipBrowsers(n) \/ DropStale(n)
  \/ MarkSent(n) \/ FailPush(n) \/ PushWorkerDies(n)
PushNext ==
  \/ \E n \in Notes : Notify(n) \/ PostPush(n) \/ QueueDown(n) \/ Sending(n)
  \/ \E S \in {{n} : n \in Notes} \cup {Notes} : ReadNotes(S)
  \/ \E t \in Tokens : RegisterDevice(t) \/ UnregisterDevice(t) \/ Unsubscribe(t)

PushSpec == PushInit /\ [][PushNext]_pushVars

-----------------------------------------------------------------------------
\* A notification marked as sent has passed no device over, however many attempts that
\* took and wherever they failed: each one's service took the push, or gave an answer
\* that left it out (logged, or the device was gone); only browsers are ever skipped,
\* and only by a server without a provider for them.
SentReachedAll ==
  \A n \in Notes : note[n].sentAt =>
    \A t \in push[n].tokens : t \in handed[n] \cup missed[n] \/ (t \in Browsers /\ ~browserPush)

\* Whatever fails or dies, a push that is queued comes to an end: it is sent, or
\* given up.
PushEnds == \A n \in Notes : PushIs(n, "queued") ~> PushIs(n, "done") \/ PushIs(n, "failed")
=============================================================================
