-------------------------------- MODULE Chat --------------------------------
(***************************************************************************)
(* The conversation about one job: sendMessage and markRead of             *)
(* chat.service.ts, the closing and reopening of the chat by the job       *)
(* (cancelOrder, completeOrder) and by an admin (setChatClosed), and an    *)
(* admin's deleteMessage.                                                  *)
(*                                                                         *)
(* A handler loads the chat, writes messages and saves its copy; Mongoose  *)
(* writes the fields that were changed and no others.  Messages are        *)
(* numbered in the order of their createdAt.                               *)
(***************************************************************************)
EXTENDS Integers, FiniteSets, FiniteSetsExt

CONSTANTS
  Members,      \* the two participants
  MaxMessages,  \* messages sent in a behaviour
  ChatHandlers, \* requests that can be in flight at once
  Nobody,
  NoCount       \* a member without an entry in "unread"

ASSUME ChatAssumption ==
  /\ \E client, master \in Members : Members = {client, master}
  /\ MaxMessages \in Nat
  /\ Nobody \notin Members
  /\ NoCount \notin Nat

VARIABLES
  isClosed,
  job,         \* whether the job the chat is about is still live
  sentBy,      \* the sender of each message, by number
  stored,      \* the messages in the collection
  readBy,      \* Message.readBy
  unread,      \* Chat.unread
  lastMessage, \* 0 if there is none
  overwritten, \* history: see SaveUnread
  chatTask

messageVars == <<sentBy, stored, readBy>>
chatVars == <<isClosed, job, messageVars, unread, lastMessage, overwritten, chatTask>>

Messages == 1..MaxMessages
Counts == Nat \cup {NoCount}
\* "count" is the entry of "unread" in the copy, "message" the one being sent or
\* removed; history: "missed" is how many messages others have counted since the
\* copy was loaded or, in a markRead, since the messages were marked.
ChatTasks == [pc : {"idle", "store", "save", "mark", "clear", "rewind", "savePreview"},
              user : Members \cup {Nobody}, count : Counts, message : 0..MaxMessages,
              missed : Nat]
NoChatTask == [pc |-> "idle", user |-> Nobody, count |-> NoCount, message |-> 0, missed |-> 0]

ChatTypeOK ==
  /\ isClosed \in BOOLEAN
  /\ job \in {"live", "ended"}
  /\ sentBy \in [Messages -> Members \cup {Nobody}]
  /\ stored \subseteq Messages
  /\ readBy \in [Messages -> SUBSET Members]
  /\ unread \in [Members -> Counts]
  /\ lastMessage \in 0..MaxMessages
  /\ overwritten \in [Members -> Nat]
  /\ chatTask \in [ChatHandlers -> ChatTasks]

ChatInit ==
  /\ isClosed = FALSE
  /\ job = "live"
  /\ sentBy = [m \in Messages |-> Nobody]
  /\ stored = {}
  /\ readBy = [m \in Messages |-> {}]
  /\ unread = [u \in Members |-> NoCount]
  /\ lastMessage = 0
  /\ overwritten = [u \in Members |-> 0]
  /\ chatTask = [h \in ChatHandlers |-> NoChatTask]

-----------------------------------------------------------------------------
ChatAt(h, label) == chatTask[h].pc = label
ChatBecome(h, t) == chatTask' = [chatTask EXCEPT ![h] = t]
ChatReturn(h) == ChatBecome(h, NoChatTask)

\* chat.unread.get(key) ?? 0
Unread(c) == IF c = NoCount THEN 0 ELSE c
Latest(S) == IF S = {} THEN 0 ELSE Max(S)

\* A counter is saved: "counted" messages more are in it, and those that others have
\* counted since the copy was loaded are no longer.  "overwritten" says how many were
\* lost that way since the reader's last markRead.
SaveUnread(h, u, c, counted, kept) ==
  /\ unread' = [unread EXCEPT ![u] = c]
  /\ overwritten' = [overwritten EXCEPT ![u] = kept + chatTask[h].missed]
  /\ chatTask' = [g \in ChatHandlers |->
                    IF g = h THEN NoChatTask
                    ELSE IF chatTask[g].user = u THEN [chatTask[g] EXCEPT !.missed = @ + counted]
                    ELSE chatTask[g]]
CountMessage(h, u, c) == SaveUnread(h, u, c, 1, overwritten[u])
ClearCount(h, u) == SaveUnread(h, u, 0, 0, 0)

\* The bound on the messages counts the ones being sent.
MayBeSent ==
  Cardinality({m \in Messages : sentBy[m] # Nobody})
    + Cardinality({h \in ChatHandlers : ChatAt(h, "store")}) < MaxMessages

\* sendMessage: who the message is for has the counter that will be raised.
SendMessage(h, to) ==
  /\ ChatAt(h, "idle") /\ MayBeSent
  /\ ~isClosed
  /\ ChatBecome(h, [NoChatTask EXCEPT !.pc = "store", !.user = to, !.count = unread[to]])
  /\ UNCHANGED <<isClosed, job, messageVars, unread, lastMessage, overwritten>>

StoreMessage(h) ==
  /\ ChatAt(h, "store")
  /\ \E n \in Messages, from \in Members \ {chatTask[h].user} :
       /\ sentBy[n] = Nobody /\ \A k \in 1..(n - 1) : sentBy[k] # Nobody
       /\ sentBy' = [sentBy EXCEPT ![n] = from]
       /\ stored' = stored \cup {n}
       /\ readBy' = [readBy EXCEPT ![n] = {from}]
       /\ ChatBecome(h, [chatTask[h] EXCEPT !.pc = "save", !.message = n])
  /\ UNCHANGED <<isClosed, job, unread, lastMessage, overwritten>>

Mutant_SaveWholeChat(h) ==
  /\ ChatAt(h, "save")
  /\ isClosed' = FALSE
  /\ lastMessage' = chatTask[h].message
  /\ CountMessage(h, chatTask[h].user, Unread(chatTask[h].count) + 1)
  /\ UNCHANGED <<job, messageVars>>
Mutant_FlagOnly(h) ==
  /\ ChatAt(h, "save")
  /\ lastMessage' = chatTask[h].message
  /\ CountMessage(h, chatTask[h].user, 1)
  /\ UNCHANGED <<isClosed, job, messageVars>>
SaveChat(h) ==
  /\ ChatAt(h, "save")
  /\ lastMessage' = chatTask[h].message
  /\ CountMessage(h, chatTask[h].user, Unread(chatTask[h].count) + 1)
  /\ UNCHANGED <<isClosed, job, messageVars>>

\* markRead.
MarkRead(h, u) ==
  /\ ChatAt(h, "idle")
  /\ ChatBecome(h, [NoChatTask EXCEPT !.pc = "mark", !.user = u, !.count = unread[u]])
  /\ UNCHANGED <<isClosed, job, messageVars, unread, lastMessage, overwritten>>

MarkMessages(h) ==
  /\ ChatAt(h, "mark")
  /\ readBy' = [m \in Messages |-> IF m \in stored THEN readBy[m] \cup {chatTask[h].user}
                                   ELSE readBy[m]]
  /\ ChatBecome(h, [chatTask[h] EXCEPT !.pc = "clear", !.missed = 0])
  /\ UNCHANGED <<isClosed, job, sentBy, stored, unread, lastMessage, overwritten>>

\* Setting an entry to the value it has changes nothing, and nothing is written.
ClearUnread(h) ==
  /\ ChatAt(h, "clear")
  /\ IF chatTask[h].count = 0
     THEN ChatReturn(h) /\ UNCHANGED <<unread, overwritten>>
     ELSE ClearCount(h, chatTask[h].user)
  /\ UNCHANGED <<isClosed, job, messageVars, lastMessage>>

\* cancelOrder closes the chat, completeOrder opens it, each after the one
\* update that ends the job (Matching has the steps between).
CancelJob ==
  /\ job = "live"
  /\ job' = "ended" /\ isClosed' = TRUE
  /\ UNCHANGED <<messageVars, unread, lastMessage, overwritten, chatTask>>

CompleteJob ==
  /\ job = "live"
  /\ job' = "ended" /\ isClosed' = FALSE
  /\ UNCHANGED <<messageVars, unread, lastMessage, overwritten, chatTask>>

\* setChatClosed; deleteAccount closes the chats of its owner the same way.
SetChatClosed(closed) ==
  /\ isClosed # closed
  /\ isClosed' = closed
  /\ UNCHANGED <<job, messageVars, unread, lastMessage, overwritten, chatTask>>

\* deleteMessage of admin.service.ts.
DeleteMessage(h, m) ==
  /\ ChatAt(h, "idle")
  /\ m \in stored
  /\ stored' = stored \ {m}
  /\ ChatBecome(h, [NoChatTask EXCEPT !.pc = "rewind", !.message = m])
  /\ UNCHANGED <<isClosed, job, sentBy, readBy, unread, lastMessage, overwritten>>

RewindPreview(h) ==
  /\ ChatAt(h, "rewind")
  /\ IF lastMessage = chatTask[h].message
     THEN ChatBecome(h, [chatTask[h] EXCEPT !.pc = "savePreview", !.message = Latest(stored)])
     ELSE ChatReturn(h)
  /\ UNCHANGED <<isClosed, job, messageVars, unread, lastMessage, overwritten>>

SavePreview(h) ==
  /\ ChatAt(h, "savePreview")
  /\ lastMessage' = chatTask[h].message
  /\ ChatReturn(h)
  /\ UNCHANGED <<isClosed, job, messageVars, unread, overwritten>>

-----------------------------------------------------------------------------
ChatNext ==
  \/ \E h \in ChatHandlers :
       \/ \E u \in Members : SendMessage(h, u) \/ MarkRead(h, u)
       \/ StoreMessage(h) \/ SaveChat(h)
       \/ MarkMessages(h) \/ ClearUnread(h)
       \/ \E m \in Messages : DeleteMessage(h, m)
       \/ RewindPreview(h) \/ SavePreview(h)
  \/ CancelJob \/ CompleteJob
  \/ \E closed \in BOOLEAN : SetChatClosed(closed)

ChatSpec == ChatInit /\ [][ChatNext]_chatVars

-----------------------------------------------------------------------------
UnreadMessages(u) == {m \in stored : u \notin readBy[m]}
ChatAtRest == \A h \in ChatHandlers : ChatAt(h, "idle")
SentTo(u) == {m \in Messages : sentBy[m] \in Members \ {u}}

\* A message on its way when the chat is closed does not open it again: a closed
\* chat is opened by the job's completion or by an admin, never by a save of what
\* was loaded before.
ClosedSticks ==
  [][isClosed /\ ~isClosed' => CompleteJob \/ SetChatClosed(FALSE)]_chatVars

\* The badge never counts more messages than were sent to its reader.
UnreadWithinSent == \A u \in Members : Unread(unread[u]) <= Cardinality(SentTo(u))

\* At rest it counts every message its reader has not read, but for those that other
\* calls had counted between the load and the save of one that then wrote its own copy
\* (a lost update of sendMessage or markRead), and these for no longer than until the
\* reader's next markRead.
NoHiddenMessage ==
  ChatAtRest =>
    \A u \in Members : Cardinality(UnreadMessages(u)) <= Unread(unread[u]) + overwritten[u]

\* "Unread counts keyed by user id, so a badge needs no aggregation": what is unread is
\* in the badge or was overwritten by a call that overlapped, however sends, reads and
\* removals overlap; and what it counts beyond that was at least sent to its reader.
UnreadIsAccounted == UnreadWithinSent /\ NoHiddenMessage
=============================================================================
