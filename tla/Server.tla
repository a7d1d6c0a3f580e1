------------------------------- MODULE Server -------------------------------
(***************************************************************************)
(* The life of the server's processes: start, the replacement of cluster   *)
(* workers and shutdown of server.ts, startWorkers and stopWorkers of      *)
(* jobs/index.ts, and the maintenance of resetRedis.ts, which the          *)
(* processes started with one token share among them.  Processes of the    *)
(* deployment before, without the token, may still be serving.             *)
(*                                                                         *)
(* No answer of Redis is lost: its client sends an unanswered command      *)
(* again when it has reconnected.                                          *)
(***************************************************************************)
CONSTANTS
  Servers,
  RedisKeys   \* keys of the application's namespaces

VARIABLES
  marker,     \* maintenance:redis-reset:<token>
  keys,       \* the application's keys there are
  before,     \* the deployment before is still serving
  server,     \* where each process is
  found,      \* what a process has found to delete
  ready,      \* the processes whose readiness probe answers
  fresh       \* history: the keys the processes of this deployment have written

serverVars == <<marker, keys, before, server, found, ready, fresh>>

Maintaining == {"scanning", "deleting", "verifying", "finishing"}
Serving == {"serving", "draining"}
Places == {"exited", "starting", "reading", "acquiring", "waiting", "up", "stopping"}
            \cup Maintaining \cup Serving

ServerTypeOK ==
  /\ marker \in {"none", "running", "done"}
  /\ keys \subseteq RedisKeys
  /\ before \in BOOLEAN
  /\ server \in [Servers -> Places]
  /\ found \in [Servers -> SUBSET RedisKeys]
  /\ ready \subseteq Servers
  /\ fresh \subseteq RedisKeys

ServerInit ==
  /\ marker = "none"
  /\ keys \in SUBSET RedisKeys
  /\ before \in BOOLEAN
  /\ server = [p \in Servers |-> "exited"]
  /\ found = [p \in Servers |-> {}]
  /\ ready = {}
  /\ fresh = {}

-----------------------------------------------------------------------------
ServerGoes(p, from, to) == server[p] = from /\ server' = [server EXCEPT ![p] = to]

\* A worker is forked, at first or in the place of one that has exited.
Fork(p) ==
  /\ ServerGoes(p, "exited", "starting")
  /\ UNCHANGED <<marker, keys, before, found, ready, fresh>>

\* connectDatabase and connectRedis.
ConnectBoth(p) ==
  /\ ServerGoes(p, "starting", "reading")
  /\ UNCHANGED <<marker, keys, before, found, ready, fresh>>

\* resetRedisOnce: GET, and SET NX if it does not say done.
ReadMarker(p) ==
  /\ ServerGoes(p, "reading", IF marker = "done" THEN "up" ELSE "acquiring")
  /\ UNCHANGED <<marker, keys, before, found, ready, fresh>>

Mutant_NotExclusive(p) ==
  /\ ServerGoes(p, "acquiring", "scanning")
  /\ marker' = "running"
  /\ UNCHANGED <<keys, before, found, ready, fresh>>
AcquireMarker(p) ==
  /\ IF marker = "none"
     THEN ServerGoes(p, "acquiring", "scanning") /\ marker' = "running"
     ELSE ServerGoes(p, "acquiring", "waiting") /\ UNCHANGED marker
  /\ UNCHANGED <<keys, before, found, ready, fresh>>

\* Another process has finished, or thirty seconds have passed.
WaitForMarker(p) ==
  /\ marker = "done" /\ ServerGoes(p, "waiting", "up")
  /\ UNCHANGED <<marker, keys, before, found, ready, fresh>>
StopWaiting(p) ==
  /\ ServerGoes(p, "waiting", "exited")
  /\ UNCHANGED <<marker, keys, before, found, ready, fresh>>

\* applicationKeys, and DEL in batches.
ScanKeys(p) ==
  /\ ServerGoes(p, "scanning", "deleting")
  /\ found' = [found EXCEPT ![p] = keys]
  /\ UNCHANGED <<marker, keys, before, ready, fresh>>

DeleteBatch(p) ==
  /\ server[p] = "deleting"
  /\ \E batch \in (SUBSET found[p]) \ {{}} :
       /\ keys' = keys \ batch
       /\ found' = [found EXCEPT ![p] = @ \ batch]
  /\ UNCHANGED <<marker, before, server, ready, fresh>>
AllDeleted(p) ==
  /\ found[p] = {} /\ ServerGoes(p, "deleting", "verifying")
  /\ UNCHANGED <<marker, keys, before, found, ready, fresh>>

VerifyEmpty(p) ==
  /\ keys = {} /\ ServerGoes(p, "verifying", "finishing")
  /\ UNCHANGED <<marker, keys, before, found, ready, fresh>>

FinishReset(p) ==
  /\ ServerGoes(p, "finishing", "up")
  /\ marker' = "done"
  /\ UNCHANGED <<keys, before, found, ready, fresh>>

\* Keys are left, or a command fails: the marker is deleted and the start fails.
ResetFails(p) ==
  /\ server[p] \in Maintaining \ {"finishing"}
  /\ server' = [server EXCEPT ![p] = "exited"]
  /\ marker' = "none"
  /\ found' = [found EXCEPT ![p] = {}]
  /\ UNCHANGED <<keys, before, ready, fresh>>

\* The app, the sockets, startWorkers, listen.
Listen(p) ==
  /\ ServerGoes(p, "up", "serving")
  /\ ready' = ready \cup {p}
  /\ UNCHANGED <<marker, keys, before, found, fresh>>

\* A request changes keys.
Serve(p) ==
  /\ server[p] \in Serving
  /\ \E k \in RedisKeys :
       \/ keys' = keys \cup {k} /\ fresh' = fresh \cup {k}
       \/ keys' = keys \ {k} /\ fresh' = fresh \ {k}
  /\ UNCHANGED <<marker, before, server, found, ready>>

\* A signal: the probe fails, then connections and sockets are closed, the
\* workers stopped, the clients disconnected.
BeginShutdown(p) ==
  /\ ServerGoes(p, "serving", "draining")
  /\ ready' = ready \ {p}
  /\ UNCHANGED <<marker, keys, before, found, fresh>>

CloseConnections(p) ==
  /\ ServerGoes(p, "draining", "stopping")
  /\ UNCHANGED <<marker, keys, before, found, ready, fresh>>

ExitCleanly(p) ==
  /\ ServerGoes(p, "stopping", "exited")
  /\ UNCHANGED <<marker, keys, before, found, ready, fresh>>

\* A crash, a failed connection, a forced exit, a signal while starting.
Die(p) ==
  /\ server[p] # "exited"
  /\ server' = [server EXCEPT ![p] = "exited"]
  /\ found' = [found EXCEPT ![p] = {}]
  /\ ready' = ready \ {p}
  /\ UNCHANGED <<marker, keys, before, fresh>>

\* The deployment before: it writes its keys until it is stopped.
BeforeServes ==
  /\ before
  /\ \E k \in RedisKeys : keys' = keys \cup {k}
  /\ UNCHANGED <<marker, before, server, found, ready, fresh>>
BeforeStops ==
  /\ before /\ before' = FALSE
  /\ UNCHANGED <<marker, keys, server, found, ready, fresh>>

ServerNext ==
  \/ \E p \in Servers :
       \/ Fork(p) \/ ConnectBoth(p) \/ ReadMarker(p) \/ AcquireMarker(p)
       \/ WaitForMarker(p) \/ StopWaiting(p)
       \/ ScanKeys(p) \/ DeleteBatch(p) \/ AllDeleted(p) \/ VerifyEmpty(p)
       \/ FinishReset(p) \/ ResetFails(p)
       \/ Listen(p) \/ Serve(p) \/ BeginShutdown(p) \/ CloseConnections(p)
       \/ ExitCleanly(p) \/ Die(p)
  \/ BeforeServes \/ BeforeStops

ServerSpec == ServerInit /\ [][ServerNext]_serverVars

-----------------------------------------------------------------------------
\* The maintenance never deletes what a process of this deployment has written:
\* none of them serves before it is over, and none begins it again.
FreshSurvives == fresh \subseteq keys

\* A process that serves requests does so on keys no other process maintains.
NoResetWhileServing ==
  \A p, q \in Servers : server[p] \in Serving => server[q] \notin Maintaining
=============================================================================
