------------------------------ MODULE Presence ------------------------------
(***************************************************************************)
(* Whether a pro is online: what the connection and disconnect handlers of *)
(* sockets/index.ts set off in trackSocket, setOnline and touchLastSeen of *)
(* user.service.ts, for one pro with several devices.                      *)
(*                                                                         *)
(* The handlers await nothing of what they start, and the devices may be   *)
(* connected to different instances, so the writes of two devices          *)
(* interleave, and those of a connection may land after the ones of its    *)
(* own disconnect.  Only what a process has sent to Redis keeps its order: *)
(* the INCR and the SADD of a connection come before the DECR that follows *)
(* them.  A write may fail, and an instance be killed.                     *)
(***************************************************************************)
EXTENDS Integers, FiniteSets

CONSTANTS
  Devices,
  OnlineIn,     \* where a pro is said to be online: MasterProfile.isOnline ("profile"), the
                \* Redis set onlineMasters ("set"), the pro's own key onlineMaster ("key"),
                \* and a lastSeenAt older than the latest departure ("seen")
  MaxFaults     \* bound: instances killed and writes failed

ASSUME PresenceAssumption ==
  /\ IsFiniteSet(Devices) /\ MaxFaults \in Nat
  /\ OnlineIn \subseteq {"profile", "set", "key", "seen"}

VARIABLES
  socketsOfUser,  \* the counter; 0 if the key is absent
  online,         \* where the pro is still said to be here, of OnlineIn
  device,         \* [phase, counted, coming, going]: where each device is, whether the
                  \* counter holds it, and the writes of both handlers not yet made
  faults,
  leaked,         \* history: increments that no disconnect will take back
  stranded        \* history: places last written by a connection already gone, or which
                  \* the disconnect that was to write them did not

presenceVars == <<socketsOfUser, online, device, faults, leaked, stranded>>

DevicePhases == {"closed", "open", "counting", "dropping", "leaving"}
DeviceStates == [phase : DevicePhases, counted : BOOLEAN,
                 coming : SUBSET (OnlineIn \cup {"count"}), going : SUBSET OnlineIn]

PresenceTypeOK ==
  /\ socketsOfUser \in Int
  /\ online \subseteq OnlineIn /\ stranded \subseteq OnlineIn
  /\ device \in [Devices -> DeviceStates]
  /\ faults \in 0..MaxFaults
  /\ leaked \in Nat

Away == [phase |-> "closed", counted |-> FALSE, coming |-> {}, going |-> {}]

PresenceInit ==
  /\ socketsOfUser = 0 /\ online = {}
  /\ device = [d \in Devices |-> Away]
  /\ faults = 0 /\ leaked = 0 /\ stranded = {}

-----------------------------------------------------------------------------
Phase(d) == device[d].phase
Coming(d) == device[d].coming
Going(d) == device[d].going
PutDevice(d, phase, counted, coming, going) ==
  device' = [device EXCEPT ![d] = [phase |-> phase, counted |-> counted,
                                   coming |-> coming, going |-> going]]
Came(d, coming) == PutDevice(d, Phase(d), device[d].counted, coming, Going(d))
Went(d, going) ==
  PutDevice(d, IF going = {} THEN "closed" ELSE "leaving", device[d].counted, Coming(d), going)

\* The key is written after the others, or not at all.
KeyIsNext(S) == "key" \in S /\ S \subseteq {"key", "count"}
Without(S, w) == S \ {w, "key"}
Fault == faults < MaxFaults /\ faults' = faults + 1

\* The connection handler: trackSocket and setOnline start together.
Connect(d) ==
  /\ Phase(d) = "closed" /\ Coming(d) = {}
  /\ PutDevice(d, "open", FALSE, OnlineIn \cup {"count"}, {})
  /\ UNCHANGED <<socketsOfUser, online, faults, leaked, stranded>>

\* INCR, and the day the counter is given to live.
CountIn(d) ==
  /\ "count" \in Coming(d)
  /\ socketsOfUser' = socketsOfUser + 1
  /\ leaked' = IF Phase(d) = "closed" THEN leaked + 1 ELSE leaked
  /\ PutDevice(d, Phase(d), Phase(d) # "closed", Coming(d) \ {"count"}, Going(d))
  /\ UNCHANGED <<online, faults, stranded>>

\* A connection's write of w stays until a device goes, or strands if this one has gone.
Stands(d, w) == stranded' = IF Phase(d) = "open" THEN stranded \ {w} ELSE stranded \cup {w}

\* The writes of setOnline that go out together, and its last.
WriteOnline(d, w) ==
  /\ w \in Coming(d) /\ w # "seen" /\ (w = "key" => KeyIsNext(Coming(d)))
  /\ online' = online \cup {w}
  /\ Stands(d, w)
  /\ Came(d, Coming(d) \ {w})
  /\ UNCHANGED <<socketsOfUser, faults, leaked>>

\* touchLastSeen, if it was not throttled.  A write that lands after the device has gone
\* may bear a date from before.
TouchLastSeen(d) ==
  /\ "seen" \in Coming(d)
  /\ Came(d, Coming(d) \ {"seen"})
  /\ \/ UNCHANGED <<online, stranded>>
     \/ online' = online \ {"seen"} /\ stranded' = stranded \ {"seen"}
     \/ /\ Phase(d) # "open"
        /\ online' = online \cup {"seen"} /\ stranded' = stranded \cup {"seen"}
  /\ UNCHANGED <<socketsOfUser, faults, leaked>>

\* A write of a connection fails: trackSocket goes on without it, setOnline gives up its key.
ConnectFails(d, w) ==
  /\ w \in Coming(d) /\ (w = "key" => KeyIsNext(Coming(d)))
  /\ Fault
  /\ Came(d, IF w = "count" THEN Coming(d) \ {w} ELSE Without(Coming(d), w))
  /\ UNCHANGED <<socketsOfUser, online, leaked, stranded>>

\* The disconnect handler.  From here on the last lastSeenAt is older than the departure.
Unseen == OnlineIn \cap {"seen"}

Disconnect(d) ==
  /\ Phase(d) = "open"
  /\ online' = online \cup Unseen
  /\ PutDevice(d, "counting", device[d].counted, Coming(d), {})
  /\ UNCHANGED <<socketsOfUser, faults, leaked, stranded>>

\* DECR.  The last device goes on to setOnline(false), after DEL.
AtDecrement(d) == Phase(d) = "counting" /\ Coming(d) \cap {"count", "set"} = {}

Mutant_ExactlyZero(d) ==
  /\ AtDecrement(d)
  /\ socketsOfUser' = socketsOfUser - 1
  /\ PutDevice(d, IF socketsOfUser' = 0 THEN "dropping" ELSE "closed", FALSE, Coming(d), {})
  /\ UNCHANGED <<online, faults, leaked, stranded>>
CountOut(d) ==
  /\ AtDecrement(d)
  /\ socketsOfUser' = socketsOfUser - 1
  /\ PutDevice(d, IF socketsOfUser' <= 0 THEN "dropping" ELSE "closed", FALSE, Coming(d), {})
  /\ UNCHANGED <<online, faults, leaked, stranded>>

\* Without an answer of Redis, whether or not the command was executed, a disconnect counts
\* as the last.
CountFails(d) ==
  /\ AtDecrement(d)
  /\ Fault
  /\ \/ socketsOfUser' = socketsOfUser - 1 /\ UNCHANGED leaked
     \/ /\ UNCHANGED socketsOfUser
        /\ leaked' = IF device[d].counted THEN leaked + 1 ELSE leaked
  /\ PutDevice(d, "leaving", FALSE, Coming(d), OnlineIn)
  /\ UNCHANGED <<online, stranded>>

DropCounter(d) ==
  /\ Phase(d) = "dropping"
  /\ \/ socketsOfUser' = 0 /\ leaked' = 0 /\ UNCHANGED faults
     \/ Fault /\ UNCHANGED <<socketsOfUser, leaked>>
  /\ PutDevice(d, "leaving", FALSE, Coming(d), OnlineIn)
  /\ UNCHANGED <<online, stranded>>

\* setOnline(false); going offline always writes lastSeenAt.
WriteOffline(d, w) ==
  /\ w \in Going(d) /\ (w = "key" => Going(d) = {"key"})
  /\ online' = online \ {w} /\ stranded' = stranded \ {w}
  /\ Went(d, Going(d) \ {w})
  /\ UNCHANGED <<socketsOfUser, faults, leaked>>

LeaveFails(d, w) ==
  /\ w \in Going(d) /\ (w = "key" => Going(d) = {"key"})
  /\ Fault
  /\ stranded' = stranded \cup (Going(d) \cap {w, "key"})
  /\ Went(d, Without(Going(d), w))
  /\ UNCHANGED <<socketsOfUser, online, leaked>>

\* The instance that holds d, or still runs its disconnect, is killed.  What the connection
\* had sent may land yet.
Kill(d) ==
  /\ Phase(d) # "closed"
  /\ Fault
  /\ leaked' = IF device[d].counted THEN leaked + 1 ELSE leaked
  /\ online' = IF Phase(d) = "open" THEN online \cup Unseen ELSE online
  /\ stranded' = stranded \cup (IF Phase(d) = "leaving" THEN Going(d) ELSE OnlineIn)
  /\ \E sent \in SUBSET Coming(d) :
       /\ "key" \in sent => KeyIsNext(Coming(d))
       /\ PutDevice(d, "closed", FALSE, sent, {})
  /\ UNCHANGED <<socketsOfUser>>

\* The counter outlives any session: it expires a day after the last connection.
CounterExpires ==
  /\ socketsOfUser > 0
  /\ \A d \in Devices : Phase(d) = "closed"
  /\ socketsOfUser' = 0 /\ leaked' = 0
  /\ stranded' = IF leaked > 0 THEN OnlineIn ELSE stranded
  /\ UNCHANGED <<online, device, faults>>

KeyExpires ==
  /\ "key" \in online /\ online' = online \ {"key"}
  /\ UNCHANGED <<socketsOfUser, device, faults, leaked, stranded>>

\* An admin blocks or deactivates the pro (the profile), or the pro deletes the
\* account (the set), whatever devices are connected.
TakenOffline ==
  /\ \E w \in online \cap {"profile", "set"} : online' = online \ {w}
  /\ UNCHANGED <<socketsOfUser, device, faults, leaked, stranded>>

PresenceNext ==
  \/ \E d \in Devices :
       \/ Connect(d) \/ CountIn(d) \/ TouchLastSeen(d)
       \/ Disconnect(d) \/ CountOut(d) \/ CountFails(d) \/ DropCounter(d) \/ Kill(d)
       \/ \E w \in OnlineIn : WriteOnline(d, w) \/ WriteOffline(d, w) \/ LeaveFails(d, w)
       \/ \E w \in OnlineIn \cup {"count"} : ConnectFails(d, w)
  \/ CounterExpires \/ KeyExpires \/ TakenOffline

PresenceSpec == PresenceInit /\ [][PresenceNext]_presenceVars

-----------------------------------------------------------------------------
\* "Only the last device going away takes the pro offline", and it does so everywhere:
\* once nobody is connected, all that can still call the pro online is a place where the
\* write of a connection landed after that connection had gone (nobody awaits setOnline),
\* one that a killed instance or a failed write left, or the drift of the counter that is
\* tolerated, while it lasts.  No other overlap of connections and disconnects does it, and
\* the next disconnect that finds no count puts it right.
GoneIsOffline ==
  (\A d \in Devices : Phase(d) = "closed") /\ leaked = 0 => online \subseteq stranded

\* The counter never holds more than the connections it has counted and the increments
\* that nobody will take back.
CountWithin ==
  socketsOfUser <= Cardinality({d \in Devices : device[d].counted}) + leaked
=============================================================================
