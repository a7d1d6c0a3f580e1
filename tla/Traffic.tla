------------------------------ MODULE Traffic ------------------------------
(***************************************************************************)
(* The read-through cache of common/utils/cache.ts under the one use that  *)
(* both fills and invalidates it: recordVisit and trafficReport of         *)
(* traffic.service.ts, for the counts of one day.                          *)
(*                                                                         *)
(* Redis executes the commands of one process in the order it sent them,   *)
(* also those whose answer nobody waits for any more because the deadline  *)
(* has passed.  A report that finds a load of its process pending shares   *)
(* its answer and changes nothing.                                         *)
(***************************************************************************)
EXTENDS Integers, Sequences, FiniteSets

CONSTANTS
  Processes,
  Reports,
  Sessions,
  MaxWire,    \* commands of one process that can be on their way
  NoReport,
  NoEntry

ASSUME TrafficAssumption ==
  /\ NoReport \notin Reports /\ IsFiniteSet(Sessions)
  /\ MaxWire \in Nat \ {0}

VARIABLES
  visits,     \* the sessions with a Visit document
  recording,  \* the processes that have stored a visit and not yet invalidated
  entry,      \* the cached count, and the process that stored it
  pending,    \* of each process: the report whose load is current
  report,
  wire,       \* of each process: the commands Redis has not executed
  floor       \* history: the visits there were at the last executed DEL of a process

trafficVars == <<visits, recording, entry, pending, report, wire, floor>>

VisitCounts == 0..Cardinality(Sessions)
Entries == [count : VisitCounts, by : Processes]
Commands == [op : {"get", "set", "del"}, report : Reports \cup {NoReport}, count : VisitCounts]
ReportStates == [pc : {"idle", "get", "load", "check", "store"}, process : Processes, count : VisitCounts]

TrafficTypeOK ==
  /\ visits \subseteq Sessions
  /\ recording \subseteq Processes
  /\ entry \in Entries \cup {NoEntry}
  /\ pending \in [Processes -> Reports \cup {NoReport}]
  /\ report \in [Reports -> ReportStates]
  /\ \A p \in Processes : wire[p] \in Seq(Commands) /\ Len(wire[p]) <= MaxWire
  /\ floor \in [Processes -> VisitCounts]

TrafficInit ==
  /\ visits = {}
  /\ recording = {}
  /\ entry = NoEntry
  /\ pending = [p \in Processes |-> NoReport]
  /\ report \in [Reports -> [pc : {"idle"}, process : Processes, count : {0}]]
  /\ wire = [p \in Processes |-> <<>>]
  /\ floor = [p \in Processes |-> 0]

-----------------------------------------------------------------------------
Served(r) == report[r].process
ReportGoes(r, pc, count) == report' = [report EXCEPT ![r].pc = pc, ![r].count = count]
Send(p, op, r, count) ==
  /\ Len(wire[p]) < MaxWire
  /\ wire' = [wire EXCEPT ![p] = Append(@, [op |-> op, report |-> r, count |-> count])]

\* recordVisit: the upsert; a session seen before, and a lost race, end here.
RecordVisit(p, s) ==
  /\ p \notin recording
  /\ s \notin visits
  /\ visits' = visits \cup {s}
  /\ recording' = recording \cup {p}
  /\ UNCHANGED <<entry, pending, report, wire, floor>>

\* invalidate: the pending load is forgotten; Redis may not be ready for the DEL.
Mutant_DeleteOnly(p) ==
  /\ p \in recording
  /\ recording' = recording \ {p}
  /\ Send(p, "del", NoReport, Cardinality(visits))
  /\ UNCHANGED <<visits, entry, pending, report, floor>>
Invalidate(p) ==
  /\ p \in recording
  /\ recording' = recording \ {p}
  /\ pending' = [pending EXCEPT ![p] = NoReport]
  /\ Send(p, "del", NoReport, Cardinality(visits)) \/ UNCHANGED wire
  /\ UNCHANGED <<visits, entry, report, floor>>

\* cached: no load is pending, so this report's becomes it.
Cached(r) ==
  /\ report[r].pc = "idle"
  /\ pending[Served(r)] = NoReport
  /\ pending' = [pending EXCEPT ![Served(r)] = r]
  /\ Send(Served(r), "get", r, 0)
  /\ ReportGoes(r, "get", 0)
  /\ UNCHANGED <<visits, recording, entry, floor>>

\* finally: only the operation's own entry is taken out of "pending".
Forget(r) ==
  pending' = [p \in Processes |-> IF pending[p] = r THEN NoReport ELSE pending[p]]

LoadCounts(r) ==
  /\ report[r].pc = "load"
  /\ ReportGoes(r, "check", Cardinality(visits))
  /\ UNCHANGED <<visits, recording, entry, pending, wire, floor>>

\* What was loaded is stored only while it is current.
StoreIfCurrent(r) ==
  /\ report[r].pc = "check"
  /\ IF pending[Served(r)] = r
     THEN /\ Send(Served(r), "set", r, report[r].count)
          /\ ReportGoes(r, "store", 0)
          /\ UNCHANGED pending
     ELSE ReportGoes(r, "idle", 0) /\ Forget(r) /\ UNCHANGED wire
  /\ UNCHANGED <<visits, recording, entry, floor>>

\* Nobody waits for the answer to the command of r any more.
Unwatched(r) ==
  [p \in Processes |->
     [i \in DOMAIN wire[p] |->
        IF wire[p][i].report = r THEN [wire[p][i] EXCEPT !.report = NoReport] ELSE wire[p][i]]]

\* cacheDeadline: a read that takes too long is a miss, a write is left behind.
Deadline(r) ==
  /\ wire' = Unwatched(r)
  /\ \/ report[r].pc = "get" /\ ReportGoes(r, "load", 0) /\ UNCHANGED pending
     \/ report[r].pc = "store" /\ ReportGoes(r, "idle", 0) /\ Forget(r)
  /\ UNCHANGED <<visits, recording, entry, floor>>

\* Redis executes the next command of p and, if somebody waits, answers.
Execute(p) ==
  LET c == Head(wire[p])
  IN /\ wire[p] # <<>>
     /\ wire' = [wire EXCEPT ![p] = Tail(@)]
     /\ entry' = CASE c.op = "set" -> [count |-> c.count, by |-> p]
                   [] c.op = "del" -> NoEntry
                   [] c.op = "get" -> entry
     /\ floor' = IF c.op = "del" THEN [floor EXCEPT ![p] = c.count] ELSE floor
     /\ IF c.report = NoReport THEN UNCHANGED <<report, pending>>
        ELSE IF c.op = "get" /\ entry = NoEntry
             THEN ReportGoes(c.report, "load", 0) /\ UNCHANGED pending
             ELSE ReportGoes(c.report, "idle", 0) /\ Forget(c.report)
     /\ UNCHANGED <<visits, recording>>

EntryExpires ==
  /\ entry # NoEntry
  /\ entry' = NoEntry
  /\ UNCHANGED <<visits, recording, pending, report, wire, floor>>

TrafficNext ==
  \/ \E p \in Processes :
       \/ \E s \in Sessions : RecordVisit(p, s)
       \/ Invalidate(p) \/ Execute(p)
  \/ \E r \in Reports : Cached(r) \/ LoadCounts(r) \/ StoreIfCurrent(r) \/ Deadline(r)
  \/ EntryExpires

TrafficSpec == TrafficInit /\ [][TrafficNext]_trafficVars

-----------------------------------------------------------------------------
\* Once Redis has dropped the counts at the bidding of a process, that process
\* never puts counts there that were loaded before the visit it dropped them for:
\* not by a load still on its way, and not by a write that missed its deadline.
NoStaleStore == entry # NoEntry => entry.count >= floor[entry.by]
=============================================================================
