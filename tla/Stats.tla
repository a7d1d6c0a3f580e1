------------------------------- MODULE Stats -------------------------------
(***************************************************************************)
(* The figures of the dashboard: loadOverview and loadTimeseries of        *)
(* stats.service.ts, over the jobs, fees, refunds and top-ups the other    *)
(* services record, while time passes midnight in Tashkent.                *)
(*                                                                         *)
(* A request reads the clock first and the collections later: jobs go on   *)
(* in between, and the day may end.  Each of its figures is an operator    *)
(* over the state in which it is read; that the queries of one request     *)
(* read one after the other is left out.                                   *)
(***************************************************************************)
EXTENDS Integers, FiniteSets, Functions

CONSTANTS
  DayLength,   \* DAY_MS, in steps of the clock
  Offset,      \* TZ_OFFSET_MS, likewise
  MonthDays,   \* the 30 of revenue30d
  JobFee,      \* what an accepted job cost
  DashboardJobs,
  DashboardTopUps,
  MaxClock     \* bound: the last moment

ASSUME StatsAssumption ==
  /\ DayLength \in Nat \ {0} /\ Offset \in 0..DayLength
  /\ MonthDays \in Nat \ {0} /\ JobFee \in Nat \ {0} /\ MaxClock \in Nat
  /\ IsFiniteSet(DashboardJobs) /\ IsFiniteSet(DashboardTopUps)

VARIABLES
  clock,
  jobs,    \* of each job: when it was posted, accepted, completed, refunded; its status
  topUps,  \* of each top-up: when it was started; its status
  asked    \* the clock a request for figures has read

statsVars == <<clock, jobs, topUps, asked>>

Never == -1
Times == 0..MaxClock
Moments == Times \cup {Never}
JobStatuses == {"pending", "accepted", "done", "cancelled"}
TopUpStatuses == {"pending", "success", "failed"}

StatsTypeOK ==
  /\ clock \in Times
  /\ jobs \in [DashboardJobs -> [posted : Moments, accepted : Moments, completed : Moments,
                                 refunded : Moments, status : JobStatuses]]
  /\ topUps \in [DashboardTopUps -> [started : Moments, status : TopUpStatuses]]
  /\ asked \in Moments

StatsInit ==
  /\ clock = 0
  /\ jobs = [j \in DashboardJobs |-> [posted |-> Never, accepted |-> Never, completed |-> Never,
                                      refunded |-> Never, status |-> "pending"]]
  /\ topUps = [t \in DashboardTopUps |-> [started |-> Never, status |-> "pending"]]
  /\ asked = Never

-----------------------------------------------------------------------------
(* Days *)

Mutant_UtcDay(at) == (at \div DayLength) * DayLength
StartOfTashkentDay(at) == ((at + Offset) \div DayLength) * DayLength - Offset
DayKey(at) == (at + Offset) \div DayLength
DaysAgo(now, days) == StartOfTashkentDay(now) - days * DayLength

\* MongoDB's date of a moment in Asia/Tashkent: the day whose midnights it lies between.
ByDay(at) ==
  CHOOSE d \in 0..(MaxClock + DayLength) : d * DayLength - Offset <= at /\ at < (d + 1) * DayLength - Offset

-----------------------------------------------------------------------------
(* What the collections hold *)

Posted == {j \in DashboardJobs : jobs[j].posted # Never}
Record(of, type, status, amount, at) ==
  [of |-> of, type |-> type, status |-> status, amount |-> amount, at |-> at]

\* Fees are debits, refunds and top-ups credits.
Transactions ==
  {Record(j, "order_fee", "success", -JobFee, jobs[j].accepted) :
     j \in {k \in DashboardJobs : jobs[k].accepted # Never}}
  \cup {Record(j, "refund", "success", JobFee, jobs[j].refunded) :
     j \in {k \in DashboardJobs : jobs[k].refunded # Never}}
  \cup {Record(t, "top_up", topUps[t].status, 1, topUps[t].started) :
     t \in {k \in DashboardTopUps : topUps[k].started # Never}}

Settled(type) == {r \in Transactions : r.type = type /\ r.status = "success"}
Since(records, start) == {r \in records : r.at >= start}

Magnitude(n) == IF n < 0 THEN -n ELSE n
SumTransactions(records) ==
  [total |-> SumFunction([r \in records |-> Magnitude(r.amount)]), count |-> Cardinality(records)]

\* countBy and withZeros: every status has its count.
CountByStatus == [s \in JobStatuses |-> Cardinality({j \in Posted : jobs[j].status = s})]

-----------------------------------------------------------------------------
(* The overview, read for a request whose clock said now *)

Revenue(start) ==
  SumTransactions(Since(Settled("order_fee"), start)).total
    - SumTransactions(Since(Settled("refund"), start)).total

NetRevenue ==
  SumTransactions(Settled("order_fee")).total - SumTransactions(Settled("refund")).total

\* In tenths of a per cent, rounded half up.
CompletionRate ==
  LET finished == CountByStatus["done"]
      ended == finished + CountByStatus["cancelled"]
  IN  IF ended = 0 THEN 0 ELSE (2000 * finished + ended) \div (2 * ended)

Overview(now) ==
  [total |-> Cardinality(Posted),
   today |-> Cardinality({j \in Posted : jobs[j].posted >= StartOfTashkentDay(now)}),
   byStatus |-> CountByStatus,
   completionRate |-> CompletionRate,
   netRevenue |-> NetRevenue,
   revenueToday |-> Revenue(StartOfTashkentDay(now)),
   revenue30d |-> Revenue(DaysAgo(now, MonthDays)),
   topUps |-> SumTransactions(Settled("top_up")).total,
   pendingTopUps |-> Cardinality({r \in Transactions : r.type = "top_up" /\ r.status = "pending"})]

-----------------------------------------------------------------------------
(* The chart: one bar a day *)

DailyCount(moments, since, date) ==
  Cardinality({j \in DashboardJobs : moments[j] # Never /\ moments[j] >= since /\ ByDay(moments[j]) = date})

DailySum(type, since, date) ==
  SumFunction([r \in {s \in Since(Settled(type), since) : ByDay(s.at) = date} |-> r.amount])

Timeseries(now, days) ==
  LET since == DaysAgo(now, days - 1) IN
  [i \in 1..days |->
     LET date == DayKey(since + (i - 1) * DayLength) IN
     [orders |-> DailyCount([j \in DashboardJobs |-> jobs[j].posted], since, date),
      completed |-> DailyCount([j \in DashboardJobs |-> IF jobs[j].status = "done"
                                  THEN jobs[j].completed ELSE Never], since, date),
      revenue |-> Magnitude(DailySum("order_fee", since, date))
                    - Magnitude(DailySum("refund", since, date)),
      topUps |-> DailySum("top_up", since, date)]]

-----------------------------------------------------------------------------
(* What goes on *)

ChangeJob(j, fields) ==
  /\ jobs' = [jobs EXCEPT ![j] = fields]
  /\ UNCHANGED <<clock, topUps, asked>>

PostJob(j) ==
  /\ jobs[j].posted = Never
  /\ ChangeJob(j, [jobs[j] EXCEPT !.posted = clock])
ChargeJob(j) ==
  /\ j \in Posted /\ jobs[j].status = "pending"
  /\ ChangeJob(j, [jobs[j] EXCEPT !.accepted = clock, !.status = "accepted"])
FinishJob(j) ==
  /\ jobs[j].status = "accepted"
  /\ ChangeJob(j, [jobs[j] EXCEPT !.completed = clock, !.status = "done"])
CallOffJob(j) ==
  /\ j \in Posted /\ jobs[j].status \in {"pending", "accepted"}
  /\ ChangeJob(j, [jobs[j] EXCEPT !.status = "cancelled"])
\* An admin gives the fee back once, for a job that has ended or is ended with it.
RefundJob(j) ==
  /\ jobs[j].accepted # Never /\ jobs[j].refunded = Never /\ jobs[j].status \in {"done", "cancelled"}
  /\ ChangeJob(j, [jobs[j] EXCEPT !.refunded = clock])

OpenTopUp(t) ==
  /\ topUps[t].started = Never
  /\ topUps' = [topUps EXCEPT ![t].started = clock]
  /\ UNCHANGED <<clock, jobs, asked>>
CloseTopUp(t) ==
  /\ topUps[t].started # Never /\ topUps[t].status = "pending"
  /\ \E s \in {"success", "failed"} : topUps' = [topUps EXCEPT ![t].status = s]
  /\ UNCHANGED <<clock, jobs, asked>>

AskStats ==
  /\ asked' = clock
  /\ UNCHANGED <<clock, jobs, topUps>>

TimePasses ==
  /\ clock < MaxClock
  /\ clock' = clock + 1
  /\ UNCHANGED <<jobs, topUps, asked>>

StatsNext ==
  \/ \E j \in DashboardJobs : PostJob(j) \/ ChargeJob(j) \/ FinishJob(j) \/ CallOffJob(j) \/ RefundJob(j)
  \/ \E t \in DashboardTopUps : OpenTopUp(t) \/ CloseTopUp(t)
  \/ AskStats
  \/ TimePasses

StatsSpec == StatsInit /\ [][StatsNext]_statsVars

-----------------------------------------------------------------------------
\* What a list of bars adds up to.
Added(bars, figure) == SumFunction([i \in DOMAIN bars |-> bars[i][figure]])

\* What was kept between two moments, from the jobs themselves.
Kept(from, to) ==
  JobFee * (Cardinality({j \in DashboardJobs : jobs[j].accepted \in Times \cap from..(to - 1)})
              - Cardinality({j \in DashboardJobs : jobs[j].refunded \in Times \cap from..(to - 1)}))

\* "A day on the dashboard is a Tashkent calendar day": each bar holds what happened
\* between two midnights, the last is the day on which the chart was asked for, and
\* nothing falls between the bars.
BarsAreDays(now, days) ==
  LET bars == Timeseries(now, days)
      midnight == StartOfTashkentDay(now)
  IN  /\ midnight <= now /\ now < midnight + DayLength
      /\ (midnight + Offset) % DayLength = 0
      /\ \A i \in 1..days :
           LET from == midnight - (days - i) * DayLength
               to == from + DayLength
           IN  /\ bars[i].revenue = Kept(from, to)
               /\ bars[i].orders = Cardinality({j \in Posted : jobs[j].posted \in from..(to - 1)})

\* The two pages of the dashboard agree: today's revenue is the last bar, but for what
\* came after the midnight that passed while the request waited, and the revenue of
\* the month is that of the chart which begins on the same day.
PagesAgree(now) ==
  LET late == Revenue(StartOfTashkentDay(now) + DayLength)
      month == Timeseries(now, MonthDays + 1)
      figures == Overview(now)
  IN  /\ figures.revenueToday = month[MonthDays + 1].revenue + late
      /\ figures.revenue30d = Added(month, "revenue") + late
      /\ figures.today >= month[MonthDays + 1].orders

\* The totals are those of the jobs: every job has one status, the fees kept are
\* those not given back, and the rate is a share of the jobs that ended.
TotalsAreRight(now) ==
  LET figures == Overview(now) IN
  /\ SumFunction(figures.byStatus) = figures.total
  /\ figures.netRevenue = Kept(0, MaxClock + 1) /\ figures.netRevenue >= 0
  /\ figures.completionRate \in 0..1000
  /\ figures.byStatus["done"] > 0 /\ figures.byStatus["cancelled"] = 0
       => figures.completionRate = 1000

\* Whatever happened, and however late the request is answered, the figures add up.
FiguresAddUp ==
  asked # Never => /\ BarsAreDays(asked, MonthDays)
                   /\ PagesAgree(asked)
                   /\ TotalsAreRight(asked)
=============================================================================
