-------------------------------- MODULE Upkeep --------------------------------
(***************************************************************************)
(* What a process does by the clock: the loops of the health and metrics   *)
(* workers, which roll raw rows up into hourly and daily summaries and     *)
(* delete what is old (workers/health/aggregator.go, workers/metrics), and *)
(* the nightly cleanup (workers/cleanup).  Each loop is one goroutine that *)
(* takes ticks from its channels, which hold one tick each, and makes one  *)
(* statement after the other.                                              *)
(*                                                                         *)
(* Time is counted in units of a part of an hour.  One raw row per unit    *)
(* stands for the rows of that time; a summary is the set of raw rows it   *)
(* was computed from.                                                      *)
(***************************************************************************)
EXTENDS Integers, FiniteSets

CONSTANTS
  Hour,             \* units in an hour
  HoursPerDay,
  rawRetention, hourlyRetention,      \* in units
  cleanupHour, jobRetention,          \* the hour of the day; in units
  Horizon,          \* bound on time
  MaxFaults         \* bound on failed statements, held-up loops and restarts

Day == Hour * HoursPerDay

\* Raw rows are kept for two days, hourly summaries for thirty, and a day has 24 hours.
ASSUME UpkeepAssumption ==
  /\ Hour \in Nat \ {0} /\ HoursPerDay \in Nat /\ HoursPerDay >= 3
  /\ {rawRetention, hourlyRetention, jobRetention, Horizon, MaxFaults} \subseteq Nat
  /\ cleanupHour \in 0..(HoursPerDay - 1)
  /\ Day <= rawRetention /\ 2 * Day <= hourlyRetention
  /\ Day <= Horizon

\* The first two loops are named like their tables.
Tables == {"health", "metrics"}
Loops  == Tables \cup {"cleanup"}

VARIABLES
  now,
  raw, hourly, daily,   \* per table, the rows and what the summaries are made of
  jobs,       \* ended provisioning jobs, by the time of their creation
  pins,       \* support PINs, by the time of their expiry
  toHour,     \* per table, units to the next tick of the hourly ticker
  toDay,      \* units to the next tick of health's daily ticker
  pending,    \* per loop, the ticks in its channels
  at,         \* per loop, the statement it stands before
  lastDate,   \* the last day of metrics' and cleanup's daily run, 0 for none
  start,      \* when the first process started (history)
  summed,     \* per table, the raw rows that were in some hourly summary (history)
  faults

tables == <<raw, hourly, daily, summed>>
clocks == <<toHour, toDay>>
vars == <<now, tables, jobs, pins, clocks, pending, at, lastDate, start, faults>>

\* How long after the hour the hourly tickers of the first process fire.
Offset == start % Hour

HourOf(t) == t \div Hour
DayOf(t)  == t \div Day

RowsOfHour(h) == {t \in 0..Horizon : HourOf(t) = h}

Fault == faults < MaxFaults /\ faults' = faults + 1

\* The first minutes after midnight; the hour of the cleanup.
Midnight(t)    == t % Day = 0
CleanupTime(t) == HourOf(t) % HoursPerDay = cleanupHour

\* The ticks of the minute tickers that matter at time t.
MinuteTicks(l, t) ==
  IF (l = "metrics" /\ Midnight(t)) \/ (l = "cleanup" /\ CleanupTime(t))
  THEN {"daily"} ELSE {}

\* The channels of a process that starts now; it may be too late for midnight.
Started(t) ==
  /\ toHour' = Hour /\ toDay' = Day
  /\ at' = [l \in Loops |-> "idle"]
  /\ lastDate' = [l \in {"metrics", "cleanup"} |-> 0]
  /\ \E missed \in SUBSET {"metrics"} :
       pending' = [l \in Loops |-> IF l \in missed THEN {} ELSE MinuteTicks(l, t)]

Init ==
  /\ start \in 0..(Day - 1) /\ now = start
  /\ raw = [l \in Tables |-> 0..(start - 1)]
  /\ summed = [l \in Tables |-> {}]
  /\ hourly = [l \in Tables |-> [h \in 0..HourOf(Horizon) |-> {}]]
  /\ daily = [l \in Tables |-> [d \in 0..DayOf(Horizon) |-> {}]]
  /\ jobs = {} /\ pins = {}
  /\ toHour = Hour /\ toDay = Day
  /\ at = [l \in Loops |-> "idle"]
  /\ lastDate = [l \in {"metrics", "cleanup"} |-> 0]
  /\ pending = [l \in Loops |-> MinuteTicks(l, start)]
  /\ faults = 0
-----------------------------------------------------------------------------
(* The loops.                                                              *)

\* Loop l takes the tick from its channel, or goes on, and then stands at "next".
Takes(l, tick) == at[l] = "idle" /\ tick \in pending[l]
               /\ pending' = [pending EXCEPT ![l] = @ \ {tick}]
GoesOn(l, from) == at[l] = from /\ UNCHANGED pending
Stands(l, next)  == at' = [at EXCEPT ![l] = next]

\* (With the window of one hour its comment promises, and with a strict bound.)
WindowOfOneHour(t) == {r \in 0..t : r + Hour >= t /\ HourOf(r) < HourOf(t)}
StrictWindow(t)    == {r \in 0..t : r + 2 * Hour > t /\ HourOf(r) < HourOf(t)}

\* The rows of the last two hours, without the hour that is not over.
Window(t) == {r \in 0..t : r + 2 * Hour >= t /\ HourOf(r) < HourOf(t)}

\* RollupHourly, aggregateHourly: an hour with a row in the window is replaced.
aggregateHourly(l) ==
  /\ l \in Tables /\ Takes(l, "hourly") /\ Stands(l, "pruneRaw")
  /\ LET rows == raw[l] \cap Window(now)
     IN  /\ hourly' = [hourly EXCEPT ![l] = [h \in DOMAIN @ |->
               IF rows \cap RowsOfHour(h) = {} THEN @[h] ELSE rows \cap RowsOfHour(h)]]
         /\ summed' = [summed EXCEPT ![l] = @ \cup rows]
  /\ UNCHANGED <<now, raw, daily, jobs, pins, clocks, lastDate, start, faults>>

pruneRaw(l) ==
  /\ GoesOn(l, "pruneRaw") /\ Stands(l, "idle")
  /\ raw' = [raw EXCEPT ![l] = {r \in @ : r + rawRetention >= now}]
  /\ UNCHANGED <<now, hourly, daily, summed, jobs, pins, clocks, lastDate, start, faults>>

\* (As it would be if the day of the last run were compared with the wrong one.)
DueOnce(l) ==
  \/ l = "health"
  \/ (l = "metrics" /\ Midnight(now)    /\ lastDate[l] = 0)
  \/ (l = "cleanup" /\ CleanupTime(now) /\ lastDate[l] = 0)

\* Health's ticker is enough; the others look at the clock and the last day.
DailyDue(l) ==
  \/ l = "health"
  \/ (l = "metrics" /\ Midnight(now)    /\ lastDate[l] # DayOf(now) + 1)
  \/ (l = "cleanup" /\ CleanupTime(now) /\ lastDate[l] # DayOf(now) + 1)

SetLastDate(l) ==
  lastDate' = [k \in DOMAIN lastDate |-> IF k = l THEN DayOf(now) + 1 ELSE lastDate[k]]

\* (With today's hours, and with those of the last 24 hours, for the day before's.)
HoursOfToday(t)   == {h \in 0..HourOf(t) : DayOf(h * Hour) = DayOf(t)}
HoursOfLastDay(t) == {h \in 0..HourOf(t) : h * Hour + Day >= t /\ DayOf(h * Hour) < DayOf(t)}

HoursOfDayBefore(t) == {h \in 0..HourOf(t) : DayOf(h * Hour) + 1 = DayOf(t)}

\* RollupDaily, aggregateDaily: the day before, if it has a summary of an hour.
aggregateDaily(l) ==
  /\ l \in Tables /\ Takes(l, "daily") /\ DailyDue(l) /\ Stands(l, "pruneHourly")
  /\ SetLastDate(l)
  /\ daily' = [daily EXCEPT ![l] = [d \in DOMAIN @ |->
       LET hours == {h \in HoursOfDayBefore(now) : DayOf(h * Hour) = d}
           rows  == UNION {hourly[l][h] : h \in hours}
       IN  IF rows = {} THEN @[d] ELSE rows]]
  /\ UNCHANGED <<now, raw, hourly, summed, jobs, pins, clocks, start, faults>>

pruneHourly(l) ==
  /\ GoesOn(l, "pruneHourly") /\ Stands(l, "idle")
  /\ hourly' = [hourly EXCEPT ![l] = [h \in DOMAIN @ |->
       IF h * Hour + hourlyRetention < now THEN {} ELSE @[h]]]
  /\ UNCHANGED <<now, raw, daily, summed, jobs, pins, clocks, lastDate, start, faults>>

\* The cleanup's run: three statements, the last of which only logs.
startCleanup ==
  /\ Takes("cleanup", "daily") /\ DailyDue("cleanup") /\ Stands("cleanup", "pins")
  /\ SetLastDate("cleanup")
  /\ UNCHANGED <<now, tables, jobs, pins, clocks, start, faults>>

deleteSupportPins ==
  /\ GoesOn("cleanup", "pins") /\ Stands("cleanup", "jobs")
  /\ pins' = {p \in pins : p >= now}
  /\ UNCHANGED <<now, tables, jobs, clocks, lastDate, start, faults>>

pruneOldJobs ==
  /\ GoesOn("cleanup", "jobs") /\ Stands("cleanup", "idle")
  /\ jobs' = {j \in jobs : j + jobRetention >= now}
  /\ UNCHANGED <<now, tables, pins, clocks, lastDate, start, faults>>

\* A minute's tick comes too late, or for the second time in a day.
SkipTick(l) ==
  /\ Takes(l, "daily") /\ ~ DailyDue(l)
  /\ UNCHANGED <<now, tables, jobs, pins, clocks, at, lastDate, start, faults>>

\* A statement fails: it is logged, and the loop goes on with the next one.
StatementError(l) ==
  /\ Fault
  /\ \/ l \in Tables /\ Takes(l, "hourly") /\ Stands(l, "pruneRaw") /\ UNCHANGED lastDate
     \/ l \in Tables /\ Takes(l, "daily") /\ DailyDue(l) /\ Stands(l, "pruneHourly")
                     /\ SetLastDate(l)
     \/ at[l] # "idle" /\ GoesOn(l, at[l])
                       /\ Stands(l, IF at[l] = "pins" THEN "jobs" ELSE "idle")
                       /\ UNCHANGED lastDate
  /\ UNCHANGED <<now, tables, jobs, pins, clocks, start>>
-----------------------------------------------------------------------------
(* Time, and the end of a process.                                         *)

AtRest == \A l \in Loops : pending[l] = {} /\ at[l] = "idle"

\* (A timer, which fires once, for a ticker.)
FiresOnce(n, period) == n - 1

Ticking(n, period) == IF n = 1 THEN period ELSE n - 1

\* Rows come in, jobs end, PINs expire, and the tickers fire into their channels.
TimePasses ==
  /\ now < Horizon
  /\ now' = now + 1
  /\ raw' = [l \in Tables |-> raw[l] \cup {now}]
  /\ jobs' = jobs \cup {now} /\ pins' = pins \cup {now}
  /\ toHour' = Ticking(toHour, Hour)
  /\ toDay' = Ticking(toDay, Day)
  /\ pending' = [l \in Loops |-> pending[l] \cup MinuteTicks(l, now + 1)
       \cup (IF l \in Tables /\ toHour = 1 THEN {"hourly"} ELSE {})
       \cup (IF l = "health" /\ toDay = 1 THEN {"daily"} ELSE {})]
  /\ UNCHANGED <<hourly, daily, summed, at, lastDate, start>>

\* The loops are done with their ticks before a unit is over ...
InTime == AtRest /\ TimePasses /\ UNCHANGED faults

\* ... unless a statement, or a cycle of probes, holds one up.
HeldUp == ~ AtRest /\ TimePasses /\ Fault

Restart ==
  /\ Fault
  /\ Started(now)
  /\ UNCHANGED <<now, tables, jobs, pins, start>>

LoopStep(l) ==
  \/ aggregateHourly(l) \/ pruneRaw(l) \/ aggregateDaily(l) \/ pruneHourly(l) \/ SkipTick(l)

Next ==
  \/ \E l \in Loops : LoopStep(l) \/ StatementError(l)
  \/ startCleanup \/ deleteSupportPins \/ pruneOldJobs
  \/ InTime \/ HeldUp \/ Restart

Spec == Init /\ [][Next]_vars
-----------------------------------------------------------------------------
(* Properties.                                                             *)

Statements == {"idle", "pruneRaw", "pruneHourly", "pins", "jobs"}

TypeOK ==
  /\ now \in start..Horizon /\ start \in 0..(Day - 1)
  /\ {raw, summed} \subseteq [Tables -> SUBSET (0..(now - 1))]
  /\ hourly \in [Tables -> [0..HourOf(Horizon) -> SUBSET (0..(now - 1))]]
  /\ daily \in [Tables -> [0..DayOf(Horizon) -> SUBSET (0..(now - 1))]]
  /\ \A l \in Tables :
       /\ \A h \in DOMAIN hourly[l] : hourly[l][h] \subseteq RowsOfHour(h)
       /\ \A d \in DOMAIN daily[l] : \A r \in daily[l][d] : DayOf(r) = d
  /\ jobs \subseteq start..(now - 1) /\ pins \subseteq start..(now - 1)
  /\ toHour \in 1..Hour /\ toDay \in 1..Day
  /\ pending \in [Loops -> SUBSET {"hourly", "daily"}]
  /\ at \in [Loops -> Statements]
  /\ lastDate \in [{"metrics", "cleanup"} -> 0..(DayOf(Horizon) + 1)]
  /\ faults \in 0..MaxFaults

\* Rows whose hour was over for an hour or more before this unit.
OverdueRows == {r \in start..now : (HourOf(r) + 2) * Hour < now}

\* The window of two hours has no row to spare: a tick that is lost, late or fails
\* leaves rows that no summary ever counts, but never more than an hour's per fault.
RowsLost ==
  \A l \in Tables : Cardinality(OverdueRows \ summed[l]) <= Hour * faults

\* A summary is written twice, the second time over what is left of its hour in the window.
\* With all going well that takes nothing of the hour's second part, from the ticker's
\* offset on; of the first part nothing is said.
SecondPartIsKept ==
  faults = 0 =>
    \A l \in Tables, r \in OverdueRows :
      ( /\ r % Hour >= Offset
        /\ (HourOf(r) + 2) * Hour + Offset < now
        /\ HourOf(r) * Hour + hourlyRetention >= now )
      => r \in hourly[l][HourOf(r)]

\* The days that were over for a day before this unit.
OverdueDays == {d \in 0..DayOf(now) : d * Day >= start /\ (d + 2) * Day < now}

\* A day without a daily summary is never made good, but a fault costs one at most:
\* a restart, a loop that is held up over midnight, a failed statement.
DaysLost ==
  \A l \in Tables :
    Cardinality({d \in OverdueDays : daily[l][d] = {}}) <= faults

\* The roll-ups of an hour and of a day are not ordered.  A daily summary may have missed
\* its last hour, unless health's process was started after the first hour of a day, and
\* a fault costs it one hour more at most: so much of what the hourly summaries show.
DailyLacksOneHour ==
  \A l \in Tables, d \in OverdueDays :
    daily[l][d] # {} =>
      Cardinality({h \in DOMAIN hourly[l] : /\ DayOf(h * Hour) = d
                                            /\ ~ (hourly[l][h] \subseteq daily[l][d])})
        <= faults + (IF l = "health" /\ HourOf(start) # 0 THEN 0 ELSE 1)

\* The tables stay small: what is due for deletion goes within an hour (a day), and
\* every fault puts that off by no more than another one.
DeletedInTime ==
  /\ \A l \in Tables :
       /\ \A r \in raw[l] : now <= r + rawRetention + (1 + faults) * Hour
       /\ \A h \in DOMAIN hourly[l] :
            hourly[l][h] # {} => now <= h * Hour + hourlyRetention + (1 + faults) * Day
  /\ \A j \in jobs : now <= j + jobRetention + (1 + faults) * Day
  /\ \A p \in pins : now <= p + (1 + faults) * Day
=============================================================================
