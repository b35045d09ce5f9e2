----------------------------- MODULE UpkeepProofs -----------------------------
(***************************************************************************)
(* Theorems about what a process does by the clock, for every length of    *)
(* hour and day, all retentions, every start in a day and any number of    *)
(* faults.                                                                 *)
(***************************************************************************)
EXTENDS Upkeep, FiniteSetTheorems, TLAPS

(* Hours and days.                                                           *)

HourAt(h)    == h * Hour             \* when hour h begins
DayAt(d)     == d * Day              \* when day d begins
FirstHour(d) == d * HoursPerDay      \* the first hour of day d

LEMMA Lengths ==
  /\ Hour \in Nat \ {0} /\ HoursPerDay \in Nat /\ HoursPerDay >= 3
  /\ Day \in Nat \ {0} /\ Hour + Hour + Hour <= Day
  /\ rawRetention \in Nat /\ hourlyRetention \in Nat /\ jobRetention \in Nat
  /\ Horizon \in Nat /\ MaxFaults \in Nat
  /\ cleanupHour \in Nat /\ cleanupHour < HoursPerDay
  /\ Day <= rawRetention /\ Day + Day <= hourlyRetention /\ Day <= Horizon
<1>1. Hour \in Nat \ {0} /\ HoursPerDay \in Nat /\ HoursPerDay >= 3
  BY UpkeepAssumption
<1>2. Hour * HoursPerDay \in Nat /\ Hour * HoursPerDay >= Hour * 3
  BY <1>1
<1>3. Day \in Nat \ {0} /\ Hour + Hour + Hour <= Day
  BY <1>1, <1>2 DEF Day
<1>4. Day + Day <= hourlyRetention
  BY <1>3, UpkeepAssumption
<1> QED BY <1>1, <1>3, <1>4, UpkeepAssumption

(* Products of a length grow with their factor.                              *)
LEMMA Grows ==
  ASSUME NEW n \in Nat \ {0}, NEW a \in Int, NEW b \in Int
  PROVE  /\ a * n \in Int /\ (a + 1) * n = a * n + n /\ (a - 1) * n = a * n - n
         /\ a <= b => a * n <= b * n
         /\ a < b => a * n + n <= b * n
         /\ a * n < b * n + n => a <= b
<1>1. a * n \in Int /\ b * n \in Int /\ (a + 1) * n = a * n + n /\ (a - 1) * n = a * n - n
  OBVIOUS
<1>2. ASSUME NEW x \in Int, NEW y \in Int, x <= y PROVE x * n <= y * n
  BY <1>2
<1>3. a < b => (a + 1) * n <= b * n
  BY <1>2
<1>4. a * n < b * n + n => a <= b
  <2> SUFFICES ASSUME b + 1 <= a PROVE (b + 1) * n <= a * n
    BY <1>1
  <2> QED BY <1>2
<1> QED BY <1>1, <1>2, <1>3, <1>4

LEMMA HourOrder ==
  ASSUME NEW a \in Int, NEW b \in Int
  PROVE  /\ HourAt(a) \in Int /\ HourAt(b) \in Int
         /\ a <= b => HourAt(a) <= HourAt(b)
         /\ a < b => HourAt(a) + Hour <= HourAt(b)
         /\ HourAt(a) < HourAt(b) + Hour => a <= b
<1>1. Hour \in Nat \ {0}
  BY Lengths
<1> QED BY <1>1, Grows DEF HourAt

LEMMA HourNext ==
  ASSUME NEW a \in Int
  PROVE  /\ HourAt(a) \in Int /\ HourAt(a + 1) = HourAt(a) + Hour
         /\ HourAt(a + 2) = HourAt(a) + Hour + Hour
         /\ HourAt(a + 3) = HourAt(a) + Hour + Hour + Hour
<1>1. Hour \in Nat \ {0}
  BY Lengths
<1>2. ASSUME NEW c \in Int PROVE HourAt(c) \in Int /\ HourAt(c + 1) = HourAt(c) + Hour
  BY <1>1, Grows DEF HourAt
<1>3. HourAt((a + 1) + 1) = HourAt(a + 1) + Hour /\ HourAt((a + 2) + 1) = HourAt(a + 2) + Hour
  BY <1>2
<1>4. (a + 1) + 1 = a + 2 /\ (a + 2) + 1 = a + 3
  OBVIOUS
<1> QED BY <1>2, <1>3, <1>4

LEMMA DayOrder ==
  ASSUME NEW a \in Int, NEW b \in Int
  PROVE  /\ DayAt(a) \in Int /\ DayAt(b) \in Int
         /\ a <= b => DayAt(a) <= DayAt(b)
         /\ a < b => DayAt(a) + Day <= DayAt(b)
         /\ DayAt(a) < DayAt(b) + Day => a <= b
<1>1. Day \in Nat \ {0}
  BY Lengths
<1> QED BY <1>1, Grows DEF DayAt

LEMMA DayNext ==
  ASSUME NEW a \in Int
  PROVE  /\ DayAt(a) \in Int /\ DayAt(a + 1) = DayAt(a) + Day
         /\ DayAt(a + 2) = DayAt(a) + Day + Day
<1>1. Day \in Nat \ {0}
  BY Lengths
<1>2. ASSUME NEW c \in Int PROVE DayAt(c) \in Int /\ DayAt(c + 1) = DayAt(c) + Day
  BY <1>1, Grows DEF DayAt
<1>3. DayAt((a + 1) + 1) = DayAt(a + 1) + Day /\ (a + 1) + 1 = a + 2
  BY <1>2
<1> QED BY <1>2, <1>3

LEMMA FirstNext ==
  ASSUME NEW a \in Int
  PROVE  FirstHour(a) \in Int /\ FirstHour(a + 1) = FirstHour(a) + HoursPerDay
<1>1. HoursPerDay \in Nat \ {0}
  BY Lengths
<1> QED BY <1>1, Grows DEF FirstHour

LEMMA FirstOrder ==
  ASSUME NEW a \in Int, NEW b \in Int
  PROVE  /\ FirstHour(a) \in Int /\ FirstHour(b) \in Int
         /\ a <= b => FirstHour(a) <= FirstHour(b)
         /\ a < b => FirstHour(a) + HoursPerDay <= FirstHour(b)
         /\ FirstHour(a) < FirstHour(b) + HoursPerDay => a <= b
<1>1. HoursPerDay \in Nat \ {0}
  BY Lengths
<1> QED BY <1>1, Grows DEF FirstHour

LEMMA Zeros == HourAt(0) = 0 /\ DayAt(0) = 0 /\ FirstHour(0) = 0
<1>1. Hour \in Int /\ Day \in Int /\ HoursPerDay \in Int
  BY Lengths
<1> QED BY <1>1 DEF HourAt, DayAt, FirstHour

LEMMA DayHours ==
  ASSUME NEW d \in Int
  PROVE  DayAt(d) = HourAt(FirstHour(d))
<1>1. Hour \in Int /\ HoursPerDay \in Int
  BY Lengths
<1>2. d * (Hour * HoursPerDay) = (d * HoursPerDay) * Hour
  BY <1>1
<1> QED BY <1>2 DEF DayAt, HourAt, FirstHour, Day

LEMMA Quotient ==
  ASSUME NEW n \in Nat \ {0}, NEW t \in Nat
  PROVE  /\ t \div n \in Nat /\ (t \div n) * n <= t /\ t < (t \div n) * n + n
         /\ t % n = t - (t \div n) * n
         /\ \A q \in Int : q * n <= t /\ t < q * n + n => q = t \div n
<1> DEFINE p == t \div n
<1>1. p \in Nat /\ p * n <= t /\ t < p * n + n /\ p * n \in Nat /\ t % n = t - p * n
  BY SMT
<1> HIDE DEF p
<1>2. ASSUME NEW q \in Int, q * n <= t, t < q * n + n PROVE q = p
  <2>1. q * n \in Int
    OBVIOUS
  <2>2. q * n < p * n + n /\ p * n < q * n + n
    BY <1>1, <1>2, <2>1
  <2>3. q <= p /\ p <= q
    BY <1>1, <2>2, Grows
  <2> QED BY <1>1, <2>3
<1> QED BY <1>1, <1>2 DEF p

LEMMA HourIn ==
  ASSUME NEW t \in Nat
  PROVE  /\ HourOf(t) \in Nat /\ HourAt(HourOf(t)) \in Int
         /\ HourAt(HourOf(t)) <= t /\ t < HourAt(HourOf(t)) + Hour
         /\ t % Hour = t - HourAt(HourOf(t))
         /\ \A h \in Int : HourAt(h) <= t /\ t < HourAt(h) + Hour => HourOf(t) = h
<1>1. Hour \in Nat \ {0}
  BY Lengths
<1>2. HourOf(t) \in Int
  BY <1>1, Quotient DEF HourOf
<1>3. HourAt(HourOf(t)) \in Int
  BY <1>2, HourOrder
<1> QED BY <1>1, <1>3, Quotient DEF HourOf, HourAt

LEMMA DayIn ==
  ASSUME NEW t \in Nat
  PROVE  /\ DayOf(t) \in Nat /\ DayAt(DayOf(t)) \in Int
         /\ DayAt(DayOf(t)) <= t /\ t < DayAt(DayOf(t)) + Day
         /\ Midnight(t) <=> t = DayAt(DayOf(t))
         /\ \A d \in Int : DayAt(d) <= t /\ t < DayAt(d) + Day => DayOf(t) = d
<1>1. Day \in Nat \ {0}
  BY Lengths
<1>2. DayOf(t) \in Int
  BY <1>1, Quotient DEF DayOf
<1>3. DayAt(DayOf(t)) \in Int
  BY <1>2, DayOrder
<1>4. t % Day = t - DayAt(DayOf(t))
  BY <1>1, Quotient DEF DayOf, DayAt
<1>5. Midnight(t) <=> t = DayAt(DayOf(t))
  BY <1>3, <1>4 DEF Midnight
<1> QED BY <1>1, <1>3, <1>5, Quotient DEF DayOf, DayAt

(* Later times are in later hours and days, or in the same.                  *)
LEMMA Later ==
  ASSUME NEW s \in Nat, NEW t \in Nat, s <= t
  PROVE  HourOf(s) <= HourOf(t) /\ DayOf(s) <= DayOf(t)
<1>1. HourAt(HourOf(s)) < HourAt(HourOf(t)) + Hour
  BY HourIn, Lengths
<1>2. DayAt(DayOf(s)) < DayAt(DayOf(t)) + Day
  BY DayIn, Lengths
<1>3. HourOf(s) \in Int /\ HourOf(t) \in Int /\ DayOf(s) \in Int /\ DayOf(t) \in Int
  BY HourIn, DayIn
<1>4. HourOf(s) <= HourOf(t)
  BY <1>1, <1>3, HourOrder
<1> QED BY <1>2, <1>3, <1>4, DayOrder

(* The hours of a day.                                                       *)
LEMMA DayOfHour ==
  ASSUME NEW h \in Nat
  PROVE  /\ HourAt(h) \in Nat /\ HourOf(HourAt(h)) = h /\ DayOf(HourAt(h)) \in Nat
         /\ \A d \in Int : DayOf(HourAt(h)) = d <=>
                           FirstHour(d) <= h /\ h < FirstHour(d) + HoursPerDay
<1>1. HourAt(h) \in Nat /\ Hour \in Nat \ {0} /\ HoursPerDay \in Nat
  BY HourOrder, Zeros, Lengths
<1>2. HourOf(HourAt(h)) = h
  <2>1. HourAt(h) <= HourAt(h) /\ HourAt(h) < HourAt(h) + Hour
    BY <1>1
  <2> QED BY <1>1, <2>1, HourIn
<1>3. ASSUME NEW d \in Int
      PROVE  DayOf(HourAt(h)) = d <=> FirstHour(d) <= h /\ h < FirstHour(d) + HoursPerDay
  <2>1. /\ FirstHour(d) \in Int /\ FirstHour(d + 1) = FirstHour(d) + HoursPerDay
        /\ DayAt(d) = HourAt(FirstHour(d)) /\ DayAt(d + 1) = HourAt(FirstHour(d + 1))
        /\ DayAt(d) \in Int /\ DayAt(d + 1) = DayAt(d) + Day
    BY FirstNext, DayHours, DayNext
  <2>2. DayOf(HourAt(h)) = d <=> DayAt(d) <= HourAt(h) /\ HourAt(h) < DayAt(d) + Day
    BY <1>1, <2>1, DayIn
  <2>3. ASSUME NEW a \in Int PROVE HourAt(a) <= HourAt(h) <=> a <= h
    <3>1. HourAt(a) \in Int /\ (h < a => HourAt(h) + Hour <= HourAt(a))
      BY HourOrder
    <3>2. a <= h => HourAt(a) <= HourAt(h)
      BY HourOrder
    <3> QED BY <1>1, <3>1, <3>2
  <2>4. DayAt(d) <= HourAt(h) <=> FirstHour(d) <= h
    BY <2>1, <2>3
  <2>5. DayAt(d + 1) <= HourAt(h) <=> FirstHour(d + 1) <= h
    <3>1. FirstHour(d + 1) \in Int
      BY FirstOrder
    <3> QED BY <2>1, <2>3, <3>1
  <2>6. DayAt(d) + Day <= HourAt(h) <=> FirstHour(d) + HoursPerDay <= h
    BY <2>1, <2>5
  <2>7. Day \in Int
    BY Lengths
  <2> QED BY <1>1, <2>1, <2>2, <2>4, <2>6, <2>7
<1> QED BY <1>1, <1>2, <1>3, DayIn

LEMMA HourInDay ==
  ASSUME NEW t \in Nat
  PROVE  /\ DayOf(HourAt(HourOf(t))) = DayOf(t)
         /\ FirstHour(DayOf(t)) \in Int /\ FirstHour(DayOf(t)) <= HourOf(t)
         /\ HourOf(t) < FirstHour(DayOf(t)) + HoursPerDay
         /\ HourOf(t) % HoursPerDay = HourOf(t) - FirstHour(DayOf(t))
<1> DEFINE d == DayOf(t)
           h == HourOf(t)
<1>1. /\ d \in Nat /\ h \in Nat
      /\ FirstHour(d) \in Int /\ FirstHour(d + 1) = FirstHour(d) + HoursPerDay
      /\ DayAt(d) = HourAt(FirstHour(d)) /\ DayAt(d + 1) = HourAt(FirstHour(d + 1))
      /\ DayAt(d) \in Int /\ DayAt(d + 1) = DayAt(d) + Day
  BY DayIn, HourIn, FirstNext, DayHours, DayNext
<1>2. /\ HourAt(h) \in Int /\ HourAt(h) <= t /\ t < HourAt(h) + Hour
      /\ DayAt(d) <= t /\ t < DayAt(d) + Day
  BY DayIn, HourIn
<1> HIDE DEF d, h
<1>3. FirstHour(d) <= h
  <2>1. HourAt(FirstHour(d)) < HourAt(h) + Hour
    BY <1>1, <1>2, Lengths
  <2> QED BY <1>1, <2>1, HourOrder
<1>4. h < FirstHour(d + 1)
  <2>1. HourAt(h) < HourAt(FirstHour(d + 1))
    BY <1>1, <1>2, Lengths
  <2> QED BY <1>1, <2>1, HourOrder, Lengths
<1>5. DayOf(HourAt(h)) = d
  BY <1>1, <1>3, <1>4, DayOfHour
<1>6. h % HoursPerDay = h - FirstHour(d)
  <2>1. HoursPerDay \in Nat \ {0}
    BY Lengths
  <2>2. \A q \in Int : q * HoursPerDay <= h /\ h < q * HoursPerDay + HoursPerDay
                        => q = h \div HoursPerDay
    BY <1>1, <2>1, Quotient
  <2>3. d * HoursPerDay <= h /\ h < d * HoursPerDay + HoursPerDay
    BY <1>1, <1>3, <1>4 DEF FirstHour
  <2>4. d = h \div HoursPerDay
    BY <1>1, <2>2, <2>3
  <2>5. h % HoursPerDay = h - (h \div HoursPerDay) * HoursPerDay
    BY <1>1, <2>1, Quotient
  <2> QED BY <2>4, <2>5 DEF FirstHour
<1> QED BY <1>1, <1>3, <1>4, <1>5, <1>6 DEF d, h

LEMMA WindowIs ==
  ASSUME NEW t \in Nat, NEW r
  PROVE  r \in Window(t) <=> r \in 0..t /\ r + Hour + Hour >= t /\ HourOf(r) < HourOf(t)
<1>1. ASSUME r \in 0..t PROVE r + 2 * Hour = r + Hour + Hour
  BY <1>1, Lengths
<1> QED BY <1>1 DEF Window

LEMMA CleanupIn ==
  ASSUME NEW t \in Nat
  PROVE  /\ HourAt(cleanupHour) \in Nat /\ HourAt(cleanupHour) + Hour <= Day
         /\ CleanupTime(t) <=> /\ DayAt(DayOf(t)) + HourAt(cleanupHour) <= t
                               /\ t < DayAt(DayOf(t)) + HourAt(cleanupHour) + Hour
<1> DEFINE d == DayOf(t)
           h == FirstHour(d) + cleanupHour
<1>1. /\ d \in Nat /\ FirstHour(d) \in Int /\ h \in Int /\ HourOf(t) \in Int
      /\ FirstHour(0) = 0 /\ FirstHour(1) = HoursPerDay /\ cleanupHour \in Int
  <2>1. FirstHour(0) = 0 /\ FirstHour(0 + 1) = HoursPerDay
    BY FirstNext, Lengths DEF FirstHour
  <2>2. d \in Nat /\ HourOf(t) \in Int /\ cleanupHour \in Int
    BY DayIn, HourIn, Lengths
  <2>3. FirstHour(d) \in Int
    BY <2>2, FirstOrder
  <2> QED BY <2>1, <2>2, <2>3
<1>2. HourAt(cleanupHour) \in Nat /\ HourAt(cleanupHour) + Hour <= Day
  <2>1. DayAt(1) = HourAt(HoursPerDay) /\ DayAt(1) = Day
    BY <1>1, DayHours, Lengths DEF DayAt
  <2>2. HourAt(0) <= HourAt(cleanupHour) /\ HourAt(cleanupHour) + Hour <= HourAt(HoursPerDay)
    BY HourOrder, Lengths
  <2> QED BY <2>1, <2>2, HourOrder, Zeros, Lengths
<1>3. HourAt(h) = DayAt(d) + HourAt(cleanupHour)
  <2>1. Hour \in Int
    BY Lengths
  <2>2. HourAt(h) = HourAt(FirstHour(d)) + HourAt(cleanupHour)
    BY <1>1, <2>1 DEF HourAt
  <2> QED BY <1>1, <2>2, DayHours
<1>4. CleanupTime(t) <=> HourOf(t) = h
  BY <1>1, HourInDay, Lengths DEF CleanupTime
<1>5. HourOf(t) = h <=> HourAt(h) <= t /\ t < HourAt(h) + Hour
  BY <1>1, HourIn
<1> QED BY <1>2, <1>3, <1>4, <1>5
-----------------------------------------------------------------------------
(* When the next hourly tick of a table's loop is taken, if nothing fails.   *)
NextTick(l) == IF "hourly" \in pending[l] THEN now ELSE now + toHour

(* When its next daily run is begun, if nothing fails.                       *)
DueNow(l) == "daily" \in pending[l] /\ DailyDue(l)

NextMidnight == DayAt(DayOf(now) + 1)

NextDaily(l) ==
  IF DueNow(l) THEN now ELSE IF l = "health" THEN now + toDay ELSE NextMidnight

(* The same of the cleanup.                                                  *)
CleanupStart == DayAt(DayOf(now)) + HourAt(cleanupHour)

NextCleanup ==
  IF DueNow("cleanup") THEN now
  ELSE IF now < CleanupStart THEN CleanupStart ELSE CleanupStart + Day
-----------------------------------------------------------------------------
(* The inductive invariant.                                                  *)

(* No daily run was begun on a later day, and none before its hour.          *)
ClockInv ==
  /\ \A l \in {"metrics", "cleanup"} : lastDate[l] <= DayOf(now) + 1
  /\ lastDate["cleanup"] = DayOf(now) + 1 => now >= CleanupStart

(* Without a fault every tick is taken when it comes, at the offset in the hour
   (in the day) of the process's start.                                      *)
OnTimeInv ==
  faults = 0 =>
    /\ \A l \in Tables : "hourly" \in pending[l] => toHour = Hour
    /\ "daily" \in pending["health"] => toDay = Day
    /\ \A l \in Tables : NextTick(l) = HourAt(HourOf(NextTick(l))) + Offset
    /\ NextDaily("health") = DayAt(DayOf(NextDaily("health"))) + start

(* Raw rows are there for their time.                                        *)
RawInv ==
  \A l \in Tables : \A r \in 0..(now - 1) : r + rawRetention >= now => r \in raw[l]

(* Rows that no summary has counted, and whose hour the window will have left
   behind, in part at least, at the next tick: a fault puts that tick off by an
   hour at most.                                                             *)
Missing(l) == {r \in start..now : HourAt(HourOf(r) + 2) < NextTick(l)} \ summed[l]

RowsInv == \A l \in Tables : Cardinality(Missing(l)) <= HourAt(faults)

(* Without a fault an hour is written in full at the first tick after it, and
   what comes after the offset once more at the second.                      *)
KeptInv ==
  faults = 0 =>
    \A l \in Tables : \A r \in start..now :
      /\ ( /\ HourAt(HourOf(r)) + hourlyRetention >= now
           /\ HourOf(r) + 1 < HourOf(NextTick(l)) /\ r % Hour >= Offset )
         => r \in hourly[l][HourOf(r)]
      /\ HourOf(r) + 2 < HourOf(NextTick(l)) /\ r \in hourly[l][HourOf(r)]
         => r % Hour >= Offset

(* Without a fault a day is summed up at the first run after it.             *)
DailyInv ==
  faults = 0 =>
    \A l \in Tables : \A r \in start..now :
      ( /\ r % Hour >= Offset
        /\ DayOf(r) + 1 < DayOf(NextDaily(l))
        /\ \/ HourOf(r) % HoursPerDay # HoursPerDay - 1
           \/ l = "health" /\ HourOf(start) # 0 )
      => r \in daily[l][DayOf(r)]

(* Some hour of the day has a summary.                                       *)
Filled(l, d) == \E h \in DOMAIN hourly[l] : DayOf(HourAt(h)) = d /\ hourly[l][h] # {}

(* A day without a summary is lost when no daily run will look at it again, or
   when the run that does may come before any of its hours is summed up: the next
   tick is not before the third hour of the day to be run next, or the second of
   a later one.                                                              *)
Lost(l) ==
  {d \in 0..DayOf(Horizon) :
     /\ start <= DayAt(d)
     /\ daily[l][d] = {}
     /\ \/ d + 1 < DayOf(NextDaily(l))
        \/ /\ ~ Filled(l, d)
           /\ HourAt(FirstHour(d) + 2) <= NextTick(l)
           /\ d + 1 = DayOf(NextDaily(l)) => HourAt(FirstHour(d) + 3) <= NextTick(l) }

LostInv == \A l \in Tables : Cardinality(Lost(l)) <= faults

(* When the statement that deletes comes again.                              *)
RawDue(l)    == IF at[l] = "pruneRaw" THEN now ELSE NextTick(l)
HourlyDue(l) == IF at[l] = "pruneHourly" THEN now ELSE NextDaily(l)
PinsDue      == IF at["cleanup"] = "pins" THEN now ELSE NextCleanup
JobsDue      == IF at["cleanup"] \in {"pins", "jobs"} THEN now ELSE NextCleanup

(* It comes within an hour (a day) of what is due for it, and a fault puts it off
   by no more than another one.                                              *)
DeletedInv ==
  /\ \A l \in Tables :
       /\ \A r \in raw[l] : RawDue(l) <= r + rawRetention + HourAt(1 + faults)
       /\ \A h \in DOMAIN hourly[l] :
            hourly[l][h] # {} =>
              HourlyDue(l) <= HourAt(h) + hourlyRetention + DayAt(1 + faults)
  /\ \A j \in jobs : JobsDue <= j + jobRetention + DayAt(1 + faults)
  /\ \A p \in pins : PinsDue <= p + DayAt(1 + faults)
-----------------------------------------------------------------------------
(* Types, in four parts.                                                     *)
TimeType ==
  /\ start \in Nat /\ start < Day /\ now \in Nat /\ start <= now /\ now <= Horizon
  /\ toHour \in 1..Hour /\ toDay \in 1..Day
  /\ faults \in Nat /\ faults <= MaxFaults

LoopType ==
  /\ pending \in [Loops -> SUBSET {"hourly", "daily"}]
  /\ at \in [Loops -> Statements]
  /\ lastDate \in [{"metrics", "cleanup"} -> 0..(DayOf(Horizon) + 1)]

TableType ==
  /\ raw \in [Tables -> SUBSET (0..(now - 1))] /\ summed \in [Tables -> SUBSET (0..(now - 1))]
  /\ hourly \in [Tables -> [0..HourOf(Horizon) -> SUBSET (0..(now - 1))]]
  /\ daily \in [Tables -> [0..DayOf(Horizon) -> SUBSET (0..(now - 1))]]
  /\ \A l \in Tables : \A h \in 0..HourOf(Horizon) : hourly[l][h] \subseteq RowsOfHour(h)
  /\ \A l \in Tables : \A d \in 0..DayOf(Horizon) : \A r \in daily[l][d] : DayOf(r) = d

CleanupType == jobs \subseteq start..(now - 1) /\ pins \subseteq start..(now - 1)

LEMMA TypeParts == TypeOK <=> TimeType /\ LoopType /\ TableType /\ CleanupType
<1>1. TypeOK => TimeType /\ LoopType /\ TableType /\ CleanupType
  <2> SUFFICES ASSUME TypeOK PROVE TimeType /\ LoopType /\ TableType /\ CleanupType
    OBVIOUS
  <2>1. TimeType /\ LoopType /\ CleanupType
    BY Lengths DEF TypeOK, TimeType, LoopType, CleanupType
  <2>2. TableType
    <3>1. /\ raw \in [Tables -> SUBSET (0..(now - 1))] /\ summed \in [Tables -> SUBSET (0..(now - 1))]
          /\ hourly \in [Tables -> [0..HourOf(Horizon) -> SUBSET (0..(now - 1))]]
          /\ daily \in [Tables -> [0..DayOf(Horizon) -> SUBSET (0..(now - 1))]]
      BY DEF TypeOK
    <3>2. \A l \in Tables : DOMAIN hourly[l] = 0..HourOf(Horizon) /\ DOMAIN daily[l] = 0..DayOf(Horizon)
      BY <3>1
    <3> QED BY <3>1, <3>2 DEF TypeOK, TableType
  <2> QED BY <2>1, <2>2
<1>2. TimeType /\ LoopType /\ TableType /\ CleanupType => TypeOK
  <2> SUFFICES ASSUME TimeType, LoopType, TableType, CleanupType PROVE TypeOK
    OBVIOUS
  <2>1. \A l \in Tables : DOMAIN hourly[l] = 0..HourOf(Horizon) /\ DOMAIN daily[l] = 0..DayOf(Horizon)
    BY DEF TableType
  <2>2. now \in start..Horizon /\ start \in 0..(Day - 1) /\ toHour \in 1..Hour /\ toDay \in 1..Day
        /\ faults \in 0..MaxFaults
    BY Lengths DEF TimeType
  <2>3. /\ {raw, summed} \subseteq [Tables -> SUBSET (0..(now - 1))]
        /\ hourly \in [Tables -> [0..HourOf(Horizon) -> SUBSET (0..(now - 1))]]
        /\ daily \in [Tables -> [0..DayOf(Horizon) -> SUBSET (0..(now - 1))]]
    BY DEF TableType
  <2>4. \A l \in Tables :
          /\ \A h \in DOMAIN hourly[l] : hourly[l][h] \subseteq RowsOfHour(h)
          /\ \A d \in DOMAIN daily[l] : \A r \in daily[l][d] : DayOf(r) = d
    BY <2>1 DEF TableType
  <2> QED BY <2>2, <2>3, <2>4 DEF TypeOK, LoopType, CleanupType
<1> QED BY <1>1, <1>2

LEMMA InitType == Init => TypeOK
<1> SUFFICES ASSUME Init PROVE TimeType /\ LoopType /\ TableType /\ CleanupType
  BY TypeParts
<1>1. TimeType
  BY Lengths DEF Init, TimeType
<1>2. LoopType
  BY Lengths, DayIn DEF Init, LoopType, MinuteTicks, Statements, Loops, Tables
<1>3. TableType
  BY Lengths DEF Init, TableType
<1>4. CleanupType
  BY DEF Init, CleanupType
<1> QED BY <1>1, <1>2, <1>3, <1>4

LEMMA NextTimeType == TypeOK /\ [Next]_vars => TimeType' /\ LoopType' /\ CleanupType'
<1> SUFFICES ASSUME TimeType, LoopType, CleanupType, [Next]_vars
             PROVE  TimeType' /\ LoopType' /\ CleanupType'
  BY TypeParts
<1> USE DEF TimeType, LoopType, CleanupType, clocks
<1>1. ASSUME UNCHANGED vars PROVE TimeType' /\ LoopType' /\ CleanupType'
  BY <1>1 DEF vars
<1>2. DayOf(now) \in Nat /\ DayOf(Horizon) \in Nat /\ DayOf(now) <= DayOf(Horizon)
  BY Later, DayIn, Lengths
<1>3. ASSUME NEW l \in Loops, LoopStep(l) PROVE TimeType' /\ LoopType' /\ CleanupType'
  <2>1. CASE aggregateHourly(l)
    BY <2>1 DEF aggregateHourly, Takes, Stands, Statements
  <2>2. CASE pruneRaw(l)
    BY <2>2 DEF pruneRaw, GoesOn, Stands, Statements
  <2>3. CASE aggregateDaily(l)
    BY <1>2, <2>3 DEF aggregateDaily, Takes, Stands, Statements, SetLastDate
  <2>4. CASE pruneHourly(l)
    BY <2>4 DEF pruneHourly, GoesOn, Stands, Statements
  <2>5. CASE SkipTick(l)
    BY <2>5 DEF SkipTick, Takes, tables
  <2> QED BY <1>3, <2>1, <2>2, <2>3, <2>4, <2>5 DEF LoopStep
<1>4. ASSUME NEW l \in Loops, StatementError(l) PROVE TimeType' /\ LoopType' /\ CleanupType'
  <2>1. TimeType' /\ CleanupType'
    BY <1>4, Lengths DEF StatementError, Fault
  <2>2. at' \in [Loops -> Statements]
    BY <1>4 DEF StatementError, Stands, Statements
  <2>3. pending' \in [Loops -> SUBSET {"hourly", "daily"}]
    BY <1>4 DEF StatementError, Takes, GoesOn
  <2>4. lastDate' \in [{"metrics", "cleanup"} -> 0..(DayOf(Horizon) + 1)]
    BY <1>2, <1>4 DEF StatementError, SetLastDate
  <2> QED BY <2>1, <2>2, <2>3, <2>4
<1>5. ASSUME startCleanup \/ deleteSupportPins \/ pruneOldJobs
      PROVE  TimeType' /\ LoopType' /\ CleanupType'
  <2>1. CASE startCleanup
    BY <1>2, <2>1 DEF startCleanup, Takes, Stands, Statements, SetLastDate, Loops
  <2>2. CASE deleteSupportPins
    BY <2>2 DEF deleteSupportPins, GoesOn, Stands, Statements
  <2>3. CASE pruneOldJobs
    BY <2>3 DEF pruneOldJobs, GoesOn, Stands, Statements
  <2> QED BY <1>5, <2>1, <2>2, <2>3
<1>6. ASSUME InTime \/ HeldUp PROVE TimeType' /\ LoopType' /\ CleanupType'
  <2>1. TimePasses /\ faults' \in Nat /\ faults' <= MaxFaults
    BY <1>6, Lengths DEF InTime, HeldUp, Fault
  <2>2. TimeType'
    BY <2>1, Lengths DEF TimePasses, Ticking
  <2>3. LoopType'
    BY <2>1 DEF TimePasses, MinuteTicks
  <2>4. CleanupType'
    BY <2>1 DEF TimePasses
  <2> QED BY <2>2, <2>3, <2>4
<1>7. ASSUME Restart PROVE TimeType' /\ LoopType' /\ CleanupType'
  <2>1. TimeType' /\ CleanupType'
    BY <1>7, Lengths DEF Restart, Started, Fault
  <2>2. LoopType'
    BY <1>7, DayIn, Lengths DEF Restart, Started, MinuteTicks, Statements
  <2> QED BY <2>1, <2>2
<1> QED BY <1>1, <1>3, <1>4, <1>5, <1>6, <1>7 DEF Next

LEMMA NextTableType == TypeOK /\ [Next]_vars => TableType'
<1> SUFFICES ASSUME TimeType, LoopType, TableType, [Next]_vars PROVE TableType'
  BY TypeParts
<1> USE DEF TableType
<1>1. ASSUME UNCHANGED <<now, tables>> PROVE TableType'
  BY <1>1 DEF tables
<1>2. HourOf(now) \in Nat /\ HourOf(Horizon) \in Nat /\ HourOf(now) <= HourOf(Horizon)
  BY Later, HourIn, Lengths DEF TimeType
<1>3. ASSUME NEW l \in Loops, aggregateHourly(l) PROVE TableType'
  <2> DEFINE rows == raw[l] \cap Window(now)
             new  == [h \in DOMAIN hourly[l] |->
                        IF rows \cap RowsOfHour(h) = {} THEN hourly[l][h]
                                                        ELSE rows \cap RowsOfHour(h)]
  <2>1. /\ l \in Tables /\ UNCHANGED <<now, raw, daily>>
        /\ hourly' = [hourly EXCEPT ![l] = new]
        /\ summed' = [summed EXCEPT ![l] = @ \cup rows]
    BY <1>3 DEF aggregateHourly
  <2>2. /\ rows \subseteq 0..(now - 1) /\ DOMAIN hourly[l] = 0..HourOf(Horizon)
        /\ hourly[l] \in [0..HourOf(Horizon) -> SUBSET (0..(now - 1))]
    BY <2>1
  <2> HIDE DEF rows
  <2>3. /\ new \in [0..HourOf(Horizon) -> SUBSET (0..(now - 1))]
        /\ \A h \in 0..HourOf(Horizon) : new[h] \subseteq RowsOfHour(h)
    BY <2>1, <2>2
  <2> HIDE DEF new
  <2>4. summed' \in [Tables -> SUBSET (0..(now - 1))]
    BY <2>1, <2>2
  <2>5. /\ hourly' \in [Tables -> [0..HourOf(Horizon) -> SUBSET (0..(now - 1))]]
        /\ \A k \in Tables : \A h \in 0..HourOf(Horizon) : hourly'[k][h] \subseteq RowsOfHour(h)
    BY <2>1, <2>3
  <2> QED BY <2>1, <2>4, <2>5
<1>4. ASSUME NEW l \in Loops, pruneRaw(l) PROVE TableType'
  <2>1. /\ UNCHANGED <<now, hourly, daily, summed>>
        /\ raw' = [raw EXCEPT ![l] = {r \in @ : r + rawRetention >= now}]
    BY <1>4 DEF pruneRaw
  <2>2. raw' \in [Tables -> SUBSET (0..(now - 1))]
    BY <2>1
  <2> QED BY <2>1, <2>2
<1>5. ASSUME NEW l \in Loops, aggregateDaily(l) PROVE TableType'
  <2> DEFINE Hrs(d) == {h \in HoursOfDayBefore(now) : DayOf(h * Hour) = d}
             Rws(d) == UNION {hourly[l][h] : h \in Hrs(d)}
             new    == [d \in DOMAIN daily[l] |-> IF Rws(d) = {} THEN daily[l][d] ELSE Rws(d)]
  <2>1. l \in Tables /\ UNCHANGED <<now, raw, hourly, summed>> /\ daily' = [daily EXCEPT ![l] = new]
    BY <1>5 DEF aggregateDaily
  <2>2. /\ hourly[l] \in [0..HourOf(Horizon) -> SUBSET (0..(now - 1))]
        /\ daily[l] \in [0..DayOf(Horizon) -> SUBSET (0..(now - 1))]
    BY <2>1
  <2>3. ASSUME NEW d PROVE Rws(d) \subseteq 0..(now - 1) /\ \A r \in Rws(d) : DayOf(r) = d
    <3> SUFFICES ASSUME NEW r \in Rws(d) PROVE r \in 0..(now - 1) /\ DayOf(r) = d
      BY Zenon
    <3>0. PICK h \in Hrs(d) : r \in hourly[l][h]
      BY Zenon
    <3>1. h \in 0..HourOf(Horizon) /\ DayOf(HourAt(h)) = d
      BY <1>2, <3>0 DEF HoursOfDayBefore, HourAt
    <3>2. r \in 0..(now - 1) /\ HourOf(r) = h
      BY <2>1, <2>2, <3>0, <3>1 DEF RowsOfHour
    <3>3. r \in Nat
      BY <3>2 DEF TimeType
    <3> QED BY <3>1, <3>2, <3>3, HourInDay
  <2> HIDE DEF Rws
  <2>4. /\ new \in [0..DayOf(Horizon) -> SUBSET (0..(now - 1))]
        /\ \A d \in 0..DayOf(Horizon) : \A r \in new[d] : DayOf(r) = d
    BY <2>1, <2>2, <2>3
  <2> HIDE DEF new
  <2>5. /\ daily' \in [Tables -> [0..DayOf(Horizon) -> SUBSET (0..(now - 1))]]
        /\ \A k \in Tables : \A d \in 0..DayOf(Horizon) : \A r \in daily'[k][d] : DayOf(r) = d
    BY <2>1, <2>4
  <2> QED BY <2>1, <2>5
<1>6. ASSUME NEW l \in Loops, pruneHourly(l) PROVE TableType'
  <2> DEFINE new == [h \in DOMAIN hourly[l] |-> IF h * Hour + hourlyRetention < now
                                                THEN {} ELSE hourly[l][h]]
  <2>1. UNCHANGED <<now, raw, daily, summed>> /\ hourly' = [hourly EXCEPT ![l] = new]
    BY <1>6 DEF pruneHourly
  <2>2. CASE l \in Tables
    <3>1. hourly[l] \in [0..HourOf(Horizon) -> SUBSET (0..(now - 1))]
      BY <2>2
    <3>2. /\ new \in [0..HourOf(Horizon) -> SUBSET (0..(now - 1))]
          /\ \A h \in 0..HourOf(Horizon) : new[h] \subseteq hourly[l][h]
      BY <3>1
    <3> HIDE DEF new
    <3>3. hourly' \in [Tables -> [0..HourOf(Horizon) -> SUBSET (0..(now - 1))]]
      BY <2>1, <2>2, <3>2
    <3>4. \A k \in Tables : \A h \in 0..HourOf(Horizon) : hourly'[k][h] \subseteq RowsOfHour(h)
      BY <2>1, <2>2, <3>2
    <3> QED BY <2>1, <3>3, <3>4
  <2>3. CASE l \notin Tables
    <3>1. hourly' = hourly
      BY <2>1, <2>3
    <3> QED BY <2>1, <3>1
  <2> QED BY <2>2, <2>3
<1>7. ASSUME TimePasses PROVE TableType'
  <2>1. /\ now' = now + 1 /\ UNCHANGED <<hourly, daily, summed>>
        /\ raw' = [l \in Tables |-> raw[l] \cup {now}]
    BY <1>7 DEF TimePasses
  <2>2. 0..(now - 1) \subseteq 0..(now' - 1) /\ now \in 0..(now' - 1)
    BY <2>1 DEF TimeType
  <2>3. raw' \in [Tables -> SUBSET (0..(now' - 1))] /\ summed' \in [Tables -> SUBSET (0..(now' - 1))]
    BY <2>1, <2>2
  <2>4. hourly' \in [Tables -> [0..HourOf(Horizon) -> SUBSET (0..(now' - 1))]]
    BY <2>1, <2>2
  <2>5. daily' \in [Tables -> [0..DayOf(Horizon) -> SUBSET (0..(now' - 1))]]
    BY <2>1, <2>2
  <2> QED BY <2>1, <2>3, <2>4, <2>5
<1>8. ASSUME NEW l \in Loops, SkipTick(l) \/ StatementError(l) PROVE UNCHANGED <<now, tables>>
  BY <1>8 DEF SkipTick, StatementError
<1>9. ASSUME startCleanup \/ deleteSupportPins \/ pruneOldJobs \/ Restart
      PROVE  UNCHANGED <<now, tables>>
  BY <1>9 DEF startCleanup, deleteSupportPins, pruneOldJobs, Restart
<1> QED BY <1>1, <1>3, <1>4, <1>5, <1>6, <1>7, <1>8, <1>9
        DEF Next, LoopStep, InTime, HeldUp, vars

(* Every state of the loops is one the model means. *)
THEOREM TypeCorrect == Spec => []TypeOK
<1>1. TypeOK /\ [Next]_vars => TypeOK'
  <2> SUFFICES ASSUME TypeOK, [Next]_vars PROVE TypeOK'
    OBVIOUS
  <2>1. (TimeType /\ LoopType /\ TableType /\ CleanupType)'
    BY NextTimeType, NextTableType
  <2>2. (TimeType /\ LoopType /\ TableType /\ CleanupType)' => TypeOK'
    BY TypeParts, PTL
  <2> QED BY <2>1, <2>2
<1> QED BY InitType, <1>1, PTL DEF Spec
-----------------------------------------------------------------------------
(* The clocks.                                                               *)

LEMMA NextUnit ==
  ASSUME NEW t \in Nat
  PROVE  /\ Midnight(t + 1) <=> t + 1 = DayAt(DayOf(t) + 1)
         /\ Midnight(t + 1) => DayOf(t + 1) = DayOf(t) + 1
         /\ ~ Midnight(t + 1) => DayOf(t + 1) = DayOf(t)
         /\ Midnight(t) => ~ Midnight(t + 1) /\ DayAt(DayOf(t) + 1) = t + Day
<1>1. /\ DayOf(t) \in Nat /\ DayAt(DayOf(t)) \in Int /\ Day \in Nat /\ Day >= 3
      /\ DayAt(DayOf(t)) <= t /\ t < DayAt(DayOf(t)) + Day
      /\ Midnight(t) <=> t = DayAt(DayOf(t))
      /\ DayAt(DayOf(t) + 1) = DayAt(DayOf(t)) + Day
  BY DayIn, DayNext, Lengths
<1>2. /\ t + 1 \in Nat /\ (Midnight(t + 1) <=> t + 1 = DayAt(DayOf(t + 1)))
      /\ \A k \in Int : DayAt(k) <= t + 1 /\ t + 1 < DayAt(k) + Day => DayOf(t + 1) = k
  BY DayIn
<1>3. CASE t + 1 = DayAt(DayOf(t) + 1)
  <2>1. DayOf(t + 1) = DayOf(t) + 1
    BY <1>1, <1>2, <1>3
  <2> QED BY <1>1, <1>2, <1>3, <2>1
<1>4. CASE t + 1 # DayAt(DayOf(t) + 1)
  <2>1. DayOf(t + 1) = DayOf(t)
    BY <1>1, <1>2, <1>4
  <2> QED BY <1>1, <1>2, <1>4, <2>1
<1> QED BY <1>3, <1>4

LEMMA InitClock == Init => ClockInv
<1> SUFFICES ASSUME Init PROVE ClockInv
  OBVIOUS
<1>1. TimeType
  BY InitType, TypeParts
<1>2. DayOf(now) \in Nat
  BY <1>1, DayIn DEF TimeType
<1> QED BY <1>2 DEF Init, ClockInv

LEMMA NextClock == TypeOK /\ ClockInv /\ [Next]_vars => ClockInv'
<1> SUFFICES ASSUME TimeType, LoopType, ClockInv, [Next]_vars PROVE ClockInv'
  BY TypeParts
<1>1. /\ now \in Nat /\ DayOf(now) \in Nat
      /\ \A l \in {"metrics", "cleanup"} : lastDate[l] \in Nat
  BY DayIn DEF TimeType, LoopType
<1>2. ASSUME now' = now, UNCHANGED lastDate PROVE ClockInv'
  BY <1>2 DEF ClockInv, CleanupStart
<1>3. ASSUME now' = now, NEW l \in Loops, SetLastDate(l), l = "cleanup" => now >= CleanupStart
      PROVE  ClockInv'
  BY <1>1, <1>3 DEF ClockInv, CleanupStart, SetLastDate, LoopType
<1>4. ASSUME TimePasses PROVE ClockInv'
  <2>1. now' = now + 1 /\ UNCHANGED lastDate
    BY <1>4 DEF TimePasses
  <2>2. \/ DayOf(now + 1) = DayOf(now)
        \/ DayOf(now + 1) = DayOf(now) + 1
    BY <1>1, NextUnit
  <2>3. DayAt(DayOf(now)) \in Int /\ HourAt(cleanupHour) \in Int
    BY <1>1, DayIn, CleanupIn
  <2> QED BY <1>1, <2>1, <2>2, <2>3 DEF ClockInv, CleanupStart
<1>5. ASSUME Restart PROVE ClockInv'
  BY <1>1, <1>5 DEF Restart, Started, ClockInv
<1>6. ASSUME NEW l \in Loops, LoopStep(l) \/ StatementError(l) PROVE ClockInv'
  <2>1. CASE aggregateDaily(l)
    <3>1. l \in Tables /\ SetLastDate(l) /\ now' = now
      BY <2>1 DEF aggregateDaily
    <3> QED BY <1>3, <3>1 DEF Tables
  <2>2. CASE aggregateHourly(l) \/ pruneRaw(l) \/ pruneHourly(l) \/ SkipTick(l)
    <3>1. now' = now /\ UNCHANGED lastDate
      BY <2>2 DEF aggregateHourly, pruneRaw, pruneHourly, SkipTick
    <3> QED BY <1>2, <3>1
  <2>3. CASE StatementError(l)
    <3>1. now' = now /\ (UNCHANGED lastDate \/ (l \in Tables /\ SetLastDate(l)))
      BY <2>3 DEF StatementError
    <3> QED BY <1>2, <1>3, <3>1 DEF Tables
  <2> QED BY <1>6, <2>1, <2>2, <2>3 DEF LoopStep
<1>7. ASSUME startCleanup PROVE ClockInv'
  <2>1. now' = now /\ SetLastDate("cleanup") /\ CleanupTime(now)
    BY <1>7 DEF startCleanup, DailyDue
  <2>2. now >= CleanupStart
    BY <1>1, <2>1, CleanupIn DEF CleanupStart
  <2> QED BY <1>3, <2>1, <2>2 DEF Loops
<1>8. ASSUME deleteSupportPins \/ pruneOldJobs PROVE ClockInv'
  <2>1. now' = now /\ UNCHANGED lastDate
    BY <1>8 DEF deleteSupportPins, pruneOldJobs
  <2> QED BY <1>2, <2>1
<1> QED BY <1>2, <1>4, <1>5, <1>6, <1>7, <1>8 DEF Next, InTime, HeldUp, vars
-----------------------------------------------------------------------------
(* What a step is to the loop of one table.                                  *)

SameTables(l) == /\ raw'[l] = raw[l] /\ summed'[l] = summed[l]
                 /\ hourly'[l] = hourly[l] /\ daily'[l] = daily[l]

SameTimes(l) == NextTick(l)' = NextTick(l) /\ NextDaily(l)' = NextDaily(l)

(* Another loop's step, or a tick that is not due.                           *)
Idles(l) ==
  /\ now' = now /\ SameTimes(l) /\ at'[l] = at[l] /\ SameTables(l)
  /\ faults' \in {faults, faults + 1}

PrunesRaw(l) ==
  /\ now' = now /\ SameTimes(l) /\ at[l] = "pruneRaw" /\ at'[l] = "idle" /\ faults' = faults
  /\ raw'[l] = {r \in raw[l] : r + rawRetention >= now}
  /\ summed'[l] = summed[l] /\ hourly'[l] = hourly[l] /\ daily'[l] = daily[l]

PrunesHourly(l) ==
  /\ now' = now /\ SameTimes(l) /\ at[l] = "pruneHourly" /\ at'[l] = "idle" /\ faults' = faults
  /\ \A h \in 0..HourOf(Horizon) :
       hourly'[l][h] = IF HourAt(h) + hourlyRetention < now THEN {} ELSE hourly[l][h]
  /\ raw'[l] = raw[l] /\ summed'[l] = summed[l] /\ daily'[l] = daily[l]

Fails(l) ==
  /\ now' = now /\ SameTimes(l) /\ faults' = faults + 1 /\ SameTables(l)
  /\ at[l] # "idle" /\ at'[l] \notin {"pruneRaw", "pruneHourly"}

(* The tick at time t begins an hour's run, which fails or not.              *)
TakesHourly(l) ==
  /\ now' = now /\ at[l] = "idle" /\ at'[l] = "pruneRaw"
  /\ "hourly" \in pending[l] /\ NextTick(l) = now /\ NextTick(l)' = now + toHour
  /\ NextDaily(l)' = NextDaily(l)
  /\ raw'[l] = raw[l] /\ daily'[l] = daily[l]
  /\ \/ faults' = faults + 1 /\ SameTables(l)
     \/ /\ faults' = faults
        /\ summed'[l] = summed[l] \cup (raw[l] \cap Window(now))
        /\ \A h \in 0..HourOf(Horizon) :
             LET rows == raw[l] \cap Window(now) \cap RowsOfHour(h)
             IN  hourly'[l][h] = IF rows = {} THEN hourly[l][h] ELSE rows

(* A daily run.                                                              *)
RowsOfDay(l, d) == UNION {hourly[l][h] : h \in {k \in HoursOfDayBefore(now) : DayOf(HourAt(k)) = d}}

TakesDaily(l) ==
  /\ now' = now /\ at[l] = "idle" /\ at'[l] = "pruneHourly"
  /\ NextTick(l)' = NextTick(l) /\ NextDaily(l) = now
  /\ \/ l = "health" /\ "daily" \in pending[l] /\ NextDaily(l)' = now + toDay
     \/ l = "metrics" /\ Midnight(now) /\ NextDaily(l)' = now + Day
  /\ raw'[l] = raw[l] /\ hourly'[l] = hourly[l] /\ summed'[l] = summed[l]
  /\ \/ faults' = faults + 1 /\ SameTables(l)
     \/ /\ faults' = faults
        /\ \A d \in 0..DayOf(Horizon) :
             daily'[l][d] = IF RowsOfDay(l, d) = {} THEN daily[l][d] ELSE RowsOfDay(l, d)

(* A unit of time, at rest or with a loop held up.                           *)
Passes(l) ==
  /\ now' = now + 1 /\ SameTimes(l) /\ at[l] = "idle" /\ at'[l] = "idle" /\ faults' = faults
  /\ NextTick(l) > now /\ NextDaily(l) > now
  /\ raw'[l] = raw[l] \cup {now}
  /\ summed'[l] = summed[l] /\ hourly'[l] = hourly[l] /\ daily'[l] = daily[l]

HeldOver(l) ==
  /\ now' = now + 1 /\ at'[l] = at[l] /\ faults' = faults + 1
  /\ \/ NextTick(l) > now /\ NextTick(l)' = NextTick(l)
     \/ NextTick(l) = now /\ NextTick(l)' = now + 1
  /\ \/ NextDaily(l) > now /\ NextDaily(l)' = NextDaily(l)
     \/ NextDaily(l) = now /\ l = "health" /\ NextDaily(l)' = now + 1
     \/ NextDaily(l) = now /\ l = "metrics" /\ Midnight(now) /\ NextDaily(l)' = now + Day
  /\ raw'[l] = raw[l] \cup {now}
  /\ summed'[l] = summed[l] /\ hourly'[l] = hourly[l] /\ daily'[l] = daily[l]

(* The process ends, and another one starts.                                 *)
StartsAgain(l) ==
  /\ now' = now /\ at'[l] = "idle" /\ faults' = faults + 1
  /\ NextTick(l)' = now + Hour
  /\ \/ l = "health" /\ NextDaily(l)' = now + Day
     \/ l = "metrics" /\ Midnight(now) /\ NextDaily(l)' = now
     \/ l = "metrics" /\ NextDaily(l)' = DayAt(DayOf(now) + 1)
  /\ SameTables(l)

StepKind(l) ==
  \/ Idles(l) \/ PrunesRaw(l) \/ PrunesHourly(l) \/ Fails(l)
  \/ TakesHourly(l) \/ TakesDaily(l)
  \/ Passes(l) \/ HeldOver(l) \/ StartsAgain(l)

LEMMA TableTimes ==
  ASSUME NEW l \in Tables
  PROVE  /\ NextTick(l) = IF "hourly" \in pending[l] THEN now ELSE now + toHour
         /\ l = "health" =>
              NextDaily(l) = IF "daily" \in pending[l] THEN now ELSE now + toDay
         /\ l = "metrics" =>
              NextDaily(l) = IF /\ "daily" \in pending[l] /\ Midnight(now)
                                /\ lastDate["metrics"] # DayOf(now) + 1
                             THEN now ELSE NextMidnight
         /\ l = "health" \/ l = "metrics"
BY DEF NextTick, NextDaily, DueNow, DailyDue, Tables

LEMMA TableTimesNext ==
  ASSUME NEW l \in Tables
  PROVE  /\ NextTick(l)' = IF "hourly" \in pending'[l] THEN now' ELSE now' + toHour'
         /\ l = "health" =>
              NextDaily(l)' = IF "daily" \in pending'[l] THEN now' ELSE now' + toDay'
         /\ l = "metrics" =>
              NextDaily(l)' = IF /\ "daily" \in pending'[l] /\ Midnight(now')
                                 /\ lastDate'["metrics"] # DayOf(now') + 1
                              THEN now' ELSE DayAt(DayOf(now') + 1)
         /\ l = "health" \/ l = "metrics"
BY DEF NextTick, NextDaily, DueNow, DailyDue, Tables, NextMidnight, Midnight, DayOf

LEMMA OtherLoops ==
  ASSUME NEW l \in Tables, now' = now, UNCHANGED clocks, pending'[l] = pending[l],
         lastDate'["metrics"] = lastDate["metrics"] \/ l = "health"
  PROVE  SameTimes(l)
BY TableTimes, TableTimesNext DEF SameTimes, clocks, NextMidnight

LEMMA LoopKinds ==
  ASSUME TypeOK, NEW l \in Tables, LoopStep(l)
  PROVE  StepKind(l)
<1> USE DEF StepKind
<1>1. LoopType /\ TableType /\ TimeType /\ l \in Loops
  BY TypeParts DEF Loops
<1>2. /\ pending[l] \subseteq {"hourly", "daily"} /\ DOMAIN hourly[l] = 0..HourOf(Horizon)
      /\ DOMAIN daily[l] = 0..DayOf(Horizon)
  BY <1>1 DEF LoopType, TableType
<1>3. CASE aggregateHourly(l)
  <2>1. /\ now' = now /\ toHour' = toHour /\ toDay' = toDay /\ lastDate' = lastDate
        /\ raw' = raw /\ daily' = daily /\ faults' = faults
        /\ at[l] = "idle" /\ "hourly" \in pending[l]
        /\ pending' = [pending EXCEPT ![l] = @ \ {"hourly"}]
        /\ at' = [at EXCEPT ![l] = "pruneRaw"]
    BY <1>3 DEF aggregateHourly, Takes, Stands, clocks
  <2>2. at'[l] = "pruneRaw" /\ pending'[l] = pending[l] \ {"hourly"}
    BY <1>1, <2>1 DEF LoopType
  <2>3. NextTick(l) = now /\ NextTick(l)' = now + toHour /\ NextDaily(l)' = NextDaily(l)
    BY <2>1, <2>2, TableTimes, TableTimesNext DEF NextMidnight
  <2>4. summed'[l] = summed[l] \cup (raw[l] \cap Window(now))
    BY <1>1, <1>3 DEF aggregateHourly, TableType
  <2>5. ASSUME NEW h \in 0..HourOf(Horizon)
        PROVE  LET rows == raw[l] \cap Window(now) \cap RowsOfHour(h)
               IN  hourly'[l][h] = IF rows = {} THEN hourly[l][h] ELSE rows
    BY <1>1, <1>2, <1>3 DEF aggregateHourly, TableType
  <2> QED BY <2>1, <2>2, <2>3, <2>4, <2>5 DEF TakesHourly
<1>4. CASE pruneRaw(l)
  <2>1. /\ now' = now /\ UNCHANGED clocks /\ lastDate' = lastDate /\ faults' = faults
        /\ hourly' = hourly /\ daily' = daily /\ summed' = summed
        /\ at[l] = "pruneRaw" /\ pending' = pending
        /\ at' = [at EXCEPT ![l] = "idle"]
        /\ raw' = [raw EXCEPT ![l] = {r \in @ : r + rawRetention >= now}]
    BY <1>4 DEF pruneRaw, GoesOn, Stands
  <2>2. at'[l] = "idle" /\ raw'[l] = {r \in raw[l] : r + rawRetention >= now}
    BY <1>1, <2>1 DEF LoopType, TableType
  <2> QED BY <2>1, <2>2, OtherLoops DEF PrunesRaw
<1>5. CASE aggregateDaily(l)
  <2>1. /\ now' = now /\ toHour' = toHour /\ toDay' = toDay /\ SetLastDate(l)
        /\ raw' = raw /\ hourly' = hourly /\ summed' = summed /\ faults' = faults
        /\ at[l] = "idle" /\ "daily" \in pending[l] /\ DailyDue(l)
        /\ pending' = [pending EXCEPT ![l] = @ \ {"daily"}]
        /\ at' = [at EXCEPT ![l] = "pruneHourly"]
    BY <1>5 DEF aggregateDaily, Takes, Stands, clocks
  <2>2. at'[l] = "pruneHourly" /\ pending'[l] = pending[l] \ {"daily"}
    BY <1>1, <2>1 DEF LoopType
  <2>3. NextTick(l)' = NextTick(l)
    BY <2>1, <2>2, TableTimes, TableTimesNext
  <2>4. /\ NextDaily(l) = now
        /\ \/ l = "health" /\ NextDaily(l)' = now + toDay
           \/ l = "metrics" /\ Midnight(now) /\ NextDaily(l)' = now + Day
    <3>1. CASE l = "health"
      BY <2>1, <2>2, <3>1, TableTimes, TableTimesNext
    <3>2. CASE l = "metrics"
      <4>1. Midnight(now) /\ lastDate["metrics"] # DayOf(now) + 1
        BY <2>1, <3>2 DEF DailyDue
      <4>2. DayAt(DayOf(now) + 1) = now + Day
        BY <1>1, <4>1, NextUnit DEF TimeType
      <4> QED BY <2>1, <2>2, <3>2, <4>1, <4>2, TableTimes, TableTimesNext
    <3> QED BY <3>1, <3>2 DEF Tables
  <2>5. ASSUME NEW d \in 0..DayOf(Horizon)
        PROVE  daily'[l][d] = IF RowsOfDay(l, d) = {} THEN daily[l][d] ELSE RowsOfDay(l, d)
    BY <1>1, <1>2, <1>5 DEF aggregateDaily, TableType, RowsOfDay, HourAt
  <2> QED BY <2>1, <2>2, <2>3, <2>4, <2>5 DEF TakesDaily
<1>6. CASE pruneHourly(l)
  <2>1. /\ now' = now /\ UNCHANGED clocks /\ lastDate' = lastDate /\ faults' = faults
        /\ raw' = raw /\ daily' = daily /\ summed' = summed
        /\ at[l] = "pruneHourly" /\ pending' = pending
        /\ at' = [at EXCEPT ![l] = "idle"]
    BY <1>6 DEF pruneHourly, GoesOn, Stands
  <2>2. at'[l] = "idle"
    BY <1>1, <2>1 DEF LoopType
  <2>3. ASSUME NEW h \in 0..HourOf(Horizon)
        PROVE  hourly'[l][h] = IF HourAt(h) + hourlyRetention < now THEN {} ELSE hourly[l][h]
    BY <1>1, <1>2, <1>6 DEF pruneHourly, TableType, HourAt
  <2> QED BY <2>1, <2>2, <2>3, OtherLoops DEF PrunesHourly
<1>7. CASE SkipTick(l)
  <2>1. /\ now' = now /\ toHour' = toHour /\ toDay' = toDay /\ lastDate' = lastDate
        /\ UNCHANGED tables /\ faults' = faults /\ at' = at
        /\ "daily" \in pending[l] /\ ~ DailyDue(l)
        /\ pending' = [pending EXCEPT ![l] = @ \ {"daily"}]
    BY <1>7 DEF SkipTick, Takes, clocks
  <2>2. pending'[l] = pending[l] \ {"daily"}
    BY <1>1, <2>1 DEF LoopType
  <2>3. l = "metrics" /\ ~ (Midnight(now) /\ lastDate["metrics"] # DayOf(now) + 1)
    BY <2>1 DEF DailyDue, Tables
  <2>4. SameTimes(l)
    BY <2>1, <2>2, <2>3, TableTimes, TableTimesNext DEF SameTimes, NextMidnight
  <2> QED BY <2>1, <2>4 DEF Idles, SameTables, tables
<1> QED BY <1>3, <1>4, <1>5, <1>6, <1>7 DEF LoopStep

LEMMA OtherKinds ==
  ASSUME TypeOK, NEW l \in Tables, NEW k \in Loops, LoopStep(k) \/ StatementError(k), k # l
  PROVE  StepKind(l)
<1>1. LoopType /\ TableType /\ TimeType /\ l \in Loops
  BY TypeParts DEF Loops
<1>2. /\ now' = now /\ UNCHANGED clocks /\ faults' \in {faults, faults + 1}
      /\ UNCHANGED lastDate \/ SetLastDate(k)
  BY DEF LoopStep, aggregateHourly, pruneRaw, aggregateDaily, pruneHourly, SkipTick,
         StatementError, Fault
<1>3. pending'[l] = pending[l] /\ at'[l] = at[l]
  BY <1>1 DEF LoopStep, aggregateHourly, pruneRaw, aggregateDaily, pruneHourly, SkipTick,
              StatementError, Takes, GoesOn, Stands, LoopType
<1>4. SameTables(l)
  BY <1>1 DEF LoopStep, aggregateHourly, pruneRaw, aggregateDaily, pruneHourly, SkipTick,
              StatementError, tables, SameTables, TableType
<1>5. lastDate'["metrics"] = lastDate["metrics"] \/ l = "health"
  BY <1>1, <1>2 DEF SetLastDate, LoopType, Tables
<1>6. SameTimes(l)
  BY <1>2, <1>3, <1>5, OtherLoops
<1> QED BY <1>2, <1>3, <1>4, <1>6 DEF StepKind, Idles

LEMMA ErrorKinds ==
  ASSUME TypeOK, NEW l \in Tables, StatementError(l)
  PROVE  StepKind(l)
<1> USE DEF StepKind
<1>1. LoopType /\ TimeType /\ l \in Loops
  BY TypeParts DEF Loops
<1>2. /\ now' = now /\ toHour' = toHour /\ toDay' = toDay /\ faults' = faults + 1
      /\ SameTables(l)
  BY DEF StatementError, Fault, tables, SameTables, clocks
<1>3. CASE Takes(l, "hourly") /\ Stands(l, "pruneRaw") /\ UNCHANGED lastDate
  <2>1. /\ at[l] = "idle" /\ "hourly" \in pending[l]
        /\ at'[l] = "pruneRaw" /\ pending'[l] = pending[l] \ {"hourly"}
    BY <1>1, <1>3 DEF Takes, Stands, LoopType
  <2>2. NextTick(l) = now /\ NextTick(l)' = now + toHour /\ NextDaily(l)' = NextDaily(l)
    BY <1>2, <1>3, <2>1, TableTimes, TableTimesNext DEF NextMidnight
  <2> QED BY <1>2, <2>1, <2>2 DEF TakesHourly, SameTables
<1>4. CASE Takes(l, "daily") /\ DailyDue(l) /\ Stands(l, "pruneHourly") /\ SetLastDate(l)
  <2>1. /\ at[l] = "idle" /\ "daily" \in pending[l]
        /\ at'[l] = "pruneHourly" /\ pending'[l] = pending[l] \ {"daily"}
    BY <1>1, <1>4 DEF Takes, Stands, LoopType
  <2>2. NextTick(l)' = NextTick(l)
    BY <1>2, <2>1, TableTimes, TableTimesNext
  <2>3. /\ NextDaily(l) = now
        /\ \/ l = "health" /\ NextDaily(l)' = now + toDay
           \/ l = "metrics" /\ Midnight(now) /\ NextDaily(l)' = now + Day
    <3>1. CASE l = "health"
      BY <1>2, <2>1, <3>1, TableTimes, TableTimesNext
    <3>2. CASE l = "metrics"
      <4>1. Midnight(now) /\ lastDate["metrics"] # DayOf(now) + 1
        BY <1>4, <3>2 DEF DailyDue
      <4>2. DayAt(DayOf(now) + 1) = now + Day
        BY <1>1, <4>1, NextUnit DEF TimeType
      <4> QED BY <1>2, <2>1, <3>2, <4>1, <4>2, TableTimes, TableTimesNext
    <3> QED BY <3>1, <3>2 DEF Tables
  <2> QED BY <1>2, <2>1, <2>2, <2>3 DEF TakesDaily, SameTables
<1>5. CASE at[l] # "idle" /\ GoesOn(l, at[l]) /\ UNCHANGED lastDate
           /\ Stands(l, IF at[l] = "pins" THEN "jobs" ELSE "idle")
  <2>1. SameTimes(l)
    BY <1>2, <1>5, OtherLoops DEF GoesOn, clocks
  <2>2. at'[l] = IF at[l] = "pins" THEN "jobs" ELSE "idle"
    BY <1>1, <1>5 DEF Stands, LoopType
  <2> QED BY <1>2, <1>5, <2>1, <2>2 DEF Fails, Idles
<1> QED BY <1>3, <1>4, <1>5 DEF StatementError

LEMMA TimeKinds ==
  ASSUME TypeOK, ClockInv, NEW l \in Tables, InTime \/ HeldUp
  PROVE  StepKind(l)
<1>1. LoopType /\ TableType /\ TimeType /\ l \in Loops
  BY TypeParts DEF Loops
<1>2. /\ now' = now + 1 /\ at' = at /\ lastDate' = lastDate
      /\ raw'[l] = raw[l] \cup {now}
      /\ summed'[l] = summed[l] /\ hourly'[l] = hourly[l] /\ daily'[l] = daily[l]
      /\ toHour' = Ticking(toHour, Hour) /\ toDay' = Ticking(toDay, Day)
      /\ pending'[l] = pending[l] \cup MinuteTicks(l, now + 1)
           \cup (IF toHour = 1 THEN {"hourly"} ELSE {})
           \cup (IF l = "health" /\ toDay = 1 THEN {"daily"} ELSE {})
  BY <1>1 DEF InTime, HeldUp, TimePasses
<1>3. toHour \in Nat /\ toHour >= 1 /\ toDay \in Nat /\ toDay >= 1 /\ now \in Nat
  BY <1>1, Lengths DEF TimeType
<1>4. /\ "hourly" \in pending'[l] <=> "hourly" \in pending[l] \/ toHour = 1
      /\ l = "health" => ("daily" \in pending'[l] <=> "daily" \in pending[l] \/ toDay = 1)
      /\ l = "metrics" => ("daily" \in pending'[l] <=> "daily" \in pending[l] \/ Midnight(now + 1))
  BY <1>2 DEF MinuteTicks
<1>5. \/ NextTick(l) > now /\ NextTick(l)' = NextTick(l)
      \/ NextTick(l) = now /\ NextTick(l)' = now + 1 /\ pending[l] # {}
  <2>1. CASE "hourly" \in pending[l]
    BY <1>2, <1>3, <1>4, <2>1, TableTimes, TableTimesNext
  <2>2. CASE "hourly" \notin pending[l]
    BY <1>2, <1>3, <1>4, <2>2, TableTimes, TableTimesNext DEF Ticking
  <2> QED BY <2>1, <2>2
<1>6. \/ NextDaily(l) > now /\ NextDaily(l)' = NextDaily(l)
      \/ NextDaily(l) = now /\ pending[l] # {} /\ l = "health" /\ NextDaily(l)' = now + 1
      \/ NextDaily(l) = now /\ pending[l] # {} /\ l = "metrics" /\ Midnight(now)
         /\ NextDaily(l)' = now + Day
  <2>1. CASE l = "health"
    <3>1. CASE "daily" \in pending[l]
      BY <1>2, <1>3, <1>4, <2>1, <3>1, TableTimes, TableTimesNext
    <3>2. CASE "daily" \notin pending[l]
      BY <1>2, <1>3, <1>4, <2>1, <3>2, TableTimes, TableTimesNext DEF Ticking
    <3> QED BY <3>1, <3>2
  <2>2. CASE l = "metrics"
    <3>1. /\ DayOf(now) \in Nat /\ lastDate["metrics"] \in Int /\ lastDate["metrics"] <= DayOf(now) + 1
          /\ DayAt(DayOf(now) + 1) \in Int /\ now < DayAt(DayOf(now) + 1)
      BY <1>1, <1>3, DayIn, DayNext, Lengths DEF ClockInv, LoopType
    <3>2. /\ Midnight(now + 1) <=> now + 1 = DayAt(DayOf(now) + 1)
          /\ Midnight(now + 1) => DayOf(now + 1) = DayOf(now) + 1
          /\ ~ Midnight(now + 1) => DayOf(now + 1) = DayOf(now)
          /\ Midnight(now) => ~ Midnight(now + 1) /\ DayAt(DayOf(now) + 1) = now + Day
      BY <1>3, NextUnit
    <3>3. NextDaily(l)' = DayAt(DayOf(now) + 1)
      <4>1. CASE Midnight(now + 1)
        <5>1. NextDaily(l)' = now + 1
          BY <1>2, <1>4, <2>2, <3>1, <3>2, <4>1, TableTimesNext
        <5> QED BY <3>2, <4>1, <5>1
      <4>2. CASE ~ Midnight(now + 1)
        BY <1>2, <2>2, <3>2, <4>2, TableTimesNext
      <4> QED BY <4>1, <4>2
    <3>4. \/ NextDaily(l) = now /\ pending[l] # {} /\ Midnight(now)
          \/ NextDaily(l) = DayAt(DayOf(now) + 1)
      BY <2>2, TableTimes DEF NextMidnight
    <3> QED BY <2>2, <3>1, <3>2, <3>3, <3>4
  <2> QED BY <2>1, <2>2 DEF Tables
<1>7. CASE InTime
  <2>1. pending[l] = {} /\ at[l] = "idle" /\ faults' = faults
    BY <1>1, <1>7 DEF InTime, AtRest
  <2> QED BY <1>2, <1>5, <1>6, <2>1 DEF StepKind, Passes, SameTimes
<1>8. CASE HeldUp
  <2>1. faults' = faults + 1
    BY <1>8 DEF HeldUp, Fault
  <2> QED BY <1>2, <1>5, <1>6, <2>1 DEF StepKind, HeldOver
<1> QED BY <1>7, <1>8

LEMMA Kinds ==
  ASSUME TypeOK, ClockInv, [Next]_vars, NEW l \in Tables
  PROVE  StepKind(l)
<1>1. LoopType /\ TableType /\ TimeType /\ l \in Loops
  BY TypeParts DEF Loops
<1>2. CASE \E k \in Loops : LoopStep(k) \/ StatementError(k)
  BY <1>2, LoopKinds, ErrorKinds, OtherKinds
<1>3. CASE startCleanup \/ deleteSupportPins \/ pruneOldJobs
  <2>1. /\ now' = now /\ UNCHANGED clocks /\ faults' = faults /\ UNCHANGED tables
        /\ UNCHANGED lastDate \/ SetLastDate("cleanup")
    BY <1>3 DEF startCleanup, deleteSupportPins, pruneOldJobs
  <2>2. pending'[l] = pending[l] /\ at'[l] = at[l]
    BY <1>1, <1>3 DEF startCleanup, deleteSupportPins, pruneOldJobs, Takes, GoesOn, Stands,
                      LoopType, Tables
  <2>3. lastDate'["metrics"] = lastDate["metrics"]
    BY <1>1, <2>1 DEF SetLastDate, LoopType
  <2>4. SameTimes(l)
    BY <2>1, <2>2, <2>3, OtherLoops
  <2> QED BY <2>1, <2>2, <2>4 DEF StepKind, Idles, SameTables, tables
<1>4. CASE InTime \/ HeldUp
  BY <1>4, TimeKinds
<1>5. CASE Restart
  <2>1. /\ now' = now /\ toHour' = Hour /\ toDay' = Day /\ faults' = faults + 1
        /\ at'[l] = "idle" /\ UNCHANGED tables /\ lastDate'["metrics"] = 0
        /\ pending'[l] = {} \/ pending'[l] = MinuteTicks(l, now)
    BY <1>1, <1>5 DEF Restart, Started, Fault
  <2>2. /\ "hourly" \notin pending'[l]
        /\ "daily" \in pending'[l] => l = "metrics" /\ Midnight(now)
    BY <2>1 DEF MinuteTicks, Tables
  <2>3. NextTick(l)' = now + Hour
    BY <2>1, <2>2, TableTimesNext
  <2>4. \/ l = "health" /\ NextDaily(l)' = now + Day
        \/ l = "metrics" /\ Midnight(now) /\ NextDaily(l)' = now
        \/ l = "metrics" /\ NextDaily(l)' = DayAt(DayOf(now) + 1)
    BY <2>1, <2>2, TableTimesNext
  <2> QED BY <2>1, <2>3, <2>4 DEF StepKind, StartsAgain, SameTables, tables
<1>6. CASE UNCHANGED vars
  <2>1. SameTimes(l)
    BY <1>6, OtherLoops DEF vars
  <2> QED BY <1>1, <1>6, <2>1 DEF vars, StepKind, Idles, SameTables, tables, TimeType
<1> QED BY <1>2, <1>3, <1>4, <1>5, <1>6 DEF Next
-----------------------------------------------------------------------------
(* The next tick comes within an hour, the next daily run within a day.      *)
NextInTime ==
  \A l \in Tables :
    /\ NextTick(l) \in Nat /\ now <= NextTick(l) /\ NextTick(l) <= now + Hour
    /\ NextDaily(l) \in Nat /\ now <= NextDaily(l) /\ NextDaily(l) <= now + Day

LEMMA TimesIn == TypeOK => NextInTime
<1> SUFFICES ASSUME TypeOK, NEW l \in Tables
             PROVE  /\ NextTick(l) \in Nat /\ now <= NextTick(l) /\ NextTick(l) <= now + Hour
                    /\ NextDaily(l) \in Nat /\ now <= NextDaily(l) /\ NextDaily(l) <= now + Day
  BY DEF NextInTime
<1>1. /\ now \in Nat /\ toHour \in Nat /\ toHour <= Hour /\ toDay \in Nat /\ toDay <= Day
      /\ Hour \in Nat /\ Day \in Nat
  BY TypeParts, Lengths DEF TimeType
<1>2. NextMidnight \in Int /\ now <= NextMidnight /\ NextMidnight <= now + Day
  <2>1. /\ DayOf(now) \in Int /\ DayAt(DayOf(now)) <= now /\ now < DayAt(DayOf(now)) + Day
    BY <1>1, DayIn
  <2>2. DayAt(DayOf(now)) \in Int /\ DayAt(DayOf(now) + 1) = DayAt(DayOf(now)) + Day
    BY <2>1, DayNext
  <2> QED BY <1>1, <2>1, <2>2 DEF NextMidnight
<1> QED BY <1>1, <1>2, TableTimes

LEMMA NextType == TypeOK /\ [Next]_vars => TypeOK'
<1> SUFFICES ASSUME TypeOK, [Next]_vars PROVE TypeOK'
  OBVIOUS
<1>1. (TimeType /\ LoopType /\ TableType /\ CleanupType)'
  BY NextTimeType, NextTableType
<1>2. (TimeType /\ LoopType /\ TableType /\ CleanupType)' => TypeOK'
  BY TypeParts, PTL
<1> QED BY <1>1, <1>2

(* The two ends of a step.                                                   *)
LEMMA StepTimes ==
  ASSUME TypeOK, [Next]_vars, NEW l \in Tables
  PROVE  /\ now \in Nat /\ now' \in Nat /\ start \in Nat /\ start' = start
         /\ faults \in Nat /\ faults' \in Nat
         /\ NextTick(l) \in Nat /\ now <= NextTick(l) /\ NextTick(l) <= now + Hour
         /\ NextDaily(l) \in Nat /\ now <= NextDaily(l) /\ NextDaily(l) <= now + Day
         /\ NextTick(l)' \in Nat /\ now' <= NextTick(l)' /\ NextTick(l)' <= now' + Hour
         /\ NextDaily(l)' \in Nat /\ now' <= NextDaily(l)' /\ NextDaily(l)' <= now' + Day
<1>1. TypeOK'
  BY NextType
<1>2. TimeType /\ TimeType'
  BY TypeParts, NextTimeType
<1>3. start' = start
  BY DEF Next, LoopStep, aggregateHourly, pruneRaw, aggregateDaily, pruneHourly, SkipTick,
         StatementError, startCleanup, deleteSupportPins, pruneOldJobs, InTime, HeldUp,
         TimePasses, Restart, vars
<1>4. NextInTime /\ NextInTime'
  <2>1. NextInTime
    BY TimesIn
  <2>2. (TypeOK => NextInTime)'
    BY TimesIn, PTL
  <2> QED BY <1>1, <2>1, <2>2
<1> QED BY <1>2, <1>3, <1>4 DEF TimeType, NextInTime
-----------------------------------------------------------------------------
(* Raw rows are kept.                                                        *)

LEMMA InitRaw == Init => RawInv
BY Lengths DEF Init, RawInv

LEMMA NextRaw == TypeOK /\ ClockInv /\ RawInv /\ [Next]_vars => RawInv'
<1> SUFFICES ASSUME TypeOK, ClockInv, RawInv, [Next]_vars,
                    NEW l \in Tables, NEW r \in 0..(now' - 1), r + rawRetention >= now'
             PROVE  r \in raw'[l]
  BY DEF RawInv
<1>1. now \in Nat /\ rawRetention \in Nat
  BY StepTimes, Lengths
<1>2. StepKind(l)
  BY Kinds
<1>3. CASE now' = now
  <2>1. r \in raw[l]
    BY <1>1, <1>3 DEF RawInv
  <2> QED BY <1>1, <1>2, <1>3, <2>1
          DEF StepKind, Idles, PrunesRaw, PrunesHourly, Fails, TakesHourly, TakesDaily,
              Passes, HeldOver, StartsAgain, SameTables
<1>4. CASE now' = now + 1
  <2>1. r = now \/ r \in raw[l]
    BY <1>1, <1>4 DEF RawInv
  <2>2. raw'[l] = raw[l] \cup {now}
    BY <1>1, <1>2, <1>4
       DEF StepKind, Idles, PrunesRaw, PrunesHourly, Fails, TakesHourly, TakesDaily,
           Passes, HeldOver, StartsAgain
  <2> QED BY <2>1, <2>2
<1> QED BY <1>2, <1>3, <1>4
        DEF StepKind, Idles, PrunesRaw, PrunesHourly, Fails, TakesHourly, TakesDaily,
            Passes, HeldOver, StartsAgain
-----------------------------------------------------------------------------
(* Lost rows: when the next tick is put off by an hour at most, the rows that
   become late are those of one hour.                                        *)
LateRows(t) == {r \in start..now : HourAt(HourOf(r) + 2) < t}

LEMMA OneHourLate ==
  ASSUME TypeOK, NEW x \in Nat, NEW y \in Nat, y <= x + Hour
  PROVE  /\ IsFiniteSet(LateRows(y) \ LateRows(x))
         /\ Cardinality(LateRows(y) \ LateRows(x)) <= Hour
<1> DEFINE New == LateRows(y) \ LateRows(x)
<1>1. start \in Nat /\ now \in Nat /\ Hour \in Nat \ {0}
  BY TypeParts, Lengths DEF TimeType
<1>2. ASSUME NEW r \in New
      PROVE  /\ r \in Nat /\ HourOf(r) \in Nat /\ HourAt(HourOf(r)) \in Int
             /\ HourAt(HourOf(r)) <= r /\ r < HourAt(HourOf(r)) + Hour
             /\ x <= HourAt(HourOf(r)) + Hour + Hour /\ HourAt(HourOf(r)) + Hour + Hour < y
  <2>1. r \in Nat /\ HourAt(HourOf(r) + 2) < y /\ ~ (HourAt(HourOf(r) + 2) < x)
    BY <1>1 DEF LateRows
  <2>2. HourOf(r) \in Nat
    BY <2>1, HourIn
  <2>3. HourAt(HourOf(r)) \in Int /\ HourAt(HourOf(r) + 2) = HourAt(HourOf(r)) + Hour + Hour
    BY <2>2, HourNext
  <2>4. HourAt(HourOf(r)) <= r /\ r < HourAt(HourOf(r)) + Hour
    BY <2>1, HourIn
  <2> QED BY <1>1, <2>1, <2>2, <2>3, <2>4
<1>3. CASE New = {}
  BY <1>1, <1>3, FS_EmptySet
<1>4. CASE New # {}
  <2>1. PICK q \in New : TRUE
    BY <1>4
  <2> DEFINE b == HourAt(HourOf(q))
  <2>2. b \in Int /\ x <= b + Hour + Hour /\ b + Hour + Hour < y
    BY <1>2, <2>1
  <2>3. ASSUME NEW r \in New PROVE r \in b..(b + Hour - 1)
    <3>1. HourAt(HourOf(r)) < b + Hour /\ b < HourAt(HourOf(r)) + Hour
      BY <1>1, <1>2, <2>2
    <3>2. HourOf(r) \in Int /\ HourOf(q) \in Int
      BY <1>2, <2>1
    <3>3. HourOf(r) <= HourOf(q) /\ HourOf(q) <= HourOf(r)
      BY <3>1, <3>2, HourOrder
    <3>4. HourOf(r) = HourOf(q)
      BY <3>2, <3>3
    <3> QED BY <1>1, <1>2, <2>2, <3>4
  <2> HIDE DEF b
  <2>4. IsFiniteSet(b..(b + Hour - 1)) /\ Cardinality(b..(b + Hour - 1)) = Hour
    <3>1. b + Hour - 1 \in Int /\ ~ (b > b + Hour - 1) /\ (b + Hour - 1) - b + 1 = Hour
      BY <1>1, <2>2
    <3> QED BY <2>2, <3>1, FS_Interval
  <2> QED BY <1>1, <2>3, <2>4, FS_Subset
<1> QED BY <1>3, <1>4

(* Every step puts the next tick off by at most an hour, and only a fault by
   more than the rows that are summed up.                                    *)
LEMMA NextMissing ==
  ASSUME TypeOK, ClockInv, RawInv, [Next]_vars, NEW l \in Tables
  PROVE  \/ Missing(l)' \subseteq Missing(l) /\ faults <= faults'
         \/ /\ faults' = faults + 1 /\ NextTick(l)' <= NextTick(l) + Hour
            /\ Missing(l)' \subseteq Missing(l) \cup (LateRows(NextTick(l)') \ LateRows(NextTick(l)))
<1> DEFINE x == NextTick(l)
           y == NextTick(l)'
           n == now'
<1>1. /\ now \in Nat /\ n \in Nat /\ start \in Nat /\ start' = start
      /\ faults \in Nat /\ faults' \in Nat
      /\ x \in Nat /\ now <= x /\ x <= now + Hour
      /\ y \in Nat /\ n <= y /\ y <= n + Hour
      /\ Hour \in Nat \ {0} /\ rawRetention \in Nat /\ Hour + Hour + Hour <= rawRetention
  BY StepTimes, Lengths
<1>2. StepKind(l)
  BY Kinds
<1>3. Missing(l)' = {r \in start..n : HourAt(HourOf(r) + 2) < y} \ summed'[l]
  BY <1>1 DEF Missing, HourOf, HourAt
<1>4. Missing(l) = LateRows(x) \ summed[l]
  BY DEF Missing, LateRows
<1>5. n = now \/ n = now + 1
  BY <1>2 DEF StepKind, Idles, PrunesRaw, PrunesHourly, Fails, TakesHourly, TakesDaily,
              Passes, HeldOver, StartsAgain
<1> HIDE DEF x, y, n
<1>6. ASSUME NEW r \in start..n, HourAt(HourOf(r) + 2) < y
      PROVE  /\ r \in Nat /\ HourOf(r) \in Nat /\ HourAt(HourOf(r)) \in Int
             /\ HourAt(HourOf(r)) <= r /\ r < HourAt(HourOf(r)) + Hour
             /\ HourAt(HourOf(r) + 2) = HourAt(HourOf(r)) + Hour + Hour
             /\ HourAt(HourOf(r)) + Hour < n
  <2>1. r \in Nat
    BY <1>1
  <2>2. HourOf(r) \in Nat /\ HourAt(HourOf(r)) <= r /\ r < HourAt(HourOf(r)) + Hour
    BY <2>1, HourIn
  <2>3. HourAt(HourOf(r)) \in Int /\ HourAt(HourOf(r) + 2) = HourAt(HourOf(r)) + Hour + Hour
    BY <2>2, HourNext
  <2>4. HourAt(HourOf(r)) + Hour + Hour < y
    BY <1>6, <2>3
  <2>6. HourAt(HourOf(r)) + Hour < n
    BY <1>1, <2>3, <2>4
  <2> QED BY <2>1, <2>2, <2>3, <2>6
<1>7. ASSUME NEW r \in Missing(l)'
      PROVE  r \in LateRows(y) /\ r \notin summed'[l]
  <2>1. r \in start..n /\ HourAt(HourOf(r) + 2) < y /\ r \notin summed'[l]
    BY <1>3
  <2>2. r \in start..now
    BY <1>1, <1>6, <1>5, <2>1
  <2> QED BY <2>1, <2>2 DEF LateRows
<1>8. CASE y = x /\ summed'[l] = summed[l] /\ faults' \in {faults, faults + 1}
  BY <1>1, <1>4, <1>7, <1>8
<1>9. CASE faults' = faults + 1 /\ summed'[l] = summed[l] /\ y <= x + Hour
  BY <1>1, <1>4, <1>7, <1>9 DEF x, y
<1>10. ASSUME x = now, n = now, faults' = faults,
              summed'[l] = summed[l] \cup (raw[l] \cap Window(now))
       PROVE  Missing(l)' \subseteq Missing(l)
  <2> SUFFICES ASSUME NEW r \in Missing(l)', r \notin LateRows(x) PROVE FALSE
    BY <1>4, <1>7, <1>10
  <2>1. r \in LateRows(y) /\ r \notin raw[l] \cap Window(now)
    BY <1>7, <1>10
  <2>2. r \in start..n /\ HourAt(HourOf(r) + 2) < y /\ ~ (HourAt(HourOf(r) + 2) < x)
    BY <1>10, <2>1 DEF LateRows
  <2>3. /\ r \in Nat /\ HourOf(r) \in Nat /\ HourAt(HourOf(r)) \in Int
        /\ HourAt(HourOf(r)) <= r /\ r < HourAt(HourOf(r)) + Hour
        /\ HourAt(HourOf(r)) + Hour < now /\ HourAt(HourOf(r)) + Hour + Hour >= now
    BY <1>1, <1>6, <1>10, <2>2
  <2>4. r \in 0..(now - 1) /\ r + Hour + Hour >= now
    BY <1>1, <2>3
  <2>5. HourOf(r) < HourOf(now)
    <3>1. HourAt(HourOf(r) + 1) = HourAt(HourOf(r)) + Hour /\ HourOf(now) \in Int
          /\ HourAt(HourOf(now)) \in Int /\ now < HourAt(HourOf(now)) + Hour
      BY <1>1, <2>3, HourNext, HourIn
    <3>2. HourAt(HourOf(r) + 1) < HourAt(HourOf(now)) + Hour
      BY <1>1, <2>3, <3>1
    <3>3. HourOf(r) + 1 <= HourOf(now)
      BY <2>3, <3>1, <3>2, HourOrder
    <3> QED BY <2>3, <3>1, <3>3
  <2>6. r \in Window(now)
    BY <1>1, <2>4, <2>5, WindowIs
  <2>7. r \in raw[l]
    BY <1>1, <2>4 DEF RawInv
  <2> QED BY <2>1, <2>6, <2>7
<1> QED BY <1>1, <1>2, <1>8, <1>9, <1>10
        DEF StepKind, Idles, PrunesRaw, PrunesHourly, Fails, TakesHourly, TakesDaily,
            Passes, HeldOver, StartsAgain, SameTables, SameTimes, x, y, n

LEMMA InitRows == Init => RowsInv
<1> SUFFICES ASSUME Init, NEW l \in Tables PROVE Cardinality(Missing(l)) <= HourAt(faults)
  BY DEF RowsInv
<1>1. TypeOK /\ TimeType
  BY InitType, TypeParts
<1>2. now = start /\ start \in Nat /\ faults = 0 /\ Hour \in Nat
  BY <1>1, Lengths DEF Init, TimeType
<1>3. NextTick(l) \in Nat /\ NextTick(l) <= now + Hour
  BY <1>1, TimesIn DEF NextInTime
<1>4. Missing(l) = {}
  <2> SUFFICES ASSUME NEW r \in Missing(l) PROVE FALSE
    OBVIOUS
  <2>1. r = start /\ r \in Nat /\ HourAt(HourOf(r) + 2) < NextTick(l)
    BY <1>2 DEF Missing
  <2>2. HourOf(r) \in Nat /\ r < HourAt(HourOf(r)) + Hour
    BY <2>1, HourIn
  <2>3. HourAt(HourOf(r)) \in Int /\ HourAt(HourOf(r) + 2) = HourAt(HourOf(r)) + Hour + Hour
    BY <2>2, HourNext
  <2> QED BY <1>2, <1>3, <2>1, <2>2, <2>3
<1>5. HourAt(faults) = 0
  BY <1>2, Zeros
<1> QED BY <1>4, <1>5, FS_EmptySet

LEMMA MissingFinite ==
  ASSUME TypeOK, NEW l
  PROVE  IsFiniteSet(Missing(l)) /\ Cardinality(Missing(l)) \in Nat
<1>1. start \in Int /\ now \in Int
  BY TypeParts DEF TimeType
<1>2. IsFiniteSet(start..now) /\ Missing(l) \in SUBSET (start..now)
  BY <1>1, FS_Interval DEF Missing
<1> QED BY <1>2, FS_Subset, FS_CardinalityType

LEMMA NextRows == TypeOK /\ ClockInv /\ RawInv /\ RowsInv /\ [Next]_vars => RowsInv'
<1> SUFFICES ASSUME TypeOK, ClockInv, RawInv, RowsInv, [Next]_vars, NEW l \in Tables
             PROVE  Cardinality(Missing(l)') <= HourAt(faults')
  BY DEF RowsInv, HourAt
<1> DEFINE f == faults'
           M == Missing(l)'
<1>1. /\ faults \in Nat /\ f \in Nat /\ Hour \in Nat
      /\ NextTick(l) \in Nat /\ NextTick(l)' \in Nat
  BY StepTimes, Lengths
<1>2. /\ IsFiniteSet(Missing(l)) /\ Cardinality(Missing(l)) \in Nat
      /\ Cardinality(Missing(l)) <= HourAt(faults)
  BY MissingFinite DEF RowsInv
<1>3. \/ M \subseteq Missing(l) /\ faults <= f
      \/ /\ f = faults + 1 /\ NextTick(l)' <= NextTick(l) + Hour
         /\ M \subseteq Missing(l) \cup (LateRows(NextTick(l)') \ LateRows(NextTick(l)))
  BY NextMissing
<1> SUFFICES Cardinality(M) <= HourAt(f)
  OBVIOUS
<1> HIDE DEF f, M
<1>4. CASE M \subseteq Missing(l) /\ faults <= f
  <2>1. HourAt(faults) <= HourAt(f) /\ HourAt(faults) \in Int /\ HourAt(f) \in Int
    BY <1>1, <1>4, HourOrder
  <2>2. IsFiniteSet(M) /\ Cardinality(M) <= Cardinality(Missing(l))
    BY <1>2, <1>4, FS_Subset
  <2>3. Cardinality(M) \in Nat
    BY <2>2, FS_CardinalityType
  <2> QED BY <1>2, <2>1, <2>2, <2>3
<1>5. ASSUME f = faults + 1, NextTick(l)' <= NextTick(l) + Hour,
             M \subseteq Missing(l) \cup (LateRows(NextTick(l)') \ LateRows(NextTick(l)))
      PROVE  Cardinality(M) <= HourAt(f)
  <2> DEFINE New == LateRows(NextTick(l)') \ LateRows(NextTick(l))
  <2>1. IsFiniteSet(New) /\ Cardinality(New) <= Hour
    BY <1>1, <1>5, OneHourLate
  <2>2. M \subseteq Missing(l) \cup New
    BY <1>5
  <2> HIDE DEF New
  <2>3. Cardinality(New) \in Nat /\ Cardinality(Missing(l) \cap New) \in Nat
    BY <1>2, <2>1, FS_CardinalityType, FS_Intersection
  <2>4. /\ IsFiniteSet(Missing(l) \cup New)
        /\ Cardinality(Missing(l) \cup New) =
             Cardinality(Missing(l)) + Cardinality(New) - Cardinality(Missing(l) \cap New)
    BY <1>2, <2>1, FS_Union
  <2>5. /\ IsFiniteSet(M)
        /\ Cardinality(M) <= Cardinality(Missing(l) \cup New)
    BY <2>2, <2>4, FS_Subset
  <2>6. Cardinality(M) \in Nat
    BY <2>5, FS_CardinalityType
  <2>7. HourAt(f) = HourAt(faults) + Hour /\ HourAt(faults) \in Int
    BY <1>1, <1>5, HourNext
  <2>8. Cardinality(Missing(l) \cup New) <= Cardinality(Missing(l)) + Cardinality(New)
    BY <1>2, <2>3, <2>4
  <2>9. Cardinality(Missing(l) \cup New) \in Nat
    BY <2>4, FS_CardinalityType
  <2>10. Cardinality(Missing(l) \cup New) <= HourAt(faults) + Hour
    BY <1>1, <1>2, <2>1, <2>3, <2>7, <2>8, <2>9
  <2> QED BY <1>1, <2>5, <2>6, <2>7, <2>9, <2>10
<1> QED BY <1>3, <1>4, <1>5
-----------------------------------------------------------------------------
(* With all going well, the ticks keep their place in the hour and the day.  *)

LEMMA PlusHour ==
  ASSUME NEW t \in Nat
  PROVE  HourOf(t + Hour) = HourOf(t) + 1 /\ HourAt(HourOf(t) + 1) = HourAt(HourOf(t)) + Hour
<1>1. /\ Hour \in Nat \ {0} /\ HourOf(t) \in Nat /\ HourAt(HourOf(t)) \in Int
      /\ HourAt(HourOf(t)) <= t /\ t < HourAt(HourOf(t)) + Hour
  BY HourIn, Lengths
<1>2. HourAt(HourOf(t) + 1) = HourAt(HourOf(t)) + Hour
  BY <1>1, HourNext
<1>3. \A h \in Int : HourAt(h) <= t + Hour /\ t + Hour < HourAt(h) + Hour => HourOf(t + Hour) = h
  BY <1>1, HourIn
<1> QED BY <1>1, <1>2, <1>3

LEMMA PlusDay ==
  ASSUME NEW t \in Nat
  PROVE  DayOf(t + Day) = DayOf(t) + 1 /\ DayAt(DayOf(t) + 1) = DayAt(DayOf(t)) + Day
<1>1. /\ Day \in Nat \ {0} /\ DayOf(t) \in Nat /\ DayAt(DayOf(t)) \in Int
      /\ DayAt(DayOf(t)) <= t /\ t < DayAt(DayOf(t)) + Day
  BY DayIn, Lengths
<1>2. DayAt(DayOf(t) + 1) = DayAt(DayOf(t)) + Day
  BY <1>1, DayNext
<1>3. \A d \in Int : DayAt(d) <= t + Day /\ t + Day < DayAt(d) + Day => DayOf(t + Day) = d
  BY <1>1, DayIn
<1> QED BY <1>1, <1>2, <1>3

TickOnTime(l) == NextTick(l) = HourAt(HourOf(NextTick(l))) + Offset

DailyOnTime == NextDaily("health") = DayAt(DayOf(NextDaily("health"))) + start

ClocksOnTime ==
  /\ \A l \in Tables : "hourly" \in pending[l] => toHour = Hour
  /\ "daily" \in pending["health"] => toDay = Day

LEMMA OnTimeParts ==
  OnTimeInv <=> (faults = 0 => ClocksOnTime /\ DailyOnTime /\ \A l \in Tables : TickOnTime(l))
BY DEF OnTimeInv, ClocksOnTime, DailyOnTime, TickOnTime

LEMMA OffsetIs ==
  TypeOK => /\ Offset = start - HourAt(HourOf(start)) /\ Offset \in Nat /\ Offset < Hour
            /\ start \in Nat /\ DayOf(start) = 0
<1> SUFFICES ASSUME TypeOK
             PROVE  /\ Offset = start - HourAt(HourOf(start)) /\ Offset \in Nat /\ Offset < Hour
                    /\ start \in Nat /\ DayOf(start) = 0
  OBVIOUS
<1>1. start \in Nat /\ start < Day /\ Hour \in Nat \ {0}
  BY TypeParts, Lengths DEF TimeType
<1>2. Offset = start - HourAt(HourOf(start)) /\ Offset \in Nat /\ Offset < Hour
  BY <1>1, HourIn DEF Offset
<1>3. DayOf(start) = 0
  <2>1. DayAt(0) <= start /\ start < DayAt(0) + Day
    BY <1>1, Zeros, Lengths
  <2> QED BY <1>1, <2>1, DayIn
<1> QED BY <1>1, <1>2, <1>3

LEMMA InitOnTime == Init => OnTimeInv
<1> SUFFICES ASSUME Init PROVE ClocksOnTime /\ DailyOnTime /\ \A l \in Tables : TickOnTime(l)
  BY OnTimeParts
<1>1. /\ TypeOK /\ start \in Nat /\ now = start /\ toHour = Hour /\ toDay = Day
      /\ \A l \in Tables : "hourly" \notin pending[l]
      /\ "daily" \notin pending["health"]
  BY InitType, OffsetIs DEF Init, MinuteTicks, Loops, Tables
<1>2. ClocksOnTime
  BY <1>1 DEF ClocksOnTime
<1>3. ASSUME NEW l \in Tables PROVE TickOnTime(l)
  <2>1. NextTick(l) = start + Hour
    BY <1>1, TableTimes
  <2>2. HourAt(HourOf(start + Hour)) = HourAt(HourOf(start)) + Hour
    BY <1>1, PlusHour
  <2>3. Offset = start - HourAt(HourOf(start)) /\ HourAt(HourOf(start)) \in Int /\ Hour \in Int
    BY <1>1, OffsetIs, HourIn, Lengths
  <2> QED BY <1>1, <2>1, <2>2, <2>3 DEF TickOnTime
<1>4. DailyOnTime
  <2>1. NextDaily("health") = start + Day
    BY <1>1, TableTimes DEF Tables
  <2>2. DayAt(DayOf(start + Day)) = DayAt(DayOf(start)) + Day
    BY <1>1, PlusDay
  <2>3. DayOf(start) = 0 /\ DayAt(0) = 0 /\ Day \in Int
    BY <1>1, OffsetIs, Zeros, Lengths
  <2> QED BY <1>1, <2>1, <2>2, <2>3 DEF DailyOnTime
<1> QED BY <1>2, <1>3, <1>4

LEMMA NextClocksOnTime ==
  ASSUME TypeOK, ClocksOnTime, [Next]_vars, faults' = faults
  PROVE  ClocksOnTime'
<1>1. LoopType /\ TimeType /\ faults \in Nat
  BY TypeParts DEF TimeType
<1>2. CASE \E k \in Loops : LoopStep(k) \/ StatementError(k)
  <2>1. /\ toHour' = toHour /\ toDay' = toDay
        /\ \A l \in Loops : pending'[l] \subseteq pending[l]
    BY <1>1, <1>2 DEF LoopStep, aggregateHourly, pruneRaw, aggregateDaily, pruneHourly, SkipTick,
                      StatementError, Takes, GoesOn, LoopType, clocks
  <2> QED BY <2>1 DEF ClocksOnTime, Loops, Tables
<1>3. CASE startCleanup \/ deleteSupportPins \/ pruneOldJobs
  <2>1. /\ toHour' = toHour /\ toDay' = toDay
        /\ \A l \in Loops : pending'[l] \subseteq pending[l]
    BY <1>1, <1>3 DEF startCleanup, deleteSupportPins, pruneOldJobs, Takes, GoesOn, LoopType, clocks
  <2> QED BY <2>1 DEF ClocksOnTime, Loops, Tables
<1>4. CASE InTime
  <2>1. /\ toHour' = Ticking(toHour, Hour) /\ toDay' = Ticking(toDay, Day)
        /\ \A l \in Tables : "hourly" \in pending'[l] => toHour = 1
        /\ "daily" \in pending'["health"] => toDay = 1
    BY <1>1, <1>4 DEF InTime, AtRest, TimePasses, MinuteTicks, Loops, Tables
  <2> QED BY <2>1 DEF ClocksOnTime, Ticking
<1>5. CASE HeldUp \/ Restart
  BY <1>1, <1>5 DEF HeldUp, Restart, Fault
<1>6. CASE UNCHANGED vars
  BY <1>6 DEF vars, clocks, ClocksOnTime
<1> QED BY <1>2, <1>3, <1>4, <1>5, <1>6 DEF Next

(* What a step is to a loop while there is no fault.                         *)
LEMMA GoodKinds ==
  ASSUME TypeOK, ClockInv, [Next]_vars, NEW l \in Tables, faults' = 0
  PROVE  /\ faults = 0
         /\ \/ Idles(l) \/ PrunesRaw(l) \/ PrunesHourly(l)
            \/ TakesHourly(l) \/ TakesDaily(l) \/ Passes(l)
<1>1. faults \in Nat
  BY StepTimes
<1>2. StepKind(l)
  BY Kinds
<1> QED BY <1>1, <1>2
        DEF StepKind, Idles, PrunesRaw, PrunesHourly, Fails, TakesHourly, TakesDaily,
            Passes, HeldOver, StartsAgain

LEMMA NextOnTime == TypeOK /\ ClockInv /\ OnTimeInv /\ [Next]_vars => OnTimeInv'
<1> SUFFICES ASSUME TypeOK, ClockInv, OnTimeInv, [Next]_vars, faults' = 0
             PROVE  (ClocksOnTime /\ DailyOnTime /\ \A l \in Tables : TickOnTime(l))'
  <2>1. (OnTimeInv <=>
          (faults = 0 => ClocksOnTime /\ DailyOnTime /\ \A l \in Tables : TickOnTime(l)))'
    BY OnTimeParts, PTL
  <2> QED BY <2>1
<1>1. "health" \in Tables
  BY DEF Tables
<1>2. faults = 0 /\ ClocksOnTime /\ DailyOnTime /\ \A l \in Tables : TickOnTime(l)
  BY <1>1, GoodKinds, OnTimeParts
<1>3. ClocksOnTime'
  BY <1>2, NextClocksOnTime
<1>4. start' = start /\ Offset' = Offset
  BY <1>1, StepTimes DEF Offset
<1>5. ASSUME NEW l \in Tables PROVE TickOnTime(l)'
  <2>1. CASE NextTick(l)' = NextTick(l)
    BY <1>2, <1>4, <2>1 DEF TickOnTime, HourOf, HourAt
  <2>2. CASE NextTick(l) = now /\ NextTick(l)' = now + Hour
    <3>1. now = HourAt(HourOf(now)) + Offset /\ now \in Nat
      BY <1>2, <2>2, StepTimes DEF TickOnTime
    <3>2. HourAt(HourOf(now + Hour)) = HourAt(HourOf(now)) + Hour
      BY <3>1, PlusHour
    <3>3. HourAt(HourOf(now)) \in Int /\ Offset \in Nat /\ Hour \in Int
      BY <3>1, HourIn, OffsetIs, Lengths
    <3>4. now + Hour = HourAt(HourOf(now + Hour)) + Offset
      BY <3>1, <3>2, <3>3
    <3> QED BY <1>4, <2>2, <3>4 DEF TickOnTime, HourOf, HourAt
  <2>3. TakesHourly(l) => toHour = Hour
    BY <1>2 DEF TakesHourly, ClocksOnTime
  <2> QED BY <2>1, <2>2, <2>3, GoodKinds
          DEF Idles, PrunesRaw, PrunesHourly, TakesHourly, TakesDaily, Passes, SameTimes
<1>6. DailyOnTime'
  <2> DEFINE l == "health"
  <2>1. CASE NextDaily(l)' = NextDaily(l)
    BY <1>2, <1>4, <2>1 DEF DailyOnTime, DayOf, DayAt
  <2>2. CASE NextDaily(l) = now /\ NextDaily(l)' = now + Day
    <3>1. now = DayAt(DayOf(now)) + start /\ now \in Nat /\ start \in Nat
      BY <1>1, <1>2, <2>2, StepTimes DEF DailyOnTime
    <3>2. DayAt(DayOf(now + Day)) = DayAt(DayOf(now)) + Day
      BY <3>1, PlusDay
    <3>3. DayAt(DayOf(now)) \in Int /\ Day \in Int
      BY <3>1, DayIn, Lengths
    <3>4. now + Day = DayAt(DayOf(now + Day)) + start
      BY <3>1, <3>2, <3>3
    <3> QED BY <1>4, <2>2, <3>4 DEF DailyOnTime, DayOf, DayAt
  <2>3. TakesDaily(l) => toDay = Day
    BY <1>2 DEF TakesDaily, ClocksOnTime
  <2> QED BY <1>1, <2>1, <2>2, <2>3, GoodKinds
          DEF Idles, PrunesRaw, PrunesHourly, TakesHourly, TakesDaily, Passes, SameTimes
<1> QED BY <1>3, <1>5, <1>6
-----------------------------------------------------------------------------
(* What a summary of an hour keeps, with all going well.                     *)

Kept(l, r) ==
  /\ ( /\ HourAt(HourOf(r)) + hourlyRetention >= now
       /\ HourOf(r) + 1 < HourOf(NextTick(l)) /\ r % Hour >= Offset )
     => r \in hourly[l][HourOf(r)]
  /\ HourOf(r) + 2 < HourOf(NextTick(l)) /\ r \in hourly[l][HourOf(r)] => r % Hour >= Offset

LEMMA KeptParts ==
  KeptInv <=> (faults = 0 => \A l \in Tables : \A r \in start..now : Kept(l, r))
BY DEF KeptInv, Kept

(* The rows of the units that are not over are in the hour before the next
   tick, or in its own.                                                      *)
LEMMA HourNotOver ==
  ASSUME NEW t \in Nat, NEW n \in Nat, n <= t + Hour
  PROVE  HourOf(n) <= HourOf(t) + 1
<1>1. t + Hour \in Nat /\ HourOf(t + Hour) = HourOf(t) + 1
  BY PlusHour, Lengths
<1> QED BY <1>1, Later

LEMMA InitKept == Init => KeptInv
<1> SUFFICES ASSUME Init, NEW l \in Tables, NEW r \in start..now PROVE Kept(l, r)
  BY KeptParts
<1>1. TypeOK /\ start \in Nat /\ now = start
  BY InitType, OffsetIs DEF Init
<1>2. NextTick(l) \in Nat /\ NextTick(l) <= start + Hour
  BY <1>1, TimesIn DEF NextInTime
<1>3. HourOf(NextTick(l)) <= HourOf(start) + 1 /\ HourOf(start) \in Nat /\ HourOf(NextTick(l)) \in Nat
  BY <1>1, <1>2, HourNotOver, HourIn
<1>4. r = start
  BY <1>1
<1> QED BY <1>3, <1>4 DEF Kept

(* The tick in hour a writes the rows of hour a - 1, and of hour a - 2 those after
   the offset.                                                               *)
LEMMA TickWrites ==
  ASSUME TypeOK, RawInv, NEW l \in Tables, NEW r \in start..now, now = HourAt(HourOf(now)) + Offset
  PROVE  LET rows == raw[l] \cap Window(now)
         IN  /\ HourOf(r) + 1 = HourOf(now) => r \in rows
             /\ HourOf(r) + 2 = HourOf(now) =>
                  /\ r \in rows <=> r % Hour >= Offset
                  /\ rows \cap RowsOfHour(HourOf(r)) # {}
             /\ HourOf(r) + 2 < HourOf(now) => rows \cap RowsOfHour(HourOf(r)) = {}
<1> DEFINE rows == raw[l] \cap Window(now)
           a == HourOf(now)
           h == HourOf(r)
<1>1. /\ now \in Nat /\ r \in Nat /\ r <= now /\ a \in Nat /\ h \in Nat
      /\ Hour \in Nat \ {0} /\ rawRetention \in Nat /\ Hour + Hour + Hour <= rawRetention
      /\ now <= Horizon /\ Horizon \in Nat
  BY TypeParts, HourIn, Lengths DEF TimeType
<1>2. /\ HourAt(a) \in Int /\ now = HourAt(a) + Offset /\ Offset \in Nat /\ Offset < Hour
      /\ HourAt(h) \in Int /\ HourAt(h) <= r /\ r < HourAt(h) + Hour /\ r % Hour = r - HourAt(h)
  BY <1>1, HourIn, OffsetIs
<1> HIDE DEF a, h
<1>3. HourAt(h + 1) = HourAt(h) + Hour /\ HourAt(h + 2) = HourAt(h) + Hour + Hour
  BY <1>1, HourNext
<1>4. ASSUME NEW q \in Nat, q < now, q + Hour + Hour >= now, HourOf(q) < a PROVE q \in rows
  <2>1. q \in raw[l]
    BY <1>1, <1>4 DEF RawInv
  <2>2. q \in Window(now)
    BY <1>1, <1>4, WindowIs DEF a
  <2> QED BY <2>1, <2>2
<1>5. ASSUME h + 1 = a PROVE r \in rows
  <2>1. HourAt(a) = HourAt(h) + Hour
    BY <1>3, <1>5
  <2>2. r < now /\ r + Hour + Hour >= now /\ h < a
    BY <1>1, <1>2, <1>5, <2>1
  <2> QED BY <1>1, <1>4, <2>2 DEF h
<1>6. ASSUME h + 2 = a
      PROVE  /\ r \in rows <=> r % Hour >= Offset
             /\ rows \cap RowsOfHour(h) # {}
  <2>1. HourAt(a) = HourAt(h) + Hour + Hour
    BY <1>3, <1>6
  <2>2. r % Hour >= Offset => r \in rows
    <3>1. r % Hour >= Offset => r < now /\ r + Hour + Hour >= now /\ h < a
      BY <1>1, <1>2, <1>6, <2>1
    <3> QED BY <1>1, <1>4, <3>1 DEF h
  <2>3. r \in rows => r % Hour >= Offset
    <3>1. r \in rows => r + Hour + Hour >= now
      BY <1>1, WindowIs
    <3>2. r + Hour + Hour >= now => r % Hour >= Offset
      BY <1>1, <1>2, <2>1
    <3> QED BY <3>1, <3>2
  <2>4. rows \cap RowsOfHour(h) # {}
    <3> DEFINE q == HourAt(h) + Offset
    <3>1. HourAt(h) \in Nat
      BY <1>1, <1>2, HourOrder, Zeros
    <3>2. q \in Nat /\ HourAt(h) <= q /\ q < HourAt(h) + Hour /\ q < now /\ q + Hour + Hour >= now
      BY <1>1, <1>2, <2>1, <3>1
    <3> HIDE DEF q
    <3>3. HourOf(q) = h
      BY <1>1, <3>2, HourIn
    <3>4. q \in rows
      BY <1>1, <1>4, <1>6, <3>2, <3>3
    <3>5. q \in RowsOfHour(h)
      BY <1>1, <3>2, <3>3 DEF RowsOfHour
    <3> QED BY <3>4, <3>5
  <2> QED BY <2>2, <2>3, <2>4
<1>7. ASSUME h + 2 < a PROVE rows \cap RowsOfHour(h) = {}
  <2> SUFFICES ASSUME NEW q \in rows, q \in RowsOfHour(h) PROVE FALSE
    OBVIOUS
  <2>1. q \in Nat /\ q + Hour + Hour >= now /\ HourOf(q) = h
    BY <1>1, WindowIs DEF RowsOfHour
  <2>2. q < HourAt(h) + Hour
    BY <2>1, HourIn
  <2>3. HourAt(h + 2) + Hour <= HourAt(a)
    BY <1>1, <1>7, HourOrder
  <2> QED BY <1>1, <1>2, <1>3, <2>1, <2>2, <2>3
<1> QED BY <1>1, <1>5, <1>6, <1>7 DEF a, h

LEMMA NextKept ==
  TypeOK /\ ClockInv /\ OnTimeInv /\ RawInv /\ KeptInv /\ [Next]_vars => KeptInv'
<1> SUFFICES ASSUME TypeOK, ClockInv, OnTimeInv, RawInv, KeptInv, [Next]_vars, faults' = 0,
                    NEW l \in Tables, NEW r \in start'..now'
             PROVE  Kept(l, r)'
  <2>1. (KeptInv <=> (faults = 0 => \A l \in Tables : \A r \in start..now : Kept(l, r)))'
    BY KeptParts, PTL
  <2> QED BY <2>1
<1> DEFINE n == now'
           y == NextTick(l)'
           a == HourOf(NextTick(l))
           h == HourOf(r)
<1>1. /\ now \in Nat /\ n \in Nat /\ start' = start /\ start \in Nat /\ hourlyRetention \in Nat
      /\ NextTick(l) \in Nat /\ y \in Nat /\ y <= n + Hour
      /\ r \in start..n
  BY StepTimes, Lengths
<1>2. /\ faults = 0
      /\ \/ Idles(l) \/ PrunesRaw(l) \/ PrunesHourly(l)
         \/ TakesHourly(l) \/ TakesDaily(l) \/ Passes(l)
  BY GoodKinds
<1>3. n = now \/ n = now + 1
  BY <1>2 DEF Idles, PrunesRaw, PrunesHourly, TakesHourly, TakesDaily, Passes
<1>4. Kept(l, r)' <=>
        /\ HourAt(h) + hourlyRetention >= n /\ h + 1 < HourOf(y) /\ r % Hour >= Offset
             => r \in hourly'[l][h]
        /\ h + 2 < HourOf(y) /\ r \in hourly'[l][h] => r % Hour >= Offset
  BY <1>1 DEF Kept, HourAt, HourOf, Offset
<1>5. Kept(l, r) <=>
        /\ HourAt(h) + hourlyRetention >= now /\ h + 1 < a /\ r % Hour >= Offset
             => r \in hourly[l][h]
        /\ h + 2 < a /\ r \in hourly[l][h] => r % Hour >= Offset
  BY DEF Kept
<1>6. r \in Nat /\ HourOf(r) \in Nat /\ HourAt(HourOf(r)) \in Int
      /\ HourOf(y) \in Nat /\ HourOf(NextTick(l)) \in Nat
  BY <1>1, HourIn
<1>7. Offset \in Nat /\ r % Hour \in Int
  BY <1>6, OffsetIs, HourIn
<1>8. h \in 0..HourOf(Horizon) /\ r \in RowsOfHour(h)
  <2>1. n <= Horizon /\ Horizon \in Nat
    BY NextTimeType, Lengths DEF TimeType
  <2>2. r \in 0..Horizon
    <3> HIDE DEF n, y, a, h
    <3> QED BY <1>1, <1>6, <2>1
  <2>3. h \in Nat /\ h <= HourOf(Horizon) /\ HourOf(Horizon) \in Nat
    BY <1>6, <2>1, <2>2, Later, HourIn
  <2> QED BY <2>2, <2>3 DEF RowsOfHour
<1>9. y = NextTick(l) \/ (NextTick(l) = now /\ n = now /\ HourOf(y) = a + 1
                           /\ now = HourAt(HourOf(now)) + Offset)
  <2>1. CASE TakesHourly(l)
    <3>1. toHour = Hour /\ NextTick(l) = HourAt(HourOf(NextTick(l))) + Offset
      BY <1>2, <2>1, OnTimeParts DEF TakesHourly, ClocksOnTime, TickOnTime
    <3>2. NextTick(l) = now /\ y = now + Hour /\ n = now
      BY <2>1, <3>1 DEF TakesHourly
    <3> QED BY <1>1, <3>1, <3>2, PlusHour
  <2> QED BY <1>2, <2>1 DEF Idles, PrunesRaw, PrunesHourly, TakesDaily, Passes, SameTimes
<1> SUFFICES /\ HourAt(h) + hourlyRetention >= n /\ h + 1 < HourOf(y) /\ r % Hour >= Offset
                  => r \in hourly'[l][h]
             /\ h + 2 < HourOf(y) /\ r \in hourly'[l][h] => r % Hour >= Offset
  BY <1>4
<1>10. CASE n = now + 1 /\ r = n
  <2>1. HourOf(y) <= h + 1
    BY <1>1, <1>10, HourNotOver
  <2> HIDE DEF n, y, a, h
  <2> QED BY <1>6, <2>1 DEF h
<1>11. CASE r \in start..now
  <2>1. Kept(l, r) /\ (HourAt(h) + hourlyRetention >= n => HourAt(h) + hourlyRetention >= now)
    <3>1. Kept(l, r)
      BY <1>2, <1>11, KeptParts
    <3> HIDE DEF n, y, a
    <3> QED BY <1>1, <1>3, <1>6, <3>1
  <2>2. CASE y = NextTick(l) /\ hourly'[l][h] = hourly[l][h]
    BY <1>5, <2>1, <2>2
  <2>3. CASE TakesHourly(l)
    <3> DEFINE rows == raw[l] \cap Window(now)
    <3>1. /\ hourly'[l][h] = IF rows \cap RowsOfHour(h) = {} THEN hourly[l][h]
                             ELSE rows \cap RowsOfHour(h)
          /\ NextTick(l) = now
      BY <1>2, <1>8, <2>3 DEF TakesHourly
    <3>2. toHour = Hour /\ now = HourAt(HourOf(now)) + Offset
      BY <1>2, <2>3, <3>1, OnTimeParts DEF TakesHourly, ClocksOnTime, TickOnTime
    <3>3. HourOf(y) = a + 1
      BY <1>1, <2>3, <3>1, <3>2, PlusHour DEF TakesHourly
    <3>4. /\ h + 1 = a => r \in rows
          /\ h + 2 = a =>
               /\ r \in rows <=> r % Hour >= Offset
               /\ rows \cap RowsOfHour(h) # {}
          /\ h + 2 < a => rows \cap RowsOfHour(h) = {}
      BY <1>11, <3>1, <3>2, TickWrites
    <3>5. r \in RowsOfHour(h)
      BY <1>8
    <3> HIDE DEF rows, y, a, h, n
    <3>6. a \in Nat /\ h \in Nat
      BY <1>6 DEF a, h
    <3>7. CASE h + 1 = a
      <4>1. r \in hourly'[l][h]
        BY <3>1, <3>4, <3>5, <3>7
      <4> QED BY <3>3, <3>6, <3>7, <4>1
    <3>8. CASE h + 2 = a
      BY <3>1, <3>4, <3>5, <3>8
    <3>9. CASE h + 2 < a
      <4>1. hourly'[l][h] = hourly[l][h]
        BY <3>1, <3>4, <3>9
      <4>2. h + 1 < a
        BY <3>6, <3>9
      <4> QED BY <1>5, <2>1, <3>9, <4>1, <4>2
    <3>10. CASE h >= a
      BY <3>3, <3>6, <3>10
    <3> QED BY <3>6, <3>7, <3>8, <3>9, <3>10
  <2>4. CASE PrunesHourly(l)
    <3>1. hourly'[l][h] = IF HourAt(h) + hourlyRetention < now THEN {} ELSE hourly[l][h]
      BY <1>8, <2>4 DEF PrunesHourly
    <3>2. CASE HourAt(h) + hourlyRetention < now
      <4>1. hourly'[l][h] = {} /\ ~ (HourAt(h) + hourlyRetention >= n)
        <5>1. n = now
          BY <2>4 DEF PrunesHourly
        <5> HIDE DEF n, y, a
        <5> QED BY <1>1, <1>6, <3>1, <3>2, <5>1
      <4> QED BY <4>1
    <3>3. CASE ~ (HourAt(h) + hourlyRetention < now)
      BY <2>2, <2>4, <3>1, <3>3 DEF PrunesHourly, SameTimes
    <3> QED BY <3>2, <3>3
  <2> QED BY <1>2, <2>2, <2>3, <2>4
          DEF Idles, PrunesRaw, TakesDaily, Passes, SameTimes, SameTables
<1> HIDE DEF n, y, a, h
<1> QED BY <1>1, <1>3, <1>10, <1>11
-----------------------------------------------------------------------------
(* What a daily summary has, with all going well.                            *)

LEMMA HourFrom ==
  ASSUME NEW t \in Nat, NEW h \in Int, HourAt(h) <= t
  PROVE  h <= HourOf(t)
<1>1. /\ HourOf(t) \in Int /\ HourAt(HourOf(t)) \in Int /\ t < HourAt(HourOf(t)) + Hour
      /\ HourAt(h) \in Int /\ Hour \in Nat
  BY HourIn, HourOrder, Lengths
<1>2. HourAt(h) < HourAt(HourOf(t)) + Hour
  BY <1>1
<1> QED BY <1>1, <1>2, HourOrder

(* Rows that a daily summary counts when all goes well.                      *)
Counted(l, r) ==
  /\ r % Hour >= Offset
  /\ \/ HourOf(r) % HoursPerDay # HoursPerDay - 1
     \/ l = "health" /\ HourOf(start) # 0

LEMMA DailyParts ==
  DailyInv <=> (faults = 0 => \A l \in Tables : \A r \in start..now :
                  Counted(l, r) /\ DayOf(r) + 1 < DayOf(NextDaily(l)) => r \in daily[l][DayOf(r)])
BY DEF DailyInv, Counted

(* The daily run finds them in the hours of the day before.                  *)
LEMMA DayBefore ==
  ASSUME TypeOK, OnTimeInv, KeptInv, faults = 0, NEW l \in Tables, NextDaily(l) = now,
         NEW r \in start..now, Counted(l, r), DayOf(r) + 1 = DayOf(now)
  PROVE  r \in RowsOfDay(l, DayOf(r))
<1> DEFINE d == DayOf(r)
           h == HourOf(r)
           k == FirstHour(d + 1)
<1>1. /\ now \in Nat /\ start \in Nat /\ r \in Nat /\ r <= now
      /\ Hour \in Nat \ {0} /\ Day \in Nat /\ HoursPerDay \in Nat
      /\ hourlyRetention \in Nat /\ Day + Day <= hourlyRetention
      /\ NextTick(l) \in Nat /\ now <= NextTick(l)
  BY TypeParts, TimesIn, Lengths DEF TimeType, NextInTime
<1>2. /\ d \in Nat /\ h \in Nat /\ DayOf(HourAt(h)) = d
      /\ FirstHour(d) \in Int /\ FirstHour(d) <= h /\ h < FirstHour(d) + HoursPerDay
      /\ h % HoursPerDay = h - FirstHour(d)
  BY <1>1, DayIn, HourIn, HourInDay
<1>3. k = FirstHour(d) + HoursPerDay /\ k \in Int
  BY <1>2, FirstNext
<1>4. /\ DayAt(d) = HourAt(FirstHour(d)) /\ DayAt(d + 1) = HourAt(k) /\ DayAt(d) \in Int
      /\ DayAt(d + 1) = DayAt(d) + Day
      /\ DayAt(d + 1) <= now /\ now < DayAt(d + 1) + Day
  BY <1>1, <1>2, DayHours, DayNext, DayIn
<1>5. h <= HourOf(now) /\ HourOf(now) \in Nat /\ HourOf(NextTick(l)) \in Nat
      /\ HourOf(now) <= HourOf(NextTick(l))
  BY <1>1, Later, HourIn
<1>6. HourAt(h) + hourlyRetention >= now
  <2>1. HourAt(h) \in Int /\ HourAt(FirstHour(d)) <= HourAt(h)
    BY <1>2, HourOrder
  <2> HIDE DEF d, h, k
  <2> QED BY <1>1, <1>4, <2>1
<1>7. h + 1 < HourOf(NextTick(l))
  <2>1. k <= HourOf(now)
    BY <1>1, <1>3, <1>4, HourFrom
  <2>2. CASE h % HoursPerDay # HoursPerDay - 1
    <3> HIDE DEF d, h, k
    <3> QED BY <1>1, <1>2, <1>3, <1>5, <2>1, <2>2
  <2>3. CASE l = "health" /\ HourOf(start) # 0
    <3>1. now = DayAt(d + 1) + start
      BY <2>3, OnTimeParts DEF DailyOnTime
    <3>2. Hour <= start
      <4>1. HourOf(start) \in Nat /\ HourAt(HourOf(start)) <= start
        BY <1>1, HourIn
      <4>2. HourAt(1) <= HourAt(HourOf(start)) /\ HourAt(1) \in Int
            /\ HourAt(HourOf(start)) \in Int
        BY <2>3, <4>1, HourOrder
      <4>3. HourAt(1) = Hour
        BY <1>1 DEF HourAt
      <4> QED BY <1>1, <4>1, <4>2, <4>3
    <3>3. HourAt(k + 1) = HourAt(k) + Hour /\ HourAt(k) \in Int
      BY <1>3, HourNext
    <3> HIDE DEF d, h, k
    <3>4. HourAt(k + 1) <= now
      BY <1>1, <1>4, <3>1, <3>2, <3>3
    <3>5. k + 1 <= HourOf(now)
      BY <1>1, <1>3, <3>4, HourFrom
    <3> QED BY <1>1, <1>2, <1>3, <1>5, <3>5
  <2> QED BY <2>2, <2>3 DEF Counted
<1>8. r \in hourly[l][h]
  BY <1>6, <1>7, KeptParts DEF Kept, Counted
<1>9. h \in HoursOfDayBefore(now)
  BY <1>2, <1>5 DEF HoursOfDayBefore, HourAt
<1> QED BY <1>2, <1>8, <1>9 DEF RowsOfDay

LEMMA InitDaily == Init => DailyInv
<1> SUFFICES ASSUME Init, NEW l \in Tables, NEW r \in start..now,
                    DayOf(r) + 1 < DayOf(NextDaily(l))
             PROVE  FALSE
  BY DailyParts
<1>1. TypeOK /\ start \in Nat /\ now = start
  BY InitType, OffsetIs DEF Init
<1>2. NextDaily(l) \in Nat /\ NextDaily(l) <= start + Day /\ start + Day \in Nat
  BY <1>1, TimesIn, Lengths DEF NextInTime
<1>3. DayOf(NextDaily(l)) <= DayOf(start) + 1
  BY <1>1, <1>2, Later, PlusDay
<1>4. r = start /\ DayOf(start) \in Nat /\ DayOf(NextDaily(l)) \in Nat
  BY <1>1, <1>2, DayIn
<1> QED BY <1>3, <1>4

LEMMA NextDailyInv ==
  TypeOK /\ ClockInv /\ OnTimeInv /\ KeptInv /\ DailyInv /\ [Next]_vars => DailyInv'
<1> SUFFICES ASSUME TypeOK, ClockInv, OnTimeInv, KeptInv, DailyInv, [Next]_vars, faults' = 0,
                    NEW l \in Tables, NEW r \in start'..now',
                    Counted(l, r)', DayOf(r) + 1 < DayOf(NextDaily(l)')
             PROVE  r \in daily'[l][DayOf(r)]
  <2>1. (DailyInv <=> (faults = 0 => \A l \in Tables : \A r \in start..now :
           Counted(l, r) /\ DayOf(r) + 1 < DayOf(NextDaily(l)) => r \in daily[l][DayOf(r)]))'
    BY DailyParts, PTL
  <2> QED BY <2>1 DEF DayOf
<1> DEFINE n == now'
           y == NextDaily(l)'
           d == DayOf(r)
<1>1. /\ now \in Nat /\ n \in Nat /\ start' = start /\ start \in Nat
      /\ NextDaily(l) \in Nat /\ y \in Nat /\ y <= n + Day /\ Day \in Nat
      /\ r \in start..n /\ n <= Horizon /\ Horizon \in Nat
  BY StepTimes, NextTimeType, Lengths DEF TimeType
<1>2. /\ faults = 0
      /\ \/ Idles(l) \/ PrunesRaw(l) \/ PrunesHourly(l)
         \/ TakesHourly(l) \/ TakesDaily(l) \/ Passes(l)
  BY GoodKinds
<1>3. n = now \/ n = now + 1
  BY <1>2 DEF Idles, PrunesRaw, PrunesHourly, TakesHourly, TakesDaily, Passes
<1>4. Counted(l, r) /\ d + 1 < DayOf(y)
  BY <1>1 DEF Counted, HourOf, Offset
<1>5. r \in Nat /\ r <= Horizon
  <2> HIDE DEF n, y, d
  <2> QED BY <1>1
<1>6. d \in 0..DayOf(Horizon)
  <2>1. d \in Nat /\ d <= DayOf(Horizon) /\ DayOf(Horizon) \in Nat
    BY <1>1, <1>5, Later, DayIn
  <2> QED BY <2>1
<1>7. r \in start..now
  <2>1. ASSUME r = n PROVE FALSE
    <3>1. DayOf(y) <= DayOf(n) + 1
      BY <1>1, Later, PlusDay
    <3>2. DayOf(y) \in Nat /\ DayOf(n) \in Nat
      BY <1>1, DayIn
    <3> HIDE DEF n, y
    <3> QED BY <1>4, <2>1, <3>1, <3>2
  <2> HIDE DEF n, y, d
  <2> QED BY <1>1, <1>3, <2>1
<1>8. CASE y = NextDaily(l) /\ daily'[l] = daily[l]
  BY <1>2, <1>4, <1>7, <1>8, DailyParts
<1>9. CASE TakesDaily(l)
  <2>1. /\ daily'[l][d] = IF RowsOfDay(l, d) = {} THEN daily[l][d] ELSE RowsOfDay(l, d)
        /\ NextDaily(l) = now
    BY <1>2, <1>6, <1>9 DEF TakesDaily
  <2>2. DayOf(y) = DayOf(now) + 1 /\ DayOf(now) \in Nat
    <3>1. toDay = Day \/ l = "metrics"
      BY <1>2, <1>9, OnTimeParts DEF TakesDaily, ClocksOnTime
    <3>2. y = now + Day
      BY <1>9, <3>1 DEF TakesDaily
    <3> QED BY <1>1, <3>2, PlusDay, DayIn
  <2> HIDE DEF y, d, n
  <2>3. d + 1 = DayOf(now) \/ d + 1 < DayOf(now)
    BY <1>4, <1>6, <2>2
  <2>4. CASE d + 1 = DayOf(now)
    <3>1. r \in RowsOfDay(l, d)
      BY <1>2, <1>4, <1>7, <2>1, <2>4, DayBefore DEF d
    <3> QED BY <2>1, <3>1 DEF d
  <2>5. CASE d + 1 < DayOf(now)
    <3>1. r \in daily[l][d]
      BY <1>2, <1>4, <1>7, <2>1, <2>5, DailyParts DEF d
    <3>2. RowsOfDay(l, d) = {}
      <4>1. d + 1 # DayOf(now)
        BY <1>6, <2>2, <2>5
      <4> QED BY <4>1 DEF RowsOfDay, HoursOfDayBefore, HourAt
    <3> QED BY <2>1, <3>1, <3>2 DEF d
  <2> QED BY <2>3, <2>4, <2>5
<1> QED BY <1>2, <1>8, <1>9
        DEF Idles, PrunesRaw, PrunesHourly, TakesHourly, Passes, SameTimes, SameTables
-----------------------------------------------------------------------------
(* Lost days: what a fault puts off costs the summary of one day at most.    *)

(* The tick at time t is too late for day d, with day e the next to be run.  *)
Behind(d, e, t) ==
  HourAt(FirstHour(d) + 2) <= t /\ (d + 1 = e => HourAt(FirstHour(d) + 3) <= t)

LEMMA DayFrom ==
  ASSUME NEW t \in Nat, NEW d \in Int, DayAt(d) <= t
  PROVE  d <= DayOf(t)
<1>1. /\ DayOf(t) \in Int /\ DayAt(DayOf(t)) \in Int /\ t < DayAt(DayOf(t)) + Day
      /\ DayAt(d) \in Int /\ Day \in Nat
  BY DayIn, DayOrder, Lengths
<1>2. DayAt(d) < DayAt(DayOf(t)) + Day
  BY <1>1
<1> QED BY <1>1, <1>2, DayOrder

(* The first four hours of a day.                                            *)
LEMMA FirstHours ==
  ASSUME NEW d \in Int
  PROVE  /\ FirstHour(d) \in Int /\ DayAt(d) \in Int
         /\ HourAt(FirstHour(d)) = DayAt(d) /\ HourAt(FirstHour(d) + 1) = DayAt(d) + Hour
         /\ HourAt(FirstHour(d) + 2) = DayAt(d) + Hour + Hour
         /\ HourAt(FirstHour(d) + 3) = DayAt(d) + Hour + Hour + Hour
<1>1. FirstHour(d) \in Int
  BY FirstOrder
<1>2. HourAt(FirstHour(d)) = DayAt(d) /\ HourAt(FirstHour(d)) \in Int
  BY <1>1, DayHours, HourOrder
<1> QED BY <1>1, <1>2, HourNext

(* A tick put off by an hour is too late for one day more.                   *)
LEMMA OneDayBehind ==
  ASSUME NEW e \in Int, NEW t \in Nat, NEW u \in Nat, u <= t + Hour
  PROVE  \E c \in Int : \A d \in Int : Behind(d, e, u) => Behind(d, e, t) \/ d = c
<1>1. ASSUME NEW a \in Int, NEW b \in Int, a < b, Behind(b, e, u), ~ Behind(a, e, t) PROVE FALSE
  <2>1. /\ DayAt(a) \in Int /\ DayAt(b) \in Int /\ DayAt(a) + Day <= DayAt(b)
    BY <1>1, DayOrder
  <2>2. DayAt(b) + Hour + Hour <= u
    BY <1>1, FirstHours DEF Behind
  <2>3. ~ (DayAt(a) + Hour + Hour <= t) \/ ~ (DayAt(a) + Hour + Hour + Hour <= t)
    BY <1>1, FirstHours DEF Behind
  <2> QED BY <2>1, <2>2, <2>3, Lengths
<1>2. CASE \E c \in Int : Behind(c, e, u) /\ ~ Behind(c, e, t)
  <2>1. PICK c \in Int : Behind(c, e, u) /\ ~ Behind(c, e, t)
    BY <1>2
  <2>2. ASSUME NEW d \in Int, Behind(d, e, u), ~ Behind(d, e, t) PROVE d = c
    <3>1. ~ (d < c) /\ ~ (c < d)
      BY <1>1, <2>1, <2>2
    <3> QED BY <3>1
  <2> QED BY <2>2
<1>3. CASE ~ \E c \in Int : Behind(c, e, u) /\ ~ Behind(c, e, t)
  <2>1. 0 \in Int
    OBVIOUS
  <2> QED BY <1>3, <2>1
<1> QED BY <1>2, <1>3

(* When the next daily run, due today, is put off to tomorrow, it will not look
   at yesterday.                                                             *)
LEMMA DayTurns ==
  ASSUME NEW n \in Nat, NEW t \in Nat, NEW u \in Nat, n <= t, u <= n + Hour, NEW d \in Int,
         d + 1 < DayOf(n) + 1 \/ Behind(d, DayOf(n) + 1, u)
  PROVE  d + 1 < DayOf(n) \/ Behind(d, DayOf(n), t) \/ d = DayOf(n) - 1
<1> DEFINE e == DayOf(n)
<1>1. /\ e \in Nat /\ DayAt(e) \in Int /\ DayAt(e) <= n /\ n < DayAt(e) + Day
      /\ DayAt(d) \in Int /\ Hour \in Nat \ {0} /\ Day \in Nat
  BY DayIn, DayOrder, Lengths
<1> HIDE DEF e
<1>2. CASE d < e
  BY <1>1, <1>2 DEF e
<1>3. CASE d = e
  <2>1. Behind(e, e + 1, u)
    BY <1>1, <1>3 DEF e
  <2>2. DayAt(e) + Hour + Hour + Hour <= u
    BY <1>1, <2>1, FirstHours DEF Behind
  <2>3. DayAt(e) + Hour + Hour <= t
    BY <1>1, <2>2
  <2> QED BY <1>1, <1>3, <2>3, FirstHours DEF Behind, e
<1>4. CASE d > e
  <2>1. Behind(d, e + 1, u)
    BY <1>1, <1>4 DEF e
  <2>2. DayAt(d) + Hour + Hour <= u
    BY <2>1, FirstHours DEF Behind
  <2>3. DayAt(e) + Day <= DayAt(d)
    BY <1>1, <1>4, DayOrder
  <2> QED BY <1>1, <2>2, <2>3
<1> QED BY <1>1, <1>2, <1>3, <1>4

(* A restart at midnight can only bring the day's run back.                  *)
LEMMA AtMidnight ==
  ASSUME NEW n \in Nat, Midnight(n), NEW u \in Nat, u <= n + Hour, NEW d \in Int,
         d + 1 < DayOf(n) \/ Behind(d, DayOf(n), u)
  PROVE  d + 1 < DayOf(n) + 1
<1> DEFINE e == DayOf(n)
<1>1. /\ e \in Nat /\ DayAt(e) = n /\ DayAt(d) \in Int /\ Hour \in Nat \ {0} /\ Day \in Nat
  BY DayIn, DayOrder, Lengths
<1> HIDE DEF e
<1>2. ASSUME d >= e PROVE FALSE
  <2>1. Behind(d, e, u)
    BY <1>1, <1>2 DEF e
  <2>2. DayAt(d) + Hour + Hour <= u
    BY <2>1, FirstHours DEF Behind
  <2>3. DayAt(e) <= DayAt(d)
    BY <1>1, <1>2, DayOrder
  <2> QED BY <1>1, <2>2, <2>3
<1> QED BY <1>1, <1>2 DEF e

(* Days for which nothing was written yet, in the two ways.                  *)
Unsummed(l, d) == start <= DayAt(d) /\ daily[l][d] = {}

LEMMA LostIs ==
  ASSUME NEW l \in Tables, NEW d \in 0..DayOf(Horizon)
  PROVE  d \in Lost(l) <=>
           /\ Unsummed(l, d)
           /\ \/ d + 1 < DayOf(NextDaily(l))
              \/ ~ Filled(l, d) /\ Behind(d, DayOf(NextDaily(l)), NextTick(l))
BY DEF Lost, Unsummed, Behind

LEMMA LostFinite ==
  ASSUME NEW l
  PROVE  /\ Lost(l) \subseteq 0..DayOf(Horizon)
         /\ IsFiniteSet(Lost(l)) /\ Cardinality(Lost(l)) \in Nat
<1>1. DayOf(Horizon) \in Int
  BY DayIn, Lengths
<1>2. IsFiniteSet(0..DayOf(Horizon)) /\ Lost(l) \in SUBSET (0..DayOf(Horizon))
  BY <1>1, FS_Interval DEF Lost
<1> QED BY <1>2, FS_Subset, FS_CardinalityType

LEMMA InitLost == Init => LostInv
<1> SUFFICES ASSUME Init, NEW l \in Tables PROVE Cardinality(Lost(l)) <= faults
  BY DEF LostInv
<1>1. TypeOK /\ start \in Nat /\ now = start /\ faults = 0
  BY InitType, OffsetIs DEF Init
<1>2. /\ NextTick(l) \in Nat /\ NextTick(l) <= start + Hour
      /\ NextDaily(l) \in Nat /\ NextDaily(l) <= start + Day /\ start + Day \in Nat
      /\ Hour \in Nat \ {0}
  BY <1>1, TimesIn, Lengths DEF NextInTime
<1>3. DayOf(NextDaily(l)) <= 1 /\ DayOf(NextDaily(l)) \in Nat
  <2>1. DayOf(NextDaily(l)) <= DayOf(start + Day) /\ DayOf(start + Day) = DayOf(start) + 1
    BY <1>1, <1>2, Later, PlusDay
  <2>2. DayOf(start) = 0
    BY <1>1, OffsetIs
  <2> QED BY <1>2, <2>1, <2>2, DayIn
<1>4. Lost(l) = {}
  <2> SUFFICES ASSUME NEW d \in Lost(l) PROVE FALSE
    OBVIOUS
  <2>1. d \in 0..DayOf(Horizon) /\ d \in Int
    BY LostFinite
  <2>2. start <= DayAt(d) /\ (d + 1 < DayOf(NextDaily(l)) \/ HourAt(FirstHour(d) + 2) <= NextTick(l))
    BY <2>1, LostIs DEF Unsummed, Behind
  <2>3. HourAt(FirstHour(d) + 2) <= NextTick(l)
    BY <1>3, <2>1, <2>2
  <2>4. DayAt(d) \in Int /\ HourAt(FirstHour(d) + 2) = DayAt(d) + Hour + Hour
    BY <2>1, FirstHours
  <2> QED BY <1>1, <1>2, <2>2, <2>3, <2>4
<1> QED BY <1>1, <1>4, FS_EmptySet

LEMMA FilledIs ==
  ASSUME TypeOK, NEW l \in Tables, NEW d
  PROVE  Filled(l, d) <=> \E h \in 0..HourOf(Horizon) : DayOf(HourAt(h)) = d /\ hourly[l][h] # {}
<1>1. DOMAIN hourly[l] = 0..HourOf(Horizon)
  BY TypeParts DEF TableType
<1> QED BY <1>1 DEF Filled

LEMMA FilledNext ==
  ASSUME TypeOK, [Next]_vars, NEW l \in Tables, NEW d \in Int
  PROVE  Filled(l, d)' <=> \E h \in 0..HourOf(Horizon) : DayOf(HourAt(h)) = d /\ hourly'[l][h] # {}
<1>1. DOMAIN hourly'[l] = 0..HourOf(Horizon)
  BY NextTableType DEF TableType, HourOf
<1>2. Filled(l, d)' <=> \E h \in DOMAIN hourly'[l] : DayOf(HourAt(h)) = d /\ hourly'[l][h] # {}
  BY DEF Filled, DayOf, HourAt
<1> QED BY <1>1, <1>2

LEMMA LostNext ==
  ASSUME TypeOK, [Next]_vars, NEW l \in Tables
  PROVE  \A d \in Lost(l)' :
           /\ d \in 0..DayOf(Horizon) /\ start <= DayAt(d) /\ daily'[l][d] = {}
           /\ \/ d + 1 < DayOf(NextDaily(l)')
              \/ /\ Behind(d, DayOf(NextDaily(l)'), NextTick(l)')
                 /\ ~ \E h \in 0..HourOf(Horizon) : DayOf(HourAt(h)) = d /\ hourly'[l][h] # {}
<1> SUFFICES ASSUME NEW d \in Lost(l)'
             PROVE  /\ d \in 0..DayOf(Horizon) /\ start <= DayAt(d) /\ daily'[l][d] = {}
                    /\ \/ d + 1 < DayOf(NextDaily(l)')
                       \/ /\ Behind(d, DayOf(NextDaily(l)'), NextTick(l)')
                          /\ ~ \E h \in 0..HourOf(Horizon) : DayOf(HourAt(h)) = d /\ hourly'[l][h] # {}
  OBVIOUS
<1>1. start' = start
  BY StepTimes
<1>2. /\ d \in 0..DayOf(Horizon) /\ start <= DayAt(d) /\ daily'[l][d] = {}
      /\ \/ d + 1 < DayOf(NextDaily(l)')
         \/ Behind(d, DayOf(NextDaily(l)'), NextTick(l)') /\ ~ Filled(l, d)'
  BY <1>1 DEF Lost, Behind, DayOf, HourAt, DayAt, FirstHour, Filled
<1>3. d \in Int
  BY <1>2
<1> QED BY <1>2, <1>3, FilledNext

(* A step that leaves the summaries alone.                                   *)
LEMMA SameLost ==
  ASSUME TypeOK, [Next]_vars, NEW l \in Tables, NEW c \in Int,
         hourly'[l] = hourly[l], daily'[l] = daily[l],
         \A d \in Int : d + 1 < DayOf(NextDaily(l)') => d + 1 < DayOf(NextDaily(l)) \/ d = c,
         \A d \in Int : Behind(d, DayOf(NextDaily(l)'), NextTick(l)') =>
           d + 1 < DayOf(NextDaily(l)) \/ Behind(d, DayOf(NextDaily(l)), NextTick(l)) \/ d = c
  PROVE  Lost(l)' \subseteq Lost(l) \cup {c}
<1> SUFFICES ASSUME NEW d \in Lost(l)', d # c PROVE d \in Lost(l)
  OBVIOUS
<1>1. /\ d \in 0..DayOf(Horizon) /\ start <= DayAt(d) /\ daily[l][d] = {}
      /\ \/ d + 1 < DayOf(NextDaily(l)')
         \/ Behind(d, DayOf(NextDaily(l)'), NextTick(l)') /\ ~ Filled(l, d)
  BY LostNext, FilledIs
<1>2. \/ d + 1 < DayOf(NextDaily(l))
      \/ Behind(d, DayOf(NextDaily(l)), NextTick(l)) /\ ~ Filled(l, d)
  BY <1>1
<1> QED BY <1>1, <1>2, LostIs DEF Unsummed

LEMMA NoneLost ==
  ASSUME TypeOK, [Next]_vars, NEW l \in Tables, SameTimes(l),
         hourly'[l] = hourly[l], daily'[l] = daily[l]
  PROVE  Lost(l)' \subseteq Lost(l)
<1>1. Lost(l)' \subseteq Lost(l) \cup {-1}
  BY SameLost DEF SameTimes
<1>2. -1 \notin Lost(l)'
  BY LostNext
<1> QED BY <1>1, <1>2

(* The hours of a day that is still to be summed up are not deleted.         *)
LEMMA PruneLosesNone ==
  ASSUME TypeOK, [Next]_vars, NEW l \in Tables, PrunesHourly(l)
  PROVE  Lost(l)' \subseteq Lost(l)
<1> SUFFICES ASSUME NEW d \in Lost(l)', d \notin Lost(l) PROVE FALSE
  OBVIOUS
<1> DEFINE e == DayOf(NextDaily(l))
           k == NextTick(l)
<1>1. /\ now \in Nat /\ NextDaily(l) \in Nat /\ now <= NextDaily(l)
      /\ Hour \in Nat /\ Day \in Nat /\ hourlyRetention \in Nat /\ Day + Day <= hourlyRetention
  BY StepTimes, Lengths
<1>2. NextTick(l)' = k /\ DayOf(NextDaily(l)') = e /\ daily'[l] = daily[l]
  BY DEF PrunesHourly, SameTimes
<1>3. /\ d \in 0..DayOf(Horizon) /\ Unsummed(l, d)
      /\ \/ d + 1 < e
         \/ /\ Behind(d, e, k)
            /\ ~ \E h \in 0..HourOf(Horizon) : DayOf(HourAt(h)) = d /\ hourly'[l][h] # {}
  BY <1>2, LostNext DEF Unsummed
<1>4. ~ (d + 1 < e) /\ (Filled(l, d) \/ ~ Behind(d, e, k))
  BY <1>3, LostIs
<1>5. Filled(l, d) /\ ~ \E h \in 0..HourOf(Horizon) : DayOf(HourAt(h)) = d /\ hourly'[l][h] # {}
  BY <1>3, <1>4
<1>6. PICK h \in 0..HourOf(Horizon) : DayOf(HourAt(h)) = d /\ hourly[l][h] # {}
  BY <1>5, FilledIs
<1>7. HourAt(h) + hourlyRetention < now
  BY <1>5, <1>6 DEF PrunesHourly
<1>8. DayAt(d) <= HourAt(h) /\ HourAt(h) \in Int /\ DayAt(d) \in Int
  <2>1. h \in Nat /\ HourAt(h) \in Nat
    BY <1>6, DayOfHour
  <2> QED BY <1>6, <2>1, DayIn
<1>9. e \in Nat /\ NextDaily(l) < DayAt(e) + Day /\ DayAt(e) \in Int
  BY <1>1, DayIn
<1>10. DayAt(e) <= DayAt(d + 1) /\ DayAt(d + 1) = DayAt(d) + Day
  <2>1. d \in Int /\ d + 1 \in Int
    BY <1>3
  <2>2. e <= d + 1
    BY <1>4, <1>9, <2>1
  <2> QED BY <1>9, <2>1, <2>2, DayOrder, DayNext
<1> QED BY <1>1, <1>7, <1>8, <1>9, <1>10

(* The tick in the second hour of a day, or the third, sums one of them up.  *)
LEMMA HourSummed ==
  ASSUME TypeOK, RawInv, NEW l \in Tables, NEW k \in Nat,
         HourAt(k) + Hour <= now, now <= HourAt(k) + Hour + Hour
  PROVE  raw[l] \cap Window(now) \cap RowsOfHour(k) # {} /\ k \in 0..HourOf(Horizon)
<1> DEFINE r == HourAt(k)
<1>1. /\ now \in Nat /\ now <= Horizon /\ Horizon \in Nat /\ Hour \in Nat \ {0}
      /\ rawRetention \in Nat /\ Hour + Hour + Hour <= rawRetention
  BY TypeParts, Lengths DEF TimeType
<1>2. r \in Nat /\ HourOf(r) = k /\ HourAt(k + 1) = r + Hour
  BY DayOfHour, HourNext
<1> HIDE DEF r
<1>3. r + Hour <= now /\ now <= r + Hour + Hour
  BY DEF r
<1>4. k + 1 <= HourOf(now) /\ HourOf(now) \in Nat
  <2>1. HourAt(k + 1) <= now /\ k + 1 \in Int
    BY <1>2, <1>3
  <2>2. k + 1 <= HourOf(now)
    BY ONLY <1>1, <2>1, HourFrom
  <2> QED BY <1>1, <2>2, HourIn
<1>5. r \in raw[l]
  <2>1. r \in 0..(now - 1) /\ r + rawRetention >= now
    BY <1>1, <1>2, <1>3
  <2> QED BY <2>1 DEF RawInv
<1>6. r \in Window(now)
  <2>1. r \in 0..now /\ r + Hour + Hour >= now /\ HourOf(r) < HourOf(now)
    BY <1>1, <1>2, <1>3, <1>4
  <2> QED BY <1>1, <2>1, WindowIs
<1>7. r \in RowsOfHour(k)
  <2>1. r \in 0..Horizon
    BY <1>1, <1>2, <1>3
  <2> QED BY <1>2, <2>1 DEF RowsOfHour
<1>8. k <= HourOf(Horizon) /\ HourOf(Horizon) \in Nat
  <2>1. HourAt(k) <= Horizon
    BY <1>1, <1>2, <1>3 DEF r
  <2> QED BY <1>1, <2>1, HourFrom, HourIn
<1> QED BY <1>5, <1>6, <1>7, <1>8

LEMMA TickLosesNone ==
  ASSUME TypeOK, RawInv, [Next]_vars, NEW l \in Tables, TakesHourly(l), faults' = faults
  PROVE  Lost(l)' \subseteq Lost(l)
<1> SUFFICES ASSUME NEW d \in Lost(l)', d \notin Lost(l) PROVE FALSE
  OBVIOUS
<1> DEFINE e == DayOf(NextDaily(l))
           y == NextTick(l)'
           k == FirstHour(d)
<1>1. /\ now \in Nat /\ y \in Nat /\ y <= now + Hour /\ Hour \in Nat \ {0} /\ HoursPerDay \in Nat
      /\ HoursPerDay >= 3 /\ faults \in Nat
      /\ NextTick(l) = now
  BY StepTimes, Lengths DEF TakesHourly
<1>2. /\ DayOf(NextDaily(l)') = e /\ daily'[l] = daily[l]
      /\ \A h \in 0..HourOf(Horizon) :
           LET rows == raw[l] \cap Window(now) \cap RowsOfHour(h)
           IN  hourly'[l][h] = IF rows = {} THEN hourly[l][h] ELSE rows
  BY <1>1 DEF TakesHourly
<1>3. /\ d \in 0..DayOf(Horizon) /\ Unsummed(l, d)
      /\ \/ d + 1 < e
         \/ /\ Behind(d, e, y)
            /\ ~ \E h \in 0..HourOf(Horizon) : DayOf(HourAt(h)) = d /\ hourly'[l][h] # {}
  BY <1>2, LostNext DEF Unsummed
<1>4. ~ (d + 1 < e) /\ (Filled(l, d) \/ ~ Behind(d, e, now))
  BY <1>1, <1>3, LostIs
<1>5. Behind(d, e, y) /\ ~ \E h \in 0..HourOf(Horizon) : DayOf(HourAt(h)) = d /\ hourly'[l][h] # {}
  BY <1>3, <1>4
<1>6. ~ Filled(l, d)
  BY <1>2, <1>5, FilledIs
<1>7. ~ Behind(d, e, now)
  BY <1>4, <1>6
<1>8. ASSUME NEW h \in Nat, DayOf(HourAt(h)) = d, HourAt(h) + Hour <= now, now <= HourAt(h) + Hour + Hour
      PROVE  FALSE
  BY <1>2, <1>5, <1>8, HourSummed
<1>9. d \in Nat /\ DayAt(d) \in Int
  BY <1>3, FirstHours
<1>10. k \in Nat /\ k + 1 \in Nat /\ DayOf(HourAt(k)) = d /\ DayOf(HourAt(k + 1)) = d
  <2>1. k \in Nat
    <3>1. FirstHour(0) <= FirstHour(d) /\ FirstHour(d) \in Int /\ FirstHour(0) = 0
      BY <1>9, FirstOrder, Zeros
    <3> QED BY <3>1
  <2>2. k + 1 \in Nat /\ k <= k /\ k < k + HoursPerDay /\ k <= k + 1 /\ k + 1 < k + HoursPerDay
    BY <1>1, <2>1
  <2>3. DayOf(HourAt(k)) = d
    BY <1>9, <2>1, <2>2, DayOfHour
  <2>4. DayOf(HourAt(k + 1)) = d
    BY <1>9, <2>2, DayOfHour
  <2> QED BY <2>1, <2>2, <2>3, <2>4
<1>11. /\ HourAt(k) = DayAt(d) /\ HourAt(k + 1) = DayAt(d) + Hour
       /\ Behind(d, e, now) <=> /\ DayAt(d) + Hour + Hour <= now
                                /\ d + 1 = e => DayAt(d) + Hour + Hour + Hour <= now
       /\ Behind(d, e, y) <=> /\ DayAt(d) + Hour + Hour <= y
                              /\ d + 1 = e => DayAt(d) + Hour + Hour + Hour <= y
  BY <1>9, FirstHours DEF Behind
<1> HIDE DEF e, y, k
<1>12. CASE DayAt(d) + Hour + Hour > now
  BY <1>1, <1>5, <1>8, <1>9, <1>10, <1>11, <1>12
<1>13. CASE d + 1 = e /\ DayAt(d) + Hour + Hour + Hour > now
  BY <1>1, <1>5, <1>8, <1>9, <1>10, <1>11, <1>13
<1> QED BY <1>1, <1>7, <1>9, <1>11, <1>12, <1>13

LEMMA RunLosesNone ==
  ASSUME TypeOK, [Next]_vars, NEW l \in Tables, TakesDaily(l), faults' = faults
  PROVE  Lost(l)' \subseteq Lost(l)
<1> SUFFICES ASSUME NEW d \in Lost(l)' PROVE d \in Lost(l)
  OBVIOUS
<1> DEFINE e == DayOf(now)
           q == DayOf(NextDaily(l)')
           x == NextTick(l)
<1>1. /\ now \in Nat /\ x \in Nat /\ now <= x /\ NextDaily(l) = now
      /\ Hour \in Nat \ {0} /\ Day \in Nat /\ Hour + Hour + Hour <= Day /\ faults \in Nat
  BY StepTimes, Lengths DEF TakesDaily
<1>2. /\ NextTick(l)' = x /\ hourly'[l] = hourly[l]
      /\ \A c \in 0..DayOf(Horizon) :
           daily'[l][c] = IF RowsOfDay(l, c) = {} THEN daily[l][c] ELSE RowsOfDay(l, c)
  BY <1>1 DEF TakesDaily
<1>3. q \in Nat /\ q <= e + 1 /\ e \in Nat /\ DayAt(e) \in Int /\ DayAt(e) <= now
  <2>1. NextDaily(l)' \in Nat /\ NextDaily(l)' <= now + Day /\ now + Day \in Nat
    BY <1>1, StepTimes DEF TakesDaily
  <2> QED BY <1>1, <2>1, Later, PlusDay, DayIn
<1>4. /\ d \in 0..DayOf(Horizon) /\ start <= DayAt(d) /\ daily'[l][d] = {}
      /\ \/ d + 1 < q
         \/ Behind(d, q, x) /\ ~ Filled(l, d)
  BY <1>2, LostNext, FilledIs
<1>5. Unsummed(l, d) /\ RowsOfDay(l, d) = {}
  BY <1>2, <1>4 DEF Unsummed
<1>6. d \in Lost(l) <=> d + 1 < e \/ (~ Filled(l, d) /\ Behind(d, e, x))
  BY <1>1, <1>4, <1>5, LostIs
<1>7. DayAt(d) \in Int /\ DayAt(d + 1) = DayAt(d) + Day /\ d \in Int
  BY <1>4, DayNext
<1>8. CASE d + 1 = e
  <2>1. Behind(d, e, x)
    <3>1. DayAt(d) + Day <= now
      BY <1>3, <1>7, <1>8
    <3> HIDE DEF e, x
    <3>2. DayAt(d) + Hour + Hour <= x /\ DayAt(d) + Hour + Hour + Hour <= x
      BY <1>1, <1>7, <3>1
    <3> QED BY <1>7, <3>2, FirstHours DEF Behind
  <2>2. ASSUME NEW h \in 0..HourOf(Horizon), DayOf(HourAt(h)) = d, hourly[l][h] # {} PROVE FALSE
    <3>1. h \in Nat /\ HourAt(h) \in Nat /\ HourAt(h) < DayAt(d) + Day
      <4>1. h \in Nat /\ HourAt(h) \in Nat
        BY DayOfHour
      <4> QED BY <2>2, <4>1, DayIn
    <3>2. HourAt(h) <= now
      BY <1>1, <1>3, <1>7, <1>8, <3>1
    <3>3. h \in 0..HourOf(now)
      <4>1. h <= HourOf(now) /\ HourOf(now) \in Nat
        BY ONLY <1>1, <3>1, <3>2, HourFrom, HourIn
      <4> QED BY <3>1, <4>1
    <3>4. h \in HoursOfDayBefore(now)
      BY <1>8, <2>2, <3>3 DEF HoursOfDayBefore, HourAt
    <3> QED BY <1>5, <2>2, <3>4 DEF RowsOfDay
  <2> QED BY <1>6, <2>1, <2>2, FilledIs
<1>9. CASE d + 1 # e
  <2> HIDE DEF e, q, x
  <2>1. d + 1 < q => d + 1 < e
    BY <1>3, <1>7, <1>9
  <2>2. Behind(d, q, x) => Behind(d, e, x)
    BY <1>9 DEF Behind
  <2> QED BY <1>4, <1>6, <2>1, <2>2
<1> QED BY <1>8, <1>9

(* What a fault does to the times of a loop.                                 *)
PutOff(l) ==
  LET p == DayOf(NextDaily(l))
      q == DayOf(NextDaily(l)')
      x == NextTick(l)
      y == NextTick(l)'
  IN  \/ q = p /\ y <= x + Hour
      \/ p = DayOf(now) /\ q = p + 1 /\ y <= now + Hour
      \/ q = DayOf(now) /\ p = q + 1 /\ y <= now + Hour /\ Midnight(now)

LEMMA PutOffLosesOne ==
  ASSUME TypeOK, [Next]_vars, NEW l \in Tables, PutOff(l),
         hourly'[l] = hourly[l], daily'[l] = daily[l]
  PROVE  \E c \in Int : Lost(l)' \subseteq Lost(l) \cup {c}
<1> DEFINE p == DayOf(NextDaily(l))
           q == DayOf(NextDaily(l)')
           x == NextTick(l)
           y == NextTick(l)'
<1>1. /\ now \in Nat /\ x \in Nat /\ now <= x /\ y \in Nat
      /\ p \in Nat /\ q \in Nat
  BY StepTimes, DayIn
<1>2. ASSUME NEW c \in Int,
             \A d \in Int : d + 1 < q => d + 1 < p \/ d = c,
             \A d \in Int : Behind(d, q, y) => d + 1 < p \/ Behind(d, p, x) \/ d = c
      PROVE  Lost(l)' \subseteq Lost(l) \cup {c}
  BY <1>2, SameLost
<1>3. \/ q = p /\ y <= x + Hour
      \/ p = DayOf(now) /\ q = p + 1 /\ y <= now + Hour
      \/ q = DayOf(now) /\ p = q + 1 /\ y <= now + Hour /\ Midnight(now)
  BY DEF PutOff
<1> HIDE DEF p, q, x, y
<1>4. CASE q = p /\ y <= x + Hour
  <2>1. PICK c \in Int : \A d \in Int : Behind(d, p, y) => Behind(d, p, x) \/ d = c
    BY <1>1, <1>4, OneDayBehind
  <2> QED BY <1>2, <1>4, <2>1
<1>5. CASE p = DayOf(now) /\ q = p + 1 /\ y <= now + Hour
  <2>1. p - 1 \in Int
    BY <1>1
  <2>2. \A d \in Int : d + 1 < q => d + 1 < p \/ d = p - 1
    BY <1>1, <1>5
  <2>3. \A d \in Int : Behind(d, q, y) => d + 1 < p \/ Behind(d, p, x) \/ d = p - 1
    BY <1>1, <1>5, DayTurns
  <2> QED BY <1>2, <2>1, <2>2, <2>3
<1>6. CASE q = DayOf(now) /\ p = q + 1 /\ y <= now + Hour /\ Midnight(now)
  <2>1. \A d \in Int : d + 1 < q \/ Behind(d, q, y) => d + 1 < p
    BY <1>1, <1>6, AtMidnight
  <2>2. /\ \A d \in Int : d + 1 < q => d + 1 < p \/ d = 0
        /\ \A d \in Int : Behind(d, q, y) => d + 1 < p \/ Behind(d, p, x) \/ d = 0
    BY <2>1
  <2>3. 0 \in Int
    OBVIOUS
  <2>4. Lost(l)' \subseteq Lost(l) \cup {0}
    BY <1>2, <2>2, <2>3
  <2> QED BY <2>3, <2>4
<1> QED BY <1>3, <1>4, <1>5, <1>6

LEMMA FaultsPutOff ==
  ASSUME TypeOK, [Next]_vars, NEW l \in Tables,
         \/ TakesHourly(l) \/ TakesDaily(l) \/ HeldOver(l) \/ StartsAgain(l)
  PROVE  PutOff(l)
<1> DEFINE x == NextTick(l)
           y == NextTick(l)'
           s == NextDaily(l)
           t == NextDaily(l)'
           n == now'
           e == DayOf(now)
<1>1. /\ now \in Nat /\ n \in Nat /\ Hour \in Nat \ {0} /\ Day \in Nat
      /\ x \in Nat /\ now <= x /\ x <= now + Hour
      /\ y \in Nat /\ n <= y /\ y <= n + Hour
      /\ s \in Nat /\ now <= s /\ s <= now + Day
      /\ t \in Nat /\ n <= t /\ t <= n + Day
  BY StepTimes, Lengths
<1>2. PutOff(l) <=> \/ DayOf(t) = DayOf(s) /\ y <= x + Hour
                    \/ DayOf(s) = e /\ DayOf(t) = DayOf(s) + 1 /\ y <= now + Hour
                    \/ DayOf(t) = e /\ DayOf(s) = DayOf(t) + 1 /\ y <= now + Hour /\ Midnight(now)
  BY DEF PutOff
<1>3. \/ /\ n = now /\ t = s /\ x = now
      \/ /\ n = now /\ y = x /\ s = now
      \/ /\ n = now + 1 /\ (y = x \/ y = now + 1)
         /\ t = s \/ (s = now /\ t <= now + Day)
      \/ /\ n = now /\ y = now + Hour
         /\ t = now + Day \/ t = DayAt(e + 1) \/ (t = now /\ Midnight(now))
  <2>1. TakesHourly(l) => n = now /\ t = s /\ x = now
    BY DEF TakesHourly
  <2>2. TakesDaily(l) => n = now /\ y = x /\ s = now
    BY DEF TakesDaily
  <2>3. HeldOver(l) => /\ n = now + 1 /\ (y = x \/ y = now + 1)
                       /\ t = s \/ (s = now /\ (t = now + 1 \/ t = now + Day))
    BY DEF HeldOver
  <2>4. StartsAgain(l) => /\ n = now /\ y = now + Hour
                          /\ t = now + Day \/ t = DayAt(e + 1) \/ (t = now /\ Midnight(now))
    BY DEF StartsAgain
  <2>5. 1 <= Day
    BY Lengths
  <2> HIDE DEF n, x, y, s, t, e
  <2> QED BY <1>1, <2>1, <2>2, <2>3, <2>4, <2>5
<1> SUFFICES \/ DayOf(t) = DayOf(s) /\ y <= x + Hour
             \/ DayOf(s) = e /\ DayOf(t) = DayOf(s) + 1 /\ y <= now + Hour
             \/ DayOf(t) = e /\ DayOf(s) = DayOf(t) + 1 /\ y <= now + Hour /\ Midnight(now)
  BY <1>2
<1> HIDE DEF n, x, y, s, t
<1>4. ASSUME NEW u \in Nat, now <= u, u <= now + Day PROVE DayOf(u) \in {e, e + 1}
  <2>1. e <= DayOf(u) /\ DayOf(u) <= e + 1
    BY <1>1, <1>4, Later, PlusDay
  <2>2. e \in Nat /\ DayOf(u) \in Nat
    BY <1>1, DayIn
  <2> HIDE DEF e
  <2> QED BY <2>1, <2>2
<1>5. /\ DayOf(now + Day) = e + 1
      /\ DayOf(DayAt(e + 1)) = e + 1
  <2>1. e \in Nat
    BY <1>1, DayIn
  <2>2. DayAt(e + 1) \in Nat /\ DayAt(e + 1) <= DayAt(e + 1) /\ DayAt(e + 1) < DayAt(e + 1) + Day
    <3>1. DayAt(0) <= DayAt(e + 1) /\ DayAt(e + 1) \in Int /\ DayAt(0) = 0 /\ Day \in Nat \ {0}
      BY <2>1, DayOrder, Zeros, Lengths
    <3> QED BY <3>1
  <2> QED BY <1>1, <2>1, <2>2, PlusDay, DayIn
<1>6. DayOf(s) \in {e, e + 1}
  BY <1>1, <1>4
<1>7. CASE n = now /\ t = s /\ x = now
  BY <1>1, <1>7
<1>8. CASE n = now /\ y = x /\ s = now
  <2>1. DayOf(t) \in {e, e + 1} /\ DayOf(s) = e
    BY <1>1, <1>4, <1>8
  <2> QED BY <1>1, <1>8, <2>1
<1>9. CASE n = now + 1 /\ (y = x \/ y = now + 1) /\ (t = s \/ (s = now /\ t <= now + Day))
  <2>1. y <= x + Hour /\ y <= now + Hour
    BY <1>1, <1>9
  <2>2. t = s \/ (DayOf(t) \in {e, e + 1} /\ DayOf(s) = e)
    <3>1. now <= t
      BY <1>1, <1>9
    <3> QED BY <1>1, <1>4, <1>9, <3>1
  <2> QED BY <2>1, <2>2
<1>10. CASE n = now /\ y = now + Hour /\ (t = now + Day \/ t = DayAt(e + 1) \/ (t = now /\ Midnight(now)))
  <2>1. y <= x + Hour /\ y <= now + Hour
    BY <1>1, <1>10
  <2>2. DayOf(t) = e + 1 \/ (DayOf(t) = e /\ Midnight(now))
    BY <1>5, <1>10
  <2> QED BY <1>6, <2>1, <2>2
<1> QED BY <1>3, <1>7, <1>8, <1>9, <1>10

LEMMA NextLost == TypeOK /\ ClockInv /\ RawInv /\ LostInv /\ [Next]_vars => LostInv'
<1> SUFFICES ASSUME TypeOK, ClockInv, RawInv, LostInv, [Next]_vars, NEW l \in Tables
             PROVE  Cardinality(Lost(l)') <= faults'
  BY DEF LostInv
<1> DEFINE f == faults'
           L == Lost(l)'
<1>1. faults \in Nat /\ f \in Nat
  BY StepTimes
<1>2. IsFiniteSet(Lost(l)) /\ Cardinality(Lost(l)) \in Nat /\ Cardinality(Lost(l)) <= faults
  BY LostFinite DEF LostInv
<1>3. \/ L \subseteq Lost(l) /\ faults <= f
      \/ f = faults + 1 /\ \E c \in Int : L \subseteq Lost(l) \cup {c}
  <2>1. StepKind(l) /\ (faults' = faults \/ faults' = faults + 1)
    BY Kinds DEF StepKind, Idles, PrunesRaw, PrunesHourly, Fails, TakesHourly, TakesDaily,
                 Passes, HeldOver, StartsAgain
  <2>2. faults <= f
    <3> HIDE DEF f
    <3>1. f = faults \/ f = faults + 1
      BY <2>1 DEF f
    <3> QED BY <1>1, <3>1
  <2>3. CASE Idles(l) \/ PrunesRaw(l) \/ Fails(l) \/ Passes(l)
    BY <2>2, <2>3, NoneLost DEF Idles, PrunesRaw, Fails, Passes, SameTables
  <2>4. CASE PrunesHourly(l)
    BY <2>2, <2>4, PruneLosesNone
  <2>5. CASE (TakesHourly(l) \/ TakesDaily(l)) /\ faults' = faults
    BY <2>2, <2>5, TickLosesNone, RunLosesNone
  <2>6. CASE /\ TakesHourly(l) \/ TakesDaily(l) \/ HeldOver(l) \/ StartsAgain(l)
             /\ faults' = faults + 1
    <3>1. hourly'[l] = hourly[l] /\ daily'[l] = daily[l]
      BY <1>1, <2>6 DEF TakesHourly, TakesDaily, HeldOver, StartsAgain, SameTables
    <3> QED BY <2>6, <3>1, FaultsPutOff, PutOffLosesOne
  <2>7. HeldOver(l) \/ StartsAgain(l) => faults' = faults + 1
    BY DEF HeldOver, StartsAgain
  <2> QED BY <2>1, <2>3, <2>4, <2>5, <2>6, <2>7 DEF StepKind
<1> SUFFICES Cardinality(L) <= f
  OBVIOUS
<1> HIDE DEF f, L
<1>4. CASE L \subseteq Lost(l) /\ faults <= f
  <2>1. Cardinality(L) <= Cardinality(Lost(l)) /\ Cardinality(L) \in Nat
    BY <1>2, <1>4, FS_Subset, FS_CardinalityType
  <2> QED BY <1>1, <1>2, <1>4, <2>1
<1>5. ASSUME f = faults + 1, NEW c \in Int, L \subseteq Lost(l) \cup {c} PROVE Cardinality(L) <= f
  <2>1. /\ IsFiniteSet(Lost(l) \cup {c})
        /\ \/ Cardinality(Lost(l) \cup {c}) = Cardinality(Lost(l))
           \/ Cardinality(Lost(l) \cup {c}) = Cardinality(Lost(l)) + 1
    BY <1>2, FS_AddElement
  <2>2. Cardinality(L) <= Cardinality(Lost(l) \cup {c}) /\ Cardinality(L) \in Nat
    BY <1>5, <2>1, FS_Subset, FS_CardinalityType
  <2> QED BY <1>1, <1>2, <1>5, <2>1, <2>2
<1> QED BY <1>3, <1>4, <1>5
-----------------------------------------------------------------------------
(* Deletion: a statement comes again within its time, and a fault puts it off
   by no more than that time.                                                *)

LEMMA TimesPerFault ==
  ASSUME NEW f \in Nat, NEW g \in Nat, f <= g
  PROVE  /\ HourAt(1 + f) \in Int /\ Hour <= HourAt(1 + f)
         /\ HourAt(1 + g) \in Int /\ HourAt(1 + f) <= HourAt(1 + g)
         /\ g = f + 1 => HourAt(1 + g) = HourAt(1 + f) + Hour
         /\ DayAt(1 + f) \in Int /\ Day <= DayAt(1 + f)
         /\ DayAt(1 + g) \in Int /\ DayAt(1 + f) <= DayAt(1 + g)
         /\ g = f + 1 => DayAt(1 + g) = DayAt(1 + f) + Day
<1>1. /\ HourAt(1 + f) \in Int /\ HourAt(1 + g) \in Int /\ HourAt(1 + f) <= HourAt(1 + g)
      /\ HourAt(1) <= HourAt(1 + f)
  BY HourOrder
<1>2. /\ DayAt(1 + f) \in Int /\ DayAt(1 + g) \in Int /\ DayAt(1 + f) <= DayAt(1 + g)
      /\ DayAt(1) <= DayAt(1 + f)
  BY DayOrder
<1>3. HourAt(1) = Hour /\ DayAt(1) = Day
  BY Lengths DEF HourAt, DayAt
<1>4. HourAt((1 + f) + 1) = HourAt(1 + f) + Hour /\ DayAt((1 + f) + 1) = DayAt(1 + f) + Day
  BY HourNext, DayNext
<1>5. g = f + 1 => 1 + g = (1 + f) + 1
  OBVIOUS
<1> QED BY <1>1, <1>2, <1>3, <1>4, <1>5

LEMMA FaultsGrow ==
  ASSUME TypeOK, ClockInv, [Next]_vars
  PROVE  /\ faults \in Nat /\ faults' \in Nat /\ faults <= faults'
         /\ now \in Nat /\ now' \in Nat /\ (now' = now \/ now' = now + 1)
<1> DEFINE f == faults'
           n == now'
<1>1. "health" \in Tables
  BY DEF Tables
<1>2. faults \in Nat /\ f \in Nat /\ now \in Nat /\ n \in Nat
  BY <1>1, StepTimes
<1>3. (f = faults \/ f = faults + 1) /\ (n = now \/ n = now + 1)
  BY <1>1, Kinds DEF StepKind, Idles, PrunesRaw, PrunesHourly, Fails, TakesHourly, TakesDaily,
                     Passes, HeldOver, StartsAgain
<1>4. faults <= f
  <2> HIDE DEF f, n
  <2> QED BY <1>2, <1>3
<1> QED BY <1>2, <1>3, <1>4

LEMMA RawMoves ==
  ASSUME TypeOK, ClockInv, [Next]_vars, NEW l \in Tables
  PROVE  /\ RawDue(l) \in Int /\ RawDue(l)' \in Int /\ RawDue(l) <= now + Hour
         /\ raw'[l] \subseteq raw[l] \cup {now}
         /\ \/ RawDue(l)' <= RawDue(l)
            \/ faults' = faults + 1 /\ RawDue(l)' <= RawDue(l) + Hour
            \/ RawDue(l)' <= now + Hour /\ \A r \in raw'[l] : r + rawRetention >= now
<1> DEFINE x == NextTick(l)
           y == NextTick(l)'
           n == now'
           a == RawDue(l)
           b == RawDue(l)'
<1>1. /\ now \in Nat /\ n \in Nat /\ Hour \in Nat \ {0}
      /\ x \in Nat /\ now <= x /\ x <= now + Hour
      /\ y \in Nat /\ n <= y /\ y <= n + Hour
  BY StepTimes, Lengths
<1>2. /\ a = IF at[l] = "pruneRaw" THEN now ELSE x
      /\ b = IF at'[l] = "pruneRaw" THEN n ELSE y
  BY DEF RawDue
<1>3. StepKind(l)
  BY Kinds
<1>4. raw'[l] \subseteq raw[l] \cup {now}
  BY <1>3 DEF StepKind, Idles, PrunesRaw, PrunesHourly, Fails, TakesHourly, TakesDaily,
              Passes, HeldOver, StartsAgain, SameTables
<1>5. \/ n = now /\ y = x /\ at'[l] = at[l]
      \/ n = now /\ y = x /\ \A r \in raw'[l] : r + rawRetention >= now
      \/ n = now /\ y = x /\ at[l] # "pruneRaw" /\ at'[l] # "pruneRaw"
      \/ n = now /\ y = x /\ faults' = faults + 1
      \/ n = now /\ x = now /\ at'[l] = "pruneRaw"
      \/ n = now + 1 /\ y = x /\ at[l] = "idle" /\ at'[l] = "idle"
      \/ n = now + 1 /\ (y = x \/ (x = now /\ y = now + 1)) /\ at'[l] = at[l] /\ faults' = faults + 1
      \/ n = now /\ y = now + Hour /\ at'[l] = "idle" /\ faults' = faults + 1
  <2>1. Idles(l) => n = now /\ y = x /\ at'[l] = at[l]
    BY DEF Idles, SameTimes
  <2>2. PrunesRaw(l) => n = now /\ y = x /\ \A r \in raw'[l] : r + rawRetention >= now
    BY DEF PrunesRaw, SameTimes
  <2>3. PrunesHourly(l) \/ TakesDaily(l) => n = now /\ y = x /\ at[l] # "pruneRaw" /\ at'[l] # "pruneRaw"
    BY DEF PrunesHourly, TakesDaily, SameTimes
  <2>4. Fails(l) => n = now /\ y = x /\ faults' = faults + 1
    BY DEF Fails, SameTimes
  <2>5. TakesHourly(l) => n = now /\ x = now /\ at'[l] = "pruneRaw"
    BY DEF TakesHourly
  <2>6. Passes(l) => n = now + 1 /\ y = x /\ at[l] = "idle" /\ at'[l] = "idle"
    BY DEF Passes, SameTimes
  <2>7. HeldOver(l) => /\ n = now + 1 /\ (y = x \/ (x = now /\ y = now + 1))
                       /\ at'[l] = at[l] /\ faults' = faults + 1
    BY DEF HeldOver
  <2>8. StartsAgain(l) => n = now /\ y = now + Hour /\ at'[l] = "idle" /\ faults' = faults + 1
    BY DEF StartsAgain
  <2> QED BY <1>3, <2>1, <2>2, <2>3, <2>4, <2>5, <2>6, <2>7, <2>8 DEF StepKind
<1> HIDE DEF x, y, n, a, b
<1>6. a \in Int /\ b \in Int /\ a <= now + Hour /\ now <= a
  BY <1>1, <1>2
<1>7. \/ b <= a
      \/ faults' = faults + 1 /\ b <= a + Hour
      \/ b <= now + Hour /\ \A r \in raw'[l] : r + rawRetention >= now
  BY <1>1, <1>2, <1>5
<1> QED BY <1>4, <1>6, <1>7 DEF a, b

LEMMA HourlyMoves ==
  ASSUME TypeOK, ClockInv, [Next]_vars, NEW l \in Tables
  PROVE  /\ HourlyDue(l) \in Int /\ HourlyDue(l)' \in Int /\ HourlyDue(l) <= now + Day
         /\ \A h \in 0..HourOf(Horizon) :
              hourly'[l][h] # {} => hourly[l][h] # {} \/ now <= HourAt(h) + Day
         /\ \/ HourlyDue(l)' <= HourlyDue(l)
            \/ faults' = faults + 1 /\ HourlyDue(l)' <= HourlyDue(l) + Day
            \/ /\ HourlyDue(l)' <= now + Day
               /\ \A h \in 0..HourOf(Horizon) :
                    hourly'[l][h] # {} => now <= HourAt(h) + hourlyRetention
<1> DEFINE x == NextDaily(l)
           y == NextDaily(l)'
           n == now'
           a == HourlyDue(l)
           b == HourlyDue(l)'
           Left == \A h \in 0..HourOf(Horizon) :
                     hourly'[l][h] # {} => now <= HourAt(h) + hourlyRetention
<1>1. /\ now \in Nat /\ n \in Nat /\ Hour \in Nat \ {0} /\ Day \in Nat \ {0}
      /\ x \in Nat /\ now <= x /\ x <= now + Day
      /\ y \in Nat /\ n <= y /\ y <= n + Day
      /\ hourlyRetention \in Nat
  BY StepTimes, Lengths
<1>2. /\ a = IF at[l] = "pruneHourly" THEN now ELSE x
      /\ b = IF at'[l] = "pruneHourly" THEN n ELSE y
  BY DEF HourlyDue
<1>3. StepKind(l)
  BY Kinds
<1>4. ASSUME NEW h \in 0..HourOf(Horizon), hourly'[l][h] # {}
      PROVE  hourly[l][h] # {} \/ now <= HourAt(h) + Day
  <2>1. CASE TakesHourly(l)
    <3>1. hourly[l][h] # {} \/ raw[l] \cap Window(now) \cap RowsOfHour(h) # {}
      BY <1>4, <2>1 DEF TakesHourly, SameTables
    <3>2. ASSUME NEW r \in Window(now), r \in RowsOfHour(h) PROVE now <= HourAt(h) + Day
      <4>1. r \in Nat /\ r + Hour + Hour >= now /\ HourOf(r) = h
        BY <1>1, <3>2, WindowIs DEF RowsOfHour
      <4>2. HourAt(h) \in Int /\ r < HourAt(h) + Hour
        BY <4>1, HourIn
      <4> QED BY <1>1, <4>1, <4>2, Lengths
    <3> QED BY <3>1, <3>2
  <2>2. CASE PrunesHourly(l)
    BY <1>4, <2>2 DEF PrunesHourly
  <2> QED BY <1>3, <1>4, <2>1, <2>2
          DEF StepKind, Idles, PrunesRaw, Fails, TakesDaily, Passes, HeldOver, StartsAgain, SameTables
<1>5. \/ n = now /\ y = x /\ at'[l] = at[l]
      \/ n = now /\ y = x /\ Left
      \/ n = now /\ y = x /\ at[l] # "pruneHourly" /\ at'[l] # "pruneHourly"
      \/ n = now /\ y = x /\ faults' = faults + 1
      \/ n = now /\ x = now /\ at'[l] = "pruneHourly"
      \/ n = now + 1 /\ y = x /\ at[l] = "idle" /\ at'[l] = "idle"
      \/ n = now + 1 /\ (y = x \/ (x = now /\ (y = now + 1 \/ y = now + Day)))
         /\ at'[l] = at[l] /\ faults' = faults + 1
      \/ n = now /\ at'[l] = "idle" /\ faults' = faults + 1
  <2>1. Idles(l) => n = now /\ y = x /\ at'[l] = at[l]
    BY DEF Idles, SameTimes
  <2>2. PrunesHourly(l) => n = now /\ y = x /\ Left
    <3> SUFFICES ASSUME PrunesHourly(l), NEW h \in 0..HourOf(Horizon), hourly'[l][h] # {}
                 PROVE  n = now /\ y = x /\ now <= HourAt(h) + hourlyRetention
      BY DEF PrunesHourly, SameTimes
    <3>1. HourAt(h) \in Int
      <4>1. h \in Int
        OBVIOUS
      <4> QED BY <4>1, HourOrder
    <3>2. ~ (HourAt(h) + hourlyRetention < now)
      BY DEF PrunesHourly
    <3>3. now <= HourAt(h) + hourlyRetention
      BY <1>1, <3>1, <3>2
    <3> QED BY <3>3 DEF PrunesHourly, SameTimes
  <2>3. PrunesRaw(l) => n = now /\ y = x /\ at[l] # "pruneHourly" /\ at'[l] # "pruneHourly"
    BY DEF PrunesRaw, SameTimes
  <2>4. TakesHourly(l) => n = now /\ y = x /\ at[l] # "pruneHourly" /\ at'[l] # "pruneHourly"
    BY DEF TakesHourly
  <2>5. Fails(l) => n = now /\ y = x /\ faults' = faults + 1
    BY DEF Fails, SameTimes
  <2>6. TakesDaily(l) => n = now /\ x = now /\ at'[l] = "pruneHourly"
    BY DEF TakesDaily
  <2>7. Passes(l) => n = now + 1 /\ y = x /\ at[l] = "idle" /\ at'[l] = "idle"
    BY DEF Passes, SameTimes
  <2>8. HeldOver(l) => /\ n = now + 1 /\ (y = x \/ (x = now /\ (y = now + 1 \/ y = now + Day)))
                       /\ at'[l] = at[l] /\ faults' = faults + 1
    BY DEF HeldOver
  <2>9. StartsAgain(l) => n = now /\ at'[l] = "idle" /\ faults' = faults + 1
    BY DEF StartsAgain
  <2> HIDE DEF Left, x, y, n
  <2> QED BY <1>3, <2>1, <2>2, <2>3, <2>4, <2>5, <2>6, <2>7, <2>8, <2>9 DEF StepKind
<1> HIDE DEF x, y, n, a, b, Left
<1>6. a \in Int /\ b \in Int /\ a <= now + Day /\ now <= a
  BY <1>1, <1>2
<1>7. \/ b <= a
      \/ faults' = faults + 1 /\ b <= a + Day
      \/ b <= now + Day /\ Left
  BY <1>1, <1>2, <1>5
<1> QED BY <1>4, <1>6, <1>7 DEF a, b, Left
-----------------------------------------------------------------------------
(* The cleanup's next run, as a function of the time and of whether it is due. *)

StartOn(d) == DayAt(d) + HourAt(cleanupHour)

CleanupAt(t, due) ==
  IF due THEN t ELSE IF t < StartOn(DayOf(t)) THEN StartOn(DayOf(t)) ELSE StartOn(DayOf(t)) + Day

CleanupDue(t, tick, last) == tick /\ CleanupTime(t) /\ last # DayOf(t) + 1

LEMMA CleanupNow ==
  /\ NextCleanup = CleanupAt(now, CleanupDue(now, "daily" \in pending["cleanup"], lastDate["cleanup"]))
  /\ NextCleanup' = CleanupAt(now', CleanupDue(now', "daily" \in pending'["cleanup"], lastDate'["cleanup"]))
<1>1. DueNow("cleanup") <=> CleanupDue(now, "daily" \in pending["cleanup"], lastDate["cleanup"])
  BY DEF DueNow, DailyDue, CleanupDue
<1>2. NextCleanup = CleanupAt(now, CleanupDue(now, "daily" \in pending["cleanup"], lastDate["cleanup"]))
  BY <1>1 DEF NextCleanup, CleanupAt, CleanupStart, StartOn
<1>3. DueNow("cleanup")' <=> CleanupDue(now', "daily" \in pending'["cleanup"], lastDate'["cleanup"])
  BY DEF DueNow, DailyDue, CleanupDue, CleanupTime, HourOf, DayOf
<1>4. NextCleanup' = CleanupAt(now', CleanupDue(now', "daily" \in pending'["cleanup"], lastDate'["cleanup"]))
  BY <1>3 DEF NextCleanup, CleanupAt, CleanupStart, StartOn, DayAt, DayOf, HourAt
<1> QED BY <1>2, <1>4

LEMMA StartIn ==
  ASSUME NEW t \in Nat
  PROVE  /\ DayOf(t) \in Nat /\ DayAt(DayOf(t)) \in Int /\ StartOn(DayOf(t)) \in Int
         /\ DayAt(DayOf(t)) <= t /\ t < DayAt(DayOf(t)) + Day
         /\ DayAt(DayOf(t)) <= StartOn(DayOf(t)) /\ StartOn(DayOf(t)) + Hour <= DayAt(DayOf(t)) + Day
         /\ CleanupTime(t) <=> StartOn(DayOf(t)) <= t /\ t < StartOn(DayOf(t)) + Hour
         /\ StartOn(DayOf(t) + 1) = StartOn(DayOf(t)) + Day
         /\ Hour \in Nat \ {0} /\ Day \in Nat
<1>1. /\ DayOf(t) \in Nat /\ DayAt(DayOf(t)) \in Int
      /\ DayAt(DayOf(t)) <= t /\ t < DayAt(DayOf(t)) + Day
      /\ HourAt(cleanupHour) \in Nat /\ HourAt(cleanupHour) + Hour <= Day
      /\ DayAt(DayOf(t) + 1) = DayAt(DayOf(t)) + Day
      /\ Hour \in Nat \ {0} /\ Day \in Nat
  BY DayIn, CleanupIn, DayNext, Lengths
<1>2. CleanupTime(t) <=> /\ DayAt(DayOf(t)) + HourAt(cleanupHour) <= t
                         /\ t < DayAt(DayOf(t)) + HourAt(cleanupHour) + Hour
  BY CleanupIn
<1> QED BY <1>1, <1>2 DEF StartOn

LEMMA CleanupSoon ==
  ASSUME NEW t \in Nat, NEW due
  PROVE  CleanupAt(t, due) \in Nat /\ t <= CleanupAt(t, due) /\ CleanupAt(t, due) <= t + Day
<1> DEFINE s == StartOn(DayOf(t))
           a == DayAt(DayOf(t))
<1>1. /\ a \in Int /\ s \in Int /\ a <= t /\ t < a + Day /\ a <= s /\ s + Hour <= a + Day
      /\ Hour \in Nat \ {0} /\ Day \in Nat
  BY StartIn
<1>2. CleanupAt(t, due) \in {t, s, s + Day} /\ (CleanupAt(t, due) = s => t <= s)
      /\ (CleanupAt(t, due) = s + Day => s <= t \/ t = s + Day)
  BY <1>1 DEF CleanupAt
<1> HIDE DEF s, a
<1> QED BY <1>1, <1>2

LEMMA CleanupIsIn ==
  ASSUME TypeOK, ClockInv, [Next]_vars
  PROVE  /\ NextCleanup \in Nat /\ now <= NextCleanup /\ NextCleanup <= now + Day
         /\ NextCleanup' \in Nat /\ now' <= NextCleanup' /\ NextCleanup' <= now' + Day
BY FaultsGrow, CleanupNow, CleanupSoon

(* A unit later it is not put off; and by a day at most, if it was due.      *)
LEMMA CleanupUnit ==
  ASSUME NEW t \in Nat, NEW last \in Int, last <= DayOf(t) + 1,
         last = DayOf(t) + 1 => t >= StartOn(DayOf(t)),
         NEW tick \in BOOLEAN, NEW later \in BOOLEAN,
         tick => later, CleanupTime(t + 1) => later
  PROVE  LET a == CleanupAt(t, CleanupDue(t, tick, last))
             b == CleanupAt(t + 1, CleanupDue(t + 1, later, last))
         IN  b <= a \/ (tick /\ b <= t + Day)
<1> DEFINE d == DayOf(t)
           e == DayOf(t + 1)
           s == StartOn(d)
           b == CleanupAt(t + 1, CleanupDue(t + 1, later, last))
<1>1. /\ d \in Nat /\ DayAt(d) \in Int /\ s \in Int
      /\ DayAt(d) <= t /\ t < DayAt(d) + Day
      /\ DayAt(d) <= s /\ s + Hour <= DayAt(d) + Day
      /\ CleanupTime(t) <=> s <= t /\ t < s + Hour
      /\ StartOn(d + 1) = s + Day
      /\ Hour \in Nat \ {0} /\ Day \in Nat
      /\ DayAt(d + 1) = DayAt(d) + Day
  BY StartIn, DayNext, DayIn
<1>2. /\ t + 1 \in Nat /\ (e = d \/ (e = d + 1 /\ t + 1 = DayAt(d + 1)))
      /\ CleanupTime(t + 1) <=> StartOn(e) <= t + 1 /\ t + 1 < StartOn(e) + Hour
  <2>1. t + 1 \in Nat
    OBVIOUS
  <2>2. e = d \/ (e = d + 1 /\ t + 1 = DayAt(d + 1))
    BY NextUnit
  <2> QED BY <2>1, <2>2, StartIn
<1>3. /\ tick => later
      /\ StartOn(e) <= t + 1 /\ t + 1 < StartOn(e) + Hour => later
      /\ last <= d + 1 /\ (last = d + 1 => t >= s)
  BY <1>2
<1>4. b = IF later /\ StartOn(e) <= t + 1 /\ t + 1 < StartOn(e) + Hour /\ last # e + 1 THEN t + 1
          ELSE IF t + 1 < StartOn(e) THEN StartOn(e) ELSE StartOn(e) + Day
  BY <1>2 DEF CleanupAt, CleanupDue
<1>5. CleanupAt(t, CleanupDue(t, tick, last)) =
        IF tick /\ s <= t /\ t < s + Hour /\ last # d + 1 THEN t
        ELSE IF t < s THEN s ELSE s + Day
  BY <1>1 DEF CleanupAt, CleanupDue
<1> DEFINE a == CleanupAt(t, CleanupDue(t, tick, last))
<1> SUFFICES b <= a \/ (tick /\ b <= t + Day)
  OBVIOUS
<1> HIDE DEF d, e, s, a, b
<1>6. CASE e = d
  <2>1. b = IF later /\ s <= t + 1 /\ t + 1 < s + Hour /\ last # d + 1 THEN t + 1
            ELSE IF t + 1 < s THEN s ELSE s + Day
    BY <1>4, <1>6 DEF s
  <2> QED BY <1>1, <1>3, <1>5, <1>6, <2>1 DEF a, s
<1>7. CASE e = d + 1 /\ t + 1 = DayAt(d + 1)
  <2>1. StartOn(e) = s + Day /\ t + 1 = DayAt(d) + Day
    BY <1>1, <1>7
  <2>2. b = IF later /\ s + Day <= t + 1 /\ t + 1 < s + Day + Hour /\ last # d + 2 THEN t + 1
            ELSE IF t + 1 < s + Day THEN s + Day ELSE s + Day + Day
    BY <1>1, <1>4, <1>7, <2>1
  <2>3. t + 1 <= s + Day /\ s <= t /\ last # d + 2
    BY <1>1, <1>3, <2>1
  <2>4. s + Day <= t + 1 => later
    BY <1>1, <1>3, <2>1, <2>3
  <2>5. b = t + 1 \/ b = s + Day
    BY <1>1, <2>2, <2>3, <2>4
  <2>6. a = t \/ a = s + Day
    BY <1>1, <1>5, <2>3 DEF a
  <2>7. a = t => tick
    BY <1>1, <1>5, <2>3 DEF a
  <2> QED BY <1>1, <2>3, <2>5, <2>6, <2>7
<1> QED BY <1>2, <1>6, <1>7

CleanupSame == pins' = pins /\ jobs' = jobs

(* What a step is to the cleanup.                                            *)
CleanupKind ==
  LET c == "cleanup"
  IN  \/ now' = now /\ NextCleanup' = NextCleanup /\ at'[c] = at[c] /\ CleanupSame
      \/ /\ now' = now /\ NextCleanup' = NextCleanup /\ CleanupSame
         /\ at[c] \notin {"pins", "jobs"} /\ at'[c] \notin {"pins", "jobs"}
      \/ now' = now /\ NextCleanup = now /\ at[c] = "idle" /\ at'[c] = "pins" /\ CleanupSame
      \/ /\ now' = now /\ NextCleanup' = NextCleanup /\ at[c] = "pins" /\ at'[c] = "jobs"
         /\ jobs' = jobs /\ pins' = {p \in pins : p >= now}
      \/ /\ now' = now /\ NextCleanup' = NextCleanup /\ at[c] = "jobs" /\ at'[c] = "idle"
         /\ pins' = pins /\ jobs' = {j \in jobs : j + jobRetention >= now}
      \/ now' = now /\ faults' = faults + 1 /\ CleanupSame
      \/ /\ now' = now + 1 /\ at'[c] = at[c] /\ pins' = pins \cup {now} /\ jobs' = jobs \cup {now}
         /\ \/ NextCleanup' <= NextCleanup /\ at[c] = "idle"
            \/ faults' = faults + 1 /\ (NextCleanup' <= NextCleanup \/ NextCleanup' <= now + Day)

LEMMA SameCleanup ==
  ASSUME now' = now, pending'["cleanup"] = pending["cleanup"],
         lastDate'["cleanup"] = lastDate["cleanup"]
  PROVE  NextCleanup' = NextCleanup
BY CleanupNow

LEMMA CleanupKinds ==
  ASSUME TypeOK, ClockInv, [Next]_vars
  PROVE  CleanupKind
<1> USE DEF CleanupKind, CleanupSame
<1>1. LoopType /\ "cleanup" \in Loops /\ "cleanup" \notin Tables
  BY TypeParts DEF Loops, Tables
<1>2. ASSUME NEW k \in Loops, LoopStep(k), k # "cleanup" PROVE CleanupKind
  <2>1. /\ now' = now /\ pending'["cleanup"] = pending["cleanup"] /\ at'["cleanup"] = at["cleanup"]
        /\ pins' = pins /\ jobs' = jobs
    BY <1>1, <1>2 DEF LoopStep, aggregateHourly, pruneRaw, aggregateDaily, pruneHourly, SkipTick,
                      Takes, GoesOn, Stands, LoopType
  <2>2. UNCHANGED lastDate \/ SetLastDate(k)
    BY <1>2 DEF LoopStep, aggregateHourly, pruneRaw, aggregateDaily, pruneHourly, SkipTick
  <2>3. lastDate'["cleanup"] = lastDate["cleanup"]
    BY <1>1, <1>2, <2>2 DEF SetLastDate, LoopType
  <2> QED BY <2>1, <2>3, SameCleanup
<1>3. ASSUME LoopStep("cleanup") PROVE CleanupKind
  <2>1. CASE pruneRaw("cleanup") \/ pruneHourly("cleanup")
    <3>1. /\ now' = now /\ pending' = pending /\ lastDate' = lastDate
          /\ pins' = pins /\ jobs' = jobs
          /\ at["cleanup"] \notin {"pins", "jobs"} /\ at'["cleanup"] \notin {"pins", "jobs"}
      BY <1>1, <2>1 DEF pruneRaw, pruneHourly, GoesOn, Stands, LoopType
    <3> QED BY <3>1, SameCleanup
  <2>2. CASE SkipTick("cleanup")
    <3>1. /\ now' = now /\ at' = at /\ lastDate' = lastDate /\ pins' = pins /\ jobs' = jobs
          /\ ~ DailyDue("cleanup") /\ "daily" \notin pending'["cleanup"]
      BY <1>1, <2>2 DEF SkipTick, Takes, LoopType
    <3>2. \A tick : ~ CleanupDue(now, tick, lastDate["cleanup"])
      BY <3>1 DEF DailyDue, CleanupDue
    <3>3. CleanupDue(now, "daily" \in pending["cleanup"], lastDate["cleanup"]) = FALSE
          /\ CleanupDue(now, "daily" \in pending'["cleanup"], lastDate["cleanup"]) = FALSE
      BY <3>1, <3>2 DEF CleanupDue
    <3>4. NextCleanup' = NextCleanup
      BY <3>1, <3>3, CleanupNow
    <3> QED BY <3>1, <3>4
  <2>3. CASE aggregateHourly("cleanup") \/ aggregateDaily("cleanup")
    BY <1>1, <2>3 DEF aggregateHourly, aggregateDaily
  <2> QED BY <1>3, <2>1, <2>2, <2>3 DEF LoopStep
<1>4. ASSUME NEW k \in Loops, StatementError(k) PROVE CleanupKind
  BY <1>4 DEF StatementError, Fault
<1>5. ASSUME startCleanup PROVE CleanupKind
  <2>1. /\ now' = now /\ pins' = pins /\ jobs' = jobs
        /\ at["cleanup"] = "idle" /\ at'["cleanup"] = "pins"
        /\ "daily" \in pending["cleanup"] /\ DailyDue("cleanup")
    BY <1>1, <1>5 DEF startCleanup, Takes, Stands, LoopType
  <2>2. NextCleanup = now
    BY <2>1 DEF NextCleanup, DueNow
  <2> QED BY <2>1, <2>2
<1>6. ASSUME deleteSupportPins PROVE CleanupKind
  <2>1. /\ now' = now /\ pending' = pending /\ lastDate' = lastDate /\ jobs' = jobs
        /\ at["cleanup"] = "pins" /\ at'["cleanup"] = "jobs" /\ pins' = {p \in pins : p >= now}
    BY <1>1, <1>6 DEF deleteSupportPins, GoesOn, Stands, LoopType
  <2> QED BY <2>1, SameCleanup
<1>7. ASSUME pruneOldJobs PROVE CleanupKind
  <2>1. /\ now' = now /\ pending' = pending /\ lastDate' = lastDate /\ pins' = pins
        /\ at["cleanup"] = "jobs" /\ at'["cleanup"] = "idle"
        /\ jobs' = {j \in jobs : j + jobRetention >= now}
    BY <1>1, <1>7 DEF pruneOldJobs, GoesOn, Stands, LoopType
  <2> QED BY <2>1, SameCleanup
<1>8. ASSUME InTime \/ HeldUp PROVE CleanupKind
  <2> DEFINE c == "cleanup"
             last == lastDate[c]
             tick == "daily" \in pending[c]
             later == "daily" \in pending'[c]
  <2>1. /\ now' = now + 1 /\ at' = at /\ lastDate' = lastDate
        /\ pins' = pins \cup {now} /\ jobs' = jobs \cup {now}
        /\ pending'[c] = pending[c] \cup MinuteTicks(c, now + 1)
    BY <1>1, <1>8 DEF InTime, HeldUp, TimePasses
  <2>2. (tick => later) /\ (CleanupTime(now + 1) => later)
    BY <2>1 DEF MinuteTicks
  <2>3. now \in Nat /\ last \in Int /\ last <= DayOf(now) + 1 /\ (last = DayOf(now) + 1 => now >= StartOn(DayOf(now)))
    BY <1>1, FaultsGrow DEF ClockInv, LoopType, CleanupStart, StartOn
  <2>4. /\ NextCleanup = CleanupAt(now, CleanupDue(now, tick, last))
        /\ NextCleanup' = CleanupAt(now + 1, CleanupDue(now + 1, later, last))
    BY <2>1, CleanupNow
  <2>5. tick \in BOOLEAN /\ later \in BOOLEAN
    OBVIOUS
  <2>6. NextCleanup' <= NextCleanup \/ (tick /\ NextCleanup' <= now + Day)
    <3> HIDE DEF tick, later, last
    <3> QED BY <2>2, <2>3, <2>4, <2>5, CleanupUnit
  <2>7. CASE InTime
    <3>1. ~ tick /\ at[c] = "idle"
      BY <1>1, <2>7 DEF InTime, AtRest
    <3> QED BY <2>1, <2>6, <3>1
  <2>8. CASE HeldUp
    <3>1. faults' = faults + 1
      BY <2>8 DEF HeldUp, Fault
    <3> QED BY <2>1, <2>6, <3>1
  <2> QED BY <1>8, <2>7, <2>8
<1>9. ASSUME Restart PROVE CleanupKind
  BY <1>9 DEF Restart, Started, Fault
<1>10. ASSUME UNCHANGED vars PROVE CleanupKind
  BY <1>10, SameCleanup DEF vars
<1> QED BY <1>2, <1>3, <1>4, <1>5, <1>6, <1>7, <1>8, <1>9, <1>10 DEF Next

LEMMA PinsMove ==
  ASSUME TypeOK, ClockInv, [Next]_vars
  PROVE  /\ PinsDue \in Int /\ PinsDue' \in Int /\ PinsDue <= now + Day
         /\ pins' \subseteq pins \cup {now}
         /\ \/ PinsDue' <= PinsDue
            \/ faults' = faults + 1 /\ PinsDue' <= PinsDue + Day
            \/ PinsDue' <= now + Day /\ \A p \in pins' : p >= now
<1> DEFINE x == NextCleanup
           y == NextCleanup'
           n == now'
           a == PinsDue
           b == PinsDue'
<1>1. /\ now \in Nat /\ n \in Nat /\ (n = now \/ n = now + 1) /\ Day \in Nat \ {0}
      /\ x \in Nat /\ now <= x /\ x <= now + Day
      /\ y \in Nat /\ n <= y /\ y <= n + Day
  BY FaultsGrow, CleanupIsIn, Lengths
<1>2. /\ a = IF at["cleanup"] = "pins" THEN now ELSE x
      /\ b = IF at'["cleanup"] = "pins" THEN n ELSE y
  BY DEF PinsDue
<1>3. pins' \subseteq pins \cup {now}
  BY CleanupKinds DEF CleanupKind, CleanupSame
<1>4. \/ n = now /\ y = x /\ at'["cleanup"] = at["cleanup"]
      \/ n = now /\ y = x /\ at["cleanup"] # "pins" /\ at'["cleanup"] # "pins"
      \/ n = now /\ x = now /\ at["cleanup"] = "idle" /\ at'["cleanup"] = "pins"
      \/ n = now /\ y = x /\ \A p \in pins' : p >= now
      \/ n = now /\ faults' = faults + 1
      \/ /\ n = now + 1 /\ at'["cleanup"] = at["cleanup"]
         /\ (y <= x /\ at["cleanup"] = "idle") \/ (faults' = faults + 1 /\ (y <= x \/ y <= now + Day))
  BY CleanupKinds DEF CleanupKind
<1> HIDE DEF x, y, n, a, b
<1>5. a \in Int /\ b \in Int /\ a <= now + Day /\ now <= a
  BY <1>1, <1>2
<1>6. \/ b <= a
      \/ faults' = faults + 1 /\ b <= a + Day
      \/ b <= now + Day /\ \A p \in pins' : p >= now
  BY <1>1, <1>2, <1>4
<1> QED BY <1>3, <1>5, <1>6 DEF a, b

LEMMA JobsMove ==
  ASSUME TypeOK, ClockInv, [Next]_vars
  PROVE  /\ JobsDue \in Int /\ JobsDue' \in Int /\ JobsDue <= now + Day
         /\ jobs' \subseteq jobs \cup {now}
         /\ \/ JobsDue' <= JobsDue
            \/ faults' = faults + 1 /\ JobsDue' <= JobsDue + Day
            \/ JobsDue' <= now + Day /\ \A j \in jobs' : j + jobRetention >= now
<1> DEFINE x == NextCleanup
           y == NextCleanup'
           n == now'
           a == JobsDue
           b == JobsDue'
           Busy == at["cleanup"] \in {"pins", "jobs"}
           Stays == at'["cleanup"] \in {"pins", "jobs"}
<1>1. /\ now \in Nat /\ n \in Nat /\ (n = now \/ n = now + 1) /\ Day \in Nat \ {0}
      /\ x \in Nat /\ now <= x /\ x <= now + Day
      /\ y \in Nat /\ n <= y /\ y <= n + Day
  BY FaultsGrow, CleanupIsIn, Lengths
<1>2. /\ a = IF Busy THEN now ELSE x
      /\ b = IF Stays THEN n ELSE y
  BY DEF JobsDue
<1>3. jobs' \subseteq jobs \cup {now}
  BY CleanupKinds DEF CleanupKind, CleanupSame
<1>4. \/ n = now /\ y = x /\ (Stays <=> Busy)
      \/ n = now /\ x = now /\ Stays
      \/ n = now /\ y = x /\ \A j \in jobs' : j + jobRetention >= now
      \/ n = now /\ faults' = faults + 1
      \/ /\ n = now + 1 /\ (Stays <=> Busy)
         /\ (y <= x /\ ~ Busy) \/ (faults' = faults + 1 /\ (y <= x \/ y <= now + Day))
  BY CleanupKinds DEF CleanupKind
<1> HIDE DEF x, y, n, a, b, Busy, Stays
<1>5. a \in Int /\ b \in Int /\ a <= now + Day /\ now <= a
  BY <1>1, <1>2
<1>6. \/ b <= a
      \/ faults' = faults + 1 /\ b <= a + Day
      \/ b <= now + Day /\ \A j \in jobs' : j + jobRetention >= now
  BY <1>1, <1>2, <1>4
<1> QED BY <1>3, <1>5, <1>6 DEF a, b

LEMMA InitDeleted == Init => DeletedInv
<1> SUFFICES ASSUME Init PROVE DeletedInv
  OBVIOUS
<1>1. TypeOK /\ start \in Nat /\ now = start /\ faults = 0
  BY InitType, OffsetIs DEF Init
<1>2. jobs = {} /\ pins = {} /\ (\A l \in Tables : at[l] = "idle")
      /\ (\A l \in Tables : raw[l] = 0..(start - 1))
      /\ (\A l \in Tables : \A h \in DOMAIN hourly[l] : hourly[l][h] = {})
  BY DEF Init, Tables, Loops
<1>3. ASSUME NEW l \in Tables, NEW r \in raw[l]
      PROVE  RawDue(l) <= r + rawRetention + HourAt(1 + faults)
  <2>1. RawDue(l) = NextTick(l) /\ NextTick(l) \in Nat /\ NextTick(l) <= start + Hour
    BY <1>1, <1>2, TimesIn DEF RawDue, NextInTime
  <2>2. r \in Nat /\ start < Day /\ Day \in Nat /\ Day <= rawRetention /\ rawRetention \in Nat
    BY <1>1, <1>2, TypeParts, Lengths DEF TimeType
  <2>3. HourAt(1 + faults) = Hour /\ Hour \in Nat
    BY <1>1, Lengths DEF HourAt
  <2> QED BY <1>1, <2>1, <2>2, <2>3
<1> QED BY <1>2, <1>3 DEF DeletedInv

LEMMA NextDeleted == TypeOK /\ ClockInv /\ DeletedInv /\ [Next]_vars => DeletedInv'
<1> SUFFICES ASSUME TypeOK, ClockInv, DeletedInv, [Next]_vars PROVE DeletedInv'
  OBVIOUS
<1> DEFINE f == faults'
<1>1. /\ faults \in Nat /\ f \in Nat /\ faults <= f /\ now \in Nat
      /\ Hour \in Nat /\ Day \in Nat /\ rawRetention \in Nat /\ hourlyRetention \in Nat
      /\ jobRetention \in Nat /\ Day <= hourlyRetention
  BY FaultsGrow, Lengths
<1>2. /\ HourAt(1 + faults) \in Int /\ Hour <= HourAt(1 + faults)
      /\ HourAt(1 + f) \in Int /\ HourAt(1 + faults) <= HourAt(1 + f)
      /\ f = faults + 1 => HourAt(1 + f) = HourAt(1 + faults) + Hour
      /\ DayAt(1 + faults) \in Int /\ Day <= DayAt(1 + faults)
      /\ DayAt(1 + f) \in Int /\ DayAt(1 + faults) <= DayAt(1 + f)
      /\ f = faults + 1 => DayAt(1 + f) = DayAt(1 + faults) + Day
  BY <1>1, TimesPerFault
<1>3. /\ TableType /\ CleanupType /\ start \in Nat
      /\ \A l \in Tables : DOMAIN hourly[l] = 0..HourOf(Horizon)
      /\ \A l \in Tables : DOMAIN hourly'[l] = 0..HourOf(Horizon)
  <2>1. TableType /\ CleanupType /\ start \in Nat
    BY TypeParts DEF TimeType
  <2>2. \A l \in Tables : DOMAIN hourly'[l] = 0..HourOf(Horizon)
    BY NextTableType DEF TableType, HourOf
  <2> QED BY <2>1, <2>2 DEF TableType
<1>4. ASSUME NEW l \in Tables, NEW r \in raw'[l]
      PROVE  RawDue(l)' <= r + rawRetention + HourAt(1 + f)
  <2> DEFINE a == RawDue(l)
             b == RawDue(l)'
             e == r + rawRetention
  <2>1. /\ a \in Int /\ b \in Int /\ a <= now + Hour /\ r \in raw[l] \cup {now}
        /\ b <= a \/ (f = faults + 1 /\ b <= a + Hour) \/ (b <= now + Hour /\ e >= now)
    BY <1>4, RawMoves
  <2>2. r \in raw[l] => r \in Int /\ a <= e + HourAt(1 + faults)
    <3>1. r \in raw[l] => r \in Int
      BY <1>3 DEF TableType
    <3> QED BY <3>1 DEF DeletedInv
  <2> HIDE DEF a, b, f
  <2>3. r \in Int /\ a <= e + HourAt(1 + faults)
    BY <1>1, <1>2, <2>1, <2>2
  <2>4. e \in Int
    BY <1>1, <2>3
  <2> HIDE DEF e
  <2>5. b <= a \/ (f = faults + 1 /\ b <= a + Hour) \/ (now <= e /\ b <= now + Hour)
    BY <1>1, <2>1, <2>4
  <2>6. b <= e + HourAt(1 + f)
    BY <1>1, <1>2, <2>1, <2>3, <2>4, <2>5
  <2> QED BY <2>6 DEF b, e
<1>5. ASSUME NEW l \in Tables, NEW h \in 0..HourOf(Horizon), hourly'[l][h] # {}
      PROVE  HourlyDue(l)' <= HourAt(h) + hourlyRetention + DayAt(1 + f)
  <2> DEFINE a == HourlyDue(l)
             b == HourlyDue(l)'
             e == HourAt(h) + hourlyRetention
  <2>1. /\ a \in Int /\ b \in Int /\ a <= now + Day
        /\ hourly[l][h] # {} \/ now <= HourAt(h) + Day
        /\ b <= a \/ (f = faults + 1 /\ b <= a + Day) \/ (b <= now + Day /\ now <= e)
    BY <1>5, HourlyMoves
  <2>2. HourAt(h) \in Int
    <3>1. h \in Int
      OBVIOUS
    <3> QED BY <3>1, HourOrder
  <2>3. hourly[l][h] # {} => a <= e + DayAt(1 + faults)
    BY <1>3 DEF DeletedInv
  <2> HIDE DEF a, b, f
  <2>4. a <= e + DayAt(1 + faults) /\ e \in Int
    BY <1>1, <1>2, <2>1, <2>2, <2>3
  <2> HIDE DEF e
  <2>5. b <= a \/ (f = faults + 1 /\ b <= a + Day) \/ (now <= e /\ b <= now + Day)
    BY <2>1
  <2>6. b <= e + DayAt(1 + f)
    BY <1>1, <1>2, <2>1, <2>4, <2>5
  <2> QED BY <2>6 DEF b, e
<1>6. ASSUME NEW j \in jobs' PROVE JobsDue' <= j + jobRetention + DayAt(1 + f)
  <2> DEFINE a == JobsDue
             b == JobsDue'
             e == j + jobRetention
  <2>1. /\ a \in Int /\ b \in Int /\ a <= now + Day /\ j \in jobs \cup {now}
        /\ b <= a \/ (f = faults + 1 /\ b <= a + Day) \/ (b <= now + Day /\ e >= now)
    BY <1>6, JobsMove
  <2>2. j \in jobs => j \in Int /\ a <= e + DayAt(1 + faults)
    <3>1. j \in jobs => j \in Int
      BY <1>3 DEF CleanupType
    <3> QED BY <3>1 DEF DeletedInv
  <2> HIDE DEF a, b, f
  <2>3. j \in Int /\ a <= e + DayAt(1 + faults)
    BY <1>1, <1>2, <2>1, <2>2
  <2>4. e \in Int
    BY <1>1, <2>3
  <2> HIDE DEF e
  <2>5. b <= a \/ (f = faults + 1 /\ b <= a + Day) \/ (now <= e /\ b <= now + Day)
    BY <1>1, <2>1, <2>4
  <2>6. b <= e + DayAt(1 + f)
    BY <1>1, <1>2, <2>1, <2>3, <2>4, <2>5
  <2> QED BY <2>6 DEF b, e
<1>7. ASSUME NEW p \in pins' PROVE PinsDue' <= p + DayAt(1 + f)
  <2> DEFINE a == PinsDue
             b == PinsDue'
  <2>1. /\ a \in Int /\ b \in Int /\ a <= now + Day /\ p \in pins \cup {now}
        /\ b <= a \/ (f = faults + 1 /\ b <= a + Day) \/ (b <= now + Day /\ p >= now)
    BY <1>7, PinsMove
  <2>2. p \in pins => p \in Int /\ a <= p + DayAt(1 + faults)
    <3>1. p \in pins => p \in Int
      BY <1>3 DEF CleanupType
    <3> QED BY <3>1 DEF DeletedInv
  <2> HIDE DEF a, b, f
  <2>3. p \in Int /\ a <= p + DayAt(1 + faults)
    BY <1>1, <1>2, <2>1, <2>2
  <2>4. b <= a \/ (f = faults + 1 /\ b <= a + Day) \/ (now <= p /\ b <= now + Day)
    BY <1>1, <2>1, <2>3
  <2>5. b <= p + DayAt(1 + f)
    BY <1>1, <1>2, <2>1, <2>3, <2>4
  <2> QED BY <2>5 DEF b
<1> QED BY <1>3, <1>4, <1>5, <1>6, <1>7 DEF DeletedInv, HourAt, DayAt
-----------------------------------------------------------------------------
(* The invariant, and what follows from it.                                  *)

Inv == /\ TypeOK /\ ClockInv /\ RawInv /\ RowsInv /\ OnTimeInv /\ KeptInv /\ DailyInv
       /\ LostInv /\ DeletedInv

LEMMA Invariant == Spec => []Inv
<1>1. Init => Inv
  BY InitType, InitClock, InitRaw, InitRows, InitOnTime, InitKept, InitDaily, InitLost, InitDeleted
     DEF Inv
<1>2. Inv /\ [Next]_vars => Inv'
  BY NextType, NextClock, NextRaw, NextRows, NextOnTime, NextKept, NextDailyInv, NextLost, NextDeleted
     DEF Inv
<1> QED BY <1>1, <1>2, PTL DEF Spec

(* A row is overdue when the tick after the second one for its hour has come. *)
LEMMA OverdueIs ==
  ASSUME TypeOK
  PROVE  /\ now \in Nat /\ start \in Nat
         /\ \A r \in OverdueRows :
              /\ r \in start..now /\ r \in Nat /\ HourOf(r) \in Nat /\ HourAt(HourOf(r)) \in Int
              /\ (HourOf(r) + 2) * Hour = HourAt(HourOf(r)) + Hour + Hour
              /\ HourOf(r) * Hour = HourAt(HourOf(r))
              /\ HourAt(HourOf(r) + 2) = HourAt(HourOf(r)) + Hour + Hour
              /\ HourAt(HourOf(r)) + Hour + Hour < now
<1>1. now \in Nat /\ start \in Nat
  BY TypeParts DEF TimeType
<1>2. ASSUME NEW r \in OverdueRows
      PROVE  /\ r \in start..now /\ r \in Nat /\ HourOf(r) \in Nat /\ HourAt(HourOf(r)) \in Int
             /\ (HourOf(r) + 2) * Hour = HourAt(HourOf(r)) + Hour + Hour
             /\ HourOf(r) * Hour = HourAt(HourOf(r))
             /\ HourAt(HourOf(r) + 2) = HourAt(HourOf(r)) + Hour + Hour
             /\ HourAt(HourOf(r)) + Hour + Hour < now
  <2>1. r \in start..now /\ HourAt(HourOf(r) + 2) < now /\ HourAt(HourOf(r) + 2) = (HourOf(r) + 2) * Hour
    BY DEF OverdueRows, HourAt
  <2>2. r \in Nat /\ HourOf(r) \in Nat
    BY <1>1, <2>1, HourIn
  <2>3. HourAt(HourOf(r)) \in Int /\ HourAt(HourOf(r) + 2) = HourAt(HourOf(r)) + Hour + Hour
    BY <2>2, HourNext
  <2>4. HourOf(r) * Hour = HourAt(HourOf(r))
    BY DEF HourAt
  <2> QED BY <2>1, <2>2, <2>3, <2>4
<1> QED BY <1>1, <1>2

(* A tick that is lost, late or fails leaves rows that no hourly summary ever
   counts, but never more than an hour's per fault (aggregator.go, the window
   of two hours).                                                            *)
THEOREM RowsLostHolds == Spec => []RowsLost
<1>1. Inv => RowsLost
  <2> SUFFICES ASSUME TypeOK, RowsInv, NEW l \in Tables
               PROVE  Cardinality(OverdueRows \ summed[l]) <= Hour * faults
    BY DEF Inv, RowsLost
  <2>1. /\ now <= NextTick(l) /\ NextTick(l) \in Nat /\ Hour \in Nat /\ faults \in Nat
    BY TypeParts, TimesIn, Lengths DEF NextInTime, TimeType
  <2>2. OverdueRows \ summed[l] \subseteq Missing(l)
    <3> SUFFICES ASSUME NEW r \in OverdueRows PROVE r \in start..now /\ HourAt(HourOf(r) + 2) < NextTick(l)
      BY DEF Missing
    <3> QED BY <2>1, OverdueIs
  <2>3. /\ IsFiniteSet(Missing(l)) /\ Cardinality(Missing(l)) \in Nat
        /\ Cardinality(Missing(l)) <= HourAt(faults)
    BY MissingFinite DEF RowsInv
  <2>4. Cardinality(OverdueRows \ summed[l]) <= Cardinality(Missing(l))
        /\ Cardinality(OverdueRows \ summed[l]) \in Nat
    BY <2>2, <2>3, FS_Subset, FS_CardinalityType
  <2>5. HourAt(faults) = Hour * faults /\ HourAt(faults) \in Int
    BY <2>1 DEF HourAt
  <2> QED BY <2>3, <2>4, <2>5
<1> QED BY Invariant, <1>1, PTL

(* With all going well the summary of an hour, written twice, keeps the rows
   after the ticker's offset (aggregator.go, the upsert).                    *)
THEOREM SecondPartIsKeptHolds == Spec => []SecondPartIsKept
<1>1. Inv => SecondPartIsKept
  <2> SUFFICES ASSUME TypeOK, OnTimeInv, KeptInv, faults = 0, NEW l \in Tables, NEW r \in OverdueRows,
                      r % Hour >= Offset, (HourOf(r) + 2) * Hour + Offset < now,
                      HourOf(r) * Hour + hourlyRetention >= now
               PROVE  r \in hourly[l][HourOf(r)]
    BY DEF Inv, SecondPartIsKept
  <2> DEFINE h == HourOf(r)
             k == HourOf(NextTick(l))
  <2>1. /\ now \in Nat /\ r \in start..now /\ r \in Nat /\ h \in Nat /\ HourAt(h) \in Int
        /\ HourAt(h + 2) = HourAt(h) + Hour + Hour
        /\ HourAt(h) + Hour + Hour + Offset < now /\ HourAt(h) + hourlyRetention >= now
    BY OverdueIs
  <2>2. /\ NextTick(l) \in Nat /\ now <= NextTick(l) /\ NextTick(l) = HourAt(k) + Offset
        /\ Offset \in Nat /\ Hour \in Nat
    BY TimesIn, OnTimeParts, OffsetIs, Lengths DEF NextInTime, TickOnTime
  <2>3. k \in Nat /\ HourAt(k) \in Int
    BY <2>2, HourIn
  <2>4. h + 2 < k
    <3> HIDE DEF h, k
    <3>1. HourAt(h + 2) < HourAt(k)
      BY <2>1, <2>2, <2>3
    <3>2. h + 2 \in Int /\ ~ (k <= h + 2)
      <4>1. k <= h + 2 => HourAt(k) <= HourAt(h + 2)
        BY <2>1, <2>3, HourOrder
      <4> QED BY <2>1, <2>2, <2>3, <3>1, <4>1
    <3> QED BY <2>1, <2>3, <3>2
  <2>5. h + 1 < k
    <3> HIDE DEF h, k
    <3> QED BY <2>1, <2>3, <2>4
  <2>6. Kept(l, r)
    BY <2>1, KeptParts
  <2> QED BY <2>1, <2>4, <2>5, <2>6 DEF Kept
<1> QED BY Invariant, <1>1, PTL

(* Days that were over for a day were run.                                   *)
LEMMA OverdueDay ==
  ASSUME TypeOK, NEW l \in Tables, NEW d \in OverdueDays
  PROVE  d \in 0..DayOf(Horizon) /\ start <= DayAt(d) /\ d + 1 < DayOf(NextDaily(l))
<1>1. /\ now \in Nat /\ now <= Horizon /\ Horizon \in Nat /\ start \in Nat
      /\ NextDaily(l) \in Nat /\ now <= NextDaily(l)
  BY TypeParts, TimesIn, Lengths DEF TimeType, NextInTime
<1>2. d \in 0..DayOf(now) /\ start <= DayAt(d) /\ DayAt(d + 2) < now
  BY DEF OverdueDays, DayAt
<1>3. d \in Nat /\ d <= DayOf(now) /\ DayOf(now) \in Nat /\ DayOf(Horizon) \in Nat
      /\ DayOf(now) <= DayOf(Horizon)
  BY <1>1, <1>2, DayIn, Later
<1>4. d + 2 \in Int /\ DayAt(d + 2) \in Int
  BY <1>3, DayOrder
<1>5. DayAt(d + 2) <= NextDaily(l)
  BY <1>1, <1>2, <1>4
<1>6. d + 2 <= DayOf(NextDaily(l)) /\ DayOf(NextDaily(l)) \in Nat
  BY ONLY <1>1, <1>4, <1>5, DayFrom, DayIn
<1> QED BY <1>2, <1>3, <1>6

(* A day that gets no daily summary is never made good, but every fault costs
   one at most (RollupDaily, aggregateDaily).                                *)
THEOREM DaysLostHolds == Spec => []DaysLost
<1>1. Inv => DaysLost
  <2> SUFFICES ASSUME TypeOK, LostInv, NEW l \in Tables
               PROVE  Cardinality({d \in OverdueDays : daily[l][d] = {}}) <= faults
    BY DEF Inv, DaysLost
  <2> DEFINE L == {d \in OverdueDays : daily[l][d] = {}}
  <2>1. L \subseteq Lost(l)
    <3> SUFFICES ASSUME NEW d \in OverdueDays, daily[l][d] = {} PROVE d \in Lost(l)
      OBVIOUS
    <3> QED BY OverdueDay, LostIs DEF Unsummed
  <2>2. IsFiniteSet(Lost(l)) /\ Cardinality(Lost(l)) \in Nat /\ Cardinality(Lost(l)) <= faults
        /\ faults \in Nat
    BY LostFinite, TypeParts DEF LostInv, TimeType
  <2> HIDE DEF L
  <2>3. Cardinality(L) <= Cardinality(Lost(l)) /\ Cardinality(L) \in Nat
    BY <2>1, <2>2, FS_Subset, FS_CardinalityType
  <2>4. Cardinality(L) <= faults
    BY <2>2, <2>3
  <2> QED BY <2>4 DEF L
<1> QED BY Invariant, <1>1, PTL

(* The hours of day d of which the daily summary misses something.           *)
Lacking(l, d) == {h \in DOMAIN hourly[l] : /\ DayOf(h * Hour) = d
                                            /\ ~ (hourly[l][h] \subseteq daily[l][d])}

(* With all going well that is the last one, or none.                        *)
LEMMA LastHourLacks ==
  ASSUME Inv, faults = 0, NEW l \in Tables, NEW d \in OverdueDays, NEW h \in Lacking(l, d)
  PROVE  h = FirstHour(d) + HoursPerDay - 1 /\ ~ (l = "health" /\ HourOf(start) # 0)
<1>1. /\ TypeOK /\ OnTimeInv /\ KeptInv /\ DailyInv
      /\ now \in Nat /\ start \in Nat /\ d \in Nat /\ start <= DayAt(d) /\ DayAt(d + 2) < now
      /\ d + 1 < DayOf(NextDaily(l)) /\ NextTick(l) \in Nat /\ now <= NextTick(l)
      /\ Hour \in Nat \ {0} /\ HoursPerDay \in Nat /\ HoursPerDay >= 3
      /\ Day \in Nat /\ Hour + Hour + Hour <= Day
  <2>1. TypeOK /\ OnTimeInv /\ KeptInv /\ DailyInv
    BY DEF Inv
  <2>2. d \in 0..DayOf(now) /\ DayAt(d + 2) < now
    BY DEF OverdueDays, DayAt
  <2>3. now \in Nat /\ start \in Nat /\ NextTick(l) \in Nat /\ now <= NextTick(l)
    BY <2>1, TypeParts, TimesIn DEF TimeType, NextInTime
  <2>4. d \in Nat
    BY <2>2, <2>3, DayIn
  <2> QED BY <2>1, <2>2, <2>3, <2>4, OverdueDay, Lengths
<1>2. h \in Nat /\ DayOf(HourAt(h)) = d /\ h \in DOMAIN hourly[l]
  <2>1. hourly \in [Tables -> [0..HourOf(Horizon) -> SUBSET (0..(now - 1))]]
    BY <1>1, TypeParts DEF TableType
  <2>2. HourOf(Horizon) \in Nat
    BY Lengths, HourIn
  <2> QED BY <2>1, <2>2 DEF Lacking, HourAt
<1>3. PICK r \in hourly[l][h] : r \notin daily[l][d]
  BY DEF Lacking
<1>4. r \in Nat /\ r <= now /\ HourOf(r) = h
  <2>1. /\ hourly \in [Tables -> [0..HourOf(Horizon) -> SUBSET (0..(now - 1))]]
        /\ \A k \in 0..HourOf(Horizon) : hourly[l][k] \subseteq RowsOfHour(k)
    BY <1>1, TypeParts DEF TableType
  <2>2. r \in 0..(now - 1) /\ r \in RowsOfHour(h)
    BY <1>2, <1>3, <2>1
  <2> QED BY <1>1, <2>2 DEF RowsOfHour
<1>5. /\ DayOf(r) = d /\ FirstHour(d) \in Int /\ FirstHour(d) <= h
      /\ h < FirstHour(d) + HoursPerDay /\ h % HoursPerDay = h - FirstHour(d)
  BY <1>2, <1>4, HourInDay
<1>6. /\ DayAt(d) \in Int /\ DayAt(d) <= r /\ r < DayAt(d) + Day
      /\ DayAt(d + 2) = DayAt(d) + Day + Day
      /\ HourAt(h) \in Int /\ HourAt(h) <= r /\ HourAt(h + 3) = HourAt(h) + Hour + Hour + Hour
  <2>1. DayAt(d) \in Int /\ DayAt(d) <= r /\ r < DayAt(d) + Day
    BY <1>4, <1>5, DayIn
  <2>2. DayAt(d + 2) = DayAt(d) + Day + Day
    BY <1>1, DayNext
  <2>3. HourAt(h) \in Int /\ HourAt(h) <= r
    BY <1>4, HourIn
  <2>4. HourAt(h + 3) = HourAt(h) + Hour + Hour + Hour
    BY <1>2, HourNext
  <2> QED BY <2>1, <2>2, <2>3, <2>4
<1>7. r \in start..now
  BY <1>1, <1>4, <1>6
<1>8. h + 2 < HourOf(NextTick(l))
  <2>1. HourAt(h + 3) <= NextTick(l)
    BY <1>1, <1>4, <1>6
  <2>2. h + 3 <= HourOf(NextTick(l)) /\ HourOf(NextTick(l)) \in Nat
    BY <1>1, <1>2, <2>1, HourFrom, HourIn
  <2> QED BY <1>2, <2>2
<1>9. r % Hour >= Offset
  <2>1. Kept(l, r)
    BY <1>1, <1>7, KeptParts
  <2> QED BY <1>3, <1>4, <1>8, <2>1 DEF Kept
<1>10. ~ Counted(l, r)
  BY <1>1, <1>3, <1>5, <1>7, DailyParts
<1>11. h % HoursPerDay = HoursPerDay - 1 /\ ~ (l = "health" /\ HourOf(start) # 0)
  BY <1>4, <1>9, <1>10 DEF Counted
<1> QED BY <1>1, <1>2, <1>5, <1>11

(* As long as all goes well a daily summary lacks at most the last hour of its
   day, and in health not even that one if the process was started after the
   first hour of a day (RollupDaily, aggregateDaily).                        *)
THEOREM DailyLacksOneHourUntilFault == Spec => [](faults = 0 => DailyLacksOneHour)
<1>1. Inv => (faults = 0 => DailyLacksOneHour)
  <2> SUFFICES ASSUME Inv, faults = 0, NEW l \in Tables, NEW d \in OverdueDays
               PROVE  Cardinality(Lacking(l, d))
                        <= faults + (IF l = "health" /\ HourOf(start) # 0 THEN 0 ELSE 1)
    BY DEF DailyLacksOneHour, Lacking
  <2>1. CASE l = "health" /\ HourOf(start) # 0
    <3>1. Lacking(l, d) = {}
      BY <2>1, LastHourLacks
    <3> QED BY <2>1, <3>1, FS_EmptySet
  <2>2. CASE ~ (l = "health" /\ HourOf(start) # 0)
    <3> DEFINE last == FirstHour(d) + HoursPerDay - 1
    <3>1. Lacking(l, d) \subseteq {last}
      BY LastHourLacks
    <3> HIDE DEF last
    <3>2. IsFiniteSet({last}) /\ Cardinality({last}) = 1
      BY FS_Singleton
    <3>3. Cardinality(Lacking(l, d)) <= 1 /\ Cardinality(Lacking(l, d)) \in Nat
      BY <3>1, <3>2, FS_Subset, FS_CardinalityType
    <3> QED BY <2>2, <3>3
  <2> QED BY <2>1, <2>2
<1> QED BY Invariant, <1>1, PTL

(* What is due for deletion goes within an hour (a day), and every fault puts
   that off by no more than another one (PruneOldChecks and the like).       *)
THEOREM DeletedInTimeHolds == Spec => []DeletedInTime
<1>1. Inv => DeletedInTime
  <2> SUFFICES ASSUME TypeOK, ClockInv, DeletedInv PROVE DeletedInTime
    BY DEF Inv
  <2>1. /\ now \in Nat /\ faults \in Nat /\ start \in Nat
        /\ rawRetention \in Nat /\ hourlyRetention \in Nat /\ jobRetention \in Nat
    BY TypeParts, Lengths DEF TimeType
  <2>2. HourAt(1 + faults) = (1 + faults) * Hour /\ DayAt(1 + faults) = (1 + faults) * Day
        /\ HourAt(1 + faults) \in Int /\ DayAt(1 + faults) \in Int
    <3>1. HourAt(1 + faults) \in Int /\ DayAt(1 + faults) \in Int
      BY <2>1, HourOrder, DayOrder
    <3> QED BY <3>1 DEF HourAt, DayAt
  <2>3. ASSUME NEW l \in Tables, NEW r \in raw[l]
        PROVE  now <= r + rawRetention + (1 + faults) * Hour
    <3>1. RawDue(l) <= r + rawRetention + HourAt(1 + faults) /\ RawDue(l) \in Nat /\ now <= RawDue(l)
      BY <2>1, TimesIn DEF DeletedInv, RawDue, NextInTime
    <3>2. r \in Int
      BY TypeParts DEF TableType
    <3> QED BY <2>1, <2>2, <3>1, <3>2
  <2>4. ASSUME NEW l \in Tables, NEW h \in DOMAIN hourly[l], hourly[l][h] # {}
        PROVE  now <= h * Hour + hourlyRetention + (1 + faults) * Day
    <3>1. /\ HourlyDue(l) <= HourAt(h) + hourlyRetention + DayAt(1 + faults)
          /\ HourlyDue(l) \in Nat /\ now <= HourlyDue(l)
      BY <2>1, <2>4, TimesIn DEF DeletedInv, HourlyDue, NextInTime
    <3>2. h \in 0..HourOf(Horizon)
      BY TypeParts DEF TableType
    <3>3. HourAt(h) \in Int /\ HourAt(h) = h * Hour
      <4>1. h \in Int
        BY <3>2
      <4>2. HourAt(h) \in Int
        BY <4>1, HourOrder
      <4> QED BY <4>2 DEF HourAt
    <3> QED BY <2>1, <2>2, <3>1, <3>3
  <2>5. NextCleanup \in Nat /\ now <= NextCleanup
    BY <2>1, CleanupNow, CleanupSoon
  <2>6. ASSUME NEW j \in jobs PROVE now <= j + jobRetention + (1 + faults) * Day
    <3>1. JobsDue <= j + jobRetention + DayAt(1 + faults) /\ JobsDue \in Nat /\ now <= JobsDue
      BY <2>1, <2>5 DEF DeletedInv, JobsDue
    <3>2. j \in Int
      BY <2>1, TypeParts DEF CleanupType
    <3> QED BY <2>1, <2>2, <3>1, <3>2
  <2>7. ASSUME NEW p \in pins PROVE now <= p + (1 + faults) * Day
    <3>1. PinsDue <= p + DayAt(1 + faults) /\ PinsDue \in Nat /\ now <= PinsDue
      BY <2>1, <2>5 DEF DeletedInv, PinsDue
    <3>2. p \in Int
      BY <2>1, TypeParts DEF CleanupType
    <3> QED BY <2>1, <2>2, <3>1, <3>2
  <2> QED BY <2>3, <2>4, <2>6, <2>7 DEF DeletedInTime
<1> QED BY Invariant, <1>1, PTL
=============================================================================
