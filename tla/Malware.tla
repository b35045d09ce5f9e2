------------------------------- MODULE Malware -------------------------------
(***************************************************************************)
(* The scan windows of the malware worker (workers/malware): once per      *)
(* window the sites in service are loaded and each gets a goroutine that   *)
(* sleeps for its share of the window (stagger.go), looks for the site's   *)
(* key in Redis, inserts a malware_scan job and sets the key.              *)
(*                                                                         *)
(* Time passes in units.  A goroutine whose sleep is over may be late by   *)
(* at most MaxLate units in all, its calls to Postgres and Redis included; *)
(* the code keeps the difference of windowDuration and windowCap for this. *)
(* What is done with the results of the scans is in Sites.                 *)
(***************************************************************************)
EXTENDS Integers, FiniteSets

CONSTANTS
  Sites,
  windowDuration,   \* also scanWindowInterval
  windowCap,
  minScanGap,
  MaxLate,          \* bound on how late the calls of a window's scan may come
  MaxChanges,       \* bound on changes of the sites by others
  MaxFaults         \* bound on failed calls and crashes

ASSUME SitesAssumption == IsFiniteSet(Sites) /\ Sites # {}

ASSUME WindowAssumption ==
  /\ {windowDuration, windowCap, minScanGap} \subseteq Nat \ {0}
  /\ MaxLate \in Nat /\ windowCap + MaxLate <= windowDuration
  /\ MaxChanges \in Nat /\ MaxFaults \in Nat

VARIABLES
  inService,  \* sites whose status is not deleted, suspended or quarantined
  placed,     \* sites with a server_id
  dedup,      \* units the key malware:last_scan:<site> has to live, 0 when absent
  ticker,     \* units to the next tick
  loading,    \* how late the startWindow goroutines are that have not loaded yet
  scans,      \* the goroutines of the windows
  age,        \* units since the last scan job of a site (history)
  ready,      \* units since the site can be scanned without a break (history)
  unmarked,   \* sites whose last scan job a fault left without a key (history)
  changes, faults

worker  == <<ticker, loading, scans>>
history == <<age, ready, unmarked>>
vars == <<inService, placed, dedup, worker, history, changes, faults>>

\* The latest offset of a scan in its window: whatever number of the sites is in
\* service, its sleep is over a step of all of them before the cap.
Longest == windowCap - windowCap \div Cardinality(Sites) + MaxLate

\* The longest time between two jobs of a site: its key is set late, and still there in
\* the next window.
Old     == windowDuration + minScanGap + MaxLate + Longest

Scan == [site : Sites, server : BOOLEAN, wait : 0..windowCap, late : 0..MaxLate,
         pc : {"check", "insert", "mark"}]

Fault == faults < MaxFaults /\ faults' = faults + 1

\* The first window begins at once.
Init ==
  /\ inService = Sites /\ placed = Sites
  /\ dedup = [s \in Sites |-> 0]
  /\ ticker = windowDuration /\ loading = {0} /\ scans = {}
  /\ age = [s \in Sites |-> Old] /\ ready = [s \in Sites |-> 0]
  /\ unmarked = {}
  /\ changes = 0 /\ faults = 0
-----------------------------------------------------------------------------
(* startWindow.                                                            *)

\* Faulty variant: each scan at the end of its share of the whole window.
DelaysOfWindow(n) == [i \in 1..n |-> (windowDuration \div n) * i]

Delays(n) ==
  LET step == windowCap \div n
  IN  [i \in 1..n |-> IF step * (i - 1) > windowCap THEN windowCap ELSE step * (i - 1)]

\* The query has no order: any row may be the first.
Orders(S) == {f \in [S -> 1..Cardinality(S)] : \A s, t \in S : f[s] = f[t] => s = t}

startWindow(late) ==
  /\ late \in loading
  /\ loading' = loading \ {late}
  /\ \E order \in Orders(inService) :
       scans' = scans \cup
         {[site |-> s, server |-> s \in placed, late |-> late, pc |-> "check",
           wait |-> Delays(Cardinality(inService))[order[s]]] : s \in inService}
  /\ UNCHANGED <<inService, placed, dedup, ticker, history, changes, faults>>

\* The query fails, and the window has no scans.
LoadError(late) ==
  /\ late \in loading
  /\ Fault
  /\ loading' = loading \ {late}
  /\ UNCHANGED <<inService, placed, dedup, ticker, scans, history, changes>>
-----------------------------------------------------------------------------
(* scanSite: a goroutine g whose sleep is over.                            *)

Awake(g, pc) == g.wait = 0 /\ g.pc = pc
Goto(g, pc)  == scans' = (scans \ {g}) \cup {[g EXCEPT !.pc = pc]}
Done(g)      == scans' = scans \ {g}

\* Faulty variant: the answer of EXISTS is ignored.
AlwaysDue(g) == g.server

\* Not scanned recently, and on a server.
ScanDue(g) == dedup[g.site] = 0 /\ g.server

checkDedup(g) ==
  /\ Awake(g, "check")
  /\ IF ScanDue(g) THEN Goto(g, "insert") ELSE Done(g)
  /\ UNCHANGED <<inService, placed, dedup, ticker, loading, history, changes, faults>>

insertScan(g) ==
  /\ Awake(g, "insert")
  /\ Goto(g, "mark")
  /\ age' = [age EXCEPT ![g.site] = 0]
  /\ UNCHANGED <<inService, placed, dedup, ticker, loading, ready, unmarked, changes, faults>>

\* Faulty variants: the key lives for the window; for two.
KeyTTLOfWindow  == windowDuration
KeyTTLOfWindows == 2 * windowDuration + 1

KeyTTL == minScanGap

markScanned(g) ==
  /\ Awake(g, "mark")
  /\ Done(g)
  /\ dedup' = [dedup EXCEPT ![g.site] = KeyTTL]
  /\ unmarked' = unmarked \ {g.site}
  /\ UNCHANGED <<inService, placed, ticker, loading, age, ready, changes, faults>>

\* A call fails and ends the scan.  The INSERT may have been applied.
ScanError(g) ==
  /\ g.wait = 0
  /\ Fault
  /\ Done(g)
  /\ \/ g.pc \in {"check", "insert"} /\ UNCHANGED <<age, unmarked>>
     \/ g.pc = "insert" /\ age' = [age EXCEPT ![g.site] = 0]
                        /\ unmarked' = unmarked \cup {g.site}
     \/ g.pc = "mark"   /\ unmarked' = unmarked \cup {g.site}
                        /\ UNCHANGED age
  /\ UNCHANGED <<inService, placed, dedup, ticker, loading, ready, changes>>
-----------------------------------------------------------------------------
(* Time, the other parties, and the end of the process.                    *)

\* Faulty variant: only the start of the process begins a window.
TickWithoutWindow ==
  /\ ticker = 0
  /\ ticker' = windowDuration
  /\ UNCHANGED <<inService, placed, dedup, loading, scans, history, changes, faults>>

Tick ==
  /\ ticker = 0
  /\ ticker' = windowDuration
  /\ loading' = loading \cup {0}
  /\ UNCHANGED <<inService, placed, dedup, scans, history, changes, faults>>

Older(n)   == IF n < Old THEN n + 1 ELSE Old
Shorter(n) == IF n > 0 THEN n - 1 ELSE 0

Scannable(s) == s \in inService /\ s \in placed

TimePasses ==
  /\ ticker > 0
  /\ \A late \in loading : late < MaxLate
  /\ \A g \in scans : g.wait = 0 => g.late < MaxLate
  /\ ticker' = ticker - 1
  /\ loading' = {late + 1 : late \in loading}
  /\ scans' = {IF g.wait > 0 THEN [g EXCEPT !.wait = @ - 1]
                             ELSE [g EXCEPT !.late = @ + 1] : g \in scans}
  /\ dedup' = [s \in Sites |-> Shorter(dedup[s])]
  /\ age' = [s \in Sites |-> Older(age[s])]
  /\ ready' = [s \in Sites |-> IF Scannable(s) THEN Older(ready[s]) ELSE 0]
  /\ UNCHANGED <<inService, placed, unmarked, changes, faults>>

Toggled(S, s) == IF s \in S THEN S \ {s} ELSE S \cup {s}

\* Another worker or the API takes the site out of service or back, or places it.
SiteChanges(s) ==
  /\ changes < MaxChanges
  /\ changes' = changes + 1
  /\ \/ inService' = Toggled(inService, s) /\ UNCHANGED placed
     \/ placed' = Toggled(placed, s) /\ UNCHANGED inService
  /\ ready' = [ready EXCEPT ![s] = 0]
  /\ UNCHANGED <<dedup, worker, age, unmarked, faults>>

\* The process stops and another starts; the keys in Redis live on.
Restart ==
  /\ Fault
  /\ ticker' = windowDuration /\ loading' = {0} /\ scans' = {}
  /\ unmarked' = unmarked \cup {g.site : g \in {h \in scans : h.pc = "mark"}}
  /\ UNCHANGED <<inService, placed, dedup, age, ready, changes>>

scanSite(g) == checkDedup(g) \/ insertScan(g) \/ markScanned(g)

Next ==
  \/ \E late \in loading : startWindow(late) \/ LoadError(late)
  \/ \E g \in scans : scanSite(g) \/ ScanError(g)
  \/ \E s \in Sites : SiteChanges(s)
  \/ Tick \/ TimePasses \/ Restart

Spec == Init /\ [][Next]_vars

\* Time passes, the ticker fires, the goroutines are scheduled and their calls end.
Fairness ==
  /\ WF_vars(TimePasses) /\ WF_vars(Tick)
  /\ WF_vars(\E late \in loading : startWindow(late))
  /\ \A s \in Sites : WF_vars(\E g \in scans : g.site = s /\ scanSite(g))

FairSpec == Spec /\ Fairness
-----------------------------------------------------------------------------
(* Properties.                                                             *)

TypeOK ==
  /\ inService \subseteq Sites /\ placed \subseteq Sites
  /\ dedup \in [Sites -> 0..minScanGap]
  /\ ticker \in 0..windowDuration /\ loading \subseteq 0..MaxLate
  /\ scans \subseteq Scan
  /\ age \in [Sites -> 0..Old] /\ ready \in [Sites -> 0..Old]
  /\ unmarked \subseteq Sites
  /\ changes \in 0..MaxChanges /\ faults \in 0..MaxFaults

\* Windows do not run into each other: whatever order the sites are loaded in, the
\* last goroutine of a window is gone before the next window loads its sites, so
\* nobody sets a key between another's look at it and its job.
OneScanPerSite ==
  \A g, h \in scans : g.site = h.site => g = h

\* Two scan jobs of a site are minScanGap apart, over windows, new orders and restarts
\* (which begin a window at once), unless a fault kept the first from setting its key.
RescansWereUnmarked ==
  \A g \in scans :
    g.pc = "insert" => age[g.site] >= minScanGap \/ g.site \in unmarked

\* The key makes a site miss one window at most, and never two in a row: while nothing
\* fails, a site in service has a scan job within this time of its last one.
ScannedInTime ==
  faults = 0 => \A s \in Sites : age[s] < Old \/ ready[s] < Old

\* A site that stays in service is scanned again and again, although windows fail to
\* load, calls fail and processes restart.
KeepsScanning ==
  \A s \in Sites : <>[]Scannable(s) => []<>(age[s] = 0)
=============================================================================
