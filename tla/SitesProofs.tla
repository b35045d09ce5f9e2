----------------------------- MODULE SitesProofs -----------------------------
(***************************************************************************)
(* Theorems about the probe cycle and the status of the sites, for any     *)
(* number of sites, goroutines, thresholds, redirects, writes and faults.  *)
(***************************************************************************)
EXTENDS Sites, FiniteSetTheorems, TLAPS

Counts   == 0..MaxCount \cup 0..(maxRedirects + 1)
ProbeRow == [site : Sites, seen : Statuses, pc : Labels, count : Counts]

(* The type invariant but for the number of goroutines, with what the
   redirect counter needs: a goroutine writes back what it has read.         *)
TypeInv ==
  /\ status \in [Sites -> Statuses]
  /\ failures \in [Sites -> 0..MaxCount]
  /\ dedup \subseteq Sites
  /\ listed \subseteq SiteRow
  /\ redirects \in 0..(maxRedirects + 1)
  /\ probes \subseteq ProbeRow
  /\ \A g \in probes : g.pc = "redirect" => g.count \in 0..(maxRedirects + 1)
  /\ results \subseteq Sites
  /\ streak \in [Sites -> 0..MaxCount]
  /\ restarts \in [Sites -> 0..MaxCount]
  /\ uncleared \subseteq Sites
  /\ writes \in 0..MaxWrites
  /\ faults \in 0..MaxFaults

(* A site is in the hands of one goroutine, and of none while it is listed.  *)
OneProbePerSite ==
  /\ \A g, h \in probes : g.site = h.site => g = h
  /\ \A r \in listed : \A g \in probes : r.site # g.site
  /\ \A r, q \in listed : r.site = q.site => r = q

SlotsInv == IsFiniteSet(probes) /\ Cardinality(probes) <= probeParallelism

(* Who took the key has not inserted its job yet.                            *)
WindowInv ==
  /\ OneRestartPerWindow
  /\ \A g \in probes : g.pc = "insert" => restarts[g.site] = 0

(* What a goroutine will do is covered by the failed probes in a row, unless
   a DEL is owed to its site.                                                *)
Covered(g) ==
  /\ g.pc = "del" => streak[g.site] = 0
  /\ \/ g.site \in uncleared
     \/ /\ g.pc = "incr" => BumpUp(failures[g.site]) <= streak[g.site]
        /\ g.pc \in {"restart", "insert"} => g.count <= streak[g.site]
        /\ g.pc = "markError" => failuresBeforeError <= streak[g.site]

(* The counter in Redis is ahead of the failures in a row only between a
   probe that succeeds and its DEL, or when that DEL has not been made.      *)
CounterCovered(s) ==
  \/ failures[s] <= streak[s] \/ s \in uncleared
  \/ \E g \in probes : g.site = s /\ g.pc = "del"

StreakInv ==
  /\ \A s \in Sites : CounterCovered(s)
  /\ \A g \in probes : Covered(g)

LEMMA Thresholds ==
  /\ failuresBeforeError \in Nat /\ failuresBeforeError >= 1
  /\ MaxCount \in Nat /\ MaxCount >= 2 /\ maxRedirects \in Nat
  /\ probeParallelism \in Nat /\ probeParallelism >= 1
BY SitesAssumption DEF MaxCount

LEMMA BumpUpBounds ==
  /\ \A n \in 0..MaxCount : BumpUp(n) \in 0..MaxCount /\ BumpUp(n) >= 1 /\ BumpUp(n) >= n
  /\ \A m, n \in 0..MaxCount : m <= n => BumpUp(m) <= BumpUp(n)
  /\ BumpUp(0) = 1
BY Thresholds DEF BumpUp
-----------------------------------------------------------------------------
(* What a step does to the goroutines: one of them moves on, or ends.        *)

Moves(g, new) == probes' = (probes \ {g}) \cup {new}

LEMMA GotoMoves ==
  ASSUME TypeInv, NEW g \in probes, NEW pc \in Labels, Goto(g, pc)
  PROVE  \E new \in ProbeRow :
           /\ new.site = g.site /\ new.seen = g.seen /\ new.count = g.count
           /\ new.pc = pc /\ Moves(g, new)
<1>1. g \in ProbeRow
  BY DEF TypeInv
<1>2. [g EXCEPT !.pc = pc] \in ProbeRow
  BY <1>1 DEF ProbeRow
<1> QED BY <1>1, <1>2 DEF Goto, Moves, ProbeRow

LEMMA GotoCountMoves ==
  ASSUME TypeInv, NEW g \in probes, NEW pc \in Labels, NEW n \in Counts,
         probes' = (probes \ {g}) \cup {[g EXCEPT !.pc = pc, !.count = n]}
  PROVE  \E new \in ProbeRow :
           /\ new.site = g.site /\ new.seen = g.seen /\ new.count = n
           /\ new.pc = pc /\ Moves(g, new)
<1>1. g \in ProbeRow
  BY DEF TypeInv
<1>2. [g EXCEPT !.pc = pc, !.count = n] \in ProbeRow
  BY <1>1 DEF ProbeRow
<1> QED BY <1>1, <1>2 DEF Moves, ProbeRow

(* Where a goroutine goes, by action; a value it leaves with is a Count.     *)
Ended(g) == probes' = probes \ {g}

LEMMA StepMoves ==
  ASSUME TypeInv, NEW g \in probes, ProbeStep(g) \/ CallError(g)
  PROVE  /\ UNCHANGED listed
         /\ \/ Ended(g)
            \/ \E new \in ProbeRow :
                 /\ new.site = g.site /\ Moves(g, new)
                 /\ new.pc = "redirect" => new.count \in 0..(maxRedirects + 1)
<1> USE Thresholds
<1>1. /\ g \in ProbeRow /\ g.site \in Sites /\ 0 \in Counts
      /\ failures[g.site] \in 0..MaxCount /\ redirects \in Counts
      /\ BumpUp(failures[g.site]) \in Counts
  BY BumpUpBounds DEF TypeInv, ProbeRow, Counts
<1>2. UNCHANGED listed
  BY DEF ProbeStep, CallError, Probe, CheckRedirect, clearFailures, restore, countFailure,
         takeDedup, insertRestart, markError
<1> DEFINE Goes == \E new \in ProbeRow :
                 /\ new.site = g.site /\ Moves(g, new)
                 /\ new.pc = "redirect" => new.count \in 0..(maxRedirects + 1)
<1>3. ASSUME NEW pc \in Labels \ {"redirect"}, Goto(g, pc) PROVE Goes
  BY <1>3, GotoMoves
<1>4. ASSUME NEW pc \in Labels \ {"redirect"}, NEW n \in Counts,
             probes' = (probes \ {g}) \cup {[g EXCEPT !.pc = pc, !.count = n]}
      PROVE  Goes
  <2>1. PICK new \in ProbeRow : new.site = g.site /\ new.pc = pc /\ Moves(g, new)
    BY <1>4, GotoCountMoves
  <2> QED BY <2>1
<1>5. ASSUME probes' = (probes \ {g}) \cup {[g EXCEPT !.pc = "redirect", !.count = redirects]}
      PROVE  Goes
  <2>1. "redirect" \in Labels
    BY DEF Labels
  <2>2. PICK new \in ProbeRow : new.site = g.site /\ new.count = redirects /\ Moves(g, new)
    BY <1>1, <1>5, <2>1, GotoCountMoves
  <2> QED BY <2>2 DEF TypeInv
<1>6. ASSUME NEW n, AfterRestart(g, n) \/ AfterDel(g) PROVE Ended(g) \/ Goes
  <2>1. {"markError", "restore"} \subseteq Labels \ {"redirect"}
    BY DEF Labels
  <2> QED BY <1>3, <1>6, <2>1 DEF AfterRestart, AfterDel, Done, Ended
<1>7. ASSUME Up(g) \/ Down(g) PROVE Goes
  <2>1. {"del", "incr"} \subseteq Labels \ {"redirect"}
    BY DEF Labels
  <2> QED BY <1>1, <1>4, <1>7, <2>1 DEF Up, Down
<1> HIDE DEF Goes
<1>8. CASE Probe(g)
  BY <1>2, <1>5, <1>7, <1>8 DEF Probe, Goes
<1>9. CASE CheckRedirect(g)
  BY <1>2, <1>7, <1>9 DEF CheckRedirect, Goes
<1>10. CASE clearFailures(g) \/ insertRestart(g)
  BY <1>2, <1>6, <1>10 DEF clearFailures, insertRestart, Goes
<1>11. CASE countFailure(g)
  <2>1. "restart" \in Labels \ {"redirect"}
    BY DEF Labels
  <2> QED BY <1>1, <1>2, <1>4, <1>6, <1>11, <2>1 DEF countFailure, Goes
<1>12. CASE takeDedup(g)
  <2>1. "insert" \in Labels \ {"redirect"}
    BY DEF Labels
  <2> QED BY <1>2, <1>3, <1>6, <1>12, <2>1 DEF takeDedup, Goes
<1>13. CASE restore(g) \/ markError(g)
  BY <1>2, <1>13 DEF restore, markError, Done, Ended
<1>14. CASE CallError(g)
  BY <1>2, <1>6, <1>14 DEF CallError, Done, Ended, Goes
<1> QED BY <1>8, <1>9, <1>10, <1>11, <1>12, <1>13, <1>14 DEF ProbeStep
-----------------------------------------------------------------------------
(* The parts of the inductive invariant.                                     *)

LEMMA InitInv == Init => TypeInv /\ OneProbePerSite /\ SlotsInv /\ WindowInv /\ StreakInv
<1> SUFFICES ASSUME Init PROVE TypeInv /\ OneProbePerSite /\ SlotsInv /\ WindowInv /\ StreakInv
  OBVIOUS
<1> USE Thresholds DEF Init
<1>1. TypeInv
  BY SitesAssumption DEF TypeInv, Statuses
<1>2. OneProbePerSite /\ WindowInv
  BY DEF OneProbePerSite, WindowInv, OneRestartPerWindow
<1>3. SlotsInv
  BY FS_EmptySet DEF SlotsInv
<1>4. StreakInv
  BY DEF StreakInv, CounterCovered
<1> QED BY <1>1, <1>2, <1>3, <1>4

(* Where listed and probes stay, or go together, not much can happen.        *)
LEMMA OtherSteps ==
  ASSUME [Next]_vars, ~ loadActiveSites, ~ \E r \in listed : startProbe(r),
         ~ \E g \in probes : ProbeStep(g) \/ CallError(g)
  PROVE  UNCHANGED <<listed, probes>> \/ (listed' = {} /\ probes' = {})
BY DEF Next, CycleStep, vars, health, DedupExpires, FailuresExpire, quarantine, Write,
       createIncident, failInstance, ApiWrites, suspend, Restart

LEMMA NextOneProbe == TypeInv /\ OneProbePerSite /\ [Next]_vars => OneProbePerSite'
<1> SUFFICES ASSUME TypeInv, OneProbePerSite, [Next]_vars PROVE OneProbePerSite'
  OBVIOUS
<1> USE DEF OneProbePerSite
<1>1. CASE loadActiveSites
  BY <1>1 DEF loadActiveSites
<1>2. ASSUME NEW r \in listed, startProbe(r) PROVE OneProbePerSite'
  <2>1. PICK new : /\ new.site = r.site
                   /\ probes' = probes \cup {new} /\ listed' = listed \ {r}
    BY <1>2 DEF startProbe
  <2> QED BY <2>1
<1>3. ASSUME NEW g \in probes, ProbeStep(g) \/ CallError(g) PROVE OneProbePerSite'
  <2>1. listed' = listed
    BY <1>3, StepMoves
  <2>2. CASE Ended(g)
    <3>1. probes' = probes \ {g}
      BY <2>2 DEF Ended
    <3> QED BY <2>1, <3>1
  <2>3. CASE \E new \in ProbeRow : new.site = g.site /\ Moves(g, new)
    <3>1. PICK new : new.site = g.site /\ probes' = (probes \ {g}) \cup {new}
      BY <2>3 DEF Moves
    <3>2. \A x, y \in probes' : x.site = y.site => x = y
      BY <3>1
    <3>3. \A x \in probes' : \E y \in probes : x.site = y.site
      BY <3>1
    <3> QED BY <2>1, <3>2, <3>3
  <2> QED BY <1>3, <2>2, <2>3, StepMoves
<1> QED BY <1>1, <1>2, <1>3, OtherSteps

LEMMA NextSlots == TypeInv /\ SlotsInv /\ [Next]_vars => SlotsInv'
<1> SUFFICES ASSUME TypeInv, SlotsInv, [Next]_vars PROVE SlotsInv'
  OBVIOUS
<1> USE Thresholds
<1>1. CASE loadActiveSites
  BY <1>1 DEF loadActiveSites, SlotsInv
<1>2. ASSUME NEW r \in listed, startProbe(r) PROVE SlotsInv'
  <2>1. PICK new : probes' = probes \cup {new} /\ Cardinality(probes) < probeParallelism
    BY <1>2 DEF startProbe
  <2> QED BY <2>1, FS_AddElement, FS_CardinalityType DEF SlotsInv
<1>3. ASSUME NEW g \in probes, ProbeStep(g) \/ CallError(g) PROVE SlotsInv'
  <2>1. /\ IsFiniteSet(probes \ {g})
        /\ Cardinality(probes \ {g}) = Cardinality(probes) - 1
        /\ Cardinality(probes) \in Nat
    BY FS_RemoveElement, FS_CardinalityType DEF SlotsInv
  <2>2. CASE Ended(g)
    BY <2>1, <2>2 DEF Ended, SlotsInv
  <2>3. CASE \E new \in ProbeRow : Moves(g, new)
    <3>1. PICK new \in ProbeRow : probes' = (probes \ {g}) \cup {new}
      BY <2>3 DEF Moves
    <3> DEFINE S == probes \ {g}
    <3>4. IsFiniteSet(S) /\ Cardinality(S) \in Nat
      BY <2>1, FS_CardinalityType
    <3> HIDE DEF S
    <3>2. IsFiniteSet(S \cup {new}) /\ Cardinality(S \cup {new}) <= Cardinality(S) + 1
      BY <3>4, FS_AddElement
    <3>3. Cardinality(S \cup {new}) \in Nat
      BY <3>2, FS_CardinalityType
    <3> QED BY <2>1, <3>1, <3>2, <3>3 DEF SlotsInv, S
  <2> QED BY <1>3, <2>2, <2>3, StepMoves
<1> QED BY <1>1, <1>2, <1>3, OtherSteps, FS_EmptySet DEF SlotsInv

(* The counters stay in their ranges, and the tables well typed.             *)
LEMMA NextType == TypeInv /\ [Next]_vars => TypeInv'
<1> SUFFICES ASSUME TypeInv, [Next]_vars PROVE TypeInv'
  OBVIOUS
<1> USE Thresholds
<1> DEFINE Rows(p, l) ==
      /\ p \subseteq ProbeRow /\ l \subseteq SiteRow
      /\ \A g \in p : g.pc = "redirect" => g.count \in 0..(maxRedirects + 1)
<1>1. Rows(probes', listed')
  <2>1. CASE loadActiveSites
    BY <2>1 DEF loadActiveSites, TypeInv, SiteRow
  <2>2. ASSUME NEW r \in listed, startProbe(r) PROVE Rows(probes', listed')
    <3>1. [site |-> r.site, seen |-> r.seen, pc |-> "probe", count |-> 0] \in ProbeRow
      BY DEF TypeInv, SiteRow, ProbeRow, Labels, Counts
    <3> QED BY <2>2, <3>1 DEF startProbe, TypeInv
  <2>3. ASSUME NEW g \in probes, ProbeStep(g) \/ CallError(g) PROVE Rows(probes', listed')
    <3>1. CASE Ended(g)
      BY <2>3, <3>1, StepMoves DEF Ended, TypeInv
    <3>2. CASE \E new \in ProbeRow :
                 /\ Moves(g, new)
                 /\ new.pc = "redirect" => new.count \in 0..(maxRedirects + 1)
      BY <2>3, <3>2, StepMoves DEF Moves, TypeInv
    <3> QED BY <2>3, <3>1, <3>2, StepMoves
  <2>4. CASE UNCHANGED <<listed, probes>> \/ (listed' = {} /\ probes' = {})
    BY <2>4 DEF TypeInv
  <2> QED BY <2>1, <2>2, <2>3, <2>4, OtherSteps
<1>2. CASE \E g \in probes : ProbeStep(g) \/ CallError(g)
  <2>1. PICK g \in probes : ProbeStep(g) \/ CallError(g)
    BY <1>2
  <2>2. /\ g.site \in Sites /\ failures[g.site] \in 0..MaxCount
        /\ streak[g.site] \in 0..MaxCount /\ restarts[g.site] \in 0..MaxCount
        /\ g.pc = "redirect" => g.count \in 0..(maxRedirects + 1)
    BY DEF TypeInv, ProbeRow
  <2>3. streak' \in [Sites -> 0..MaxCount] /\ redirects' \in 0..(maxRedirects + 1)
    BY <2>1, <2>2, BumpUpBounds
    DEF ProbeStep, CallError, Probe, CheckRedirect, Up, Down, RedirectCount, clearFailures,
        restore, countFailure, takeDedup, insertRestart, markError, TypeInv, checker
  <2>4. failures' \in [Sites -> 0..MaxCount] /\ restarts' \in [Sites -> 0..MaxCount]
    <3>1. /\ BumpUp(failures[g.site]) \in 0..MaxCount
          /\ BumpUp(restarts[g.site]) \in 0..MaxCount /\ 0 \in 0..MaxCount
      BY <2>2, BumpUpBounds
    <3>2. failures' \in [Sites -> 0..MaxCount]
      BY <2>1, <3>1 DEF ProbeStep, CallError, Probe, CheckRedirect, clearFailures, restore,
         countFailure, takeDedup, insertRestart, markError, TypeInv
    <3>3. restarts' \in [Sites -> 0..MaxCount]
      BY <2>1, <3>1 DEF ProbeStep, CallError, Probe, CheckRedirect, clearFailures, restore,
         countFailure, takeDedup, NewWindow, insertRestart, markError, TypeInv
    <3> QED BY <3>2, <3>3
  <2>5. /\ status' \in [Sites -> Statuses] /\ dedup' \subseteq Sites
        /\ results' \subseteq Sites /\ UNCHANGED writes /\ faults' \in 0..MaxFaults
        /\ uncleared' \subseteq Sites
    BY <2>1, <2>2, SitesAssumption
    DEF ProbeStep, CallError, Fault, Probe, CheckRedirect, clearFailures, restore,
        countFailure, takeDedup, NewWindow, insertRestart, markError, TypeInv, Statuses,
        malware
  <2> QED BY <1>1, <2>3, <2>4, <2>5 DEF TypeInv
<1>3. CASE ~ \E g \in probes : ProbeStep(g) \/ CallError(g)
  <2>1. streak' \in [Sites -> 0..MaxCount] /\ failures' \in [Sites -> 0..MaxCount]
        /\ restarts' \in [Sites -> 0..MaxCount] /\ redirects' \in 0..(maxRedirects + 1)
    BY <1>3 DEF Next, CycleStep, vars, health, checker, loadActiveSites, startProbe,
       DedupExpires, FailuresExpire, quarantine, Write, createIncident, failInstance,
       ApiWrites, suspend, Restart, TypeInv
  <2>2. status' \in [Sites -> Statuses]
    BY <1>3 DEF Next, CycleStep, vars, loadActiveSites, startProbe, DedupExpires,
       FailuresExpire, quarantine, Write, createIncident, failInstance, ApiWrites, suspend,
       Restart, TypeInv, Statuses
  <2>3. /\ dedup' \subseteq Sites /\ results' \subseteq Sites
        /\ uncleared' \subseteq Sites /\ writes' \in 0..MaxWrites /\ faults' \in 0..MaxFaults
    BY <1>3, SitesAssumption DEF Next, CycleStep, vars, health, malware, loadActiveSites,
       startProbe, DedupExpires, FailuresExpire, quarantine, Write, createIncident,
       failInstance, ApiWrites, suspend, Restart, Fault, TypeInv, ProbeRow
  <2> QED BY <1>1, <2>1, <2>2, <2>3 DEF TypeInv
<1> QED BY <1>2, <1>3

(* One goroutine per site, so between the key and the job nobody else acts.  *)
LEMMA NextWindow == TypeInv /\ OneProbePerSite /\ WindowInv /\ [Next]_vars => WindowInv'
<1> SUFFICES ASSUME TypeInv, OneProbePerSite, WindowInv, [Next]_vars PROVE WindowInv'
  OBVIOUS
<1>1. CASE UNCHANGED restarts /\ \A g \in probes' : g.pc = "insert" => g \in probes
  BY <1>1 DEF WindowInv, OneRestartPerWindow
<1>2. ASSUME NEW g \in probes, ProbeStep(g) \/ CallError(g) PROVE WindowInv'
  <2>1. /\ g \in ProbeRow /\ g.site \in Sites /\ restarts[g.site] \in Nat
        /\ \A h \in probes : h # g => h.site # g.site
    BY DEF TypeInv, ProbeRow, OneProbePerSite
  <2>2. CASE takeDedup(g) /\ g.site \notin dedup
    <3>1. PICK new \in ProbeRow : new.site = g.site /\ Moves(g, new)
      <4>1. "insert" \in Labels
        BY DEF Labels
      <4> QED BY <2>2, <4>1, GotoMoves DEF takeDedup
    <3>2. restarts' = [restarts EXCEPT ![g.site] = 0]
      BY <2>2 DEF takeDedup, NewWindow
    <3> QED BY <2>1, <3>1, <3>2 DEF WindowInv, OneRestartPerWindow, Moves, TypeInv
  <2>3. CASE insertRestart(g)
    <3>1. restarts' = [restarts EXCEPT ![g.site] = 1]
      BY <2>1, <2>3, BumpUpBounds DEF insertRestart, WindowInv
    <3>2. \A h \in probes' : h.pc = "insert" => h \in probes /\ h # g
      <4>1. "markError" \in Labels
        BY DEF Labels
      <4>2. CASE Goto(g, "markError")
        BY <4>1, <4>2, GotoMoves DEF Moves
      <4>3. CASE Done(g)
        BY <4>3 DEF Done
      <4> QED BY <2>3, <4>2, <4>3 DEF insertRestart, AfterRestart
    <3> QED BY <2>1, <3>1, <3>2 DEF WindowInv, OneRestartPerWindow, TypeInv
  <2>4. CASE ~ insertRestart(g) /\ ~ (takeDedup(g) /\ g.site \notin dedup)
    <3>1. UNCHANGED restarts \/ restarts' = [restarts EXCEPT ![g.site] = 0]
      BY <1>2, <2>4 DEF ProbeStep, CallError, Probe, CheckRedirect, clearFailures, restore,
         countFailure, takeDedup, NewWindow, markError
    <3>2. \A h \in probes' : h.pc = "insert" => h \in probes
      BY <1>2, <2>1, <2>4 DEF ProbeRow, ProbeStep, CallError, Probe, CheckRedirect, Up, Down,
         clearFailures, restore, countFailure, takeDedup, markError, AfterDel, AfterRestart,
         Goto, Done
    <3>3. restarts' \in [Sites -> Nat] /\ \A t \in Sites : restarts'[t] <= restarts[t]
      BY <2>1, <3>1 DEF TypeInv
    <3> QED BY <3>1, <3>2, <3>3 DEF WindowInv, OneRestartPerWindow, TypeInv, ProbeRow
  <2> QED BY <2>2, <2>3, <2>4
<1>3. CASE ~ \E g \in probes : ProbeStep(g) \/ CallError(g)
  <2>1. UNCHANGED restarts
    BY <1>3 DEF Next, CycleStep, vars, loadActiveSites, startProbe, DedupExpires,
       FailuresExpire, quarantine, Write, createIncident, failInstance, ApiWrites, suspend,
       Restart
  <2>2. \A g \in probes' : g.pc = "insert" => g \in probes
    <3>1. CASE loadActiveSites
      BY <3>1 DEF loadActiveSites
    <3>2. CASE \E r \in listed : startProbe(r)
      BY <3>2 DEF startProbe
    <3> QED BY <1>3, <3>1, <3>2, OtherSteps
  <2> QED BY <1>1, <2>1, <2>2
<1> QED BY <1>2, <1>3

(* The history of the DELs changes for the site of the step alone, and only
   the DEL takes the site out.                                               *)
LEMMA StepUncleared ==
  ASSUME TypeInv, NEW g \in probes, ProbeStep(g) \/ CallError(g)
  PROVE  /\ \A s \in Sites \ {g.site} : s \in uncleared <=> s \in uncleared'
         /\ g.site \in uncleared /\ g.site \notin uncleared' => clearFailures(g)
BY DEF ProbeStep, CallError, Probe, CheckRedirect, clearFailures, restore, countFailure,
       takeDedup, insertRestart, markError

(* A goroutine comes to the DEL only with a probe that succeeds.             *)
LEMMA DelAfterUp ==
  ASSUME TypeInv, NEW g \in probes, ProbeStep(g) \/ CallError(g),
         NEW h \in probes', h \notin probes \ {g}, h.pc = "del"
  PROVE  streak'[g.site] = 0
<1>1. g \in ProbeRow /\ streak \in [Sites -> 0..MaxCount] /\ g.site \in Sites
  BY DEF TypeInv, ProbeRow
<1>2. CASE Up(g)
  BY <1>1, <1>2 DEF Up
<1>3. ASSUME Down(g) PROVE FALSE
  BY <1>1, <1>3 DEF Down, ProbeRow
<1>4. ASSUME NEW n, AfterRestart(g, n) \/ AfterDel(g) \/ Done(g) PROVE FALSE
  BY <1>1, <1>4 DEF AfterRestart, AfterDel, Goto, Done, ProbeRow
<1>5. ASSUME countFailure(g) \/ takeDedup(g) PROVE FALSE
  BY <1>1, <1>4, <1>5 DEF countFailure, takeDedup, Goto, ProbeRow
<1>6. CASE Probe(g) \/ CheckRedirect(g)
  BY <1>1, <1>2, <1>3, <1>6 DEF Probe, CheckRedirect, ProbeRow
<1>7. ASSUME clearFailures(g) \/ restore(g) \/ insertRestart(g) \/ markError(g) PROVE FALSE
  BY <1>4, <1>7 DEF clearFailures, restore, insertRestart, markError
<1>8. ASSUME CallError(g) PROVE FALSE
  BY <1>4, <1>8 DEF CallError
<1> QED BY <1>5, <1>6, <1>7, <1>8 DEF ProbeStep

(* A goroutine's step keeps what concerns the other sites.                   *)
LEMMA OthersCovered ==
  ASSUME TypeInv, OneProbePerSite, StreakInv, NEW g \in probes,
         \A s \in Sites \ {g.site} : /\ failures'[s] = failures[s] /\ streak'[s] = streak[s]
                                     /\ s \in uncleared <=> s \in uncleared',
         CounterCovered(g.site)',
         \/ Ended(g)
         \/ \E new \in ProbeRow : new.site = g.site /\ Moves(g, new) /\ Covered(new)'
  PROVE  StreakInv'
<1>1. /\ g.site \in Sites /\ \A h \in probes : h # g => h.site \in Sites \ {g.site}
      /\ probes \ {g} \subseteq probes'
  BY DEF TypeInv, ProbeRow, OneProbePerSite, Ended, Moves
<1>2. \A h \in probes \ {g} : Covered(h)'
  BY <1>1 DEF Covered, StreakInv
<1>3. \A h \in probes' : Covered(h)'
  BY <1>2 DEF Ended, Moves
<1>4. \A s \in Sites \ {g.site} : CounterCovered(s)'
  <2> SUFFICES ASSUME NEW s \in Sites \ {g.site} PROVE CounterCovered(s)'
    OBVIOUS
  <2>1. CounterCovered(s)
    BY DEF StreakInv
  <2> QED BY <1>1, <2>1 DEF CounterCovered
<1> QED BY <1>3, <1>4 DEF StreakInv

LEMMA NextStreak == TypeInv /\ OneProbePerSite /\ StreakInv /\ [Next]_vars => StreakInv'
<1> SUFFICES ASSUME TypeInv, OneProbePerSite, StreakInv, [Next]_vars
             PROVE  StreakInv'
  OBVIOUS
<1> USE Thresholds
<1>1. ASSUME NEW g \in probes, ProbeStep(g) \/ CallError(g), g.site \in uncleared'
      PROVE  StreakInv'
  <2>1. /\ g \in ProbeRow /\ CounterCovered(g.site)'
        /\ failures \in [Sites -> 0..MaxCount] /\ streak \in [Sites -> 0..MaxCount]
    BY <1>1 DEF CounterCovered, TypeInv
  <2>2. \A s \in Sites \ {g.site} : failures'[s] = failures[s] /\ streak'[s] = streak[s]
    BY <1>1, <2>1 DEF ProbeStep, CallError, Probe, CheckRedirect, Up, Down, clearFailures,
       restore, countFailure, takeDedup, insertRestart, markError
  <2>3. CASE Ended(g)
    BY <1>1, <2>1, <2>2, <2>3, StepUncleared, OthersCovered
  <2>4. ASSUME NEW new \in ProbeRow, new.site = g.site, Moves(g, new) PROVE StreakInv'
    <3>1. new \in probes'
      BY <2>4 DEF Moves
    <3>2. new \notin probes \ {g}
      BY <2>4 DEF OneProbePerSite
    <3>3. Covered(new)'
      BY <1>1, <2>4, <3>1, <3>2, DelAfterUp DEF Covered
    <3> QED BY <1>1, <2>1, <2>2, <2>4, <3>3, StepUncleared, OthersCovered
  <2> QED BY <1>1, <2>3, <2>4, StepMoves
<1>2. ASSUME NEW g \in probes, ProbeStep(g) \/ CallError(g), g.site \notin uncleared',
             g.site \notin uncleared \/ clearFailures(g)
      PROVE  StreakInv'
  <2> DEFINE s == g.site
  <2>1. /\ g \in ProbeRow /\ s \in Sites
        /\ failures \in [Sites -> 0..MaxCount] /\ streak \in [Sites -> 0..MaxCount]
        /\ Covered(g) /\ CounterCovered(s)
        /\ \A t \in Sites \ {s} : t \in uncleared <=> t \in uncleared'
    BY <1>2, StepUncleared DEF TypeInv, ProbeRow, StreakInv
  <2>2. g.pc # "del" => s \notin uncleared /\ failures[s] <= streak[s]
    BY <1>2, <2>1 DEF CounterCovered, OneProbePerSite, clearFailures
  <2>3. ASSUME Up(g), UNCHANGED failures PROVE StreakInv'
    <3>1. "del" \in Labels /\ 0 \in Counts
      BY DEF Labels, Counts
    <3>2. PICK new \in ProbeRow : new.site = s /\ new.pc = "del" /\ Moves(g, new)
      BY <2>3, <3>1, GotoCountMoves DEF Up
    <3>3. streak' = [streak EXCEPT ![s] = 0]
      BY <2>3 DEF Up
    <3>4. Covered(new)'
      BY <2>1, <3>2, <3>3 DEF Covered
    <3>5. CounterCovered(s)'
      BY <3>2 DEF CounterCovered, Moves
    <3> QED BY <2>1, <2>3, <3>2, <3>3, <3>4, <3>5, OthersCovered
  <2>4. ASSUME Down(g), UNCHANGED failures, g.pc # "del" PROVE StreakInv'
    <3>1. "incr" \in Labels /\ 0 \in Counts
      BY DEF Labels, Counts
    <3>2. PICK new \in ProbeRow : new.site = s /\ new.pc = "incr" /\ Moves(g, new)
      BY <2>4, <3>1, GotoCountMoves DEF Down
    <3>3. streak' = [streak EXCEPT ![s] = BumpUp(streak[s])]
      BY <2>4 DEF Down
    <3>4. failures[s] \in 0..MaxCount /\ streak[s] \in 0..MaxCount /\ streak'[s] = BumpUp(streak[s])
      BY <2>1, <3>3
    <3>5. Covered(new)'
      BY <2>2, <2>4, <3>2, <3>4, BumpUpBounds DEF Covered, BumpUp
    <3>6. CounterCovered(s)'
      BY <2>2, <2>4, <3>4, BumpUpBounds DEF CounterCovered
    <3> QED BY <2>1, <2>4, <3>2, <3>3, <3>5, <3>6, OthersCovered
  <2>5. ASSUME UNCHANGED streak, failures'[s] <= streak[s],
               \A t \in Sites \ {s} : failures'[t] = failures[t],
               \/ Ended(g)
               \/ \E new \in ProbeRow :
                    /\ new.site = s /\ Moves(g, new) /\ new.pc \notin {"del", "incr"}
                    /\ new.pc \in {"restart", "insert"} => new.count <= streak[s]
                    /\ new.pc = "markError" => failuresBeforeError <= streak[s]
        PROVE  StreakInv'
    <3>1. CounterCovered(s)'
      BY <2>5 DEF CounterCovered
    <3>2. CASE Ended(g)
      BY <2>1, <2>5, <3>1, <3>2, OthersCovered
    <3>3. ASSUME NEW new \in ProbeRow, new.site = s, Moves(g, new),
                 new.pc \notin {"del", "incr"},
                 new.pc \in {"restart", "insert"} => new.count <= streak[s],
                 new.pc = "markError" => failuresBeforeError <= streak[s]
          PROVE  StreakInv'
      <4>1. Covered(new)'
        BY <2>5, <3>3 DEF Covered
      <4> QED BY <2>1, <2>5, <3>1, <3>3, <4>1, OthersCovered
    <3> QED BY <2>5, <3>2, <3>3
  <2>6. ASSUME UNCHANGED streak, failures'[s] <= streak[s],
               \A t \in Sites \ {s} : failures'[t] = failures[t],
               NEW n \in Nat, n <= streak[s], AfterRestart(g, n)
        PROVE  StreakInv'
    <3>1. CASE Done(g)
      BY <2>5, <2>6, <3>1 DEF Done, Ended
    <3>2. CASE MarksError(g, n) /\ Goto(g, "markError")
      <4>1. "markError" \in Labels
        BY DEF Labels
      <4>2. PICK new \in ProbeRow : new.site = s /\ new.pc = "markError" /\ Moves(g, new)
        BY <3>2, <4>1, GotoMoves
      <4>3. failuresBeforeError <= streak[s]
        BY <2>1, <2>6, <3>2 DEF MarksError
      <4> QED BY <2>5, <2>6, <4>2, <4>3
    <3> QED BY <2>6, <3>1, <3>2 DEF AfterRestart
  <2>7. CASE Probe(g)
    <3>1. CASE Up(g) \/ Down(g)
      BY <2>3, <2>4, <2>7, <3>1 DEF Probe
    <3>2. CASE /\ probes' = (probes \ {g}) \cup
                              {[g EXCEPT !.pc = "redirect", !.count = redirects]}
               /\ UNCHANGED streak
      <4>1. "redirect" \in Labels /\ redirects \in Counts
        BY DEF Labels, Counts, TypeInv
      <4>2. PICK new \in ProbeRow : new.site = s /\ new.pc = "redirect" /\ Moves(g, new)
        BY <3>2, <4>1, GotoCountMoves
      <4>3. UNCHANGED failures /\ g.pc # "del"
        BY <2>7 DEF Probe
      <4> QED BY <2>2, <2>5, <3>2, <4>2, <4>3
    <3> QED BY <2>7, <3>1, <3>2 DEF Probe
  <2>8. CASE CheckRedirect(g)
    BY <2>3, <2>4, <2>8 DEF CheckRedirect
  <2>9. CASE clearFailures(g)
    <3>1. failures' = [failures EXCEPT ![s] = 0] /\ UNCHANGED streak /\ streak[s] = 0
      BY <2>1, <2>9 DEF clearFailures, Covered
    <3>2. CASE Done(g)
      BY <2>1, <2>5, <3>1, <3>2 DEF Done, Ended
    <3>3. CASE Goto(g, "restore")
      <4>1. "restore" \in Labels
        BY DEF Labels
      <4>2. PICK new \in ProbeRow : new.site = s /\ new.pc = "restore" /\ Moves(g, new)
        BY <3>3, <4>1, GotoMoves
      <4> QED BY <2>1, <2>5, <3>1, <4>2
    <3> QED BY <2>9, <3>2, <3>3 DEF clearFailures, AfterDel
  <2>10. CASE restore(g) \/ markError(g)
    BY <2>2, <2>5, <2>10 DEF restore, markError, Done, Ended
  <2>11. CASE countFailure(g)
    <3> DEFINE n == BumpUp(failures[s])
    <3>1. n \in Nat /\ n \in Counts /\ n <= streak[s] /\ UNCHANGED streak
          /\ failures' = [failures EXCEPT ![s] = n]
      BY <2>1, <2>2, <2>11, BumpUpBounds DEF countFailure, Covered, Counts
    <3> HIDE DEF n
    <3>2. failures'[s] <= streak[s] /\ \A t \in Sites \ {s} : failures'[t] = failures[t]
      BY <2>1, <3>1
    <3>3. CASE probes' = (probes \ {g}) \cup {[g EXCEPT !.pc = "restart", !.count = n]}
      <4>1. "restart" \in Labels
        BY DEF Labels
      <4>2. PICK new \in ProbeRow : /\ new.site = s /\ new.pc = "restart"
                                    /\ new.count = n /\ Moves(g, new)
        BY <3>1, <3>3, <4>1, GotoCountMoves
      <4> QED BY <2>5, <3>1, <3>2, <4>2
    <3> QED BY <2>6, <2>11, <3>1, <3>2, <3>3 DEF countFailure, n
  <2>12. CASE takeDedup(g)
    <3>1. /\ UNCHANGED <<failures, streak>> /\ failures[s] <= streak[s]
          /\ g.count \in Nat /\ g.count <= streak[s]
      BY <2>1, <2>2, <2>12 DEF takeDedup, Covered, ProbeRow, Counts
    <3>2. CASE Goto(g, "insert")
      <4>1. "insert" \in Labels
        BY DEF Labels
      <4>2. PICK new \in ProbeRow : /\ new.site = s /\ new.pc = "insert"
                                    /\ new.count = g.count /\ Moves(g, new)
        BY <3>2, <4>1, GotoMoves
      <4> QED BY <2>5, <3>1, <4>2
    <3> QED BY <2>6, <2>12, <3>1, <3>2 DEF takeDedup
  <2>13. CASE insertRestart(g)
    <3>1. /\ UNCHANGED <<failures, streak>> /\ failures[s] <= streak[s]
          /\ g.count \in Nat /\ g.count <= streak[s]
      BY <2>1, <2>2, <2>13 DEF insertRestart, Covered, ProbeRow, Counts
    <3> QED BY <2>6, <2>13, <3>1 DEF insertRestart
  <2>14. CASE CallError(g)
    <3>1. /\ UNCHANGED streak /\ g.pc # "del"
          /\ failures' \in {failures, [failures EXCEPT ![s] = BumpUp(@)]}
          /\ g.pc # "incr" => UNCHANGED failures
      BY <1>2, <2>14 DEF CallError, clearFailures
    <3>2. failures'[s] <= streak[s] /\ \A t \in Sites \ {s} : failures'[t] = failures[t]
      BY <2>1, <2>2, <3>1 DEF Covered
    <3>3. CASE Done(g)
      BY <2>5, <3>1, <3>2, <3>3 DEF Done, Ended
    <3>4. CASE g.pc \in {"restart", "insert"} /\ AfterRestart(g, g.count)
      <4>1. g.count \in Nat /\ g.count <= streak[s]
        BY <2>1, <2>2, <3>1, <3>4 DEF Covered, ProbeRow, Counts
      <4> QED BY <2>6, <3>1, <3>2, <3>4, <4>1
    <3> QED BY <2>14, <3>1, <3>3, <3>4 DEF CallError
  <2> QED BY <1>2, <2>7, <2>8, <2>9, <2>10, <2>11, <2>12, <2>13, <2>14 DEF ProbeStep
<1>3. ASSUME NEW s \in Sites, FailuresExpire(s) PROVE StreakInv'
  <2>1. /\ failures \in [Sites -> 0..MaxCount] /\ streak \in [Sites -> 0..MaxCount]
        /\ probes = {} /\ probes' = {} /\ failures' = [failures EXCEPT ![s] = 0]
        /\ UNCHANGED streak /\ uncleared' = uncleared \ {s}
    BY <1>3 DEF FailuresExpire, TypeInv
  <2> QED BY <2>1 DEF StreakInv, CounterCovered
<1>4. CASE Restart
  <2>1. /\ probes' = {} /\ UNCHANGED <<failures, streak>>
        /\ uncleared' = uncleared \cup {g.site : g \in {h \in probes : h.pc = "del"}}
    BY <1>4 DEF Restart
  <2> QED BY <2>1 DEF StreakInv, CounterCovered
<1>5. CASE /\ ~ \E g \in probes : ProbeStep(g) \/ CallError(g)
           /\ ~ \E s \in Sites : FailuresExpire(s)
           /\ ~ Restart
  <2>1. UNCHANGED <<failures, streak, uncleared>>
    BY <1>5 DEF Next, CycleStep, vars, health, loadActiveSites, startProbe,
       DedupExpires, quarantine, Write, createIncident, failInstance, ApiWrites, suspend
  <2>2. \A g \in probes' : g \in probes \/ g.pc = "probe"
    <3>1. CASE loadActiveSites
      BY <3>1 DEF loadActiveSites
    <3>2. CASE \E r \in listed : startProbe(r)
      BY <3>2 DEF startProbe
    <3> QED BY <1>5, <3>1, <3>2, OtherSteps
  <2>3. probes \subseteq probes'
    BY <1>5 DEF Next, CycleStep, vars, health, loadActiveSites, startProbe,
       DedupExpires, quarantine, Write, createIncident, failInstance, ApiWrites, suspend
  <2> QED BY <2>1, <2>2, <2>3 DEF StreakInv, CounterCovered, Covered
<1> QED BY <1>1, <1>2, <1>3, <1>4, <1>5, StepUncleared
-----------------------------------------------------------------------------
(* The theorems.                                                             *)

IInv == TypeInv /\ OneProbePerSite /\ SlotsInv /\ WindowInv /\ StreakInv

LEMMA Inductive == Spec => []IInv
<1>1. Init => IInv
  BY InitInv DEF IInv
<1>2. IInv /\ [Next]_vars => IInv'
  BY NextType, NextOneProbe, NextSlots, NextWindow, NextStreak DEF IInv
<1> QED BY <1>1, <1>2, PTL DEF Spec

(* Every reachable state is well typed, with no more goroutines than the
   semaphore of runProbes allows.                                            *)
THEOREM TypeCorrect == Spec => []TypeOK
<1>1. IInv => TypeOK
  BY DEF IInv, TypeInv, SlotsInv, TypeOK, ProbeRow, Counts
<1> QED BY <1>1, Inductive, PTL

(* No two goroutines ever work on one site, although the cycle works on a list
   and processes restart: what OneRestartPerWindow and ErrorNeedsStreak rest on. *)
THEOREM OneProbePerSiteHolds == Spec => []OneProbePerSite
<1>1. IInv => OneProbePerSite
  BY DEF IInv
<1> QED BY <1>1, Inductive, PTL

(* enqueueRestart inserts at most one job while its key in Redis lives.      *)
THEOREM OneRestartPerWindowHolds == Spec => []OneRestartPerWindow
<1>1. IInv => OneRestartPerWindow
  BY DEF IInv, WindowInv
<1> QED BY <1>1, Inductive, PTL

(* probeAndReact sets 'error' only after failuresBeforeError failed probes in
   a row, whatever calls fail and wherever the process stops, unless the DEL
   after the last success is still owed.                                     *)
THEOREM ErrorNeedsStreakHolds == Spec => ErrorNeedsStreak
<1>1. ASSUME IInv, [Next]_vars, NEW s \in Sites, status[s] # "error", status'[s] = "error"
      PROVE  streak[s] >= failuresBeforeError \/ s \in uncleared
  <2>1. PICK g \in probes : markError(g)
    BY <1>1 DEF IInv, TypeInv, Next, CycleStep, vars, loadActiveSites, startProbe, ProbeStep,
       CallError, Probe, CheckRedirect, clearFailures, restore, countFailure, takeDedup,
       insertRestart, DedupExpires, FailuresExpire, quarantine, Write, createIncident,
       failInstance, ApiWrites, suspend, Restart
  <2>2. g.site = s /\ g.pc = "markError"
    BY <1>1, <2>1 DEF markError, IInv, TypeInv
  <2>3. streak[s] \in Nat
    BY <1>1, Thresholds DEF IInv, TypeInv
  <2> QED BY <1>1, <2>2, <2>3, Thresholds DEF IInv, StreakInv, Covered
<1>2. IInv /\ [Next]_vars =>
        [\A s \in Sites : status[s] # "error" /\ status'[s] = "error"
                            => streak[s] >= failuresBeforeError \/ s \in uncleared]_vars
  BY <1>1
<1> QED BY <1>2, Inductive, PTL DEF Spec, ErrorNeedsStreak
=============================================================================
