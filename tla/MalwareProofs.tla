---------------------------- MODULE MalwareProofs ----------------------------
(***************************************************************************)
(* Theorems about the scan windows of the malware worker, for any number   *)
(* of sites, any lengths of the window, its cap and the key's life, and    *)
(* any number of changes and faults.                                       *)
(***************************************************************************)
EXTENDS Malware, FiniteSetTheorems, TLAPS

(* stagger.go: whatever the number of sites, the first scan is due at once,
   two that follow each other are one step apart, and all begin before the
   cap, so the branch that cuts a delay down to it is never taken.           *)
THEOREM DelaysSpread ==
  ASSUME NEW n \in Nat \ {0}
  PROVE  /\ Delays(n) \in [1..n -> 0..(windowCap - 1)]
         /\ Delays(n)[1] = 0
         /\ \A i \in 1..(n - 1) : Delays(n)[i + 1] - Delays(n)[i] = windowCap \div n
<1> DEFINE step == windowCap \div n
<1>1. windowCap \in Nat \ {0}
  BY WindowAssumption
<1>2. step \in Nat /\ step * n <= windowCap
  BY <1>1
<1>3. ASSUME NEW i \in 1..n PROVE step * (i - 1) \in 0..(windowCap - 1)
  <2>1. step * (i - 1) \in Nat
    BY <1>2
  <2>2. CASE step = 0
    BY <1>1, <2>2
  <2>3. CASE step > 0
    <3>1. step * (i - 1) = step * i - step
      BY <1>2
    <3>2. step * i <= step * n
      BY <1>2
    <3> QED BY <1>1, <1>2, <2>1, <2>3, <3>1, <3>2
  <2> QED BY <1>2, <2>2, <2>3
<1> HIDE DEF step
<1>4. Delays(n) = [i \in 1..n |-> step * (i - 1)]
  <2>1. \A i \in 1..n : ~ (step * (i - 1) > windowCap)
    BY <1>1, <1>3
  <2> QED BY <2>1 DEF Delays, step
<1>5. ASSUME NEW i \in 1..(n - 1) PROVE step * ((i + 1) - 1) - step * (i - 1) = step
  BY <1>2
<1> QED BY <1>2, <1>3, <1>4, <1>5 DEF step
-----------------------------------------------------------------------------
(* The bounds of the history variables.                                      *)

LEMMA Bounds ==
  /\ {windowDuration, windowCap, minScanGap} \subseteq Nat \ {0} /\ MaxLate \in Nat
  /\ MaxChanges \in Nat /\ MaxFaults \in Nat
  /\ windowCap + MaxLate <= windowDuration
  /\ Longest \in Nat /\ Longest >= MaxLate
  /\ Old \in Nat /\ Old = windowDuration + minScanGap + MaxLate + Longest
<1> DEFINE n == Cardinality(Sites)
<1>1. n \in Nat \ {0}
  BY SitesAssumption, FS_CardinalityType, FS_EmptySet
<1>2. windowCap \div n \in 0..windowCap
  BY <1>1, WindowAssumption
<1> HIDE DEF n
<1>3. Longest \in Nat /\ Longest >= MaxLate
  BY <1>2, WindowAssumption DEF Longest, n
<1> QED BY <1>3, WindowAssumption DEF Old

(* Whatever number of the sites is in service, a scan that is as late as can be
   is done by the offset Longest of its window.                              *)
LEMMA LastDelay ==
  ASSUME NEW n \in Nat \ {0}, n <= Cardinality(Sites), NEW i \in 1..n
  PROVE  Delays(n)[i] + MaxLate <= Longest
<1> DEFINE N == Cardinality(Sites)
           step == windowCap \div n
           least == windowCap \div N
<1>1. N \in Nat /\ n <= N /\ windowCap \in Nat \ {0} /\ MaxLate \in Nat
  BY SitesAssumption, FS_CardinalityType, WindowAssumption
<1> HIDE DEF N
<1>2. step \in Nat /\ step * n <= windowCap /\ windowCap < step * n + n
  BY <1>1
<1>3. least \in Nat /\ least * N <= windowCap
  BY <1>1
<1> HIDE DEF step, least
<1>4. least <= step
  <2>1. least * n <= least * N
    BY <1>1, <1>3
  <2>2. least * n < (step + 1) * n
    BY <1>1, <1>2, <1>3, <2>1
  <2> QED BY <1>2, <1>3, <2>2
<1>5. step * (i - 1) <= step * n - step
  <2>1. step * i <= step * n
    BY <1>2
  <2>2. step * (i - 1) = step * i - step
    BY <1>2
  <2> QED BY <1>2, <2>1, <2>2
<1>6. Delays(n)[i] = step * (i - 1)
  <2>1. ~ (step * (i - 1) > windowCap)
    <3>1. step * (i - 1) \in Int
      BY <1>2
    <3> QED BY <1>1, <1>2, <1>5, <3>1
  <2> QED BY <2>1 DEF Delays, step
<1>7. step * (i - 1) <= windowCap - least
  <2>1. step * (i - 1) \in Int /\ step * n \in Int
    BY <1>2
  <2> QED BY <1>1, <1>2, <1>3, <1>4, <1>5, <2>1
<1> QED BY <1>1, <1>2, <1>3, <1>6, <1>7 DEF Longest, N, least

(* What time does to a goroutine of a window.                                *)
Aged(g) == IF g.wait > 0 THEN [g EXCEPT !.wait = @ - 1] ELSE [g EXCEPT !.late = @ + 1]

LEMMA AgedRow ==
  ASSUME NEW g \in Scan, g.wait = 0 => g.late < MaxLate
  PROVE  /\ Aged(g) \in Scan /\ Aged(g).site = g.site /\ Aged(g).pc = g.pc
         /\ Aged(g).wait - Aged(g).late = g.wait - g.late - 1
<1> USE Bounds
<1>1. CASE g.wait > 0
  <2>1. g.wait - 1 \in 0..windowCap
    BY <1>1 DEF Scan
  <2> QED BY <1>1, <2>1 DEF Aged, Scan
<1>2. CASE ~ (g.wait > 0)
  <2>1. g.wait = 0 /\ g.late + 1 \in 0..MaxLate
    BY <1>2 DEF Scan
  <2> QED BY <1>2, <2>1 DEF Aged, Scan
<1> QED BY <1>1, <1>2

LEMMA GotoRow ==
  ASSUME TypeOK, NEW g \in scans, NEW pc \in {"check", "insert", "mark"}, Goto(g, pc)
  PROVE  \E new \in Scan : /\ new.site = g.site /\ new.wait = g.wait /\ new.late = g.late
                           /\ new.pc = pc /\ scans' = (scans \ {g}) \cup {new}
<1>1. g \in Scan /\ [g EXCEPT !.pc = pc] \in Scan
  BY DEF TypeOK, Scan
<1> QED BY <1>1 DEF Goto, Scan

(* A window's goroutines: one for each site in service.                      *)
LEMMA StartRows ==
  ASSUME TypeOK, NEW late \in loading, startWindow(late)
  PROVE  \E new \in SUBSET Scan :
           /\ scans' = scans \cup new
           /\ \A g \in new : g.late = late /\ g.wait < windowCap /\ g.pc = "check"
           /\ \A g \in new : g.wait + MaxLate <= Longest
           /\ \A g \in new : g.site \in inService /\ (g.server <=> g.site \in placed)
           /\ \A s \in inService : \E g \in new : g.site = s
           /\ \A g, h \in new : g.site = h.site => g = h
<1> DEFINE n == Cardinality(inService)
<1>1. IsFiniteSet(inService) /\ n \in Nat
  BY SitesAssumption, FS_Subset, FS_CardinalityType DEF TypeOK
<1>2. PICK order \in Orders(inService) :
        scans' = scans \cup
          {[site |-> s, server |-> s \in placed, late |-> late, pc |-> "check",
            wait |-> Delays(n)[order[s]]] : s \in inService}
  BY DEF startWindow
<1> DEFINE row(s) == [site |-> s, server |-> s \in placed, late |-> late, pc |-> "check",
                      wait |-> Delays(n)[order[s]]]
           new == {row(s) : s \in inService}
<1>3. ASSUME NEW s \in inService
      PROVE  row(s) \in Scan /\ row(s).wait < windowCap /\ row(s).wait + MaxLate <= Longest
  <2>1. order[s] \in 1..n
    BY DEF Orders
  <2>2. n \in Nat \ {0}
    BY <1>1, <2>1
  <2>3. Delays(n)[order[s]] \in 0..(windowCap - 1)
    BY <2>1, <2>2, DelaysSpread
  <2>4. n <= Cardinality(Sites)
    BY SitesAssumption, FS_Subset DEF TypeOK
  <2>5. Delays(n)[order[s]] + MaxLate <= Longest
    BY <2>1, <2>2, <2>4, LastDelay
  <2> QED BY <2>3, <2>5, Bounds DEF TypeOK, Scan
<1>4. \A g, h \in new : g.site = h.site => g = h
  OBVIOUS
<1>5. /\ new \in SUBSET Scan
      /\ \A g \in new : g.late = late /\ g.wait < windowCap /\ g.pc = "check"
      /\ \A g \in new : g.wait + MaxLate <= Longest
      /\ \A g \in new : g.site \in inService
  BY <1>3
<1>6. scans' = scans \cup new
  BY <1>2
<1>7. ASSUME NEW g \in new PROVE g.server <=> g.site \in placed
  <2>1. PICK s \in inService : g = row(s)
    OBVIOUS
  <2> QED BY <2>1
<1>8. \A s \in inService : \E g \in new : g.site = s
  <2>1. \A s \in inService : row(s) \in new /\ row(s).site = s
    OBVIOUS
  <2> QED BY <2>1
<1> HIDE DEF new
<1> QED BY <1>4, <1>5, <1>6, <1>7, <1>8
-----------------------------------------------------------------------------
(* The inductive invariant.                                                  *)

(* A goroutine began less than a cap after its window did, and what has passed
   since is its sleep or its lateness; a window that has not loaded its sites is
   alone.  So at the next tick nothing of the last window is left.           *)
WindowsInv ==
  /\ \A g \in scans : (windowDuration - ticker) + g.wait - g.late < windowCap
  /\ \A late \in loading : late = windowDuration - ticker /\ scans = {}
  /\ OneScanPerSite

(* The key lives for the rest of minScanGap after the last job, unless a fault
   kept it from being set or its goroutine is about to set it.               *)
KeyCovers(s) ==
  \/ age[s] >= minScanGap \/ s \in unmarked
  \/ dedup[s] + age[s] >= minScanGap
  \/ \E g \in scans : g.site = s /\ g.pc = "mark"

KeyInv == RescansWereUnmarked /\ \A s \in Sites : KeyCovers(s)

LEMMA TickerOut ==
  ASSUME TypeOK, WindowsInv, ticker = 0
  PROVE  scans = {} /\ loading = {}
BY Bounds DEF TypeOK, WindowsInv, Scan

LEMMA InitInv == Init => TypeOK /\ WindowsInv /\ KeyInv
<1> SUFFICES ASSUME Init PROVE TypeOK /\ WindowsInv /\ KeyInv
  OBVIOUS
<1> USE Bounds DEF Init
<1>1. TypeOK
  BY DEF TypeOK
<1>2. WindowsInv
  BY DEF WindowsInv, OneScanPerSite
<1>3. KeyInv
  BY DEF KeyInv, RescansWereUnmarked, KeyCovers
<1> QED BY <1>1, <1>2, <1>3

LEMMA NextInv == TypeOK /\ WindowsInv /\ KeyInv /\ [Next]_vars => (TypeOK /\ WindowsInv /\ KeyInv)'
<1> SUFFICES ASSUME TypeOK, WindowsInv, KeyInv, [Next]_vars
             PROVE  TypeOK' /\ WindowsInv' /\ KeyInv'
  OBVIOUS
<1> USE Bounds
<1>1. ASSUME NEW late \in loading, startWindow(late) PROVE TypeOK' /\ WindowsInv' /\ KeyInv'
  <2>1. PICK new \in SUBSET Scan :
          /\ scans' = scans \cup new
          /\ \A g \in new : g.late = late /\ g.wait < windowCap /\ g.pc = "check"
          /\ \A g, h \in new : g.site = h.site => g = h
    BY <1>1, StartRows
  <2>2. scans = {} /\ late = windowDuration - ticker
    BY DEF WindowsInv
  <2>3. TypeOK'
    BY <1>1, <2>1 DEF startWindow, history, TypeOK
  <2>4. loading' = {} /\ ticker' = ticker
    BY <1>1 DEF startWindow, WindowsInv
  <2>5. WindowsInv'
    <3>1. \A g \in scans' : (windowDuration - ticker') + g.wait - g.late < windowCap
      <4>1. \A g \in new : g.wait \in Nat /\ g.late \in Nat
        BY DEF Scan
      <4> QED BY <2>1, <2>2, <2>4, <4>1 DEF TypeOK
    <3> QED BY <2>1, <2>2, <2>4, <3>1 DEF WindowsInv, OneScanPerSite
  <2>6. KeyInv'
    BY <1>1, <2>1, <2>2 DEF startWindow, history, KeyInv, RescansWereUnmarked, KeyCovers
  <2> QED BY <2>3, <2>5, <2>6
<1>2. ASSUME NEW late \in loading, LoadError(late) PROVE TypeOK' /\ WindowsInv' /\ KeyInv'
  <2>1. TypeOK'
    BY <1>2 DEF LoadError, Fault, history, TypeOK
  <2>2. WindowsInv'
    BY <1>2 DEF LoadError, WindowsInv, OneScanPerSite
  <2>3. KeyInv'
    BY <1>2 DEF LoadError, history, KeyInv, RescansWereUnmarked, KeyCovers
  <2> QED BY <2>1, <2>2, <2>3
<1>3. ASSUME NEW g \in scans, scanSite(g) \/ ScanError(g)
      PROVE  TypeOK' /\ WindowsInv' /\ KeyInv'
  <2>1. /\ g \in Scan /\ g.site \in Sites /\ loading = {}
        /\ \A h \in scans : h.site = g.site => h = g
        /\ age \in [Sites -> 0..Old] /\ dedup \in [Sites -> 0..minScanGap]
    BY DEF TypeOK, Scan, WindowsInv, OneScanPerSite
  <2>2. ASSUME NEW new \in Scan, new.site = g.site, new.wait = g.wait, new.late = g.late,
               scans' = (scans \ {g}) \cup {new}, UNCHANGED <<loading, ticker>>
        PROVE  WindowsInv' /\ scans' \subseteq Scan
    <3>1. \A x, y \in scans' : x.site = y.site => x = y
      BY <2>1, <2>2 DEF WindowsInv, OneScanPerSite
    <3>2. \A x \in scans' : (windowDuration - ticker') + x.wait - x.late < windowCap
      BY <2>2 DEF WindowsInv
    <3> QED BY <2>1, <2>2, <3>1, <3>2 DEF WindowsInv, OneScanPerSite, TypeOK
  <2>3. ASSUME Done(g), UNCHANGED <<loading, ticker>>
        PROVE  WindowsInv' /\ scans' \subseteq Scan
    BY <2>1, <2>3 DEF Done, WindowsInv, OneScanPerSite, TypeOK
  <2>4. ASSUME NEW pc \in {"check", "insert", "mark"}, Goto(g, pc),
               UNCHANGED <<loading, ticker>>
        PROVE  WindowsInv' /\ scans' \subseteq Scan
    BY <2>2, <2>4, GotoRow
  <2>5. UNCHANGED <<inService, placed, loading, ticker, ready, changes>>
    BY <1>3 DEF scanSite, checkDedup, insertScan, markScanned, ScanError, history
  <2>6. WindowsInv' /\ scans' \subseteq Scan
    <3>1. CASE checkDedup(g)
      BY <2>3, <2>4, <2>5, <3>1 DEF checkDedup
    <3>2. CASE insertScan(g)
      BY <2>4, <2>5, <3>2 DEF insertScan
    <3>3. CASE markScanned(g)
      BY <2>3, <2>5, <3>3 DEF markScanned
    <3>4. CASE ScanError(g)
      BY <2>3, <2>5, <3>4 DEF ScanError
    <3> QED BY <1>3, <3>1, <3>2, <3>3, <3>4 DEF scanSite
  <2>7. TypeOK'
    <3>1. /\ age' \in [Sites -> 0..Old] /\ dedup' \in [Sites -> 0..minScanGap]
          /\ unmarked' \subseteq Sites /\ faults' \in 0..MaxFaults
      BY <1>3, <2>1 DEF scanSite, checkDedup, insertScan, markScanned, ScanError, Fault,
         KeyTTL, history, TypeOK
    <3> QED BY <2>5, <2>6, <3>1 DEF TypeOK
  <2>8. KeyInv'
    <3>1. \A s \in Sites \ {g.site} :
            /\ age'[s] = age[s] /\ dedup'[s] = dedup[s]
            /\ s \in unmarked => s \in unmarked'
      BY <1>3, <2>1 DEF scanSite, checkDedup, insertScan, markScanned, ScanError, history
    <3>2. \A h \in scans : h # g => h \in scans' /\ h.site \in Sites \ {g.site}
      BY <1>3, <2>1 DEF scanSite, checkDedup, insertScan, markScanned, ScanError, Goto, Done,
         TypeOK, Scan
    <3>3. \A s \in Sites \ {g.site} : KeyCovers(s)'
      BY <3>1, <3>2 DEF KeyInv, KeyCovers
    <3>4. \A h \in scans' : h \in scans /\ h # g /\ h.pc = "insert" =>
            age'[h.site] >= minScanGap \/ h.site \in unmarked'
      BY <3>1, <3>2 DEF KeyInv, RescansWereUnmarked
    <3>5. CASE checkDedup(g)
      <4>1. g.pc # "mark" /\ UNCHANGED <<age, dedup, unmarked>>
        BY <3>5 DEF checkDedup, Awake, history
      <4>2. KeyCovers(g.site)'
        BY <2>1, <4>1 DEF KeyInv, KeyCovers
      <4>3. CASE Done(g)
        BY <3>3, <3>4, <4>2, <4>3 DEF Done, KeyInv, RescansWereUnmarked
      <4>4. CASE Goto(g, "insert") /\ dedup[g.site] = 0
        <5>1. age[g.site] >= minScanGap \/ g.site \in unmarked
          BY <2>1, <4>1, <4>4 DEF KeyInv, KeyCovers
        <5>2. PICK new \in Scan : new.site = g.site /\ scans' = (scans \ {g}) \cup {new}
          BY <4>4, GotoRow
        <5> QED BY <3>3, <3>4, <4>1, <4>2, <5>1, <5>2 DEF KeyInv, RescansWereUnmarked
      <4> QED BY <3>5, <4>3, <4>4 DEF checkDedup, ScanDue
    <3>6. CASE insertScan(g)
      <4>1. PICK new \in Scan : /\ new.site = g.site /\ new.pc = "mark"
                                /\ scans' = (scans \ {g}) \cup {new}
        BY <3>6, GotoRow DEF insertScan
      <4>2. KeyCovers(g.site)'
        BY <4>1 DEF KeyCovers
      <4> QED BY <3>3, <3>4, <4>1, <4>2 DEF KeyInv, RescansWereUnmarked
    <3>7. CASE markScanned(g)
      <4>1. dedup'[g.site] = minScanGap /\ UNCHANGED age /\ age[g.site] \in Nat
        BY <2>1, <3>7 DEF markScanned, KeyTTL
      <4>2. KeyCovers(g.site)'
        BY <4>1 DEF KeyCovers
      <4> QED BY <3>3, <3>4, <3>7, <4>2 DEF markScanned, Done, KeyInv, RescansWereUnmarked
    <3>8. CASE ScanError(g)
      <4>1. KeyCovers(g.site)'
        <5>1. CASE g.site \in unmarked'
          BY <5>1 DEF KeyCovers
        <5>2. CASE g.site \notin unmarked'
          <6>1. g.pc \in {"check", "insert"} /\ UNCHANGED <<age, unmarked, dedup>>
            BY <3>8, <5>2 DEF ScanError
          <6> QED BY <2>1, <6>1 DEF KeyInv, KeyCovers
        <5> QED BY <5>1, <5>2
      <4> QED BY <3>3, <3>4, <3>8, <4>1 DEF ScanError, Done, KeyInv, RescansWereUnmarked
    <3> QED BY <1>3, <3>5, <3>6, <3>7, <3>8 DEF scanSite
  <2> QED BY <2>6, <2>7, <2>8
<1>4. CASE Tick
  <2>1. scans = {} /\ loading = {}
    BY <1>4, TickerOut DEF Tick
  <2>2. TypeOK'
    BY <1>4 DEF Tick, history, TypeOK
  <2>3. WindowsInv' /\ KeyInv'
    BY <1>4, <2>1 DEF Tick, history, WindowsInv, OneScanPerSite, KeyInv, RescansWereUnmarked,
       KeyCovers
  <2> QED BY <2>2, <2>3
<1>5. CASE TimePasses
  <2>1. /\ scans' = {Aged(g) : g \in scans} /\ ticker' = ticker - 1 /\ ticker \in Nat \ {0}
        /\ loading' = {late + 1 : late \in loading}
        /\ \A late \in loading : late < MaxLate
        /\ UNCHANGED <<inService, placed, unmarked, changes, faults>>
    BY <1>5 DEF TimePasses, Aged, TypeOK
  <2>2. \A g \in scans : /\ Aged(g) \in Scan /\ Aged(g).site = g.site /\ Aged(g).pc = g.pc
                         /\ Aged(g).wait - Aged(g).late = g.wait - g.late - 1
    BY <1>5, AgedRow DEF TimePasses, TypeOK
  <2>3. \A s \in Sites : /\ dedup'[s] = Shorter(dedup[s]) /\ age'[s] = Older(age[s])
                         /\ dedup[s] \in 0..minScanGap /\ age[s] \in 0..Old
    BY <1>5 DEF TimePasses, TypeOK
  <2>4. TypeOK'
    <3>1. dedup' \in [Sites -> 0..minScanGap] /\ age' \in [Sites -> 0..Old]
      BY <1>5 DEF TimePasses, Shorter, Older, TypeOK
    <3>2. ready' \in [Sites -> 0..Old]
      BY <1>5 DEF TimePasses, Older, TypeOK
    <3>3. scans' \subseteq Scan /\ loading' \subseteq 0..MaxLate
      BY <2>1, <2>2 DEF TypeOK
    <3> QED BY <2>1, <3>1, <3>2, <3>3 DEF TypeOK
  <2>5. WindowsInv'
    <3>1. \A x \in scans' : (windowDuration - ticker') + x.wait - x.late < windowCap
      <4> SUFFICES ASSUME NEW g \in scans
                   PROVE  (windowDuration - ticker') + Aged(g).wait - Aged(g).late < windowCap
        BY <2>1
      <4>1. (windowDuration - ticker) + g.wait - g.late < windowCap
        BY DEF WindowsInv
      <4>2. {g.wait, g.late, Aged(g).wait, Aged(g).late} \subseteq Int
        BY <2>2 DEF TypeOK, Scan
      <4> QED BY <2>1, <2>2, <4>1, <4>2
    <3>2. \A late \in loading' : late = windowDuration - ticker' /\ scans' = {}
      BY <2>1 DEF WindowsInv, TypeOK
    <3>3. OneScanPerSite'
      BY <2>1, <2>2 DEF WindowsInv, OneScanPerSite
    <3> QED BY <3>1, <3>2, <3>3 DEF WindowsInv
  <2>6. KeyInv'
    <3>1. RescansWereUnmarked'
      BY <2>1, <2>2, <2>3 DEF KeyInv, RescansWereUnmarked, Older, TypeOK, Scan
    <3>2. ASSUME NEW s \in Sites PROVE KeyCovers(s)'
      <4>1. CASE age[s] >= minScanGap \/ s \in unmarked
        BY <2>1, <2>3, <4>1 DEF KeyCovers, Older
      <4>2. CASE dedup[s] + age[s] >= minScanGap
        BY <2>3, <4>2 DEF KeyCovers, Older, Shorter
      <4>3. CASE \E g \in scans : g.site = s /\ g.pc = "mark"
        BY <2>1, <2>2, <4>3 DEF KeyCovers
      <4> QED BY <4>1, <4>2, <4>3 DEF KeyInv, KeyCovers
    <3> QED BY <3>1, <3>2 DEF KeyInv
  <2> QED BY <2>4, <2>5, <2>6
<1>6. ASSUME NEW s \in Sites, SiteChanges(s) PROVE TypeOK' /\ WindowsInv' /\ KeyInv'
  <2>1. TypeOK'
    BY <1>6 DEF SiteChanges, Toggled, worker, TypeOK
  <2>2. WindowsInv' /\ KeyInv'
    BY <1>6 DEF SiteChanges, worker, WindowsInv, OneScanPerSite, KeyInv, RescansWereUnmarked,
       KeyCovers
  <2> QED BY <2>1, <2>2
<1>7. CASE Restart
  <2>1. TypeOK'
    <3>1. \A g \in scans : g.site \in Sites
      BY DEF TypeOK, Scan
    <3> QED BY <1>7, <3>1 DEF Restart, Fault, TypeOK
  <2>2. WindowsInv'
    BY <1>7 DEF Restart, WindowsInv, OneScanPerSite
  <2>3. KeyInv'
    BY <1>7 DEF Restart, KeyInv, RescansWereUnmarked, KeyCovers
  <2> QED BY <2>1, <2>2, <2>3
<1>8. CASE UNCHANGED vars
  BY <1>8 DEF vars, worker, history, TypeOK, WindowsInv, OneScanPerSite, KeyInv,
     RescansWereUnmarked, KeyCovers
<1> QED BY <1>1, <1>2, <1>3, <1>4, <1>5, <1>6, <1>7, <1>8 DEF Next
-----------------------------------------------------------------------------
(* How long a site waits for its next scan, while nothing fails.             *)

Elapsed == windowDuration - ticker

(* A site whose key is found has had a job within this time.                 *)
Skipped == minScanGap + MaxLate

(* A key is set at most MaxLate after the job it stands for.                 *)
KeyAgeInv ==
  /\ \A s \in Sites : dedup[s] > 0 => dedup[s] + age[s] <= Skipped
  /\ \A g \in scans : g.pc = "mark" => g.wait = 0 /\ age[g.site] <= g.late

(* A goroutine that finds its site without a server, or a window that leaves a
   site out, means that the site was not there to be scanned since.          *)
PlaceInv ==
  /\ \A s \in Sites : ~ Scannable(s) => ready[s] = 0
  /\ \A g \in scans : g.server \/ ready[g.site] <= Elapsed
  /\ \A g \in scans : Elapsed + g.wait - g.late + MaxLate <= Longest

Served(s, bound) == age[s] < bound \/ ready[s] < bound

(* The window has not dealt with the site yet.                               *)
ToCome(s) == loading # {} \/ \E g \in scans : g.site = s /\ g.pc # "mark"

(* Once a window has dealt with a site, its last job is no older than the key
   allows, plus the time of the window; before that, a window more.          *)
InTimeInv ==
  faults = 0 => \A s \in Sites :
    /\ Served(s, Skipped + windowDuration + Elapsed)
    /\ ToCome(s) \/ Served(s, Skipped + Elapsed)

ServedInv == KeyAgeInv /\ PlaceInv /\ InTimeInv

LEMMA ServedIsInTime == TypeOK /\ WindowsInv /\ ServedInv => ScannedInTime
<1> SUFFICES ASSUME TypeOK, WindowsInv, ServedInv, faults = 0, NEW s \in Sites
             PROVE  Served(s, Old)
  BY DEF ScannedInTime, Served
<1> USE Bounds
<1>1. age[s] \in Nat /\ ready[s] \in Nat /\ Elapsed \in 0..windowDuration
  BY DEF TypeOK, Elapsed
<1>2. CASE ToCome(s)
  <2>1. Elapsed <= Longest
    <3>1. CASE loading # {}
      <4>1. PICK late \in loading : late = Elapsed
        BY <3>1 DEF WindowsInv, Elapsed
      <4>2. late <= MaxLate
        BY DEF TypeOK
      <4> QED BY <1>1, <4>1, <4>2
    <3>2. CASE \E g \in scans : g.site = s /\ g.pc # "mark"
      BY <1>1, <3>2 DEF ServedInv, PlaceInv, TypeOK, Scan
    <3> QED BY <1>2, <3>1, <3>2 DEF ToCome
  <2>2. Served(s, Skipped + windowDuration + Elapsed)
    BY DEF ServedInv, InTimeInv
  <2> QED BY <1>1, <2>1, <2>2 DEF Served, Skipped
<1>3. CASE Served(s, Skipped + Elapsed)
  BY <1>1, <1>3 DEF Served, Skipped
<1> QED BY <1>2, <1>3 DEF ServedInv, InTimeInv

LEMMA InitServed == Init => ServedInv
<1> SUFFICES ASSUME Init PROVE ServedInv
  OBVIOUS
<1> USE Bounds DEF Init
<1>1. KeyAgeInv /\ PlaceInv
  BY DEF KeyAgeInv, PlaceInv, Scannable
<1>2. InTimeInv
  BY DEF InTimeInv, ToCome, Served, Skipped, Elapsed
<1> QED BY <1>1, <1>2 DEF ServedInv

LEMMA NextServed ==
  TypeOK /\ WindowsInv /\ ServedInv /\ [Next]_vars => ServedInv'
<1> SUFFICES ASSUME TypeOK, WindowsInv, ServedInv, [Next]_vars PROVE ServedInv'
  OBVIOUS
<1> USE Bounds
<1>0. /\ \A s \in Sites : age[s] \in Nat /\ ready[s] \in Nat /\ dedup[s] \in Nat
      /\ Elapsed \in 0..windowDuration /\ Skipped \in Nat \ {0} /\ faults \in Nat
      /\ \A g \in scans : g.site \in Sites /\ g.wait \in Nat /\ g.late \in Nat
  BY DEF TypeOK, Scan, Elapsed, Skipped
<1>1. ASSUME NEW late \in loading, startWindow(late) PROVE ServedInv'
  <2>1. PICK new \in SUBSET Scan :
          /\ scans' = scans \cup new
          /\ \A g \in new : g.late = late /\ g.wait < windowCap /\ g.pc = "check"
          /\ \A g \in new : g.wait + MaxLate <= Longest
          /\ \A g \in new : g.site \in inService /\ (g.server <=> g.site \in placed)
          /\ \A s \in inService : \E g \in new : g.site = s
    BY <1>1, StartRows
  <2>2. /\ UNCHANGED <<inService, placed, dedup, ticker, age, ready, faults>>
        /\ scans = {} /\ late = Elapsed
    BY <1>1 DEF startWindow, WindowsInv, history, Elapsed
  <2>3. KeyAgeInv'
    BY <2>1, <2>2 DEF ServedInv, KeyAgeInv
  <2>4. PlaceInv'
    <3>1. ASSUME NEW g \in scans' PROVE g.server \/ ready'[g.site] <= Elapsed'
      <4>1. g.site \in Sites /\ (g.server \/ ~ Scannable(g.site))
        BY <2>1, <2>2 DEF Scannable, Scan
      <4> QED BY <1>0, <2>2, <4>1 DEF ServedInv, PlaceInv, Elapsed
    <3>2. \A g \in scans' : Elapsed' + g.wait - g.late + MaxLate <= Longest
      BY <1>0, <2>1, <2>2 DEF Elapsed, Scan
    <3>3. \A s \in Sites : ~ Scannable(s)' => ready'[s] = 0
      BY <2>2 DEF Scannable, ServedInv, PlaceInv
    <3> QED BY <3>1, <3>2, <3>3 DEF PlaceInv
  <2>5. InTimeInv'
    <3>1. ASSUME faults = 0, NEW s \in Sites
          PROVE  ToCome(s)' \/ Served(s, Skipped + Elapsed)'
      <4>1. CASE s \in inService
        <5>1. \E g \in new : g.site = s
          BY <2>1, <4>1
        <5> QED BY <2>1, <5>1 DEF ToCome
      <4>2. CASE s \notin inService
        <5>1. ready[s] = 0
          BY <4>2 DEF ServedInv, PlaceInv, Scannable
        <5> QED BY <1>0, <2>2, <5>1 DEF Served, Skipped, Elapsed
      <4> QED BY <4>1, <4>2
    <3> QED BY <2>2, <3>1 DEF ServedInv, InTimeInv, Served, Elapsed
  <2> QED BY <2>3, <2>4, <2>5 DEF ServedInv
<1>2. ASSUME NEW late \in loading, LoadError(late) PROVE ServedInv'
  <2>1. UNCHANGED <<inService, placed, dedup, ticker, scans, age, ready>> /\ faults' # 0
    BY <1>0, <1>2 DEF LoadError, Fault, history
  <2>2. KeyAgeInv' /\ PlaceInv'
    BY <2>1 DEF ServedInv, KeyAgeInv, PlaceInv, Scannable, Elapsed
  <2> QED BY <2>1, <2>2 DEF ServedInv, InTimeInv
<1>3. ASSUME NEW g \in scans, scanSite(g) \/ ScanError(g) PROVE ServedInv'
  <2>1. UNCHANGED <<inService, placed, loading, ticker, ready>>
    BY <1>3 DEF scanSite, checkDedup, insertScan, markScanned, ScanError, history
  <2>2. /\ g \in Scan /\ loading = {}
        /\ age \in [Sites -> Nat] /\ dedup \in [Sites -> Nat]
        /\ \A h \in scans : h.site = g.site => h = g
    BY DEF TypeOK, Scan, WindowsInv, OneScanPerSite
  (* A goroutine that is still there is as it was, but for the step of g.      *)
  <2>3. ASSUME NEW h \in scans', h \notin scans
        PROVE  /\ h.site = g.site /\ h.wait = g.wait /\ h.late = g.late
               /\ (h.server <=> g.server) /\ h.pc \in {"insert", "mark"}
               /\ h.pc = "mark" => insertScan(g)
    <3>1. CASE checkDedup(g)
      BY <2>2, <2>3, <3>1 DEF checkDedup, Goto, Done, Scan
    <3>2. CASE insertScan(g)
      BY <2>2, <2>3, <3>2 DEF insertScan, Goto, Scan
    <3>3. CASE markScanned(g) \/ ScanError(g)
      BY <2>3, <3>3 DEF markScanned, ScanError, Done
    <3> QED BY <1>3, <3>1, <3>2, <3>3 DEF scanSite
  <2>4. \A s \in Sites : age'[s] \in {age[s], 0}
    BY <1>3, <2>2 DEF scanSite, checkDedup, insertScan, markScanned, ScanError, history
  <2>5. KeyAgeInv'
    <3>1. ASSUME NEW s \in Sites, dedup'[s] > 0 PROVE dedup'[s] + age'[s] <= Skipped
      <4>1. CASE dedup'[s] = dedup[s]
        BY <1>0, <2>4, <3>1, <4>1 DEF ServedInv, KeyAgeInv
      <4>2. CASE dedup'[s] # dedup[s]
        <5>1. markScanned(g) /\ s = g.site
          BY <1>3, <2>2, <4>2 DEF scanSite, checkDedup, insertScan, markScanned, ScanError
        <5>2. dedup'[s] = minScanGap /\ age'[s] = age[s] /\ age[s] <= g.late /\ g.late <= MaxLate
          BY <2>2, <5>1 DEF markScanned, KeyTTL, Awake, ServedInv, KeyAgeInv, Scan
        <5> QED BY <1>0, <5>2 DEF Skipped
      <4> QED BY <4>1, <4>2
    <3>2. ASSUME NEW h \in scans', h.pc = "mark" PROVE h.wait = 0 /\ age'[h.site] <= h.late
      <4>1. CASE h \in scans
        BY <1>0, <2>4, <3>2, <4>1 DEF ServedInv, KeyAgeInv
      <4>2. CASE h \notin scans
        <5>1. insertScan(g) /\ h.site = g.site /\ h.wait = g.wait /\ h.late = g.late
          BY <2>3, <3>2, <4>2
        <5>2. g.wait = 0 /\ age'[g.site] = 0
          BY <1>0, <2>2, <5>1 DEF insertScan, Awake
        <5> QED BY <1>0, <5>1, <5>2
      <4> QED BY <4>1, <4>2
    <3> QED BY <3>1, <3>2 DEF KeyAgeInv, Skipped
  <2>6. PlaceInv'
    <3>1. \A s \in Sites : ~ Scannable(s)' => ready'[s] = 0
      BY <2>1 DEF Scannable, ServedInv, PlaceInv
    <3>2. ASSUME NEW h \in scans'
          PROVE  /\ h.server \/ ready'[h.site] <= Elapsed'
                 /\ Elapsed' + h.wait - h.late + MaxLate <= Longest
      <4>1. CASE h \in scans
        BY <2>1, <4>1 DEF ServedInv, PlaceInv, Elapsed
      <4>2. CASE h \notin scans
        BY <2>1, <2>3, <4>2 DEF ServedInv, PlaceInv, Elapsed
      <4> QED BY <4>1, <4>2
    <3> QED BY <3>1, <3>2 DEF PlaceInv
  <2>7. InTimeInv'
    <3> SUFFICES ASSUME faults' = 0, NEW s \in Sites
                 PROVE  /\ Served(s, Skipped + windowDuration + Elapsed)'
                        /\ ToCome(s)' \/ Served(s, Skipped + Elapsed)'
      BY DEF InTimeInv
    <3>1. faults = 0 /\ scanSite(g)
      BY <1>0, <1>3 DEF ScanError, Fault, scanSite, checkDedup, insertScan, markScanned
    <3>2. Served(s, Skipped + windowDuration + Elapsed)'
      BY <1>0, <2>1, <2>4, <3>1 DEF ServedInv, InTimeInv, Served, Skipped, Elapsed
    <3>3. CASE Served(s, Skipped + Elapsed)
      BY <1>0, <2>1, <2>4, <3>3 DEF Served, Skipped, Elapsed
    <3>4. CASE ToCome(s)
      <4>1. PICK h \in scans : h.site = s /\ h.pc # "mark"
        BY <2>2, <3>4 DEF ToCome
      <4>2. CASE h # g
        <5>1. h \in scans'
          BY <3>1, <4>2 DEF scanSite, checkDedup, insertScan, markScanned, Goto, Done
        <5> QED BY <3>2, <4>1, <5>1 DEF ToCome
      <4>3. CASE h = g /\ checkDedup(g)
        <5>1. CASE Goto(g, "insert")
          <6>1. PICK new \in scans' : new.site = s /\ new.pc = "insert"
            BY <4>1, <4>3, <5>1, GotoRow
          <6> QED BY <3>2, <6>1 DEF ToCome
        <5>2. CASE dedup[s] # 0
          BY <1>0, <4>3, <5>2 DEF checkDedup, history, ServedInv, KeyAgeInv, Served, Skipped,
             Elapsed
        <5>3. CASE ~ g.server
          <6>1. ready[s] <= Elapsed
            BY <4>1, <4>3, <5>3 DEF ServedInv, PlaceInv
          <6> QED BY <1>0, <2>1, <6>1 DEF Served, Skipped, Elapsed
        <5> QED BY <4>1, <4>3, <5>1, <5>2, <5>3 DEF checkDedup, ScanDue
      <4>4. CASE h = g /\ insertScan(g)
        <5>1. age'[s] = 0
          BY <2>2, <4>1, <4>4 DEF insertScan
        <5> QED BY <1>0, <2>1, <5>1 DEF Served, Skipped, Elapsed
      <4>5. ~ (h = g /\ markScanned(g))
        BY <4>1 DEF markScanned, Awake
      <4> QED BY <3>1, <4>2, <4>3, <4>4, <4>5 DEF scanSite
    <3> QED BY <3>1, <3>2, <3>3, <3>4 DEF ServedInv, InTimeInv
  <2> QED BY <2>5, <2>6, <2>7 DEF ServedInv
<1>4. CASE Tick
  <2>1. /\ scans = {} /\ loading = {} /\ scans' = {} /\ Elapsed = windowDuration /\ Elapsed' = 0
        /\ loading' # {}
        /\ UNCHANGED <<inService, placed, dedup, age, ready, faults>>
    BY <1>4, TickerOut DEF Tick, history, Elapsed
  <2>2. KeyAgeInv' /\ PlaceInv'
    BY <2>1 DEF ServedInv, KeyAgeInv, PlaceInv, Scannable
  <2>3. InTimeInv'
    BY <1>0, <2>1 DEF ServedInv, InTimeInv, ToCome, Served, Skipped
  <2> QED BY <2>2, <2>3 DEF ServedInv
<1>5. CASE TimePasses
  <2>1. /\ scans' = {Aged(g) : g \in scans} /\ Elapsed' = Elapsed + 1
        /\ loading' = {late + 1 : late \in loading}
        /\ UNCHANGED <<inService, placed, faults>>
    BY <1>5 DEF TimePasses, Aged, TypeOK, Elapsed
  <2>2. \A g \in scans :
          /\ Aged(g) \in Scan /\ Aged(g).site = g.site /\ Aged(g).pc = g.pc
          /\ Aged(g).wait - Aged(g).late = g.wait - g.late - 1
          /\ (Aged(g).server <=> g.server)
          /\ g.wait = 0 => Aged(g).wait = 0 /\ Aged(g).late = g.late + 1
    <3>1. \A g \in scans : /\ (Aged(g).server <=> g.server)
                           /\ g.wait = 0 => Aged(g).wait = 0 /\ Aged(g).late = g.late + 1
      BY DEF Aged, TypeOK, Scan
    <3> QED BY <1>5, <3>1, AgedRow DEF TimePasses, TypeOK
  <2>3. \A s \in Sites :
          /\ age'[s] \in Nat /\ age'[s] <= age[s] + 1
          /\ ready'[s] \in Nat /\ ready'[s] <= ready[s] + 1
          /\ dedup'[s] > 0 => dedup'[s] = dedup[s] - 1
          /\ ~ Scannable(s) => ready'[s] = 0
    BY <1>0, <1>5 DEF TimePasses, Older, Shorter
  <2>4. KeyAgeInv'
    <3>1. ASSUME NEW s \in Sites, dedup'[s] > 0 PROVE dedup'[s] + age'[s] <= Skipped
      BY <1>0, <2>3, <3>1 DEF ServedInv, KeyAgeInv
    <3>2. \A h \in scans' : h.pc = "mark" => h.wait = 0 /\ age'[h.site] <= h.late
      BY <1>0, <2>1, <2>2, <2>3 DEF ServedInv, KeyAgeInv
    <3> QED BY <3>1, <3>2 DEF KeyAgeInv, Skipped
  <2>5. PlaceInv'
    <3>1. \A s \in Sites : ~ Scannable(s)' => ready'[s] = 0
      BY <2>1, <2>3 DEF Scannable
    <3>2. ASSUME NEW g \in scans
          PROVE  /\ Aged(g).server \/ ready'[Aged(g).site] <= Elapsed'
                 /\ Elapsed' + Aged(g).wait - Aged(g).late + MaxLate <= Longest
      <4>1. Aged(g).server \/ ready'[Aged(g).site] <= Elapsed'
        BY <1>0, <2>1, <2>2, <2>3 DEF ServedInv, PlaceInv
      <4>2. {Aged(g).wait, Aged(g).late} \subseteq Int
        BY <2>2 DEF Scan
      <4> QED BY <1>0, <2>1, <2>2, <4>1, <4>2 DEF ServedInv, PlaceInv
    <3> QED BY <2>1, <3>1, <3>2 DEF PlaceInv
  <2>6. InTimeInv'
    <3>1. \A s \in Sites : ToCome(s) => ToCome(s)'
      BY <2>1, <2>2 DEF ToCome
    <3>2. ASSUME NEW s \in Sites, NEW b \in Nat, Served(s, Skipped + b + Elapsed)
          PROVE  Served(s, Skipped + b + Elapsed)'
      BY <1>0, <2>1, <2>3, <3>2 DEF Served, Skipped
    <3>3. \A s \in Sites : Served(s, Skipped + Elapsed) => Served(s, Skipped + Elapsed)'
      BY <1>0, <2>1, <2>3 DEF Served, Skipped
    <3> QED BY <2>1, <3>1, <3>2, <3>3 DEF ServedInv, InTimeInv
  <2> QED BY <2>4, <2>5, <2>6 DEF ServedInv
<1>6. ASSUME NEW s \in Sites, SiteChanges(s) PROVE ServedInv'
  <2>1. /\ UNCHANGED <<dedup, ticker, loading, scans, age, faults>>
        /\ ready'[s] = 0 /\ \A r \in Sites \ {s} : ready'[r] = ready[r]
        /\ \A r \in Sites \ {s} : Scannable(r)' <=> Scannable(r)
    BY <1>6 DEF SiteChanges, worker, TypeOK, Toggled, Scannable
  <2>2. KeyAgeInv'
    BY <2>1 DEF ServedInv, KeyAgeInv
  <2>3. PlaceInv'
    <3>1. \A g \in scans' : g.server \/ ready'[g.site] <= Elapsed'
      BY <1>0, <2>1 DEF ServedInv, PlaceInv, Elapsed
    <3> QED BY <2>1, <3>1 DEF ServedInv, PlaceInv, Elapsed
  <2>4. InTimeInv'
    <3>1. ASSUME NEW r \in Sites, NEW b \in Nat \ {0} PROVE Served(r, b) => Served(r, b)'
      BY <2>1 DEF Served
    <3>2. Elapsed' = Elapsed /\ {Skipped + Elapsed, Skipped + windowDuration + Elapsed} \subseteq Nat \ {0}
      BY <1>0, <2>1 DEF Elapsed
    <3>3. \A r \in Sites : ToCome(r)' <=> ToCome(r)
      BY <2>1 DEF ToCome
    <3> QED BY <2>1, <3>1, <3>2, <3>3 DEF ServedInv, InTimeInv, Served, Skipped
  <2> QED BY <2>2, <2>3, <2>4 DEF ServedInv
<1>7. CASE Restart
  <2>1. /\ UNCHANGED <<inService, placed, dedup, age, ready>> /\ scans' = {} /\ faults' # 0
    BY <1>0, <1>7 DEF Restart, Fault
  <2> QED BY <2>1 DEF ServedInv, KeyAgeInv, PlaceInv, InTimeInv, Scannable
<1>8. CASE UNCHANGED vars
  <2>1. KeyAgeInv' /\ PlaceInv'
    BY <1>8 DEF vars, worker, history, ServedInv, KeyAgeInv, PlaceInv, Scannable, Elapsed
  <2>2. InTimeInv'
    BY <1>8 DEF vars, worker, history, ServedInv, InTimeInv, ToCome, Served, Elapsed
  <2> QED BY <2>1, <2>2 DEF ServedInv
<1> QED BY <1>1, <1>2, <1>3, <1>4, <1>5, <1>6, <1>7, <1>8 DEF Next
-----------------------------------------------------------------------------
(* The theorems.                                                             *)

LEMMA Inductive == Spec => [](TypeOK /\ WindowsInv /\ KeyInv)
BY InitInv, NextInv, PTL DEF Spec

(* Every reachable state is well typed; no goroutine is later than its bound. *)
THEOREM TypeCorrect == Spec => []TypeOK
BY Inductive, PTL

(* Two windows never have goroutines of the same site at once, although
   startWindow does not wait for the window before it.                       *)
THEOREM OneScanPerSiteHolds == Spec => []OneScanPerSite
<1>1. WindowsInv => OneScanPerSite
  BY DEF WindowsInv
<1> QED BY <1>1, Inductive, PTL

(* scanSite checks the key and sets it in separate calls; still two jobs of a
   site are minScanGap apart unless a fault left the first without a key.    *)
THEOREM RescansWereUnmarkedHolds == Spec => []RescansWereUnmarked
<1>1. KeyInv => RescansWereUnmarked
  BY DEF KeyInv
<1> QED BY <1>1, Inductive, PTL

(* The key makes a site miss one window at most: without a fault, and with no
   break in its service, a job is followed by another within Old units, with
   every order of the sites and however late the goroutines are.             *)
THEOREM ScannedInTimeHolds == Spec => []ScannedInTime
<1>1. Spec => []ServedInv
  BY Inductive, InitServed, NextServed, PTL DEF Spec
<1> QED BY <1>1, Inductive, ServedIsInTime, PTL
=============================================================================
