-------------------------------- MODULE Sites --------------------------------
(***************************************************************************)
(* The column instances.status and everybody who writes it: the probe      *)
(* cycle of the health worker (workers/health/worker.go, checker.go),      *)
(* which works on a list of sites it loaded some time ago and keeps a      *)
(* failure counter in Redis; the malware worker's ProcessScanResult; the   *)
(* suspension at the end of dunning; and the terminal failure of a         *)
(* provisioning job.  The API, which deletes and reinstates sites, is      *)
(* outside the code.                                                       *)
(***************************************************************************)
EXTENDS Naturals, FiniteSets

CONSTANTS
  Sites, Users,
  OwnerOf,                \* instances.customer_id
  Redirecting,            \* sites whose address redirects to their page
  maxRedirects,
  probeParallelism,
  failuresBeforeError,
  failuresBeforeRestart,
  MaxWrites,              \* bound on the status writes from outside health
  MaxFaults               \* bound on failed statements, expired keys, crashes

ASSUME SitesAssumption ==
  /\ IsFiniteSet(Sites)
  /\ OwnerOf \in [Sites -> Users]
  /\ Redirecting \subseteq Sites /\ maxRedirects \in Nat
  /\ {probeParallelism, failuresBeforeError, failuresBeforeRestart}
       \subseteq Nat \ {0}
  /\ MaxWrites \in Nat /\ MaxFaults \in Nat

VARIABLES
  status,     \* instances.status
  failures,   \* the Redis counter health:failures:<site>, 0 when absent
  dedup,      \* sites whose key health:restart_dedup:<site> exists
  listed,     \* rows of the current cycle whose goroutine is not started yet
  probes,     \* the goroutines of the current cycle
  redirects,  \* the checker's redirectCount, up to one above maxRedirects
  results,    \* sites in the middle of ProcessScanResult
  streak,     \* failed probes of a site since the last that succeeded (history)
  restarts,   \* reload_nginx jobs since the dedup key was last set (history)
  uncleared,  \* sites whose counter a success should have cleared and did not (history)
  writes, faults

health  == <<failures, dedup, listed, probes>>
malware == results
checker == redirects
vars == <<status, health, checker, malware, streak, restarts, uncleared, writes, faults>>

\* A site that is still being set up is probed and treated like an active one.
Statuses == {"active", "error", "failed", "suspended", "quarantined", "deleted"}

\* One goroutine of runProbes: the row it was given and the call it stands before.
SiteRow == [site : Sites, seen : Statuses]
Labels  == {"probe", "redirect", "del", "restore", "incr", "restart", "insert", "markError"}

\* Both counters stop one above the highest value the code compares them with.
MaxCount    == failuresBeforeError + 1
BumpUp(n)   == IF n < MaxCount THEN n + 1 ELSE n

Fault == faults < MaxFaults /\ faults' = faults + 1

Init ==
  /\ status = [s \in Sites |-> "active"]
  /\ failures = [s \in Sites |-> 0]
  /\ dedup = {} /\ listed = {} /\ probes = {} /\ redirects = 0
  /\ results = {}
  /\ streak = [s \in Sites |-> 0]
  /\ restarts = [s \in Sites |-> 0]
  /\ uncleared = {} /\ writes = 0 /\ faults = 0
-----------------------------------------------------------------------------
(* The probe cycle.                                                        *)

Probed(s) == status[s] \notin {"deleted", "suspended"}

\* A cycle starts when all goroutines of the last one have ended.
loadActiveSites ==
  /\ listed = {} /\ probes = {}
  /\ \E s \in Sites : Probed(s)
  /\ listed' = {[site |-> s, seen |-> status[s]] : s \in {t \in Sites : Probed(t)}}
  /\ UNCHANGED <<status, failures, dedup, probes, malware, checker, streak, restarts,
                 uncleared, writes, faults>>

\* Faulty variant: the semaphore holds one goroutine more than it should.
startProbeOneMore(r) ==
  /\ Cardinality(probes) <= probeParallelism
  /\ listed' = listed \ {r}
  /\ probes' = probes \cup {[site |-> r.site, seen |-> r.seen, pc |-> "probe", count |-> 0]}
  /\ UNCHANGED <<status, failures, dedup, malware, checker, streak, restarts, uncleared, writes, faults>>

startProbe(r) ==
  /\ Cardinality(probes) < probeParallelism
  /\ listed' = listed \ {r}
  /\ probes' = probes \cup {[site |-> r.site, seen |-> r.seen, pc |-> "probe", count |-> 0]}
  /\ UNCHANGED <<status, failures, dedup, malware, checker, streak, restarts, uncleared, writes, faults>>

Goto(g, pc) == probes' = (probes \ {g}) \cup {[g EXCEPT !.pc = pc]}
Done(g)     == probes' = probes \ {g}

Up(g) ==
  /\ probes' = (probes \ {g}) \cup {[g EXCEPT !.pc = "del", !.count = 0]}
  /\ streak' = [streak EXCEPT ![g.site] = 0]

\* No answer in time, or one that is not 2xx.
Down(g) ==
  /\ probes' = (probes \ {g}) \cup {[g EXCEPT !.pc = "incr", !.count = 0]}
  /\ streak' = [streak EXCEPT ![g.site] = BumpUp(@)]

\* The HTTP probe; a redirect reads the counter, which all probes of the process share.
Probe(g) ==
  /\ g.pc = "probe"
  /\ \/ g.site \notin Redirecting /\ Up(g)
     \/ Down(g)
     \/ /\ g.site \in Redirecting
        /\ probes' = (probes \ {g}) \cup {[g EXCEPT !.pc = "redirect", !.count = redirects]}
        /\ UNCHANGED streak
  /\ UNCHANGED <<status, failures, dedup, listed, malware, checker, restarts, uncleared, writes, faults>>

RedirectCount(n) == IF n <= maxRedirects THEN n + 1 ELSE n

\* What the goroutine compares is the count it has written, not what the counter holds by then.
FollowsRedirect(g) == RedirectCount(g.count) <= maxRedirects

\* redirectCount++ writes back what was read, without a lock; the page behind a redirect
\* that is followed may be up, and a redirect that is not followed is not 2xx.
CheckRedirect(g) ==
  /\ g.pc = "redirect"
  /\ redirects' = RedirectCount(g.count)
  /\ \/ FollowsRedirect(g) /\ Up(g)
     \/ Down(g)
  /\ UNCHANGED <<status, failures, dedup, listed, malware, restarts, uncleared, writes, faults>>

\* Faulty variant: a site is restored only if DEL found a counter.
AfterDelOfCounter(g) ==
  IF g.seen = "error" /\ failures[g.site] > 0 THEN Goto(g, "restore") ELSE Done(g)

\* After the counter is cleared, the site is restored if it was loaded in error.
AfterDel(g) == IF g.seen = "error" THEN Goto(g, "restore") ELSE Done(g)

\* Faulty variant: the counter is only cleared for a site in error.
clearFailuresOfError(g) ==
  /\ g.pc = "del"
  /\ failures' = IF g.seen = "error" THEN [failures EXCEPT ![g.site] = 0] ELSE failures
  /\ uncleared' = uncleared \ {g.site}
  /\ AfterDel(g)
  /\ UNCHANGED <<status, dedup, listed, malware, checker, streak, restarts, writes, faults>>

clearFailures(g) ==
  /\ g.pc = "del"
  /\ failures' = [failures EXCEPT ![g.site] = 0]
  /\ uncleared' = uncleared \ {g.site}
  /\ AfterDel(g)
  /\ UNCHANGED <<status, dedup, listed, malware, checker, streak, restarts, writes, faults>>

\* The UPDATE looks at the id alone.
restore(g) ==
  /\ g.pc = "restore"
  /\ status' = [status EXCEPT ![g.site] = "active"]
  /\ Done(g)
  /\ UNCHANGED <<failures, dedup, listed, malware, checker, streak, restarts, uncleared, writes, faults>>

\* Faulty variant: error is set when the count is reached and never again.
MarksErrorOnce(g, count) == count = failuresBeforeError /\ g.seen # "error"

MarksError(g, count) == count >= failuresBeforeError /\ g.seen # "error"

\* Where a failed probe goes on, with enqueueRestart behind it or not needed.
AfterRestart(g, count) ==
  IF MarksError(g, count) THEN Goto(g, "markError") ELSE Done(g)

countFailure(g) ==
  /\ g.pc = "incr"
  /\ LET count == BumpUp(failures[g.site]) IN
       /\ failures' = [failures EXCEPT ![g.site] = count]
       /\ IF count >= failuresBeforeRestart
          THEN probes' = (probes \ {g}) \cup
                           {[g EXCEPT !.pc = "restart", !.count = count]}
          ELSE AfterRestart(g, count)
  /\ UNCHANGED <<status, dedup, listed, malware, checker, streak, restarts, uncleared, writes, faults>>

\* SetNX of the dedup key.
NewWindow(s) ==
  /\ dedup' = dedup \cup {s}
  /\ restarts' = IF s \in dedup THEN restarts ELSE [restarts EXCEPT ![s] = 0]

\* Faulty variant: the answer of SetNX is ignored.
takeDedupAlways(g) ==
  /\ g.pc = "restart"
  /\ NewWindow(g.site)
  /\ Goto(g, "insert")
  /\ UNCHANGED <<status, failures, listed, malware, checker, streak, uncleared, writes, faults>>

\* Only who sets the key inserts a job.
takeDedup(g) ==
  /\ g.pc = "restart"
  /\ NewWindow(g.site)
  /\ IF g.site \in dedup THEN AfterRestart(g, g.count) ELSE Goto(g, "insert")
  /\ UNCHANGED <<status, failures, listed, malware, checker, streak, uncleared, writes, faults>>

insertRestart(g) ==
  /\ g.pc = "insert"
  /\ restarts' = [restarts EXCEPT ![g.site] = BumpUp(@)]
  /\ AfterRestart(g, g.count)
  /\ UNCHANGED <<status, failures, dedup, listed, malware, checker, streak, uncleared, writes, faults>>

\* The UPDATE looks at the id alone.
markError(g) ==
  /\ g.pc = "markError"
  /\ status' = [status EXCEPT ![g.site] = "error"]
  /\ Done(g)
  /\ UNCHANGED <<failures, dedup, listed, malware, checker, streak, restarts, uncleared, writes, faults>>

\* A call to Redis or Postgres fails without effect, or INCR or SetNX had one and its answer
\* is lost; only INCR ends the reaction.
CallError(g) ==
  /\ Fault
  /\ \/ /\ g.pc = "del" /\ AfterDel(g)
        /\ uncleared' = uncleared \cup {g.site}
        /\ UNCHANGED <<failures, dedup, restarts>>
     \/ /\ g.pc = "incr" /\ Done(g)
        /\ failures' \in {failures, [failures EXCEPT ![g.site] = BumpUp(@)]}
        /\ UNCHANGED <<dedup, restarts, uncleared>>
     \/ /\ g.pc = "restart" /\ AfterRestart(g, g.count)
        /\ NewWindow(g.site) \/ UNCHANGED <<dedup, restarts>>
        /\ UNCHANGED <<failures, uncleared>>
     \/ /\ g.pc = "insert" /\ AfterRestart(g, g.count)
        /\ UNCHANGED <<failures, dedup, restarts, uncleared>>
     \/ /\ g.pc \in {"restore", "markError"} /\ Done(g)
        /\ UNCHANGED <<failures, dedup, restarts, uncleared>>
  /\ UNCHANGED <<status, listed, malware, checker, streak, writes>>

\* The restart window of five minutes ends.
DedupExpires(s) ==
  /\ s \in dedup
  /\ dedup' = dedup \ {s}
  /\ UNCHANGED <<status, failures, listed, probes, malware, checker, streak, restarts,
                 uncleared, writes, faults>>

\* The counter outlives a crash but not two hours without a failed probe.
FailuresExpire(s) ==
  /\ Fault
  /\ failures[s] > 0 /\ listed = {} /\ probes = {}
  /\ failures' = [failures EXCEPT ![s] = 0]
  /\ uncleared' = uncleared \ {s}
  /\ UNCHANGED <<status, dedup, listed, probes, malware, checker, streak, restarts, writes>>

\* The process stops: the goroutines are gone, Postgres and Redis remain.
Restart ==
  /\ Fault
  /\ listed' = {} /\ probes' = {} /\ results' = {} /\ redirects' = 0
  /\ uncleared' = uncleared \cup {g.site : g \in {h \in probes : h.pc = "del"}}
  /\ UNCHANGED <<status, failures, dedup, streak, restarts, writes>>
-----------------------------------------------------------------------------
(* The other writers.                                                      *)

Write(newStatus) ==
  /\ writes < MaxWrites
  /\ writes' = writes + 1
  /\ newStatus # status
  /\ status' = newStatus
  /\ UNCHANGED <<health, checker, streak, restarts, uncleared, faults>>

\* ProcessScanResult with a finding: quarantine, then an incident, which nobody reads.
quarantine(s) ==
  /\ status[s] # "deleted" /\ s \notin results
  /\ Write([status EXCEPT ![s] = "quarantined"])
  /\ results' = results \cup {s}

createIncident(s) ==
  /\ s \in results
  /\ results' = results \ {s}
  /\ UNCHANGED <<status, health, checker, streak, restarts, uncleared, writes, faults>>

\* The end of dunning suspends all sites of the user in one statement.
suspend(u) ==
  /\ Write([s \in Sites |->
       IF OwnerOf[s] = u /\ status[s] \notin {"deleted", "suspended"}
       THEN "suspended" ELSE status[s]])
  /\ UNCHANGED malware

\* A provisioning job of the site has failed for good.
failInstance(s) ==
  /\ Write([status EXCEPT ![s] = "failed"])
  /\ UNCHANGED malware

\* The API: a site is ready, reinstated or deleted.
ApiWrites(s) ==
  /\ status[s] # "deleted"
  /\ \E new \in {"active", "deleted"} : Write([status EXCEPT ![s] = new])
  /\ UNCHANGED malware

ProbeStep(g) ==
  \/ Probe(g) \/ CheckRedirect(g) \/ clearFailures(g) \/ restore(g) \/ countFailure(g)
  \/ takeDedup(g) \/ insertRestart(g) \/ markError(g)

CycleStep ==
  \/ loadActiveSites
  \/ \E r \in listed : startProbe(r)

Next ==
  \/ CycleStep
  \/ \E g \in probes : ProbeStep(g) \/ CallError(g)
  \/ \E s \in Sites : \/ DedupExpires(s) \/ FailuresExpire(s)
                      \/ quarantine(s) \/ createIncident(s)
                      \/ failInstance(s) \/ ApiWrites(s)
  \/ \E u \in Users : suspend(u)
  \/ Restart

Spec == Init /\ [][Next]_vars

\* The ticker fires and calls return; nothing is assumed of the other writers,
\* the sites, the keys' expiry or the faults.
Fairness ==
  /\ WF_vars(CycleStep)
  /\ \A s \in Sites : WF_vars(\E g \in probes : g.site = s /\ ProbeStep(g))

FairSpec == Spec /\ Fairness
-----------------------------------------------------------------------------
(* Properties.                                                             *)

TypeOK ==
  /\ status \in [Sites -> Statuses]
  /\ failures \in [Sites -> 0..MaxCount]
  /\ dedup \subseteq Sites
  /\ listed \subseteq SiteRow /\ redirects \in 0..(maxRedirects + 1)
  /\ probes \subseteq [site : Sites, seen : Statuses, pc : Labels,
                    count : 0..MaxCount \cup 0..(maxRedirects + 1)]
  /\ results \subseteq Sites
  /\ streak \in [Sites -> 0..MaxCount]
  /\ restarts \in [Sites -> 0..MaxCount]
  /\ uncleared \subseteq Sites
  /\ writes \in 0..MaxWrites /\ faults \in 0..MaxFaults
  /\ Cardinality(probes) <= probeParallelism

\* Over cycles, goroutines, restarts and the counter in Redis: a site goes to error only
\* when its last failuresBeforeError probes all failed, or a DEL was lost after one that
\* succeeded and no later one made up for it.  Lost INCRs, expired counters and crashes at
\* any other place never bring it about.
ErrorNeedsStreak ==
  [][\A s \in Sites :
       status[s] # "error" /\ status'[s] = "error"
         => streak[s] >= failuresBeforeError \/ s \in uncleared]_vars

\* However often a site fails, crashes and restarts included, at most one
\* reload_nginx job is enqueued for it while its dedup key lives.
OneRestartPerWindow ==
  \A s \in Sites : restarts[s] <= 1

\* Self-healing: a site whose probes succeed from some time on does not stay in error, although
\* statements fail, processes restart and the list the cycle works on is stale.
SelfHealing ==
  \A s \in Sites : <>[](streak[s] = 0) => <>[](status[s] # "error")

\* A site whose probes fail from some time on ends in error unless it is out of service, also
\* when the statement that says so fails the first time or is overwritten.
DownIsNoticed ==
  \A s \in Sites :
    <>[](streak[s] > 0) => <>[](status[s] \in {"error", "suspended", "deleted"})

\* maxRedirects caps how many HTTP redirects the probe will follow (health/checker.go:18): a
\* probe that meets one redirect may follow it, however many the others have met.
OwnRedirectsCapped ==
  maxRedirects > 0 => \A g \in probes : g.pc = "redirect" => FollowsRedirect(g)

\* probeAndReact restores 'active' if the site was in error state
\* (health/worker.go:130-131).
RestoredFromError ==
  [][\A g \in probes : restore(g) => status[g.site] = "error"]_vars
=============================================================================
