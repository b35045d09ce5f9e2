------------------------- MODULE ProvisioningProofs -------------------------
(***************************************************************************)
(* Theorems about the provisioning worker, for any number of processes,    *)
(* jobs, servers, retries, slots and faults.                               *)
(***************************************************************************)
EXTENDS Provisioning, Integers, FiniteSetTheorems, TLAPS

(* The type invariant but for the sign of slots, which depends on
   SlotsMatchHolders.                                                      *)
TypeInv ==
  /\ jobs \in [Jobs -> Row]
  /\ failedInstances \subseteq Instances
  /\ batch \in [Procs -> SUBSET BatchRow]
  /\ dispatches \subseteq Dispatch
  /\ slots \in [Procs -> [Servers -> Int]]
  /\ warden \in [Jobs -> [accepted : Nat, reported : Nat]]
  /\ faults \in 0..MaxFaults

(* Moving a goroutine keeps the set of goroutines well typed.               *)
LEMMA GotoType ==
  ASSUME dispatches \subseteq Dispatch, NEW d \in dispatches,
         NEW pc \in Labels, Goto(d, pc)
  PROVE  dispatches' \subseteq Dispatch
BY DEF Goto, Dispatch

(* What the two ways of updating a row do to the table.                     *)
LEMMA ClaimRowEffect ==
  ASSUME jobs \in [Jobs -> Row], NEW j \in Jobs, ClaimRow(j)
  PROVE  /\ jobs' \in [Jobs -> Row]
         /\ jobs'[j].status = "claimed"
         /\ jobs'[j].attempt = jobs[j].attempt + 1
         /\ \A k \in Jobs \ {j} : jobs'[k] = jobs[k]
<1> DEFINE r == jobs[j]
           new == [[r EXCEPT !.status = "claimed"] EXCEPT !.attempt = r.attempt + 1]
<1>1. r \in Row
  OBVIOUS
<1>2. new \in Row /\ new.status = "claimed" /\ new.attempt = r.attempt + 1
  <2>1. r.attempt + 1 \in Nat
    BY <1>1 DEF Row
  <2>2. [r EXCEPT !.status = "claimed"] \in Row
    BY <1>1 DEF Row, Statuses
  <2> QED BY <2>1, <2>2 DEF Row
<1>3. jobs' = [jobs EXCEPT ![j] = new]
  BY DEF ClaimRow
<1> HIDE DEF r, new
<1>4. jobs' \in [Jobs -> Row] /\ jobs'[j] = new /\ \A k \in Jobs \ {j} : jobs'[k] = jobs[k]
  BY <1>2, <1>3
<1> QED BY <1>2, <1>4 DEF r

LEMMA SetStatusEffect ==
  ASSUME jobs \in [Jobs -> Row], NEW j \in Jobs, NEW s \in Statuses, SetStatus(j, s)
  PROVE  /\ jobs' \in [Jobs -> Row]
         /\ jobs'[j].status = s
         /\ \A k \in Jobs : jobs'[k].attempt = jobs[k].attempt
         /\ \A k \in Jobs \ {j} : jobs'[k] = jobs[k]
<1> DEFINE r == jobs[j]
           new == [r EXCEPT !.status = s]
<1>1. r \in Row
  OBVIOUS
<1>2. new \in Row /\ new.status = s /\ new.attempt = r.attempt
  BY <1>1 DEF Row
<1>3. jobs' = [jobs EXCEPT ![j] = new]
  BY DEF SetStatus
<1> HIDE DEF new
<1>4. jobs' \in [Jobs -> Row] /\ jobs'[j] = new /\ \A k \in Jobs \ {j} : jobs'[k] = jobs[k]
  BY <1>2, <1>3
<1> QED BY <1>2, <1>4

(* A retry: the row is pending again, with its attempts kept.                *)
LEMMA RetryEffect ==
  ASSUME jobs \in [Jobs -> Row], NEW d, d.job \in Jobs, markFailedRetry(d)
  PROVE  /\ jobs' \in [Jobs -> Row]
         /\ jobs'[d.job].status = "pending"
         /\ \A k \in Jobs : jobs'[k].attempt = jobs[k].attempt
         /\ \A k \in Jobs \ {d.job} : jobs'[k] = jobs[k]
<1>1. PICK due \in BOOLEAN :
        jobs' = [jobs EXCEPT ![d.job].status = "pending", ![d.job].due = due]
  BY DEF markFailedRetry
<1> DEFINE r == jobs[d.job]
           new == [[r EXCEPT !.status = "pending"] EXCEPT !.due = due]
<1>2. r \in Row
  OBVIOUS
<1>3. new \in Row /\ new.status = "pending" /\ new.attempt = r.attempt
  BY <1>2 DEF Row, Statuses
<1>4. jobs' = [jobs EXCEPT ![d.job] = new]
  BY <1>1
<1> HIDE DEF new
<1>5. jobs' \in [Jobs -> Row] /\ jobs'[d.job] = new
      /\ \A k \in Jobs \ {d.job} : jobs'[k] = jobs[k]
  BY <1>3, <1>4
<1> QED BY <1>3, <1>5

LEMMA InitType == Init => TypeInv
BY TablesAssumption, LimitsAssumption DEF Init, TypeInv, Row, Statuses

LEMMA NextType == TypeInv /\ [Next]_vars => TypeInv'
<1> SUFFICES ASSUME TypeInv, [Next]_vars PROVE TypeInv'
  OBVIOUS
<1> USE TablesAssumption, LimitsAssumption DEF TypeInv
<1>1. ASSUME NEW p \in Procs, poll(p) PROVE TypeInv'
  <2>1. ASSUME NEW S \in SUBSET Jobs
        PROVE  {[job |-> j, attempt |-> jobs[j].attempt] : j \in S} \subseteq BatchRow
    BY DEF BatchRow, Row
  <2>2. batch' \in [Procs -> SUBSET BatchRow]
    BY <1>1, <2>1 DEF poll, Eligible
  <2> QED BY <1>1, <2>2 DEF poll
<1>2. ASSUME NEW p \in Procs, NEW r \in batch[p], claimJob(p, r) PROVE TypeInv'
  <2>1. r.job \in Jobs /\ r.attempt \in Nat
    BY DEF BatchRow
  <2>2. jobs' \in [Jobs -> Row]
    BY <1>2, <2>1, ClaimRowEffect DEF claimJob
  <2>3. dispatches' \subseteq Dispatch
    BY <1>2, <2>1 DEF claimJob, Dispatch, Row, Labels
  <2>4. batch' \in [Procs -> SUBSET BatchRow]
    BY <1>2 DEF claimJob, NextRow
  <2> QED BY <1>2, <2>2, <2>3, <2>4 DEF claimJob
<1>3. ASSUME NEW p \in Procs, NEW r \in batch[p], ClaimLost(p, r) PROVE TypeInv'
  BY <1>3 DEF ClaimLost, NextRow
<1>4. ASSUME NEW p \in Procs, NEW r \in batch[p], ClaimError(p, r) PROVE TypeInv'
  <2>1. jobs' \in [Jobs -> Row]
    BY <1>4, ClaimRowEffect DEF ClaimError, BatchRow
  <2> QED BY <1>4, <2>1 DEF ClaimError, NextRow, Fault
<1>5. ASSUME NEW p \in Procs, Restart(p) PROVE TypeInv'
  BY <1>5 DEF Restart, Fault
<1>6. ASSUME NEW d \in dispatches, acquireSem(d) PROVE TypeInv'
  <2>1. d.proc \in Procs /\ ServerOf[d.job] \in Servers
    BY DEF Dispatch
  <2> QED BY <1>6, <2>1, GotoType DEF acquireSem, Labels
<1>7. ASSUME NEW d \in dispatches, ExecuteError(d) PROVE TypeInv'
  BY <1>7, GotoType DEF ExecuteError, Labels
<1>8. ASSUME NEW d \in dispatches, WardenAccepts(d) PROVE TypeInv'
  BY <1>8, GotoType DEF WardenAccepts, Labels, Dispatch
<1>9. ASSUME NEW d \in dispatches, AsyncAnswer(d) PROVE TypeInv'
  BY <1>9, GotoType DEF AsyncAnswer, Labels
<1>10. ASSUME NEW d \in dispatches, AsyncAnswerLost(d) PROVE TypeInv'
  BY <1>10, GotoType DEF AsyncAnswerLost, Fault, Labels
<1>11. ASSUME NEW d \in dispatches, PurgeAnswer(d) PROVE TypeInv'
  BY <1>11, GotoType DEF PurgeAnswer, Labels
<1>12. ASSUME NEW d \in dispatches, markRunning(d) PROVE TypeInv'
  BY <1>12, GotoType, SetStatusEffect DEF markRunning, Dispatch, Statuses, Labels
<1>13. ASSUME NEW d \in dispatches, markCompleted(d) PROVE TypeInv'
  BY <1>13, GotoType, SetStatusEffect DEF markCompleted, Dispatch, Statuses, Labels
<1>14. ASSUME NEW d \in dispatches, markFailedRetry(d) PROVE TypeInv'
  <2>1. d.job \in Jobs
    BY DEF Dispatch
  <2>2. jobs' \in [Jobs -> Row]
    BY <1>14, <2>1, RetryEffect
  <2> QED BY <1>14, <2>2, GotoType DEF markFailedRetry, Labels
<1>15. ASSUME NEW d \in dispatches, markFailedTerminal(d) PROVE TypeInv'
  BY <1>15, GotoType, SetStatusEffect DEF markFailedTerminal, Dispatch, Statuses, Labels
<1>16. ASSUME NEW d \in dispatches, failInstance(d) PROVE TypeInv'
  BY <1>16, GotoType DEF failInstance, Labels, Dispatch
<1>17. ASSUME NEW d \in dispatches, WriteError(d) PROVE TypeInv'
  BY <1>17, GotoType DEF WriteError, Fault, Labels
<1>18. ASSUME NEW d \in dispatches, releaseSem(d) PROVE TypeInv'
  <2>1. d.proc \in Procs /\ ServerOf[d.job] \in Servers
    BY DEF Dispatch
  <2> QED BY <1>18, <2>1 DEF releaseSem
<1>19. ASSUME NEW j \in Jobs, BackoffElapses(j) PROVE TypeInv'
  BY <1>19 DEF BackoffElapses, Row
<1>20. ASSUME NEW j \in Jobs, ReportJobResult(j) PROVE TypeInv'
  <2>1. jobs' \in [Jobs -> Row]
    BY <1>20, SetStatusEffect DEF ReportJobResult, Statuses
  <2>2. warden' \in [Jobs -> [accepted : Nat, reported : Nat]]
    BY <1>20 DEF ReportJobResult
  <2> QED BY <1>20, <2>1, <2>2 DEF ReportJobResult
<1>21. CASE UNCHANGED vars
  BY <1>21 DEF vars
<1> QED
  BY <1>1, <1>2, <1>3, <1>4, <1>5, <1>6, <1>7, <1>8, <1>9, <1>10, <1>11, <1>12,
     <1>13, <1>14, <1>15, <1>16, <1>17, <1>18, <1>19, <1>20, <1>21
  DEF Next, PollStep, PollFault, DispatchStep, DispatchFault

(* No step takes an attempt back.                                            *)
LEMMA AttemptsGrow ==
  TypeInv /\ [Next]_vars => \A j \in Jobs : jobs[j].attempt <= jobs'[j].attempt
<1> SUFFICES ASSUME TypeInv, [Next]_vars
             PROVE  \A j \in Jobs : jobs[j].attempt <= jobs'[j].attempt
  OBVIOUS
<1>1. \A j \in Jobs : jobs[j] \in Row /\ jobs[j].attempt \in Nat
  BY DEF TypeInv, Row
<1>2. \A d \in dispatches : d.job \in Jobs
  BY DEF TypeInv, Dispatch
<1>3. ASSUME NEW r, r.job \in Jobs, ClaimRow(r.job)
      PROVE  \A j \in Jobs : jobs[j].attempt <= jobs'[j].attempt
  BY <1>1, <1>3, ClaimRowEffect DEF TypeInv
<1>4. ASSUME NEW p \in Procs, NEW r \in batch[p], claimJob(p, r) \/ ClaimError(p, r)
      PROVE  \A j \in Jobs : jobs[j].attempt <= jobs'[j].attempt
  <2>1. r.job \in Jobs
    BY DEF TypeInv, BatchRow
  <2>2. ClaimRow(r.job) \/ UNCHANGED jobs
    BY <1>4 DEF claimJob, ClaimError
  <2> QED BY <1>1, <1>3, <2>1, <2>2
<1>5. ASSUME NEW j \in Jobs, NEW s \in Statuses, SetStatus(j, s)
      PROVE  \A k \in Jobs : jobs[k].attempt <= jobs'[k].attempt
  BY <1>1, <1>5, SetStatusEffect DEF TypeInv
<1>6. ASSUME NEW d \in dispatches, DispatchStep(d) \/ DispatchFault(d)
      PROVE  \A k \in Jobs : jobs[k].attempt <= jobs'[k].attempt
  <2>1. CASE markFailedRetry(d)
    BY <1>1, <1>2, <2>1, RetryEffect DEF TypeInv
  <2>2. CASE markRunning(d) \/ markCompleted(d) \/ markFailedTerminal(d)
    BY <1>2, <1>5, <2>2 DEF markRunning, markCompleted, markFailedTerminal, Statuses
  <2>3. CASE UNCHANGED jobs
    BY <1>1, <2>3
  <2> QED BY <1>6, <2>1, <2>2, <2>3 DEF DispatchStep, DispatchFault, acquireSem,
        ExecuteError, WardenAccepts, AsyncAnswer, AsyncAnswerLost, PurgeAnswer,
        failInstance, WriteError, releaseSem
<1>7. ASSUME NEW j \in Jobs, BackoffElapses(j)
      PROVE  \A k \in Jobs : jobs[k].attempt <= jobs'[k].attempt
  <2>1. \A k \in Jobs : jobs'[k].attempt = jobs[k].attempt
    BY <1>7 DEF BackoffElapses, TypeInv, Row
  <2> QED BY <1>1, <2>1
<1>8. ASSUME NEW j \in Jobs, ReportJobResult(j)
      PROVE  \A k \in Jobs : jobs[k].attempt <= jobs'[k].attempt
  BY <1>5, <1>8 DEF ReportJobResult, Statuses
<1>9. CASE UNCHANGED jobs
  BY <1>1, <1>9
<1> QED BY <1>4, <1>6, <1>7, <1>8, <1>9
  DEF Next, PollStep, PollFault, poll, ClaimLost, Restart, vars
-----------------------------------------------------------------------------
(* One goroutine per job.                                                    *)

(* What a move of a goroutine leaves of it, and of the others.               *)
LEMMA GotoEffect ==
  ASSUME dispatches \subseteq Dispatch, NEW d \in dispatches, NEW pc \in Labels,
         Goto(d, pc)
  PROVE  \E new \in Dispatch :
           /\ new.job = d.job /\ new.claim = d.claim /\ new.proc = d.proc
           /\ new.attempt = d.attempt /\ new.pc = pc
           /\ dispatches' = (dispatches \ {d}) \cup {new}
<1> DEFINE new == [d EXCEPT !.pc = pc]
<1>1. /\ new \in Dispatch
      /\ new.job = d.job /\ new.claim = d.claim /\ new.proc = d.proc
      /\ new.attempt = d.attempt /\ new.pc = pc
  BY DEF Dispatch
<1>2. dispatches' = (dispatches \ {d}) \cup {new}
  BY DEF Goto
<1> HIDE DEF new
<1> QED BY <1>1, <1>2

(* A move keeps SingleDispatcher when it brings no finished goroutine back and
   only makes its own row pending, on the way out.                           *)
LEMMA GotoSingle ==
  ASSUME TypeInv, SingleDispatcher, NEW d \in dispatches, NEW pc \in Labels,
         Goto(d, pc),
         Live(d) \/ pc = "release",
         \A j \in Jobs : jobs'[j].status = "pending" =>
            jobs[j].status = "pending" \/ (j = d.job /\ pc = "release" /\ Live(d))
  PROVE  SingleDispatcher'
<1>1. PICK new \in Dispatch :
        /\ new.job = d.job /\ new.pc = pc
        /\ dispatches' = (dispatches \ {d}) \cup {new}
  BY GotoEffect DEF TypeInv
<1>2. ASSUME NEW x \in dispatches', Live(x)
      PROVE  jobs'[x.job].status # "pending"
  BY <1>1, <1>2 DEF SingleDispatcher, Live, TypeInv, Dispatch
<1>3. ASSUME NEW x \in dispatches', Live(x), NEW y \in dispatches', Live(y),
             y.job = x.job
      PROVE  y = x
  BY <1>1, <1>3 DEF SingleDispatcher, Live
<1> QED BY <1>2, <1>3 DEF SingleDispatcher, Live

LEMMA NextSingle ==
  TypeInv /\ SingleDispatcher /\ [Next]_vars => SingleDispatcher'
<1> SUFFICES ASSUME TypeInv, SingleDispatcher, [Next]_vars PROVE SingleDispatcher'
  OBVIOUS
<1>1. ASSUME NEW p \in Procs, poll(p) PROVE SingleDispatcher'
  BY <1>1 DEF poll, SingleDispatcher, Live
<1>2. ASSUME NEW p \in Procs, NEW r \in batch[p], claimJob(p, r)
      PROVE  SingleDispatcher'
  <2>1. r.job \in Jobs
    BY DEF TypeInv, BatchRow
  <2>2. PICK new : new.job = r.job /\ dispatches' = dispatches \cup {new}
    BY <1>2 DEF claimJob
  <2>3. \A d \in dispatches : Live(d) => d.job # r.job
    BY <1>2 DEF claimJob, Claimable, SingleDispatcher
  <2>4. /\ jobs'[r.job].status = "claimed"
        /\ \A k \in Jobs \ {r.job} : jobs'[k] = jobs[k]
    BY <1>2, <2>1, ClaimRowEffect DEF claimJob, TypeInv
  <2>5. \A d \in dispatches : d.job \in Jobs
    BY DEF TypeInv, Dispatch
  <2> QED BY <2>1, <2>2, <2>3, <2>4, <2>5 DEF SingleDispatcher, Live
<1>3. ASSUME NEW p \in Procs, NEW r \in batch[p], ClaimLost(p, r)
      PROVE  SingleDispatcher'
  BY <1>3 DEF ClaimLost, SingleDispatcher, Live
<1>4. ASSUME NEW p \in Procs, NEW r \in batch[p], ClaimError(p, r)
      PROVE  SingleDispatcher'
  <2>1. \A k \in Jobs : jobs'[k].status = "pending" => jobs[k].status = "pending"
    <3>1. r.job \in Jobs
      BY DEF TypeInv, BatchRow
    <3> QED BY <1>4, <3>1, ClaimRowEffect DEF ClaimError, TypeInv
  <2> QED BY <1>4, <2>1 DEF ClaimError, SingleDispatcher, Live, TypeInv, Dispatch
<1>5. ASSUME NEW p \in Procs, Restart(p) PROVE SingleDispatcher'
  BY <1>5 DEF Restart, SingleDispatcher, Live
<1>6. ASSUME NEW d \in dispatches, acquireSem(d) PROVE SingleDispatcher'
  BY <1>6, GotoSingle DEF acquireSem, Live, Labels
<1>7. ASSUME NEW d \in dispatches, ExecuteError(d) PROVE SingleDispatcher'
  BY <1>7, GotoSingle DEF ExecuteError, Live, Labels
<1>8. ASSUME NEW d \in dispatches, WardenAccepts(d) PROVE SingleDispatcher'
  BY <1>8, GotoSingle DEF WardenAccepts, Live, Labels
<1>9. ASSUME NEW d \in dispatches, AsyncAnswer(d) PROVE SingleDispatcher'
  BY <1>9, GotoSingle DEF AsyncAnswer, Live, Labels
<1>10. ASSUME NEW d \in dispatches, AsyncAnswerLost(d) PROVE SingleDispatcher'
  BY <1>10, GotoSingle DEF AsyncAnswerLost, Live, Labels
<1>11. ASSUME NEW d \in dispatches, PurgeAnswer(d) PROVE SingleDispatcher'
  BY <1>11, GotoSingle DEF PurgeAnswer, Live, Labels
<1>12. ASSUME NEW d \in dispatches, markRunning(d) PROVE SingleDispatcher'
  <2>1. \A k \in Jobs : jobs'[k].status = "pending" => jobs[k].status = "pending"
    BY <1>12, SetStatusEffect DEF markRunning, TypeInv, Dispatch, Statuses
  <2> QED BY <1>12, <2>1, GotoSingle DEF markRunning, Live, Labels
<1>13. ASSUME NEW d \in dispatches, markCompleted(d) PROVE SingleDispatcher'
  <2>1. \A k \in Jobs : jobs'[k].status = "pending" => jobs[k].status = "pending"
    BY <1>13, SetStatusEffect DEF markCompleted, TypeInv, Dispatch, Statuses
  <2> QED BY <1>13, <2>1, GotoSingle DEF markCompleted, Live, Labels
<1>14. ASSUME NEW d \in dispatches, markFailedRetry(d) PROVE SingleDispatcher'
  <2>1. \A k \in Jobs \ {d.job} : jobs'[k] = jobs[k]
    BY <1>14, RetryEffect DEF TypeInv, Dispatch
  <2>2. Goto(d, "release") /\ Live(d)
    BY <1>14 DEF markFailedRetry, Live
  <2> QED BY <2>1, <2>2, GotoSingle DEF Labels
<1>15. ASSUME NEW d \in dispatches, markFailedTerminal(d) PROVE SingleDispatcher'
  <2>1. \A k \in Jobs : jobs'[k].status = "pending" => jobs[k].status = "pending"
    BY <1>15, SetStatusEffect DEF markFailedTerminal, TypeInv, Dispatch, Statuses
  <2> QED BY <1>15, <2>1, GotoSingle DEF markFailedTerminal, Live, Labels
<1>16. ASSUME NEW d \in dispatches, failInstance(d) PROVE SingleDispatcher'
  BY <1>16, GotoSingle DEF failInstance, Live, Labels
<1>17. ASSUME NEW d \in dispatches, WriteError(d) PROVE SingleDispatcher'
  <2>1. \/ Live(d) /\ Goto(d, "failInstance")
        \/ Goto(d, "release")
    BY <1>17 DEF WriteError, Live
  <2>2. UNCHANGED jobs
    BY <1>17 DEF WriteError
  <2> QED BY <2>1, <2>2, GotoSingle DEF Labels
<1>18. ASSUME NEW d \in dispatches, releaseSem(d) PROVE SingleDispatcher'
  BY <1>18 DEF releaseSem, SingleDispatcher, Live
<1>19. ASSUME NEW j \in Jobs, BackoffElapses(j) PROVE SingleDispatcher'
  <2>1. \A k \in Jobs : jobs'[k].status = jobs[k].status
    BY <1>19 DEF BackoffElapses, TypeInv, Row
  <2> QED BY <1>19, <2>1 DEF BackoffElapses, SingleDispatcher, Live, TypeInv, Dispatch
<1>20. ASSUME NEW j \in Jobs, ReportJobResult(j) PROVE SingleDispatcher'
  <2>1. \A k \in Jobs : jobs'[k].status = "pending" => jobs[k].status = "pending"
    BY <1>20, SetStatusEffect DEF ReportJobResult, TypeInv, Statuses
  <2> QED BY <1>20, <2>1 DEF ReportJobResult, SingleDispatcher, Live, TypeInv, Dispatch
<1>21. CASE UNCHANGED vars
  BY <1>21 DEF vars, SingleDispatcher, Live
<1> QED
  BY <1>1, <1>2, <1>3, <1>4, <1>5, <1>6, <1>7, <1>8, <1>9, <1>10, <1>11, <1>12,
     <1>13, <1>14, <1>15, <1>16, <1>17, <1>18, <1>19, <1>20, <1>21
  DEF Next, PollStep, PollFault, DispatchStep, DispatchFault

(* No interleaving of any number of processes gives a job to two goroutines. *)
THEOREM SingleDispatcherHolds == Spec => []SingleDispatcher
<1>1. Init => TypeInv /\ SingleDispatcher
  BY InitType DEF Init, SingleDispatcher
<1>2. TypeInv /\ SingleDispatcher /\ [Next]_vars => (TypeInv /\ SingleDispatcher)'
  BY NextType, NextSingle
<1> QED BY <1>1, <1>2, PTL DEF Spec
-----------------------------------------------------------------------------
(* The semaphores count the goroutines that hold a slot, and so the state is
   well typed.                                                               *)

Holders(p, s) == {d \in dispatches :
                    d.proc = p /\ ServerOf[d.job] = s /\ Holding(d)}

(* A claim is one goroutine's, and no later than the row's last.  So two
   goroutines never become equal, and moving one changes no count.           *)
ClaimsInv ==
  /\ IsFiniteSet(dispatches)
  /\ \A d \in dispatches : d.claim <= jobs[d.job].attempt
  /\ \A d, e \in dispatches : d.job = e.job /\ d.claim = e.claim => d = e

SlotInv == ClaimsInv /\ SlotsMatchHolders

LEMMA HoldersFinite ==
  ASSUME ClaimsInv, NEW p, NEW s
  PROVE  IsFiniteSet(Holders(p, s)) /\ Cardinality(Holders(p, s)) \in Nat
<1>1. Holders(p, s) \subseteq dispatches
  BY DEF Holders
<1> QED BY <1>1, FS_Subset, FS_CardinalityType DEF ClaimsInv

LEMMA SlotCounts ==
  ASSUME SlotInv, NEW p \in Procs, NEW s \in Servers
  PROVE  /\ slots[p][s] <= maxConcurrentPerServer
         /\ slots[p][s] = Cardinality(Holders(p, s))
BY DEF SlotInv, SlotsMatchHolders, Holders

(* What a move does to the counts: acquiring adds one to its own, and any other
   move leaves all of them.                                                  *)
LEMMA GotoHolders ==
  ASSUME TypeInv, ClaimsInv, NEW d \in dispatches, NEW pc \in Labels \ {"acquire"},
         Goto(d, pc),
         \A j \in Jobs : jobs[j].attempt <= jobs'[j].attempt /\ jobs'[j].attempt \in Nat
  PROVE  /\ ClaimsInv'
         /\ \A p \in Procs, s \in Servers :
              Cardinality(Holders(p, s)') =
                IF p = d.proc /\ s = ServerOf[d.job] /\ ~ Holding(d)
                THEN Cardinality(Holders(p, s)) + 1 ELSE Cardinality(Holders(p, s))
<1>1. PICK new \in Dispatch :
        /\ new.job = d.job /\ new.claim = d.claim /\ new.proc = d.proc /\ new.pc = pc
        /\ dispatches' = (dispatches \ {d}) \cup {new}
  BY GotoEffect DEF TypeInv
<1>2. \A x \in dispatches : x.job \in Jobs /\ x.claim \in Nat
  BY DEF TypeInv, Dispatch
<1>3. new \notin dispatches \ {d}
  BY <1>1 DEF ClaimsInv
<1>4. ClaimsInv'
  <2>1. IsFiniteSet(dispatches')
    BY <1>1, FS_RemoveElement, FS_AddElement DEF ClaimsInv
  <2>2. \A x \in dispatches' : x.claim <= jobs'[x.job].attempt
    <3>1. \A j \in Jobs : jobs[j].attempt \in Nat
      BY DEF TypeInv, Row
    <3> QED BY <1>1, <1>2, <3>1 DEF ClaimsInv
  <2>3. \A x, y \in dispatches' : x.job = y.job /\ x.claim = y.claim => x = y
    BY <1>1 DEF ClaimsInv
  <2> QED BY <2>1, <2>2, <2>3 DEF ClaimsInv
<1>5. ASSUME NEW p \in Procs, NEW s \in Servers
      PROVE  Cardinality(Holders(p, s)') =
                IF p = d.proc /\ s = ServerOf[d.job] /\ ~ Holding(d)
                THEN Cardinality(Holders(p, s)) + 1 ELSE Cardinality(Holders(p, s))
  <2> DEFINE H == Holders(p, s)
  <2>1. IsFiniteSet(H) /\ Cardinality(H) \in Nat
    BY HoldersFinite
  <2>2. CASE p # d.proc \/ s # ServerOf[d.job]
    <3>1. Holders(p, s)' = H
      BY <1>1, <2>2 DEF Holders, Holding
    <3> QED BY <2>2, <3>1
  <2>3. CASE p = d.proc /\ s = ServerOf[d.job]
    <3>1. Holders(p, s)' = (H \ {d}) \cup {new}
      BY <1>1, <2>3 DEF Holders, Holding
    <3>2. d \in H <=> Holding(d)
      BY <2>3 DEF Holders
    <3>3. new \notin H \ {d}
      BY <1>3 DEF Holders
    <3> HIDE DEF H
    <3>4. /\ IsFiniteSet(H \ {d})
          /\ Cardinality(H \ {d}) = IF d \in H THEN Cardinality(H) - 1
                                               ELSE Cardinality(H)
      BY <2>1, FS_RemoveElement
    <3>5. Cardinality((H \ {d}) \cup {new}) = Cardinality(H \ {d}) + 1
      BY <3>3, <3>4, FS_AddElement
    <3> QED BY <2>1, <2>3, <3>1, <3>2, <3>4, <3>5 DEF H
  <2> QED BY <2>2, <2>3
<1> QED BY <1>4, <1>5

(* A move of a goroutine that has its slot, and changes none.                *)
LEMMA GotoSlots ==
  ASSUME TypeInv, SlotInv, NEW d \in dispatches, NEW pc \in Labels \ {"acquire"},
         Goto(d, pc), Holding(d), UNCHANGED slots,
         \A j \in Jobs : jobs[j].attempt <= jobs'[j].attempt /\ jobs'[j].attempt \in Nat
  PROVE  SlotInv'
<1>1. ClaimsInv' /\ \A p \in Procs, s \in Servers :
        Cardinality(Holders(p, s)') = Cardinality(Holders(p, s))
  BY GotoHolders DEF SlotInv
<1> QED BY <1>1 DEF SlotInv, SlotsMatchHolders, Holders

LEMMA NextSlots == TypeInv /\ SlotInv /\ [Next]_vars => SlotInv'
<1> SUFFICES ASSUME TypeInv, SlotInv, [Next]_vars PROVE SlotInv'
  OBVIOUS
<1>1. \A j \in Jobs : jobs[j].attempt <= jobs'[j].attempt /\ jobs'[j].attempt \in Nat
  BY AttemptsGrow, NextType DEF TypeInv, Row
<1>2. \A d \in dispatches : /\ d.job \in Jobs /\ d.proc \in Procs /\ d.claim \in Nat
                            /\ ServerOf[d.job] \in Servers
  BY TablesAssumption DEF TypeInv, Dispatch
<1>3. \A j \in Jobs : jobs[j].attempt \in Nat
  BY DEF TypeInv, Row
<1>4. ASSUME UNCHANGED <<dispatches, slots>> PROVE SlotInv'
  BY <1>1, <1>2, <1>3, <1>4 DEF SlotInv, ClaimsInv, SlotsMatchHolders, Holding
<1>5. ASSUME NEW p \in Procs, NEW r \in batch[p], claimJob(p, r) PROVE SlotInv'
  <2>1. r.job \in Jobs
    BY DEF TypeInv, BatchRow
  <2>2. PICK new : /\ new.job = r.job /\ new.claim = jobs[r.job].attempt + 1
                   /\ new.pc = "acquire" /\ dispatches' = dispatches \cup {new}
    BY <1>5 DEF claimJob
  <2>3. jobs'[r.job].attempt = jobs[r.job].attempt + 1
    BY <1>5, <2>1, ClaimRowEffect DEF claimJob, TypeInv
  <2>4. ClaimsInv'
    <3>1. IsFiniteSet(dispatches')
      BY <2>2, FS_AddElement DEF SlotInv, ClaimsInv
    <3>2. \A d \in dispatches' : d.claim <= jobs'[d.job].attempt
      BY <1>1, <1>2, <1>3, <2>1, <2>2, <2>3 DEF SlotInv, ClaimsInv
    <3>3. \A d \in dispatches : d.job = new.job => d.claim # new.claim
      BY <1>2, <1>3, <2>1, <2>2 DEF SlotInv, ClaimsInv
    <3>4. \A d, e \in dispatches' : d.job = e.job /\ d.claim = e.claim => d = e
      BY <2>2, <3>3 DEF SlotInv, ClaimsInv
    <3> QED BY <3>1, <3>2, <3>4 DEF ClaimsInv
  <2>5. \A q \in Procs, s \in Servers : Holders(q, s)' = Holders(q, s)
    BY <2>2 DEF Holders, Holding
  <2>6. UNCHANGED slots
    BY <1>5 DEF claimJob
  <2> QED BY <2>4, <2>5, <2>6 DEF SlotInv, SlotsMatchHolders, Holders
<1>6. ASSUME NEW p \in Procs, Restart(p) PROVE SlotInv'
  <2>1. ClaimsInv'
    <3>1. dispatches' \subseteq dispatches /\ UNCHANGED jobs
      BY <1>6 DEF Restart
    <3>2. IsFiniteSet(dispatches')
      BY <3>1, FS_Subset DEF SlotInv, ClaimsInv
    <3> QED BY <3>1, <3>2 DEF SlotInv, ClaimsInv
  <2>2. \A s \in Servers : Holders(p, s)' = {} /\ slots'[p][s] = 0
    BY <1>6 DEF Restart, Holders, TypeInv
  <2>3. \A q \in Procs \ {p}, s \in Servers :
          Holders(q, s)' = Holders(q, s) /\ slots'[q] = slots[q]
    BY <1>6 DEF Restart, Holders, Holding, TypeInv
  <2>4. Cardinality({}) = 0 /\ 0 <= maxConcurrentPerServer
    BY FS_EmptySet, LimitsAssumption
  <2>5. ASSUME NEW q \in Procs, NEW s \in Servers
        PROVE  /\ slots'[q][s] <= maxConcurrentPerServer
               /\ slots'[q][s] = Cardinality(Holders(q, s)')
    <3>1. CASE q = p
      <4>1. slots'[q][s] = 0 /\ Holders(q, s)' = {}
        BY <2>2, <3>1
      <4> QED BY <2>4, <4>1
    <3>2. CASE q # p
      <4>1. Holders(q, s)' = Holders(q, s) /\ slots'[q] = slots[q]
        BY <2>3, <3>2
      <4> QED BY <4>1, SlotCounts
    <3> QED BY <3>1, <3>2
  <2> QED BY <2>1, <2>5 DEF SlotInv, SlotsMatchHolders, Holders
<1>7. ASSUME NEW d \in dispatches, DispatchStep(d) \/ DispatchFault(d) PROVE SlotInv'
  <2>1. CASE acquireSem(d)
    <3>1. ~ Holding(d) /\ Goto(d, "execute") /\ "execute" \in Labels \ {"acquire"}
      BY <2>1 DEF acquireSem, Holding, Labels
    <3>2. ClaimsInv' /\ \A p \in Procs, s \in Servers :
            Cardinality(Holders(p, s)') =
              IF p = d.proc /\ s = ServerOf[d.job]
              THEN Cardinality(Holders(p, s)) + 1 ELSE Cardinality(Holders(p, s))
      BY <1>1, <3>1, GotoHolders DEF SlotInv
    <3>3. /\ slots[d.proc][ServerOf[d.job]] < maxConcurrentPerServer
          /\ \A p \in Procs, s \in Servers :
               slots'[p][s] = IF p = d.proc /\ s = ServerOf[d.job]
                              THEN slots[p][s] + 1 ELSE slots[p][s]
      BY <1>2, <2>1 DEF acquireSem, TypeInv
    <3>4. \A p \in Procs, s \in Servers : slots[p][s] \in Int
      BY DEF TypeInv
    <3>5. \A p \in Procs, s \in Servers :
            /\ slots[p][s] <= maxConcurrentPerServer
            /\ slots[p][s] = Cardinality(Holders(p, s))
      BY DEF SlotInv, SlotsMatchHolders, Holders
    <3>6. \A p \in Procs, s \in Servers :
            /\ slots'[p][s] <= maxConcurrentPerServer
            /\ slots'[p][s] = Cardinality(Holders(p, s)')
      BY <3>2, <3>3, <3>4, <3>5, LimitsAssumption
    <3> QED BY <3>2, <3>6 DEF SlotInv, SlotsMatchHolders, Holders
  <2>2. CASE releaseSem(d)
    <3>1. dispatches' = dispatches \ {d} /\ UNCHANGED jobs /\ Holding(d)
      BY <2>2 DEF releaseSem, Holding
    <3>2. ClaimsInv'
      BY <3>1, FS_RemoveElement DEF SlotInv, ClaimsInv
    <3>3. \A p \in Procs, s \in Servers :
            Holders(p, s)' = IF p = d.proc /\ s = ServerOf[d.job]
                             THEN Holders(p, s) \ {d} ELSE Holders(p, s)
      BY <3>1 DEF Holders, Holding
    <3>4. d \in Holders(d.proc, ServerOf[d.job])
      BY <3>1 DEF Holders
    <3>5. /\ Cardinality(Holders(d.proc, ServerOf[d.job]) \ {d})
               = Cardinality(Holders(d.proc, ServerOf[d.job])) - 1
      BY <3>4, HoldersFinite, FS_RemoveElement DEF SlotInv
    <3>6. \A p \in Procs, s \in Servers :
            slots'[p][s] = IF p = d.proc /\ s = ServerOf[d.job]
                           THEN slots[p][s] - 1 ELSE slots[p][s]
      BY <1>2, <2>2 DEF releaseSem, TypeInv
    <3>7. \A p \in Procs, s \in Servers :
            /\ slots[p][s] \in Int /\ slots[p][s] <= maxConcurrentPerServer
            /\ slots[p][s] = Cardinality(Holders(p, s))
      BY SlotCounts DEF TypeInv
    <3>8. ASSUME NEW p \in Procs, NEW s \in Servers
          PROVE  /\ slots'[p][s] <= maxConcurrentPerServer
                 /\ slots'[p][s] = Cardinality(Holders(p, s)')
      <4>1. CASE p = d.proc /\ s = ServerOf[d.job]
        <5>1. Holders(p, s)' = Holders(p, s) \ {d} /\ slots'[p][s] = slots[p][s] - 1
          BY <3>3, <3>6, <4>1
        <5>2. Cardinality(Holders(p, s) \ {d}) = Cardinality(Holders(p, s)) - 1
          BY <3>5, <4>1
        <5>3. slots'[p][s] = Cardinality(Holders(p, s)')
          BY <3>7, <5>1, <5>2
        <5> QED BY <3>7, <5>1, <5>3, LimitsAssumption
      <4>2. CASE ~ (p = d.proc /\ s = ServerOf[d.job])
        <5>1. Holders(p, s)' = Holders(p, s) /\ slots'[p][s] = slots[p][s]
          BY <3>3, <3>6, <4>2
        <5> QED BY <3>7, <5>1
      <4> QED BY <4>1, <4>2
    <3> QED BY <3>2, <3>8 DEF SlotInv, SlotsMatchHolders, Holders
  <2>3. CASE UNCHANGED slots /\ Holding(d) /\ \E pc \in Labels \ {"acquire"} : Goto(d, pc)
    BY <1>1, <2>3, GotoSlots
  <2> QED BY <1>7, <2>1, <2>2, <2>3 DEF DispatchStep, DispatchFault, ExecuteError,
        WardenAccepts, AsyncAnswer, AsyncAnswerLost, PurgeAnswer, markRunning,
        markCompleted, markFailedRetry, markFailedTerminal, failInstance, WriteError,
        Holding, Labels
<1>8. ASSUME NEW j \in Jobs, BackoffElapses(j) \/ ReportJobResult(j) PROVE SlotInv'
  BY <1>4, <1>8 DEF BackoffElapses, ReportJobResult
<1> QED BY <1>4, <1>5, <1>6, <1>7, <1>8
  DEF Next, PollStep, PollFault, poll, ClaimLost, ClaimError, vars

LEMMA InitSlots == Init => SlotInv
BY FS_EmptySet, LimitsAssumption DEF Init, SlotInv, ClaimsInv, SlotsMatchHolders

(* No path through dispatch leaks a slot or gives one back twice.            *)
THEOREM SlotsMatchHoldersHolds == Spec => []SlotsMatchHolders
<1>1. TypeInv /\ SlotInv /\ [Next]_vars => (TypeInv /\ SlotInv)'
  BY NextType, NextSlots
<1>2. SlotInv => SlotsMatchHolders
  BY DEF SlotInv
<1> QED BY InitType, InitSlots, <1>1, <1>2, PTL DEF Spec

(* The state is well typed; above all no semaphore is released below zero.   *)
THEOREM TypeCorrect == Spec => []TypeOK
<1>1. TypeInv /\ SlotInv => TypeOK
  <2> SUFFICES ASSUME TypeInv, SlotInv PROVE TypeOK
    OBVIOUS
  <2>1. ASSUME NEW p \in Procs, NEW s \in Servers PROVE slots[p][s] \in Nat
    <3>1. Cardinality(Holders(p, s)) \in Nat
      BY HoldersFinite DEF SlotInv
    <3> QED BY <3>1, SlotCounts
  <2>2. slots \in [Procs -> [Servers -> Nat]]
    BY <2>1 DEF TypeInv
  <2> QED BY <2>2 DEF TypeInv, TypeOK
<1>2. TypeInv /\ SlotInv /\ [Next]_vars => (TypeInv /\ SlotInv)'
  BY NextType, NextSlots
<1> QED BY InitType, InitSlots, <1>1, <1>2, PTL DEF Spec
=============================================================================
