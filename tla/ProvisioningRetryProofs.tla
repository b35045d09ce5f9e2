----------------------- MODULE ProvisioningRetryProofs -----------------------
(***************************************************************************)
(* Theorems about the retries of the provisioning worker: when an instance *)
(* is given up, how often Warden is handed a job, and that no claimed job  *)
(* is dropped.                                                             *)
(***************************************************************************)
EXTENDS ProvisioningProofs

(* An instance is given up only after maxRetries + 1 claims.                 *)

(* Each number a process remembers of a row is at most what the row has by now,
   and the claim of a goroutine came after its poll.                         *)
AttemptsInv ==
  /\ \A p \in Procs : \A r \in batch[p] : r.attempt <= jobs[r.job].attempt
  /\ \A d \in dispatches :
       /\ d.attempt < d.claim /\ d.claim <= jobs[d.job].attempt
       /\ d.pc = "failInstance" => maxRetries <= d.attempt
  /\ NoPrematureFailure

(* A move keeps what AttemptsInv says of the goroutines, if it does not give an
   instance up too early.                                                    *)
LEMMA GotoAttempts ==
  ASSUME TypeInv, AttemptsInv, NEW d \in dispatches, NEW pc \in Labels, Goto(d, pc),
         pc = "failInstance" => maxRetries <= d.attempt,
         \A j \in Jobs : jobs[j].attempt <= jobs'[j].attempt,
         \A j \in Jobs : jobs'[j].attempt \in Nat
  PROVE  \A x \in dispatches' :
           /\ x.attempt < x.claim /\ x.claim <= jobs'[x.job].attempt
           /\ x.pc = "failInstance" => maxRetries <= x.attempt
<1>1. PICK new \in Dispatch :
        /\ new.job = d.job /\ new.claim = d.claim /\ new.attempt = d.attempt
        /\ new.pc = pc
        /\ dispatches' = (dispatches \ {d}) \cup {new}
  BY GotoEffect DEF TypeInv
<1>2. \A x \in dispatches : x.job \in Jobs /\ x.claim \in Nat /\ x.attempt \in Nat
  BY DEF TypeInv, Dispatch
<1>3. \A j \in Jobs : jobs[j].attempt \in Nat
  BY DEF TypeInv, Row
<1> QED BY <1>1, <1>2, <1>3 DEF AttemptsInv

LEMMA NextAttempts == TypeInv /\ AttemptsInv /\ [Next]_vars => AttemptsInv'
<1> SUFFICES ASSUME TypeInv, AttemptsInv, [Next]_vars PROVE AttemptsInv'
  OBVIOUS
<1>1. \A j \in Jobs : jobs[j].attempt <= jobs'[j].attempt
  BY AttemptsGrow
<1>2. /\ \A j \in Jobs : jobs[j].attempt \in Nat /\ jobs'[j].attempt \in Nat
      /\ \A d \in dispatches : d.job \in Jobs /\ d.claim \in Nat /\ d.attempt \in Nat
      /\ \A p \in Procs : \A r \in batch[p] : r.job \in Jobs /\ r.attempt \in Nat
  BY NextType DEF TypeInv, Row, Dispatch, BatchRow
<1>3. \A p \in Procs : \A r \in batch'[p] : r.attempt <= jobs'[r.job].attempt
  <2>1. ASSUME NEW p \in Procs, poll(p)
        PROVE  \A q \in Procs : \A r \in batch'[q] : r.attempt <= jobs'[r.job].attempt
    <3>1. PICK S \in SUBSET Eligible :
            batch' = [batch EXCEPT
              ![p] = {[job |-> j, attempt |-> jobs[j].attempt] : j \in S}]
      BY <2>1 DEF poll
    <3>2. UNCHANGED jobs
      BY <2>1 DEF poll
    <3>3. S \subseteq Jobs
      BY DEF Eligible
    <3>4. \A r \in batch'[p] : r.attempt <= jobs[r.job].attempt
      BY <1>2, <3>1, <3>3 DEF TypeInv
    <3> QED BY <3>1, <3>2, <3>4 DEF AttemptsInv, TypeInv
  <2>2. ASSUME \A q \in Procs : batch'[q] \subseteq batch[q]
        PROVE  \A q \in Procs : \A r \in batch'[q] : r.attempt <= jobs'[r.job].attempt
    BY <1>1, <1>2, <2>2 DEF AttemptsInv
  <2>3. \A p \in Procs : \A r \in batch[p] : NextRow(p, r) =>
            \A q \in Procs : batch'[q] \subseteq batch[q]
    BY DEF NextRow, TypeInv
  <2>4. ASSUME NEW p \in Procs, PollStep(p) \/ PollFault(p)
        PROVE  \A q \in Procs : \A r \in batch'[q] : r.attempt <= jobs'[r.job].attempt
    BY <2>1, <2>2, <2>3, <2>4 DEF PollStep, PollFault, claimJob, ClaimLost, ClaimError
  <2>5. ASSUME NEW p \in Procs, Restart(p)
        PROVE  \A q \in Procs : batch'[q] \subseteq batch[q]
    BY <2>5 DEF Restart, TypeInv
  <2>6. ASSUME NEW d \in dispatches, DispatchStep(d) \/ DispatchFault(d)
        PROVE  UNCHANGED batch
    BY <2>6 DEF DispatchStep, DispatchFault, acquireSem, ExecuteError, WardenAccepts,
        AsyncAnswer, AsyncAnswerLost, PurgeAnswer, markRunning, markCompleted,
        markFailedRetry, markFailedTerminal, failInstance, WriteError, releaseSem
  <2>7. ASSUME NEW j \in Jobs, BackoffElapses(j) \/ ReportJobResult(j)
        PROVE  UNCHANGED batch
    BY <2>7 DEF BackoffElapses, ReportJobResult
  <2> QED BY <2>2, <2>4, <2>5, <2>6, <2>7 DEF Next, vars
<1>4. \A x \in dispatches' :
        /\ x.attempt < x.claim /\ x.claim <= jobs'[x.job].attempt
        /\ x.pc = "failInstance" => maxRetries <= x.attempt
  <2> DEFINE Goal == \A x \in dispatches' :
        /\ x.attempt < x.claim /\ x.claim <= jobs'[x.job].attempt
        /\ x.pc = "failInstance" => maxRetries <= x.attempt
  <2>1. ASSUME dispatches' \subseteq dispatches PROVE Goal
    BY <1>1, <1>2, <2>1 DEF AttemptsInv
  <2>2. ASSUME NEW p \in Procs, NEW r \in batch[p], claimJob(p, r) PROVE Goal
    <3>1. PICK new : /\ new.job = r.job /\ new.claim = jobs[r.job].attempt + 1
                     /\ new.attempt = r.attempt /\ new.pc = "acquire"
                     /\ dispatches' = dispatches \cup {new}
      BY <2>2 DEF claimJob
    <3>2. jobs'[r.job].attempt = jobs[r.job].attempt + 1
      BY <1>2, <2>2, ClaimRowEffect DEF claimJob, TypeInv
    <3> QED BY <1>1, <1>2, <3>1, <3>2 DEF AttemptsInv
  <2>3. ASSUME NEW d \in dispatches, DispatchStep(d) \/ DispatchFault(d) PROVE Goal
    <3>1. CASE releaseSem(d)
      BY <2>1, <3>1 DEF releaseSem
    <3>2. CASE \E pc \in Labels \ {"failInstance"} : Goto(d, pc)
      BY <1>1, <1>2, <3>2, GotoAttempts
    <3>3. CASE Goto(d, "failInstance") /\ ~ Retries(d)
      BY <1>1, <1>2, <3>3, LimitsAssumption, GotoAttempts DEF Labels, Retries
    <3> QED BY <2>3, <3>1, <3>2, <3>3 DEF DispatchStep, DispatchFault, acquireSem,
        ExecuteError, WardenAccepts, AsyncAnswer, AsyncAnswerLost, PurgeAnswer,
        markRunning, markCompleted, markFailedRetry, markFailedTerminal,
        failInstance, WriteError, Labels
  <2>4. ASSUME NEW p \in Procs, Restart(p) PROVE dispatches' \subseteq dispatches
    BY <2>4 DEF Restart
  <2>5. ASSUME NEW j \in Jobs, BackoffElapses(j) \/ ReportJobResult(j)
        PROVE  UNCHANGED dispatches
    BY <2>5 DEF BackoffElapses, ReportJobResult
  <2>6. ASSUME NEW p \in Procs, PollStep(p) \/ PollFault(p) PROVE Goal
    BY <2>1, <2>2, <2>6 DEF PollStep, PollFault, poll, ClaimLost, ClaimError
  <2> HIDE DEF Goal
  <2>7. Goal
    BY <2>1, <2>3, <2>4, <2>5, <2>6 DEF Next, vars
  <2> QED BY <2>7 DEF Goal
<1>5. NoPrematureFailure'
  <2>1. ASSUME NEW i \in failedInstances
        PROVE  \E j \in Jobs : InstanceOf[j] = i /\ jobs'[j].attempt > maxRetries
    <3>1. PICK j \in Jobs : InstanceOf[j] = i /\ jobs[j].attempt > maxRetries
      BY DEF AttemptsInv, NoPrematureFailure
    <3> QED BY <1>1, <1>2, <3>1, LimitsAssumption
  <2>2. ASSUME NEW d \in dispatches, failInstance(d)
        PROVE  InstanceOf[d.job] = InstanceOf[d.job]
               /\ jobs'[d.job].attempt > maxRetries
    BY <1>1, <1>2, <2>2, LimitsAssumption DEF AttemptsInv, failInstance
  <2>3. \A i \in failedInstances' \ failedInstances :
          \E d \in dispatches : failInstance(d) /\ i = InstanceOf[d.job]
    <3>1. CASE UNCHANGED failedInstances
      BY <3>1
    <3>2. CASE \E d \in dispatches : failInstance(d)
      BY <3>2 DEF failInstance
    <3> QED BY <3>1, <3>2 DEF Next, vars, PollStep, PollFault, poll, claimJob,
        ClaimLost, ClaimError, Restart, DispatchStep, DispatchFault, acquireSem,
        ExecuteError, WardenAccepts, AsyncAnswer, AsyncAnswerLost, PurgeAnswer,
        markRunning, markCompleted, markFailedRetry, markFailedTerminal,
        WriteError, releaseSem, BackoffElapses, ReportJobResult
  <2> QED BY <1>2, <2>1, <2>2, <2>3 DEF NoPrematureFailure
<1> QED BY <1>3, <1>4, <1>5 DEF AttemptsInv

(* Although the decision to give up reads a number scanned before the claim, and
   polls of several processes go stale, an instance is never failed early.   *)
THEOREM NoPrematureFailureHolds == Spec => []NoPrematureFailure
<1>1. Init => TypeInv /\ AttemptsInv
  BY InitType DEF Init, AttemptsInv, NoPrematureFailure
<1>2. TypeInv /\ AttemptsInv /\ [Next]_vars => (TypeInv /\ AttemptsInv)'
  BY NextType, NextAttempts
<1>3. AttemptsInv => NoPrematureFailure
  BY DEF AttemptsInv
<1> QED BY <1>1, <1>2, <1>3, PTL DEF Spec
-----------------------------------------------------------------------------
(* Warden is handed a job again only if something got lost.                  *)

(* A job that may still be handed to Warden, by a goroutine or after a poll,
   has been accepted at most once per fault.                                 *)
Unsettled(j) ==
  \/ jobs[j].status = "pending"
  \/ \E d \in dispatches : d.job = j /\ d.pc \in {"acquire", "execute", "markFailed"}

PaidInv ==
  \A j \in Jobs : /\ warden[j].accepted <= 1 + faults
                  /\ Unsettled(j) => warden[j].accepted <= faults

(* A step that accepts nothing keeps PaidInv, if it unsettles no job or is a
   fault.                                                                    *)
LEMMA KeepsPaid ==
  ASSUME TypeInv, PaidInv, UNCHANGED warden,
         \/ UNCHANGED faults /\ \A j \in Jobs : Unsettled(j)' => Unsettled(j)
         \/ Fault
  PROVE  PaidInv'
<1>1. faults \in Nat /\ \A j \in Jobs : warden[j].accepted \in Nat
  BY LimitsAssumption DEF TypeInv
<1>2. CASE Fault
  BY <1>1, <1>2 DEF Fault, PaidInv
<1>3. CASE UNCHANGED faults /\ \A j \in Jobs : Unsettled(j)' => Unsettled(j)
  BY <1>1, <1>3 DEF PaidInv
<1> QED BY <1>2, <1>3

(* A move settles or keeps the other jobs.                                   *)
LEMMA GotoUnsettles ==
  ASSUME TypeInv, NEW d \in dispatches, NEW pc \in Labels, Goto(d, pc),
         NEW j \in Jobs, Unsettled(j)',
         jobs'[j].status = "pending" => jobs[j].status = "pending"
  PROVE  Unsettled(j) \/ (j = d.job /\ pc \in {"acquire", "execute", "markFailed"})
<1>1. PICK new \in Dispatch : /\ new.job = d.job /\ new.pc = pc
                             /\ dispatches' = (dispatches \ {d}) \cup {new}
  BY GotoEffect DEF TypeInv
<1> QED BY <1>1 DEF Unsettled

LEMMA NextPaid ==
  TypeInv /\ SingleDispatcher /\ PaidInv /\ [Next]_vars => PaidInv'
<1> SUFFICES ASSUME TypeInv, SingleDispatcher, PaidInv, [Next]_vars PROVE PaidInv'
  OBVIOUS
<1>1. /\ \A d \in dispatches : d.job \in Jobs
      /\ \A p \in Procs : \A r \in batch[p] : r.job \in Jobs
  BY DEF TypeInv, Dispatch, BatchRow
<1>2. ASSUME NEW p \in Procs, PollStep(p) \/ PollFault(p) \/ Restart(p) PROVE PaidInv'
  <2>1. ASSUME NEW r \in batch[p], claimJob(p, r) PROVE PaidInv'
    <3>1. Unsettled(r.job)
      BY <2>1 DEF claimJob, Claimable, Unsettled
    <3>2. \A k \in Jobs : jobs'[k].status = "pending" => jobs[k].status = "pending"
      BY <1>1, <2>1, ClaimRowEffect DEF claimJob, TypeInv
    <3>3. PICK new : new.job = r.job /\ dispatches' = dispatches \cup {new}
      BY <2>1 DEF claimJob
    <3>4. \A k \in Jobs : Unsettled(k)' => Unsettled(k)
      BY <3>1, <3>2, <3>3 DEF Unsettled
    <3> QED BY <2>1, <3>4, KeepsPaid DEF claimJob
  <2>2. CASE poll(p) \/ \E r \in batch[p] : ClaimLost(p, r)
    <3>1. UNCHANGED <<jobs, dispatches, warden, faults>>
      BY <2>2 DEF poll, ClaimLost
    <3> QED BY <3>1, KeepsPaid DEF Unsettled
  <2>3. CASE Restart(p) \/ \E r \in batch[p] : ClaimError(p, r)
    BY <2>3, KeepsPaid DEF Restart, ClaimError
  <2> QED BY <1>2, <2>1, <2>2, <2>3 DEF PollStep, PollFault
<1>3. ASSUME NEW d \in dispatches, DispatchStep(d) \/ DispatchFault(d) PROVE PaidInv'
  <2>1. CASE WardenAccepts(d)
    <3>1. Unsettled(d.job) /\ Live(d)
      BY <2>1 DEF WardenAccepts, Unsettled, Live
    <3>2. ~ Unsettled(d.job)'
      <4>1. PICK new \in Dispatch : /\ new.job = d.job /\ new.pc = "accepted"
                                   /\ dispatches' = (dispatches \ {d}) \cup {new}
        BY <2>1, GotoEffect DEF WardenAccepts, TypeInv, Labels
      <4>2. UNCHANGED jobs
        BY <2>1 DEF WardenAccepts
      <4> QED BY <3>1, <4>1, <4>2 DEF Unsettled, SingleDispatcher, Live
    <3>3. \A k \in Jobs \ {d.job} : Unsettled(k)' => Unsettled(k)
      BY <2>1, GotoUnsettles DEF WardenAccepts, Labels
    <3>4. /\ UNCHANGED faults /\ faults \in Nat
          /\ \A k \in Jobs : warden[k].accepted \in Nat
          /\ warden'[d.job].accepted = warden[d.job].accepted + 1
          /\ \A k \in Jobs \ {d.job} : warden'[k] = warden[k]
      BY <1>1, <2>1, LimitsAssumption DEF WardenAccepts, TypeInv
    <3> QED BY <3>1, <3>2, <3>3, <3>4 DEF PaidInv
  <2>2. CASE acquireSem(d) \/ ExecuteError(d)
    <3>1. Unsettled(d.job)
      BY <2>2 DEF acquireSem, ExecuteError, Unsettled
    <3>2. \A k \in Jobs : Unsettled(k)' => Unsettled(k)
      BY <2>2, <3>1, GotoUnsettles DEF acquireSem, ExecuteError, Labels
    <3> QED BY <2>2, <3>2, KeepsPaid DEF acquireSem, ExecuteError
  <2>3. CASE AsyncAnswer(d) \/ PurgeAnswer(d) \/ failInstance(d)
    <3>1. \A k \in Jobs : Unsettled(k)' => Unsettled(k)
      BY <2>3, GotoUnsettles DEF AsyncAnswer, PurgeAnswer, failInstance, Labels
    <3> QED BY <2>3, <3>1, KeepsPaid DEF AsyncAnswer, PurgeAnswer, failInstance
  <2>4. CASE markRunning(d) \/ markCompleted(d) \/ markFailedTerminal(d)
    <3>1. \A k \in Jobs : jobs'[k].status = "pending" => jobs[k].status = "pending"
      BY <1>1, <2>4, SetStatusEffect
      DEF markRunning, markCompleted, markFailedTerminal, TypeInv, Statuses
    <3>2. /\ \E pc \in {"release", "failInstance"} : Goto(d, pc)
          /\ UNCHANGED <<warden, faults>>
      BY <2>4 DEF markRunning, markCompleted, markFailedTerminal
    <3>3. \A k \in Jobs : Unsettled(k)' => Unsettled(k)
      BY <3>1, <3>2, GotoUnsettles DEF Labels
    <3> QED BY <3>2, <3>3, KeepsPaid
  <2>5. CASE markFailedRetry(d)
    <3>1. Unsettled(d.job)
      BY <2>5 DEF markFailedRetry, Unsettled
    <3>2. \A k \in Jobs \ {d.job} : jobs'[k] = jobs[k]
      BY <1>1, <2>5, RetryEffect DEF TypeInv
    <3>3. Goto(d, "release") /\ UNCHANGED <<warden, faults>>
      BY <2>5 DEF markFailedRetry
    <3>4. \A k \in Jobs : Unsettled(k)' => Unsettled(k)
      BY <3>1, <3>2, <3>3, GotoUnsettles DEF Labels
    <3> QED BY <3>3, <3>4, KeepsPaid
  <2>6. CASE releaseSem(d)
    <3>1. \A k \in Jobs : Unsettled(k)' => Unsettled(k)
      BY <2>6 DEF releaseSem, Unsettled
    <3> QED BY <2>6, <3>1, KeepsPaid DEF releaseSem
  <2>7. CASE AsyncAnswerLost(d) \/ WriteError(d)
    BY <2>7, KeepsPaid DEF AsyncAnswerLost, WriteError
  <2> QED BY <1>3, <2>1, <2>2, <2>3, <2>4, <2>5, <2>6, <2>7
      DEF DispatchStep, DispatchFault
<1>4. ASSUME NEW j \in Jobs, BackoffElapses(j) PROVE PaidInv'
  <2>1. \A k \in Jobs : jobs'[k].status = jobs[k].status
    BY <1>4 DEF BackoffElapses, TypeInv, Row
  <2>2. \A k \in Jobs : Unsettled(k)' => Unsettled(k)
    BY <1>4, <2>1 DEF BackoffElapses, Unsettled
  <2> QED BY <1>4, <2>2, KeepsPaid DEF BackoffElapses
<1>5. ASSUME NEW j \in Jobs, ReportJobResult(j) PROVE PaidInv'
  <2>1. \A k \in Jobs : jobs'[k].status = "pending" => jobs[k].status = "pending"
    BY <1>5, SetStatusEffect DEF ReportJobResult, TypeInv, Statuses
  <2>2. \A k \in Jobs : Unsettled(k)' => Unsettled(k)
    BY <1>5, <2>1 DEF ReportJobResult, Unsettled
  <2>3. \A k \in Jobs : warden'[k].accepted = warden[k].accepted
    BY <1>5 DEF ReportJobResult, TypeInv
  <2> QED BY <1>5, <2>2, <2>3 DEF ReportJobResult, PaidInv
<1>6. CASE UNCHANGED vars
  BY <1>6, KeepsPaid DEF vars, Unsettled
<1> QED BY <1>2, <1>3, <1>4, <1>5, <1>6 DEF Next

(* Every second execution of a job by Warden is paid for by a lost answer, a
   failed statement or a crash: the retries alone never cause one.           *)
THEOREM ExecutionsPaidByFaultsHolds == Spec => []ExecutionsPaidByFaults
<1>1. Init => TypeInv /\ SingleDispatcher /\ PaidInv
  BY InitType DEF Init, SingleDispatcher, PaidInv, Unsettled
<1>2. TypeInv /\ SingleDispatcher /\ PaidInv /\ [Next]_vars
        => (TypeInv /\ SingleDispatcher /\ PaidInv)'
  BY NextType, NextSingle, NextPaid
<1>3. PaidInv => ExecutionsPaidByFaults
  BY DEF PaidInv, ExecutionsPaidByFaults
<1> QED BY <1>1, <1>2, <1>3, PTL DEF Spec
-----------------------------------------------------------------------------
(* No claimed job is dropped.                                                *)

(* A move keeps ClaimedHasDispatcher if the goroutine goes on, or leaves its row
   in another state.                                                         *)
LEMMA GotoClaimed ==
  ASSUME TypeInv, ClaimedHasDispatcher, UNCHANGED faults,
         NEW d \in dispatches, NEW pc \in Labels, Goto(d, pc),
         \A j \in Jobs \ {d.job} : jobs'[j].status = "claimed" => jobs[j].status = "claimed",
         \/ pc \notin {"release", "failInstance"} /\ Live(d) /\ UNCHANGED jobs
         \/ ~ Live(d) /\ UNCHANGED jobs
         \/ jobs'[d.job].status # "claimed"
  PROVE  ClaimedHasDispatcher'
<1>1. PICK new \in Dispatch : /\ new.job = d.job /\ new.pc = pc
                             /\ dispatches' = (dispatches \ {d}) \cup {new}
  BY GotoEffect DEF TypeInv
<1>2. ASSUME NEW j \in Jobs, Held(j), ~ Held(j)'
      PROVE  j = d.job /\ Live(d) /\ pc \in {"release", "failInstance"}
  BY <1>1, <1>2 DEF Held, Live
<1> QED BY <1>2 DEF ClaimedHasDispatcher

LEMMA NextClaimed ==
  TypeInv /\ ClaimedHasDispatcher /\ [Next]_vars => ClaimedHasDispatcher'
<1> SUFFICES ASSUME TypeInv, ClaimedHasDispatcher, [Next]_vars
             PROVE  ClaimedHasDispatcher'
  OBVIOUS
<1>1. \A d \in dispatches : d.job \in Jobs
  BY DEF TypeInv, Dispatch
<1>2. Fault => ClaimedHasDispatcher'
  BY LimitsAssumption DEF Fault, ClaimedHasDispatcher, TypeInv
<1>3. ASSUME NEW p \in Procs, NEW r \in batch[p], claimJob(p, r)
      PROVE  ClaimedHasDispatcher'
  <2>1. r.job \in Jobs
    BY DEF TypeInv, BatchRow
  <2>2. PICK new : /\ new.job = r.job /\ new.pc = "acquire"
                   /\ dispatches' = dispatches \cup {new}
    BY <1>3 DEF claimJob
  <2>3. \A j \in Jobs : Held(j) \/ j = r.job => Held(j)'
    BY <2>2 DEF Held, Live
  <2>4. UNCHANGED faults /\ \A j \in Jobs \ {r.job} : jobs'[j] = jobs[j]
    BY <1>3, <2>1, ClaimRowEffect DEF claimJob, TypeInv
  <2> QED BY <2>3, <2>4 DEF ClaimedHasDispatcher
<1>4. ASSUME UNCHANGED <<jobs, dispatches, faults>> PROVE ClaimedHasDispatcher'
  BY <1>4 DEF ClaimedHasDispatcher, Held, Live
<1>5. ASSUME NEW d \in dispatches, DispatchStep(d) \/ DispatchFault(d)
      PROVE  ClaimedHasDispatcher'
  <2>1. CASE \/ acquireSem(d) \/ ExecuteError(d) \/ WardenAccepts(d)
             \/ AsyncAnswer(d) \/ PurgeAnswer(d)
    <3>1. /\ UNCHANGED <<jobs, faults>> /\ Live(d)
          /\ \E pc \in Labels \ {"release", "failInstance"} : Goto(d, pc)
      BY <2>1 DEF acquireSem, ExecuteError, WardenAccepts, AsyncAnswer, PurgeAnswer,
                  Live, Labels
    <3> QED BY <3>1, GotoClaimed
  <2>2. CASE markRunning(d) \/ markCompleted(d) \/ markFailedTerminal(d)
    <3>1. PICK s \in {"running", "completed", "failed"} : SetStatus(d.job, s)
      BY <2>2 DEF markRunning, markCompleted, markFailedTerminal
    <3>2. /\ jobs'[d.job].status # "claimed"
          /\ \A k \in Jobs \ {d.job} : jobs'[k] = jobs[k]
      BY <1>1, <3>1, SetStatusEffect DEF TypeInv, Statuses
    <3>3. /\ UNCHANGED faults
          /\ \E pc \in Labels : Goto(d, pc)
      BY <2>2 DEF markRunning, markCompleted, markFailedTerminal, Labels
    <3> QED BY <3>2, <3>3, GotoClaimed
  <2>3. CASE markFailedRetry(d)
    <3>1. /\ jobs'[d.job].status # "claimed"
          /\ \A k \in Jobs \ {d.job} : jobs'[k] = jobs[k]
      BY <1>1, <2>3, RetryEffect DEF TypeInv
    <3>2. UNCHANGED faults /\ Goto(d, "release")
      BY <2>3 DEF markFailedRetry
    <3> QED BY <3>1, <3>2, GotoClaimed DEF Labels
  <2>4. CASE failInstance(d)
    <3>1. UNCHANGED <<jobs, faults>> /\ Goto(d, "release") /\ ~ Live(d)
      BY <2>4 DEF failInstance, Live
    <3> QED BY <3>1, GotoClaimed DEF Labels
  <2>5. CASE releaseSem(d)
    BY <2>5 DEF releaseSem, ClaimedHasDispatcher, Held, Live
  <2> QED BY <1>2, <1>5, <2>1, <2>2, <2>3, <2>4, <2>5
      DEF DispatchStep, DispatchFault, AsyncAnswerLost, WriteError
<1>6. ASSUME NEW j \in Jobs, BackoffElapses(j) \/ ReportJobResult(j)
      PROVE  ClaimedHasDispatcher'
  <2>1. CASE BackoffElapses(j)
    <3>1. \A k \in Jobs : jobs'[k].status = jobs[k].status
      BY <2>1 DEF BackoffElapses, TypeInv, Row
    <3> QED BY <2>1, <3>1 DEF BackoffElapses, ClaimedHasDispatcher, Held, Live
  <2>2. CASE ReportJobResult(j)
    <3>1. \A k \in Jobs : jobs'[k].status = "claimed" => jobs[k].status = "claimed"
      BY <2>2, SetStatusEffect DEF ReportJobResult, TypeInv, Statuses
    <3> QED BY <2>2, <3>1 DEF ReportJobResult, ClaimedHasDispatcher, Held, Live
  <2> QED BY <1>6, <2>1, <2>2
<1> QED BY <1>2, <1>3, <1>4, <1>5, <1>6
  DEF Next, PollStep, PollFault, poll, ClaimLost, ClaimError, Restart, vars

(* While nothing crashes or fails, every claimed row has a goroutine.        *)
THEOREM ClaimedHasDispatcherHolds == Spec => []ClaimedHasDispatcher
<1>1. Init => TypeInv /\ ClaimedHasDispatcher
  BY InitType DEF Init, ClaimedHasDispatcher
<1>2. TypeInv /\ ClaimedHasDispatcher /\ [Next]_vars
        => (TypeInv /\ ClaimedHasDispatcher)'
  BY NextType, NextClaimed
<1> QED BY <1>1, <1>2, PTL DEF Spec
=============================================================================
