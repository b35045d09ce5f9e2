---------------------------- MODULE Provisioning ----------------------------
(***************************************************************************)
(* The provisioning worker (workers/provisioning/worker.go): processes     *)
(* that share the table provisioning_jobs, poll it, claim rows one by one  *)
(* and start a goroutine per claimed row.  The goroutine takes a slot of a *)
(* per-server semaphore of its process, calls the Warden agent of the      *)
(* server and writes the outcome back, in as many steps as the code makes  *)
(* separate statements and calls.                                          *)
(*                                                                         *)
(* Two things are outside the code and modelled from its use: the Warden   *)
(* agent, which accepts a job and works on it on its own, and the API's    *)
(* ReportJobResult, which writes the terminal status when Warden is done.  *)
(***************************************************************************)
EXTENDS Naturals, FiniteSets

CONSTANTS
  Procs,                   \* worker processes on the same database
  Jobs,                    \* rows of provisioning_jobs
  Servers, Instances,
  ServerOf, InstanceOf, JobType,   \* the columns of a row that never change
  maxRetries,
  maxConcurrentPerServer,
  pollLimit,               \* the LIMIT of the poll's query
  MaxFaults                \* bound on crashes, failed statements, lost answers

asyncTypes == {"provision_wordpress", "provision_php", "provision_nodejs",
               "deprovision_site"}
syncTypes  == {"purge_cache"}
JobTypes   == asyncTypes \cup syncTypes \cup {"unknown"}

ASSUME TablesAssumption ==
  /\ IsFiniteSet(Procs) /\ Procs # {}
  /\ IsFiniteSet(Jobs)
  /\ ServerOf \in [Jobs -> Servers]
  /\ InstanceOf \in [Jobs -> Instances]
  /\ JobType \in [Jobs -> JobTypes]

ASSUME LimitsAssumption ==
  /\ maxRetries \in Nat
  /\ maxConcurrentPerServer \in Nat \ {0}
  /\ pollLimit \in Nat \ {0}
  /\ MaxFaults \in Nat

VARIABLES
  jobs,        \* the rows: status, attempt, and whether retry_after has passed
  failedInstances,  \* instances whose status was set to 'failed'
  batch,       \* per process, the rows its poll has read and not yet handled
  dispatches,  \* the goroutines of all processes
  slots,       \* per process and server, the length of the semaphore channel
  warden,      \* per job, the calls Warden accepted and the reports it sent
  faults       \* faults so far

vars == <<jobs, failedInstances, batch, dispatches, slots, warden, faults>>

Statuses == {"pending", "claimed", "running", "completed", "failed"}

\* Where a goroutine is: before which call or statement of dispatch it stands.
Labels == {"acquire", "execute", "accepted", "markRunning", "markFailed",
           "markCompleted", "failInstance", "release"}

Row      == [status : Statuses, attempt : Nat, due : BOOLEAN]
BatchRow == [job : Jobs, attempt : Nat]

\* "attempt" is the value poll scanned, before the claim incremented it; "claim"
\* is the value the claim wrote, which tells the dispatches of one job apart.
Dispatch == [job : Jobs, claim : Nat, proc : Procs, attempt : Nat, pc : Labels]

\* A goroutine that may still write the status of its row.
Live(d) == d.pc \notin {"failInstance", "release"}

Held(j) == \E d \in dispatches : d.job = j /\ Live(d)

\* A goroutine that holds a slot of its server's semaphore.
Holding(d) == d.pc # "acquire"

\* The answer of a call or statement does not arrive, or a process stops.
Fault == faults < MaxFaults /\ faults' = faults + 1

Goto(d, pc) == dispatches' = (dispatches \ {d}) \cup {[d EXCEPT !.pc = pc]}

SetStatus(j, status) == jobs' = [jobs EXCEPT ![j].status = status]

Init ==
  /\ jobs = [j \in Jobs |-> [status |-> "pending", attempt |-> 0, due |-> TRUE]]
  /\ failedInstances = {}
  /\ batch = [p \in Procs |-> {}]
  /\ dispatches = {}
  /\ slots = [p \in Procs |-> [s \in Servers |-> 0]]
  /\ warden = [j \in Jobs |-> [accepted |-> 0, reported |-> 0]]
  /\ faults = 0
-----------------------------------------------------------------------------
(* poll and claimJob: one goroutine per process.                           *)

Eligible == {j \in Jobs : jobs[j].status = "pending" /\ jobs[j].due}

\* The query: the pending rows that are due, at most pollLimit of them.
poll(p) ==
  /\ batch[p] = {}
  /\ \E S \in SUBSET Eligible :
       /\ S # {}
       /\ \/ Cardinality(S) = pollLimit
          \/ S = Eligible /\ Cardinality(S) < pollLimit
       /\ batch' = [batch EXCEPT
            ![p] = {[job |-> j, attempt |-> jobs[j].attempt] : j \in S}]
  /\ UNCHANGED <<jobs, failedInstances, dispatches, slots, warden, faults>>

\* Faulty variant: the UPDATE without its condition on the status.
ClaimableAlways(j) == TRUE

\* The condition of claimJob's UPDATE.
Claimable(j) == jobs[j].status = "pending"

ClaimRow(j) == jobs' = [jobs EXCEPT ![j].status = "claimed", ![j].attempt = @ + 1]

NextRow(p, r) == r \in batch[p] /\ batch' = [batch EXCEPT ![p] = @ \ {r}]

\* This process wins the row and starts the goroutine.
claimJob(p, r) ==
  /\ NextRow(p, r)
  /\ Claimable(r.job)
  /\ ClaimRow(r.job)
  /\ dispatches' = dispatches \cup
       {[job |-> r.job, claim |-> jobs[r.job].attempt + 1, proc |-> p,
         attempt |-> r.attempt, pc |-> "acquire"]}
  /\ UNCHANGED <<failedInstances, slots, warden, faults>>

\* The row is no longer pending: 0 rows affected.
ClaimLost(p, r) ==
  /\ NextRow(p, r)
  /\ ~ Claimable(r.job)
  /\ UNCHANGED <<jobs, failedInstances, dispatches, slots, warden, faults>>

\* The scan or the UPDATE returns an error; the UPDATE may have been applied.
ClaimError(p, r) ==
  /\ NextRow(p, r)
  /\ Fault
  /\ \/ UNCHANGED jobs
     \/ Claimable(r.job) /\ ClaimRow(r.job)
  /\ UNCHANGED <<failedInstances, dispatches, slots, warden>>
-----------------------------------------------------------------------------
(* dispatch: a goroutine d.                                                *)

\* Faulty variants: one slot too many; a slot that is used and not counted; a
\* goroutine that gives up when there is no slot.
acquireSemOneMore(d) ==
  /\ d.pc = "acquire"
  /\ slots[d.proc][ServerOf[d.job]] <= maxConcurrentPerServer
  /\ slots' = [slots EXCEPT ![d.proc][ServerOf[d.job]] = @ + 1]
  /\ Goto(d, "execute")
  /\ UNCHANGED <<jobs, failedInstances, batch, warden, faults>>

acquireSemUncounted(d) ==
  /\ d.pc = "acquire"
  /\ slots[d.proc][ServerOf[d.job]] < maxConcurrentPerServer
  /\ Goto(d, "execute")
  /\ UNCHANGED <<jobs, failedInstances, batch, slots, warden, faults>>

acquireSemOrGiveUp(d) ==
  /\ d.pc = "acquire"
  /\ IF slots[d.proc][ServerOf[d.job]] < maxConcurrentPerServer
     THEN /\ slots' = [slots EXCEPT ![d.proc][ServerOf[d.job]] = @ + 1]
          /\ Goto(d, "execute")
     ELSE /\ dispatches' = dispatches \ {d}
          /\ UNCHANGED slots
  /\ UNCHANGED <<jobs, failedInstances, batch, warden, faults>>

acquireSem(d) ==
  /\ d.pc = "acquire"
  /\ slots[d.proc][ServerOf[d.job]] < maxConcurrentPerServer
  /\ slots' = [slots EXCEPT ![d.proc][ServerOf[d.job]] = @ + 1]
  /\ Goto(d, "execute")
  /\ UNCHANGED <<jobs, failedInstances, batch, warden, faults>>

\* execute fails and Warden works on nothing: a look-up fails, the payload does
\* not parse, the type is unknown, the call is refused or answered FAILED.
ExecuteError(d) ==
  /\ d.pc = "execute"
  /\ Goto(d, "markFailed")
  /\ UNCHANGED <<jobs, failedInstances, batch, slots, warden, faults>>

\* Warden accepts ProvisionSite or DeprovisionSite; its answer is on its way.
WardenAccepts(d) ==
  /\ d.pc = "execute"
  /\ JobType[d.job] \in asyncTypes
  /\ warden' = [warden EXCEPT ![d.job].accepted = @ + 1]
  /\ Goto(d, "accepted")
  /\ UNCHANGED <<jobs, failedInstances, batch, slots, faults>>

\* Faulty variant: dispatch takes ErrAsyncRunning for a failure.
AsyncAnswerIsError(d) ==
  /\ d.pc = "accepted"
  /\ Goto(d, "markFailed")
  /\ UNCHANGED <<jobs, failedInstances, batch, slots, warden, faults>>

\* The answer arrives: execute returns ErrAsyncRunning.
AsyncAnswer(d) ==
  /\ d.pc = "accepted"
  /\ Goto(d, "markRunning")
  /\ UNCHANGED <<jobs, failedInstances, batch, slots, warden, faults>>

\* The answer is lost or comes after jobTimeout: execute returns the error of
\* the call, although Warden has the job.
AsyncAnswerLost(d) ==
  /\ d.pc = "accepted"
  /\ Fault
  /\ Goto(d, "markFailed")
  /\ UNCHANGED <<jobs, failedInstances, batch, slots, warden>>

\* PurgeSiteCache is synchronous: success returns nil.
PurgeAnswer(d) ==
  /\ d.pc = "execute"
  /\ JobType[d.job] \in syncTypes
  /\ Goto(d, "markCompleted")
  /\ UNCHANGED <<jobs, failedInstances, batch, slots, warden, faults>>

\* The three statements that end a dispatch look at the row's id alone.
markRunning(d) ==
  /\ d.pc = "markRunning"
  /\ SetStatus(d.job, "running")
  /\ Goto(d, "release")
  /\ UNCHANGED <<failedInstances, batch, slots, warden, faults>>

markCompleted(d) ==
  /\ d.pc = "markCompleted"
  /\ SetStatus(d.job, "completed")
  /\ Goto(d, "release")
  /\ UNCHANGED <<failedInstances, batch, slots, warden, faults>>

\* Faulty variants: the attempt counted twice; the attempt not counted.
RetriesOneLess(d) == d.attempt + 1 < maxRetries
RetriesOneMore(d) == d.attempt <= maxRetries

\* The decision of markFailed is made on the scanned attempt.
Retries(d) == d.attempt < maxRetries

\* Back-off of attempt^2 minutes: none for the first attempt.
markFailedRetry(d) ==
  /\ d.pc = "markFailed"
  /\ Retries(d)
  /\ jobs' = [jobs EXCEPT ![d.job].status = "pending",
                          ![d.job].due = (d.attempt = 0)]
  /\ Goto(d, "release")
  /\ UNCHANGED <<failedInstances, batch, slots, warden, faults>>

markFailedTerminal(d) ==
  /\ d.pc = "markFailed"
  /\ ~ Retries(d)
  /\ SetStatus(d.job, "failed")
  /\ Goto(d, "failInstance")
  /\ UNCHANGED <<failedInstances, batch, slots, warden, faults>>

\* The second statement of a terminal failure.
failInstance(d) ==
  /\ d.pc = "failInstance"
  /\ failedInstances' = failedInstances \cup {InstanceOf[d.job]}
  /\ Goto(d, "release")
  /\ UNCHANGED <<jobs, batch, slots, warden, faults>>

\* A statement returns an error without being applied.  It is logged and the
\* function goes on; only a terminal failure has another statement to make.
WriteError(d) ==
  /\ d.pc \in {"markRunning", "markCompleted", "markFailed", "failInstance"}
  /\ Fault
  /\ IF d.pc = "markFailed" /\ ~ Retries(d)
     THEN Goto(d, "failInstance")
     ELSE Goto(d, "release")
  /\ UNCHANGED <<jobs, failedInstances, batch, slots, warden>>

\* Faulty variant: the goroutine ends and keeps its slot.
releaseSemForgotten(d) ==
  /\ d.pc = "release"
  /\ dispatches' = dispatches \ {d}
  /\ UNCHANGED <<jobs, failedInstances, batch, slots, warden, faults>>

\* The deferred releaseSem; the goroutine ends.
releaseSem(d) ==
  /\ d.pc = "release"
  /\ slots' = [slots EXCEPT ![d.proc][ServerOf[d.job]] = @ - 1]
  /\ dispatches' = dispatches \ {d}
  /\ UNCHANGED <<jobs, failedInstances, batch, warden, faults>>
-----------------------------------------------------------------------------
(* Time, the other parties, and the end of a process.                      *)

\* retry_after passes.
BackoffElapses(j) ==
  /\ ~ jobs[j].due
  /\ jobs' = [jobs EXCEPT ![j].due = TRUE]
  /\ UNCHANGED <<failedInstances, batch, dispatches, slots, warden, faults>>

\* The API's ReportJobResult: Warden has finished one accepted call.
ReportJobResult(j) ==
  /\ warden[j].reported < warden[j].accepted
  /\ warden' = [warden EXCEPT ![j].reported = @ + 1]
  /\ \E status \in {"completed", "failed"} : SetStatus(j, status)
  /\ UNCHANGED <<failedInstances, batch, dispatches, slots, faults>>

\* A process crashes, or is told to stop: main returns without waiting, and
\* the cancelled context fails every later statement.  A new one takes over.
Restart(p) ==
  /\ Fault
  /\ batch' = [batch EXCEPT ![p] = {}]
  /\ dispatches' = {d \in dispatches : d.proc # p}
  /\ slots' = [slots EXCEPT ![p] = [s \in Servers |-> 0]]
  /\ UNCHANGED <<jobs, failedInstances, warden>>

\* The steps of one goroutine; DispatchStep: those of which one must come.
DispatchStep(d) ==
  \/ acquireSem(d) \/ ExecuteError(d) \/ WardenAccepts(d) \/ AsyncAnswer(d)
  \/ PurgeAnswer(d) \/ markRunning(d) \/ markCompleted(d)
  \/ markFailedRetry(d) \/ markFailedTerminal(d) \/ failInstance(d)
  \/ releaseSem(d)

DispatchFault(d) == AsyncAnswerLost(d) \/ WriteError(d)

PollStep(p) ==
  \/ poll(p)
  \/ \E r \in batch[p] : claimJob(p, r) \/ ClaimLost(p, r)

PollFault(p) == \E r \in batch[p] : ClaimError(p, r)

Next ==
  \/ \E p \in Procs : PollStep(p) \/ PollFault(p) \/ Restart(p)
  \/ \E d \in dispatches : DispatchStep(d) \/ DispatchFault(d)
  \/ \E j \in Jobs : BackoffElapses(j) \/ ReportJobResult(j)

Spec == Init /\ [][Next]_vars

\* Go schedules every goroutine, the ticker fires, calls end within jobTimeout,
\* and time passes.  Nothing is assumed of Warden or of the faults.
Fairness ==
  /\ \A p \in Procs : WF_vars(PollStep(p))
  /\ \A p \in Procs, j \in Jobs :
       WF_vars(\E d \in dispatches : d.proc = p /\ d.job = j /\ DispatchStep(d))
  /\ \A j \in Jobs : WF_vars(BackoffElapses(j))

FairSpec == Spec /\ Fairness
-----------------------------------------------------------------------------
(* Properties.                                                             *)

TypeOK ==
  /\ jobs \in [Jobs -> Row]
  /\ failedInstances \subseteq Instances
  /\ batch \in [Procs -> SUBSET BatchRow]
  /\ dispatches \subseteq Dispatch
  /\ slots \in [Procs -> [Servers -> Nat]]
  /\ warden \in [Jobs -> [accepted : Nat, reported : Nat]]
  /\ faults \in 0..MaxFaults

\* However many processes claim rows from stale polls, at most one goroutine of
\* all processes is working on a job, and meanwhile no poll can pick the job up.
SingleDispatcher ==
  \A d \in dispatches : Live(d) =>
    /\ jobs[d.job].status # "pending"
    /\ \A e \in dispatches : Live(e) /\ e.job = d.job => e = d

\* On every path through dispatch, cancelled ones included, the semaphore counts
\* the goroutines between acquireSem and releaseSem: no slot leaks and none is
\* given back twice.
SlotsMatchHolders ==
  \A p \in Procs, s \in Servers :
    /\ slots[p][s] <= maxConcurrentPerServer
    /\ slots[p][s] = Cardinality({d \in dispatches :
                        d.proc = p /\ ServerOf[d.job] = s /\ Holding(d)})

\* An instance is only marked failed once one of its jobs has been claimed
\* maxRetries + 1 times, although the retry decision reads an attempt number that
\* was scanned before the claim.
NoPrematureFailure ==
  \A i \in failedInstances :
    \E j \in Jobs : InstanceOf[j] = i /\ jobs[j].attempt > maxRetries

\* Warden is handed a job again only if an answer or a statement got lost: every
\* acceptance of a job after the first is paid for by a fault.
ExecutionsPaidByFaults ==
  \A j \in Jobs : warden[j].accepted <= 1 + faults

\* As long as nothing has crashed or failed, a claimed row has a goroutine that
\* will write its outcome: no path drops a claimed job.
ClaimedHasDispatcher ==
  faults = 0 =>
    \A j \in Jobs : jobs[j].status = "claimed" => Held(j)

\* The worker implements the abstract queue.  A job is dispatched while a live
\* goroutine holds it, queued while it is pending, and closed otherwise.  Polls
\* that were read before other processes' attempts cost up to one attempt per
\* process over maxRetries.
Phase(j) == IF Held(j) THEN "dispatched"
            ELSE IF jobs[j].status = "pending" THEN "queued" ELSE "closed"

Queue == INSTANCE ClaimQueue
           WITH Limit  <- maxRetries + Cardinality(Procs),
                phase  <- [j \in Jobs |-> Phase(j)],
                claims <- [j \in Jobs |-> jobs[j].attempt]

\* The worker's behaviours are behaviours of the abstract queue: one holder at a
\* time, a bounded number of claims, and no way back from closed.
ImplementsQueue == Queue!Spec

\* Retries come to an end and no goroutine waits for its semaphore for ever: from
\* some point on no job is pending and no goroutine is left.
Quiesces ==
  <>[](dispatches = {} /\ \A j \in Jobs : jobs[j].status # "pending")

\* markRunning transitions a claimed job to the 'running' state (worker.go:198):
\* no row becomes running from another state, a reported result least of all.
RunningFromClaimed ==
  [][\A j \in Jobs :
       jobs[j].status # "running" /\ jobs'[j].status = "running"
         => jobs[j].status = "claimed"]_vars
=============================================================================
