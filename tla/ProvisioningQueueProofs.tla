----------------------- MODULE ProvisioningQueueProofs -----------------------
(***************************************************************************)
(* The provisioning worker implements ClaimQueue: every step of it is a    *)
(* step of the queue or none, and the claims of a job stay within the      *)
(* limit of the queue.                                                     *)
(***************************************************************************)
EXTENDS ProvisioningProofs

Bound == maxRetries + Cardinality(Procs)

(* Processes that hold a row of j scanned when it still had retries left.    *)
Stale(j) == {p \in Procs : \E r \in batch[p] : r.job = j /\ r.attempt < maxRetries}

(* A job that may become pending again, or is.                               *)
Open(j) ==
  \/ jobs[j].status = "pending"
  \/ \E d \in dispatches : d.job = j /\ Live(d) /\ d.attempt < maxRetries

(* When a job's retries are used up it is kept alive by stale rows only.  Each
   process has at most one, uses it once, and gets no new one.               *)
BoundInv ==
  /\ \A p \in Procs : \A r, q \in batch[p] : r.job = q.job => r = q
  /\ \A j \in Jobs :
       /\ jobs[j].attempt <= Bound
       /\ maxRetries <= jobs[j].attempt /\ Open(j)
            => jobs[j].attempt + Cardinality(Stale(j)) + 1 <= Bound

LEMMA BoundType == Bound \in Nat /\ maxRetries < Bound
<1>1. Cardinality(Procs) \in Nat \ {0}
  BY TablesAssumption, FS_CardinalityType, FS_EmptySet
<1> QED BY <1>1, LimitsAssumption DEF Bound

LEMMA StaleFinite ==
  ASSUME NEW j
  PROVE  /\ IsFiniteSet(Stale(j)) /\ Cardinality(Stale(j)) \in Nat
         /\ \A p \in Procs \ Stale(j) :
              Cardinality(Stale(j)) + 1 <= Cardinality(Procs)
         /\ Cardinality(Procs) \in Nat \ {0}
<1>1. IsFiniteSet(Stale(j)) /\ Cardinality(Stale(j)) \in Nat
      /\ Cardinality(Stale(j)) <= Cardinality(Procs)
      /\ (Cardinality(Procs) = Cardinality(Stale(j)) => Procs = Stale(j))
  BY TablesAssumption, FS_Subset, FS_CardinalityType DEF Stale
<1>2. Cardinality(Procs) \in Nat \ {0}
  BY TablesAssumption, FS_CardinalityType, FS_EmptySet
<1> QED BY <1>1, <1>2

(* What a step that claims nothing must not do: open a closed job, or put a row
   with retries left into a batch once the retries are used up.              *)
LEMMA KeepsBound ==
  ASSUME TypeInv, TypeInv', BoundInv,
         \A p \in Procs : \A r, q \in batch'[p] : r.job = q.job => r = q,
         \A j \in Jobs : jobs'[j].attempt = jobs[j].attempt,
         \A j \in Jobs : Open(j)' => Open(j),
         \A j \in Jobs : maxRetries <= jobs[j].attempt => Stale(j)' \subseteq Stale(j)
  PROVE  BoundInv'
<1> SUFFICES ASSUME NEW j \in Jobs, maxRetries <= jobs[j].attempt, Open(j)
             PROVE  jobs[j].attempt + Cardinality(Stale(j)') + 1 <= Bound
  BY DEF BoundInv, Bound
<1>1. jobs[j].attempt \in Nat /\ Bound \in Nat
  BY BoundType DEF TypeInv, Row
<1>2. Cardinality(Stale(j)') <= Cardinality(Stale(j)) /\ Cardinality(Stale(j)') \in Nat
  BY StaleFinite, FS_Subset, FS_CardinalityType
<1>3. jobs[j].attempt + Cardinality(Stale(j)) + 1 <= Bound
  BY DEF BoundInv
<1> QED BY <1>1, <1>2, <1>3, StaleFinite

(* A claim, its answer lost or not.                                          *)
LEMMA ClaimBound ==
  ASSUME TypeInv, TypeInv', BoundInv, SingleDispatcher, NEW p \in Procs,
         NEW r \in batch[p], NextRow(p, r), Claimable(r.job), ClaimRow(r.job),
         \/ UNCHANGED dispatches
         \/ \E new : /\ new.job = r.job /\ new.attempt = r.attempt
                     /\ dispatches' = dispatches \cup {new}
  PROVE  BoundInv'
<1> DEFINE j == r.job
<1>1. j \in Jobs /\ r.attempt \in Nat
  BY DEF TypeInv, BatchRow
<1>2. /\ jobs'[j].status = "claimed" /\ jobs'[j].attempt = jobs[j].attempt + 1
      /\ \A k \in Jobs \ {j} : jobs'[k] = jobs[k]
  BY <1>1, ClaimRowEffect DEF TypeInv
<1>3. /\ \A q \in Procs : batch'[q] \subseteq batch[q]
      /\ batch'[p] = batch[p] \ {r}
  BY DEF NextRow, TypeInv
<1>4. \A k \in Jobs : Stale(k)' \subseteq Stale(k)
  BY <1>3 DEF Stale
<1>5. Open(j) /\ \A d \in dispatches : Live(d) => d.job # j
  BY DEF Claimable, Open, SingleDispatcher
<1>6. Open(j)' => r.attempt < maxRetries
  BY <1>2, <1>5 DEF Open, Live
<1>7. p \notin Stale(j)'
  BY <1>3 DEF BoundInv, Stale
<1>8. jobs[j].attempt \in Nat /\ Bound \in Nat
  BY <1>1, BoundType DEF TypeInv, Row
<1>9. /\ Cardinality(Stale(j)') \in Nat /\ Cardinality(Stale(j)) \in Nat
      /\ Cardinality(Stale(j)') <= Cardinality(Stale(j))
      /\ Cardinality(Stale(j)') + 1 <= Cardinality(Procs)
      /\ r.attempt < maxRetries => Cardinality(Stale(j)') + 1 <= Cardinality(Stale(j))
  <2>1. IsFiniteSet(Stale(j)) /\ Cardinality(Stale(j)) \in Nat
    BY StaleFinite
  <2>2. /\ IsFiniteSet(Stale(j)') /\ Cardinality(Stale(j)') \in Nat
        /\ Cardinality(Stale(j)') <= Cardinality(Stale(j))
        /\ (Cardinality(Stale(j)) = Cardinality(Stale(j)') => Stale(j) = Stale(j)')
    BY <1>1, <1>4, <2>1, FS_Subset, FS_CardinalityType
  <2>3. r.attempt < maxRetries => p \in Stale(j)
    BY DEF Stale
  <2>4. /\ Stale(j)' \in SUBSET Procs
        /\ Cardinality(Stale(j)') <= Cardinality(Procs)
        /\ Cardinality(Procs) # Cardinality(Stale(j)')
    <3>1. Stale(j)' \in SUBSET Procs
      BY DEF Stale
    <3> QED BY <1>7, <3>1, TablesAssumption, FS_Subset
  <2> QED BY <1>7, <2>1, <2>2, <2>3, <2>4, StaleFinite
<1>10. /\ jobs'[j].attempt <= Bound
       /\ maxRetries <= jobs'[j].attempt /\ Open(j)'
            => jobs'[j].attempt + Cardinality(Stale(j)') + 1 <= Bound
  <2>1. CASE maxRetries <= jobs[j].attempt
    <3>1. jobs[j].attempt + Cardinality(Stale(j)) + 1 <= Bound
      BY <1>1, <1>5, <2>1 DEF BoundInv
    <3> QED BY <1>2, <1>6, <1>8, <1>9, <3>1
  <2>2. CASE jobs[j].attempt + 1 <= maxRetries
    <3>1. jobs[j].attempt + 1 + Cardinality(Stale(j)') + 1 <= Bound
      BY <1>8, <1>9, <2>2, StaleFinite, LimitsAssumption DEF Bound
    <3> QED BY <1>2, <1>8, <1>9, <3>1
  <2> QED BY <1>8, <2>1, <2>2, LimitsAssumption
<1>11. ASSUME NEW k \in Jobs \ {j}
       PROVE  /\ jobs'[k].attempt <= Bound
              /\ maxRetries <= jobs'[k].attempt /\ Open(k)'
                   => jobs'[k].attempt + Cardinality(Stale(k)') + 1 <= Bound
  <2>1. Open(k)' => Open(k)
    BY <1>2 DEF Open, Live
  <2>2. /\ IsFiniteSet(Stale(k)') /\ Cardinality(Stale(k)') \in Nat
        /\ Cardinality(Stale(k)') <= Cardinality(Stale(k))
        /\ Cardinality(Stale(k)) \in Nat
    BY <1>4, StaleFinite, FS_Subset, FS_CardinalityType
  <2>3. /\ jobs[k].attempt <= Bound
        /\ maxRetries <= jobs[k].attempt /\ Open(k)
             => jobs[k].attempt + Cardinality(Stale(k)) + 1 <= Bound
    BY DEF BoundInv
  <2>4. jobs'[k] = jobs[k] /\ jobs[k].attempt \in Nat
    BY <1>2 DEF TypeInv, Row
  <2> QED BY <1>8, <2>1, <2>2, <2>3, <2>4
<1>12. \A q \in Procs : \A x, y \in batch'[q] : x.job = y.job => x = y
  BY <1>3 DEF BoundInv
<1> QED BY <1>10, <1>11, <1>12 DEF BoundInv, Bound

(* A step that leaves all rows and moves a goroutine.                        *)
LEMMA GotoOpen ==
  ASSUME TypeInv, NEW d \in dispatches, NEW pc \in Labels, Goto(d, pc),
         NEW j \in Jobs, Open(j)', Live(d) \/ pc = "release",
         jobs'[j].status = "pending" => Open(j)
  PROVE  Open(j)
<1>1. PICK new \in Dispatch :
        /\ new.job = d.job /\ new.attempt = d.attempt /\ new.pc = pc
        /\ dispatches' = (dispatches \ {d}) \cup {new}
  BY GotoEffect DEF TypeInv
<1> QED BY <1>1 DEF Open, Live

LEMMA NextBound ==
  TypeInv /\ SingleDispatcher /\ BoundInv /\ [Next]_vars => BoundInv'
<1> SUFFICES ASSUME TypeInv, SingleDispatcher, BoundInv, [Next]_vars PROVE BoundInv'
  OBVIOUS
<1>1. TypeInv'
  BY NextType
<1>2. /\ \A d \in dispatches : d.job \in Jobs
      /\ \A p \in Procs : \A r \in batch[p] : r.job \in Jobs
  BY DEF TypeInv, Dispatch, BatchRow
<1>3. ASSUME \A p \in Procs : batch'[p] \subseteq batch[p],
             \A j \in Jobs : jobs'[j].attempt = jobs[j].attempt,
             \A j \in Jobs : Open(j)' => Open(j)
      PROVE  BoundInv'
  <2>1. \A j \in Jobs : Stale(j)' \subseteq Stale(j)
    BY <1>3 DEF Stale
  <2>2. \A p \in Procs : \A r, q \in batch'[p] : r.job = q.job => r = q
    BY <1>3 DEF BoundInv
  <2> QED BY <1>1, <1>3, <2>1, <2>2, KeepsBound
<1>4. ASSUME NEW p \in Procs, poll(p) PROVE BoundInv'
  <2>1. PICK S \in SUBSET Eligible :
          batch' = [batch EXCEPT
            ![p] = {[job |-> j, attempt |-> jobs[j].attempt] : j \in S}]
    BY <1>4 DEF poll
  <2>2. /\ \A r \in batch'[p] : r.job \in Jobs /\ r.attempt = jobs[r.job].attempt
        /\ \A r, q \in batch'[p] : r.job = q.job => r = q
        /\ \A q \in Procs \ {p} : batch'[q] = batch[q]
    BY <2>1 DEF TypeInv, Eligible
  <2>3. UNCHANGED <<jobs, dispatches>>
    BY <1>4 DEF poll
  <2>4. ASSUME NEW j \in Jobs, maxRetries <= jobs[j].attempt
        PROVE  Stale(j)' \subseteq Stale(j)
    <3>1. jobs[j].attempt \in Nat
      BY DEF TypeInv, Row
    <3>2. \A r \in batch'[p] : r.job = j => ~ r.attempt < maxRetries
      BY <2>2, <2>4, <3>1, LimitsAssumption
    <3>3. p \notin Stale(j)'
      BY <3>2 DEF Stale
    <3> QED BY <2>2, <3>3 DEF Stale
  <2>5. \A q \in Procs : \A x, y \in batch'[q] : x.job = y.job => x = y
    BY <2>2 DEF BoundInv
  <2>6. \A j \in Jobs : Open(j)' => Open(j)
    BY <2>3 DEF Open, Live
  <2> QED BY <1>1, <2>3, <2>4, <2>5, <2>6, KeepsBound
<1>5. ASSUME NEW p \in Procs, NEW r \in batch[p],
             claimJob(p, r) \/ ClaimLost(p, r) \/ ClaimError(p, r)
      PROVE  BoundInv'
  <2>1. CASE claimJob(p, r)
    BY <1>1, <2>1, ClaimBound DEF claimJob
  <2>2. CASE ClaimError(p, r) /\ ClaimRow(r.job) /\ Claimable(r.job)
    BY <1>1, <2>2, ClaimBound DEF ClaimError
  <2>3. CASE NextRow(p, r) /\ UNCHANGED <<jobs, dispatches>>
    <3>1. \A q \in Procs : batch'[q] \subseteq batch[q]
      BY <2>3 DEF NextRow, TypeInv
    <3> QED BY <1>3, <2>3, <3>1 DEF Open, Live
  <2> QED BY <1>5, <2>1, <2>2, <2>3 DEF ClaimLost, ClaimError
<1>6. ASSUME NEW p \in Procs, Restart(p) PROVE BoundInv'
  <2>1. \A q \in Procs : batch'[q] \subseteq batch[q]
    BY <1>6 DEF Restart, TypeInv
  <2> QED BY <1>3, <1>6, <2>1 DEF Restart, Open, Live
<1>7. ASSUME NEW d \in dispatches, DispatchStep(d) \/ DispatchFault(d) PROVE BoundInv'
  <2>1. CASE /\ UNCHANGED <<jobs, batch>>
             /\ \E pc \in Labels : Goto(d, pc) /\ (Live(d) \/ pc = "release")
    <3>1. \A j \in Jobs : Open(j)' => Open(j)
      BY <2>1, GotoOpen DEF Open
    <3> QED BY <1>3, <2>1, <3>1
  <2>2. CASE markRunning(d) \/ markCompleted(d) \/ markFailedTerminal(d)
    <3>1. PICK s \in {"running", "completed", "failed"} : SetStatus(d.job, s)
      BY <2>2 DEF markRunning, markCompleted, markFailedTerminal
    <3>2. \A k \in Jobs : /\ jobs'[k].attempt = jobs[k].attempt
                          /\ jobs'[k].status = "pending" => jobs[k].status = "pending"
      BY <1>2, <3>1, SetStatusEffect DEF TypeInv, Statuses
    <3>3. /\ UNCHANGED batch /\ Live(d)
          /\ \E pc \in Labels : Goto(d, pc)
      BY <2>2 DEF markRunning, markCompleted, markFailedTerminal, Labels, Live
    <3>4. \A j \in Jobs : Open(j)' => Open(j)
      BY <3>2, <3>3, GotoOpen DEF Open
    <3> QED BY <1>3, <3>2, <3>3, <3>4
  <2>3. CASE markFailedRetry(d)
    <3>1. Open(d.job)
      BY <2>3 DEF markFailedRetry, Retries, Open, Live
    <3>2. /\ \A k \in Jobs : jobs'[k].attempt = jobs[k].attempt
          /\ \A k \in Jobs \ {d.job} : jobs'[k] = jobs[k]
      BY <1>2, <2>3, RetryEffect DEF TypeInv
    <3>3. UNCHANGED batch /\ Goto(d, "release")
      BY <2>3 DEF markFailedRetry
    <3>4. \A j \in Jobs : jobs'[j].status = "pending" => Open(j)
      BY <3>1, <3>2 DEF Open
    <3>5. \A j \in Jobs : Open(j)' => Open(j)
      BY <3>3, <3>4, GotoOpen DEF Labels
    <3> QED BY <1>3, <3>2, <3>3, <3>5
  <2>4. CASE releaseSem(d)
    BY <1>3, <2>4 DEF releaseSem, Open, Live
  <2> QED BY <1>7, <2>1, <2>2, <2>3, <2>4 DEF DispatchStep, DispatchFault, acquireSem,
        ExecuteError, WardenAccepts, AsyncAnswer, AsyncAnswerLost, PurgeAnswer,
        failInstance, WriteError, Labels, Live
<1>8. ASSUME NEW j \in Jobs, BackoffElapses(j) PROVE BoundInv'
  <2>1. \A k \in Jobs : /\ jobs'[k].status = jobs[k].status
                        /\ jobs'[k].attempt = jobs[k].attempt
    BY <1>8 DEF BackoffElapses, TypeInv, Row
  <2> QED BY <1>3, <1>8, <2>1 DEF BackoffElapses, Open, Live
<1>9. ASSUME NEW j \in Jobs, ReportJobResult(j) PROVE BoundInv'
  <2>1. \A k \in Jobs : /\ jobs'[k].attempt = jobs[k].attempt
                        /\ jobs'[k].status = "pending" => jobs[k].status = "pending"
    BY <1>9, SetStatusEffect DEF ReportJobResult, TypeInv, Statuses
  <2> QED BY <1>3, <1>9, <2>1 DEF ReportJobResult, Open, Live
<1>10. CASE UNCHANGED vars
  BY <1>3, <1>10 DEF vars, Open, Live
<1> QED BY <1>4, <1>5, <1>6, <1>7, <1>8, <1>9, <1>10 DEF Next, PollStep, PollFault

LEMMA InitBound == Init => BoundInv
<1> SUFFICES ASSUME Init PROVE BoundInv
  OBVIOUS
<1>1. \A j \in Jobs : jobs[j].attempt = 0 /\ Stale(j) = {}
  BY DEF Init, Stale
<1>2. \A p \in Procs : batch[p] = {}
  BY DEF Init
<1> QED BY <1>1, <1>2, BoundType, FS_EmptySet, LimitsAssumption DEF BoundInv

(* However stale the polls, a job is claimed at most maxRetries times and once
   more per process.                                                         *)
THEOREM ClaimsBounded == Spec => [](\A j \in Jobs : jobs[j].attempt <= Bound)
<1>1. Init => TypeInv /\ SingleDispatcher /\ BoundInv
  BY InitType, InitBound DEF Init, SingleDispatcher
<1>2. TypeInv /\ SingleDispatcher /\ BoundInv /\ [Next]_vars
        => (TypeInv /\ SingleDispatcher /\ BoundInv)'
  BY NextType, NextSingle, NextBound
<1>3. BoundInv => \A j \in Jobs : jobs[j].attempt <= Bound
  BY DEF BoundInv
<1> QED BY <1>1, <1>2, <1>3, PTL DEF Spec
-----------------------------------------------------------------------------
(* Each step seen as a step of the queue.                                    *)

ph == [j \in Jobs |-> Phase(j)]
cl == [j \in Jobs |-> jobs[j].attempt]

(* The step of the worker is none of the queue.                              *)
LEMMA QueueStutter ==
  ASSUME \A j \in Jobs : /\ jobs'[j].attempt = jobs[j].attempt
                         /\ Phase(j)' = Phase(j)
  PROVE  UNCHANGED <<ph, cl>>
BY DEF ph, cl

LEMMA QueueClose ==
  ASSUME NEW S \in SUBSET Jobs, S # {},
         \A j \in Jobs : jobs'[j].attempt = jobs[j].attempt,
         \A j \in S : Phase(j) # "closed" /\ Phase(j)' = "closed",
         \A j \in Jobs \ S : Phase(j)' = Phase(j)
  PROVE  Queue!Next
<1>1. /\ \A j \in S : ph[j] # "closed"
      /\ ph' = [j \in Jobs |-> IF j \in S THEN "closed" ELSE ph[j]]
  BY DEF ph
<1>2. UNCHANGED cl
  BY DEF cl
<1>3. Queue!Close(S)
  BY <1>1, <1>2 DEF Queue!Close, ph, cl
<1> QED BY <1>3 DEF Queue!Next

LEMMA QueueClaim ==
  ASSUME NEW j \in Jobs, Phase(j) = "queued", jobs[j].attempt < Bound,
         jobs'[j].attempt = jobs[j].attempt + 1,
         Phase(j)' \in {"dispatched", "closed"},
         \A k \in Jobs \ {j} : jobs'[k].attempt = jobs[k].attempt /\ Phase(k)' = Phase(k)
  PROVE  Queue!Next
<1>1. /\ ph[j] = "queued" /\ cl[j] < Bound
      /\ cl' = [cl EXCEPT ![j] = cl[j] + 1]
      /\ ph' = [ph EXCEPT ![j] = Phase(j)']
  BY DEF ph, cl
<1>2. Queue!Claim(j)
  BY <1>1 DEF Queue!Claim, ph, cl, Bound
<1> QED BY <1>2 DEF Queue!Next

LEMMA QueueRequeue ==
  ASSUME NEW j \in Jobs, Phase(j) = "dispatched", Phase(j)' = "queued",
         \A k \in Jobs : jobs'[k].attempt = jobs[k].attempt,
         \A k \in Jobs \ {j} : Phase(k)' = Phase(k)
  PROVE  Queue!Next
<1>1. ph[j] = "dispatched" /\ ph' = [ph EXCEPT ![j] = "queued"] /\ UNCHANGED cl
  BY DEF ph, cl
<1>2. Queue!Requeue(j)
  BY <1>1 DEF Queue!Requeue, ph, cl
<1> QED BY <1>2 DEF Queue!Next

(* A goroutine that goes on, holds its job as before.                        *)
LEMMA GotoHeld ==
  ASSUME TypeInv, SingleDispatcher, NEW d \in dispatches, NEW pc \in Labels, Goto(d, pc)
  PROVE  /\ \A j \in Jobs \ {d.job} : Held(j)' = Held(j)
         /\ Live(d) /\ pc \notin {"failInstance", "release"}
              => Held(d.job) /\ Held(d.job)'
         /\ Live(d) /\ pc \in {"failInstance", "release"}
              => Held(d.job) /\ ~ Held(d.job)'
         /\ ~ Live(d) /\ pc = "release" => Held(d.job)' = Held(d.job)
<1>1. PICK new \in Dispatch :
        /\ new.job = d.job /\ new.pc = pc
        /\ dispatches' = (dispatches \ {d}) \cup {new}
  BY GotoEffect DEF TypeInv
<1>2. \A j \in Jobs \ {d.job} : Held(j)' <=> Held(j)
  BY <1>1 DEF Held, Live
<1>3. Live(d) => (Held(d.job)' <=> pc \notin {"failInstance", "release"}) /\ Held(d.job)
  BY <1>1 DEF Held, Live, SingleDispatcher
<1>4. ~ Live(d) /\ pc = "release" => (Held(d.job)' <=> Held(d.job))
  BY <1>1 DEF Held, Live
<1> QED BY <1>2, <1>3, <1>4 DEF Held

LEMMA NextQueue ==
  TypeInv /\ SingleDispatcher /\ BoundInv /\ [Next]_vars
    => Queue!Next \/ UNCHANGED <<ph, cl>>
<1> SUFFICES ASSUME TypeInv, SingleDispatcher, BoundInv, [Next]_vars
             PROVE  Queue!Next \/ UNCHANGED <<ph, cl>>
  OBVIOUS
<1>1. /\ \A d \in dispatches : d.job \in Jobs
      /\ \A p \in Procs : \A r \in batch[p] : r.job \in Jobs
      /\ \A j \in Jobs : jobs[j].attempt \in Nat
  BY DEF TypeInv, Dispatch, BatchRow, Row
<1>2. ASSUME UNCHANGED <<jobs, dispatches>> PROVE UNCHANGED <<ph, cl>>
  BY <1>2, QueueStutter DEF Phase, Held, Live
<1>3. ASSUME NEW j \in Jobs, Claimable(j)
      PROVE  ~ Held(j) /\ Phase(j) = "queued" /\ jobs[j].attempt < Bound
  <2>1. ~ Held(j)
    BY <1>3 DEF Claimable, Held, SingleDispatcher
  <2>2. CASE maxRetries <= jobs[j].attempt
    <3>1. jobs[j].attempt + Cardinality(Stale(j)) + 1 <= Bound
      BY <1>3, <2>2 DEF BoundInv, Open, Claimable
    <3> QED BY <1>1, <1>3, <2>1, <3>1, BoundType, StaleFinite DEF Phase, Claimable
  <2>3. CASE ~ maxRetries <= jobs[j].attempt
    BY <1>1, <1>3, <2>1, <2>3, BoundType, LimitsAssumption DEF Phase, Claimable
  <2> QED BY <2>2, <2>3
<1>4. ASSUME NEW p \in Procs, NEW r \in batch[p], claimJob(p, r) PROVE Queue!Next
  <2>1. r.job \in Jobs /\ Claimable(r.job)
    BY <1>1, <1>4 DEF claimJob
  <2>2. PICK new : /\ new.job = r.job /\ new.pc = "acquire"
                   /\ dispatches' = dispatches \cup {new}
    BY <1>4 DEF claimJob
  <2>3. /\ jobs'[r.job].attempt = jobs[r.job].attempt + 1
        /\ \A k \in Jobs \ {r.job} : jobs'[k] = jobs[k]
    BY <1>4, <2>1, ClaimRowEffect DEF claimJob, TypeInv
  <2>4. Phase(r.job)' = "dispatched"
    BY <2>2 DEF Phase, Held, Live
  <2>5. \A k \in Jobs \ {r.job} : Held(k)' <=> Held(k)
    BY <2>2 DEF Held, Live
  <2>6. \A k \in Jobs \ {r.job} : Phase(k)' = Phase(k)
    BY <2>3, <2>5 DEF Phase
  <2> QED BY <1>3, <2>1, <2>3, <2>4, <2>6, QueueClaim
<1>5. ASSUME NEW p \in Procs, NEW r \in batch[p], ClaimError(p, r)
      PROVE  Queue!Next \/ UNCHANGED <<ph, cl>>
  <2>1. CASE ~ UNCHANGED jobs
    <3>1. r.job \in Jobs /\ Claimable(r.job) /\ ClaimRow(r.job) /\ UNCHANGED dispatches
      BY <1>1, <1>5, <2>1 DEF ClaimError
    <3>2. /\ jobs'[r.job].attempt = jobs[r.job].attempt + 1
          /\ jobs'[r.job].status = "claimed"
          /\ \A k \in Jobs \ {r.job} : jobs'[k] = jobs[k]
      BY <3>1, ClaimRowEffect DEF TypeInv
    <3>3. \A k : Held(k)' <=> Held(k)
      BY <3>1 DEF Held, Live
    <3>4. Phase(r.job)' = "closed"
      BY <1>3, <3>1, <3>2, <3>3 DEF Phase
    <3>5. \A k \in Jobs \ {r.job} : Phase(k)' = Phase(k)
      BY <3>2, <3>3 DEF Phase
    <3> QED BY <1>3, <3>1, <3>2, <3>4, <3>5, QueueClaim
  <2>2. CASE UNCHANGED jobs
    BY <1>2, <1>5, <2>2 DEF ClaimError
  <2> QED BY <2>1, <2>2
<1>6. ASSUME NEW p \in Procs, Restart(p) PROVE Queue!Next \/ UNCHANGED <<ph, cl>>
  <2> DEFINE S == {j \in Jobs : Held(j) /\ ~ Held(j)'}
  <2>1. dispatches' \subseteq dispatches /\ UNCHANGED jobs
    BY <1>6 DEF Restart
  <2>2. \A j \in Jobs \ S : Held(j)' <=> Held(j)
    BY <2>1 DEF Held, Live
  <2>3. \A j \in Jobs \ S : Phase(j)' = Phase(j)
    BY <2>1, <2>2 DEF Phase
  <2>4. \A j \in S : Phase(j) # "closed" /\ Phase(j)' = "closed"
    <3>1. \A j \in S : Held(j) /\ ~ Held(j)'
      OBVIOUS
    <3>2. \A j \in S : jobs[j].status # "pending"
      BY <3>1 DEF Held, SingleDispatcher
    <3> HIDE DEF S
    <3> QED BY <2>1, <3>1, <3>2 DEF Phase
  <2>5. S \in SUBSET Jobs
    OBVIOUS
  <2> HIDE DEF S
  <2>6. CASE S = {}
    BY <2>1, <2>3, <2>6, QueueStutter
  <2>7. CASE S # {}
    BY <2>1, <2>3, <2>4, <2>5, <2>7, QueueClose
  <2> QED BY <2>6, <2>7
<1>7. ASSUME NEW d \in dispatches, DispatchStep(d) \/ DispatchFault(d)
      PROVE  Queue!Next \/ UNCHANGED <<ph, cl>>
  <2>1. ASSUME UNCHANGED jobs, NEW pc \in Labels, Goto(d, pc),
               IF Live(d) THEN pc \notin {"failInstance", "release"} ELSE pc = "release"
        PROVE  UNCHANGED <<ph, cl>>
    <3>1. \A j \in Jobs : Held(j)' <=> Held(j)
      BY <2>1, GotoHeld
    <3>2. \A j \in Jobs : Phase(j)' = Phase(j)
      BY <2>1, <3>1 DEF Phase
    <3> QED BY <2>1, <3>2, QueueStutter
  <2>2. ASSUME \A j \in Jobs : jobs'[j].attempt = jobs[j].attempt,
               \A j \in Jobs \ {d.job} : jobs'[j].status = jobs[j].status,
               Goto(d, "failInstance") \/ Goto(d, "release"), Live(d)
        PROVE  /\ \A j \in Jobs \ {d.job} : Phase(j)' = Phase(j)
               /\ Phase(d.job) = "dispatched" /\ ~ Held(d.job)'
    <3>1. /\ \A j \in Jobs \ {d.job} : Held(j)' <=> Held(j)
          /\ Held(d.job) /\ ~ Held(d.job)'
      BY <2>2, GotoHeld DEF Labels
    <3> QED BY <2>2, <3>1 DEF Phase
  <2>3. CASE markRunning(d) \/ markCompleted(d) \/ markFailedTerminal(d)
    <3>1. PICK s \in {"running", "completed", "failed"} : SetStatus(d.job, s)
      BY <2>3 DEF markRunning, markCompleted, markFailedTerminal
    <3>2. /\ \A k \in Jobs : jobs'[k].attempt = jobs[k].attempt
          /\ \A k \in Jobs \ {d.job} : jobs'[k].status = jobs[k].status
          /\ jobs'[d.job].status # "pending"
      BY <1>1, <3>1, SetStatusEffect DEF TypeInv, Statuses
    <3>3. Live(d) /\ (Goto(d, "failInstance") \/ Goto(d, "release"))
      BY <2>3 DEF markRunning, markCompleted, markFailedTerminal, Live
    <3>4. /\ \A j \in Jobs \ {d.job} : Phase(j)' = Phase(j)
          /\ Phase(d.job) = "dispatched" /\ ~ Held(d.job)'
      BY <2>2, <3>2, <3>3
    <3>5. Phase(d.job)' = "closed"
      BY <3>2, <3>4 DEF Phase
    <3>6. {d.job} \in SUBSET Jobs
      BY <1>1
    <3> QED BY <3>2, <3>4, <3>5, <3>6, QueueClose
  <2>4. CASE markFailedRetry(d)
    <3>1. /\ \A k \in Jobs : jobs'[k].attempt = jobs[k].attempt
          /\ \A k \in Jobs \ {d.job} : jobs'[k].status = jobs[k].status
          /\ jobs'[d.job].status = "pending"
      BY <1>1, <2>4, RetryEffect DEF TypeInv
    <3>2. Live(d) /\ Goto(d, "release")
      BY <2>4 DEF markFailedRetry, Live
    <3>3. /\ \A j \in Jobs \ {d.job} : Phase(j)' = Phase(j)
          /\ Phase(d.job) = "dispatched" /\ ~ Held(d.job)'
      BY <2>2, <3>1, <3>2
    <3>4. Phase(d.job)' = "queued"
      BY <3>1, <3>3 DEF Phase
    <3> QED BY <1>1, <3>1, <3>3, <3>4, QueueRequeue
  <2>5. CASE WriteError(d)
    <3>1. UNCHANGED jobs /\ (Goto(d, "failInstance") \/ Goto(d, "release"))
      BY <2>5 DEF WriteError
    <3>2. CASE Live(d)
      <4>1. /\ \A j \in Jobs \ {d.job} : Phase(j)' = Phase(j)
            /\ Phase(d.job) = "dispatched" /\ ~ Held(d.job)'
        BY <2>2, <3>1, <3>2
      <4>2. Phase(d.job)' = "closed"
        BY <3>1, <3>2, <4>1 DEF Phase, SingleDispatcher
      <4>3. {d.job} \in SUBSET Jobs
        BY <1>1
      <4> QED BY <3>1, <4>1, <4>2, <4>3, QueueClose
    <3>3. CASE ~ Live(d)
      <4>1. Goto(d, "release")
        BY <2>5, <3>3 DEF WriteError, Live
      <4> QED BY <2>1, <3>1, <3>3, <4>1 DEF Labels
    <3> QED BY <3>2, <3>3
  <2>6. CASE releaseSem(d)
    <3>1. \A j \in Jobs : Held(j)' <=> Held(j)
      BY <2>6 DEF releaseSem, Held, Live
    <3>2. UNCHANGED jobs
      BY <2>6 DEF releaseSem
    <3>3. \A j \in Jobs : Phase(j)' = Phase(j)
      BY <3>1, <3>2 DEF Phase
    <3> QED BY <3>2, <3>3, QueueStutter
  <2>7. CASE failInstance(d)
    BY <2>1, <2>7 DEF failInstance, Live, Labels
  <2>8. CASE \/ acquireSem(d) \/ ExecuteError(d) \/ WardenAccepts(d) \/ AsyncAnswer(d)
             \/ AsyncAnswerLost(d) \/ PurgeAnswer(d)
    BY <2>1, <2>8 DEF acquireSem, ExecuteError, WardenAccepts, AsyncAnswer,
       AsyncAnswerLost, PurgeAnswer, Live, Labels
  <2> QED BY <1>7, <2>3, <2>4, <2>5, <2>6, <2>7, <2>8 DEF DispatchStep, DispatchFault
<1>8. ASSUME NEW j \in Jobs, BackoffElapses(j) PROVE UNCHANGED <<ph, cl>>
  <2>1. \A k \in Jobs : /\ jobs'[k].status = jobs[k].status
                        /\ jobs'[k].attempt = jobs[k].attempt
    BY <1>8 DEF BackoffElapses, TypeInv, Row
  <2>2. \A k : Held(k)' <=> Held(k)
    BY <1>8 DEF BackoffElapses, Held, Live
  <2>3. \A k \in Jobs : Phase(k)' = Phase(k)
    BY <2>1, <2>2 DEF Phase
  <2> QED BY <2>1, <2>3, QueueStutter
<1>9. ASSUME NEW j \in Jobs, ReportJobResult(j) PROVE Queue!Next \/ UNCHANGED <<ph, cl>>
  <2>1. PICK s \in {"completed", "failed"} : SetStatus(j, s)
    BY <1>9 DEF ReportJobResult
  <2>2. /\ \A k \in Jobs : jobs'[k].attempt = jobs[k].attempt
        /\ \A k \in Jobs \ {j} : jobs'[k].status = jobs[k].status
        /\ jobs'[j].status # "pending"
    BY <2>1, SetStatusEffect DEF TypeInv, Statuses
  <2>3. \A k : Held(k)' <=> Held(k)
    BY <1>9 DEF ReportJobResult, Held, Live
  <2>4. \A k \in Jobs \ {j} : Phase(k)' = Phase(k)
    BY <2>2, <2>3 DEF Phase
  <2>5. CASE Held(j) \/ jobs[j].status # "pending"
    <3>1. Phase(j)' = Phase(j)
      BY <2>2, <2>3, <2>5 DEF Phase
    <3> QED BY <2>2, <2>4, <3>1, QueueStutter
  <2>6. CASE ~ Held(j) /\ jobs[j].status = "pending"
    <3>1. Phase(j) = "queued" /\ Phase(j)' = "closed"
      BY <2>2, <2>3, <2>6 DEF Phase
    <3> QED BY <2>2, <2>4, <3>1, QueueClose
  <2> QED BY <2>5, <2>6
<1> QED BY <1>2, <1>4, <1>5, <1>6, <1>7, <1>8, <1>9
  DEF Next, PollStep, PollFault, poll, ClaimLost, vars

LEMMA InitQueue == Init => Queue!Init
BY DEF Init, Queue!Init, Phase, Held

(* Any number of workers together, with crashes and stale polls, behave like one
   queue: a single holder at a time, bounded claims, and closed for good.    *)
THEOREM ImplementsQueueHolds == Spec => ImplementsQueue
<1>1. Init => TypeInv /\ SingleDispatcher /\ BoundInv
  BY InitType, InitBound DEF Init, SingleDispatcher
<1>2. TypeInv /\ SingleDispatcher /\ BoundInv /\ [Next]_vars
        => (TypeInv /\ SingleDispatcher /\ BoundInv)'
  BY NextType, NextSingle, NextBound
<1>3. TypeInv /\ SingleDispatcher /\ BoundInv /\ [Next]_vars
        => [Queue!Next]_(Queue!vars)
  BY NextQueue DEF Queue!vars, ph, cl
<1> QED BY <1>1, <1>2, <1>3, InitQueue, PTL DEF Spec, ImplementsQueue, Queue!Spec
=============================================================================
