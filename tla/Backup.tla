------------------------------- MODULE Backup -------------------------------
(***************************************************************************)
(* The backup worker (workers/backup): one goroutine per process that      *)
(* enqueues scheduled backups, then requested ones, and once a day prunes  *)
(* what has passed its retention.  The rows of backups are at the same     *)
(* time the history, the marks of what is in flight and the requests.      *)
(*                                                                         *)
(* Outside the code are the API, which stores requests and Warden's        *)
(* results, Warden itself, and the store B2.                               *)
(***************************************************************************)
EXTENDS Naturals, Sequences, FiniteSets

CONSTANTS
  Sites, Procs,
  Placed,        \* sites whose server_id is not NULL
  MaxRows,       \* with this many rows of backups, no site comes due, none is asked for
                 \* and no more are begun in vain; what was begun before adds its rows
  MaxFaults      \* bound on failed statements and calls, and crashes

ASSUME BackupAssumption ==
  /\ IsFiniteSet(Sites) /\ IsFiniteSet(Procs) /\ Placed \subseteq Sites
  /\ MaxRows \in Nat /\ MaxFaults \in Nat

VARIABLES
  backups,   \* the rows, in the order of created_at
  active,    \* sites with instances.status = 'active'
  jobs,      \* rows whose agent job is not finished
  files,     \* rows whose file is in B2
  refused,   \* rows whose file B2 was not brought to delete (history)
  worker,    \* per process, what runSchedule or PruneExpired is about to do
  faults

vars == <<backups, active, jobs, files, refused, worker, faults>>

\* Requests come from the API with on_demand set; the worker's own rows are pending
\* until Warden's result is stored.
RequestStatuses == {"requested", "queued"}
BackupStatuses  == {"pending", "completed", "failed"}

\* Within the plan's interval, within its retention, or past it.
Ages == 0..2
Recent  == 0
Expired == 2

Row == [site : Sites, onDemand : {TRUE}, status : RequestStatuses, age : Ages,
        deleted : BOOLEAN]
       \cup
       [site : Sites, onDemand : {FALSE}, status : BackupStatuses, age : Ages,
        deleted : BOOLEAN]

\* "todo" are the sites or rows a query returned; "cur" is the row in work.
Passes == {"idle", "schedule", "onDemand", "prune", "pruneBlind"}
Idle   == [pass |-> "idle", at |-> "next", todo |-> {}, cur |-> 0]

Fault == faults < MaxFaults /\ faults' = faults + 1

Init ==
  /\ backups = <<>>
  /\ active = Sites
  /\ jobs = {} /\ files = {} /\ refused = {}
  /\ worker = [p \in Procs |-> Idle]
  /\ faults = 0

Rows == DOMAIN backups

Begin(p, pass, at, todo, cur) ==
  worker' = [worker EXCEPT
    ![p] = [pass |-> pass, at |-> at, todo |-> todo, cur |-> cur]]

\* The process goes on, within its pass, to the step "at" of row cur.
Go(p, at, cur) == worker' = [worker EXCEPT ![p].at = at, ![p].cur = cur]

\* The loop takes x out of what is left.
Take(p, x, at, cur) ==
  worker' = [worker EXCEPT ![p].at = at, ![p].cur = cur, ![p].todo = @ \ {x}]

At(p, passes, at) == worker[p].pass \in passes /\ worker[p].at = at
-----------------------------------------------------------------------------
(* runSchedule.                                                            *)

HasRecent(s) ==
  \E b \in Rows : /\ backups[b].site = s /\ ~ backups[b].deleted
                  /\ backups[b].status = "completed" /\ backups[b].age = Recent

InFlight(s) ==
  \E b \in Rows : /\ backups[b].site = s /\ ~ backups[b].deleted
                  /\ backups[b].status \in {"pending", "queued"}

\* Faulty variant: the query forgets the backups in flight.
DueAlthoughInFlight(s) == s \in active /\ ~ HasRecent(s)

Due(s) == s \in active /\ ~ HasRecent(s) /\ ~ InFlight(s)

GetSitesDueForBackup(p) ==
  /\ At(p, {"idle"}, "next")
  /\ Begin(p, "schedule", "next", {s \in Sites : Due(s) /\ Len(backups) < MaxRows}, 0)
  /\ UNCHANGED <<backups, active, jobs, files, refused, faults>>

\* Faulty variant: requests of active sites only.
OpenRequestOfActive(b, s) == /\ backups[b].site = s /\ backups[b].onDemand
                             /\ backups[b].status = "requested" /\ s \in active

OpenRequest(b, s) == /\ backups[b].site = s /\ backups[b].onDemand
                     /\ backups[b].status = "requested" /\ ~ backups[b].deleted

GetOnDemandSites(p) ==
  /\ At(p, {"schedule"}, "next") /\ worker[p].todo = {}
  /\ Begin(p, "onDemand", "next", {s \in Sites : \E b \in Rows : OpenRequest(b, s)}, 0)
  /\ UNCHANGED <<backups, active, jobs, files, refused, faults>>

\* The first INSERT of enqueueBackup, for one of the sites left.
insertBackup(p, s) ==
  /\ At(p, {"schedule", "onDemand"}, "next") /\ s \in worker[p].todo
  /\ s \in Placed \/ Len(backups) < MaxRows
  /\ backups' = Append(backups, [site |-> s, onDemand |-> FALSE, status |-> "pending",
                                 age |-> Recent, deleted |-> FALSE])
  /\ Take(p, s, "insertJob", Len(backups) + 1)
  /\ UNCHANGED <<active, jobs, files, refused, faults>>

\* The bound alone: without a server a request adds a row in every pass.
RefusedAgain(p, s) ==
  /\ At(p, {"schedule", "onDemand"}, "next") /\ s \in worker[p].todo
  /\ s \notin Placed /\ Len(backups) >= MaxRows
  /\ Take(p, s, "next", 0)
  /\ UNCHANGED <<backups, active, jobs, files, refused, faults>>

HasServer(p) == backups[worker[p].cur].site \in Placed

insertJob(p) ==
  /\ At(p, {"schedule", "onDemand"}, "insertJob") /\ HasServer(p)
  /\ jobs' = jobs \cup {worker[p].cur}
  /\ IF worker[p].pass = "onDemand" THEN Go(p, "markQueued", worker[p].cur)
                                    ELSE Go(p, "next", 0)
  /\ UNCHANGED <<backups, active, files, refused, faults>>

\* The query returns NULL as '', which is no uuid: the INSERT of the job fails every time,
\* and enqueueBackup returns before it marks the request.
JobRefused(p) ==
  /\ At(p, {"schedule", "onDemand"}, "insertJob") /\ ~ HasServer(p)
  /\ Go(p, "next", 0)
  /\ UNCHANGED <<backups, active, jobs, files, refused, faults>>

\* Faulty variant: the UPDATE without its conditions on on_demand and status.
MarkedAll(b, s) == backups[b].site = s /\ ~ backups[b].deleted

\* The rows the last UPDATE of enqueueBackup matches: all open requests of the site.
Marked(b, s) == OpenRequest(b, s)

markQueued(p) ==
  /\ At(p, {"onDemand"}, "markQueued")
  /\ LET s == backups[worker[p].cur].site IN
       backups' = [b \in Rows |-> IF Marked(b, s)
                                  THEN [backups[b] EXCEPT !.status = "queued"]
                                  ELSE backups[b]]
  /\ Go(p, "next", 0)
  /\ UNCHANGED <<active, jobs, files, refused, faults>>

\* A query fails: the pass goes on with the requests, or ends.
QueryError(p) ==
  /\ Fault
  /\ \/ At(p, {"idle"}, "next") /\ Begin(p, "schedule", "next", {}, 0)
     \/ At(p, {"schedule"}, "next") /\ worker[p].todo = {} /\ worker' = [worker EXCEPT ![p] = Idle]
  /\ UNCHANGED <<backups, active, jobs, files, refused>>

\* A statement of enqueueBackup returns an error, and the loop goes on to the next
\* site.  The INSERT of the job may have been applied.
EnqueueError(p) ==
  /\ Fault
  /\ \/ /\ At(p, {"schedule", "onDemand"}, "next")
        /\ \E s \in worker[p].todo : Take(p, s, "next", 0)
        /\ UNCHANGED jobs
     \/ /\ At(p, {"schedule", "onDemand"}, "insertJob")
        /\ UNCHANGED jobs \/ (HasServer(p) /\ jobs' = jobs \cup {worker[p].cur})
        /\ Go(p, "next", 0)
     \/ /\ At(p, {"onDemand"}, "markQueued")
        /\ Go(p, "next", 0)
        /\ UNCHANGED jobs
  /\ UNCHANGED <<backups, active, files, refused>>
-----------------------------------------------------------------------------
(* PruneExpired.                                                           *)

Prunable == {b \in Rows : /\ backups[b].status = "completed"
                          /\ backups[b].age = Expired /\ ~ backups[b].deleted}

PruneExpired(p) ==
  /\ At(p, {"idle"}, "next") /\ Prunable # {}
  /\ Begin(p, "prune", "next", Prunable, 0)
  /\ UNCHANGED <<backups, active, jobs, files, refused, faults>>

\* B2 gives no token, and the pass goes on without; or some rows cannot be read.
PruneImpaired(p) ==
  /\ At(p, {"idle"}, "next") /\ Prunable # {}
  /\ Fault
  /\ \/ Begin(p, "pruneBlind", "next", Prunable, 0)
     \/ \E T \in (SUBSET Prunable) \ {{}, Prunable} : Begin(p, "prune", "next", T, 0)
  /\ UNCHANGED <<backups, active, jobs, files, refused>>

\* Faulty variant: the row is deleted first, and the file by a step after it.
deleteRowFirst(p, b) ==
  /\ At(p, {"prune", "pruneBlind"}, "next") /\ b \in worker[p].todo
  /\ IF backups[b].deleted
     THEN /\ files' = files \ {b} /\ Take(p, b, "next", 0)
          /\ UNCHANGED backups
     ELSE /\ backups' = [backups EXCEPT ![b].deleted = TRUE]
          /\ UNCHANGED <<files, worker>>
  /\ UNCHANGED <<active, jobs, refused, faults>>

\* The file goes, if there is a token.  B2 not knowing the file is an error like any.
deleteFile(p, b) ==
  /\ At(p, {"prune", "pruneBlind"}, "next") /\ b \in worker[p].todo
  /\ IF worker[p].pass = "prune"
     THEN files' = files \ {b} /\ UNCHANGED refused
     ELSE refused' = refused \cup {b} /\ UNCHANGED files
  /\ Take(p, b, "softDelete", b)
  /\ UNCHANGED <<backups, active, jobs, faults>>

\* b2DeleteWithRetry gives up; the row is deleted all the same.
DeleteFileError(p, b) ==
  /\ At(p, {"prune"}, "next") /\ b \in worker[p].todo
  /\ Fault
  /\ refused' = refused \cup {b}
  /\ Take(p, b, "softDelete", b)
  /\ UNCHANGED <<backups, active, jobs, files>>

softDelete(p) ==
  /\ At(p, {"prune", "pruneBlind"}, "softDelete")
  /\ backups' = [backups EXCEPT ![worker[p].cur].deleted = TRUE]
  /\ Go(p, "next", 0)
  /\ UNCHANGED <<active, jobs, files, refused, faults>>

SoftDeleteError(p) ==
  /\ At(p, {"prune", "pruneBlind"}, "softDelete")
  /\ Fault
  /\ Go(p, "next", 0)
  /\ UNCHANGED <<backups, active, jobs, files, refused>>

\* The loop of runSchedule or PruneExpired has ended.
EndPass(p) ==
  /\ At(p, {"onDemand", "prune", "pruneBlind"}, "next") /\ worker[p].todo = {}
  /\ worker' = [worker EXCEPT ![p] = Idle]
  /\ UNCHANGED <<backups, active, jobs, files, refused, faults>>
-----------------------------------------------------------------------------
(* The other parties, time, and the end of a process.                      *)

\* The API stores the customer's request.
Request(s) ==
  /\ Len(backups) < MaxRows
  /\ backups' = Append(backups, [site |-> s, onDemand |-> TRUE, status |-> "requested",
                                 age |-> Recent, deleted |-> FALSE])
  /\ UNCHANGED <<active, jobs, files, refused, worker, faults>>

\* Warden ends a job, and the API's ReportJobResult stores the result in its row.
WardenReports(b) ==
  /\ b \in jobs
  /\ jobs' = jobs \ {b}
  /\ \/ /\ files' = files \cup {b}
        /\ backups' = [backups EXCEPT ![b].status = "completed"]
     \/ /\ backups' = [backups EXCEPT ![b].status = "failed"]
        /\ UNCHANGED files
  /\ UNCHANGED <<active, refused, worker, faults>>

\* A row passes the interval, or the retention; the older rows did so before.
RowAges(b) ==
  /\ backups[b].age < Expired
  /\ \A c \in 1..(b - 1) : backups[c].age > backups[b].age
  /\ backups' = [backups EXCEPT ![b].age = @ + 1]
  /\ UNCHANGED <<active, jobs, files, refused, worker, faults>>

\* instances.status, written by the other workers and the API.
StatusChanges(s) ==
  /\ active' = IF s \in active THEN active \ {s} ELSE active \cup {s}
  /\ UNCHANGED <<backups, jobs, files, refused, worker, faults>>

Restart(p) ==
  /\ Fault
  /\ worker[p] # Idle
  /\ worker' = [worker EXCEPT ![p] = Idle]
  /\ UNCHANGED <<backups, active, jobs, files, refused>>

ScheduleStep(p) ==
  \/ GetSitesDueForBackup(p) \/ GetOnDemandSites(p)
  \/ \E s \in Sites : insertBackup(p, s) \/ RefusedAgain(p, s)
  \/ insertJob(p) \/ JobRefused(p) \/ markQueued(p)

PruneStep(p) == (\E b \in Rows : deleteFile(p, b)) \/ softDelete(p) \/ EndPass(p)

WorkerFault(p) ==
  \/ QueryError(p) \/ EnqueueError(p) \/ PruneImpaired(p)
  \/ (\E b \in Rows : DeleteFileError(p, b)) \/ SoftDeleteError(p) \/ Restart(p)

Next ==
  \/ \E p \in Procs : ScheduleStep(p) \/ PruneExpired(p) \/ PruneStep(p) \/ WorkerFault(p)
  \/ \E s \in Sites : Request(s) \/ StatusChanges(s)
  \/ \E b \in Rows : WardenReports(b) \/ RowAges(b)

Spec == Init /\ [][Next]_vars

\* The schedule's ticker fires and statements and calls return.  Nothing is assumed
\* of the customers, of Warden, of time or of the faults.
Fairness == \A p \in Procs : WF_vars(ScheduleStep(p)) /\ WF_vars(PruneStep(p))

FairSpec == Spec /\ Fairness
-----------------------------------------------------------------------------
(* Properties.                                                             *)

TypeOK ==
  /\ backups \in Seq(Row)
  /\ active \subseteq Sites
  /\ jobs \subseteq Rows /\ files \subseteq Rows /\ refused \subseteq Rows
  /\ \A p \in Procs :
       /\ worker[p].pass \in Passes
       /\ worker[p].at \in {"next", "insertJob", "markQueued", "softDelete"}
       /\ worker[p].todo \subseteq
            IF worker[p].pass \in {"prune", "pruneBlind"} THEN Rows ELSE Sites
       /\ worker[p].cur \in {0} \cup Rows
  /\ faults \in 0..MaxFaults

\* The list of due sites goes stale while the loop works on it, the other kind of
\* backup is enqueued in the same pass, and a process may die and start anew at any
\* point: with one process, no scheduled backup is begun beside one in flight.
NoPileUp ==
  [][\A p \in Procs, s \in Sites :
       insertBackup(p, s) /\ worker[p].pass = "schedule" => ~ InFlight(s)]_vars

\* A row is never forgotten with its file still in B2, whenever a process crashes or
\* a statement fails, except when B2 itself was not reached or refused.
OrphansWereRefused ==
  \A b \in files : backups[b].deleted => b \in refused

\* No request of a site with a server stays open: although statements fail, processes
\* restart and other sites are refused again and again, the worker comes to all of them
\* in the end.
RequestsAreTaken ==
  <>[](\A b \in Rows : backups[b].site \in Placed => backups[b].status # "requested")

\* enqueueBackup marks the triggering backups record as 'queued' (backup/worker.go:99-100):
\* a request that is marked is older than the backup that is to serve it.
OnlyTriggeringMarked ==
  [][\A p \in Procs : markQueued(p) =>
       \A b \in Rows : backups'[b] # backups[b] => b < worker[p].cur]_vars
=============================================================================
