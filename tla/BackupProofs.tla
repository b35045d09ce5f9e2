----------------------------- MODULE BackupProofs -----------------------------
(***************************************************************************)
(* Theorems about the rows, jobs and files of the backup worker, for any   *)
(* number of sites, processes, rows and faults.                            *)
(***************************************************************************)
EXTENDS Backup, SequenceTheorems, TLAPS

Steps == {"next", "insertJob", "markQueued", "softDelete"}

WorkerType ==
  worker \in [Procs -> [pass : Passes, at : Steps, todo : SUBSET (Sites \cup Nat), cur : Nat]]

(* A job serves a row of the worker's own that nobody has answered yet, and the
   row that a process is about to give a job has none.                       *)
Unanswered(b) == b \in Rows /\ ~ backups[b].onDemand /\ backups[b].status = "pending"

JobsInv ==
  /\ \A b \in jobs : Unanswered(b)
  /\ \A p \in Procs : worker[p].at = "insertJob" =>
       /\ Unanswered(worker[p].cur) /\ worker[p].cur \notin jobs
       /\ \A q \in Procs : worker[q].at = "insertJob" /\ worker[q].cur = worker[p].cur => p = q

(* Only rows with a result are pruned, and what is about to be deleted has lost
   its file or was refused: no job will bring the file back.                 *)
Answered(b) == b \in Rows /\ backups[b].status = "completed"

PruneInv ==
  /\ \A p \in Procs :
       /\ worker[p].pass \in {"prune", "pruneBlind"} => \A b \in worker[p].todo : Answered(b)
       /\ worker[p].at = "softDelete" =>
            /\ Answered(worker[p].cur)
            /\ worker[p].cur \in files => worker[p].cur \in refused
  /\ \A b \in Rows : backups[b].deleted => Answered(b)
  /\ OrphansWereRefused

IInv == TypeOK /\ WorkerType /\ JobsInv /\ PruneInv
-----------------------------------------------------------------------------
(* How the rows and a process change.                                        *)

LEMMA RowsAre == TypeOK => /\ Len(backups) \in Nat /\ Rows = 1..Len(backups)
                           /\ \A b \in Rows : backups[b] \in Row
BY DEF TypeOK, Rows

LEMMA RowAdded ==
  ASSUME TypeOK, NEW r \in Row, backups' = Append(backups, r)
  PROVE  /\ backups' \in Seq(Row) /\ Rows' = Rows \cup {Len(backups) + 1}
         /\ Len(backups') = Len(backups) + 1 /\ Len(backups) + 1 \notin Rows
         /\ \A b \in Rows : backups'[b] = backups[b]
         /\ backups'[Len(backups) + 1] = r
BY RowsAre, AppendProperties DEF TypeOK, Rows

LEMMA RowChanged ==
  ASSUME TypeOK, NEW b \in Rows, NEW r \in Row, backups' = [backups EXCEPT ![b] = r]
  PROVE  /\ backups' \in Seq(Row) /\ Rows' = Rows /\ Len(backups') = Len(backups)
         /\ backups'[b] = r
         /\ \A c \in Rows : c # b => backups'[c] = backups[c]
BY RowsAre, ExceptSeq DEF TypeOK, Rows

LEMMA Begins ==
  ASSUME WorkerType, NEW p \in Procs, NEW pass \in Passes, NEW at \in Steps,
         NEW todo \in SUBSET (Sites \cup Nat), NEW cur \in Nat, Begin(p, pass, at, todo, cur)
  PROVE  /\ WorkerType'
         /\ worker'[p] = [pass |-> pass, at |-> at, todo |-> todo, cur |-> cur]
         /\ \A q \in Procs : q # p => worker'[q] = worker[q]
BY DEF WorkerType, Begin

LEMMA Idles ==
  ASSUME WorkerType, NEW p \in Procs, worker' = [worker EXCEPT ![p] = Idle]
  PROVE  /\ WorkerType' /\ worker'[p] = Idle
         /\ \A q \in Procs : q # p => worker'[q] = worker[q]
BY DEF WorkerType, Idle, Passes, Steps

LEMMA Goes ==
  ASSUME WorkerType, NEW p \in Procs, NEW at \in Steps, NEW cur \in Nat, Go(p, at, cur)
  PROVE  /\ WorkerType'
         /\ worker'[p] = [pass |-> worker[p].pass, at |-> at, todo |-> worker[p].todo, cur |-> cur]
         /\ \A q \in Procs : q # p => worker'[q] = worker[q]
BY DEF WorkerType, Go

LEMMA Takes ==
  ASSUME WorkerType, NEW p \in Procs, NEW at \in Steps, NEW cur \in Nat, NEW x,
         Take(p, x, at, cur)
  PROVE  /\ WorkerType'
         /\ worker'[p] = [pass |-> worker[p].pass, at |-> at, todo |-> worker[p].todo \ {x},
                          cur |-> cur]
         /\ \A q \in Procs : q # p => worker'[q] = worker[q]
BY DEF WorkerType, Take

LEMMA InitInv == Init => IInv
<1> SUFFICES ASSUME Init PROVE IInv
  OBVIOUS
<1> USE BackupAssumption DEF Init, Idle, Passes
<1>1. TypeOK
  BY DEF TypeOK
<1>2. WorkerType
  BY DEF WorkerType, Steps
<1>3. JobsInv /\ PruneInv
  BY DEF JobsInv, PruneInv, OrphansWereRefused, Rows
<1> QED BY <1>1, <1>2, <1>3 DEF IInv
-----------------------------------------------------------------------------
(* The steps, one after the other.                                           *)

Moved(p) == /\ WorkerType' /\ \A q \in Procs : q # p => worker'[q] = worker[q]

(* A process that ends what it does, or begins a pass over sites or over rows
   with a result, and changes nothing else.                                  *)
LEMMA Quiet ==
  ASSUME IInv, NEW p \in Procs, Moved(p), UNCHANGED <<backups, active, jobs, files, refused>>,
         faults' \in 0..MaxFaults, worker'[p].at \in {"next", "markQueued"},
         worker'[p].cur \in {0} \cup Rows,
         worker'[p].todo \subseteq IF worker'[p].pass \in {"prune", "pruneBlind"}
                                   THEN {b \in Rows : Answered(b)} ELSE Sites
  PROVE  IInv'
<1> USE DEF IInv, Moved, WorkerType, Steps
<1>1. TypeOK'
  BY DEF TypeOK, Rows
<1>2. JobsInv'
  BY DEF JobsInv, Unanswered, Rows
<1>3. PruneInv'
  BY DEF PruneInv, Answered, OrphansWereRefused, Rows
<1> QED BY <1>1, <1>2, <1>3

LEMMA QuietSteps ==
  ASSUME IInv, NEW p \in Procs,
         \/ GetSitesDueForBackup(p) \/ GetOnDemandSites(p) \/ QueryError(p)
         \/ PruneExpired(p) \/ PruneImpaired(p) \/ EndPass(p) \/ SoftDeleteError(p) \/ Restart(p)
  PROVE  IInv'
<1> USE DEF IInv
<1>1. Rows \subseteq Nat
  BY RowsAre
<1>2. faults' \in 0..MaxFaults
  BY BackupAssumption DEF GetSitesDueForBackup, GetOnDemandSites, QueryError, PruneExpired,
     PruneImpaired, EndPass, SoftDeleteError, Restart, Fault, TypeOK
<1>3. UNCHANGED <<backups, active, jobs, files, refused>>
  BY DEF GetSitesDueForBackup, GetOnDemandSites, QueryError, PruneExpired,
     PruneImpaired, EndPass, SoftDeleteError, Restart
<1>4. ASSUME NEW pass \in {"schedule", "onDemand"}, NEW todo \in SUBSET Sites,
             Begin(p, pass, "next", todo, 0)
      PROVE  IInv'
  <2>1. todo \in SUBSET (Sites \cup Nat) /\ pass \in Passes /\ "next" \in Steps /\ 0 \in Nat
    BY DEF Passes, Steps
  <2>2. /\ Moved(p)
        /\ worker'[p] = [pass |-> pass, at |-> "next", todo |-> todo, cur |-> 0]
    BY <1>4, <2>1, Begins DEF Moved
  <2> QED BY <1>2, <1>3, <2>2, Quiet
<1>5. ASSUME NEW pass \in {"prune", "pruneBlind"}, NEW todo \in SUBSET Prunable,
             Begin(p, pass, "next", todo, 0)
      PROVE  IInv'
  <2>1. \A b \in todo : b \in Rows /\ Answered(b)
    BY DEF Prunable, Answered
  <2>2. todo \in SUBSET (Sites \cup Nat) /\ pass \in Passes /\ "next" \in Steps /\ 0 \in Nat
    BY <1>1, <2>1 DEF Passes, Steps
  <2>3. /\ Moved(p)
        /\ worker'[p] = [pass |-> pass, at |-> "next", todo |-> todo, cur |-> 0]
    BY <1>5, <2>2, Begins DEF Moved
  <2> QED BY <1>2, <1>3, <2>1, <2>3, Quiet
<1>6. ASSUME worker' = [worker EXCEPT ![p] = Idle] PROVE IInv'
  <2>1. Moved(p) /\ worker'[p] = Idle
    BY <1>6, Idles DEF Moved
  <2> QED BY <1>2, <1>3, <2>1, Quiet DEF Idle
<1>7. CASE SoftDeleteError(p)
  <2>1. Go(p, "next", 0)
    BY <1>7 DEF SoftDeleteError
  <2>2. worker[p].todo \subseteq IF worker[p].pass \in {"prune", "pruneBlind"}
                                 THEN {b \in Rows : Answered(b)} ELSE Sites
    BY DEF TypeOK, PruneInv
  <2>3. /\ Moved(p)
        /\ worker'[p] = [pass |-> worker[p].pass, at |-> "next", todo |-> worker[p].todo, cur |-> 0]
    BY <2>1, Goes DEF Moved, Steps
  <2> QED BY <1>2, <1>3, <2>2, <2>3, Quiet
<1>8. CASE GetSitesDueForBackup(p)
  BY <1>4, <1>8 DEF GetSitesDueForBackup
<1>9. CASE GetOnDemandSites(p)
  BY <1>4, <1>9 DEF GetOnDemandSites
<1>10. CASE QueryError(p)
  BY <1>4, <1>6, <1>10 DEF QueryError
<1>11. CASE PruneExpired(p)
  BY <1>5, <1>11 DEF PruneExpired
<1>12. CASE PruneImpaired(p)
  BY <1>5, <1>12 DEF PruneImpaired
<1>13. CASE EndPass(p) \/ Restart(p)
  BY <1>6, <1>13 DEF EndPass, Restart
<1> QED BY <1>7, <1>8, <1>9, <1>10, <1>11, <1>12, <1>13

LEMMA EnqueueSteps ==
  ASSUME IInv, NEW p \in Procs,
         \/ \E s \in Sites : insertBackup(p, s) \/ RefusedAgain(p, s)
         \/ insertJob(p) \/ JobRefused(p) \/ markQueued(p) \/ EnqueueError(p)
  PROVE  IInv'
<1> USE DEF IInv
<1>1. Len(backups) \in Nat /\ Rows \subseteq Nat /\ \A b \in Rows : backups[b] \in Row
  BY RowsAre
<1>2. worker[p].todo \subseteq IF worker[p].pass \in {"prune", "pruneBlind"}
                               THEN {b \in Rows : Answered(b)} ELSE Sites
  BY DEF TypeOK, PruneInv
<1>3. ASSUME NEW s \in Sites, insertBackup(p, s) PROVE IInv'
  <2> DEFINE r == [site |-> s, onDemand |-> FALSE, status |-> "pending",
                   age |-> Recent, deleted |-> FALSE]
             b == Len(backups) + 1
  <2>1. r \in Row /\ backups' = Append(backups, r)
    BY <1>3 DEF insertBackup, Row, BackupStatuses, Ages, Recent
  <2>2. /\ backups' \in Seq(Row) /\ Rows' = Rows \cup {b} /\ Len(backups') = b /\ b \notin Rows
        /\ \A c \in Rows : backups'[c] = backups[c]
        /\ backups'[b] = r
    BY <2>1, RowAdded
  <2>3. /\ WorkerType' /\ \A q \in Procs : q # p => worker'[q] = worker[q]
        /\ worker'[p] = [pass |-> worker[p].pass, at |-> "insertJob",
                         todo |-> worker[p].todo \ {s}, cur |-> b]
    BY <1>1, <1>3, Takes DEF insertBackup, Steps
  <2>4. /\ UNCHANGED <<active, jobs, files, refused, faults>>
        /\ worker[p].pass \in {"schedule", "onDemand"}
    BY <1>3 DEF insertBackup, At
  <2>5. r.status = "pending" /\ ~ r.onDemand /\ ~ r.deleted
    OBVIOUS
  <2> HIDE DEF r, b
  <2>6. TypeOK'
    BY <1>1, <1>2, <2>2, <2>3, <2>4, BackupAssumption DEF TypeOK, b
  <2>7. JobsInv'
    <3>1. b \notin jobs' /\ \A c : c = b => Unanswered(c)'
      <4>1. b \notin jobs'
        BY <2>2, <2>4 DEF TypeOK
      <4> QED BY <2>2, <2>5, <4>1 DEF Unanswered
    <3>2. \A c : Unanswered(c) => Unanswered(c)'
      BY <2>2 DEF Unanswered
    <3>3. \A q \in Procs : q # p /\ worker[q].at = "insertJob" => worker[q].cur # b
      BY <2>2 DEF JobsInv, Unanswered
    <3> QED BY <2>3, <2>4, <3>1, <3>2, <3>3 DEF JobsInv
  <2>8. PruneInv'
    <3>1. \A c : Answered(c) => Answered(c)'
      BY <2>2 DEF Answered
    <3>2. OrphansWereRefused'
      BY <2>2, <2>4 DEF PruneInv, OrphansWereRefused, TypeOK
    <3> QED BY <2>2, <2>3, <2>4, <2>5, <3>1, <3>2 DEF PruneInv
  <2> QED BY <2>3, <2>6, <2>7, <2>8
<1>4. CASE insertJob(p)
  <2> DEFINE b == worker[p].cur
  <2>1. /\ jobs' = jobs \cup {b} /\ UNCHANGED <<backups, active, files, refused, faults>>
        /\ Unanswered(b) /\ worker[p].at = "insertJob"
    BY <1>4 DEF insertJob, At, JobsInv
  <2>2. PICK at \in {"markQueued", "next"}, cur \in {0, b} : Go(p, at, cur)
    BY <1>4 DEF insertJob
  <2>3. /\ WorkerType' /\ \A q \in Procs : q # p => worker'[q] = worker[q]
        /\ worker'[p] = [pass |-> worker[p].pass, at |-> at, todo |-> worker[p].todo, cur |-> cur]
    <3>1. at \in Steps /\ cur \in Nat
      <4>1. b \in Nat
        BY <1>1, <2>1 DEF Unanswered
      <4> QED BY <4>1 DEF Steps
    <3> QED BY <2>2, <3>1, Goes
  <2> HIDE DEF b
  <2>4. TypeOK'
    BY <1>2, <2>1, <2>3 DEF TypeOK, Rows, Unanswered
  <2>5. JobsInv'
    BY <2>1, <2>3 DEF JobsInv, Unanswered, Rows, b
  <2>6. PruneInv'
    BY <1>2, <2>1, <2>3 DEF PruneInv, Answered, OrphansWereRefused, Rows
  <2> QED BY <2>3, <2>4, <2>5, <2>6
<1>5. CASE markQueued(p)
  <2> DEFINE s == backups[worker[p].cur].site
             row(b) == IF Marked(b, s) THEN [backups[b] EXCEPT !.status = "queued"] ELSE backups[b]
  <2>1. /\ backups' = [b \in Rows |-> row(b)] /\ Go(p, "next", 0)
        /\ UNCHANGED <<active, jobs, files, refused, faults>>
    BY <1>5 DEF markQueued
  <2>2. ASSUME NEW b \in Rows
        PROVE  /\ row(b) \in Row /\ row(b).onDemand = backups[b].onDemand
               /\ row(b).deleted = backups[b].deleted
               /\ row(b) # backups[b] => backups[b].status = "requested" /\ row(b).status = "queued"
    <3>1. CASE Marked(b, s)
      BY <1>1, <3>1 DEF Marked, OpenRequest, Row, RequestStatuses, BackupStatuses
    <3>2. CASE ~ Marked(b, s)
      BY <1>1, <3>2
    <3> QED BY <3>1, <3>2
  <2> HIDE DEF row
  <2>3. backups' \in Seq(Row) /\ Rows' = Rows /\ Len(backups') = Len(backups)
    <3>1. Rows = 1..Len(backups)
      BY RowsAre
    <3>2. backups' \in [1..Len(backups) -> Row]
      BY <2>1, <2>2, <3>1
    <3> QED BY <1>1, <3>1, <3>2 DEF Rows
  <2>4. /\ \A b : Unanswered(b) => Unanswered(b)'
        /\ \A b : Answered(b) => Answered(b)'
        /\ \A b \in Rows : backups'[b].deleted = backups[b].deleted
    BY <2>1, <2>2, <2>3 DEF Unanswered, Answered
  <2>5. /\ WorkerType' /\ \A q \in Procs : q # p => worker'[q] = worker[q]
        /\ worker'[p] = [pass |-> worker[p].pass, at |-> "next", todo |-> worker[p].todo, cur |-> 0]
    BY <2>1, Goes DEF Steps
  <2>6. TypeOK'
    BY <1>2, <2>1, <2>3, <2>5 DEF TypeOK
  <2>7. JobsInv'
    BY <2>1, <2>4, <2>5 DEF JobsInv
  <2>8. PruneInv'
    <3>1. files' \subseteq Rows
      BY <2>1 DEF TypeOK
    <3>2. OrphansWereRefused'
      BY <2>1, <2>4, <3>1 DEF PruneInv, OrphansWereRefused
    <3>3. \A c \in Rows' : backups'[c].deleted => Answered(c)'
      BY <2>3, <2>4 DEF PruneInv
    <3>4. ASSUME NEW q \in Procs
          PROVE  /\ worker'[q].pass \in {"prune", "pruneBlind"} =>
                      \A c \in worker'[q].todo : Answered(c)'
                 /\ worker'[q].at = "softDelete" =>
                      /\ Answered(worker[q].cur)'
                      /\ worker'[q].cur \in files' => worker'[q].cur \in refused'
      <4>1. CASE q = p
        BY <1>2, <2>4, <2>5, <4>1
      <4>2. CASE q # p
        BY <2>1, <2>4, <2>5, <4>2 DEF PruneInv
      <4> QED BY <4>1, <4>2
    <3> QED BY <3>2, <3>3, <3>4 DEF PruneInv
  <2> QED BY <2>5, <2>6, <2>7, <2>8
<1>6. CASE EnqueueError(p) \/ JobRefused(p) \/ \E s \in Sites : RefusedAgain(p, s)
  <2>1. UNCHANGED <<backups, active, files, refused>> /\ faults' \in 0..MaxFaults
    BY <1>6, BackupAssumption DEF EnqueueError, JobRefused, RefusedAgain, Fault, TypeOK
  <2>2. CASE UNCHANGED jobs /\ \E s \in worker[p].todo : Take(p, s, "next", 0)
    <3>1. PICK s \in worker[p].todo : Take(p, s, "next", 0)
      BY <2>2
    <3>2. /\ Moved(p)
          /\ worker'[p] = [pass |-> worker[p].pass, at |-> "next",
                           todo |-> worker[p].todo \ {s}, cur |-> 0]
      BY <3>1, Takes DEF Moved, Steps
    <3> QED BY <1>2, <2>1, <2>2, <3>2, Quiet
  <2>3. CASE UNCHANGED jobs /\ Go(p, "next", 0)
    <3>1. /\ Moved(p)
          /\ worker'[p] = [pass |-> worker[p].pass, at |-> "next", todo |-> worker[p].todo,
                           cur |-> 0]
      BY <2>3, Goes DEF Moved, Steps
    <3> QED BY <1>2, <2>1, <2>3, <3>1, Quiet
  <2>4. CASE /\ worker[p].at = "insertJob" /\ jobs' = jobs \cup {worker[p].cur}
             /\ Go(p, "next", 0)
    <3>1. /\ WorkerType' /\ \A q \in Procs : q # p => worker'[q] = worker[q]
          /\ worker'[p] = [pass |-> worker[p].pass, at |-> "next", todo |-> worker[p].todo,
                           cur |-> 0]
      BY <2>4, Goes DEF Steps
    <3>2. TypeOK'
      BY <1>2, <2>1, <2>4, <3>1 DEF TypeOK, Rows, JobsInv, Unanswered
    <3>3. JobsInv'
      BY <2>1, <2>4, <3>1 DEF JobsInv, Unanswered, Rows
    <3>4. PruneInv'
      BY <1>2, <2>1, <3>1 DEF PruneInv, Answered, OrphansWereRefused, Rows
    <3> QED BY <3>1, <3>2, <3>3, <3>4
  <2> QED BY <1>6, <2>2, <2>3, <2>4 DEF EnqueueError, JobRefused, RefusedAgain, At
<1> QED BY <1>3, <1>4, <1>5, <1>6

LEMMA PruneSteps ==
  ASSUME IInv, NEW p \in Procs,
         (\E b \in Rows : deleteFile(p, b) \/ DeleteFileError(p, b)) \/ softDelete(p)
  PROVE  IInv'
<1> USE DEF IInv
<1>1. Rows \subseteq Nat /\ \A b \in Rows : backups[b] \in Row
  BY RowsAre
<1>2. ASSUME NEW b \in Rows, deleteFile(p, b) \/ DeleteFileError(p, b) PROVE IInv'
  <2>1. /\ UNCHANGED <<backups, active, jobs>> /\ faults' \in 0..MaxFaults
        /\ files' \subseteq files /\ refused \subseteq refused' /\ refused' \subseteq Rows
        /\ b \in files' => b \in refused'
    BY <1>2, BackupAssumption DEF deleteFile, DeleteFileError, Fault, TypeOK
  <2>2. /\ worker[p].pass \in {"prune", "pruneBlind"} /\ b \in worker[p].todo
        /\ Take(p, b, "softDelete", b) /\ Answered(b)
    BY <1>2 DEF deleteFile, DeleteFileError, At, PruneInv
  <2>3. /\ WorkerType' /\ \A q \in Procs : q # p => worker'[q] = worker[q]
        /\ worker'[p] = [pass |-> worker[p].pass, at |-> "softDelete",
                         todo |-> worker[p].todo \ {b}, cur |-> b]
    BY <1>1, <2>2, Takes DEF Steps
  <2>4. TypeOK'
    BY <2>1, <2>2, <2>3 DEF TypeOK, Rows
  <2>5. JobsInv'
    BY <2>1, <2>3 DEF JobsInv, Unanswered, Rows
  <2>6. PruneInv'
    BY <2>1, <2>2, <2>3 DEF PruneInv, Answered, OrphansWereRefused, Rows
  <2> QED BY <2>3, <2>4, <2>5, <2>6
<1>3. CASE softDelete(p)
  <2> DEFINE b == worker[p].cur
             r == [backups[b] EXCEPT !.deleted = TRUE]
  <2>1. /\ UNCHANGED <<active, jobs, files, refused, faults>> /\ Go(p, "next", 0)
        /\ worker[p].at = "softDelete" /\ worker[p].pass \in {"prune", "pruneBlind"}
        /\ backups' = [backups EXCEPT ![b] = r]
    BY <1>3 DEF softDelete, At
  <2>2. Answered(b) /\ (b \in files => b \in refused)
    BY <2>1 DEF PruneInv
  <2>3. /\ r \in Row /\ r.status = backups[b].status /\ r.onDemand = backups[b].onDemand
    BY <1>1, <2>2 DEF Answered, Row
  <2>4. /\ backups' \in Seq(Row) /\ Rows' = Rows /\ Len(backups') = Len(backups)
        /\ backups'[b] = r /\ \A c \in Rows : c # b => backups'[c] = backups[c]
    BY <2>1, <2>2, <2>3, RowChanged DEF Answered
  <2>5. /\ WorkerType' /\ \A q \in Procs : q # p => worker'[q] = worker[q]
        /\ worker'[p] = [pass |-> worker[p].pass, at |-> "next", todo |-> worker[p].todo, cur |-> 0]
    BY <2>1, Goes DEF Steps
  <2> HIDE DEF r, b
  <2>6. (\A c : Unanswered(c) => Unanswered(c)') /\ (\A c : Answered(c) => Answered(c)')
    BY <2>3, <2>4 DEF Unanswered, Answered
  <2>7. TypeOK'
    BY <2>1, <2>4, <2>5 DEF TypeOK
  <2>8. JobsInv'
    BY <2>1, <2>5, <2>6 DEF JobsInv
  <2>9. PruneInv'
    <3>1. files' \subseteq Rows
      BY <2>1 DEF TypeOK
    <3>2. OrphansWereRefused'
      BY <2>1, <2>2, <2>4, <3>1 DEF PruneInv, OrphansWereRefused
    <3>3. \A c \in Rows' : backups'[c].deleted => Answered(c)'
      BY <2>2, <2>4, <2>6 DEF PruneInv
    <3> QED BY <2>1, <2>5, <2>6, <3>2, <3>3 DEF PruneInv
  <2> QED BY <2>5, <2>7, <2>8, <2>9
<1> QED BY <1>2, <1>3

LEMMA EnvironmentSteps ==
  ASSUME IInv,
         \/ \E s \in Sites : Request(s) \/ StatusChanges(s)
         \/ \E b \in Rows : WardenReports(b) \/ RowAges(b)
  PROVE  IInv'
<1> USE DEF IInv
<1>1. Len(backups) \in Nat /\ \A b \in Rows : backups[b] \in Row
  BY RowsAre
<1>2. ASSUME NEW s \in Sites, Request(s) PROVE IInv'
  <2> DEFINE r == [site |-> s, onDemand |-> TRUE, status |-> "requested",
                   age |-> Recent, deleted |-> FALSE]
             b == Len(backups) + 1
  <2>1. r \in Row /\ backups' = Append(backups, r) /\ ~ r.deleted
    BY <1>2 DEF Request, Row, RequestStatuses, Ages, Recent
  <2>2. /\ backups' \in Seq(Row) /\ Rows' = Rows \cup {b} /\ Len(backups') = b
        /\ \A c \in Rows : backups'[c] = backups[c]
        /\ backups'[b] = r
    BY <2>1, RowAdded
  <2>3. UNCHANGED <<active, jobs, files, refused, worker, faults>> /\ Len(backups) < MaxRows
    BY <1>2 DEF Request
  <2> HIDE DEF r
  <2>4. (\A c : Unanswered(c) => Unanswered(c)') /\ (\A c : Answered(c) => Answered(c)')
    BY <2>2 DEF Unanswered, Answered
  <2>5. TypeOK' /\ WorkerType'
    BY <1>1, <2>2, <2>3, BackupAssumption DEF TypeOK, WorkerType
  <2>6. JobsInv'
    BY <2>3, <2>4 DEF JobsInv
  <2>7. PruneInv'
    <3>1. files' \subseteq Rows
      BY <2>3 DEF TypeOK
    <3> QED BY <2>1, <2>2, <2>3, <2>4, <3>1 DEF PruneInv, OrphansWereRefused
  <2> QED BY <2>5, <2>6, <2>7
<1>3. ASSUME NEW s \in Sites, StatusChanges(s) PROVE IInv'
  <2>1. UNCHANGED <<backups, jobs, files, refused, worker, faults>> /\ active' \subseteq Sites
    BY <1>3 DEF StatusChanges, TypeOK
  <2>2. TypeOK' /\ WorkerType'
    BY <2>1 DEF TypeOK, WorkerType, Rows
  <2>3. JobsInv' /\ PruneInv'
    BY <2>1 DEF JobsInv, PruneInv, Unanswered, Answered, OrphansWereRefused, Rows
  <2> QED BY <2>2, <2>3
<1>4. ASSUME NEW b \in Rows, NEW r \in Row, backups' = [backups EXCEPT ![b] = r],
             r.onDemand = backups[b].onDemand, r.deleted = backups[b].deleted,
             b \in jobs' => r.status = backups[b].status,
             r.status # backups[b].status => b \in jobs /\ r.status # "pending",
             jobs' \subseteq jobs, files' \subseteq files \cup {b},
             b \in files' \ files => backups[b].status = "pending",
             UNCHANGED <<active, refused, worker, faults>>
      PROVE  IInv'
  <2>1. /\ backups' \in Seq(Row) /\ Rows' = Rows /\ Len(backups') = Len(backups)
        /\ backups'[b] = r /\ \A c \in Rows : c # b => backups'[c] = backups[c]
    BY <1>4, RowChanged
  <2>2. /\ \A c : Unanswered(c) /\ (c = b => c \in jobs') => Unanswered(c)'
        /\ \A c : Unanswered(c) /\ (c = b => c \notin jobs) => Unanswered(c)'
    BY <1>4, <2>1 DEF Unanswered
  <2>3. \A c : Answered(c) => Answered(c)'
    <3>1. backups[b].status = "completed" => r.status = "completed"
      BY <1>4 DEF JobsInv, Unanswered
    <3> QED BY <2>1, <3>1 DEF Answered
  <2>4. TypeOK' /\ WorkerType'
    BY <1>4, <2>1 DEF TypeOK, WorkerType
  <2>5. JobsInv'
    BY <1>4, <2>2 DEF JobsInv
  <2>6. PruneInv'
    <3>1. \A c \in Rows : backups'[c].deleted = backups[c].deleted
      BY <1>4, <2>1
    <3>2. \A c \in files' : c \in Rows /\ (c \in files \/ backups[c].status = "pending")
      BY <1>4 DEF TypeOK
    <3>3. OrphansWereRefused'
      BY <1>4, <3>1, <3>2 DEF PruneInv, OrphansWereRefused, Answered
    <3>4. \A c \in Rows' : backups'[c].deleted => Answered(c)'
      BY <2>1, <2>3, <3>1 DEF PruneInv
    <3>5. \A q \in Procs : worker[q].at = "softDelete" /\ worker[q].cur \in files'
                             => worker[q].cur \in refused
      BY <3>2 DEF PruneInv, Answered
    <3> QED BY <1>4, <2>3, <3>3, <3>4, <3>5 DEF PruneInv
  <2> QED BY <2>4, <2>5, <2>6
<1>5. ASSUME NEW b \in Rows, WardenReports(b) PROVE IInv'
  <2>1. b \in jobs /\ ~ backups[b].onDemand /\ backups[b].status = "pending"
    BY <1>5 DEF WardenReports, JobsInv, Unanswered
  <2>2. ASSUME NEW x \in {"completed", "failed"}
        PROVE  LET r == [backups[b] EXCEPT !.status = x]
               IN  /\ r \in Row /\ r.onDemand = backups[b].onDemand
                   /\ r.deleted = backups[b].deleted /\ r.status = x
    BY <1>1, <2>1 DEF Row, BackupStatuses, RequestStatuses
  <2>3. PICK x \in {"completed", "failed"} : backups' = [backups EXCEPT ![b].status = x]
    BY <1>5 DEF WardenReports
  <2> DEFINE r == [backups[b] EXCEPT !.status = x]
  <2>4. /\ backups' = [backups EXCEPT ![b] = r] /\ jobs' = jobs \ {b}
        /\ files' \subseteq files \cup {b} /\ UNCHANGED <<active, refused, worker, faults>>
    BY <1>5, <2>3 DEF WardenReports
  <2>5. r \in Row /\ r.onDemand = backups[b].onDemand /\ r.deleted = backups[b].deleted
        /\ r.status = x
    BY <2>2
  <2> HIDE DEF r
  <2> QED BY <1>4, <2>1, <2>4, <2>5
<1>6. ASSUME NEW b \in Rows, RowAges(b) PROVE IInv'
  <2> DEFINE r == [backups[b] EXCEPT !.age = @ + 1]
  <2>1. /\ backups' = [backups EXCEPT ![b] = r] /\ UNCHANGED <<active, jobs, files, refused, worker, faults>>
        /\ backups[b].age < Expired
    BY <1>6 DEF RowAges
  <2>2. /\ r \in Row /\ r.onDemand = backups[b].onDemand /\ r.deleted = backups[b].deleted
        /\ r.status = backups[b].status
    <3>1. backups[b].age \in Ages
      BY <1>1 DEF Row
    <3>2. backups[b].age + 1 \in Ages
      BY <2>1, <3>1 DEF Ages, Expired
    <3> QED BY <1>1, <3>2 DEF Row
  <2> HIDE DEF r
  <2> QED BY <1>4, <2>1, <2>2
<1> QED BY <1>2, <1>3, <1>5, <1>6

LEMMA NextInv == IInv /\ [Next]_vars => IInv'
<1> SUFFICES ASSUME IInv, [Next]_vars PROVE IInv'
  OBVIOUS
<1>1. ASSUME NEW p \in Procs, ScheduleStep(p) \/ PruneExpired(p) \/ PruneStep(p) \/ WorkerFault(p)
      PROVE  IInv'
  BY <1>1, QuietSteps, EnqueueSteps, PruneSteps DEF ScheduleStep, PruneStep, WorkerFault
<1>2. CASE \/ \E s \in Sites : Request(s) \/ StatusChanges(s)
           \/ \E b \in Rows : WardenReports(b) \/ RowAges(b)
  BY <1>2, EnvironmentSteps
<1>3. CASE UNCHANGED vars
  BY <1>3 DEF IInv, TypeOK, WorkerType, JobsInv, PruneInv, Unanswered, Answered,
     OrphansWereRefused, Rows, vars
<1> QED BY <1>1, <1>2, <1>3 DEF Next
-----------------------------------------------------------------------------
(* The theorems.                                                             *)

LEMMA Inductive == Spec => []IInv
BY InitInv, NextInv, PTL DEF Spec

(* Every reachable state is well typed; Warden's results, among others, are
   stored only in rows of the worker's own.                                  *)
THEOREM TypeCorrect == Spec => []TypeOK
<1>1. IInv => TypeOK
  BY DEF IInv
<1> QED BY <1>1, Inductive, PTL

(* Any number of processes prune, crash and lose statements in any order, and
   still no row is deleted with its file in B2 unless B2 was not brought to
   delete it.                                                                *)
THEOREM OrphansWereRefusedHolds == Spec => []OrphansWereRefused
<1>1. IInv => OrphansWereRefused
  BY DEF IInv, PruneInv
<1> QED BY <1>1, Inductive, PTL
-----------------------------------------------------------------------------
(* One process: what its list of due sites is worth while it works on it.    *)

OneProcess == \A p, q \in Procs : p = q

StillDue ==
  \A p \in Procs : worker[p].pass = "schedule" => \A s \in worker[p].todo : ~ InFlight(s)

LEMMA InitDue == Init => StillDue
BY DEF Init, Idle, StillDue

LEMMA NextDue == OneProcess /\ IInv /\ StillDue /\ [Next]_vars => StillDue'
<1> SUFFICES ASSUME OneProcess, IInv, StillDue, [Next]_vars PROVE StillDue'
  OBVIOUS
<1>1. TypeOK /\ WorkerType
  BY DEF IInv
<1>2. ASSUME UNCHANGED backups,
             \A p \in Procs : worker'[p].pass = "schedule" =>
               worker[p].pass = "schedule" /\ worker'[p].todo \subseteq worker[p].todo
      PROVE  StillDue'
  BY <1>2 DEF StillDue, InFlight, Rows
<1>3. ASSUME NEW p \in Procs, ScheduleStep(p) \/ PruneExpired(p) \/ PruneStep(p) \/ WorkerFault(p)
      PROVE  StillDue'
  <2>1. \A q \in Procs : q = p
    BY DEF OneProcess
  <2>2. CASE GetSitesDueForBackup(p)
    BY <1>1, <2>1, <2>2 DEF GetSitesDueForBackup, Begin, Due, StillDue, InFlight, Rows, WorkerType
  <2>3. CASE QueryError(p)
    BY <1>1, <2>1, <2>3 DEF QueryError, Begin, Idle, StillDue, WorkerType
  <2>4. ASSUME NEW s \in Sites, insertBackup(p, s) PROVE StillDue'
    <3> DEFINE r == [site |-> s, onDemand |-> FALSE, status |-> "pending",
                     age |-> Recent, deleted |-> FALSE]
               b == Len(backups) + 1
    <3>1. r \in Row /\ backups' = Append(backups, r) /\ r.site = s
      BY <2>4 DEF insertBackup, Row, BackupStatuses, Ages, Recent
    <3>2. /\ Rows' = Rows \cup {b} /\ \A c \in Rows : backups'[c] = backups[c]
          /\ backups'[b] = r
      BY <1>1, <3>1, RowAdded
    <3>3. worker'[p].pass = worker[p].pass /\ worker'[p].todo = worker[p].todo \ {s}
      BY <1>1, <2>4 DEF insertBackup, Take, WorkerType
    <3> HIDE DEF r, b
    <3>4. \A x : x # s /\ InFlight(x)' => InFlight(x)
      BY <3>1, <3>2 DEF InFlight
    <3> QED BY <2>1, <3>3, <3>4 DEF StillDue
  <2>5. CASE insertJob(p) \/ EnqueueError(p) \/ JobRefused(p) \/ \E s \in Sites : RefusedAgain(p, s)
    BY <1>1, <1>2, <2>1, <2>5
       DEF insertJob, EnqueueError, JobRefused, RefusedAgain, Go, Take, WorkerType
  <2>6. CASE GetOnDemandSites(p) \/ PruneExpired(p) \/ PruneImpaired(p)
    BY <1>1, <2>1, <2>6 DEF GetOnDemandSites, PruneExpired, PruneImpaired, Begin, StillDue, WorkerType
  <2>7. CASE EndPass(p) \/ Restart(p)
    BY <1>1, <2>1, <2>7 DEF EndPass, Restart, Idle, StillDue, WorkerType
  <2>8. CASE markQueued(p) \/ softDelete(p) \/ SoftDeleteError(p)
    BY <1>1, <2>1, <2>8 DEF markQueued, softDelete, SoftDeleteError, At, Go, StillDue, WorkerType
  <2>9. ASSUME NEW b \in Rows, deleteFile(p, b) \/ DeleteFileError(p, b) PROVE StillDue'
    BY <1>1, <2>1, <2>9 DEF deleteFile, DeleteFileError, At, Take, StillDue, WorkerType
  <2> QED BY <1>3, <2>2, <2>3, <2>4, <2>5, <2>6, <2>7, <2>8, <2>9
       DEF ScheduleStep, PruneStep, WorkerFault
<1>4. ASSUME NEW s \in Sites, Request(s) PROVE StillDue'
  <2> DEFINE r == [site |-> s, onDemand |-> TRUE, status |-> "requested",
                   age |-> Recent, deleted |-> FALSE]
             b == Len(backups) + 1
  <2>1. r \in Row /\ backups' = Append(backups, r) /\ r.status = "requested"
    BY <1>4 DEF Request, Row, RequestStatuses, Ages, Recent
  <2>2. /\ Rows' = Rows \cup {b} /\ \A c \in Rows : backups'[c] = backups[c]
        /\ backups'[b] = r
    BY <1>1, <2>1, RowAdded
  <2> HIDE DEF r, b
  <2>3. \A x : InFlight(x)' => InFlight(x)
    BY <2>1, <2>2 DEF InFlight
  <2> QED BY <1>4, <2>3 DEF Request, StillDue
<1>5. CASE \E s \in Sites : StatusChanges(s)
  BY <1>2, <1>5 DEF StatusChanges
<1>6. ASSUME NEW b \in Rows, WardenReports(b) \/ RowAges(b) PROVE StillDue'
  <2>1. /\ Rows' = Rows /\ \A c \in Rows : c # b => backups'[c] = backups[c]
        /\ backups'[b].site = backups[b].site /\ backups'[b].deleted = backups[b].deleted
        /\ backups'[b].status \in {backups[b].status, "completed", "failed"}
    <3>1. backups \in [Rows -> Row]
      BY <1>1, RowsAre DEF TypeOK, Rows
    <3>2. PICK r : /\ backups' = [backups EXCEPT ![b] = r]
                   /\ r.site = backups[b].site /\ r.deleted = backups[b].deleted
                   /\ r.status \in {backups[b].status, "completed", "failed"}
      BY <1>6, <3>1 DEF WardenReports, RowAges, Row
    <3> QED BY <3>1, <3>2 DEF Rows
  <2>2. \A x : InFlight(x)' => InFlight(x)
    BY <2>1 DEF InFlight
  <2> QED BY <1>6, <2>2 DEF WardenReports, RowAges, StillDue
<1>7. CASE UNCHANGED vars
  BY <1>2, <1>7 DEF vars
<1> QED BY <1>3, <1>4, <1>5, <1>6, <1>7 DEF Next

(* With one process no scheduled backup is begun beside one in flight, although
   the list the pass works on goes stale meanwhile.                          *)
THEOREM NoPileUpHolds ==
  ASSUME OneProcess
  PROVE  Spec => NoPileUp
<1> DEFINE NoneInFlight == \A p \in Procs, s \in Sites :
             insertBackup(p, s) /\ worker[p].pass = "schedule" => ~ InFlight(s)
<1>1. Init => StillDue
  BY InitDue
<1>2. IInv /\ StillDue /\ [Next]_vars => StillDue'
  BY NextDue
<1>3. StillDue => [NoneInFlight]_vars
  BY DEF StillDue, insertBackup
<1>4. NoPileUp <=> [][NoneInFlight]_vars
  BY DEF NoPileUp
<1> HIDE DEF NoneInFlight
<1> QED BY <1>1, <1>2, <1>3, <1>4, Inductive, PTL DEF Spec
=============================================================================
