----------------------------- MODULE ClaimQueue -----------------------------
(***************************************************************************)
(* What the provisioning worker promises about provisioning_jobs, whatever *)
(* the number of worker processes and whatever crashes or statements fail: *)
(* a job is in at most one pair of hands, it is handed out at most Limit   *)
(* times, and once no worker holds it and it is not waiting, no worker     *)
(* ever takes it up again.                                                 *)
(***************************************************************************)
EXTENDS Naturals

CONSTANTS Jobs, Limit

VARIABLES
  phase,   \* [Jobs -> {"queued", "dispatched", "closed"}]
  claims   \* [Jobs -> Nat], how often each job was handed out

vars == <<phase, claims>>

Init == /\ phase = [j \in Jobs |-> "queued"]
        /\ claims = [j \in Jobs |-> 0]

\* A worker takes the job; "closed": the claim is recorded but its answer is lost.
Claim(j) == /\ phase[j] = "queued"
            /\ claims[j] < Limit
            /\ claims' = [claims EXCEPT ![j] = @ + 1]
            /\ \E h \in {"dispatched", "closed"} : phase' = [phase EXCEPT ![j] = h]

\* The holder gives the job back for another attempt.
Requeue(j) == /\ phase[j] = "dispatched"
              /\ phase' = [phase EXCEPT ![j] = "queued"]
              /\ UNCHANGED claims

\* Some holders let go for good (one of them by itself, or all that a process
\* held when it stops), or a waiting job is settled by a late report.
Close(S) == /\ S # {}
            /\ \A j \in S : phase[j] # "closed"
            /\ phase' = [j \in Jobs |-> IF j \in S THEN "closed" ELSE phase[j]]
            /\ UNCHANGED claims

Next == \/ \E j \in Jobs : Claim(j) \/ Requeue(j)
        \/ \E S \in SUBSET Jobs : Close(S)

Spec == Init /\ [][Next]_vars
=============================================================================
