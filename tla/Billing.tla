------------------------------- MODULE Billing -------------------------------
(***************************************************************************)
(* The billing worker (workers/billing): the queue stripe_events and the   *)
(* dunning of subscriptions.  One goroutine per process alternates between *)
(* processEvents, which claims the stored events one by one and handles    *)
(* each, and Advance, which escalates the subscriptions that are due.      *)
(* Both work on rows read before the first of them is handled.  Of the     *)
(* dates of a row the code only asks whether the next action's has come.   *)
(* Stripe, which stores the events, is outside.                            *)
(***************************************************************************)
EXTENDS Naturals, Sequences, FiniteSets

CONSTANTS
  Procs,
  Subs,         \* subscriptions, each of a user of its own
  eventLimit,   \* the LIMIT of the query in processEvents
  MaxEvents,    \* bound on the events Stripe stores
  MaxFaults     \* bound on failed statements and crashes

ASSUME BillingAssumption ==
  /\ IsFiniteSet(Procs) /\ IsFiniteSet(Subs)
  /\ eventLimit \in Nat \ {0} /\ MaxEvents \in Nat /\ MaxFaults \in Nat

VARIABLES
  subs,       \* rows of subscriptions
  suspended,  \* subscriptions whose user's instances are suspended
  events,     \* rows of stripe_events, by created_at
  todo,       \* per process, the events read and not yet dealt with
  plan,       \* per process, the due subscriptions read and not yet dealt with
  handled,    \* per event, how often its handler was started (history)
  faults

vars == <<subs, suspended, events, todo, plan, handled, faults>>

\* "other": charge.dispute.created and the types without a handler.
Types  == {"payment_failed", "payment_succeeded", "deleted", "updated", "other"}
Stages == {"none", "warning_1", "warning_2", "final_warning", "suspended"}
States == {"active", "past_due", "cancelled"}

\* dunning_next_action_at is NULL, in the future, or past.
Timers == {"off", "set", "due"}

Sub   == [status : States, stage : Stages, timer : Timers]
Event == [sub : Subs, type : Types, processed : BOOLEAN]

\* A row that was read, and what the process does with it next.
Task   == [event : 1..MaxEvents, next : {"claim", "handle", "reset"}]
DueRow == [sub : Subs, stage : Stages,
           next : {"escalate", "suspendInstances", "advance"}]

Fault == faults < MaxFaults /\ faults' = faults + 1

Idle(p) == todo[p] = {} /\ plan[p] = {}

Init ==
  /\ subs = [s \in Subs |-> [status |-> "active", stage |-> "none", timer |-> "off"]]
  /\ suspended = {}
  /\ events = <<>>
  /\ todo = [p \in Procs |-> {}] /\ plan = [p \in Procs |-> {}]
  /\ handled = [e \in 1..MaxEvents |-> 0]
  /\ faults = 0
-----------------------------------------------------------------------------
(* The events.                                                             *)

Unprocessed == {e \in DOMAIN events : ~ events[e].processed}

\* Faulty variants: the newest events first; one event too many.
NewestFirst(E) == {e \in E : Cardinality({f \in E : f > e}) < eventLimit}
OneMore(E)     == {e \in E : Cardinality({f \in E : f < e}) <= eventLimit}

Oldest(E) == {e \in E : Cardinality({f \in E : f < e}) < eventLimit}

processEvents(p) ==
  /\ Idle(p)
  /\ Unprocessed # {}
  /\ todo' = [todo EXCEPT ![p] = {[event |-> e, next |-> "claim"] : e \in Oldest(Unprocessed)}]
  /\ UNCHANGED <<subs, suspended, events, plan, handled, faults>>

\* The rows are dealt with in the order of the query.
Current(p, t) == t \in todo[p] /\ \A u \in todo[p] : t.event <= u.event

Drop(p, t)       == todo' = [todo EXCEPT ![p] = @ \ {t}]
Goto(p, t, next) == todo' = [todo EXCEPT ![p] = (@ \ {t}) \cup {[t EXCEPT !.next = next]}]

SetProcessed(e) == events' = [events EXCEPT ![e].processed = TRUE]

\* Faulty variant: the UPDATE without its condition on processed_at.
claimEventAgain(p, t) ==
  /\ Current(p, t) /\ t.next = "claim"
  /\ SetProcessed(t.event)
  /\ Goto(p, t, "handle")
  /\ UNCHANGED <<subs, suspended, plan, handled, faults>>

claimEvent(p, t) ==
  /\ Current(p, t) /\ t.next = "claim"
  /\ ~ events[t.event].processed
  /\ SetProcessed(t.event)
  /\ Goto(p, t, "handle")
  /\ UNCHANGED <<subs, suspended, plan, handled, faults>>

\* Another process was faster: 0 rows affected.
ClaimLost(p, t) ==
  /\ Current(p, t) /\ t.next = "claim"
  /\ events[t.event].processed
  /\ Drop(p, t)
  /\ UNCHANGED <<subs, suspended, events, plan, handled, faults>>

\* The UPDATE returns an error, applied or not: the event is skipped.
ClaimError(p, t) ==
  /\ Current(p, t) /\ t.next = "claim"
  /\ Fault
  /\ \/ UNCHANGED events
     \/ SetProcessed(t.event)
  /\ Drop(p, t)
  /\ UNCHANGED <<subs, suspended, plan, handled>>

Handles(p, t, type) ==
  /\ Current(p, t) /\ t.next = "handle"
  /\ events[t.event].type = type
  /\ handled' = [handled EXCEPT ![t.event] = @ + 1]

SubOf(t) == events[t.event].sub

\* Dunning is started unless it is active already.
startDunning(row) ==
  IF row.stage = "none"
  THEN [row EXCEPT !.stage = "warning_1", !.timer = "set"]
  ELSE row

HandlePaymentFailed(p, t) ==
  /\ Handles(p, t, "payment_failed")
  /\ subs' = [subs EXCEPT ![SubOf(t)] = startDunning(@)]
  /\ Drop(p, t)
  /\ UNCHANGED <<suspended, events, plan, faults>>

\* HandlePaymentSucceeded: the invoice first, which nothing else reads ...
upsertInvoice(p, t) ==
  /\ Handles(p, t, "payment_succeeded")
  /\ Goto(p, t, "reset")
  /\ UNCHANGED <<subs, suspended, events, plan, faults>>

\* ... then dunning is cleared, if there is any.
resetDunning(p, t) ==
  /\ Current(p, t) /\ t.next = "reset"
  /\ subs' = [subs EXCEPT ![SubOf(t)] =
       IF @.stage = "none" THEN @
       ELSE [@ EXCEPT !.stage = "none", !.timer = "off", !.status = "active"]]
  /\ Drop(p, t)
  /\ UNCHANGED <<suspended, events, plan, handled, faults>>

handleSubscriptionDeleted(p, t) ==
  /\ Handles(p, t, "deleted")
  /\ subs' = [subs EXCEPT ![SubOf(t)].status = "cancelled"]
  /\ Drop(p, t)
  /\ UNCHANGED <<suspended, events, plan, faults>>

\* Whatever status Stripe sends.
handleSubscriptionUpdated(p, t) ==
  /\ Handles(p, t, "updated")
  /\ \E status \in States : subs' = [subs EXCEPT ![SubOf(t)].status = status]
  /\ Drop(p, t)
  /\ UNCHANGED <<suspended, events, plan, faults>>

\* A dispute is noted in the audit log; another type is only logged.
handleDisputeCreated(p, t) ==
  /\ Handles(p, t, "other")
  /\ Drop(p, t)
  /\ UNCHANGED <<subs, suspended, events, plan, faults>>

\* A statement of a handler fails, or the payload does not parse: the error is
\* logged and the event is over.
HandlerError(p, t) ==
  /\ Current(p, t)
  /\ Fault
  /\ \/ t.next = "reset" /\ UNCHANGED handled
     \/ Handles(p, t, events[t.event].type)
  /\ Drop(p, t)
  /\ UNCHANGED <<subs, suspended, events, plan>>
-----------------------------------------------------------------------------
(* Dunning.                                                                *)

Due(s) == subs[s].stage \notin {"none", "suspended"} /\ subs[s].timer = "due"

Advance(p) ==
  /\ Idle(p)
  /\ \E s \in Subs : Due(s)
  /\ plan' = [plan EXCEPT ![p] =
       {[sub |-> s, stage |-> subs[s].stage, next |-> "escalate"] :
          s \in {u \in Subs : Due(u)}}]
  /\ UNCHANGED <<subs, suspended, events, todo, handled, faults>>

\* The row that is being escalated, or one to begin with.
InTurn(p, r) ==
  r \in plan[p] /\ \A q \in plan[p] : q.next # "escalate" => q = r

Leave(p, r)     == plan' = [plan EXCEPT ![p] = @ \ {r}]
Go(p, r, next)  == plan' = [plan EXCEPT ![p] = (@ \ {r}) \cup {[r EXCEPT !.next = next]}]

\* advance: the UPDATE looks at the id alone.
advance(s, stage, timer) ==
  subs' = [subs EXCEPT ![s].stage = stage, ![s].timer = timer]

\* Faulty variant: the final warning has no date for what follows.
escalateToNowhere(p, r) ==
  /\ InTurn(p, r) /\ r.next = "escalate"
  /\ \/ r.stage = "warning_1" /\ advance(r.sub, "warning_2", "set")
     \/ r.stage = "warning_2" /\ advance(r.sub, "final_warning", "off")
  /\ Leave(p, r)
  /\ UNCHANGED <<suspended, events, todo, handled, faults>>

escalateWarning(p, r) ==
  /\ InTurn(p, r) /\ r.next = "escalate"
  /\ \/ r.stage = "warning_1" /\ advance(r.sub, "warning_2", "set")
     \/ r.stage = "warning_2" /\ advance(r.sub, "final_warning", "set")
  /\ Leave(p, r)
  /\ UNCHANGED <<suspended, events, todo, handled, faults>>

\* suspend: two statements, then the stage.
markPastDue(p, r) ==
  /\ InTurn(p, r) /\ r.next = "escalate" /\ r.stage = "final_warning"
  /\ subs' = [subs EXCEPT ![r.sub].status = "past_due"]
  /\ Go(p, r, "suspendInstances")
  /\ UNCHANGED <<suspended, events, todo, handled, faults>>

suspendInstances(p, r) ==
  /\ InTurn(p, r) /\ r.next = "suspendInstances"
  /\ suspended' = suspended \cup {r.sub}
  /\ Go(p, r, "advance")
  /\ UNCHANGED <<subs, events, todo, handled, faults>>

advanceToSuspended(p, r) ==
  /\ InTurn(p, r) /\ r.next = "advance"
  /\ advance(r.sub, "suspended", "off")
  /\ Leave(p, r)
  /\ UNCHANGED <<suspended, events, todo, handled, faults>>

\* A statement fails: escalate returns, and the row is due as before.
EscalateError(p, r) ==
  /\ InTurn(p, r)
  /\ Fault
  /\ Leave(p, r)
  /\ UNCHANGED <<subs, suspended, events, todo, handled>>
-----------------------------------------------------------------------------
(* Stripe, time, and the end of a process.                                 *)

StripeSends ==
  /\ Len(events) < MaxEvents
  /\ \E s \in Subs, type \in Types :
       events' = Append(events, [sub |-> s, type |-> type, processed |-> FALSE])
  /\ UNCHANGED <<subs, suspended, todo, plan, handled, faults>>

\* The date of the next action comes.
DateComes(s) ==
  /\ subs[s].timer = "set"
  /\ subs' = [subs EXCEPT ![s].timer = "due"]
  /\ UNCHANGED <<suspended, events, todo, plan, handled, faults>>

Restart(p) ==
  /\ Fault
  /\ todo' = [todo EXCEPT ![p] = {}]
  /\ plan' = [plan EXCEPT ![p] = {}]
  /\ UNCHANGED <<subs, suspended, events, handled>>

HandleStep(p, t) ==
  \/ claimEvent(p, t) \/ ClaimLost(p, t)
  \/ HandlePaymentFailed(p, t) \/ upsertInvoice(p, t) \/ resetDunning(p, t)
  \/ handleSubscriptionDeleted(p, t) \/ handleSubscriptionUpdated(p, t)
  \/ handleDisputeCreated(p, t)

EscalateStep(p, r) ==
  \/ escalateWarning(p, r) \/ markPastDue(p, r)
  \/ suspendInstances(p, r) \/ advanceToSuspended(p, r)

RowStep(p) ==
  \/ \E t \in todo[p] : HandleStep(p, t)
  \/ \E r \in plan[p] : EscalateStep(p, r)

FaultStep(p) ==
  \/ \E t \in todo[p] : ClaimError(p, t) \/ HandlerError(p, t)
  \/ \E r \in plan[p] : EscalateError(p, r)
  \/ Restart(p)

Next ==
  \/ \E p \in Procs : processEvents(p) \/ Advance(p) \/ RowStep(p) \/ FaultStep(p)
  \/ \E s \in Subs : DateComes(s)
  \/ StripeSends

Spec == Init /\ [][Next]_vars

\* The dunning ticker fires, statements return and time passes; nothing is assumed of the
\* other ticker, of Stripe or of the faults.
Fairness ==
  /\ \A p \in Procs : WF_vars(Advance(p)) /\ WF_vars(RowStep(p))
  /\ \A s \in Subs : WF_vars(DateComes(s))

FairSpec == Spec /\ Fairness
-----------------------------------------------------------------------------
(* Properties.                                                             *)

TypeOK ==
  /\ subs \in [Subs -> Sub]
  /\ suspended \subseteq Subs
  /\ events \in Seq(Event) /\ Len(events) <= MaxEvents
  /\ todo \in [Procs -> SUBSET Task]
  /\ \A p \in Procs : Cardinality(todo[p]) <= eventLimit
  /\ plan \in [Procs -> SUBSET DueRow]
  /\ handled \in [1..MaxEvents -> Nat]
  /\ faults \in 0..MaxFaults

\* An event is handled at most once, whichever processes read it and wherever one of them
\* stops or loses an answer: only who sets processed_at handles it.
HandledOnce == \A e \in DOMAIN handled : handled[e] <= 1

\* An event that a process has claimed and is about to handle.
InHand(e) == \E p \in Procs : \E t \in todo[p] : t.event = e /\ t.next = "handle"

Overtaken == {e \in DOMAIN events : /\ handled[e] = 0 /\ ~ InHand(e)
                                   /\ \E f \in DOMAIN events : f > e /\ handled[f] > 0}

\* Several processes read overlapping lists and claim from them at their own pace, so events
\* in different hands take effect in any order.  But none is passed over: an event that is in
\* nobody's hands while a later one has been handled was lost or put off by a fault of its own.
OvertakenPaidByFaults == Cardinality(Overtaken) <= faults

\* A customer who does not pay is suspended in the end, also when statements of
\* an escalation fail half-way.
UnpaidIsSuspended ==
  \A s \in Subs :
    subs[s].stage # "none" ~> subs[s].stage = "none"
                              \/ (subs[s].stage = "suspended" /\ s \in suspended)

\* Each stage is idempotent: the current step is checked before advancing
\* (dunning.go:3-4), to a warning or to the suspension.
ChecksCurrentStage ==
  [][\A p \in Procs : \A r \in plan[p] :
       escalateWarning(p, r) \/ markPastDue(p, r) \/ advanceToSuspended(p, r)
         => subs[r.sub].stage = r.stage]_vars
=============================================================================
