---------------------------- MODULE BillingProofs ----------------------------
(***************************************************************************)
(* Theorems about the event queue of the billing worker, for any number of *)
(* processes, subscriptions, events and faults: what the claim keeps apart,*)
(* and that no event is passed over but by a fault of its own.             *)
(***************************************************************************)
EXTENDS Billing, FiniteSetTheorems, SequenceTheorems, TLAPS

(* The LIMIT of a query over numbered rows.                                  *)
LEMMA OldestFew ==
  ASSUME NEW E, E \subseteq Nat, IsFiniteSet(E)
  PROVE  /\ Oldest(E) \subseteq E /\ IsFiniteSet(Oldest(E))
         /\ Cardinality(Oldest(E)) <= eventLimit
<1> DEFINE rank == [e \in Oldest(E) |-> Cardinality({f \in E : f < e})]
           limit == 0..(eventLimit - 1)
<1>1. Oldest(E) \subseteq E /\ IsFiniteSet(Oldest(E))
  BY FS_Subset DEF Oldest
<1>2. \A e \in Oldest(E) : rank[e] \in limit
  <2> SUFFICES ASSUME NEW e \in Oldest(E) PROVE rank[e] \in limit
    OBVIOUS
  <2>1. Cardinality({f \in E : f < e}) \in Nat
    BY FS_Subset, FS_CardinalityType
  <2> QED BY <2>1, BillingAssumption DEF Oldest
<1>3. ASSUME NEW e \in Oldest(E), NEW g \in Oldest(E), e < g PROVE rank[e] # rank[g]
  <2> DEFINE below == {f \in E : f < e}
             before == {f \in E : f < g}
  <2>1. e \in Nat /\ g \in Nat /\ e \in before /\ e \notin below
    <3>1. e \in E /\ g \in E /\ e \in Nat /\ g \in Nat
      BY <1>1
    <3> QED BY <1>3, <3>1
  <2>2. below \subseteq before
    <3> SUFFICES ASSUME NEW f \in E, f < e PROVE f < g
      OBVIOUS
    <3>1. f \in Nat
      OBVIOUS
    <3> QED BY <1>3, <2>1, <3>1
  <2>3. IsFiniteSet(before)
    BY FS_Subset
  <2>4. below # before
    BY <2>1
  <2>5. Cardinality(before) # Cardinality(below)
    <3> HIDE DEF below, before
    <3> QED BY <2>2, <2>3, <2>4, FS_Subset
  <2> QED BY <2>5
<1>4. rank \in Injection(Oldest(E), limit)
  <2>1. \A e, g \in Oldest(E) : rank[e] = rank[g] => e = g
    <3> SUFFICES ASSUME NEW e \in Oldest(E), NEW g \in Oldest(E), rank[e] = rank[g] PROVE e = g
      OBVIOUS
    <3>1. e \in Nat /\ g \in Nat /\ ~ (e < g) /\ ~ (g < e)
      BY <1>1, <1>3
    <3> QED BY <3>1
  <2>2. rank \in [Oldest(E) -> limit]
    BY <1>2
  <2> HIDE DEF rank, limit
  <2> QED BY <2>1, <2>2 DEF Injection, IsInjective
<1>5. IsFiniteSet(limit) /\ Cardinality(limit) = eventLimit
  BY BillingAssumption, FS_Interval
<1> HIDE DEF rank, limit
<1> QED BY <1>1, <1>4, <1>5, FS_Injection

LEMMA Counted ==
  ASSUME NEW T, IsFiniteSet(T), NEW t \in T, NEW new
  PROVE  /\ IsFiniteSet(T \ {t}) /\ Cardinality(T \ {t}) <= Cardinality(T)
         /\ IsFiniteSet((T \ {t}) \cup {new})
         /\ Cardinality((T \ {t}) \cup {new}) <= Cardinality(T)
<1> DEFINE rest == T \ {t}
<1>1. IsFiniteSet(rest) /\ Cardinality(rest) = Cardinality(T) - 1 /\ Cardinality(T) \in Nat
  BY FS_RemoveElement, FS_CardinalityType
<1> HIDE DEF rest
<1>2. IsFiniteSet(rest \cup {new}) /\ Cardinality(rest \cup {new}) <= Cardinality(rest) + 1
  <2>1. Cardinality(rest) \in Nat
    BY <1>1, FS_CardinalityType
  <2>2. /\ IsFiniteSet(rest \cup {new})
        /\ Cardinality(rest \cup {new}) = IF new \in rest THEN Cardinality(rest)
                                          ELSE Cardinality(rest) + 1
    BY <1>1, FS_AddElement
  <2> QED BY <2>1, <2>2
<1> QED BY <1>1, <1>2, FS_CardinalityType DEF rest

(* What processEvents puts on its list.                                      *)
LEMMA ListsFew ==
  ASSUME NEW E, E \subseteq Nat, IsFiniteSet(E)
  PROVE  /\ IsFiniteSet({[event |-> e, next |-> "claim"] : e \in Oldest(E)})
         /\ Cardinality({[event |-> e, next |-> "claim"] : e \in Oldest(E)}) <= eventLimit
<1> DEFINE list == {[event |-> e, next |-> "claim"] : e \in Oldest(E)}
           number == [t \in list |-> t.event]
<1>1. number \in Injection(list, Oldest(E))
  <2>1. number \in [list -> Oldest(E)]
    OBVIOUS
  <2>2. \A t, u \in list : number[t] = number[u] => t = u
    OBVIOUS
  <2> HIDE DEF number, list
  <2> QED BY <2>1, <2>2 DEF Injection, IsInjective
<1> HIDE DEF number, list
<1>2. IsFiniteSet(list) /\ Cardinality(list) <= Cardinality(Oldest(E))
  BY <1>1, OldestFew, FS_Injection
<1>3. Cardinality(list) \in Nat /\ Cardinality(Oldest(E)) \in Nat
  BY <1>2, OldestFew, FS_CardinalityType
<1>4. Cardinality(list) <= eventLimit
  <2>1. Cardinality(Oldest(E)) <= eventLimit /\ eventLimit \in Nat
    BY OldestFew, BillingAssumption
  <2> QED BY <1>2, <1>3, <2>1
<1> QED BY <1>2, <1>4 DEF list
-----------------------------------------------------------------------------
(* The invariant for any number of processes.                                *)

(* Lists are finite, and what is on them is stored.                          *)
ListsInv ==
  \A p \in Procs : IsFiniteSet(todo[p]) /\ \A t \in todo[p] : t.event \in DOMAIN events

(* A claimed event is on the list of one process until it is handled, and an
   event that is not claimed has not been handled.                           *)
ClaimInv ==
  /\ \A e \in 1..MaxEvents :
       handled[e] = 0 \/ (handled[e] = 1 /\ e \in DOMAIN events /\ events[e].processed)
  /\ \A p \in Procs : \A t \in todo[p] :
       /\ t.next # "claim" => events[t.event].processed
       /\ t.next = "handle" =>
            /\ handled[t.event] = 0
            /\ \A q \in Procs : \A u \in todo[q] :
                 u.next = "handle" /\ u.event = t.event => q = p

IInv == TypeOK /\ ListsInv /\ ClaimInv

LEMMA EventsAre == TypeOK => /\ Len(events) \in Nat /\ DOMAIN events = 1..Len(events)
                             /\ \A e \in DOMAIN events : events[e] \in Event /\ e \in 1..MaxEvents
<1> SUFFICES ASSUME TypeOK
             PROVE  /\ Len(events) \in Nat /\ DOMAIN events = 1..Len(events)
                    /\ \A e \in DOMAIN events : events[e] \in Event /\ e \in 1..MaxEvents
  OBVIOUS
<1>1. events \in Seq(Event) /\ Len(events) <= MaxEvents
  BY DEF TypeOK
<1> QED BY <1>1, BillingAssumption

LEMMA Marked ==
  ASSUME TypeOK, NEW e \in DOMAIN events, SetProcessed(e)
  PROVE  /\ events' \in Seq(Event) /\ Len(events') = Len(events)
         /\ DOMAIN events' = DOMAIN events /\ events'[e].processed
         /\ \A f \in DOMAIN events : /\ events'[f].sub = events[f].sub
                                     /\ events'[f].type = events[f].type
                                     /\ f # e => events'[f] = events[f]
                                     /\ events[f].processed => events'[f].processed
<1> DEFINE r == [events[e] EXCEPT !.processed = TRUE]
<1>1. events \in Seq(Event) /\ e \in 1..Len(events) /\ events[e] \in Event
  BY EventsAre DEF TypeOK
<1>2. r \in Event /\ r.processed /\ r.sub = events[e].sub /\ r.type = events[e].type
  BY <1>1 DEF Event
<1>3. events' = [events EXCEPT ![e] = r]
  BY DEF SetProcessed
<1> HIDE DEF r
<1>4. /\ events' \in Seq(Event) /\ Len(events') = Len(events)
      /\ \A f \in 1..Len(events) : events'[f] = IF f = e THEN r ELSE events[f]
  BY <1>1, <1>2, <1>3, ExceptSeq
<1>5. DOMAIN events = 1..Len(events) /\ DOMAIN events' = 1..Len(events)
  BY <1>1, <1>4, LenProperties
<1> QED BY <1>1, <1>2, <1>4, <1>5

LEMMA Drops ==
  ASSUME TypeOK, ListsInv, NEW p \in Procs, NEW t \in todo[p], Drop(p, t)
  PROVE  /\ todo' \in [Procs -> SUBSET Task] /\ todo'[p] = todo[p] \ {t}
         /\ \A q \in Procs : q # p => todo'[q] = todo[q]
         /\ \A q \in Procs : IsFiniteSet(todo'[q]) /\ Cardinality(todo'[q]) <= eventLimit
<1>1. /\ todo' \in [Procs -> SUBSET Task] /\ todo'[p] = todo[p] \ {t}
      /\ \A q \in Procs : q # p => todo'[q] = todo[q]
  BY DEF TypeOK, Drop
<1>2. IsFiniteSet(todo[p]) /\ Cardinality(todo[p]) <= eventLimit /\ Cardinality(todo[p]) \in Nat
  BY FS_CardinalityType DEF TypeOK, ListsInv
<1>3. IsFiniteSet(todo'[p]) /\ Cardinality(todo'[p]) <= Cardinality(todo[p])
  <2>1. IsFiniteSet(todo[p] \ {t}) /\ Cardinality(todo[p] \ {t}) <= Cardinality(todo[p])
    BY <1>2, Counted
  <2> QED BY <1>1, <2>1
<1>4. Cardinality(todo'[p]) <= eventLimit
  BY <1>2, <1>3, FS_CardinalityType, BillingAssumption
<1> QED BY <1>1, <1>3, <1>4 DEF TypeOK, ListsInv

LEMMA Gotos ==
  ASSUME TypeOK, ListsInv, NEW p \in Procs, NEW t \in todo[p],
         NEW next \in {"claim", "handle", "reset"}, Goto(p, t, next)
  PROVE  /\ todo' \in [Procs -> SUBSET Task]
         /\ \E new \in Task : /\ new.event = t.event /\ new.next = next
                              /\ todo'[p] = (todo[p] \ {t}) \cup {new}
         /\ \A q \in Procs : q # p => todo'[q] = todo[q]
         /\ \A q \in Procs : IsFiniteSet(todo'[q]) /\ Cardinality(todo'[q]) <= eventLimit
<1> DEFINE new == [t EXCEPT !.next = next]
<1>1. t \in Task /\ new \in Task /\ new.event = t.event /\ new.next = next
  BY DEF TypeOK, Task
<1>2. todo' = [todo EXCEPT ![p] = (todo[p] \ {t}) \cup {new}]
  BY DEF Goto
<1> HIDE DEF new
<1>3. /\ todo' \in [Procs -> SUBSET Task] /\ todo'[p] = (todo[p] \ {t}) \cup {new}
      /\ \A q \in Procs : q # p => todo'[q] = todo[q]
  BY <1>1, <1>2 DEF TypeOK
<1>4. IsFiniteSet(todo[p]) /\ Cardinality(todo[p]) <= eventLimit /\ Cardinality(todo[p]) \in Nat
  BY FS_CardinalityType DEF TypeOK, ListsInv
<1>5. IsFiniteSet(todo'[p]) /\ Cardinality(todo'[p]) <= Cardinality(todo[p])
  <2>1. /\ IsFiniteSet((todo[p] \ {t}) \cup {new})
        /\ Cardinality((todo[p] \ {t}) \cup {new}) <= Cardinality(todo[p])
    BY <1>4, Counted
  <2> QED BY <1>3, <2>1
<1>6. Cardinality(todo'[p]) <= eventLimit
  BY <1>4, <1>5, FS_CardinalityType, BillingAssumption
<1> QED BY <1>1, <1>3, <1>5, <1>6 DEF TypeOK, ListsInv

LEMMA InitInv == Init => IInv
<1> SUFFICES ASSUME Init PROVE IInv
  OBVIOUS
<1> USE BillingAssumption DEF Init
<1>1. TypeOK
  <2>1. subs \in [Subs -> Sub]
    BY DEF Sub, States, Stages, Timers
  <2>2. events \in Seq(Event) /\ Len(events) <= MaxEvents
    OBVIOUS
  <2>3. \A p \in Procs : Cardinality(todo[p]) <= eventLimit
    BY FS_EmptySet
  <2> QED BY <2>1, <2>2, <2>3 DEF TypeOK
<1>2. ListsInv /\ ClaimInv
  BY FS_EmptySet DEF ListsInv, ClaimInv
<1> QED BY <1>1, <1>2 DEF IInv
-----------------------------------------------------------------------------
(* The steps of the event queue.                                             *)

LEMMA ReadStep ==
  ASSUME IInv, NEW p \in Procs, processEvents(p)
  PROVE  IInv'
<1> USE DEF IInv
<1> DEFINE list == {[event |-> e, next |-> "claim"] : e \in Oldest(Unprocessed)}
<1>1. /\ todo' = [todo EXCEPT ![p] = list] /\ todo \in [Procs -> SUBSET Task]
      /\ UNCHANGED <<subs, suspended, events, plan, handled, faults>>
  BY DEF processEvents, TypeOK
<1>2. Unprocessed \subseteq Nat /\ IsFiniteSet(Unprocessed) /\ Unprocessed \subseteq DOMAIN events
  <2>1. Unprocessed \subseteq 1..MaxEvents /\ Unprocessed \subseteq DOMAIN events
    BY EventsAre DEF Unprocessed
  <2>2. IsFiniteSet(1..MaxEvents)
    BY BillingAssumption, FS_Interval
  <2>3. IsFiniteSet(Unprocessed)
    BY <2>1, <2>2, FS_Subset
  <2>4. Unprocessed \subseteq Nat
    BY <2>1, BillingAssumption
  <2> QED BY <2>1, <2>3, <2>4
<1>3. \A t \in list : t \in Task /\ t.event \in DOMAIN events /\ t.next = "claim"
  <2>1. \A e \in Oldest(Unprocessed) : e \in DOMAIN events /\ e \in 1..MaxEvents
    BY <1>2, EventsAre DEF Oldest
  <2> QED BY <2>1 DEF Task
<1>4. IsFiniteSet(list) /\ Cardinality(list) <= eventLimit
  BY <1>2, ListsFew
<1> HIDE DEF list
<1>5. /\ todo' \in [Procs -> SUBSET Task] /\ todo'[p] = list
      /\ \A q \in Procs : q # p => todo'[q] = todo[q]
  BY <1>1, <1>3
<1>6. TypeOK'
  BY <1>1, <1>4, <1>5 DEF TypeOK
<1>7. ListsInv'
  BY <1>1, <1>3, <1>4, <1>5 DEF ListsInv
<1>8. ClaimInv'
  BY <1>1, <1>3, <1>5 DEF ClaimInv
<1> QED BY <1>6, <1>7, <1>8

(* An event leaves a list, and its handler may have been started.            *)
LEMMA Leaves ==
  ASSUME IInv, NEW p \in Procs, NEW t \in todo[p], Drop(p, t),
         subs' \in [Subs -> Sub], faults' \in 0..MaxFaults,
         UNCHANGED <<suspended, events, plan>>,
         \/ UNCHANGED handled
         \/ t.next = "handle" /\ handled' = [handled EXCEPT ![t.event] = @ + 1]
  PROVE  IInv'
<1> USE DEF IInv
<1>1. /\ todo' \in [Procs -> SUBSET Task] /\ todo'[p] = todo[p] \ {t}
      /\ \A q \in Procs : q # p => todo'[q] = todo[q]
      /\ \A q \in Procs : IsFiniteSet(todo'[q]) /\ Cardinality(todo'[q]) <= eventLimit
  BY Drops
<1>2. t \in Task /\ t.event \in 1..MaxEvents /\ handled \in [1..MaxEvents -> Nat]
  BY DEF TypeOK, Task
<1>3. /\ handled' \in [1..MaxEvents -> Nat]
      /\ \A e \in 1..MaxEvents : e # t.event => handled'[e] = handled[e]
  <2>1. CASE UNCHANGED handled
    BY <1>2, <2>1
  <2>2. CASE handled' = [handled EXCEPT ![t.event] = @ + 1]
    BY <1>2, <2>2
  <2> QED BY <2>1, <2>2
<1>4. TypeOK'
  BY <1>1, <1>3 DEF TypeOK
<1>5. ListsInv'
  BY <1>1 DEF ListsInv
<1>6. ClaimInv'
  <2>1. \A e \in 1..MaxEvents :
          handled'[e] = 0 \/ (handled'[e] = 1 /\ e \in DOMAIN events /\ events[e].processed)
    <3>1. CASE UNCHANGED handled
      BY <3>1 DEF ClaimInv
    <3>2. CASE t.next = "handle" /\ handled' = [handled EXCEPT ![t.event] = @ + 1]
      <4>1. handled'[t.event] = 1 /\ t.event \in DOMAIN events /\ events[t.event].processed
        BY <1>2, <3>2 DEF ClaimInv, ListsInv
      <4> QED BY <1>3, <4>1 DEF ClaimInv
    <3> QED BY <3>1, <3>2
  <2>2. ASSUME NEW q \in Procs, NEW u \in todo'[q]
        PROVE  u.next = "handle" => handled'[u.event] = 0
    <3>1. u \in todo[q] /\ u \in Task
      BY <1>1 DEF TypeOK
    <3>2. CASE u.event = t.event /\ u.next = "handle" /\ t.next = "handle"
      <4>1. q = p /\ u = t
        BY <1>2, <3>1, <3>2 DEF ClaimInv, Task
      <4> QED BY <1>1, <2>2, <4>1
    <3>3. CASE ~ (u.event = t.event /\ u.next = "handle" /\ t.next = "handle")
      BY <1>2, <1>3, <3>1, <3>3 DEF ClaimInv, Task
    <3> QED BY <3>1, <3>2, <3>3
  <2>3. \A q \in Procs : todo'[q] \subseteq todo[q]
    BY <1>1
  <2>4. \A q \in Procs : \A u \in todo'[q] :
          /\ u.next # "claim" => events'[u.event].processed
          /\ u.next = "handle" => \A r \in Procs : \A v \in todo'[r] :
               v.next = "handle" /\ v.event = u.event => r = q
    BY <2>3 DEF ClaimInv
  <2>5. events' = events
    OBVIOUS
  <2>6. \A q \in Procs : \A u \in todo'[q] : u.next = "handle" => handled'[u.event] = 0
    BY <2>2
  <2> QED BY <2>1, <2>4, <2>5, <2>6 DEF ClaimInv
<1> QED BY <1>4, <1>5, <1>6

LEMMA InvoiceStep ==
  ASSUME IInv, NEW p \in Procs, NEW t \in todo[p], upsertInvoice(p, t)
  PROVE  IInv'
<1> USE DEF IInv
<1>1. /\ Goto(p, t, "reset") /\ t.next = "handle"
      /\ handled' = [handled EXCEPT ![t.event] = @ + 1]
      /\ UNCHANGED <<subs, suspended, events, plan, faults>>
  BY DEF upsertInvoice, Handles
<1>2. /\ todo' \in [Procs -> SUBSET Task]
      /\ \A q \in Procs : q # p => todo'[q] = todo[q]
      /\ \A q \in Procs : IsFiniteSet(todo'[q]) /\ Cardinality(todo'[q]) <= eventLimit
  BY <1>1, Gotos
<1>3. PICK new \in Task : new.event = t.event /\ new.next = "reset"
                          /\ todo'[p] = (todo[p] \ {t}) \cup {new}
  BY <1>1, Gotos
<1>4. t \in Task /\ t.event \in 1..MaxEvents /\ handled \in [1..MaxEvents -> Nat]
  BY DEF TypeOK, Task
<1>5. handled[t.event] = 0 /\ t.event \in DOMAIN events /\ events[t.event].processed
  BY <1>1 DEF ClaimInv, ListsInv
<1>6. /\ handled' \in [1..MaxEvents -> Nat] /\ handled'[t.event] = 1
      /\ \A e \in 1..MaxEvents : e # t.event => handled'[e] = handled[e]
  BY <1>1, <1>4, <1>5
<1>7. TypeOK'
  BY <1>1, <1>2, <1>6 DEF TypeOK
<1>8. ListsInv'
  BY <1>1, <1>2, <1>3 DEF ListsInv
<1>9. ClaimInv'
  <2>1. \A e \in 1..MaxEvents :
          handled'[e] = 0 \/ (handled'[e] = 1 /\ e \in DOMAIN events' /\ events'[e].processed)
    BY <1>1, <1>5, <1>6 DEF ClaimInv
  <2>2. ASSUME NEW q \in Procs, NEW u \in todo'[q], u.next = "handle"
        PROVE  u \in todo[q] /\ u.event # t.event /\ handled'[u.event] = 0
    <3>1. u \in todo[q] /\ u \in Task /\ (u # t \/ q # p)
      BY <1>2, <1>3, <2>2 DEF TypeOK
    <3>2. u \in Task
      BY <1>2
    <3>3. u.event # t.event
      BY <1>1, <1>4, <2>2, <3>1, <3>2 DEF ClaimInv, Task
    <3> QED BY <1>6, <2>2, <3>1, <3>2, <3>3 DEF ClaimInv, Task
  <2>3. \A q \in Procs : \A u \in todo'[q] : u.next # "claim" => events'[u.event].processed
    BY <1>1, <1>2, <1>3, <1>5 DEF ClaimInv
  <2> QED BY <2>1, <2>2, <2>3 DEF ClaimInv
<1> QED BY <1>7, <1>8, <1>9

(* The event is marked and goes on, or, the UPDATE having failed, leaves.    *)
LEMMA ClaimStep ==
  ASSUME IInv, NEW p \in Procs, NEW t \in todo[p], claimEvent(p, t) \/ ClaimError(p, t)
  PROVE  IInv'
<1> USE DEF IInv
<1>1. /\ t \in Task /\ t.event \in 1..MaxEvents /\ t.event \in DOMAIN events
      /\ handled \in [1..MaxEvents -> Nat] /\ t.next = "claim"
      /\ faults' \in 0..MaxFaults /\ UNCHANGED <<subs, suspended, plan, handled>>
  BY BillingAssumption DEF TypeOK, Task, ListsInv, claimEvent, ClaimError, Fault
<1>2. /\ events' \in Seq(Event) /\ Len(events') = Len(events) /\ DOMAIN events' = DOMAIN events
      /\ \A f \in DOMAIN events : events[f].processed => events'[f].processed
  <2>1. CASE UNCHANGED events
    BY <2>1 DEF TypeOK
  <2>2. CASE SetProcessed(t.event)
    BY <1>1, <2>2, Marked
  <2> QED BY <2>1, <2>2 DEF claimEvent, ClaimError
<1>3. CASE ClaimError(p, t)
  <2>1. /\ todo' \in [Procs -> SUBSET Task] /\ \A q \in Procs : todo'[q] \subseteq todo[q]
        /\ \A q \in Procs : IsFiniteSet(todo'[q]) /\ Cardinality(todo'[q]) <= eventLimit
    BY <1>3, Drops DEF ClaimError
  <2>2. TypeOK'
    BY <1>1, <1>2, <2>1 DEF TypeOK
  <2>3. ListsInv'
    BY <1>2, <2>1 DEF ListsInv
  <2>4. ClaimInv'
    BY <1>1, <1>2, <2>1 DEF ClaimInv, ListsInv
  <2> QED BY <2>2, <2>3, <2>4
<1>4. CASE claimEvent(p, t)
  <2>1. Goto(p, t, "handle") /\ ~ events[t.event].processed /\ SetProcessed(t.event)
    BY <1>4 DEF claimEvent
  <2>2. /\ todo' \in [Procs -> SUBSET Task]
        /\ \A q \in Procs : q # p => todo'[q] = todo[q]
        /\ \A q \in Procs : IsFiniteSet(todo'[q]) /\ Cardinality(todo'[q]) <= eventLimit
    BY <2>1, Gotos
  <2>3. PICK new \in Task : new.event = t.event /\ new.next = "handle"
                            /\ todo'[p] = (todo[p] \ {t}) \cup {new}
    BY <2>1, Gotos
  <2>4. events'[t.event].processed
    BY <1>1, <2>1, Marked
  <2>5. handled[t.event] = 0
    BY <1>1, <2>1 DEF ClaimInv
  <2>6. TypeOK'
    BY <1>1, <1>2, <2>2 DEF TypeOK
  <2>7. ListsInv'
    BY <1>1, <1>2, <2>2, <2>3 DEF ListsInv
  <2>8. ClaimInv'
    <3>1. \A q \in Procs : \A u \in todo[q] : u.next = "handle" => u.event # t.event
      BY <2>1 DEF ClaimInv
    <3>2. ASSUME NEW q \in Procs, NEW u \in todo'[q]
          PROVE  /\ u.next # "claim" => events'[u.event].processed
                 /\ u.next = "handle" => handled[u.event] = 0
                 /\ u \in todo[q] \/ (q = p /\ u = new)
      BY <1>2, <2>2, <2>3, <2>4, <2>5 DEF ClaimInv, ListsInv
    <3>3. ASSUME NEW q \in Procs, NEW u \in todo'[q], NEW r \in Procs, NEW v \in todo'[r],
                 u.next = "handle", v.next = "handle", u.event = v.event
          PROVE  q = r
      BY <2>3, <3>1, <3>2, <3>3 DEF ClaimInv
    <3>4. \A e \in 1..MaxEvents :
            handled[e] = 0 \/ (handled[e] = 1 /\ e \in DOMAIN events' /\ events'[e].processed)
      BY <1>2 DEF ClaimInv
    <3> QED BY <1>1, <3>2, <3>3, <3>4 DEF ClaimInv
  <2> QED BY <2>6, <2>7, <2>8
<1> QED BY <1>3, <1>4

LEMMA SubChanged ==
  ASSUME TypeOK, NEW s \in Subs, NEW row \in Sub, subs' = [subs EXCEPT ![s] = row]
  PROVE  subs' \in [Subs -> Sub]
BY DEF TypeOK

LEMMA HandleSteps ==
  ASSUME IInv, NEW p \in Procs, NEW t \in todo[p],
         \/ ClaimLost(p, t) \/ HandlePaymentFailed(p, t) \/ resetDunning(p, t)
         \/ handleSubscriptionDeleted(p, t) \/ handleSubscriptionUpdated(p, t)
         \/ handleDisputeCreated(p, t) \/ HandlerError(p, t)
  PROVE  IInv'
<1> DEFINE s == SubOf(t)
<1>1. TypeOK /\ s \in Subs /\ subs[s] \in Sub
  <2>1. TypeOK /\ t.event \in DOMAIN events
    BY DEF IInv, ListsInv
  <2>2. events[t.event] \in Event
    BY <2>1, EventsAre
  <2> QED BY <2>1, <2>2 DEF SubOf, Event, TypeOK
<1> HIDE DEF s
<1>2. faults' \in 0..MaxFaults
  BY <1>1, BillingAssumption DEF ClaimLost, HandlePaymentFailed, resetDunning,
     handleSubscriptionDeleted, handleSubscriptionUpdated, handleDisputeCreated, HandlerError,
     Fault, TypeOK
<1>3. /\ Drop(p, t) /\ UNCHANGED <<suspended, events, plan>>
      /\ \/ UNCHANGED handled
         \/ t.next = "handle" /\ handled' = [handled EXCEPT ![t.event] = @ + 1]
  BY DEF ClaimLost, HandlePaymentFailed, resetDunning, handleSubscriptionDeleted,
     handleSubscriptionUpdated, handleDisputeCreated, HandlerError, Handles
<1>4. subs' \in [Subs -> Sub]
  <2>1. CASE ClaimLost(p, t) \/ handleDisputeCreated(p, t) \/ HandlerError(p, t)
    BY <1>1, <2>1 DEF ClaimLost, handleDisputeCreated, HandlerError, TypeOK
  <2>2. CASE HandlePaymentFailed(p, t)
    <3>1. startDunning(subs[s]) \in Sub
      <4>1. "warning_1" \in Stages /\ "set" \in Timers
        BY DEF Stages, Timers
      <4>2. [subs[s] EXCEPT !.stage = "warning_1", !.timer = "set"] \in Sub
        BY <1>1, <4>1 DEF Sub
      <4> QED BY <1>1, <4>2 DEF startDunning
    <3> QED BY <1>1, <2>2, <3>1, SubChanged DEF HandlePaymentFailed, s
  <2>3. CASE resetDunning(p, t)
    <3>1. [subs[s] EXCEPT !.stage = "none", !.timer = "off", !.status = "active"] \in Sub
      <4>1. "none" \in Stages /\ "off" \in Timers /\ "active" \in States
        BY DEF Stages, States, Timers
      <4> QED BY <1>1, <4>1 DEF Sub
    <3>2. PICK row \in Sub : subs' = [subs EXCEPT ![s] = row]
      BY <1>1, <2>3, <3>1 DEF resetDunning, s
    <3> QED BY <1>1, <3>2, SubChanged
  <2>4. ASSUME NEW status \in States, subs' = [subs EXCEPT ![s].status = status]
        PROVE  subs' \in [Subs -> Sub]
    <3>1. [subs[s] EXCEPT !.status = status] \in Sub
      BY <1>1 DEF Sub
    <3> QED BY <1>1, <2>4, <3>1, SubChanged
  <2>5. CASE handleSubscriptionDeleted(p, t) \/ handleSubscriptionUpdated(p, t)
    BY <2>4, <2>5 DEF handleSubscriptionDeleted, handleSubscriptionUpdated, States, s
  <2> QED BY <2>1, <2>2, <2>3, <2>5
<1> QED BY <1>2, <1>3, <1>4, Leaves
-----------------------------------------------------------------------------
(* The steps of dunning, and the others.                                     *)

LEMMA DunningSteps ==
  ASSUME IInv, NEW p \in Procs,
         Advance(p) \/ \E r \in plan[p] : EscalateStep(p, r) \/ EscalateError(p, r)
  PROVE  IInv'
<1>1. TypeOK /\ plan \in [Procs -> SUBSET DueRow]
  BY DEF IInv, TypeOK
<1>2. ASSUME subs' \in [Subs -> Sub], suspended' \subseteq Subs,
             plan' \in [Procs -> SUBSET DueRow], faults' \in 0..MaxFaults,
             UNCHANGED <<events, todo, handled>>
      PROVE  IInv'
  BY <1>2 DEF IInv, TypeOK, ListsInv, ClaimInv
<1>3. CASE Advance(p)
  <2>1. \A s \in Subs : Due(s) =>
          [sub |-> s, stage |-> subs[s].stage, next |-> "escalate"] \in DueRow
    BY <1>1 DEF TypeOK, DueRow, Sub
  <2>2. plan' \in [Procs -> SUBSET DueRow]
    BY <1>1, <1>3, <2>1 DEF Advance
  <2> QED BY <1>1, <1>2, <1>3, <2>2 DEF Advance, TypeOK
<1>4. ASSUME NEW r \in plan[p], EscalateStep(p, r) \/ EscalateError(p, r) PROVE IInv'
  <2>1. r \in DueRow /\ r.sub \in Subs /\ subs[r.sub] \in Sub
    BY <1>1 DEF DueRow, TypeOK
  <2>2. plan' \in [Procs -> SUBSET DueRow]
    <3>1. CASE Leave(p, r)
      BY <1>1, <3>1 DEF Leave
    <3>2. ASSUME NEW next \in {"escalate", "suspendInstances", "advance"}, Go(p, r, next)
          PROVE  plan' \in [Procs -> SUBSET DueRow]
      <4>1. [r EXCEPT !.next = next] \in DueRow
        BY <2>1 DEF DueRow
      <4> QED BY <1>1, <3>2, <4>1 DEF Go
    <3> QED BY <1>4, <3>1, <3>2 DEF EscalateStep, escalateWarning, markPastDue, suspendInstances,
            advanceToSuspended, EscalateError
  <2>3. ASSUME NEW stage \in Stages, NEW timer \in Timers, advance(r.sub, stage, timer)
        PROVE  subs' \in [Subs -> Sub]
    <3>1. [subs[r.sub] EXCEPT !.stage = stage, !.timer = timer] \in Sub
      BY <2>1, <2>3 DEF Sub
    <3>2. subs' = [subs EXCEPT ![r.sub] = [subs[r.sub] EXCEPT !.stage = stage, !.timer = timer]]
      BY <1>1, <2>1, <2>3 DEF advance, TypeOK
    <3> QED BY <1>1, <2>1, <3>1, <3>2, SubChanged
  <2>4. subs' \in [Subs -> Sub]
    <3>1. CASE escalateWarning(p, r) \/ advanceToSuspended(p, r)
      BY <2>3, <3>1 DEF escalateWarning, advanceToSuspended, Stages, Timers
    <3>2. CASE markPastDue(p, r)
      <4>1. [subs[r.sub] EXCEPT !.status = "past_due"] \in Sub
        BY <2>1 DEF Sub, States
      <4> QED BY <1>1, <2>1, <3>2, <4>1, SubChanged DEF markPastDue
    <3>3. CASE suspendInstances(p, r) \/ EscalateError(p, r)
      BY <1>1, <3>3 DEF suspendInstances, EscalateError, TypeOK
    <3> QED BY <1>4, <3>1, <3>2, <3>3 DEF EscalateStep
  <2>5. /\ suspended' \subseteq Subs /\ faults' \in 0..MaxFaults
        /\ UNCHANGED <<events, todo, handled>>
    BY <1>1, <1>4, <2>1, BillingAssumption DEF EscalateStep, escalateWarning, markPastDue,
       suspendInstances, advanceToSuspended, EscalateError, Fault, TypeOK
  <2> QED BY <1>2, <2>2, <2>4, <2>5
<1> QED BY <1>3, <1>4

LEMMA OtherSteps ==
  ASSUME IInv, StripeSends \/ (\E s \in Subs : DateComes(s)) \/ \E p \in Procs : Restart(p)
  PROVE  IInv'
<1> USE DEF IInv
<1>1. CASE StripeSends
  <2>1. PICK s \in Subs, type \in Types :
          events' = Append(events, [sub |-> s, type |-> type, processed |-> FALSE])
    BY <1>1 DEF StripeSends
  <2> DEFINE new == [sub |-> s, type |-> type, processed |-> FALSE]
  <2>2. new \in Event /\ events \in Seq(Event) /\ Len(events) \in Nat /\ Len(events) < MaxEvents
    BY <1>1, EventsAre DEF StripeSends, Event, TypeOK
  <2> HIDE DEF new
  <2>3. /\ events' \in Seq(Event) /\ Len(events') = Len(events) + 1
        /\ \A e \in 1..Len(events) : events'[e] = events[e]
    BY <2>1, <2>2, AppendProperties DEF new
  <2>4. \A e \in DOMAIN events : e \in DOMAIN events' /\ events'[e] = events[e]
    BY <2>2, <2>3
  <2>5. UNCHANGED <<subs, suspended, todo, plan, handled, faults>>
    BY <1>1 DEF StripeSends
  <2>6. TypeOK'
    BY <2>2, <2>3, <2>5, BillingAssumption DEF TypeOK
  <2>7. ListsInv' /\ ClaimInv'
    BY <2>4, <2>5 DEF ListsInv, ClaimInv
  <2> QED BY <2>6, <2>7
<1>2. ASSUME NEW s \in Subs, DateComes(s) PROVE IInv'
  <2>1. [subs[s] EXCEPT !.timer = "due"] \in Sub
    BY DEF TypeOK, Sub, Timers
  <2>2. subs' \in [Subs -> Sub]
    BY <1>2, <2>1, SubChanged DEF DateComes
  <2> QED BY <1>2, <2>2 DEF DateComes, TypeOK, ListsInv, ClaimInv
<1>3. ASSUME NEW p \in Procs, Restart(p) PROVE IInv'
  <2>1. /\ todo' \in [Procs -> SUBSET Task] /\ plan' \in [Procs -> SUBSET DueRow]
        /\ todo'[p] = {} /\ \A q \in Procs : q # p => todo'[q] = todo[q]
        /\ faults' \in 0..MaxFaults /\ UNCHANGED <<subs, suspended, events, handled>>
    BY <1>3, BillingAssumption DEF Restart, Fault, TypeOK
  <2>2. \A q \in Procs : IsFiniteSet(todo'[q]) /\ Cardinality(todo'[q]) <= eventLimit
    <3>1. IsFiniteSet({}) /\ Cardinality({}) <= eventLimit
      BY FS_EmptySet, BillingAssumption
    <3> QED BY <2>1, <3>1 DEF TypeOK, ListsInv
  <2>3. TypeOK'
    BY <2>1, <2>2 DEF TypeOK
  <2>4. ListsInv' /\ ClaimInv'
    BY <2>1, <2>2 DEF ListsInv, ClaimInv
  <2> QED BY <2>3, <2>4
<1> QED BY <1>1, <1>2, <1>3

LEMMA NextInv == IInv /\ [Next]_vars => IInv'
<1> SUFFICES ASSUME IInv, [Next]_vars PROVE IInv'
  OBVIOUS
<1>1. ASSUME NEW p \in Procs, NEW t \in todo[p],
             HandleStep(p, t) \/ ClaimError(p, t) \/ HandlerError(p, t)
      PROVE  IInv'
  BY <1>1, ClaimStep, InvoiceStep, HandleSteps DEF HandleStep
<1>2. ASSUME NEW p \in Procs, processEvents(p) \/ Advance(p) \/ RowStep(p) \/ FaultStep(p)
      PROVE  IInv'
  BY <1>1, <1>2, ReadStep, DunningSteps, OtherSteps DEF RowStep, FaultStep
<1>3. CASE StripeSends \/ \E s \in Subs : DateComes(s)
  BY <1>3, OtherSteps
<1>4. CASE UNCHANGED vars
  BY <1>4 DEF IInv, TypeOK, ListsInv, ClaimInv, vars
<1> QED BY <1>2, <1>3, <1>4 DEF Next

LEMMA Inductive == Spec => []IInv
BY InitInv, NextInv, PTL DEF Spec

(* Every reachable state is well typed, and a process has at most as many events
   on its list as its query returns rows.                                    *)
THEOREM TypeCorrect == Spec => []TypeOK
<1>1. IInv => TypeOK
  BY DEF IInv
<1> QED BY <1>1, Inductive, PTL

(* Any number of processes read the same events, crash and lose statements, and
   still no handler is started twice for one event.                          *)
THEOREM HandledOnceHolds == Spec => []HandledOnce
<1>1. IInv => HandledOnce
  BY DEF IInv, ClaimInv, HandledOnce, TypeOK
<1> QED BY <1>1, Inductive, PTL
-----------------------------------------------------------------------------
(* The order of the events, for any number of processes.                     *)

(* Who is past the claim of an event is at the first of its list, and an invoice
   is upserted by a handler that was started.                                *)
LineInv ==
  \A p \in Procs : \A t \in todo[p] :
    /\ t.next = "reset" => handled[t.event] > 0
    /\ t.next # "claim" => \A u \in todo[p] : t.event <= u.event

(* An event that a later one has left behind, or will: it is marked, a later one
   is, or a process that has a later one on its list does not have this one. *)
LeftBehind(e) ==
  \/ events[e].processed
  \/ \E f \in DOMAIN events : f > e /\ events[f].processed
  \/ \E p \in Procs : /\ \E t \in todo[p] : t.event > e
                       /\ \A u \in todo[p] : u.event # e

Passed == {e \in DOMAIN events : handled[e] = 0 /\ ~ InHand(e) /\ LeftBehind(e)}

PassedInv == LineInv /\ Cardinality(Passed) <= faults

LEMMA PassedFinite ==
  ASSUME TypeOK
  PROVE  IsFiniteSet(Passed) /\ Cardinality(Passed) \in Nat /\ Passed \subseteq 1..MaxEvents
<1>1. Passed \subseteq 1..MaxEvents
  BY EventsAre DEF Passed
<1>2. IsFiniteSet(1..MaxEvents)
  BY BillingAssumption, FS_Interval
<1> QED BY <1>1, <1>2, FS_Subset, FS_CardinalityType

LEMMA OvertakenPassed == IInv => Overtaken \subseteq Passed
<1> SUFFICES ASSUME IInv, NEW e \in Overtaken PROVE e \in Passed
  OBVIOUS
<1>1. PICK f \in DOMAIN events : f > e /\ handled[f] > 0
  BY DEF Overtaken
<1>2. f \in 1..MaxEvents /\ events[f].processed
  BY <1>1, EventsAre DEF IInv, ClaimInv
<1> QED BY <1>1, <1>2 DEF Overtaken, Passed, LeftBehind

(* The query returns, with an event, all the unprocessed ones before it.     *)
LEMMA OldestFirst ==
  ASSUME NEW E, E \subseteq Nat, IsFiniteSet(E), NEW f \in Oldest(E), NEW e \in E, e < f
  PROVE  e \in Oldest(E)
<1> DEFINE below == {g \in E : g < e}
           before == {g \in E : g < f}
<1>1. e \in Nat /\ f \in Nat /\ Cardinality(before) < eventLimit
  BY DEF Oldest
<1>2. below \subseteq before
  <2> SUFFICES ASSUME NEW g \in E, g < e PROVE g < f
    OBVIOUS
  <2>1. g \in Nat
    OBVIOUS
  <2> QED BY <1>1, <2>1
<1>3. IsFiniteSet(before)
  BY FS_Subset
<1>4. Cardinality(below) <= Cardinality(before) /\ IsFiniteSet(below)
  <2> HIDE DEF below, before
  <2> QED BY <1>2, <1>3, FS_Subset
<1>5. Cardinality(below) \in Nat /\ Cardinality(before) \in Nat
  BY <1>3, <1>4, FS_CardinalityType
<1>6. Cardinality(below) < eventLimit
  BY <1>1, <1>4, <1>5, BillingAssumption
<1> QED BY <1>6 DEF Oldest
(* A query leaves no event behind.                                           *)
LEMMA PassedByReads ==
  ASSUME IInv, LineInv, NEW p \in Procs, processEvents(p)
  PROVE  LineInv' /\ Passed' \subseteq Passed
<1> DEFINE list == {[event |-> e, next |-> "claim"] : e \in Oldest(Unprocessed)}
<1>1. /\ TypeOK /\ todo[p] = {} /\ todo'[p] = list /\ UNCHANGED <<events, handled, faults>>
      /\ \A q \in Procs : q # p => todo'[q] = todo[q]
  BY DEF IInv, TypeOK, processEvents, Idle
<1>2. Unprocessed \subseteq Nat /\ IsFiniteSet(Unprocessed)
  <2>1. Unprocessed \subseteq 1..MaxEvents
    BY <1>1, EventsAre DEF Unprocessed
  <2>2. IsFiniteSet(1..MaxEvents)
    BY BillingAssumption, FS_Interval
  <2>3. IsFiniteSet(Unprocessed)
    BY <2>1, <2>2, FS_Subset
  <2> QED BY <2>1, <2>3, BillingAssumption
<1>3. \A t \in list : t.next = "claim" /\ t.event \in Oldest(Unprocessed)
  OBVIOUS
<1>4. \A e \in Oldest(Unprocessed) : \E u \in list : u.event = e
  <2> SUFFICES ASSUME NEW e \in Oldest(Unprocessed) PROVE \E u \in list : u.event = e
    OBVIOUS
  <2>1. [event |-> e, next |-> "claim"] \in list
    OBVIOUS
  <2> HIDE DEF list
  <2> QED BY <2>1
<1> HIDE DEF list
<1>5. LineInv'
  BY <1>1, <1>3 DEF LineInv
<1>6. ASSUME NEW e \in Passed' PROVE e \in Passed
  <2>1. e \in DOMAIN events /\ handled[e] = 0
    BY <1>1, <1>6 DEF Passed
  <2>2. ~ InHand(e)
    BY <1>1, <1>6 DEF Passed, InHand
  <2>3. LeftBehind(e)
    <3> SUFFICES ASSUME ~ events[e].processed, NEW t \in list, t.event > e,
                        \A u \in list : u.event # e
                 PROVE  FALSE
      BY <1>1, <1>6 DEF Passed, LeftBehind
    <3>1. e \in Unprocessed
      BY <2>1 DEF Unprocessed
    <3>2. t.event \in Oldest(Unprocessed) /\ e < t.event
      <4>1. t.event \in Oldest(Unprocessed)
        BY <1>3
      <4>2. t.event \in Unprocessed
        BY <4>1 DEF Oldest
      <4> QED BY <1>2, <3>1, <4>1, <4>2
    <3>3. e \in Oldest(Unprocessed)
      BY <1>2, <3>1, <3>2, OldestFirst
    <3> QED BY <1>4, <3>3
  <2> QED BY <2>1, <2>2, <2>3 DEF Passed
<1> QED BY <1>5, <1>6

(* The first of a list is marked: what is before it is not on the list.      *)
LEMMA PassedByClaims ==
  ASSUME IInv, LineInv, NEW p \in Procs, NEW t \in todo[p], claimEvent(p, t)
  PROVE  LineInv' /\ Passed' \subseteq Passed
<1>1. TypeOK /\ ListsInv
  BY DEF IInv
<1>2. /\ t.next = "claim" /\ \A u \in todo[p] : t.event <= u.event
      /\ Goto(p, t, "handle") /\ SetProcessed(t.event) /\ UNCHANGED handled
      /\ t.event \in DOMAIN events
  BY <1>1 DEF claimEvent, Current, ListsInv
<1>3. PICK new \in Task : /\ new.event = t.event /\ new.next = "handle"
                          /\ todo'[p] = (todo[p] \ {t}) \cup {new}
  BY <1>1, <1>2, Gotos
<1>4. \A q \in Procs : q # p => todo'[q] = todo[q]
  BY <1>1, <1>2, Gotos
<1>5. /\ DOMAIN events' = DOMAIN events
      /\ \A f \in DOMAIN events : f # t.event => events'[f] = events[f]
  BY <1>1, <1>2, Marked
<1>6. /\ DOMAIN events \subseteq Nat
      /\ \A q \in Procs : \A u \in todo[q] : u.event \in DOMAIN events
  <2>1. DOMAIN events \subseteq 1..MaxEvents
    BY <1>1, EventsAre
  <2> QED BY <1>1, <2>1, BillingAssumption DEF ListsInv
<1>7. LineInv'
  BY <1>2, <1>3, <1>4, <1>6 DEF LineInv
<1>8. \A u \in todo'[p] : u.event = t.event \/ u \in todo[p]
  BY <1>3
<1>9. \A u \in todo[p] : \E v \in todo'[p] : v.event = u.event
  BY <1>3
<1>10. ASSUME NEW e \in Passed' PROVE e \in Passed
  <2>1. e \in DOMAIN events /\ handled[e] = 0 /\ ~ InHand(e)' /\ LeftBehind(e)'
    BY <1>2, <1>5, <1>10 DEF Passed
  <2>2. e # t.event /\ ~ InHand(e)
    BY <1>2, <1>3, <1>4, <2>1 DEF InHand
  <2>3. LeftBehind(e)
    <3>1. CASE events'[e].processed
      BY <1>5, <2>1, <2>2, <3>1 DEF LeftBehind
    <3>2. ASSUME NEW f \in DOMAIN events', f > e, events'[f].processed PROVE LeftBehind(e)
      <4>1. CASE f = t.event
        <5>1. \A u \in todo[p] : u.event # e
          BY <1>2, <1>6, <2>1, <3>2, <4>1
        <5> QED BY <3>2, <4>1, <5>1 DEF LeftBehind
      <4>2. CASE f # t.event
        BY <1>5, <3>2, <4>2 DEF LeftBehind
      <4> QED BY <4>1, <4>2
    <3>3. ASSUME NEW q \in Procs, NEW u \in todo'[q], u.event > e,
                 \A v \in todo'[q] : v.event # e
          PROVE  LeftBehind(e)
      <4>1. \E v \in todo[q] : v.event > e
        BY <1>4, <1>8, <3>3
      <4>2. \A v \in todo[q] : v.event # e
        BY <1>4, <1>9, <3>3
      <4> QED BY <4>1, <4>2 DEF LeftBehind
    <3> QED BY <2>1, <3>1, <3>2, <3>3 DEF LeftBehind
  <2> QED BY <2>1, <2>2, <2>3 DEF Passed
<1> QED BY <1>7, <1>10

(* The same UPDATE with an error costs the event itself.                     *)
LEMMA PassedByClaimErrors ==
  ASSUME IInv, LineInv, NEW p \in Procs, NEW t \in todo[p], ClaimError(p, t)
  PROVE  LineInv' /\ Passed' \subseteq Passed \cup {t.event}
<1>1. TypeOK /\ ListsInv
  BY DEF IInv
<1>2. /\ t.next = "claim" /\ \A u \in todo[p] : t.event <= u.event
      /\ Drop(p, t) /\ UNCHANGED handled /\ t.event \in DOMAIN events
  BY <1>1 DEF ClaimError, Current, ListsInv
<1>3. todo'[p] = todo[p] \ {t} /\ \A q \in Procs : q # p => todo'[q] = todo[q]
  BY <1>1, <1>2, Drops
<1>4. /\ DOMAIN events' = DOMAIN events
      /\ \A f \in DOMAIN events : f # t.event => events'[f] = events[f]
  <2>1. CASE UNCHANGED events
    BY <2>1
  <2>2. CASE SetProcessed(t.event)
    BY <1>1, <1>2, <2>2, Marked
  <2> QED BY <2>1, <2>2 DEF ClaimError
<1>5. DOMAIN events \subseteq Nat
  <2>1. DOMAIN events \subseteq 1..MaxEvents
    BY <1>1, EventsAre
  <2> QED BY <2>1, BillingAssumption
<1>6. LineInv'
  BY <1>2, <1>3 DEF LineInv
<1>7. ASSUME NEW e \in Passed', e # t.event PROVE e \in Passed
  <2>1. e \in DOMAIN events /\ handled[e] = 0 /\ ~ InHand(e)' /\ LeftBehind(e)'
    BY <1>2, <1>4, <1>7 DEF Passed
  <2>2. ~ InHand(e)
    BY <1>2, <1>3, <2>1 DEF InHand
  <2>3. LeftBehind(e)
    <3>1. CASE events'[e].processed
      BY <1>4, <1>7, <2>1, <3>1 DEF LeftBehind
    <3>2. ASSUME NEW f \in DOMAIN events', f > e, events'[f].processed PROVE LeftBehind(e)
      <4>1. CASE f = t.event
        <5>1. \A u \in todo[p] : u.event # e
          BY <1>1, <1>2, <1>5, <2>1, <3>2, <4>1 DEF ListsInv
        <5> QED BY <3>2, <4>1, <5>1 DEF LeftBehind
      <4>2. CASE f # t.event
        BY <1>4, <3>2, <4>2 DEF LeftBehind
      <4> QED BY <4>1, <4>2
    <3>3. ASSUME NEW q \in Procs, NEW u \in todo'[q], u.event > e,
                 \A v \in todo'[q] : v.event # e
          PROVE  LeftBehind(e)
      <4>1. u \in todo[q] /\ \A v \in todo[q] : v.event # e
        BY <1>3, <1>7, <3>3
      <4> QED BY <3>3, <4>1 DEF LeftBehind
    <3> QED BY <2>1, <3>1, <3>2, <3>3 DEF LeftBehind
  <2> QED BY <2>1, <2>2, <2>3 DEF Passed
<1> QED BY <1>6, <1>7

(* The first of a list leaves it or goes on, its handler started or another's.*)
LEMMA PassedByLeaving ==
  ASSUME IInv, LineInv, NEW p \in Procs, NEW t \in todo[p], Current(p, t), UNCHANGED events,
         \/ Drop(p, t)
         \/ Goto(p, t, "reset") /\ t.next = "handle",
         \/ t.next = "handle" /\ handled' = [handled EXCEPT ![t.event] = @ + 1]
         \/ t.next = "reset" /\ UNCHANGED handled
         \/ t.next = "claim" /\ events[t.event].processed /\ UNCHANGED handled
  PROVE  LineInv' /\ Passed' \subseteq Passed
<1>1. TypeOK /\ ListsInv /\ \A u \in todo[p] : t.event <= u.event
  BY DEF IInv, Current
<1>2. /\ \A q \in Procs : q # p => todo'[q] = todo[q]
      /\ \A u \in todo'[p] : \/ u \in todo[p]
                              \/ /\ u.event = t.event /\ u.next = "reset"
                                 /\ t.next = "handle"
      /\ \A u \in todo[p] : u \in todo'[p] \/ u = t
  <2>1. CASE Drop(p, t)
    BY <1>1, <2>1, Drops
  <2>2. CASE Goto(p, t, "reset") /\ t.next = "handle"
    BY <1>1, <2>2, Gotos
  <2> QED BY <2>1, <2>2
<1>3. /\ DOMAIN events \subseteq 1..MaxEvents /\ DOMAIN events \subseteq Nat
      /\ handled \in [1..MaxEvents -> Nat] /\ t.event \in DOMAIN events
      /\ \A q \in Procs : \A u \in todo[q] : u.event \in DOMAIN events
  <2>1. DOMAIN events \subseteq 1..MaxEvents
    BY <1>1, EventsAre
  <2> QED BY <1>1, <2>1, BillingAssumption DEF ListsInv, TypeOK
<1>4. /\ \A e \in DOMAIN events : e # t.event => handled'[e] = handled[e]
      /\ \A e \in DOMAIN events : handled[e] > 0 => handled'[e] > 0
      /\ handled'[t.event] > 0 \/ (t.next = "claim" /\ events[t.event].processed)
  <2>1. CASE t.next = "handle" /\ handled' = [handled EXCEPT ![t.event] = @ + 1]
    BY <1>3, <2>1
  <2>2. CASE t.next = "reset" /\ UNCHANGED handled
    BY <2>2 DEF LineInv
  <2>3. CASE t.next = "claim" /\ events[t.event].processed /\ UNCHANGED handled
    BY <2>3
  <2> QED BY <2>1, <2>2, <2>3
<1>5. LineInv'
  <2> SUFFICES ASSUME NEW q \in Procs, NEW u \in todo'[q]
               PROVE  /\ u.next = "reset" => handled'[u.event] > 0
                      /\ u.next # "claim" => \A v \in todo'[q] : u.event <= v.event
    BY DEF LineInv
  <2>1. CASE u \in todo[q]
    <3>1. \A v \in todo'[q] : v \in todo[q] \/ (q = p /\ v.event = t.event)
      BY <1>2
    <3> QED BY <1>3, <1>4, <2>1, <3>1 DEF LineInv
  <2>2. CASE q = p /\ u.event = t.event /\ u.next = "reset" /\ t.next = "handle"
    BY <1>1, <1>2, <1>3, <1>4, <2>2
  <2> QED BY <1>2, <2>1, <2>2
<1>6. ASSUME NEW e \in Passed' PROVE e \in Passed
  <2>1. e \in DOMAIN events /\ handled'[e] = 0 /\ ~ InHand(e)' /\ LeftBehind(e)'
    BY <1>6 DEF Passed
  <2>2. handled[e] = 0
    BY <1>3, <1>4, <2>1
  <2>3. e # t.event \/ (t.next = "claim" /\ events[e].processed)
    BY <1>4, <2>1
  <2>4. ~ InHand(e)
    <3> SUFFICES ASSUME NEW q \in Procs, NEW u \in todo[q], u.event = e, u.next = "handle"
                 PROVE  FALSE
      BY DEF InHand
    <3>1. u \notin todo'[q]
      BY <2>1 DEF InHand
    <3>2. u = t
      BY <1>2, <3>1
    <3> QED BY <2>3, <3>2
  <2>5. LeftBehind(e)
    <3>1. CASE events[e].processed \/ \E f \in DOMAIN events : f > e /\ events[f].processed
      BY <3>1 DEF LeftBehind
    <3>2. ASSUME NEW q \in Procs, NEW u \in todo'[q], u.event > e,
                 \A v \in todo'[q] : v.event # e, e # t.event
          PROVE  LeftBehind(e)
      <4>1. \E v \in todo[q] : v.event > e
        BY <1>2, <3>2
      <4>2. \A v \in todo[q] : v.event # e
        BY <1>2, <3>2
      <4> QED BY <4>1, <4>2 DEF LeftBehind
    <3> QED BY <2>1, <2>3, <3>1, <3>2 DEF LeftBehind
  <2> QED BY <2>1, <2>2, <2>4, <2>5 DEF Passed
<1> QED BY <1>5, <1>6

(* A process that stops loses the one event it had in its hands.             *)
LEMMA PassedByRestarts ==
  ASSUME IInv, LineInv, NEW p \in Procs, Restart(p)
  PROVE  LineInv' /\ \E x : Passed' \subseteq Passed \cup {x}
<1>1. /\ TypeOK /\ ListsInv /\ todo'[p] = {} /\ UNCHANGED <<events, handled>>
      /\ \A q \in Procs : q # p => todo'[q] = todo[q]
  BY DEF IInv, TypeOK, Restart
<1>2. LineInv'
  BY <1>1 DEF LineInv
<1>3. ASSUME NEW e \in Passed' PROVE e \in Passed \/ \E t \in todo[p] : t.event = e /\ t.next = "handle"
  <2>1. e \in DOMAIN events /\ handled[e] = 0 /\ LeftBehind(e)
    BY <1>1, <1>3 DEF Passed, LeftBehind
  <2>2. InHand(e) => \E t \in todo[p] : t.event = e /\ t.next = "handle"
    BY <1>1, <1>3 DEF Passed, InHand
  <2> QED BY <2>1, <2>2 DEF Passed
<1>4. ASSUME NEW t \in todo[p], NEW u \in todo[p], t.next = "handle", u.next = "handle"
      PROVE  t.event = u.event
  <2>1. t.event <= u.event /\ u.event <= t.event
    BY <1>4 DEF LineInv
  <2>2. t.event \in Nat /\ u.event \in Nat
    <3>1. t.event \in 1..MaxEvents /\ u.event \in 1..MaxEvents
      BY <1>1 DEF TypeOK, Task
    <3> QED BY <3>1, BillingAssumption
  <2> QED BY <2>1, <2>2
<1>5. CASE \E t \in todo[p] : t.next = "handle"
  BY <1>2, <1>3, <1>4, <1>5
<1>6. CASE ~ \E t \in todo[p] : t.next = "handle"
  BY <1>2, <1>3, <1>6
<1> QED BY <1>5, <1>6

LEMMA PassedByStripe ==
  ASSUME IInv, LineInv, StripeSends
  PROVE  LineInv' /\ Passed' \subseteq Passed
<1>1. TypeOK /\ ListsInv /\ UNCHANGED <<todo, handled>>
  BY DEF IInv, StripeSends
<1>2. /\ Len(events) \in Nat /\ DOMAIN events = 1..Len(events) /\ events \in Seq(Event)
  BY <1>1, EventsAre DEF TypeOK
<1> PICK new : new = Len(events) + 1
  OBVIOUS
<1>3. /\ DOMAIN events' = DOMAIN events \cup {new}
      /\ \A e \in DOMAIN events : events'[e] = events[e] /\ e < new /\ ~ (e > new)
      /\ ~ events'[new].processed
  <2>1. PICK x \in Event : events' = Append(events, x) /\ ~ x.processed
    <3>1. \A s \in Subs, type \in Types :
            LET x == [sub |-> s, type |-> type, processed |-> FALSE]
            IN  x \in Event /\ ~ x.processed
      BY DEF Event
    <3> QED BY <3>1 DEF StripeSends
  <2> QED BY <1>2, <2>1, AppendProperties
<1>4. ~ (new > new)
  BY <1>2
<1>5. LineInv'
  BY <1>1 DEF LineInv
<1>6. ~ LeftBehind(new)'
  BY <1>1, <1>3, <1>4 DEF LeftBehind, ListsInv
<1>7. ASSUME NEW e \in Passed' PROVE e \in Passed
  <2>1. e \in DOMAIN events /\ handled[e] = 0 /\ ~ InHand(e)
    BY <1>1, <1>3, <1>6, <1>7 DEF Passed, InHand
  <2>2. LeftBehind(e)
    BY <1>1, <1>3, <1>7, <2>1 DEF Passed, LeftBehind
  <2> QED BY <2>1, <2>2 DEF Passed
<1> QED BY <1>5, <1>7

(* A step leaves no event behind, unless it is a fault, which leaves one.    *)
LEMMA PassedSteps ==
  ASSUME IInv, LineInv, [Next]_vars
  PROVE  /\ LineInv'
         /\ \/ Passed' \subseteq Passed /\ faults' \in {faults, faults + 1}
            \/ (\E x : Passed' \subseteq Passed \cup {x}) /\ faults' = faults + 1
<1> DEFINE Goal == /\ LineInv'
                   /\ \/ Passed' \subseteq Passed /\ faults' \in {faults, faults + 1}
                      \/ (\E x : Passed' \subseteq Passed \cup {x}) /\ faults' = faults + 1
<1>1. ASSUME UNCHANGED <<events, todo, handled>>, faults' \in {faults, faults + 1} PROVE Goal
  BY <1>1 DEF LineInv, Passed, InHand, LeftBehind
<1>2. ASSUME NEW p \in Procs, NEW t \in todo[p], HandleStep(p, t) \/ HandlerError(p, t) PROVE Goal
  <2>1. faults' \in {faults, faults + 1}
    BY <1>2 DEF HandleStep, claimEvent, ClaimLost, HandlePaymentFailed, upsertInvoice,
       resetDunning, handleSubscriptionDeleted, handleSubscriptionUpdated, handleDisputeCreated,
       HandlerError, Fault
  <2>2. CASE claimEvent(p, t)
    BY <2>1, <2>2, PassedByClaims
  <2>3. CASE ~ claimEvent(p, t)
    <3>1. /\ Current(p, t) /\ UNCHANGED events
          /\ Drop(p, t) \/ (Goto(p, t, "reset") /\ t.next = "handle")
          /\ \/ t.next = "handle" /\ handled' = [handled EXCEPT ![t.event] = @ + 1]
             \/ t.next = "reset" /\ UNCHANGED handled
             \/ t.next = "claim" /\ events[t.event].processed /\ UNCHANGED handled
      BY <1>2, <2>3 DEF HandleStep, ClaimLost, HandlePaymentFailed, upsertInvoice,
         resetDunning, handleSubscriptionDeleted, handleSubscriptionUpdated,
         handleDisputeCreated, HandlerError, Handles
    <3> QED BY <2>1, <3>1, PassedByLeaving
  <2> QED BY <2>2, <2>3
<1>3. ASSUME NEW p \in Procs, NEW t \in todo[p], ClaimError(p, t) PROVE Goal
  BY <1>3, PassedByClaimErrors DEF ClaimError, Fault
<1>4. ASSUME NEW p \in Procs, Restart(p) PROVE Goal
  BY <1>4, PassedByRestarts DEF Restart, Fault
<1>5. ASSUME NEW p \in Procs, processEvents(p) PROVE Goal
  BY <1>5, PassedByReads DEF processEvents
<1>6. ASSUME NEW p \in Procs,
             Advance(p) \/ \E r \in plan[p] : EscalateStep(p, r) \/ EscalateError(p, r)
      PROVE  Goal
  BY <1>1, <1>6 DEF Advance, EscalateStep, escalateWarning, markPastDue, suspendInstances,
     advanceToSuspended, EscalateError, Fault
<1>7. ASSUME StripeSends PROVE Goal
  BY <1>7, PassedByStripe DEF StripeSends
<1>8. ASSUME (\E s \in Subs : DateComes(s)) \/ UNCHANGED vars PROVE Goal
  BY <1>1, <1>8 DEF DateComes, vars
<1> HIDE DEF Goal
<1>9. Goal
  BY <1>2, <1>3, <1>4, <1>5, <1>6, <1>7, <1>8 DEF Next, RowStep, FaultStep
<1> QED BY <1>9 DEF Goal

LEMMA NextPassed == IInv /\ PassedInv /\ [Next]_vars => PassedInv'
<1> SUFFICES ASSUME IInv, PassedInv, [Next]_vars PROVE PassedInv'
  OBVIOUS
<1>1. TypeOK /\ faults \in Nat /\ Cardinality(Passed) <= faults /\ LineInv
  BY BillingAssumption DEF IInv, PassedInv, TypeOK
<1>2. IsFiniteSet(Passed) /\ Cardinality(Passed) \in Nat
  BY <1>1, PassedFinite
<1>3. LineInv'
  BY <1>1, PassedSteps
<1>4. CASE Passed' \subseteq Passed /\ faults' \in {faults, faults + 1}
  <2>1. Cardinality(Passed') <= Cardinality(Passed) /\ Cardinality(Passed') \in Nat
    BY <1>2, <1>4, FS_Subset, FS_CardinalityType
  <2> QED BY <1>1, <1>2, <1>3, <1>4, <2>1 DEF PassedInv
<1>5. ASSUME NEW x, Passed' \subseteq Passed \cup {x}, faults' = faults + 1
      PROVE  PassedInv'
  <2>1. /\ IsFiniteSet(Passed \cup {x})
        /\ Cardinality(Passed \cup {x}) = IF x \in Passed THEN Cardinality(Passed)
                                           ELSE Cardinality(Passed) + 1
    BY <1>2, FS_AddElement
  <2>2. /\ Cardinality(Passed') <= Cardinality(Passed \cup {x})
        /\ Cardinality(Passed') \in Nat
    BY <1>5, <2>1, FS_Subset, FS_CardinalityType
  <2>3. Cardinality(Passed') <= faults'
    BY <1>1, <1>2, <1>5, <2>1, <2>2
  <2> QED BY <1>3, <2>3 DEF PassedInv
<1> QED BY <1>1, <1>4, <1>5, PassedSteps

LEMMA InitPassed == Init => PassedInv
<1> SUFFICES ASSUME Init PROVE PassedInv
  OBVIOUS
<1>1. LineInv /\ Passed = {}
  BY DEF Init, LineInv, Passed
<1> QED BY <1>1, FS_EmptySet DEF Init, PassedInv

(* Any number of processes claim from overlapping lists, and still an event that
   a later one has overtaken was in the hands of a claim that failed or of a
   process that stopped, one for each.                                       *)
THEOREM OvertakenPaidByFaultsHolds == Spec => []OvertakenPaidByFaults
<1>1. IInv /\ PassedInv => OvertakenPaidByFaults
  <2> SUFFICES ASSUME IInv, PassedInv PROVE OvertakenPaidByFaults
    OBVIOUS
  <2>1. IsFiniteSet(Passed) /\ Cardinality(Passed) \in Nat /\ Overtaken \subseteq Passed
    BY PassedFinite, OvertakenPassed DEF IInv
  <2>2. Cardinality(Overtaken) <= Cardinality(Passed) /\ Cardinality(Overtaken) \in Nat
    BY <2>1, FS_Subset, FS_CardinalityType
  <2>3. faults \in Nat
    BY BillingAssumption DEF IInv, TypeOK
  <2> QED BY <2>1, <2>2, <2>3 DEF PassedInv, OvertakenPaidByFaults
<1> QED BY <1>1, Inductive, InitPassed, NextPassed, PTL DEF Spec
=============================================================================
