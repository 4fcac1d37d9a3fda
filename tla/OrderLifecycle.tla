--------------------------- MODULE OrderLifecycle ---------------------------
(***************************************************************************)
(* What the dispatch service promises for one order when every use case on *)
(* it runs alone: a use case loads the aggregate, calls one method and     *)
(* saves it, all in one step.  Expirations may be stale or repeated, any   *)
(* driver may answer, an admin may force any driver, cancellation and      *)
(* completion may come at any time.                                        *)
(*                                                                         *)
(* Dispatch.tla is the same service with every awaited operation a step of *)
(* its own; it implements this module while one handler runs at a time.    *)
(***************************************************************************)
EXTENDS Assignment, FiniteSets

CONSTANTS MaxAttempts,  \* DISPATCH_MAX_ATTEMPTS
          MaxOffers     \* bound: offers made for one order

ASSUME LifecycleAssumption ==
  /\ MaxAttempts \in Nat \ {0}
  /\ MaxOffers \in Nat

VARIABLES created,  \* order.created was handled
          order,    \* the saved aggregate
          events    \* the events the aggregate pushed, in order

vars == <<created, order, events>>

TypeOK ==
  /\ created \in BOOLEAN
  /\ order \in Aggregate
  /\ events \in Seq(Event)

Init ==
  /\ created = FALSE
  /\ order = NewAssignment
  /\ events = <<>>

(* HandleOrderCreated: the first delivery of order.created.                *)
Create ==
  /\ ~created
  /\ created' = TRUE
  /\ UNCHANGED <<order, events>>

(* DispatchOrder.attempt: offer to a claimed driver that was not tried.    *)
Offer(d) ==
  /\ created
  /\ CanOffer(order)
  /\ Len(order.attempts) < MaxOffers
  /\ d \notin TriedDrivers(order)
  /\ order' = OfferTo(order, Len(order.attempts) + 1, d)
  /\ UNCHANGED <<created, events>>

AcceptOffer(d) ==
  /\ CanRespond(order, d)
  /\ order' = Accept(order, d)
  /\ events' = Append(events, DriverAssigned(d))
  /\ UNCHANGED created

RejectOffer(d) ==
  /\ CanRespond(order, d)
  /\ order' = RejectByDriver(order)
  /\ UNCHANGED <<created, events>>

ExpireAttempt(n) ==
  /\ CanExpire(order, n)
  /\ order' = ExpireOffer(order)
  /\ UNCHANGED <<created, events>>

(* Mutation: the order fails one offer early.                              *)
ExhaustedEarly == order.offerAttempts + 1 >= MaxAttempts

Exhausted == order.offerAttempts >= MaxAttempts

(* DispatchOrder.failOrRetry: no attempt is left.                          *)
Fail ==
  /\ created
  /\ order.status = "awaiting_driver"
  /\ Exhausted
  /\ order' = MarkFailed(order)
  /\ events' = Append(events, AssignmentFailed)
  /\ UNCHANGED created

CompleteDelivery ==
  /\ CanComplete(order)
  /\ order' = MarkCompleted(order)
  /\ UNCHANGED <<created, events>>

CancelOrder ==
  /\ created
  /\ order' = Cancel(order)
  /\ UNCHANGED <<created, events>>

ForceOrder(d) ==
  /\ created
  /\ CanForce(order)
  /\ order' = ForceAssign(order, d)
  /\ events' = Append(events, DriverAssigned(d))
  /\ UNCHANGED created

Next ==
  \/ Create
  \/ \E d \in Drivers : Offer(d)
  \/ \E d \in Drivers : AcceptOffer(d)
  \/ \E d \in Drivers : RejectOffer(d)
  \/ \E n \in 1..MaxOffers : ExpireAttempt(n)
  \/ Fail
  \/ CompleteDelivery
  \/ CancelOrder
  \/ \E d \in Drivers : ForceOrder(d)

Spec == Init /\ [][Next]_vars
-----------------------------------------------------------------------------
Told == {i \in DOMAIN events : events[i].type = "driver.assigned"}

(* An order is announced to have a driver at most once, the announcement   *)
(* names the driver the order has, and an order with a driver was          *)
(* announced (README.md:27).                                               *)
OneDriverTold ==
  /\ \A i, j \in Told : i = j
  /\ \A i \in Told : events[i].driver = order.assigned
  /\ order.assigned # NoDriver => Told # {}

(* The failure announcement is only made for an order that MaxAttempts     *)
(* different drivers declined (README.md:26).                              *)
FailedOnlyWhenExhausted ==
  (\E i \in DOMAIN events : events[i].type = "assignment.failed")
    => Cardinality(TriedDrivers(order)) >= MaxAttempts

(* The offers of one order are numbered without gaps, go to different      *)
(* drivers, and all but the last were declined; an answer is pending       *)
(* exactly while the order is offered (the numbering is what lets a stale  *)
(* expiry message be recognised, assignment.ts:128-138).                   *)
OffersInOrder ==
  /\ order.offerAttempts = Len(order.attempts)
  /\ \A i \in DOMAIN order.attempts : order.attempts[i].no = i
  /\ \A i, j \in DOMAIN order.attempts :
       order.attempts[i].driver = order.attempts[j].driver => i = j
  /\ \A i \in DOMAIN order.attempts :
       i < Len(order.attempts) => order.attempts[i].outcome \in Declined
  /\ (order.status = "offered") <=>
       \E i \in DOMAIN order.attempts : order.attempts[i].outcome = "offered"

(* History is never rewritten: an answered offer keeps its answer, an      *)
(* order keeps the driver it got, a completed or cancelled order stays so, *)
(* and a failed one leaves that state only by being given a driver.        *)
HistoryIsFinal ==
  [][/\ \A i \in DOMAIN order.attempts :
          /\ i \in DOMAIN order'.attempts
          /\ order.attempts[i].outcome # "offered"
               => order'.attempts[i] = order.attempts[i]
     /\ order.assigned # NoDriver => order'.assigned = order.assigned
     /\ order.status \in {"completed", "cancelled"}
          => order'.status = order.status
     /\ order.status = "failed" => order'.status \in {"failed", "assigned"}
    ]_vars
=============================================================================
