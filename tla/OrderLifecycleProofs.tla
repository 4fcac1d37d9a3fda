------------------------ MODULE OrderLifecycleProofs ------------------------
(***************************************************************************)
(* Proofs about OrderLifecycle, for every set of drivers, every            *)
(* MaxAttempts and every bound on the offers.                              *)
(***************************************************************************)
EXTENDS OrderLifecycle, AssignmentProofs

(* The saved order is sound (AssignmentProofs): its status agrees with its *)
(* driver and its offers, and its offers are numbered and declined in turn.*)
StatusInv == StatusSound(order)
OffersInv == OffersSound(order)

(* What has been announced fits the driver and the status of the order.    *)
EventsInv == EventsFit(events, order, MaxAttempts)

IInv == TypeOK /\ StatusInv /\ OffersInv /\ EventsInv
-----------------------------------------------------------------------------
(* Every use case leaves the order sound.                                  *)
LEMMA SoundStep ==
  ASSUME Sound(order), [Next]_vars
  PROVE  Sound(order')
<1>1. ASSUME NEW d \in Drivers, Offer(d) PROVE Sound(order')
  BY <1>1, OfferSound DEF Offer
<1>2. ASSUME NEW d \in Drivers, AcceptOffer(d) PROVE Sound(order')
  BY <1>2, MethodsSound DEF AcceptOffer
<1>3. ASSUME NEW d \in Drivers, RejectOffer(d) PROVE Sound(order')
  BY <1>3, MethodsSound DEF RejectOffer
<1>4. ASSUME NEW n \in 1..MaxOffers, ExpireAttempt(n) PROVE Sound(order')
  BY <1>4, MethodsSound DEF ExpireAttempt
<1>5. CASE Fail
  BY <1>5, MethodsSound DEF Fail
<1>6. CASE CompleteDelivery
  BY <1>6, MethodsSound DEF CompleteDelivery
<1>7. CASE CancelOrder
  BY <1>7, MethodsSound DEF CancelOrder
<1>8. ASSUME NEW d \in Drivers, ForceOrder(d) PROVE Sound(order')
  BY <1>8, MethodsSound DEF ForceOrder
<1>9. CASE Create \/ UNCHANGED vars
  BY <1>9 DEF Create, vars
<1> QED BY <1>1, <1>2, <1>3, <1>4, <1>5, <1>6, <1>7, <1>8, <1>9 DEF Next

(* So the type invariant is inductive, too.                                *)
LEMMA TypeStep ==
  ASSUME TypeOK, Sound(order'), [Next]_vars
  PROVE  TypeOK'
<1>1. order' \in Aggregate
  BY DEF Sound
<1>2. created' \in BOOLEAN
  BY DEF TypeOK, Next, vars, Create, Offer, AcceptOffer, RejectOffer, ExpireAttempt,
         Fail, CompleteDelivery, CancelOrder, ForceOrder
<1>3. events' \in Seq(Event)
  <2>1. AssignmentFailed \in Event /\ \A d \in Drivers : DriverAssigned(d) \in Event
    BY DEF AssignmentFailed, DriverAssigned, Event
  <2> QED
    BY <2>1 DEF TypeOK, Next, vars, Create, Offer, AcceptOffer, RejectOffer,
         ExpireAttempt, Fail, CompleteDelivery, CancelOrder, ForceOrder
<1> QED BY <1>1, <1>2, <1>3 DEF TypeOK

(* Every step keeps the announcements in agreement with the order.         *)
LEMMA EventsStep ==
  ASSUME Sound(order), EventsInv, [Next]_vars
  PROVE  EventsInv'
<1> USE DEF EventsInv
<1>1. ASSUME NEW d \in Drivers, Offer(d) PROVE EventsInv'
  BY <1>1, MethodsFit DEF Offer
<1>2. ASSUME NEW d \in Drivers, AcceptOffer(d) \/ RejectOffer(d) PROVE EventsInv'
  BY <1>2, MethodsFit DEF AcceptOffer, RejectOffer
<1>3. ASSUME NEW n \in 1..MaxOffers, ExpireAttempt(n) PROVE EventsInv'
  BY <1>3, MethodsFit DEF ExpireAttempt
<1>4. CASE Fail
  BY <1>4, MethodsFit DEF Fail, Exhausted
<1>5. CASE CompleteDelivery \/ CancelOrder
  BY <1>5, MethodsFit DEF CompleteDelivery, CancelOrder
<1>6. ASSUME NEW d \in Drivers, ForceOrder(d) PROVE EventsInv'
  BY <1>6, MethodsFit DEF ForceOrder
<1>7. CASE Create \/ UNCHANGED vars
  BY <1>7 DEF Create, vars
<1> QED BY <1>1, <1>2, <1>3, <1>4, <1>5, <1>6, <1>7 DEF Next

(* The strengthened invariant holds at first.                              *)
LEMMA InitInvariant ==
  ASSUME Init
  PROVE  IInv
<1>1. Sound(order)
  BY NewSound DEF Init
<1>2. TypeOK
  <2>1. events \in Seq(Event)
    BY DEF Init
  <2> QED BY <1>1, <2>1 DEF Init, TypeOK, Sound
<1>3. EventsInv
  BY DEF Init, EventsInv, EventsFit, NewAssignment
<1> QED BY <1>1, <1>2, <1>3 DEF IInv, StatusInv, OffersInv, Sound

(* Every step keeps the strengthened invariant.                            *)
LEMMA InvariantStep ==
  ASSUME IInv, [Next]_vars
  PROVE  IInv'
<1>1. Sound(order)
  BY DEF IInv, TypeOK, StatusInv, OffersInv, Sound
<1>2. Sound(order')
  BY <1>1, SoundStep
<1>3. TypeOK' /\ EventsInv'
  BY <1>1, <1>2, TypeStep, EventsStep DEF IInv
<1> QED BY <1>2, <1>3 DEF IInv, StatusInv, OffersInv, Sound

(* The strengthened invariant, for every instance of the constants.        *)
THEOREM LifecycleInvariant == Spec => []IInv
<1>1. Init => IInv
  BY InitInvariant
<1>2. IInv /\ [Next]_vars => IInv'
  BY InvariantStep
<1> QED BY <1>1, <1>2, PTL DEF Spec

(* The types of the lifecycle's variables.                                 *)
THEOREM LifecycleTypes == Spec => []TypeOK
<1>1. IInv => TypeOK
  BY DEF IInv
<1> QED BY <1>1, LifecycleInvariant, PTL

(* One driver is announced per order, and it is the order's driver         *)
(* (README.md:27), whatever the interleaving of whole use cases.           *)
THEOREM LifecycleTellsOneDriver == Spec => []OneDriverTold
<1>1. IInv => OneDriverTold
  BY FittingEvents DEF IInv, EventsInv, OneDriverTold, Told
<1> QED BY <1>1, LifecycleInvariant, PTL

(* A failure is announced only after MaxAttempts different drivers         *)
(* declined the order (README.md:26).                                      *)
THEOREM LifecycleFailsOnlyExhausted == Spec => []FailedOnlyWhenExhausted
<1>1. IInv => FailedOnlyWhenExhausted
  <2> SUFFICES ASSUME IInv,
                      NEW i \in DOMAIN events,
                      events[i].type = "assignment.failed"
               PROVE  Cardinality(TriedDrivers(order)) >= MaxAttempts
    BY DEF FailedOnlyWhenExhausted
  <2>1. ExhaustedFor(order, MaxAttempts)
    BY FittingEvents DEF IInv, EventsInv
  <2>2. Sound(order)
    BY DEF IInv, TypeOK, StatusInv, OffersInv, Sound
  <2> QED BY <2>1, <2>2, TriedCount DEF ExhaustedFor
<1> QED BY <1>1, LifecycleInvariant, PTL

(* The offers of an order are numbered without gaps, go to different       *)
(* drivers and are declined before the next one is made.                   *)
THEOREM LifecycleOffersInOrder == Spec => []OffersInOrder
<1>1. IInv => OffersInOrder
  <2> SUFFICES ASSUME IInv PROVE OffersInOrder
    OBVIOUS
  <2>1. /\ order.attempts \in Seq(Attempt)
        /\ DOMAIN order.attempts = 1..Len(order.attempts)
        /\ Len(order.attempts) \in Nat
    BY DEF IInv, TypeOK, Aggregate
  <2>2. (order.status = "offered") <=>
          \E i \in DOMAIN order.attempts : order.attempts[i].outcome = "offered"
    BY <2>1 DEF IInv, StatusInv, StatusSound, CurrentAttempt
  <2> QED BY <2>1, <2>2 DEF IInv, OffersInv, OffersSound, OffersInOrder
<1> QED BY <1>1, LifecycleInvariant, PTL

(* What a step leaves as it was, in the words of HistoryIsFinal.           *)
Kept ==
  /\ \A i \in DOMAIN order.attempts :
       /\ i \in DOMAIN order'.attempts
       /\ order.attempts[i].outcome # "offered"
            => order'.attempts[i] = order.attempts[i]
  /\ order.assigned # NoDriver => order'.assigned = order.assigned
  /\ order.status \in {"completed", "cancelled"}
       => order'.status = order.status
  /\ order.status = "failed" => order'.status \in {"failed", "assigned"}

(* No step changes an answer, a driver or an end state.                    *)
LEMMA KeptStep ==
  ASSUME IInv, [Next]_vars
  PROVE  Kept
<1> USE DEF Kept
<1>1. ASSUME Next PROVE Kept
  <2>0. /\ order \in Aggregate
        /\ Len(order.attempts) \in Nat
        /\ DOMAIN order.attempts = 1..Len(order.attempts)
    BY <1>1 DEF IInv, TypeOK, Aggregate
  <2>1. ASSUME NEW d \in Drivers, Offer(d) PROVE Kept
    <3> DEFINE o == OfferTo(order, Len(order.attempts) + 1, d)
    <3>1. /\ o.assigned = order.assigned
          /\ Len(o.attempts) = Len(order.attempts) + 1
          /\ \A i \in 1..Len(order.attempts) : o.attempts[i] = order.attempts[i]
          /\ DOMAIN o.attempts = 1..Len(o.attempts)
      BY <2>0, OfferFacts DEF Aggregate
    <3>2. order' = o /\ order.status = "awaiting_driver"
      BY <2>1 DEF Offer, CanOffer
    <3> HIDE DEF o
    <3> QED BY <2>0, <3>1, <3>2
  <2>2. ASSUME order.status = "offered",
               order.attempts # <<>>,
               NEW o \in Outcomes,
               order'.attempts = Resolve(order, o)
        PROVE  Kept
    <3>1. order.assigned = NoDriver
      BY <1>1, <2>2 DEF IInv, StatusInv, StatusSound, Open
    <3>2. order.attempts[Len(order.attempts)].outcome = "offered"
      BY <1>1, <2>2 DEF IInv, StatusInv, StatusSound, CurrentAttempt
    <3>3. /\ order'.attempts \in Seq(Attempt)
          /\ Len(order'.attempts) = Len(order.attempts)
          /\ \A i \in 1..Len(order.attempts) : i # Len(order.attempts) =>
               order'.attempts[i] = order.attempts[i]
      BY <2>0, <2>2, ResolveFacts
    <3>4. DOMAIN order'.attempts = DOMAIN order.attempts
      BY <2>0, <3>3
    <3> QED BY <2>0, <2>2, <3>1, <3>2, <3>3, <3>4
  <2>3. ASSUME NEW d \in Drivers, AcceptOffer(d) PROVE Kept
    <3>1. /\ order.status = "offered"
          /\ order.attempts # <<>>
          /\ order'.attempts = Resolve(order, "accepted")
      BY <2>0, <2>3 DEF AcceptOffer, CanRespond, Accept, Aggregate
    <3> QED BY <2>2, <3>1 DEF Outcomes
  <2>4. ASSUME NEW d \in Drivers, RejectOffer(d) PROVE Kept
    <3>1. /\ order.status = "offered"
          /\ order.attempts # <<>>
          /\ order'.attempts = Resolve(order, "rejected")
      BY <2>0, <2>4 DEF RejectOffer, CanRespond, RejectByDriver, Aggregate
    <3> QED BY <2>2, <3>1 DEF Outcomes
  <2>5. ASSUME NEW n \in 1..MaxOffers, ExpireAttempt(n) PROVE Kept
    <3>1. /\ order.status = "offered"
          /\ order.attempts # <<>>
          /\ order'.attempts = Resolve(order, "expired")
      BY <2>0, <2>5 DEF ExpireAttempt, CanExpire, ExpireOffer, Aggregate
    <3> QED BY <2>2, <3>1 DEF Outcomes
  <2>6. CASE CancelOrder
    <3>1. CASE order.status \in Terminal
      BY <2>6, <3>1 DEF CancelOrder, Cancel
    <3>2. CASE order.status = "offered"
      <4>1. order.attempts # <<>>
        BY <1>1, <3>2 DEF IInv, StatusInv, StatusSound
      <4>2. order'.attempts = Resolve(order, "expired")
        BY <2>0, <2>6, <3>2, <4>1 DEF CancelOrder, Cancel, Terminal, Aggregate
      <4> QED BY <2>2, <3>2, <4>1, <4>2 DEF Outcomes
    <3>3. CASE order.status \notin Terminal /\ order.status # "offered"
      <4>1. order'.attempts = order.attempts /\ order'.assigned = order.assigned
        BY <2>0, <2>6, <3>3 DEF CancelOrder, Cancel, Aggregate
      <4> QED BY <3>3, <4>1 DEF Terminal
    <3> QED BY <3>1, <3>2, <3>3
  <2>7. CASE Fail
    <3>1. /\ order.status = "awaiting_driver"
          /\ order'.attempts = order.attempts
          /\ order'.assigned = order.assigned
      BY <2>0, <2>7 DEF Fail, MarkFailed, Aggregate
    <3> QED BY <3>1
  <2>8. CASE CompleteDelivery
    <3>1. /\ order.status = "assigned"
          /\ order'.attempts = order.attempts
          /\ order'.assigned = order.assigned
      BY <2>0, <2>8 DEF CompleteDelivery, CanComplete, MarkCompleted, Aggregate
    <3> QED BY <3>1
  <2>9. ASSUME NEW d \in Drivers, ForceOrder(d) PROVE Kept
    <3>1. /\ order.status \in {"awaiting_driver", "failed"}
          /\ order.assigned = NoDriver
          /\ order'.attempts = order.attempts
          /\ order'.status = "assigned"
      BY <1>1, <2>0, <2>9
         DEF ForceOrder, CanForce, ForceAssign, Aggregate, IInv, StatusInv, StatusSound, Open
    <3> QED BY <3>1
  <2>10. CASE Create
    BY <2>10 DEF Create
  <2> QED
    BY <1>1, <2>1, <2>3, <2>4, <2>5, <2>6, <2>7, <2>8, <2>9, <2>10 DEF Next
<1>2. CASE UNCHANGED vars
  BY <1>2 DEF vars
<1> QED BY <1>1, <1>2

(* History is never rewritten, as a property of every step.                *)
THEOREM LifecycleHistoryIsFinal == Spec => HistoryIsFinal
<1>1. IInv /\ [Next]_vars => [Kept]_vars
  BY KeptStep
<1> QED BY <1>1, LifecycleInvariant, PTL DEF Spec, HistoryIsFinal, Kept
=============================================================================
