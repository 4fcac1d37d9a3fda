-------------------------- MODULE AssignmentProofs --------------------------
(***************************************************************************)
(* Proofs about the methods of the Assignment aggregate, for every set of  *)
(* drivers: each returns an aggregate, and keeps what holds of every       *)
(* assignment that is only changed through them.                           *)
(***************************************************************************)
EXTENDS Assignment, FiniteSetTheorems, SequenceTheorems, TLAPS

Open == {"awaiting_driver", "offered", "failed"}  \* no driver yet

AllDeclined(a) == \A i \in 1..Len(a.attempts) : a.attempts[i].outcome \in Declined

(* What the status says about the driver and about the offers.             *)
StatusSound(a) ==
  /\ a.status \in Open => a.assigned = NoDriver
  /\ a.status \in {"assigned", "completed"} => a.assigned \in Drivers
  /\ a.status \in {"awaiting_driver", "failed"} => AllDeclined(a)
  /\ a.status = "offered" =>
       /\ a.attempts # <<>>
       /\ CurrentAttempt(a).outcome = "offered"
  /\ a.status # "offered" =>
       \A i \in 1..Len(a.attempts) : a.attempts[i].outcome # "offered"

(* What the list of offers looks like.                                     *)
OffersSound(a) ==
  /\ a.offerAttempts = Len(a.attempts)
  /\ \A i \in 1..Len(a.attempts) : a.attempts[i].no = i /\ a.attempts[i].id = i
  /\ \A i \in 1..Len(a.attempts) :
       i < Len(a.attempts) => a.attempts[i].outcome \in Declined
  /\ \A i, j \in 1..Len(a.attempts) :
       a.attempts[i].driver = a.attempts[j].driver => i = j

(* An assignment only ever changed by the methods.                         *)
Sound(a) == a \in Aggregate /\ StatusSound(a) /\ OffersSound(a)
-----------------------------------------------------------------------------
(* Resolving the current offer changes its outcome and nothing else.       *)
LEMMA ResolveFacts ==
  ASSUME NEW a \in Aggregate, a.attempts # <<>>, NEW o \in Outcomes
  PROVE  /\ Resolve(a, o) \in Seq(Attempt)
         /\ Len(Resolve(a, o)) = Len(a.attempts)
         /\ Len(a.attempts) \in Nat \ {0}
         /\ \A i \in 1..Len(a.attempts) : i # Len(a.attempts) =>
              Resolve(a, o)[i] = a.attempts[i]
         /\ \A i \in 1..Len(a.attempts) :
              /\ Resolve(a, o)[i].driver = a.attempts[i].driver
              /\ Resolve(a, o)[i].no = a.attempts[i].no
              /\ Resolve(a, o)[i].id = a.attempts[i].id
         /\ Resolve(a, o)[Len(a.attempts)].outcome = o
<1> DEFINE s == a.attempts
           n == Len(s)
           r == [s EXCEPT ![n].outcome = o]
<1>1. s \in Seq(Attempt) /\ n \in Nat \ {0} /\ DOMAIN s = 1..n
  BY DEF Aggregate
<1>2. \A i \in 1..n : s[i] \in Attempt
  BY <1>1
<1>3. r \in [1..n -> Attempt]
  <2>1. ASSUME NEW x \in Attempt PROVE [x EXCEPT !.outcome = o] \in Attempt
    BY DEF Attempt
  <2>2. [s[n] EXCEPT !.outcome = o] \in Attempt
    BY <2>1, <1>1, <1>2
  <2> QED BY <2>2, <1>1, <1>2
<1>4. r \in Seq(Attempt) /\ Len(r) = n
  BY <1>1, <1>3
<1>5. /\ \A i \in 1..n : i # n => r[i] = s[i]
      /\ r[n] = [s[n] EXCEPT !.outcome = o]
  BY <1>1
<1>6. /\ r[n].outcome = o
      /\ r[n].driver = s[n].driver
      /\ r[n].no = s[n].no
      /\ r[n].id = s[n].id
  BY <1>1, <1>2, <1>5 DEF Attempt
<1>7. \A i \in 1..n : /\ r[i].driver = s[i].driver
                     /\ r[i].no = s[i].no /\ r[i].id = s[i].id
  BY <1>5, <1>6
<1> QED BY <1>1, <1>4, <1>5, <1>6, <1>7 DEF Resolve

(* An offer is appended, pending, with the next number.                    *)
LEMMA OfferFacts ==
  ASSUME NEW a \in Aggregate, NEW id \in Nat, NEW d \in Drivers
  PROVE  /\ OfferTo(a, id, d) \in Aggregate
         /\ OfferTo(a, id, d).status = "offered"
         /\ OfferTo(a, id, d).assigned = a.assigned
         /\ OfferTo(a, id, d).offerAttempts = a.offerAttempts + 1
         /\ Len(OfferTo(a, id, d).attempts) = Len(a.attempts) + 1
         /\ \A i \in 1..Len(a.attempts) :
              OfferTo(a, id, d).attempts[i] = a.attempts[i]
         /\ OfferTo(a, id, d).attempts[Len(a.attempts) + 1].driver = d
         /\ OfferTo(a, id, d).attempts[Len(a.attempts) + 1].no = a.offerAttempts + 1
         /\ OfferTo(a, id, d).attempts[Len(a.attempts) + 1].id = id
         /\ OfferTo(a, id, d).attempts[Len(a.attempts) + 1].outcome = "offered"
<1> DEFINE x == [id |-> id, driver |-> d, no |-> a.offerAttempts + 1,
                 outcome |-> "offered"]
<1>1. a.attempts \in Seq(Attempt) /\ a.offerAttempts \in Nat
  BY DEF Aggregate
<1>2. x \in Attempt
  BY <1>1 DEF Attempt, Outcomes
<1>3. /\ Append(a.attempts, x) \in Seq(Attempt)
      /\ Len(Append(a.attempts, x)) = Len(a.attempts) + 1
      /\ \A i \in 1..Len(a.attempts) : Append(a.attempts, x)[i] = a.attempts[i]
      /\ Append(a.attempts, x)[Len(a.attempts) + 1] = x
  BY <1>1, <1>2
<1> DEFINE q == Append(a.attempts, x)
<1>4. OfferTo(a, id, d) = [a EXCEPT !.status = "offered",
                                    !.offerAttempts = a.offerAttempts + 1,
                                    !.attempts = q]
  BY DEF OfferTo
<1>5. q \in Seq(Attempt)
  BY <1>3
<1> HIDE DEF q
<1>6. /\ OfferTo(a, id, d) \in Aggregate
      /\ OfferTo(a, id, d).status = "offered"
      /\ OfferTo(a, id, d).assigned = a.assigned
      /\ OfferTo(a, id, d).offerAttempts = a.offerAttempts + 1
      /\ OfferTo(a, id, d).attempts = q
  <2>1. /\ a \in [status: Statuses, assigned: Drivers \cup {NoDriver},
                  offerAttempts: Nat, attempts: Seq(Attempt)]
        /\ "offered" \in Statuses
        /\ a.offerAttempts + 1 \in Nat
    BY <1>1 DEF Aggregate, Statuses
  <2>2. OfferTo(a, id, d) \in Aggregate
    BY <2>1, <1>4, <1>5 DEF Aggregate
  <2> QED BY <2>1, <2>2, <1>4
<1>7. /\ Len(q) = Len(a.attempts) + 1
      /\ \A i \in 1..Len(a.attempts) : q[i] = a.attempts[i]
      /\ q[Len(a.attempts) + 1] = x
  BY <1>3 DEF q
<1> QED BY <1>6, <1>7

LEMMA NewTyped ==
  NewAssignment \in Aggregate
BY DEF NewAssignment, Aggregate, Statuses

(* Every method returns an aggregate, with the number of offers it had.    *)
LEMMA MethodsTyped ==
  ASSUME NEW a \in Aggregate
  PROVE  /\ MarkFailed(a) \in Aggregate
         /\ MarkCompleted(a) \in Aggregate
         /\ \A d \in Drivers : ForceAssign(a, d) \in Aggregate
BY DEF Aggregate, Statuses, MarkFailed, MarkCompleted, ForceAssign

LEMMA AnswersTyped ==
  ASSUME NEW a \in Aggregate, a.attempts # <<>>
  PROVE  /\ \A d \in Drivers : Accept(a, d) \in Aggregate
         /\ RejectByDriver(a) \in Aggregate
         /\ ExpireOffer(a) \in Aggregate
         /\ CurrentAttempt(a) \in Attempt
<1>1. \A o \in Outcomes : Resolve(a, o) \in Seq(Attempt)
  BY ResolveFacts
<1>2. /\ Resolve(a, "accepted") \in Seq(Attempt)
      /\ Resolve(a, "rejected") \in Seq(Attempt)
      /\ Resolve(a, "expired") \in Seq(Attempt)
  BY <1>1 DEF Outcomes
<1>3. CurrentAttempt(a) \in Attempt
  BY DEF CurrentAttempt, Aggregate
<1> QED BY <1>2, <1>3 DEF Aggregate, Statuses, Accept, RejectByDriver, ExpireOffer

LEMMA CancelTyped ==
  ASSUME NEW a \in Aggregate
  PROVE  /\ Cancel(a) \in Aggregate
         /\ FreedByCancel(a) \in Drivers \cup {NoDriver}
<1>1. CASE a.status = "offered" /\ a.attempts # <<>>
  <2>1. Resolve(a, "expired") \in Seq(Attempt)
    BY <1>1, ResolveFacts DEF Outcomes
  <2>2. CurrentAttempt(a) \in Attempt
    BY <1>1, AnswersTyped
  <2> QED BY <1>1, <2>1, <2>2 DEF Cancel, FreedByCancel, Aggregate, Statuses, Terminal, Attempt
<1>2. CASE ~(a.status = "offered" /\ a.attempts # <<>>)
  BY <1>2 DEF Cancel, FreedByCancel, Aggregate, Statuses
<1> QED BY <1>1, <1>2

(* The fields each method leaves and changes.                              *)
LEMMA MethodFields ==
  ASSUME NEW a \in Aggregate, NEW d
  PROVE  /\ Accept(a, d).status = "assigned" /\ Accept(a, d).assigned = d
         /\ Accept(a, d).offerAttempts = a.offerAttempts
         /\ Accept(a, d).attempts = Resolve(a, "accepted")
         /\ RejectByDriver(a).status = "awaiting_driver"
         /\ RejectByDriver(a).assigned = a.assigned
         /\ RejectByDriver(a).offerAttempts = a.offerAttempts
         /\ RejectByDriver(a).attempts = Resolve(a, "rejected")
         /\ ExpireOffer(a).status = "awaiting_driver"
         /\ ExpireOffer(a).assigned = a.assigned
         /\ ExpireOffer(a).offerAttempts = a.offerAttempts
         /\ ExpireOffer(a).attempts = Resolve(a, "expired")
         /\ MarkFailed(a).status = "failed" /\ MarkFailed(a).assigned = a.assigned
         /\ MarkFailed(a).offerAttempts = a.offerAttempts
         /\ MarkFailed(a).attempts = a.attempts
         /\ MarkCompleted(a).status = "completed"
         /\ MarkCompleted(a).assigned = a.assigned
         /\ MarkCompleted(a).offerAttempts = a.offerAttempts
         /\ MarkCompleted(a).attempts = a.attempts
         /\ ForceAssign(a, d).status = "assigned" /\ ForceAssign(a, d).assigned = d
         /\ ForceAssign(a, d).offerAttempts = a.offerAttempts
         /\ ForceAssign(a, d).attempts = a.attempts
BY DEF Aggregate, Accept, RejectByDriver, ExpireOffer, MarkFailed, MarkCompleted, ForceAssign

LEMMA CancelFields ==
  ASSUME NEW a \in Aggregate
  PROVE  /\ Cancel(a).status = IF a.status \in Terminal THEN a.status ELSE "cancelled"
         /\ Cancel(a).assigned = a.assigned
         /\ Cancel(a).offerAttempts = a.offerAttempts
         /\ Cancel(a).attempts = IF a.status = "offered" /\ a.attempts # <<>>
                                 THEN Resolve(a, "expired") ELSE a.attempts
BY DEF Aggregate, Cancel, Terminal
-----------------------------------------------------------------------------
(* An answered offer: accepted, declined, or expired by a cancellation.    *)
LEMMA AnsweredSound ==
  ASSUME NEW a, Sound(a), a.status = "offered",
         NEW b \in Aggregate, NEW o \in Outcomes,
         b.attempts = Resolve(a, o), b.offerAttempts = a.offerAttempts,
         \/ b.status = "assigned" /\ b.assigned \in Drivers /\ o = "accepted"
         \/ b.status = "awaiting_driver" /\ b.assigned = a.assigned /\ o \in Declined
         \/ b.status = "cancelled" /\ b.assigned = a.assigned /\ o \in Declined
  PROVE  Sound(b)
<1> DEFINE n == Len(a.attempts)
<1>1. a \in Aggregate /\ a.attempts # <<>> /\ n \in Nat \ {0} /\ a.offerAttempts = n
  BY DEF Sound, Aggregate, StatusSound, OffersSound
<1>2. /\ Len(b.attempts) = n
      /\ \A i \in 1..n : i # n => b.attempts[i] = a.attempts[i]
      /\ \A i \in 1..n : /\ b.attempts[i].driver = a.attempts[i].driver
                         /\ b.attempts[i].no = a.attempts[i].no
                         /\ b.attempts[i].id = a.attempts[i].id
      /\ b.attempts[n].outcome = o
  BY <1>1, ResolveFacts
<1>3. \A i \in 1..n : i < n => b.attempts[i].outcome \in Declined
  BY <1>1, <1>2 DEF Sound, OffersSound
<1>4. OffersSound(b)
  BY <1>1, <1>2, <1>3 DEF Sound, OffersSound
<1>5. \A i \in 1..n : b.attempts[i].outcome \in Declined \/ b.attempts[i].outcome = o
  BY <1>1, <1>2, <1>3
<1>6. StatusSound(b)
  BY <1>1, <1>2, <1>5 DEF Sound, StatusSound, Open, AllDeclined, Declined
<1> QED BY <1>4, <1>6 DEF Sound

(* A change of status while no answer is pending.                          *)
LEMMA SettledSound ==
  ASSUME NEW a, Sound(a), a.status # "offered", NEW b \in Aggregate,
         b.attempts = a.attempts, b.offerAttempts = a.offerAttempts,
         \/ b.status = "failed" /\ a.status = "awaiting_driver" /\ b.assigned = a.assigned
         \/ b.status = "completed" /\ a.status = "assigned" /\ b.assigned = a.assigned
         \/ b.status = "cancelled" /\ b.assigned = a.assigned
         \/ b.status = "assigned" /\ b.assigned \in Drivers
  PROVE  Sound(b)
<1>1. OffersSound(b)
  BY DEF Sound, OffersSound
<1>2. StatusSound(b)
  BY DEF Sound, StatusSound, Open, AllDeclined, Declined
<1> QED BY <1>1, <1>2 DEF Sound

LEMMA NewSound ==
  Sound(NewAssignment)
<1>1. NewAssignment.attempts = <<>> /\ Len(NewAssignment.attempts) = 0
  BY DEF NewAssignment
<1> QED
  BY <1>1, NewTyped DEF Sound, StatusSound, OffersSound, AllDeclined, NewAssignment

(* The next offer goes to a driver who did not decline before.             *)
LEMMA OfferSound ==
  ASSUME NEW a, Sound(a), CanOffer(a), NEW d \in Drivers, d \notin TriedDrivers(a)
  PROVE  Sound(OfferTo(a, Len(a.attempts) + 1, d))
<1> DEFINE n == Len(a.attempts)
           b == OfferTo(a, n + 1, d)
<1>1. a \in Aggregate /\ n \in Nat /\ n + 1 \in Nat /\ a.offerAttempts = n
      /\ DOMAIN a.attempts = 1..n
  BY DEF Sound, Aggregate, OffersSound
<1>2. /\ b \in Aggregate
      /\ b.status = "offered"
      /\ b.assigned = a.assigned
      /\ b.offerAttempts = a.offerAttempts + 1
      /\ Len(b.attempts) = n + 1
      /\ \A i \in 1..n : b.attempts[i] = a.attempts[i]
      /\ b.attempts[n + 1].driver = d
      /\ b.attempts[n + 1].no = a.offerAttempts + 1
      /\ b.attempts[n + 1].id = n + 1
      /\ b.attempts[n + 1].outcome = "offered"
  <2>1. a \in Aggregate /\ n + 1 \in Nat
    BY <1>1
  <2>2. ASSUME NEW m \in Nat
        PROVE  /\ OfferTo(a, m, d) \in Aggregate
               /\ OfferTo(a, m, d).status = "offered"
               /\ OfferTo(a, m, d).assigned = a.assigned
               /\ OfferTo(a, m, d).offerAttempts = a.offerAttempts + 1
               /\ Len(OfferTo(a, m, d).attempts) = n + 1
               /\ \A i \in 1..n : OfferTo(a, m, d).attempts[i] = a.attempts[i]
               /\ OfferTo(a, m, d).attempts[n + 1].driver = d
               /\ OfferTo(a, m, d).attempts[n + 1].no = a.offerAttempts + 1
               /\ OfferTo(a, m, d).attempts[n + 1].id = m
               /\ OfferTo(a, m, d).attempts[n + 1].outcome = "offered"
    BY <2>1, OfferFacts
  <2> QED BY <2>1, <2>2
<1>3. /\ a.assigned = NoDriver
      /\ \A i \in 1..n : a.attempts[i].outcome \in Declined
  BY DEF Sound, StatusSound, CanOffer, Open, AllDeclined
<1>4. \A i \in 1..n : a.attempts[i].driver # d
  BY <1>1, <1>3 DEF TriedDrivers
<1>5. \A i \in 1..n + 1 : i \in 1..n \/ i = n + 1
  BY <1>1
<1>6. /\ \A i \in 1..n : a.attempts[i].no = i /\ a.attempts[i].id = i
      /\ \A i, j \in 1..n : a.attempts[i].driver = a.attempts[j].driver => i = j
  BY DEF Sound, OffersSound
<1> HIDE DEF b
<1>7. OffersSound(b)
  <2>1. \A i \in 1..n + 1 : b.attempts[i].no = i /\ b.attempts[i].id = i
    BY <1>1, <1>2, <1>5, <1>6
  <2>2. \A i \in 1..n + 1 : i < n + 1 => b.attempts[i].outcome \in Declined
    BY <1>1, <1>2, <1>3
  <2>3. \A i, j \in 1..n + 1 :
          b.attempts[i].driver = b.attempts[j].driver => i = j
    BY <1>2, <1>4, <1>5, <1>6
  <2> QED BY <1>1, <1>2, <2>1, <2>2, <2>3 DEF OffersSound
<1>8. StatusSound(b)
  <2>1. b.attempts # <<>>
    BY <1>1, <1>2
  <2> QED BY <1>2, <1>3, <2>1 DEF StatusSound, CurrentAttempt, Open
<1> QED BY <1>2, <1>7, <1>8 DEF Sound, b

(* Every other method, where its guard holds, keeps an assignment sound.   *)
LEMMA MethodsSound ==
  ASSUME NEW a, Sound(a)
  PROVE  /\ \A d \in Drivers : CanRespond(a, d) =>
              Sound(Accept(a, d)) /\ Sound(RejectByDriver(a))
         /\ \A n : CanExpire(a, n) => Sound(ExpireOffer(a))
         /\ a.status = "awaiting_driver" => Sound(MarkFailed(a))
         /\ CanComplete(a) => Sound(MarkCompleted(a))
         /\ Sound(Cancel(a))
         /\ \A d \in Drivers : CanForce(a) => Sound(ForceAssign(a, d))
<1>1. a \in Aggregate
  BY DEF Sound
<1>2. ASSUME a.status = "offered"
      PROVE  /\ \A d \in Drivers : Sound(Accept(a, d))
             /\ Sound(RejectByDriver(a))
             /\ Sound(ExpireOffer(a))
             /\ Sound(Cancel(a))
  <2>1. a.attempts # <<>>
    BY <1>2 DEF Sound, StatusSound
  <2>2. {"accepted", "rejected", "expired"} \subseteq Outcomes
    BY DEF Outcomes
  <2>3. ASSUME NEW d \in Drivers PROVE Sound(Accept(a, d))
    BY <1>1, <1>2, <2>1, <2>2, AnswersTyped, MethodFields, AnsweredSound
  <2>4. Sound(RejectByDriver(a)) /\ Sound(ExpireOffer(a))
    BY <1>1, <1>2, <2>1, <2>2, AnswersTyped, MethodFields, AnsweredSound DEF Declined
  <2>5. Sound(Cancel(a))
    <3>1. /\ Cancel(a) \in Aggregate
          /\ Cancel(a).status = "cancelled" /\ Cancel(a).assigned = a.assigned
          /\ Cancel(a).offerAttempts = a.offerAttempts
          /\ Cancel(a).attempts = Resolve(a, "expired")
      BY <1>1, <1>2, <2>1, CancelTyped, CancelFields DEF Terminal
    <3> QED BY <1>2, <2>2, <3>1, AnsweredSound DEF Declined
  <2> QED BY <2>3, <2>4, <2>5
<1>3. ASSUME a.status # "offered" PROVE Sound(Cancel(a))
  <2>1. CASE a.status \in Terminal
    BY <2>1 DEF Cancel
  <2>2. CASE a.status \notin Terminal
    BY <1>1, <1>3, <2>2, CancelTyped, CancelFields, SettledSound
  <2> QED BY <2>1, <2>2
<1>4. a.status = "awaiting_driver" => Sound(MarkFailed(a))
  BY <1>1, MethodsTyped, MethodFields, SettledSound
<1>5. CanComplete(a) => Sound(MarkCompleted(a))
  BY <1>1, MethodsTyped, MethodFields, SettledSound DEF CanComplete
<1>6. ASSUME NEW d \in Drivers, CanForce(a) PROVE Sound(ForceAssign(a, d))
  <2>1. a.status # "offered"
    BY <1>6 DEF CanForce
  <2> QED BY <1>1, <1>6, <2>1, MethodsTyped, MethodFields, SettledSound
<1> QED BY <1>2, <1>3, <1>4, <1>5, <1>6 DEF CanRespond, CanExpire
-----------------------------------------------------------------------------
ExhaustedFor(a, max) == AllDeclined(a) /\ Len(a.attempts) >= max

(* The events e pushed so far fit the driver and the status of a, where an *)
(* order fails after max offers.                                           *)
EventsFit(e, a, max) ==
  \/ /\ e = <<>>
     /\ a.assigned = NoDriver
     /\ a.status # "failed"
  \/ /\ e = <<AssignmentFailed>>
     /\ a.assigned = NoDriver
     /\ a.status = "failed"
     /\ ExhaustedFor(a, max)
  \/ /\ e = <<DriverAssigned(a.assigned)>>
     /\ a.assigned \in Drivers
  \/ /\ e = <<AssignmentFailed, DriverAssigned(a.assigned)>>
     /\ a.assigned \in Drivers
     /\ ExhaustedFor(a, max)

(* Appending to a sequence of one element.                                 *)
LEMMA AppendToOne ==
  ASSUME NEW S, NEW x \in S, NEW y \in S
  PROVE  Append(<<x>>, y) = <<x, y>>
<1>1. <<x>> \in Seq(S) /\ Len(<<x>>) = 1
  OBVIOUS
<1>2. /\ Append(<<x>>, y) \in Seq(S)
      /\ Len(Append(<<x>>, y)) = 2
      /\ Append(<<x>>, y)[1] = x
      /\ Append(<<x>>, y)[2] = y
  BY <1>1
<1>3. <<x, y>> \in Seq(S) /\ Len(<<x, y>>) = 2
  OBVIOUS
<1>4. \A i \in 1..2 : Append(<<x>>, y)[i] = <<x, y>>[i]
  BY <1>2
<1> QED BY <1>2, <1>3, <1>4, SeqEqual

(* Every method pushes what makes the events fit again.                    *)
LEMMA MethodsFit ==
  ASSUME NEW a, Sound(a), NEW e, NEW max, EventsFit(e, a, max)
  PROVE  /\ CanOffer(a) => \A n, d : EventsFit(e, OfferTo(a, n, d), max)
         /\ \A d \in Drivers : CanRespond(a, d) =>
              /\ EventsFit(Append(e, DriverAssigned(d)), Accept(a, d), max)
              /\ EventsFit(e, RejectByDriver(a), max)
         /\ \A n : CanExpire(a, n) => EventsFit(e, ExpireOffer(a), max)
         /\ a.status = "awaiting_driver" /\ a.offerAttempts >= max =>
              EventsFit(Append(e, AssignmentFailed), MarkFailed(a), max)
         /\ CanComplete(a) => EventsFit(e, MarkCompleted(a), max)
         /\ EventsFit(e, Cancel(a), max)
         /\ \A d \in Drivers : CanForce(a) =>
              EventsFit(Append(e, DriverAssigned(d)), ForceAssign(a, d), max)
<1>1. a \in Aggregate
  BY DEF Sound
<1>2. a.status \in Open => a.assigned = NoDriver /\ a.assigned \notin Drivers
  BY NoDriverAssumption DEF Sound, StatusSound
<1>3. a.status \in {"awaiting_driver", "offered"} => e = <<>>
  BY <1>2 DEF EventsFit, Open
<1>4. CanOffer(a) => \A n, d : EventsFit(e, OfferTo(a, n, d), max)
  <2> SUFFICES ASSUME CanOffer(a), NEW n, NEW d PROVE EventsFit(e, OfferTo(a, n, d), max)
    OBVIOUS
  <2>1. OfferTo(a, n, d).status = "offered" /\ OfferTo(a, n, d).assigned = a.assigned
    BY <1>1 DEF OfferTo, Aggregate
  <2> QED BY <1>2, <1>3, <2>1 DEF CanOffer, Open, EventsFit
<1>5. ASSUME NEW d \in Drivers, CanRespond(a, d)
      PROVE  /\ EventsFit(Append(e, DriverAssigned(d)), Accept(a, d), max)
             /\ EventsFit(e, RejectByDriver(a), max)
  <2>1. e = <<>> /\ a.assigned = NoDriver
    BY <1>2, <1>3, <1>5 DEF CanRespond, Open
  <2>2. Append(e, DriverAssigned(d)) = <<DriverAssigned(d)>>
    BY <2>1
  <2> QED BY <1>1, <2>1, <2>2, MethodFields DEF EventsFit
<1>6. ASSUME NEW n, CanExpire(a, n) PROVE EventsFit(e, ExpireOffer(a), max)
  BY <1>1, <1>2, <1>3, <1>6, MethodFields DEF CanExpire, Open, EventsFit
<1>7. ASSUME a.status = "awaiting_driver", a.offerAttempts >= max
      PROVE  EventsFit(Append(e, AssignmentFailed), MarkFailed(a), max)
  <2>1. Append(e, AssignmentFailed) = <<AssignmentFailed>>
    BY <1>3, <1>7
  <2>2. ExhaustedFor(MarkFailed(a), max)
    BY <1>1, <1>7, MethodFields
       DEF Sound, StatusSound, OffersSound, AllDeclined, ExhaustedFor
  <2> QED BY <1>1, <1>2, <1>7, <2>1, <2>2, MethodFields DEF EventsFit, Open
<1>8. ASSUME CanComplete(a) PROVE EventsFit(e, MarkCompleted(a), max)
  <2>1. a.assigned \in Drivers /\ a.assigned # NoDriver
    BY <1>8, NoDriverAssumption DEF CanComplete, Sound, StatusSound
  <2> QED BY <1>1, <2>1, MethodFields DEF EventsFit, ExhaustedFor, AllDeclined
<1>9. EventsFit(e, Cancel(a), max)
  <2>1. CASE a.status \in Terminal
    BY <2>1 DEF Cancel
  <2>2. CASE a.status = "offered"
    <3>1. Cancel(a).status = "cancelled" /\ Cancel(a).assigned = NoDriver
      BY <1>1, <1>2, <2>2, CancelFields DEF Terminal, Open
    <3> QED BY <1>3, <2>2, <3>1 DEF EventsFit
  <2>3. CASE a.status \notin Terminal /\ a.status # "offered"
    <3>1. /\ Cancel(a).status = "cancelled" /\ Cancel(a).assigned = a.assigned
          /\ Cancel(a).attempts = a.attempts
      BY <1>1, <2>3, CancelFields
    <3> QED BY <2>3, <3>1 DEF Terminal, EventsFit, ExhaustedFor, AllDeclined
  <2> QED BY <2>1, <2>2, <2>3
<1>10. ASSUME NEW d \in Drivers, CanForce(a)
       PROVE  EventsFit(Append(e, DriverAssigned(d)), ForceAssign(a, d), max)
  <2>1. /\ ForceAssign(a, d).assigned = d /\ ForceAssign(a, d).attempts = a.attempts
        /\ a.assigned \notin Drivers
    BY <1>1, <1>2, <1>10, MethodFields DEF CanForce, Open
  <2>2. CASE e = <<>>
    <3>1. Append(e, DriverAssigned(d)) = <<DriverAssigned(d)>>
      BY <2>2
    <3> QED BY <2>1, <3>1 DEF EventsFit
  <2>3. CASE e = <<AssignmentFailed>> /\ ExhaustedFor(a, max)
    <3>1. AssignmentFailed \in Event /\ DriverAssigned(d) \in Event
      BY DEF AssignmentFailed, DriverAssigned, Event
    <3>2. Append(e, DriverAssigned(d)) = <<AssignmentFailed, DriverAssigned(d)>>
      BY <2>3, <3>1, AppendToOne
    <3> QED BY <2>1, <2>3, <3>2 DEF EventsFit, ExhaustedFor, AllDeclined
  <2> QED BY <2>1, <2>2, <2>3 DEF EventsFit
<1> QED BY <1>4, <1>5, <1>6, <1>7, <1>8, <1>9, <1>10

(* Events that fit name one driver at most, the order's; and a failure is  *)
(* among them only when max offers were declined.                          *)
LEMMA FittingEvents ==
  ASSUME NEW e, NEW a, NEW max, EventsFit(e, a, max)
  PROVE  /\ \A i, j \in DOMAIN e : /\ e[i].type = "driver.assigned"
                                   /\ e[j].type = "driver.assigned"
                                   => i = j
         /\ \A i \in DOMAIN e : e[i].type = "driver.assigned" => e[i].driver = a.assigned
         /\ a.assigned # NoDriver => \E i \in DOMAIN e : e[i].type = "driver.assigned"
         /\ \A i \in DOMAIN e : e[i].type = "assignment.failed" => ExhaustedFor(a, max)
<1> USE NoDriverAssumption DEF DriverAssigned, AssignmentFailed
<1>1. CASE e = <<>> /\ a.assigned = NoDriver
  BY <1>1
<1>2. CASE e = <<AssignmentFailed>> /\ a.assigned = NoDriver /\ ExhaustedFor(a, max)
  BY <1>2
<1>3. CASE e = <<DriverAssigned(a.assigned)>>
  BY <1>3
<1>4. CASE e = <<AssignmentFailed, DriverAssigned(a.assigned)>> /\ ExhaustedFor(a, max)
  BY <1>4
<1> QED BY <1>1, <1>2, <1>3, <1>4 DEF EventsFit

(* Different drivers: as many were tried as declined.                      *)
LEMMA TriedCount ==
  ASSUME NEW a, Sound(a), AllDeclined(a)
  PROVE  Cardinality(TriedDrivers(a)) = Len(a.attempts)
<1> DEFINE n == Len(a.attempts)
           f == [i \in 1..n |-> a.attempts[i].driver]
           T == TriedDrivers(a)
<1>1. a.attempts \in Seq(Attempt) /\ n \in Nat
  BY DEF Sound, Aggregate
<1>2. T = {a.attempts[i].driver : i \in 1..n}
  BY <1>1 DEF TriedDrivers, AllDeclined
<1>3. f \in Bijection(1..n, T)
  <2>1. f \in [1..n -> T]
    BY <1>2
  <2>2. \A i, j \in 1..n : f[i] = f[j] => i = j
    BY DEF Sound, OffersSound
  <2>3. \A t \in T : \E i \in 1..n : f[i] = t
    BY <1>2
  <2> QED BY <2>1, <2>2, <2>3 DEF Bijection, Injection, Surjection, IsInjective
<1>4. ExistsBijection(1..n, T)
  BY <1>3 DEF ExistsBijection
<1> QED BY <1>1, <1>4, FS_CountingElements
=============================================================================
