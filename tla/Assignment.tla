----------------------------- MODULE Assignment -----------------------------
(***************************************************************************)
(* The Assignment aggregate: one order's dispatch state and the methods    *)
(* the use cases call on it (src/src/domain/assignment/assignment.ts).     *)
(*                                                                         *)
(* An aggregate is a record; a method that the source writes as "throw or  *)
(* mutate" is a guard operator (CanAccept) and the resulting record        *)
(* (Accept).  Addresses, items, customer and time stamps are left out: no  *)
(* method reads them.  DriverAssigned and AssignmentFailed are the events  *)
(* the methods push; a caller decides when they are published.             *)
(***************************************************************************)
EXTENDS Naturals, Sequences

CONSTANTS Drivers,   \* driver ids
          NoDriver   \* the null driver id

ASSUME NoDriverAssumption == NoDriver \notin Drivers

Statuses == {"awaiting_driver", "offered", "assigned",
             "completed", "cancelled", "failed"}

Outcomes == {"offered", "accepted", "rejected", "expired"}

(* isTerminal: a cancel of such an order changes nothing.                  *)
Terminal == {"completed", "cancelled", "failed"}

Declined == {"rejected", "expired"}

Attempt == [id: Nat, driver: Drivers, no: Nat, outcome: Outcomes]

Aggregate == [status: Statuses, assigned: Drivers \cup {NoDriver},
              offerAttempts: Nat, attempts: Seq(Attempt)]

Event == [type: {"driver.assigned", "assignment.failed"},
          driver: Drivers \cup {NoDriver}]

DriverAssigned(d) == [type |-> "driver.assigned", driver |-> d]
AssignmentFailed  == [type |-> "assignment.failed", driver |-> NoDriver]
-----------------------------------------------------------------------------
(* fromOrderCreated                                                        *)
NewAssignment == [status |-> "awaiting_driver", assigned |-> NoDriver,
                  offerAttempts |-> 0, attempts |-> <<>>]

CurrentAttempt(a) == a.attempts[Len(a.attempts)]

(* Mutation: only an explicit rejection excludes a driver.                 *)
TriedDriversRejectedOnly(a) ==
  {a.attempts[i].driver : i \in {j \in DOMAIN a.attempts :
                                   a.attempts[j].outcome = "rejected"}}

TriedDrivers(a) ==
  {a.attempts[i].driver : i \in {j \in DOMAIN a.attempts :
                                   a.attempts[j].outcome \in Declined}}

(* The attempts with the current one resolved.                             *)
Resolve(a, outcome) ==
  [a.attempts EXCEPT ![Len(a.attempts)].outcome = outcome]

CanOffer(a) == a.status = "awaiting_driver"

OfferTo(a, id, d) ==
  [a EXCEPT !.status = "offered",
            !.offerAttempts = @ + 1,
            !.attempts = Append(@, [id |-> id, driver |-> d,
                                    no |-> a.offerAttempts + 1,
                                    outcome |-> "offered"])]

(* The guards shared by accept and rejectByDriver: an offer is out, and it *)
(* is out to this driver.                                                  *)
CanRespond(a, d) ==
  /\ a.status = "offered"
  /\ a.attempts # <<>>
  /\ CurrentAttempt(a).driver = d

Accept(a, d) ==
  [a EXCEPT !.status = "assigned", !.assigned = d,
            !.attempts = Resolve(a, "accepted")]

(* Mutation: the status is set to the name of the outcome.                 *)
RejectByDriverStatus(a) ==
  [a EXCEPT !.status = "rejected", !.attempts = Resolve(a, "rejected")]

RejectByDriver(a) ==
  [a EXCEPT !.status = "awaiting_driver", !.attempts = Resolve(a, "rejected")]

(* expireOffer returns true: the message is about the offer still out.     *)
CanExpire(a, n) ==
  /\ a.status = "offered"
  /\ a.attempts # <<>>
  /\ CurrentAttempt(a).no = n
  /\ CurrentAttempt(a).outcome = "offered"

ExpireOffer(a) ==
  [a EXCEPT !.status = "awaiting_driver", !.attempts = Resolve(a, "expired")]

MarkFailed(a) == [a EXCEPT !.status = "failed"]

(* Mutation: any order that has a driver can complete.                     *)
CanCompleteAnyDriven(a) == a.assigned # NoDriver

CanComplete(a) == a.status = "assigned"

MarkCompleted(a) == [a EXCEPT !.status = "completed"]

(* Mutation: cancel forgets the driver of a pending offer.                 *)
FreedByCancelAssigned(a) ==
  IF a.status = "assigned" THEN a.assigned ELSE NoDriver

(* The driver cancel() reports as freed.                                   *)
FreedByCancel(a) ==
  IF a.status = "assigned" THEN a.assigned
  ELSE IF a.status = "offered" /\ a.attempts # <<>> THEN CurrentAttempt(a).driver
  ELSE NoDriver

Cancel(a) ==
  IF a.status \in Terminal THEN a
  ELSE [a EXCEPT !.status = "cancelled",
                 !.attempts = IF a.status = "offered" /\ @ # <<>>
                              THEN Resolve(a, "expired") ELSE @]

CanForce(a) == a.status \in {"awaiting_driver", "failed"}

ForceAssign(a, d) == [a EXCEPT !.status = "assigned", !.assigned = d]
=============================================================================
