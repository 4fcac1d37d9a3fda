------------------------------ MODULE HttpApi ------------------------------
(***************************************************************************)
(* The HTTP interface of the service over one order: authentication, role  *)
(* guard, validation, the use case, the error mapper, and what a client    *)
(* and the event exchange get to see of an assignment.                     *)
(*                                                                         *)
(* A request is decided, and its change saved, in one step; the rest of    *)
(* its handler, up to the answer, is a second one, between which other     *)
(* requests and messages are handled.  A request that is refused, and one  *)
(* that only reads, changes nothing and is not a step: its answer is the   *)
(* operator Answer, a function of the request and the state.               *)
(*                                                                         *)
(* The messages (Create, Offer, ExpireAttempt, ...) are the actions of     *)
(* OrderLifecycle, which this module implements.  What overlapping loads   *)
(* and saves of one order do is the subject of Dispatch.                   *)
(***************************************************************************)
EXTENDS OrderLifecycle

CONSTANTS Stranger,   \* a user who is no driver of this service
          Misnamed    \* a user id that is not a UUID

ASSUME UserAssumption ==
  /\ Stranger \notin Drivers \cup {NoDriver}
  /\ Misnamed \notin Drivers \cup {NoDriver}

VARIABLES running,    \* handlers that saved and have not answered
          published,  \* announcements on the event exchange, in order
          answered    \* history: changes answered with success

httpVars == <<created, order, events, running, published, answered>>

Handler == [route: {"accept", "reject", "forceAssign"}, driver: Drivers]

HttpTypeOK ==
  /\ TypeOK
  /\ running \subseteq Handler
  /\ published \in Seq(Event)
  /\ answered \subseteq Handler

HttpInit ==
  /\ Init
  /\ running = {}
  /\ published = <<>>
  /\ answered = {}
-----------------------------------------------------------------------------
(* Requests.  The token of an anonymous caller is missing or not valid.    *)
(* directory is how the user service answers while the request is served,  *)
(* "unasked" if the pool lists no driver to ask it for; driver is the      *)
(* driver to force, elsewhere the caller.                                  *)
Anonymous == [role |-> "none", user |-> Stranger]

Callers == {Anonymous} \cup [role: {"customer", "driver", "admin"},
                             user: Drivers \cup {Stranger, Misnamed}]

DirectoryAnswers == {"known", "unknown", "failing", "malformed"}

OrderIds == {"existing", "other", "malformed"}

Bodies == {"valid", "invalid", "notJson"}

Request(route, caller, orderId, body, directory, driver) ==
  [route |-> route, caller |-> caller, orderId |-> orderId, body |-> body,
   directory |-> directory, driver |-> driver]

Asking(route, caller) ==
  Request(route, caller, "existing", "valid", "known", caller.user)

RequestsFor(route) ==
  {Request(route, c, i, b, "known", c.user) :
     c \in Callers, i \in OrderIds, b \in Bodies}

ForceRequests ==
  {Request("forceAssign", c, i, b, a, d) :
     c \in Callers, i \in OrderIds, b \in Bodies, a \in DirectoryAnswers,
     d \in Drivers}

AvailableRequests ==
  {Request("available", c, "existing", b, a, c.user) :
     c \in Callers, b \in Bodies, a \in DirectoryAnswers \cup {"unasked"}}
-----------------------------------------------------------------------------
(* What each handler checks, in order: the first check that fails decides  *)
(* the answer.                                                             *)
Check(fails, status) == [fails |-> fails, status |-> status]

(* express.json, userAuth and requireRole come before every route.  The    *)
(* parser's error is no DomainError.                                       *)
Entrance(r, roles) ==
  <<Check(r.body = "notJson", 500),
    Check(r.caller.role = "none", 401),
    Check(r.caller.role \notin roles, 403)>>

NotFound(r) == r.orderId # "existing" \/ ~created

(* NoActiveOfferError, NotOfferedDriverError, ForceAssignNotAllowedError   *)
NoActiveOffer == order.status # "offered"
NotOfferedDriver(d) == order.attempts = <<>> \/ CurrentAttempt(order).driver # d
ForceNotAllowed == order.status \notin {"awaiting_driver", "failed"}

(* Mutation: who may answer is asked before whether there is an offer.     *)
OfferChecksSwapped(d) ==
  <<Check(NotOfferedDriver(d), 403), Check(NoActiveOffer, 409)>>

(* Mutation: the status of the order is not looked at.                     *)
OfferChecksAnyStatus(d) == <<Check(NotOfferedDriver(d), 403)>>

(* Mutation: the offer is everybody's.                                     *)
OfferChecksAnyDriver(d) == <<Check(NoActiveOffer, 409)>>

OfferChecks(d) == <<Check(NoActiveOffer, 409), Check(NotOfferedDriver(d), 403)>>

AcceptChecks(r) ==
  Entrance(r, {"driver"})
  \o <<Check(r.orderId = "malformed", 400),
       Check(NotFound(r), 404),
       Check(r.caller.user = Misnamed, 500)>>
  \o OfferChecks(r.caller.user)

RejectChecks(r) ==
  Entrance(r, {"driver"})
  \o <<Check(r.orderId = "malformed", 400),
       Check(r.body = "invalid", 400),
       Check(r.caller.user = Misnamed, 500),
       Check(NotFound(r), 404)>>
  \o OfferChecks(r.caller.user)

(* The user service does not answer in time or not with a success; it      *)
(* answers something that is not a driver, which is reported like a bad    *)
(* request; it does not know the driver.  A user service that is not asked *)
(* fails nothing.                                                          *)
DirectoryChecks(r, unknown) ==
  <<Check(r.directory = "failing", 500),
    Check(r.directory = "malformed", 400),
    Check(r.directory = "unknown" /\ unknown, 422)>>

ForceChecks(r) ==
  Entrance(r, {"admin"})
  \o <<Check(r.orderId = "malformed", 400),
       Check(r.body = "invalid", 400)>>
  \o DirectoryChecks(r, TRUE)
  \o <<Check(NotFound(r), 404),
       Check(ForceNotAllowed, 409)>>

(* Mutation: customers may read every order.                               *)
MayReadAnyRole(c) ==
  \/ c.role \in {"admin", "customer"}
  \/ order.assigned = c.user
  \/ order.attempts # <<>> /\ CurrentAttempt(order).driver = c.user

(* The authorization inside getHandler                                     *)
MayRead(c) ==
  \/ c.role = "admin"
  \/ order.assigned = c.user
  \/ order.attempts # <<>> /\ CurrentAttempt(order).driver = c.user

GetChecks(r) ==
  Entrance(r, {"customer", "driver", "admin"})
  \o <<Check(r.orderId = "malformed", 400),
       Check(NotFound(r), 404),
       Check(~MayRead(r.caller), 403)>>

CurrentOfferChecks(r) ==
  Entrance(r, {"driver"}) \o <<Check(r.caller.user = Misnamed, 500)>>

AvailableChecks(r) ==
  Entrance(r, {"admin"}) \o DirectoryChecks(r, FALSE)

Checks(r) ==
  CASE r.route = "accept"       -> AcceptChecks(r)
    [] r.route = "reject"       -> RejectChecks(r)
    [] r.route = "forceAssign"  -> ForceChecks(r)
    [] r.route = "assignment"   -> GetChecks(r)
    [] r.route = "currentOffer" -> CurrentOfferChecks(r)
    [] r.route = "available"    -> AvailableChecks(r)

Failing(checks) == {i \in DOMAIN checks : checks[i].fails}

Passes(r) == Failing(Checks(r)) = {}

(* Mutation: any attempt of the driver will do.                            *)
OfferedForDriverEver(d) ==
  /\ created
  /\ order.status = "offered"
  /\ \E i \in DOMAIN order.attempts : order.attempts[i].driver = d

(* The query offeredForDriver                                              *)
OfferedForDriver(d) ==
  /\ created
  /\ order.status = "offered"
  /\ \E i \in DOMAIN order.attempts :
       order.attempts[i].driver = d /\ order.attempts[i].outcome = "offered"

Success(r) ==
  CASE r.route \in {"accept", "reject", "forceAssign"} -> 204
    [] r.route = "currentOffer" ->
         IF OfferedForDriver(r.caller.user) THEN 200 ELSE 204
    [] OTHER -> 200

Answer(r) ==
  LET checks == Checks(r)
      failing == Failing(checks)
  IN  IF failing = {} THEN Success(r)
      ELSE checks[CHOOSE i \in failing : \A j \in failing : i <= j].status
-----------------------------------------------------------------------------
(* The changing requests, up to their save.                                *)
Begin(route, d) ==
  /\ running' = running \cup {[route |-> route, driver |-> d]}
  /\ UNCHANGED <<created, published, answered>>

AcceptHandler(r) ==
  /\ Passes(r)
  /\ order' = Accept(order, r.caller.user)
  /\ events' = Append(events, DriverAssigned(r.caller.user))
  /\ Begin("accept", r.caller.user)

RejectHandler(r) ==
  /\ Passes(r)
  /\ order' = RejectByDriver(order)
  /\ UNCHANGED events
  /\ Begin("reject", r.caller.user)

ForceAssignHandler(r) ==
  /\ Passes(r)
  /\ order' = ForceAssign(order, r.driver)
  /\ events' = Append(events, DriverAssigned(r.driver))
  /\ Begin("forceAssign", r.driver)
-----------------------------------------------------------------------------
(* The rest of the handlers, up to the answer.                             *)
Answered(h) ==
  /\ running' = running \ {h}
  /\ answered' = answered \cup {h}

(* Mutation: what is announced is read again from the saved order.         *)
PublishAssignedAgain(h) ==
  /\ h \in running
  /\ h.route \in {"accept", "forceAssign"}
  /\ published' = published \o events
  /\ Answered(h)
  /\ UNCHANGED vars

(* publishAll of an accepted or, after markBusy, of a forced assignment.   *)
PublishAssigned(h) ==
  /\ h \in running
  /\ h.route \in {"accept", "forceAssign"}
  /\ published' = Append(published, DriverAssigned(h.driver))
  /\ Answered(h)
  /\ UNCHANGED vars

(* The driver is freed and failOrRetry runs: the order fails, is offered   *)
(* to another driver, or is left as it is.                                 *)
FailOrRetry(h) ==
  /\ h \in running
  /\ h.route = "reject"
  /\ \/ /\ Fail
        /\ published' = Append(published, AssignmentFailed)
     \/ /\ ~Exhausted
        /\ \E d \in Drivers : Offer(d)
        /\ UNCHANGED published
     \/ /\ order.status # "awaiting_driver" \/ ~Exhausted
        /\ UNCHANGED <<vars, published>>
  /\ Answered(h)

(* An operation after the save throws: the client is answered 500.         *)
BreakOff(h) ==
  /\ h \in running
  /\ running' = running \ {h}
  /\ UNCHANGED <<vars, published, answered>>

(* What messages do to the order.  The announcement of a failure is the    *)
(* last operation of its handler, and the only one that may be lost.       *)
HandleMessage ==
  /\ \/ /\ \/ Create
           \/ \E d \in Drivers : Offer(d)
           \/ \E n \in 1..MaxOffers : ExpireAttempt(n)
           \/ CompleteDelivery
           \/ CancelOrder
        /\ UNCHANGED published
     \/ /\ Fail
        /\ published' \in {published, Append(published, AssignmentFailed)}
  /\ UNCHANGED <<running, answered>>

HttpNext ==
  \/ \E r \in RequestsFor("accept") : AcceptHandler(r)
  \/ \E r \in RequestsFor("reject") : RejectHandler(r)
  \/ \E r \in ForceRequests : ForceAssignHandler(r)
  \/ \E h \in running : PublishAssigned(h) \/ FailOrRetry(h) \/ BreakOff(h)
  \/ HandleMessage

HttpSpec == HttpInit /\ [][HttpNext]_httpVars

(* Requests change the order as its lifecycle allows: what the checks let  *)
(* through the aggregate's methods accept, so all that holds of            *)
(* OrderLifecycle holds behind the HTTP interface.                         *)
ImplementsLifecycle == Spec
-----------------------------------------------------------------------------
(* A client and the exchange are told the same: whoever was answered that  *)
(* the order is assigned finds it so, with its announcement published; an  *)
(* announcement names the order's driver; and, with handlers breaking off  *)
(* and clients trying again, none is published twice (README.md:27).  Of   *)
(* requests that overlap before their save Dispatch shows the contrary     *)
(* (AssignedToldOnce).                                                     *)
ClientAndBusAgree ==
  /\ \A h \in answered : h.route \in {"accept", "forceAssign"} =>
       /\ order.assigned = h.driver
       /\ \E i \in DOMAIN published : published[i] = DriverAssigned(h.driver)
  /\ \A i \in DOMAIN published : published[i].type = "driver.assigned" =>
       published[i].driver = order.assigned
  /\ \A i, j \in DOMAIN published : published[i] = published[j] => i = j

(* Of all requests for one order that do not overlap before their save at  *)
(* most one assigns it, however they are repeated after it, and no driver  *)
(* succeeds twice: not by repeating an answer that was acknowledged, nor   *)
(* by accepting what he rejected.  A retry that is loaded before the first *)
(* try has saved succeeds as well: Dispatch shows it (AssignedToldOnce).   *)
OneRequestAssigns ==
  LET taken == running \cup answered
      Assigns(h) == h.route \in {"accept", "forceAssign"}
  IN  /\ running \cap answered = {}
      /\ \A g, h \in taken : Assigns(g) /\ Assigns(h) => g = h
      /\ \A g, h \in taken :
           g.route = "reject" /\ h.route = "accept" => g.driver # h.driver

(* offers/current shows a driver the offer exactly while an accept of his  *)
(* would be answered with success: the query looks at all attempts, the    *)
(* aggregate at the last.                                                  *)
DriverFindsHisOffer ==
  \A d \in Drivers :
    LET c == [role |-> "driver", user |-> d]
    IN  Answer(Asking("currentOffer", c)) = 200
          <=> Answer(Asking("accept", c)) = 204

(* The order was assigned or offered to the user, now or before.           *)
Involved(user) ==
  \/ order.assigned = user
  \/ \E i \in DOMAIN order.attempts : order.attempts[i].driver = user

(* Whoever the order is with now may read it, and nobody may but admins    *)
(* and drivers who are or were involved (assignment-controller.ts:54).     *)
OnlyInvolvedRead ==
  \A c \in Callers :
    LET ok == Answer(Asking("assignment", c)) = 200
    IN  /\ ok => c.role = "admin" \/ Involved(c.user)
        /\ c.role = "driver" /\ created /\ ~NoActiveOffer /\ OfferedForDriver(c.user)
             => ok
        /\ c.role = "driver" /\ created /\ order.assigned = c.user => ok

(* The answers docs/manual-testing-guide.md:274-285 tabulates, all rows of *)
(* it, for every request that is otherwise in order.  An unrelated driver  *)
(* is one to whom the order was never offered or assigned.                 *)
DocumentedAnswers ==
  /\ \A c \in Callers :
       LET is(role) == c.role = role /\ c.user # Misnamed
       IN  /\ \A route \in {"accept", "reject", "assignment", "currentOffer",
                             "available"} :
                c = Anonymous => Answer(Asking(route, c)) = 401
           /\ is("customer") => Answer(Asking("accept", c)) = 403
           /\ is("driver") /\ created =>
                /\ order.status # "offered" => Answer(Asking("accept", c)) = 409
                /\ order.status = "offered" /\ ~OfferedForDriver(c.user)
                     => Answer(Asking("accept", c)) = 403
           /\ c.role \in {"customer", "driver"} =>
                Answer(Asking("available", c)) = 403
           /\ c.role = "driver" /\ created /\ ~Involved(c.user) =>
                Answer(Asking("assignment", c)) = 403
           /\ c.role = "admin" /\ ~created =>
                Answer(Asking("assignment", c)) = 404
  /\ \A r \in ForceRequests :
       /\ r.caller = Anonymous /\ r.body # "notJson" => Answer(r) = 401
       /\ r.caller.role \in {"customer", "driver"} /\ r.body # "notJson" =>
            Answer(r) = 403
       /\ r.caller.role = "admin" /\ r.orderId = "existing" =>
            /\ r.body = "invalid" => Answer(r) = 400
            /\ r.body = "valid" /\ r.directory = "unknown" => Answer(r) = 422
            /\ r.body = "valid" /\ r.directory = "known" /\ created
               /\ order.status = "assigned" => Answer(r) = 409
=============================================================================
