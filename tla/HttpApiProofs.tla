---------------------------- MODULE HttpApiProofs ----------------------------
(***************************************************************************)
(* Proofs about HttpApi, for every set of drivers, every MaxAttempts and   *)
(* every bound on the offers: what passes the checks of a handler is what  *)
(* the aggregate accepts, so that HttpApi implements OrderLifecycle, and   *)
(* clients and the event exchange are told the truth.                      *)
(***************************************************************************)
EXTENDS HttpApi, OrderLifecycleProofs, WellFoundedInduction

(* A check, and the status codes it may have.                              *)
ACheck == [fails: BOOLEAN, status: 400..599]
-----------------------------------------------------------------------------
(* Checks made one after another pass only if all of them pass.            *)
LEMMA PassesBoth ==
  ASSUME NEW s \in Seq(ACheck), NEW t \in Seq(ACheck), Failing(s \o t) = {}
  PROVE  Failing(s) = {} /\ Failing(t) = {}
<1>1. /\ s \o t \in Seq(ACheck)
      /\ Len(s) \in Nat /\ Len(t) \in Nat
      /\ DOMAIN s = 1..Len(s) /\ DOMAIN t = 1..Len(t)
      /\ DOMAIN (s \o t) = 1..(Len(s) + Len(t))
  OBVIOUS
<1>2. ASSUME NEW i \in DOMAIN s PROVE ~s[i].fails
  <2>1. (s \o t)[i] = s[i] /\ i \in DOMAIN (s \o t)
    BY <1>1, <1>2
  <2> QED BY <2>1 DEF Failing
<1>3. ASSUME NEW i \in DOMAIN t PROVE ~t[i].fails
  <2>1. (s \o t)[Len(s) + i] = t[i] /\ Len(s) + i \in DOMAIN (s \o t)
    BY <1>1, <1>3
  <2> QED BY <2>1 DEF Failing
<1> QED BY <1>2, <1>3 DEF Failing

(* Whoever passes the checks of an answer has the offer.                   *)
LEMMA OfferChecksPass ==
  ASSUME NEW d, Failing(OfferChecks(d)) = {}
  PROVE  CanRespond(order, d)
<1> DEFINE c == OfferChecks(d)
<1>1. c = <<Check(NoActiveOffer, 409), Check(NotOfferedDriver(d), 403)>>
  BY DEF OfferChecks
<1>2. 1 \in DOMAIN c /\ 2 \in DOMAIN c
  BY <1>1
<1>3. ~c[1].fails /\ ~c[2].fails
  BY <1>2 DEF Failing
<1>4. ~NoActiveOffer /\ ~NotOfferedDriver(d)
  BY <1>1, <1>3 DEF Check
<1> QED BY <1>4 DEF NoActiveOffer, NotOfferedDriver, CanRespond

LEMMA OfferChecksType ==
  ASSUME NEW d
  PROVE  OfferChecks(d) \in Seq(ACheck)
<1>1. NoActiveOffer \in BOOLEAN /\ NotOfferedDriver(d) \in BOOLEAN
  BY DEF NoActiveOffer, NotOfferedDriver
<1>2. Check(NoActiveOffer, 409) \in ACheck /\ Check(NotOfferedDriver(d), 403) \in ACheck
  BY <1>1 DEF Check, ACheck
<1> QED BY <1>2 DEF OfferChecks

LEMMA EntranceType ==
  ASSUME NEW r, NEW roles
  PROVE  Entrance(r, roles) \in Seq(ACheck)
<1>1. /\ Check(r.body = "notJson", 500) \in ACheck
      /\ Check(r.caller.role = "none", 401) \in ACheck
      /\ Check(r.caller.role \notin roles, 403) \in ACheck
  BY DEF Check, ACheck
<1> QED BY <1>1 DEF Entrance

(* What passes the checks of accept, reject and force-assign is what the   *)
(* methods of the aggregate accept.                                        *)
LEMMA AcceptPasses ==
  ASSUME NEW r \in RequestsFor("accept"), Passes(r)
  PROVE  CanRespond(order, r.caller.user)
<1> DEFINE own == <<Check(r.orderId = "malformed", 400),
                    Check(NotFound(r), 404),
                    Check(r.caller.user = Misnamed, 500)>>
           entry == Entrance(r, {"driver"})
<1>1. r.route = "accept"
  BY DEF RequestsFor, Request
<1>2. Checks(r) = AcceptChecks(r)
  BY <1>1 DEF Checks
<1>3. AcceptChecks(r) = (entry \o own) \o OfferChecks(r.caller.user)
  BY DEF AcceptChecks
<1>4. own \in Seq(ACheck)
  <2>1. /\ Check(r.orderId = "malformed", 400) \in ACheck
        /\ Check(NotFound(r), 404) \in ACheck
        /\ Check(r.caller.user = Misnamed, 500) \in ACheck
    BY DEF Check, ACheck, NotFound
  <2> QED BY <2>1
<1>5. entry \in Seq(ACheck)
  BY EntranceType
<1> HIDE DEF own, entry
<1>6. entry \o own \in Seq(ACheck)
  BY <1>4, <1>5
<1>7. Failing(OfferChecks(r.caller.user)) = {}
  BY <1>2, <1>3, <1>6, OfferChecksType, PassesBoth DEF Passes
<1> QED BY <1>7, OfferChecksPass

LEMMA RejectPasses ==
  ASSUME NEW r \in RequestsFor("reject"), Passes(r)
  PROVE  CanRespond(order, r.caller.user)
<1> DEFINE own == <<Check(r.orderId = "malformed", 400),
                    Check(r.body = "invalid", 400),
                    Check(r.caller.user = Misnamed, 500),
                    Check(NotFound(r), 404)>>
           entry == Entrance(r, {"driver"})
<1>1. r.route = "reject"
  BY DEF RequestsFor, Request
<1>2. Checks(r) = RejectChecks(r)
  BY <1>1 DEF Checks
<1>3. RejectChecks(r) = (entry \o own) \o OfferChecks(r.caller.user)
  BY DEF RejectChecks
<1>4. own \in Seq(ACheck)
  <2>1. /\ Check(r.orderId = "malformed", 400) \in ACheck
        /\ Check(r.body = "invalid", 400) \in ACheck
        /\ Check(r.caller.user = Misnamed, 500) \in ACheck
        /\ Check(NotFound(r), 404) \in ACheck
    BY DEF Check, ACheck, NotFound
  <2> QED BY <2>1
<1>5. entry \in Seq(ACheck)
  BY EntranceType
<1> HIDE DEF own, entry
<1>6. entry \o own \in Seq(ACheck)
  BY <1>4, <1>5
<1>7. Failing(OfferChecks(r.caller.user)) = {}
  BY <1>2, <1>3, <1>6, OfferChecksType, PassesBoth DEF Passes
<1> QED BY <1>7, OfferChecksPass

LEMMA ForcePasses ==
  ASSUME NEW r \in ForceRequests, Passes(r)
  PROVE  created /\ CanForce(order)
<1> DEFINE own == <<Check(r.orderId = "malformed", 400),
                    Check(r.body = "invalid", 400)>>
           last == <<Check(NotFound(r), 404), Check(ForceNotAllowed, 409)>>
           entry == Entrance(r, {"admin"})
           asked == DirectoryChecks(r, TRUE)
<1>1. r.route = "forceAssign"
  BY DEF ForceRequests, Request
<1>2. Checks(r) = ForceChecks(r)
  BY <1>1 DEF Checks
<1>3. ForceChecks(r) = ((entry \o own) \o asked) \o last
  BY DEF ForceChecks
<1>4. own \in Seq(ACheck)
  <2>1. /\ Check(r.orderId = "malformed", 400) \in ACheck
        /\ Check(r.body = "invalid", 400) \in ACheck
    BY DEF Check, ACheck
  <2> QED BY <2>1
<1>5. entry \in Seq(ACheck)
  BY EntranceType
<1>6. asked \in Seq(ACheck)
  <2>1. /\ Check(r.directory = "failing", 500) \in ACheck
        /\ Check(r.directory = "malformed", 400) \in ACheck
        /\ Check(r.directory = "unknown" /\ TRUE, 422) \in ACheck
    BY DEF Check, ACheck
  <2> QED BY <2>1 DEF DirectoryChecks
<1>7. last \in Seq(ACheck)
  <2>1. Check(NotFound(r), 404) \in ACheck /\ Check(ForceNotAllowed, 409) \in ACheck
    BY DEF Check, ACheck, NotFound, ForceNotAllowed
  <2> QED BY <2>1
<1>8. 1 \in DOMAIN last /\ 2 \in DOMAIN last
  OBVIOUS
<1>9. last[1] = Check(NotFound(r), 404) /\ last[2] = Check(ForceNotAllowed, 409)
  OBVIOUS
<1> HIDE DEF own, entry, asked, last
<1>10. (entry \o own) \o asked \in Seq(ACheck)
  BY <1>4, <1>5, <1>6
<1>11. Failing(last) = {}
  BY <1>2, <1>3, <1>7, <1>10, PassesBoth DEF Passes
<1>12. ~last[1].fails /\ ~last[2].fails
  BY <1>8, <1>11 DEF Failing
<1>13. ~NotFound(r) /\ ~ForceNotAllowed
  BY <1>9, <1>12 DEF Check
<1> QED BY <1>13 DEF NotFound, ForceNotAllowed, CanForce
-----------------------------------------------------------------------------
(* The current offer goes to a driver of the service.                      *)
LEMMA OfferedIsDriver ==
  ASSUME order \in Aggregate, NEW d, CanRespond(order, d)
  PROVE  d \in Drivers
<1>1. /\ order.attempts \in Seq(Attempt)
      /\ order.attempts # <<>>
      /\ d = order.attempts[Len(order.attempts)].driver
  BY DEF Aggregate, CanRespond, CurrentAttempt
<1>2. order.attempts[Len(order.attempts)] \in Attempt
  BY <1>1
<1> QED BY <1>1, <1>2 DEF Attempt

(* Every step of a handler is a step of the lifecycle, or none.            *)
LEMMA HttpStep ==
  ASSUME order \in Aggregate, [HttpNext]_httpVars
  PROVE  [Next]_vars
<1>1. ASSUME NEW r \in RequestsFor("accept"), AcceptHandler(r) PROVE Next
  <2>1. CanRespond(order, r.caller.user)
    BY <1>1, AcceptPasses DEF AcceptHandler
  <2>2. r.caller.user \in Drivers
    BY <2>1, OfferedIsDriver
  <2>3. AcceptOffer(r.caller.user)
    BY <1>1, <2>1 DEF AcceptHandler, Begin, AcceptOffer
  <2> QED BY <2>2, <2>3 DEF Next
<1>2. ASSUME NEW r \in RequestsFor("reject"), RejectHandler(r) PROVE Next
  <2>1. CanRespond(order, r.caller.user)
    BY <1>2, RejectPasses DEF RejectHandler
  <2>2. r.caller.user \in Drivers
    BY <2>1, OfferedIsDriver
  <2>3. RejectOffer(r.caller.user)
    BY <1>2, <2>1 DEF RejectHandler, Begin, RejectOffer
  <2> QED BY <2>2, <2>3 DEF Next
<1>3. ASSUME NEW r \in ForceRequests, ForceAssignHandler(r) PROVE Next
  <2>1. r.driver \in Drivers
    BY DEF ForceRequests, Request
  <2>2. ForceOrder(r.driver)
    BY <1>3, ForcePasses DEF ForceAssignHandler, Begin, ForceOrder
  <2> QED BY <2>1, <2>2 DEF Next
<1>4. ASSUME NEW h \in running, PublishAssigned(h) PROVE UNCHANGED vars
  BY <1>4 DEF PublishAssigned
<1>5. ASSUME NEW h \in running, FailOrRetry(h) PROVE Next \/ UNCHANGED vars
  BY <1>5 DEF FailOrRetry, Next
<1>6. ASSUME NEW h \in running, BreakOff(h) PROVE UNCHANGED vars
  BY <1>6 DEF BreakOff
<1>7. CASE HandleMessage
  BY <1>7 DEF HandleMessage, Next
<1>8. CASE UNCHANGED httpVars
  BY <1>8 DEF httpVars, vars
<1> QED BY <1>1, <1>2, <1>3, <1>4, <1>5, <1>6, <1>7, <1>8 DEF HttpNext

(* The invariant of the lifecycle holds behind the HTTP interface.         *)
LEMMA HttpKeepsInvariant == HttpSpec => []IInv
<1>1. HttpInit => IInv
  BY InitInvariant DEF HttpInit
<1>2. IInv /\ [HttpNext]_httpVars => IInv'
  BY HttpStep, InvariantStep DEF IInv, TypeOK
<1> QED BY <1>1, <1>2, PTL DEF HttpSpec

(* A request changes the order as its lifecycle allows: all that is proved *)
(* of OrderLifecycle holds behind the HTTP interface.                      *)
THEOREM HttpImplementsLifecycle == HttpSpec => ImplementsLifecycle
<1>1. HttpInit => Init
  BY DEF HttpInit
<1>2. IInv /\ [HttpNext]_httpVars => [Next]_vars
  BY HttpStep DEF IInv, TypeOK
<1> QED BY <1>1, <1>2, HttpKeepsInvariant, PTL DEF HttpSpec, ImplementsLifecycle, Spec
-----------------------------------------------------------------------------
(* What is true of a handler from its save on: an assignment is the        *)
(* order's, an answer is that of an offer.                                 *)
Assigning(h) == h.route \in {"accept", "forceAssign"}

AnswerOf(h) == IF h.route = "accept" THEN "accepted" ELSE "rejected"

Saved(h) ==
  /\ Assigning(h) => order.assigned = h.driver
  /\ h.route \in {"accept", "reject"} =>
       \E i \in 1..Len(order.attempts) :
         /\ order.attempts[i].driver = h.driver
         /\ order.attempts[i].outcome = AnswerOf(h)

HandlersInv ==
  /\ running \subseteq Handler
  /\ answered \subseteq Handler
  /\ running \cap answered = {}
  /\ \A h \in running \cup answered : Saved(h)
  /\ \A g, h \in running \cup answered : Assigning(g) /\ Assigning(h) => g = h

(* What is published was pushed by the aggregate, each event once, and an  *)
(* assignment is published when its handler is done.                       *)
PublishedInv ==
  /\ published \in Seq(Event)
  /\ \A i \in 1..Len(published) :
       \/ /\ published[i] = AssignmentFailed
          /\ events # <<>>
          /\ events[1] = AssignmentFailed
       \/ /\ published[i] = DriverAssigned(order.assigned)
          /\ order.assigned \in Drivers
          /\ \A h \in running : ~Assigning(h)
  /\ \A i, j \in 1..Len(published) : published[i] = published[j] => i = j
  /\ \A h \in answered : Assigning(h) =>
       \E i \in 1..Len(published) : published[i] = DriverAssigned(h.driver)

HttpInv == IInv /\ HandlersInv /\ PublishedInv

(* No later step undoes what a handler saved.                              *)
LEMMA SavedStep ==
  ASSUME IInv, [Next]_vars, NEW h \in Handler, Saved(h)
  PROVE  Saved(h)'
<1>1. Kept
  BY KeptStep
<1>2. /\ order.attempts \in Seq(Attempt)
      /\ order'.attempts \in Seq(Attempt)
  BY InvariantStep DEF IInv, TypeOK, Aggregate
<1>3. h.driver \in Drivers /\ h.driver # NoDriver
  BY NoDriverAssumption DEF Handler
<1>4. Assigning(h) => order'.assigned = h.driver
  BY <1>1, <1>3 DEF Saved, Kept
<1>5. ASSUME NEW i \in 1..Len(order.attempts), order.attempts[i].outcome # "offered"
      PROVE  i \in 1..Len(order'.attempts) /\ order'.attempts[i] = order.attempts[i]
  BY <1>1, <1>2, <1>5 DEF Kept
<1>6. AnswerOf(h) # "offered"
  BY DEF AnswerOf
<1>7. h.route \in {"accept", "reject"} =>
        \E i \in 1..Len(order'.attempts) :
          order'.attempts[i].driver = h.driver /\ order'.attempts[i].outcome = AnswerOf(h)
  BY <1>5, <1>6 DEF Saved
<1> QED BY <1>4, <1>7 DEF Saved, Assigning, AnswerOf

(* A handler that begins joins the others.                                 *)
LEMMA BeginStep ==
  ASSUME IInv, HandlersInv, [Next]_vars, NEW h \in Handler,
         running' = running \cup {h}, answered' = answered,
         Saved(h)', h \notin answered,
         Assigning(h) => order.assigned = NoDriver
  PROVE  HandlersInv'
<1>1. \A g \in running \cup answered : g \in Handler /\ Saved(g) /\ Saved(g)'
  BY SavedStep DEF HandlersInv
<1>2. \A g \in running \cup answered : Assigning(g) => ~Assigning(h)
  BY <1>1, NoDriverAssumption DEF Saved, Handler
<1>3. /\ running' \subseteq Handler
      /\ answered' \subseteq Handler
      /\ running' \cap answered' = {}
  BY DEF HandlersInv
<1>4. \A g \in running' \cup answered' : Saved(g)'
  BY <1>1
<1>5. \A f, g \in running' \cup answered' : Assigning(f) /\ Assigning(g) => f = g
  BY <1>2 DEF HandlersInv
<1> QED BY <1>3, <1>4, <1>5 DEF HandlersInv, Assigning

(* A step that begins no handler ends some, or answers them.               *)
LEMMA EndStep ==
  ASSUME IInv, HandlersInv, [Next]_vars,
         running' \subseteq running,
         answered' \subseteq running \cup answered,
         running' \cap answered' = {}
  PROVE  HandlersInv'
<1>1. \A g \in running \cup answered : g \in Handler /\ Saved(g)'
  BY SavedStep DEF HandlersInv
<1>2. /\ running' \subseteq Handler
      /\ answered' \subseteq Handler
  BY <1>1
<1>3. \A g \in running' \cup answered' : Saved(g)'
  BY <1>1
<1>4. \A f, g \in running' \cup answered' : Assigning(f) /\ Assigning(g) => f = g
  BY DEF HandlersInv
<1> QED BY <1>2, <1>3, <1>4 DEF HandlersInv, Assigning

(* The pending offer: its driver gave no answer before, and the order has  *)
(* no driver.                                                              *)
LEMMA PendingOffer ==
  ASSUME IInv, NEW d, CanRespond(order, d)
  PROVE  /\ order.assigned = NoDriver
         /\ order.attempts # <<>>
         /\ \A i \in 1..Len(order.attempts) :
              order.attempts[i].driver = d => order.attempts[i].outcome = "offered"
         /\ \A o \in Outcomes :
              \E i \in 1..Len(Resolve(order, o)) :
                Resolve(order, o)[i].driver = d /\ Resolve(order, o)[i].outcome = o
<1>1. /\ order \in Aggregate
      /\ order.attempts \in Seq(Attempt)
      /\ order.attempts # <<>>
      /\ order.status = "offered"
      /\ Len(order.attempts) \in Nat \ {0}
      /\ order.attempts[Len(order.attempts)].driver = d
      /\ order.attempts[Len(order.attempts)].outcome = "offered"
  BY DEF IInv, TypeOK, StatusInv, StatusSound, Aggregate, CanRespond, CurrentAttempt
<1>2. order.assigned = NoDriver
  BY <1>1 DEF IInv, StatusInv, StatusSound, Open
<1>3. ASSUME NEW i \in 1..Len(order.attempts), order.attempts[i].driver = d
      PROVE  order.attempts[i].outcome = "offered"
  <2>1. i = Len(order.attempts)
    BY <1>1, <1>3 DEF IInv, OffersInv, OffersSound
  <2> QED BY <1>1, <2>1
<1>4. ASSUME NEW o \in Outcomes
      PROVE  \E i \in 1..Len(Resolve(order, o)) :
               Resolve(order, o)[i].driver = d /\ Resolve(order, o)[i].outcome = o
  <2>1. /\ Len(Resolve(order, o)) = Len(order.attempts)
        /\ Resolve(order, o)[Len(order.attempts)].driver = d
        /\ Resolve(order, o)[Len(order.attempts)].outcome = o
    BY <1>1, ResolveFacts
  <2> QED BY <1>1, <2>1
<1> QED BY <1>1, <1>2, <1>3, <1>4

LEMMA HandlersStep ==
  ASSUME HttpInv, [HttpNext]_httpVars
  PROVE  HandlersInv'
<1> USE DEF HttpInv
<1>0. [Next]_vars /\ order \in Aggregate
  BY HttpStep DEF IInv, TypeOK
<1>1. ASSUME NEW r \in RequestsFor("accept"), AcceptHandler(r) PROVE HandlersInv'
  <2> DEFINE d == r.caller.user
             h == [route |-> "accept", driver |-> d]
  <2>1. CanRespond(order, d)
    BY <1>1, AcceptPasses DEF AcceptHandler
  <2>2. d \in Drivers
    BY <1>0, <2>1, OfferedIsDriver
  <2>3. h \in Handler /\ Assigning(h) /\ AnswerOf(h) = "accepted"
    BY <2>2 DEF Handler, Assigning, AnswerOf
  <2>4. /\ order'.assigned = d
        /\ order'.attempts = Resolve(order, "accepted")
    BY <1>0, <1>1 DEF AcceptHandler, Accept, Aggregate
  <2>5. Saved(h)'
    BY <2>1, <2>3, <2>4, PendingOffer DEF Saved, Outcomes, AnswerOf
  <2>6. order.assigned = NoDriver
    BY <2>1, PendingOffer
  <2>7. h \notin answered
    BY <2>2, <2>3, <2>6, NoDriverAssumption DEF HandlersInv, Saved
  <2>8. running' = running \cup {h} /\ answered' = answered
    BY <1>1 DEF AcceptHandler, Begin
  <2> HIDE DEF h
  <2> QED BY <1>0, <2>3, <2>5, <2>6, <2>7, <2>8, BeginStep
<1>2. ASSUME NEW r \in RequestsFor("reject"), RejectHandler(r) PROVE HandlersInv'
  <2> DEFINE d == r.caller.user
             h == [route |-> "reject", driver |-> d]
  <2>1. CanRespond(order, d)
    BY <1>2, RejectPasses DEF RejectHandler
  <2>2. d \in Drivers
    BY <1>0, <2>1, OfferedIsDriver
  <2>3. h \in Handler /\ ~Assigning(h) /\ AnswerOf(h) = "rejected"
    BY <2>2 DEF Handler, Assigning, AnswerOf
  <2>4. order'.attempts = Resolve(order, "rejected")
    BY <1>0, <1>2 DEF RejectHandler, RejectByDriver, Aggregate
  <2>5. Saved(h)'
    BY <2>1, <2>3, <2>4, PendingOffer DEF Saved, Outcomes, AnswerOf, Assigning
  <2>7. h \notin answered
    BY <2>1, <2>3, PendingOffer DEF HandlersInv, Saved
  <2>8. running' = running \cup {h} /\ answered' = answered
    BY <1>2 DEF RejectHandler, Begin
  <2> HIDE DEF h
  <2> QED BY <1>0, <2>3, <2>5, <2>7, <2>8, BeginStep
<1>3. ASSUME NEW r \in ForceRequests, ForceAssignHandler(r) PROVE HandlersInv'
  <2> DEFINE h == [route |-> "forceAssign", driver |-> r.driver]
  <2>1. CanForce(order)
    BY <1>3, ForcePasses DEF ForceAssignHandler
  <2>2. r.driver \in Drivers
    BY DEF ForceRequests, Request
  <2>3. h \in Handler /\ Assigning(h) /\ h.route \notin {"accept", "reject"}
    BY <2>2 DEF Handler, Assigning
  <2>4. order'.assigned = r.driver
    BY <1>0, <1>3 DEF ForceAssignHandler, ForceAssign, Aggregate
  <2>5. Saved(h)'
    BY <2>3, <2>4 DEF Saved
  <2>6. order.assigned = NoDriver
    BY <2>1 DEF CanForce, IInv, StatusInv, StatusSound, Open
  <2>7. h \notin answered
    BY <2>2, <2>3, <2>6, NoDriverAssumption DEF HandlersInv, Saved
  <2>8. running' = running \cup {h} /\ answered' = answered
    BY <1>3 DEF ForceAssignHandler, Begin
  <2> HIDE DEF h
  <2> QED BY <1>0, <2>3, <2>5, <2>6, <2>7, <2>8, BeginStep
<1>4. ASSUME NEW h \in running, Answered(h) PROVE HandlersInv'
  <2>1. /\ running' = running \ {h}
        /\ answered' = answered \cup {h}
    BY <1>4 DEF Answered
  <2>2. running' \cap answered' = {}
    BY <2>1 DEF HandlersInv
  <2> QED BY <1>0, <2>1, <2>2, EndStep
<1>5. ASSUME NEW h \in running, BreakOff(h) PROVE HandlersInv'
  <2>1. running' = running \ {h} /\ answered' = answered
    BY <1>5 DEF BreakOff
  <2>2. running' \cap answered' = {}
    BY <2>1 DEF HandlersInv
  <2> QED BY <1>0, <2>1, <2>2, EndStep
<1>6. CASE HandleMessage \/ UNCHANGED httpVars
  <2>1. running' = running /\ answered' = answered
    BY <1>6 DEF HandleMessage, httpVars
  <2>2. running' \cap answered' = {}
    BY <2>1 DEF HandlersInv
  <2> QED BY <1>0, <2>1, <2>2, EndStep
<1> QED
  BY <1>1, <1>2, <1>3, <1>4, <1>5, <1>6 DEF HttpNext, PublishAssigned, FailOrRetry

(* The first announcement stays the first.                                 *)
LEMMA EventsGrow ==
  ASSUME IInv, [Next]_vars, events # <<>>
  PROVE  events' # <<>> /\ events'[1] = events[1]
<1>1. events \in Seq(Event)
  BY DEF IInv, TypeOK
<1>2. ASSUME NEW e \in Event, events' = Append(events, e)
      PROVE  events' # <<>> /\ events'[1] = events[1]
  BY <1>1, <1>2
<1>3. events' = events \/ \E e \in Event : events' = Append(events, e)
  <2>1. AssignmentFailed \in Event
    BY DEF AssignmentFailed, Event
  <2>2. \A d \in Drivers : DriverAssigned(d) \in Event
    BY DEF DriverAssigned, Event
  <2> QED
    BY <2>1, <2>2 DEF Next, Create, Offer, AcceptOffer, RejectOffer,
       ExpireAttempt, Fail, CompleteDelivery, CancelOrder, ForceOrder, vars
<1> QED BY <1>2, <1>3

(* An order fails once.                                                    *)
LEMMA FailsOnce ==
  ASSUME IInv, Fail
  PROVE  events = <<>> /\ events' = <<AssignmentFailed>>
<1>1. order.status = "awaiting_driver" /\ events' = Append(events, AssignmentFailed)
  BY DEF Fail
<1>2. events = <<>>
  BY <1>1, NoDriverAssumption
     DEF IInv, StatusInv, StatusSound, EventsInv, EventsFit, Open
<1> QED BY <1>1, <1>2

(* An announcement of a driver and one of a failure are different.         *)
LEMMA AnnouncementsDiffer ==
  ASSUME NEW d \in Drivers
  PROVE  /\ DriverAssigned(d) # AssignmentFailed
         /\ DriverAssigned(d) \in Event /\ AssignmentFailed \in Event
         /\ \A e \in Drivers : DriverAssigned(d) = DriverAssigned(e) => d = e
BY DEF DriverAssigned, AssignmentFailed, Event

(* Appending what was not published before.                                *)
LEMMA AppendNew ==
  ASSUME NEW s \in Seq(Event), NEW e \in Event,
         \A i \in 1..Len(s) : s[i] # e,
         \A i, j \in 1..Len(s) : s[i] = s[j] => i = j
  PROVE  LET t == Append(s, e) IN
         /\ t \in Seq(Event)
         /\ \A i \in 1..Len(t) : (i \in 1..Len(s) /\ t[i] = s[i]) \/ t[i] = e
         /\ \A i, j \in 1..Len(t) : t[i] = t[j] => i = j
         /\ \E i \in 1..Len(t) : t[i] = e
         /\ \A i \in 1..Len(s) : i \in 1..Len(t) /\ t[i] = s[i]
<1> DEFINE t == Append(s, e)
<1>1. /\ t \in Seq(Event)
      /\ Len(s) \in Nat
      /\ Len(t) = Len(s) + 1
      /\ t[Len(s) + 1] = e
      /\ \A i \in 1..Len(s) : t[i] = s[i]
  OBVIOUS
<1> HIDE DEF t
<1>2. \A i \in 1..Len(t) : i \in 1..Len(s) \/ i = Len(s) + 1
  BY <1>1
<1>3. \A i, j \in 1..Len(t) : t[i] = t[j] => i = j
  BY <1>1, <1>2
<1> QED BY <1>1, <1>2, <1>3 DEF t

(* A step that publishes nothing.                                          *)
LEMMA PublishNothing ==
  ASSUME IInv, PublishedInv, [Next]_vars,
         published' = published,
         \A h \in running' : Assigning(h) => h \in running \/ order.assigned = NoDriver,
         \A h \in answered' : Assigning(h) => h \in answered
  PROVE  PublishedInv'
<1>1. ASSUME NEW i \in 1..Len(published')
      PROVE  \/ /\ published'[i] = AssignmentFailed
                /\ events' # <<>>
                /\ events'[1] = AssignmentFailed
             \/ /\ published'[i] = DriverAssigned(order'.assigned)
                /\ order'.assigned \in Drivers
                /\ \A h \in running' : ~Assigning(h)
  <2>1. CASE published[i] = AssignmentFailed /\ events # <<>> /\ events[1] = AssignmentFailed
    BY <2>1, EventsGrow
  <2>2. CASE /\ published[i] = DriverAssigned(order.assigned)
             /\ order.assigned \in Drivers
             /\ \A h \in running : ~Assigning(h)
    <3>1. order.assigned # NoDriver
      BY <2>2, NoDriverAssumption
    <3>2. order'.assigned = order.assigned
      BY <3>1, KeptStep DEF Kept
    <3> QED BY <2>2, <3>1, <3>2
  <2> QED BY <2>1, <2>2 DEF PublishedInv
<1> QED BY <1>1 DEF PublishedInv, Assigning

(* A step that announces the failure of the order.                         *)
LEMMA PublishFailure ==
  ASSUME IInv, PublishedInv, Fail,
         published' = Append(published, AssignmentFailed),
         running' \subseteq running,
         \A h \in answered' : Assigning(h) => h \in answered
  PROVE  PublishedInv'
<1>1. /\ events = <<>>
      /\ events' # <<>>
      /\ events'[1] = AssignmentFailed
  <2>1. events = <<>> /\ events' = <<AssignmentFailed>>
    BY FailsOnce
  <2>2. events'[1] = AssignmentFailed /\ Len(events') = 1
    BY <2>1
  <2> QED BY <2>1, <2>2
<1>2. /\ published \in Seq(Event)
      /\ AssignmentFailed \in Event
  BY DEF PublishedInv, AssignmentFailed, Event
<1>3. \A i \in 1..Len(published) :
        /\ published[i] = DriverAssigned(order.assigned)
        /\ order.assigned \in Drivers
        /\ \A h \in running : ~Assigning(h)
  BY <1>1 DEF PublishedInv
<1>4. \A i \in 1..Len(published) : published[i] # AssignmentFailed
  BY <1>3, AnnouncementsDiffer
<1>5. order'.assigned = order.assigned
  BY DEF Fail, MarkFailed, IInv, TypeOK, Aggregate
<1>6. /\ published' \in Seq(Event)
      /\ \A i \in 1..Len(published') :
           (i \in 1..Len(published) /\ published'[i] = published[i])
             \/ published'[i] = AssignmentFailed
      /\ \A i, j \in 1..Len(published') : published'[i] = published'[j] => i = j
      /\ \A i \in 1..Len(published) :
           i \in 1..Len(published') /\ published'[i] = published[i]
  BY <1>2, <1>4, AppendNew DEF PublishedInv
<1>7. ASSUME NEW i \in 1..Len(published')
      PROVE  \/ /\ published'[i] = AssignmentFailed
                /\ events' # <<>>
                /\ events'[1] = AssignmentFailed
             \/ /\ published'[i] = DriverAssigned(order'.assigned)
                /\ order'.assigned \in Drivers
                /\ \A h \in running' : ~Assigning(h)
  BY <1>1, <1>3, <1>5, <1>6
<1>8. ASSUME NEW h \in answered', Assigning(h)
      PROVE  \E i \in 1..Len(published') : published'[i] = DriverAssigned(h.driver)
  BY <1>6, <1>8 DEF PublishedInv
<1> QED BY <1>6, <1>7, <1>8 DEF PublishedInv, Assigning

(* An assignment is published.                                             *)
LEMMA PublishAssignment ==
  ASSUME HttpInv, NEW h \in running, PublishAssigned(h)
  PROVE  PublishedInv'
<1> USE DEF HttpInv
<1>1. /\ Assigning(h)
      /\ published' = Append(published, DriverAssigned(h.driver))
      /\ running' = running \ {h}
      /\ answered' = answered \cup {h}
      /\ order' = order
      /\ events' = events
  BY DEF PublishAssigned, Answered, Assigning, vars
<1>2. h.driver \in Drivers /\ order.assigned = h.driver
  BY <1>1 DEF HandlersInv, Handler, Saved
<1>3. /\ published \in Seq(Event)
      /\ DriverAssigned(h.driver) \in Event
      /\ DriverAssigned(h.driver) # AssignmentFailed
  BY <1>2, AnnouncementsDiffer DEF PublishedInv
<1>4. \A i \in 1..Len(published) :
        /\ published[i] = AssignmentFailed
        /\ events # <<>>
        /\ events[1] = AssignmentFailed
  BY <1>1 DEF PublishedInv
<1>5. /\ published' \in Seq(Event)
      /\ \A i \in 1..Len(published') :
           (i \in 1..Len(published) /\ published'[i] = published[i])
             \/ published'[i] = DriverAssigned(h.driver)
      /\ \A i, j \in 1..Len(published') : published'[i] = published'[j] => i = j
      /\ \E i \in 1..Len(published') : published'[i] = DriverAssigned(h.driver)
      /\ \A i \in 1..Len(published) :
           i \in 1..Len(published') /\ published'[i] = published[i]
  BY <1>1, <1>3, <1>4, AppendNew DEF PublishedInv
<1>6. \A g \in running' : ~Assigning(g)
  BY <1>1 DEF HandlersInv
<1>7. ASSUME NEW i \in 1..Len(published')
      PROVE  \/ /\ published'[i] = AssignmentFailed
                /\ events' # <<>>
                /\ events'[1] = AssignmentFailed
             \/ /\ published'[i] = DriverAssigned(order'.assigned)
                /\ order'.assigned \in Drivers
                /\ \A g \in running' : ~Assigning(g)
  BY <1>1, <1>2, <1>4, <1>5, <1>6
<1>8. ASSUME NEW g \in answered', Assigning(g)
      PROVE  \E i \in 1..Len(published') : published'[i] = DriverAssigned(g.driver)
  BY <1>1, <1>5, <1>8 DEF PublishedInv
<1> QED BY <1>5, <1>7, <1>8 DEF PublishedInv, Assigning

LEMMA PublishedStep ==
  ASSUME HttpInv, [HttpNext]_httpVars
  PROVE  PublishedInv'
<1> USE DEF HttpInv
<1>0. [Next]_vars
  BY HttpStep DEF IInv, TypeOK
<1>1. ASSUME NEW r \in RequestsFor("accept"), AcceptHandler(r) PROVE PublishedInv'
  <2>1. order.assigned = NoDriver
    BY <1>1, AcceptPasses, PendingOffer DEF AcceptHandler
  <2>2. published' = published /\ answered' = answered
    BY <1>1 DEF AcceptHandler, Begin
  <2> QED BY <1>0, <2>1, <2>2, PublishNothing
<1>2. ASSUME NEW r \in RequestsFor("reject"), RejectHandler(r) PROVE PublishedInv'
  <2>1. order.assigned = NoDriver
    BY <1>2, RejectPasses, PendingOffer DEF RejectHandler
  <2>2. published' = published /\ answered' = answered
    BY <1>2 DEF RejectHandler, Begin
  <2> QED BY <1>0, <2>1, <2>2, PublishNothing
<1>3. ASSUME NEW r \in ForceRequests, ForceAssignHandler(r) PROVE PublishedInv'
  <2>1. order.assigned = NoDriver
    BY <1>3, ForcePasses DEF ForceAssignHandler, CanForce, IInv, StatusInv, StatusSound, Open
  <2>2. published' = published /\ answered' = answered
    BY <1>3 DEF ForceAssignHandler, Begin
  <2> QED BY <1>0, <2>1, <2>2, PublishNothing
<1>4. ASSUME NEW h \in running, PublishAssigned(h) PROVE PublishedInv'
  BY <1>4, PublishAssignment
<1>5. ASSUME NEW h \in running, FailOrRetry(h) PROVE PublishedInv'
  <2>1. /\ ~Assigning(h)
        /\ running' \subseteq running
        /\ answered' = answered \cup {h}
    BY <1>5 DEF FailOrRetry, Answered, Assigning
  <2>2. \A g \in answered' : Assigning(g) => g \in answered
    BY <2>1
  <2>3. CASE Fail /\ published' = Append(published, AssignmentFailed)
    BY <2>1, <2>2, <2>3, PublishFailure
  <2>4. CASE published' = published
    BY <1>0, <2>1, <2>2, <2>4, PublishNothing
  <2> QED BY <1>5, <2>3, <2>4 DEF FailOrRetry
<1>6. ASSUME NEW h \in running, BreakOff(h) PROVE PublishedInv'
  <2>1. published' = published /\ running' \subseteq running /\ answered' = answered
    BY <1>6 DEF BreakOff
  <2> QED BY <1>0, <2>1, PublishNothing
<1>7. CASE HandleMessage \/ UNCHANGED httpVars
  <2>1. running' = running /\ answered' = answered
    BY <1>7 DEF HandleMessage, httpVars
  <2>2. CASE Fail /\ published' = Append(published, AssignmentFailed)
    BY <2>1, <2>2, PublishFailure
  <2>3. CASE published' = published
    BY <1>0, <2>1, <2>3, PublishNothing
  <2> QED BY <1>7, <2>2, <2>3 DEF HandleMessage, httpVars
<1> QED
  BY <1>1, <1>2, <1>3, <1>4, <1>5, <1>6, <1>7 DEF HttpNext

(* The strengthened invariant of the HTTP interface.                       *)
THEOREM HttpInvariant == HttpSpec => []HttpInv
<1>1. HttpInit => HttpInv
  <2> SUFFICES ASSUME HttpInit PROVE HttpInv
    OBVIOUS
  <2>1. running = {} /\ answered = {} /\ published = <<>>
    BY DEF HttpInit
  <2>2. HandlersInv
    BY <2>1 DEF HandlersInv
  <2>3. PublishedInv
    BY <2>1 DEF PublishedInv
  <2> QED BY <2>2, <2>3, InitInvariant DEF HttpInit, HttpInv
<1>2. HttpInv /\ [HttpNext]_httpVars => HttpInv'
  <2> SUFFICES ASSUME HttpInv, [HttpNext]_httpVars PROVE HttpInv'
    OBVIOUS
  <2>1. [Next]_vars
    BY HttpStep DEF HttpInv, IInv, TypeOK
  <2>2. IInv'
    BY <2>1, InvariantStep DEF HttpInv
  <2> QED BY <2>2, HandlersStep, PublishedStep DEF HttpInv
<1> QED BY <1>1, <1>2, PTL DEF HttpSpec

(* The types of the variables of the HTTP interface.                       *)
THEOREM HttpTypes == HttpSpec => []HttpTypeOK
<1>1. HttpInv => HttpTypeOK
  BY DEF HttpInv, IInv, HandlersInv, PublishedInv, HttpTypeOK
<1> QED BY <1>1, HttpInvariant, PTL

(* Clients and the event exchange are told the same, and nothing twice     *)
(* (README.md:27), with handlers that break off after their save.          *)
THEOREM HttpClientAndBusAgree == HttpSpec => []ClientAndBusAgree
<1>1. HttpInv => ClientAndBusAgree
  <2> SUFFICES ASSUME HttpInv PROVE ClientAndBusAgree
    OBVIOUS
  <2> USE DEF HttpInv
  <2>1. DOMAIN published = 1..Len(published)
    BY DEF PublishedInv
  <2>2. ASSUME NEW h \in answered, h.route \in {"accept", "forceAssign"}
        PROVE  /\ order.assigned = h.driver
               /\ \E i \in DOMAIN published : published[i] = DriverAssigned(h.driver)
    BY <2>1, <2>2 DEF HandlersInv, PublishedInv, Saved, Assigning
  <2>3. ASSUME NEW i \in DOMAIN published, published[i].type = "driver.assigned"
        PROVE  published[i].driver = order.assigned
    BY <2>1, <2>3 DEF PublishedInv, DriverAssigned, AssignmentFailed
  <2>4. \A i, j \in DOMAIN published : published[i] = published[j] => i = j
    BY <2>1 DEF PublishedInv
  <2> QED BY <2>2, <2>3, <2>4 DEF ClientAndBusAgree
<1> QED BY <1>1, HttpInvariant, PTL

(* However requests are repeated, one of them assigns the order, and no    *)
(* driver both declines and gets it.                                       *)
THEOREM HttpOneRequestAssigns == HttpSpec => []OneRequestAssigns
<1>1. HttpInv => OneRequestAssigns
  <2> SUFFICES ASSUME HttpInv PROVE OneRequestAssigns
    OBVIOUS
  <2> USE DEF HttpInv
  <2>1. ASSUME NEW g \in running \cup answered, NEW h \in running \cup answered,
               g.route = "reject", h.route = "accept"
        PROVE  g.driver # h.driver
    <3>1. PICK i \in 1..Len(order.attempts) :
            /\ order.attempts[i].driver = g.driver
            /\ order.attempts[i].outcome = "rejected"
      BY <2>1 DEF HandlersInv, Saved, AnswerOf
    <3>2. PICK j \in 1..Len(order.attempts) :
            /\ order.attempts[j].driver = h.driver
            /\ order.attempts[j].outcome = "accepted"
      BY <2>1 DEF HandlersInv, Saved, AnswerOf
    <3> QED BY <3>1, <3>2 DEF IInv, OffersInv, OffersSound
  <2> QED BY <2>1 DEF OneRequestAssigns, HandlersInv, Assigning
<1> QED BY <1>1, HttpInvariant, PTL
-----------------------------------------------------------------------------
(* Answers.  The first failing check decides; there is one if any fails.   *)
LEMMA FirstFailing ==
  ASSUME NEW s \in Seq(ACheck), Failing(s) # {}
  PROVE  \E i \in Failing(s) : \A j \in Failing(s) : i <= j
<1>1. Failing(s) \subseteq Nat
  BY DEF Failing
<1>2. \E i \in Failing(s) : \A j \in Failing(s) : ~(<<j, i>> \in OpToRel(<, Nat))
  BY <1>1, WFMin, NatLessThanWellFounded, Zenon
<1>3. \E i \in Failing(s) : \A j \in Failing(s) : ~(j < i)
  BY <1>1, <1>2 DEF OpToRel
<1> QED BY <1>1, <1>3

(* An answer is an error exactly if a check fails.                         *)
LEMMA AnswerFacts ==
  ASSUME NEW r, Checks(r) \in Seq(ACheck)
  PROVE  /\ Failing(Checks(r)) = {} => Answer(r) = Success(r)
         /\ Failing(Checks(r)) # {} => Answer(r) \in 400..599
<1> DEFINE c == Checks(r)
           i == CHOOSE i \in Failing(c) : \A j \in Failing(c) : i <= j
<1>1. CASE Failing(c) = {}
  BY <1>1 DEF Answer
<1>2. CASE Failing(c) # {}
  <2>1. i \in Failing(c)
    BY <1>2, FirstFailing
  <2>2. i \in DOMAIN c
    BY <2>1 DEF Failing
  <2>3. c[i] \in ACheck
    BY <2>2
  <2>4. Answer(r) = c[i].status
    BY <1>2 DEF Answer
  <2> QED BY <1>2, <2>3, <2>4 DEF ACheck
<1> QED BY <1>1, <1>2

(* Checks made one after another pass if all of them pass.                 *)
LEMMA BothPass ==
  ASSUME NEW s \in Seq(ACheck), NEW t \in Seq(ACheck),
         Failing(s) = {}, Failing(t) = {}
  PROVE  Failing(s \o t) = {}
<1>1. /\ s \o t \in Seq(ACheck)
      /\ Len(s) \in Nat /\ Len(t) \in Nat
      /\ DOMAIN s = 1..Len(s) /\ DOMAIN t = 1..Len(t)
      /\ DOMAIN (s \o t) = 1..(Len(s) + Len(t))
      /\ \A i \in 1..Len(s) : (s \o t)[i] = s[i]
      /\ \A i \in 1..Len(t) : (s \o t)[Len(s) + i] = t[i]
  OBVIOUS
<1>2. /\ \A i \in DOMAIN s : ~s[i].fails
      /\ \A i \in DOMAIN t : ~t[i].fails
  BY DEF Failing
<1>3. ASSUME NEW i \in DOMAIN (s \o t) PROVE ~(s \o t)[i].fails
  <2>1. CASE i \in 1..Len(s)
    BY <1>1, <1>2, <2>1
  <2>2. CASE i \notin 1..Len(s)
    <3>1. i - Len(s) \in 1..Len(t) /\ i = Len(s) + (i - Len(s))
      BY <1>1, <2>2
    <3> HIDE DEF Failing
    <3> QED BY <1>1, <1>2, <3>1
  <2> QED BY <2>1, <2>2
<1> QED BY <1>3 DEF Failing

LEMMA CheckFails ==
  ASSUME NEW b \in BOOLEAN, NEW n
  PROVE  Check(b, n).fails = b
BY DEF Check

(* A caller with the right role gets past the entrance.                    *)
LEMMA EntrancePasses ==
  ASSUME NEW route, NEW c, NEW roles
  PROVE  Failing(Entrance(Asking(route, c), roles)) = {}
           <=> c.role # "none" /\ c.role \in roles
<1> DEFINE r == Asking(route, c)
           e == Entrance(r, roles)
           b1 == r.body = "notJson"
           b2 == r.caller.role = "none"
           b3 == r.caller.role \notin roles
<1>1. r.body = "valid" /\ r.caller = c
  BY DEF Asking, Request
<1>2. ~b1 /\ (b2 <=> c.role = "none") /\ (b3 <=> c.role \notin roles)
  BY <1>1
<1>3. e = <<Check(b1, 500), Check(b2, 401), Check(b3, 403)>>
  BY DEF Entrance
<1>4. b1 \in BOOLEAN /\ b2 \in BOOLEAN /\ b3 \in BOOLEAN
  OBVIOUS
<1> HIDE DEF r, e, b1, b2, b3
<1>5. DOMAIN e = 1..3
  BY <1>3
<1>6. e[1].fails = b1 /\ e[2].fails = b2 /\ e[3].fails = b3
  BY <1>3, <1>4, CheckFails
<1>7. Failing(e) = {} <=> \A i \in 1..3 : ~e[i].fails
  BY <1>5 DEF Failing
<1>8. \A i \in 1..3 : i = 1 \/ i = 2 \/ i = 3
  OBVIOUS
<1> QED BY <1>2, <1>6, <1>7, <1>8 DEF e, r

(* The status codes of errors, and those of success.                       *)
LEMMA Codes ==
  /\ 400 \in 400..599 /\ 403 \in 400..599 /\ 404 \in 400..599
  /\ 409 \in 400..599 /\ 500 \in 400..599
  /\ 200 \notin 400..599 /\ 204 \notin 400..599
OBVIOUS

LEMMA CheckType ==
  ASSUME NEW b \in BOOLEAN, NEW n \in 400..599
  PROVE  Check(b, n) \in ACheck
BY DEF Check, ACheck

(* Short lists of checks.                                                  *)
LEMMA TwoChecks ==
  ASSUME NEW x \in ACheck, NEW y \in ACheck
  PROVE  /\ <<x, y>> \in Seq(ACheck)
         /\ Failing(<<x, y>>) = {} <=> x.fails = FALSE /\ y.fails = FALSE
<1> DEFINE e == <<x, y>>
<1>1. e \in Seq(ACheck) /\ e[1] = x /\ e[2] = y /\ DOMAIN e = 1..2
  OBVIOUS
<1>2. x.fails \in BOOLEAN /\ y.fails \in BOOLEAN
  BY DEF ACheck
<1> HIDE DEF e
<1>3. Failing(e) = {} <=> \A i \in 1..2 : ~e[i].fails
  BY <1>1 DEF Failing
<1>4. \A i \in 1..2 : i = 1 \/ i = 2
  OBVIOUS
<1>5. Failing(e) = {} <=> x.fails = FALSE /\ y.fails = FALSE
  BY <1>1, <1>2, <1>3, <1>4
<1> QED BY <1>1, <1>5 DEF e

LEMMA ThreeChecks ==
  ASSUME NEW x \in ACheck, NEW y \in ACheck, NEW z \in ACheck
  PROVE  /\ <<x, y, z>> \in Seq(ACheck)
         /\ Failing(<<x, y, z>>) = {} <=> x.fails = FALSE /\ y.fails = FALSE /\ z.fails = FALSE
<1> DEFINE e == <<x, y, z>>
<1>1. e \in Seq(ACheck) /\ e[1] = x /\ e[2] = y /\ e[3] = z /\ DOMAIN e = 1..3
  OBVIOUS
<1>2. x.fails \in BOOLEAN /\ y.fails \in BOOLEAN /\ z.fails \in BOOLEAN
  BY DEF ACheck
<1> HIDE DEF e
<1>3. Failing(e) = {} <=> \A i \in 1..3 : ~e[i].fails
  BY <1>1 DEF Failing
<1>4. \A i \in 1..3 : i = 1 \/ i = 2 \/ i = 3
  OBVIOUS
<1>5. Failing(e) = {} <=> x.fails = FALSE /\ y.fails = FALSE /\ z.fails = FALSE
  BY <1>1, <1>2, <1>3, <1>4
<1> QED BY <1>1, <1>5 DEF e
-----------------------------------------------------------------------------
(* A driver's accept is answered with success exactly if he has the offer. *)
LEMMA AcceptAnswer ==
  ASSUME NEW d \in Drivers
  PROVE  Answer(Asking("accept", [role |-> "driver", user |-> d])) = 204
           <=> created /\ CanRespond(order, d)
<1> DEFINE c == [role |-> "driver", user |-> d]
           r == Asking("accept", c)
           entry == Entrance(r, {"driver"})
           b1 == r.orderId = "malformed"
           b2 == NotFound(r)
           b3 == r.caller.user = Misnamed
           b4 == NoActiveOffer
           b5 == NotOfferedDriver(d)
           x1 == Check(b1, 400)
           x2 == Check(b2, 404)
           x3 == Check(b3, 500)
           x4 == Check(b4, 409)
           x5 == Check(b5, 403)
           own == <<x1, x2, x3>>
           last == <<x4, x5>>
<1>1. /\ r.route = "accept" /\ r.orderId = "existing" /\ r.caller = c
      /\ c.role = "driver" /\ c.user = d
  BY DEF Asking, Request
<1>2. entry \in Seq(ACheck) /\ Failing(entry) = {}
  BY <1>1, EntranceType, EntrancePasses
<1>3. /\ b1 \in BOOLEAN /\ b2 \in BOOLEAN /\ b3 \in BOOLEAN
      /\ b4 \in BOOLEAN /\ b5 \in BOOLEAN
  BY DEF NotFound, NoActiveOffer, NotOfferedDriver
<1>4. b1 = FALSE /\ (b2 = FALSE <=> created) /\ b3 = FALSE
  BY <1>1, UserAssumption DEF NotFound
<1>5. b4 = FALSE /\ b5 = FALSE <=> CanRespond(order, d)
  BY DEF NoActiveOffer, NotOfferedDriver, CanRespond
<1>6. Checks(r) = (entry \o own) \o last
  BY <1>1 DEF Checks, AcceptChecks, OfferChecks
<1>7. Success(r) = 204
  BY <1>1 DEF Success
<1> HIDE DEF c, r, entry, b1, b2, b3, b4, b5
<1>81. /\ x1 \in ACheck /\ x2 \in ACheck /\ x3 \in ACheck
      /\ x4 \in ACheck /\ x5 \in ACheck
  BY <1>3, Codes, CheckType
<1>82. /\ x1.fails = b1 /\ x2.fails = b2 /\ x3.fails = b3
      /\ x4.fails = b4 /\ x5.fails = b5
  BY <1>3, CheckFails
<1> HIDE DEF x1, x2, x3, x4, x5
<1>8. own \in Seq(ACheck) /\ (Failing(own) = {} <=> created)
  BY <1>81, <1>82, <1>4, ThreeChecks
<1>9. last \in Seq(ACheck) /\ (Failing(last) = {} <=> CanRespond(order, d))
  BY <1>81, <1>82, <1>5, TwoChecks
<1> HIDE DEF own, last
<1>10. entry \o own \in Seq(ACheck) /\ Checks(r) \in Seq(ACheck)
  BY <1>2, <1>6, <1>8, <1>9
<1>11. Failing(Checks(r)) = {} <=> created /\ CanRespond(order, d)
  BY <1>2, <1>6, <1>8, <1>9, <1>10, PassesBoth, BothPass
<1>12. Answer(r) = 204 <=> Failing(Checks(r)) = {}
  <2>1. CASE Failing(Checks(r)) = {}
    BY <1>7, <1>10, <2>1, AnswerFacts
  <2>2. CASE Failing(Checks(r)) # {}
    <3>1. Answer(r) \in 400..599
      BY <1>10, <2>2, AnswerFacts
    <3> QED BY <2>2, <3>1, Codes
  <2> QED BY <2>1, <2>2
<1> QED BY <1>11, <1>12 DEF c, r

(* offers/current answers 200 exactly if the query finds an offer.         *)
LEMMA CurrentOfferAnswer ==
  ASSUME NEW d \in Drivers
  PROVE  Answer(Asking("currentOffer", [role |-> "driver", user |-> d])) = 200
           <=> OfferedForDriver(d)
<1> DEFINE c == [role |-> "driver", user |-> d]
           r == Asking("currentOffer", c)
           entry == Entrance(r, {"driver"})
           b == r.caller.user = Misnamed
           x == Check(b, 500)
           own == <<x>>
<1>1. /\ r.route = "currentOffer" /\ r.caller = c
      /\ c.role = "driver" /\ c.user = d
  BY DEF Asking, Request
<1>2. entry \in Seq(ACheck) /\ Failing(entry) = {}
  BY <1>1, EntranceType, EntrancePasses
<1>3. b \in BOOLEAN /\ b = FALSE
  BY <1>1, UserAssumption
<1>4. Checks(r) = entry \o own
  BY <1>1 DEF Checks, CurrentOfferChecks
<1>5. Success(r) = IF OfferedForDriver(d) THEN 200 ELSE 204
  BY <1>1 DEF Success
<1> HIDE DEF c, r, entry, b
<1>6. x \in ACheck /\ x.fails = FALSE
  BY <1>3, Codes, CheckType, CheckFails
<1> HIDE DEF x
<1>7. own \in Seq(ACheck) /\ Failing(own) = {}
  BY <1>6 DEF Failing
<1> HIDE DEF own
<1>8. Checks(r) \in Seq(ACheck) /\ Failing(Checks(r)) = {}
  BY <1>2, <1>4, <1>7, BothPass
<1>9. Answer(r) = Success(r)
  BY <1>8, AnswerFacts
<1> QED BY <1>5, <1>9 DEF c, r

(* Reading an assignment succeeds for whoever is authenticated and may.    *)
LEMMA ReadAnswer ==
  ASSUME NEW c
  PROVE  Answer(Asking("assignment", c)) = 200
           <=> /\ c.role \in {"customer", "driver", "admin"}
               /\ created /\ MayRead(c)
<1> DEFINE roles == {"customer", "driver", "admin"}
           r == Asking("assignment", c)
           entry == Entrance(r, roles)
           b1 == r.orderId = "malformed"
           b2 == NotFound(r)
           b3 == ~MayRead(r.caller)
           x1 == Check(b1, 400)
           x2 == Check(b2, 404)
           x3 == Check(b3, 403)
           own == <<x1, x2, x3>>
<1>1. r.route = "assignment" /\ r.orderId = "existing" /\ r.caller = c
  BY DEF Asking, Request
<1>2. /\ entry \in Seq(ACheck)
      /\ Failing(entry) = {} <=> c.role \in roles
  <2>1. entry \in Seq(ACheck)
    BY EntranceType
  <2>2. "none" \notin roles
    OBVIOUS
  <2>3. Failing(entry) = {} <=> c.role # "none" /\ c.role \in roles
    BY EntrancePasses
  <2> QED BY <2>1, <2>2, <2>3
<1>3. b1 \in BOOLEAN /\ b2 \in BOOLEAN /\ b3 \in BOOLEAN
  BY DEF NotFound
<1>4. b1 = FALSE /\ (b2 = FALSE <=> created) /\ (b3 = FALSE <=> MayRead(c))
  BY <1>1 DEF NotFound, MayRead
<1>5. Checks(r) = entry \o own
  BY <1>1 DEF Checks, GetChecks
<1>6. Success(r) = 200
  BY <1>1 DEF Success
<1> HIDE DEF r, entry, b1, b2, b3, roles
<1>7. x1 \in ACheck /\ x2 \in ACheck /\ x3 \in ACheck
  BY <1>3, Codes, CheckType
<1>8. x1.fails = b1 /\ x2.fails = b2 /\ x3.fails = b3
  BY <1>3, CheckFails
<1> HIDE DEF x1, x2, x3
<1>9. own \in Seq(ACheck) /\ (Failing(own) = {} <=> created /\ MayRead(c))
  BY <1>4, <1>7, <1>8, ThreeChecks
<1> HIDE DEF own
<1>10. Checks(r) \in Seq(ACheck)
  BY <1>2, <1>5, <1>9
<1>11. Failing(Checks(r)) = {} <=> c.role \in roles /\ created /\ MayRead(c)
  BY <1>2, <1>5, <1>9, PassesBoth, BothPass
<1>12. Answer(r) = 200 <=> Failing(Checks(r)) = {}
  <2>1. CASE Failing(Checks(r)) = {}
    BY <1>6, <1>10, <2>1, AnswerFacts
  <2>2. CASE Failing(Checks(r)) # {}
    <3>1. Answer(r) \in 400..599
      BY <1>10, <2>2, AnswerFacts
    <3> QED BY <2>2, <3>1, Codes
  <2> QED BY <2>1, <2>2
<1> QED BY <1>11, <1>12 DEF roles, r

(* A pending offer is the last one, so the query over all offers and the   *)
(* aggregate's check of the last agree.                                    *)
LEMMA PendingIsLast ==
  ASSUME IInv, NEW d
  PROVE  OfferedForDriver(d) <=> created /\ CanRespond(order, d)
<1> DEFINE n == Len(order.attempts)
<1>1. DOMAIN order.attempts = 1..n /\ n \in Nat
  BY DEF IInv, TypeOK, Aggregate
<1>2. order.attempts # <<>> => n \in 1..n
  BY DEF IInv, TypeOK, Aggregate
<1>3. ASSUME NEW i \in 1..n, order.attempts[i].outcome = "offered"
      PROVE  i = n
  BY <1>1, <1>3 DEF IInv, OffersInv, OffersSound, Declined
<1>4. ASSUME OfferedForDriver(d) PROVE created /\ CanRespond(order, d)
  <2>1. PICK i \in 1..n : /\ order.attempts[i].driver = d
                          /\ order.attempts[i].outcome = "offered"
    BY <1>1, <1>4 DEF OfferedForDriver
  <2>2. i = n
    BY <1>3, <2>1
  <2>3. order.status = "offered" /\ order.attempts # <<>>
    BY <1>4 DEF OfferedForDriver, IInv, StatusInv, StatusSound
  <2> QED BY <1>4, <2>1, <2>2, <2>3 DEF OfferedForDriver, CanRespond, CurrentAttempt
<1>5. ASSUME created, CanRespond(order, d) PROVE OfferedForDriver(d)
  BY <1>1, <1>2, <1>5 DEF OfferedForDriver, CanRespond, CurrentAttempt, IInv, StatusInv, StatusSound
<1> QED BY <1>4, <1>5

(* A driver finds an offer exactly while he could take it.                 *)
THEOREM HttpDriverFindsHisOffer == HttpSpec => []DriverFindsHisOffer
<1>1. IInv => DriverFindsHisOffer
  <2> SUFFICES ASSUME IInv, NEW d \in Drivers
               PROVE
    LET c == [role |-> "driver", user |-> d]
    IN  Answer(Asking("currentOffer", c)) = 200
          <=> Answer(Asking("accept", c)) = 204
    BY DEF DriverFindsHisOffer
  <2> DEFINE found == Answer(Asking("currentOffer", [role |-> "driver", user |-> d]))
             taken == Answer(Asking("accept", [role |-> "driver", user |-> d]))
  <2>1. found = 200 <=> OfferedForDriver(d)
    BY CurrentOfferAnswer
  <2>2. taken = 204 <=> created /\ CanRespond(order, d)
    BY AcceptAnswer
  <2> HIDE DEF found, taken
  <2>3. found = 200 <=> taken = 204
    BY <2>1, <2>2, PendingIsLast
  <2> QED BY <2>3 DEF found, taken
<1> QED BY <1>1, HttpKeepsInvariant, PTL

(* An assignment is read by admins and involved drivers, and by the driver *)
(* it is with.                                                             *)
THEOREM HttpOnlyInvolvedRead == HttpSpec => []OnlyInvolvedRead
<1>1. IInv => OnlyInvolvedRead
  <2> SUFFICES ASSUME IInv, NEW c \in Callers
               PROVE
    LET ok == Answer(Asking("assignment", c)) = 200
    IN  /\ ok => c.role = "admin" \/ Involved(c.user)
        /\ c.role = "driver" /\ created /\ ~NoActiveOffer /\ OfferedForDriver(c.user)
             => ok
        /\ c.role = "driver" /\ created /\ order.assigned = c.user => ok
    BY DEF OnlyInvolvedRead
  <2> DEFINE ok == Answer(Asking("assignment", c)) = 200
  <2>1. ok <=> /\ c.role \in {"customer", "driver", "admin"}
               /\ created /\ MayRead(c)
    BY ReadAnswer
  <2> HIDE DEF ok
  <2>2. order.attempts # <<>> => Len(order.attempts) \in DOMAIN order.attempts
    BY DEF IInv, TypeOK, Aggregate
  <2>3. ok => c.role = "admin" \/ Involved(c.user)
    BY <2>1, <2>2 DEF MayRead, CurrentAttempt, Involved
  <2>4. c.role = "driver" /\ OfferedForDriver(c.user) => ok
    BY <2>1, PendingIsLast DEF MayRead, CanRespond
  <2>5. c.role = "driver" /\ created /\ order.assigned = c.user => ok
    BY <2>1 DEF MayRead
  <2> QED BY <2>3, <2>4, <2>5 DEF ok
<1> QED BY <1>1, HttpKeepsInvariant, PTL
-----------------------------------------------------------------------------
(* The first check that fails decides the answer.                          *)
LEMMA FirstDecides ==
  ASSUME NEW r, Checks(r) \in Seq(ACheck), NEW n \in DOMAIN Checks(r),
         Checks(r)[n].fails = TRUE,
         \A i \in DOMAIN Checks(r) : i < n => Checks(r)[i].fails = FALSE
  PROVE  Answer(r) = Checks(r)[n].status
<1> DEFINE c == Checks(r)
           first == CHOOSE i \in Failing(c) : \A j \in Failing(c) : i <= j
<1>1. DOMAIN c \subseteq Int
  OBVIOUS
<1>2. n \in Failing(c) /\ Failing(c) \subseteq DOMAIN c
  BY DEF Failing
<1>3. \A j \in Failing(c) : ~(j < n)
  BY DEF Failing
<1>4. \A j \in Failing(c) : n <= j
  BY <1>1, <1>2, <1>3
<1>5. first \in Failing(c) /\ first <= n
  BY <1>2, <1>4
<1>6. first = n
  BY <1>1, <1>2, <1>4, <1>5
<1>7. Answer(r) = c[first].status
  BY <1>2 DEF Answer
<1> QED BY <1>6, <1>7

LEMMA OneAfterAnother ==
  ASSUME NEW s \in Seq(ACheck), NEW t \in Seq(ACheck)
  PROVE  /\ s \o t \in Seq(ACheck)
         /\ Len(s) \in Nat /\ Len(t) \in Nat
         /\ DOMAIN (s \o t) = 1..(Len(s) + Len(t))
         /\ \A i \in 1..Len(s) : (s \o t)[i] = s[i]
         /\ \A i \in 1..Len(t) : (s \o t)[Len(s) + i] = t[i]
OBVIOUS

(* The checks of an entrance and those of a list c that begins with it.    *)
EntranceOf(c, r, roles) ==
  /\ c \in Seq(ACheck) /\ 1 \in DOMAIN c /\ 2 \in DOMAIN c /\ 3 \in DOMAIN c
  /\ c[1] = Check(r.body = "notJson", 500)
  /\ c[2] = Check(r.caller.role = "none", 401)
  /\ c[3] = Check(r.caller.role \notin roles, 403)

(* What the entrance answers, whatever is checked after it.                *)
LEMMA EntranceAnswers ==
  ASSUME NEW r, NEW roles, EntranceOf(Checks(r), r, roles), r.body # "notJson"
  PROVE  /\ r.caller.role = "none" => Answer(r) = 401
         /\ r.caller.role # "none" /\ r.caller.role \notin roles => Answer(r) = 403
<1> DEFINE c == Checks(r)
           b1 == r.body = "notJson"
           b2 == r.caller.role = "none"
           b3 == r.caller.role \notin roles
<1>1. b1 \in BOOLEAN /\ b2 \in BOOLEAN /\ b3 \in BOOLEAN /\ b1 = FALSE
  OBVIOUS
<1>2. /\ c \in Seq(ACheck) /\ 2 \in DOMAIN c /\ 3 \in DOMAIN c
      /\ c[1] = Check(b1, 500) /\ c[2] = Check(b2, 401) /\ c[3] = Check(b3, 403)
  BY DEF EntranceOf
<1> HIDE DEF b1, b2, b3
<1>3. c[1].fails = FALSE /\ c[2].fails = b2 /\ c[3].fails = b3
  BY <1>1, <1>2, CheckFails
<1>4. c[2].status = 401 /\ c[3].status = 403
  BY <1>2 DEF Check
<1>5. \A i \in DOMAIN c : (i < 2 => i = 1) /\ (i < 3 => i = 1 \/ i = 2)
  BY <1>2
<1> HIDE DEF c
<1>6. ASSUME b2 = TRUE PROVE Answer(r) = 401
  <2>1. c[2].fails = TRUE /\ \A i \in DOMAIN c : i < 2 => c[i].fails = FALSE
    BY <1>3, <1>5, <1>6
  <2>2. c \in Seq(ACheck) /\ 2 \in DOMAIN c
    BY <1>2
  <2>3. Answer(r) = c[2].status
    BY <2>1, <2>2, FirstDecides DEF c
  <2> QED BY <1>4, <2>3
<1>7. ASSUME b2 = FALSE, b3 = TRUE PROVE Answer(r) = 403
  <2>1. c[3].fails = TRUE /\ \A i \in DOMAIN c : i < 3 => c[i].fails = FALSE
    BY <1>3, <1>5, <1>7
  <2>2. c \in Seq(ACheck) /\ 3 \in DOMAIN c
    BY <1>2
  <2>3. Answer(r) = c[3].status
    BY <2>1, <2>2, FirstDecides DEF c
  <2> QED BY <1>4, <2>3
<1> QED BY <1>1, <1>6, <1>7 DEF b2, b3
-----------------------------------------------------------------------------
(* A list of n checks that begins with an entrance, made longer by t.      *)
ListFrom(c, n, r, roles) == EntranceOf(c, r, roles) /\ n \in Nat /\ DOMAIN c = 1..n

Joined(j, c, n, t) ==
  /\ \A i \in 1..n : j[i] = c[i]
  /\ \A i \in 1..Len(t) : j[n + i] = t[i]

LEMMA EntranceGrows ==
  ASSUME NEW r, NEW roles, NEW c, NEW n, ListFrom(c, n, r, roles),
         NEW t, t \in Seq(ACheck), NEW m, m = n + Len(t),
         NEW j, j = c \o t
  PROVE  ListFrom(j, m, r, roles) /\ Joined(j, c, n, t)
<1>1. c \in Seq(ACheck) /\ n \in Nat
  BY DEF ListFrom, EntranceOf
<1>2. Len(c) = n
  BY <1>1 DEF ListFrom
<1>3. /\ c \o t \in Seq(ACheck) /\ Len(t) \in Nat
      /\ DOMAIN (c \o t) = 1..(Len(c) + Len(t))
      /\ \A i \in 1..Len(c) : (c \o t)[i] = c[i]
      /\ \A i \in 1..Len(t) : (c \o t)[Len(c) + i] = t[i]
  BY <1>1, OneAfterAnother, Zenon
<1>4. /\ j \in Seq(ACheck) /\ Len(t) \in Nat
      /\ DOMAIN j = 1..m
      /\ \A i \in 1..n : j[i] = c[i]
      /\ \A i \in 1..Len(t) : j[n + i] = t[i]
  BY <1>2, <1>3, Zenon
<1>5. 1 \in 1..n /\ 2 \in 1..n /\ 3 \in 1..n
  BY DEF ListFrom, EntranceOf
<1>6. 1 \in 1..m /\ 2 \in 1..m /\ 3 \in 1..m /\ m \in Nat
  BY <1>1, <1>4, <1>5
<1>7. EntranceOf(j, r, roles)
  BY <1>4, <1>5, <1>6 DEF EntranceOf, ListFrom
<1> QED BY <1>4, <1>6, <1>7 DEF ListFrom, Joined

LEMMA EntranceAlone ==
  ASSUME NEW r, NEW roles
  PROVE  ListFrom(Entrance(r, roles), 3, r, roles)
<1>1. Entrance(r, roles) \in Seq(ACheck)
  BY EntranceType
<1>2. /\ DOMAIN Entrance(r, roles) = 1..3
      /\ Entrance(r, roles)[1] = Check(r.body = "notJson", 500)
      /\ Entrance(r, roles)[2] = Check(r.caller.role = "none", 401)
      /\ Entrance(r, roles)[3] = Check(r.caller.role \notin roles, 403)
  BY DEF Entrance
<1> QED BY <1>1, <1>2 DEF EntranceOf, ListFrom

(* The lists of the routes.                                                *)
LEMMA AcceptList ==
  ASSUME NEW r, r.route = "accept"
  PROVE  LET c == Checks(r)
         IN  /\ EntranceOf(c, r, {"driver"}) /\ DOMAIN c = 1..8
             /\ c[4] = Check(r.orderId = "malformed", 400)
             /\ c[5] = Check(NotFound(r), 404)
             /\ c[6] = Check(r.caller.user = Misnamed, 500)
             /\ c[7] = Check(NoActiveOffer, 409)
             /\ c[8] = Check(NotOfferedDriver(r.caller.user), 403)
<1> DEFINE e == Entrance(r, {"driver"})
           x == Check(r.orderId = "malformed", 400)
           y == Check(NotFound(r), 404)
           z == Check(r.caller.user = Misnamed, 500)
           own == <<x, y, z>>
           last == OfferChecks(r.caller.user)
<1>1. Checks(r) = (e \o own) \o last
  BY DEF Checks, AcceptChecks
<1>2. own \in Seq(ACheck)
  <2>1. NotFound(r) \in BOOLEAN
    BY DEF NotFound
  <2>2. x \in ACheck /\ y \in ACheck /\ z \in ACheck
    BY <2>1 DEF Check, ACheck
  <2> QED BY <2>2, ThreeChecks
<1>3. Len(own) = 3 /\ own[1] = x /\ own[2] = y /\ own[3] = z
  OBVIOUS
<1>4. last \in Seq(ACheck)
  BY OfferChecksType
<1>45. Len(last) = 2
  BY DEF OfferChecks
<1>5. /\ last[1] = Check(NoActiveOffer, 409)
      /\ last[2] = Check(NotOfferedDriver(r.caller.user), 403)
  BY DEF OfferChecks
<1>6. ListFrom(e, 3, r, {"driver"})
  BY EntranceAlone
<1> DEFINE f == e \o own
           c == Checks(r)
<1> HIDE DEF e, x, y, z, own, last
<1>7. ListFrom(f, 6, r, {"driver"}) /\ Joined(f, e, 3, own)
  <2>1. 6 = 3 + Len(own)
    BY <1>3
  <2> QED BY <1>2, <1>6, <2>1, EntranceGrows, Zenon
<1> HIDE DEF f
<1>8. ListFrom(c, 8, r, {"driver"}) /\ Joined(c, f, 6, last)
  <2>1. 8 = 6 + Len(last)
    BY <1>45
  <2>2. c = f \o last
    BY <1>1 DEF f
  <2> QED BY <1>4, <1>7, <2>1, <2>2, EntranceGrows, Zenon
<1> HIDE DEF c
<1>10. c[4] = own[1] /\ c[5] = own[2] /\ c[6] = own[3]
  BY <1>3, <1>7, <1>8 DEF Joined
<1>11. c[7] = last[1] /\ c[8] = last[2]
  BY <1>45, <1>8 DEF Joined
<1>12. EntranceOf(c, r, {"driver"}) /\ DOMAIN c = 1..8
  BY <1>8 DEF ListFrom
<1> QED BY <1>3, <1>5, <1>10, <1>11, <1>12 DEF c, x, y, z

LEMMA RejectList ==
  ASSUME NEW r, r.route = "reject"
  PROVE  EntranceOf(Checks(r), r, {"driver"})
<1> DEFINE e == Entrance(r, {"driver"})
           x == Check(r.orderId = "malformed", 400)
           y == Check(r.body = "invalid", 400)
           z == Check(r.caller.user = Misnamed, 500)
           w == Check(NotFound(r), 404)
           own == <<x, y, z, w>>
           last == OfferChecks(r.caller.user)
           f == e \o own
           c == Checks(r)
<1>1. c = f \o last
  BY DEF Checks, RejectChecks
<1>2. x \in ACheck /\ y \in ACheck /\ z \in ACheck /\ w \in ACheck
  BY DEF Check, ACheck, NotFound
<1>3. last \in Seq(ACheck)
  BY OfferChecksType
<1>4. ListFrom(e, 3, r, {"driver"})
  BY EntranceAlone
<1> HIDE DEF e, x, y, z, w, last, c
<1>5. own \in Seq(ACheck)
  BY <1>2
<1> HIDE DEF own
<1>6. ListFrom(f, 3 + Len(own), r, {"driver"})
  BY <1>4, <1>5, EntranceGrows, Zenon
<1> HIDE DEF f
<1>7. ListFrom(c, (3 + Len(own)) + Len(last), r, {"driver"})
  BY <1>1, <1>3, <1>6, EntranceGrows, Zenon
<1> QED BY <1>7 DEF ListFrom, c

LEMMA GetList ==
  ASSUME NEW r, r.route = "assignment"
  PROVE  LET c == Checks(r)
         IN  /\ EntranceOf(c, r, {"customer", "driver", "admin"}) /\ DOMAIN c = 1..6
             /\ c[4] = Check(r.orderId = "malformed", 400)
             /\ c[5] = Check(NotFound(r), 404)
             /\ c[6] = Check(~MayRead(r.caller), 403)
<1> DEFINE roles == {"customer", "driver", "admin"}
           e == Entrance(r, roles)
           x == Check(r.orderId = "malformed", 400)
           y == Check(NotFound(r), 404)
           z == Check(~MayRead(r.caller), 403)
           own == <<x, y, z>>
           c == Checks(r)
<1>1. c = e \o own
  BY DEF Checks, GetChecks
<1>2. x \in ACheck /\ y \in ACheck /\ z \in ACheck
  BY DEF Check, ACheck, NotFound
<1>3. ListFrom(e, 3, r, roles)
  BY EntranceAlone
<1> HIDE DEF e, x, y, z, c, roles
<1>4. own \in Seq(ACheck) /\ Len(own) = 3 /\ own[1] = x /\ own[2] = y /\ own[3] = z
  BY <1>2
<1> HIDE DEF own
<1>5. 6 = 3 + Len(own)
  BY <1>4
<1>6. ListFrom(c, 6, r, roles) /\ Joined(c, e, 3, own)
  BY <1>1, <1>3, <1>4, <1>5, EntranceGrows, Zenon
<1>7. c[4] = x /\ c[5] = y /\ c[6] = z
  BY <1>4, <1>6 DEF Joined
<1>8. EntranceOf(c, r, roles) /\ DOMAIN c = 1..6
  BY <1>6 DEF ListFrom
<1> QED BY <1>7, <1>8 DEF c, x, y, z, roles

LEMMA CurrentOfferList ==
  ASSUME NEW r, r.route = "currentOffer"
  PROVE  EntranceOf(Checks(r), r, {"driver"})
<1> DEFINE e == Entrance(r, {"driver"})
           own == <<Check(r.caller.user = Misnamed, 500)>>
           c == Checks(r)
<1>1. c = e \o own
  BY DEF Checks, CurrentOfferChecks
<1>2. own \in Seq(ACheck)
  BY DEF Check, ACheck
<1>3. ListFrom(e, 3, r, {"driver"})
  BY EntranceAlone
<1> HIDE DEF e, own, c
<1>4. ListFrom(c, 3 + Len(own), r, {"driver"})
  BY <1>1, <1>2, <1>3, EntranceGrows, Zenon
<1> QED BY <1>4 DEF ListFrom, c

LEMMA AvailableList ==
  ASSUME NEW r, r.route = "available"
  PROVE  EntranceOf(Checks(r), r, {"admin"})
<1> DEFINE e == Entrance(r, {"admin"})
           own == DirectoryChecks(r, FALSE)
           c == Checks(r)
<1>1. c = e \o own
  BY DEF Checks, AvailableChecks
<1>2. own \in Seq(ACheck)
  <2>1. /\ Check(r.directory = "failing", 500) \in ACheck
        /\ Check(r.directory = "malformed", 400) \in ACheck
        /\ Check(r.directory = "unknown" /\ FALSE, 422) \in ACheck
    BY DEF Check, ACheck
  <2> QED BY <2>1 DEF DirectoryChecks
<1>3. ListFrom(e, 3, r, {"admin"})
  BY EntranceAlone
<1> HIDE DEF e, own, c
<1>4. ListFrom(c, 3 + Len(own), r, {"admin"})
  BY <1>1, <1>2, <1>3, EntranceGrows, Zenon
<1> QED BY <1>4 DEF ListFrom, c

LEMMA ForceList ==
  ASSUME NEW r, r.route = "forceAssign"
  PROVE  LET c == Checks(r)
         IN  /\ EntranceOf(c, r, {"admin"}) /\ DOMAIN c = 1..10
             /\ c[4] = Check(r.orderId = "malformed", 400)
             /\ c[5] = Check(r.body = "invalid", 400)
             /\ c[6] = Check(r.directory = "failing", 500)
             /\ c[7] = Check(r.directory = "malformed", 400)
             /\ c[8] = Check(r.directory = "unknown" /\ TRUE, 422)
             /\ c[9] = Check(NotFound(r), 404)
             /\ c[10] = Check(ForceNotAllowed, 409)
<1> DEFINE e == Entrance(r, {"admin"})
           x4 == Check(r.orderId = "malformed", 400)
           x5 == Check(r.body = "invalid", 400)
           x6 == Check(r.directory = "failing", 500)
           x7 == Check(r.directory = "malformed", 400)
           x8 == Check(r.directory = "unknown" /\ TRUE, 422)
           x9 == Check(NotFound(r), 404)
           x10 == Check(ForceNotAllowed, 409)
           own == <<x4, x5>>
           dir == <<x6, x7, x8>>
           last == <<x9, x10>>
           f == e \o own
           g == f \o dir
           c == Checks(r)
<1>1. c = g \o last
  BY DEF Checks, ForceChecks, DirectoryChecks
<1>2. /\ x4 \in ACheck /\ x5 \in ACheck /\ x6 \in ACheck /\ x7 \in ACheck
      /\ x8 \in ACheck /\ x9 \in ACheck /\ x10 \in ACheck
  BY DEF Check, ACheck, NotFound, ForceNotAllowed
<1>3. ListFrom(e, 3, r, {"admin"})
  BY EntranceAlone
<1> HIDE DEF e, x4, x5, x6, x7, x8, x9, x10, c
<1>4. /\ own \in Seq(ACheck) /\ Len(own) = 2 /\ own[1] = x4 /\ own[2] = x5
      /\ dir \in Seq(ACheck) /\ Len(dir) = 3
      /\ dir[1] = x6 /\ dir[2] = x7 /\ dir[3] = x8
      /\ last \in Seq(ACheck) /\ Len(last) = 2 /\ last[1] = x9 /\ last[2] = x10
  BY <1>2
<1> HIDE DEF own, dir, last
<1>5. 5 = 3 + Len(own) /\ 8 = 5 + Len(dir) /\ 10 = 8 + Len(last)
  BY <1>4
<1>6. ListFrom(f, 5, r, {"admin"}) /\ Joined(f, e, 3, own)
  BY <1>3, <1>4, <1>5, EntranceGrows, Zenon
<1> HIDE DEF f
<1>7. ListFrom(g, 8, r, {"admin"}) /\ Joined(g, f, 5, dir)
  BY <1>4, <1>5, <1>6, EntranceGrows, Zenon
<1> HIDE DEF g
<1>8. ListFrom(c, 10, r, {"admin"}) /\ Joined(c, g, 8, last)
  BY <1>1, <1>4, <1>5, <1>7, EntranceGrows, Zenon
<1>9. f[4] = x4 /\ f[5] = x5
  BY <1>4, <1>6 DEF Joined
<1>10. g[4] = x4 /\ g[5] = x5 /\ g[6] = x6 /\ g[7] = x7 /\ g[8] = x8
  BY <1>4, <1>7, <1>9 DEF Joined
<1>11. /\ c[4] = x4 /\ c[5] = x5 /\ c[6] = x6 /\ c[7] = x7 /\ c[8] = x8
       /\ c[9] = x9 /\ c[10] = x10
  BY <1>4, <1>8, <1>10 DEF Joined
<1>12. EntranceOf(c, r, {"admin"}) /\ DOMAIN c = 1..10
  BY <1>8 DEF ListFrom
<1> QED BY <1>11, <1>12 DEF c, x4, x5, x6, x7, x8, x9, x10

(* Refusals of a caller with the right role.                               *)
LEMMA AcceptRefused ==
  ASSUME NEW c, c.role = "driver", c.user # Misnamed, created
  PROVE  LET answer == Answer(Asking("accept", c))
         IN  /\ NoActiveOffer => answer = 409
             /\ ~NoActiveOffer /\ NotOfferedDriver(c.user) => answer = 403
<1> DEFINE r == Asking("accept", c)
           l == Checks(r)
           b1 == r.body = "notJson"
           b2 == r.caller.role = "none"
           b3 == r.caller.role \notin {"driver"}
           b4 == r.orderId = "malformed"
           b5 == NotFound(r)
           b6 == r.caller.user = Misnamed
           b7 == NoActiveOffer
           b8 == NotOfferedDriver(r.caller.user)
<1>1. r.route = "accept" /\ r.body = "valid" /\ r.orderId = "existing" /\ r.caller = c
  BY DEF Asking, Request
<1>2. /\ b1 = FALSE /\ b2 = FALSE /\ b3 = FALSE /\ b4 = FALSE /\ b5 = FALSE /\ b6 = FALSE
      /\ b7 \in BOOLEAN /\ b8 \in BOOLEAN
  BY <1>1 DEF NotFound, NoActiveOffer, NotOfferedDriver
<1>3. b8 = NotOfferedDriver(c.user)
  BY <1>1
<1>40. l \in Seq(ACheck) /\ DOMAIN l = 1..8
  BY <1>1, AcceptList DEF EntranceOf
<1>4. /\ l[1] = Check(b1, 500) /\ l[2] = Check(b2, 401) /\ l[3] = Check(b3, 403)
      /\ l[4] = Check(b4, 400) /\ l[5] = Check(b5, 404) /\ l[6] = Check(b6, 500)
      /\ l[7] = Check(b7, 409) /\ l[8] = Check(b8, 403)
  BY <1>1, AcceptList DEF EntranceOf
<1> HIDE DEF r, l, b1, b2, b3, b4, b5, b6, b7, b8
<1>5. /\ l[1].fails = FALSE /\ l[2].fails = FALSE /\ l[3].fails = FALSE
      /\ l[4].fails = FALSE /\ l[5].fails = FALSE /\ l[6].fails = FALSE
      /\ l[7].fails = b7 /\ l[8].fails = b8
      /\ l[7].status = 409 /\ l[8].status = 403
  BY <1>2, <1>4 DEF Check
<1>6. ASSUME b7 = TRUE PROVE Answer(r) = 409
  <2>1. \A i \in DOMAIN l : i < 7 => l[i].fails = FALSE
    BY <1>40, <1>5
  <2>2. 7 \in DOMAIN l /\ l[7].fails = TRUE
    BY <1>40, <1>5, <1>6
  <2>3. Answer(r) = l[7].status
    BY <1>40, <2>1, <2>2, FirstDecides DEF l
  <2> QED BY <1>5, <2>3
<1>7. ASSUME b7 = FALSE, b8 = TRUE PROVE Answer(r) = 403
  <2>1. \A i \in DOMAIN l : i < 8 => l[i].fails = FALSE
    BY <1>40, <1>5, <1>7
  <2>2. 8 \in DOMAIN l /\ l[8].fails = TRUE
    BY <1>40, <1>5, <1>7
  <2>3. Answer(r) = l[8].status
    BY <1>40, <2>1, <2>2, FirstDecides DEF l
  <2> QED BY <1>5, <2>3
<1> QED BY <1>2, <1>3, <1>6, <1>7 DEF b7, b8, r

LEMMA ReadRefused ==
  ASSUME NEW c, c.role = "admin", ~created
  PROVE  Answer(Asking("assignment", c)) = 404
<1> DEFINE r == Asking("assignment", c)
           l == Checks(r)
           b1 == r.body = "notJson"
           b2 == r.caller.role = "none"
           b3 == r.caller.role \notin {"customer", "driver", "admin"}
           b4 == r.orderId = "malformed"
           b5 == NotFound(r)
<1>1. r.route = "assignment" /\ r.body = "valid" /\ r.orderId = "existing" /\ r.caller = c
  BY DEF Asking, Request
<1>2. b1 = FALSE /\ b2 = FALSE /\ b3 = FALSE /\ b4 = FALSE /\ b5 = TRUE
  BY <1>1 DEF NotFound
<1>30. l \in Seq(ACheck) /\ DOMAIN l = 1..6
  BY <1>1, GetList DEF EntranceOf
<1>3. /\ l[1] = Check(b1, 500) /\ l[2] = Check(b2, 401) /\ l[3] = Check(b3, 403)
      /\ l[4] = Check(b4, 400) /\ l[5] = Check(b5, 404)
  BY <1>1, GetList DEF EntranceOf
<1> HIDE DEF r, l, b1, b2, b3, b4, b5
<1>4. /\ l[1].fails = FALSE /\ l[2].fails = FALSE /\ l[3].fails = FALSE
      /\ l[4].fails = FALSE /\ l[5].fails = TRUE /\ l[5].status = 404
  BY <1>2, <1>3 DEF Check
<1>5. \A i \in DOMAIN l : i < 5 => l[i].fails = FALSE
  BY <1>30, <1>4
<1>6. 5 \in DOMAIN l /\ l[5].fails = TRUE
  BY <1>30, <1>4
<1>7. Answer(r) = l[5].status
  BY <1>30, <1>5, <1>6, FirstDecides DEF l
<1> QED BY <1>4, <1>7 DEF r

LEMMA ReadForbidden ==
  ASSUME NEW c, c.role = "driver", created, ~MayRead(c)
  PROVE  Answer(Asking("assignment", c)) = 403
<1> DEFINE r == Asking("assignment", c)
           l == Checks(r)
           b1 == r.body = "notJson"
           b2 == r.caller.role = "none"
           b3 == r.caller.role \notin {"customer", "driver", "admin"}
           b4 == r.orderId = "malformed"
           b5 == NotFound(r)
           b6 == ~MayRead(r.caller)
<1>1. r.route = "assignment" /\ r.body = "valid" /\ r.orderId = "existing" /\ r.caller = c
  BY DEF Asking, Request
<1>2. b1 = FALSE /\ b2 = FALSE /\ b3 = FALSE /\ b4 = FALSE /\ b5 = FALSE /\ b6 = TRUE
  BY <1>1 DEF NotFound, MayRead
<1>30. l \in Seq(ACheck) /\ DOMAIN l = 1..6
  BY <1>1, GetList DEF EntranceOf
<1>3. /\ l[1] = Check(b1, 500) /\ l[2] = Check(b2, 401) /\ l[3] = Check(b3, 403)
      /\ l[4] = Check(b4, 400) /\ l[5] = Check(b5, 404) /\ l[6] = Check(b6, 403)
  BY <1>1, GetList DEF EntranceOf
<1> HIDE DEF r, l, b1, b2, b3, b4, b5, b6
<1>4. /\ l[1].fails = FALSE /\ l[2].fails = FALSE /\ l[3].fails = FALSE
      /\ l[4].fails = FALSE /\ l[5].fails = FALSE /\ l[6].fails = TRUE
      /\ l[6].status = 403
  BY <1>2, <1>3 DEF Check
<1>5. \A i \in DOMAIN l : i < 6 => l[i].fails = FALSE
  BY <1>30, <1>4
<1>6. 6 \in DOMAIN l /\ l[6].fails = TRUE
  BY <1>30, <1>4
<1>7. Answer(r) = l[6].status
  BY <1>30, <1>5, <1>6, FirstDecides DEF l
<1> QED BY <1>4, <1>7 DEF r

LEMMA ForceRefused ==
  ASSUME NEW r, r.route = "forceAssign", r.caller.role = "admin", r.orderId = "existing"
  PROVE  /\ r.body = "invalid" => Answer(r) = 400
         /\ r.body = "valid" /\ r.directory = "unknown" => Answer(r) = 422
         /\ r.body = "valid" /\ r.directory = "known" /\ created
            /\ order.status = "assigned" => Answer(r) = 409
<1> DEFINE l == Checks(r)
           b1 == r.body = "notJson"
           b2 == r.caller.role = "none"
           b3 == r.caller.role \notin {"admin"}
           b4 == r.orderId = "malformed"
           b5 == r.body = "invalid"
           b6 == r.directory = "failing"
           b7 == r.directory = "malformed"
           b8 == r.directory = "unknown" /\ TRUE
           b9 == NotFound(r)
           b10 == ForceNotAllowed
<1>10. l \in Seq(ACheck) /\ DOMAIN l = 1..10
  BY ForceList DEF EntranceOf
<1>1. /\ l[1] = Check(b1, 500) /\ l[2] = Check(b2, 401) /\ l[3] = Check(b3, 403)
      /\ l[4] = Check(b4, 400) /\ l[5] = Check(b5, 400)
  <2>1. EntranceOf(l, r, {"admin"})
    BY ForceList
  <2>2. l[4] = Check(b4, 400) /\ l[5] = Check(b5, 400)
    BY ForceList
  <2> QED BY <2>1, <2>2 DEF EntranceOf
<1>11. /\ l[6] = Check(b6, 500)
       /\ l[7] = Check(b7, 400) /\ l[8] = Check(b8, 422) /\ l[9] = Check(b9, 404)
       /\ l[10] = Check(b10, 409)
  BY ForceList
<1>2. /\ b2 = FALSE /\ b3 = FALSE /\ b4 = FALSE
      /\ r.body = "invalid" => b1 = FALSE /\ b5 = TRUE
      /\ r.body = "valid" => b1 = FALSE /\ b5 = FALSE
      /\ r.directory = "unknown" => b6 = FALSE /\ b7 = FALSE /\ b8 = TRUE
      /\ r.directory = "known" => b6 = FALSE /\ b7 = FALSE /\ b8 = FALSE
      /\ created => b9 = FALSE
      /\ order.status = "assigned" => b10 = TRUE
  BY DEF NotFound, ForceNotAllowed
<1> HIDE DEF l, b1, b2, b3, b4, b5, b6, b7, b8, b9, b10
<1>3. /\ l[1].fails = b1 /\ l[2].fails = b2 /\ l[3].fails = b3 /\ l[4].fails = b4
      /\ l[5].fails = b5 /\ l[6].fails = b6 /\ l[7].fails = b7 /\ l[8].fails = b8
      /\ l[9].fails = b9 /\ l[10].fails = b10
      /\ l[5].status = 400 /\ l[8].status = 422 /\ l[10].status = 409
  BY <1>1, <1>11 DEF Check
<1>4. ASSUME r.body = "invalid" PROVE Answer(r) = 400
  <2>1. \A i \in DOMAIN l : i < 5 => l[i].fails = FALSE
    BY <1>10, <1>2, <1>3, <1>4
  <2>2. 5 \in DOMAIN l /\ l[5].fails = TRUE
    BY <1>10, <1>2, <1>3, <1>4
  <2>3. Answer(r) = l[5].status
    BY <1>10, <2>1, <2>2, FirstDecides DEF l
  <2> QED BY <1>3, <2>3
<1>5. ASSUME r.body = "valid", r.directory = "unknown" PROVE Answer(r) = 422
  <2>1. \A i \in DOMAIN l : i < 8 => l[i].fails = FALSE
    BY <1>10, <1>2, <1>3, <1>5
  <2>2. 8 \in DOMAIN l /\ l[8].fails = TRUE
    BY <1>10, <1>2, <1>3, <1>5
  <2>3. Answer(r) = l[8].status
    BY <1>10, <2>1, <2>2, FirstDecides DEF l
  <2> QED BY <1>3, <2>3
<1>6. ASSUME r.body = "valid", r.directory = "known", created, order.status = "assigned"
      PROVE  Answer(r) = 409
  <2>1. \A i \in DOMAIN l : i < 10 => l[i].fails = FALSE
    BY <1>10, <1>2, <1>3, <1>6
  <2>2. 10 \in DOMAIN l /\ l[10].fails = TRUE
    BY <1>10, <1>2, <1>3, <1>6
  <2>3. Answer(r) = l[10].status
    BY <1>10, <2>1, <2>2, FirstDecides DEF l
  <2> QED BY <1>3, <2>3
<1>7. r.body = "invalid" => Answer(r) = 400
  BY <1>4
<1>8. r.body = "valid" /\ r.directory = "unknown" => Answer(r) = 422
  BY <1>5
<1>9. r.body = "valid" /\ r.directory = "known" /\ created /\ order.status = "assigned"
        => Answer(r) = 409
  BY <1>6
<1> QED BY <1>7, <1>8, <1>9

(* The answers the testing guide tabulates are those the layers of checks  *)
(* give, whatever drivers and bounds there are.                            *)
THEOREM HttpDocumentedAnswers == HttpSpec => []DocumentedAnswers
<1>1. IInv => DocumentedAnswers
  <2> SUFFICES ASSUME IInv PROVE DocumentedAnswers
    OBVIOUS
  <2>1. ASSUME NEW c \in Callers, NEW route
        PROVE  LET r == Asking(route, c)
               IN  r.route = route /\ r.caller = c /\ r.body # "notJson"
    BY DEF Asking, Request
  <2>2. ASSUME NEW c \in Callers, c = Anonymous,
               NEW route \in {"accept", "reject", "assignment", "currentOffer",
                              "available"}
        PROVE  Answer(Asking(route, c)) = 401
    <3> DEFINE r == Asking(route, c)
    <3>1. r.route = route /\ r.body # "notJson" /\ r.caller.role = "none"
      BY <2>1, <2>2 DEF Anonymous
    <3> HIDE DEF r
    <3>2. \E roles : EntranceOf(Checks(r), r, roles)
      BY <3>1, AcceptList, RejectList, GetList, CurrentOfferList, AvailableList
    <3>3. Answer(r) = 401
      BY <3>1, <3>2, EntranceAnswers
    <3> QED BY <3>3 DEF r
  <2>3. ASSUME NEW c \in Callers, c.role = "customer"
        PROVE  Answer(Asking("accept", c)) = 403
    <3> DEFINE r == Asking("accept", c)
    <3>1. r.route = "accept" /\ r.body # "notJson" /\ r.caller.role = "customer"
      BY <2>1, <2>3
    <3> HIDE DEF r
    <3>2. EntranceOf(Checks(r), r, {"driver"})
      BY <3>1, AcceptList
    <3>3. Answer(r) = 403
      BY <3>1, <3>2, EntranceAnswers
    <3> QED BY <3>3 DEF r
  <2>4. ASSUME NEW c \in Callers, c.role = "driver", c.user # Misnamed, created
        PROVE  /\ order.status # "offered" => Answer(Asking("accept", c)) = 409
               /\ order.status = "offered" /\ ~OfferedForDriver(c.user)
                    => Answer(Asking("accept", c)) = 403
    <3>1. order.status = "offered" /\ ~OfferedForDriver(c.user) => NotOfferedDriver(c.user)
      BY <2>4, PendingIsLast DEF CanRespond, NotOfferedDriver
    <3> QED BY <2>4, <3>1, AcceptRefused DEF NoActiveOffer
  <2>5. ASSUME NEW c \in Callers, c.role \in {"customer", "driver"}
        PROVE  Answer(Asking("available", c)) = 403
    <3> DEFINE r == Asking("available", c)
    <3>1. r.route = "available" /\ r.body # "notJson" /\ r.caller.role \in {"customer", "driver"}
      BY <2>1, <2>5
    <3> HIDE DEF r
    <3>2. EntranceOf(Checks(r), r, {"admin"})
      BY <3>1, AvailableList
    <3>3. Answer(r) = 403
      BY <3>1, <3>2, EntranceAnswers
    <3> QED BY <3>3 DEF r
  <2>6. ASSUME NEW c \in Callers, c.role = "admin", ~created
        PROVE  Answer(Asking("assignment", c)) = 404
    BY <2>6, ReadRefused
  <2>7. ASSUME NEW c \in Callers, c.role = "driver", created, ~Involved(c.user)
         PROVE  Answer(Asking("assignment", c)) = 403
    <3>1. order.attempts # <<>> => Len(order.attempts) \in DOMAIN order.attempts
      BY DEF IInv, TypeOK, Aggregate
    <3>2. ~MayRead(c)
      BY <2>7, <3>1 DEF MayRead, CurrentAttempt, Involved
    <3> QED BY <2>7, <3>2, ReadForbidden
  <2>8. ASSUME NEW r \in ForceRequests
        PROVE  r.route = "forceAssign" /\ EntranceOf(Checks(r), r, {"admin"})
    <3>1. r.route = "forceAssign"
      BY <2>8 DEF ForceRequests, Request
    <3> QED BY <3>1, ForceList
  <2>9. ASSUME NEW r \in ForceRequests, r.caller.role \in {"customer", "driver"},
               r.body # "notJson"
        PROVE  Answer(r) = 403
    BY <2>8, <2>9, EntranceAnswers
  <2>10. ASSUME NEW r \in ForceRequests, r.caller = Anonymous, r.body # "notJson"
         PROVE  Answer(r) = 401
    BY <2>8, <2>10, EntranceAnswers DEF Anonymous
  <2>11. ASSUME NEW r \in ForceRequests, r.caller.role = "admin", r.orderId = "existing"
        PROVE  /\ r.body = "invalid" => Answer(r) = 400
               /\ r.body = "valid" /\ r.directory = "unknown" => Answer(r) = 422
               /\ r.body = "valid" /\ r.directory = "known" /\ created
                  /\ order.status = "assigned" => Answer(r) = 409
    BY <2>8, <2>11, ForceRefused
  <2> QED BY <2>2, <2>3, <2>4, <2>5, <2>6, <2>7, <2>9, <2>10, <2>11 DEF DocumentedAnswers
<1> QED BY <1>1, HttpKeepsInvariant, PTL
=============================================================================
