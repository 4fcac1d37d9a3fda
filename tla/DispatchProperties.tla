------------------------- MODULE DispatchProperties -------------------------
(***************************************************************************)
(* What the dispatch service should guarantee, stated about Dispatch.  The *)
(* first group holds while one handler runs at a time, the second one      *)
(* under every interleaving, fault and crash, the third is what the        *)
(* documentation says and the code does not do.                            *)
(***************************************************************************)
EXTENDS Dispatch

Exists(o) == row[o] # NoRow

(* No handler runs.                                                        *)
Quiet == \A s \in Slots : slot[s] = Idle

(* The driver an order occupies: of its pending offer, or assigned to it.  *)
Engaged(o) ==
  IF ~Exists(o) THEN {}
  ELSE IF row[o].status = "assigned" THEN {row[o].assigned}
  ELSE IF row[o].status = "offered"
       THEN {x.driver : x \in {y \in atts[o] : y.outcome = "offered"}}
  ELSE {}

-----------------------------------------------------------------------------
(* One handler at a time.                                                  *)

(* No driver is lost: whoever is busy is on an offer or on a delivery      *)
(* (driver-pool.ts:15, README.md:62).                                      *)
NoDriverLost ==
  Quiet => busy \subseteq UNION {Engaged(o) : o \in Orders}

(* A driver nobody forces is engaged by one order at most, and is busy     *)
(* while engaged.                                                          *)
OneOrderPerDriver ==
  Quiet => \A d \in Drivers \ Directory, o, p \in Orders :
             /\ d \in Engaged(o) => d \in busy
             /\ d \in Engaged(o) /\ d \in Engaged(p) => o = p

(* An offer that is out has a timer that will end it: some expiry message  *)
(* with the number of the current attempt is still under way.              *)
OfferHasTimer ==
  Quiet => \A o \in Orders : Exists(o) /\ row[o].status = "offered" =>
             \E m \in holding :
               /\ m.type = "dispatch.offer.expired"
               /\ m.order = o
               /\ m.no = row[o].offerAttempts

(* What was announced is what is saved: a driver is the one in the order's *)
(* row, and of an order that failed MaxAttempts different drivers have     *)
(* declined (README.md:26-27).                                             *)
ToldAsSaved ==
  \A o \in Orders : \A i \in DOMAIN told[o] :
    /\ told[o][i].type = "driver.assigned" =>
         Exists(o) /\ row[o].assigned = told[o][i].driver
    /\ Quiet /\ told[o][i].type = "assignment.failed" =>
         Cardinality({x.driver : x \in {y \in atts[o] : y.outcome \in Declined}})
           >= MaxAttempts

(* Each order as OrderLifecycle sees it.  A change counts from the moment  *)
(* its row is written.                                                     *)
SavingSlots(o) == {s \in Slots : slot[s].order = o /\ slot[s].pc = "atts"}

View(o) ==
  IF ~Exists(o) THEN NewAssignment
  ELSE IF SavingSlots(o) # {} THEN slot[CHOOSE s \in SavingSlots(o) : TRUE].a
  ELSE CHOOSE a \in ById(o) : TRUE

Announcing(o) ==
  {s \in Slots : slot[s].order = o /\ slot[s].pc \in {"atts", "mark", "publish"}}

Announced(o) ==
  IF Announcing(o) = {} THEN told[o]
  ELSE told[o] \o Raised(slot[CHOOSE s \in Announcing(o) : TRUE].a)

Lifecycle(o) == INSTANCE OrderLifecycle
                WITH created <- Exists(o), order <- View(o),
                     events <- Announced(o)

(* One handler at a time, every order lives as OrderLifecycle says, so all *)
(* that is proved of OrderLifecycle holds of each order of the service:    *)
(* \A o \in Orders : Lifecycle(o)!Spec, in the form TLC can check.         *)
EachOrderLives ==
  /\ \A o \in Orders : Lifecycle(o)!Init
  /\ [][\A o \in Orders : [Lifecycle(o)!Next]_(Lifecycle(o)!vars)]_vars
-----------------------------------------------------------------------------
(* Any number of handlers, faults and crashes.                             *)

(* An announced driver was in the order's row before: publishing comes     *)
(* after saving (README.md:27).                                            *)
SavedBeforeTold ==
  \A o \in Orders : \A i \in DOMAIN told[o] :
    told[o][i].type = "driver.assigned" => told[o][i].driver \in given[o]

(* The step by which the event of the handler in slot s takes effect: the  *)
(* delivery of a creation or of a change of availability (the pool follows *)
(* it), the commit of a completion or a cancellation.                      *)
Applies(s) ==
  /\ slot'[s].entry # NoEntry
  /\ \/ slot[s] = Idle /\ slot'[s].kind \in {"created", "availability"}
     \/ slot[s].pc = "commit" /\ slot'[s].pc # "commit"

AppliesAsRecorded ==
  /\ processed \subseteq processed'
  /\ \A s \in Slots : Applies(s) =>
       /\ slot'[s].entry.msg \in processed' \ processed
       /\ \A t \in Slots : Applies(t) => t = s

(* An event is applied only in the step that first records it, by one      *)
(* handler, and what is recorded stays recorded.  So it is applied at most *)
(* once ever: neither a delivery that overlaps the first nor one after it, *)
(* after a failure or a restart included, applies it again (README.md:48,  *)
(* docs/manual-testing-guide.md:258).                                      *)
EventAppliedOnce == [][AppliesAsRecorded]_vars

(* No event is lost: once delivered it is processed, being handled,        *)
(* waiting to be delivered again, or in the dead-letter queue              *)
(* (dispatch-events-consumer.ts:64-77).                                    *)
NoEventLost ==
  \A m \in sent :
    \/ m \in processed \cup dead
    \/ \E e \in queue : e.msg = m
    \/ \E s \in Slots : slot[s].entry # NoEntry /\ slot[s].entry.msg = m

(* Retrying ends: every event is processed or given up after MaxRetries.   *)
EventsSettle == []<>(sent \subseteq processed \cup dead)

(* An offer that is out and whose timer was sent does not stay unanswered  *)
(* for ever, whatever fails or crashes and whether or not its driver ever  *)
(* answers: it ends, or its expiry message is in the dead-letter queue     *)
(* (README.md:25).                                                         *)
OfferOut(o, n) ==
  Exists(o) /\ row[o].status = "offered" /\ row[o].offerAttempts = n

TimerIn(o, n, msgs) ==
  \E m \in msgs : m.type = "dispatch.offer.expired" /\ m.order = o /\ m.no = n

TimedOfferEnds ==
  \A o \in Orders, n \in 1..MaxOffers :
    OfferOut(o, n) /\ TimerIn(o, n, holding)
      ~> ~OfferOut(o, n) \/ TimerIn(o, n, dead)
-----------------------------------------------------------------------------
(* What the documentation says and the code does not do.                   *)

(* No message is being handled or waits to be retried.                     *)
Settled == Quiet /\ queue = {}

(* A parked order is dispatched as drivers become available: none stays    *)
(* parked while a free driver that did not decline it waits                *)
(* (README.md:26, dispatch-order.use-case.ts:47).                          *)
ParkedOrderGetsFreeDriver ==
  Settled => \A o \in Orders : Exists(o) /\ row[o].status = "awaiting_driver" =>
    \A d \in Pool!Free :
      \E x \in atts[o] : x.driver = d /\ x.outcome \in Declined

(* The busy key holds the drivers on an offer or a delivery, and so no     *)
(* such driver is available for another order (README.md:61-62).           *)
EngagedDriverIsBusy ==
  Settled => \A o \in Orders : Engaged(o) \subseteq busy

(* dispatch.driver.assigned is published only once per assignment          *)
(* (README.md:27).                                                         *)
AssignedToldOnce ==
  \A o \in Orders : \A i, j \in DOMAIN told[o] :
    /\ told[o][i].type = "driver.assigned"
    /\ told[o][j].type = "driver.assigned"
    => i = j

(* Consumers tolerate out-of-order delivery: an order whose cancellation   *)
(* was processed is not with a driver (README.md:48).                      *)
CancelledOrderHasNoDriver ==
  Settled => \A o \in Orders :
    [type |-> "order.cancelled", order |-> o] \in processed => Engaged(o) = {}

(* delivery.completed and order.cancelled free the driver (README.md:46):  *)
(* no driver of a completed or cancelled order stays busy with no other    *)
(* order to work on.                                                       *)
ClosedOrderFreesDriver ==
  Settled => \A o \in Orders :
    Exists(o) /\ row[o].status \in {"completed", "cancelled"} =>
      (given[o] \cup {x.driver : x \in atts[o]}) \cap busy
        \subseteq UNION {Engaged(p) : p \in Orders}

(* An unanswered offer expires (README.md:25): its timer is under way.     *)
OfferExpires ==
  Settled => \A o \in Orders : Exists(o) /\ row[o].status = "offered" =>
    \E m \in holding : m.order = o /\ m.no = row[o].offerAttempts
=============================================================================
