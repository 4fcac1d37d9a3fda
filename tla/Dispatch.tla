------------------------------ MODULE Dispatch ------------------------------
(***************************************************************************)
(* The dispatch service at work: the use cases of                          *)
(* src/src/application/dispatch run concurrently over the assignment       *)
(* tables, the driver pool, the work queue and the offer-expiry queue.     *)
(*                                                                         *)
(* A handler runs in a slot, and every awaited operation is one step, so   *)
(* handlers interleave exactly where the code awaits.  The first operation *)
(* of a handler is part of the step that starts it.  A request or message  *)
(* whose guard fails changes nothing; such a request is not a step, such a *)
(* message is a step that only takes it off the queue.                     *)
(*                                                                         *)
(* Messages may arrive in any order, so how long one waits is not part of  *)
(* the state: an event is sent and delivered in one step, at any time      *)
(* after its cause, and a timer may be due at any time.  The work queue    *)
(* holds what is delivered again: retries, and what a crash left           *)
(* unacknowledged.                                                         *)
(*                                                                         *)
(* Not under src/: the producers of order, delivery and driver events, the *)
(* broker and the HTTP clients, modelled from how the service uses them.   *)
(***************************************************************************)
EXTENDS Assignment, FiniteSets

CONSTANTS Orders, Slots,
          Directory,    \* drivers the user service knows (force-assign)
          NoRow, NoEntry,
          MaxAttempts,  \* DISPATCH_MAX_ATTEMPTS
          ParkLimit,    \* parked orders retried at once (50 in the source)
          MaxRetries,   \* x-attempt at which a message is dead-lettered (3)
          MaxOffers,    \* bound: attempt ids per order
          MaxToggles,   \* bound: availability changes per driver
          MaxDups,      \* bound: events a producer delivers again
          MaxFaults,    \* bound: operations that throw
          MaxCrashes    \* bound: process crashes

ASSUME DispatchAssumption ==
  /\ Directory \subseteq Drivers
  /\ MaxAttempts \in Nat \ {0}
  /\ ParkLimit \in Nat \ {0}
  /\ {MaxRetries, MaxOffers, MaxToggles, MaxDups, MaxFaults, MaxCrashes}
       \subseteq Nat

VARIABLES
  row,        \* assignments table: order -> row or NoRow
  atts,       \* assignment_attempts table: order -> set of attempts
  arrival,    \* orders by created_at
  minted,     \* attempt ids handed out, per order
  processed,  \* processed_events table
  willing, busy,  \* the driver pool
  queue,      \* work queue: entries to deliver again
  holding,    \* offer-expiry queue: expirations
  dead,       \* dead-letter queue
  told,       \* events published, per order
  given,      \* history: drivers the order's row ever named
  slot,       \* running handlers
  sent,       \* producer events delivered so far
  dups, faults, crashes

db    == <<row, atts, arrival, minted, processed, given>>
pool  == <<willing, busy>>
env   == <<sent, dups, faults, crashes>>
vars  == <<db, pool, queue, holding, dead, told, slot, env>>

Pool == INSTANCE DriverPool
-----------------------------------------------------------------------------
(* Messages.  Two deliveries of one event are the same record, which       *)
(* stands for its eventId; an expiration carries the attempt's id only so  *)
(* that two of them can be told apart.                                     *)
OrderEvent == [type: {"order.created", "order.cancelled", "delivery.completed"},
               order: Orders]
DriverEvent == [type: {"driver.availability.changed"}, driver: Drivers,
                n: 1..MaxToggles, isAvailable: BOOLEAN]
Expiration == [type: {"dispatch.offer.expired"}, order: Orders,
               no: 1..MaxOffers, id: 1..MaxOffers]
Message == OrderEvent \cup DriverEvent \cup Expiration
Entry == [msg: Message, tries: 0..MaxRetries]  \* tries is x-attempt

ASSUME NoEntryAssumption == NoEntry \notin Entry

Row == [status: Statuses, assigned: Drivers \cup {NoDriver}, offerAttempts: Nat]

ASSUME NoRowAssumption == NoRow \notin Row

PCs == {"idle", "row", "atts", "commit", "free", "recheck", "load", "claim",
        "schedule", "pool", "parked", "mark", "publish", "ack"}

Kinds == {"none", "accept", "reject", "force", "created", "availability",
          "complete", "cancel", "expire"}

Handler == [pc: PCs, kind: Kinds, entry: Entry \cup {NoEntry},
            order: Orders \cup {NoRow}, driver: Drivers \cup {NoDriver},
            a: Aggregate, todo: Seq(Orders)]

TypeOK ==
  /\ row \in [Orders -> Row \cup {NoRow}]
  /\ \A o \in Orders : atts[o] \subseteq Attempt
  /\ arrival \in Seq(Orders)
  /\ minted \in [Orders -> 0..MaxOffers]
  /\ processed \subseteq Message
  /\ Pool!PoolTypeOK
  /\ queue \subseteq Entry
  /\ holding \subseteq Expiration
  /\ dead \subseteq Message
  /\ told \in [Orders -> Seq(Event)]
  /\ given \in [Orders -> SUBSET Drivers]
  /\ slot \in [Slots -> Handler]
  /\ sent \subseteq Message
  /\ dups \in 0..MaxDups
  /\ faults \in 0..MaxFaults
  /\ crashes \in 0..MaxCrashes

Idle == [pc |-> "idle", kind |-> "none", entry |-> NoEntry, order |-> NoRow,
         driver |-> NoDriver, a |-> NewAssignment, todo |-> <<>>]

Init ==
  /\ row = [o \in Orders |-> NoRow]
  /\ atts = [o \in Orders |-> {}]
  /\ arrival = <<>>
  /\ minted = [o \in Orders |-> 0]
  /\ processed = {}
  /\ Pool!PoolInit
  /\ queue = {}
  /\ holding = {}
  /\ dead = {}
  /\ told = [o \in Orders |-> <<>>]
  /\ given = [o \in Orders |-> {}]
  /\ slot = [s \in Slots |-> Idle]
  /\ sent = {}
  /\ dups = 0
  /\ faults = 0
  /\ crashes = 0
-----------------------------------------------------------------------------
(* The repository.  byId sorts the attempts by number and leaves the order *)
(* of equal numbers to the database.                                       *)
SortedAttempts(S) ==
  {q \in [1..Cardinality(S) -> S] :
     /\ \A x \in S : \E i \in DOMAIN q : q[i] = x
     /\ \A i, j \in DOMAIN q : i < j => q[i].no <= q[j].no}

ById(o) ==
  IF row[o] = NoRow THEN {}
  ELSE {[status |-> row[o].status, assigned |-> row[o].assigned,
         offerAttempts |-> row[o].offerAttempts, attempts |-> q] :
           q \in SortedAttempts(atts[o])}

RowOf(a) == [status |-> a.status, assigned |-> a.assigned,
             offerAttempts |-> a.offerAttempts]

(* The upsert of the row: every column is written.                         *)
UpsertRow(o, a) ==
  /\ row' = [row EXCEPT ![o] = RowOf(a)]
  /\ given' = [given EXCEPT ![o] = @ \cup ({a.assigned} \ {NoDriver})]

(* Mutation: an attempt is only inserted, its answer never written.        *)
UpsertAttemptsOnce(o, a) ==
  atts' = [atts EXCEPT ![o] =
             @ \cup {x \in {a.attempts[i] : i \in DOMAIN a.attempts} :
                       \A y \in @ : y.id # x.id}]

(* The upserts of the attempts: a known one gets the aggregate's outcome.  *)
UpsertAttempts(o, a) ==
  LET saved == {a.attempts[i] : i \in DOMAIN a.attempts} IN
  atts' = [atts EXCEPT ![o] =
             {x \in @ : \A y \in saved : y.id # x.id} \cup saved]

Older(o, p) ==
  \E i, j \in DOMAIN arrival : i < j /\ arrival[i] = o /\ arrival[j] = p

(* The query of the parked orders: each once, none before an older one.    *)
AwaitingOldestFirst ==
  LET awaiting == {o \in Orders : row[o] # NoRow /\ row[o].status = "awaiting_driver"}
      n == Cardinality(awaiting)
      taken == IF n < ParkLimit THEN n ELSE ParkLimit
  IN  {q \in [1..taken -> awaiting] :
         \A i \in 1..taken :
           /\ \A j \in 1..taken : q[j] = q[i] => j = i
           /\ \A o \in awaiting : Older(o, q[i]) => \E j \in 1..(i - 1) : q[j] = o}
-----------------------------------------------------------------------------
(* Control.                                                                *)
Become(s, r) == slot' = [slot EXCEPT ![s] = r]

(* A handler that is done acknowledges its message or answers its request. *)
Done(r) == IF r.entry = NoEntry THEN Idle
           ELSE [Idle EXCEPT !.pc = "ack", !.kind = r.kind, !.entry = r.entry]

(* The next order of retryParked, or the end.                              *)
NextOrder(r) ==
  IF r.todo = <<>> THEN Done(r)
  ELSE [r EXCEPT !.pc = "load", !.order = Head(r.todo), !.todo = Tail(r.todo),
                 !.driver = NoDriver, !.a = NewAssignment]

(* The events the aggregate pushed and the handler will pull.              *)
Raised(a) == CASE a.status = "assigned" -> <<DriverAssigned(a.assigned)>>
               [] a.status = "failed"   -> <<AssignmentFailed>>
               [] OTHER                 -> <<>>

(* What follows save(): publish, mark busy, free or schedule.              *)
AfterSave(r) ==
  [r EXCEPT !.pc = CASE r.a.status = "offered"  -> "schedule"
                     [] r.a.status = "failed"   -> "publish"
                     [] r.a.status = "assigned" ->
                          IF r.kind = "force" THEN "mark" ELSE "publish"
                     [] OTHER                   -> "free"]

Starting(s, kind, o, d, a) ==
  Become(s, [Idle EXCEPT !.pc = "row", !.kind = kind, !.order = o,
                         !.driver = d, !.a = a])

(* The events whose cause exists: an order is created once and cancelled   *)
(* at most once, a delivery completes after its driver was announced,      *)
(* drivers turn willing and unwilling in turn.                             *)
Toggles(d) == {m \in sent : m.type = "driver.availability.changed" /\ m.driver = d}

Arriving ==
  {[type |-> "order.created", order |-> o] : o \in Orders}
  \cup {[type |-> "order.cancelled", order |-> o] : o \in Orders}
  \cup {[type |-> "delivery.completed", order |-> o] :
           o \in {p \in Orders : \E i \in DOMAIN told[p] :
                                  told[p][i].type = "driver.assigned"}}
  \cup {[type |-> "driver.availability.changed", driver |-> d,
         n |-> Cardinality(Toggles(d)) + 1,
         isAvailable |-> Cardinality(Toggles(d)) % 2 = 0] :
           d \in {e \in Drivers : Cardinality(Toggles(e)) < MaxToggles}}

(* The entry leaves the broker: a new event, a repeated one, one put back, *)
(* or a timer that is due.  Again is what goes back to the queue at once.  *)
Take(e, again) ==
  \/ /\ e.tries = 0 /\ e.msg \in Arriving \ sent
     /\ sent' = sent \cup {e.msg}
     /\ queue' = queue \cup again
     /\ UNCHANGED <<holding, dups>>
  \/ /\ e.tries = 0 /\ e.msg \in sent
     /\ dups < MaxDups
     /\ dups' = dups + 1
     /\ queue' = queue \cup again
     /\ UNCHANGED <<holding, sent>>
  \/ /\ e \in queue
     /\ queue' = (queue \ {e}) \cup again
     /\ UNCHANGED <<holding, sent, dups>>
  \/ /\ e.tries = 0 /\ e.msg \in holding
     /\ holding' = holding \ {e.msg}
     /\ queue' = queue \cup again
     /\ UNCHANGED <<sent, dups>>

Deliverable ==
  queue \cup {[msg |-> m, tries |-> 0] : m \in Arriving \cup sent \cup holding}

(* Mutations: x-attempt is not looked at; a message is dropped instead of  *)
(* being tried again.                                                      *)
AgainForever(e) == {[e EXCEPT !.tries = @ + 1]}
AgainNever(e)   == {x \in {e} : x.tries > MaxRetries}

(* The catch clause of the consumer: publish again with x-attempt + 1, or  *)
(* give the message up.                                                    *)
Again(e)  == IF e.tries < MaxRetries THEN {[e EXCEPT !.tries = @ + 1]} ELSE {}
Buried(e) == IF e.tries < MaxRetries THEN {} ELSE {e.msg}

(* Mutation: every event is taken for a new one.                           *)
IsNewAlways(m) == m \in Message

(* recordIfNew: the event has no row in processed_events.                  *)
IsNew(m) == m \notin processed

(* A second transaction that inserts the same event waits for the first.   *)
NoOtherTx(m) ==
  \A t \in Slots : slot[t].pc = "commit" => slot[t].entry.msg # m
-----------------------------------------------------------------------------
(* Requests.                                                               *)
(* Mutation: the acceptance is announced instead of saved.                 *)
AcceptOfferUnsaved(s, o, d) ==
  /\ slot[s] = Idle
  /\ \E a \in ById(o) :
       /\ CanRespond(a, d)
       /\ Become(s, [Idle EXCEPT !.pc = "publish", !.kind = "accept",
                       !.order = o, !.driver = d, !.a = Accept(a, d)])
  /\ UNCHANGED <<db, pool, queue, holding, dead, told, env>>

AcceptOffer(s, o, d) ==
  /\ slot[s] = Idle
  /\ \E a \in ById(o) :
       /\ CanRespond(a, d)
       /\ Starting(s, "accept", o, d, Accept(a, d))
  /\ UNCHANGED <<db, pool, queue, holding, dead, told, env>>

RejectOffer(s, o, d) ==
  /\ slot[s] = Idle
  /\ \E a \in ById(o) :
       /\ CanRespond(a, d)
       /\ Starting(s, "reject", o, d, RejectByDriver(a))
  /\ UNCHANGED <<db, pool, queue, holding, dead, told, env>>

ForceAssignOrder(s, o, d) ==
  /\ slot[s] = Idle
  /\ d \in Directory
  /\ \E a \in ById(o) :
       /\ CanForce(a)
       /\ Starting(s, "force", o, d, ForceAssign(a, d))
  /\ UNCHANGED <<db, pool, queue, holding, dead, told, env>>
-----------------------------------------------------------------------------
(* Messages.                                                               *)

(* HandleOrderCreated: one transaction records the event and the order.    *)
DeliverCreated(s, e) ==
  /\ e.msg.type = "order.created"
  /\ \/ ~IsNew(e.msg) /\ UNCHANGED <<db, slot>>
     \/ /\ IsNew(e.msg)
        /\ processed' = processed \cup {e.msg}
        /\ UpsertRow(e.msg.order, NewAssignment)
        /\ arrival' = Append(arrival, e.msg.order)
        /\ Become(s, [Idle EXCEPT !.pc = "load", !.kind = "created",
                                  !.entry = e, !.order = e.msg.order])
        /\ UNCHANGED <<atts, minted>>

(* UpdateAvailability, up to its commit.                                   *)
DeliverAvailability(s, e) ==
  /\ e.msg.type = "driver.availability.changed"
  /\ \/ ~IsNew(e.msg) /\ UNCHANGED <<db, slot>>
     \/ /\ IsNew(e.msg)
        /\ processed' = processed \cup {e.msg}
        /\ Become(s, [Idle EXCEPT !.pc = "pool", !.kind = "availability",
                                  !.entry = e, !.driver = e.msg.driver])
        /\ UNCHANGED <<row, atts, arrival, minted, given>>

(* CompleteDelivery, up to the read inside its transaction.                *)
DeliverCompleted(s, e) ==
  /\ e.msg.type = "delivery.completed"
  /\ NoOtherTx(e.msg)
  /\ \/ ~IsNew(e.msg) /\ UNCHANGED <<db, slot>>
     \/ /\ IsNew(e.msg)
        /\ \A a \in ById(e.msg.order) : ~CanComplete(a)
        /\ processed' = processed \cup {e.msg}
        /\ UNCHANGED <<row, atts, arrival, minted, given, slot>>
     \/ /\ IsNew(e.msg)
        /\ \E a \in ById(e.msg.order) :
             /\ CanComplete(a)
             /\ Become(s, [Idle EXCEPT !.pc = "commit", !.kind = "complete",
                             !.entry = e, !.order = e.msg.order,
                             !.driver = a.assigned, !.a = MarkCompleted(a)])
        /\ UNCHANGED db

(* CancelOrder, up to the read inside its transaction.  Parked orders are  *)
(* retried whether the event is new or not.                                *)
DeliverCancelled(s, e) ==
  /\ e.msg.type = "order.cancelled"
  /\ NoOtherTx(e.msg)
  /\ \/ /\ ~IsNew(e.msg) \/ row[e.msg.order] = NoRow
        /\ processed' = processed \cup {e.msg}
        /\ Become(s, [Idle EXCEPT !.pc = "parked", !.kind = "cancel",
                                  !.entry = e])
        /\ UNCHANGED <<row, atts, arrival, minted, given>>
     \/ /\ IsNew(e.msg)
        /\ \E a \in ById(e.msg.order) :
             Become(s, [Idle EXCEPT !.pc = "commit", !.kind = "cancel",
                          !.entry = e, !.order = e.msg.order,
                          !.driver = FreedByCancel(a), !.a = Cancel(a)])
        /\ UNCHANGED db

(* ExpireOffer, up to its read.                                            *)
DeliverExpired(s, e) ==
  /\ e.msg.type = "dispatch.offer.expired"
  /\ \E a \in ById(e.msg.order) :
       IF CanExpire(a, e.msg.no)
       THEN Become(s, [Idle EXCEPT !.pc = "row", !.kind = "expire",
                         !.entry = e, !.order = e.msg.order,
                         !.driver = CurrentAttempt(a).driver,
                         !.a = ExpireOffer(a)])
       ELSE UNCHANGED slot
  /\ UNCHANGED db

(* A message reaches a handler.  One that the handler ignores is           *)
(* acknowledged at once.                                                   *)
Deliver(s, e) ==
  /\ slot[s] = Idle
  /\ Take(e, {})
  /\ \/ DeliverCreated(s, e)
     \/ DeliverAvailability(s, e)
     \/ DeliverCompleted(s, e)
     \/ DeliverCancelled(s, e)
     \/ DeliverExpired(s, e)
  /\ UNCHANGED <<pool, dead, told, faults, crashes>>
-----------------------------------------------------------------------------
(* The steps of a running handler.                                         *)
SaveRow(s) ==
  /\ slot[s].pc = "row"
  /\ UpsertRow(slot[s].order, slot[s].a)
  /\ Become(s, [slot[s] EXCEPT !.pc = "atts"])
  /\ UNCHANGED <<atts, arrival, minted, processed, pool, queue, holding, dead,
                 told, env>>

SaveAttempts(s) ==
  /\ slot[s].pc = "atts"
  /\ UpsertAttempts(slot[s].order, slot[s].a)
  /\ Become(s, AfterSave(slot[s]))
  /\ UNCHANGED <<row, arrival, minted, processed, given, pool, queue, holding,
                 dead, told, env>>

(* The transaction of a cancellation or a completion commits.              *)
Commit(s) ==
  /\ slot[s].pc = "commit"
  /\ processed' = processed \cup {slot[s].entry.msg}
  /\ UpsertRow(slot[s].order, slot[s].a)
  /\ UpsertAttempts(slot[s].order, slot[s].a)
  /\ Become(s, [slot[s] EXCEPT !.a = NewAssignment,
                  !.pc = IF slot[s].driver # NoDriver THEN "free" ELSE "parked"])
  /\ UNCHANGED <<arrival, minted, pool, queue, holding, dead, told, env>>

FreeDriver(s) ==
  /\ slot[s].pc = "free"
  /\ Pool!FreeDriver(slot[s].driver)
  /\ Become(s, [slot[s] EXCEPT !.driver = NoDriver, !.a = NewAssignment,
                  !.pc = IF slot[s].kind \in {"reject", "expire"}
                         THEN "recheck" ELSE "parked"])
  /\ UNCHANGED <<db, queue, holding, dead, told, env>>

Exhausted(a) == a.offerAttempts >= MaxAttempts

(* failOrRetry                                                             *)
Recheck(s) ==
  /\ slot[s].pc = "recheck"
  /\ \E a \in ById(slot[s].order) :
       Become(s,
         IF a.status # "awaiting_driver" THEN Done(slot[s])
         ELSE IF Exhausted(a)
         THEN [slot[s] EXCEPT !.pc = "row", !.a = MarkFailed(a)]
         ELSE [slot[s] EXCEPT !.pc = "load"])
  /\ UNCHANGED <<db, pool, queue, holding, dead, told, env>>

(* attempt, its read                                                       *)
Load(s) ==
  /\ slot[s].pc = "load"
  /\ \E a \in ById(slot[s].order) :
       Become(s, IF a.status # "awaiting_driver" THEN NextOrder(slot[s])
                 ELSE [slot[s] EXCEPT !.pc = "claim", !.a = a])
  /\ UNCHANGED <<db, pool, queue, holding, dead, told, env>>

(* attempt, the claim: offer to the driver, or leave the order parked.     *)
Claim(s) ==
  LET a == slot[s].a
      o == slot[s].order
      id == minted[o] + 1
  IN  /\ slot[s].pc = "claim"
      /\ \/ /\ id <= MaxOffers
            /\ \E d \in Drivers :
                 /\ Pool!ClaimNext(TriedDrivers(a), d)
                 /\ Become(s, [slot[s] EXCEPT !.pc = "row",
                                              !.a = OfferTo(a, id, d)])
            /\ minted' = [minted EXCEPT ![o] = id]
         \/ /\ Pool!ClaimNone(TriedDrivers(a))
            /\ Become(s, NextOrder(slot[s]))
            /\ UNCHANGED minted
      /\ UNCHANGED <<row, atts, arrival, processed, given, queue, holding,
                     dead, told, env>>

(* Mutation: the timer is given the number of the attempt before.          *)
TimerOneBehind(o, a) ==
  [type |-> "dispatch.offer.expired", order |-> o,
   no |-> CurrentAttempt(a).no - 1, id |-> CurrentAttempt(a).id]

(* What scheduleExpiry sends.                                              *)
Timer(o, a) ==
  [type |-> "dispatch.offer.expired", order |-> o,
   no |-> CurrentAttempt(a).no, id |-> CurrentAttempt(a).id]

(* attempt, the timer                                                      *)
ScheduleExpiry(s) ==
  /\ slot[s].pc = "schedule"
  /\ holding' = holding \cup {Timer(slot[s].order, slot[s].a)}
  /\ Become(s, NextOrder(slot[s]))
  /\ UNCHANGED <<db, pool, queue, dead, told, env>>

(* UpdateAvailability, after its commit                                    *)
UpdatePool(s) ==
  /\ slot[s].pc = "pool"
  /\ IF slot[s].entry.msg.isAvailable
     THEN /\ Pool!OnWilling(slot[s].driver)
          /\ Become(s, [slot[s] EXCEPT !.pc = "parked", !.driver = NoDriver])
     ELSE /\ Pool!OnUnwilling(slot[s].driver)
          /\ Become(s, Done(slot[s]))
  /\ UNCHANGED <<db, queue, holding, dead, told, env>>

(* retryParked, its query                                                  *)
RetryParked(s) ==
  /\ slot[s].pc = "parked"
  /\ \E q \in AwaitingOldestFirst :
       Become(s, NextOrder([slot[s] EXCEPT !.todo = q]))
  /\ UNCHANGED <<db, pool, queue, holding, dead, told, env>>

(* ForceAssign, after save                                                 *)
MarkBusy(s) ==
  /\ slot[s].pc = "mark"
  /\ Pool!MarkBusy(slot[s].driver)
  /\ Become(s, [slot[s] EXCEPT !.pc = "publish"])
  /\ UNCHANGED <<db, queue, holding, dead, told, env>>

Publish(s) ==
  /\ slot[s].pc = "publish"
  /\ told' = [told EXCEPT ![slot[s].order] = @ \o Raised(slot[s].a)]
  /\ Become(s, Done(slot[s]))
  /\ UNCHANGED <<db, pool, queue, holding, dead, env>>

Ack(s) ==
  /\ slot[s].pc = "ack"
  /\ Become(s, Idle)
  /\ UNCHANGED <<db, pool, queue, holding, dead, told, env>>
-----------------------------------------------------------------------------
(* Faults.                                                                 *)

(* An operation throws: the one the handler awaits, which then had no      *)
(* effect, or the one before, which had.  A request fails, a message is    *)
(* tried again, a transaction rolls back.                                  *)
Fail(s) ==
  /\ slot[s] # Idle
  /\ faults < MaxFaults
  /\ faults' = faults + 1
  /\ IF slot[s].entry = NoEntry THEN UNCHANGED <<queue, dead>>
     ELSE /\ queue' = queue \cup Again(slot[s].entry)
          /\ dead' = dead \cup Buried(slot[s].entry)
  /\ Become(s, Idle)
  /\ UNCHANGED <<db, pool, holding, told, sent, dups, crashes>>

(* The first operation of a message's handler throws.                      *)
FailAtOnce(s, e) ==
  /\ slot[s] = Idle
  /\ faults < MaxFaults
  /\ faults' = faults + 1
  /\ Take(e, Again(e))
  /\ dead' = dead \cup Buried(e)
  /\ UNCHANGED <<db, pool, told, slot, crashes>>

(* The process dies: its handlers are gone, and the broker puts back what  *)
(* was not acknowledged.                                                   *)
Crash ==
  /\ \E s \in Slots : slot[s] # Idle
  /\ crashes < MaxCrashes
  /\ crashes' = crashes + 1
  /\ queue' = queue \cup {slot[s].entry : s \in {t \in Slots : slot[t].entry # NoEntry}}
  /\ slot' = [s \in Slots |-> Idle]
  /\ UNCHANGED <<db, pool, holding, dead, told, sent, dups, faults>>
-----------------------------------------------------------------------------
Request(s) ==
  \E o \in Orders, d \in Drivers :
    AcceptOffer(s, o, d) \/ RejectOffer(s, o, d) \/ ForceAssignOrder(s, o, d)

Step(s) ==
  \/ SaveRow(s) \/ SaveAttempts(s) \/ Commit(s) \/ FreeDriver(s)
  \/ Recheck(s) \/ Load(s) \/ Claim(s) \/ ScheduleExpiry(s)
  \/ UpdatePool(s) \/ RetryParked(s) \/ MarkBusy(s) \/ Publish(s) \/ Ack(s)

Next ==
  \/ \E s \in Slots :
       \/ Request(s)
       \/ \E e \in Deliverable : Deliver(s, e) \/ FailAtOnce(s, e)
       \/ Step(s)
       \/ Fail(s)
  \/ Crash

Spec == Init /\ [][Next]_vars

(* A pending message is delivered.                                         *)
Redeliver ==
  \E s \in Slots :
    \E e \in queue \cup {[msg |-> m, tries |-> 0] : m \in holding} : Deliver(s, e)

(* A handler that is started goes on, and the broker does not withhold     *)
(* what it holds for ever from a consumer that keeps coming back.          *)
Fairness == SF_vars(Redeliver) /\ \A s \in Slots : WF_vars(Step(s))

FairSpec == Spec /\ Fairness
=============================================================================
