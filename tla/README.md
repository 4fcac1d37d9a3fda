# A formal model of logistics-dispatch-service

TLA+ modules, TLC configurations and TLAPS proofs about the dispatch service:
it gives each order to one driver by offering it to the longest-waiting free
driver, waiting for an answer or a time-out, and parking the order when nobody
is free.

```
tlc -workers 2 -config MCHttpApi.cfg MCHttpApi   # any run below
tlapm OrderLifecycleProofs.tla                                 # the proofs
```

## 1. The system

| Component | State | Operations | Talks to |
|---|---|---|---|
| `Assignment` aggregate (`domain/assignment`) | status, assigned driver, number of offers, attempts, pushed events | fromOrderCreated, offerTo, accept, rejectByDriver, expireOffer, markFailed, markCompleted, cancel, forceAssign, pullEvents | called by the use cases |
| Driver pool (`ports/driver-pool.ts`, `redis-driver-pool.ts`) | Redis keys WILLING, BUSY, AVAILABLE (sorted set) | claimNext, onWilling, onUnwilling, freeDriver, markBusy, listAvailable | called by the use cases; each call one Lua script or MULTI |
| Use cases (`application/dispatch`) | none of their own; local variables across `await`s | three HTTP requests, five messages, and `DispatchOrder.{attempt, failOrRetry, retryParked}` which they share | repository, pool, scheduler, publisher, user service |
| Persistence (`infrastructure/persistence`) | tables `assignments`, `assignment_attempts`, `processed_events` | byId, save, awaitingDriverOldestFirst, offeredForDriver, recordIfNew, transaction | Postgres |
| Consumer (`dispatch-events-consumer.ts`) | unacknowledged messages (prefetch 8) | route, ack, retry with `x-attempt`, dead-letter | RabbitMQ, use cases |
| Messaging adapters | the holding queue of expirations, published events | scheduleExpiry, publishAll, topology | RabbitMQ |
| Driver directory client | none | getDriver | user service |
| HTTP API: authentication, role guard, schemas, controller, error mapper (`interfaces/http`, `app.ts`) | none; a request waits between its save and its answer | accept, reject, force-assign; read an assignment, the current offer, the available drivers | use cases |
| Server (`server.ts`, `health-controller.ts`) | connections, `activeChannel`, `shuttingDown`, the watchdog, exit code | boot steps, healthz, readyz, shutdown on SIGTERM and SIGINT | everything |
| Value objects, configuration, logging, clock, tokens | none | parse, validate | |

What is hard:

- **Interleaving.** One Node process handles up to eight messages and any number
  of requests at once, and every `await` is a point where another handler runs.
  Assignments are read, changed in memory and saved without lock or version
  (`prisma-assignment-repository.ts:30-32`).
- **Four stores without a common transaction.** Postgres, Redis, the holding
  queue and the event exchange are written one after the other. Only
  `processed_events` and the assignment share a transaction, and only in three
  of the use cases; what those do in Redis follows the commit.
- **Messages.** At-least-once delivery, the consumer's own re-publishing, and
  independent producers repeat and reorder events. Expirations may be stale.
- **Crashes** between any two of those writes.
- **Clients** that repeat requests whose answer they did not get, handlers that
  fail after their save, and five layers of checks that can all object to one
  request.
- **Shutdown** closes the channel and Redis while handlers are running, a second
  signal starts it once more, and the channel may be lost at any point of it.

Correctness, by component: the aggregate never announces two drivers or
rewrites history and fails only when its attempts are exhausted; the pool's
three keys agree and it answers as its port says; the use cases together never
lose or share a driver, let no offer wait for ever, announce only what is
saved, apply an event once, and lose none; the HTTP interface tells each client
what is the case and changes an order only as its lifecycle allows; the process
gives back every message it did not finish, says `ready` and exits with 0 only
when that is true, and ends when it is told to.

## 2. The modules

```
Assignment ── OrderLifecycle ── OrderLifecycleProofs
     │           ▲       ▲                 │
     │           │       └─ HttpApi ── HttpApiProofs, MCHttpApi
     │           │  (refinement: each order, one handler at a time)
     └── Dispatch ── DispatchProperties, MCDispatch
             │         └─ DispatchProofs ── DispatchTypeProofs ── DispatchSerialProofs
             ▼
        DriverPool ── DriverPoolPort
                            ▲  (refinement)
                      RedisDriverPool ── RedisDriverPoolProofs

ServerLifecycle ── ServerLifecycleProofs, MCServerLifecycle
```

AssignmentProofs, the lemmas about Assignment, is used by OrderLifecycleProofs
and DispatchTypeProofs.

Three modules look at the same handlers at different grains: HttpApi at one
order and its clients, with a use case's save as one step; Dispatch at the four
stores, with every awaited operation a step; ServerLifecycle at the process,
where an operation is only what it needs (Postgres, Redis, the channel).

**Assignment** is the aggregate as records and operators. A method that throws
or mutates is a guard (`CanExpire`) and a result (`ExpireOffer`). Addresses,
items, customer and time stamps are left out; no method reads them.

**OrderLifecycle** is the abstract specification of one order: each use case on
it is one atomic action. `created` says that `order.created` was handled,
`order` is the saved aggregate, `events` what the aggregate pushed so far.
Expirations carry any number, any driver may answer, and an admin may force any
driver; so this module also covers stale and repeated messages. It has no run of
its own: HttpApi includes it, and every invariant of it is checked there.

**HttpApi** puts the HTTP interface in front of it. A route is the list of its
checks in the order of the code, each with the status code its error is mapped
to (`AcceptChecks`, `RejectChecks`, `ForceChecks`, ...); `Answer(r)` is that of
the first check that fails. Requests are made of a caller (any role; a driver, a
stranger, an id that is not a UUID, or no valid token), an order id, a body, and
what the user service answers meanwhile. Those that only read are nothing more
than `Answer`. A changing request whose checks pass is two steps: up to its save
(`AcceptHandler`, `RejectHandler`, `ForceAssignHandler`), which puts it into
`running`, and the rest of it (`PublishAssigned`, `FailOrRetry`), which may also
break off with a 500 (`BreakOff`). `published` is what the exchange got and
`answered` the successes, a history variable. `HandleMessage` is everything that
messages do to the order in between.

The mapping of errors has some outcomes one would not guess, which the model
follows: a user id that is not a UUID fails in `DriverId.of` with a plain
`Error` and is answered 500, as is a body that is not JSON; a user service that
answers something else than a driver is reported as 400, like a bad request; and
for such a user and an unknown order `accept` answers 404 and `reject` 500. A driver who declined and was not offered again may not
read the order, although the comment at `assignment-controller.ts:54` says "are/were
involved": `OnlyInvolvedRead` therefore takes the involvement of drivers as an
upper bound only, and asks for access where the order is with the driver now.

**DriverPool** has the operations the port promises, on the sets `willing` and
`busy` (`Free == willing \ busy`). **DriverPoolPort** adds what each call asked
and what it was answered, and is the specification of the pool.
**RedisDriverPool** is the implementation: `score` is the sorted set AVAILABLE,
a script is an action, and a claim takes a driver of least score.

**Dispatch** is the service. A handler occupies a slot
(`slot[s] = [pc, kind, entry, order, driver, a, todo]`): `a` is the aggregate it
has in memory, `todo` the rest of the list that `retryParked` loops over, `pc`
the operation it awaits. Each step performs that operation and moves to the
next one:

| Step | Code |
|---|---|
| `AcceptOffer`, `RejectOffer`, `ForceAssignOrder` | the request up to and including `byId` and the aggregate's method |
| `DeliverCreated/Availability/Completed/Cancelled/Expired` | the message up to its first `await` that others can tell apart |
| `Commit` | end of `uow.run` of a cancellation or completion |
| `SaveRow`, `SaveAttempts` | `save` outside a transaction |
| `FreeDriver`, `MarkBusy`, `UpdatePool`, `Claim` | the call of the pool |
| `Recheck`, `Load`, `RetryParked` | the reads of `failOrRetry`, `attempt`, `retryParked` |
| `ScheduleExpiry`, `Publish` | the scheduler and the publisher |
| `Ack` | the message leaves the consumer |
| `Fail`, `FailAtOnce` | an operation throws: the catch clause of the consumer, or the error answer of a request |
| `Crash` | the process dies; unacknowledged messages return to the queue |

`processed` is the table `processed_events`, `holding` the expirations that wait
or are due, `queue` the messages to be delivered again with their `x-attempt`,
`dead` the dead-letter queue, `told` the published events per order. `given` is
a history variable: every driver the order's row ever named.

**DispatchProperties** states what the service should guarantee, in three
groups: with one handler at a time, under any interleaving, fault or crash, and
what the documentation says and the code does not do.

**ServerLifecycle** is one process from boot to exit. `boot` runs through the
`bootStep`s; `channel`, `redis`, `server` and `consuming` are the resources;
`activeChannel`, `shuttingDown` and `watchdog` the variables and the timer of
`server.ts`. `shutdown[s]` is the operation that the `shutdown()` of signal `s`
awaits, `work[w]` the one that a request or message awaits, and `broker`,
`tries` what the broker knows of each message. `probe` is a readyz between its
awaits, with what held when it began. Messages come with four contents: those
with a handler (`Events`), JSON that no branch of the consumer knows (`Unknown`),
what `JSON.parse` throws at (`NotJson`), and the JSON value `null` (`JsonNull`),
which parses but throws at `envelope.correlationId`, between the two `try` blocks:
nobody handles that rejection, and the process ends with its channel open.

| Step | Code |
|---|---|
| `BootStep`, `BootFails` | `main` up to `listening`; `main().catch` |
| `Arrive`, `Deliver`, `Proceed`, `AnswerRequest` | a request or message and its operations, in any order and number |
| `Discard` | a message of unknown type, acknowledged; one that is not JSON, dead-lettered |
| `DeliverNull` | a `null`: the callback of the consumer rejects |
| `Ack`, `MessageFails`, `RejectionUnhandled` | the end of the consumer's callback: `ack`; the catch clause; both throwing on a channel that is gone |
| `ChannelCloses`, `ChannelFails` | the channel's `close` event; an `error` event, which nobody listens to |
| `ProbeStarts`, `ProbeChecks` | `readyz` |
| `SignalArrives`, `StopConsumer`, `CloseChannel`, `CloseConnection`, `QuitRedis`, `CloseServer`, `Disconnect`, `WatchdogFires` | `shutdown()`, one step per await, and its timer |

An exit cuts off what is being handled: a request then has no answer, a message
goes back to the broker, and so does the `null`. Exit code 0 waits for requests only; messages whose
handlers are still at work are cut off and come back to the next process, whose
retry is the subject of Dispatch.

Comments marked `Mutation:` introduce deliberately wrong variants of the
definition that follows them. No specification uses them; each makes some
property fail, which shows that the property depends on that line of the code.

### Abstractions in Dispatch

- An event is sent and delivered in one step at any time after its cause, and a
  timer may be due at any time. Neither order nor delay of messages is assumed.
- `byId` is one step although Prisma issues two selects, and the attempts of one
  aggregate are upserted in one step after its row. The writes of a transaction
  take effect at its commit, and `recordIfNew` of the same event in a second
  transaction waits for it (`NoOtherTx`).
- `created_at` order is the order of the commits. Of two attempts with one
  number the database may return either last (`SortedAttempts`).
  `AwaitingOldestFirst` is declared, not computed: some list of `ParkLimit` parked
  orders, or of all there are, in the order of their creation and with no
  older one left out. TLC and the proofs read the same definition.
- A claim may take any eligible free driver (`DriverPool`); that Redis takes the
  one waiting longest is in `RedisDriverPool`.
- A retried message is published and acknowledged in one step, and the broker
  keeps what it was sent. Full buffers and the closing of the channel are in
  ServerLifecycle.
- An admin's driver must be in `Directory` when the request is handled; what else
  the HTTP layer decides is in HttpApi.

### Abstractions in HttpApi and ServerLifecycle

- In HttpApi a request is decided and saved in one step. Overlapping loads and
  saves of one order are left to Dispatch, where `double_accept` shows what they
  do; so `OneRequestAssigns` and `ClientAndBusAgree` are about repeated and
  interleaved requests that do not overlap before their save.
- There is one order. `OfferedForDriver` then asks whether *it* is offered to
  the driver; that a driver has one order only is `OneOrderPerDriver`.
- Response bodies, headers and request ids are left out.
- In ServerLifecycle the operations of a handler are a walk over `Operations`
  that may take any number of steps, and any of them may throw.
- The client libraries are external: a channel that is closing or gone throws at
  every use, emits `close` once and no `drain` afterwards; an unhandled rejection
  or `error` event ends the process; the broker puts back what is unacknowledged.
- A channel that is lost during `topology` or `consumer` is a failing boot step.

## 3. The runs

| Run | Instance | Shows |
|---|---|---|
| http_api | 1 order, 3 drivers, 2 attempts, 3 offers; 7,082 states | `ClientAndBusAgree`, `OneRequestAssigns`, `DriverFindsHisOffer`, `OnlyInvolvedRead`, `DocumentedAnswers`, `ImplementsLifecycle`, and of the order `OneDriverTold`, `FailedOnlyWhenExhausted`, `OffersInOrder`, `HistoryIsFinal` |
| server_lifecycle | 1 message of each content, 1 request, SIGTERM and SIGINT, 1 retry; 195,222 states | `NoMessageLost`, `GracefulExit`, `ReadyIsTrue`, `ErrorsAreContained`, `ShutdownEnds` (liveness) |
| redis_pool | 3 drivers, 4 time stamps; 1,876 states | `QueueIsFreeDrivers`, `ImplementsPort` |
| dispatch_serial | 2 orders, 2 drivers, 1 handler; 876,605 states | `NoDriverLost`, `OneOrderPerDriver`, `OfferHasTimer`, `ToldAsSaved`, `EachOrderLives` |
| dispatch_concurrent | 1 order, 1 driver that may be forced, 2 handlers, one repeated event; 372,302 states | `SavedBeforeTold`, `EventAppliedOnce` |
| dispatch_faults | 1 order, 1 driver that toggles twice, 2 offers, 2 faults, 1 crash, 1 retry; 217,377 states | `TypeOK`, `NoEventLost`, `EventAppliedOnce`, `EventsSettle` and `TimedOfferEnds` (liveness) |

The runs of Dispatch, HttpApi and ServerLifecycle do not check for deadlock: with
a bounded number of events and offers the service really comes to rest, an order
ends, and so does a process. Redis always has a call to take, and is checked for
deadlock.

**Why the bounds suffice.** The lifecycle needs more drivers than attempts, so
that an order can be exhausted, be forced a driver that declined nothing, and
have offers left over; all combinations of the fields of a request are tried in
every state. The server needs both signals for two shutdowns to overlap, one
retry for a message to fail with and without a retry left, and one request that
is answered, cut off or waiting for a drain: requests do nothing to each other,
and the server waits for all of them alike (`CloseServer`; the theorems are
about any number). Two messages of one content would do nothing to each other
either. In `dispatch_serial` two orders compete for two drivers of whom one can
be forced: this is the smallest instance in which parking, contention, failure
after `MaxAttempts = 2` and a second offer all happen. Two handlers suffice for
every race of one read with one write. With two faults and `MaxRetries = 1` a
message is retried and dead-lettered.

**One handler at a time**, with no operation that throws and no crash, is the
assumption of `dispatch_serial` and of the theorems of DispatchSerialProofs. It is a
real restriction: the service handles eight messages and any number of requests
at once, and the violations below show that some of these properties fail
without it. What holds regardless is in `dispatch_concurrent` and
`dispatch_faults`. What the restricted case says is that the use cases are right
one after the other, for any number of orders and drivers and any order of
messages and requests, so that what goes wrong otherwise comes from their
overlapping, from failures and from crashes.

**Fairness** (`FairSpec`). Weak fairness of each handler's steps: the event loop
resumes a handler whose operation has completed. Strong fairness of delivering
something that is held in the work queue or the holding queue: RabbitMQ
delivers what it holds to a consumer that keeps coming back, although each
single handler may be occupied by other work meanwhile. Nothing is assumed of
drivers, admins or producers; in particular an offer ends although no driver
ever answers. `ServerFairness`: weak fairness of the steps of each `shutdown()`,
since a peer that is gone is found out by the heartbeat of the connection and
the awaited call then rejects, and of the watchdog, since timers fire. Nothing is
assumed of handlers, so that one that waits for ever for a `drain` is included:
it is the watchdog that ends such a process.

### Where code and documentation differ

Each of these runs checks one statement of the documentation and ends with a
counterexample.

| Run | Property | What happens |
|---|---|---|
| parked_order | `ParkedOrderGetsFreeDriver` | A rejection frees a driver; only the rejected order is retried, which excludes him; the parked order that could have him waits on. |
| forced_driver | `EngagedDriverIsBusy` | A driver is forced onto a second order; completing one of them frees him while he is on the other. |
| double_accept | `AssignedToldOnce` | Two concurrent accepts of one offer announce the driver twice. |
| cancel_first | `CancelledOrderHasNoDriver` | A cancellation processed before `order.created` is forgotten, and the order is dispatched. |
| closing_fault | `ClosedOrderFreesDriver` | `freeDriver` fails after the commit; the retry is taken for a duplicate and the driver stays busy. |
| offer_crash | `OfferExpires` | A crash between saving an offer and sending its timer leaves an offer nobody ends. |

How much each of them takes is partly proved. `AssignedToldOnce`,
`ClosedOrderFreesDriver` and `OfferExpires` hold with one handler at a time and
no failures (`SerialTellsOnce`, `SerialClosedOrderFreesDriver`,
`SerialOfferExpires`): `double_accept` needs handlers that overlap,
`closing_fault` and `offer_crash` a failure. Their configurations allow one kind
of failure each, an operation that throws and a crash, but either kind breaks
either property. `EngagedDriverIsBusy` holds in addition to that only when there
is nobody to force (`SerialEngagedIsBusy`). `parked_order` and `cancel_first`
happen with one handler at a time as well.

## 4. The proofs

All theorems hold for every set of drivers, orders, handlers, messages, requests
and signals, every `MaxAttempts > 0` and every bound on offers, time stamps,
faults and crashes. They assume only the named assumptions of the modules
(`NoDriverAssumption`, `LifecycleAssumption`, `TimeAssumption`, `UserAssumption`,
`DispatchAssumption`, `NoEntryAssumption`, `NoRowAssumption`, `ServerAssumption`),
which TLC evaluates in the runs. Only the theorems of DispatchSerialProofs
assume more, in their statement: `OneAtATime`.

**AssignmentProofs.** Facts about single aggregates, for whoever calls the
methods. `Sound(a)` says that an aggregate could have come about:
`StatusSound` ties the status to the assigned driver and to the outcomes of the
attempts, `OffersSound` gives the shape of the offers. `EventsFit(e, a, max)` says
that the events `e` suit it: at most one announcement of a driver, of the driver
the order has, and a failure only with at least `max` declined attempts.
`MethodsSound` and `MethodsFit` show that every method whose precondition holds
preserves both. They are not preserved alone: that an accepted order announces
a driver for the first time needs that an offered order has no driver yet, and
that an exhausted order was declined by *different* drivers needs that offers go
to different drivers, which needs that all attempts but the last were declined
and so exclude their driver from the next claim. `TriedCount` turns "all attempts
declined, drivers all different" into the cardinality of the set of drivers.

**OrderLifecycleProofs.** `IInv`, proved inductive in `LifecycleInvariant`, says
that `order` is `Sound`, that `events` fit it, and their types; the lemmas
`SoundStep`, `TypeStep` and `EventsStep` have one step per action, which cites the
lemma on its method. From `IInv` follow `LifecycleTypes`,
`LifecycleTellsOneDriver`, `LifecycleFailsOnlyExhausted`,
`LifecycleOffersInOrder` and `LifecycleHistoryIsFinal`.

**RedisDriverPoolProofs.** `TypeOK /\ QueueIsFreeDrivers` is inductive
(`RedisPoolTypes`, `RedisQueueIsFreeDrivers`): each script changes queue, busy
and willing sets together. With it every Redis operation is the port's operation
of the same name with the same answer, which is `RedisImplementsPort`.

**HttpApiProofs.** `HttpImplementsLifecycle`: `AcceptPasses`, `RejectPasses` and
`ForcePasses` show that a request none of whose checks fails meets the
preconditions of the aggregate's method, so every step is one of OrderLifecycle
or leaves the order alone, and `IInv` holds here too. `HttpInv` adds
`HandlersInv` (an accepted or forced handler has the order's driver, an answer
is that of some attempt, and only one handler assigns) and `PublishedInv` (what
is published was pushed by the aggregate, each event once, and no assignment is
published while its handler still runs). `ClientAndBusAgree` is not inductive
without them: that `PublishAssigned` is the first announcement needs that its
handler is the only one that assigned. `HttpDriverFindsHisOffer` and
`HttpOnlyInvolvedRead` follow from `IInv` in every state: a pending attempt is
the last one (`PendingIsLast`), so a query over all attempts and a check of the
last agree. `HttpDocumentedAnswers` evaluates the checks of each route for the
requests the testing guide tabulates; that an order that is not offered answers
a driver 409 and not 403 is the order of the checks, and that an unrelated one
is answered 403 (`ReadForbidden`) is the definition of involvement read
backwards.

**ServerLifecycleProofs.** `ServerInv` joins the types; `BootInv`, what is open
at which boot step; `MessagesInv`, that whoever is unacknowledged is being
handled on a channel that is not closed, and that only events are handled,
retried or given up; `ShutdownInv`, what each shutdown has closed so far, for
any number of overlapping ones; `ProbeInv`, what a probe knows of the moment it
began; and how the process may exit. `ErrorsAreContained` needs `ShutdownInv`:
the watchdog may fire only when the channel is already closing, so of a process
with an open channel only a `null` is left (`UncaughtFacts`).

**DispatchProofs.** `DispatchInv` holds under any interleaving, fault and crash.
`FormInv` and `SentInv` give the shape of handlers and messages; `HandlersInv`
says for every handler which message it is on and whether that is recorded
(`MessageInv`), at which operations a handler of each kind may be (`PathInv`),
and that the driver of an assigned aggregate in memory is in the row from the
save on (`SavedIn`). Most steps only move one handler on; `AdvanceStep` proves
the invariant for all of them at once, from what `StepAdvances` shows of each.
Deliveries, commits, publishing, faults and crashes have a lemma each.
`EventAppliedOnce` is about steps: the one in which an event takes effect
records it in `processed_events`, where it was not before and from where nothing
is removed; so it has at most one such step in a whole behaviour, whatever is
delivered again, then or later. `CommitApplies` and `DeliverApplies` show it of
the two kinds of steps that apply; all others apply nothing (`NextApplies`).
That a transaction finds its event unrecorded at its commit needs `OneApplies`,
a part of `DispatchInv`: no two handlers are between `recordIfNew` and the
commit with one event.

**DispatchTypeProofs.** `TypeInv`, again under any interleaving, fault and crash.
The declared types are not inductive. A handler at `schedule` must hold an
aggregate that is offered, with a number within the bound, or the timer it sends
has none; one at `mark` or `pool` must have a driver (`Task`); an attempt gets the
next id of its order, so no aggregate, stored or in memory, may have more offers
than ids were handed out (`TablesOK`, `Task`); and `retryParked` lists only orders
that exist, of which there are finitely many. One lemma per step that writes a
table, one for those that only move a handler on (`HandlerTyped`).

**DispatchSerialProofs.** `OneAtATime` is one slot and no faults and crashes.
`View(o)` is the order as it is read, or as it will be when the save that is
under way is finished. `SerialInv`, inductive in `SerialInvariant`, has seven parts:

- `StoreInv`: the row and the attempts of an order are those of one `Sound`
  aggregate, so reading it back gives that aggregate and no other
  (`StoredIsRead`, by `AttemptsReadBack`: attempts sorted by number come in the
  order they were made, because no two have one number);
- `DoingInv`: what the handler is about to save is the result of one method of
  the order as it is now, whose precondition holds; `Doing` has one line per kind;
- `MintedInv`, `CreatedInv`: the ids handed out are those of the attempts, and only
  orders whose creation was processed exist;
- `TimerInv`: an offered order has its timer under way, or the handler is on the
  way to send it or to end the offer;
- `Accounted`, `Exclusive`: whoever is busy is kept so by an order (`EngagedBy`) or by
  the handler (`Held`), and a driver who cannot be forced by one of them only.

The last two are what `NoDriverLost` and `OneOrderPerDriver` become when a handler
is at work: those two are about quiet states only, and between a claim and a
save, or a save and `freeDriver`, the driver is with the handler. `OfferDrivers`, `AnswerDrivers` and `SettleDrivers` show
for each method that a save hands drivers over between the two and loses none
(`SameDrivers`). There is one lemma per step of a handler (`RowSerial`,
`AttemptsSerial`, `CommitSerial`, `ClaimSerial`, ...), and one for each group of
requests and messages. From `SerialInv`, where no handler runs (`AtRest`), follow
`SerialNoDriverLost`, `SerialOneOrderPerDriver` and `SerialOfferHasTimer`.

`SerialOrdersLive` is the refinement: every step of the service is, for each
order, a step of OrderLifecycle or a stutter (`LivesStep`). The lifecycle moves at
`SaveRow`, `Commit` and the delivery of `order.created` (`RowLives`, `CommitLives`,
`CreatedLives`), and `DoingInv` gives the action; all other steps leave the row, the
view and the announcements as they are. From the refinement and `MethodsFit`,
what was announced of an order fits it (`ToldInvariant`), which gives
`SerialTellsTheTruth` and `SerialTellsOnce`.

**Only model-checked.** The liveness properties `EventsSettle`, `TimedOfferEnds`
and `ShutdownEnds`: fairness and ENABLED are outside what the prover handles.

## 5. Not modelled

- *Value objects and the persistence format*: the parsing and validation of
  addresses, items and ids, and the JSON columns they are stored in. They are
  functions of one value; no decision about orders or drivers depends on them. A
  stored row that cannot be loaded does not occur.
- *Configuration, logging, clock, the signer of service tokens*: wrappers around
  libraries. What the token verifier lets through is `Callers` of HttpApi.
- *The process after a `null` message*: ServerLifecycle ends with the process.
  The broker keeps the message (`NoMessageLost`) and gives it to the next process,
  which then ends in the same way; restarts are not modelled there.
- *The broker's administration*: a deleted queue cancels the consumer, after
  which nothing is consumed and readyz stays 200; no document says what it
  should do.
- *Other services*: a retried event is published to the exchange they listen to
  as well, and reaches them again.
- *Several processes* of the service at once: handlers in one process interleave
  as those of several would, but a crash of one of them leaving the others alone
  is not modelled.

Hazards without a property are listed in `PROJECT.json` with the reason.

## 6. Plan

Done: Assignment, OrderLifecycle, the driver pool, HttpApi and ServerLifecycle
with proofs of their invariants and refinements; Dispatch with its properties,
proofs of those that hold under any interleaving, and of those that hold with
one handler at a time.

What could follow:

1. *Between one handler and any number.* Which of the serial theorems survive when
   handlers overlap but never two of one order, or when only requests, or only
   messages, are serialised; faults and crashes without overlapping.
2. *Two handlers with two offers of one order*: what becomes of the second
   driver.
3. *Order of claims.* The FIFO promise of the pool as a property over a history
   of waiting times, including re-queued and late-toggled drivers.
