--------------------------- MODULE DispatchProofs ---------------------------
(***************************************************************************)
(* Proofs about Dispatch under every interleaving, fault and crash, for    *)
(* any drivers, orders, slots and bounds: saving comes before announcing,  *)
(* an event is applied once, and none is lost.                             *)
(***************************************************************************)
EXTENDS DispatchProperties, FiniteSetTheorems, TLAPS

EventKinds == {"created", "availability", "complete", "cancel"}

EventTypes == {"order.created", "order.cancelled", "delivery.completed",
               "driver.availability.changed"}

(* The form of the variables, as far as it is needed.                      *)
HandlerFields == {"pc", "kind", "entry", "order", "driver", "a", "todo"}
AggregateFields == {"status", "assigned", "offerAttempts", "attempts"}

WellFormed(r) == DOMAIN r = HandlerFields /\ DOMAIN r.a = AggregateFields

WholeEntry(e) == /\ e = [msg |-> e.msg, tries |-> e.tries]
                 /\ e.tries \in 0..MaxRetries

FormInv ==
  /\ DOMAIN slot = Slots
  /\ \A s \in Slots : WellFormed(slot[s])
  /\ \A e \in queue : WholeEntry(e)
  /\ DOMAIN given = Orders
  /\ told \in [Orders -> Seq(Event)]

(* Producers' events are messages, and no expirations.                     *)
SentInv ==
  /\ IsFiniteSet(sent)
  /\ \A m \in sent : m \in Message /\ m.type \in EventTypes

(* Which message a handler is on, and whether it is recorded.              *)
MessageInv(r) ==
  /\ r.entry # NoEntry => r.kind \in EventKinds \cup {"expire"} /\ WholeEntry(r.entry)
  /\ r.kind = "expire" => r.entry.msg.type = "dispatch.offer.expired"
  /\ r.pc = "commit" =>
       /\ r.kind \in {"complete", "cancel"}
       /\ r.entry.msg.type \in {"delivery.completed", "order.cancelled"}
       /\ r.entry.msg \notin processed
  /\ r.kind \in EventKinds /\ r.pc # "commit" => r.entry.msg \in processed

(* Where a handler of an event may be.                                     *)
PathInv(r) ==
  /\ r.pc = "recheck" => r.kind \in {"reject", "expire"}
  /\ r.kind \in EventKinds /\ r.pc \in {"row", "atts"} => r.a.status = "offered"

(* A driver is saved (among the drivers g of the orders) before he is      *)
(* announced.                                                              *)
SavedIn(r, g) ==
  r.a.status = "assigned" =>
    /\ r.pc \in {"row", "atts", "mark", "publish"} => r.a.assigned \in Drivers
    /\ r.pc \in {"atts", "mark", "publish"} /\ r.order \in Orders =>
         r.a.assigned \in g[r.order]

HandlersInv ==
  \A s \in Slots :
    MessageInv(slot[s]) /\ PathInv(slot[s]) /\ SavedIn(slot[s], given)

(* At most one handler is on the way through what an event causes.         *)
Applying(s) ==
  \/ slot[s].kind \in {"created", "availability", "complete"} /\ slot[s].pc # "ack"
  \/ slot[s].kind = "cancel" /\ slot[s].pc \in {"commit", "free"}

OneApplies ==
  \A s, t \in Slots :
    Applying(s) /\ Applying(t) /\ slot[s].entry.msg = slot[t].entry.msg => s = t

DispatchInv ==
  /\ FormInv /\ SentInv /\ HandlersInv
  /\ SavedBeforeTold /\ OneApplies /\ NoEventLost
-----------------------------------------------------------------------------
(* A handler takes over from the one in slot s without another message:    *)
(* it goes on, ends, or is a request's.                                    *)
GoesOn(s, r) ==
  /\ r.kind = slot[s].kind /\ r.entry = slot[s].entry
  /\ slot[s].pc # "ack" /\ r.pc # "commit"
  /\ r.kind = "cancel" => r.pc # "free"

HasNoMessage(s, r) ==
  /\ slot[s].entry = NoEntry \/ slot[s].pc = "ack"
  /\ r.entry = NoEntry /\ r.kind \notin EventKinds \cup {"expire"}
  /\ r.pc # "commit"

Advance(s, r) ==
  /\ slot' = [slot EXCEPT ![s] = r]
  /\ slot[s].pc # "commit"
  /\ WellFormed(r) /\ PathInv(r) /\ SavedIn(r, given')
  /\ GoesOn(s, r) \/ HasNoMessage(s, r)

(* The drivers of an order are only added to.                              *)
GivenGrows ==
  /\ DOMAIN given' = Orders
  /\ \A o \in Orders : given[o] \subseteq given'[o]

LEMMA SavedStays ==
  ASSUME GivenGrows, NEW r, SavedIn(r, given)
  PROVE  SavedIn(r, given')
BY DEF GivenGrows, SavedIn

LEMMA AdvanceStep ==
  ASSUME FormInv, SentInv, HandlersInv, OneApplies, NoEventLost,
         NEW s \in Slots, NEW r, Advance(s, r), GivenGrows, told' \in [Orders -> Seq(Event)],
         UNCHANGED <<processed, queue, dead, sent>>
  PROVE  FormInv' /\ SentInv' /\ HandlersInv' /\ OneApplies' /\ NoEventLost'
<1>1. /\ DOMAIN slot' = Slots /\ slot'[s] = r
      /\ \A t \in Slots : t # s => slot'[t] = slot[t]
  BY DEF Advance, FormInv
<1>2. FormInv'
  BY <1>1 DEF FormInv, Advance, GivenGrows, WellFormed, WholeEntry
<1>3. SentInv'
  BY DEF SentInv
<1>4. HandlersInv'
  <2> SUFFICES ASSUME NEW t \in Slots
               PROVE  (MessageInv(slot[t]) /\ PathInv(slot[t]) /\ SavedIn(slot[t], given))'
    BY DEF HandlersInv
  <2>1. CASE t # s
    <3>1. slot'[t] = slot[t]
      BY <1>1, <2>1
    <3>2. MessageInv(slot[t])' /\ PathInv(slot[t])'
      BY <3>1 DEF HandlersInv, MessageInv, PathInv, WholeEntry
    <3>3. SavedIn(slot[t], given')
      BY SavedStays DEF HandlersInv
    <3> QED BY <3>1, <3>2, <3>3
  <2>2. CASE t = s
    <3>1. slot'[t] = r
      BY <1>1, <2>2
    <3>2. PathInv(slot[t])' /\ SavedIn(slot[t], given)'
      BY <3>1 DEF Advance, PathInv, SavedIn
    <3>3. CASE GoesOn(s, r)
      <4>1. MessageInv(slot[s]) /\ slot[s].pc # "commit"
        BY DEF HandlersInv, Advance
      <4>2. MessageInv(slot[t])'
        BY <3>1, <3>3, <4>1 DEF GoesOn, MessageInv, WholeEntry
      <4> QED BY <3>2, <4>2
    <3>4. CASE HasNoMessage(s, r)
      <4>1. MessageInv(slot[t])'
        BY <3>1, <3>4 DEF HasNoMessage, MessageInv
      <4> QED BY <3>2, <4>1
    <3> QED BY <3>3, <3>4 DEF Advance
  <2> QED BY <2>1, <2>2
<1>5. \A t \in Slots : Applying(t)' => Applying(t) /\ slot'[t].entry = slot[t].entry
  <2> SUFFICES ASSUME NEW t \in Slots, Applying(t)'
               PROVE  Applying(t) /\ slot'[t].entry = slot[t].entry
    OBVIOUS
  <2>1. CASE t # s
    BY <1>1, <2>1 DEF Applying
  <2>2. CASE t = s
    <3>1. GoesOn(s, r)
      BY <1>1, <2>2 DEF Advance, HasNoMessage, EventKinds, Applying
    <3> QED BY <1>1, <2>2, <3>1 DEF GoesOn, Applying
  <2> QED BY <2>1, <2>2
<1>6. OneApplies'
  BY <1>5 DEF OneApplies
<1>7. NoEventLost'
  <2> SUFFICES ASSUME NEW m \in sent, m \notin processed \cup dead,
                      \A e \in queue : e.msg # m
               PROVE  \E t \in Slots : slot'[t].entry # NoEntry /\ slot'[t].entry.msg = m
    BY DEF NoEventLost
  <2>1. PICK t \in Slots : slot[t].entry # NoEntry /\ slot[t].entry.msg = m
    BY DEF NoEventLost
  <2>2. slot[t].kind \in EventKinds => slot[t].pc = "commit"
    BY <2>1 DEF HandlersInv, MessageInv
  <2>3. slot[t].kind # "expire"
    BY <2>1 DEF HandlersInv, MessageInv, SentInv, EventTypes
  <2>4. slot[t].pc = "commit"
    BY <2>1, <2>2, <2>3 DEF HandlersInv, MessageInv
  <2>5. t # s
    BY <2>4 DEF Advance
  <2> QED BY <1>1, <2>1, <2>5
<1> QED BY <1>2, <1>3, <1>4, <1>6, <1>7
-----------------------------------------------------------------------------
(* Aggregates that are loaded and the methods called on them.              *)
LEMMA LoadedForm ==
  ASSUME NEW o, NEW a \in ById(o)
  PROVE  DOMAIN a = AggregateFields
BY DEF ById, AggregateFields

LEMMA MethodFacts ==
  ASSUME NEW a, DOMAIN a = AggregateFields, NEW d, NEW n
  PROVE  /\ DOMAIN Accept(a, d) = AggregateFields
         /\ Accept(a, d).assigned = d
         /\ DOMAIN RejectByDriver(a) = AggregateFields
         /\ RejectByDriver(a).status = "awaiting_driver"
         /\ DOMAIN ExpireOffer(a) = AggregateFields
         /\ ExpireOffer(a).status = "awaiting_driver"
         /\ DOMAIN ForceAssign(a, d) = AggregateFields
         /\ ForceAssign(a, d).assigned = d
         /\ DOMAIN OfferTo(a, n, d) = AggregateFields
         /\ OfferTo(a, n, d).status = "offered"
         /\ DOMAIN MarkFailed(a) = AggregateFields
         /\ MarkFailed(a).status = "failed"
         /\ DOMAIN MarkCompleted(a) = AggregateFields
         /\ MarkCompleted(a).status = "completed"
         /\ DOMAIN Cancel(a) = AggregateFields
BY DEF Accept, RejectByDriver, ExpireOffer, ForceAssign, OfferTo, MarkFailed,
       MarkCompleted, Cancel, AggregateFields

LEMMA IdleFacts ==
  /\ WellFormed(Idle) /\ WellFormed([Idle EXCEPT !.pc = "ack"])
  /\ Idle.pc = "idle" /\ Idle.kind = "none" /\ Idle.entry = NoEntry
  /\ Idle.a = NewAssignment /\ Idle.order = NoRow /\ Idle.driver = NoDriver
  /\ Idle.todo = <<>>
  /\ NewAssignment.status = "awaiting_driver"
  /\ DOMAIN NewAssignment = AggregateFields
BY DEF Idle, WellFormed, NewAssignment, HandlerFields, AggregateFields

(* Where the end of a handler, and the next parked order, leave slot s.    *)
LEMMA DoneAdvances ==
  ASSUME NEW s, WellFormed(slot[s]), slot[s].pc \notin {"ack", "commit"}
  PROVE  LET r == Done(slot[s])
         IN  /\ WellFormed(r) /\ PathInv(r) /\ SavedIn(r, given')
             /\ GoesOn(s, r) \/ HasNoMessage(s, r)
<1>1. CASE slot[s].entry = NoEntry
  BY <1>1, IdleFacts DEF Done, PathInv, SavedIn, HasNoMessage, EventKinds
<1>2. CASE slot[s].entry # NoEntry
  <2> DEFINE r == [Idle EXCEPT !.pc = "ack", !.kind = slot[s].kind, !.entry = slot[s].entry]
  <2>1. /\ DOMAIN r = HandlerFields /\ r.a = NewAssignment /\ r.pc = "ack"
        /\ r.kind = slot[s].kind /\ r.entry = slot[s].entry
    BY DEF Idle, HandlerFields
  <2>2. Done(slot[s]) = r
    BY <1>2 DEF Done
  <2> HIDE DEF r
  <2>3. WellFormed(r) /\ PathInv(r) /\ SavedIn(r, given') /\ GoesOn(s, r)
    BY <2>1, IdleFacts DEF WellFormed, PathInv, SavedIn, GoesOn
  <2> QED BY <2>2, <2>3
<1> QED BY <1>1, <1>2

LEMMA NextOrderAdvances ==
  ASSUME NEW s, NEW q, WellFormed(slot[s]), slot[s].pc \notin {"ack", "commit"},
         q = slot[s] \/ \E t : q = [slot[s] EXCEPT !.todo = t]
  PROVE  LET r == NextOrder(q)
         IN  /\ WellFormed(r) /\ PathInv(r) /\ SavedIn(r, given')
             /\ GoesOn(s, r) \/ HasNoMessage(s, r)
<1>1. WellFormed(q) /\ q.kind = slot[s].kind /\ q.entry = slot[s].entry
  BY DEF WellFormed, HandlerFields
<1>2. CASE q.todo = <<>>
  <2>1. NextOrder(q) = Done(slot[s])
    BY <1>1, <1>2 DEF NextOrder, Done
  <2> QED BY <2>1, DoneAdvances
<1>3. CASE q.todo # <<>>
  <2> DEFINE r == [q EXCEPT !.pc = "load", !.order = Head(q.todo), !.todo = Tail(q.todo),
                            !.driver = NoDriver, !.a = NewAssignment]
  <2>1. /\ DOMAIN r = HandlerFields /\ r.a = NewAssignment /\ r.pc = "load"
        /\ r.kind = slot[s].kind /\ r.entry = slot[s].entry
    BY <1>1 DEF WellFormed, HandlerFields
  <2>2. NextOrder(q) = r
    BY <1>3 DEF NextOrder
  <2> HIDE DEF r
  <2>3. WellFormed(r) /\ PathInv(r) /\ SavedIn(r, given') /\ GoesOn(s, r)
    BY <2>1, IdleFacts DEF WellFormed, PathInv, SavedIn, GoesOn
  <2> QED BY <2>2, <2>3
<1> QED BY <1>2, <1>3
-----------------------------------------------------------------------------
(* The steps of a running handler, but for its commit and its publishing.  *)
LEMMA UpsertFacts ==
  ASSUME FormInv, NEW o, NEW a, UpsertRow(o, a)
  PROVE  /\ GivenGrows
         /\ o \in Orders /\ a.assigned \in Drivers => a.assigned \in given'[o]
BY NoDriverAssumption DEF FormInv, UpsertRow, GivenGrows

LEMMA StepAdvances ==
  ASSUME FormInv, HandlersInv, NEW s \in Slots, Step(s), ~Commit(s), ~Publish(s)
  PROVE  /\ \E r : Advance(s, r)
         /\ GivenGrows
         /\ UNCHANGED <<told, processed, queue, dead, sent>>
<1>0. WellFormed(slot[s]) /\ PathInv(slot[s]) /\ SavedIn(slot[s], given)
  BY DEF FormInv, HandlersInv
<1>1. CASE SaveRow(s)
  <2> DEFINE r == [slot[s] EXCEPT !.pc = "atts"]
  <2>1. slot' = [slot EXCEPT ![s] = r]
    BY <1>1 DEF SaveRow, Become
  <2>2. /\ DOMAIN r = HandlerFields /\ r.kind = slot[s].kind /\ r.entry = slot[s].entry
        /\ r.pc = "atts" /\ r.a = slot[s].a /\ r.order = slot[s].order
    BY <1>0 DEF WellFormed, HandlerFields
  <2> HIDE DEF r
  <2>3. GivenGrows
    BY <1>1, UpsertFacts DEF SaveRow, db, GivenGrows, FormInv
  <2>4. Advance(s, r)
    BY <1>0, <1>1, <2>1, <2>2, <2>3, UpsertFacts
       DEF Advance, SaveRow, WellFormed, PathInv, SavedIn, GoesOn
  <2> QED BY <1>1, <2>3, <2>4 DEF SaveRow, db, env
<1>2. CASE SaveAttempts(s)
  <2> DEFINE r == AfterSave(slot[s])
  <2>1. slot' = [slot EXCEPT ![s] = r]
    BY <1>2 DEF SaveAttempts, Become
  <2>2. /\ DOMAIN r = HandlerFields /\ r.kind = slot[s].kind /\ r.entry = slot[s].entry
        /\ r.a = slot[s].a /\ r.order = slot[s].order
        /\ r.pc \in {"schedule", "publish", "mark", "free"}
        /\ r.pc = "free" => slot[s].a.status # "offered"
    BY <1>0 DEF AfterSave, WellFormed, HandlerFields
  <2> HIDE DEF r
  <2>3. GivenGrows
    BY <1>2 DEF SaveAttempts, GivenGrows, FormInv
  <2>4. Advance(s, r)
    BY <1>0, <1>2, <2>1, <2>2, <2>3
       DEF Advance, SaveAttempts, WellFormed, PathInv, SavedIn, GoesOn, EventKinds, GivenGrows
  <2> QED BY <1>2, <2>3, <2>4 DEF SaveAttempts, env
<1>3. CASE FreeDriver(s)
  <2> DEFINE r == [slot[s] EXCEPT !.driver = NoDriver, !.a = NewAssignment,
                     !.pc = IF slot[s].kind \in {"reject", "expire"}
                            THEN "recheck" ELSE "parked"]
  <2>1. slot' = [slot EXCEPT ![s] = r]
    BY <1>3 DEF FreeDriver, Become
  <2>2. /\ DOMAIN r = HandlerFields /\ r.kind = slot[s].kind /\ r.entry = slot[s].entry
        /\ r.a = NewAssignment /\ r.pc \in {"recheck", "parked"}
        /\ r.pc = "recheck" => slot[s].kind \in {"reject", "expire"}
    BY <1>0 DEF WellFormed, HandlerFields
  <2> HIDE DEF r
  <2>3. GivenGrows
    BY <1>3 DEF FreeDriver, db, GivenGrows, FormInv
  <2>4. Advance(s, r)
    BY <1>0, <1>3, <2>1, <2>2, <2>3, IdleFacts
       DEF Advance, FreeDriver, WellFormed, PathInv, SavedIn, GoesOn
  <2> QED BY <1>3, <2>3, <2>4 DEF FreeDriver, db, env
<1>4. CASE Recheck(s)
  <2>1. PICK a \in ById(slot[s].order) :
          slot' = [slot EXCEPT ![s] =
            IF a.status # "awaiting_driver" THEN Done(slot[s])
            ELSE IF Exhausted(a)
            THEN [slot[s] EXCEPT !.pc = "row", !.a = MarkFailed(a)]
            ELSE [slot[s] EXCEPT !.pc = "load"]]
    BY <1>4 DEF Recheck, Become
  <2>2. GivenGrows
    BY <1>4 DEF Recheck, db, GivenGrows, FormInv
  <2>3. slot[s].pc = "recheck" /\ slot[s].kind \in {"reject", "expire"}
    BY <1>0, <1>4 DEF Recheck, PathInv
  <2>4. CASE a.status # "awaiting_driver"
    <3>1. Advance(s, Done(slot[s]))
      BY <1>0, <2>1, <2>3, <2>4, DoneAdvances DEF Advance
    <3> QED BY <1>4, <2>2, <3>1 DEF Recheck, db, env
  <2>5. CASE a.status = "awaiting_driver" /\ Exhausted(a)
    <3> DEFINE r == [slot[s] EXCEPT !.pc = "row", !.a = MarkFailed(a)]
    <3>1. slot' = [slot EXCEPT ![s] = r]
      BY <2>1, <2>5
    <3>2. /\ DOMAIN r = HandlerFields /\ r.kind = slot[s].kind /\ r.entry = slot[s].entry
          /\ r.a = MarkFailed(a) /\ r.pc = "row"
      BY <1>0 DEF WellFormed, HandlerFields
    <3>3. DOMAIN MarkFailed(a) = AggregateFields /\ MarkFailed(a).status = "failed"
      BY LoadedForm, MethodFacts
    <3> HIDE DEF r
    <3>4. Advance(s, r)
      BY <2>3, <3>1, <3>2, <3>3
         DEF Advance, WellFormed, PathInv, SavedIn, GoesOn, EventKinds
    <3> QED BY <1>4, <2>2, <3>4 DEF Recheck, db, env
  <2>6. CASE a.status = "awaiting_driver" /\ ~Exhausted(a)
    <3> DEFINE r == [slot[s] EXCEPT !.pc = "load"]
    <3>1. slot' = [slot EXCEPT ![s] = r]
      BY <2>1, <2>6
    <3>2. /\ DOMAIN r = HandlerFields /\ r.kind = slot[s].kind /\ r.entry = slot[s].entry
          /\ r.a = slot[s].a /\ r.pc = "load"
      BY <1>0 DEF WellFormed, HandlerFields
    <3> HIDE DEF r
    <3>3. Advance(s, r)
      BY <1>0, <2>3, <3>1, <3>2 DEF Advance, WellFormed, PathInv, SavedIn, GoesOn
    <3> QED BY <1>4, <2>2, <3>3 DEF Recheck, db, env
  <2> QED BY <2>4, <2>5, <2>6
<1>5. CASE Load(s)
  <2>1. PICK a \in ById(slot[s].order) :
          slot' = [slot EXCEPT ![s] =
            IF a.status # "awaiting_driver" THEN NextOrder(slot[s])
            ELSE [slot[s] EXCEPT !.pc = "claim", !.a = a]]
    BY <1>5 DEF Load, Become
  <2>2. GivenGrows /\ slot[s].pc = "load"
    BY <1>5 DEF Load, db, GivenGrows, FormInv
  <2>3. CASE a.status # "awaiting_driver"
    <3>1. Advance(s, NextOrder(slot[s]))
      BY <1>0, <2>1, <2>2, <2>3, NextOrderAdvances DEF Advance
    <3> QED BY <1>5, <2>2, <3>1 DEF Load, db, env
  <2>4. CASE a.status = "awaiting_driver"
    <3> DEFINE r == [slot[s] EXCEPT !.pc = "claim", !.a = a]
    <3>1. slot' = [slot EXCEPT ![s] = r]
      BY <2>1, <2>4
    <3>2. /\ DOMAIN r = HandlerFields /\ r.kind = slot[s].kind /\ r.entry = slot[s].entry
          /\ r.a = a /\ r.pc = "claim"
      BY <1>0 DEF WellFormed, HandlerFields
    <3> HIDE DEF r
    <3>3. Advance(s, r)
      BY <2>2, <2>4, <3>1, <3>2, LoadedForm DEF Advance, WellFormed, PathInv, SavedIn, GoesOn
    <3> QED BY <1>5, <2>2, <3>3 DEF Load, db, env
  <2> QED BY <2>3, <2>4
<1>6. CASE Claim(s)
  <2>1. GivenGrows /\ slot[s].pc = "claim"
    BY <1>6 DEF Claim, GivenGrows, FormInv
  <2>2. ASSUME NEW d \in Drivers, NEW n,
               slot' = [slot EXCEPT ![s] = [slot[s] EXCEPT !.pc = "row",
                                              !.a = OfferTo(slot[s].a, n, d)]]
        PROVE  \E r : Advance(s, r)
    <3> DEFINE r == [slot[s] EXCEPT !.pc = "row", !.a = OfferTo(slot[s].a, n, d)]
    <3>1. /\ DOMAIN r = HandlerFields /\ r.kind = slot[s].kind /\ r.entry = slot[s].entry
          /\ r.a = OfferTo(slot[s].a, n, d) /\ r.pc = "row"
      BY <1>0 DEF WellFormed, HandlerFields
    <3>2. /\ DOMAIN OfferTo(slot[s].a, n, d) = AggregateFields
          /\ OfferTo(slot[s].a, n, d).status = "offered"
      BY <1>0, MethodFacts DEF WellFormed
    <3>3. slot' = [slot EXCEPT ![s] = r]
      BY <2>2
    <3> HIDE DEF r
    <3>4. Advance(s, r)
      BY <2>1, <3>1, <3>2, <3>3 DEF Advance, WellFormed, PathInv, SavedIn, GoesOn
    <3> QED BY <3>4
  <2>3. ASSUME slot' = [slot EXCEPT ![s] = NextOrder(slot[s])]
        PROVE  \E r : Advance(s, r)
    BY <1>0, <2>1, <2>3, NextOrderAdvances DEF Advance
  <2>4. \E r : Advance(s, r)
    BY <1>6, <2>2, <2>3 DEF Claim, Become
  <2> QED BY <1>6, <2>1, <2>4 DEF Claim, env
<1>7. CASE ScheduleExpiry(s)
  <2>1. slot' = [slot EXCEPT ![s] = NextOrder(slot[s])] /\ slot[s].pc = "schedule"
    BY <1>7 DEF ScheduleExpiry, Become
  <2>2. GivenGrows
    BY <1>7 DEF ScheduleExpiry, db, GivenGrows, FormInv
  <2>3. Advance(s, NextOrder(slot[s]))
    BY <1>0, <2>1, NextOrderAdvances DEF Advance
  <2> QED BY <1>7, <2>2, <2>3 DEF ScheduleExpiry, db, env
<1>8. CASE UpdatePool(s)
  <2>1. GivenGrows /\ slot[s].pc = "pool"
    BY <1>8 DEF UpdatePool, db, GivenGrows, FormInv
  <2>2. CASE slot[s].entry.msg.isAvailable
    <3> DEFINE r == [slot[s] EXCEPT !.pc = "parked", !.driver = NoDriver]
    <3>1. slot' = [slot EXCEPT ![s] = r]
      BY <1>8, <2>2 DEF UpdatePool, Become
    <3>2. /\ DOMAIN r = HandlerFields /\ r.kind = slot[s].kind /\ r.entry = slot[s].entry
          /\ r.a = slot[s].a /\ r.pc = "parked"
      BY <1>0 DEF WellFormed, HandlerFields
    <3> HIDE DEF r
    <3>3. Advance(s, r)
      BY <1>0, <2>1, <3>1, <3>2 DEF Advance, WellFormed, PathInv, SavedIn, GoesOn
    <3> QED BY <1>8, <2>1, <3>3 DEF UpdatePool, db, env
  <2>3. CASE ~slot[s].entry.msg.isAvailable
    <3>1. slot' = [slot EXCEPT ![s] = Done(slot[s])]
      BY <1>8, <2>3 DEF UpdatePool, Become
    <3>2. Advance(s, Done(slot[s]))
      BY <1>0, <2>1, <3>1, DoneAdvances DEF Advance
    <3> QED BY <1>8, <2>1, <3>2 DEF UpdatePool, db, env
  <2> QED BY <2>2, <2>3
<1>9. CASE RetryParked(s)
  <2>1. PICK t : slot' = [slot EXCEPT ![s] = NextOrder([slot[s] EXCEPT !.todo = t])]
    BY <1>9 DEF RetryParked, Become
  <2> DEFINE q == [slot[s] EXCEPT !.todo = t]
  <2>2. GivenGrows /\ slot[s].pc = "parked"
    BY <1>9 DEF RetryParked, db, GivenGrows, FormInv
  <2>3. \E u : q = [slot[s] EXCEPT !.todo = u]
    OBVIOUS
  <2>4. slot' = [slot EXCEPT ![s] = NextOrder(q)]
    BY <2>1
  <2> HIDE DEF q
  <2>5. Advance(s, NextOrder(q))
    BY <1>0, <2>2, <2>3, <2>4, NextOrderAdvances DEF Advance
  <2> QED BY <1>9, <2>2, <2>5 DEF RetryParked, db, env
<1>10. CASE MarkBusy(s)
  <2> DEFINE r == [slot[s] EXCEPT !.pc = "publish"]
  <2>1. slot' = [slot EXCEPT ![s] = r]
    BY <1>10 DEF MarkBusy, Become
  <2>2. /\ DOMAIN r = HandlerFields /\ r.kind = slot[s].kind /\ r.entry = slot[s].entry
        /\ r.pc = "publish" /\ r.a = slot[s].a /\ r.order = slot[s].order
    BY <1>0 DEF WellFormed, HandlerFields
  <2> HIDE DEF r
  <2>3. GivenGrows
    BY <1>10 DEF MarkBusy, db, GivenGrows, FormInv
  <2>4. Advance(s, r)
    BY <1>0, <1>10, <2>1, <2>2, <2>3
       DEF Advance, MarkBusy, WellFormed, PathInv, SavedIn, GoesOn, GivenGrows
  <2> QED BY <1>10, <2>3, <2>4 DEF MarkBusy, db, env
<1>11. CASE Ack(s)
  <2>1. slot' = [slot EXCEPT ![s] = Idle] /\ slot[s].pc = "ack"
    BY <1>11 DEF Ack, Become
  <2>2. GivenGrows
    BY <1>11 DEF Ack, db, GivenGrows, FormInv
  <2>3. Advance(s, Idle)
    BY <2>1, IdleFacts DEF Advance, PathInv, SavedIn, HasNoMessage, EventKinds
  <2> QED BY <1>11, <2>2, <2>3 DEF Ack, db, env
<1> QED
  BY <1>1, <1>2, <1>3, <1>4, <1>5, <1>6, <1>7, <1>8, <1>9, <1>10, <1>11 DEF Step

(* What is announced was saved, as long as nothing more is announced.      *)
LEMMA ToldStays ==
  ASSUME SavedBeforeTold, GivenGrows, UNCHANGED told
  PROVE  SavedBeforeTold'
BY DEF SavedBeforeTold, GivenGrows

(* Publishing announces what was saved.                                    *)
LEMMA PublishStep ==
  ASSUME FormInv, HandlersInv, SavedBeforeTold, NEW s \in Slots, Publish(s)
  PROVE  /\ \E r : Advance(s, r)
         /\ GivenGrows
         /\ told' \in [Orders -> Seq(Event)]
         /\ SavedBeforeTold'
         /\ UNCHANGED <<processed, queue, dead, sent>>
<1> DEFINE h == slot[s]
           new == Raised(h.a)
<1>1. /\ h.pc = "publish" /\ WellFormed(h) /\ SavedIn(h, given)
      /\ told' = [told EXCEPT ![h.order] = @ \o new]
      /\ slot' = [slot EXCEPT ![s] = Done(h)]
      /\ UNCHANGED <<given, processed, queue, dead, sent>>
  BY DEF Publish, FormInv, HandlersInv, db, env, Become
<1>2. GivenGrows
  BY <1>1 DEF GivenGrows, FormInv
<1>3. Advance(s, Done(h))
  BY <1>1, DoneAdvances DEF Advance
<1>4. /\ new \in Seq(Event)
      /\ \A i \in DOMAIN new : new[i].type = "driver.assigned" /\ h.order \in Orders =>
           new[i].driver \in given[h.order]
  <2>1. CASE h.a.status = "assigned"
    <3>1. h.a.assigned \in Drivers
      BY <1>1, <2>1 DEF SavedIn
    <3>2. new = <<DriverAssigned(h.a.assigned)>>
      BY <2>1 DEF Raised
    <3>3. DriverAssigned(h.a.assigned) \in Event
      BY <3>1 DEF DriverAssigned, Event
    <3>4. h.order \in Orders => h.a.assigned \in given[h.order]
      BY <1>1, <2>1 DEF SavedIn
    <3> QED BY <3>2, <3>3, <3>4 DEF DriverAssigned
  <2>2. CASE h.a.status = "failed"
    <3>1. new = <<AssignmentFailed>>
      BY <2>2 DEF Raised
    <3> QED BY <3>1 DEF AssignmentFailed, Event
  <2>3. CASE h.a.status \notin {"assigned", "failed"}
    BY <2>3 DEF Raised
  <2> QED BY <2>1, <2>2, <2>3
<1> HIDE DEF h, new
<1>5. told' \in [Orders -> Seq(Event)]
  <2>1. told' = [o \in Orders |-> IF o = h.order THEN told[o] \o new ELSE told[o]]
    BY <1>1 DEF FormInv
  <2>2. \A o \in Orders : told[o] \in Seq(Event) /\ told[o] \o new \in Seq(Event)
    BY <1>4 DEF FormInv
  <2> QED BY <2>1, <2>2
<1>6. SavedBeforeTold'
  <2> SUFFICES ASSUME NEW o \in Orders, NEW i \in DOMAIN told'[o],
                      told'[o][i].type = "driver.assigned"
               PROVE  told'[o][i].driver \in given[o]
    BY <1>1 DEF SavedBeforeTold
  <2>1. told[o] \in Seq(Event)
    BY DEF FormInv
  <2>2. CASE o # h.order
    BY <1>1, <2>2 DEF SavedBeforeTold, FormInv
  <2>3. CASE o = h.order
    <3>1. told'[o] = told[o] \o new
      BY <1>1, <2>3 DEF FormInv
    <3>2. CASE i \in DOMAIN told[o]
      BY <2>1, <1>4, <3>1, <3>2 DEF SavedBeforeTold
    <3>3. CASE i \notin DOMAIN told[o]
      <4>1. /\ i - Len(told[o]) \in DOMAIN new
            /\ told'[o][i] = new[i - Len(told[o])]
        BY <2>1, <1>4, <3>1, <3>3
      <4> QED BY <1>4, <2>3, <4>1
    <3> QED BY <3>2, <3>3
  <2> QED BY <2>2, <2>3
<1> QED BY <1>1, <1>2, <1>3, <1>5, <1>6

(* A request starts a handler without a message.                           *)
LEMMA RequestAdvances ==
  ASSUME FormInv, NEW s \in Slots, Request(s)
  PROVE  /\ \E r : Advance(s, r)
         /\ GivenGrows
         /\ UNCHANGED <<told, processed, queue, dead, sent>>
<1>1. PICK o \in Orders, d \in Drivers :
        AcceptOffer(s, o, d) \/ RejectOffer(s, o, d) \/ ForceAssignOrder(s, o, d)
  BY DEF Request
<1>2. slot[s] = Idle /\ UNCHANGED <<given, told, processed, queue, dead, sent>>
  BY <1>1 DEF AcceptOffer, RejectOffer, ForceAssignOrder, db, env
<1>3. GivenGrows
  BY <1>2 DEF GivenGrows, FormInv
<1>4. ASSUME NEW a, DOMAIN a = AggregateFields,
             a.status = "assigned" => a.assigned \in Drivers,
             NEW kind \in {"accept", "reject", "force"}, Starting(s, kind, o, d, a)
      PROVE  \E r : Advance(s, r)
  <2> DEFINE r == [Idle EXCEPT !.pc = "row", !.kind = kind, !.order = o,
                               !.driver = d, !.a = a]
  <2>1. slot' = [slot EXCEPT ![s] = r]
    BY <1>4 DEF Starting, Become
  <2>2. /\ DOMAIN r = HandlerFields /\ r.kind = kind /\ r.entry = NoEntry
        /\ r.a = a /\ r.pc = "row"
    BY DEF Idle, HandlerFields
  <2> HIDE DEF r
  <2>3. Advance(s, r)
    BY <1>2, <1>4, <2>1, <2>2, IdleFacts
       DEF Advance, WellFormed, PathInv, SavedIn, HasNoMessage, EventKinds
  <2> QED BY <2>3
<1>5. CASE AcceptOffer(s, o, d)
  <2>1. PICK a \in ById(o) : Starting(s, "accept", o, d, Accept(a, d))
    BY <1>5 DEF AcceptOffer
  <2> QED BY <1>2, <1>3, <1>4, <2>1, LoadedForm, MethodFacts
<1>6. CASE RejectOffer(s, o, d)
  <2>1. PICK a \in ById(o) : Starting(s, "reject", o, d, RejectByDriver(a))
    BY <1>6 DEF RejectOffer
  <2>2. DOMAIN a = AggregateFields
    BY LoadedForm
  <2>3. /\ DOMAIN RejectByDriver(a) = AggregateFields
        /\ RejectByDriver(a).status = "awaiting_driver"
    BY <2>2, MethodFacts
  <2> QED BY <1>2, <1>3, <1>4, <2>1, <2>3
<1>7. CASE ForceAssignOrder(s, o, d)
  <2>1. PICK a \in ById(o) : Starting(s, "force", o, d, ForceAssign(a, d))
    BY <1>7 DEF ForceAssignOrder
  <2> QED BY <1>2, <1>3, <1>4, <2>1, LoadedForm, MethodFacts
<1> QED BY <1>1, <1>5, <1>6, <1>7

(* A transaction that commits records its event, which no other one did.   *)
LEMMA CommitStep ==
  ASSUME DispatchInv, NEW s \in Slots, Commit(s)
  PROVE  DispatchInv'
<1> DEFINE m == slot[s].entry.msg
           r == [slot[s] EXCEPT !.a = NewAssignment,
                  !.pc = IF slot[s].driver # NoDriver THEN "free" ELSE "parked"]
<1> USE DEF DispatchInv
<1>1. /\ slot[s].pc = "commit" /\ WellFormed(slot[s]) /\ MessageInv(slot[s])
      /\ UpsertRow(slot[s].order, slot[s].a)
      /\ processed' = processed \cup {m}
      /\ slot' = [slot EXCEPT ![s] = r]
      /\ UNCHANGED <<told, queue, dead, sent>>
  BY DEF Commit, FormInv, HandlersInv, env, Become
<1>2. /\ DOMAIN r = HandlerFields /\ r.kind = slot[s].kind /\ r.entry = slot[s].entry
      /\ r.a = NewAssignment /\ r.pc \in {"free", "parked"}
  BY <1>1 DEF WellFormed, HandlerFields
<1> HIDE DEF r
<1>3. GivenGrows
  BY <1>1, UpsertFacts
<1>4. /\ DOMAIN slot' = Slots /\ slot'[s] = r
      /\ \A t \in Slots : t # s => slot'[t] = slot[t]
  BY <1>1 DEF FormInv
<1>5. FormInv' /\ SentInv'
  BY <1>1, <1>2, <1>3, <1>4, IdleFacts DEF FormInv, SentInv, GivenGrows, WellFormed, WholeEntry
<1>6. HandlersInv'
  <2> SUFFICES ASSUME NEW t \in Slots
               PROVE  (MessageInv(slot[t]) /\ PathInv(slot[t]) /\ SavedIn(slot[t], given))'
    BY DEF HandlersInv
  <2>1. CASE t # s
    <3>1. slot'[t] = slot[t]
      BY <1>4, <2>1
    <3>2. slot[t].pc = "commit" => slot[t].entry.msg # m
      BY <1>1, <2>1 DEF OneApplies, Applying, HandlersInv, MessageInv
    <3>3. MessageInv(slot[t]) /\ PathInv(slot[t]) /\ SavedIn(slot[t], given')
      BY <1>3, SavedStays DEF HandlersInv
    <3>4. MessageInv(slot[t])'
      BY <1>1, <3>1, <3>2, <3>3 DEF MessageInv, WholeEntry
    <3>5. PathInv(slot[t])'
      BY <3>1, <3>3 DEF PathInv
    <3> QED BY <3>1, <3>3, <3>4, <3>5
  <2>2. CASE t = s
    <3>1. slot'[t] = r
      BY <1>4, <2>2
    <3>2. MessageInv(slot[t])'
      BY <1>1, <1>2, <3>1 DEF MessageInv, WholeEntry
    <3>3. PathInv(slot[t])' /\ SavedIn(slot[t], given)'
      BY <1>2, <3>1, IdleFacts DEF PathInv, SavedIn
    <3> QED BY <3>2, <3>3
  <2> QED BY <2>1, <2>2
<1>7. OneApplies'
  <2>1. \A t \in Slots : Applying(t)' => Applying(t) /\ slot'[t].entry = slot[t].entry
    BY <1>1, <1>2, <1>4 DEF Applying, MessageInv
  <2> QED BY <2>1 DEF OneApplies
<1>8. NoEventLost'
  <2>1. \A t \in Slots : slot'[t].entry = slot[t].entry
    BY <1>2, <1>4
  <2> QED BY <1>1, <2>1 DEF NoEventLost
<1>9. SavedBeforeTold'
  BY <1>1, <1>3, ToldStays
<1> QED BY <1>5, <1>6, <1>7, <1>8, <1>9
-----------------------------------------------------------------------------
(* What a delivery takes from the broker.                                  *)
LEMMA ArrivingFacts ==
  ASSUME SentInv, NEW m \in Arriving
  PROVE  m \in Message /\ m.type \in EventTypes
<1>1. CASE m.type = "driver.availability.changed"
  <2>1. PICK d \in Drivers :
          /\ Cardinality(Toggles(d)) < MaxToggles
          /\ m = [type |-> "driver.availability.changed", driver |-> d,
                  n |-> Cardinality(Toggles(d)) + 1,
                  isAvailable |-> Cardinality(Toggles(d)) % 2 = 0]
    BY <1>1 DEF Arriving
  <2>2. IsFiniteSet(Toggles(d))
    BY FS_Subset DEF SentInv, Toggles
  <2>3. Cardinality(Toggles(d)) \in Nat
    BY <2>2, FS_CardinalityType
  <2>4. Cardinality(Toggles(d)) + 1 \in 1..MaxToggles
    BY <2>1, <2>3, DispatchAssumption
  <2>5. m \in DriverEvent
    BY <2>1, <2>4 DEF DriverEvent
  <2> QED BY <1>1, <2>5 DEF Message, EventTypes
<1>2. CASE m.type # "driver.availability.changed"
  <2>1. m \in OrderEvent
    BY <1>2 DEF Arriving, OrderEvent
  <2> QED BY <2>1 DEF Message, OrderEvent, EventTypes
<1> QED BY <1>1, <1>2

LEMMA TakeFacts ==
  ASSUME FormInv, SentInv, NEW e \in Deliverable, NEW again, Take(e, again)
  PROVE  /\ WholeEntry(e)
         /\ SentInv'
         /\ \A x \in queue : x # e => x \in queue'
         /\ queue' \subseteq queue \cup again
         /\ again \subseteq queue'
         /\ \A m \in sent' : m \in sent \/ m = e.msg
<1>1. WholeEntry(e)
  <2>1. CASE e \in queue
    BY <2>1 DEF FormInv
  <2>2. CASE e \notin queue
    <3>1. PICK m : e = [msg |-> m, tries |-> 0]
      BY <2>2 DEF Deliverable
    <3> QED BY <3>1, DispatchAssumption DEF WholeEntry
  <2> QED BY <2>1, <2>2
<1>2. sent' = sent \/ (e.msg \in Arriving /\ sent' = sent \cup {e.msg})
  BY DEF Take
<1>3. SentInv'
  <2>1. CASE sent' = sent
    BY <2>1 DEF SentInv
  <2>2. CASE e.msg \in Arriving /\ sent' = sent \cup {e.msg}
    <3>1. IsFiniteSet(sent')
      BY <2>2, FS_AddElement DEF SentInv
    <3> QED BY <2>2, <3>1, ArrivingFacts DEF SentInv
  <2> QED BY <1>2, <2>1, <2>2
<1> QED BY <1>1, <1>2, <1>3 DEF Take

(* An entry of a producer's event is not the null entry.                   *)
LEMMA EntryIsReal ==
  ASSUME NEW e, WholeEntry(e), e.msg \in Message
  PROVE  e # NoEntry
BY NoEntryAssumption DEF WholeEntry, Entry

(* The handler r that a message's delivery starts.                         *)
NoOtherCommits(m) ==
  \A t \in Slots : slot[t].pc = "commit" => slot[t].entry.msg # m

Starts(s, e, r) ==
  /\ slot' = [slot EXCEPT ![s] = r]
  /\ WellFormed(r) /\ PathInv(r) /\ SavedIn(r, given')
  /\ r.entry = e
  /\ \/ r.kind = "expire" /\ r.pc = "row" /\ e.msg.type = "dispatch.offer.expired"
     \/ /\ r.kind \in {"created", "availability"} /\ r.pc # "commit"
        /\ IsNew(e.msg) /\ e.msg \in processed'
     \/ /\ r.kind \in {"complete", "cancel"} /\ r.pc = "commit"
        /\ IsNew(e.msg) /\ processed' = processed
        /\ e.msg.type \in {"delivery.completed", "order.cancelled"}
     \/ /\ r.kind = "cancel" /\ r.pc = "parked" /\ e.msg \in processed'

(* A delivery starts a handler, or the message needs none.                 *)
Handled(s, e) ==
  /\ GivenGrows
  /\ \/ processed' = processed
     \/ processed' = processed \cup {e.msg} /\ NoOtherCommits(e.msg)
  /\ \/ /\ slot' = slot
        /\ e.msg \in processed' \/ e.msg.type = "dispatch.offer.expired"
     \/ (\E r : Starts(s, e, r)) /\ NoOtherCommits(e.msg)

LEMMA CreatedHandled ==
  ASSUME FormInv, HandlersInv, NEW s \in Slots, NEW e, DeliverCreated(s, e)
  PROVE  Handled(s, e)
<1>1. NoOtherCommits(e.msg)
  BY DEF NoOtherCommits, HandlersInv, MessageInv, DeliverCreated
<1>2. CASE ~IsNew(e.msg) /\ UNCHANGED <<db, slot>>
  BY <1>2 DEF Handled, db, IsNew, GivenGrows, FormInv
<1>3. CASE ~(~IsNew(e.msg) /\ UNCHANGED <<db, slot>>)
  <2> DEFINE r == [Idle EXCEPT !.pc = "load", !.kind = "created",
                               !.entry = e, !.order = e.msg.order]
  <2>1. /\ IsNew(e.msg) /\ processed' = processed \cup {e.msg}
        /\ UpsertRow(e.msg.order, NewAssignment)
        /\ slot' = [slot EXCEPT ![s] = r]
    BY <1>3 DEF DeliverCreated, Become
  <2>2. /\ DOMAIN r = HandlerFields /\ r.kind = "created" /\ r.entry = e
        /\ r.a = NewAssignment /\ r.pc = "load"
    BY DEF Idle, HandlerFields
  <2> HIDE DEF r
  <2>3. Starts(s, e, r)
    BY <2>1, <2>2, IdleFacts DEF Starts, WellFormed, PathInv, SavedIn
  <2> QED BY <1>1, <2>1, <2>3, UpsertFacts DEF Handled
<1> QED BY <1>2, <1>3

LEMMA AvailabilityHandled ==
  ASSUME FormInv, HandlersInv, NEW s \in Slots, NEW e, DeliverAvailability(s, e)
  PROVE  Handled(s, e)
<1>1. NoOtherCommits(e.msg)
  BY DEF NoOtherCommits, HandlersInv, MessageInv, DeliverAvailability
<1>2. GivenGrows
  BY DEF DeliverAvailability, db, GivenGrows, FormInv
<1>3. CASE ~IsNew(e.msg) /\ UNCHANGED <<db, slot>>
  BY <1>2, <1>3 DEF Handled, db, IsNew
<1>4. CASE ~(~IsNew(e.msg) /\ UNCHANGED <<db, slot>>)
  <2> DEFINE r == [Idle EXCEPT !.pc = "pool", !.kind = "availability",
                               !.entry = e, !.driver = e.msg.driver]
  <2>1. /\ IsNew(e.msg) /\ processed' = processed \cup {e.msg}
        /\ slot' = [slot EXCEPT ![s] = r]
    BY <1>4 DEF DeliverAvailability, Become
  <2>2. /\ DOMAIN r = HandlerFields /\ r.kind = "availability" /\ r.entry = e
        /\ r.a = NewAssignment /\ r.pc = "pool"
    BY DEF Idle, HandlerFields
  <2> HIDE DEF r
  <2>3. Starts(s, e, r)
    BY <2>1, <2>2, IdleFacts DEF Starts, WellFormed, PathInv, SavedIn
  <2> QED BY <1>1, <1>2, <2>1, <2>3 DEF Handled
<1> QED BY <1>3, <1>4

LEMMA CommitStarts ==
  ASSUME FormInv, NEW s \in Slots, NEW e, NEW a, DOMAIN a = AggregateFields,
         NEW kind \in {"complete", "cancel"}, NEW o, NEW d,
         slot' = [slot EXCEPT ![s] = [Idle EXCEPT !.pc = "commit", !.kind = kind,
                    !.entry = e, !.order = o, !.driver = d, !.a = a]],
         IsNew(e.msg), processed' = processed,
         e.msg.type \in {"delivery.completed", "order.cancelled"}
  PROVE  \E r : Starts(s, e, r)
<1> DEFINE r == [Idle EXCEPT !.pc = "commit", !.kind = kind,
                   !.entry = e, !.order = o, !.driver = d, !.a = a]
<1>1. /\ DOMAIN r = HandlerFields /\ r.kind = kind /\ r.entry = e
      /\ r.a = a /\ r.pc = "commit"
  BY DEF Idle, HandlerFields
<1>2. slot' = [slot EXCEPT ![s] = r]
  OBVIOUS
<1> HIDE DEF r
<1>3. Starts(s, e, r)
  BY <1>1, <1>2 DEF Starts, WellFormed, PathInv, SavedIn
<1> QED BY <1>3

LEMMA CompletedHandled ==
  ASSUME FormInv, HandlersInv, NEW s \in Slots, NEW e, DeliverCompleted(s, e)
  PROVE  Handled(s, e)
<1>1. NoOtherCommits(e.msg) /\ e.msg.type = "delivery.completed"
  BY DEF NoOtherCommits, NoOtherTx, DeliverCompleted
<1>2. GivenGrows
  BY DEF DeliverCompleted, db, GivenGrows, FormInv
<1>3. CASE ~IsNew(e.msg) /\ UNCHANGED <<db, slot>>
  BY <1>2, <1>3 DEF Handled, db, IsNew
<1>4. CASE processed' = processed \cup {e.msg} /\ UNCHANGED slot
  BY <1>1, <1>2, <1>4 DEF Handled
<1>5. CASE /\ IsNew(e.msg)
           /\ \E a \in ById(e.msg.order) :
                Become(s, [Idle EXCEPT !.pc = "commit", !.kind = "complete",
                             !.entry = e, !.order = e.msg.order,
                             !.driver = a.assigned, !.a = MarkCompleted(a)])
           /\ UNCHANGED db
  <2>1. PICK a \in ById(e.msg.order) :
          slot' = [slot EXCEPT ![s] = [Idle EXCEPT !.pc = "commit", !.kind = "complete",
                     !.entry = e, !.order = e.msg.order,
                     !.driver = a.assigned, !.a = MarkCompleted(a)]]
    BY <1>5 DEF Become
  <2>2. DOMAIN a = AggregateFields
    BY LoadedForm
  <2>3. DOMAIN MarkCompleted(a) = AggregateFields
    BY <2>2, MethodFacts
  <2>4. \E r : Starts(s, e, r)
    BY <1>1, <1>5, <2>1, <2>3, CommitStarts DEF db
  <2> QED BY <1>1, <1>2, <1>5, <2>4 DEF Handled, db
<1> QED BY <1>3, <1>4, <1>5 DEF DeliverCompleted

LEMMA CancelledHandled ==
  ASSUME FormInv, HandlersInv, NEW s \in Slots, NEW e, DeliverCancelled(s, e)
  PROVE  Handled(s, e)
<1>1. NoOtherCommits(e.msg) /\ e.msg.type = "order.cancelled"
  BY DEF NoOtherCommits, NoOtherTx, DeliverCancelled
<1>2. GivenGrows
  BY DEF DeliverCancelled, db, GivenGrows, FormInv
<1>3. CASE /\ processed' = processed \cup {e.msg}
           /\ Become(s, [Idle EXCEPT !.pc = "parked", !.kind = "cancel",
                                     !.entry = e])
  <2> DEFINE r == [Idle EXCEPT !.pc = "parked", !.kind = "cancel", !.entry = e]
  <2>1. slot' = [slot EXCEPT ![s] = r]
    BY <1>3 DEF Become
  <2>2. /\ DOMAIN r = HandlerFields /\ r.kind = "cancel" /\ r.entry = e
        /\ r.a = NewAssignment /\ r.pc = "parked"
    BY DEF Idle, HandlerFields
  <2> HIDE DEF r
  <2>3. Starts(s, e, r)
    BY <1>3, <2>1, <2>2, IdleFacts DEF Starts, WellFormed, PathInv, SavedIn
  <2> QED BY <1>1, <1>2, <1>3, <2>3 DEF Handled
<1>4. CASE /\ IsNew(e.msg)
           /\ \E a \in ById(e.msg.order) :
                Become(s, [Idle EXCEPT !.pc = "commit", !.kind = "cancel",
                             !.entry = e, !.order = e.msg.order,
                             !.driver = FreedByCancel(a), !.a = Cancel(a)])
           /\ UNCHANGED db
  <2>1. PICK a \in ById(e.msg.order) :
          slot' = [slot EXCEPT ![s] = [Idle EXCEPT !.pc = "commit", !.kind = "cancel",
                     !.entry = e, !.order = e.msg.order,
                     !.driver = FreedByCancel(a), !.a = Cancel(a)]]
    BY <1>4 DEF Become
  <2>2. DOMAIN a = AggregateFields
    BY LoadedForm
  <2>3. DOMAIN Cancel(a) = AggregateFields
    BY <2>2, MethodFacts
  <2>4. \E r : Starts(s, e, r)
    BY <1>1, <1>4, <2>1, <2>3, CommitStarts DEF db
  <2> QED BY <1>1, <1>2, <1>4, <2>4 DEF Handled, db
<1> QED BY <1>3, <1>4 DEF DeliverCancelled

LEMMA ExpiredHandled ==
  ASSUME FormInv, HandlersInv, NEW s \in Slots, NEW e, DeliverExpired(s, e)
  PROVE  Handled(s, e)
<1>1. e.msg.type = "dispatch.offer.expired" /\ NoOtherCommits(e.msg)
  BY DEF NoOtherCommits, HandlersInv, MessageInv, DeliverExpired
<1>2. GivenGrows /\ processed' = processed
  BY DEF DeliverExpired, db, GivenGrows, FormInv
<1>3. CASE UNCHANGED slot
  BY <1>1, <1>2, <1>3 DEF Handled
<1>4. CASE ~UNCHANGED slot
  <2>1. PICK a \in ById(e.msg.order) :
          slot' = [slot EXCEPT ![s] = [Idle EXCEPT !.pc = "row", !.kind = "expire",
                     !.entry = e, !.order = e.msg.order,
                     !.driver = CurrentAttempt(a).driver, !.a = ExpireOffer(a)]]
    BY <1>4 DEF DeliverExpired, Become
  <2> DEFINE r == [Idle EXCEPT !.pc = "row", !.kind = "expire",
                     !.entry = e, !.order = e.msg.order,
                     !.driver = CurrentAttempt(a).driver, !.a = ExpireOffer(a)]
  <2>2. /\ DOMAIN r = HandlerFields /\ r.kind = "expire" /\ r.entry = e
        /\ r.a = ExpireOffer(a) /\ r.pc = "row"
    BY DEF Idle, HandlerFields
  <2>3. slot' = [slot EXCEPT ![s] = r]
    BY <2>1
  <2> HIDE DEF r
  <2>4. DOMAIN a = AggregateFields
    BY LoadedForm
  <2>5. DOMAIN ExpireOffer(a) = AggregateFields /\ ExpireOffer(a).status = "awaiting_driver"
    BY <2>4, MethodFacts
  <2>6. Starts(s, e, r)
    BY <1>1, <2>2, <2>3, <2>5 DEF Starts, WellFormed, PathInv, SavedIn, EventKinds
  <2> QED BY <1>1, <1>2, <2>6 DEF Handled
<1> QED BY <1>3, <1>4

LEMMA DeliverStep ==
  ASSUME DispatchInv, NEW s \in Slots, NEW e \in Deliverable, Deliver(s, e)
  PROVE  DispatchInv'
<1> USE DEF DispatchInv
<1>1. Handled(s, e)
  BY CreatedHandled, AvailabilityHandled, CompletedHandled, CancelledHandled, ExpiredHandled
     DEF Deliver
<1>2. /\ slot[s] = Idle /\ Take(e, {}) /\ UNCHANGED <<told, dead>>
  BY DEF Deliver
<1>3. /\ WholeEntry(e)
      /\ SentInv'
      /\ \A x \in queue : x # e => x \in queue'
      /\ queue' \subseteq queue
      /\ \A m \in sent' : m \in sent \/ m = e.msg
  BY <1>2, TakeFacts
<1>4. SavedBeforeTold'
  BY <1>1, <1>2, ToldStays DEF Handled
<1>5. /\ processed \subseteq processed'
      /\ \A t \in Slots : slot[t].pc = "commit" /\ slot[t].entry.msg \notin processed =>
           slot[t].entry.msg \notin processed'
  BY <1>1 DEF Handled, NoOtherCommits
<1>6. ASSUME NEW t \in Slots, slot'[t] = slot[t]
      PROVE  (MessageInv(slot[t]) /\ PathInv(slot[t]) /\ SavedIn(slot[t], given))'
  <2>1. MessageInv(slot[t]) /\ PathInv(slot[t]) /\ SavedIn(slot[t], given')
    BY <1>1, SavedStays DEF HandlersInv, Handled
  <2>2. MessageInv(slot[t])'
    BY <1>5, <1>6, <2>1 DEF MessageInv, WholeEntry
  <2> QED BY <1>6, <2>1, <2>2 DEF PathInv
<1>7. ASSUME NEW m \in sent', m # e.msg, m \notin processed' \cup dead,
             \A x \in queue' : x.msg # m
      PROVE  \E t \in Slots : /\ t # s /\ slot[t].entry # NoEntry
                              /\ slot[t].entry.msg = m
  <2>1. m \in sent /\ m \notin processed \cup dead
    BY <1>3, <1>5, <1>7
  <2>2. \A x \in queue : x.msg # m
    BY <1>3, <1>7
  <2>3. PICK t \in Slots : slot[t].entry # NoEntry /\ slot[t].entry.msg = m
    BY <2>1, <2>2 DEF NoEventLost
  <2> QED BY <1>2, <2>3, IdleFacts
<1>8. CASE slot' = slot /\ (e.msg \in processed' \/ e.msg.type = "dispatch.offer.expired")
  <2>1. FormInv'
    BY <1>1, <1>2, <1>3, <1>8 DEF FormInv, Handled, GivenGrows, WellFormed, WholeEntry
  <2>2. HandlersInv'
    BY <1>6, <1>8 DEF HandlersInv
  <2>3. OneApplies'
    BY <1>8 DEF OneApplies, Applying
  <2>4. NoEventLost'
    <3>1. ASSUME NEW m \in sent', m = e.msg PROVE m \in processed'
      BY <1>3, <1>8, <3>1 DEF SentInv, EventTypes
    <3> QED BY <1>2, <1>7, <1>8, <3>1 DEF NoEventLost
  <2> QED BY <1>3, <1>4, <2>1, <2>2, <2>3, <2>4
<1>9. CASE (\E r : Starts(s, e, r)) /\ NoOtherCommits(e.msg)
  <2>1. PICK r : Starts(s, e, r)
    BY <1>9
  <2>2. /\ DOMAIN slot' = Slots /\ slot'[s] = r
        /\ \A t \in Slots : t # s => slot'[t] = slot[t]
    BY <2>1 DEF FormInv, Starts
  <2>3. FormInv'
    BY <1>1, <1>2, <1>3, <2>1, <2>2
       DEF FormInv, Handled, GivenGrows, Starts, WellFormed, WholeEntry
  <2>4. HandlersInv'
    <3>1. MessageInv(slot[s])'
      BY <1>3, <2>1, <2>2 DEF Starts, MessageInv, WholeEntry, EventKinds, IsNew
    <3>2. PathInv(slot[s])' /\ SavedIn(slot[s], given)'
      BY <2>1, <2>2 DEF Starts, PathInv, SavedIn
    <3> QED BY <1>6, <2>2, <3>1, <3>2 DEF HandlersInv
  <2>5. ASSUME NEW t \in Slots, t # s, Applying(t)' PROVE Applying(t)
    BY <2>2, <2>5 DEF Applying
  <2>6. ASSUME NEW t \in Slots, t # s, Applying(t)', Applying(s)'
        PROVE  slot'[t].entry.msg # slot'[s].entry.msg
    <3>1. IsNew(e.msg) /\ slot'[s].entry.msg = e.msg
      BY <2>1, <2>2, <2>6 DEF Starts, Applying
    <3>2. slot[t].pc = "commit" => slot[t].entry.msg # e.msg
      BY <1>9 DEF NoOtherCommits
    <3>3. slot[t].pc # "commit" => slot[t].entry.msg \in processed
      BY <2>5, <2>6 DEF HandlersInv, MessageInv, Applying, EventKinds
    <3> QED BY <2>2, <2>6, <3>1, <3>2, <3>3 DEF IsNew
  <2>7. OneApplies'
    <3> SUFFICES ASSUME NEW t \in Slots, NEW u \in Slots, Applying(t)', Applying(u)',
                        slot'[t].entry.msg = slot'[u].entry.msg
                 PROVE  t = u
      BY DEF OneApplies
    <3>1. CASE t # s /\ u # s
      <4>1. slot'[t] = slot[t] /\ slot'[u] = slot[u]
        BY <2>2, <3>1
      <4> QED BY <2>5, <3>1, <4>1 DEF OneApplies
    <3>2. CASE t = s \/ u = s
      BY <2>6, <3>2
    <3> QED BY <3>1, <3>2
  <2>8. NoEventLost'
    <3>1. ASSUME e.msg \in sent' PROVE slot'[s].entry # NoEntry /\ slot'[s].entry.msg = e.msg
      BY <1>3, <2>1, <2>2, <3>1, EntryIsReal DEF Starts, SentInv
    <3> QED BY <1>2, <1>7, <2>2, <3>1 DEF NoEventLost
  <2> QED BY <1>3, <1>4, <2>3, <2>4, <2>7, <2>8
<1> QED BY <1>1, <1>8, <1>9 DEF Handled
-----------------------------------------------------------------------------
(* An entry that is tried again, or given up, is still somewhere.          *)
LEMMA AgainFacts ==
  ASSUME NEW e, WholeEntry(e)
  PROVE  /\ \A x \in Again(e) : WholeEntry(x) /\ x.msg = e.msg
         /\ (\E x \in Again(e) : x.msg = e.msg) \/ e.msg \in Buried(e)
<1>1. e = [msg |-> e.msg, tries |-> e.tries] /\ e.tries \in 0..MaxRetries
  BY DEF WholeEntry
<1>2. MaxRetries \in Nat
  BY DispatchAssumption
<1>3. CASE e.tries < MaxRetries
  <2> DEFINE x == [msg |-> e.msg, tries |-> e.tries + 1]
  <2>1. Again(e) = {x}
    BY <1>1, <1>3 DEF Again
  <2>2. e.tries + 1 \in 0..MaxRetries
    BY <1>1, <1>2, <1>3
  <2>3. WholeEntry(x) /\ x.msg = e.msg
    BY <2>2 DEF WholeEntry
  <2> QED BY <2>1, <2>3
<1>4. CASE ~(e.tries < MaxRetries)
  BY <1>4 DEF Again, Buried
<1> QED BY <1>3, <1>4

LEMMA FailStep ==
  ASSUME DispatchInv, NEW s \in Slots, Fail(s)
  PROVE  DispatchInv'
<1> USE DEF DispatchInv
<1>1. /\ slot' = [slot EXCEPT ![s] = Idle]
      /\ UNCHANGED <<given, processed, told, sent>>
      /\ queue \subseteq queue' /\ dead \subseteq dead'
  BY DEF Fail, Become, db
<1>2. /\ DOMAIN slot' = Slots /\ slot'[s] = Idle
      /\ \A t \in Slots : t # s => slot'[t] = slot[t]
  BY <1>1 DEF FormInv
<1>3. /\ \A x \in queue' : WholeEntry(x)
      /\ slot[s].entry # NoEntry =>
           \/ \E x \in queue' : x.msg = slot[s].entry.msg
           \/ slot[s].entry.msg \in dead'
  <2>1. CASE slot[s].entry = NoEntry
    BY <2>1 DEF Fail, FormInv
  <2>2. CASE slot[s].entry # NoEntry
    <3>1. WholeEntry(slot[s].entry)
      BY <2>2 DEF HandlersInv, MessageInv
    <3>2. /\ queue' = queue \cup Again(slot[s].entry)
          /\ dead' = dead \cup Buried(slot[s].entry)
      BY <2>2 DEF Fail
    <3> QED BY <3>1, <3>2, AgainFacts DEF FormInv
  <2> QED BY <2>1, <2>2
<1>4. FormInv' /\ SentInv'
  BY <1>1, <1>2, <1>3, IdleFacts DEF FormInv, SentInv, WellFormed, WholeEntry
<1>5. HandlersInv'
  <2>1. ASSUME NEW t \in Slots, t # s
        PROVE  (MessageInv(slot[t]) /\ PathInv(slot[t]) /\ SavedIn(slot[t], given))'
    BY <1>1, <1>2, <2>1 DEF HandlersInv, MessageInv, PathInv, SavedIn, WholeEntry
  <2>2. (MessageInv(slot[s]) /\ PathInv(slot[s]) /\ SavedIn(slot[s], given))'
    BY <1>2, IdleFacts DEF MessageInv, PathInv, SavedIn, EventKinds
  <2> QED BY <2>1, <2>2 DEF HandlersInv
<1>6. OneApplies'
  <2>1. \A t \in Slots : Applying(t)' => t # s /\ Applying(t)
    BY <1>2, IdleFacts DEF Applying
  <2> QED BY <1>2, <2>1 DEF OneApplies
<1>7. NoEventLost'
  BY <1>1, <1>2, <1>3 DEF NoEventLost
<1>8. SavedBeforeTold'
  BY <1>1 DEF SavedBeforeTold
<1> QED BY <1>4, <1>5, <1>6, <1>7, <1>8

LEMMA FailAtOnceStep ==
  ASSUME DispatchInv, NEW s \in Slots, NEW e \in Deliverable, FailAtOnce(s, e)
  PROVE  DispatchInv'
<1> USE DEF DispatchInv
<1>1. /\ Take(e, Again(e)) /\ dead' = dead \cup Buried(e)
      /\ UNCHANGED <<given, processed, told, slot>>
  BY DEF FailAtOnce, db
<1>2. /\ WholeEntry(e) /\ SentInv'
      /\ \A x \in queue : x # e => x \in queue'
      /\ queue' \subseteq queue \cup Again(e)
      /\ Again(e) \subseteq queue'
      /\ \A m \in sent' : m \in sent \/ m = e.msg
  BY <1>1, TakeFacts
<1>3. FormInv'
  BY <1>1, <1>2, AgainFacts DEF FormInv, WellFormed, WholeEntry
<1>4. HandlersInv' /\ OneApplies' /\ SavedBeforeTold'
  BY <1>1 DEF HandlersInv, MessageInv, PathInv, SavedIn, WholeEntry,
              OneApplies, Applying, SavedBeforeTold
<1>5. NoEventLost'
  <2> SUFFICES ASSUME NEW m \in sent', m \notin processed \cup dead',
                      \A x \in queue' : x.msg # m
               PROVE  \E t \in Slots : slot[t].entry # NoEntry /\ slot[t].entry.msg = m
    BY <1>1 DEF NoEventLost
  <2>1. m # e.msg
    BY <1>1, <1>2, AgainFacts
  <2>2. m \in sent /\ m \notin processed \cup dead /\ \A x \in queue : x.msg # m
    BY <1>1, <1>2, <2>1
  <2> QED BY <2>2 DEF NoEventLost
<1> QED BY <1>2, <1>3, <1>4, <1>5

LEMMA CrashStep ==
  ASSUME DispatchInv, Crash
  PROVE  DispatchInv'
<1> USE DEF DispatchInv
<1>1. /\ slot' = [t \in Slots |-> Idle]
      /\ queue' = queue \cup {slot[s].entry : s \in {t \in Slots : slot[t].entry # NoEntry}}
      /\ UNCHANGED <<given, processed, told, sent, dead>>
  BY DEF Crash, db
<1>2. \A x \in queue' : WholeEntry(x)
  BY <1>1 DEF FormInv, HandlersInv, MessageInv
<1>3. FormInv' /\ SentInv'
  BY <1>1, <1>2, IdleFacts DEF FormInv, SentInv, WellFormed, WholeEntry
<1>4. HandlersInv'
  BY <1>1, IdleFacts DEF HandlersInv, MessageInv, PathInv, SavedIn, EventKinds
<1>5. OneApplies'
  BY <1>1, IdleFacts DEF OneApplies, Applying
<1>6. NoEventLost'
  BY <1>1 DEF NoEventLost
<1>7. SavedBeforeTold'
  BY <1>1 DEF SavedBeforeTold
<1> QED BY <1>3, <1>4, <1>5, <1>6, <1>7
-----------------------------------------------------------------------------
LEMMA AdvanceKeeps ==
  ASSUME DispatchInv, NEW s \in Slots, \E r : Advance(s, r), GivenGrows,
         told' \in [Orders -> Seq(Event)], SavedBeforeTold',
         UNCHANGED <<processed, queue, dead, sent>>
  PROVE  DispatchInv'
BY AdvanceStep DEF DispatchInv

LEMMA DispatchStep ==
  ASSUME DispatchInv, [Next]_vars
  PROVE  DispatchInv'
<1>1. ASSUME NEW s \in Slots, Request(s) PROVE DispatchInv'
  <2>1. /\ \E r : Advance(s, r)
        /\ GivenGrows
        /\ UNCHANGED <<told, processed, queue, dead, sent>>
    BY <1>1, RequestAdvances DEF DispatchInv
  <2>2. told' \in [Orders -> Seq(Event)] /\ SavedBeforeTold'
    BY <2>1, ToldStays DEF DispatchInv, FormInv
  <2> QED BY <2>1, <2>2, AdvanceKeeps
<1>2. ASSUME NEW s \in Slots, Step(s) PROVE DispatchInv'
  <2>1. CASE Commit(s)
    BY <2>1, CommitStep
  <2>2. CASE Publish(s)
    BY <2>2, PublishStep, AdvanceKeeps DEF DispatchInv
  <2>3. CASE ~Commit(s) /\ ~Publish(s)
    <3>1. /\ \E r : Advance(s, r)
          /\ GivenGrows
          /\ UNCHANGED <<told, processed, queue, dead, sent>>
      BY <1>2, <2>3, StepAdvances DEF DispatchInv
    <3>2. told' \in [Orders -> Seq(Event)] /\ SavedBeforeTold'
      BY <3>1, ToldStays DEF DispatchInv, FormInv
    <3> QED BY <3>1, <3>2, AdvanceKeeps
  <2> QED BY <2>1, <2>2, <2>3
<1>3. CASE UNCHANGED vars
  BY <1>3 DEF vars, db, pool, env, DispatchInv, FormInv, WellFormed, WholeEntry, SentInv,
     HandlersInv, MessageInv, PathInv, SavedIn, SavedBeforeTold, OneApplies,
     Applying, NoEventLost
<1> QED
  BY <1>1, <1>2, <1>3, DeliverStep, FailStep, FailAtOnceStep, CrashStep DEF Next

(* The strengthened invariant: what a running handler knows and where it   *)
(* may be.                                                                 *)
THEOREM DispatchInvariant == Spec => []DispatchInv
<1>1. Init => DispatchInv
  <2> SUFFICES ASSUME Init PROVE DispatchInv
    OBVIOUS
  <2>1. FormInv
    BY IdleFacts DEF Init, FormInv
  <2>2. SentInv
    BY FS_EmptySet DEF Init, SentInv
  <2>3. HandlersInv
    BY IdleFacts DEF Init, HandlersInv, MessageInv, PathInv, SavedIn, EventKinds
  <2>4. SavedBeforeTold /\ NoEventLost
    BY DEF Init, SavedBeforeTold, NoEventLost
  <2>5. OneApplies
    BY IdleFacts DEF Init, OneApplies, Applying
  <2> QED BY <2>1, <2>2, <2>3, <2>4, <2>5 DEF DispatchInv
<1>2. DispatchInv /\ [Next]_vars => DispatchInv'
  BY DispatchStep
<1> QED BY <1>1, <1>2, PTL DEF Spec

(* Saving comes before announcing, under every interleaving, fault and     *)
(* crash.                                                                  *)
THEOREM DispatchSavesBeforeTelling == Spec => []SavedBeforeTold
<1>1. DispatchInv => SavedBeforeTold
  BY DEF DispatchInv
<1> QED BY <1>1, DispatchInvariant, PTL

(* The steps in which a handler applies its event.                         *)
LEMMA UnchangedApply ==
  ASSUME NEW t \in Slots, slot'[t] = slot[t]
  PROVE  ~Applies(t)
BY IdleFacts DEF Applies

LEMMA AdvanceAppliesNothing ==
  ASSUME FormInv, NEW s \in Slots, NEW r, Advance(s, r)
  PROVE  \A t \in Slots : ~Applies(t)
<1>1. /\ slot'[s] = r /\ \A t \in Slots : t # s => slot'[t] = slot[t]
  BY DEF Advance, FormInv
<1>2. ~Applies(s)
  <2>1. CASE GoesOn(s, r)
    BY <1>1, <2>1, IdleFacts DEF Applies, Advance, GoesOn
  <2>2. CASE HasNoMessage(s, r)
    BY <1>1, <2>2 DEF Applies, HasNoMessage
  <2> QED BY <2>1, <2>2 DEF Advance
<1> QED BY <1>1, <1>2, UnchangedApply

LEMMA CommitApplies ==
  ASSUME DispatchInv, NEW s \in Slots, Commit(s)
  PROVE  AppliesAsRecorded
<1>1. /\ slot[s].pc = "commit" /\ WellFormed(slot[s]) /\ MessageInv(slot[s])
      /\ processed' = processed \cup {slot[s].entry.msg}
      /\ slot' = [slot EXCEPT ![s] = [slot[s] EXCEPT !.a = NewAssignment,
             !.pc = IF slot[s].driver # NoDriver THEN "free" ELSE "parked"]]
  BY DEF Commit, DispatchInv, FormInv, HandlersInv, Become
<1>2. /\ slot'[s].entry = slot[s].entry
      /\ \A t \in Slots : t # s => slot'[t] = slot[t]
  BY <1>1 DEF DispatchInv, FormInv, WellFormed, HandlerFields
<1>3. slot[s].entry.msg \notin processed
  BY <1>1 DEF MessageInv
<1>4. \A t \in Slots : Applies(t) => t = s
  BY <1>2, UnchangedApply
<1> QED BY <1>1, <1>2, <1>3, <1>4 DEF AppliesAsRecorded

LEMMA DeliverApplies ==
  ASSUME DispatchInv, NEW s \in Slots, NEW e, Deliver(s, e)
  PROVE  AppliesAsRecorded
<1>1. Handled(s, e) /\ slot[s] = Idle
  BY CreatedHandled, AvailabilityHandled, CompletedHandled, CancelledHandled, ExpiredHandled
     DEF Deliver, DispatchInv
<1>2. processed \subseteq processed'
  BY <1>1 DEF Handled
<1>3. CASE slot' = slot
  BY <1>2, <1>3, UnchangedApply DEF AppliesAsRecorded
<1>4. CASE \E r : Starts(s, e, r)
  <2>1. PICK r : Starts(s, e, r)
    BY <1>4
  <2>2. slot'[s] = r /\ r.entry = e /\ \A t \in Slots : t # s => slot'[t] = slot[t]
    BY <2>1 DEF Starts, DispatchInv, FormInv
  <2>3. \A t \in Slots : Applies(t) => t = s
    BY <2>2, UnchangedApply
  <2>4. Applies(s) => r.kind \in {"created", "availability"}
    BY <1>1, <2>2, IdleFacts DEF Applies
  <2>5. Applies(s) => e.msg \in processed' \ processed
    BY <2>1, <2>4 DEF Starts, IsNew
  <2> QED BY <1>2, <2>2, <2>3, <2>5 DEF AppliesAsRecorded
<1> QED BY <1>1, <1>3, <1>4 DEF Handled

LEMMA FaultApplies ==
  ASSUME DispatchInv, NEW s \in Slots, Fail(s) \/ (\E e \in Deliverable : FailAtOnce(s, e)) \/ Crash
  PROVE  AppliesAsRecorded
<1>1. processed' = processed
  BY DEF Fail, FailAtOnce, Crash, db
<1>2. \A t \in Slots : slot'[t] = slot[t] \/ slot'[t] = Idle
  BY DEF Fail, FailAtOnce, Crash, Become, DispatchInv, FormInv
<1>3. \A t \in Slots : ~Applies(t)
  BY <1>2, UnchangedApply, IdleFacts DEF Applies
<1> QED BY <1>1, <1>3 DEF AppliesAsRecorded

LEMMA NextApplies ==
  ASSUME DispatchInv, Next
  PROVE  AppliesAsRecorded
<1>1. ASSUME NEW s \in Slots, \E r : Advance(s, r), UNCHANGED processed
      PROVE  AppliesAsRecorded
  BY <1>1, AdvanceAppliesNothing DEF AppliesAsRecorded, DispatchInv
<1>2. ASSUME NEW s \in Slots, Request(s) PROVE AppliesAsRecorded
  BY <1>1, <1>2, RequestAdvances DEF DispatchInv
<1>3. ASSUME NEW s \in Slots, Step(s) PROVE AppliesAsRecorded
  <2>1. CASE Commit(s)
    BY <2>1, CommitApplies
  <2>2. CASE Publish(s)
    BY <1>1, <2>2, PublishStep DEF DispatchInv
  <2>3. CASE ~Commit(s) /\ ~Publish(s)
    BY <1>1, <1>3, <2>3, StepAdvances DEF DispatchInv
  <2> QED BY <2>1, <2>2, <2>3
<1>4. CASE Crash
  <2>1. PICK s \in Slots : slot[s] # Idle
    BY <1>4 DEF Crash
  <2> QED BY <1>4, <2>1, FaultApplies
<1> QED BY <1>2, <1>3, <1>4, DeliverApplies, FaultApplies DEF Next

(* Of all deliveries of one event, ever and however they overlap, fail or  *)
(* are cut off by a crash, one applies it, in the step that records it.    *)
THEOREM DispatchAppliesOnce == Spec => EventAppliedOnce
<1>1. DispatchInv /\ [Next]_vars => [AppliesAsRecorded]_vars
  BY NextApplies
<1> QED BY <1>1, DispatchInvariant, PTL DEF Spec, EventAppliedOnce

(* No delivered event is forgotten, whatever throws and crashes.           *)
THEOREM DispatchLosesNoEvent == Spec => []NoEventLost
<1>1. DispatchInv => NoEventLost
  BY DEF DispatchInv
<1> QED BY <1>1, DispatchInvariant, PTL
=============================================================================
