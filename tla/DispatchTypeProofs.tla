------------------------- MODULE DispatchTypeProofs -------------------------
(***************************************************************************)
(* Dispatch keeps its types under every interleaving, fault and crash, for *)
(* any drivers, orders, slots and bounds: what the use cases store, queue  *)
(* and carry from step to step are rows, attempts, messages and handlers   *)
(* of the declared form, and no attempt or timer gets a number out of      *)
(* range.                                                                  *)
(***************************************************************************)
EXTENDS DispatchProofs, AssignmentProofs

(* Where a handler works on one order.                                     *)
OnOrder == {"row", "atts", "commit", "free", "recheck", "load", "claim",
            "schedule", "mark", "publish"}

(* The offer that is out was given an id and a number within the bound.    *)
OfferBound(a) ==
  a.status = "offered" =>
    /\ a.attempts # <<>>
    /\ CurrentAttempt(a).id \in 1..MaxOffers
    /\ CurrentAttempt(a).no \in 1..MaxOffers

(* What a handler has at hand where it is, when m ids are handed out.      *)
Task(h, m) ==
  /\ h.pc \in OnOrder => h.order \in Orders
  /\ h.pc \in {"commit", "pool"} => h.entry # NoEntry
  /\ h.pc \in {"pool", "mark"} => h.driver \in Drivers
  /\ h.kind = "force" =>
       /\ h.pc \in {"row", "atts", "mark", "publish"}
       /\ h.a.status = "assigned"
       /\ h.driver \in Drivers
       /\ h.entry = NoEntry
  /\ h.pc \in {"row", "atts", "schedule"} => OfferBound(h.a)
  /\ h.pc = "schedule" => h.a.status = "offered"
  /\ h.order \in Orders => h.a.offerAttempts <= m[h.order]

Existing == {o \in Orders : row[o] # NoRow}

Counts == [Orders -> 0..MaxOffers]

TablesOK ==
  /\ row \in [Orders -> Row \cup {NoRow}]
  /\ IsFiniteSet(Existing)
  /\ DOMAIN atts = Orders
  /\ \A o \in Orders : atts[o] \subseteq Attempt /\ IsFiniteSet(atts[o])
  /\ arrival \in Seq(Orders)
  /\ minted \in Counts
  /\ given \in [Orders -> SUBSET Drivers]
  /\ \A o \in Existing : row[o].offerAttempts <= minted[o]

BusOK ==
  /\ processed \subseteq Message
  /\ queue \subseteq Entry
  /\ holding \subseteq Expiration
  /\ dead \subseteq Message
  /\ sent \subseteq Message

SlotsOK ==
  /\ slot \in [Slots -> Handler]
  /\ \A s \in Slots : Task(slot[s], minted)

CountersOK ==
  dups \in 0..MaxDups /\ faults \in 0..MaxFaults /\ crashes \in 0..MaxCrashes

TypeInv == TablesOK /\ BusOK /\ Pool!PoolTypeOK /\ SlotsOK /\ CountersOK
-----------------------------------------------------------------------------
(* The repository.                                                         *)
LEMMA ByIdTyped ==
  ASSUME TablesOK, NEW o \in Orders, NEW a \in ById(o)
  PROVE  /\ row[o] # NoRow /\ row[o] \in Row
         /\ a \in Aggregate
         /\ a.status = row[o].status /\ a.assigned = row[o].assigned
         /\ a.offerAttempts = row[o].offerAttempts
         /\ a.offerAttempts <= minted[o]
         /\ a.attempts \in SortedAttempts(atts[o])
<1> DEFINE n == Cardinality(atts[o])
<1>1. row[o] # NoRow /\ row[o] \in Row /\ row[o].offerAttempts <= minted[o]
  BY DEF TablesOK, ById, Existing
<1>2. PICK q \in SortedAttempts(atts[o]) :
        a = [status |-> row[o].status, assigned |-> row[o].assigned,
             offerAttempts |-> row[o].offerAttempts, attempts |-> q]
  BY <1>1 DEF ById
<1>3. n \in Nat /\ atts[o] \subseteq Attempt
  BY FS_CardinalityType DEF TablesOK
<1>4. q \in [1..n -> Attempt]
  BY <1>2, <1>3 DEF SortedAttempts
<1>5. q \in Seq(Attempt)
  BY <1>3, <1>4
<1>6. a \in Aggregate
  BY <1>1, <1>2, <1>5 DEF Aggregate, Row
<1> QED BY <1>1, <1>2, <1>6

LEMMA RowTyped ==
  ASSUME TablesOK, NEW o \in Orders, NEW a \in Aggregate, UpsertRow(o, a),
         a.offerAttempts <= minted[o], minted' = minted
  PROVE  /\ row' \in [Orders -> Row \cup {NoRow}]
         /\ IsFiniteSet(Existing')
         /\ given' \in [Orders -> SUBSET Drivers]
         /\ \A p \in Existing' : row'[p].offerAttempts <= minted'[p]
<1>1. RowOf(a) \in Row /\ RowOf(a).offerAttempts = a.offerAttempts
  BY DEF RowOf, Row, Aggregate
<1>2. /\ row' = [row EXCEPT ![o] = RowOf(a)]
      /\ given' = [given EXCEPT ![o] = @ \cup ({a.assigned} \ {NoDriver})]
  BY DEF UpsertRow
<1>3. row' \in [Orders -> Row \cup {NoRow}]
  BY <1>1, <1>2 DEF TablesOK
<1>4. given' \in [Orders -> SUBSET Drivers]
  BY <1>2 DEF TablesOK, Aggregate
<1>5. Existing' \subseteq Existing \cup {o}
  BY <1>2 DEF Existing, TablesOK
<1>6. IsFiniteSet(Existing')
  <2>1. IsFiniteSet(Existing \cup {o})
    BY FS_AddElement DEF TablesOK
  <2> QED BY <1>5, <2>1, FS_Subset
<1>7. \A p \in Existing' : row'[p].offerAttempts <= minted'[p]
  BY <1>1, <1>2, <1>5 DEF TablesOK, Existing
<1> QED BY <1>3, <1>4, <1>6, <1>7

LEMMA AttemptsFinite ==
  ASSUME NEW a \in Aggregate
  PROVE  /\ {a.attempts[i] : i \in DOMAIN a.attempts} \subseteq Attempt
         /\ IsFiniteSet({a.attempts[i] : i \in DOMAIN a.attempts})
<1> DEFINE q == a.attempts
           T == {q[i] : i \in DOMAIN q}
<1>1. q \in Seq(Attempt) /\ DOMAIN q = 1..Len(q) /\ Len(q) \in Nat
  BY DEF Aggregate
<1>2. T \subseteq Attempt
  BY <1>1
<1>3. q \in Surjection(DOMAIN q, T)
  <2>1. q \in [DOMAIN q -> T]
    BY <1>1
  <2> QED BY <2>1 DEF Surjection
<1>4. IsFiniteSet(DOMAIN q)
  BY <1>1, FS_Interval
<1> QED BY <1>2, <1>3, <1>4, FS_Surjection

LEMMA AttemptsTyped ==
  ASSUME TablesOK, NEW o \in Orders, NEW a \in Aggregate, UpsertAttempts(o, a)
  PROVE  /\ DOMAIN atts' = Orders
         /\ \A p \in Orders : atts'[p] \subseteq Attempt /\ IsFiniteSet(atts'[p])
<1> DEFINE saved == {a.attempts[i] : i \in DOMAIN a.attempts}
           kept == {x \in atts[o] : \A y \in saved : y.id # x.id}
<1>1. atts' = [atts EXCEPT ![o] = kept \cup saved]
  BY DEF UpsertAttempts
<1>2. saved \subseteq Attempt /\ IsFiniteSet(saved)
  BY AttemptsFinite
<1>3. kept \in SUBSET atts[o]
  OBVIOUS
<1> HIDE DEF saved, kept
<1>4. kept \subseteq Attempt /\ IsFiniteSet(kept)
  BY <1>3, FS_Subset DEF TablesOK
<1>5. (kept \cup saved) \subseteq Attempt /\ IsFiniteSet(kept \cup saved)
  BY <1>2, <1>4, FS_Union
<1> QED BY <1>1, <1>5 DEF TablesOK

LEMMA ParkedTyped ==
  ASSUME TablesOK, NEW q \in AwaitingOldestFirst
  PROVE  q \in Seq(Orders)
<1> DEFINE awaiting == {o \in Orders : row[o] # NoRow /\ row[o].status = "awaiting_driver"}
           n == Cardinality(awaiting)
           taken == IF n < ParkLimit THEN n ELSE ParkLimit
<1>1. q \in [1..taken -> awaiting]
  BY DEF AwaitingOldestFirst
<1>2. n \in Nat
  <2>1. awaiting \in SUBSET Existing
    BY DEF Existing
  <2>2. IsFiniteSet(awaiting)
    BY <2>1, FS_Subset DEF TablesOK
  <2> QED BY <2>2, FS_CardinalityType
<1>3. taken \in Nat
  BY <1>2, DispatchAssumption
<1> HIDE DEF taken
<1>4. q \in [1..taken -> Orders]
  BY <1>1
<1> QED BY <1>3, <1>4
-----------------------------------------------------------------------------
(* Handlers.                                                               *)
LEMMA IdleTyped ==
  /\ Idle \in Handler
  /\ \A m \in Counts : Task(Idle, m)
<1>1. Idle \in Handler
  BY NewTyped DEF Idle, Handler, PCs, Kinds
<1>2. \A m \in Counts : Task(Idle, m)
  BY DispatchAssumption DEF Idle, NewAssignment, Task, OnOrder, Counts
<1> QED BY <1>1, <1>2

LEMMA DoneTyped ==
  ASSUME NEW h \in Handler, NEW m \in Counts,
         Task(h, m)
  PROVE  Done(h) \in Handler /\ Task(Done(h), m)
<1>1. CASE h.entry = NoEntry
  BY <1>1, IdleTyped DEF Done
<1>2. CASE h.entry # NoEntry
  <2> DEFINE r == [Idle EXCEPT !.pc = "ack", !.kind = h.kind, !.entry = h.entry]
  <2>1. Done(h) = r
    BY <1>2 DEF Done
  <2>2. r \in Handler
    BY IdleTyped DEF Handler, PCs
  <2>3. /\ r.pc = "ack" /\ r.kind = h.kind /\ r.order = NoRow
        /\ r.a = NewAssignment
    BY DEF Idle
  <2>4. h.kind # "force"
    BY <1>2 DEF Task
  <2> HIDE DEF r
  <2>5. Task(r, m)
    BY <2>3, <2>4, DispatchAssumption DEF Task, OnOrder, NewAssignment, Counts
  <2> QED BY <2>1, <2>2, <2>5
<1> QED BY <1>1, <1>2

LEMMA NextOrderTyped ==
  ASSUME NEW h \in Handler, NEW m \in Counts, Task(h, m), h.kind # "force",
         NEW q \in Seq(Orders)
  PROVE  LET r == NextOrder([h EXCEPT !.todo = q])
         IN  r \in Handler /\ Task(r, m)
<1> DEFINE g == [h EXCEPT !.todo = q]
<1>1. /\ g \in Handler /\ g.todo = q /\ g.kind = h.kind /\ g.entry = h.entry
  BY DEF Handler
<1> HIDE DEF g
<1>2. CASE q = <<>>
  <2>1. NextOrder(g) = Done(g) /\ Done(g) = Done(h)
    BY <1>1, <1>2 DEF NextOrder, Done
  <2> QED BY <2>1, DoneTyped DEF g
<1>3. CASE q # <<>>
  <2> DEFINE r == [g EXCEPT !.pc = "load", !.order = Head(g.todo), !.todo = Tail(g.todo),
                            !.driver = NoDriver, !.a = NewAssignment]
  <2>1. NextOrder(g) = r
    BY <1>1, <1>3 DEF NextOrder
  <2>2. Head(g.todo) \in Orders /\ Tail(g.todo) \in Seq(Orders)
    BY <1>1, <1>3
  <2>3. r \in Handler
    BY <1>1, <2>2, NewTyped DEF Handler, PCs
  <2>4. /\ r.pc = "load" /\ r.kind = h.kind /\ r.order \in Orders
        /\ r.a = NewAssignment
    BY <1>1, <2>2 DEF Handler
  <2> HIDE DEF r
  <2>5. Task(r, m)
    BY <2>4, DispatchAssumption DEF Task, OnOrder, NewAssignment, Counts
  <2> QED BY <2>1, <2>3, <2>5 DEF g
<1> QED BY <1>2, <1>3

LEMMA NextOrderStays ==
  ASSUME NEW h \in Handler, NEW m \in Counts, Task(h, m), h.kind # "force"
  PROVE  NextOrder(h) \in Handler /\ Task(NextOrder(h), m)
<1>1. h.todo \in Seq(Orders) /\ h = [h EXCEPT !.todo = h.todo]
  BY DEF Handler
<1> QED BY <1>1, NextOrderTyped

(* Slot s goes on with r, and no id is taken back.                         *)
LEMMA PutTyped ==
  ASSUME SlotsOK, minted \in Counts, minted' \in Counts,
         \A o \in Orders : minted[o] <= minted'[o],
         NEW s \in Slots, NEW r \in Handler, Task(r, minted'),
         slot' = [slot EXCEPT ![s] = r]
  PROVE  SlotsOK'
<1>1. slot' \in [Slots -> Handler]
  BY DEF SlotsOK
<1>2. ASSUME NEW t \in Slots PROVE Task(slot'[t], minted')
  <2>1. CASE t = s
    BY <2>1 DEF SlotsOK
  <2>2. CASE t # s
    <3>1. slot'[t] = slot[t] /\ slot[t] \in Handler /\ Task(slot[t], minted)
      BY <2>2 DEF SlotsOK
    <3>2. slot[t].a.offerAttempts \in Nat
      BY <3>1 DEF Handler, Aggregate
    <3>3. slot[t].order \in Orders =>
            slot[t].a.offerAttempts <= minted'[slot[t].order]
      BY <3>1, <3>2, DispatchAssumption DEF Task, Counts
    <3> QED BY <3>1, <3>3 DEF Task
  <2> QED BY <2>1, <2>2
<1> QED BY <1>1, <1>2 DEF SlotsOK
-----------------------------------------------------------------------------
(* The steps of a running handler.                                         *)
LEMMA UnchangedTables ==
  ASSUME TablesOK, UNCHANGED <<row, atts, arrival, minted, given>>
  PROVE  TablesOK' /\ minted' \in Counts /\ \A o \in Orders : minted[o] <= minted'[o]
BY DispatchAssumption DEF TablesOK, Existing, Counts

LEMMA SavingTyped ==
  ASSUME TypeInv, NEW s \in Slots, SaveRow(s) \/ SaveAttempts(s) \/ Commit(s)
  PROVE  TypeInv'
<1> DEFINE h == slot[s]
<1> USE DEF TypeInv
<1>1. /\ h \in Handler /\ Task(h, minted)
      /\ h.order \in Orders /\ h.a \in Aggregate /\ h.a.offerAttempts <= minted[h.order]
      /\ h.driver \in Drivers \cup {NoDriver}
      /\ minted' = minted /\ minted \in Counts
      /\ \A o \in Orders : minted[o] <= minted'[o]
      /\ UNCHANGED <<arrival, pool, queue, holding, dead, env>>
  <2>1. h \in Handler /\ Task(h, minted) /\ h.pc \in OnOrder
    BY DEF SlotsOK, SaveRow, SaveAttempts, Commit, OnOrder
  <2>2. /\ minted' = minted /\ UNCHANGED <<arrival, pool, queue, holding, dead, env>>
    BY DEF SaveRow, SaveAttempts, Commit
  <2>3. minted \in Counts /\ \A o \in Orders : minted[o] <= minted[o]
    BY DispatchAssumption DEF TablesOK, Counts
  <2> QED BY <2>1, <2>2, <2>3 DEF Task, Handler
<1>2. Pool!PoolTypeOK' /\ CountersOK'
  BY <1>1 DEF pool, Pool!PoolTypeOK, CountersOK, env
<1>3. CASE SaveRow(s)
  <2> DEFINE r == [h EXCEPT !.pc = "atts"]
  <2>1. /\ h.pc = "row" /\ UpsertRow(h.order, h.a) /\ slot' = [slot EXCEPT ![s] = r]
        /\ UNCHANGED <<atts, processed>>
    BY <1>3 DEF SaveRow, Become
  <2>2. TablesOK'
    BY <1>1, <2>1, RowTyped DEF TablesOK
  <2>3. r \in Handler /\ Task(r, minted')
    BY <1>1, <2>1 DEF Handler, PCs, Task, OnOrder
  <2>4. SlotsOK'
    BY <1>1, <2>1, <2>3, PutTyped
  <2>5. BusOK'
    BY <1>1, <2>1 DEF BusOK, env
  <2> QED BY <1>2, <2>2, <2>4, <2>5
<1>4. CASE SaveAttempts(s)
  <2> DEFINE r == AfterSave(h)
  <2>1. /\ h.pc = "atts" /\ UpsertAttempts(h.order, h.a) /\ slot' = [slot EXCEPT ![s] = r]
        /\ UNCHANGED <<row, given, processed>>
    BY <1>4 DEF SaveAttempts, Become
  <2>2. TablesOK'
    BY <1>1, <2>1, AttemptsTyped DEF TablesOK, Existing
  <2>3. r \in Handler /\ Task(r, minted')
    BY <1>1, <2>1 DEF AfterSave, Handler, PCs, Task, OnOrder
  <2>4. SlotsOK'
    BY <1>1, <2>1, <2>3, PutTyped
  <2>5. BusOK'
    BY <1>1, <2>1 DEF BusOK, env
  <2> QED BY <1>2, <2>2, <2>4, <2>5
<1>5. CASE Commit(s)
  <2> DEFINE r == [h EXCEPT !.a = NewAssignment,
                     !.pc = IF h.driver # NoDriver THEN "free" ELSE "parked"]
  <2>1. /\ h.pc = "commit" /\ processed' = processed \cup {h.entry.msg}
        /\ UpsertRow(h.order, h.a) /\ UpsertAttempts(h.order, h.a)
        /\ slot' = [slot EXCEPT ![s] = r]
    BY <1>5 DEF Commit, Become
  <2>2. TablesOK'
    BY <1>1, <2>1, RowTyped, AttemptsTyped DEF TablesOK
  <2>3. r \in Handler /\ Task(r, minted')
    <3>1. r \in Handler
      BY <1>1, NewTyped DEF Handler, PCs
    <3>2. /\ r.pc \in {"free", "parked"} /\ r.kind = h.kind /\ r.order = h.order
          /\ r.a = NewAssignment
      BY <1>1 DEF Handler
    <3>3. h.kind # "force"
      BY <1>1, <2>1 DEF Task
    <3>4. NewAssignment.offerAttempts <= minted'[h.order]
      BY <1>1, DispatchAssumption DEF NewAssignment, Counts
    <3> HIDE DEF r
    <3> QED BY <1>1, <3>1, <3>2, <3>3, <3>4 DEF Task, OnOrder
  <2>4. SlotsOK'
    BY <1>1, <2>1, <2>3, PutTyped
  <2>5. h.entry.msg \in Message
    BY <1>1, <2>1 DEF Task, Handler, Entry
  <2>6. BusOK'
    BY <1>1, <2>1, <2>5 DEF BusOK, env
  <2> QED BY <1>2, <2>2, <2>4, <2>6
<1> QED BY <1>3, <1>4, <1>5

(* A step that leaves the tables and what is sent alone.                   *)
LEMMA QuietStep ==
  ASSUME TypeInv, NEW s \in Slots, NEW r \in Handler, Task(r, minted),
         slot' = [slot EXCEPT ![s] = r], Pool!PoolTypeOK',
         UNCHANGED <<db, queue, holding, dead, env>>
  PROVE  TypeInv'
<1>1. TablesOK' /\ minted' \in Counts /\ \A o \in Orders : minted[o] <= minted'[o]
  BY UnchangedTables DEF TypeInv, db
<1>2. SlotsOK'
  BY <1>1, PutTyped DEF TypeInv, TablesOK, db
<1>3. BusOK' /\ CountersOK'
  BY DEF TypeInv, BusOK, CountersOK, env, db
<1> QED BY <1>1, <1>2, <1>3 DEF TypeInv

LEMMA HandlerTyped ==
  ASSUME TypeInv, NEW s \in Slots
  PROVE  /\ slot[s] \in Handler /\ Task(slot[s], minted) /\ minted \in Counts
         /\ slot[s].pc \in OnOrder => slot[s].order \in Orders
         /\ slot[s].kind = "force" => slot[s].pc \in {"row", "atts", "mark", "publish"}
BY DEF TypeInv, SlotsOK, TablesOK, Task

LEMMA ReadingTyped ==
  ASSUME TypeInv, NEW s \in Slots, Recheck(s) \/ Load(s)
  PROVE  TypeInv'
<1> DEFINE h == slot[s]
<1>1. /\ h \in Handler /\ Task(h, minted) /\ minted \in Counts
      /\ h.order \in Orders /\ h.kind # "force" /\ h.pc \in {"recheck", "load"}
      /\ TablesOK
  BY HandlerTyped DEF Recheck, Load, OnOrder, TypeInv
<1>2. Pool!PoolTypeOK' /\ UNCHANGED <<db, queue, holding, dead, env>>
  BY DEF TypeInv, Recheck, Load, pool, Pool!PoolTypeOK
<1>3. Done(h) \in Handler /\ Task(Done(h), minted)
  BY <1>1, DoneTyped
<1>4. NextOrder(h) \in Handler /\ Task(NextOrder(h), minted)
  BY <1>1, NextOrderStays
<1>5. [h EXCEPT !.pc = "load"] \in Handler /\ Task([h EXCEPT !.pc = "load"], minted)
  BY <1>1 DEF Handler, PCs, Task, OnOrder
<1>6. ASSUME NEW b \in Aggregate, NEW pc \in {"row", "claim"},
             b.offerAttempts <= minted[h.order], b.status # "offered"
      PROVE  LET r == [h EXCEPT !.pc = pc, !.a = b]
             IN  r \in Handler /\ Task(r, minted)
  BY <1>1, <1>6 DEF Handler, PCs, Task, OnOrder, OfferBound
<1>7. CASE Recheck(s)
  <2>1. PICK a \in ById(h.order) :
          slot' = [slot EXCEPT ![s] =
            IF a.status # "awaiting_driver" THEN Done(h)
            ELSE IF Exhausted(a) THEN [h EXCEPT !.pc = "row", !.a = MarkFailed(a)]
            ELSE [h EXCEPT !.pc = "load"]]
    BY <1>7 DEF Recheck, Become
  <2>2. /\ MarkFailed(a) \in Aggregate /\ MarkFailed(a).status = "failed"
        /\ MarkFailed(a).offerAttempts <= minted[h.order]
    BY <1>1, ByIdTyped, MethodsTyped, MethodFields
  <2>3. LET r == [h EXCEPT !.pc = "row", !.a = MarkFailed(a)]
        IN  r \in Handler /\ Task(r, minted)
    BY <1>6, <2>2
  <2>4. PICK r \in Handler : Task(r, minted) /\ slot' = [slot EXCEPT ![s] = r]
    BY <1>3, <1>5, <2>1, <2>3
  <2> QED BY <1>2, <2>4, QuietStep
<1>8. CASE Load(s)
  <2>1. PICK a \in ById(h.order) :
          slot' = [slot EXCEPT ![s] =
            IF a.status # "awaiting_driver" THEN NextOrder(h)
            ELSE [h EXCEPT !.pc = "claim", !.a = a]]
    BY <1>8 DEF Load, Become
  <2>2. CASE a.status = "awaiting_driver"
    <3>1. a \in Aggregate /\ a.offerAttempts <= minted[h.order]
      BY <1>1, ByIdTyped
    <3>2. LET r == [h EXCEPT !.pc = "claim", !.a = a]
          IN  r \in Handler /\ Task(r, minted)
      BY <1>6, <2>2, <3>1
    <3> QED BY <1>2, <2>1, <2>2, <3>2, QuietStep
  <2>3. CASE a.status # "awaiting_driver"
    BY <1>2, <1>4, <2>1, <2>3, QuietStep
  <2> QED BY <2>2, <2>3
<1> QED BY <1>7, <1>8

LEMMA PoolStepTyped ==
  ASSUME TypeInv, NEW s \in Slots, FreeDriver(s) \/ UpdatePool(s) \/ MarkBusy(s)
  PROVE  TypeInv'
<1> DEFINE h == slot[s]
<1>1. h \in Handler /\ Task(h, minted) /\ minted \in Counts
  BY HandlerTyped
<1>2. /\ UNCHANGED <<db, queue, holding, dead, env>>
      /\ Pool!PoolTypeOK
  BY DEF TypeInv, FreeDriver, UpdatePool, MarkBusy
<1>3. CASE FreeDriver(s)
  <2> DEFINE r == [h EXCEPT !.driver = NoDriver, !.a = NewAssignment,
                     !.pc = IF h.kind \in {"reject", "expire"} THEN "recheck" ELSE "parked"]
  <2>1. /\ h.pc = "free" /\ slot' = [slot EXCEPT ![s] = r] /\ Pool!PoolTypeOK'
    BY <1>2, <1>3 DEF FreeDriver, Become, Pool!FreeDriver, Pool!PoolTypeOK
  <2>2. r \in Handler
    BY <1>1, NewTyped DEF Handler, PCs
  <2>3. /\ r.pc \in {"recheck", "parked"} /\ r.kind = h.kind /\ r.order = h.order
        /\ r.a = NewAssignment /\ h.kind # "force" /\ h.order \in Orders
    BY <1>1, <2>1 DEF Handler, Task, OnOrder
  <2>4. NewAssignment.offerAttempts <= minted[h.order]
    BY <1>1, <2>3, DispatchAssumption DEF NewAssignment, Counts
  <2> HIDE DEF r
  <2>5. Task(r, minted)
    BY <2>3, <2>4 DEF Task, OnOrder
  <2> QED BY <1>2, <2>1, <2>2, <2>5, QuietStep
<1>4. CASE UpdatePool(s)
  <2>1. h.pc = "pool" /\ h.driver \in Drivers /\ h.kind # "force"
    BY <1>1, <1>4 DEF UpdatePool, Task
  <2>2. CASE h.entry.msg.isAvailable
    <3> DEFINE r == [h EXCEPT !.pc = "parked", !.driver = NoDriver]
    <3>1. slot' = [slot EXCEPT ![s] = r] /\ Pool!PoolTypeOK'
      BY <1>2, <1>4, <2>1, <2>2 DEF UpdatePool, Become, Pool!OnWilling, Pool!PoolTypeOK
    <3>2. r \in Handler /\ Task(r, minted)
      BY <1>1, <2>1 DEF Handler, PCs, Task, OnOrder
    <3> QED BY <1>2, <3>1, <3>2, QuietStep
  <2>3. CASE ~h.entry.msg.isAvailable
    <3>1. slot' = [slot EXCEPT ![s] = Done(h)] /\ Pool!PoolTypeOK'
      BY <1>2, <1>4, <2>3 DEF UpdatePool, Become, Pool!OnUnwilling, Pool!PoolTypeOK
    <3> QED BY <1>1, <1>2, <3>1, DoneTyped, QuietStep
  <2> QED BY <2>2, <2>3
<1>5. CASE MarkBusy(s)
  <2> DEFINE r == [h EXCEPT !.pc = "publish"]
  <2>1. h.pc = "mark" /\ h.driver \in Drivers /\ slot' = [slot EXCEPT ![s] = r]
    BY <1>1, <1>5 DEF MarkBusy, Become, Task
  <2>2. Pool!PoolTypeOK'
    BY <1>2, <1>5, <2>1 DEF MarkBusy, Pool!MarkBusy, Pool!PoolTypeOK
  <2>3. r \in Handler /\ Task(r, minted)
    BY <1>1, <2>1 DEF Handler, PCs, Task, OnOrder
  <2> QED BY <1>2, <2>1, <2>2, <2>3, QuietStep
<1> QED BY <1>3, <1>4, <1>5

LEMMA EndingTyped ==
  ASSUME TypeInv, NEW s \in Slots, RetryParked(s) \/ Publish(s) \/ Ack(s)
  PROVE  TypeInv'
<1> DEFINE h == slot[s]
<1>1. h \in Handler /\ Task(h, minted) /\ minted \in Counts
  BY HandlerTyped
<1>2. UNCHANGED <<db, queue, holding, dead, env>> /\ Pool!PoolTypeOK'
  BY DEF TypeInv, RetryParked, Publish, Ack, pool, Pool!PoolTypeOK
<1>3. CASE RetryParked(s)
  <2>1. PICK q \in AwaitingOldestFirst :
          slot' = [slot EXCEPT ![s] = NextOrder([h EXCEPT !.todo = q])]
    BY <1>3 DEF RetryParked, Become
  <2>2. q \in Seq(Orders)
    BY ParkedTyped DEF TypeInv
  <2>3. h.kind # "force"
    BY <1>1, <1>3 DEF RetryParked, Task
  <2>4. LET r == NextOrder([h EXCEPT !.todo = q])
        IN  r \in Handler /\ Task(r, minted)
    BY <1>1, <2>2, <2>3, NextOrderTyped
  <2> QED BY <1>2, <2>1, <2>4, QuietStep
<1>4. CASE Publish(s)
  <2>1. slot' = [slot EXCEPT ![s] = Done(h)]
    BY <1>4 DEF Publish, Become
  <2> QED BY <1>1, <1>2, <2>1, DoneTyped, QuietStep
<1>5. CASE Ack(s)
  <2>1. slot' = [slot EXCEPT ![s] = Idle]
    BY <1>5 DEF Ack, Become
  <2> QED BY <1>1, <1>2, <2>1, IdleTyped, QuietStep
<1> QED BY <1>3, <1>4, <1>5

(* The claim hands out the next id, which is the offer's, and the offer's  *)
(* number is no larger.                                                    *)
LEMMA ClaimTyped ==
  ASSUME TypeInv, NEW s \in Slots, Claim(s)
  PROVE  TypeInv'
<1> DEFINE h == slot[s]
           o == h.order
           id == minted[o] + 1
<1>1. /\ h \in Handler /\ Task(h, minted) /\ minted \in Counts
      /\ h.pc = "claim" /\ o \in Orders /\ h.kind # "force"
      /\ UNCHANGED <<row, atts, arrival, processed, given, queue, holding, dead, env>>
      /\ Pool!PoolTypeOK
  BY HandlerTyped DEF Claim, Task, OnOrder, TypeInv
<1>2. BusOK' /\ CountersOK'
  BY <1>1 DEF TypeInv, BusOK, CountersOK, env
<1>3. ASSUME NEW d \in Drivers, id <= MaxOffers, Pool!ClaimNext(TriedDrivers(h.a), d),
             slot' = [slot EXCEPT ![s] = [h EXCEPT !.pc = "row", !.a = OfferTo(h.a, id, d)]],
             minted' = [minted EXCEPT ![o] = id]
      PROVE  TypeInv'
  <2> DEFINE b == OfferTo(h.a, id, d)
             r == [h EXCEPT !.pc = "row", !.a = b]
  <2>1. /\ minted[o] \in Nat /\ id \in Nat /\ id \in 1..MaxOffers
        /\ h.a \in Aggregate /\ h.a.offerAttempts \in Nat
        /\ h.a.offerAttempts <= minted[o]
    BY <1>1, <1>3, DispatchAssumption DEF Counts, Handler, Aggregate, Task
  <2>2. minted' \in Counts /\ \A p \in Orders : minted[p] <= minted'[p]
    BY <1>1, <1>3, <2>1, DispatchAssumption DEF Counts
  <2>3. /\ b \in Aggregate
        /\ b.status = "offered"
        /\ b.offerAttempts = h.a.offerAttempts + 1
        /\ Len(b.attempts) = Len(h.a.attempts) + 1
        /\ b.attempts[Len(h.a.attempts) + 1].no = h.a.offerAttempts + 1
        /\ b.attempts[Len(h.a.attempts) + 1].id = id
    <3> DEFINE a == h.a
    <3>1. a \in Aggregate /\ id \in Nat
      BY <2>1
    <3> HIDE DEF a, id
    <3>2. /\ OfferTo(a, id, d) \in Aggregate
          /\ OfferTo(a, id, d).status = "offered"
          /\ OfferTo(a, id, d).offerAttempts = a.offerAttempts + 1
          /\ Len(OfferTo(a, id, d).attempts) = Len(a.attempts) + 1
          /\ OfferTo(a, id, d).attempts[Len(a.attempts) + 1].no = a.offerAttempts + 1
          /\ OfferTo(a, id, d).attempts[Len(a.attempts) + 1].id = id
      BY <3>1, OfferFacts
    <3> QED BY <3>2 DEF a
  <2>4. b.attempts # <<>> /\ CurrentAttempt(b).no = h.a.offerAttempts + 1
        /\ CurrentAttempt(b).id = id
    <3>1. Len(h.a.attempts) \in Nat
      BY <2>1 DEF Aggregate
    <3> QED BY <2>3, <3>1 DEF CurrentAttempt
  <2>5. /\ h.a.offerAttempts + 1 \in 1..MaxOffers
        /\ b.offerAttempts <= minted'[o]
    <3>1. minted'[o] = id
      BY <1>1, <1>3 DEF Counts
    <3>2. h.a.offerAttempts + 1 \in Nat \ {0} /\ h.a.offerAttempts + 1 <= id
      BY <2>1
    <3>3. MaxOffers \in Nat
      BY DispatchAssumption
    <3> HIDE DEF b, id
    <3> QED BY <1>3, <2>1, <2>3, <3>1, <3>2, <3>3
  <2> HIDE DEF b
  <2>6. r \in Handler
    BY <1>1, <2>3 DEF Handler, PCs
  <2>7. /\ r.pc = "row" /\ r.kind = h.kind /\ r.order = o /\ r.a = b
    BY <1>1 DEF Handler
  <2>8. slot' = [slot EXCEPT ![s] = r]
    BY <1>3 DEF b
  <2> HIDE DEF r, id
  <2>9. Task(r, minted')
    BY <1>1, <2>1, <2>3, <2>4, <2>5, <2>7 DEF Task, OnOrder, OfferBound
  <2>10. SlotsOK'
    BY <1>1, <2>2, <2>6, <2>8, <2>9, PutTyped DEF TypeInv
  <2>11. TablesOK'
    <3>1. ASSUME NEW p \in Existing PROVE row[p].offerAttempts <= minted'[p]
      <4>1. row[p].offerAttempts \in Nat /\ row[p].offerAttempts <= minted[p]
        BY DEF TypeInv, TablesOK, Row, Existing
      <4>2. p \in Orders /\ minted[p] \in Nat /\ minted'[p] \in Nat
        BY <1>1, <2>2, DispatchAssumption DEF Existing, Counts
      <4> QED BY <2>2, <4>1, <4>2
    <3> QED BY <1>1, <2>2, <3>1 DEF TypeInv, TablesOK, Existing
  <2>12. Pool!PoolTypeOK'
    BY <1>1, <1>3 DEF Pool!ClaimNext, Pool!PoolTypeOK
  <2> QED BY <1>2, <2>10, <2>11, <2>12 DEF TypeInv
<1>4. ASSUME Pool!ClaimNone(TriedDrivers(h.a)), UNCHANGED minted,
             slot' = [slot EXCEPT ![s] = NextOrder(h)]
      PROVE  TypeInv'
  <2>1. Pool!PoolTypeOK'
    BY <1>1, <1>4 DEF Pool!ClaimNone, Pool!poolVars, Pool!PoolTypeOK
  <2>2. NextOrder(h) \in Handler /\ Task(NextOrder(h), minted)
    BY <1>1, NextOrderStays
  <2> QED BY <1>1, <1>4, <2>1, <2>2, QuietStep DEF db
<1> QED BY <1>3, <1>4 DEF Claim, Become

LEMMA ScheduleTyped ==
  ASSUME TypeInv, NEW s \in Slots, ScheduleExpiry(s)
  PROVE  TypeInv'
<1> DEFINE h == slot[s]
<1>1. /\ h \in Handler /\ Task(h, minted) /\ minted \in Counts
      /\ h.pc = "schedule" /\ h.order \in Orders /\ h.kind # "force"
      /\ UNCHANGED <<db, pool, queue, dead, env>>
      /\ slot' = [slot EXCEPT ![s] = NextOrder(h)]
      /\ holding' = holding \cup {Timer(h.order, h.a)}
  BY HandlerTyped DEF ScheduleExpiry, Task, OnOrder, Become
<1>2. TablesOK' /\ minted' = minted /\ \A o \in Orders : minted[o] <= minted'[o]
  BY <1>1, UnchangedTables DEF TypeInv, db
<1>3. SlotsOK'
  BY <1>1, <1>2, NextOrderStays, PutTyped DEF TypeInv
<1>4. Timer(h.order, h.a) \in Expiration
  BY <1>1 DEF Task, OfferBound, Timer, Expiration
<1>5. BusOK' /\ CountersOK' /\ Pool!PoolTypeOK'
  BY <1>1, <1>4 DEF TypeInv, BusOK, CountersOK, env, db, pool, Pool!PoolTypeOK
<1> QED BY <1>2, <1>3, <1>5 DEF TypeInv

LEMMA StepTyped ==
  ASSUME TypeInv, NEW s \in Slots, Step(s)
  PROVE  TypeInv'
BY SavingTyped, ReadingTyped, PoolStepTyped, EndingTyped, ClaimTyped, ScheduleTyped DEF Step

LEMMA RequestTyped ==
  ASSUME TypeInv, NEW s \in Slots, Request(s)
  PROVE  TypeInv'
<1>1. PICK o \in Orders, d \in Drivers :
        AcceptOffer(s, o, d) \/ RejectOffer(s, o, d) \/ ForceAssignOrder(s, o, d)
  BY DEF Request
<1>2. /\ UNCHANGED <<db, queue, holding, dead, env>> /\ Pool!PoolTypeOK'
      /\ TablesOK /\ minted \in Counts
  BY <1>1 DEF AcceptOffer, RejectOffer, ForceAssignOrder, TypeInv, TablesOK, pool, Pool!PoolTypeOK
<1>3. ASSUME NEW a \in Aggregate, a.status # "offered", a.offerAttempts <= minted[o],
             NEW kind \in {"accept", "reject", "force"},
             kind = "force" => a.status = "assigned",
             Starting(s, kind, o, d, a)
      PROVE  TypeInv'
  <2> DEFINE r == [Idle EXCEPT !.pc = "row", !.kind = kind, !.order = o,
                               !.driver = d, !.a = a]
  <2>1. r \in Handler
    BY IdleTyped DEF Handler, PCs, Kinds
  <2>2. /\ r.pc = "row" /\ r.kind = kind /\ r.order = o /\ r.driver = d /\ r.a = a
        /\ r.entry = NoEntry
    BY DEF Idle
  <2>3. slot' = [slot EXCEPT ![s] = r]
    BY <1>3 DEF Starting, Become
  <2> HIDE DEF r
  <2>4. Task(r, minted)
    BY <1>3, <2>2 DEF Task, OnOrder, OfferBound
  <2> QED BY <1>2, <2>1, <2>3, <2>4, QuietStep
<1>4. CASE AcceptOffer(s, o, d)
  <2>1. PICK a \in ById(o) : CanRespond(a, d) /\ Starting(s, "accept", o, d, Accept(a, d))
    BY <1>4 DEF AcceptOffer
  <2>2. a \in Aggregate /\ a.attempts # <<>> /\ a.offerAttempts <= minted[o]
    BY <1>2, <2>1, ByIdTyped DEF CanRespond
  <2>3. /\ Accept(a, d) \in Aggregate /\ Accept(a, d).status = "assigned"
        /\ Accept(a, d).offerAttempts = a.offerAttempts
    BY <2>2, AnswersTyped, MethodFields
  <2> QED BY <1>3, <2>1, <2>2, <2>3
<1>5. CASE RejectOffer(s, o, d)
  <2>1. PICK a \in ById(o) : CanRespond(a, d) /\ Starting(s, "reject", o, d, RejectByDriver(a))
    BY <1>5 DEF RejectOffer
  <2>2. a \in Aggregate /\ a.attempts # <<>> /\ a.offerAttempts <= minted[o]
    BY <1>2, <2>1, ByIdTyped DEF CanRespond
  <2>3. /\ RejectByDriver(a) \in Aggregate /\ RejectByDriver(a).status = "awaiting_driver"
        /\ RejectByDriver(a).offerAttempts = a.offerAttempts
    BY <2>2, AnswersTyped, MethodFields
  <2> QED BY <1>3, <2>1, <2>2, <2>3
<1>6. CASE ForceAssignOrder(s, o, d)
  <2>1. PICK a \in ById(o) : Starting(s, "force", o, d, ForceAssign(a, d))
    BY <1>6 DEF ForceAssignOrder
  <2>2. a \in Aggregate /\ a.offerAttempts <= minted[o]
    BY <1>2, ByIdTyped
  <2>3. /\ ForceAssign(a, d) \in Aggregate /\ ForceAssign(a, d).status = "assigned"
        /\ ForceAssign(a, d).offerAttempts = a.offerAttempts
    BY <2>2, MethodsTyped, MethodFields
  <2> QED BY <1>3, <2>1, <2>2, <2>3
<1> QED BY <1>1, <1>4, <1>5, <1>6
-----------------------------------------------------------------------------
(* Messages.                                                               *)
LEMMA DeliverableTyped ==
  ASSUME BusOK, SentInv, NEW e \in Deliverable
  PROVE  e \in Entry
<1>1. CASE e \in queue
  BY <1>1 DEF BusOK
<1>2. CASE e \notin queue
  <2>1. PICK m \in Arriving \cup sent \cup holding : e = [msg |-> m, tries |-> 0]
    BY <1>2 DEF Deliverable
  <2>2. m \in Message
    BY ArrivingFacts DEF BusOK, Message
  <2>3. 0 \in 0..MaxRetries
    BY DispatchAssumption
  <2> QED BY <2>1, <2>2, <2>3 DEF Entry
<1> QED BY <1>1, <1>2

LEMMA TakeTyped ==
  ASSUME BusOK, CountersOK, NEW e \in Entry, NEW again \in SUBSET Entry, Take(e, again)
  PROVE  /\ queue' \subseteq Entry /\ holding' \subseteq Expiration
         /\ sent' \subseteq Message /\ dups' \in 0..MaxDups
<1>1. e.msg \in Message
  BY DEF Entry
<1>2. dups < MaxDups => dups + 1 \in 0..MaxDups
  BY DispatchAssumption DEF CountersOK
<1> QED BY <1>1, <1>2 DEF Take, BusOK, CountersOK

LEMMA MessageKinds ==
  ASSUME NEW m \in Message
  PROVE  /\ m.type = "driver.availability.changed" => m.driver \in Drivers
         /\ m.type \in {"order.created", "order.cancelled", "delivery.completed",
                        "dispatch.offer.expired"} => m.order \in Orders
BY DEF Message, OrderEvent, DriverEvent, Expiration

(* A delivery changes the tables and starts a handler in slot s, or not.   *)
LEMMA HandlingTyped ==
  ASSUME TypeInv, NEW s \in Slots, NEW e \in Entry,
         \/ DeliverCreated(s, e) \/ DeliverAvailability(s, e) \/ DeliverCompleted(s, e)
         \/ DeliverCancelled(s, e) \/ DeliverExpired(s, e)
  PROVE  TablesOK' /\ processed' \subseteq Message /\ SlotsOK'
<1> USE DEF TypeInv
<1>1. /\ e.msg \in Message /\ processed \subseteq Message /\ e # NoEntry
      /\ minted \in Counts
      /\ \A o \in Orders : minted[o] \in Nat /\ minted[o] <= minted[o]
                          /\ NewAssignment.offerAttempts <= minted[o]
  BY NoEntryAssumption, DispatchAssumption
     DEF Entry, BusOK, TablesOK, Counts, NewAssignment
<1>2. ASSUME UNCHANGED <<row, atts, arrival, minted, given>>,
             processed' = processed \/ processed' = processed \cup {e.msg},
             slot' = slot \/ \E r \in Handler : Task(r, minted) /\ slot' = [slot EXCEPT ![s] = r]
      PROVE  TablesOK' /\ processed' \subseteq Message /\ SlotsOK'
  <2>1. /\ TablesOK' /\ minted' = minted /\ minted' \in Counts
        /\ \A o \in Orders : minted[o] <= minted'[o]
    BY <1>1, <1>2, UnchangedTables
  <2>2. CASE slot' = slot
    BY <1>1, <1>2, <2>1, <2>2 DEF SlotsOK
  <2>3. CASE \E r \in Handler : Task(r, minted) /\ slot' = [slot EXCEPT ![s] = r]
    BY <1>1, <1>2, <2>1, <2>3, PutTyped
  <2> QED BY <1>2, <2>2, <2>3
<1>3. CASE DeliverCreated(s, e)
  <2>1. e.msg.order \in Orders
    BY <1>1, <1>3, MessageKinds DEF DeliverCreated
  <2>2. CASE UNCHANGED <<db, slot>>
    BY <1>2, <2>2 DEF db
  <2>3. CASE ~UNCHANGED <<db, slot>>
    <3> DEFINE r == [Idle EXCEPT !.pc = "load", !.kind = "created",
                                 !.entry = e, !.order = e.msg.order]
    <3>1. /\ processed' = processed \cup {e.msg}
          /\ UpsertRow(e.msg.order, NewAssignment)
          /\ arrival' = Append(arrival, e.msg.order)
          /\ slot' = [slot EXCEPT ![s] = r]
          /\ UNCHANGED <<atts, minted>>
      BY <1>3, <2>3 DEF DeliverCreated, Become
    <3>2. TablesOK'
      <4>1. arrival' \in Seq(Orders)
        BY <2>1, <3>1 DEF TablesOK
      <4> QED BY <1>1, <2>1, <3>1, <4>1, NewTyped, RowTyped DEF TablesOK
    <3>3. r \in Handler
      BY <2>1, IdleTyped DEF Handler, PCs, Kinds
    <3>4. /\ r.pc = "load" /\ r.kind = "created" /\ r.order = e.msg.order
          /\ r.a = NewAssignment
      BY DEF Idle
    <3> HIDE DEF r
    <3>5. Task(r, minted)
      BY <1>1, <2>1, <3>4 DEF Task
    <3>6. SlotsOK'
      BY <1>1, <3>1, <3>3, <3>5, PutTyped
    <3> QED BY <1>1, <3>1, <3>2, <3>6
  <2> QED BY <2>2, <2>3
<1>4. CASE DeliverAvailability(s, e)
  <2>1. e.msg.driver \in Drivers
    BY <1>1, <1>4, MessageKinds DEF DeliverAvailability
  <2> DEFINE r == [Idle EXCEPT !.pc = "pool", !.kind = "availability",
                               !.entry = e, !.driver = e.msg.driver]
  <2>2. r \in Handler
    BY <2>1, IdleTyped DEF Handler, PCs, Kinds
  <2>3. /\ r.pc = "pool" /\ r.kind = "availability" /\ r.order = NoRow /\ r.entry = e
        /\ r.driver = e.msg.driver /\ r.a = NewAssignment
    BY DEF Idle
  <2> HIDE DEF r
  <2>4. Task(r, minted)
    BY <1>1, <2>1, <2>3 DEF Task, OnOrder
  <2>5. /\ UNCHANGED <<row, atts, arrival, minted, given>>
        /\ processed' = processed \/ processed' = processed \cup {e.msg}
        /\ slot' = slot \/ slot' = [slot EXCEPT ![s] = r]
    BY <1>4 DEF DeliverAvailability, Become, db, r
  <2> QED BY <1>2, <2>2, <2>4, <2>5
<1>5. ASSUME NEW a \in Aggregate, NEW d \in Drivers \cup {NoDriver},
             NEW o \in Orders, a.offerAttempts <= minted[o],
             NEW kind \in {"complete", "cancel"}
      PROVE  LET r == [Idle EXCEPT !.pc = "commit", !.kind = kind, !.entry = e,
                                   !.order = o, !.driver = d, !.a = a]
             IN  r \in Handler /\ Task(r, minted)
  <2> DEFINE r == [Idle EXCEPT !.pc = "commit", !.kind = kind, !.entry = e,
                               !.order = o, !.driver = d, !.a = a]
  <2>1. r \in Handler
    BY IdleTyped DEF Handler, PCs, Kinds
  <2>2. /\ r.pc = "commit" /\ r.kind = kind /\ r.order = o /\ r.entry = e /\ r.a = a
    BY DEF Idle
  <2> HIDE DEF r
  <2>3. Task(r, minted)
    BY <1>1, <1>5, <2>2 DEF Task, OnOrder
  <2> QED BY <2>1, <2>3 DEF r
<1>6. CASE DeliverCompleted(s, e)
  <2>1. e.msg.order \in Orders
    BY <1>1, <1>6, MessageKinds DEF DeliverCompleted
  <2>2. CASE slot' = slot
    BY <1>2, <1>6, <2>2 DEF DeliverCompleted, db
  <2>3. CASE slot' # slot
    <3>1. PICK a \in ById(e.msg.order) :
            slot' = [slot EXCEPT ![s] = [Idle EXCEPT !.pc = "commit", !.kind = "complete",
                             !.entry = e, !.order = e.msg.order,
                             !.driver = a.assigned, !.a = MarkCompleted(a)]]
      BY <1>6, <2>3 DEF DeliverCompleted, Become
    <3>2. UNCHANGED db
      BY <1>6, <2>3 DEF DeliverCompleted
    <3>3. a \in Aggregate /\ a.offerAttempts <= minted[e.msg.order]
      BY <2>1, ByIdTyped
    <3>4. /\ MarkCompleted(a) \in Aggregate /\ a.assigned \in Drivers \cup {NoDriver}
          /\ MarkCompleted(a).offerAttempts <= minted[e.msg.order]
      BY <3>3, MethodsTyped, MethodFields DEF Aggregate
    <3> QED BY <1>2, <1>5, <2>1, <3>1, <3>2, <3>4 DEF db
  <2> QED BY <2>2, <2>3
<1>7. CASE DeliverCancelled(s, e)
  <2>1. e.msg.order \in Orders
    BY <1>1, <1>7, MessageKinds DEF DeliverCancelled
  <2>2. CASE processed' = processed \cup {e.msg} /\ UNCHANGED <<row, atts, arrival, minted, given>>
             /\ Become(s, [Idle EXCEPT !.pc = "parked", !.kind = "cancel", !.entry = e])
    <3> DEFINE r == [Idle EXCEPT !.pc = "parked", !.kind = "cancel", !.entry = e]
    <3>1. r \in Handler
      BY IdleTyped DEF Handler, PCs, Kinds
    <3>2. /\ r.pc = "parked" /\ r.kind = "cancel" /\ r.order = NoRow
          /\ r.a = NewAssignment
      BY DEF Idle
    <3> HIDE DEF r
    <3>3. Task(r, minted)
      BY <1>1, <3>2 DEF Task, OnOrder
    <3> QED BY <1>2, <2>2, <3>1, <3>3 DEF Become, r
  <2>3. CASE UNCHANGED db /\ \E a \in ById(e.msg.order) :
               Become(s, [Idle EXCEPT !.pc = "commit", !.kind = "cancel",
                            !.entry = e, !.order = e.msg.order,
                            !.driver = FreedByCancel(a), !.a = Cancel(a)])
    <3>1. PICK a \in ById(e.msg.order) :
            slot' = [slot EXCEPT ![s] = [Idle EXCEPT !.pc = "commit", !.kind = "cancel",
                            !.entry = e, !.order = e.msg.order,
                            !.driver = FreedByCancel(a), !.a = Cancel(a)]]
      BY <2>3 DEF Become
    <3>2. a \in Aggregate /\ a.offerAttempts <= minted[e.msg.order]
      BY <2>1, ByIdTyped
    <3>3. /\ Cancel(a) \in Aggregate /\ FreedByCancel(a) \in Drivers \cup {NoDriver}
          /\ Cancel(a).offerAttempts <= minted[e.msg.order]
      BY <3>2, CancelTyped, CancelFields
    <3> QED BY <1>2, <1>5, <2>1, <2>3, <3>1, <3>3 DEF db
  <2> QED BY <1>7, <2>2, <2>3 DEF DeliverCancelled
<1>8. CASE DeliverExpired(s, e)
  <2>1. e.msg.order \in Orders /\ UNCHANGED db
    BY <1>1, <1>8, MessageKinds DEF DeliverExpired
  <2>2. PICK a \in ById(e.msg.order) :
          IF CanExpire(a, e.msg.no)
          THEN slot' = [slot EXCEPT ![s] = [Idle EXCEPT !.pc = "row", !.kind = "expire",
                          !.entry = e, !.order = e.msg.order,
                          !.driver = CurrentAttempt(a).driver, !.a = ExpireOffer(a)]]
          ELSE slot' = slot
    BY <1>8 DEF DeliverExpired, Become
  <2>3. CASE CanExpire(a, e.msg.no)
    <3> DEFINE r == [Idle EXCEPT !.pc = "row", !.kind = "expire", !.entry = e,
                       !.order = e.msg.order, !.driver = CurrentAttempt(a).driver,
                       !.a = ExpireOffer(a)]
    <3>1. a \in Aggregate /\ a.offerAttempts <= minted[e.msg.order] /\ a.attempts # <<>>
      BY <2>1, <2>3, ByIdTyped DEF CanExpire
    <3>2. /\ ExpireOffer(a) \in Aggregate /\ CurrentAttempt(a).driver \in Drivers
          /\ ExpireOffer(a).offerAttempts = a.offerAttempts
          /\ ExpireOffer(a).status = "awaiting_driver"
      BY <3>1, AnswersTyped, MethodFields DEF Attempt
    <3>3. r \in Handler
      BY <2>1, <3>2, IdleTyped DEF Handler, PCs, Kinds
    <3>4. /\ r.pc = "row" /\ r.kind = "expire" /\ r.order = e.msg.order
          /\ r.a = ExpireOffer(a)
      BY DEF Idle
    <3>5. slot' = [slot EXCEPT ![s] = r]
      BY <2>2, <2>3
    <3> HIDE DEF r
    <3>6. Task(r, minted)
      BY <2>1, <3>1, <3>2, <3>4 DEF Task, OnOrder, OfferBound
    <3> QED BY <1>2, <2>1, <3>3, <3>5, <3>6 DEF db
  <2>4. CASE ~CanExpire(a, e.msg.no)
    BY <1>2, <2>1, <2>2, <2>4 DEF db
  <2> QED BY <2>3, <2>4
<1> QED BY <1>3, <1>4, <1>6, <1>7, <1>8

LEMMA DeliverTyped ==
  ASSUME TypeInv, SentInv, NEW s \in Slots, NEW e \in Deliverable, Deliver(s, e)
  PROVE  TypeInv'
<1>1. e \in Entry
  BY DeliverableTyped DEF TypeInv
<1>2. TablesOK' /\ processed' \subseteq Message /\ SlotsOK'
  BY <1>1, HandlingTyped DEF Deliver
<1>3. /\ queue' \subseteq Entry /\ holding' \subseteq Expiration
      /\ sent' \subseteq Message /\ dups' \in 0..MaxDups
  BY <1>1, TakeTyped DEF Deliver, TypeInv
<1>4. Pool!PoolTypeOK' /\ UNCHANGED <<dead, faults, crashes>>
  BY DEF Deliver, TypeInv, pool, Pool!PoolTypeOK
<1> QED BY <1>2, <1>3, <1>4 DEF TypeInv, BusOK, CountersOK
-----------------------------------------------------------------------------
(* Faults.                                                                 *)
LEMMA AgainTyped ==
  ASSUME NEW e \in Entry
  PROVE  Again(e) \subseteq Entry /\ Buried(e) \subseteq Message
<1>1. e.tries < MaxRetries => e.tries + 1 \in 0..MaxRetries
  BY DispatchAssumption DEF Entry
<1> QED BY <1>1 DEF Again, Buried, Entry

LEMMA FaultTyped ==
  ASSUME TypeInv, SentInv,
         \/ \E s \in Slots : Fail(s)
         \/ \E s \in Slots : \E e \in Deliverable : FailAtOnce(s, e)
         \/ Crash
  PROVE  TypeInv'
<1> USE DEF TypeInv
<1>1. /\ UNCHANGED <<db, pool>>
      /\ TablesOK' /\ minted' = minted /\ minted \in Counts
      /\ \A o \in Orders : minted[o] <= minted'[o]
      /\ Pool!PoolTypeOK'
  <2>1. UNCHANGED <<db, pool>>
    BY DEF Fail, FailAtOnce, Crash
  <2> QED BY <2>1, UnchangedTables DEF db, pool, Pool!PoolTypeOK, TablesOK
<1>2. ASSUME NEW s \in Slots, Fail(s) PROVE TypeInv'
  <2>1. SlotsOK'
    <3>1. slot' = [slot EXCEPT ![s] = Idle]
      BY <1>2 DEF Fail, Become
    <3> QED BY <1>1, <3>1, IdleTyped, PutTyped
  <2>2. queue' \subseteq Entry /\ dead' \subseteq Message
    <3>1. slot[s].entry # NoEntry => slot[s].entry \in Entry
      BY DEF SlotsOK, Handler
    <3> QED BY <1>2, <3>1, AgainTyped DEF Fail, BusOK
  <2>3. faults' \in 0..MaxFaults /\ UNCHANGED <<holding, sent, dups, crashes>>
    BY <1>2, DispatchAssumption DEF Fail, CountersOK
  <2> QED BY <1>1, <2>1, <2>2, <2>3 DEF BusOK, CountersOK, db
<1>3. ASSUME NEW s \in Slots, NEW e \in Deliverable, FailAtOnce(s, e) PROVE TypeInv'
  <2>1. e \in Entry
    BY DeliverableTyped
  <2>2. /\ queue' \subseteq Entry /\ holding' \subseteq Expiration
        /\ sent' \subseteq Message /\ dups' \in 0..MaxDups
    BY <1>3, <2>1, AgainTyped, TakeTyped DEF FailAtOnce
  <2>3. dead' \subseteq Message
    BY <1>3, <2>1, AgainTyped DEF FailAtOnce, BusOK
  <2>4. faults' \in 0..MaxFaults /\ UNCHANGED <<slot, crashes>>
    BY <1>3, DispatchAssumption DEF FailAtOnce, CountersOK
  <2>5. SlotsOK'
    BY <1>1, <2>4 DEF SlotsOK
  <2> QED BY <1>1, <2>2, <2>3, <2>4, <2>5 DEF BusOK, CountersOK, db
<1>4. CASE Crash
  <2>1. SlotsOK'
    <3>1. slot' = [s \in Slots |-> Idle]
      BY <1>4 DEF Crash
    <3> QED BY <1>1, <3>1, IdleTyped DEF SlotsOK
  <2>2. queue' \subseteq Entry
    <3>1. \A s \in Slots : slot[s].entry # NoEntry => slot[s].entry \in Entry
      BY DEF SlotsOK, Handler
    <3> QED BY <1>4, <3>1 DEF Crash, BusOK
  <2>3. crashes' \in 0..MaxCrashes /\ UNCHANGED <<holding, dead, sent, dups, faults>>
    BY <1>4, DispatchAssumption DEF Crash, CountersOK
  <2> QED BY <1>1, <2>1, <2>2, <2>3 DEF BusOK, CountersOK, db
<1> QED BY <1>2, <1>3, <1>4

LEMMA TypeInvStep ==
  ASSUME DispatchInv, TypeInv, [Next]_vars
  PROVE  TypeInv'
<1>1. SentInv
  BY DEF DispatchInv
<1>2. CASE UNCHANGED vars
  BY <1>2 DEF vars, db, pool, env, TypeInv, TablesOK, Existing, BusOK, SlotsOK,
     CountersOK, Pool!PoolTypeOK
<1> QED
  BY <1>1, <1>2, StepTyped, RequestTyped, DeliverTyped, FaultTyped DEF Next

(* The strengthened type invariant: besides the types, what a handler has  *)
(* at hand at each of its steps.                                           *)
THEOREM DispatchTypeInvariant == Spec => []TypeInv
<1>1. Init => TypeInv
  <2> SUFFICES ASSUME Init PROVE TypeInv
    OBVIOUS
  <2>1. TablesOK
    <3>1. Existing = {}
      BY DEF Init, Existing
    <3>2. arrival \in Seq(Orders)
      BY DEF Init
    <3> QED BY <3>1, <3>2, FS_EmptySet, DispatchAssumption DEF Init, TablesOK, Counts
  <2>2. SlotsOK
    BY <2>1, IdleTyped DEF Init, SlotsOK, TablesOK
  <2>3. BusOK /\ Pool!PoolTypeOK /\ CountersOK
    BY DispatchAssumption DEF Init, BusOK, Pool!PoolTypeOK, Pool!PoolInit, CountersOK
  <2> QED BY <2>1, <2>2, <2>3 DEF TypeInv
<1>2. DispatchInv /\ TypeInv /\ [Next]_vars => TypeInv'
  BY TypeInvStep
<1> QED BY <1>1, <1>2, DispatchInvariant, PTL DEF Spec

(* Every variable keeps its type, whatever interleaves, throws or crashes. *)
THEOREM DispatchTypes == Spec => []TypeOK
<1>1. DispatchInv /\ TypeInv => TypeOK
  BY DEF DispatchInv, FormInv, TypeInv, TablesOK, Counts, BusOK, SlotsOK, CountersOK, TypeOK
<1> QED BY <1>1, DispatchInvariant, DispatchTypeInvariant, PTL
=============================================================================
