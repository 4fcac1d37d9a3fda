------------------------ MODULE DispatchSerialProofs ------------------------
(***************************************************************************)
(* Dispatch while one handler runs at a time and none is cut short, for    *)
(* any drivers, orders and bounds: what is stored of an order is what its  *)
(* aggregate was when it was saved, so each order lives as OrderLifecycle  *)
(* says, no driver is lost or shared, and every offer has its timer.       *)
(***************************************************************************)
EXTENDS DispatchTypeProofs

OneAtATime ==
  /\ \A s, t \in Slots : s = t
  /\ MaxFaults = 0 /\ MaxCrashes = 0
-----------------------------------------------------------------------------
(* What is stored of an aggregate, and what is read back.                  *)
AttsOf(a) == {a.attempts[i] : i \in DOMAIN a.attempts}

Onto(f, n) == \A k \in 1..n : \E i \in 1..n : f[i] = k

Sorted(f, n) == \A i, j \in 1..n : i < j => f[i] <= f[j]

(* A weakly increasing map of 1..n onto itself is the identity.            *)
LEMMA SortedIsIdentity ==
  ASSUME NEW n \in Nat, NEW f \in [1..n -> 1..n], Onto(f, n), Sorted(f, n)
  PROVE  \A i \in 1..n : f[i] = i
<1>1. IsFiniteSet(1..n)
  BY FS_Interval
<1>2. f \in Surjection(1..n, 1..n)
  BY DEF Surjection, Onto
<1>3. f \in Injection(1..n, 1..n)
  BY <1>1, <1>2, FS_SurjSameCardinalityImpliesInj
<1>4. \A i, j \in 1..n : f[i] = f[j] => i = j
  BY <1>3 DEF Injection, IsInjective
<1> SUFFICES ASSUME NEW i \in 1..n PROVE f[i] = i
  OBVIOUS
<1>5. f[i] \in 1..n /\ i \in Nat /\ f[i] \in Nat
  OBVIOUS
<1>6. i <= f[i]
  <2> DEFINE g == [k \in 1..i |-> f[k]]
  <2>1. ASSUME NEW k \in 1..i PROVE k \in 1..n /\ f[k] \in 1..f[i]
    <3>1. k \in 1..n /\ (k = i \/ k < i)
      BY <1>5
    <3> QED BY <1>5, <3>1 DEF Sorted
  <2>2. g \in Injection(1..i, 1..f[i])
    BY <1>4, <2>1 DEF Injection, IsInjective
  <2>3. IsFiniteSet(1..f[i]) /\ Cardinality(1..f[i]) = f[i] /\ Cardinality(1..i) = i
    BY <1>5, FS_Interval
  <2> HIDE DEF g
  <2> QED BY <2>2, <2>3, FS_Injection
<1>7. f[i] <= i
  <2> DEFINE g == [k \in i..n |-> f[k]]
  <2>1. ASSUME NEW k \in i..n PROVE k \in 1..n /\ f[k] \in f[i]..n
    <3>1. k \in 1..n /\ (k = i \/ i < k)
      BY <1>5
    <3> QED BY <1>5, <3>1 DEF Sorted
  <2>2. g \in Injection(i..n, f[i]..n)
    BY <1>4, <2>1 DEF Injection, IsInjective
  <2>3. /\ IsFiniteSet(f[i]..n)
        /\ Cardinality(f[i]..n) = n - f[i] + 1 /\ Cardinality(i..n) = n - i + 1
    <3>1. ASSUME NEW m \in 1..n
          PROVE  IsFiniteSet(m..n) /\ Cardinality(m..n) = n - m + 1
      BY FS_Interval
    <3> QED BY <1>5, <3>1
  <2> HIDE DEF g
  <2>4. n - i + 1 <= n - f[i] + 1
    BY <2>2, <2>3, FS_Injection
  <2> QED BY <1>5, <2>4
<1> QED BY <1>5, <1>6, <1>7

(* The numbers of the offers tell them apart, so reading the attempts back *)
(* sorted by number gives the list that was saved.                         *)
LEMMA AttemptsReadBack ==
  ASSUME NEW a, Sound(a)
  PROVE  SortedAttempts(AttsOf(a)) = {a.attempts}
<1> DEFINE n == Len(a.attempts)
           S == AttsOf(a)
<1>1. /\ a.attempts \in Seq(Attempt) /\ n \in Nat /\ DOMAIN a.attempts = 1..n
      /\ \A i \in 1..n : a.attempts[i].no = i
  BY DEF Sound, Aggregate, OffersSound
<1>2. S = {a.attempts[i] : i \in 1..n}
  BY <1>1 DEF AttsOf
<1>3. a.attempts \in [1..n -> S]
  BY <1>1, <1>2
<1> HIDE DEF S
<1>4. Cardinality(S) = n
  <2>1. a.attempts \in Bijection(1..n, S)
    BY <1>1, <1>2, <1>3 DEF Bijection, Injection, Surjection, IsInjective
  <2>2. ExistsBijection(1..n, S)
    BY <2>1 DEF ExistsBijection
  <2>3. IsFiniteSet(1..n) /\ Cardinality(1..n) = n
    BY <1>1, FS_Interval
  <2> QED BY <2>2, <2>3, FS_Bijection
<1>5. a.attempts \in SortedAttempts(S)
  <2>1. \A x \in S : \E i \in 1..n : a.attempts[i] = x
    BY <1>2
  <2>2. \A i, j \in 1..n : i < j => a.attempts[i].no <= a.attempts[j].no
    BY <1>1
  <2> QED BY <1>1, <1>3, <1>4, <2>1, <2>2 DEF SortedAttempts
<1>6. ASSUME NEW q \in SortedAttempts(S) PROVE q = a.attempts
  <2>1. /\ q \in [1..n -> S]
        /\ \A x \in S : \E i \in 1..n : q[i] = x
        /\ \A i, j \in 1..n : i < j => q[i].no <= q[j].no
    BY <1>4, <1>6 DEF SortedAttempts
  <2>2. \A i \in 1..n : q[i].no \in 1..n /\ q[i] = a.attempts[q[i].no]
    BY <1>1, <1>2, <2>1
  <2> DEFINE f == [i \in 1..n |-> q[i].no]
  <2>3. f \in [1..n -> 1..n]
    BY <2>2
  <2>4. Onto(f, n)
    <3> SUFFICES ASSUME NEW k \in 1..n PROVE \E i \in 1..n : q[i].no = k
      BY DEF Onto
    <3>1. a.attempts[k] \in S
      BY <1>2
    <3> QED BY <1>1, <2>1, <3>1
  <2>5. Sorted(f, n)
    BY <2>1 DEF Sorted
  <2>6. \A i \in 1..n : f[i] = i
    <3> HIDE DEF f
    <3> QED BY <1>1, <2>3, <2>4, <2>5, SortedIsIdentity
  <2>7. \A i \in 1..n : q[i] = a.attempts[i]
    BY <2>2, <2>6
  <2> QED BY <1>3, <2>1, <2>7
<1> QED BY <1>5, <1>6 DEF S

(* The upserts of a longer list of attempts replace all that is stored.    *)
LEMMA AttemptsReplaced ==
  ASSUME NEW a, NEW b, Sound(a), Sound(b), Len(b.attempts) <= Len(a.attempts)
  PROVE  {x \in AttsOf(b) : \A y \in AttsOf(a) : y.id # x.id} \cup AttsOf(a) = AttsOf(a)
<1>1. /\ Len(a.attempts) \in Nat /\ DOMAIN a.attempts = 1..Len(a.attempts)
      /\ Len(b.attempts) \in Nat /\ DOMAIN b.attempts = 1..Len(b.attempts)
      /\ \A i \in 1..Len(a.attempts) : a.attempts[i].id = i
      /\ \A i \in 1..Len(b.attempts) : b.attempts[i].id = i
  BY DEF Sound, Aggregate, OffersSound
<1>2. ASSUME NEW x \in AttsOf(b) PROVE \E y \in AttsOf(a) : y.id = x.id
  <2>1. PICK i \in 1..Len(b.attempts) : x = b.attempts[i]
    BY <1>1 DEF AttsOf
  <2>2. i \in 1..Len(a.attempts)
    BY <1>1
  <2> QED BY <1>1, <2>1, <2>2 DEF AttsOf
<1> QED BY <1>2
-----------------------------------------------------------------------------
(* Order o is stored as a, or all but its attempts are: the handler that   *)
(* saves a is between the row and the attempts, and these are those of an  *)
(* earlier aggregate.                                                      *)
Stored(o, a) ==
  /\ Sound(a)
  /\ IF Exists(o) THEN row[o] = RowOf(a) ELSE a = NewAssignment
  /\ \A s \in SavingSlots(o) : slot[s].a = a
  /\ \E b : /\ Sound(b) /\ Len(b.attempts) <= Len(a.attempts)
            /\ atts[o] = AttsOf(b)
            /\ SavingSlots(o) = {} => b = a

LEMMA StoredIsRead ==
  ASSUME NEW o \in Orders, NEW a, Stored(o, a)
  PROVE  /\ View(o) = a
         /\ Exists(o) /\ SavingSlots(o) = {} => ById(o) = {a}
         /\ ~Exists(o) => ById(o) = {}
<1>1. ~Exists(o) => ById(o) = {}
  BY DEF Exists, ById
<1>2. ASSUME Exists(o), SavingSlots(o) = {} PROVE ById(o) = {a}
  <2>1. row[o] = RowOf(a) /\ atts[o] = AttsOf(a) /\ Sound(a) /\ a \in Aggregate
    BY <1>2 DEF Stored, Sound
  <2>2. SortedAttempts(atts[o]) = {a.attempts}
    BY <2>1, AttemptsReadBack
  <2>3. a = [status |-> row[o].status, assigned |-> row[o].assigned,
             offerAttempts |-> row[o].offerAttempts, attempts |-> a.attempts]
    BY <2>1 DEF RowOf, Aggregate
  <2> QED BY <1>2, <2>2, <2>3 DEF ById, Exists
<1>3. View(o) = a
  <2>1. CASE ~Exists(o)
    BY <2>1 DEF Stored, View
  <2>2. CASE Exists(o) /\ SavingSlots(o) # {}
    <3>1. (CHOOSE s \in SavingSlots(o) : TRUE) \in SavingSlots(o)
      BY <2>2
    <3> QED BY <2>2, <3>1 DEF Stored, View
  <2>3. CASE Exists(o) /\ SavingSlots(o) = {}
    <3>1. (CHOOSE x \in ById(o) : TRUE) = a
      BY <1>2, <2>3
    <3> QED BY <2>3, <3>1 DEF View
  <2> QED BY <2>1, <2>2, <2>3
<1> QED BY <1>1, <1>2, <1>3

(* The same of the next state.                                             *)
ReadBack ==
  \A o \in Orders : \A a : Stored(o, a) =>
    /\ View(o) = a
    /\ Exists(o) /\ SavingSlots(o) = {} => ById(o) = {a}
    /\ ~Exists(o) => ById(o) = {}

LEMMA StoredIsReadNext == ReadBack'
<1>1. ReadBack
  BY StoredIsRead DEF ReadBack
<1> QED BY <1>1, PTL

StoreInv == \A o \in Orders : \E a : Stored(o, a)

LEMMA ViewIsStored ==
  ASSUME StoreInv, NEW o \in Orders
  PROVE  Stored(o, View(o))
BY StoredIsRead DEF StoreInv

(* Slot s, the only one, holds h and goes on with r.                       *)
GoOn(s, h, r) == slot[s] = h /\ slot' = [slot EXCEPT ![s] = r]

LEMMA OnlySlot ==
  ASSUME OneAtATime, DOMAIN slot = Slots, NEW s \in Slots, NEW h, NEW r, GoOn(s, h, r)
  PROVE  /\ slot'[s] = r
         /\ \A t \in Slots : t = s
         /\ \A o : SavingSlots(o) = IF h.order = o /\ h.pc = "atts" THEN {s} ELSE {}
         /\ \A o : SavingSlots(o)' = IF r.order = o /\ r.pc = "atts" THEN {s} ELSE {}
<1>1. slot'[s] = r /\ \A t \in Slots : t = s
  BY DEF GoOn, OneAtATime
<1> QED BY <1>1 DEF SavingSlots, GoOn

ExistsStays == \A o \in Orders : Exists(o)' = Exists(o)

(* Every order is seen as before.                                          *)
ViewStays == \A o \in Orders : View(o)' = View(o)

(* Order o is seen as a from now on, the others as before.                 *)
Becomes(o, a) ==
  /\ View(o)' = a
  /\ \A p \in Orders : p # o => View(p)' = View(p)

LEMMA StaysStored ==
  ASSUME StoreInv, \A o \in Orders : \A a : Stored(o, a) => Stored(o, a)'
  PROVE  StoreInv' /\ ViewStays
<1> SUFFICES ASSUME NEW o \in Orders
             PROVE  (\E a : Stored(o, a)') /\ View(o)' = View(o)
  BY DEF StoreInv, ViewStays
<1>1. PICK a : Stored(o, a)
  BY DEF StoreInv
<1>2. Stored(o, a)'
  BY <1>1
<1> QED BY <1>1, <1>2, StoredIsRead, StoredIsReadNext DEF ReadBack

LEMMA BecomesStored ==
  ASSUME StoreInv, NEW o \in Orders, NEW a, Stored(o, a)',
         \A p \in Orders : p # o => \A b : Stored(p, b) => Stored(p, b)'
  PROVE  StoreInv' /\ Becomes(o, a)
<1>1. View(o)' = a
  BY StoredIsReadNext DEF ReadBack
<1>2. ASSUME NEW p \in Orders, p # o
      PROVE  (\E b : Stored(p, b)') /\ View(p)' = View(p)
  <2>1. PICK b : Stored(p, b)
    BY DEF StoreInv
  <2>2. Stored(p, b)'
    BY <1>2, <2>1
  <2> QED BY <2>1, <2>2, StoredIsRead, StoredIsReadNext DEF ReadBack
<1> QED BY <1>1, <1>2 DEF StoreInv, Becomes

(* A step that neither writes an order nor takes part in a save.           *)
LEMMA ViewsStay ==
  ASSUME OneAtATime, StoreInv, DOMAIN slot = Slots,
         NEW s \in Slots, NEW h, NEW r, GoOn(s, h, r),
         h.pc # "atts", r.pc # "atts", UNCHANGED <<row, atts>>
  PROVE  StoreInv' /\ ViewStays /\ ExistsStays
<1>1. ExistsStays /\ \A o : SavingSlots(o) = {} /\ SavingSlots(o)' = {}
  BY OnlySlot DEF Exists, ExistsStays
<1>2. ASSUME NEW o \in Orders, NEW a, Stored(o, a) PROVE Stored(o, a)'
  BY <1>1, <1>2 DEF Stored, ExistsStays
<1> QED BY <1>1, <1>2, StaysStored

LEMMA RowIsNotNoRow ==
  ASSUME NEW a, Sound(a)
  PROVE  RowOf(a) # NoRow
BY NoRowAssumption DEF Sound, Aggregate, RowOf, Row

(* A handler is about to save an aggregate that grew from the stored one.  *)
Grown(h) ==
  /\ h.order \in Orders /\ Exists(h.order) /\ Sound(h.a)
  /\ Len(View(h.order).attempts) <= Len(h.a.attempts)

LEMMA ViewAfterSaveRow ==
  ASSUME OneAtATime, StoreInv, DOMAIN slot = Slots, DOMAIN row = Orders,
         NEW s \in Slots, NEW h, slot[s] = h, Grown(h), DOMAIN h = HandlerFields,
         SaveRow(s)
  PROVE  StoreInv' /\ Becomes(h.order, h.a) /\ ExistsStays
<1> DEFINE r == [h EXCEPT !.pc = "atts"]
<1>1. /\ h.pc = "row" /\ row' = [row EXCEPT ![h.order] = RowOf(h.a)]
      /\ GoOn(s, h, r) /\ UNCHANGED atts
  BY DEF SaveRow, UpsertRow, Become, GoOn
<1>2. r.pc = "atts" /\ r.order = h.order /\ r.a = h.a
  BY DEF HandlerFields
<1> HIDE DEF r
<1>3. \A o : /\ SavingSlots(o) = {}
             /\ SavingSlots(o)' = IF h.order = o THEN {s} ELSE {}
  BY <1>1, <1>2, OnlySlot
<1>4. slot'[s].a = h.a
  BY <1>1, <1>2, OnlySlot
<1>5. ExistsStays
  <2>1. RowOf(h.a) # NoRow
    BY RowIsNotNoRow DEF Grown
  <2> QED BY <1>1, <2>1 DEF Exists, Grown, ExistsStays
<1>6. ASSUME NEW o \in Orders, o # h.order, NEW a, Stored(o, a) PROVE Stored(o, a)'
  <2>1. row'[o] = row[o]
    BY <1>1, <1>6
  <2> QED BY <1>1, <1>3, <1>5, <1>6, <2>1 DEF Stored, ExistsStays
<1>7. Stored(h.order, h.a)'
  <2>1. h.order \in Orders /\ Exists(h.order)' /\ Sound(h.a)
    BY <1>5 DEF Grown, ExistsStays
  <2>2. row'[h.order] = RowOf(h.a)
    BY <1>1, <2>1
  <2>3. PICK b : Sound(b) /\ atts[h.order] = AttsOf(b) /\ b = View(h.order)
    BY <1>3, <2>1, ViewIsStored DEF Stored
  <2>4. Len(b.attempts) <= Len(h.a.attempts)
    BY <2>3 DEF Grown
  <2>5. \A t \in SavingSlots(h.order)' : slot'[t].a = h.a
    BY <1>3, <1>4
  <2>6. SavingSlots(h.order)' # {}
    BY <1>3
  <2> QED BY <1>1, <2>1, <2>2, <2>3, <2>4, <2>5, <2>6 DEF Stored
<1> QED BY <1>5, <1>6, <1>7, BecomesStored DEF Grown

LEMMA ViewAfterSaveAttempts ==
  ASSUME OneAtATime, StoreInv, DOMAIN slot = Slots, DOMAIN atts = Orders,
         NEW s \in Slots, NEW h, slot[s] = h, h.order \in Orders,
         AfterSave(h).pc # "atts", SaveAttempts(s)
  PROVE  StoreInv' /\ ViewStays /\ ExistsStays /\ View(h.order) = h.a
<1> DEFINE r == AfterSave(h)
<1>1. /\ h.pc = "atts" /\ UpsertAttempts(h.order, h.a)
      /\ GoOn(s, h, r) /\ UNCHANGED row /\ r.pc # "atts"
  BY DEF SaveAttempts, Become, GoOn
<1> HIDE DEF r
<1>2. \A o : /\ SavingSlots(o) = IF h.order = o THEN {s} ELSE {}
             /\ SavingSlots(o)' = {}
  BY <1>1, OnlySlot
<1>3. ExistsStays
  BY <1>1 DEF Exists, ExistsStays
<1>4. View(h.order) = h.a
  BY <1>2, ViewIsStored DEF Stored
<1>5. PICK b : /\ Sound(b) /\ Sound(h.a) /\ Len(b.attempts) <= Len(h.a.attempts)
               /\ atts[h.order] = AttsOf(b)
  BY <1>4, ViewIsStored DEF Stored
<1>6. atts' = [atts EXCEPT ![h.order] = AttsOf(h.a)]
  <2>1. {x \in AttsOf(b) : \A y \in AttsOf(h.a) : y.id # x.id} \cup AttsOf(h.a)
          = AttsOf(h.a)
    BY <1>5, AttemptsReplaced
  <2>2. atts' = [atts EXCEPT ![h.order] =
                   {x \in atts[h.order] : \A y \in AttsOf(h.a) : y.id # x.id} \cup AttsOf(h.a)]
    BY <1>1 DEF UpsertAttempts, AttsOf
  <2> QED BY <1>5, <2>1, <2>2
<1>7. ASSUME NEW o \in Orders, o # h.order, NEW a, Stored(o, a)
      PROVE  Stored(o, a)'
  <2>1. atts'[o] = atts[o] /\ row'[o] = row[o]
    BY <1>1, <1>6, <1>7
  <2> QED BY <1>2, <1>3, <1>7, <2>1 DEF Stored, ExistsStays
<1>8. ASSUME NEW o \in Orders, o = h.order, NEW a, Stored(o, a)
      PROVE  Stored(o, a)'
  <2>1. a = h.a /\ Sound(a)
    BY <1>1, <1>2, <1>8 DEF Stored, GoOn
  <2>2. atts'[o] = AttsOf(a) /\ row'[o] = row[o]
    BY <1>1, <1>6, <1>8, <2>1
  <2>3. Len(a.attempts) <= Len(a.attempts)
    BY <2>1 DEF Sound, Aggregate
  <2> QED BY <1>2, <1>3, <1>8, <2>1, <2>2, <2>3 DEF Stored, ExistsStays
<1> QED BY <1>3, <1>4, <1>7, <1>8, StaysStored

LEMMA ViewAfterCommit ==
  ASSUME OneAtATime, StoreInv, DOMAIN slot = Slots, DOMAIN row = Orders, DOMAIN atts = Orders,
         NEW s \in Slots, NEW h, slot[s] = h, Grown(h), DOMAIN h = HandlerFields,
         Commit(s)
  PROVE  StoreInv' /\ Becomes(h.order, h.a) /\ ExistsStays
<1> DEFINE r == [h EXCEPT !.a = NewAssignment,
                   !.pc = IF h.driver # NoDriver THEN "free" ELSE "parked"]
<1>1. /\ h.pc = "commit" /\ row' = [row EXCEPT ![h.order] = RowOf(h.a)]
      /\ UpsertAttempts(h.order, h.a) /\ GoOn(s, h, r)
  BY DEF Commit, UpsertRow, Become, GoOn
<1>2. r.pc # "atts"
  BY DEF HandlerFields
<1> HIDE DEF r
<1>3. \A o : SavingSlots(o) = {} /\ SavingSlots(o)' = {}
  BY <1>1, <1>2, OnlySlot
<1>4. ExistsStays
  <2>1. RowOf(h.a) # NoRow
    BY RowIsNotNoRow DEF Grown
  <2> QED BY <1>1, <2>1 DEF Exists, Grown, ExistsStays
<1>5. PICK b : Sound(b) /\ atts[h.order] = AttsOf(b) /\ b = View(h.order)
  BY <1>3, ViewIsStored DEF Stored, Grown
<1>6. atts' = [atts EXCEPT ![h.order] = AttsOf(h.a)]
  <2>1. {x \in AttsOf(b) : \A y \in AttsOf(h.a) : y.id # x.id} \cup AttsOf(h.a)
          = AttsOf(h.a)
    BY <1>5, AttemptsReplaced DEF Grown
  <2>2. atts' = [atts EXCEPT ![h.order] =
                   {x \in atts[h.order] : \A y \in AttsOf(h.a) : y.id # x.id} \cup AttsOf(h.a)]
    BY <1>1 DEF UpsertAttempts, AttsOf
  <2> QED BY <1>5, <2>1, <2>2
<1>7. ASSUME NEW o \in Orders, o # h.order, NEW a, Stored(o, a) PROVE Stored(o, a)'
  <2>1. row'[o] = row[o] /\ atts'[o] = atts[o]
    BY <1>1, <1>6, <1>7
  <2> QED BY <1>3, <1>4, <1>7, <2>1 DEF Stored, ExistsStays
<1>8. Stored(h.order, h.a)'
  <2>1. h.order \in Orders /\ Exists(h.order)' /\ Sound(h.a)
    BY <1>4 DEF Grown, ExistsStays
  <2>2. row'[h.order] = RowOf(h.a) /\ atts'[h.order] = AttsOf(h.a)
    BY <1>1, <1>6, <2>1
  <2>3. Len(h.a.attempts) <= Len(h.a.attempts)
    BY <2>1 DEF Sound, Aggregate
  <2> QED BY <1>3, <2>1, <2>2, <2>3 DEF Stored
<1> QED BY <1>4, <1>7, <1>8, BecomesStored DEF Grown

LEMMA ViewAfterCreate ==
  ASSUME OneAtATime, StoreInv, DOMAIN slot = Slots, DOMAIN row = Orders,
         NEW s \in Slots, NEW h, NEW r, GoOn(s, h, r), h.pc # "atts", r.pc # "atts",
         NEW o \in Orders, ~Exists(o), UpsertRow(o, NewAssignment), UNCHANGED atts
  PROVE  /\ StoreInv' /\ ViewStays /\ Exists(o)'
         /\ \A p \in Orders : p # o => Exists(p)' = Exists(p)
<1>1. \A p : SavingSlots(p) = {} /\ SavingSlots(p)' = {}
  BY OnlySlot
<1>2. row' = [row EXCEPT ![o] = RowOf(NewAssignment)]
  BY DEF UpsertRow
<1>3. Exists(o)' /\ \A p \in Orders : p # o => Exists(p)' = Exists(p)
  BY <1>2, NewSound, RowIsNotNoRow DEF Exists
<1>4. ASSUME NEW p \in Orders, NEW a, Stored(p, a) PROVE Stored(p, a)'
  <2>1. CASE p # o
    <3>1. row'[p] = row[p]
      BY <1>2, <2>1
    <3> QED BY <1>1, <1>3, <1>4, <2>1, <3>1 DEF Stored
  <2>2. CASE p = o
    <3>1. a = NewAssignment /\ row'[p] = RowOf(a)
      BY <1>2, <1>4, <2>2 DEF Stored
    <3> QED BY <1>1, <1>3, <1>4, <2>2, <3>1 DEF Stored
  <2> QED BY <2>1, <2>2
<1> QED BY <1>3, <1>4, StaysStored
-----------------------------------------------------------------------------
(* What a handler is about to do to its order, which is seen as v: exactly *)
(* the steps of OrderLifecycle.                                            *)
Offering(h, v) ==
  /\ CanOffer(v) /\ Len(v.attempts) < MaxOffers
  /\ \E d \in Drivers \ TriedDrivers(v) : h.a = OfferTo(v, Len(v.attempts) + 1, d)

Accepting(h, v) == /\ h.driver \in Drivers /\ CanRespond(v, h.driver)
                   /\ h.a = Accept(v, h.driver)

Rejecting(h, v) == /\ h.driver \in Drivers /\ CanRespond(v, h.driver)
                   /\ h.a = RejectByDriver(v)

Expiring(h, v) == /\ \E n \in 1..MaxOffers : CanExpire(v, n)
                  /\ h.driver = CurrentAttempt(v).driver
                  /\ h.a = ExpireOffer(v)

GivingUp(h, v) == v.status = "awaiting_driver" /\ Exhausted(v) /\ h.a = MarkFailed(v)

Forcing(h, v) == /\ h.driver \in Directory /\ CanForce(v)
                 /\ h.a = ForceAssign(v, h.driver)

Completing(h, v) == /\ CanComplete(v) /\ h.driver = v.assigned
                    /\ h.a = MarkCompleted(v)

Cancelling(h, v) == h.driver = FreedByCancel(v) /\ h.a = Cancel(v)

Doing(h, v) ==
  /\ h.pc = "row" =>
       \/ Offering(h, v) \/ Accepting(h, v) \/ Rejecting(h, v) \/ Expiring(h, v)
       \/ GivingUp(h, v) \/ Forcing(h, v)
  /\ h.pc = "commit" => Completing(h, v) \/ Cancelling(h, v)
  /\ h.pc \in {"claim", "schedule", "mark"} => h.a = v
  /\ h.pc = "claim" => CanOffer(v)
  /\ h.pc = "atts" =>
       h.a.status \in {"offered", "assigned", "failed", "awaiting_driver"}
  /\ (h.pc \in {"row", "atts"} /\ h.kind = "force") => h.a.assigned = h.driver
  /\ h.pc = "mark" => v.status = "assigned" /\ v.assigned = h.driver

(* The driver a handler keeps busy: of the offer it is about to save, or   *)
(* the one it is about to free.                                            *)
Held(h) ==
  IF h.pc = "row" /\ h.a.status = "offered" THEN {CurrentAttempt(h.a).driver}
  ELSE IF h.pc = "free" \/ (h.pc = "atts" /\ h.a.status = "awaiting_driver")
       THEN {h.driver} ELSE {}

(* The driver an aggregate keeps busy.                                     *)
EngagedBy(a) ==
  IF a.status = "assigned" THEN {a.assigned}
  ELSE IF a.status = "offered" THEN {CurrentAttempt(a).driver} ELSE {}

(* The drivers kept busy by the order and by the handler, before and after *)
(* a save: the same ones, but for a driver that is forced.                 *)
SameDrivers(before, engaged, held) ==
  /\ before \subseteq engaged \cup held
  /\ (engaged \cup held) \ Directory \subseteq before
  /\ engaged \cap held = {}

HeldAfterRow(h) == IF h.a.status = "awaiting_driver" THEN {h.driver} ELSE {}

HeldAfterCommit(h) == IF h.driver # NoDriver THEN {h.driver} ELSE {}

LEMMA CurrentFacts ==
  ASSUME NEW v, Sound(v), v.status = "offered"
  PROVE  /\ v.attempts # <<>> /\ Len(v.attempts) \in Nat \ {0}
         /\ CurrentAttempt(v) = v.attempts[Len(v.attempts)]
         /\ CurrentAttempt(v).driver \in Drivers
         /\ CurrentAttempt(v).no = v.offerAttempts
         /\ CurrentAttempt(v).no = Len(v.attempts)
         /\ CurrentAttempt(v).id = Len(v.attempts)
         /\ CurrentAttempt(v).outcome = "offered"
<1>1. /\ v.attempts # <<>> /\ v.attempts \in Seq(Attempt)
      /\ Len(v.attempts) \in Nat \ {0} /\ CurrentAttempt(v).outcome = "offered"
  BY DEF Sound, StatusSound, Aggregate
<1>2. v.attempts[Len(v.attempts)] \in Attempt
  BY <1>1
<1> QED BY <1>1, <1>2 DEF Sound, OffersSound, CurrentAttempt, Attempt

LEMMA OfferDrivers ==
  ASSUME NEW h, NEW v, Sound(v), h.pc = "row", Offering(h, v)
  PROVE  /\ Sound(h.a)
         /\ h.a.status = "offered" /\ Len(h.a.attempts) = Len(v.attempts) + 1
         /\ SameDrivers(EngagedBy(v) \cup Held(h), EngagedBy(h.a), HeldAfterRow(h))
<1>1. PICK d \in Drivers \ TriedDrivers(v) : h.a = OfferTo(v, Len(v.attempts) + 1, d)
  BY DEF Offering
<1>2. v \in Aggregate /\ Len(v.attempts) + 1 \in Nat /\ v.status = "awaiting_driver"
  BY DEF Offering, CanOffer, Sound, Aggregate
<1>3. Sound(h.a)
  BY <1>1, OfferSound DEF Offering
<1>4. h.a.status = "offered" /\ Len(h.a.attempts) = Len(v.attempts) + 1
  <2>1. ASSUME NEW m \in Nat
        PROVE  /\ OfferTo(v, m, d).status = "offered"
               /\ Len(OfferTo(v, m, d).attempts) = Len(v.attempts) + 1
    BY <1>2, OfferFacts
  <2> QED BY <1>1, <1>2, <2>1
<1>5. /\ EngagedBy(v) = {} /\ HeldAfterRow(h) = {}
      /\ Held(h) = EngagedBy(h.a)
  BY <1>2, <1>4 DEF EngagedBy, HeldAfterRow, Held
<1> QED BY <1>3, <1>4, <1>5 DEF SameDrivers

LEMMA AnswerDrivers ==
  ASSUME NEW h, NEW v, Sound(v), h.pc = "row",
         Accepting(h, v) \/ Rejecting(h, v) \/ Expiring(h, v)
  PROVE  /\ Sound(h.a)
         /\ h.a.status \in {"assigned", "awaiting_driver"}
         /\ Len(h.a.attempts) = Len(v.attempts)
         /\ SameDrivers(EngagedBy(v) \cup Held(h), EngagedBy(h.a), HeldAfterRow(h))
<1>1. v \in Aggregate /\ v.status = "offered" /\ CurrentAttempt(v).driver = h.driver
  BY DEF Accepting, Rejecting, Expiring, CanRespond, CanExpire, Sound
<1>2. v.attempts # <<>>
  BY <1>1, CurrentFacts
<1>3. ASSUME NEW o \in Outcomes PROVE Len(Resolve(v, o)) = Len(v.attempts)
  BY <1>1, <1>2, ResolveFacts
<1>4. Sound(h.a)
  BY MethodsSound DEF Accepting, Rejecting, Expiring
<1>5. /\ h.a.status \in {"assigned", "awaiting_driver"}
      /\ h.a.status = "assigned" => h.a.assigned = h.driver
      /\ Len(h.a.attempts) = Len(v.attempts)
  BY <1>1, <1>3, MethodFields DEF Accepting, Rejecting, Expiring, Outcomes
<1>6. /\ EngagedBy(v) = {h.driver} /\ Held(h) = {}
      /\ EngagedBy(h.a) = IF h.a.status = "assigned" THEN {h.driver} ELSE {}
  BY <1>1, <1>5 DEF EngagedBy, Held
<1> QED BY <1>4, <1>5, <1>6 DEF SameDrivers, HeldAfterRow

LEMMA SettleDrivers ==
  ASSUME NEW h, NEW v, Sound(v), h.pc = "row", GivingUp(h, v) \/ Forcing(h, v)
  PROVE  /\ Sound(h.a)
         /\ h.a.status \in {"assigned", "failed"}
         /\ Len(h.a.attempts) = Len(v.attempts)
         /\ SameDrivers(EngagedBy(v) \cup Held(h), EngagedBy(h.a), HeldAfterRow(h))
<1>1. v \in Aggregate /\ v.status \in {"awaiting_driver", "failed"}
  BY DEF GivingUp, Forcing, CanForce, Sound
<1>2. Sound(h.a)
  BY MethodsSound, DispatchAssumption DEF GivingUp, Forcing
<1>3. /\ h.a.attempts = v.attempts
      /\ \/ h.a.status = "failed"
         \/ h.a.status = "assigned" /\ h.a.assigned \in Directory
  BY <1>1, MethodFields DEF GivingUp, Forcing
<1>4. /\ EngagedBy(v) = {} /\ Held(h) = {} /\ HeldAfterRow(h) = {}
      /\ EngagedBy(h.a) \subseteq Directory
  BY <1>1, <1>3 DEF EngagedBy, Held, HeldAfterRow
<1> QED BY <1>2, <1>3, <1>4 DEF SameDrivers

LEMMA RowDrivers ==
  ASSUME NEW h, NEW v, Sound(v), h.pc = "row", Doing(h, v)
  PROVE  /\ Sound(h.a)
         /\ h.a.status \in {"offered", "assigned", "failed", "awaiting_driver"}
         /\ Len(h.a.attempts) = IF h.a.status = "offered" THEN Len(v.attempts) + 1
                                ELSE Len(v.attempts)
         /\ SameDrivers(EngagedBy(v) \cup Held(h), EngagedBy(h.a), HeldAfterRow(h))
<1>1. CASE Offering(h, v)
  BY <1>1, OfferDrivers
<1>2. CASE Accepting(h, v) \/ Rejecting(h, v) \/ Expiring(h, v)
  BY <1>2, AnswerDrivers
<1>3. CASE GivingUp(h, v) \/ Forcing(h, v)
  BY <1>3, SettleDrivers
<1> QED BY <1>1, <1>2, <1>3 DEF Doing

LEMMA CommitDrivers ==
  ASSUME NEW h, NEW v, Sound(v), h.pc = "commit", Doing(h, v)
  PROVE  /\ Sound(h.a) /\ h.a.status # "offered"
         /\ Len(h.a.attempts) = Len(v.attempts)
         /\ SameDrivers(EngagedBy(v) \cup Held(h), EngagedBy(h.a), HeldAfterCommit(h))
<1>1. v \in Aggregate
  BY DEF Sound
<1>2. Held(h) = {}
  BY DEF Held
<1>3. CASE Completing(h, v)
  <2>1. Sound(h.a)
    BY <1>3, MethodsSound DEF Completing
  <2>2. h.a.status = "completed" /\ h.a.attempts = v.attempts
    BY <1>1, <1>3, MethodFields DEF Completing
  <2>3. h.driver \in Drivers /\ v.status = "assigned" /\ h.driver = v.assigned
    BY <1>3 DEF Completing, CanComplete, Sound, StatusSound
  <2>4. EngagedBy(v) = {h.driver} /\ EngagedBy(h.a) = {} /\ HeldAfterCommit(h) = {h.driver}
    BY <2>2, <2>3, NoDriverAssumption DEF EngagedBy, HeldAfterCommit
  <2> QED BY <1>2, <2>1, <2>2, <2>4 DEF SameDrivers
<1>4. CASE Cancelling(h, v)
  <2>1. Sound(h.a)
    BY <1>4, MethodsSound DEF Cancelling
  <2>2. h.a.status \in Terminal
    BY <1>1, <1>4, CancelFields DEF Cancelling, Terminal
  <2>3. Len(h.a.attempts) = Len(v.attempts)
    <3>1. ASSUME v.status = "offered" PROVE Len(Resolve(v, "expired")) = Len(v.attempts)
      BY <1>1, <3>1, CurrentFacts, ResolveFacts DEF Outcomes
    <3> QED BY <1>1, <1>4, <3>1, CancelFields DEF Cancelling
  <2>4. EngagedBy(h.a) = {}
    BY <2>2 DEF EngagedBy, Terminal
  <2>5. EngagedBy(v) = HeldAfterCommit(h)
    <3>1. CASE v.status = "assigned"
      <4>1. v.assigned \in Drivers /\ h.driver = v.assigned
        BY <1>4, <3>1 DEF Cancelling, FreedByCancel, Sound, StatusSound
      <4> QED BY <3>1, <4>1, NoDriverAssumption DEF EngagedBy, HeldAfterCommit
    <3>2. CASE v.status = "offered"
      <4>1. h.driver = CurrentAttempt(v).driver /\ h.driver \in Drivers
        BY <1>4, <3>2, CurrentFacts DEF Cancelling, FreedByCancel
      <4> QED BY <3>2, <4>1, NoDriverAssumption DEF EngagedBy, HeldAfterCommit
    <3>3. CASE v.status \notin {"assigned", "offered"}
      BY <1>4, <3>3 DEF Cancelling, FreedByCancel, EngagedBy, HeldAfterCommit
    <3> QED BY <3>1, <3>2, <3>3
  <2> QED BY <1>2, <2>1, <2>2, <2>3, <2>4, <2>5 DEF SameDrivers, Terminal
<1> QED BY <1>3, <1>4 DEF Doing
-----------------------------------------------------------------------------
(* The invariant.                                                          *)
DoingInv ==
  \A s \in Slots : \A o \in Orders : slot[s].order = o =>
    /\ Doing(slot[s], View(o))
    /\ slot[s].pc \in {"row", "commit", "claim"} => Exists(o)

(* An attempt id is handed out just before the offer is saved.             *)
Pending(h, o) == h.order = o /\ h.pc = "row" /\ h.a.status = "offered"

MintedInv ==
  \A o \in Orders :
    minted[o] = IF \E s \in Slots : Pending(slot[s], o)
                THEN Len(View(o).attempts) + 1 ELSE Len(View(o).attempts)

CreatedInv ==
  \A o \in Orders : Exists(o) => [type |-> "order.created", order |-> o] \in processed

(* The handler that will schedule the timer, or will end the offer.        *)
Timing(h, o) == h.order = o /\ h.pc \in {"row", "atts", "schedule"}

TimerInv ==
  \A o \in Orders : View(o).status = "offered" =>
    TimerIn(o, View(o).offerAttempts, holding) \/ \E s \in Slots : Timing(slot[s], o)

(* Whoever is busy is kept busy by an order or by a handler.               *)
Accounted ==
  \A d \in busy : \/ \E o \in Orders : d \in EngagedBy(View(o))
                  \/ \E s \in Slots : d \in Held(slot[s])

(* A driver nobody forces is kept busy by one of them only.                *)
Exclusive ==
  \A d \in Drivers \ Directory :
    /\ \A o \in Orders : d \in EngagedBy(View(o)) =>
         /\ d \in busy
         /\ \A s \in Slots : d \notin Held(slot[s])
         /\ \A p \in Orders : d \in EngagedBy(View(p)) => o = p
    /\ \A s \in Slots : d \in Held(slot[s]) => d \in busy

SerialInv ==
  /\ StoreInv /\ DoingInv /\ MintedInv /\ CreatedInv /\ TimerInv
  /\ Accounted /\ Exclusive
-----------------------------------------------------------------------------
LEMMA LoadedIsView ==
  ASSUME OneAtATime, StoreInv, NEW s \in Slots, slot[s].pc # "atts",
         NEW o \in Orders, NEW a \in ById(o)
  PROVE  a = View(o) /\ Exists(o) /\ Sound(a)
<1>1. SavingSlots(o) = {} /\ Exists(o)
  BY DEF SavingSlots, OneAtATime, Exists, ById
<1>2. Stored(o, View(o))
  BY ViewIsStored
<1> QED BY <1>1, <1>2, StoredIsRead DEF Stored

(* What a step that changes no view has to show.                           *)
LEMMA PartsStay ==
  ASSUME OneAtATime, SerialInv, DOMAIN slot = Slots,
         NEW s \in Slots, NEW h, NEW r, GoOn(s, h, r), ViewStays, ExistsStays,
         processed \subseteq processed',
         \A o \in Orders : r.order = o =>
           /\ Doing(r, View(o))
           /\ r.pc \in {"row", "commit", "claim"} => Exists(o),
         \A o \in Orders :
           minted'[o] = IF Pending(r, o) THEN Len(View(o).attempts) + 1
                        ELSE Len(View(o).attempts),
         \A o \in Orders :
           /\ View(o).status = "offered"
           /\ TimerIn(o, View(o).offerAttempts, holding) \/ Timing(h, o)
           => TimerIn(o, View(o).offerAttempts, holding') \/ Timing(r, o)
  PROVE  DoingInv' /\ MintedInv' /\ CreatedInv' /\ TimerInv'
<1>1. slot[s] = h /\ slot'[s] = r /\ \A t \in Slots : t = s
  BY OnlySlot DEF GoOn
<1>2. DoingInv'
  BY <1>1 DEF DoingInv, ViewStays, ExistsStays
<1>3. MintedInv'
  BY <1>1 DEF MintedInv, ViewStays
<1>4. CreatedInv'
  BY DEF SerialInv, CreatedInv, ExistsStays
<1>5. TimerInv'
  BY <1>1 DEF SerialInv, TimerInv, ViewStays
<1> QED BY <1>2, <1>3, <1>4, <1>5

(* The drivers, when no view changes: nothing happens, a driver is         *)
(* claimed, one is freed, or one who is engaged is marked busy.            *)
LEMMA DriversStay ==
  ASSUME OneAtATime, SerialInv, DOMAIN slot = Slots,
         NEW s \in Slots, NEW h, NEW r, GoOn(s, h, r), ViewStays,
         \/ busy' = busy /\ Held(r) = Held(h)
         \/ \E d : /\ d \notin busy /\ busy' = busy \cup {d}
                   /\ Held(h) = {} /\ Held(r) = {d}
         \/ \E d : busy' = busy \ {d} /\ Held(h) = {d} /\ Held(r) = {}
         \/ \E d : /\ \E o \in Orders : d \in EngagedBy(View(o))
                   /\ busy' = busy \cup {d}
                   /\ Held(h) = {} /\ Held(r) = {}
  PROVE  Accounted' /\ Exclusive'
<1>1. slot[s] = h /\ slot'[s] = r /\ \A t \in Slots : t = s
  BY OnlySlot DEF GoOn
<1>2. /\ \A d \in busy : (\E o \in Orders : d \in EngagedBy(View(o))) \/ d \in Held(h)
      /\ \A d \in Drivers \ Directory :
           /\ \A o \in Orders : d \in EngagedBy(View(o)) =>
                /\ d \in busy /\ d \notin Held(h)
                /\ \A p \in Orders : d \in EngagedBy(View(p)) => o = p
           /\ d \in Held(h) => d \in busy
  BY <1>1 DEF SerialInv, Accounted, Exclusive
<1>3. /\ \A d \in busy' : (\E o \in Orders : d \in EngagedBy(View(o))) \/ d \in Held(r)
      /\ \A d \in Drivers \ Directory :
           /\ \A o \in Orders : d \in EngagedBy(View(o)) =>
                /\ d \in busy' /\ d \notin Held(r)
                /\ \A p \in Orders : d \in EngagedBy(View(p)) => o = p
           /\ d \in Held(r) => d \in busy'
  BY <1>2
<1> QED BY <1>1, <1>3 DEF ViewStays, Accounted, Exclusive

(* The drivers, when order o becomes h.a.                                  *)
LEMMA DriversMove ==
  ASSUME OneAtATime, SerialInv, DOMAIN slot = Slots,
         NEW s \in Slots, NEW h, NEW r, GoOn(s, h, r),
         NEW o \in Orders, NEW v, v = View(o), NEW a, Becomes(o, a), busy' = busy,
         SameDrivers(EngagedBy(v) \cup Held(h), EngagedBy(a), Held(r))
  PROVE  Accounted' /\ Exclusive'
<1>1. slot[s] = h /\ slot'[s] = r /\ \A t \in Slots : t = s
  BY OnlySlot DEF GoOn
<1>2. View(o) = v /\ View(o)' = a /\ \A p \in Orders : p # o => View(p)' = View(p)
  BY DEF Becomes
<1>3. Accounted'
  <2> SUFFICES ASSUME NEW d \in busy
               PROVE  (\E p \in Orders : d \in EngagedBy(View(p)')) \/ d \in Held(r)
    BY <1>1 DEF Accounted
  <2>1. (\E p \in Orders : d \in EngagedBy(View(p))) \/ d \in Held(h)
    BY <1>1 DEF SerialInv, Accounted
  <2> QED BY <1>2, <2>1 DEF SameDrivers
<1>4. Exclusive'
  <2> SUFFICES ASSUME NEW d \in Drivers \ Directory
               PROVE  /\ \A p \in Orders : d \in EngagedBy(View(p)') =>
                           /\ d \in busy /\ d \notin Held(r)
                           /\ \A q \in Orders : d \in EngagedBy(View(q)') => p = q
                      /\ d \in Held(r) => d \in busy
    BY <1>1 DEF Exclusive
  <2>1. /\ \A p \in Orders : d \in EngagedBy(View(p)) =>
             /\ d \in busy /\ d \notin Held(h)
             /\ \A q \in Orders : d \in EngagedBy(View(q)) => p = q
        /\ d \in Held(h) => d \in busy
    BY <1>1 DEF SerialInv, Exclusive
  <2>2. d \in EngagedBy(a) \/ d \in Held(r) => d \in EngagedBy(v) \/ d \in Held(h)
    BY DEF SameDrivers
  <2>3. ~(d \in EngagedBy(a) /\ d \in Held(r))
    BY DEF SameDrivers
  <2> QED BY <1>2, <2>1, <2>2, <2>3
<1> QED BY <1>3, <1>4
-----------------------------------------------------------------------------
(* The steps that write no order.                                          *)
LEMMA SlotFacts ==
  ASSUME OneAtATime, TypeInv, SerialInv, NEW s \in Slots, NEW h, slot[s] = h
  PROVE  /\ DOMAIN slot = Slots /\ DOMAIN row = Orders /\ DOMAIN atts = Orders
         /\ h \in Handler /\ DOMAIN h = HandlerFields /\ Task(h, minted)
         /\ h.pc \in OnOrder => h.order \in Orders
         /\ \A t \in Slots : t = s
         /\ \A o \in Orders : h.order = o =>
              /\ Doing(h, View(o))
              /\ h.pc \in {"row", "commit", "claim"} => Exists(o)
         /\ \A o \in Orders : minted[o] =
              IF Pending(h, o) THEN Len(View(o).attempts) + 1 ELSE Len(View(o).attempts)
         /\ \A o \in Orders : Sound(View(o))
<1>1. /\ DOMAIN slot = Slots /\ DOMAIN row = Orders /\ DOMAIN atts = Orders
      /\ h \in Handler /\ Task(h, minted)
  BY DEF TypeInv, TablesOK, SlotsOK
<1>2. DOMAIN h = HandlerFields
  BY <1>1 DEF Handler, HandlerFields
<1>3. \A t \in Slots : t = s
  BY DEF OneAtATime
<1>4. \A o \in Orders : Sound(View(o))
  BY ViewIsStored DEF SerialInv, Stored
<1>5. \A o \in Orders : h.order = o =>
        /\ Doing(h, View(o))
        /\ h.pc \in {"row", "commit", "claim"} => Exists(o)
  BY DEF SerialInv, DoingInv
<1>6. \A o \in Orders : minted[o] =
        IF Pending(h, o) THEN Len(View(o).attempts) + 1 ELSE Len(View(o).attempts)
  BY <1>3 DEF SerialInv, MintedInv
<1>7. h.pc \in OnOrder => h.order \in Orders
  BY <1>1 DEF Task
<1> QED BY <1>1, <1>2, <1>3, <1>4, <1>5, <1>6, <1>7

(* What happens to the drivers while no order is written.                  *)
DriversGoOn(h, r) ==
  \/ busy' = busy /\ Held(r) = Held(h)
  \/ \E d : busy' = busy \ {d} /\ Held(h) = {d} /\ Held(r) = {}
  \/ \E d : /\ \E o \in Orders : d \in EngagedBy(View(o))
            /\ busy' = busy \cup {d}
            /\ Held(h) = {} /\ Held(r) = {}

LEMMA QuietSerial ==
  ASSUME OneAtATime, TypeInv, SerialInv, NEW s \in Slots, NEW h, NEW r, GoOn(s, h, r),
         h.pc \notin {"row", "atts"}, r.pc # "atts", \A o \in Orders : ~Pending(r, o),
         UNCHANGED <<row, atts, minted>>, processed \subseteq processed',
         DriversGoOn(h, r),
         \A o \in Orders : r.order = o =>
           /\ Doing(r, View(o))
           /\ r.pc \in {"row", "commit", "claim"} => Exists(o),
         \A o \in Orders :
           /\ View(o).status = "offered"
           /\ TimerIn(o, View(o).offerAttempts, holding) \/ Timing(h, o)
           => TimerIn(o, View(o).offerAttempts, holding') \/ Timing(r, o)
  PROVE  SerialInv' /\ ViewStays /\ ExistsStays
<1>1. DOMAIN slot = Slots /\ StoreInv
  BY SlotFacts DEF GoOn, SerialInv
<1>2. StoreInv' /\ ViewStays /\ ExistsStays
  BY <1>1, ViewsStay
<1>3. \A o \in Orders :
        minted'[o] = IF Pending(r, o) THEN Len(View(o).attempts) + 1
                     ELSE Len(View(o).attempts)
  <2>1. \A o \in Orders : ~Pending(h, o)
    BY DEF Pending
  <2> QED BY <2>1, SlotFacts DEF GoOn
<1>4. DoingInv' /\ MintedInv' /\ CreatedInv' /\ TimerInv'
  BY <1>1, <1>2, <1>3, PartsStay
<1>5. Accounted' /\ Exclusive'
  BY <1>1, <1>2, DriversStay DEF DriversGoOn
<1> QED BY <1>2, <1>4, <1>5 DEF SerialInv

Resting == {"idle", "free", "recheck", "load", "pool", "parked", "publish", "ack"}

LEMMA RestSerial ==
  ASSUME OneAtATime, TypeInv, SerialInv, NEW s \in Slots, NEW h, NEW r, GoOn(s, h, r),
         h.pc \notin {"row", "atts", "schedule"}, r.pc \in Resting,
         UNCHANGED <<row, atts, minted, holding>>, processed \subseteq processed',
         DriversGoOn(h, r)
  PROVE  SerialInv' /\ ViewStays /\ ExistsStays
<1>1. r.pc # "atts" /\ r.pc \notin {"row", "commit", "claim"}
      /\ \A o \in Orders : ~Pending(r, o)
  BY DEF Resting, Pending
<1>2. \A v : Doing(r, v)
  BY DEF Resting, Doing
<1>3. \A o \in Orders : ~Timing(h, o)
  BY DEF Timing
<1> QED BY <1>1, <1>2, <1>3, QuietSerial

(* Where the end of a handler, and the next parked order, leave it.        *)
LEMMA EndRests ==
  ASSUME NEW h \in Handler
  PROVE  /\ Done(h).pc \in {"idle", "ack"} /\ Held(Done(h)) = {}
         /\ NextOrder(h).pc \in {"idle", "ack", "load"} /\ Held(NextOrder(h)) = {}
<1>1. Done(h).pc \in {"idle", "ack"}
  BY DEF Done, Idle
<1>2. NextOrder(h).pc \in {"idle", "ack", "load"}
  BY <1>1 DEF NextOrder, Handler
<1> QED BY <1>1, <1>2 DEF Held

LEMMA FreeSerial ==
  ASSUME OneAtATime, TypeInv, SerialInv, NEW s \in Slots, FreeDriver(s)
  PROVE  SerialInv' /\ ViewStays /\ ExistsStays
<1>1. PICK h : slot[s] = h
  OBVIOUS
<1>2. h \in Handler /\ h.pc = "free"
  BY <1>1, SlotFacts DEF FreeDriver
<1> DEFINE r == [h EXCEPT !.driver = NoDriver, !.a = NewAssignment,
                   !.pc = IF h.kind \in {"reject", "expire"}
                          THEN "recheck" ELSE "parked"]
<1>3. GoOn(s, h, r) /\ busy' = busy \ {h.driver} /\ UNCHANGED <<db, holding>>
  BY <1>1 DEF FreeDriver, Become, GoOn, Pool!FreeDriver
<1>4. r.pc \in {"recheck", "parked"}
  BY <1>2 DEF Handler
<1> HIDE DEF r
<1>5. Held(h) = {h.driver} /\ Held(r) = {}
  BY <1>2, <1>4 DEF Held
<1>6. DriversGoOn(h, r)
  BY <1>3, <1>5 DEF DriversGoOn
<1> QED BY <1>2, <1>3, <1>4, <1>6, RestSerial DEF db, Resting

LEMMA RecheckSerial ==
  ASSUME OneAtATime, TypeInv, SerialInv, NEW s \in Slots, Recheck(s)
  PROVE  SerialInv' /\ ViewStays /\ ExistsStays
<1>1. PICK h : slot[s] = h
  OBVIOUS
<1>2. h \in Handler /\ h.pc = "recheck" /\ h.order \in Orders
  BY <1>1, SlotFacts DEF Recheck, OnOrder
<1>3. UNCHANGED <<db, pool, holding>>
  BY DEF Recheck
<1>4. PICK a \in ById(h.order) :
        GoOn(s, h, IF a.status # "awaiting_driver" THEN Done(h)
                   ELSE IF Exhausted(a)
                   THEN [h EXCEPT !.pc = "row", !.a = MarkFailed(a)]
                   ELSE [h EXCEPT !.pc = "load"])
  BY <1>1 DEF Recheck, Become, GoOn
<1>5. a = View(h.order) /\ Exists(h.order) /\ Sound(a)
  BY <1>1, <1>2, LoadedIsView DEF SerialInv
<1>6. Held(h) = {}
  BY <1>2 DEF Held
<1>7. CASE a.status # "awaiting_driver" \/ ~Exhausted(a)
  <2>1. PICK r : GoOn(s, h, r) /\ r.pc \in {"idle", "ack", "load"} /\ Held(r) = {}
    <3>1. CASE a.status # "awaiting_driver"
      BY <1>2, <1>4, <3>1, EndRests
    <3>2. CASE a.status = "awaiting_driver" /\ ~Exhausted(a)
      <4>1. [h EXCEPT !.pc = "load"].pc = "load"
        BY <1>2 DEF Handler
      <4> QED BY <1>4, <3>2, <4>1 DEF Held
    <3> QED BY <1>7, <3>1, <3>2
  <2>2. DriversGoOn(h, r)
    BY <1>3, <1>6, <2>1 DEF pool, DriversGoOn
  <2> QED BY <1>2, <1>3, <2>1, <2>2, RestSerial DEF db, Resting
<1>8. CASE a.status = "awaiting_driver" /\ Exhausted(a)
  <2> DEFINE r == [h EXCEPT !.pc = "row", !.a = MarkFailed(a)]
  <2>1. GoOn(s, h, r)
    BY <1>4, <1>8
  <2>2. /\ r.pc = "row" /\ r.order = h.order /\ r.a = MarkFailed(a) /\ r.kind = h.kind
        /\ r.a.status = "failed"
    BY <1>2, <1>5, MethodFields DEF Handler, Sound
  <2>3. h.kind # "force"
    BY <1>1, <1>2, SlotFacts DEF Task
  <2> HIDE DEF r
  <2>4. Held(r) = {} /\ \A o \in Orders : ~Pending(r, o) /\ ~Timing(h, o)
    BY <1>2, <2>2 DEF Held, Pending, Timing
  <2>5. DriversGoOn(h, r)
    BY <1>3, <1>6, <2>4 DEF pool, DriversGoOn
  <2>6. Doing(r, View(h.order))
    <3>1. GivingUp(r, a)
      BY <1>8, <2>2 DEF GivingUp
    <3> QED BY <1>5, <2>2, <2>3, <3>1 DEF Doing
  <2>7. \A o \in Orders : r.order = o => Doing(r, View(o)) /\ Exists(o)
    BY <1>5, <2>2, <2>6
  <2> QED BY <1>2, <1>3, <2>1, <2>2, <2>4, <2>5, <2>7, QuietSerial DEF db
<1> QED BY <1>7, <1>8

LEMMA LoadSerial ==
  ASSUME OneAtATime, TypeInv, SerialInv, NEW s \in Slots, Load(s)
  PROVE  SerialInv' /\ ViewStays /\ ExistsStays
<1>1. PICK h : slot[s] = h
  OBVIOUS
<1>2. h \in Handler /\ h.pc = "load" /\ h.order \in Orders
  BY <1>1, SlotFacts DEF Load, OnOrder
<1>3. UNCHANGED <<db, pool, holding>>
  BY DEF Load
<1>4. PICK a \in ById(h.order) :
        GoOn(s, h, IF a.status # "awaiting_driver" THEN NextOrder(h)
                   ELSE [h EXCEPT !.pc = "claim", !.a = a])
  BY <1>1 DEF Load, Become, GoOn
<1>5. a = View(h.order) /\ Exists(h.order) /\ Sound(a)
  BY <1>1, <1>2, LoadedIsView DEF SerialInv
<1>6. Held(h) = {}
  BY <1>2 DEF Held
<1>7. CASE a.status # "awaiting_driver"
  <2>1. GoOn(s, h, NextOrder(h))
    BY <1>4, <1>7
  <2>2. DriversGoOn(h, NextOrder(h)) /\ NextOrder(h).pc \in Resting
    BY <1>2, <1>3, <1>6, EndRests DEF pool, DriversGoOn, Resting
  <2> QED BY <1>2, <1>3, <2>1, <2>2, RestSerial DEF db
<1>8. CASE a.status = "awaiting_driver"
  <2> DEFINE r == [h EXCEPT !.pc = "claim", !.a = a]
  <2>1. GoOn(s, h, r)
    BY <1>4, <1>8
  <2>2. r.pc = "claim" /\ r.order = h.order /\ r.a = a
    BY <1>2 DEF Handler
  <2> HIDE DEF r
  <2>3. Held(r) = {} /\ \A o \in Orders : ~Pending(r, o) /\ ~Timing(h, o)
    BY <1>2, <2>2 DEF Held, Pending, Timing
  <2>4. DriversGoOn(h, r)
    BY <1>3, <1>6, <2>3 DEF pool, DriversGoOn
  <2>5. Doing(r, a)
    BY <1>8, <2>2 DEF Doing, CanOffer
  <2>6. \A o \in Orders : r.order = o => Doing(r, View(o)) /\ Exists(o)
    BY <1>5, <2>2, <2>5
  <2> QED BY <1>2, <1>3, <2>1, <2>2, <2>3, <2>4, <2>6, QuietSerial DEF db
<1> QED BY <1>7, <1>8

LEMMA ClaimSerial ==
  ASSUME OneAtATime, TypeInv, SerialInv, NEW s \in Slots, Claim(s)
  PROVE  SerialInv' /\ ViewStays /\ ExistsStays
<1>1. PICK h : slot[s] = h
  OBVIOUS
<1>2. h \in Handler /\ h.pc = "claim" /\ h.order \in Orders /\ DOMAIN slot = Slots
  BY <1>1, SlotFacts DEF Claim, OnOrder
<1>3. UNCHANGED <<row, atts, processed, holding>>
  BY DEF Claim
<1>4. PICK v : v = View(h.order)
  OBVIOUS
<1>5. /\ h.a = v /\ CanOffer(v) /\ Exists(h.order) /\ Sound(v)
      /\ minted[h.order] = Len(v.attempts) /\ Len(v.attempts) \in Nat
      /\ \A o \in Orders : minted[o] = Len(View(o).attempts)
  <2>1. \A o \in Orders : ~Pending(h, o)
    BY <1>2 DEF Pending
  <2>2. Doing(h, v) /\ Sound(v) /\ Exists(h.order)
    BY <1>1, <1>2, <1>4, SlotFacts
  <2>3. \A o \in Orders : minted[o] = Len(View(o).attempts)
    BY <1>1, <2>1, SlotFacts
  <2> QED BY <1>2, <1>4, <2>2, <2>3 DEF Doing, Sound, Aggregate
<1>6. Held(h) = {} /\ \A o \in Orders : ~Timing(h, o)
  BY <1>2 DEF Held, Timing
<1>7. CASE busy' = busy /\ GoOn(s, h, NextOrder(h)) /\ UNCHANGED minted
  <2>1. DriversGoOn(h, NextOrder(h)) /\ NextOrder(h).pc \in Resting
    BY <1>2, <1>6, <1>7, EndRests DEF DriversGoOn, Resting
  <2> QED BY <1>2, <1>3, <1>7, <2>1, RestSerial
<1>8. ASSUME NEW d \in Drivers, minted[h.order] + 1 <= MaxOffers,
             Pool!ClaimNext(TriedDrivers(h.a), d),
             GoOn(s, h, [h EXCEPT !.pc = "row", !.a = OfferTo(h.a, minted[h.order] + 1, d)]),
             minted' = [minted EXCEPT ![h.order] = minted[h.order] + 1]
      PROVE  SerialInv' /\ ViewStays /\ ExistsStays
  <2> DEFINE id == Len(v.attempts) + 1
             r == [h EXCEPT !.pc = "row", !.a = OfferTo(v, id, d)]
  <2>1. /\ id \in Nat /\ id = minted[h.order] + 1 /\ id <= MaxOffers
        /\ v \in Aggregate /\ d \notin TriedDrivers(v)
        /\ d \notin busy /\ busy' = busy \cup {d}
    BY <1>5, <1>8 DEF Sound, Pool!ClaimNext, Pool!Free
  <2>2. GoOn(s, h, r) /\ minted' = [minted EXCEPT ![h.order] = id]
    BY <1>5, <1>8, <2>1
  <2>3. /\ r.pc = "row" /\ r.order = h.order /\ r.kind = h.kind
        /\ r.a = OfferTo(v, id, d)
    BY <1>2 DEF Handler
  <2> HIDE DEF r
  <2>4. r.a.status = "offered" /\ CurrentAttempt(r.a).driver = d
    <3>1. ASSUME NEW m \in Nat
          PROVE  /\ OfferTo(v, m, d).status = "offered"
                 /\ Len(OfferTo(v, m, d).attempts) = Len(v.attempts) + 1
                 /\ OfferTo(v, m, d).attempts[Len(v.attempts) + 1].driver = d
      BY <2>1, OfferFacts
    <3> HIDE DEF id
    <3>2. /\ r.a.status = "offered" /\ Len(r.a.attempts) = Len(v.attempts) + 1
          /\ r.a.attempts[Len(v.attempts) + 1].driver = d
      BY <2>1, <2>3, <3>1
    <3> QED BY <3>2 DEF CurrentAttempt
  <2>5. Held(r) = {d} /\ \A o \in Orders : Pending(r, o) <=> o = h.order
    BY <2>3, <2>4 DEF Held, Pending
  <2>6. Doing(r, v)
    <3>1. Offering(r, v)
      BY <1>5, <2>1, <2>3, DispatchAssumption DEF Offering
    <3>2. h.kind # "force"
      BY <1>1, <1>2, SlotFacts DEF Task
    <3> QED BY <2>3, <3>1, <3>2 DEF Doing
  <2>7. StoreInv' /\ ViewStays /\ ExistsStays
    BY <1>2, <1>3, <2>2, <2>3, ViewsStay DEF SerialInv
  <2>8. \A o \in Orders : minted'[o] = IF Pending(r, o) THEN Len(View(o).attempts) + 1
                                      ELSE Len(View(o).attempts)
    <3>1. DOMAIN minted = Orders
      BY DEF TypeInv, TablesOK, Counts
    <3> QED BY <1>2, <1>4, <1>5, <2>2, <2>5, <3>1
  <2>9. \A o \in Orders : r.order = o => Doing(r, View(o)) /\ Exists(o)
    BY <1>4, <1>5, <2>3, <2>6
  <2>10. DoingInv' /\ MintedInv' /\ CreatedInv' /\ TimerInv'
    BY <1>2, <1>3, <1>6, <2>2, <2>7, <2>8, <2>9, PartsStay
  <2>11. Accounted' /\ Exclusive'
    BY <1>2, <1>6, <2>1, <2>2, <2>5, <2>7, DriversStay
  <2> QED BY <2>7, <2>10, <2>11 DEF SerialInv
<1> QED BY <1>1, <1>7, <1>8 DEF Claim, Become, GoOn, Pool!ClaimNone, Pool!poolVars

LEMMA ScheduleSerial ==
  ASSUME OneAtATime, TypeInv, SerialInv, NEW s \in Slots, ScheduleExpiry(s)
  PROVE  SerialInv' /\ ViewStays /\ ExistsStays
<1>1. PICK h : slot[s] = h
  OBVIOUS
<1>2. h \in Handler /\ h.pc = "schedule" /\ h.order \in Orders /\ Task(h, minted)
  BY <1>1, SlotFacts DEF ScheduleExpiry, OnOrder
<1> DEFINE r == NextOrder(h)
<1>3. /\ GoOn(s, h, r) /\ holding' = holding \cup {Timer(h.order, h.a)}
      /\ UNCHANGED <<db, pool>>
  BY <1>1 DEF ScheduleExpiry, Become, GoOn
<1>4. r.pc \in {"idle", "ack", "load"} /\ Held(r) = {}
  BY <1>2, EndRests
<1> HIDE DEF r
<1>5. PICK v : v = View(h.order)
  OBVIOUS
<1>6. h.a = v /\ v.status = "offered" /\ Sound(v)
  BY <1>1, <1>2, <1>5, SlotFacts DEF Doing, Task
<1>7. TimerIn(h.order, v.offerAttempts, holding')
  <2>1. Timer(h.order, v) \in holding'
    BY <1>3, <1>6
  <2>2. Timer(h.order, v).no = v.offerAttempts
    BY <1>6, CurrentFacts DEF Timer
  <2>3. /\ Timer(h.order, v).type = "dispatch.offer.expired"
        /\ Timer(h.order, v).order = h.order
    BY DEF Timer
  <2> QED BY <2>1, <2>2, <2>3 DEF TimerIn
<1>8. \A o \in Orders :
        TimerIn(o, View(o).offerAttempts, holding) \/ Timing(h, o)
          => TimerIn(o, View(o).offerAttempts, holding')
  <2>1. \A o \in Orders : Timing(h, o) => TimerIn(o, View(o).offerAttempts, holding')
    BY <1>5, <1>7 DEF Timing
  <2>2. \A o, n : TimerIn(o, n, holding) => TimerIn(o, n, holding')
    BY <1>3 DEF TimerIn
  <2> QED BY <2>1, <2>2
<1>9. /\ \A o \in Orders : ~Pending(r, o)
      /\ \A u : Doing(r, u)
      /\ r.pc \notin {"row", "commit", "claim", "atts"}
  BY <1>4 DEF Pending, Doing
<1>10. DriversGoOn(h, r)
  BY <1>2, <1>3, <1>4 DEF pool, DriversGoOn, Held
<1> QED BY <1>2, <1>3, <1>8, <1>9, <1>10, QuietSerial DEF db

(* The other steps between two operations on an order.                     *)
LEMMA OtherSerial ==
  ASSUME OneAtATime, TypeInv, SerialInv, NEW s \in Slots,
         UpdatePool(s) \/ RetryParked(s) \/ Publish(s) \/ Ack(s)
  PROVE  SerialInv' /\ ViewStays /\ ExistsStays
<1>1. PICK h : slot[s] = h
  OBVIOUS
<1>2. h \in Handler /\ h.pc \in {"pool", "parked", "publish", "ack"}
  BY <1>1, SlotFacts DEF UpdatePool, RetryParked, Publish, Ack
<1>3. UNCHANGED <<db, holding>> /\ busy' = busy
  BY DEF UpdatePool, RetryParked, Publish, Ack, pool, Pool!OnWilling, Pool!OnUnwilling
<1>4. \E r : GoOn(s, h, r) /\ r.pc \in Resting /\ Held(r) = {}
  <2>1. CASE UpdatePool(s)
    <3> DEFINE r == [h EXCEPT !.pc = "parked", !.driver = NoDriver]
    <3>1. GoOn(s, h, r) \/ GoOn(s, h, Done(h))
      BY <1>1, <2>1 DEF UpdatePool, Become, GoOn
    <3>2. r.pc = "parked"
      BY <1>2 DEF Handler
    <3>3. Held(r) = {}
      BY <3>2 DEF Held
    <3> HIDE DEF r
    <3> QED BY <1>2, <3>1, <3>2, <3>3, EndRests DEF Resting
  <2>2. CASE RetryParked(s)
    <3>1. PICK q \in AwaitingOldestFirst : GoOn(s, h, NextOrder([h EXCEPT !.todo = q]))
      BY <1>1, <2>2 DEF RetryParked, Become, GoOn
    <3>2. [h EXCEPT !.todo = q] \in Handler
      <4>1. q \in Seq(Orders)
        BY ParkedTyped DEF TypeInv
      <4> QED BY <1>2, <4>1 DEF Handler
    <3> QED BY <3>1, <3>2, EndRests DEF Resting
  <2>3. CASE Publish(s)
    BY <1>1, <1>2, <2>3, EndRests DEF Publish, Become, GoOn, Resting
  <2>4. CASE Ack(s)
    <3>1. GoOn(s, h, Idle)
      BY <1>1, <2>4 DEF Ack, Become, GoOn
    <3> QED BY <3>1, IdleFacts DEF Held, Resting
  <2> QED BY <2>1, <2>2, <2>3, <2>4
<1>5. Held(h) = {}
  BY <1>2 DEF Held
<1> QED BY <1>2, <1>3, <1>4, <1>5, RestSerial DEF db, DriversGoOn

LEMMA MarkSerial ==
  ASSUME OneAtATime, TypeInv, SerialInv, NEW s \in Slots, MarkBusy(s)
  PROVE  SerialInv' /\ ViewStays /\ ExistsStays
<1>1. PICK h : slot[s] = h
  OBVIOUS
<1>2. h \in Handler /\ h.pc = "mark" /\ h.order \in Orders
  BY <1>1, SlotFacts DEF MarkBusy, OnOrder
<1> DEFINE r == [h EXCEPT !.pc = "publish"]
<1>3. GoOn(s, h, r) /\ busy' = busy \cup {h.driver} /\ UNCHANGED <<db, holding>>
  BY <1>1 DEF MarkBusy, Become, GoOn, Pool!MarkBusy
<1>4. r.pc = "publish"
  BY <1>2 DEF Handler
<1> HIDE DEF r
<1>5. PICK v : v = View(h.order)
  OBVIOUS
<1>6. h.driver \in EngagedBy(v)
  BY <1>1, <1>2, <1>5, SlotFacts DEF Doing, EngagedBy
<1>7. DriversGoOn(h, r)
  BY <1>2, <1>3, <1>4, <1>5, <1>6 DEF DriversGoOn, Held
<1> QED BY <1>2, <1>3, <1>4, <1>7, RestSerial DEF db, Resting
-----------------------------------------------------------------------------
(* The steps that save an order.                                           *)
LEMMA RowSerial ==
  ASSUME OneAtATime, TypeInv, SerialInv, NEW s \in Slots, SaveRow(s),
         NEW h, slot[s] = h
  PROVE  SerialInv' /\ Becomes(h.order, h.a) /\ ExistsStays
<1>1. /\ h \in Handler /\ h.pc = "row" /\ h.order \in Orders
      /\ DOMAIN slot = Slots /\ DOMAIN row = Orders /\ DOMAIN h = HandlerFields
      /\ \A t \in Slots : t = s
  BY SlotFacts DEF SaveRow, OnOrder
<1> DEFINE r == [h EXCEPT !.pc = "atts"]
<1>2. GoOn(s, h, r) /\ UNCHANGED <<minted, processed, holding, pool>>
  BY DEF SaveRow, Become, GoOn
<1>3. /\ r.pc = "atts" /\ r.order = h.order /\ r.a = h.a
      /\ r.kind = h.kind /\ r.driver = h.driver
  BY <1>1 DEF Handler
<1> HIDE DEF r
<1>4. slot'[s] = r
  BY <1>1, <1>2, OnlySlot
<1>5. PICK v : v = View(h.order)
  OBVIOUS
<1>6. Sound(v) /\ Doing(h, v) /\ Exists(h.order)
  BY <1>1, <1>5, SlotFacts
<1>7. /\ Sound(h.a)
      /\ h.a.status \in {"offered", "assigned", "failed", "awaiting_driver"}
      /\ Len(h.a.attempts) = IF h.a.status = "offered" THEN Len(v.attempts) + 1
                             ELSE Len(v.attempts)
      /\ SameDrivers(EngagedBy(v) \cup Held(h), EngagedBy(h.a), HeldAfterRow(h))
  BY <1>1, <1>6, RowDrivers
<1>8. Grown(h)
  <2>1. Len(v.attempts) \in Nat
    BY <1>6 DEF Sound, Aggregate
  <2>2. Len(v.attempts) <= Len(h.a.attempts)
    BY <1>7, <2>1
  <2> QED BY <1>1, <1>5, <1>6, <1>7, <2>2 DEF Grown
<1>9. StoreInv' /\ Becomes(h.order, h.a) /\ ExistsStays
  BY <1>1, <1>8, ViewAfterSaveRow DEF SerialInv
<1>10. DoingInv'
  <2>1. Doing(r, h.a)
    BY <1>1, <1>3, <1>6, <1>7 DEF Doing
  <2> QED BY <1>1, <1>3, <1>4, <1>9, <2>1 DEF DoingInv, Becomes
<1>11. MintedInv'
  <2> SUFFICES ASSUME NEW o \in Orders PROVE minted[o] = Len(View(o)'.attempts)
    BY <1>1, <1>2, <1>3, <1>4 DEF MintedInv, Pending
  <2>1. minted[o] = IF Pending(h, o) THEN Len(View(o).attempts) + 1
                    ELSE Len(View(o).attempts)
    BY SlotFacts
  <2> QED BY <1>1, <1>5, <1>7, <1>9, <2>1 DEF Pending, Becomes
<1>12. CreatedInv'
  BY <1>2, <1>9 DEF SerialInv, CreatedInv, ExistsStays
<1>13. TimerInv'
  <2> SUFFICES ASSUME NEW o \in Orders, View(o)'.status = "offered"
               PROVE  TimerIn(o, View(o)'.offerAttempts, holding) \/ Timing(r, o)
    BY <1>1, <1>2, <1>4 DEF TimerInv
  <2>1. CASE o = h.order
    BY <1>3, <2>1 DEF Timing
  <2>2. CASE o # h.order
    BY <1>1, <1>9, <2>2 DEF SerialInv, TimerInv, Timing, Becomes
  <2> QED BY <2>1, <2>2
<1>14. Accounted' /\ Exclusive'
  <2>1. Held(r) = HeldAfterRow(h) /\ busy' = busy
    BY <1>2, <1>3 DEF Held, HeldAfterRow, pool
  <2> QED BY <1>1, <1>2, <1>5, <1>7, <1>9, <2>1, DriversMove
<1> QED BY <1>9, <1>10, <1>11, <1>12, <1>13, <1>14 DEF SerialInv

LEMMA AttemptsSerial ==
  ASSUME OneAtATime, TypeInv, SerialInv, NEW s \in Slots, SaveAttempts(s),
         NEW h, slot[s] = h
  PROVE  SerialInv' /\ ViewStays /\ ExistsStays
<1>1. /\ h \in Handler /\ h.pc = "atts" /\ h.order \in Orders
      /\ DOMAIN slot = Slots /\ DOMAIN atts = Orders
  BY SlotFacts DEF SaveAttempts, OnOrder
<1> DEFINE r == AfterSave(h)
<1>2. GoOn(s, h, r) /\ UNCHANGED <<minted, processed, holding, pool>>
  BY DEF SaveAttempts, Become, GoOn
<1>3. PICK v : v = View(h.order)
  OBVIOUS
<1>4. Doing(h, v)
  BY <1>1, <1>3, SlotFacts
<1>5. /\ r.order = h.order /\ r.a = h.a /\ r.driver = h.driver
      /\ r.pc \in {"schedule", "mark", "publish", "free"}
      /\ r.pc = "schedule" <=> h.a.status = "offered"
      /\ r.pc = "free" <=> h.a.status = "awaiting_driver"
      /\ r.pc = "mark" => h.kind = "force" /\ h.a.status = "assigned"
  BY <1>1, <1>4 DEF AfterSave, Handler, Doing
<1> HIDE DEF r
<1>6. StoreInv' /\ ViewStays /\ ExistsStays /\ v = h.a
  BY <1>1, <1>3, <1>5, ViewAfterSaveAttempts DEF SerialInv, r
<1>7. \A o \in Orders : r.order = o =>
        /\ Doing(r, View(o))
        /\ r.pc \in {"row", "commit", "claim"} => Exists(o)
  BY <1>1, <1>3, <1>4, <1>5, <1>6 DEF Doing
<1>8. \A o \in Orders :
        minted'[o] = IF Pending(r, o) THEN Len(View(o).attempts) + 1
                     ELSE Len(View(o).attempts)
  BY <1>1, <1>2, <1>5, SlotFacts DEF Pending
<1>9. \A o \in Orders :
        /\ View(o).status = "offered"
        /\ TimerIn(o, View(o).offerAttempts, holding) \/ Timing(h, o)
        => TimerIn(o, View(o).offerAttempts, holding') \/ Timing(r, o)
  BY <1>2, <1>3, <1>5, <1>6 DEF Timing
<1>10. DoingInv' /\ MintedInv' /\ CreatedInv' /\ TimerInv'
  BY <1>1, <1>2, <1>6, <1>7, <1>8, <1>9, PartsStay
<1>11. Accounted' /\ Exclusive'
  <2>1. Held(r) = Held(h) /\ busy' = busy
    BY <1>1, <1>2, <1>5 DEF Held, pool
  <2> QED BY <1>1, <1>2, <1>6, <2>1, DriversStay
<1> QED BY <1>6, <1>10, <1>11 DEF SerialInv

LEMMA CommitSerial ==
  ASSUME OneAtATime, TypeInv, SerialInv, NEW s \in Slots, Commit(s),
         NEW h, slot[s] = h
  PROVE  SerialInv' /\ Becomes(h.order, h.a) /\ ExistsStays
<1>1. /\ h \in Handler /\ h.pc = "commit" /\ h.order \in Orders
      /\ DOMAIN slot = Slots /\ DOMAIN row = Orders /\ DOMAIN atts = Orders
      /\ DOMAIN h = HandlerFields /\ \A t \in Slots : t = s
  BY SlotFacts DEF Commit, OnOrder
<1> DEFINE r == [h EXCEPT !.a = NewAssignment,
                   !.pc = IF h.driver # NoDriver THEN "free" ELSE "parked"]
<1>2. /\ GoOn(s, h, r) /\ UNCHANGED <<minted, holding, pool>>
      /\ processed \subseteq processed'
  BY DEF Commit, Become, GoOn
<1>3. /\ r.pc = IF h.driver # NoDriver THEN "free" ELSE "parked"
      /\ r.order = h.order /\ r.driver = h.driver
  BY <1>1 DEF Handler
<1> HIDE DEF r
<1>4. slot'[s] = r
  BY <1>1, <1>2, OnlySlot
<1>5. PICK v : v = View(h.order)
  OBVIOUS
<1>6. Sound(v) /\ Doing(h, v) /\ Exists(h.order)
  BY <1>1, <1>5, SlotFacts
<1>7. /\ Sound(h.a) /\ h.a.status # "offered"
      /\ Len(h.a.attempts) = Len(v.attempts)
      /\ SameDrivers(EngagedBy(v) \cup Held(h), EngagedBy(h.a), HeldAfterCommit(h))
  BY <1>1, <1>6, CommitDrivers
<1>8. Grown(h)
  <2>1. Len(v.attempts) \in Nat
    BY <1>6 DEF Sound, Aggregate
  <2> QED BY <1>1, <1>5, <1>6, <1>7, <2>1 DEF Grown
<1>9. StoreInv' /\ Becomes(h.order, h.a) /\ ExistsStays
  BY <1>1, <1>8, ViewAfterCommit DEF SerialInv
<1>10. DoingInv'
  <2>1. \A u : Doing(r, u)
    BY <1>3 DEF Doing
  <2> QED BY <1>1, <1>3, <1>4, <2>1 DEF DoingInv
<1>11. MintedInv'
  <2> SUFFICES ASSUME NEW o \in Orders PROVE minted[o] = Len(View(o)'.attempts)
    BY <1>1, <1>2, <1>3, <1>4 DEF MintedInv, Pending
  <2>1. minted[o] = Len(View(o).attempts)
    BY <1>1, SlotFacts DEF Pending
  <2> QED BY <1>1, <1>5, <1>7, <1>9, <2>1 DEF Becomes
<1>12. CreatedInv'
  BY <1>2, <1>9 DEF SerialInv, CreatedInv, ExistsStays
<1>13. TimerInv'
  <2> SUFFICES ASSUME NEW o \in Orders, View(o)'.status = "offered"
               PROVE  TimerIn(o, View(o)'.offerAttempts, holding)
    BY <1>2 DEF TimerInv
  <2>1. o # h.order
    BY <1>1, <1>7, <1>9 DEF Becomes
  <2> QED BY <1>1, <1>9, <2>1 DEF SerialInv, TimerInv, Timing, Becomes
<1>14. Accounted' /\ Exclusive'
  <2>1. Held(r) = HeldAfterCommit(h) /\ busy' = busy
    BY <1>2, <1>3 DEF Held, HeldAfterCommit, pool
  <2> QED BY <1>1, <1>2, <1>5, <1>7, <1>9, <2>1, DriversMove
<1> QED BY <1>9, <1>10, <1>11, <1>12, <1>13, <1>14 DEF SerialInv
-----------------------------------------------------------------------------
(* Requests and messages: a handler starts in the idle slot.               *)
LEMMA IdleSlot ==
  ASSUME TypeInv, NEW s \in Slots, slot[s] = Idle
  PROVE  /\ Idle.pc = "idle" /\ Held(Idle) = {} /\ DOMAIN slot = Slots
         /\ \A o : ~Timing(Idle, o) /\ ~Pending(Idle, o)
         /\ slot' = slot => GoOn(s, Idle, Idle)
BY IdleFacts DEF Held, Timing, Pending, GoOn, TypeInv, SlotsOK

(* It starts to save an order.                                             *)
LEMMA StartSerial ==
  ASSUME OneAtATime, TypeInv, SerialInv, NEW s \in Slots, NEW r, GoOn(s, Idle, r),
         NEW o \in Orders, r.order = o, Exists(o), Doing(r, View(o)),
         \/ r.pc = "row" /\ r.a.status \in {"assigned", "awaiting_driver"}
         \/ r.pc = "commit",
         UNCHANGED <<row, atts, minted, busy>>, processed \subseteq processed',
         \A p \in Orders : \A n :
           TimerIn(p, n, holding) => TimerIn(p, n, holding') \/ (p = o /\ r.pc = "row")
  PROVE  SerialInv' /\ ViewStays /\ ExistsStays
<1>1. /\ Idle.pc = "idle" /\ Held(Idle) = {} /\ \A p : ~Timing(Idle, p)
  BY IdleSlot DEF GoOn
<1>2. Held(r) = {} /\ \A p \in Orders : ~Pending(r, p)
  BY DEF Held, Pending
<1>3. DriversGoOn(Idle, r)
  BY <1>1, <1>2 DEF DriversGoOn
<1>4. \A p \in Orders :
        TimerIn(p, View(p).offerAttempts, holding)
          => TimerIn(p, View(p).offerAttempts, holding') \/ Timing(r, p)
  BY DEF Timing
<1> QED BY <1>1, <1>2, <1>3, <1>4, QuietSerial

LEMMA RequestSerial ==
  ASSUME OneAtATime, TypeInv, SerialInv, NEW s \in Slots, Request(s)
  PROVE  SerialInv' /\ ViewStays /\ ExistsStays
<1>1. PICK o \in Orders, d \in Drivers :
        AcceptOffer(s, o, d) \/ RejectOffer(s, o, d) \/ ForceAssignOrder(s, o, d)
  BY DEF Request
<1>2. /\ slot[s] = Idle /\ slot[s].pc # "atts" /\ holding' = holding
      /\ UNCHANGED <<row, atts, minted, busy, processed>>
  BY <1>1, IdleFacts DEF AcceptOffer, RejectOffer, ForceAssignOrder, db, pool
<1>3. ASSUME NEW kind, NEW a, NEW v, v = View(o), Exists(o), Sound(v),
             Starting(s, kind, o, d, a),
             \/ kind = "accept" /\ CanRespond(v, d) /\ a = Accept(v, d)
             \/ kind = "reject" /\ CanRespond(v, d) /\ a = RejectByDriver(v)
             \/ kind = "force" /\ d \in Directory /\ CanForce(v) /\ a = ForceAssign(v, d)
      PROVE  SerialInv' /\ ViewStays /\ ExistsStays
  <2> DEFINE r == [Idle EXCEPT !.pc = "row", !.kind = kind, !.order = o,
                               !.driver = d, !.a = a]
  <2>1. GoOn(s, Idle, r)
    BY <1>2, <1>3 DEF Starting, Become, GoOn
  <2>2. r.pc = "row" /\ r.kind = kind /\ r.order = o /\ r.driver = d /\ r.a = a
    BY DEF Idle
  <2> HIDE DEF r
  <2>3. /\ a.status \in {"assigned", "awaiting_driver"}
        /\ kind = "force" => a.assigned = d
    BY <1>3, MethodFields DEF Sound
  <2>4. Doing(r, v)
    BY <1>3, <2>2, <2>3 DEF Doing, Accepting, Rejecting, Forcing
  <2>5. Doing(r, View(o))
    BY <1>3, <2>4
  <2> QED BY <1>2, <1>3, <2>1, <2>2, <2>3, <2>5, StartSerial
<1>4. ASSUME NEW a \in ById(o) PROVE a = View(o) /\ Exists(o) /\ Sound(a)
  BY <1>2, LoadedIsView DEF SerialInv
<1>5. CASE AcceptOffer(s, o, d)
  BY <1>3, <1>4, <1>5 DEF AcceptOffer
<1>6. CASE RejectOffer(s, o, d)
  BY <1>3, <1>4, <1>6 DEF RejectOffer
<1>7. CASE ForceAssignOrder(s, o, d)
  BY <1>3, <1>4, <1>7 DEF ForceAssignOrder
<1> QED BY <1>1, <1>5, <1>6, <1>7

(* What a delivery does to the timers.                                     *)
LEMMA TimersLeft ==
  ASSUME TypeInv, NEW e \in Entry, Take(e, {})
  PROVE  /\ e.msg.type # "dispatch.offer.expired" => holding' = holding
         /\ \A p, n : TimerIn(p, n, holding) =>
              TimerIn(p, n, holding') \/ (p = e.msg.order /\ n = e.msg.no)
<1>1. holding' = holding \/ (e.msg \in holding /\ holding' = holding \ {e.msg})
  BY DEF Take
<1>2. e.msg \in holding => e.msg.type = "dispatch.offer.expired"
  BY DEF TypeInv, BusOK, Expiration
<1>3. \A p, n : TimerIn(p, n, holding) =>
        TimerIn(p, n, holding') \/ (p = e.msg.order /\ n = e.msg.no)
  BY <1>1 DEF TimerIn
<1> QED BY <1>1, <1>2, <1>3

(* A delivery that changes no order and starts no save.                    *)
LEMMA RestDelivered ==
  ASSUME OneAtATime, TypeInv, SerialInv, NEW s \in Slots, NEW r, GoOn(s, Idle, r),
         r.pc \in {"idle", "pool", "parked"},
         UNCHANGED <<row, atts, minted, holding, busy>>, processed \subseteq processed'
  PROVE  SerialInv' /\ ViewStays /\ ExistsStays
<1>1. Idle.pc = "idle" /\ Held(Idle) = {}
  BY IdleSlot DEF GoOn
<1>2. Held(r) = {}
  BY DEF Held
<1> QED BY <1>1, <1>2, RestSerial DEF Resting, DriversGoOn

(* A delivery that starts a transaction on order o, seen as v.             *)
LEMMA CommitDelivered ==
  ASSUME OneAtATime, TypeInv, SerialInv, NEW s \in Slots, slot[s] = Idle,
         NEW e, NEW o \in Orders, NEW v, v = View(o), Exists(o),
         NEW kind, NEW d, NEW a,
         slot' = [slot EXCEPT ![s] = [Idle EXCEPT !.pc = "commit", !.kind = kind,
                    !.entry = e, !.order = o, !.driver = d, !.a = a]],
         \/ CanComplete(v) /\ d = v.assigned /\ a = MarkCompleted(v)
         \/ d = FreedByCancel(v) /\ a = Cancel(v),
         UNCHANGED <<row, atts, minted, holding, busy, processed>>
  PROVE  SerialInv' /\ ViewStays /\ ExistsStays
<1> DEFINE r == [Idle EXCEPT !.pc = "commit", !.kind = kind, !.entry = e,
                             !.order = o, !.driver = d, !.a = a]
<1>1. GoOn(s, Idle, r)
  BY DEF GoOn
<1>2. r.pc = "commit" /\ r.order = o /\ r.driver = d /\ r.a = a
  BY DEF Idle
<1> HIDE DEF r
<1>3. Doing(r, v)
  BY <1>2 DEF Doing, Completing, Cancelling
<1>4. Doing(r, View(o))
  BY <1>3
<1> QED BY <1>1, <1>2, <1>4, StartSerial

ExistsGrows == \A o \in Orders : Exists(o) => Exists(o)'

LEMMA CreatedSerial ==
  ASSUME OneAtATime, TypeInv, SerialInv, NEW s \in Slots, slot[s] = Idle,
         NEW e \in Entry, DeliverCreated(s, e), IsNew(e.msg),
         UNCHANGED <<holding, busy>>
  PROVE  SerialInv' /\ ViewStays /\ ExistsGrows
<1>1. PICK o : o = e.msg.order
  OBVIOUS
<1> DEFINE r == [Idle EXCEPT !.pc = "load", !.kind = "created",
                             !.entry = e, !.order = o]
<1>2. /\ processed' = processed \cup {e.msg} /\ UpsertRow(o, NewAssignment)
      /\ GoOn(s, Idle, r) /\ UNCHANGED <<atts, minted>>
  BY <1>1 DEF DeliverCreated, Become, GoOn
<1>3. r.pc = "load" /\ r.order = o
  BY DEF Idle
<1> HIDE DEF r
<1>4. o \in Orders /\ e.msg = [type |-> "order.created", order |-> o]
  <2>1. e.msg \in Message /\ e.msg.type = "order.created"
    BY DEF Entry, DeliverCreated
  <2> QED BY <1>1, <2>1 DEF Message, OrderEvent, DriverEvent, Expiration
<1>5. ~Exists(o)
  BY <1>4 DEF SerialInv, CreatedInv, IsNew
<1>6. /\ Idle.pc = "idle" /\ Held(Idle) = {} /\ DOMAIN slot = Slots
      /\ \A p : ~Timing(Idle, p) /\ ~Pending(Idle, p)
  BY IdleSlot
<1>7. DOMAIN row = Orders
  BY DEF TypeInv, TablesOK
<1>8. /\ StoreInv' /\ ViewStays /\ Exists(o)'
      /\ \A p \in Orders : p # o => Exists(p)' = Exists(p)
  BY <1>2, <1>3, <1>4, <1>5, <1>6, <1>7, ViewAfterCreate DEF SerialInv
<1>9. slot'[s] = r /\ \A t \in Slots : t = s
  BY <1>2, <1>6, OnlySlot
<1>10. DoingInv'
  <2>1. \A u : Doing(r, u)
    BY <1>3 DEF Doing
  <2> QED BY <1>3, <1>9, <2>1 DEF DoingInv
<1>11. MintedInv'
  BY <1>2, <1>3, <1>6, <1>8, <1>9 DEF SerialInv, MintedInv, ViewStays, Pending
<1>12. CreatedInv'
  BY <1>2, <1>4, <1>8 DEF SerialInv, CreatedInv
<1>13. TimerInv'
  BY <1>6, <1>8, <1>9 DEF SerialInv, TimerInv, ViewStays
<1>14. Accounted' /\ Exclusive'
  <2>1. Held(r) = {}
    BY <1>3 DEF Held
  <2> QED BY <1>2, <1>6, <1>8, <2>1, DriversStay
<1> QED
  BY <1>4, <1>8, <1>10, <1>11, <1>12, <1>13, <1>14 DEF SerialInv, ExistsGrows

LEMMA ExpiredSerial ==
  ASSUME OneAtATime, TypeInv, SerialInv, NEW s \in Slots, slot[s] = Idle,
         NEW e \in Entry, Take(e, {}), DeliverExpired(s, e), UNCHANGED busy
  PROVE  SerialInv' /\ ViewStays /\ ExistsStays
<1>1. PICK o : o = e.msg.order
  OBVIOUS
<1>2. o \in Orders /\ e.msg.no \in 1..MaxOffers
  BY <1>1 DEF Entry, DeliverExpired, Message, OrderEvent, DriverEvent, Expiration
<1>3. UNCHANGED <<row, atts, minted, processed>>
  BY DEF DeliverExpired, db
<1>4. PICK v \in ById(o) :
        IF CanExpire(v, e.msg.no)
        THEN GoOn(s, Idle, [Idle EXCEPT !.pc = "row", !.kind = "expire",
                              !.entry = e, !.order = o,
                              !.driver = CurrentAttempt(v).driver, !.a = ExpireOffer(v)])
        ELSE slot' = slot
  BY <1>1 DEF DeliverExpired, Become, GoOn
<1>5. v = View(o) /\ Exists(o) /\ Sound(v)
  BY <1>2, IdleFacts, LoadedIsView DEF SerialInv
<1>6. \A p, n : TimerIn(p, n, holding) =>
        TimerIn(p, n, holding') \/ (p = o /\ n = e.msg.no)
  BY <1>1, TimersLeft
<1>7. CASE CanExpire(v, e.msg.no)
  <2> DEFINE r == [Idle EXCEPT !.pc = "row", !.kind = "expire", !.entry = e, !.order = o,
                     !.driver = CurrentAttempt(v).driver, !.a = ExpireOffer(v)]
  <2>1. GoOn(s, Idle, r)
    BY <1>4, <1>7
  <2>2. /\ r.pc = "row" /\ r.kind = "expire" /\ r.order = o
        /\ r.driver = CurrentAttempt(v).driver /\ r.a = ExpireOffer(v)
    BY DEF Idle
  <2> HIDE DEF r
  <2>3. r.a.status = "awaiting_driver"
    BY <1>5, <2>2, MethodFields DEF Sound
  <2>4. Expiring(r, v)
    BY <1>2, <1>7, <2>2 DEF Expiring
  <2>5. Doing(r, View(o))
    <3>1. Doing(r, v)
      BY <2>2, <2>4 DEF Doing
    <3> QED BY <1>5, <3>1
  <2> QED BY <1>2, <1>3, <1>5, <1>6, <2>1, <2>2, <2>3, <2>5, StartSerial
<1>8. CASE ~CanExpire(v, e.msg.no)
  <2>1. /\ GoOn(s, Idle, Idle) /\ Idle.pc = "idle" /\ Held(Idle) = {}
        /\ \A p : ~Timing(Idle, p) /\ ~Pending(Idle, p)
    BY <1>4, <1>8, IdleSlot
  <2>2. v.status = "offered" => v.offerAttempts # e.msg.no
    BY <1>5, <1>8, CurrentFacts DEF CanExpire
  <2>3. \A p \in Orders :
          View(p).status = "offered" /\ TimerIn(p, View(p).offerAttempts, holding)
            => TimerIn(p, View(p).offerAttempts, holding')
    BY <1>5, <1>6, <2>2
  <2>4. \A u : Doing(Idle, u)
    BY <2>1 DEF Doing
  <2>5. DriversGoOn(Idle, Idle)
    BY DEF DriversGoOn
  <2> QED BY <1>3, <2>1, <2>3, <2>4, <2>5, QuietSerial
<1> QED BY <1>7, <1>8

LEMMA DeliverSerial ==
  ASSUME OneAtATime, SentInv, TypeInv, SerialInv,
         NEW s \in Slots, NEW e \in Deliverable, Deliver(s, e)
  PROVE  SerialInv' /\ ViewStays /\ ExistsGrows
<1>1. /\ e \in Entry /\ slot[s] = Idle /\ Take(e, {}) /\ UNCHANGED busy
      /\ slot[s].pc # "atts"
  BY DeliverableTyped, IdleFacts DEF TypeInv, Deliver, pool
<1>2. /\ e.msg.type # "dispatch.offer.expired" => holding' = holding
      /\ e.msg.type # "driver.availability.changed" => e.msg.order \in Orders
  BY <1>1, TimersLeft DEF Entry, Message, OrderEvent, DriverEvent, Expiration
<1>3. ExistsStays => ExistsGrows
  BY DEF ExistsStays, ExistsGrows
<1>4. \A o \in Orders : \A a \in ById(o) : a = View(o) /\ Exists(o)
  BY <1>1, LoadedIsView DEF SerialInv
<1>5. slot' = slot => GoOn(s, Idle, Idle) /\ Idle.pc = "idle"
  BY <1>1, IdleSlot
<1>6. CASE slot' = slot /\ UNCHANGED <<row, atts, minted, holding>>
           /\ processed \subseteq processed'
  BY <1>1, <1>3, <1>5, <1>6, RestDelivered
<1>7. CASE DeliverCreated(s, e)
  <2>1. CASE IsNew(e.msg)
    BY <1>1, <1>2, <1>7, <2>1, CreatedSerial DEF DeliverCreated
  <2>2. CASE ~IsNew(e.msg)
    BY <1>2, <1>6, <1>7, <2>2 DEF DeliverCreated, db
  <2> QED BY <2>1, <2>2
<1>8. CASE DeliverAvailability(s, e)
  <2>1. CASE IsNew(e.msg)
    <3> DEFINE r == [Idle EXCEPT !.pc = "pool", !.kind = "availability",
                                 !.entry = e, !.driver = e.msg.driver]
    <3>1. /\ GoOn(s, Idle, r) /\ UNCHANGED <<row, atts, minted, holding>>
          /\ processed \subseteq processed'
      BY <1>1, <1>2, <1>8, <2>1 DEF DeliverAvailability, Become, GoOn
    <3>2. r.pc = "pool"
      BY DEF Idle
    <3> HIDE DEF r
    <3> QED BY <1>1, <1>3, <3>1, <3>2, RestDelivered
  <2>2. CASE ~IsNew(e.msg)
    BY <1>2, <1>6, <1>8, <2>2 DEF DeliverAvailability, db
  <2> QED BY <2>1, <2>2
<1>9. CASE DeliverCompleted(s, e)
  <2>1. CASE slot' = slot
    BY <1>2, <1>6, <1>9, <2>1 DEF DeliverCompleted, db
  <2>2. CASE slot' # slot
    <3>1. PICK v \in ById(e.msg.order) :
            /\ CanComplete(v)
            /\ slot' = [slot EXCEPT ![s] = [Idle EXCEPT !.pc = "commit",
                 !.kind = "complete", !.entry = e, !.order = e.msg.order,
                 !.driver = v.assigned, !.a = MarkCompleted(v)]]
      BY <1>9, <2>2 DEF DeliverCompleted, Become
    <3>2. UNCHANGED <<row, atts, minted, holding, processed>> /\ e.msg.order \in Orders
      BY <1>2, <1>9, <2>2 DEF DeliverCompleted, db
    <3> QED BY <1>1, <1>3, <1>4, <3>1, <3>2, CommitDelivered
  <2> QED BY <2>1, <2>2
<1>10. CASE DeliverCancelled(s, e)
  <2>1. CASE /\ Become(s, [Idle EXCEPT !.pc = "parked", !.kind = "cancel", !.entry = e])
             /\ processed' = processed \cup {e.msg}
             /\ UNCHANGED <<row, atts, arrival, minted, given>>
    <3> DEFINE r == [Idle EXCEPT !.pc = "parked", !.kind = "cancel", !.entry = e]
    <3>1. /\ GoOn(s, Idle, r) /\ UNCHANGED <<row, atts, minted, holding>>
          /\ processed \subseteq processed'
      BY <1>1, <1>2, <1>10, <2>1 DEF DeliverCancelled, Become, GoOn
    <3>2. r.pc = "parked"
      BY DEF Idle
    <3> HIDE DEF r
    <3> QED BY <1>1, <1>3, <3>1, <3>2, RestDelivered
  <2>2. CASE UNCHANGED db /\ \E a \in ById(e.msg.order) :
               Become(s, [Idle EXCEPT !.pc = "commit", !.kind = "cancel",
                            !.entry = e, !.order = e.msg.order,
                            !.driver = FreedByCancel(a), !.a = Cancel(a)])
    <3>1. PICK v \in ById(e.msg.order) :
            slot' = [slot EXCEPT ![s] = [Idle EXCEPT !.pc = "commit",
                 !.kind = "cancel", !.entry = e, !.order = e.msg.order,
                 !.driver = FreedByCancel(v), !.a = Cancel(v)]]
      BY <2>2 DEF Become
    <3>2. UNCHANGED <<row, atts, minted, holding, processed>> /\ e.msg.order \in Orders
      BY <1>2, <1>10, <2>2 DEF DeliverCancelled, db
    <3> QED BY <1>1, <1>3, <1>4, <3>1, <3>2, CommitDelivered
  <2> QED BY <1>10, <2>1, <2>2 DEF DeliverCancelled
<1>11. CASE DeliverExpired(s, e)
  BY <1>1, <1>3, <1>11, ExpiredSerial
<1> QED BY <1>7, <1>8, <1>9, <1>10, <1>11 DEF Deliver
-----------------------------------------------------------------------------
LEMMA NoFaults ==
  ASSUME OneAtATime, TypeInv
  PROVE  /\ \A s : ~Fail(s) /\ \A e : ~FailAtOnce(s, e)
         /\ ~Crash
BY DEF OneAtATime, TypeInv, CountersOK, Fail, FailAtOnce, Crash

LEMMA StutterSerial ==
  ASSUME SerialInv, UNCHANGED vars
  PROVE  SerialInv'
<1>1. UNCHANGED <<row, atts, minted, processed, busy, holding, slot>>
  BY DEF vars, db, pool
<1>2. \A o : SavingSlots(o)' = SavingSlots(o) /\ Exists(o)' = Exists(o)
  BY <1>1 DEF SavingSlots, Exists
<1>3. StoreInv' /\ ViewStays
  <2>1. ASSUME NEW o \in Orders, NEW a, Stored(o, a) PROVE Stored(o, a)'
    BY <1>1, <1>2, <2>1 DEF Stored
  <2> QED BY <2>1, StaysStored DEF SerialInv
<1>4. DoingInv' /\ MintedInv'
  BY <1>1, <1>2, <1>3 DEF SerialInv, DoingInv, MintedInv, ViewStays
<1>5. CreatedInv' /\ TimerInv'
  BY <1>1, <1>2, <1>3 DEF SerialInv, CreatedInv, TimerInv, ViewStays
<1>6. Accounted' /\ Exclusive'
  BY <1>1, <1>3 DEF SerialInv, Accounted, Exclusive, ViewStays
<1> QED BY <1>3, <1>4, <1>5, <1>6 DEF SerialInv

LEMMA SerialStep ==
  ASSUME OneAtATime, SentInv, TypeInv, SerialInv, [Next]_vars
  PROVE  SerialInv'
<1>1. CASE UNCHANGED vars
  BY <1>1, StutterSerial
<1>2. ASSUME NEW s \in Slots, Step(s) PROVE SerialInv'
  <2>1. PICK h : slot[s] = h
    OBVIOUS
  <2>2. CASE SaveRow(s) \/ SaveAttempts(s) \/ Commit(s)
    BY <2>1, <2>2, RowSerial, AttemptsSerial, CommitSerial
  <2>3. CASE FreeDriver(s) \/ Recheck(s) \/ Load(s) \/ Claim(s) \/ ScheduleExpiry(s)
    BY <2>3, FreeSerial, RecheckSerial, LoadSerial, ClaimSerial, ScheduleSerial
  <2>4. CASE UpdatePool(s) \/ RetryParked(s) \/ MarkBusy(s) \/ Publish(s) \/ Ack(s)
    BY <2>4, OtherSerial, MarkSerial
  <2> QED BY <1>2, <2>2, <2>3, <2>4 DEF Step
<1>3. ASSUME NEW s \in Slots, Request(s) PROVE SerialInv'
  BY <1>3, RequestSerial
<1>4. ASSUME NEW s \in Slots, NEW e \in Deliverable, Deliver(s, e) PROVE SerialInv'
  BY <1>4, DeliverSerial
<1> QED BY <1>1, <1>2, <1>3, <1>4, NoFaults DEF Next

LEMMA SerialInit ==
  ASSUME Init
  PROVE  SerialInv
<1>1. /\ \A s \in Slots : slot[s] = Idle
      /\ \A o \in Orders : ~Exists(o) /\ atts[o] = {} /\ minted[o] = 0
      /\ busy = {}
  BY DEF Init, Exists, Pool!PoolInit
<1>2. \A o : SavingSlots(o) = {}
  BY <1>1, IdleFacts DEF SavingSlots
<1>3. ASSUME NEW o \in Orders
      PROVE  Stored(o, NewAssignment) /\ View(o) = NewAssignment
  <2>1. Sound(NewAssignment) /\ AttsOf(NewAssignment) = {}
    BY NewSound DEF AttsOf, NewAssignment
  <2>2. Stored(o, NewAssignment)
    <3>1. Len(NewAssignment.attempts) <= Len(NewAssignment.attempts)
      BY DEF NewAssignment
    <3> QED BY <1>1, <1>2, <2>1, <3>1 DEF Stored
  <2> QED BY <2>2, StoredIsRead
<1>4. /\ NewAssignment.status = "awaiting_driver" /\ Len(NewAssignment.attempts) = 0
      /\ EngagedBy(NewAssignment) = {}
  BY DEF NewAssignment, EngagedBy
<1>5. Idle.order = NoRow /\ Idle.pc = "idle" /\ Held(Idle) = {}
      /\ \A v : Doing(Idle, v)
  BY DEF Idle, Held, Doing
<1>6. StoreInv /\ CreatedInv
  BY <1>1, <1>3 DEF StoreInv, CreatedInv
<1>7. DoingInv
  BY <1>1, <1>5 DEF DoingInv
<1>8. MintedInv
  BY <1>1, <1>3, <1>4, <1>5 DEF MintedInv, Pending
<1>9. TimerInv
  BY <1>3, <1>4 DEF TimerInv
<1>10. Accounted /\ Exclusive
  BY <1>1, <1>3, <1>4, <1>5 DEF Accounted, Exclusive
<1> QED BY <1>6, <1>7, <1>8, <1>9, <1>10 DEF SerialInv

THEOREM SerialInvariant == ASSUME OneAtATime PROVE Spec => []SerialInv
<1>1. Init => SerialInv
  BY SerialInit
<1>2. DispatchInv /\ TypeInv /\ SerialInv /\ [Next]_vars => SerialInv'
  BY SerialStep DEF DispatchInv
<1> QED BY <1>1, <1>2, DispatchInvariant, DispatchTypeInvariant, PTL DEF Spec
-----------------------------------------------------------------------------
(* When no handler runs.                                                   *)
LEMMA AtRest ==
  ASSUME TypeInv, SerialInv, Quiet
  PROVE  /\ \A s \in Slots : Held(slot[s]) = {}
         /\ \A s \in Slots : \A o : ~Timing(slot[s], o)
         /\ \A o \in Orders : Engaged(o) = EngagedBy(View(o))
         /\ \A o \in Orders : Exists(o) =>
              /\ row[o].status = View(o).status
              /\ row[o].offerAttempts = View(o).offerAttempts
<1>1. \A s \in Slots : slot[s] = Idle /\ slot[s].pc = "idle"
  BY IdleFacts DEF Quiet
<1>2. \A o : SavingSlots(o) = {}
  BY <1>1 DEF SavingSlots
<1>3. ASSUME NEW o \in Orders
      PROVE  /\ Engaged(o) = EngagedBy(View(o))
             /\ Exists(o) => /\ row[o].status = View(o).status
                             /\ row[o].offerAttempts = View(o).offerAttempts
  <2>1. PICK v : v = View(o)
    OBVIOUS
  <2>2. Stored(o, v)
    BY <2>1, ViewIsStored DEF SerialInv
  <2>3. CASE ~Exists(o)
    BY <2>1, <2>2, <2>3 DEF Stored, Engaged, EngagedBy, NewAssignment
  <2>4. CASE Exists(o)
    <3>1. /\ Sound(v) /\ row[o].status = v.status /\ row[o].assigned = v.assigned
          /\ row[o].offerAttempts = v.offerAttempts /\ atts[o] = AttsOf(v)
      BY <1>2, <2>2, <2>4 DEF Stored, RowOf
    <3>2. ASSUME v.status = "offered"
          PROVE  {y \in atts[o] : y.outcome = "offered"} = {CurrentAttempt(v)}
      <4>1. /\ v.attempts \in Seq(Attempt) /\ Len(v.attempts) \in Nat \ {0}
            /\ CurrentAttempt(v) = v.attempts[Len(v.attempts)]
            /\ CurrentAttempt(v).outcome = "offered"
        BY <3>1, <3>2, CurrentFacts DEF Sound, Aggregate
      <4>2. ASSUME NEW i \in 1..Len(v.attempts), v.attempts[i].outcome = "offered"
            PROVE  i = Len(v.attempts)
        BY <3>1, <3>2, <4>1, <4>2 DEF Sound, OffersSound, StatusSound, Declined
      <4> QED BY <3>1, <4>1, <4>2 DEF AttsOf
    <3> QED BY <2>1, <2>4, <3>1, <3>2 DEF Engaged, EngagedBy
  <2> QED BY <2>3, <2>4
<1> QED BY <1>1, <1>3 DEF Held, Timing

(* No driver is lost: claim, save, free and mark busy leave no busy driver *)
(* without an offer or a delivery once the handler is done                 *)
(* (driver-pool.ts:15, README.md:62).                                      *)
THEOREM SerialNoDriverLost == ASSUME OneAtATime PROVE Spec => []NoDriverLost
<1>1. TypeInv /\ SerialInv => NoDriverLost
  BY AtRest DEF SerialInv, Accounted, NoDriverLost
<1> QED BY <1>1, SerialInvariant, DispatchTypeInvariant, PTL

(* A driver nobody forces is engaged by one order at most, and is busy     *)
(* while engaged: the claim in the pool and the save of the offer agree.   *)
THEOREM SerialOneOrderPerDriver == ASSUME OneAtATime PROVE Spec => []OneOrderPerDriver
<1>1. TypeInv /\ SerialInv => OneOrderPerDriver
  BY AtRest DEF SerialInv, Exclusive, OneOrderPerDriver
<1> QED BY <1>1, SerialInvariant, DispatchTypeInvariant, PTL

(* An offer that is out has a timer with the number of its attempt: a      *)
(* timer that is taken off the queue is stale or ends the offer.           *)
THEOREM SerialOfferHasTimer == ASSUME OneAtATime PROVE Spec => []OfferHasTimer
<1>1. TypeInv /\ SerialInv => OfferHasTimer
  <2> SUFFICES ASSUME TypeInv, SerialInv, Quiet,
                      NEW o \in Orders, Exists(o), row[o].status = "offered"
               PROVE  TimerIn(o, row[o].offerAttempts, holding)
    BY DEF OfferHasTimer, TimerIn
  <2> QED BY AtRest DEF SerialInv, TimerInv
<1> QED BY <1>1, SerialInvariant, DispatchTypeInvariant, PTL
-----------------------------------------------------------------------------
(* Each order lives as OrderLifecycle says.                                *)

(* The events that handler h has pushed for order o and not yet published. *)
Heard(h, o) ==
  IF h.order = o /\ h.pc \in {"atts", "mark", "publish"} THEN Raised(h.a) ELSE <<>>

AnnouncedByOnly ==
  told \in [Orders -> Seq(Event)] =>
    \A s \in Slots : \A h : slot[s] = h =>
      \A o \in Orders : Announced(o) = told[o] \o Heard(h, o)

LEMMA AnnouncedNow == ASSUME OneAtATime PROVE AnnouncedByOnly
<1> SUFFICES ASSUME told \in [Orders -> Seq(Event)],
                    NEW s \in Slots, NEW h, slot[s] = h, NEW o \in Orders
             PROVE  Announced(o) = told[o] \o Heard(h, o)
  BY DEF AnnouncedByOnly
<1>1. \A t \in Slots : t = s
  BY DEF OneAtATime
<1>2. CASE Announcing(o) = {}
  <2>1. Heard(h, o) = <<>>
    BY <1>2 DEF Announcing, Heard
  <2>2. told[o] \o <<>> = told[o]
    BY ConcatEmptySeq
  <2> QED BY <1>2, <2>1, <2>2 DEF Announced
<1>3. CASE Announcing(o) # {}
  <2>1. Announcing(o) = {s}
    BY <1>1, <1>3 DEF Announcing
  <2>2. (CHOOSE t \in Announcing(o) : TRUE) = s
    BY <2>1
  <2>3. Heard(h, o) = Raised(h.a)
    BY <2>1 DEF Announcing, Heard
  <2> QED BY <1>3, <2>2, <2>3 DEF Announced
<1> QED BY <1>2, <1>3

LEMMA AnnouncedNext == ASSUME OneAtATime PROVE AnnouncedByOnly'
<1>1. OneAtATime => AnnouncedByOnly
  BY AnnouncedNow
<1>2. OneAtATime'
  BY DEF OneAtATime
<1> QED BY <1>1, <1>2, PTL

Lives(o) == [Lifecycle(o)!Next]_(Lifecycle(o)!vars)

Unmoved(o) == UNCHANGED <<Exists(o), View(o), Announced(o)>>

LEMMA UnmovedLives ==
  ASSUME NEW o, Unmoved(o)
  PROVE  Lives(o)
BY DEF Unmoved, Lives, Lifecycle!vars

(* The step of OrderLifecycle that a save of the row is.                   *)
LEMMA SavedLives ==
  ASSUME NEW o, NEW v, NEW h, View(o) = v, Exists(o), Exists(o)', View(o)' = h.a,
         Announced(o) \in Seq(Event), Announced(o)' = Announced(o) \o Raised(h.a),
         v \in Aggregate, h.pc = "row", Doing(h, v)
  PROVE  Lives(o)
<1> DEFINE e == Announced(o)
<1>1. \A x \in Event : e \o <<x>> = Append(e, x)
  BY AppendIsConcat
<1>2. e \o <<>> = e
  BY ConcatEmptySeq
<1>3. CASE Offering(h, v)
  <2>1. PICK d \in Drivers : /\ CanOffer(v) /\ Len(v.attempts) < MaxOffers
                             /\ d \notin TriedDrivers(v)
                             /\ h.a = OfferTo(v, Len(v.attempts) + 1, d)
    BY <1>3 DEF Offering
  <2>2. Raised(h.a) = <<>>
    BY <2>1 DEF Raised, OfferTo, Aggregate
  <2>3. Lifecycle(o)!Offer(d)
    BY <1>2, <2>1, <2>2
       DEF Lifecycle!Offer, Lifecycle!CanOffer, Lifecycle!TriedDrivers, Lifecycle!OfferTo,
           Lifecycle!Declined, CanOffer, TriedDrivers, OfferTo, Declined
  <2> QED BY <2>3 DEF Lives, Lifecycle!Next
<1>4. CASE Accepting(h, v)
  <2>1. h.driver \in Drivers /\ CanRespond(v, h.driver) /\ h.a = Accept(v, h.driver)
    BY <1>4 DEF Accepting
  <2>2. Raised(h.a) = <<DriverAssigned(h.driver)>>
    BY <2>1 DEF Raised, Accept, Aggregate
  <2>3. DriverAssigned(h.driver) \in Event
    BY <2>1 DEF DriverAssigned, Event
  <2>4. Announced(o)' = Append(e, DriverAssigned(h.driver))
    BY <1>1, <2>2, <2>3
  <2>5. Lifecycle(o)!AcceptOffer(h.driver)
    BY <2>1, <2>4
       DEF Lifecycle!AcceptOffer, Lifecycle!CanRespond, Lifecycle!CurrentAttempt,
           Lifecycle!Accept, Lifecycle!Resolve, Lifecycle!DriverAssigned,
           CanRespond, CurrentAttempt, Accept, Resolve, DriverAssigned
  <2> QED BY <2>1, <2>5 DEF Lives, Lifecycle!Next
<1>5. CASE Rejecting(h, v)
  <2>1. h.driver \in Drivers /\ CanRespond(v, h.driver) /\ h.a = RejectByDriver(v)
    BY <1>5 DEF Rejecting
  <2>2. Raised(h.a) = <<>>
    BY <2>1 DEF Raised, RejectByDriver, Aggregate
  <2>3. Lifecycle(o)!RejectOffer(h.driver)
    BY <1>2, <2>1, <2>2
       DEF Lifecycle!RejectOffer, Lifecycle!CanRespond, Lifecycle!CurrentAttempt,
           Lifecycle!RejectByDriver, Lifecycle!Resolve,
           CanRespond, CurrentAttempt, RejectByDriver, Resolve
  <2> QED BY <2>1, <2>3 DEF Lives, Lifecycle!Next
<1>6. CASE Expiring(h, v)
  <2>1. PICK n \in 1..MaxOffers : CanExpire(v, n) /\ h.a = ExpireOffer(v)
    BY <1>6 DEF Expiring
  <2>2. Raised(h.a) = <<>>
    BY <2>1 DEF Raised, ExpireOffer, Aggregate
  <2>3. Lifecycle(o)!ExpireAttempt(n)
    BY <1>2, <2>1, <2>2
       DEF Lifecycle!ExpireAttempt, Lifecycle!CanExpire, Lifecycle!CurrentAttempt,
           Lifecycle!ExpireOffer, Lifecycle!Resolve,
           CanExpire, CurrentAttempt, ExpireOffer, Resolve
  <2> QED BY <2>3 DEF Lives, Lifecycle!Next
<1>7. CASE GivingUp(h, v)
  <2>1. v.status = "awaiting_driver" /\ Exhausted(v) /\ h.a = MarkFailed(v)
    BY <1>7 DEF GivingUp
  <2>2. Raised(h.a) = <<AssignmentFailed>>
    BY <2>1 DEF Raised, MarkFailed, Aggregate
  <2>3. Announced(o)' = Append(e, AssignmentFailed)
    BY <1>1, <2>2 DEF AssignmentFailed, Event
  <2>4. Lifecycle(o)!Fail
    BY <2>1, <2>3
       DEF Lifecycle!Fail, Lifecycle!Exhausted, Lifecycle!MarkFailed,
           Lifecycle!AssignmentFailed, Exhausted, MarkFailed, AssignmentFailed
  <2> QED BY <2>4 DEF Lives, Lifecycle!Next
<1>8. CASE Forcing(h, v)
  <2>1. h.driver \in Drivers /\ CanForce(v) /\ h.a = ForceAssign(v, h.driver)
    BY <1>8, DispatchAssumption DEF Forcing
  <2>2. Raised(h.a) = <<DriverAssigned(h.driver)>>
    BY <2>1 DEF Raised, ForceAssign, Aggregate
  <2>3. DriverAssigned(h.driver) \in Event
    BY <2>1 DEF DriverAssigned, Event
  <2>4. Announced(o)' = Append(e, DriverAssigned(h.driver))
    BY <1>1, <2>2, <2>3
  <2>5. Lifecycle(o)!ForceOrder(h.driver)
    BY <2>1, <2>4
       DEF Lifecycle!ForceOrder, Lifecycle!CanForce, Lifecycle!ForceAssign,
           Lifecycle!DriverAssigned, CanForce, ForceAssign, DriverAssigned
  <2> QED BY <2>1, <2>5 DEF Lives, Lifecycle!Next
<1> QED BY <1>3, <1>4, <1>5, <1>6, <1>7, <1>8 DEF Doing

(* The step that a committed cancellation or completion is.                *)
LEMMA CommittedLives ==
  ASSUME NEW o, NEW v, NEW h, View(o) = v, Exists(o), Exists(o)', View(o)' = h.a,
         Announced(o)' = Announced(o), h.pc = "commit", Doing(h, v)
  PROVE  Lives(o)
<1>1. CASE Completing(h, v)
  <2>1. Lifecycle(o)!CompleteDelivery
    BY <1>1
       DEF Completing, Lifecycle!CompleteDelivery, Lifecycle!CanComplete,
           Lifecycle!MarkCompleted, CanComplete, MarkCompleted
  <2> QED BY <2>1 DEF Lives, Lifecycle!Next
<1>2. CASE Cancelling(h, v)
  <2>1. Lifecycle(o)!CancelOrder
    BY <1>2
       DEF Cancelling, Lifecycle!CancelOrder, Lifecycle!Cancel, Lifecycle!Resolve,
           Lifecycle!Terminal, Cancel, Resolve, Terminal
  <2> QED BY <2>1 DEF Lives, Lifecycle!Next
<1> QED BY <1>1, <1>2 DEF Doing

(* Creating an order, or doing nothing to it.                              *)
LEMMA CreatedLives ==
  ASSUME NEW o, View(o)' = View(o), Announced(o)' = Announced(o), Exists(o) => Exists(o)'
  PROVE  Lives(o)
<1>1. Exists(o) \in BOOLEAN /\ Exists(o)' \in BOOLEAN
  BY DEF Exists
<1>2. CASE ~Exists(o) /\ Exists(o)'
  <2>1. Lifecycle(o)!Create
    BY <1>1, <1>2 DEF Lifecycle!Create
  <2> QED BY <2>1 DEF Lives, Lifecycle!Next
<1>3. CASE Exists(o) <=> Exists(o)'
  BY <1>1, <1>3, UnmovedLives DEF Unmoved
<1> QED BY <1>2, <1>3
-----------------------------------------------------------------------------
(* What each step of the service is for an order.                          *)
Telling == {"atts", "mark", "publish"}

LEMMA AnnouncedGoesOn ==
  ASSUME OneAtATime, FormInv, FormInv', NEW s \in Slots, NEW h, NEW r, GoOn(s, h, r),
         NEW o \in Orders
  PROVE  /\ Announced(o) = told[o] \o Heard(h, o)
         /\ Announced(o)' = told'[o] \o Heard(r, o)
         /\ told[o] \in Seq(Event) /\ told'[o] \in Seq(Event)
<1>1. DOMAIN slot = Slots /\ told \in [Orders -> Seq(Event)]
      /\ told' \in [Orders -> Seq(Event)]
  BY DEF FormInv
<1>2. slot[s] = h /\ slot'[s] = r
  BY <1>1, OnlySlot DEF GoOn
<1>3. Announced(o) = told[o] \o Heard(h, o)
  BY <1>1, <1>2, AnnouncedNow DEF AnnouncedByOnly
<1>4. Announced(o)' = told'[o] \o Heard(r, o)
  BY <1>1, <1>2, AnnouncedNext DEF AnnouncedByOnly
<1> QED BY <1>1, <1>3, <1>4

LEMMA Untold ==
  ASSUME NEW h, h.pc \notin Telling, NEW o
  PROVE  Heard(h, o) = <<>>
BY DEF Heard, Telling

(* Steps of handlers that have nothing to announce.                        *)
LEMMA SilentSteps ==
  ASSUME TypeInv, NEW s \in Slots,
         \/ FreeDriver(s) \/ Recheck(s) \/ Load(s) \/ Claim(s) \/ ScheduleExpiry(s)
         \/ UpdatePool(s) \/ RetryParked(s) \/ Ack(s)
  PROVE  /\ told' = told
         /\ \E h, r : GoOn(s, h, r) /\ h.pc \notin Telling /\ r.pc \notin Telling
<1>1. PICK h : slot[s] = h
  OBVIOUS
<1>2. h \in Handler
  BY <1>1 DEF TypeInv, SlotsOK
<1>3. Done(h).pc \notin Telling /\ NextOrder(h).pc \notin Telling
  BY <1>2, EndRests DEF Telling
<1>4. CASE FreeDriver(s)
  <2> DEFINE r == [h EXCEPT !.driver = NoDriver, !.a = NewAssignment,
                     !.pc = IF h.kind \in {"reject", "expire"}
                            THEN "recheck" ELSE "parked"]
  <2>1. GoOn(s, h, r) /\ h.pc = "free" /\ told' = told
    BY <1>1, <1>4 DEF FreeDriver, Become, GoOn
  <2>2. r.pc \in {"recheck", "parked"}
    BY <1>2 DEF Handler
  <2> HIDE DEF r
  <2> QED BY <2>1, <2>2 DEF Telling
<1>5. CASE Recheck(s)
  <2>1. PICK a \in ById(h.order) :
          slot' = [slot EXCEPT ![s] =
                     IF a.status # "awaiting_driver" THEN Done(h)
                     ELSE IF Exhausted(a)
                     THEN [h EXCEPT !.pc = "row", !.a = MarkFailed(a)]
                     ELSE [h EXCEPT !.pc = "load"]]
    BY <1>1, <1>5 DEF Recheck, Become
  <2> DEFINE r == IF a.status # "awaiting_driver" THEN Done(h)
                  ELSE IF Exhausted(a)
                  THEN [h EXCEPT !.pc = "row", !.a = MarkFailed(a)]
                  ELSE [h EXCEPT !.pc = "load"]
  <2>2. r.pc \notin Telling
    BY <1>2, <1>3 DEF Handler, Telling
  <2>3. GoOn(s, h, r) /\ h.pc = "recheck" /\ told' = told
    BY <1>1, <1>5, <2>1 DEF Recheck, GoOn
  <2> HIDE DEF r
  <2> QED BY <2>2, <2>3 DEF Telling
<1>6. CASE Load(s)
  <2>1. PICK a \in ById(h.order) :
          slot' = [slot EXCEPT ![s] = IF a.status # "awaiting_driver" THEN NextOrder(h)
                                      ELSE [h EXCEPT !.pc = "claim", !.a = a]]
    BY <1>1, <1>6 DEF Load, Become
  <2> DEFINE r == IF a.status # "awaiting_driver" THEN NextOrder(h)
                  ELSE [h EXCEPT !.pc = "claim", !.a = a]
  <2>2. r.pc \notin Telling
    BY <1>2, <1>3 DEF Handler, Telling
  <2>3. GoOn(s, h, r) /\ h.pc = "load" /\ told' = told
    BY <1>1, <1>6, <2>1 DEF Load, GoOn
  <2> HIDE DEF r
  <2> QED BY <2>2, <2>3 DEF Telling
<1>7. CASE Claim(s)
  <2>1. h.pc = "claim" /\ told' = told
    BY <1>1, <1>7 DEF Claim
  <2>2. CASE slot' = [slot EXCEPT ![s] = NextOrder(h)]
    BY <1>1, <1>3, <2>1, <2>2 DEF GoOn, Telling
  <2>3. CASE \E d, id : slot' = [slot EXCEPT ![s] = [h EXCEPT !.pc = "row",
                                                          !.a = OfferTo(h.a, id, d)]]
    <3>1. PICK d, id : slot' = [slot EXCEPT ![s] = [h EXCEPT !.pc = "row",
                                                          !.a = OfferTo(h.a, id, d)]]
      BY <2>3
    <3> DEFINE r == [h EXCEPT !.pc = "row", !.a = OfferTo(h.a, id, d)]
    <3>2. r.pc = "row" /\ GoOn(s, h, r)
      BY <1>1, <1>2, <3>1 DEF Handler, GoOn
    <3> HIDE DEF r
    <3> QED BY <2>1, <3>2 DEF Telling
  <2> QED BY <1>1, <1>7, <2>2, <2>3 DEF Claim, Become
<1>8. CASE ScheduleExpiry(s)
  BY <1>1, <1>3, <1>8 DEF ScheduleExpiry, Become, GoOn, Telling
<1>9. CASE UpdatePool(s)
  <2> DEFINE r == [h EXCEPT !.pc = "parked", !.driver = NoDriver]
  <2>1. r.pc = "parked"
    BY <1>2 DEF Handler
  <2>2. GoOn(s, h, r) \/ GoOn(s, h, Done(h))
    BY <1>1, <1>9 DEF UpdatePool, Become, GoOn
  <2>3. h.pc = "pool" /\ told' = told
    BY <1>1, <1>9 DEF UpdatePool
  <2> HIDE DEF r
  <2> QED BY <1>3, <2>1, <2>2, <2>3 DEF Telling
<1>10. CASE RetryParked(s)
  <2>1. PICK q : GoOn(s, h, NextOrder([h EXCEPT !.todo = q]))
                 /\ q \in AwaitingOldestFirst
    BY <1>1, <1>10 DEF RetryParked, Become, GoOn
  <2>2. [h EXCEPT !.todo = q] \in Handler
    BY <1>2, <2>1, ParkedTyped DEF Handler, TypeInv
  <2>3. NextOrder([h EXCEPT !.todo = q]).pc \notin Telling
    BY <2>2, EndRests DEF Telling
  <2> QED BY <1>1, <1>10, <2>1, <2>3 DEF RetryParked, Telling
<1>11. CASE Ack(s)
  BY <1>1, <1>11, IdleFacts DEF Ack, Become, GoOn, Telling
<1> QED BY <1>4, <1>5, <1>6, <1>7, <1>8, <1>9, <1>10, <1>11

LEMMA SilentRequests ==
  ASSUME TypeInv, NEW s \in Slots, Request(s)
  PROVE  /\ told' = told
         /\ \E h, r : GoOn(s, h, r) /\ h.pc \notin Telling /\ r.pc \notin Telling
<1>1. told' = told /\ slot[s] = Idle
  BY DEF Request, AcceptOffer, RejectOffer, ForceAssignOrder
<1>2. PICK kind, o, d, a : Starting(s, kind, o, d, a)
  BY DEF Request, AcceptOffer, RejectOffer, ForceAssignOrder
<1> DEFINE r == [Idle EXCEPT !.pc = "row", !.kind = kind, !.order = o,
                             !.driver = d, !.a = a]
<1>3. GoOn(s, Idle, r)
  BY <1>1, <1>2 DEF Starting, Become, GoOn
<1>4. r.pc = "row" /\ Idle.pc = "idle"
  BY DEF Idle
<1> HIDE DEF r
<1> QED BY <1>1, <1>3, <1>4 DEF Telling

LEMMA SilentDeliveries ==
  ASSUME TypeInv, NEW s \in Slots, NEW e, Deliver(s, e)
  PROVE  /\ told' = told
         /\ \E h, r : GoOn(s, h, r) /\ h.pc \notin Telling /\ r.pc \notin Telling
<1>1. /\ told' = told /\ slot[s] = Idle /\ Idle.pc \notin Telling
      /\ slot' = slot => GoOn(s, Idle, Idle)
  BY IdleSlot, IdleFacts DEF Deliver, Telling
<1>2. slot' = slot \/ \E r : Become(s, r) /\ r.pc \notin Telling
  <2>1. CASE DeliverCreated(s, e)
    <3> DEFINE r == [Idle EXCEPT !.pc = "load", !.kind = "created",
                                 !.entry = e, !.order = e.msg.order]
    <3>1. slot' = slot \/ Become(s, r)
      BY <2>1 DEF DeliverCreated
    <3>2. r.pc = "load"
      BY DEF Idle
    <3> HIDE DEF r
    <3> QED BY <3>1, <3>2 DEF Telling
  <2>2. CASE DeliverAvailability(s, e)
    <3> DEFINE r == [Idle EXCEPT !.pc = "pool", !.kind = "availability",
                                 !.entry = e, !.driver = e.msg.driver]
    <3>1. slot' = slot \/ Become(s, r)
      BY <2>2 DEF DeliverAvailability
    <3>2. r.pc = "pool"
      BY DEF Idle
    <3> HIDE DEF r
    <3> QED BY <3>1, <3>2 DEF Telling
  <2>3. CASE DeliverCompleted(s, e)
    <3> DEFINE r(a) == [Idle EXCEPT !.pc = "commit", !.kind = "complete",
                          !.entry = e, !.order = e.msg.order,
                          !.driver = a.assigned, !.a = MarkCompleted(a)]
    <3>1. slot' = slot \/ \E a : Become(s, r(a))
      BY <2>3 DEF DeliverCompleted
    <3>2. \A a : r(a).pc = "commit"
      BY DEF Idle
    <3> HIDE DEF r
    <3> QED BY <3>1, <3>2 DEF Telling
  <2>4. CASE DeliverCancelled(s, e)
    <3> DEFINE r == [Idle EXCEPT !.pc = "parked", !.kind = "cancel", !.entry = e]
               q(a) == [Idle EXCEPT !.pc = "commit", !.kind = "cancel",
                          !.entry = e, !.order = e.msg.order,
                          !.driver = FreedByCancel(a), !.a = Cancel(a)]
    <3>1. Become(s, r) \/ \E a : Become(s, q(a))
      BY <2>4 DEF DeliverCancelled
    <3>2. r.pc = "parked" /\ \A a : q(a).pc = "commit"
      BY DEF Idle
    <3> HIDE DEF r, q
    <3> QED BY <3>1, <3>2 DEF Telling
  <2>5. CASE DeliverExpired(s, e)
    <3> DEFINE r(a) == [Idle EXCEPT !.pc = "row", !.kind = "expire",
                          !.entry = e, !.order = e.msg.order,
                          !.driver = CurrentAttempt(a).driver, !.a = ExpireOffer(a)]
    <3>1. slot' = slot \/ \E a : Become(s, r(a))
      BY <2>5 DEF DeliverExpired
    <3>2. \A a : r(a).pc = "row"
      BY DEF Idle
    <3> HIDE DEF r
    <3> QED BY <3>1, <3>2 DEF Telling
  <2> QED BY <2>1, <2>2, <2>3, <2>4, <2>5 DEF Deliver
<1> QED BY <1>1, <1>2 DEF Become, GoOn

(* A step that shows no order differently, and tells nothing.              *)
LEMMA SilentLives ==
  ASSUME OneAtATime, FormInv, FormInv', NEW s \in Slots, told' = told,
         \E h, r : GoOn(s, h, r) /\ h.pc \notin Telling /\ r.pc \notin Telling,
         ViewStays, ExistsGrows
  PROVE  \A o \in Orders : Lives(o)
<1>1. PICK h, r : GoOn(s, h, r) /\ h.pc \notin Telling /\ r.pc \notin Telling
  OBVIOUS
<1> SUFFICES ASSUME NEW o \in Orders PROVE Lives(o)
  OBVIOUS
<1>2. Announced(o)' = Announced(o)
  BY <1>1, AnnouncedGoesOn, Untold
<1> QED BY <1>2, CreatedLives DEF ViewStays, ExistsGrows

(* The next step of an announcement, up to its publication.                *)
LEMMA TellingLives ==
  ASSUME OneAtATime, FormInv, FormInv', TypeInv, SerialInv, NEW s \in Slots,
         SaveAttempts(s) \/ MarkBusy(s) \/ Publish(s), ViewStays, ExistsStays
  PROVE  \A o \in Orders : Lives(o)
<1>1. PICK h : slot[s] = h
  OBVIOUS
<1>2. h \in Handler
  BY <1>1 DEF TypeInv, SlotsOK
<1> SUFFICES ASSUME NEW o \in Orders PROVE Announced(o)' = Announced(o)
  BY UnmovedLives DEF Unmoved, ViewStays, ExistsStays
<1>3. CASE SaveAttempts(s)
  <2> DEFINE r == AfterSave(h)
  <2>1. GoOn(s, h, r) /\ told' = told /\ h.pc = "atts"
    BY <1>1, <1>3 DEF SaveAttempts, Become, GoOn
  <2>2. /\ r.order = h.order /\ r.a = h.a
        /\ r.pc \in {"mark", "publish"} \/ Raised(h.a) = <<>>
    BY <1>2 DEF AfterSave, Handler, Raised
  <2> HIDE DEF r
  <2>3. Heard(r, o) = Heard(h, o)
    BY <2>1, <2>2 DEF Heard
  <2>4. Announced(o) = told[o] \o Heard(h, o) /\ Announced(o)' = told'[o] \o Heard(r, o)
    BY <2>1, AnnouncedGoesOn
  <2> QED BY <2>1, <2>3, <2>4
<1>4. CASE MarkBusy(s)
  <2> DEFINE r == [h EXCEPT !.pc = "publish"]
  <2>1. GoOn(s, h, r) /\ told' = told /\ h.pc = "mark"
    BY <1>1, <1>4 DEF MarkBusy, Become, GoOn
  <2>2. r.order = h.order /\ r.a = h.a /\ r.pc = "publish"
    BY <1>2 DEF Handler
  <2> HIDE DEF r
  <2>3. Heard(r, o) = Heard(h, o)
    BY <2>1, <2>2 DEF Heard
  <2>4. Announced(o) = told[o] \o Heard(h, o) /\ Announced(o)' = told'[o] \o Heard(r, o)
    BY <2>1, AnnouncedGoesOn
  <2> QED BY <2>1, <2>3, <2>4
<1>5. CASE Publish(s)
  <2>1. GoOn(s, h, Done(h))
    BY <1>1, <1>5 DEF Publish, Become, GoOn
  <2>2. h.pc = "publish" /\ told' = [told EXCEPT ![h.order] = @ \o Raised(h.a)]
    BY <1>1, <1>5 DEF Publish
  <2>3. Heard(Done(h), o) = <<>>
    BY <1>2, EndRests, Untold DEF Telling
  <2>4. Announced(o)' = told'[o]
    <3>1. Announced(o)' = told'[o] \o Heard(Done(h), o) /\ told'[o] \in Seq(Event)
      BY <2>1, AnnouncedGoesOn
    <3>2. told'[o] \o <<>> = told'[o]
      BY <3>1, ConcatEmptySeq
    <3> QED BY <2>3, <3>1, <3>2
  <2>5. told'[o] = told[o] \o Heard(h, o)
    <3>1. CASE h.order = o
      <4>1. told'[o] = told[o] \o Raised(h.a)
        BY <2>2, <3>1 DEF FormInv
      <4> QED BY <2>2, <3>1, <4>1 DEF Heard
    <3>2. CASE h.order # o
      <4>1. told'[o] = told[o] /\ told[o] \in Seq(Event)
        BY <2>2, <3>2 DEF FormInv
      <4>2. Heard(h, o) = <<>>
        BY <3>2 DEF Heard
      <4> QED BY <4>1, <4>2, ConcatEmptySeq
    <3> QED BY <3>1, <3>2
  <2>6. Announced(o) = told[o] \o Heard(h, o)
    BY <2>1, AnnouncedGoesOn
  <2> QED BY <2>4, <2>5, <2>6
<1> QED BY <1>3, <1>4, <1>5

LEMMA RowLives ==
  ASSUME OneAtATime, FormInv, FormInv', TypeInv, SerialInv, NEW s \in Slots, SaveRow(s)
  PROVE  \A o \in Orders : Lives(o)
<1>1. PICK h : slot[s] = h
  OBVIOUS
<1>2. Becomes(h.order, h.a) /\ ExistsStays
  BY <1>1, RowSerial
<1>3. h \in Handler /\ h.pc = "row" /\ h.order \in Orders
  BY <1>1, SlotFacts DEF SaveRow, OnOrder
<1>4. PICK v : v = View(h.order)
  OBVIOUS
<1>5. Doing(h, v) /\ Exists(h.order) /\ v \in Aggregate
  BY <1>1, <1>3, <1>4, SlotFacts DEF Sound
<1> DEFINE r == [h EXCEPT !.pc = "atts"]
<1>6. GoOn(s, h, r) /\ told' = told
  BY <1>1 DEF SaveRow, Become, GoOn
<1>7. r.pc = "atts" /\ r.order = h.order /\ r.a = h.a
  BY <1>3 DEF Handler
<1> HIDE DEF r
<1>8. \A o \in Orders : Announced(o) = told[o] /\ told[o] \in Seq(Event)
  <2> SUFFICES ASSUME NEW o \in Orders
               PROVE  Announced(o) = told[o] /\ told[o] \in Seq(Event)
    OBVIOUS
  <2>1. Announced(o) = told[o] \o Heard(h, o) /\ told[o] \in Seq(Event)
    BY <1>6, AnnouncedGoesOn
  <2>2. Heard(h, o) = <<>>
    BY <1>3, Untold DEF Telling
  <2> QED BY <2>1, <2>2, ConcatEmptySeq
<1> SUFFICES ASSUME NEW o \in Orders PROVE Lives(o)
  OBVIOUS
<1>9. Announced(o)' = told[o] \o Heard(r, o)
  <2>1. Announced(o)' = told'[o] \o Heard(r, o)
    BY <1>6, AnnouncedGoesOn
  <2> QED BY <1>6, <2>1
<1>10. CASE o = h.order
  <2>1. Heard(r, o) = Raised(h.a)
    BY <1>7, <1>10 DEF Heard
  <2>2. Announced(o)' = Announced(o) \o Raised(h.a)
    BY <1>8, <1>9, <2>1
  <2>3. View(o) = v /\ Exists(o) /\ Exists(o)' /\ View(o)' = h.a
    BY <1>2, <1>4, <1>5, <1>10 DEF Becomes, ExistsStays
  <2>4. Announced(o) \in Seq(Event)
    BY <1>8
  <2> QED BY <1>3, <1>5, <2>2, <2>3, <2>4, SavedLives
<1>11. CASE o # h.order
  <2>1. Heard(r, o) = <<>>
    BY <1>7, <1>11 DEF Heard
  <2>2. Announced(o)' = Announced(o)
    BY <1>8, <1>9, <2>1, ConcatEmptySeq
  <2> QED BY <1>2, <1>11, <2>2, UnmovedLives DEF Unmoved, Becomes, ExistsStays
<1> QED BY <1>10, <1>11

LEMMA CommitLives ==
  ASSUME OneAtATime, FormInv, FormInv', TypeInv, SerialInv, NEW s \in Slots, Commit(s)
  PROVE  \A o \in Orders : Lives(o)
<1>1. PICK h : slot[s] = h
  OBVIOUS
<1>2. Becomes(h.order, h.a) /\ ExistsStays
  BY <1>1, CommitSerial
<1>3. h \in Handler /\ h.pc = "commit" /\ h.order \in Orders
  BY <1>1, SlotFacts DEF Commit, OnOrder
<1>4. PICK v : v = View(h.order)
  OBVIOUS
<1>5. Doing(h, v) /\ Exists(h.order)
  BY <1>1, <1>3, <1>4, SlotFacts
<1> DEFINE r == [h EXCEPT !.a = NewAssignment,
                   !.pc = IF h.driver # NoDriver THEN "free" ELSE "parked"]
<1>6. GoOn(s, h, r) /\ told' = told
  BY <1>1 DEF Commit, Become, GoOn
<1>7. r.pc \in {"free", "parked"}
  BY <1>3 DEF Handler
<1> HIDE DEF r
<1> SUFFICES ASSUME NEW o \in Orders PROVE Lives(o)
  OBVIOUS
<1>8. Announced(o)' = Announced(o)
  <2>1. Heard(h, o) = <<>> /\ Heard(r, o) = <<>>
    BY <1>3, <1>7, Untold DEF Telling
  <2>2. Announced(o) = told[o] \o Heard(h, o) /\ Announced(o)' = told'[o] \o Heard(r, o)
    BY <1>6, AnnouncedGoesOn
  <2> QED BY <1>6, <2>1, <2>2
<1>9. CASE o = h.order
  <2>1. View(o) = v /\ Exists(o) /\ Exists(o)' /\ View(o)' = h.a
    BY <1>2, <1>4, <1>5, <1>9 DEF Becomes, ExistsStays
  <2> QED BY <1>3, <1>5, <1>8, <2>1, CommittedLives
<1>10. CASE o # h.order
  BY <1>2, <1>8, <1>10, UnmovedLives DEF Unmoved, Becomes, ExistsStays
<1> QED BY <1>9, <1>10

LEMMA StutterLives ==
  ASSUME OneAtATime, StoreInv, UNCHANGED vars
  PROVE  \A o \in Orders : Lives(o)
<1>1. UNCHANGED <<row, atts, told, slot>>
  BY DEF vars, db
<1>2. \A o : /\ SavingSlots(o)' = SavingSlots(o) /\ Exists(o)' = Exists(o)
             /\ Announcing(o)' = Announcing(o)
  BY <1>1 DEF SavingSlots, Exists, Announcing
<1>3. ViewStays
  <2>1. ASSUME NEW o \in Orders, NEW a, Stored(o, a) PROVE Stored(o, a)'
    BY <1>1, <1>2, <2>1 DEF Stored
  <2> QED BY <2>1, StaysStored
<1>4. \A o \in Orders : Announced(o)' = Announced(o)
  <2> SUFFICES ASSUME NEW o \in Orders PROVE Announced(o)' = Announced(o)
    OBVIOUS
  <2>1. PICK A : Announcing(o) = A
    OBVIOUS
  <2>2. Announcing(o)' = A
    BY <1>2, <2>1
  <2>3. Announced(o) = IF A = {} THEN told[o]
                       ELSE told[o] \o Raised(slot[CHOOSE s \in A : TRUE].a)
    BY <2>1 DEF Announced
  <2>4. Announced(o)' = IF A = {} THEN told'[o]
                        ELSE told'[o] \o Raised(slot'[CHOOSE s \in A : TRUE].a)
    BY <2>2 DEF Announced
  <2> QED BY <1>1, <2>3, <2>4
<1> QED BY <1>2, <1>3, <1>4, UnmovedLives DEF Unmoved, ViewStays

LEMMA LivesStep ==
  ASSUME OneAtATime, SentInv, FormInv, FormInv', TypeInv, SerialInv, [Next]_vars
  PROVE  \A o \in Orders : Lives(o)
<1>1. ExistsStays => ExistsGrows
  BY DEF ExistsStays, ExistsGrows
<1>2. CASE UNCHANGED vars
  BY <1>2, StutterLives DEF SerialInv
<1>3. ASSUME NEW s \in Slots, Step(s) PROVE \A o \in Orders : Lives(o)
  <2>1. PICK h : slot[s] = h
    OBVIOUS
  <2>2. CASE SaveRow(s) \/ Commit(s)
    BY <2>2, RowLives, CommitLives
  <2>3. CASE SaveAttempts(s) \/ MarkBusy(s) \/ Publish(s)
    <3>1. ViewStays /\ ExistsStays
      BY <2>1, <2>3, AttemptsSerial, MarkSerial, OtherSerial
    <3> QED BY <2>3, <3>1, TellingLives
  <2>4. CASE \/ FreeDriver(s) \/ Recheck(s) \/ Load(s) \/ Claim(s) \/ ScheduleExpiry(s)
             \/ UpdatePool(s) \/ RetryParked(s) \/ Ack(s)
    <3>1. ViewStays /\ ExistsStays
      BY <2>4, FreeSerial, RecheckSerial, LoadSerial, ClaimSerial, ScheduleSerial,
         OtherSerial
    <3> QED BY <1>1, <2>4, <3>1, SilentSteps, SilentLives
  <2> QED BY <1>3, <2>2, <2>3, <2>4 DEF Step
<1>4. ASSUME NEW s \in Slots, Request(s) PROVE \A o \in Orders : Lives(o)
  BY <1>1, <1>4, RequestSerial, SilentRequests, SilentLives
<1>5. ASSUME NEW s \in Slots, NEW e \in Deliverable, Deliver(s, e)
      PROVE  \A o \in Orders : Lives(o)
  BY <1>5, DeliverSerial, SilentDeliveries, SilentLives
<1> QED BY <1>2, <1>3, <1>4, <1>5, NoFaults DEF Next

(* One handler at a time, every order lives as OrderLifecycle says: each   *)
(* use case, with all its awaited operations, is one step of an order's    *)
(* life or none, so what is proved of OrderLifecycle holds of the service. *)
THEOREM SerialOrdersLive == ASSUME OneAtATime PROVE Spec => EachOrderLives
<1>1. Init => \A o \in Orders : Lifecycle(o)!Init
  <2> SUFFICES ASSUME Init, NEW o \in Orders PROVE Lifecycle(o)!Init
    OBVIOUS
  <2>1. ~Exists(o) /\ View(o) = NewAssignment /\ Exists(o) \in BOOLEAN
    BY DEF Init, Exists, View
  <2>2. Announcing(o) = {} /\ told[o] = <<>>
    BY IdleFacts DEF Init, Announcing
  <2> QED BY <2>1, <2>2
          DEF Announced, Lifecycle!Init, Lifecycle!NewAssignment, NewAssignment
<1>2. DispatchInv /\ DispatchInv' /\ TypeInv /\ SerialInv /\ [Next]_vars
        => [\A o \in Orders : [Lifecycle(o)!Next]_(Lifecycle(o)!vars)]_vars
  <2> SUFFICES ASSUME DispatchInv, DispatchInv', TypeInv, SerialInv, [Next]_vars
               PROVE  \A o \in Orders : Lives(o)
    BY DEF Lives
  <2> QED BY LivesStep DEF DispatchInv
<1> QED
  BY <1>1, <1>2, DispatchInvariant, DispatchTypeInvariant, SerialInvariant, PTL
     DEF Spec, EachOrderLives
-----------------------------------------------------------------------------
(* What is published of an order fits the order.                           *)
ToldInv == \A o \in Orders : EventsFit(Announced(o), View(o), MaxAttempts)

LEMMA LivesFits ==
  ASSUME NEW o, Sound(View(o)), EventsFit(Announced(o), View(o), MaxAttempts), Lives(o)
  PROVE  EventsFit(Announced(o)', View(o)', MaxAttempts)
<1> USE DEF Lifecycle!DriverAssigned, Lifecycle!AssignmentFailed, Lifecycle!Resolve,
            Lifecycle!CurrentAttempt, DriverAssigned, AssignmentFailed, Resolve,
            CurrentAttempt
<1>1. ASSUME NEW d \in Drivers, Lifecycle(o)!Offer(d)
      PROVE  EventsFit(Announced(o)', View(o)', MaxAttempts)
  <2>1. /\ CanOffer(View(o)) /\ Announced(o)' = Announced(o)
        /\ View(o)' = OfferTo(View(o), Len(View(o).attempts) + 1, d)
    BY <1>1 DEF Lifecycle!Offer, Lifecycle!CanOffer, Lifecycle!OfferTo, CanOffer, OfferTo
  <2> QED BY <2>1, MethodsFit
<1>2. ASSUME NEW d \in Drivers, Lifecycle(o)!AcceptOffer(d)
      PROVE  EventsFit(Announced(o)', View(o)', MaxAttempts)
  <2>1. /\ CanRespond(View(o), d) /\ View(o)' = Accept(View(o), d)
        /\ Announced(o)' = Append(Announced(o), DriverAssigned(d))
    BY <1>2
       DEF Lifecycle!AcceptOffer, Lifecycle!CanRespond, Lifecycle!Accept, CanRespond, Accept
  <2> QED BY <2>1, MethodsFit
<1>3. ASSUME NEW d \in Drivers, Lifecycle(o)!RejectOffer(d)
      PROVE  EventsFit(Announced(o)', View(o)', MaxAttempts)
  <2>1. /\ CanRespond(View(o), d) /\ View(o)' = RejectByDriver(View(o))
        /\ Announced(o)' = Announced(o)
    BY <1>3
       DEF Lifecycle!RejectOffer, Lifecycle!CanRespond, Lifecycle!RejectByDriver,
           CanRespond, RejectByDriver
  <2> QED BY <2>1, MethodsFit
<1>4. ASSUME NEW n \in 1..MaxOffers, Lifecycle(o)!ExpireAttempt(n)
      PROVE  EventsFit(Announced(o)', View(o)', MaxAttempts)
  <2>1. /\ CanExpire(View(o), n) /\ View(o)' = ExpireOffer(View(o))
        /\ Announced(o)' = Announced(o)
    BY <1>4
       DEF Lifecycle!ExpireAttempt, Lifecycle!CanExpire, Lifecycle!ExpireOffer,
           CanExpire, ExpireOffer
  <2> QED BY <2>1, MethodsFit
<1>5. CASE Lifecycle(o)!Fail
  <2>1. /\ View(o).status = "awaiting_driver" /\ View(o).offerAttempts >= MaxAttempts
        /\ View(o)' = MarkFailed(View(o))
        /\ Announced(o)' = Append(Announced(o), AssignmentFailed)
    BY <1>5 DEF Lifecycle!Fail, Lifecycle!Exhausted, Lifecycle!MarkFailed, MarkFailed
  <2> QED BY <2>1, MethodsFit
<1>6. CASE Lifecycle(o)!CompleteDelivery
  <2>1. /\ CanComplete(View(o)) /\ View(o)' = MarkCompleted(View(o))
        /\ Announced(o)' = Announced(o)
    BY <1>6
       DEF Lifecycle!CompleteDelivery, Lifecycle!CanComplete, Lifecycle!MarkCompleted,
           CanComplete, MarkCompleted
  <2> QED BY <2>1, MethodsFit
<1>7. CASE Lifecycle(o)!CancelOrder
  <2>1. View(o)' = Cancel(View(o)) /\ Announced(o)' = Announced(o)
    BY <1>7 DEF Lifecycle!CancelOrder, Lifecycle!Cancel, Lifecycle!Terminal, Cancel, Terminal
  <2> QED BY <2>1, MethodsFit
<1>8. ASSUME NEW d \in Drivers, Lifecycle(o)!ForceOrder(d)
      PROVE  EventsFit(Announced(o)', View(o)', MaxAttempts)
  <2>1. /\ CanForce(View(o)) /\ View(o)' = ForceAssign(View(o), d)
        /\ Announced(o)' = Append(Announced(o), DriverAssigned(d))
    BY <1>8
       DEF Lifecycle!ForceOrder, Lifecycle!CanForce, Lifecycle!ForceAssign,
           CanForce, ForceAssign
  <2> QED BY <2>1, MethodsFit
<1>9. CASE Lifecycle(o)!Create \/ UNCHANGED Lifecycle(o)!vars
  BY <1>9 DEF Lifecycle!Create, Lifecycle!vars
<1> QED
  BY <1>1, <1>2, <1>3, <1>4, <1>5, <1>6, <1>7, <1>8, <1>9 DEF Lives, Lifecycle!Next

LEMMA ToldInvariant == ASSUME OneAtATime PROVE Spec => []ToldInv
<1>1. Init => ToldInv
  <2> SUFFICES ASSUME Init, NEW o \in Orders
               PROVE  EventsFit(Announced(o), View(o), MaxAttempts)
    BY DEF ToldInv
  <2>1. Announced(o) = <<>> /\ View(o) = NewAssignment
    BY IdleFacts DEF Init, Exists, View, Announcing, Announced
  <2> QED BY <2>1 DEF EventsFit, NewAssignment
<1>2. /\ DispatchInv /\ DispatchInv' /\ TypeInv /\ SerialInv /\ ToldInv /\ [Next]_vars
      => ToldInv'
  <2> SUFFICES ASSUME DispatchInv, DispatchInv', TypeInv, SerialInv, ToldInv,
                      [Next]_vars, NEW o \in Orders
               PROVE  EventsFit(Announced(o)', View(o)', MaxAttempts)
    BY DEF ToldInv
  <2>1. Lives(o)
    BY LivesStep DEF DispatchInv
  <2>2. Sound(View(o))
    BY ViewIsStored DEF SerialInv, Stored
  <2> QED BY <2>1, <2>2, LivesFits DEF ToldInv
<1> QED
  BY <1>1, <1>2, DispatchInvariant, DispatchTypeInvariant, SerialInvariant, PTL DEF Spec

LEMMA ToldIsAnnounced ==
  ASSUME FormInv, TypeInv, NEW o \in Orders, NEW i \in DOMAIN told[o]
  PROVE  i \in DOMAIN Announced(o) /\ Announced(o)[i] = told[o][i]
<1>1. told[o] \in Seq(Event)
  BY DEF FormInv
<1>2. CASE Announcing(o) = {}
  BY <1>2 DEF Announced
<1>3. CASE Announcing(o) # {}
  <2>1. PICK s : s \in Slots /\ Announced(o) = told[o] \o Raised(slot[s].a)
    BY <1>3 DEF Announced, Announcing
  <2>2. PICK e : e = Raised(slot[s].a)
    OBVIOUS
  <2>3. e \in Seq(Event)
    <3>1. slot[s].a \in Aggregate
      BY <2>1 DEF TypeInv, SlotsOK, Handler
    <3>2. /\ AssignmentFailed \in Event
          /\ slot[s].a.assigned \in Drivers \cup {NoDriver}
          /\ \A d \in Drivers \cup {NoDriver} : DriverAssigned(d) \in Event
      BY <3>1 DEF Aggregate, AssignmentFailed, DriverAssigned, Event
    <3> QED BY <2>2, <3>2 DEF Raised
  <2>4. PICK t : t = told[o]
    OBVIOUS
  <2>5. t \in Seq(Event) /\ DOMAIN t = 1..Len(t) /\ Len(t) \in Nat /\ Len(e) \in Nat
    BY <1>1, <2>3, <2>4
  <2>6. /\ DOMAIN (t \o e) = 1..(Len(t) + Len(e))
        /\ \A k \in 1..Len(t) : (t \o e)[k] = t[k]
    BY <2>3, <2>5
  <2>7. i \in DOMAIN (t \o e) /\ (t \o e)[i] = t[i]
    BY <2>4, <2>5, <2>6
  <2> QED BY <2>1, <2>2, <2>4, <2>7
<1> QED BY <1>2, <1>3

(* One handler at a time and without failures, an order is announced once  *)
(* at most to have a driver (README.md:27).                                *)
THEOREM SerialTellsOnce == ASSUME OneAtATime PROVE Spec => []AssignedToldOnce
<1>1. DispatchInv /\ TypeInv /\ ToldInv => AssignedToldOnce
  <2> SUFFICES ASSUME DispatchInv, TypeInv, ToldInv, NEW o \in Orders,
                      NEW i \in DOMAIN told[o], NEW j \in DOMAIN told[o],
                      told[o][i].type = "driver.assigned",
                      told[o][j].type = "driver.assigned"
               PROVE  i = j
    BY DEF AssignedToldOnce
  <2>1. EventsFit(Announced(o), View(o), MaxAttempts)
    BY DEF ToldInv
  <2> QED BY <2>1, ToldIsAnnounced, FittingEvents DEF DispatchInv
<1> QED BY <1>1, DispatchInvariant, DispatchTypeInvariant, ToldInvariant, PTL

(* One handler at a time, every announcement is true of what is saved, at  *)
(* the moment it is made and for ever: save comes before publish, no use   *)
(* case takes the driver off an order, and none reopens a declined offer.  *)
THEOREM SerialTellsTheTruth == ASSUME OneAtATime PROVE Spec => []ToldAsSaved
<1>1. DispatchInv /\ TypeInv /\ SerialInv /\ ToldInv => ToldAsSaved
  <2> SUFFICES ASSUME DispatchInv, TypeInv, SerialInv, ToldInv, NEW o \in Orders,
                      NEW i \in DOMAIN told[o]
               PROVE  /\ told[o][i].type = "driver.assigned" =>
                           Exists(o) /\ row[o].assigned = told[o][i].driver
                      /\ Quiet /\ told[o][i].type = "assignment.failed" =>
                           Cardinality({x.driver : x \in {y \in atts[o] :
                                                           y.outcome \in Declined}})
                             >= MaxAttempts
    BY DEF ToldAsSaved
  <2>1. PICK v : v = View(o)
    OBVIOUS
  <2>2. EventsFit(Announced(o), v, MaxAttempts) /\ Stored(o, v) /\ Sound(v)
    BY <2>1, ViewIsStored DEF ToldInv, SerialInv, Stored
  <2>3. i \in DOMAIN Announced(o) /\ Announced(o)[i] = told[o][i]
    BY ToldIsAnnounced DEF DispatchInv
  <2>4. ASSUME told[o][i].type = "driver.assigned"
        PROVE  Exists(o) /\ row[o].assigned = told[o][i].driver
    <3>1. v.assigned = told[o][i].driver
      BY <2>2, <2>3, <2>4, FittingEvents
    <3>2. Exists(o)
      <4> SUFFICES ASSUME ~Exists(o) PROVE FALSE
        OBVIOUS
      <4>1. v = NewAssignment
        BY <2>2 DEF Stored
      <4>2. Announced(o) = <<>>
        <5>1. v.status = "awaiting_driver" /\ v.assigned = NoDriver
          BY <4>1 DEF NewAssignment
        <5> QED BY <2>2, <5>1, NoDriverAssumption DEF EventsFit
      <4> QED BY <2>3, <4>2
    <3> QED BY <2>2, <3>1, <3>2 DEF Stored, RowOf
  <2>5. ASSUME Quiet, told[o][i].type = "assignment.failed"
        PROVE  Cardinality({x.driver : x \in {y \in atts[o] : y.outcome \in Declined}})
                 >= MaxAttempts
    <3>1. AllDeclined(v) /\ Len(v.attempts) >= MaxAttempts
      BY <2>2, <2>3, <2>5, FittingEvents DEF ExhaustedFor
    <3>2. SavingSlots(o) = {}
      BY <2>5, IdleFacts DEF Quiet, SavingSlots
    <3>3. atts[o] = AttsOf(v)
      BY <2>2, <3>2 DEF Stored
    <3>4. {x.driver : x \in {y \in atts[o] : y.outcome \in Declined}} = TriedDrivers(v)
      BY <3>3 DEF AttsOf, TriedDrivers
    <3> QED BY <2>2, <3>1, <3>4, TriedCount
  <2> QED BY <2>4, <2>5
<1> QED
  BY <1>1, DispatchInvariant, DispatchTypeInvariant, SerialInvariant, ToldInvariant, PTL

(* One handler at a time and without failures, the driver of a closed      *)
(* order is free or on another one (README.md:46): what the run            *)
(* closing_fault finds needs a failure, which may also be a crash.         *)
THEOREM SerialClosedOrderFreesDriver ==
  ASSUME OneAtATime PROVE Spec => []ClosedOrderFreesDriver
<1>1. NoDriverLost => ClosedOrderFreesDriver
  BY DEF NoDriverLost, ClosedOrderFreesDriver, Settled
<1> QED BY <1>1, SerialNoDriverLost, PTL

(* One handler at a time and without crashes, every unanswered offer has   *)
(* its expiry message under way (README.md:25): what the run offer_crash   *)
(* finds needs a failure, which may also be an operation that throws.      *)
THEOREM SerialOfferExpires == ASSUME OneAtATime PROVE Spec => []OfferExpires
<1>1. OfferHasTimer => OfferExpires
  BY DEF OfferHasTimer, OfferExpires, Settled
<1> QED BY <1>1, SerialOfferHasTimer, PTL

(* One handler at a time and with nobody to force, a driver on an offer or *)
(* a delivery is busy (README.md:61-62): what the run forced_driver finds  *)
(* needs an admin.                                                         *)
THEOREM SerialEngagedIsBusy ==
  ASSUME OneAtATime, Directory = {}
  PROVE  Spec => []EngagedDriverIsBusy
<1>1. TypeInv /\ SerialInv => EngagedDriverIsBusy
  <2> SUFFICES ASSUME TypeInv, SerialInv, Settled, NEW o \in Orders
               PROVE  Engaged(o) \subseteq busy
    BY DEF EngagedDriverIsBusy
  <2>1. PICK v : v = View(o)
    OBVIOUS
  <2>2. Engaged(o) = EngagedBy(v)
    BY <2>1, AtRest DEF Settled
  <2>3. EngagedBy(v) \subseteq Drivers
    <3>1. Sound(v)
      BY <2>1, ViewIsStored DEF SerialInv, Stored
    <3> QED BY <3>1, CurrentFacts DEF EngagedBy, Sound, StatusSound
  <2>4. \A d \in Drivers : d \in EngagedBy(v) => d \in busy
    BY <2>1 DEF SerialInv, Exclusive
  <2> QED BY <2>2, <2>3, <2>4
<1> QED BY <1>1, SerialInvariant, DispatchTypeInvariant, PTL
=============================================================================
