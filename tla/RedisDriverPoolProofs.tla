----------------------- MODULE RedisDriverPoolProofs ------------------------
(***************************************************************************)
(* Proofs about RedisDriverPool, for every set of drivers and every bound  *)
(* on the time stamps: the three keys agree, and they implement the pool   *)
(* of the port.                                                            *)
(***************************************************************************)
EXTENDS RedisDriverPool, TLAPS

IInv == TypeOK /\ QueueIsFreeDrivers

(* What ZADD and ZREM do to the members of the queue and to the scores.    *)
LEMMA ZaddFacts ==
  ASSUME TypeOK, NEW d \in Drivers, NEW t \in 0..MaxTime
  PROVE  /\ DOMAIN Zadd(d, t) = available \cup {d}
         /\ Zadd(d, t) \in [available \cup {d} -> 0..MaxTime]
BY DEF Zadd, TypeOK, available

LEMMA ZremFacts ==
  ASSUME TypeOK, NEW d \in Drivers
  PROVE  /\ DOMAIN Zrem(d) = available \ {d}
         /\ Zrem(d) \in [available \ {d} -> 0..MaxTime]
BY DEF Zrem, TypeOK, available

LEMMA CallTyped ==
  ASSUME NEW op \in Port!Operations, NEW asked \in SUBSET Drivers,
         NEW answer \in SUBSET Drivers
  PROVE  Port!Call(op, asked, answer) \in Port!Calls
BY DEF Port!Call, Port!Calls

LEMMA OperationNames ==
  {"none", "claimNext", "onWilling", "onUnwilling", "freeDriver", "markBusy",
   "listAvailable"} = Port!Operations
BY DEF Port!Operations

(* Every operation keeps the keys in agreement, and has the effect and the *)
(* answer of the port's operation of the same name.                        *)
LEMMA PoolStep ==
  ASSUME IInv, [Next]_vars
  PROVE  IInv' /\ [Port!PortNext]_(Port!portVars)
<1> USE TimeAssumption, OperationNames
    DEF IInv, TypeOK, QueueIsFreeDrivers, available
<1>1. ASSUME NEW excluded \in SUBSET Drivers, NEW d \in Drivers,
             ClaimNext(excluded, d)
      PROVE  IInv' /\ Port!PortNext
  <2>1. d \in (willing \ busy) \ excluded
    BY <1>1 DEF ClaimNext, LongestWaiting
  <2>2. /\ DOMAIN score' = available \ {d}
        /\ score' \in [available \ {d} -> 0..MaxTime]
    BY <1>1, ZremFacts DEF ClaimNext
  <2>3. /\ call' = Port!Call("claimNext", excluded, {d})
        /\ call' \in Port!Calls
    BY <1>1, CallTyped DEF ClaimNext
  <2>4. IInv'
    BY <1>1, <2>1, <2>2, <2>3 DEF ClaimNext
  <2>5. Port!ClaimNext(excluded, d)
    BY <1>1, <2>1 DEF ClaimNext, Port!ClaimNext, Port!Free
  <2> QED BY <2>3, <2>4, <2>5 DEF Port!PortNext
<1>2. ASSUME NEW excluded \in SUBSET Drivers, ClaimNone(excluded)
      PROVE  IInv' /\ Port!PortNext
  <2>1. /\ call' = Port!Call("claimNext", excluded, {})
        /\ call' \in Port!Calls
    BY <1>2, CallTyped DEF ClaimNone
  <2>2. IInv'
    BY <1>2, <2>1 DEF ClaimNone, keys
  <2>3. Port!ClaimNone(excluded)
    BY <1>2 DEF ClaimNone, keys, Port!ClaimNone, Port!Free, Port!poolVars
  <2> QED BY <2>1, <2>2, <2>3 DEF Port!PortNext
<1>3. ASSUME NEW d \in Drivers, NEW t \in 0..now, OnWilling(d, t)
      PROVE  IInv' /\ Port!PortNext
  <2>1. t \in 0..MaxTime
    OBVIOUS
  <2>2. /\ DOMAIN Zadd(d, t) = available \cup {d}
        /\ Zadd(d, t) \in [available \cup {d} -> 0..MaxTime]
    BY <2>1, ZaddFacts
  <2>3. /\ call' = Port!Call("onWilling", {d}, {})
        /\ call' \in Port!Calls
    BY <1>3, CallTyped DEF OnWilling
  <2>4. IInv'
    <3>1. CASE d \in busy
      BY <1>3, <2>3, <3>1 DEF OnWilling
    <3>2. CASE d \notin busy
      BY <1>3, <2>2, <2>3, <3>2 DEF OnWilling
    <3> QED BY <3>1, <3>2
  <2>5. Port!OnWilling(d)
    BY <1>3 DEF OnWilling, Port!OnWilling
  <2> QED BY <2>3, <2>4, <2>5 DEF Port!PortNext
<1>4. ASSUME NEW d \in Drivers, OnUnwilling(d)
      PROVE  IInv' /\ Port!PortNext
  <2>1. /\ call' = Port!Call("onUnwilling", {d}, {})
        /\ call' \in Port!Calls
    BY <1>4, CallTyped DEF OnUnwilling
  <2>2. IInv'
    BY <1>4, <2>1, ZremFacts DEF OnUnwilling
  <2>3. Port!OnUnwilling(d)
    BY <1>4 DEF OnUnwilling, Port!OnUnwilling
  <2> QED BY <2>1, <2>2, <2>3 DEF Port!PortNext
<1>5. ASSUME NEW d \in Drivers, FreeDriver(d)
      PROVE  IInv' /\ Port!PortNext
  <2>1. /\ DOMAIN Zadd(d, now) = available \cup {d}
        /\ Zadd(d, now) \in [available \cup {d} -> 0..MaxTime]
    BY ZaddFacts
  <2>2. /\ call' = Port!Call("freeDriver", {d}, {})
        /\ call' \in Port!Calls
    BY <1>5, CallTyped DEF FreeDriver
  <2>3. IInv'
    <3>1. CASE d \in willing
      BY <1>5, <2>1, <2>2, <3>1 DEF FreeDriver
    <3>2. CASE d \notin willing
      BY <1>5, <2>2, <3>2 DEF FreeDriver
    <3> QED BY <3>1, <3>2
  <2>4. Port!FreeDriver(d)
    BY <1>5 DEF FreeDriver, Port!FreeDriver
  <2> QED BY <2>2, <2>3, <2>4 DEF Port!PortNext
<1>6. ASSUME NEW d \in Drivers, MarkBusy(d)
      PROVE  IInv' /\ Port!PortNext
  <2>1. /\ call' = Port!Call("markBusy", {d}, {})
        /\ call' \in Port!Calls
    BY <1>6, CallTyped DEF MarkBusy
  <2>2. IInv'
    BY <1>6, <2>1, ZremFacts DEF MarkBusy
  <2>3. Port!MarkBusy(d)
    BY <1>6 DEF MarkBusy, Port!MarkBusy
  <2> QED BY <2>1, <2>2, <2>3 DEF Port!PortNext
<1>7. CASE ListAvailable
  <2>1. /\ call' = Port!Call("listAvailable", {}, available)
        /\ call' \in Port!Calls
    BY <1>7, CallTyped DEF ListAvailable
  <2>2. IInv'
    BY <1>7, <2>1 DEF ListAvailable, keys
  <2>3. Port!PortNext
    BY <1>7, <2>1 DEF ListAvailable, keys, Port!PortNext, Port!poolVars, Port!Free
  <2> QED BY <2>2, <2>3
<1>8. CASE Tick
  <2>1. now' \in 0..MaxTime
    BY <1>8 DEF Tick
  <2> QED BY <1>8, <2>1 DEF Tick, keys, Port!portVars
<1>9. CASE UNCHANGED vars
  BY <1>9 DEF vars, Port!portVars
<1> HIDE DEF IInv
<1> QED
  BY <1>1, <1>2, <1>3, <1>4, <1>5, <1>6, <1>7, <1>8, <1>9 DEF Next

LEMMA PoolInitially == Init => IInv /\ Port!PortInit
  BY TimeAssumption
     DEF Init, IInv, TypeOK, QueueIsFreeDrivers, available, Port!PortInit, Port!PoolInit,
         Port!Calls, Port!Call, Port!Operations

(* Types of the Redis keys.                                                *)
THEOREM RedisPoolTypes == Spec => []TypeOK
<1>1. Spec => []IInv
  BY PoolInitially, PoolStep, PTL DEF Spec
<1> QED BY <1>1, PTL DEF IInv

(* The queue holds exactly the drivers that are willing and not busy: none *)
(* is lost, and none is both queued and busy (README.md:59-62).            *)
THEOREM RedisQueueIsFreeDrivers == Spec => []QueueIsFreeDrivers
<1>1. Spec => []IInv
  BY PoolInitially, PoolStep, PTL DEF Spec
<1> QED BY <1>1, PTL DEF IInv

(* The Redis keys implement the pool that the port promises: a claim takes *)
(* a driver that is willing and not busy, it answers nobody only if every  *)
(* such driver is excluded, and the drivers listed as available are those  *)
(* drivers (driver-pool.ts:8-20).                                          *)
THEOREM RedisImplementsPort == Spec => ImplementsPort
<1>1. Spec => []IInv
  BY PoolInitially, PoolStep, PTL DEF Spec
<1> QED
  BY <1>1, PoolInitially, PoolStep, PTL DEF Spec, ImplementsPort, Port!PortSpec
=============================================================================
