-------------------------- MODULE RedisDriverPool ---------------------------
(***************************************************************************)
(* The driver pool as RedisDriverPool keeps it                             *)
(* (src/src/infrastructure/redis/redis-driver-pool.ts): the sets WILLING   *)
(* and BUSY and the sorted set AVAILABLE, here the function score whose    *)
(* domain is the set's members.  A Lua script or a MULTI block is atomic,  *)
(* so each is one action.  Every operation may come at any time, for any   *)
(* driver and in any order: late and repeated calls included.              *)
(***************************************************************************)
EXTENDS Naturals

CONSTANTS Drivers,
          MaxTime   \* bound: time stamps

ASSUME TimeAssumption == MaxTime \in Nat

VARIABLES willing, busy,
          score,    \* AVAILABLE: waiting driver -> score
          now,      \* Date.now(), in steps that matter to the order
          call      \* the last call and its answer

keys == <<willing, busy, score>>
vars == <<willing, busy, score, now, call>>

Port == INSTANCE DriverPoolPort

available == DOMAIN score

(* ZADD and ZREM on AVAILABLE.                                             *)
Zadd(d, t) == [e \in available \cup {d} |-> IF e = d THEN t ELSE score[e]]
Zrem(d)    == [e \in available \ {d} |-> score[e]]

TypeOK ==
  /\ willing \subseteq Drivers
  /\ busy \subseteq Drivers
  /\ available \subseteq Drivers
  /\ score \in [available -> 0..MaxTime]
  /\ now \in 0..MaxTime
  /\ call \in Port!Calls

Init ==
  /\ willing = {}
  /\ busy = {}
  /\ score = [d \in {} |-> 0]
  /\ now = 0
  /\ call = Port!Call("none", {}, {})

(* The members ZRANGE may list first among those not excluded; members     *)
(* with one score come in the order of their ids, which nothing fixes.     *)
LongestWaiting(excluded) ==
  {d \in available \ excluded :
     \A e \in available \ excluded : score[d] <= score[e]}

(* CLAIM_NEXT found a driver.                                              *)
ClaimNext(excluded, d) ==
  /\ d \in LongestWaiting(excluded)
  /\ score' = Zrem(d)
  /\ busy' = busy \cup {d}
  /\ call' = Port!Call("claimNext", excluded, {d})
  /\ UNCHANGED <<willing, now>>

(* Mutation: the script gives up when the head of the queue is excluded.   *)
ClaimNoneHeadOnly(excluded) ==
  /\ LongestWaiting({}) \subseteq excluded
  /\ call' = Port!Call("claimNext", excluded, {})
  /\ UNCHANGED <<keys, now>>

(* CLAIM_NEXT found only excluded members, or none.                        *)
ClaimNone(excluded) ==
  /\ available \subseteq excluded
  /\ call' = Port!Call("claimNext", excluded, {})
  /\ UNCHANGED <<keys, now>>

(* Mutation: ZADD without the SISMEMBER check on BUSY.                     *)
OnWillingAlwaysQueued(d, sinceMs) ==
  /\ willing' = willing \cup {d}
  /\ score' = Zadd(d, sinceMs)
  /\ call' = Port!Call("onWilling", {d}, {})
  /\ UNCHANGED <<busy, now>>

(* ON_WILLING; sinceMs is the event's changedAt, now or earlier.           *)
OnWilling(d, sinceMs) ==
  /\ willing' = willing \cup {d}
  /\ score' = IF d \notin busy THEN Zadd(d, sinceMs) ELSE score
  /\ call' = Port!Call("onWilling", {d}, {})
  /\ UNCHANGED <<busy, now>>

OnUnwilling(d) ==
  /\ willing' = willing \ {d}
  /\ score' = Zrem(d)
  /\ call' = Port!Call("onUnwilling", {d}, {})
  /\ UNCHANGED <<busy, now>>

(* Mutation: the score of a freed driver lies in the future.               *)
FreeDriverLater(d) ==
  /\ busy' = busy \ {d}
  /\ score' = IF d \in willing THEN Zadd(d, now + 1) ELSE score
  /\ call' = Port!Call("freeDriver", {d}, {})
  /\ UNCHANGED <<willing, now>>

(* FREE_DRIVER; the score is the time of the call.                         *)
FreeDriver(d) ==
  /\ busy' = busy \ {d}
  /\ score' = IF d \in willing THEN Zadd(d, now) ELSE score
  /\ call' = Port!Call("freeDriver", {d}, {})
  /\ UNCHANGED <<willing, now>>

MarkBusy(d) ==
  /\ score' = Zrem(d)
  /\ busy' = busy \cup {d}
  /\ call' = Port!Call("markBusy", {d}, {})
  /\ UNCHANGED <<willing, now>>

ListAvailable ==
  /\ call' = Port!Call("listAvailable", {}, available)
  /\ UNCHANGED <<keys, now>>

Tick ==
  /\ now < MaxTime
  /\ now' = now + 1
  /\ UNCHANGED <<keys, call>>

Next ==
  \/ \E excluded \in SUBSET Drivers :
       \/ \E d \in Drivers : ClaimNext(excluded, d)
       \/ ClaimNone(excluded)
  \/ \E d \in Drivers, sinceMs \in 0..now : OnWilling(d, sinceMs)
  \/ \E d \in Drivers : OnUnwilling(d) \/ FreeDriver(d) \/ MarkBusy(d)
  \/ ListAvailable
  \/ Tick

Spec == Init /\ [][Next]_vars
-----------------------------------------------------------------------------
(* The three keys agree: the queue holds exactly the willing drivers that  *)
(* are not busy, so no driver is both queued and busy and no free driver   *)
(* is lost, whatever the order of the calls (README.md:59-62).             *)
QueueIsFreeDrivers == available = willing \ busy

(* The Redis keys implement the pool its port promises: every call has the *)
(* effect and the answer the port gives it (driver-pool.ts:8-20).          *)
ImplementsPort == Port!PortSpec
=============================================================================
