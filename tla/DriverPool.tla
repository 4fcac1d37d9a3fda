----------------------------- MODULE DriverPool -----------------------------
(***************************************************************************)
(* The driver pool as its port promises it                                 *)
(* (src/src/application/ports/driver-pool.ts): a driver is willing or not, *)
(* busy or not, and free to be claimed exactly when willing and not busy.  *)
(* Each operation is one atomic step.  Which of the free drivers a claim   *)
(* takes is left open here; RedisDriverPool.tla decides it by score.       *)
(***************************************************************************)
CONSTANT Drivers

VARIABLES willing,  \* drivers that said they take offers
          busy      \* drivers on an offer or on a delivery

poolVars == <<willing, busy>>

Free == willing \ busy

PoolTypeOK == willing \subseteq Drivers /\ busy \subseteq Drivers

PoolInit == willing = {} /\ busy = {}

(* Mutation: the claimed driver is not marked busy.                        *)
ClaimNextStaysFree(excluded, d) ==
  /\ d \in Free \ excluded
  /\ UNCHANGED poolVars

(* claimNext(excluded) = d                                                 *)
ClaimNext(excluded, d) ==
  /\ d \in Free \ excluded
  /\ busy' = busy \cup {d}
  /\ UNCHANGED willing

(* claimNext(excluded) = null: nobody is eligible.                         *)
ClaimNone(excluded) ==
  /\ Free \subseteq excluded
  /\ UNCHANGED poolVars

OnWilling(d) == willing' = willing \cup {d} /\ UNCHANGED busy

OnUnwilling(d) == willing' = willing \ {d} /\ UNCHANGED busy

(* Mutation: a freed driver is put back although it withdrew meanwhile.    *)
FreeDriverBackInPool(d) == busy' = busy \ {d} /\ willing' = willing \cup {d}

FreeDriver(d) == busy' = busy \ {d} /\ UNCHANGED willing

MarkBusy(d) == busy' = busy \cup {d} /\ UNCHANGED willing
=============================================================================
