--------------------------- MODULE DriverPoolPort ---------------------------
(***************************************************************************)
(* The driver pool as its callers see it: the operations of DriverPool     *)
(* with what they were asked and what they answered.  A claim answers with *)
(* some free driver that is not excluded, and with nobody only when there  *)
(* is none; the list of available drivers is the list of the free ones.    *)
(***************************************************************************)
EXTENDS DriverPool

VARIABLE call   \* the last call: operation, drivers it names, answer

portVars == <<willing, busy, call>>

Call(op, asked, answer) == [op |-> op, asked |-> asked, answer |-> answer]

Operations == {"none", "claimNext", "onWilling", "onUnwilling", "freeDriver",
               "markBusy", "listAvailable"}

Calls == [op: Operations, asked: SUBSET Drivers, answer: SUBSET Drivers]

PortInit == PoolInit /\ call = Call("none", {}, {})

PortNext ==
  \/ \E excluded \in SUBSET Drivers :
       \/ \E d \in Drivers : /\ ClaimNext(excluded, d)
                             /\ call' = Call("claimNext", excluded, {d})
       \/ /\ ClaimNone(excluded)
          /\ call' = Call("claimNext", excluded, {})
  \/ \E d \in Drivers :
       \/ OnWilling(d)   /\ call' = Call("onWilling", {d}, {})
       \/ OnUnwilling(d) /\ call' = Call("onUnwilling", {d}, {})
       \/ FreeDriver(d)  /\ call' = Call("freeDriver", {d}, {})
       \/ MarkBusy(d)    /\ call' = Call("markBusy", {d}, {})
  \/ UNCHANGED poolVars /\ call' = Call("listAvailable", {}, Free)

PortSpec == PortInit /\ [][PortNext]_portVars
=============================================================================
