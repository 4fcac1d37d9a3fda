----------------------------- MODULE MCDispatch -----------------------------
(* Small instances of Dispatch for TLC; the configurations differ in the   *)
(* number of handlers, faults and crashes they allow.                      *)
EXTENDS DispatchProperties, TLC

SlotsAndOrders == Permutations(Slots) \cup Permutations(Orders)
===========================================================================
