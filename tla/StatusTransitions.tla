-------------------------- MODULE StatusTransitions --------------------------
(***************************************************************************)
(* The status graphs every admin handler checks a requested change         *)
(* against (status_transitions.py).  Data only: who locks what, and when   *)
(* the graph is consulted, belongs to the modules of the handlers.         *)
(***************************************************************************)

OrderStatuses == {"new", "accepted", "preparing", "ready_for_delivery",
                  "delivering", "completed", "cancelled"}

ORDER_STATUS_TRANSITIONS ==
  [s \in OrderStatuses |->
     CASE s = "new"                -> {"accepted", "cancelled"}
       [] s = "accepted"           -> {"preparing", "cancelled"}
       [] s = "preparing"          -> {"ready_for_delivery", "cancelled"}
       [] s = "ready_for_delivery" -> {"delivering", "cancelled"}
       [] s = "delivering"         -> {"completed"}
       [] OTHER                    -> {}]

(* 'new' is the name 'requested' had before phase 15: an alias whose       *)
(* successors are those of 'requested'.                                    *)
ReservationStatuses == {"new", "requested", "confirmed", "seated",
                        "completed", "cancelled", "no_show"}

RESERVATION_STATUS_TRANSITIONS ==
  [s \in ReservationStatuses |->
     CASE s \in {"new", "requested"} -> {"confirmed", "cancelled"}
       [] s = "confirmed" -> {"seated", "completed", "cancelled", "no_show"}
       [] s = "seated"    -> {"completed"}
       [] OTHER           -> {}]

WaiterCallStatuses == {"active", "accepted", "completed", "cancelled"}

WAITER_CALL_STATUS_TRANSITIONS ==
  [s \in WaiterCallStatuses |->
     CASE s = "active"   -> {"accepted", "cancelled"}
       [] s = "accepted" -> {"completed", "cancelled"}
       [] OTHER          -> {}]
=============================================================================
