------------------------------ MODULE Lifecycle ------------------------------
(***************************************************************************)
(* The service order lifecycle of backend/internal/domain/service_order.go *)
(* as constant operators: the transition table, the moves it allows and    *)
(* what may be attached to an order in each status.                        *)
(***************************************************************************)

\* The statuses a service order row may hold.
Status == {"RECEIVED", "IN_DIAGNOSIS", "IN_REPAIR", "READY", "DELIVERED"}

\* The single table of the lifecycle: from a status to those it may move to.
allowedTransition ==
    [s \in Status |->
        CASE s = "RECEIVED"     -> {"IN_DIAGNOSIS"}
          [] s = "IN_DIAGNOSIS" -> {"IN_REPAIR"}
          [] s = "IN_REPAIR"    -> {"READY"}
          [] s = "READY"        -> {"DELIVERED"}
          [] s = "DELIVERED"    -> {}]

\* Whether the lifecycle lets an order in status s move to status next.
CanMoveTo(s, next) == next \in allowedTransition[s]

\* A diagnostic may be attached before the repair starts.
CanAddDiagnostic(s) == s \in {"RECEIVED", "IN_DIAGNOSIS"}

\* An intervention may be attached while the vehicle is being worked on.
CanAddIntervention(s) == s \in {"IN_DIAGNOSIS", "IN_REPAIR"}

\* A technician may be assigned until the order is delivered.
CanAssignTechnician(s) == s # "DELIVERED"

\* The statuses Advance refuses to enter without an assigned technician.
IsOperational(s) == s \in {"IN_DIAGNOSIS", "IN_REPAIR"}
=============================================================================
