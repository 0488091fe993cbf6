------------------------------ MODULE Workshop -------------------------------
(***************************************************************************)
(* The write path of the workshop backend: service orders, assignments,    *)
(* diagnostics, interventions and technician access.                       *)
(*                                                                         *)
(* The state is the database tables the use cases write and, for each      *)
(* goroutine serving a request (a worker), the step it has reached and     *)
(* what it has read so far.  Every database call of a use case is one      *)
(* step: between two of them any other request may run, and any of them    *)
(* may fail (a timeout, a lost connection, the process killed), which      *)
(* abandons the rest of the request and rolls back an open transaction.    *)
(***************************************************************************)
EXTENDS Lifecycle, Naturals, Sequences

CONSTANTS
    Orders,        \* service orders, all checked in
    Technicians,   \* technician profiles, each with a user account of its own
    Workers,       \* request goroutines that may run at the same time
    Admin,         \* the administrator's account
    None,          \* SQL NULL, a free row lock, a request field not in use
    Overlap,       \* whether two requests on the same order may overlap
    Faults,        \* whether a database call may fail
    Ops,           \* bound: the operations clients call
    MaxHistory     \* bound: no order with this many transitions gets another move request

ASSUME NoneAssumption ==
    None \notin Orders \cup Technicians \cup Workers \cup {Admin}
ASSUME AdminAssumption == Admin \notin Technicians
ASSUME SwitchAssumption == Overlap \in BOOLEAN /\ Faults \in BOOLEAN
ASSUME BoundAssumption ==
    /\ MaxHistory \in Nat
    /\ Ops \subseteq {"advance", "record", "register", "assign", "enable", "disable"}

VARIABLES
    status,      \* service_order.status of each order
    history,     \* status_transition rows of each order, in commit order
    assignment,  \* the assignment table
    work,        \* the diagnostic and intervention tables
    isActive,    \* user.is_active of each technician's account
    userLock,    \* which transaction holds each technician's user row FOR UPDATE
    pc,          \* the step each worker is about to take
    req,         \* the request each worker is serving
    seen         \* the order status each worker has read

db == <<status, history, assignment, work, isActive>>
vars == <<db, userLock, pc, req, seen>>

-----------------------------------------------------------------------------
(***************************************************************************)
(* The rows and the requests.                                              *)
(***************************************************************************)

\* A status_transition row.
Transition == [from: Status, to: Status]

\* An assignment row.  `at' is not a column: it records the status the order
\* had when the row was inserted.
Assignment ==
    [order: Orders, technician: Technicians, isActive: BOOLEAN,
     activeMarker: Technicians \cup {None},
     activeOrderMarker: Orders \cup {None}, at: Status]

\* A diagnostic ("record") or intervention ("register") row.  `at' and
\* `owned' are not columns: they record the status of the order and whether
\* the author held it when the row was inserted.
Work ==
    [kind: {"record", "register"}, order: Orders, technician: Technicians,
     at: Status, owned: BOOLEAN]

\* The requests that reach a use case.  The administrator alone passes the
\* handlers of assign and of technician access; anyone may ask for the rest,
\* though an administrator has no technician profile and can record nothing.
Request ==
    [op: {"advance"}, order: Orders, actor: Technicians \cup {Admin},
     technician: {None}, next: Status]
    \cup [op: {"record", "register"}, order: Orders, actor: Technicians,
          technician: {None}, next: {None}]
    \cup [op: {"assign"}, order: Orders, actor: {Admin},
          technician: Technicians, next: {None}]
    \cup [op: {"enable", "disable"}, order: {None}, actor: {Admin},
          technician: Technicians, next: {None}]

Step == {"idle", "findOrder", "checkOwner", "checkAssigned", "updateStatus",
         "saveWork", "release", "checkTechnician", "checkOrder", "lockUser",
         "insert", "updateAccess"}

\* The requests that may move an order, and so write its history.
MovesOrder(r) == r.op \in {"advance", "record", "register"}

\* The status a moving request asks for.
Target(r) ==
    CASE r.op = "advance"  -> r.next
      [] r.op = "record"   -> "IN_DIAGNOSIS"
      [] r.op = "register" -> "IN_REPAIR"

TypeOK ==
    /\ status \in [Orders -> Status]
    /\ history \in [Orders -> Seq(Transition)]
    /\ assignment \subseteq Assignment
    /\ work \subseteq Work
    /\ isActive \in [Technicians -> BOOLEAN]
    /\ userLock \in [Technicians -> Workers \cup {None}]
    /\ pc \in [Workers -> Step]
    /\ req \in [Workers -> Request \cup {None}]
    /\ seen \in [Workers -> Status \cup {None}]

\* Orders freshly checked in, nobody assigned, every account active.
Init ==
    /\ status = [o \in Orders |-> "RECEIVED"]
    /\ history = [o \in Orders |-> <<>>]
    /\ assignment = {}
    /\ work = {}
    /\ isActive = [t \in Technicians |-> TRUE]
    /\ userLock = [t \in Technicians |-> None]
    /\ pc = [w \in Workers |-> "idle"]
    /\ req = [w \in Workers |-> None]
    /\ seen = [w \in Workers |-> None]

-----------------------------------------------------------------------------
(***************************************************************************)
(* Steps of a request.                                                     *)
(***************************************************************************)

\* The active assignment of an order, read by FindActiveByServiceOrder.
Holds(o, t) ==
    \E a \in assignment : a.isActive /\ a.order = o /\ a.technician = t
IsAssigned(o) == \E t \in Technicians : Holds(o, t)

\* The worker goes on with its request.
Goto(w, step) == pc' = [pc EXCEPT ![w] = step] /\ UNCHANGED req

\* A transaction left open when the request is answered (a mutant).
FinishKeepingLock(w) ==
    /\ pc' = [pc EXCEPT ![w] = "idle"]
    /\ req' = [req EXCEPT ![w] = None]
    /\ seen' = [seen EXCEPT ![w] = None]
    /\ UNCHANGED userLock

\* The worker answers, whatever the answer is; its deferred rollback gives
\* back the row lock it may hold.
Finish(w) ==
    /\ pc' = [pc EXCEPT ![w] = "idle"]
    /\ req' = [req EXCEPT ![w] = None]
    /\ seen' = [seen EXCEPT ![w] = None]
    /\ userLock' = [t \in Technicians |->
                        IF userLock[t] = w THEN None ELSE userLock[t]]

\* The first database call of each use case.
FirstStep(op) ==
    CASE op = "advance" -> "findOrder"
      [] op \in {"record", "register"} -> "checkOwner"
      [] op = "assign" -> "checkTechnician"
      [] op \in {"enable", "disable"} -> "lockUser"

\* authMiddleware: the caller's account is read and must be active.  A
\* refused request changes nothing and is not a step.
Accept(w) ==
    /\ pc[w] = "idle"
    /\ \E r \in Request :
        /\ r.op \in Ops
        /\ r.actor \in Technicians => isActive[r.actor]
        /\ MovesOrder(r) => Len(history[r.order]) < MaxHistory
        /\ Overlap \/ r.order = None
             \/ \A v \in Workers : pc[v] # "idle" => req[v].order # r.order
        /\ req' = [req EXCEPT ![w] = r]
        /\ pc' = [pc EXCEPT ![w] = FirstStep(r.op)]
    /\ UNCHANGED <<db, userLock, seen>>

\* The status check of Record and Register left out (a mutant).
AdmissibleAlways(r, s) == TRUE

\* What remains of a moving request once it may act on the order.
Admissible(r, s) ==
    /\ r.op = "record" => CanAddDiagnostic(s)
    /\ r.op = "register" => CanAddIntervention(s)
NeedsMove(r, s) == r.op = "advance" \/ CanMoveTo(s, Target(r))

\* The next call of an Advance whose caller may move the order: the check
\* that an operational status has a technician, if one is asked for.
AfterOwner(r) == IF IsOperational(r.next) THEN "checkAssigned" ELSE "updateStatus"

\* A diagnostic saved first and the order moved afterwards (a mutant).
FindOrderSavingFirst(w) ==
    /\ pc[w] = "findOrder"
    /\ seen' = [seen EXCEPT ![w] = status[req[w].order]]
    /\ Goto(w, IF req[w].op = "advance" THEN AfterOwner(req[w]) ELSE "saveWork")
    /\ UNCHANGED <<db, userLock>>

\* order.FindByID: the status every later decision of the request rests on.
FindOrder(w) ==
    /\ pc[w] = "findOrder"
    /\ LET r == req[w]
           s == status[r.order]
       IN  \/ /\ r.op = "advance"
              /\ seen' = [seen EXCEPT ![w] = s]
              /\ Goto(w, IF r.actor = Admin THEN AfterOwner(r) ELSE "checkOwner")
              /\ UNCHANGED userLock
           \/ /\ r.op # "advance"
              /\ Admissible(r, s)
              /\ seen' = [seen EXCEPT ![w] = s]
              /\ Goto(w, IF NeedsMove(r, s) THEN "updateStatus" ELSE "saveWork")
              /\ UNCHANGED userLock
           \/ /\ r.op # "advance"
              /\ ~ Admissible(r, s)
              /\ Finish(w)
    /\ UNCHANGED db

\* The ownership rule left out (a mutant).
CheckOwnerOfNothing(w) ==
    /\ pc[w] = "checkOwner"
    /\ Goto(w, IF req[w].op = "advance" THEN AfterOwner(req[w]) ELSE "findOrder")
    /\ UNCHANGED <<db, userLock, seen>>

\* FindActiveByServiceOrder: the calling technician must hold the order.
CheckOwner(w) ==
    /\ pc[w] = "checkOwner"
    /\ LET r == req[w] IN
        \/ /\ Holds(r.order, r.actor)
           /\ Goto(w, IF r.op = "advance" THEN AfterOwner(r) ELSE "findOrder")
           /\ UNCHANGED <<userLock, seen>>
        \/ /\ ~ Holds(r.order, r.actor)
           /\ Finish(w)
    /\ UNCHANGED db

\* The technician requirement of an operational status left out (a mutant).
CheckAssignedAnyway(w) ==
    /\ pc[w] = "checkAssigned"
    /\ Goto(w, "updateStatus")
    /\ UNCHANGED <<db, userLock, seen>>

\* FindActiveByServiceOrder again: an order enters an operational status only
\* while somebody holds it.
CheckAssigned(w) ==
    /\ pc[w] = "checkAssigned"
    /\ \/ /\ IsAssigned(req[w].order)
          /\ Goto(w, "updateStatus")
          /\ UNCHANGED <<userLock, seen>>
       \/ /\ ~ IsAssigned(req[w].order)
          /\ Finish(w)
    /\ UNCHANGED db

\* The delivery written and its release forgotten (a mutant).
AfterUpdateNoRelease(r) == IF r.op = "advance" THEN "answer" ELSE "saveWork"

\* The technician released as soon as the vehicle is ready (a mutant).
AfterUpdateReleaseAtReady(r) ==
    CASE r.op # "advance" -> "saveWork"
      [] r.op = "advance" /\ r.next \in {"READY", "DELIVERED"} -> "release"
      [] OTHER -> "answer"

\* The call after the status was written.
AfterUpdate(r) ==
    CASE r.op # "advance" -> "saveWork"
      [] r.op = "advance" /\ r.next = "DELIVERED" -> "release"
      [] OTHER -> "answer"

\* The status written without its transition row (a mutant).
UpdateStatusOnly(w) ==
    /\ pc[w] = "updateStatus"
    /\ CanMoveTo(seen[w], Target(req[w]))
    /\ status' = [status EXCEPT ![req[w].order] = Target(req[w])]
    /\ Finish(w)
    /\ UNCHANGED <<history, assignment, work, isActive>>

\* The move stored without asking the lifecycle (a mutant).
UpdateStatusUnchecked(w) ==
    /\ pc[w] = "updateStatus"
    /\ LET r == req[w] IN
        /\ status' = [status EXCEPT ![r.order] = Target(r)]
        /\ history' = [history EXCEPT ![r.order] =
                        Append(@, [from |-> seen[w], to |-> Target(r)])]
    /\ Finish(w)
    /\ UNCHANGED <<assignment, work, isActive>>

\* MoveTo on the order as it was read, then one transaction that overwrites
\* the status, whatever it is by now, and appends the transition row.
UpdateStatus(w) ==
    /\ pc[w] = "updateStatus"
    /\ LET r == req[w] IN
        \/ /\ CanMoveTo(seen[w], Target(r))
           /\ status' = [status EXCEPT ![r.order] = Target(r)]
           /\ history' = [history EXCEPT ![r.order] =
                            Append(@, [from |-> seen[w], to |-> Target(r)])]
           /\ IF AfterUpdate(r) = "answer"
              THEN Finish(w)
              ELSE Goto(w, AfterUpdate(r)) /\ UNCHANGED <<userLock, seen>>
        \/ /\ ~ CanMoveTo(seen[w], Target(r))
           /\ Finish(w)
           /\ UNCHANGED <<status, history>>
    /\ UNCHANGED <<assignment, work, isActive>>

\* The author taken from the payload, which has none (a mutant).
SaveWorkOfNobody(w) ==
    /\ pc[w] = "saveWork"
    /\ work' = work \cup
            {[kind |-> req[w].op, order |-> req[w].order,
              technician |-> req[w].technician,
              at |-> status[req[w].order], owned |-> TRUE]}
    /\ Finish(w)
    /\ UNCHANGED <<status, history, assignment, isActive>>

\* The diagnostic or the intervention is inserted.
SaveWork(w) ==
    /\ pc[w] = "saveWork"
    /\ LET r == req[w] IN
        work' = work \cup
            {[kind |-> r.op, order |-> r.order, technician |-> r.actor,
              at |-> status[r.order], owned |-> Holds(r.order, r.actor)]}
    /\ Finish(w)
    /\ UNCHANGED <<status, history, assignment, isActive>>

\* The release of an assignment row: both markers go back to NULL with it.
Released(a) ==
    [a EXCEPT !.isActive = FALSE, !.activeMarker = None, !.activeOrderMarker = None]

\* ReleaseByServiceOrder: a statement of its own, after the status is written.
Release(w) ==
    /\ pc[w] = "release"
    /\ assignment' =
        {IF a.isActive /\ a.order = req[w].order THEN Released(a) ELSE a : a \in assignment}
    /\ Finish(w)
    /\ UNCHANGED <<status, history, work, isActive>>

\* Assign reads first that the technician holds no order ...
CheckTechnician(w) ==
    /\ pc[w] = "checkTechnician"
    /\ \/ /\ \A o \in Orders : ~ Holds(o, req[w].technician)
          /\ Goto(w, "checkOrder")
          /\ UNCHANGED <<userLock, seen>>
       \/ /\ \E o \in Orders : Holds(o, req[w].technician)
          /\ Finish(w)
    /\ UNCHANGED db

\* ... then that the order has no technician.  (When the one it has is the one
\* asked for, the existing assignment is the answer.)
CheckOrder(w) ==
    /\ pc[w] = "checkOrder"
    /\ \/ /\ ~ IsAssigned(req[w].order)
          /\ Goto(w, "lockUser")
          /\ UNCHANGED <<userLock, seen>>
       \/ /\ IsAssigned(req[w].order)
          /\ Finish(w)
    /\ UNCHANGED db

\* A locking read without FOR UPDATE (a mutant).
LockUserUnlocked(w) ==
    /\ pc[w] = "lockUser"
    /\ req[w].op = "assign" => isActive[req[w].technician]
    /\ Goto(w, IF req[w].op = "assign" THEN "insert" ELSE "updateAccess")
    /\ UNCHANGED <<db, seen, userLock>>

\* AssignWithLock and UpdateAccessWithLock both begin by locking the user row
\* of the technician; an assignment to an inactive account is given up there.
LockUser(w) ==
    /\ pc[w] = "lockUser"
    /\ LET r == req[w] IN
        /\ userLock[r.technician] = None
        /\ \/ /\ r.op = "assign" => isActive[r.technician]
              /\ userLock' = [userLock EXCEPT ![r.technician] = w]
              /\ Goto(w, IF r.op = "assign" THEN "insert" ELSE "updateAccess")
              /\ UNCHANGED seen
           \/ /\ r.op = "assign" /\ ~ isActive[r.technician]
              /\ Finish(w)
    /\ UNCHANGED db

\* An active assignment row carries both markers.
NewAssignment(o, t) ==
    [order |-> o, technician |-> t, isActive |-> TRUE,
     activeMarker |-> t, activeOrderMarker |-> o, at |-> status[o]]

\* The unique keys of the assignment table.
MarkerTaken(o, t) ==
    \E a \in assignment : a.activeMarker = t \/ a.activeOrderMarker = o

\* Unique on the technician alone, as before the order marker (a mutant).
InsertTechnicianKeyOnly(w) ==
    /\ pc[w] = "insert"
    /\ LET r == req[w] IN
        /\ \A a \in assignment : a.activeMarker # r.technician
        /\ assignment' = assignment \cup {NewAssignment(r.order, r.technician)}
    /\ Finish(w)
    /\ UNCHANGED <<status, history, work, isActive>>

\* INSERT and COMMIT of the assignment: a marker already present is a conflict.
Insert(w) ==
    /\ pc[w] = "insert"
    /\ LET r == req[w] IN
        \/ /\ ~ MarkerTaken(r.order, r.technician)
           /\ assignment' = assignment \cup {NewAssignment(r.order, r.technician)}
        \/ /\ MarkerTaken(r.order, r.technician)
           /\ UNCHANGED assignment
    /\ Finish(w)
    /\ UNCHANGED <<status, history, work, isActive>>

\* UPDATE user SET is_active and COMMIT, under the row lock.
UpdateAccess(w) ==
    /\ pc[w] = "updateAccess"
    /\ isActive' = [isActive EXCEPT ![req[w].technician] = (req[w].op = "enable")]
    /\ Finish(w)
    /\ UNCHANGED <<status, history, assignment, work>>

\* The call in hand fails: the request is over where it stands.
Fail(w) ==
    /\ Faults
    /\ pc[w] # "idle"
    /\ Finish(w)
    /\ UNCHANGED db

-----------------------------------------------------------------------------
\* The steps that carry an accepted request to its answer.
Serve(w) ==
    \/ FindOrder(w) \/ CheckOwner(w) \/ CheckAssigned(w) \/ UpdateStatus(w)
    \/ SaveWork(w) \/ Release(w) \/ CheckTechnician(w) \/ CheckOrder(w)
    \/ LockUser(w) \/ Insert(w) \/ UpdateAccess(w)

Next == \E w \in Workers : Accept(w) \/ Serve(w) \/ Fail(w)

Spec == Init /\ [][Next]_vars

-----------------------------------------------------------------------------
(***************************************************************************)
(* What survives any interleaving and any failure.                         *)
(***************************************************************************)

\* An active assignment is alone: no other active row has its technician or
\* its order, however many Assign requests pass the two reads together
\* (assignment.go: "not even under a concurrent retry").
SingleWorkload ==
    \A a, b \in assignment :
        /\ a.isActive /\ b.isActive
        /\ a.technician = b.technician \/ a.order = b.order
        => a = b

\* The last transition row of an order ends in the status the order has, even
\* after a stale write (UpdateStatus: "so the history can never disagree with
\* the order").
StatusMatchesHistory ==
    \A o \in Orders :
        status[o] = IF history[o] = <<>> THEN "RECEIVED"
                    ELSE history[o][Len(history[o])].to

\* The order has once been moved to status s.
HasEntered(o, s) == \E i \in 1..Len(history[o]) : history[o][i].to = s

\* A diagnostic on file means the order once entered IN_DIAGNOSIS, and an
\* intervention that it once entered IN_REPAIR: Record and Register move the
\* order before they insert, and a failure in between leaves no row behind.
WorkBackedByHistory ==
    \A k \in work :
        HasEntered(k.order, IF k.kind = "record" THEN "IN_DIAGNOSIS" ELSE "IN_REPAIR")

\* No order leaves RECEIVED before it was given to somebody: every way out of
\* RECEIVED looks for an active assignment first.
MovedOnlyAfterAssigned ==
    \A o \in Orders : history[o] # <<>> => \E a \in assignment : a.order = o

\* A technician loses an order only once its delivery is in the history:
\* nothing else releases an assignment, not even a request that fails.
ReleasedOnlyAfterDelivery ==
    [][\A a \in assignment :
        a.isActive /\ a \notin assignment' => HasEntered(a.order, "DELIVERED")]_vars

\* An order is never given to a technician whose access is withdrawn at the
\* moment of the commit, although the account is read one call earlier
\* (AssignWithLock and UpdateAccessWithLock lock the same user row).
AssignedOnlyWhileActive ==
    [][\A a \in assignment' \ assignment : a.isActive => isActive[a.technician]]_vars

(***************************************************************************)
(* What holds as long as requests on one order do not overlap, whatever    *)
(* fails and whatever happens to other orders.                             *)
(***************************************************************************)

\* The history of an order is a walk along the lifecycle from RECEIVED: each
\* row starts where the row before it ended and makes a move of the table.
\* With it, a delivered order is never moved again.
HistoryIsLifecycle ==
    \A o \in Orders : \A i \in 1..Len(history[o]) :
        /\ history[o][i].from = IF i = 1 THEN "RECEIVED" ELSE history[o][i-1].to
        /\ CanMoveTo(history[o][i].from, history[o][i].to)

\* Nothing is diagnosed or repaired on an order already delivered.
NoWorkAfterDelivery == \A k \in work : k.at # "DELIVERED"

\* Every diagnostic and intervention is by the technician who held the order
\* when it was stored.
WorkByHolder == \A k \in work : k.owned

(***************************************************************************)
(* Liveness, when no call fails.                                           *)
(***************************************************************************)

\* Every request is answered, the ones that wait for a row lock included.
RequestsFinish == \A w \in Workers : pc[w] # "idle" ~> pc[w] = "idle"

\* Whoever was given an order before its delivery loses it some time after,
\* with any interleaving of stale writes (Advance: "Reaching DELIVERED releases
\* the technician who held the order").
DeliveryFreesTechnician ==
    \A o \in Orders, t \in Technicians :
        status[o] = "DELIVERED"
          /\ (\E a \in assignment : a.isActive /\ a.order = o /\ a.technician = t
                                     /\ a.at # "DELIVERED")
        ~> ~ Holds(o, t)

(***************************************************************************)
(* What the repository says and the code does not keep.                    *)
(***************************************************************************)

\* With no request in flight, nobody still holds a delivered order that was
\* assigned to them before its delivery (Advance: "Reaching DELIVERED releases
\* the technician who held the order").
DeliveredHoldsNobody ==
    (\A w \in Workers : pc[w] = "idle") =>
        \A o \in Orders : status[o] = "DELIVERED" =>
            ~ \E a \in assignment : a.isActive /\ a.order = o /\ a.at # "DELIVERED"

\* No order is given to a technician after its delivery (CanAssignTechnician:
\* "Only allowed if status is not DELIVERED").
NeverAssignedWhenDelivered == \A a \in assignment : a.at # "DELIVERED"

\* An order in IN_REPAIR has a diagnostic on file (INV-05 of
\* 02-domain/entities-and-rules.md).
RepairIsDiagnosed ==
    \A o \in Orders : status[o] = "IN_REPAIR" =>
        \E k \in work : k.kind = "record" /\ k.order = o
=============================================================================
