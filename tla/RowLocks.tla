------------------------------- MODULE RowLocks ------------------------------
(***************************************************************************)
(* The write path with the row locks InnoDB takes.                         *)
(*                                                                         *)
(* A statement that writes an order locks its row until the transaction    *)
(* ends, and one that inserts a row with foreign keys needs a shared lock  *)
(* on each row it names.  The two transactions of more than one statement  *)
(* can therefore wait for each other: UpdateStatus holds the order and     *)
(* needs its author's user row, AssignWithLock holds the technician's user *)
(* and technician rows and needs the order.  InnoDB ends such a circle by  *)
(* rolling one of them back, and its request is answered with an error.    *)
(*                                                                         *)
(* Every other failure is left to Workshop: here only deadlocks end a      *)
(* request early, so that what they cost can be told.  A victim is one of  *)
(* the calls that may fail there.                                          *)
(*                                                                         *)
(* A statement takes its locks together, and a shared lock is a condition  *)
(* and not a state.  In InnoDB the insert of a diagnostic or an            *)
(* intervention takes the order's first and may wait for the technician's  *)
(* with it in hand.  Whom it keeps waiting is a mover at its first         *)
(* statement, who owns nothing: left out are that mover's delay and, as    *)
(* InnoDB queues requests, the circles through it, in each of which an     *)
(* order has been delivered and is being assigned again.                   *)
(***************************************************************************)
EXTENDS Workshop

ASSUME VictimAssumption == Faults

VARIABLE orderLock   \* which transaction has written each order and is still open

lockVars == <<vars, orderLock>>

LockInit == Init /\ orderLock = [o \in Orders |-> None]

-----------------------------------------------------------------------------
(***************************************************************************)
(* Who waits for whom.                                                     *)
(***************************************************************************)

\* The order a mover has written in its open transaction.
HasWritten(w) == req[w] # None /\ req[w].order # None /\ orderLock[req[w].order] = w

\* The owner of the user and technician rows of an account; nobody ever locks
\* the administrator's.
OwnerOfAccount(u) == IF u \in Technicians THEN userLock[u] ELSE None

\* The transactions whose locks the next statement of w needs.  The conflicts
\* of the two unique markers come before the foreign keys of the insert.
WaitsFor(w) ==
    LET r == req[w]
        owners ==
            CASE pc[w] = "updateStatus" /\ HasWritten(w) -> {OwnerOfAccount(r.actor)}
              [] pc[w] = "updateStatus" /\ ~ HasWritten(w) /\ CanMoveTo(seen[w], Target(r)) ->
                    {orderLock[r.order]}
              [] pc[w] = "saveWork" -> {orderLock[r.order], OwnerOfAccount(r.actor)}
              [] pc[w] = "lockUser" -> {userLock[r.technician]}
              [] pc[w] = "insert" /\ ~ MarkerTaken(r.order, r.technician) ->
                    {orderLock[r.order]}
              [] OTHER -> {}
    IN  owners \ {None}

\* w is part of a circle of transactions that wait for each other.
Deadlocked(w) ==
    \E D \in SUBSET Workers :
        /\ w \in D
        /\ \A v \in D : WaitsFor(v) \cap D # {} /\ \E u \in D : v \in WaitsFor(u)

-----------------------------------------------------------------------------
(***************************************************************************)
(* The steps.                                                              *)
(***************************************************************************)

\* The end of w's transaction, by commit or by rollback.
Unlock(w) ==
    orderLock' = [o \in Orders |-> IF orderLock[o] = w THEN None ELSE orderLock[o]]

\* The status written in a transaction of its own (a mutant).
LockOrderCommitting(w) ==
    /\ pc[w] = "updateStatus"
    /\ CanMoveTo(seen[w], Target(req[w]))
    /\ orderLock[req[w].order] = None
    /\ orderLock' = [orderLock EXCEPT ![req[w].order] = w]
    /\ status' = [status EXCEPT ![req[w].order] = Target(req[w])]
    /\ UNCHANGED <<history, assignment, work, isActive, userLock, pc, req, seen>>

\* The first statement of UpdateStatus, UPDATE service_order.  Nobody else sees
\* the new status before the commit.
LockOrder(w) ==
    /\ pc[w] = "updateStatus"
    /\ CanMoveTo(seen[w], Target(req[w]))
    /\ orderLock[req[w].order] = None
    /\ orderLock' = [orderLock EXCEPT ![req[w].order] = w]
    /\ UNCHANGED vars

\* Its second statement, the insert of the transition row, and the commit.  A
\* move the lifecycle refuses opens no transaction.
Move(w) ==
    /\ pc[w] = "updateStatus"
    /\ HasWritten(w) \/ ~ CanMoveTo(seen[w], Target(req[w]))
    /\ WaitsFor(w) = {}
    /\ UpdateStatus(w)
    /\ Unlock(w)

\* Every other step that locks a row, once nobody else owns it.
Proceed(w) ==
    /\ WaitsFor(w) = {}
    /\ SaveWork(w) \/ LockUser(w) \/ Insert(w)
    /\ UNCHANGED orderLock

\* The steps that lock no row, or no row but the one their transaction owns.
Read(w) ==
    /\ \/ FindOrder(w) \/ CheckOwner(w) \/ CheckAssigned(w)
       \/ CheckTechnician(w) \/ CheckOrder(w) \/ Release(w) \/ UpdateAccess(w)
    /\ UNCHANGED orderLock

\* InnoDB rolls back one transaction of a circle: whichever it takes for the
\* smallest.
Victim(w) ==
    /\ Deadlocked(w)
    /\ Finish(w)
    /\ Unlock(w)
    /\ UNCHANGED db

LockServe(w) == LockOrder(w) \/ Move(w) \/ Proceed(w) \/ Read(w)

LockNext ==
    \E w \in Workers :
        \/ Accept(w) /\ UNCHANGED orderLock
        \/ LockServe(w) \/ Victim(w)

LockSpec == LockInit /\ [][LockNext]_lockVars

\* A goroutine goes on until it answers; a transaction that waits stands in the
\* queue of its row and gets it in the end if the row is ever free; and a circle
\* is looked for whenever somebody starts to wait.
LockFairSpec ==
    /\ LockSpec
    /\ \A w \in Workers : SF_lockVars(LockServe(w))
    /\ WF_lockVars(\E w \in Workers : Victim(w))

-----------------------------------------------------------------------------
(***************************************************************************)
(* Properties.                                                             *)
(***************************************************************************)

\* With its locks and its deadlocks the write path is the one of Workshop, a
\* victim being one more call that fails.
ImplementsWorkshop == Spec

\* A move is part of a deadlock only on an order that was delivered while the
\* move was on its way: whoever moves an order and is not stale holds it, and
\* the assignment of a technician who holds an order never gets as far as to
\* wait for one ("canonical lock order", AssignWithLock).
DeadlockIsStale ==
    \A v, w \in Workers :
        /\ pc[v] = "updateStatus" /\ HasWritten(v)
        /\ w \in WaitsFor(v) /\ WaitsFor(w) # {}
        => HasEntered(req[v].order, "DELIVERED")
=============================================================================
