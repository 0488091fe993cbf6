------------------------------- MODULE Readings ------------------------------
(***************************************************************************)
(* What the screens read over the write path: the dashboard, the order     *)
(* list, the detail of an order, its transitions, the technicians.         *)
(*                                                                         *)
(* An answer that takes several queries has no snapshot of its own: the    *)
(* requests of Workshop run between them.  Orders are checked in while the *)
(* readings go on, and the moves of an order carry the second their        *)
(* request read from the clock before it wrote.                            *)
(***************************************************************************)
EXTENDS Workshop

CONSTANT MaxClock   \* bound: the seconds that pass

ASSUME ClockAssumption == MaxClock \in Nat

VARIABLES
    opened,    \* the orders checked in so far
    clock,     \* the second it is
    since,     \* the earliest second each mover can have read
    movedAt,   \* status_transition.changed_at of each order's history
    reader     \* the reading under way, or its answer

readVars == <<vars, opened, clock, since, movedAt, reader>>

-----------------------------------------------------------------------------
(***************************************************************************)
(* The queries.                                                            *)
(***************************************************************************)

\* workloadSelect: the rows of a technician, one for each active assignment.
WorkloadRows(t) ==
    LET held == {o \in Orders : Holds(o, t)}
    IN  IF held = {}
        THEN {[technician |-> t, isActive |-> isActive[t], order |-> None, busy |-> FALSE]}
        ELSE {[technician |-> t, isActive |-> isActive[t], order |-> o,
               busy |-> IsOperational(status[o])] : o \in held}

ListWorkload == UNION {WorkloadRows(t) : t \in Technicians}

CanReceiveAssignment(row) == row.isActive /\ ~ row.busy

\* The technicians an order was given to, still or once.  assigned_at is not
\* kept: the latest of several released assignments may be any of them.
EverGiven(o) == {t \in Technicians : \E a \in assignment : a.order = o /\ a.technician = t}

\* serviceOrderSummarySelect: the technician named with an order, the active
\* one before all others.
TechnicianNamed(o) ==
    CASE IsAssigned(o) -> {t \in Technicians : Holds(o, t)}
      [] ~ IsAssigned(o) /\ EverGiven(o) # {} -> EverGiven(o)
      [] OTHER -> {None}

\* The list without its first sort key (a mutant of the list below).
ListTransitionById(o) ==
    {rows \in [1..Len(history[o]) -> 1..Len(history[o])] :
        \A i, j \in 1..Len(history[o]) : rows[i] = rows[j] => i = j}

\* ORDER BY changed_at, id: the moves by their seconds, those of one second by
\* their random identifiers.  A row stands for its place in the history.
ListTransition(o) ==
    {rows \in [1..Len(history[o]) -> 1..Len(history[o])] :
        /\ \A i, j \in 1..Len(history[o]) : rows[i] = rows[j] => i = j
        /\ \A i, j \in 1..Len(history[o]) : i < j => movedAt[o][rows[i]] <= movedAt[o][rows[j]]}

-----------------------------------------------------------------------------
(***************************************************************************)
(* The writes go on.                                                       *)
(***************************************************************************)

Idle == [step |-> "idle"]

\* An answer is looked at in the state it is given in; the readings that are
\* still under way go on beside the writes.
Look == reader' = IF reader.step \in {"counted", "latest", "workload", "assigned"}
                  THEN reader ELSE Idle

ReadInit ==
    /\ Init
    /\ opened = {}
    /\ clock = 0
    /\ since = [w \in Workers |-> 0]
    /\ movedAt = [o \in Orders |-> <<>>]
    /\ reader = Idle

\* A vehicle is checked in; its order is there for everybody to see.
Open(o) ==
    /\ o \notin opened
    /\ opened' = opened \cup {o}
    /\ Look
    /\ UNCHANGED <<vars, clock, since, movedAt>>

AcceptOpened(w) ==
    /\ Accept(w)
    /\ req'[w].order \in opened \cup {None}
    /\ Look
    /\ UNCHANGED <<opened, clock, since, movedAt>>

\* MoveTo reads the clock between the last read of the request and its write.
Timed(w) ==
    /\ Serve(w) \/ Fail(w)
    /\ since' = [since EXCEPT ![w] = IF pc'[w] = "updateStatus" THEN clock ELSE 0]
    /\ \E moment \in since[w]..clock :
        movedAt' = [o \in Orders |->
            IF history'[o] = history[o] THEN movedAt[o] ELSE Append(movedAt[o], moment)]
    /\ Look
    /\ UNCHANGED <<opened, clock>>

Tick ==
    /\ clock < MaxClock
    /\ clock' = clock + 1
    /\ Look
    /\ UNCHANGED <<vars, opened, since, movedAt>>

-----------------------------------------------------------------------------
(***************************************************************************)
(* The readings: one at a time, each query a step.                         *)
(***************************************************************************)

Read(answer) == reader' = answer /\ UNCHANGED <<vars, opened, clock, since, movedAt>>

\* The technicians read before the orders are counted (a mutant).
DashboardQueriesSwapped == <<"workload", "count">>

\* The queries of the dashboard in their order.
DashboardQueries == <<"count", "workload">>

\* CountByStatus and ListWorkload, of which the dashboard keeps the busy.  The
\* code keeps how many orders each status has; here it is known which.
Query(q, dashboard) ==
    CASE q = "count" -> [dashboard EXCEPT !.counted = status, !.existed = opened]
      [] q = "workload" -> [dashboard EXCEPT !.busy = {row \in ListWorkload : row.busy}]

CountOrders ==
    /\ reader = Idle
    /\ Read(Query(DashboardQueries[1],
            [step |-> "counted", counted |-> status, existed |-> {}, busy |-> {}]))

Build ==
    /\ reader.step = "counted"
    /\ Read([Query(DashboardQueries[2], reader) EXCEPT !.step = "dashboard"])

\* ServiceOrderRepository.List: one row per order.
List ==
    /\ reader = Idle
    /\ \E named \in [opened -> Technicians \cup {None}] :
        /\ \A o \in opened : named[o] \in TechnicianNamed(o)
        /\ Read([step |-> "list", status |-> status, named |-> named])

ListHistory ==
    /\ reader = Idle
    /\ \E o \in opened : \E rows \in ListTransition(o) :
        Read([step |-> "transitions", order |-> o, rows |-> rows])

\* FindDetail: the active assignment of the order ...
FindActive ==
    /\ reader = Idle
    /\ \E o \in opened :
        \/ \E t \in Technicians :
            /\ Holds(o, t)
            /\ Read([step |-> "workload", order |-> o, responsible |-> t])
        \/ /\ ~ IsAssigned(o)
           /\ Read([step |-> "latest", order |-> o])

\* ... or else the latest one, none when there is none or the query fails ...
FindLatest ==
    /\ reader.step = "latest"
    /\ \E t \in EverGiven(reader.order) \cup {None} :
        /\ t = None => EverGiven(reader.order) = {} \/ Faults
        /\ Read([step |-> "workload", order |-> reader.order, responsible |-> t])

\* ... its technician's name, left blank when the query fails ...
FindName ==
    /\ reader.step = "workload"
    /\ \E name \in {reader.responsible} \cup IF Faults THEN {None} ELSE {} :
        Read([step |-> "assigned", order |-> reader.order, name |-> name])

\* ... and, in the handler, the active assignment once more for its identifier.
FindAssigned ==
    /\ reader.step = "assigned"
    /\ \E id \in Technicians \cup {None} :
        /\ id # None => Holds(reader.order, id)
        /\ id = None => ~ IsAssigned(reader.order) \/ Faults
        /\ Read([step |-> "detail", order |-> reader.order, name |-> reader.name, id |-> id])

\* The second query of the dashboard fails and the reading with it; a reading
\* whose first query fails has not begun, and a detail goes on without the rest.
FailReading ==
    /\ Faults
    /\ reader.step = "counted"
    /\ Read(Idle)

Reading ==
    \/ CountOrders \/ Build \/ List \/ ListHistory
    \/ FindActive \/ FindLatest \/ FindName \/ FindAssigned \/ FailReading

ReadNext ==
    \/ \E o \in Orders : Open(o)
    \/ \E w \in Workers : AcceptOpened(w) \/ Timed(w)
    \/ Tick
    \/ Reading

ReadSpec == ReadInit /\ [][ReadNext]_readVars

-----------------------------------------------------------------------------
(***************************************************************************)
(* What the answers show, when requests on one order do not overlap.       *)
(***************************************************************************)

\* Whoever the dashboard lists as busy is at work on an order that its counts
\* show as open, unless the order was checked in between the two queries
\* (Build: the counts are read before the technicians).
BusyWereCounted ==
    reader.step = "dashboard" =>
        \A row \in reader.busy :
            row.order \in reader.existed => reader.counted[row.order] # "DELIVERED"

\* An order in progress is listed with the name of a technician.
InProgressIsNamed ==
    reader.step = "list" =>
        \A o \in DOMAIN reader.named :
            reader.status[o] \notin {"RECEIVED", "DELIVERED"} => reader.named[o] # None

\* A detail that gives the name of one technician and the identifier of
\* another is of an order delivered while it was read: the name comes from the
\* first read of the assignment, the identifier from a later one.
DetailIsOfOneTechnician ==
    reader.step = "detail" =>
        reader.name = reader.id \/ None \in {reader.name, reader.id}
            \/ HasEntered(reader.order, "DELIVERED")

\* The transitions of an order are listed as they happened, but for those of
\* one second (ListTransition: "oldest first").
ListedAsItHappened ==
    reader.step = "transitions" =>
        \A i, j \in DOMAIN reader.rows :
            i < j /\ reader.rows[i] > reader.rows[j] =>
                movedAt[reader.order][reader.rows[i]] = movedAt[reader.order][reader.rows[j]]

\* Whoever is given an order could receive it, in the terms the technicians are
\* listed with, when the assignment was stored (CanReceiveAssignment and the
\* checks of Assign are computed from different columns).
AssignedOnlyTheEligible ==
    [][\A a \in assignment' \ assignment :
        a.isActive => \A row \in WorkloadRows(a.technician) : CanReceiveAssignment(row)]_readVars
=============================================================================
