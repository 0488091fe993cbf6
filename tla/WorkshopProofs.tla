---------------------------- MODULE WorkshopProofs ----------------------------
(***************************************************************************)
(* The invariants of Workshop for every set of orders, technicians and     *)
(* concurrent requests.                                                    *)
(***************************************************************************)
EXTENDS WorkshopRefinement, TLAPS

-----------------------------------------------------------------------------
(***************************************************************************)
(* Requests and the step each of them is at.                               *)
(***************************************************************************)

\* Which request a worker can be serving at each step, and that the status it
\* will move the order from has been read.
StepFitsRequest(w) ==
    LET r == req[w] IN
    /\ pc[w] # "idle" => r \in Request
    /\ pc[w] \in {"findOrder", "checkOwner", "updateStatus"} => MovesOrder(r)
    /\ pc[w] = "checkAssigned" => r.op = "advance"
    /\ pc[w] = "saveWork" => r.op \in {"record", "register"}
    /\ pc[w] = "release" => r.op = "advance" /\ r.next = "DELIVERED"
    /\ pc[w] \in {"checkTechnician", "checkOrder", "insert"} => r.op = "assign"
    /\ pc[w] = "lockUser" => r.op \in {"assign", "enable", "disable"}
    /\ pc[w] = "updateAccess" => r.op \in {"enable", "disable"}
    /\ pc[w] \in {"updateStatus", "checkAssigned"} => seen[w] \in Status
    /\ pc[w] = "checkOwner" /\ r.op = "advance" => seen[w] \in Status

StepsFit == \A w \in Workers : StepFitsRequest(w)

\* The fields a request of each kind carries.
LEMMA RequestFields ==
    ASSUME NEW r \in Request
    PROVE  /\ r.op \in {"advance", "record", "register", "assign", "enable", "disable"}
           /\ MovesOrder(r) =>
                /\ r.order \in Orders /\ r.order # None
                /\ Target(r) \in Status
                /\ r.actor \in Technicians \cup {Admin}
           /\ r.op = "advance" => r.next \in Status
           /\ r.op \in {"record", "register"} => r.actor \in Technicians
           /\ r.op = "assign" => r.order \in Orders /\ r.order # None
           /\ r.op \in {"assign", "enable", "disable"} => r.technician \in Technicians
<1> DEFINE Moving ==
       [op: {"advance"}, order: Orders, actor: Technicians \cup {Admin},
        technician: {None}, next: Status]
       \cup [op: {"record", "register"}, order: Orders, actor: Technicians,
             technician: {None}, next: {None}]
<1>1. CASE r \in Moving
  BY <1>1, NoneAssumption DEF MovesOrder, Target, Status
<1>2. CASE r \in [op: {"assign"}, order: Orders, actor: {Admin},
                 technician: Technicians, next: {None}]
  BY <1>2, NoneAssumption DEF MovesOrder
<1>3. CASE r \in [op: {"enable", "disable"}, order: {None}, actor: {Admin},
                 technician: Technicians, next: {None}]
  BY <1>3 DEF MovesOrder
<1>4. QED
  BY <1>1, <1>2, <1>3 DEF Request

\* A worker that answers leaves the bookkeeping of requests in order.
LEMMA FinishFits ==
    ASSUME TypeOK, StepsFit, NEW w \in Workers, Finish(w)
    PROVE  /\ pc' \in [Workers -> Step]
           /\ req' \in [Workers -> Request \cup {None}]
           /\ seen' \in [Workers -> Status \cup {None}]
           /\ userLock' \in [Technicians -> Workers \cup {None}]
           /\ StepsFit'
<1>1. /\ pc' \in [Workers -> Step]
      /\ req' \in [Workers -> Request \cup {None}]
      /\ seen' \in [Workers -> Status \cup {None}]
      /\ userLock' \in [Technicians -> Workers \cup {None}]
  BY DEF TypeOK, Finish, Step
<1>2. ASSUME NEW v \in Workers
      PROVE  StepFitsRequest(v)'
  <2>1. CASE v = w
    BY <2>1 DEF TypeOK, Finish, StepFitsRequest
  <2>2. CASE v # w
    BY <2>2 DEF TypeOK, Finish, StepFitsRequest, StepsFit, MovesOrder
  <2>3. QED
    BY <2>1, <2>2
<1>3. QED
  BY <1>1, <1>2 DEF StepsFit

\* So does a worker that goes on to a step its request has.
LEMMA GotoFits ==
    ASSUME TypeOK, StepsFit, NEW w \in Workers, NEW step \in Step, Goto(w, step),
           NEW s \in Status \cup {None},
           seen' = [seen EXCEPT ![w] = s],
           StepFitsRequest(w)'
    PROVE  /\ pc' \in [Workers -> Step]
           /\ req' \in [Workers -> Request \cup {None}]
           /\ seen' \in [Workers -> Status \cup {None}]
           /\ StepsFit'
<1>1. /\ pc' \in [Workers -> Step]
      /\ req' \in [Workers -> Request \cup {None}]
      /\ seen' \in [Workers -> Status \cup {None}]
  BY DEF TypeOK, Goto
<1>2. ASSUME NEW v \in Workers, v # w
      PROVE  StepFitsRequest(v)'
  BY <1>2 DEF TypeOK, Goto, StepFitsRequest, StepsFit, MovesOrder
<1>3. QED
  BY <1>1, <1>2 DEF StepsFit

\* The lifecycle table maps statuses to statuses.
LEMMA MovesAreStatuses ==
    \A s, n \in Status : CanMoveTo(s, n) <=>
        <<s, n>> \in {<<"RECEIVED", "IN_DIAGNOSIS">>, <<"IN_DIAGNOSIS", "IN_REPAIR">>,
                      <<"IN_REPAIR", "READY">>, <<"READY", "DELIVERED">>}
  BY DEF CanMoveTo, allowedTransition, Status

-----------------------------------------------------------------------------
(***************************************************************************)
(* Type correctness.                                                       *)
(***************************************************************************)

LEMMA InitFits == Init => TypeOK /\ StepsFit
  BY DEF Init, TypeOK, StepsFit, StepFitsRequest, Status, Step, MovesOrder

LEMMA AcceptFits ==
    ASSUME TypeOK, StepsFit, NEW w \in Workers, Accept(w)
    PROVE  TypeOK' /\ StepsFit'
<1>1. PICK r \in Request :
        /\ req' = [req EXCEPT ![w] = r]
        /\ pc' = [pc EXCEPT ![w] = FirstStep(r.op)]
  BY DEF Accept
<1>2. /\ r.op \in {"advance", "record", "register", "assign", "enable", "disable"}
      /\ FirstStep(r.op) \in Step
      /\ FirstStep(r.op) =
            IF r.op = "advance" THEN "findOrder"
            ELSE IF r.op \in {"record", "register"} THEN "checkOwner"
            ELSE IF r.op = "assign" THEN "checkTechnician" ELSE "lockUser"
  BY RequestFields DEF FirstStep, Step
<1>3. TypeOK'
  BY <1>1, <1>2 DEF TypeOK, Accept, db
<1>4. ASSUME NEW v \in Workers
      PROVE  StepFitsRequest(v)'
  <2>1. CASE v = w
    BY <1>1, <1>2, <2>1 DEF TypeOK, StepFitsRequest, MovesOrder
  <2>2. CASE v # w
    BY <1>1, <2>2 DEF TypeOK, StepFitsRequest, StepsFit, MovesOrder, Accept
  <2>3. QED
    BY <2>1, <2>2
<1>5. QED
  BY <1>3, <1>4 DEF StepsFit

LEMMA FindOrderFits ==
    ASSUME TypeOK, StepsFit, NEW w \in Workers, FindOrder(w)
    PROVE  TypeOK' /\ StepsFit'
<1> DEFINE r == req[w]
           s == status[r.order]
<1>1. /\ r \in Request
      /\ MovesOrder(r)
      /\ r.order \in Orders
      /\ s \in Status
  BY RequestFields DEF FindOrder, StepsFit, StepFitsRequest, TypeOK
<1>2. UNCHANGED <<status, history, assignment, work, isActive>>
  BY DEF FindOrder, db
<1>3. CASE Finish(w)
  BY <1>2, <1>3, FinishFits DEF TypeOK
<1>4. ASSUME r.op = "advance", seen' = [seen EXCEPT ![w] = s],
             Goto(w, IF r.actor = Admin THEN AfterOwner(r) ELSE "checkOwner"),
             UNCHANGED userLock
      PROVE  TypeOK' /\ StepsFit'
  <2> DEFINE step == IF r.actor = Admin THEN AfterOwner(r) ELSE "checkOwner"
  <2>1. step \in {"checkOwner", "checkAssigned", "updateStatus"}
    BY DEF AfterOwner
  <2>2. StepFitsRequest(w)'
    BY <1>1, <1>4, <2>1 DEF Goto, TypeOK, StepFitsRequest, MovesOrder
  <2> HIDE DEF step, r, s
  <2>3. QED
    BY <1>1, <1>2, <1>4, <2>1, <2>2, GotoFits DEF TypeOK, Step, step
<1>5. ASSUME r.op # "advance", seen' = [seen EXCEPT ![w] = s],
             Goto(w, IF NeedsMove(r, s) THEN "updateStatus" ELSE "saveWork"),
             UNCHANGED userLock
      PROVE  TypeOK' /\ StepsFit'
  <2> DEFINE step == IF NeedsMove(r, s) THEN "updateStatus" ELSE "saveWork"
  <2>1. step \in {"updateStatus", "saveWork"}
    OBVIOUS
  <2>2. StepFitsRequest(w)'
    BY <1>1, <1>5, <2>1 DEF Goto, TypeOK, StepFitsRequest, MovesOrder
  <2> HIDE DEF step, r, s
  <2>3. QED
    BY <1>1, <1>2, <1>5, <2>1, <2>2, GotoFits DEF TypeOK, Step, step
<1>6. QED
  BY <1>3, <1>4, <1>5 DEF FindOrder

\* The checks: a worker that passes one goes on with what it has read.
LEMMA CheckFits ==
    ASSUME TypeOK, StepsFit, NEW w \in Workers,
           CheckOwner(w) \/ CheckAssigned(w) \/ CheckTechnician(w) \/ CheckOrder(w)
    PROVE  TypeOK' /\ StepsFit'
<1>1. UNCHANGED <<status, history, assignment, work, isActive>>
  BY DEF CheckOwner, CheckAssigned, CheckTechnician, CheckOrder, db
<1>2. CASE Finish(w)
  BY <1>1, <1>2, FinishFits DEF TypeOK
<1>3. ASSUME NEW step \in Step, Goto(w, step), UNCHANGED <<userLock, seen>>,
             StepFitsRequest(w)'
      PROVE  TypeOK' /\ StepsFit'
  <2>1. seen' = [seen EXCEPT ![w] = seen[w]] /\ seen[w] \in Status \cup {None}
    BY <1>3 DEF TypeOK
  <2>2. QED
    BY <1>1, <1>3, <2>1, GotoFits DEF TypeOK
<1>4. CASE CheckOwner(w) /\ ~ Finish(w)
  <2> DEFINE step == IF req[w].op = "advance" THEN AfterOwner(req[w]) ELSE "findOrder"
  <2>1. Goto(w, step) /\ UNCHANGED <<userLock, seen>> /\ pc[w] = "checkOwner"
    BY <1>4 DEF CheckOwner
  <2>2. /\ step \in {"findOrder", "checkAssigned", "updateStatus"}
        /\ req[w].op = "advance" => step # "findOrder"
        /\ req[w].op # "advance" => step = "findOrder"
    BY DEF AfterOwner
  <2> HIDE DEF step
  <2>3. StepFitsRequest(w)'
    BY <2>1, <2>2 DEF Goto, TypeOK, StepsFit, StepFitsRequest, MovesOrder
  <2>4. step \in Step
    BY <2>2 DEF Step
  <2>5. QED
    BY <1>3, <2>1, <2>3, <2>4
<1>5. CASE CheckAssigned(w) /\ ~ Finish(w)
  <2>1. Goto(w, "updateStatus") /\ UNCHANGED <<userLock, seen>> /\ pc[w] = "checkAssigned"
    BY <1>5 DEF CheckAssigned
  <2>2. StepFitsRequest(w)'
    BY <2>1 DEF Goto, TypeOK, StepsFit, StepFitsRequest, MovesOrder
  <2>3. QED
    BY <1>3, <2>1, <2>2 DEF Step
<1>6. CASE CheckTechnician(w) /\ ~ Finish(w)
  <2>1. Goto(w, "checkOrder") /\ UNCHANGED <<userLock, seen>> /\ pc[w] = "checkTechnician"
    BY <1>6 DEF CheckTechnician
  <2>2. StepFitsRequest(w)'
    BY <2>1 DEF Goto, TypeOK, StepsFit, StepFitsRequest, MovesOrder
  <2>3. QED
    BY <1>3, <2>1, <2>2 DEF Step
<1>7. CASE CheckOrder(w) /\ ~ Finish(w)
  <2>1. Goto(w, "lockUser") /\ UNCHANGED <<userLock, seen>> /\ pc[w] = "checkOrder"
    BY <1>7 DEF CheckOrder
  <2>2. StepFitsRequest(w)'
    BY <2>1 DEF Goto, TypeOK, StepsFit, StepFitsRequest, MovesOrder
  <2>3. QED
    BY <1>3, <2>1, <2>2 DEF Step
<1>8. QED
  BY <1>2, <1>4, <1>5, <1>6, <1>7

LEMMA UpdateStatusFits ==
    ASSUME TypeOK, StepsFit, NEW w \in Workers, UpdateStatus(w)
    PROVE  TypeOK' /\ StepsFit'
<1> DEFINE r == req[w]
<1>1. /\ r \in Request /\ MovesOrder(r) /\ r.order \in Orders
      /\ Target(r) \in Status /\ seen[w] \in Status
      /\ UNCHANGED <<assignment, work, isActive>>
      /\ r.op \in {"advance", "record", "register"}
  BY RequestFields DEF UpdateStatus, StepsFit, StepFitsRequest, MovesOrder
<1>2. status' \in [Orders -> Status] /\ history' \in [Orders -> Seq(Transition)]
  <2>1. CASE UNCHANGED <<status, history>>
    BY <2>1 DEF TypeOK
  <2>2. CASE /\ status' = [status EXCEPT ![r.order] = Target(r)]
             /\ history' = [history EXCEPT ![r.order] =
                                Append(@, [from |-> seen[w], to |-> Target(r)])]
    <3>1. [from |-> seen[w], to |-> Target(r)] \in Transition
      BY <1>1 DEF Transition
    <3>2. Append(history[r.order], [from |-> seen[w], to |-> Target(r)]) \in Seq(Transition)
      BY <1>1, <3>1 DEF TypeOK
    <3> HIDE DEF r
    <3>3. QED
      BY <1>1, <2>2, <3>2 DEF TypeOK
  <2>3. QED
    BY <2>1, <2>2 DEF UpdateStatus
<1>3. CASE Finish(w)
  BY <1>1, <1>2, <1>3, FinishFits DEF TypeOK
<1>4. CASE ~ Finish(w)
  <2>1. /\ pc[w] = "updateStatus"
        /\ AfterUpdate(r) # "answer"
        /\ Goto(w, AfterUpdate(r))
        /\ UNCHANGED <<userLock, seen>>
    BY <1>4 DEF UpdateStatus
  <2>2. /\ AfterUpdate(r) \in {"saveWork", "release"}
        /\ AfterUpdate(r) = "saveWork" => r.op \in {"record", "register"}
        /\ AfterUpdate(r) = "release" => r.op = "advance" /\ r.next = "DELIVERED"
    <3>1. CASE r.op # "advance"
      BY <1>1, <3>1 DEF AfterUpdate
    <3>2. CASE r.op = "advance" /\ r.next = "DELIVERED"
      BY <3>2 DEF AfterUpdate
    <3>3. CASE r.op = "advance" /\ r.next # "DELIVERED"
      BY <2>1, <3>3 DEF AfterUpdate
    <3>4. QED
      BY <3>1, <3>2, <3>3
  <2>3. StepFitsRequest(w)'
    BY <1>1, <2>1, <2>2 DEF Goto, TypeOK, StepsFit, StepFitsRequest, MovesOrder
  <2>4. AfterUpdate(r) \in Step
    BY <2>2 DEF Step
  <2>5. seen' = [seen EXCEPT ![w] = seen[w]]
    BY <2>1 DEF TypeOK
  <2> HIDE DEF r
  <2>6. QED
    BY <1>1, <1>2, <2>1, <2>3, <2>4, <2>5, GotoFits DEF TypeOK
<1>5. QED
  BY <1>3, <1>4

LEMMA LockUserFits ==
    ASSUME TypeOK, StepsFit, NEW w \in Workers, LockUser(w)
    PROVE  TypeOK' /\ StepsFit'
<1> DEFINE r == req[w]
           step == IF r.op = "assign" THEN "insert" ELSE "updateAccess"
<1>1. /\ pc[w] = "lockUser"
      /\ r.op \in {"assign", "enable", "disable"}
      /\ r.technician \in Technicians
      /\ UNCHANGED <<status, history, assignment, work, isActive>>
  BY RequestFields DEF LockUser, StepsFit, StepFitsRequest, db
<1>2. CASE Finish(w)
  BY <1>1, <1>2, FinishFits DEF TypeOK
<1>3. ASSUME userLock' = [userLock EXCEPT ![r.technician] = w],
             Goto(w, step), UNCHANGED seen
      PROVE  TypeOK' /\ StepsFit'
  <2>1. userLock' \in [Technicians -> Workers \cup {None}]
    BY <1>1, <1>3 DEF TypeOK
  <2>2. StepFitsRequest(w)'
    BY <1>1, <1>3 DEF Goto, TypeOK, StepsFit, StepFitsRequest, MovesOrder
  <2>3. step \in Step /\ seen' = [seen EXCEPT ![w] = seen[w]]
    BY <1>3 DEF Step, TypeOK
  <2>4. seen[w] \in Status \cup {None}
    BY DEF TypeOK
  <2> HIDE DEF step
  <2>5. QED
    BY <1>1, <1>3, <2>1, <2>2, <2>3, <2>4, GotoFits DEF TypeOK
<1>4. QED
  BY <1>2, <1>3 DEF LockUser

\* What Release and Insert write.
LEMMA ReleasedRow ==
    ASSUME NEW a \in Assignment
    PROVE  /\ Released(a) \in Assignment
           /\ Released(a).order = a.order
           /\ ~ Released(a).isActive
           /\ Released(a).activeMarker = None
           /\ Released(a).activeOrderMarker = None
  BY DEF Released, Assignment

LEMMA InsertedRow ==
    ASSUME TypeOK, NEW o \in Orders, NEW t \in Technicians
    PROVE  /\ NewAssignment(o, t) \in Assignment
           /\ NewAssignment(o, t).order = o
           /\ NewAssignment(o, t).technician = t
           /\ NewAssignment(o, t).isActive
           /\ NewAssignment(o, t).activeMarker = t
           /\ NewAssignment(o, t).activeOrderMarker = o
  BY DEF NewAssignment, Assignment, TypeOK

\* The steps that write a row and answer.
LEMMA WriteFits ==
    ASSUME TypeOK, StepsFit, NEW w \in Workers,
           SaveWork(w) \/ Release(w) \/ Insert(w) \/ UpdateAccess(w) \/ Fail(w)
    PROVE  TypeOK' /\ StepsFit'
<1> DEFINE r == req[w]
<1>1. Finish(w) /\ UNCHANGED <<status, history>> /\ r \in Request
  BY DEF SaveWork, Release, Insert, UpdateAccess, Fail, db, StepsFit, StepFitsRequest
<1>2. assignment' \subseteq Assignment
  <2>1. CASE UNCHANGED assignment
    BY <2>1 DEF TypeOK
  <2>2. CASE Release(w)
    BY <2>2, ReleasedRow DEF Release, TypeOK
  <2>3. CASE Insert(w) /\ assignment' # assignment
    <3>1. r.op = "assign"
      BY <2>3 DEF Insert, StepsFit, StepFitsRequest
    <3>2. r.order \in Orders /\ r.technician \in Technicians
      BY <1>1, <3>1, RequestFields
    <3>3. assignment' = assignment \cup {NewAssignment(r.order, r.technician)}
      BY <2>3 DEF Insert
    <3> HIDE DEF r
    <3>4. QED
      BY <3>2, <3>3, InsertedRow DEF TypeOK
  <2>4. QED
    BY <2>1, <2>2, <2>3 DEF SaveWork, Release, Insert, UpdateAccess, Fail, db
<1>3. work' \subseteq Work
  <2>1. CASE UNCHANGED work
    BY <2>1 DEF TypeOK
  <2>2. CASE SaveWork(w)
    <3>1. r.op \in {"record", "register"}
      BY <2>2 DEF SaveWork, StepsFit, StepFitsRequest
    <3>2. r.order \in Orders /\ r.actor \in Technicians
      BY <1>1, <3>1, RequestFields DEF MovesOrder
    <3>3. Holds(r.order, r.actor) \in BOOLEAN /\ status[r.order] \in Status
      BY <3>2 DEF Holds, TypeOK
    <3> DEFINE row == [kind |-> r.op, order |-> r.order, technician |-> r.actor,
                       at |-> status[r.order], owned |-> Holds(r.order, r.actor)]
    <3>4. row \in Work
      BY <3>1, <3>2, <3>3 DEF Work
    <3>5. work' = work \cup {row}
      BY <2>2 DEF SaveWork
    <3> HIDE DEF row
    <3>6. QED
      BY <3>4, <3>5 DEF TypeOK
  <2>3. QED
    BY <2>1, <2>2 DEF SaveWork, Release, Insert, UpdateAccess, Fail, db
<1>4. isActive' \in [Technicians -> BOOLEAN]
  BY DEF SaveWork, Release, Insert, UpdateAccess, Fail, db, TypeOK
<1>5. QED
  BY <1>1, <1>2, <1>3, <1>4, FinishFits DEF TypeOK

LEMMA StepKeepsTypes == TypeOK /\ StepsFit /\ [Next]_vars => TypeOK' /\ StepsFit'
<1> SUFFICES ASSUME TypeOK, StepsFit, [Next]_vars
             PROVE  TypeOK' /\ StepsFit'
  OBVIOUS
<1>1. CASE UNCHANGED vars
  BY <1>1 DEF vars, db, TypeOK, StepsFit, StepFitsRequest, MovesOrder
<1>2. ASSUME NEW w \in Workers, Accept(w) \/ Serve(w) \/ Fail(w)
      PROVE  TypeOK' /\ StepsFit'
  BY <1>2, AcceptFits, FindOrderFits, CheckFits, UpdateStatusFits, LockUserFits, WriteFits
     DEF Serve
<1>3. QED
  BY <1>1, <1>2 DEF Next

\* Every table, lock and request keeps its type, and every worker is serving a
\* request its current step belongs to.
THEOREM TypesAndSteps == Spec => [](TypeOK /\ StepsFit)
  BY InitFits, StepKeepsTypes, PTL DEF Spec

-----------------------------------------------------------------------------
(***************************************************************************)
(* One active assignment per technician and per order.                     *)
(***************************************************************************)

\* The CHECK constraints of the assignment table: a row has its markers
\* exactly while it is active.
MarkersMatch ==
    \A a \in assignment :
        IF a.isActive
        THEN a.activeMarker = a.technician /\ a.activeOrderMarker = a.order
        ELSE a.activeMarker = None /\ a.activeOrderMarker = None

\* What an insertion and a release are asked for.
LEMMA InsertWrites ==
    ASSUME StepsFit, NEW w \in Workers, Insert(w)
    PROVE  \/ UNCHANGED assignment
           \/ /\ req[w].order \in Orders /\ req[w].technician \in Technicians
              /\ ~ MarkerTaken(req[w].order, req[w].technician)
              /\ assignment' =
                    assignment \cup {NewAssignment(req[w].order, req[w].technician)}
<1>1. req[w] \in Request /\ req[w].op = "assign"
  BY DEF Insert, StepsFit, StepFitsRequest
<1>2. QED
  BY <1>1, RequestFields DEF Insert

LEMMA OnlyReleaseAndInsert ==
    ASSUME NEW w \in Workers, Accept(w) \/ Serve(w) \/ Fail(w),
           ~ Release(w), ~ Insert(w)
    PROVE  UNCHANGED assignment
  BY DEF Serve, Accept, FindOrder, CheckOwner, CheckAssigned, UpdateStatus, SaveWork,
         CheckTechnician, CheckOrder, LockUser, UpdateAccess, Fail, db

SingleInv == MarkersMatch /\ SingleWorkload

LEMMA StepKeepsSingle ==
    TypeOK /\ StepsFit /\ SingleInv /\ [Next]_vars => SingleInv'
<1> SUFFICES ASSUME TypeOK, StepsFit, SingleInv, [Next]_vars
             PROVE  SingleInv'
  OBVIOUS
<1>1. CASE UNCHANGED assignment
  BY <1>1 DEF SingleInv, MarkersMatch, SingleWorkload
<1>2. ASSUME NEW w \in Workers, Release(w)
      PROVE  SingleInv'
  <2>1. \A a \in assignment' :
            \/ a \in assignment
            \/ ~ a.isActive /\ a.activeMarker = None /\ a.activeOrderMarker = None
    BY <1>2, ReleasedRow DEF Release, TypeOK
  <2>2. QED
    BY <2>1 DEF SingleInv, MarkersMatch, SingleWorkload
<1>3. ASSUME NEW w \in Workers, Insert(w), ~ UNCHANGED assignment
      PROVE  SingleInv'
  <2> DEFINE o == req[w].order
             t == req[w].technician
             n == NewAssignment(o, t)
  <2>1. /\ o \in Orders /\ t \in Technicians
        /\ ~ MarkerTaken(o, t)
        /\ assignment' = assignment \cup {n}
    BY <1>3, InsertWrites
  <2> HIDE DEF o, t
  <2>2. n.isActive /\ n.technician = t /\ n.order = o
        /\ n.activeMarker = t /\ n.activeOrderMarker = o
    BY <2>1, InsertedRow
  <2>3. \A a \in assignment : a.isActive => a.technician # t /\ a.order # o
    BY <2>1 DEF MarkerTaken, SingleInv, MarkersMatch
  <2> HIDE DEF n
  <2>4. MarkersMatch'
    BY <2>1, <2>2 DEF SingleInv, MarkersMatch
  <2>5. SingleWorkload'
    BY <2>1, <2>2, <2>3 DEF SingleInv, SingleWorkload
  <2>6. QED
    BY <2>4, <2>5 DEF SingleInv
<1>4. QED
  BY <1>1, <1>2, <1>3, OnlyReleaseAndInsert DEF Next, vars, db

\* However many Assign requests run together, a technician holds one order and
\* an order has one technician (the unique markers of the assignment table).
THEOREM SingleWorkloadHolds == Spec => []SingleWorkload
<1>1. Init => SingleInv
  BY DEF Init, SingleInv, MarkersMatch, SingleWorkload
<1>2. SingleInv => SingleWorkload
  BY DEF SingleInv
<1>3. QED
  BY <1>1, <1>2, TypesAndSteps, StepKeepsSingle, PTL DEF Spec

-----------------------------------------------------------------------------
(***************************************************************************)
(* The history of an order and its status.                                 *)
(***************************************************************************)

\* UpdateStatus, when the move is legal; every other step leaves both alone.
Moves(w) ==
    /\ pc[w] = "updateStatus"
    /\ req[w] \in Request /\ MovesOrder(req[w]) /\ req[w].order \in Orders
    /\ seen[w] \in Status /\ Target(req[w]) \in Status
    /\ CanMoveTo(seen[w], Target(req[w]))
    /\ status' = [status EXCEPT ![req[w].order] = Target(req[w])]
    /\ history' = [history EXCEPT ![req[w].order] =
                    Append(@, [from |-> seen[w], to |-> Target(req[w])])]

LEMMA OnlyMovesWrite ==
    ASSUME StepsFit, NEW w \in Workers, Accept(w) \/ Serve(w) \/ Fail(w)
    PROVE  UNCHANGED <<status, history>> \/ (UpdateStatus(w) /\ Moves(w))
<1>1. CASE UpdateStatus(w)
  <2>1. /\ pc[w] = "updateStatus" /\ req[w] \in Request /\ MovesOrder(req[w])
        /\ seen[w] \in Status
    BY <1>1 DEF UpdateStatus, StepsFit, StepFitsRequest
  <2>2. QED
    BY <1>1, <2>1, RequestFields DEF UpdateStatus, Moves
<1>2. CASE ~ UpdateStatus(w)
  BY <1>2 DEF Serve, Accept, FindOrder, CheckOwner, CheckAssigned, SaveWork, Release,
              CheckTechnician, CheckOrder, LockUser, Insert, UpdateAccess, Fail, db
<1>3. QED
  BY <1>1, <1>2

\* A move appends one row and keeps the rows before it.
LEMMA MoveAppends ==
    ASSUME TypeOK, NEW w \in Workers, Moves(w), NEW o \in Orders
    PROVE  /\ o # req[w].order => history'[o] = history[o] /\ status'[o] = status[o]
           /\ o = req[w].order =>
                /\ status'[o] = Target(req[w])
                /\ Len(history'[o]) = Len(history[o]) + 1
                /\ history'[o][Len(history[o]) + 1] =
                        [from |-> seen[w], to |-> Target(req[w])]
                /\ history'[o] # <<>>
                /\ \A i \in 1..Len(history[o]) : history'[o][i] = history[o][i]
<1> DEFINE h == history[o]
           e == [from |-> seen[w], to |-> Target(req[w])]
<1>1. o # req[w].order => history'[o] = history[o] /\ status'[o] = status[o]
  BY DEF TypeOK, Moves
<1>2. o = req[w].order => status'[o] = Target(req[w]) /\ history'[o] = Append(h, e)
  BY DEF TypeOK, Moves
<1>3. h \in Seq(Transition) /\ e \in Transition
  BY DEF TypeOK, Moves, Transition
<1> HIDE DEF h, e
<1>4. /\ Len(Append(h, e)) = Len(h) + 1
      /\ Append(h, e)[Len(h) + 1] = e
      /\ \A i \in 1..Len(h) : Append(h, e)[i] = h[i]
      /\ Len(h) \in Nat
  BY <1>3
<1>5. Append(h, e) # <<>>
  BY <1>3, <1>4
<1>6. QED
  BY <1>1, <1>2, <1>4, <1>5 DEF h, e

LEMMA StepKeepsHistory ==
    TypeOK /\ StepsFit /\ StatusMatchesHistory /\ [Next]_vars => StatusMatchesHistory'
<1> SUFFICES ASSUME TypeOK, StepsFit, StatusMatchesHistory, [Next]_vars, NEW o \in Orders
             PROVE  (status[o] = IF history[o] = <<>> THEN "RECEIVED"
                                 ELSE history[o][Len(history[o])].to)'
  BY DEF StatusMatchesHistory
<1>1. CASE UNCHANGED <<status, history>>
  BY <1>1 DEF StatusMatchesHistory
<1>2. ASSUME NEW w \in Workers, Moves(w)
      PROVE  (status[o] = IF history[o] = <<>> THEN "RECEIVED"
                          ELSE history[o][Len(history[o])].to)'
  <2>1. CASE o # req[w].order
    BY <1>2, <2>1, MoveAppends DEF StatusMatchesHistory
  <2>2. CASE o = req[w].order
    <3>1. /\ status'[o] = Target(req[w])
          /\ Len(history'[o]) = Len(history[o]) + 1
          /\ history'[o][Len(history[o]) + 1] = [from |-> seen[w], to |-> Target(req[w])]
          /\ history'[o] # <<>>
      BY <1>2, <2>2, MoveAppends
    <3>2. QED
      BY <3>1
  <2>3. QED
    BY <2>1, <2>2
<1>3. QED
  BY <1>1, <1>2, OnlyMovesWrite DEF Next, vars, db

\* The status of an order is where its last committed transition went, under
\* every interleaving and failure (UpdateStatus writes both in one transaction).
THEOREM StatusMatchesHistoryHolds == Spec => []StatusMatchesHistory
<1>1. Init => StatusMatchesHistory
  BY DEF Init, StatusMatchesHistory
<1>2. QED
  BY <1>1, TypesAndSteps, StepKeepsHistory, PTL DEF Spec

-----------------------------------------------------------------------------
(***************************************************************************)
(* The order in which the use cases read and write, for every interleaving *)
(* and every failure: what a later write may rely on.                      *)
(***************************************************************************)

\* A worker none of whose own state changed.
Idles(v) == pc'[v] = pc[v] /\ req'[v] = req[v] /\ seen'[v] = seen[v]

LEMMA OthersIdle ==
    ASSUME TypeOK, NEW w \in Workers, Accept(w) \/ Serve(w) \/ Fail(w),
           NEW v \in Workers, v # w
    PROVE  Idles(v)
  BY DEF Idles, TypeOK, Accept, Serve, FindOrder, CheckOwner, CheckAssigned, UpdateStatus,
         SaveWork, Release, CheckTechnician, CheckOrder, LockUser, Insert, UpdateAccess,
         Fail, Finish, Goto

LEMMA FinishIdle ==
    ASSUME TypeOK, NEW w \in Workers, Finish(w)
    PROVE  pc'[w] = "idle"
  BY DEF TypeOK, Finish

LEMMA GotoStep ==
    ASSUME TypeOK, NEW w \in Workers, NEW step, Goto(w, step)
    PROVE  pc'[w] = step /\ req'[w] = req[w]
  BY DEF TypeOK, Goto

LEMMA AcceptStep ==
    ASSUME TypeOK, NEW w \in Workers, Accept(w)
    PROVE  /\ req'[w] \in Request
           /\ pc'[w] = FirstStep(req'[w].op)
           /\ pc'[w] \in {"findOrder", "checkOwner", "checkTechnician", "lockUser"}
           /\ pc'[w] = "findOrder" => req'[w].op = "advance"
           /\ pc'[w] = "checkOwner" => req'[w].op # "advance"
<1>1. PICK r \in Request :
        /\ req' = [req EXCEPT ![w] = r]
        /\ pc' = [pc EXCEPT ![w] = FirstStep(r.op)]
  BY DEF Accept
<1>2. r.op \in {"advance", "record", "register", "assign", "enable", "disable"}
  BY RequestFields
<1>3. QED
  BY <1>1, <1>2 DEF FirstStep, TypeOK

\* What has entered the history stays in it.
LEMMA EnteredStays ==
    ASSUME TypeOK, StepsFit, [Next]_vars, NEW o \in Orders, NEW s, HasEntered(o, s)
    PROVE  HasEntered(o, s)'
<1>1. CASE UNCHANGED <<status, history>>
  BY <1>1 DEF HasEntered
<1>2. ASSUME NEW w \in Workers, Moves(w)
      PROVE  HasEntered(o, s)'
  <2>1. CASE o # req[w].order
    BY <1>2, <2>1, MoveAppends DEF HasEntered
  <2>2. CASE o = req[w].order
    <3>1. PICK i \in 1..Len(history[o]) : history[o][i].to = s
      BY DEF HasEntered
    <3>2. /\ Len(history'[o]) = Len(history[o]) + 1
          /\ history'[o][i] = history[o][i]
      BY <1>2, <2>2, MoveAppends
    <3>3. i \in 1..Len(history'[o])
      <4>1. Len(history[o]) \in Nat
        BY DEF TypeOK
      <4>2. QED
        BY <3>2, <4>1
    <3>4. QED
      BY <3>1, <3>2, <3>3 DEF HasEntered
  <2>3. QED
    BY <2>1, <2>2
<1>3. QED
  BY <1>1, <1>2, OnlyMovesWrite DEF Next, vars, db

\* A move puts its target in the history.
LEMMA MoveEnters ==
    ASSUME TypeOK, NEW w \in Workers, Moves(w),
           NEW o \in Orders, o = req[w].order, NEW s, s = Target(req[w])
    PROVE  HasEntered(o, s)'
<1>1. /\ Len(history'[o]) = Len(history[o]) + 1
      /\ history'[o][Len(history[o]) + 1] = [from |-> seen[w], to |-> s]
  BY MoveAppends
<1>2. Len(history[o]) \in Nat
  BY DEF TypeOK
<1>3. Len(history[o]) + 1 \in 1..Len(history'[o])
  BY <1>1, <1>2
<1>4. QED
  BY <1>1, <1>3 DEF HasEntered

\* Where a step of a worker leaves it, when it has not answered.
LEMMA StepShape ==
    ASSUME TypeOK, StepsFit, NEW w \in Workers, Accept(w) \/ Serve(w) \/ Fail(w)
    PROVE  \/ pc'[w] = "idle"
           \/ Accept(w)
           \/ /\ req'[w] = req[w]
              /\ \/ /\ FindOrder(w)
                    /\ pc'[w] \in {"checkOwner", "checkAssigned", "updateStatus", "saveWork"}
                 \/ /\ CheckOwner(w)
                    /\ pc'[w] \in {"findOrder", "checkAssigned", "updateStatus"}
                 \/ CheckAssigned(w) /\ pc'[w] = "updateStatus"
                 \/ /\ UpdateStatus(w) /\ Moves(w)
                    /\ pc'[w] \in {"saveWork", "release"}
                 \/ CheckTechnician(w) /\ pc'[w] = "checkOrder"
                 \/ CheckOrder(w) /\ pc'[w] = "lockUser"
                 \/ LockUser(w) /\ pc'[w] \in {"insert", "updateAccess"}
<1>1. CASE Accept(w)
  BY <1>1
<1>2. CASE SaveWork(w) \/ Release(w) \/ Insert(w) \/ UpdateAccess(w) \/ Fail(w)
  BY <1>2, FinishIdle DEF SaveWork, Release, Insert, UpdateAccess, Fail
<1>3. CASE FindOrder(w)
  BY <1>3, FinishIdle, GotoStep DEF FindOrder, AfterOwner
<1>4. CASE CheckOwner(w)
  BY <1>4, FinishIdle, GotoStep DEF CheckOwner, AfterOwner
<1>5. CASE CheckAssigned(w)
  BY <1>5, FinishIdle, GotoStep DEF CheckAssigned
<1>6. CASE UpdateStatus(w)
  <2>1. CASE Finish(w)
    BY <2>1, FinishIdle
  <2>2. CASE ~ Finish(w)
    <3>1. /\ CanMoveTo(seen[w], Target(req[w]))
          /\ status' = [status EXCEPT ![req[w].order] = Target(req[w])]
          /\ history' = [history EXCEPT ![req[w].order] =
                            Append(@, [from |-> seen[w], to |-> Target(req[w])])]
          /\ AfterUpdate(req[w]) # "answer"
          /\ Goto(w, AfterUpdate(req[w]))
      BY <1>6, <2>2 DEF UpdateStatus
    <3>2. /\ pc[w] = "updateStatus" /\ req[w] \in Request /\ MovesOrder(req[w])
          /\ seen[w] \in Status
      BY <1>6 DEF UpdateStatus, StepsFit, StepFitsRequest
    <3>3. AfterUpdate(req[w]) \in {"saveWork", "release"}
      BY <3>1 DEF AfterUpdate
    <3>4. Moves(w)
      BY <3>1, <3>2, RequestFields DEF Moves
    <3>5. QED
      BY <1>6, <3>1, <3>3, <3>4, GotoStep
  <2>3. QED
    BY <2>1, <2>2
<1>7. CASE CheckTechnician(w)
  BY <1>7, FinishIdle, GotoStep DEF CheckTechnician
<1>8. CASE CheckOrder(w)
  BY <1>8, FinishIdle, GotoStep DEF CheckOrder
<1>9. CASE LockUser(w)
  BY <1>9, FinishIdle, GotoStep DEF LockUser
<1>10. QED
  BY <1>1, <1>2, <1>3, <1>4, <1>5, <1>6, <1>7, <1>8, <1>9 DEF Serve

-----------------------------------------------------------------------------
(***************************************************************************)
(* Work on file and releases are backed by the history.                    *)
(***************************************************************************)

\* A worker about to insert a diagnostic or an intervention has the move that
\* goes with it in the history, and one about to release has the delivery.
BackedStep(w) ==
    /\ pc[w] = "saveWork" => HasEntered(req[w].order, Target(req[w]))
    /\ pc[w] = "release" => HasEntered(req[w].order, "DELIVERED")

BackedInv == WorkBackedByHistory /\ \A w \in Workers : BackedStep(w)

\* A diagnostic or intervention inserted without a move was added to an order
\* already in the status that goes with it.
LEMMA SavedWithoutMove ==
    ASSUME TypeOK, StepsFit, NEW w \in Workers, FindOrder(w), pc'[w] = "saveWork"
    PROVE  /\ req[w].op # "advance" /\ req[w].order \in Orders
           /\ status[req[w].order] = Target(req[w])
           /\ Target(req[w]) \in {"IN_DIAGNOSIS", "IN_REPAIR"}
<1> DEFINE r == req[w]
           s == status[r.order]
<1>1. r \in Request /\ MovesOrder(r) /\ r.order \in Orders /\ s \in Status
  BY RequestFields DEF FindOrder, StepsFit, StepFitsRequest, TypeOK
<1>2. r.op # "advance"
  BY FinishIdle, GotoStep DEF FindOrder, AfterOwner
<1>3. Admissible(r, s) /\ ~ NeedsMove(r, s)
  BY <1>2, FinishIdle, GotoStep DEF FindOrder
<1>4. CASE r.op = "record"
  BY <1>1, <1>3, <1>4, MovesAreStatuses
     DEF Admissible, NeedsMove, CanAddDiagnostic, Target, Status
<1>5. CASE r.op = "register"
  BY <1>1, <1>3, <1>5, MovesAreStatuses
     DEF Admissible, NeedsMove, CanAddIntervention, Target, Status
<1>6. QED
  BY <1>1, <1>2, <1>4, <1>5 DEF MovesOrder

\* The status of an order past RECEIVED is in its history.
LEMMA StatusEntered ==
    ASSUME TypeOK, StatusMatchesHistory, NEW o \in Orders, status[o] # "RECEIVED"
    PROVE  HasEntered(o, status[o]) /\ history[o] # <<>>
<1>1. history[o] # <<>> /\ history[o][Len(history[o])].to = status[o]
  BY DEF StatusMatchesHistory
<1>2. history[o] \in Seq(Transition)
  BY DEF TypeOK
<1>3. Len(history[o]) \in 1..Len(history[o])
  BY <1>1, <1>2
<1>4. QED
  BY <1>1, <1>3 DEF HasEntered

LEMMA StepKeepsBacked ==
    /\ TypeOK /\ StepsFit /\ StatusMatchesHistory /\ BackedInv /\ [Next]_vars
    => BackedInv'
<1> SUFFICES ASSUME TypeOK, StepsFit, StatusMatchesHistory, BackedInv, [Next]_vars
             PROVE  BackedInv'
  OBVIOUS
<1>1. CASE UNCHANGED vars
  BY <1>1 DEF vars, db, BackedInv, BackedStep, WorkBackedByHistory, HasEntered, Target
<1>2. ASSUME NEW w \in Workers, Accept(w) \/ Serve(w) \/ Fail(w)
      PROVE  BackedInv'
  <2>1. ASSUME NEW v \in Workers
        PROVE  BackedStep(v)'
    <3>1. ASSUME pc'[v] \in {"saveWork", "release"}, pc[v] = pc'[v], req'[v] = req[v]
          PROVE  BackedStep(v)'
      <4>1. req[v] \in Request /\ MovesOrder(req[v]) /\ req[v].order \in Orders
        BY <3>1, RequestFields DEF StepsFit, StepFitsRequest, MovesOrder
      <4>2. \A s : HasEntered(req[v].order, s) => HasEntered(req[v].order, s)'
        BY <3>1, <4>1, EnteredStays
      <4>3. QED
        BY <3>1, <4>2 DEF BackedInv, BackedStep
    <3>2. CASE v # w
      BY <1>2, <3>1, <3>2, OthersIdle DEF Idles, BackedStep
    <3>3. CASE v = w /\ pc'[w] \in {"saveWork", "release"}
      <4>1. StepsFit'
        BY StepKeepsTypes
      <4>2. pc'[w] = "release" => req'[w].op = "advance" /\ req'[w].next = "DELIVERED"
        BY <4>1 DEF StepsFit, StepFitsRequest
      <4>3. CASE Moves(w) /\ req'[w] = req[w]
        <5>1. PICK o \in Orders, s \in Status : o = req[w].order /\ s = Target(req[w])
          BY <4>3 DEF Moves
        <5>2. HasEntered(o, s)'
          BY <4>3, <5>1, MoveEnters
        <5>3. pc'[w] = "release" => s = "DELIVERED"
          BY <4>2, <4>3, <5>1 DEF Target
        <5>4. req'[w].order = o /\ Target(req'[w]) = s
          BY <4>3, <5>1
        <5>5. QED
          BY <3>3, <5>2, <5>3, <5>4 DEF BackedStep, HasEntered, Target
      <4>4. CASE FindOrder(w) /\ pc'[w] = "saveWork" /\ req'[w] = req[w]
        <5>1. PICK o \in Orders, s \in Status :
                /\ o = req[w].order /\ s = Target(req[w])
                /\ status[o] = s /\ s # "RECEIVED"
          BY <4>4, SavedWithoutMove DEF TypeOK
        <5>2. HasEntered(o, s)
          BY <5>1, StatusEntered
        <5>3. HasEntered(o, s)'
          BY <5>2, EnteredStays
        <5>4. req'[w].order = o /\ Target(req'[w]) = s
          BY <4>4, <5>1
        <5>5. QED
          BY <3>3, <4>4, <5>3, <5>4 DEF BackedStep, HasEntered, Target
      <4>5. QED
        BY <1>2, <3>3, <4>3, <4>4, StepShape, AcceptStep
    <3>4. CASE pc'[v] \notin {"saveWork", "release"}
      BY <3>4 DEF BackedStep
    <3>5. QED
      BY <3>2, <3>3, <3>4
  <2>2. ASSUME NEW k \in work'
        PROVE  (HasEntered(k.order, IF k.kind = "record" THEN "IN_DIAGNOSIS"
                                    ELSE "IN_REPAIR"))'
    <3>0. PICK s \in Status :
            s = IF k.kind = "record" THEN "IN_DIAGNOSIS" ELSE "IN_REPAIR"
      BY DEF Status
    <3>1. k.order \in Orders /\ HasEntered(k.order, s)
      <4>1. CASE k \in work
        BY <3>0, <4>1 DEF BackedInv, WorkBackedByHistory, TypeOK, Work
      <4>2. CASE k \notin work
        <5>1. SaveWork(w)
          BY <1>2, <4>2 DEF Serve, Accept, FindOrder, CheckOwner, CheckAssigned,
             UpdateStatus, Release, CheckTechnician, CheckOrder, LockUser, Insert,
             UpdateAccess, Fail, db
        <5>2. k.kind = req[w].op /\ k.order = req[w].order /\ pc[w] = "saveWork"
          BY <4>2, <5>1 DEF SaveWork
        <5>3. req[w] \in Request /\ req[w].op \in {"record", "register"}
          BY <5>2 DEF StepsFit, StepFitsRequest
        <5>4. Target(req[w]) = s
          BY <3>0, <5>2, <5>3 DEF Target
        <5>5. QED
          BY <5>2, <5>3, <5>4, RequestFields DEF BackedInv, BackedStep, MovesOrder
      <4>3. QED
        BY <4>1, <4>2
    <3>2. HasEntered(k.order, s)'
      BY <3>1, EnteredStays
    <3>3. QED
      BY <3>0, <3>2
  <2>3. QED
    BY <2>1, <2>2 DEF BackedInv, WorkBackedByHistory
<1>3. QED
  BY <1>1, <1>2 DEF Next

LEMMA BackedHolds == Spec => []BackedInv
<1>1. Init => BackedInv
  BY DEF Init, BackedInv, WorkBackedByHistory, BackedStep
<1>2. QED
  BY <1>1, StepKeepsBacked, TypesAndSteps, StatusMatchesHistoryHolds, PTL DEF Spec

\* A diagnostic or an intervention on file has its move in the history, even
\* when requests overlap or stop half way (Record and Register move first).
THEOREM WorkBackedByHistoryHolds == Spec => []WorkBackedByHistory
<1>1. BackedInv => WorkBackedByHistory
  BY DEF BackedInv
<1>2. QED
  BY <1>1, BackedHolds, PTL

LEMMA LostIsDelivered ==
    ASSUME TypeOK, StepsFit, BackedInv, [Next]_vars,
           NEW a \in assignment, a.isActive, a \notin assignment'
    PROVE  HasEntered(a.order, "DELIVERED")
<1>1. PICK w \in Workers : Accept(w) \/ Serve(w) \/ Fail(w)
  BY DEF Next, vars, db
<1>2. Release(w)
  BY <1>1, OnlyReleaseAndInsert, InsertWrites
<1>3. pc[w] = "release" /\ a.order = req[w].order
  BY <1>2 DEF Release
<1>4. QED
  BY <1>3 DEF BackedInv, BackedStep

\* Only a delivered order is let go (Advance writes DELIVERED, then releases).
THEOREM ReleasedOnlyAfterDeliveryHolds == Spec => ReleasedOnlyAfterDelivery
<1>1. TypeOK /\ StepsFit /\ BackedInv /\ [Next]_vars =>
        [\A a \in assignment :
            a.isActive /\ a \notin assignment' => HasEntered(a.order, "DELIVERED")]_vars
  BY LostIsDelivered
<1>2. QED
  BY <1>1, TypesAndSteps, BackedHolds, PTL DEF Spec, ReleasedOnlyAfterDelivery

-----------------------------------------------------------------------------
(***************************************************************************)
(* The row locks of the technicians' accounts.                             *)
(***************************************************************************)

LockHolding == {"insert", "updateAccess"}

\* What a step does to the row locks.
LEMMA StepLocks ==
    ASSUME TypeOK, StepsFit, NEW w \in Workers, Accept(w) \/ Serve(w) \/ Fail(w)
    PROVE  \/ Finish(w)
           \/ /\ UNCHANGED userLock
              /\ pc[w] \notin LockHolding /\ pc'[w] \notin LockHolding
           \/ /\ pc[w] = "lockUser" /\ req'[w] = req[w]
              /\ req[w].technician \in Technicians
              /\ userLock[req[w].technician] = None
              /\ userLock' = [userLock EXCEPT ![req[w].technician] = w]
              /\ pc'[w] \in LockHolding
              /\ pc'[w] = "insert" => isActive[req[w].technician]
              /\ UNCHANGED isActive
<1>1. CASE Accept(w)
  BY <1>1, AcceptStep DEF Accept, LockHolding
<1>2. CASE SaveWork(w) \/ Release(w) \/ Insert(w) \/ UpdateAccess(w) \/ Fail(w)
  BY <1>2 DEF SaveWork, Release, Insert, UpdateAccess, Fail
<1>3. CASE LockUser(w)
  <2>1. req[w].technician \in Technicians
    BY <1>3, RequestFields DEF LockUser, StepsFit, StepFitsRequest
  <2>2. QED
    BY <1>3, <2>1, GotoStep DEF LockUser, LockHolding, db
<1>4. CASE FindOrder(w) \/ CheckOwner(w) \/ CheckAssigned(w) \/ UpdateStatus(w)
           \/ CheckTechnician(w) \/ CheckOrder(w)
  <2>1. CASE Finish(w)
    BY <2>1
  <2>2. CASE ~ Finish(w)
    <3>1. UNCHANGED userLock /\ pc[w] \notin LockHolding
      BY <1>4, <2>2 DEF FindOrder, CheckOwner, CheckAssigned, UpdateStatus, CheckTechnician,
         CheckOrder, LockHolding
    <3>2. pc'[w] \notin LockHolding
      BY <1>4, <2>2, GotoStep DEF FindOrder, CheckOwner, CheckAssigned, UpdateStatus,
         CheckTechnician, CheckOrder, AfterOwner, AfterUpdate, LockHolding
    <3>3. QED
      BY <3>1, <3>2
  <2>3. QED
    BY <2>1, <2>2
<1>5. QED
  BY <1>1, <1>2, <1>3, <1>4 DEF Serve

\* Whoever is about to write an assignment or an access owns the account's row,
\* and only they do; an assignment is about to be written for an active account.
LocksFit(w) ==
    /\ pc[w] \in LockHolding => userLock[req[w].technician] = w
    /\ \A t \in Technicians :
        userLock[t] = w => pc[w] \in LockHolding /\ req[w].technician = t
    /\ pc[w] = "insert" => isActive[req[w].technician]

LockInv == \A w \in Workers : LocksFit(w)

LEMMA StepKeepsLocks == TypeOK /\ StepsFit /\ LockInv /\ [Next]_vars => LockInv'
<1> SUFFICES ASSUME TypeOK, StepsFit, LockInv, [Next]_vars
             PROVE  LockInv'
  OBVIOUS
<1>1. CASE UNCHANGED vars
  BY <1>1 DEF vars, db, LockInv, LocksFit
<1>2. ASSUME NEW w \in Workers, Accept(w) \/ Serve(w) \/ Fail(w), NEW v \in Workers
      PROVE  LocksFit(v)'
  <2>1. CASE v = w
    <3>1. CASE Finish(w)
      <4>1. pc'[w] = "idle" /\ \A t \in Technicians : userLock'[t] # w
        BY <3>1, NoneAssumption DEF Finish, TypeOK
      <4>2. QED
        BY <2>1, <4>1 DEF LocksFit, LockHolding
    <3>2. CASE /\ UNCHANGED userLock
               /\ pc[w] \notin LockHolding /\ pc'[w] \notin LockHolding
      BY <2>1, <3>2 DEF LockInv, LocksFit, LockHolding
    <3>3. CASE /\ pc[w] = "lockUser" /\ req'[w] = req[w]
               /\ req[w].technician \in Technicians
               /\ userLock' = [userLock EXCEPT ![req[w].technician] = w]
               /\ pc'[w] \in LockHolding
               /\ pc'[w] = "insert" => isActive[req[w].technician]
               /\ UNCHANGED isActive
      BY <2>1, <3>3 DEF LockInv, LocksFit, LockHolding, TypeOK
    <3>4. QED
      BY <1>2, <3>1, <3>2, <3>3, StepLocks
  <2>2. CASE v # w
    <3>1. Idles(v) /\ LocksFit(v) /\ LocksFit(w)
      BY <1>2, <2>2, OthersIdle DEF LockInv
    <3>2. \A t \in Technicians : userLock'[t] = v <=> userLock[t] = v
      <4>1. CASE Finish(w)
        BY <2>2, <4>1, NoneAssumption DEF Finish
      <4>2. CASE UNCHANGED userLock
        BY <4>2
      <4>3. CASE /\ userLock' = [userLock EXCEPT ![req[w].technician] = w]
                 /\ req[w].technician \in Technicians
                 /\ userLock[req[w].technician] = None
        BY <2>2, <4>3, NoneAssumption DEF TypeOK
      <4>4. QED
        BY <1>2, <4>1, <4>2, <4>3, StepLocks
    <3>3. pc[v] \in LockHolding => req[v].technician \in Technicians
      BY RequestFields DEF StepsFit, StepFitsRequest, LockHolding
    <3>4. pc[v] = "insert" => isActive'[req[v].technician]
      <4>1. SUFFICES ASSUME pc[v] = "insert" PROVE isActive'[req[v].technician]
        OBVIOUS
      <4>2. isActive[req[v].technician] /\ userLock[req[v].technician] = v
        BY <3>1, <4>1 DEF LocksFit, LockHolding
      <4>3. CASE UpdateAccess(w)
        <5>1. userLock[req[w].technician] = w
          BY <3>1, <4>3 DEF UpdateAccess, LocksFit, LockHolding
        <5>2. req[w].technician # req[v].technician
          BY <2>2, <4>2, <5>1
        <5>3. QED
          BY <3>3, <4>1, <4>2, <4>3, <5>2 DEF UpdateAccess, TypeOK, LockHolding
      <4>4. CASE UNCHANGED isActive
        BY <4>2, <4>4
      <4>5. QED
        BY <1>2, <4>3, <4>4 DEF Serve, Accept, FindOrder, CheckOwner, CheckAssigned,
           UpdateStatus, SaveWork, Release, CheckTechnician, CheckOrder, LockUser, Insert,
           Fail, db
    <3>5. QED
      BY <3>1, <3>2, <3>3, <3>4 DEF Idles, LocksFit, LockHolding
  <2>3. QED
    BY <2>1, <2>2
<1>3. QED
  BY <1>1, <1>2 DEF Next, LockInv

LEMMA LocksHold == Spec => []LockInv
<1>1. Init => LockInv
  BY NoneAssumption DEF Init, LockInv, LocksFit, LockHolding
<1>2. QED
  BY <1>1, TypesAndSteps, StepKeepsLocks, PTL DEF Spec

LEMMA GivenIsActive ==
    ASSUME TypeOK, StepsFit, LockInv, [Next]_vars,
           NEW a \in assignment', a \notin assignment, a.isActive
    PROVE  /\ isActive[a.technician]
           /\ \E w \in Workers : Insert(w) /\ ~ UNCHANGED assignment
<1>1. PICK w \in Workers : Accept(w) \/ Serve(w) \/ Fail(w)
  BY DEF Next, vars, db
<1>2. CASE Release(w)
  BY <1>2, ReleasedRow DEF Release, TypeOK
<1>3. CASE Insert(w)
  <2>1. PICK o \in Orders, t \in Technicians :
          o = req[w].order /\ t = req[w].technician /\ a = NewAssignment(o, t)
    BY <1>3, InsertWrites
  <2>2. a.technician = t
    BY <2>1, InsertedRow
  <2>3. pc[w] = "insert"
    BY <1>3 DEF Insert
  <2>4. QED
    BY <1>3, <2>1, <2>2, <2>3 DEF LockInv, LocksFit
<1>4. QED
  BY <1>1, <1>2, <1>3, OnlyReleaseAndInsert

\* No assignment is ever committed for an account that is switched off at that
\* moment, although is_active was read one call earlier: the lock on the user row
\* keeps the switch away in between.
THEOREM AssignedOnlyWhileActiveHolds == Spec => AssignedOnlyWhileActive
<1>1. TypeOK /\ StepsFit /\ LockInv /\ [Next]_vars =>
        [\A a \in assignment' \ assignment :
            a.isActive => isActive[a.technician]]_vars
  BY GivenIsActive
<1>2. QED
  BY <1>1, TypesAndSteps, LocksHold, PTL DEF Spec, AssignedOnlyWhileActive

-----------------------------------------------------------------------------
(***************************************************************************)
(* An order is given before it is moved.                                   *)
(***************************************************************************)

GivenOnce(o) == \E a \in assignment : a.order = o

\* An assignment row is never deleted.
LEMMA GivenStays ==
    ASSUME TypeOK, StepsFit, [Next]_vars, NEW o, GivenOnce(o)
    PROVE  GivenOnce(o)'
<1>1. CASE UNCHANGED assignment
  BY <1>1 DEF GivenOnce
<1>2. ASSUME NEW w \in Workers, Release(w) PROVE GivenOnce(o)'
  <2>1. PICK a \in assignment : a.order = o
    BY DEF GivenOnce
  <2>2. a \in assignment' \/ Released(a) \in assignment'
    BY <1>2, <2>1 DEF Release
  <2>3. QED
    BY <2>1, <2>2, ReleasedRow DEF TypeOK, GivenOnce
<1>3. ASSUME NEW w \in Workers, Insert(w) PROVE GivenOnce(o)'
  BY <1>3 DEF Insert, GivenOnce
<1>4. QED
  BY <1>1, <1>2, <1>3, OnlyReleaseAndInsert DEF Next, vars, db

\* A worker about to move an order has seen it given to somebody, by an assignment
\* it looked up or by a status that is not the first.
GivenStep(w) ==
    /\ pc[w] = "findOrder" /\ req[w].op # "advance" => GivenOnce(req[w].order)
    /\ pc[w] = "updateStatus" /\ CanMoveTo(seen[w], Target(req[w])) =>
        GivenOnce(req[w].order)

GivenInv == MovedOnlyAfterAssigned /\ \A w \in Workers : GivenStep(w)

\* The only move FindOrder lets through without a look at the assignments is an
\* administrator's to a status nobody works in.
LEMMA UncheckedMove ==
    ASSUME TypeOK, StepsFit, NEW w \in Workers, FindOrder(w), req[w].op = "advance",
           pc'[w] = "updateStatus", CanMoveTo(seen'[w], Target(req[w]))
    PROVE  req[w].order \in Orders /\ status[req[w].order] # "RECEIVED"
<1> DEFINE r == req[w]
<1>1. r \in Request /\ r.order \in Orders /\ r.next \in Status
  BY RequestFields DEF FindOrder, StepsFit, StepFitsRequest, MovesOrder
<1>2. /\ seen' = [seen EXCEPT ![w] = status[r.order]]
      /\ Goto(w, IF r.actor = Admin THEN AfterOwner(r) ELSE "checkOwner")
  BY DEF FindOrder
<1>3. seen'[w] = status[r.order] /\ ~ IsOperational(r.next)
  BY <1>2, GotoStep DEF TypeOK, AfterOwner
<1>4. Target(r) = r.next
  BY DEF Target
<1>5. PICK s \in Status, n \in Status : s = status[r.order] /\ n = r.next
  BY <1>1 DEF TypeOK
<1>6. CanMoveTo(s, n) /\ n \notin {"IN_DIAGNOSIS", "IN_REPAIR"}
  BY <1>3, <1>4, <1>5 DEF IsOperational
<1>7. s # "RECEIVED"
  BY <1>6, MovesAreStatuses
<1>8. QED
  BY <1>1, <1>5, <1>7

LEMMA StepKeepsGiven ==
    /\ TypeOK /\ StepsFit /\ StatusMatchesHistory /\ GivenInv /\ [Next]_vars
    => GivenInv'
<1> SUFFICES ASSUME TypeOK, StepsFit, StatusMatchesHistory, GivenInv, [Next]_vars
             PROVE  GivenInv'
  OBVIOUS
<1>1. CASE UNCHANGED vars
  BY <1>1 DEF vars, db, GivenInv, GivenStep, MovedOnlyAfterAssigned, GivenOnce, Target
<1>2. ASSUME NEW w \in Workers, Accept(w) \/ Serve(w) \/ Fail(w)
      PROVE  GivenInv'
  <2>1. ASSUME NEW v \in Workers, v # w
        PROVE  GivenStep(v)'
    <3>1. Idles(v) /\ GivenStep(v)
      BY <1>2, <2>1, OthersIdle DEF GivenInv
    <3>2. GivenOnce(req[v].order) => GivenOnce(req[v].order)'
      <4>1. SUFFICES ASSUME NEW o, o = req[v].order, GivenOnce(o)
                     PROVE  GivenOnce(o)'
        BY <3>1 DEF Idles, GivenOnce
      <4>2. QED
        BY <4>1, GivenStays
    <3>3. QED
      BY <3>1, <3>2 DEF Idles, GivenStep, Target
  <2>2. GivenStep(w)'
    <3>1. ASSUME NEW o, o = req[w].order, req'[w] = req[w], GivenOnce(o)
          PROVE  GivenStep(w)'
      <4>1. GivenOnce(o)'
        BY <3>1, GivenStays
      <4>2. QED
        BY <3>1, <4>1 DEF GivenStep, GivenOnce
    <3>2. CASE pc'[w] \notin {"findOrder", "updateStatus"}
      BY <3>2 DEF GivenStep
    <3>3. CASE Accept(w)
      BY <3>3, AcceptStep DEF GivenStep
    <3>4. CASE CheckOwner(w) /\ pc'[w] # "idle" /\ req'[w] = req[w]
      <4>1. Holds(req[w].order, req[w].actor)
        BY <3>4, FinishIdle DEF CheckOwner
      <4>2. QED
        BY <3>1, <3>4, <4>1 DEF Holds, GivenOnce
    <3>5. CASE CheckAssigned(w) /\ pc'[w] # "idle" /\ req'[w] = req[w]
      <4>1. IsAssigned(req[w].order)
        BY <3>5, FinishIdle DEF CheckAssigned
      <4>2. QED
        BY <3>1, <3>5, <4>1 DEF IsAssigned, Holds, GivenOnce
    <3>6. CASE FindOrder(w) /\ pc'[w] = "updateStatus" /\ req'[w] = req[w]
      <4>1. CASE req[w].op # "advance"
        <5>1. GivenOnce(req[w].order)
          BY <3>6, <4>1 DEF FindOrder, GivenInv, GivenStep
        <5>2. QED
          BY <3>1, <3>6, <5>1
      <4>2. CASE req[w].op = "advance" /\ CanMoveTo(seen'[w], Target(req[w]))
        <5>1. PICK o \in Orders : o = req[w].order /\ status[o] # "RECEIVED"
          BY <3>6, <4>2, UncheckedMove
        <5>2. GivenOnce(o)
          BY <5>1, StatusEntered DEF GivenInv, MovedOnlyAfterAssigned, GivenOnce
        <5>3. QED
          BY <3>1, <3>6, <5>1, <5>2
      <4>3. CASE req[w].op = "advance" /\ ~ CanMoveTo(seen'[w], Target(req[w]))
        BY <3>6, <4>3 DEF GivenStep, Target
      <4>4. QED
        BY <4>1, <4>2, <4>3
    <3>7. QED
      BY <1>2, <3>2, <3>3, <3>4, <3>5, <3>6, StepShape
  <2>3. MovedOnlyAfterAssigned'
    <3> SUFFICES ASSUME NEW o \in Orders, history'[o] # <<>>
                 PROVE  GivenOnce(o)'
      BY DEF MovedOnlyAfterAssigned, GivenOnce
    <3>1. GivenOnce(o)
      <4>1. CASE history[o] # <<>>
        BY <4>1 DEF GivenInv, MovedOnlyAfterAssigned, GivenOnce
      <4>2. CASE history[o] = <<>>
        <5>1. Moves(w)
          BY <1>2, <4>2, OnlyMovesWrite
        <5>2. o = req[w].order
          BY <4>2, <5>1, MoveAppends
        <5>3. QED
          BY <5>1, <5>2 DEF Moves, GivenInv, GivenStep
      <4>3. QED
        BY <4>1, <4>2
    <3>2. QED
      BY <3>1, GivenStays
  <2>4. QED
    BY <2>1, <2>2, <2>3 DEF GivenInv
<1>3. QED
  BY <1>1, <1>2 DEF Next

\* No order leaves RECEIVED that was never given to a technician, whichever of
\* the three use cases moves it and however stale what it had read.
THEOREM MovedOnlyAfterAssignedHolds == Spec => []MovedOnlyAfterAssigned
<1>1. Init => GivenInv
  BY DEF Init, GivenInv, GivenStep, MovedOnlyAfterAssigned
<1>2. GivenInv => MovedOnlyAfterAssigned
  BY DEF GivenInv
<1>3. QED
  BY <1>1, <1>2, StepKeepsGiven, TypesAndSteps, StatusMatchesHistoryHolds, PTL DEF Spec
=============================================================================
