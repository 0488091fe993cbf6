---------------------------- MODULE ReadingProofs ----------------------------
(***************************************************************************)
(* What the screens show of the write path, for any number of orders,      *)
(* technicians, requests and seconds.                                      *)
(***************************************************************************)
EXTENDS Readings, RefinementProofs, SequenceTheorems

-----------------------------------------------------------------------------
(***************************************************************************)
(* The readings leave the write path alone: what holds of it holds of it   *)
(* beside them.                                                            *)
(***************************************************************************)
LEMMA ReadStep == [ReadNext]_readVars => [Next]_vars
<1> SUFFICES ASSUME [ReadNext]_readVars PROVE [Next]_vars
  OBVIOUS
<1>1. CASE UNCHANGED readVars
  BY <1>1 DEF readVars
<1>2. CASE Reading
  BY <1>2 DEF Reading, Read, CountOrders, Build, List, ListHistory, FindActive, FindLatest,
     FindName, FindAssigned, FailReading
<1>3. CASE Tick \/ \E o \in Orders : Open(o)
  BY <1>3 DEF Tick, Open
<1>4. CASE \E w \in Workers : AcceptOpened(w) \/ Timed(w)
  BY <1>4 DEF AcceptOpened, Timed, Next
<1>5. QED
  BY <1>1, <1>2, <1>3, <1>4 DEF ReadNext

\* The write path beside its readers is still the write path: no query of the
\* dashboard, of a list or of a detail is a step of it (DashboardUseCase.Build,
\* ServiceOrderUseCase.List, ListTransition and FindDetail).
THEOREM ReadsTheWorkshop == ReadSpec => Spec
<1>1. ReadInit => Init
  BY DEF ReadInit
<1>2. QED
  BY <1>1, ReadStep, PTL DEF ReadSpec, Spec

\* Where a step leaves the reader: a reading goes a query further, stays under way
\* beside a write, or has been looked at.
LEMMA ReaderSteps ==
    ASSUME [ReadNext]_readVars
    PROVE  \/ UNCHANGED readVars
           \/ reader' = Idle
           \/ /\ reader' = reader
              /\ reader.step \in {"counted", "latest", "workload", "assigned"}
           \/ Reading /\ UNCHANGED <<vars, opened, clock, since, movedAt>>
<1>1. CASE Reading
  BY <1>1 DEF Reading, Read, CountOrders, Build, List, ListHistory, FindActive, FindLatest,
     FindName, FindAssigned, FailReading
<1>2. CASE Tick \/ (\E o \in Orders : Open(o)) \/ \E w \in Workers : AcceptOpened(w) \/ Timed(w)
  <2>1. Look
    BY <1>2 DEF Tick, Open, AcceptOpened, Timed
  <2>2. QED
    BY <2>1 DEF Look
<1>3. QED
  BY <1>1, <1>2 DEF ReadNext

OpenedInv == opened \in SUBSET Orders

LEMMA OpenedHolds == ReadSpec => []OpenedInv
<1>1. ReadInit => OpenedInv
  BY DEF ReadInit, OpenedInv
<1>2. OpenedInv /\ [ReadNext]_readVars => OpenedInv'
  BY DEF OpenedInv, ReadNext, readVars, Open, AcceptOpened, Timed, Tick, Reading, Read,
     CountOrders, Build, List, ListHistory, FindActive, FindLatest, FindName, FindAssigned,
     FailReading
<1>3. QED
  BY <1>1, <1>2, PTL DEF ReadSpec

-----------------------------------------------------------------------------
(***************************************************************************)
(* The dashboard.                                                          *)
(***************************************************************************)

\* Under isolation a delivered order stays delivered.
LEMMA DeliveredStays ==
    ASSUME TypeOK, StepsFit, IsoInv, [Next]_vars, NEW o \in Orders, status[o] = "DELIVERED"
    PROVE  status'[o] = "DELIVERED"
<1>1. CASE UNCHANGED status
  BY <1>1
<1>2. ASSUME NEW w \in Workers, Moves(w)
      PROVE  status'[o] = "DELIVERED"
  <2>1. CASE o = req[w].order
    BY <1>2, <2>1 DEF Moves, IsoInv, FreshStep, CanMoveTo, allowedTransition, Status
  <2>2. CASE o # req[w].order
    BY <1>2, <2>2, MoveAppends
  <2>3. QED
    BY <2>1, <2>2
<1>3. QED
  BY <1>1, <1>2, OnlyMovesWrite DEF Next, vars, db

\* A busy row is of an order in an operational status.
LEMMA BusyRow ==
    ASSUME NEW row \in ListWorkload, row.busy
    PROVE  row.order \in Orders /\ IsOperational(status[row.order])
<1>1. PICK t \in Technicians : row \in WorkloadRows(t)
  BY DEF ListWorkload
<1>2. PICK o \in Orders :
        row = [technician |-> t, isActive |-> isActive[t], order |-> o,
               busy |-> IsOperational(status[o])]
  BY <1>1 DEF WorkloadRows
<1>3. QED
  BY <1>2

\* What the two queries of the dashboard leave.
LEMMA CountsRead ==
    ASSUME CountOrders
    PROVE  reader' = [step |-> "counted", counted |-> status, existed |-> opened, busy |-> {}]
  BY DEF CountOrders, Read, Query, DashboardQueries

CountedTyped ==
    reader.step = "counted" =>
        reader \in [step: {"counted"}, counted: [Orders -> Status],
                   existed: SUBSET Orders, busy: {{}}]

LEMMA BusyRead ==
    ASSUME CountedTyped, Build
    PROVE  /\ reader.step = "counted" /\ reader.counted \in [Orders -> Status]
           /\ reader'.step = "dashboard" /\ reader'.counted = reader.counted
           /\ reader'.busy = {row \in ListWorkload : row.busy}
<1> DEFINE busy == {row \in ListWorkload : row.busy}
<1>1. reader' = [[reader EXCEPT !.busy = busy] EXCEPT !.step = "dashboard"]
  BY DEF Build, Read, Query, DashboardQueries
<1>2. /\ reader.step = "counted"
      /\ reader \in [step: {"counted"}, counted: [Orders -> Status],
                     existed: SUBSET Orders, busy: {{}}]
  BY DEF Build, CountedTyped
<1> HIDE DEF busy
<1>3. reader'.step = "dashboard" /\ reader'.counted = reader.counted /\ reader'.busy = busy
  BY <1>1, <1>2
<1>4. QED
  BY <1>2, <1>3 DEF busy

LEMMA CountedTypes == ReadSpec => []CountedTyped
<1>1. ReadInit => CountedTyped
  BY DEF ReadInit, Idle, CountedTyped
<1>2. TypeOK /\ OpenedInv /\ CountedTyped /\ [ReadNext]_readVars => CountedTyped'
  <2> SUFFICES ASSUME TypeOK, OpenedInv, CountedTyped, [ReadNext]_readVars PROVE CountedTyped'
    OBVIOUS
  <2>1. CASE reader' = reader
    BY <2>1 DEF CountedTyped
  <2>2. CASE CountOrders
    BY <2>2, CountsRead DEF CountedTyped, TypeOK, OpenedInv
  <2>3. CASE reader' = Idle \/ Build \/ List \/ ListHistory \/ FindActive \/ FindLatest
             \/ FindName \/ FindAssigned \/ FailReading
    <3>1. reader'.step # "counted"
      BY <2>3, BusyRead DEF Idle, List, ListHistory, FindActive, FindLatest, FindName,
         FindAssigned, FailReading, Read
    <3>2. QED
      BY <3>1 DEF CountedTyped
  <2>4. QED
    BY <2>1, <2>2, <2>3, ReaderSteps DEF Reading, readVars
<1>3. QED
  BY <1>1, <1>2, ReadsTheWorkshop, TypesAndSteps, OpenedHolds, PTL DEF ReadSpec

\* An order that the counts show as delivered is delivered.
CountedStill ==
    reader.step = "counted" =>
        \A o \in Orders : reader.counted[o] = "DELIVERED" => status[o] = "DELIVERED"

DashboardInv == CountedStill /\ BusyWereCounted

LEMMA StepKeepsDashboard ==
    /\ TypeOK /\ StepsFit /\ IsoInv /\ CountedTyped /\ DashboardInv /\ [ReadNext]_readVars
    => DashboardInv'
<1> SUFFICES ASSUME TypeOK, StepsFit, IsoInv, CountedTyped, DashboardInv, [ReadNext]_readVars
             PROVE  DashboardInv'
  OBVIOUS
<1>1. CASE UNCHANGED readVars
  BY <1>1 DEF readVars, vars, db, DashboardInv, CountedStill, BusyWereCounted
<1>2. CASE reader' = Idle
  BY <1>2 DEF Idle, DashboardInv, CountedStill, BusyWereCounted
<1>3. CASE reader' = reader /\ reader.step \in {"counted", "latest", "workload", "assigned"}
  BY <1>3, ReadStep, DeliveredStays DEF DashboardInv, CountedStill, BusyWereCounted
<1>4. CASE CountOrders
  <2>1. reader' = [step |-> "counted", counted |-> status, existed |-> opened, busy |-> {}]
    BY <1>4, CountsRead
  <2>2. UNCHANGED status
    BY <1>4 DEF CountOrders, Read, vars, db
  <2>3. QED
    BY <2>1, <2>2 DEF DashboardInv, CountedStill, BusyWereCounted
<1>5. CASE Build
  <2>1. \A row \in ListWorkload :
          row.busy => row.order \in Orders /\ status[row.order] # "DELIVERED"
    BY BusyRow DEF IsOperational
  <2>2. QED
    BY <1>5, <2>1, BusyRead DEF DashboardInv, CountedStill, BusyWereCounted
<1>6. CASE reader'.step \notin {"counted", "dashboard"}
  BY <1>6 DEF DashboardInv, CountedStill, BusyWereCounted
<1>7. CASE List \/ ListHistory \/ FindActive \/ FindLatest \/ FindName \/ FindAssigned \/ FailReading
  <2>1. reader'.step \notin {"counted", "dashboard"}
    BY <1>7 DEF List, ListHistory, FindActive, FindLatest, FindName, FindAssigned, FailReading,
       Read, Idle
  <2>2. QED
    BY <1>6, <2>1
<1>8. QED
  BY <1>1, <1>2, <1>3, <1>4, <1>5, <1>7, ReaderSteps DEF Reading

\* As long as requests on one order do not overlap, whoever the dashboard lists as
\* busy is at work on an order its counts show as open, although the two are read
\* one after the other while the orders move on (Build of dashboard.go).
THEOREM BusyWereCountedHolds ==
    ASSUME ~ Overlap
    PROVE  ReadSpec => []BusyWereCounted
<1>1. ReadInit => DashboardInv
  BY DEF ReadInit, Idle, DashboardInv, CountedStill, BusyWereCounted
<1>2. DashboardInv => BusyWereCounted
  BY DEF DashboardInv
<1>3. QED
  BY <1>1, <1>2, StepKeepsDashboard, ReadsTheWorkshop, TypesAndSteps, IsoHolds, CountedTypes, PTL
     DEF ReadSpec

-----------------------------------------------------------------------------
(***************************************************************************)
(* The list.                                                               *)
(***************************************************************************)

\* An order that left RECEIVED was given to somebody, who is named.
LEMMA MovedIsNamed ==
    ASSUME TypeOK, StatusMatchesHistory, MovedOnlyAfterAssigned, NEW o \in Orders,
           status[o] # "RECEIVED", NEW t \in TechnicianNamed(o)
    PROVE  t \in Technicians
<1>1. PICK a \in assignment : a.order = o
  BY DEF StatusMatchesHistory, MovedOnlyAfterAssigned
<1>2. a.technician \in Technicians
  BY <1>1 DEF TypeOK, Assignment
<1>3. EverGiven(o) # {}
  BY <1>1, <1>2 DEF EverGiven
<1>4. CASE IsAssigned(o)
  BY <1>4 DEF TechnicianNamed
<1>5. CASE ~ IsAssigned(o)
  <2>1. TechnicianNamed(o) = EverGiven(o)
    BY <1>3, <1>5 DEF TechnicianNamed
  <2>2. QED
    BY <2>1 DEF EverGiven
<1>6. QED
  BY <1>4, <1>5

LEMMA StepKeepsList ==
    /\ TypeOK /\ StatusMatchesHistory /\ MovedOnlyAfterAssigned /\ OpenedInv /\ CountedTyped
    /\ InProgressIsNamed /\ [ReadNext]_readVars
    => InProgressIsNamed'
<1> SUFFICES ASSUME TypeOK, StatusMatchesHistory, MovedOnlyAfterAssigned, OpenedInv,
                    CountedTyped, InProgressIsNamed, [ReadNext]_readVars
             PROVE  InProgressIsNamed'
  OBVIOUS
<1>1. CASE reader' = reader
  BY <1>1 DEF InProgressIsNamed
<1>2. CASE List
  <2>1. PICK named \in [opened -> Technicians \cup {None}] :
          /\ \A o \in opened : named[o] \in TechnicianNamed(o)
          /\ reader' = [step |-> "list", status |-> status, named |-> named]
    BY <1>2 DEF List, Read
  <2>2. \A o \in opened : status[o] # "RECEIVED" => named[o] # None
    BY <2>1, MovedIsNamed, NoneAssumption DEF OpenedInv
  <2>3. QED
    BY <2>1, <2>2 DEF InProgressIsNamed
<1>3. CASE reader' = Idle \/ CountOrders \/ ListHistory \/ FindActive \/ FindLatest \/ FindName
           \/ FindAssigned \/ FailReading
  <2>1. reader'.step # "list"
    BY <1>3, CountsRead DEF Idle, ListHistory, FindActive, FindLatest, FindName, FindAssigned,
       FailReading, Read
  <2>2. QED
    BY <2>1 DEF InProgressIsNamed
<1>4. CASE Build
  <2>1. reader'.step # "list"
    BY <1>4, BusyRead
  <2>2. QED
    BY <2>1 DEF InProgressIsNamed
<1>5. QED
  BY <1>1, <1>2, <1>3, <1>4, ReaderSteps DEF Reading, readVars

\* The list gives an order in progress the name of a technician, although the
\* assignment may be released by then (serviceOrderSummarySelect).
THEOREM InProgressIsNamedHolds == ReadSpec => []InProgressIsNamed
<1>1. ReadInit => InProgressIsNamed
  BY DEF ReadInit, Idle, InProgressIsNamed
<1>2. QED
  BY <1>1, StepKeepsList, ReadsTheWorkshop, TypesAndSteps, StatusMatchesHistoryHolds,
     MovedOnlyAfterAssignedHolds, OpenedHolds, CountedTypes, PTL DEF ReadSpec

-----------------------------------------------------------------------------
(***************************************************************************)
(* The detail.                                                             *)
(***************************************************************************)

\* Only a delivered order has an assignment that is over.
OverIsDelivered == \A a \in assignment : ~ a.isActive => HasEntered(a.order, "DELIVERED")

LEMMA StepKeepsOver ==
    /\ TypeOK /\ StepsFit /\ BackedInv /\ OverIsDelivered /\ [Next]_vars
    => OverIsDelivered'
<1> SUFFICES ASSUME TypeOK, StepsFit, BackedInv, OverIsDelivered, [Next]_vars,
                    NEW a \in assignment', ~ a.isActive
             PROVE  HasEntered(a.order, "DELIVERED")'
  BY DEF OverIsDelivered
<1>1. \E b \in assignment : b.order = a.order /\ (~ b.isActive \/ b \notin assignment')
  <2>1. CASE a \in assignment
    BY <2>1
  <2>2. CASE a \notin assignment
    <3>1. PICK w \in Workers : Release(w) \/ (Insert(w) /\ ~ UNCHANGED assignment)
      BY <2>2, OnlyReleaseAndInsert DEF Next, vars, db
    <3>2. CASE Release(w)
      <4>1. PICK b \in assignment :
              b.isActive /\ b.order = req[w].order /\ a = Released(b)
        BY <2>2, <3>2 DEF Release
      <4>2. a.order = b.order
        BY <4>1, ReleasedRow DEF TypeOK
      <4>3. b \notin assignment'
        <5>1. \A c \in assignment : ~ Released(c).isActive
          BY ReleasedRow DEF TypeOK
        <5>2. QED
          BY <3>2, <4>1, <5>1 DEF Release
      <4>4. QED
        BY <4>2, <4>3
    <3>3. CASE Insert(w) /\ ~ UNCHANGED assignment
      BY <2>2, <3>3, InsertWrites, InsertedRow
    <3>4. QED
      BY <3>1, <3>2, <3>3
  <2>3. QED
    BY <2>1, <2>2
<1>2. PICK b \in assignment : b.order = a.order /\ (~ b.isActive \/ b \notin assignment')
  BY <1>1
<1>3. b.order \in Orders /\ HasEntered(b.order, "DELIVERED")
  BY <1>2, LostIsDelivered DEF OverIsDelivered, TypeOK, Assignment
<1>4. PICK o \in Orders : o = b.order
  BY <1>3
<1>5. HasEntered(o, "DELIVERED")'
  BY <1>3, <1>4, EnteredStays
<1>6. QED
  BY <1>2, <1>4, <1>5 DEF HasEntered

LEMMA OverHolds == Spec => []OverIsDelivered
<1>1. Init => OverIsDelivered
  BY DEF Init, OverIsDelivered
<1>2. QED
  BY <1>1, StepKeepsOver, TypesAndSteps, BackedHolds, PTL DEF Spec

\* Whoever is named with an order holds it, or the order was delivered.
NamedRightly(o, t) == t = None \/ Holds(o, t) \/ HasEntered(o, "DELIVERED")

LEMMA StaysNamed ==
    ASSUME TypeOK, StepsFit, BackedInv, [Next]_vars, NEW o \in Orders, NEW t,
           NamedRightly(o, t)
    PROVE  NamedRightly(o, t)'
<1>1. CASE HasEntered(o, "DELIVERED")
  BY <1>1, EnteredStays DEF NamedRightly
<1>2. CASE Holds(o, t)
  <2>1. PICK a \in assignment : a.isActive /\ a.order = o /\ a.technician = t
    BY <1>2 DEF Holds
  <2>2. CASE a \in assignment'
    BY <2>1, <2>2 DEF Holds, NamedRightly
  <2>3. CASE a \notin assignment'
    BY <1>1, <2>1, <2>3, LostIsDelivered
  <2>4. QED
    BY <2>2, <2>3
<1>3. QED
  BY <1>1, <1>2 DEF NamedRightly

DetailInv ==
    /\ reader.step \in {"latest", "workload", "assigned"} => reader.order \in Orders
    /\ reader.step = "workload" => NamedRightly(reader.order, reader.responsible)
    /\ reader.step = "assigned" => NamedRightly(reader.order, reader.name)
    /\ DetailIsOfOneTechnician

LEMMA StepKeepsDetail ==
    /\ TypeOK /\ StepsFit /\ BackedInv /\ SingleWorkload /\ OverIsDelivered /\ OpenedInv
    /\ CountedTyped /\ DetailInv /\ [ReadNext]_readVars
    => DetailInv'
<1> SUFFICES ASSUME TypeOK, StepsFit, BackedInv, SingleWorkload, OverIsDelivered, OpenedInv,
                    CountedTyped, DetailInv, [ReadNext]_readVars
             PROVE  DetailInv'
  OBVIOUS
<1>1. CASE UNCHANGED readVars
  BY <1>1 DEF readVars, vars, db, DetailInv, NamedRightly, Holds, HasEntered,
     DetailIsOfOneTechnician
<1>2. CASE reader' = Idle
  BY <1>2 DEF Idle, DetailInv, DetailIsOfOneTechnician
<1>3. CASE reader' = reader /\ reader.step \in {"counted", "latest", "workload", "assigned"}
  <2>1. \A o \in Orders : \A t : NamedRightly(o, t) => NamedRightly(o, t)'
    BY ReadStep, StaysNamed
  <2>2. DetailIsOfOneTechnician'
    BY <1>3 DEF DetailIsOfOneTechnician
  <2>3. (reader.step \in {"latest", "workload", "assigned"} => reader.order \in Orders)'
    BY <1>3 DEF DetailInv
  <2>4. (reader.step = "workload" => NamedRightly(reader.order, reader.responsible))'
    BY <1>3, <2>1 DEF DetailInv, NamedRightly, Holds, HasEntered
  <2>5. (reader.step = "assigned" => NamedRightly(reader.order, reader.name))'
    BY <1>3, <2>1 DEF DetailInv, NamedRightly, Holds, HasEntered
  <2>6. QED
    BY <2>2, <2>3, <2>4, <2>5 DEF DetailInv
<1>4. CASE CountOrders \/ Build \/ List \/ ListHistory \/ FailReading
  <2>1. reader'.step \notin {"latest", "workload", "assigned", "detail"}
    BY <1>4, CountsRead, BusyRead DEF Idle, List, ListHistory, FailReading, Read
  <2>2. QED
    BY <2>1 DEF DetailInv, DetailIsOfOneTechnician
<1>5. CASE FindActive
  BY <1>5 DEF FindActive, Read, OpenedInv, DetailInv, DetailIsOfOneTechnician, NamedRightly,
     Holds, vars, db
<1>6. CASE FindLatest
  <2> DEFINE o == reader.order
  <2>1. o \in Orders /\ UNCHANGED <<assignment, history>>
    BY <1>6 DEF FindLatest, Read, DetailInv, vars, db
  <2>2. PICK t \in Technicians \cup {None} :
          /\ t = None \/ t \in EverGiven(o)
          /\ reader' = [step |-> "workload", order |-> o, responsible |-> t]
    BY <1>6 DEF FindLatest, Read, EverGiven
  <2>3. NamedRightly(o, t)
    BY <2>2 DEF NamedRightly, EverGiven, Holds, OverIsDelivered
  <2>4. NamedRightly(o, t)'
    BY <2>1, <2>2, <2>3 DEF NamedRightly, Holds, HasEntered
  <2>5. QED
    BY <2>1, <2>2, <2>3 DEF DetailInv, DetailIsOfOneTechnician, NamedRightly, Holds, HasEntered
<1>7. CASE FindName
  <2> DEFINE o == reader.order
  <2>1. o \in Orders /\ UNCHANGED <<assignment, history>>
        /\ NamedRightly(o, reader.responsible)
    BY <1>7 DEF FindName, Read, DetailInv, vars, db
  <2>2. \E t : /\ t = None \/ t = reader.responsible
               /\ reader' = [step |-> "assigned", order |-> o, name |-> t]
    BY <1>7 DEF FindName, Read
  <2>3. reader'.step = "assigned" /\ reader'.order = o
        /\ (reader'.name = None \/ reader'.name = reader.responsible)
    BY <2>2
  <2>4. QED
    BY <2>1, <2>3 DEF DetailInv, DetailIsOfOneTechnician, NamedRightly, Holds, HasEntered
<1>8. CASE FindAssigned
  <2> DEFINE o == reader.order
  <2>1. o \in Orders /\ UNCHANGED <<assignment, history>> /\ NamedRightly(o, reader.name)
    BY <1>8 DEF FindAssigned, Read, DetailInv, vars, db
  <2>2. PICK id \in Technicians \cup {None} :
          /\ id # None => Holds(o, id)
          /\ reader' = [step |-> "detail", order |-> o, name |-> reader.name, id |-> id]
    BY <1>8 DEF FindAssigned, Read
  <2>3. reader.name = id \/ reader.name = None \/ id = None \/ HasEntered(o, "DELIVERED")
    <3>1. \A t, u : Holds(o, t) /\ Holds(o, u) => t = u
      BY DEF Holds, SingleWorkload
    <3>2. QED
      BY <2>1, <2>2, <3>1 DEF NamedRightly
  <2>4. reader'.step = "detail" /\ reader'.order = o /\ reader'.name = reader.name
        /\ reader'.id = id
    BY <2>2
  <2>5. QED
    BY <2>1, <2>3, <2>4 DEF DetailInv, DetailIsOfOneTechnician, HasEntered
<1>9. QED
  BY <1>1, <1>2, <1>3, <1>4, <1>5, <1>6, <1>7, <1>8, ReaderSteps DEF Reading

\* The detail of an order is put together from up to four queries.  It names one
\* technician and identifies another only if the order was delivered meanwhile,
\* or before (FindDetail and the handler's second read of the assignment).
THEOREM DetailIsOfOneTechnicianHolds == ReadSpec => []DetailIsOfOneTechnician
<1>1. ReadInit => DetailInv
  BY DEF ReadInit, Idle, DetailInv, DetailIsOfOneTechnician
<1>2. DetailInv => DetailIsOfOneTechnician
  BY DEF DetailInv
<1>3. QED
  BY <1>1, <1>2, StepKeepsDetail, ReadsTheWorkshop, TypesAndSteps, BackedHolds,
     SingleWorkloadHolds, OverHolds, OpenedHolds, CountedTypes, PTL DEF ReadSpec

-----------------------------------------------------------------------------
(***************************************************************************)
(* The transitions.  A request reads the clock after whatever it decides   *)
(* on, so the moments of an order's moves never go back as long as its     *)
(* requests do not overlap.                                                *)
(***************************************************************************)
Moments(o) == movedAt[o]

\* Every move of an order carries a moment, none before that of an earlier move
\* and none to come.
InOrder(o) ==
    /\ Moments(o) \in Seq(Nat)
    /\ Len(Moments(o)) = Len(history[o])
    /\ \A i \in 1..Len(Moments(o)) : Moments(o)[i] <= clock
    /\ \A i, j \in 1..Len(Moments(o)) : i < j => Moments(o)[i] <= Moments(o)[j]

\* A worker about to move its order reads a moment none of the moves is after.
ReadsLast(w) ==
    pc[w] = "updateStatus" =>
        \A o \in Orders : o = req[w].order =>
            \A i \in 1..Len(Moments(o)) : Moments(o)[i] <= since[w]

MomentsInv ==
    /\ clock \in Nat
    /\ since \in [Workers -> Nat] /\ \A w \in Workers : since[w] <= clock
    /\ movedAt \in [Orders -> Seq(Nat)]
    /\ \A o \in Orders : InOrder(o)
    /\ \A w \in Workers : ReadsLast(w)

\* The moment a move is stored with.
LEMMA StoredMoment ==
    ASSUME TypeOK, StepsFit, MomentsInv, NEW w \in Workers, Timed(w)
    PROVE  /\ pc[w] # "idle" /\ movedAt' \in [Orders -> Seq(Nat)]
           /\ \A o \in Orders :
                \/ Moments(o)' = Moments(o) /\ history'[o] = history[o]
                \/ /\ Moves(w) /\ o = req[w].order /\ Len(history'[o]) = Len(history[o]) + 1
                   /\ \E moment \in since[w]..clock : Moments(o)' = Append(Moments(o), moment)
<1>1. Serve(w) \/ Fail(w)
  BY DEF Timed
<1>2. PICK moment \in since[w]..clock :
        movedAt' = [o \in Orders |->
            IF history'[o] = history[o] THEN movedAt[o] ELSE Append(movedAt[o], moment)]
  BY DEF Timed
<1>3. moment \in Nat
  BY DEF MomentsInv
<1>4. pc[w] # "idle"
  BY <1>1 DEF Serve, FindOrder, CheckOwner, CheckAssigned, UpdateStatus, SaveWork, Release,
     CheckTechnician, CheckOrder, LockUser, Insert, UpdateAccess, Fail
<1>5. ASSUME NEW o \in Orders
      PROVE  /\ movedAt'[o] \in Seq(Nat)
             /\ \/ movedAt'[o] = movedAt[o] /\ history'[o] = history[o]
                \/ /\ Moves(w) /\ o = req[w].order /\ Len(history'[o]) = Len(history[o]) + 1
                   /\ movedAt'[o] = Append(movedAt[o], moment)
  <2>1. movedAt[o] \in Seq(Nat)
    BY DEF MomentsInv
  <2>2. CASE history'[o] = history[o]
    BY <1>2, <2>1, <2>2
  <2>3. CASE history'[o] # history[o]
    <3>1. Moves(w)
      BY <1>1, <2>3, OnlyMovesWrite
    <3>2. o = req[w].order /\ Len(history'[o]) = Len(history[o]) + 1
      BY <2>3, <3>1, MoveAppends
    <3>3. movedAt'[o] = Append(movedAt[o], moment)
      BY <1>2, <2>3
    <3>4. QED
      BY <1>3, <2>1, <3>1, <3>2, <3>3, AppendProperties
  <2>4. QED
    BY <2>2, <2>3
<1>6. movedAt' \in [Orders -> Seq(Nat)]
  BY <1>2, <1>5
<1>7. QED
  BY <1>4, <1>5, <1>6 DEF Moments

\* A later moment keeps an order's moves in order.
LEMMA StaysInOrder ==
    ASSUME TypeOK, StepsFit, MomentsInv, NEW w \in Workers, Timed(w), NEW o \in Orders
    PROVE  InOrder(o)'
<1>1. clock' = clock /\ clock \in Nat /\ InOrder(o) /\ since[w] \in Nat
  BY DEF Timed, MomentsInv
<1>2. CASE Moments(o)' = Moments(o) /\ history'[o] = history[o]
  BY <1>1, <1>2 DEF InOrder
<1>3. CASE /\ Moves(w) /\ o = req[w].order /\ Len(history'[o]) = Len(history[o]) + 1
           /\ \E moment \in since[w]..clock : Moments(o)' = Append(Moments(o), moment)
  <2> DEFINE s == Moments(o)
             n == Len(s)
  <2>1. PICK moment \in since[w]..clock : Moments(o)' = Append(s, moment)
    BY <1>3
  <2>2. /\ s \in Seq(Nat) /\ n \in Nat /\ n = Len(history[o])
        /\ \A i \in 1..n : s[i] \in Nat /\ s[i] <= clock
        /\ \A i, j \in 1..n : i < j => s[i] <= s[j]
    BY <1>1 DEF InOrder
  <2>3. \A i \in 1..n : s[i] <= since[w]
    BY <1>3 DEF MomentsInv, ReadsLast, Moves
  <2>4. moment \in Nat /\ moment <= clock /\ since[w] <= moment
    BY <1>1
  <2> DEFINE s2 == Append(s, moment)
  <2> HIDE DEF s
  <2>5. /\ s2 \in Seq(Nat) /\ Len(s2) = n + 1 /\ s2[n + 1] = moment
        /\ \A i \in 1..n : s2[i] = s[i]
    BY <2>2, <2>4
  <2> HIDE DEF s2, n
  <2>6. \A i \in 1..(n + 1) : s2[i] <= clock
    BY <2>2, <2>4, <2>5
  <2>7. \A i, j \in 1..(n + 1) : i < j => s2[i] <= s2[j]
    <3> SUFFICES ASSUME NEW i \in 1..(n + 1), NEW j \in 1..(n + 1), i < j
                 PROVE  s2[i] <= s2[j]
      OBVIOUS
    <3>1. i \in 1..n /\ s2[i] = s[i] /\ s[i] \in Nat
      BY <2>2, <2>5
    <3>2. CASE j = n + 1
      <4>1. s[i] <= since[w] /\ s2[j] = moment
        BY <2>3, <2>5, <3>1, <3>2 DEF n
      <4>2. QED
        BY <1>1, <2>4, <3>1, <4>1
    <3>3. CASE j \in 1..n
      BY <2>2, <2>5, <3>1, <3>3
    <3>4. n \in Nat
      BY <2>2
    <3>5. j = n + 1 \/ j \in 1..n
      BY <3>4
    <3>6. QED
      BY <3>2, <3>3, <3>5
  <2>8. Len(history'[o]) = n + 1
    BY <1>3, <2>2
  <2>9. Moments(o)' = s2 /\ Len(s2) = n + 1
    BY <2>1, <2>5 DEF s2
  <2>10. QED
    BY <1>1, <2>5, <2>6, <2>7, <2>8, <2>9 DEF InOrder
<1>4. QED
  BY <1>2, <1>3, StoredMoment

LEMMA StepKeepsMoments ==
    TypeOK /\ StepsFit /\ Alone /\ MomentsInv /\ [ReadNext]_readVars => MomentsInv'
<1> SUFFICES ASSUME TypeOK, StepsFit, Alone, MomentsInv, [ReadNext]_readVars PROVE MomentsInv'
  OBVIOUS
<1>1. CASE UNCHANGED <<vars, clock, since, movedAt>>
  BY <1>1 DEF vars, db, MomentsInv, InOrder, ReadsLast, Moments
<1>2. CASE Tick
  <2>1. /\ UNCHANGED <<vars, since, movedAt>> /\ clock' = clock + 1
    BY <1>2 DEF Tick
  <2>2. \A n \in Nat : n <= clock => n <= clock'
    BY <2>1 DEF MomentsInv
  <2>3. ASSUME NEW o \in Orders PROVE InOrder(o)'
    <3>1. Moments(o)' = Moments(o) /\ history'[o] = history[o] /\ InOrder(o)
      BY <2>1 DEF Moments, vars, db, MomentsInv
    <3>2. \A i \in 1..Len(Moments(o)) : Moments(o)[i] \in Nat
      BY <3>1 DEF InOrder
    <3>3. QED
      BY <2>2, <3>1, <3>2 DEF InOrder
  <2>4. \A w \in Workers : ReadsLast(w)'
    BY <2>1 DEF vars, db, MomentsInv, ReadsLast, Moments
  <2>5. clock' \in Nat /\ \A w \in Workers : since[w] <= clock'
    BY <2>1, <2>2 DEF MomentsInv
  <2>6. QED
    BY <2>1, <2>3, <2>4, <2>5 DEF MomentsInv
<1>3. ASSUME NEW w \in Workers, AcceptOpened(w)
      PROVE  MomentsInv'
  <2>1. UNCHANGED <<history, clock, since, movedAt>> /\ Accept(w)
    BY <1>3 DEF AcceptOpened, Accept, db
  <2>2. \A o \in Orders : InOrder(o)'
    BY <2>1 DEF MomentsInv, InOrder, Moments
  <2>3. ASSUME NEW v \in Workers PROVE ReadsLast(v)'
    <3>1. CASE v = w
      BY <2>1, <3>1, AcceptStep DEF ReadsLast
    <3>2. CASE v # w
      BY <2>1, <3>2, OthersIdle DEF Idles, MomentsInv, ReadsLast, Moments
    <3>3. QED
      BY <3>1, <3>2
  <2>4. QED
    BY <2>1, <2>2, <2>3 DEF MomentsInv
<1>4. ASSUME NEW w \in Workers, Timed(w)
      PROVE  MomentsInv'
  <2>1. /\ Serve(w) \/ Fail(w)
        /\ since' = [since EXCEPT ![w] = IF pc'[w] = "updateStatus" THEN clock ELSE 0]
        /\ clock' = clock /\ clock \in Nat /\ since \in [Workers -> Nat]
    BY <1>4 DEF Timed, MomentsInv
  <2>2. \A o \in Orders : InOrder(o)'
    BY <1>4, StaysInOrder
  <2>3. since' \in [Workers -> Nat] /\ \A v \in Workers : since'[v] <= clock'
    BY <2>1 DEF MomentsInv
  <2>4. ASSUME NEW v \in Workers, v # w PROVE ReadsLast(v)'
    <3> SUFFICES ASSUME pc'[v] = "updateStatus", NEW o \in Orders, o = req'[v].order
                 PROVE  \A i \in 1..Len(Moments(o)') : Moments(o)'[i] <= since'[v]
      BY DEF ReadsLast
    <3>1. pc[v] = "updateStatus" /\ o = req[v].order /\ since'[v] = since[v]
      BY <2>1, <2>4, OthersIdle DEF Idles
    <3>2. o # None /\ pc[w] # "idle"
      BY <1>4, NoneAssumption, StoredMoment
    <3>3. o # req[w].order
      BY <2>4, <3>1, <3>2 DEF Alone
    <3>4. Moments(o)' = Moments(o)
      BY <1>4, <3>3, StoredMoment
    <3>5. QED
      BY <3>1, <3>4 DEF MomentsInv, ReadsLast
  <2>5. ReadsLast(w)'
    <3> SUFFICES ASSUME pc'[w] = "updateStatus", NEW o \in Orders
                 PROVE  \A i \in 1..Len(Moments(o)') : Moments(o)'[i] <= since'[w]
      BY DEF ReadsLast
    <3>1. since'[w] = clock
      BY <2>1
    <3>2. QED
      BY <2>1, <2>2, <3>1 DEF InOrder
  <2>6. movedAt' \in [Orders -> Seq(Nat)]
    BY <1>4, StoredMoment
  <2>7. QED
    BY <2>1, <2>2, <2>3, <2>4, <2>5, <2>6 DEF MomentsInv
<1>5. CASE (\E o \in Orders : Open(o)) \/ Reading \/ UNCHANGED readVars
  <2>1. UNCHANGED <<vars, clock, since, movedAt>>
    BY <1>5 DEF readVars, Open, Reading, Read, CountOrders, Build, List, ListHistory, FindActive,
       FindLatest, FindName, FindAssigned, FailReading
  <2>2. QED
    BY <1>1, <2>1
<1>6. QED
  BY <1>2, <1>3, <1>4, <1>5 DEF ReadNext

LEMMA MomentsHold ==
    ASSUME ~ Overlap
    PROVE  ReadSpec => []MomentsInv
<1>1. ReadInit => MomentsInv
  BY DEF ReadInit, Init, MomentsInv, InOrder, ReadsLast, Moments
<1>2. IsoInv => Alone
  BY DEF IsoInv
<1>3. QED
  BY <1>1, <1>2, StepKeepsMoments, ReadsTheWorkshop, TypesAndSteps, IsoHolds, PTL DEF ReadSpec

LEMMA StepKeepsListing ==
    /\ MomentsInv /\ OpenedInv /\ CountedTyped /\ ListedAsItHappened /\ [ReadNext]_readVars
    => ListedAsItHappened'
<1> SUFFICES ASSUME MomentsInv, OpenedInv, CountedTyped, ListedAsItHappened, [ReadNext]_readVars
             PROVE  ListedAsItHappened'
  OBVIOUS
<1>1. CASE UNCHANGED readVars
  BY <1>1 DEF readVars, ListedAsItHappened
<1>2. CASE reader' = reader /\ reader.step \in {"counted", "latest", "workload", "assigned"}
  BY <1>2 DEF ListedAsItHappened
<1>3. CASE ListHistory
  <2>1. PICK o \in opened : \E r \in ListTransition(o) :
          Read([step |-> "transitions", order |-> o, rows |-> r])
    BY <1>3 DEF ListHistory
  <2>2. PICK rows \in ListTransition(o) :
          Read([step |-> "transitions", order |-> o, rows |-> rows])
    BY <2>1
  <2>3. /\ reader'.order = o /\ reader'.rows = rows /\ UNCHANGED movedAt
    BY <2>2 DEF Read
  <2> DEFINE n == Len(history[o])
  <2>4. /\ rows \in [1..n -> 1..n]
        /\ \A i, j \in 1..n : i < j => Moments(o)[rows[i]] <= Moments(o)[rows[j]]
    BY DEF ListTransition, Moments
  <2>5. o \in Orders /\ InOrder(o)
    BY DEF OpenedInv, MomentsInv
  <2>6. /\ \A i \in 1..n : Moments(o)[i] \in Nat
        /\ \A i, j \in 1..n : i < j => Moments(o)[i] <= Moments(o)[j]
        /\ n \in Nat
    BY <2>5 DEF InOrder
  <2> HIDE DEF n
  <2>7. ASSUME NEW i \in 1..n, NEW j \in 1..n, i < j, rows[i] > rows[j]
        PROVE  Moments(o)[rows[i]] = Moments(o)[rows[j]]
    <3>1. rows[i] \in 1..n /\ rows[j] \in 1..n /\ rows[j] < rows[i]
      BY <2>4, <2>6, <2>7
    <3>2. /\ Moments(o)[rows[i]] \in Nat /\ Moments(o)[rows[j]] \in Nat
          /\ Moments(o)[rows[i]] <= Moments(o)[rows[j]]
          /\ Moments(o)[rows[j]] <= Moments(o)[rows[i]]
      BY <2>4, <2>6, <2>7, <3>1
    <3>3. QED
      BY <3>2
  <2>8. QED
    BY <2>3, <2>4, <2>7 DEF ListedAsItHappened, Moments
<1>4. CASE reader' = Idle \/ CountOrders \/ Build \/ List \/ FindActive \/ FindLatest
           \/ FindName \/ FindAssigned \/ FailReading
  <2>1. reader'.step # "transitions"
    BY <1>4, CountsRead, BusyRead DEF Idle, List, FindActive, FindLatest, FindName,
       FindAssigned, FailReading, Read
  <2>2. QED
    BY <2>1 DEF ListedAsItHappened
<1>5. QED
  BY <1>1, <1>2, <1>3, <1>4, ReaderSteps DEF Reading

\* As long as requests on one order do not overlap its transitions are listed as
\* they happened, but for those of one second (ListTransition).
THEOREM ListedAsItHappenedHolds ==
    ASSUME ~ Overlap
    PROVE  ReadSpec => []ListedAsItHappened
<1>1. ReadInit => ListedAsItHappened
  BY DEF ReadInit, Idle, ListedAsItHappened
<1>2. QED
  BY <1>1, StepKeepsListing, MomentsHold, OpenedHolds, CountedTypes, PTL DEF ReadSpec

-----------------------------------------------------------------------------
(***************************************************************************)
(* The technicians.                                                        *)
(***************************************************************************)

\* Whoever is given an order is listed, at that moment, as somebody who can receive
\* one: the checks of Assign are reads that may be stale, its insert is not.
THEOREM AssignedOnlyTheEligibleHolds == ReadSpec => AssignedOnlyTheEligible
<1>1. TypeOK /\ StepsFit /\ LockInv /\ SingleInv /\ [ReadNext]_readVars =>
        [\A a \in assignment' \ assignment :
            a.isActive => \A row \in WorkloadRows(a.technician) : CanReceiveAssignment(row)]_readVars
  <2> SUFFICES ASSUME TypeOK, StepsFit, LockInv, SingleInv, [ReadNext]_readVars,
                      NEW a \in assignment', a \notin assignment, a.isActive,
                      NEW row \in WorkloadRows(a.technician)
               PROVE  CanReceiveAssignment(row)
    OBVIOUS
  <2>1. isActive[a.technician] /\ \E w \in Workers : Insert(w) /\ ~ UNCHANGED assignment
    BY ReadStep, GivenIsActive
  <2>2. PICK w \in Workers : Insert(w) /\ ~ UNCHANGED assignment
    BY <2>1
  <2>3. PICK o \in Orders, t \in Technicians :
          ~ MarkerTaken(o, t) /\ assignment' = assignment \cup {NewAssignment(o, t)}
    BY <2>2, InsertWrites
  <2>4. a.technician = t
    BY <2>3, InsertedRow
  <2>5. \A p \in Orders : ~ Holds(p, t)
    BY <2>3 DEF Holds, MarkerTaken, SingleInv, MarkersMatch
  <2>6. row = [technician |-> t, isActive |-> isActive[t], order |-> None, busy |-> FALSE]
    BY <2>4, <2>5 DEF WorkloadRows
  <2>7. QED
    BY <2>1, <2>4, <2>6 DEF CanReceiveAssignment
<1>2. QED
  BY <1>1, ReadsTheWorkshop, TypesAndSteps, LocksHold, SingleHolds, PTL
     DEF ReadSpec, AssignedOnlyTheEligible
=============================================================================
