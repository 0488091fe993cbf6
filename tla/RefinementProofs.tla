--------------------------- MODULE RefinementProofs ---------------------------
(***************************************************************************)
(* Workshop implements Holding whatever overlaps and fails, and            *)
(* AtomicOrders as long as requests on one order come one at a time, for   *)
(* any number of orders, technicians and requests.                         *)
(***************************************************************************)
EXTENDS WorkshopProofs

-----------------------------------------------------------------------------
(***************************************************************************)
(* Workshop implements Holding: every step of a request, whatever it       *)
(* overlaps with and whatever fails, gives a free order to a free          *)
(* technician, delivers an order, lets a delivered one go, or changes      *)
(* nothing of who holds what.                                              *)
(***************************************************************************)
\* With at most one active assignment per order, HolderOf names its technician.
HolderNamed ==
    \A o \in Orders :
        /\ \A t \in Technicians : Holds(o, t) <=> HolderOf(o) = t
        /\ HolderOf(o) = None <=> \A t \in Technicians : ~ Holds(o, t)

LEMMA HolderIs == SingleWorkload => HolderNamed
<1> SUFFICES ASSUME SingleWorkload, NEW o \in Orders
             PROVE  /\ \A t \in Technicians : Holds(o, t) <=> HolderOf(o) = t
                    /\ HolderOf(o) = None <=> \A t \in Technicians : ~ Holds(o, t)
  BY DEF HolderNamed
<1>1. \A t, u \in Technicians : Holds(o, t) /\ Holds(o, u) => t = u
  BY DEF Holds, SingleWorkload
<1>2. CASE IsAssigned(o)
  <2>1. HolderOf(o) \in Technicians /\ Holds(o, HolderOf(o))
    BY <1>2 DEF HolderOf, IsAssigned
  <2>2. QED
    BY <1>1, <2>1, NoneAssumption
<1>3. CASE ~ IsAssigned(o)
  BY <1>3, NoneAssumption DEF HolderOf, IsAssigned
<1>4. QED
  BY <1>2, <1>3

LEMMA HolderIsNext == SingleWorkload' => HolderNamed'
  BY HolderIs, PTL

\* Who holds an order is told by which technicians hold it.
LEMMA SameHolder ==
    ASSUME HolderNamed, HolderNamed', NEW o \in Orders,
           \A t \in Technicians : Holds(o, t)' <=> Holds(o, t)
    PROVE  HolderOf(o)' = HolderOf(o)
<1>1. CASE \E t \in Technicians : Holds(o, t)
  <2>1. PICK t \in Technicians : Holds(o, t) /\ Holds(o, t)'
    BY <1>1
  <2>2. HolderOf(o) = t /\ HolderOf(o)' = t
    BY <2>1 DEF HolderNamed
  <2>3. QED
    BY <2>2
<1>2. CASE \A t \in Technicians : ~ Holds(o, t)
  BY <1>2 DEF HolderNamed
<1>3. QED
  BY <1>1, <1>2

-----------------------------------------------------------------------------
(***************************************************************************)
(* The steps.  `holderOf' and `delivered' stand for the variables of       *)
(* Holding.                                                                *)
(***************************************************************************)

holderOf == [o \in Orders |-> HolderOf(o)]
delivered == {o \in Orders : HasEntered(o, "DELIVERED")}

LEMMA InitHolding == Init => Holding!Init
<1> SUFFICES ASSUME Init PROVE Holding!Init
  OBVIOUS
<1>1. \A o \in Orders : HolderOf(o) = None
  BY DEF Init, HolderOf, IsAssigned, Holds
<1>2. {o \in Orders : HasEntered(o, "DELIVERED")} = {}
  BY DEF Init, HasEntered
<1>3. QED
  BY <1>1, <1>2 DEF Holding!Init

\* What leaves the assignments alone leaves the holders alone.
LEMMA HoldersKept ==
    ASSUME HolderNamed, HolderNamed', UNCHANGED assignment
    PROVE  holderOf' = holderOf
<1>1. \A o \in Orders : HolderOf(o)' = HolderOf(o)
  <2> SUFFICES ASSUME NEW o \in Orders PROVE HolderOf(o)' = HolderOf(o)
    OBVIOUS
  <2>1. \A t \in Technicians : Holds(o, t)' <=> Holds(o, t)
    BY DEF Holds
  <2>2. QED
    BY <2>1, SameHolder
<1>2. QED
  BY <1>1 DEF holderOf

LEMMA DeliveredKept ==
    ASSUME UNCHANGED <<status, history>>
    PROVE  delivered' = delivered
  BY DEF delivered, HasEntered

\* A move delivers its order or changes nothing.
LEMMA MoveDelivers ==
    ASSUME TypeOK, StepsFit, HolderNamed, HolderNamed', NEW w \in Workers, Moves(w),
           UNCHANGED assignment, [Next]_vars
    PROVE  [Holding!Next]_(Holding!vars)
<1>1. PICK o \in Orders : o = req[w].order
  BY DEF Moves
<1>2. holderOf' = holderOf
  BY HoldersKept
<1>3. delivered' = delivered \/ delivered' = delivered \cup {o}
  <2>1. \A p \in Orders : HasEntered(p, "DELIVERED") => HasEntered(p, "DELIVERED")'
    BY EnteredStays
  <2>2. \A p \in Orders \ {o} : HasEntered(p, "DELIVERED")' => HasEntered(p, "DELIVERED")
    <3> SUFFICES ASSUME NEW p \in Orders, p # o
                 PROVE  HasEntered(p, "DELIVERED")' => HasEntered(p, "DELIVERED")
      OBVIOUS
    <3>1. history'[p] = history[p]
      BY <1>1, MoveAppends
    <3>2. QED
      BY <3>1 DEF HasEntered
  <2>3. QED
    BY <2>1, <2>2 DEF delivered
<1>4. CASE delivered' = delivered
  BY <1>2, <1>4 DEF Holding!vars, holderOf, delivered
<1>5. CASE delivered' = delivered \cup {o}
  <2>1. Holding!Deliver(o)
    BY <1>2, <1>5 DEF Holding!Deliver, holderOf, delivered
  <2>2. QED
    BY <2>1 DEF Holding!Next
<1>6. QED
  BY <1>3, <1>4, <1>5

\* A release frees the technician of a delivered order and of no other.
LEMMA ReleaseLetsGo ==
    ASSUME TypeOK, StepsFit, BackedInv, HolderNamed, HolderNamed',
           NEW w \in Workers, Release(w)
    PROVE  [Holding!Next]_(Holding!vars)
<1>1. PICK o \in Orders : o = req[w].order /\ HasEntered(o, "DELIVERED")
  <2>1. pc[w] = "release" /\ req[w] \in Request /\ req[w].op = "advance"
    BY DEF Release, StepsFit, StepFitsRequest
  <2>2. QED
    BY <2>1, RequestFields DEF MovesOrder, BackedInv, BackedStep
<1>2. /\ assignment' = {IF a.isActive /\ a.order = o THEN Released(a) ELSE a : a \in assignment}
      /\ UNCHANGED <<status, history>>
  BY <1>1 DEF Release
<1>3. HolderOf(o)' = None
  <2>1. \A a \in assignment' : ~ (a.isActive /\ a.order = o)
    BY <1>2, ReleasedRow DEF TypeOK
  <2>2. QED
    BY <2>1 DEF Holds, HolderNamed
<1>4. \A p \in Orders \ {o} : HolderOf(p)' = HolderOf(p)
  <2> SUFFICES ASSUME NEW p \in Orders, p # o PROVE HolderOf(p)' = HolderOf(p)
    OBVIOUS
  <2>1. \A t \in Technicians : Holds(p, t)' => Holds(p, t)
    <3> SUFFICES ASSUME NEW a \in assignment', a.isActive, a.order = p PROVE a \in assignment
      BY DEF Holds
    <3>1. QED
      BY <1>2, ReleasedRow DEF TypeOK
  <2>2. \A t \in Technicians : Holds(p, t) => Holds(p, t)'
    <3> SUFFICES ASSUME NEW a \in assignment, a.isActive, a.order = p PROVE a \in assignment'
      BY DEF Holds
    <3>1. QED
      BY <1>2
  <2>3. QED
    BY <2>1, <2>2, SameHolder
<1>5. delivered' = delivered /\ o \in delivered
  BY <1>1, <1>2, DeliveredKept DEF delivered
<1>6. holderOf' = [holderOf EXCEPT ![o] = None]
  BY <1>3, <1>4 DEF holderOf
<1>7. Holding!LetGo(o)
  BY <1>5, <1>6 DEF Holding!LetGo, holderOf, delivered
<1>8. QED
  BY <1>7 DEF Holding!Next

\* An insert that finds no marker taken gives a free order to a free technician.
LEMMA InsertTakes ==
    ASSUME TypeOK, StepsFit, MarkersMatch, HolderNamed, HolderNamed',
           NEW w \in Workers, Insert(w), ~ UNCHANGED assignment
    PROVE  [Holding!Next]_(Holding!vars)
<1>1. PICK o \in Orders, t \in Technicians :
        /\ ~ MarkerTaken(o, t)
        /\ assignment' = assignment \cup {NewAssignment(o, t)}
  BY InsertWrites
<1>2. \A a \in assignment : a.isActive => a.technician # t /\ a.order # o
  BY <1>1 DEF MarkerTaken, MarkersMatch
<1>3. HolderOf(o) = None /\ \A p \in Orders : HolderOf(p) # t
  BY <1>2 DEF Holds, HolderNamed
<1>4. HolderOf(o)' = t
  <2>1. NewAssignment(o, t) \in assignment'
    BY <1>1
  <2>2. Holds(o, t)'
    BY <2>1, InsertedRow DEF Holds
  <2>3. QED
    BY <2>2 DEF HolderNamed
<1>5. \A p \in Orders \ {o} : HolderOf(p)' = HolderOf(p)
  <2> SUFFICES ASSUME NEW p \in Orders, p # o PROVE HolderOf(p)' = HolderOf(p)
    OBVIOUS
  <2>1. \A u \in Technicians : Holds(p, u)' <=> Holds(p, u)
    BY <1>1, InsertedRow DEF Holds
  <2>2. QED
    BY <2>1, SameHolder
<1>6. holderOf' = [holderOf EXCEPT ![o] = t]
  BY <1>4, <1>5 DEF holderOf
<1>7. delivered' = delivered
  BY DeliveredKept DEF Insert
<1>8. Holding!Take(o, t)
  BY <1>3, <1>6, <1>7 DEF Holding!Take, holderOf, delivered
<1>9. QED
  BY <1>8 DEF Holding!Next

LEMMA StepHolding ==
    /\ TypeOK /\ StepsFit /\ BackedInv /\ SingleInv /\ SingleInv' /\ [Next]_vars
    => [Holding!Next]_(Holding!vars)
<1> SUFFICES ASSUME TypeOK, StepsFit, BackedInv, SingleInv, SingleInv', [Next]_vars
             PROVE  [Holding!Next]_(Holding!vars)
  OBVIOUS
<1>1. HolderNamed /\ HolderNamed' /\ MarkersMatch
  BY HolderIs, HolderIsNext DEF SingleInv
<1>2. CASE UNCHANGED <<status, history, assignment>>
  <2>1. holderOf' = holderOf /\ delivered' = delivered
    BY <1>1, <1>2, HoldersKept, DeliveredKept
  <2>2. QED
    BY <2>1 DEF Holding!vars, holderOf, delivered
<1>3. ASSUME NEW w \in Workers, Accept(w) \/ Serve(w) \/ Fail(w)
      PROVE  [Holding!Next]_(Holding!vars)
  <2>1. CASE Release(w)
    BY <1>1, <2>1, ReleaseLetsGo
  <2>2. CASE Insert(w) /\ ~ UNCHANGED assignment
    BY <1>1, <2>2, InsertTakes
  <2>3. CASE UpdateStatus(w) /\ Moves(w)
    BY <1>1, <2>3, MoveDelivers DEF UpdateStatus
  <2>4. CASE UNCHANGED <<status, history, assignment>>
    BY <1>2, <2>4
  <2>5. UNCHANGED <<status, history>> \/ (UpdateStatus(w) /\ Moves(w))
    BY <1>3, OnlyMovesWrite
  <2>6. QED
    BY <1>3, <2>1, <2>2, <2>3, <2>4, <2>5, OnlyReleaseAndInsert
<1>4. QED
  BY <1>2, <1>3 DEF Next, vars, db

LEMMA SingleHolds == Spec => []SingleInv
<1>1. Init => SingleInv
  BY DEF Init, SingleInv, MarkersMatch, SingleWorkload
<1>2. QED
  BY <1>1, TypesAndSteps, StepKeepsSingle, PTL DEF Spec

\* Under every overlap of requests and every failure, the tables keep the promise
\* of Holding: a free technician for a free order, and nobody let go before the
\* delivery.
THEOREM ImplementsHoldingHolds == Spec => ImplementsHolding
  BY InitHolding, StepHolding, SingleHolds, BackedHolds, TypesAndSteps, PTL
     DEF Spec, ImplementsHolding, Holding!Spec

-----------------------------------------------------------------------------
(***************************************************************************)
(* What the write path keeps when requests on one order come one at a      *)
(* time, for any number of orders, technicians and requests on other       *)
(* orders, and whatever call fails.                                        *)
(***************************************************************************)

\* Two requests in flight are on different orders, or on none.
Alone ==
    \A v, w \in Workers :
        v # w /\ pc[v] # "idle" /\ pc[w] # "idle" /\ req[v].order # None
        => req[v].order # req[w].order

\* What a worker has read of its order is still so: the status it will move it
\* from, the status its work belongs to, and that its caller holds the order.
FreshStep(w) ==
    LET r == req[w] IN
    /\ pc[w] = "updateStatus" \/ (pc[w] \in {"checkOwner", "checkAssigned"} /\ r.op = "advance")
        => seen[w] = status[r.order]
    /\ pc[w] = "saveWork" => status[r.order] = Target(r)
    /\ pc[w] \in {"findOrder", "updateStatus", "saveWork"} /\ r.op # "advance"
        => Holds(r.order, r.actor)

Results == HistoryIsLifecycle /\ NoWorkAfterDelivery /\ WorkByHolder

IsoInv == Alone /\ Results /\ \A w \in Workers : FreshStep(w)

\* Who accepts a request while others are under way.
LEMMA StepKeepsAlone ==
    ASSUME ~ Overlap, TypeOK, StepsFit, Alone, [Next]_vars
    PROVE  Alone'
<1>1. CASE UNCHANGED vars
  BY <1>1 DEF vars, Alone
<1>2. ASSUME NEW w \in Workers, Accept(w) \/ Serve(w) \/ Fail(w)
      PROVE  Alone'
  <2> DEFINE Apart(u, v) ==
        u # v /\ pc[u] # "idle" /\ pc[v] # "idle" /\ req[u].order # None
        => req[u].order # req[v].order
  <2>1. \A u, v \in Workers : Apart(u, v)
    BY DEF Alone
  <2>2. \A v \in Workers \ {w} : Idles(v)
    BY <1>2, OthersIdle
  <2>3. CASE pc'[w] = "idle"
    <3> SUFFICES ASSUME NEW u \in Workers, NEW v \in Workers PROVE Apart(u, v)'
      BY DEF Alone
    <3>1. QED
      BY <2>1, <2>2, <2>3 DEF Idles
  <2>4. CASE req'[w] = req[w] /\ pc[w] # "idle"
    <3> SUFFICES ASSUME NEW u \in Workers, NEW v \in Workers PROVE Apart(u, v)'
      BY DEF Alone
    <3>1. QED
      BY <2>1, <2>2, <2>4 DEF Idles
  <2>5. CASE Accept(w)
    <3>1. PICK r \in Request :
            /\ r.order = None \/ \A v \in Workers : pc[v] # "idle" => req[v].order # r.order
            /\ req' = [req EXCEPT ![w] = r]
      BY <2>5 DEF Accept
    <3>2. req'[w] = r
      BY <3>1 DEF TypeOK
    <3> SUFFICES ASSUME NEW u \in Workers, NEW v \in Workers PROVE Apart(u, v)'
      BY DEF Alone
    <3>3. QED
      BY <2>1, <2>2, <3>1, <3>2 DEF Idles
  <2>6. pc[w] # "idle" \/ Accept(w)
    BY <1>2 DEF Serve, FindOrder, CheckOwner, CheckAssigned, UpdateStatus, SaveWork, Release,
       CheckTechnician, CheckOrder, LockUser, Insert, UpdateAccess, Fail
  <2>7. QED
    BY <1>2, <2>3, <2>4, <2>5, <2>6, StepShape
<1>3. QED
  BY <1>1, <1>2 DEF Next

\* A request leaves the other orders as they are: their status, and who holds them.
LEMMA OtherOrdersKept ==
    ASSUME TypeOK, StepsFit, NEW w \in Workers, Accept(w) \/ Serve(w) \/ Fail(w),
           NEW o \in Orders, pc[w] # "idle" => o # req[w].order,
           NEW t
    PROVE  status'[o] = status[o] /\ (Holds(o, t) => Holds(o, t)')
<1>1. status'[o] = status[o]
  <2>1. CASE Moves(w)
    BY <2>1, MoveAppends DEF Moves
  <2>2. CASE UNCHANGED <<status, history>>
    BY <2>2
  <2>3. QED
    BY <2>1, <2>2, OnlyMovesWrite
<1>2. Holds(o, t) => Holds(o, t)'
  <2>1. CASE UNCHANGED assignment
    BY <2>1 DEF Holds
  <2>2. CASE Release(w)
    <3> SUFFICES ASSUME NEW a \in assignment, a.isActive, a.order = o, a.technician = t
                 PROVE  Holds(o, t)'
      BY DEF Holds
    <3>1. a \in assignment'
      BY <2>2 DEF Release
    <3>2. QED
      BY <3>1 DEF Holds
  <2>3. CASE Insert(w)
    BY <2>3 DEF Insert, Holds
  <2>4. QED
    BY <2>1, <2>2, <2>3, OnlyReleaseAndInsert
<1>3. QED
  BY <1>1, <1>2

\* Its own order too, as long as it does not release it.
LEMMA OwnOrderKept ==
    ASSUME TypeOK, StepsFit, NEW w \in Workers, Accept(w) \/ Serve(w) \/ Fail(w),
           ~ Release(w), NEW o, NEW t, Holds(o, t)
    PROVE  Holds(o, t)'
<1>1. CASE UNCHANGED assignment
  BY <1>1 DEF Holds
<1>2. CASE Insert(w)
  BY <1>2 DEF Insert, Holds
<1>3. QED
  BY <1>1, <1>2, OnlyReleaseAndInsert

LEMMA OthersStayFresh ==
    ASSUME TypeOK, StepsFit, Alone, NEW w \in Workers, Accept(w) \/ Serve(w) \/ Fail(w),
           NEW v \in Workers, v # w, FreshStep(v)
    PROVE  FreshStep(v)'
<1>1. Idles(v)
  BY OthersIdle
<1>2. CASE pc[v] \in {"findOrder", "checkOwner", "checkAssigned", "updateStatus", "saveWork"}
  <2>1. PICK o \in Orders, t \in Technicians \cup {Admin} :
          o = req[v].order /\ t = req[v].actor /\ o # None
    BY <1>2, RequestFields DEF StepsFit, StepFitsRequest, MovesOrder
  <2>2. pc[w] # "idle" => o # req[w].order
    BY <1>2, <2>1 DEF Alone
  <2>3. status'[o] = status[o] /\ (Holds(o, t) => Holds(o, t)')
    BY <2>2, OtherOrdersKept
  <2>4. req'[v].order = o /\ req'[v].actor = t
    BY <1>1, <2>1 DEF Idles
  <2>5. Holds(req[v].order, req[v].actor) => Holds(req[v].order, req[v].actor)'
    BY <2>1, <2>3, <2>4 DEF Holds
  <2>6. QED
    BY <1>1, <2>1, <2>3, <2>4, <2>5 DEF Idles, FreshStep, Target
<1>3. CASE pc[v] \notin {"findOrder", "checkOwner", "checkAssigned", "updateStatus", "saveWork"}
  BY <1>1, <1>3 DEF Idles, FreshStep
<1>4. QED
  BY <1>2, <1>3

\* What FindOrder read it has read of the order as it is.
LEMMA FoundIsFresh ==
    ASSUME TypeOK, StepsFit, NEW w \in Workers, FindOrder(w), pc'[w] # "idle"
    PROVE  /\ seen'[w] = status[req[w].order]
           /\ UNCHANGED <<status, assignment>>
  BY FinishIdle DEF FindOrder, TypeOK, db

LEMMA StaysFresh ==
    ASSUME TypeOK, StepsFit, NEW w \in Workers, Accept(w) \/ Serve(w) \/ Fail(w),
           FreshStep(w)
    PROVE  FreshStep(w)'
<1>1. CASE pc'[w] = "idle" \/ Accept(w)
  BY <1>1, AcceptStep DEF FreshStep
<1>2. CASE FindOrder(w) /\ req'[w] = req[w]
            /\ pc'[w] \in {"checkOwner", "checkAssigned", "updateStatus", "saveWork"}
  <2>1. seen'[w] = status[req[w].order] /\ UNCHANGED <<status, assignment>>
    BY <1>2, FoundIsFresh
  <2>2. pc'[w] = "saveWork" => status[req[w].order] = Target(req[w])
    BY <1>2, SavedWithoutMove
  <2>3. req[w].op # "advance" => Holds(req[w].order, req[w].actor)
    BY <1>2 DEF FindOrder, FreshStep
  <2>4. QED
    BY <1>2, <2>1, <2>2, <2>3 DEF FreshStep, Holds, Target
<1>3. CASE CheckOwner(w) /\ req'[w] = req[w]
            /\ pc'[w] \in {"findOrder", "checkAssigned", "updateStatus"}
  <2>1. /\ UNCHANGED <<status, assignment, seen>> /\ pc[w] = "checkOwner"
        /\ Holds(req[w].order, req[w].actor)
    BY <1>3, FinishIdle DEF CheckOwner, db
  <2>2. req[w].op # "advance" => pc'[w] = "findOrder"
    BY <1>3, FinishIdle, GotoStep DEF CheckOwner
  <2>3. QED
    BY <1>3, <2>1, <2>2 DEF FreshStep, Holds, Target
<1>4. CASE CheckAssigned(w) /\ req'[w] = req[w] /\ pc'[w] = "updateStatus"
  <2>1. /\ UNCHANGED <<status, assignment, seen>> /\ pc[w] = "checkAssigned"
        /\ req[w].op = "advance"
    BY <1>4, FinishIdle DEF CheckAssigned, db, StepsFit, StepFitsRequest
  <2>2. QED
    BY <1>4, <2>1 DEF FreshStep
<1>5. CASE /\ UpdateStatus(w) /\ Moves(w) /\ req'[w] = req[w]
           /\ pc'[w] \in {"saveWork", "release"}
  <2>1. status'[req[w].order] = Target(req[w]) /\ UNCHANGED assignment
    BY <1>5, MoveAppends DEF Moves, UpdateStatus
  <2>2. pc[w] = "updateStatus"
    BY <1>5 DEF Moves
  <2>3. QED
    BY <1>5, <2>1, <2>2 DEF FreshStep, Holds, Target
<1>6. CASE pc'[w] \in {"checkOrder", "lockUser", "insert", "updateAccess"}
  BY <1>6 DEF FreshStep
<1>7. QED
  BY <1>1, <1>2, <1>3, <1>4, <1>5, <1>6, StepShape

\* A move from the status the order has adds a step to the walk.
LEMMA MoveKeepsLifecycle ==
    ASSUME TypeOK, StatusMatchesHistory, HistoryIsLifecycle, NEW w \in Workers, Moves(w),
           seen[w] = status[req[w].order]
    PROVE  HistoryIsLifecycle'
<1> SUFFICES ASSUME NEW o \in Orders, NEW i \in 1..Len(history'[o])
             PROVE  /\ history'[o][i].from =
                        IF i = 1 THEN "RECEIVED" ELSE history'[o][i-1].to
                    /\ CanMoveTo(history'[o][i].from, history'[o][i].to)
  BY DEF HistoryIsLifecycle
<1>1. history[o] \in Seq(Transition) /\ Len(history[o]) \in Nat
  BY DEF TypeOK
<1>2. CASE o # req[w].order
  <2>1. history'[o] = history[o]
    BY <1>2, MoveAppends
  <2>2. i \in 1..Len(history[o])
    BY <2>1
  <2>3. /\ history[o][i].from = IF i = 1 THEN "RECEIVED" ELSE history[o][i-1].to
        /\ CanMoveTo(history[o][i].from, history[o][i].to)
    BY <2>2 DEF HistoryIsLifecycle
  <2>4. QED
    BY <2>1, <2>3
<1>3. CASE o = req[w].order
  <2>1. /\ Len(history'[o]) = Len(history[o]) + 1
        /\ history'[o][Len(history[o]) + 1] = [from |-> seen[w], to |-> Target(req[w])]
        /\ \A k \in 1..Len(history[o]) : history'[o][k] = history[o][k]
    BY <1>3, MoveAppends
  <2>2. CASE i \in 1..Len(history[o])
    <3>1. history'[o][i] = history[o][i] /\ (i # 1 => history'[o][i-1] = history[o][i-1])
      BY <1>1, <2>1, <2>2
    <3>2. QED
      BY <2>2, <3>1 DEF HistoryIsLifecycle
  <2>3. CASE i = Len(history[o]) + 1
    <3>1. history'[o][i].from = status[o] /\ history'[o][i].to = Target(req[w])
      BY <1>3, <2>1, <2>3
    <3>2. CanMoveTo(status[o], Target(req[w]))
      BY <1>3 DEF Moves
    <3>3. CASE history[o] = <<>>
      BY <1>1, <2>3, <3>1, <3>2, <3>3 DEF StatusMatchesHistory
    <3>4. CASE history[o] # <<>>
      <4>1. status[o] = history[o][Len(history[o])].to /\ Len(history[o]) # 0
        BY <1>1, <3>4 DEF StatusMatchesHistory
      <4>2. history'[o][i-1] = history[o][Len(history[o])] /\ i # 1
        BY <1>1, <2>1, <2>3, <4>1
      <4>3. QED
        BY <3>1, <3>2, <4>1, <4>2
    <3>5. QED
      BY <3>3, <3>4
  <2>4. QED
    BY <1>1, <2>1, <2>2, <2>3
<1>4. QED
  BY <1>2, <1>3

\* What is stored, is stored on an order in the status it belongs to, by whoever
\* holds it.
LEMMA SaveKeepsWork ==
    ASSUME TypeOK, StepsFit, NoWorkAfterDelivery, WorkByHolder,
           NEW w \in Workers, SaveWork(w), FreshStep(w)
    PROVE  NoWorkAfterDelivery' /\ WorkByHolder'
<1>1. /\ pc[w] = "saveWork" /\ req[w].op \in {"record", "register"}
      /\ status[req[w].order] = Target(req[w])
      /\ Holds(req[w].order, req[w].actor)
  BY DEF SaveWork, StepsFit, StepFitsRequest, FreshStep
<1>2. Target(req[w]) # "DELIVERED"
  BY <1>1 DEF Target
<1>3. \A k \in work' : k \in work \/ (k.at # "DELIVERED" /\ k.owned)
  BY <1>1, <1>2 DEF SaveWork
<1>4. QED
  BY <1>3 DEF NoWorkAfterDelivery, WorkByHolder

LEMMA StepKeepsIso ==
    ASSUME ~ Overlap
    PROVE  TypeOK /\ StepsFit /\ StatusMatchesHistory /\ IsoInv /\ [Next]_vars => IsoInv'
<1> SUFFICES ASSUME TypeOK, StepsFit, StatusMatchesHistory, IsoInv, [Next]_vars
             PROVE  IsoInv'
  OBVIOUS
<1>1. Alone'
  BY StepKeepsAlone DEF IsoInv
<1>2. CASE UNCHANGED vars
  BY <1>1, <1>2 DEF vars, db, IsoInv, Results, HistoryIsLifecycle, NoWorkAfterDelivery,
     WorkByHolder, FreshStep, Holds, Target
<1>3. ASSUME NEW w \in Workers, Accept(w) \/ Serve(w) \/ Fail(w)
      PROVE  IsoInv'
  <2>1. \A v \in Workers : FreshStep(v)'
    BY <1>3, StaysFresh, OthersStayFresh DEF IsoInv
  <2>2. HistoryIsLifecycle'
    <3>1. CASE UNCHANGED <<status, history>>
      BY <3>1 DEF IsoInv, Results, HistoryIsLifecycle
    <3>2. CASE Moves(w)
      BY <3>2, MoveKeepsLifecycle DEF IsoInv, Results, FreshStep, Moves
    <3>3. QED
      BY <1>3, <3>1, <3>2, OnlyMovesWrite
  <2>3. NoWorkAfterDelivery' /\ WorkByHolder'
    <3>1. CASE SaveWork(w)
      BY <3>1, SaveKeepsWork DEF IsoInv, Results
    <3>2. CASE UNCHANGED work
      BY <3>2 DEF IsoInv, Results, NoWorkAfterDelivery, WorkByHolder
    <3>3. QED
      BY <1>3, <3>1, <3>2 DEF Serve, Accept, FindOrder, CheckOwner, CheckAssigned,
         UpdateStatus, Release, CheckTechnician, CheckOrder, LockUser, Insert, UpdateAccess,
         Fail, db
  <2>4. QED
    BY <1>1, <2>1, <2>2, <2>3 DEF IsoInv, Results
<1>4. QED
  BY <1>2, <1>3 DEF Next

LEMMA IsoHolds ==
    ASSUME ~ Overlap
    PROVE  Spec => []IsoInv
<1>1. Init => IsoInv
  BY DEF Init, IsoInv, Alone, Results, HistoryIsLifecycle, NoWorkAfterDelivery,
     WorkByHolder, FreshStep
<1>2. QED
  BY <1>1, StepKeepsIso, TypesAndSteps, StatusMatchesHistoryHolds, PTL DEF Spec

\* As long as no two requests on one order overlap, the history of every order is
\* a walk along the lifecycle, whatever fails half way and whatever happens to
\* the other orders meanwhile.
THEOREM HistoryIsLifecycleHolds ==
    ASSUME ~ Overlap
    PROVE  Spec => []HistoryIsLifecycle
<1>1. IsoInv => HistoryIsLifecycle
  BY DEF IsoInv, Results
<1>2. QED
  BY <1>1, IsoHolds, PTL

\* And no diagnostic or intervention is stored on an order already delivered ...
THEOREM NoWorkAfterDeliveryHolds ==
    ASSUME ~ Overlap
    PROVE  Spec => []NoWorkAfterDelivery
<1>1. IsoInv => NoWorkAfterDelivery
  BY DEF IsoInv, Results
<1>2. QED
  BY <1>1, IsoHolds, PTL

\* ... or by a technician who does not hold it.
THEOREM WorkByHolderHolds ==
    ASSUME ~ Overlap
    PROVE  Spec => []WorkByHolder
<1>1. IsoInv => WorkByHolder
  BY DEF IsoInv, Results
<1>2. QED
  BY <1>1, IsoHolds, PTL

-----------------------------------------------------------------------------
(***************************************************************************)
(* Workshop implements AtomicOrders when requests on one order come one at *)
(* a time.  A move and the release that follows a delivery are two writes; *)
(* to AtomicOrders the technician is free with the first of them.          *)
(***************************************************************************)

\* Only an order already delivered was given to somebody after its delivery.
GivenLate == \A a \in assignment : a.at = "DELIVERED" => status[a.order] = "DELIVERED"

\* Nobody was given the order after its delivery.
NotGivenLate(o) == \A a \in assignment : a.isActive /\ a.order = o => a.at # "DELIVERED"

\* What a worker has seen to of its order is still so: that work starts on an
\* order somebody holds, and that a release is for the delivery just written.
SettledStep(w) ==
    LET r == req[w] IN
    /\ pc[w] = "updateStatus" /\ r.op = "advance" /\ IsOperational(r.next)
        => IsAssigned(r.order)
    /\ pc[w] = "release" => status[r.order] = "DELIVERED" /\ NotGivenLate(r.order)

SettledInv == GivenLate /\ \A w \in Workers : SettledStep(w)

\* The rows of an order only change by a request on it.
LEMMA OtherRowsKept ==
    ASSUME TypeOK, StepsFit, NEW w \in Workers, Accept(w) \/ Serve(w) \/ Fail(w),
           NEW o \in Orders, pc[w] # "idle" => o # req[w].order
    PROVE  \A a : a.order = o => (a \in assignment' <=> a \in assignment)
<1>1. CASE UNCHANGED assignment
  BY <1>1
<1>2. CASE Release(w)
  <2> SUFFICES ASSUME NEW a, a.order = o PROVE a \in assignment' <=> a \in assignment
    OBVIOUS
  <2>1. o # req[w].order /\ assignment' =
          {IF b.isActive /\ b.order = req[w].order THEN Released(b) ELSE b : b \in assignment}
    BY <1>2 DEF Release
  <2>2. \A b \in assignment : Released(b).order = b.order
    BY ReleasedRow DEF TypeOK
  <2>3. QED
    BY <2>1, <2>2
<1>3. CASE Insert(w)
  <2>1. o # req[w].order
    BY <1>3 DEF Insert
  <2>2. CASE UNCHANGED assignment
    BY <2>2
  <2>3. CASE ~ UNCHANGED assignment
    <3>1. /\ req[w].order \in Orders /\ req[w].technician \in Technicians
          /\ assignment' = assignment \cup {NewAssignment(req[w].order, req[w].technician)}
      BY <1>3, <2>3, InsertWrites
    <3>2. NewAssignment(req[w].order, req[w].technician).order = req[w].order
      BY <3>1, InsertedRow
    <3>3. QED
      BY <2>1, <3>1, <3>2
  <2>4. QED
    BY <2>2, <2>3
<1>4. QED
  BY <1>1, <1>2, <1>3, OnlyReleaseAndInsert

LEMMA OthersStaySettled ==
    ASSUME TypeOK, StepsFit, Alone, NEW w \in Workers, Accept(w) \/ Serve(w) \/ Fail(w),
           NEW v \in Workers, v # w, SettledStep(v)
    PROVE  SettledStep(v)'
<1>1. Idles(v)
  BY OthersIdle
<1>2. CASE pc[v] \in {"updateStatus", "release"}
  <2>1. PICK o \in Orders : o = req[v].order /\ o # None
    BY <1>2, RequestFields DEF StepsFit, StepFitsRequest, MovesOrder
  <2>2. pc[w] # "idle" => o # req[w].order
    BY <1>2, <2>1 DEF Alone
  <2>3. status'[o] = status[o]
    BY <2>2, OtherOrdersKept
  <2>4. \A a : a.order = o => (a \in assignment' <=> a \in assignment)
    BY <2>2, OtherRowsKept
  <2>5. req'[v] = req[v] /\ pc'[v] = pc[v]
    BY <1>1 DEF Idles
  <2>6. IsAssigned(o) => IsAssigned(o)'
    BY <2>4 DEF IsAssigned, Holds
  <2>7. NotGivenLate(o) => NotGivenLate(o)'
    BY <2>4 DEF NotGivenLate
  <2>8. (IsAssigned(req[v].order) => IsAssigned(req[v].order)')
        /\ (NotGivenLate(req[v].order) => NotGivenLate(req[v].order)')
    BY <2>1, <2>5, <2>6, <2>7 DEF IsAssigned, Holds, NotGivenLate
  <2>9. QED
    BY <2>1, <2>3, <2>5, <2>8 DEF SettledStep
<1>3. CASE pc[v] \notin {"updateStatus", "release"}
  BY <1>1, <1>3 DEF Idles, SettledStep
<1>4. QED
  BY <1>2, <1>3

LEMMA StaysSettled ==
    ASSUME TypeOK, StepsFit, GivenLate, NEW w \in Workers, Accept(w) \/ Serve(w) \/ Fail(w),
           FreshStep(w), SettledStep(w)
    PROVE  SettledStep(w)'
<1>1. CASE pc'[w] \notin {"updateStatus", "release"}
  BY <1>1 DEF SettledStep
<1>2. CASE Accept(w)
  BY <1>2, AcceptStep DEF SettledStep
<1>3. CASE (FindOrder(w) \/ CheckOwner(w)) /\ req'[w] = req[w] /\ pc'[w] = "updateStatus"
  <2>1. req[w].op = "advance" => ~ IsOperational(req[w].next)
    BY <1>3, FinishIdle, GotoStep DEF FindOrder, CheckOwner, AfterOwner
  <2>2. QED
    BY <1>3, <2>1 DEF SettledStep
<1>4. CASE CheckAssigned(w) /\ req'[w] = req[w] /\ pc'[w] = "updateStatus"
  <2>1. IsAssigned(req[w].order) /\ UNCHANGED assignment
    BY <1>4, FinishIdle DEF CheckAssigned, db
  <2>2. QED
    BY <1>4, <2>1 DEF SettledStep, IsAssigned, Holds
<1>5. CASE UpdateStatus(w) /\ Moves(w) /\ req'[w] = req[w] /\ pc'[w] = "release"
  <2> DEFINE o == req[w].order
  <2>1. o \in Orders /\ UNCHANGED assignment /\ seen[w] = status[o]
    BY <1>5 DEF Moves, UpdateStatus, FreshStep
  <2>2. Target(req[w]) = "DELIVERED"
    <3>1. Goto(w, AfterUpdate(req[w]))
      BY <1>5, FinishIdle DEF UpdateStatus
    <3>2. AfterUpdate(req[w]) = "release"
      BY <1>5, <3>1, GotoStep
    <3>3. QED
      BY <3>2 DEF AfterUpdate, Target
  <2>3. status[o] # "DELIVERED" /\ status'[o] = "DELIVERED"
    BY <1>5, <2>1, <2>2, MoveAppends DEF Moves, CanMoveTo, allowedTransition
  <2>4. NotGivenLate(o)'
    BY <1>5, <2>1, <2>3 DEF NotGivenLate, GivenLate
  <2>5. NotGivenLate(req[w].order)'
    BY <1>5, <2>4 DEF NotGivenLate
  <2>6. QED
    BY <1>5, <2>3, <2>5 DEF SettledStep
<1>6. QED
  BY <1>1, <1>2, <1>3, <1>4, <1>5, StepShape

LEMMA StepKeepsGivenLate ==
    ASSUME TypeOK, StepsFit, GivenLate, NEW w \in Workers, Accept(w) \/ Serve(w) \/ Fail(w),
           FreshStep(w)
    PROVE  GivenLate'
<1>1. CASE UpdateStatus(w) /\ Moves(w)
  <2>1. UNCHANGED assignment /\ seen[w] = status[req[w].order]
    BY <1>1 DEF Moves, UpdateStatus, FreshStep
  <2>2. status[req[w].order] # "DELIVERED"
    BY <1>1, <2>1 DEF Moves, CanMoveTo, allowedTransition
  <2>3. \A a \in assignment : a.order \in Orders
    BY DEF TypeOK, Assignment
  <2>4. \A o \in Orders : o # req[w].order => status'[o] = status[o]
    BY <1>1, MoveAppends
  <2>5. QED
    BY <2>1, <2>2, <2>3, <2>4 DEF GivenLate
<1>2. CASE UNCHANGED <<status, history>> /\ Release(w)
  <2>1. \A a \in Assignment : Released(a).at = a.at /\ Released(a).order = a.order
    BY DEF Released, Assignment
  <2>2. QED
    BY <1>2, <2>1 DEF GivenLate, Release, TypeOK
<1>3. CASE UNCHANGED <<status, history>> /\ Insert(w) /\ ~ UNCHANGED assignment
  <2>1. PICK o \in Orders, t \in Technicians : assignment' = assignment \cup {NewAssignment(o, t)}
    BY <1>3, InsertWrites
  <2>2. NewAssignment(o, t).at = status[o] /\ NewAssignment(o, t).order = o
    BY DEF NewAssignment
  <2>3. QED
    BY <1>3, <2>1, <2>2 DEF GivenLate
<1>4. CASE UNCHANGED <<status, history>> /\ UNCHANGED assignment
  BY <1>4 DEF GivenLate
<1>5. QED
  BY <1>1, <1>2, <1>3, <1>4, OnlyMovesWrite, OnlyReleaseAndInsert

LEMMA StepKeepsSettled ==
    TypeOK /\ StepsFit /\ IsoInv /\ SettledInv /\ [Next]_vars => SettledInv'
<1> SUFFICES ASSUME TypeOK, StepsFit, IsoInv, SettledInv, [Next]_vars
             PROVE  SettledInv'
  OBVIOUS
<1>1. CASE UNCHANGED vars
  BY <1>1 DEF vars, db, SettledInv, GivenLate, SettledStep, IsAssigned, Holds, NotGivenLate
<1>2. ASSUME NEW w \in Workers, Accept(w) \/ Serve(w) \/ Fail(w)
      PROVE  SettledInv'
  BY <1>2, StepKeepsGivenLate, StaysSettled, OthersStaySettled DEF SettledInv, IsoInv
<1>3. QED
  BY <1>1, <1>2 DEF Next

LEMMA SettledHolds ==
    ASSUME ~ Overlap
    PROVE  Spec => []SettledInv
<1>1. Init => SettledInv
  BY DEF Init, SettledInv, GivenLate, SettledStep
<1>2. QED
  BY <1>1, StepKeepsSettled, TypesAndSteps, IsoHolds, PTL DEF Spec

\* The holder of an order to AtomicOrders.
AtomicHolder(o) == IF Unreleased(o) THEN None ELSE HolderOf(o)
atomicHolder == [o \in Orders |-> AtomicHolder(o)]

LEMMA InitAtomic == Init => AtomicOrders!Init
<1> SUFFICES ASSUME Init PROVE AtomicOrders!Init
  OBVIOUS
<1>1. \A o \in Orders : AtomicHolder(o) = None
  BY DEF Init, AtomicHolder, HolderOf, IsAssigned, Holds
<1>2. atomicHolder = [o \in Orders |-> None]
  BY <1>1 DEF atomicHolder
<1>3. QED
  BY <1>2 DEF Init, AtomicOrders!Init, atomicHolder, AtomicHolder

\* The status and the rows of an order tell who holds it.
LEMMA SameAtomicHolder ==
    ASSUME HolderNamed, HolderNamed', NEW o \in Orders, status'[o] = status[o],
           \A a : a.order = o /\ a.isActive => (a \in assignment' <=> a \in assignment)
    PROVE  AtomicHolder(o)' = AtomicHolder(o)
<1>1. \A t \in Technicians : Holds(o, t)' <=> Holds(o, t)
  BY DEF Holds
<1>2. HolderOf(o)' = HolderOf(o)
  BY <1>1, SameHolder
<1>3. Unreleased(o)' <=> Unreleased(o)
  BY DEF Unreleased
<1>4. QED
  BY <1>2, <1>3 DEF AtomicHolder

\* A legal move of an order nobody else is moving is a move of AtomicOrders, and
\* the technician of a delivered order is free with it.
LEMMA AtomicMove ==
    ASSUME TypeOK, StepsFit, IsoInv, SettledInv, HolderNamed, HolderNamed',
           NEW w \in Workers, UpdateStatus(w), Moves(w)
    PROVE  AtomicOrders!Next
<1>1. PICK o \in Orders : o = req[w].order
  BY DEF Moves
<1>2. PICK next \in Status : next = Target(req[w])
  BY DEF Moves
<1>3. CanMoveTo(status[o], next)
  BY <1>1, <1>2 DEF Moves, IsoInv, FreshStep
<1>4. UNCHANGED assignment /\ status' = [status EXCEPT ![o] = next]
  BY <1>1, <1>2 DEF UpdateStatus, Moves
<1>5. status \in [Orders -> Status] /\ status[o] # "DELIVERED" /\ next # status[o]
  BY <1>3 DEF TypeOK, CanMoveTo, allowedTransition, Status
<1>6. AtomicHolder(o) = HolderOf(o)
  BY <1>5 DEF AtomicHolder, Unreleased
<1>7. IsOperational(next) => AtomicHolder(o) # None
  <2> SUFFICES ASSUME IsOperational(next) PROVE IsAssigned(o)
    BY <1>6 DEF HolderNamed, IsAssigned
  <2>1. pc[w] = "updateStatus" /\ req[w] \in Request /\ MovesOrder(req[w])
    BY DEF Moves
  <2>2. CASE req[w].op = "advance"
    BY <1>1, <1>2, <2>1, <2>2 DEF SettledInv, SettledStep, Target
  <2>3. CASE req[w].op # "advance"
    <3>1. req[w].op \in {"record", "register"} /\ Holds(o, req[w].actor)
      BY <1>1, <2>1, <2>3 DEF MovesOrder, IsoInv, FreshStep
    <3>2. req[w].actor \in Technicians
      BY <2>1, <3>1, RequestFields
    <3>3. QED
      BY <3>1, <3>2 DEF IsAssigned
  <2>4. QED
    BY <2>2, <2>3
<1>8. \A p \in Orders \ {o} : AtomicHolder(p)' = AtomicHolder(p)
  BY <1>4, <1>5, SameAtomicHolder
<1>9. AtomicHolder(o)' = IF next = "DELIVERED" THEN None ELSE AtomicHolder(o)
  <2>1. \A t \in Technicians : Holds(o, t)' <=> Holds(o, t)
    BY <1>4 DEF Holds
  <2>2. HolderOf(o)' = HolderOf(o)
    BY <2>1, SameHolder
  <2>3. CASE next # "DELIVERED"
    BY <1>4, <1>5, <1>6, <2>2, <2>3 DEF AtomicHolder, Unreleased
  <2>4. CASE next = "DELIVERED" /\ HolderOf(o)' = None
    BY <2>4 DEF AtomicHolder
  <2>5. CASE next = "DELIVERED" /\ HolderOf(o)' # None
    <3>1. PICK a \in assignment : a.isActive /\ a.order = o
      BY <2>2, <2>5 DEF HolderNamed, Holds
    <3>2. a.at # "DELIVERED"
      BY <1>5, <3>1 DEF SettledInv, GivenLate
    <3>3. Unreleased(o)'
      BY <1>4, <1>5, <2>5, <3>1, <3>2 DEF Unreleased
    <3>4. QED
      BY <2>5, <3>3 DEF AtomicHolder
  <2>6. QED
    BY <2>3, <2>4, <2>5
<1>10. atomicHolder' =
         IF next = "DELIVERED" THEN [atomicHolder EXCEPT ![o] = None] ELSE atomicHolder
  BY <1>8, <1>9 DEF atomicHolder
<1>11. AtomicOrders!CanMoveTo(status[o], next) /\ next \in AtomicOrders!Status
       /\ (AtomicOrders!IsOperational(next) => atomicHolder[o] # None)
  BY <1>3, <1>7 DEF atomicHolder, AtomicOrders!CanMoveTo, AtomicOrders!allowedTransition,
     AtomicOrders!Status, AtomicOrders!IsOperational, CanMoveTo, allowedTransition, Status,
     IsOperational
<1>12. AtomicOrders!Move(o)
  BY <1>4, <1>10, <1>11 DEF AtomicOrders!Move, atomicHolder, AtomicHolder
<1>13. QED
  BY <1>12 DEF AtomicOrders!Next

\* A release only does what the delivery has done already.
LEMMA AtomicRelease ==
    ASSUME TypeOK, StepsFit, SettledInv, HolderNamed, HolderNamed',
           NEW w \in Workers, Release(w)
    PROVE  atomicHolder' = atomicHolder /\ status' = status
<1>1. PICK o \in Orders : o = req[w].order
  BY RequestFields DEF Release, StepsFit, StepFitsRequest, MovesOrder
<1>2. /\ assignment' = {IF a.isActive /\ a.order = o THEN Released(a) ELSE a : a \in assignment}
      /\ UNCHANGED status
      /\ status[o] = "DELIVERED" /\ NotGivenLate(o)
  BY <1>1 DEF Release, SettledInv, SettledStep
<1>3. \A a \in assignment : ~ Released(a).isActive /\ Released(a).order = a.order
  BY ReleasedRow DEF TypeOK
<1>4. \A p \in Orders \ {o} : AtomicHolder(p)' = AtomicHolder(p)
  <2> SUFFICES ASSUME NEW p \in Orders, p # o PROVE AtomicHolder(p)' = AtomicHolder(p)
    OBVIOUS
  <2>1. \A a : a.order = p /\ a.isActive => (a \in assignment' <=> a \in assignment)
    BY <1>2, <1>3
  <2>2. QED
    BY <1>2, <2>1, SameAtomicHolder
<1>5. AtomicHolder(o)' = None
  <2>1. \A a \in assignment' : ~ (a.isActive /\ a.order = o)
    BY <1>2, <1>3
  <2>2. HolderOf(o)' = None
    BY <2>1 DEF Holds, HolderNamed
  <2>3. QED
    BY <2>2 DEF AtomicHolder
<1>6. AtomicHolder(o) = None
  <2>1. CASE \E t \in Technicians : Holds(o, t)
    BY <1>2, <2>1 DEF Holds, NotGivenLate, AtomicHolder, Unreleased
  <2>2. CASE \A t \in Technicians : ~ Holds(o, t)
    BY <2>2 DEF HolderNamed, AtomicHolder
  <2>3. QED
    BY <2>1, <2>2
<1>7. QED
  BY <1>2, <1>4, <1>5, <1>6 DEF atomicHolder

\* An insert that finds no marker taken gives a free order to a free technician,
\* who keeps it in whatever status it is.
LEMMA AtomicInsert ==
    ASSUME TypeOK, StepsFit, MarkersMatch, HolderNamed, HolderNamed',
           NEW w \in Workers, Insert(w), ~ UNCHANGED assignment
    PROVE  AtomicOrders!Next
<1>1. PICK o \in Orders, t \in Technicians :
        /\ ~ MarkerTaken(o, t)
        /\ assignment' = assignment \cup {NewAssignment(o, t)}
  BY InsertWrites
<1>2. \A a \in assignment : a.isActive => a.technician # t /\ a.order # o
  BY <1>1 DEF MarkerTaken, MarkersMatch
<1>3. UNCHANGED status
  BY DEF Insert
<1>4. AtomicHolder(o) = None
  <2>1. HolderOf(o) = None
    BY <1>2 DEF Holds, HolderNamed
  <2>2. QED
    BY <2>1 DEF AtomicHolder
<1>5. \A p \in Orders : AtomicHolder(p) # t
  <2>1. \A p \in Orders : HolderOf(p) # t
    BY <1>2 DEF Holds, HolderNamed
  <2>2. QED
    BY <2>1, NoneAssumption DEF AtomicHolder
<1>6. NewAssignment(o, t).order = o /\ NewAssignment(o, t).technician = t
      /\ NewAssignment(o, t).isActive /\ NewAssignment(o, t).at = status[o]
  BY DEF NewAssignment
<1>7. AtomicHolder(o)' = t
  <2>1. Holds(o, t)'
    BY <1>1, <1>6 DEF Holds
  <2>2. HolderOf(o)' = t
    BY <2>1 DEF HolderNamed
  <2>3. ~ Unreleased(o)'
    BY <1>1, <1>2, <1>3, <1>6 DEF Unreleased
  <2>4. QED
    BY <2>2, <2>3 DEF AtomicHolder
<1>8. \A p \in Orders \ {o} : AtomicHolder(p)' = AtomicHolder(p)
  <2> SUFFICES ASSUME NEW p \in Orders, p # o PROVE AtomicHolder(p)' = AtomicHolder(p)
    OBVIOUS
  <2>1. \A a : a.order = p /\ a.isActive => (a \in assignment' <=> a \in assignment)
    BY <1>1, <1>6
  <2>2. QED
    BY <1>3, <2>1, SameAtomicHolder
<1>9. atomicHolder' = [atomicHolder EXCEPT ![o] = t]
  BY <1>7, <1>8 DEF atomicHolder
<1>10. AtomicOrders!Assign(o, t)
  BY <1>3, <1>4, <1>5, <1>9 DEF AtomicOrders!Assign, atomicHolder, AtomicHolder
<1>11. QED
  BY <1>10 DEF AtomicOrders!Next

LEMMA StepAtomic ==
    /\ TypeOK /\ StepsFit /\ IsoInv /\ SettledInv /\ SingleInv /\ SingleInv' /\ [Next]_vars
    => [AtomicOrders!Next]_(AtomicOrders!vars)
<1> SUFFICES ASSUME TypeOK, StepsFit, IsoInv, SettledInv, SingleInv, SingleInv', [Next]_vars
             PROVE  [AtomicOrders!Next]_(AtomicOrders!vars)
  OBVIOUS
<1>1. HolderNamed /\ HolderNamed' /\ MarkersMatch
  BY HolderIs, HolderIsNext DEF SingleInv
<1>2. CASE UNCHANGED <<status, assignment>>
  <2>1. \A o \in Orders : AtomicHolder(o)' = AtomicHolder(o)
    BY <1>1, <1>2, SameAtomicHolder
  <2>2. atomicHolder' = atomicHolder
    BY <2>1 DEF atomicHolder
  <2>3. QED
    BY <1>2, <2>2 DEF AtomicOrders!vars, atomicHolder, AtomicHolder
<1>3. ASSUME NEW w \in Workers, Accept(w) \/ Serve(w) \/ Fail(w)
      PROVE  [AtomicOrders!Next]_(AtomicOrders!vars)
  <2>1. CASE Release(w)
    <3>1. atomicHolder' = atomicHolder /\ status' = status
      BY <1>1, <2>1, AtomicRelease
    <3>2. QED
      BY <3>1 DEF AtomicOrders!vars, atomicHolder, AtomicHolder
  <2>2. CASE Insert(w) /\ ~ UNCHANGED assignment
    BY <1>1, <2>2, AtomicInsert
  <2>3. CASE UpdateStatus(w) /\ Moves(w)
    BY <1>1, <2>3, AtomicMove
  <2>4. CASE UNCHANGED <<status, assignment>>
    BY <1>2, <2>4
  <2>5. UNCHANGED status \/ (UpdateStatus(w) /\ Moves(w))
    BY <1>3, OnlyMovesWrite
  <2>6. QED
    BY <1>3, <2>1, <2>2, <2>3, <2>4, <2>5, OnlyReleaseAndInsert
<1>4. QED
  BY <1>2, <1>3 DEF Next, vars, db

\* As long as no two requests on one order overlap, the chains of database calls
\* look like the atomic operations of AtomicOrders, whatever call fails half way
\* and whatever goes on with other orders (Advance, Record, Register, Assign).
THEOREM ImplementsAtomicOrdersHolds ==
    ASSUME ~ Overlap
    PROVE  Spec => ImplementsAtomicOrders
  BY InitAtomic, StepAtomic, SingleHolds, SettledHolds, IsoHolds, TypesAndSteps, PTL
     DEF Spec, ImplementsAtomicOrders, AtomicOrders!Spec
=============================================================================
