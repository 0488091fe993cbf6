---------------------------- MODULE RowLockProofs ----------------------------
(***************************************************************************)
(* The write path with its row locks is the write path without them, and   *)
(* what its deadlocks are about, for any number of orders, technicians and *)
(* requests.                                                               *)
(***************************************************************************)
EXTENDS RowLocks, WorkshopProofs

\* A step with locks is a step without them, a victim being a call that fails,
\* or the first statement of a move, which nobody else sees.
LEMMA LockStep ==
    ASSUME [LockNext]_lockVars
    PROVE  [Next]_vars
<1>1. CASE UNCHANGED lockVars
  BY <1>1 DEF lockVars
<1>2. ASSUME NEW w \in Workers, Accept(w) \/ LockServe(w) \/ Victim(w)
      PROVE  [Next]_vars
  <2>1. CASE Accept(w)
    BY <2>1 DEF Next
  <2>2. CASE LockOrder(w)
    BY <2>2 DEF LockOrder
  <2>3. CASE Move(w) \/ Proceed(w) \/ Read(w)
    BY <2>3 DEF Move, Proceed, Read, Next, Serve
  <2>4. CASE Victim(w)
    <3>1. pc[w] # "idle"
      <4>1. WaitsFor(w) # {}
        BY <2>4 DEF Victim, Deadlocked
      <4>2. QED
        BY <4>1 DEF WaitsFor
    <3>2. Fail(w)
      BY <2>4, <3>1, VictimAssumption DEF Victim, Fail
    <3>3. QED
      BY <3>2 DEF Next
  <2>5. QED
    BY <1>2, <2>1, <2>2, <2>3, <2>4 DEF LockServe
<1>3. QED
  BY <1>1, <1>2 DEF LockNext

\* Whatever the row locks do, they add no behaviour to Workshop: all that holds
\* there holds with them.
THEOREM ImplementsWorkshopHolds == LockSpec => ImplementsWorkshop
<1>1. LockInit => Init
  BY DEF LockInit
<1>2. QED
  BY <1>1, LockStep, PTL DEF LockSpec, Spec, ImplementsWorkshop

-----------------------------------------------------------------------------
(***************************************************************************)
(* A technician who moves an order holds it, or it was delivered.          *)
(***************************************************************************)

Moving == {"findOrder", "checkAssigned", "updateStatus"}

HoldsOrDelivered(w) ==
    pc[w] \in Moving /\ req[w].actor \in Technicians
        /\ ~ (pc[w] = "findOrder" /\ req[w].op = "advance")
    => Holds(req[w].order, req[w].actor) \/ HasEntered(req[w].order, "DELIVERED")

MoversInv == \A w \in Workers : HoldsOrDelivered(w)

LEMMA HeldUntilDelivered ==
    ASSUME TypeOK, StepsFit, BackedInv, [Next]_vars, NEW o \in Orders, NEW t,
           Holds(o, t) \/ HasEntered(o, "DELIVERED")
    PROVE  Holds(o, t)' \/ HasEntered(o, "DELIVERED")'
<1>1. CASE HasEntered(o, "DELIVERED")
  BY <1>1, EnteredStays
<1>2. CASE Holds(o, t) /\ UNCHANGED assignment
  BY <1>2 DEF Holds
<1>3. CASE Holds(o, t) /\ ~ UNCHANGED assignment
  <2>1. PICK w \in Workers : Accept(w) \/ Serve(w) \/ Fail(w)
    BY <1>3 DEF Next, vars, db
  <2>2. CASE Insert(w)
    BY <1>3, <2>2 DEF Insert, Holds
  <2>3. CASE Release(w)
    <3>1. PICK a \in assignment : a.isActive /\ a.order = o /\ a.technician = t
      BY <1>3 DEF Holds
    <3>2. CASE req[w].order = o
      <4>1. HasEntered(o, "DELIVERED")
        BY <2>3, <3>2 DEF Release, BackedInv, BackedStep
      <4>2. QED
        BY <4>1, EnteredStays
    <3>3. CASE req[w].order # o
      BY <2>3, <3>1, <3>3 DEF Release, Holds
    <3>4. QED
      BY <3>2, <3>3
  <2>4. QED
    BY <1>3, <2>1, <2>2, <2>3, OnlyReleaseAndInsert
<1>4. QED
  BY <1>1, <1>2, <1>3

LEMMA StepKeepsMovers ==
    TypeOK /\ StepsFit /\ BackedInv /\ MoversInv /\ [Next]_vars => MoversInv'
<1> SUFFICES ASSUME TypeOK, StepsFit, BackedInv, MoversInv, [Next]_vars
             PROVE  MoversInv'
  OBVIOUS
<1>1. CASE UNCHANGED vars
  BY <1>1 DEF vars, db, MoversInv, HoldsOrDelivered, Holds, HasEntered
<1>2. ASSUME NEW w \in Workers, Accept(w) \/ Serve(w) \/ Fail(w), NEW v \in Workers
      PROVE  HoldsOrDelivered(v)'
  <2>1. ASSUME req'[v] = req[v], req[v].order \in Orders,
               Holds(req[v].order, req[v].actor) \/ HasEntered(req[v].order, "DELIVERED")
        PROVE  HoldsOrDelivered(v)'
    <3>1. PICK o \in Orders, t \in {req[v].actor} : o = req[v].order
      BY <2>1
    <3>2. Holds(o, t)' \/ HasEntered(o, "DELIVERED")'
      BY <2>1, <3>1, HeldUntilDelivered
    <3>3. QED
      BY <2>1, <3>1, <3>2 DEF HoldsOrDelivered, Holds, HasEntered
  <2>2. pc[v] \in Moving \cup {"checkOwner"} => req[v].order \in Orders
    BY RequestFields DEF StepsFit, StepFitsRequest, Moving, MovesOrder
  <2>3. CASE v # w
    <3>1. Idles(v) /\ HoldsOrDelivered(v)
      BY <1>2, <2>3, OthersIdle DEF MoversInv
    <3>2. QED
      BY <2>1, <2>2, <3>1 DEF Idles, HoldsOrDelivered
  <2>4. CASE v = w
    <3>1. CASE pc'[w] \notin Moving \/ Accept(w)
      BY <2>4, <3>1, AcceptStep DEF HoldsOrDelivered, Moving
    <3>2. CASE CheckOwner(w) /\ pc'[w] # "idle" /\ req'[w] = req[w]
      <4>1. Holds(req[w].order, req[w].actor) /\ pc[w] = "checkOwner"
        BY <3>2, FinishIdle DEF CheckOwner
      <4>2. QED
        BY <2>1, <2>2, <2>4, <3>2, <4>1
    <3>3. CASE CheckAssigned(w) /\ pc'[w] = "updateStatus" /\ req'[w] = req[w]
      <4>1. pc[w] = "checkAssigned"
        BY <3>3 DEF CheckAssigned
      <4>2. QED
        BY <2>1, <2>2, <2>4, <3>3, <4>1 DEF MoversInv, HoldsOrDelivered, Moving
    <3>4. CASE FindOrder(w) /\ pc'[w] \in Moving /\ req'[w] = req[w]
      <4>1. pc[w] = "findOrder"
        BY <3>4 DEF FindOrder
      <4>2. CASE req[w].op # "advance"
        BY <2>1, <2>2, <2>4, <3>4, <4>1, <4>2 DEF MoversInv, HoldsOrDelivered, Moving
      <4>3. CASE req[w].op = "advance"
        <5>1. req[w].actor = Admin
          BY <3>4, <4>1, <4>3, FinishIdle, GotoStep DEF FindOrder, Moving
        <5>2. QED
          BY <2>4, <3>4, <5>1, AdminAssumption DEF HoldsOrDelivered
      <4>4. QED
        BY <4>2, <4>3
    <3>5. QED
      BY <1>2, <3>1, <3>2, <3>3, <3>4, StepShape DEF Moving
  <2>5. QED
    BY <2>3, <2>4
<1>3. QED
  BY <1>1, <1>2 DEF Next, MoversInv

LEMMA MoversHold == Spec => []MoversInv
<1>1. Init => MoversInv
  BY DEF Init, MoversInv, HoldsOrDelivered, Moving
<1>2. QED
  BY <1>1, StepKeepsMovers, TypesAndSteps, BackedHolds, PTL DEF Spec

-----------------------------------------------------------------------------
\* A move can be part of a deadlock only on an order that was delivered while the
\* move was on its way; on any other order the "canonical lock order" holds.
THEOREM DeadlockIsStaleHolds == LockSpec => []DeadlockIsStale
<1>1. StepsFit /\ LockInv /\ MarkersMatch /\ MoversInv => DeadlockIsStale
  <2> SUFFICES ASSUME StepsFit, LockInv, MarkersMatch, MoversInv,
                      NEW v \in Workers, NEW w \in Workers,
                      pc[v] = "updateStatus", HasWritten(v),
                      w \in WaitsFor(v), WaitsFor(w) # {}
               PROVE  HasEntered(req[v].order, "DELIVERED")
    BY DEF DeadlockIsStale
  <2>1. w = OwnerOfAccount(req[v].actor) /\ w # None
    BY DEF WaitsFor
  <2>2. req[v].actor \in Technicians /\ userLock[req[v].actor] = w
    BY <2>1 DEF OwnerOfAccount
  <2>3. pc[w] \in LockHolding /\ req[w].technician = req[v].actor
    BY <2>2 DEF LockInv, LocksFit
  <2>4. pc[w] = "insert" /\ ~ MarkerTaken(req[w].order, req[w].technician)
    BY <2>3 DEF WaitsFor, LockHolding
  <2>5. ~ Holds(req[v].order, req[v].actor)
    BY <2>3, <2>4 DEF MarkerTaken, MarkersMatch, Holds
  <2>6. QED
    BY <2>2, <2>5 DEF MoversInv, HoldsOrDelivered, Moving
<1>2. Init => SingleInv
  BY DEF Init, SingleInv, MarkersMatch, SingleWorkload
<1>3. SingleInv => MarkersMatch
  BY DEF SingleInv
<1>4. Spec => []SingleInv
  BY <1>2, StepKeepsSingle, TypesAndSteps, PTL DEF Spec
<1>5. QED
  BY <1>1, <1>3, <1>4, ImplementsWorkshopHolds, TypesAndSteps, LocksHold, MoversHold, PTL
     DEF ImplementsWorkshop
=============================================================================
