----------------------------- MODULE ScreenProofs -----------------------------
(***************************************************************************)
(* Proofs about Policy and OrderScreen, for every set of technicians and   *)
(* every bound.                                                            *)
(***************************************************************************)
EXTENDS OrderScreen, TLAPS

\* The table gives each status at most one successor, which is what Next finds.
LEMMA NextIsSuccessor ==
    ASSUME NEW s \in Status
    PROVE  /\ Next(s) \in Status \cup {None}
           /\ \A n \in Status : CanMoveTo(s, n) <=> (Next(s) # None /\ n = Next(s))
<1> DEFINE succ == allowedTransition[s]
<1>1. /\ s = "RECEIVED" => succ = {"IN_DIAGNOSIS"}
      /\ s = "IN_DIAGNOSIS" => succ = {"IN_REPAIR"}
      /\ s = "IN_REPAIR" => succ = {"READY"}
      /\ s = "READY" => succ = {"DELIVERED"}
      /\ s = "DELIVERED" => succ = {}
  BY DEF allowedTransition, Status
<1>2. CASE s = "DELIVERED"
  <2>1. succ = {} /\ Next(s) = None
    BY <1>1, <1>2 DEF Next
  <2> QED
    BY <2>1 DEF CanMoveTo
<1>3. CASE s # "DELIVERED"
  <2>1. PICK n \in Status : succ = {n}
    BY <1>1, <1>3 DEF Status
  <2>2. Next(s) = CHOOSE m \in {n} : TRUE
    BY <2>1 DEF Next
  <2>3. Next(s) = n
    BY <2>2
  <2> QED
    BY <2>1, <2>3, NoStatusAssumption DEF CanMoveTo
<1> QED
  BY <1>2, <1>3

\* What the client is told a user may do is what the use cases accept from that
\* user, for every user, status and holder (policy.go against the checks of
\* Advance, Record and Register); an assignment is granted on an open order to
\* whom Assign lets assign, whether or not the order has a technician.
THEOREM PermissionsAreExact ==
    ASSUME NEW user \in User, NEW s \in Status, NEW h \in Holder
    PROVE  LET shown == Permissions(user, s, h) IN
           /\ shown.canAdvance <=> \E next \in Status : AcceptsAdvance(user, s, h, next)
           /\ shown.canAdvance => AcceptsAdvance(user, s, h, Next(s))
           /\ shown.canAddDiagnostic <=> AcceptsDiagnostic(user, s, h)
           /\ shown.canAddIntervention <=> AcceptsIntervention(user, s, h)
           /\ shown.canAssign <=> s # "DELIVERED" /\ AcceptsAssign(user, None)
<1> DEFINE shown == Permissions(user, s, h)
<1>1. ~ \E n \in Status : CanMoveTo("DELIVERED", n)
  BY DEF CanMoveTo, allowedTransition, Status
<1>0. user # None
  BY UsersAssumption DEF User
<1>2. /\ shown.canAdvance = (s # "DELIVERED" /\ (user = Admin \/ user = h) /\ MayAdvance(s, h))
      /\ shown.canAddDiagnostic = (s # "DELIVERED" /\ user = h /\ CanAddDiagnostic(s))
      /\ shown.canAddIntervention = (s # "DELIVERED" /\ user = h /\ CanAddIntervention(s))
  BY <1>0 DEF Permissions
<1>3. shown.canAdvance => AcceptsAdvance(user, s, h, Next(s)) /\ Next(s) \in Status
  BY <1>2, NextIsSuccessor, NoStatusAssumption DEF MayAdvance, AcceptsAdvance
<1>4. ASSUME NEW next \in Status, AcceptsAdvance(user, s, h, next)
      PROVE  shown.canAdvance
  <2>1. CanMoveTo(s, next) /\ next = Next(s) /\ Next(s) # None
    BY <1>4, NextIsSuccessor DEF AcceptsAdvance
  <2>2. s # "DELIVERED"
    BY <1>1, <2>1
  <2> QED
    BY <1>2, <1>4, <2>1, <2>2 DEF AcceptsAdvance, MayAdvance
<1>5. /\ shown.canAddDiagnostic <=> AcceptsDiagnostic(user, s, h)
      /\ shown.canAddIntervention <=> AcceptsIntervention(user, s, h)
  BY <1>2 DEF AcceptsDiagnostic, AcceptsIntervention, CanAddDiagnostic, CanAddIntervention
<1>6. shown.canAssign <=> s # "DELIVERED" /\ AcceptsAssign(user, None)
  BY DEF Permissions, AcceptsAssign, CanAssignTechnician
<1> QED
  BY <1>3, <1>4, <1>5, <1>6

-----------------------------------------------------------------------------
\* What is known was written: nothing read, written or confirmed is newer than
\* the order.
Known ==
    /\ \A p \in 1..Len(presses) : presses[p].version <= order.version
    /\ confirmed <= order.version

\* While no reload waits for its effect, what the current load has read is not
\* older than the last confirmation.
CurrentIsFresh ==
    ~ pending /\ loads[Len(loads)].step \in {"findHolder", "answered"} =>
        loads[Len(loads)].detail.version >= confirmed

\* The inductive invariant of the page.
ScreenInv == TypeOK /\ Known /\ CurrentIsFresh /\ ConfirmedIsShown

LEMMA ScreenInit == Init => ScreenInv
<1> SUFFICES ASSUME Init PROVE ScreenInv
  OBVIOUS
<1>1. NewOrder \in Detail /\ NewLoad \in Load
  BY DEF NewOrder, NewLoad, Detail, Load, Status, Holder
<1>2. loads \in Seq(Load) /\ loads # <<>> /\ Len(loads) = 1 /\ loads[1] = NewLoad
  BY <1>1 DEF Init
<1>3. presses \in Seq(Press) /\ Len(presses) = 0
  BY DEF Init
<1>4. screen \in Screen /\ ~ Visible
  BY DEF Init, Loading, Screen, Visible
<1>5. TypeOK
  <2>1. viewer \in User /\ order \in Detail /\ pending \in BOOLEAN
    BY <1>1 DEF Init
  <2>2. sending \in 0..Len(presses) /\ confirmed \in Nat
    BY <1>3 DEF Init
  <2> QED
    BY <1>2, <1>3, <1>4, <2>1, <2>2 DEF TypeOK
<1>6. Known /\ CurrentIsFresh /\ ConfirmedIsShown
  BY <1>2, <1>3, <1>4 DEF Init, Known, CurrentIsFresh, ConfirmedIsShown, NewOrder, NewLoad
<1> QED
  BY <1>5, <1>6 DEF ScreenInv

\* A load that is replaced by a load keeps the sequence of loads one.
LEMMA ReplaceLoad ==
    ASSUME loads \in Seq(Load), loads # <<>>, NEW l \in 1..Len(loads), NEW x \in Load,
           loads' = [loads EXCEPT ![l] = x]
    PROVE  /\ loads' \in Seq(Load) /\ loads' # <<>> /\ Len(loads') = Len(loads)
           /\ loads'[l] = x
           /\ \A k \in 1..Len(loads) : k # l => loads'[k] = loads[k]
  OBVIOUS

\* The same for presses.
LEMMA ReplacePress ==
    ASSUME presses \in Seq(Press), NEW p \in 1..Len(presses), NEW x \in Press,
           presses' = [presses EXCEPT ![p] = x]
    PROVE  /\ presses' \in Seq(Press) /\ Len(presses') = Len(presses)
           /\ presses'[p] = x
           /\ \A k \in 1..Len(presses) : k # p => presses'[k] = presses[k]
  OBVIOUS

\* What each field of the rows is, for the steps below.
LEMMA Fields ==
    ASSUME TypeOK
    PROVE  /\ order.status \in Status /\ order.holder \in Holder /\ order.version \in Nat
           /\ Len(loads) \in Nat \ {0} /\ Len(presses) \in Nat
           /\ \A l \in 1..Len(loads) : loads[l] \in Load
           /\ \A p \in 1..Len(presses) : presses[p] \in Press
           /\ screen \in Screen /\ confirmed \in Nat
<1>1. order.status \in Status /\ order.holder \in Holder /\ order.version \in Nat
  BY DEF TypeOK, Detail
<1>2. Len(loads) \in Nat \ {0} /\ \A l \in 1..Len(loads) : loads[l] \in Load
  <2>1. loads \in Seq(Load) /\ loads # <<>>
    BY DEF TypeOK
  <2> QED
    BY <2>1
<1>3. Len(presses) \in Nat /\ \A p \in 1..Len(presses) : presses[p] \in Press
  <2>1. presses \in Seq(Press)
    BY DEF TypeOK
  <2> QED
    BY <2>1
<1> QED
  BY <1>1, <1>2, <1>3 DEF TypeOK

\* A load step that reads leaves the page alone and reads the order as it is.
LEMMA ReadKeepsInv ==
    ASSUME ScreenInv, NEW l \in 1..Len(loads), NEW x \in Load,
           loads' = [loads EXCEPT ![l] = x], UNCHANGED <<viewer, order, presses, page>>,
           x.step \in {"findHolder", "answered"},
           \/ x.detail.version = order.version
           \/ /\ loads[l].step \in {"findHolder", "answered"}
              /\ x.detail.version = loads[l].detail.version
    PROVE  ScreenInv'
<1>1. /\ loads' \in Seq(Load) /\ loads' # <<>> /\ Len(loads') = Len(loads)
      /\ loads'[l] = x /\ \A k \in 1..Len(loads) : k # l => loads'[k] = loads[k]
  BY ReplaceLoad DEF ScreenInv, TypeOK
<1>2. TypeOK' /\ Known' /\ ConfirmedIsShown'
  BY <1>1 DEF ScreenInv, TypeOK, Known, ConfirmedIsShown, Visible, page
<1>3. CurrentIsFresh'
  <2>1. CASE l = Len(loads)
    BY <1>1, <2>1, Fields DEF ScreenInv, Known, CurrentIsFresh, page
  <2>2. CASE l # Len(loads)
    <3>1. Len(loads) \in 1..Len(loads) /\ Len(loads) # l
      BY <2>2, Fields DEF ScreenInv
    <3>2. loads'[Len(loads')] = loads[Len(loads)]
      BY <1>1, <3>1
    <3> QED
      BY <3>2 DEF ScreenInv, CurrentIsFresh, page
  <2> QED
    BY <2>1, <2>2
<1> QED
  BY <1>2, <1>3 DEF ScreenInv

LEMMA ReadOrderKeepsInv ==
    ASSUME ScreenInv, NEW l \in 1..Len(loads), ReadOrder(l), UNCHANGED viewer
    PROVE  ScreenInv'
<1> DEFINE x == [step |-> "findHolder", detail |-> [order EXCEPT !.holder = None], known |-> FALSE]
<1>1. order \in Detail /\ None \in Holder
  BY DEF ScreenInv, TypeOK, Holder
<1>2. x \in Load /\ x.step = "findHolder" /\ x.detail.version = order.version
  BY <1>1 DEF Load, Detail
<1>3. loads' = [loads EXCEPT ![l] = x] /\ UNCHANGED <<viewer, order, presses, page>>
  BY DEF ReadOrder
<1>4. x.step \in {"findHolder", "answered"} /\ x.detail.version = order.version
  BY <1>2
<1>5. x \in Load
  BY <1>2
<1> HIDE DEF x
<1> QED
  BY <1>3, <1>4, <1>5, ReadKeepsInv

LEMMA ReadHolderKeepsInv ==
    ASSUME ScreenInv, NEW l \in 1..Len(loads), ReadHolder(l), UNCHANGED viewer
    PROVE  ScreenInv'
<1> DEFINE x(known) ==
        [loads[l] EXCEPT !.step = "answered", !.detail.holder = order.holder, !.known = known]
<1>1. loads[l] \in Load /\ order.holder \in Holder
  BY Fields DEF ScreenInv
<1>2. PICK known \in BOOLEAN :
        loads' = [loads EXCEPT ![l] = x(known)] /\ UNCHANGED <<viewer, order, presses, page>>
  BY DEF ReadHolder
<1>3. x(known) \in Load /\ x(known).step = "answered"
      /\ x(known).detail.version = loads[l].detail.version
  BY <1>1 DEF Load, Detail
<1>4. loads[l].step \in {"findHolder", "answered"}
  BY DEF ReadHolder
<1> HIDE DEF x
<1> QED
  BY <1>2, <1>3, <1>4, ReadKeepsInv

\* The end of a load, whether its answer is shown, dropped or an error.
LEMMA EndLoadKeepsInv ==
    ASSUME ScreenInv, NEW l \in 1..Len(loads), Answer(l) \/ FailLoad(l), UNCHANGED viewer
    PROVE  ScreenInv'
<1>1. Over \in Load /\ Over.step = "over"
  BY DEF Over, NewLoad, NewOrder, Load, Detail, Status, Holder
<1>2. loads' = [loads EXCEPT ![l] = Over]
  BY DEF Answer, FailLoad
<1>3. /\ loads' \in Seq(Load) /\ loads' # <<>> /\ Len(loads') = Len(loads)
      /\ loads'[l] = Over /\ \A k \in 1..Len(loads) : k # l => loads'[k] = loads[k]
  BY <1>1, <1>2, ReplaceLoad DEF ScreenInv, TypeOK
<1>4. UNCHANGED <<order, presses, pending, sending, confirmed>>
  BY DEF Answer, FailLoad
<1>5. loads[l].detail \in Detail /\ loads[l] \in Load
  BY Fields DEF ScreenInv, Load
<1>6. screen' \in Screen
  <2>1. screen \in Screen
    BY DEF ScreenInv, TypeOK
  <2>2. Shown(loads[l]) \in Screen /\ Broken \in Screen
    BY <1>5 DEF Screen, Shown, Broken, Load
  <2> QED
    BY <2>1, <2>2 DEF Answer, FailLoad
<1>7. TypeOK' /\ Known'
  BY <1>3, <1>4, <1>6 DEF ScreenInv, TypeOK, Known
<1>8. CurrentIsFresh'
  BY <1>1, <1>3, <1>4, Fields DEF ScreenInv, CurrentIsFresh
<1>9. ConfirmedIsShown'
  <2>1. CASE ~ Current(l)
    BY <1>4, <2>1 DEF Answer, FailLoad, ScreenInv, ConfirmedIsShown, Visible
  <2>2. CASE Current(l) /\ FailLoad(l)
    BY <2>2 DEF FailLoad, Broken, ConfirmedIsShown, Visible
  <2>3. CASE Current(l) /\ Answer(l)
    <3>1. screen'.data = loads[l].detail /\ l = Len(loads) /\ loads[l].step = "answered"
      BY <2>3 DEF Answer, Current, Shown
    <3> QED
      BY <1>4, <3>1 DEF ScreenInv, CurrentIsFresh, ConfirmedIsShown
  <2> QED
    BY <2>1, <2>2, <2>3
<1> QED
  BY <1>7, <1>8, <1>9 DEF ScreenInv

\* A press that goes on or ends, with the version it has written if any.
LEMMA PressKeepsKnown ==
    ASSUME ScreenInv, NEW p \in 1..Len(presses), NEW x \in Press,
           presses' = [presses EXCEPT ![p] = x],
           order' \in Detail, order'.version >= order.version,
           x.version <= order'.version,
           UNCHANGED <<viewer, loads, page>>
    PROVE  ScreenInv'
<1>1. /\ presses' \in Seq(Press) /\ Len(presses') = Len(presses)
      /\ presses'[p] = x /\ \A k \in 1..Len(presses) : k # p => presses'[k] = presses[k]
  BY ReplacePress DEF ScreenInv, TypeOK
<1>2. TypeOK'
  BY <1>1 DEF ScreenInv, TypeOK, page
<1>3. Known'
  <2>1. order.version \in Nat /\ order'.version \in Nat /\ confirmed \in Nat
    BY Fields DEF ScreenInv, Detail
  <2>2. ASSUME NEW k \in 1..Len(presses') PROVE presses'[k].version <= order'.version
    <3>1. presses[k].version \in Nat /\ presses[k].version <= order.version
      BY <1>1, Fields DEF ScreenInv, Known, Press
    <3> QED
      BY <1>1, <2>1, <3>1
  <2> QED
    BY <2>1, <2>2 DEF ScreenInv, Known, page
<1>4. CurrentIsFresh' /\ ConfirmedIsShown'
  BY DEF ScreenInv, CurrentIsFresh, ConfirmedIsShown, Visible, page
<1> QED
  BY <1>2, <1>3, <1>4 DEF ScreenInv

LEMMA BackendKeepsInv ==
    ASSUME ScreenInv, NEW p \in 1..Len(presses), UNCHANGED viewer,
           Decide(p) \/ Write(p) \/ Release(p) \/ Lose(p)
    PROVE  ScreenInv'
<1> DEFINE y == presses'[p]
<1>1. /\ presses[p] \in Press /\ order \in Detail /\ order.version \in Nat
      /\ presses[p].version \in Nat /\ presses[p].version <= order.version
      /\ presses \in Seq(Press) /\ None \in Holder
  BY Fields DEF ScreenInv, Known, TypeOK, Press, Holder
<1>2. CASE Decide(p) \/ Lose(p)
  <2> DEFINE x(step) == [presses[p] EXCEPT !.step = step]
  <2>1. \A step \in {"write", "refused"} :
          x(step) \in Press /\ x(step).version = presses[p].version
    BY <1>1 DEF Press
  <2>2. PICK step \in {"write", "refused"} : presses' = [presses EXCEPT ![p] = x(step)]
    BY <1>1, <1>2 DEF Decide, Lose, Press
  <2>3. UNCHANGED <<viewer, order, loads, page>>
    BY <1>2 DEF Decide, Lose
  <2> HIDE DEF x
  <2>4. order' \in Detail /\ order'.version >= order.version
        /\ x(step) \in Press /\ x(step).version <= order'.version
    BY <1>1, <2>1, <2>3
  <2> QED
    BY <2>2, <2>3, <2>4, PressKeepsKnown
<1>3. CASE Write(p)
  <2> DEFINE x(step) == [presses[p] EXCEPT !.version = order.version + 1, !.step = step]
  <2>1. ASSUME NEW step \in {"release", "accepted"}
        PROVE  x(step) \in Press /\ x(step).version = order.version + 1
    <3>1. order.version + 1 \in Nat
      BY <1>1
    <3> QED
      BY <1>1, <3>1 DEF Press
  <2>2. PICK step \in {"release", "accepted"} : presses' = [presses EXCEPT ![p] = x(step)]
    BY <1>1, <1>3 DEF Write, Press
  <2>3. order' \in Detail /\ order'.version = order.version + 1
    BY <1>1, <1>3 DEF Write, Detail, Press
  <2>4. UNCHANGED <<viewer, loads, page>>
    BY <1>3 DEF Write
  <2> HIDE DEF x
  <2>5. order'.version >= order.version /\ x(step) \in Press /\ x(step).version <= order'.version
    BY <1>1, <2>1, <2>3
  <2> QED
    BY <2>2, <2>3, <2>4, <2>5, PressKeepsKnown
<1>4. CASE Release(p)
  <2> DEFINE x == [presses[p] EXCEPT !.step = "accepted"]
  <2>1. x \in Press /\ x.version = presses[p].version
    BY <1>1 DEF Press
  <2>2. presses' = [presses EXCEPT ![p] = x] /\ UNCHANGED <<viewer, loads, page>>
    BY <1>1, <1>4 DEF Release, Press
  <2>3. order' \in Detail /\ order'.version = order.version
    BY <1>1, <1>4 DEF Release, Detail
  <2> HIDE DEF x
  <2>4. order'.version >= order.version /\ x.version <= order'.version
    BY <1>1, <2>1, <2>3
  <2> QED
    BY <2>1, <2>2, <2>3, <2>4, PressKeepsKnown
<1> QED
  BY <1>2, <1>3, <1>4

\* The page stops waiting for a press, and may have learnt that it was accepted.
LEMMA CloseKeepsInv ==
    ASSUME ScreenInv, NEW p \in 1..Len(presses), UNCHANGED viewer,
           Accepted(p) \/ Refused(p)
    PROVE  ScreenInv'
<1> DEFINE x == [presses[p] EXCEPT !.step = "over", !.version = 0]
<1>1. presses[p] \in Press /\ presses[p].version \in Nat /\ presses[p].version <= order.version
  BY Fields DEF ScreenInv, Known, Press
<1>2. x \in Press /\ x.version = 0
  BY <1>1 DEF Press
<1>3. presses' = [presses EXCEPT ![p] = x] /\ UNCHANGED <<order, loads, screen>>
  BY DEF Accepted, Refused, Close
<1> HIDE DEF x
<1>4. /\ presses' \in Seq(Press) /\ Len(presses') = Len(presses)
      /\ presses'[p] = x /\ \A k \in 1..Len(presses) : k # p => presses'[k] = presses[k]
  BY <1>2, <1>3, ReplacePress DEF ScreenInv, TypeOK
<1>5. sending' \in 0..Len(presses')
  <2>1. Len(presses) \in Nat /\ sending \in 0..Len(presses)
    BY Fields DEF ScreenInv, TypeOK
  <2> QED
    BY <1>4, <2>1 DEF Accepted, Refused, Close
<1>6. \/ confirmed' = presses[p].version /\ pending' = TRUE
      \/ UNCHANGED <<confirmed, pending>>
  BY DEF Accepted, Refused
<1>7. TypeOK'
  BY <1>1, <1>3, <1>4, <1>5, <1>6 DEF ScreenInv, TypeOK
<1>8. Known'
  <2>1. order.version \in Nat
    BY Fields DEF ScreenInv
  <2> QED
    BY <1>1, <1>2, <1>3, <1>4, <1>6, <2>1 DEF ScreenInv, Known
<1>9. CurrentIsFresh' /\ ConfirmedIsShown'
  BY <1>3, <1>6 DEF ScreenInv, CurrentIsFresh, ConfirmedIsShown, Visible
<1> QED
  BY <1>7, <1>8, <1>9 DEF ScreenInv

\* A new load has read nothing, and nothing is on the screen until it ends.
LEMMA NewLoadKeepsInv ==
    ASSUME ScreenInv, UNCHANGED viewer, Effect \/ Revisit
    PROVE  ScreenInv'
<1>1. NewLoad \in Load /\ NewLoad.step = "findOrder"
  BY DEF NewLoad, NewOrder, Load, Detail, Status, Holder
<1>2. loads' = Append(loads, NewLoad) /\ loads \in Seq(Load)
  BY DEF Effect, Revisit, ScreenInv, TypeOK
<1>3. loads' \in Seq(Load) /\ loads' # <<>> /\ loads'[Len(loads')] = NewLoad
  BY <1>1, <1>2
<1>4. screen' \in Screen /\ screen'.loading
  <2>1. screen \in Screen
    BY DEF ScreenInv, TypeOK
  <2>2. CASE Effect
    BY <2>1, <2>2 DEF Effect, Screen
  <2>3. CASE Revisit
    BY <2>3 DEF Revisit, Loading, Screen
  <2> QED
    BY <2>2, <2>3
<1>5. UNCHANGED <<order, presses, confirmed>> /\ pending' = FALSE
      /\ sending' \in {sending, 0}
  BY DEF Effect, Revisit
<1>6. sending' \in 0..Len(presses)
  BY <1>5, Fields DEF ScreenInv, TypeOK
<1>7. TypeOK'
  BY <1>3, <1>4, <1>5, <1>6 DEF ScreenInv, TypeOK
<1>8. Known' /\ CurrentIsFresh' /\ ConfirmedIsShown'
  BY <1>1, <1>3, <1>4, <1>5 DEF ScreenInv, Known, CurrentIsFresh, ConfirmedIsShown, Visible
<1> QED
  BY <1>7, <1>8 DEF ScreenInv

LEMMA PressAdvanceKeepsInv ==
    ASSUME ScreenInv, UNCHANGED viewer, PressAdvance
    PROVE  ScreenInv'
<1> DEFINE x == [step |-> "decide", next |-> Next(screen.data.status), version |-> 0]
<1>1. x \in Press /\ x.version = 0
  <2>1. screen.data \in Detail
    BY DEF PressAdvance, CanPress, Visible, ScreenInv, TypeOK, Screen
  <2>2. Next(screen.data.status) \in Status
    BY <2>1, NextIsSuccessor DEF PressAdvance, CanPress, Detail
  <2> QED
    BY <2>2 DEF Press
<1>2. presses' = Append(presses, x) /\ presses \in Seq(Press) /\ sending' = Len(presses) + 1
      /\ UNCHANGED <<order, loads, screen, pending, confirmed>>
  BY DEF PressAdvance, ScreenInv, TypeOK
<1> HIDE DEF x
<1>3. /\ presses' \in Seq(Press) /\ Len(presses') = Len(presses) + 1
      /\ presses'[Len(presses) + 1] = x
      /\ \A k \in 1..Len(presses) : presses'[k] = presses[k]
  BY <1>1, <1>2
<1>4. sending' \in 0..Len(presses')
  BY <1>2, <1>3, Fields DEF ScreenInv
<1>5. TypeOK'
  BY <1>2, <1>3, <1>4 DEF ScreenInv, TypeOK
<1>6. Known'
  <2>1. order.version \in Nat /\ Len(presses) \in Nat
    BY Fields DEF ScreenInv
  <2> QED
    BY <1>1, <1>2, <1>3, <2>1 DEF ScreenInv, Known
<1>7. CurrentIsFresh' /\ ConfirmedIsShown'
  BY <1>2 DEF ScreenInv, CurrentIsFresh, ConfirmedIsShown, Visible
<1> QED
  BY <1>5, <1>6, <1>7 DEF ScreenInv

\* What others write makes the order newer.
LEMMA OthersKeepInv ==
    ASSUME ScreenInv, UNCHANGED viewer, Others
    PROVE  ScreenInv'
<1>1. order \in Detail /\ order.version \in Nat /\ order.holder \in Holder /\ None \in Holder
  BY Fields DEF ScreenInv, TypeOK, Holder
<1>2. order' \in Detail /\ order'.version = order.version + 1
  <2>1. order.version + 1 \in Nat
    BY <1>1
  <2>2. CASE \E next \in Status :
               order' = [status |-> next, version |-> order.version + 1,
                         holder |-> IF next = "DELIVERED" THEN None ELSE order.holder]
    BY <1>1, <2>1, <2>2 DEF Detail
  <2>3. CASE \E t \in Technicians : order' = [order EXCEPT !.holder = t, !.version = @ + 1]
    BY <1>1, <2>1, <2>3 DEF Detail, Holder
  <2> QED
    BY <2>2, <2>3 DEF Others
<1>3. UNCHANGED <<loads, presses, page>>
  BY DEF Others
<1>4. TypeOK' /\ CurrentIsFresh' /\ ConfirmedIsShown'
  BY <1>2, <1>3 DEF ScreenInv, TypeOK, CurrentIsFresh, ConfirmedIsShown, Visible, page
<1>5. Known'
  <2>1. ASSUME NEW k \in 1..Len(presses) PROVE presses[k].version <= order'.version
    <3>1. presses[k].version \in Nat /\ presses[k].version <= order.version
      BY Fields DEF ScreenInv, Known, Press
    <3> QED
      BY <1>1, <1>2, <3>1
  <2>2. confirmed \in Nat /\ confirmed <= order.version
    BY DEF ScreenInv, TypeOK, Known
  <2> QED
    BY <1>1, <1>2, <1>3, <2>1, <2>2 DEF Known, page
<1> QED
  BY <1>4, <1>5 DEF ScreenInv

LEMMA GiveUpKeepsInv ==
    ASSUME ScreenInv, UNCHANGED viewer, GiveUp
    PROVE  ScreenInv'
<1>1. sending' \in 0..Len(presses) /\ UNCHANGED <<order, loads, presses, screen, pending, confirmed>>
  BY Fields DEF GiveUp, server, ScreenInv
<1> QED
  BY <1>1 DEF ScreenInv, TypeOK, Known, CurrentIsFresh, ConfirmedIsShown, Visible

-----------------------------------------------------------------------------
LEMMA ScreenStep == ScreenInv /\ [NextStep]_vars => ScreenInv'
<1> SUFFICES ASSUME ScreenInv, [NextStep]_vars PROVE ScreenInv'
  OBVIOUS
<1>1. CASE UNCHANGED vars
  BY <1>1 DEF vars, ScreenInv, TypeOK, Known, CurrentIsFresh, ConfirmedIsShown, Visible
<1>2. CASE NextStep
  <2> USE <1>2
  <2>1. ASSUME NEW l \in 1..Len(loads), ServeLoad(l) \/ FailLoad(l), UNCHANGED viewer
        PROVE  ScreenInv'
    BY <2>1, ReadOrderKeepsInv, ReadHolderKeepsInv, EndLoadKeepsInv DEF ServeLoad
  <2>2. ASSUME NEW p \in 1..Len(presses), ServePress(p) \/ Lose(p), UNCHANGED viewer
        PROVE  ScreenInv'
    BY <2>2, BackendKeepsInv, CloseKeepsInv DEF ServePress
  <2> QED
    BY <2>1, <2>2, NewLoadKeepsInv, PressAdvanceKeepsInv, GiveUpKeepsInv, OthersKeepInv
       DEF NextStep
<1> QED
  BY <1>1, <1>2

\* Once the user was told that the order has moved, no later load shows it as it
\* was before, however late the answers of superseded loads come (useAsyncData).
THEOREM ConfirmedIsShownHolds == Spec => []ConfirmedIsShown
<1>1. ScreenInv => ConfirmedIsShown
  BY DEF ScreenInv
<1> QED
  BY <1>1, ScreenInit, ScreenStep, PTL DEF Spec

\* A technician whose profile could not be read is offered nothing.
LEMMA NobodyMayNothing ==
    ASSUME NEW s \in Status, NEW h \in Holder
    PROVE  LET shown == Permissions(None, s, h) IN
           /\ ~ shown.canAdvance /\ ~ shown.canAddDiagnostic /\ ~ shown.canAddIntervention
           /\ ~ shown.canAssign
  BY UsersAssumption DEF Permissions

\* The administrator needs no profile: what the page shows of an order it shows
\* with what the administrator may do.
AdminIsKnown ==
    viewer = Admin =>
        /\ \A l \in 1..Len(loads) : loads[l].step = "answered" => loads[l].known
        /\ screen.data # None => screen.known

LEMMA AdminStaysKnown == ScreenInv /\ AdminIsKnown /\ [NextStep]_vars => AdminIsKnown'
<1> SUFFICES ASSUME ScreenInv, AdminIsKnown, [NextStep]_vars PROVE AdminIsKnown'
  OBVIOUS
<1>0. loads \in Seq(Load) /\ loads # <<>> /\ NewLoad \in Load /\ NewLoad.step = "findOrder"
  BY DEF ScreenInv, TypeOK, NewLoad, NewOrder, Load, Detail, Status, Holder
<1>1. CASE UNCHANGED <<viewer, loads, screen>>
  BY <1>1 DEF AdminIsKnown
<1>2. ASSUME NEW l \in 1..Len(loads), NEW x, loads' = [loads EXCEPT ![l] = x],
             UNCHANGED viewer, viewer = Admin /\ x.step = "answered" => x.known,
             viewer = Admin /\ screen'.data # None => screen'.known
      PROVE  AdminIsKnown'
  <2>1. Len(loads') = Len(loads) /\ loads'[l] = x
        /\ \A k \in 1..Len(loads) : k # l => loads'[k] = loads[k]
    BY <1>0, <1>2
  <2> QED
    BY <1>2, <2>1 DEF AdminIsKnown
<1>3. ASSUME loads' = Append(loads, NewLoad), UNCHANGED viewer,
             viewer = Admin /\ screen'.data # None => screen'.known
      PROVE  AdminIsKnown'
  <2>1. Len(loads') = Len(loads) + 1 /\ loads'[Len(loads) + 1] = NewLoad
        /\ \A k \in 1..Len(loads) : loads'[k] = loads[k]
    BY <1>0, <1>3
  <2>2. \A k \in 1..Len(loads') : k \in 1..Len(loads) \/ k = Len(loads) + 1
    BY <1>0, <2>1
  <2>3. \A k \in 1..Len(loads') : viewer = Admin /\ loads'[k].step = "answered" => loads'[k].known
    BY <1>0, <2>1, <2>2 DEF AdminIsKnown
  <2> QED
    BY <1>3, <2>3 DEF AdminIsKnown
<1>4. ASSUME NEW l \in 1..Len(loads), ReadOrder(l), UNCHANGED viewer PROVE AdminIsKnown'
  BY <1>2, <1>4 DEF ReadOrder, page, AdminIsKnown
<1>5. ASSUME NEW l \in 1..Len(loads), ReadHolder(l), UNCHANGED viewer PROVE AdminIsKnown'
  <2>1. PICK known \in BOOLEAN :
          /\ viewer = Admin => known
          /\ loads' = [loads EXCEPT ![l] =
                [@ EXCEPT !.step = "answered", !.detail.holder = order.holder, !.known = known]]
    BY <1>5 DEF ReadHolder
  <2> DEFINE x == [loads[l] EXCEPT !.step = "answered", !.detail.holder = order.holder,
                                   !.known = known]
  <2>2. loads[l] \in Load
    BY <1>0
  <2>3. x.known = known
    BY <2>2 DEF Load
  <2>4. loads' = [loads EXCEPT ![l] = x]
    BY <2>1
  <2> HIDE DEF x
  <2> QED
    BY <1>2, <1>5, <2>1, <2>3, <2>4 DEF ReadHolder, page, AdminIsKnown
<1>6. ASSUME NEW l \in 1..Len(loads), Answer(l) \/ FailLoad(l), UNCHANGED viewer
      PROVE  AdminIsKnown'
  <2>1. loads' = [loads EXCEPT ![l] = Over] /\ Over.step = "over"
    BY <1>6 DEF Answer, FailLoad, Over, NewLoad
  <2>2. viewer = Admin /\ screen'.data # None => screen'.known
    BY <1>6 DEF Answer, FailLoad, Shown, Broken, AdminIsKnown
  <2> QED
    BY <1>2, <1>6, <2>1, <2>2
<1>7. CASE Effect /\ UNCHANGED viewer
  <2>1. screen'.data = screen.data /\ screen'.known = screen.known
    BY <1>7 DEF Effect, ScreenInv, TypeOK, Screen
  <2> QED
    BY <1>3, <1>7, <2>1 DEF Effect, AdminIsKnown
<1>8. CASE Revisit /\ UNCHANGED viewer
  BY <1>3, <1>8 DEF Revisit, Loading
<1>9. CASE (PressAdvance \/ GiveUp \/ Others) /\ UNCHANGED viewer
  BY <1>1, <1>9 DEF PressAdvance, GiveUp, Others, server, page
<1>10. ASSUME NEW p \in 1..Len(presses), ServePress(p) \/ Lose(p), UNCHANGED viewer
       PROVE  AdminIsKnown'
  BY <1>1, <1>10 DEF ServePress, Lose, Decide, Write, Release, Accepted, Refused, page
<1>11. CASE UNCHANGED vars
  BY <1>1, <1>11 DEF vars
<1> QED
  BY <1>4, <1>5, <1>6, <1>7, <1>8, <1>9, <1>10, <1>11 DEF NextStep, ServeLoad

\* While the order is as it was read, no button on the screen is one the backend
\* would refuse, and when the viewer's profile was read none is missing
\* (policy.go against the use cases); the assignment panel is there for whom
\* policy.go grants it.
THEOREM HonestButtonsHolds == Spec => []HonestButtons
<1>1. ScreenInv /\ AdminIsKnown => HonestButtons
  <2> SUFFICES ASSUME ScreenInv, AdminIsKnown, Visible,
                      order.status = screen.data.status, order.holder = screen.data.holder
               PROVE  HonestButtons
    BY DEF HonestButtons
  <2> DEFINE s == order.status
             h == order.holder
             accepted ==
                [canAdvance         |-> \E next \in Status : AcceptsAdvance(viewer, s, h, next),
                 canAddDiagnostic   |-> AcceptsDiagnostic(viewer, s, h),
                 canAddIntervention |-> AcceptsIntervention(viewer, s, h)]
  <2>1. viewer \in User /\ s \in Status /\ h \in Holder
    BY Fields DEF ScreenInv, TypeOK
  <2>2. Buttons = Permissions(IF screen.known THEN viewer ELSE None, s, h)
    BY DEF Buttons
  <2>3. CASE screen.known
    <3>1. Buttons = Permissions(viewer, s, h)
      BY <2>2, <2>3
    <3>2. /\ Buttons.canAdvance <=> \E next \in Status : AcceptsAdvance(viewer, s, h, next)
          /\ Buttons.canAdvance => AcceptsAdvance(viewer, s, h, Next(s))
          /\ Buttons.canAddDiagnostic <=> AcceptsDiagnostic(viewer, s, h)
          /\ Buttons.canAddIntervention <=> AcceptsIntervention(viewer, s, h)
      BY <2>1, <3>1, PermissionsAreExact
    <3>3. /\ Buttons.canAdvance = accepted.canAdvance
          /\ Buttons.canAddDiagnostic = accepted.canAddDiagnostic
          /\ Buttons.canAddIntervention = accepted.canAddIntervention
      BY <3>1, <3>2 DEF Permissions, AcceptsDiagnostic, AcceptsIntervention
    <3>4. \A b \in DOMAIN accepted : Buttons[b] = accepted[b]
      BY <3>3
    <3>5. Buttons.canAssign = ShowsAssignment
      BY <3>1 DEF Permissions, ShowsAssignment, CanAssignTechnician
    <3>6. Buttons.canAssign <=> s # "DELIVERED" /\ viewer = Admin
      BY <3>1 DEF Permissions, CanAssignTechnician
    <3> QED
      BY <2>3, <3>2, <3>4, <3>5, <3>6 DEF HonestButtons, AcceptsAssign
  <2>4. CASE ~ screen.known
    <3>1. Buttons = Permissions(None, s, h)
      BY <2>2, <2>4
    <3>2. /\ ~ Buttons.canAdvance /\ ~ Buttons.canAddDiagnostic /\ ~ Buttons.canAddIntervention
          /\ Buttons.canAssign = FALSE
      BY <2>1, <3>1, NobodyMayNothing, UsersAssumption DEF Permissions
    <3>3. viewer # Admin
      BY <2>4 DEF AdminIsKnown, Visible
    <3>4. Buttons.canAssign = ShowsAssignment /\ ~ AcceptsAssign(viewer, h)
      BY <3>2, <3>3 DEF ShowsAssignment, AcceptsAssign
    <3> QED
      BY <2>4, <3>2, <3>4 DEF HonestButtons
  <2> QED
    BY <2>3, <2>4
<1>2. Init => AdminIsKnown
  <2> SUFFICES ASSUME Init PROVE AdminIsKnown
    OBVIOUS
  <2>1. Len(loads) = 1 /\ loads[1].step = "findOrder" /\ screen.data = None
    BY DEF Init, NewLoad, Loading
  <2> QED
    BY <2>1 DEF AdminIsKnown
<1> QED
  BY <1>1, <1>2, ScreenInit, ScreenStep, AdminStaysKnown, PTL DEF Spec
=============================================================================
