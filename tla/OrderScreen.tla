----------------------------- MODULE OrderScreen ------------------------------
(***************************************************************************)
(* The order detail page of the web client in front of the backend: the    *)
(* read hook useAsyncData with its superseded and failing loads, the       *)
(* advance button, the 15 s after which the client gives a request up, and *)
(* the other users of the same order.                                      *)
(*                                                                         *)
(* A detail is read in two calls, the order first and its technician       *)
(* after.  An advance is decided in one step and written in another, as in *)
(* Workshop, which has the calls in between.                               *)
(***************************************************************************)
EXTENDS Policy, Naturals, Sequences

CONSTANTS
    MaxLoads,   \* bound: how many times the detail is asked for
    MaxPresses, \* bound: how many times the button is pressed
    MaxWrites   \* bound: other users leave the order alone after this many writes

ASSUME BoundAssumption ==
    MaxLoads \in Nat \ {0} /\ MaxPresses \in Nat /\ MaxWrites \in Nat

VARIABLES
    viewer,    \* who looks at the page
    order,     \* status and holder of the order, and how often it was written
    loads,     \* the detail requests the page has made; the last is the current one
    presses,   \* the advance requests the page has sent
    screen,    \* what useAsyncData gives the page
    pending,   \* a reload was asked for and its effect has not run yet
    sending,   \* the press the page waits for, 0 when it waits for none
    confirmed  \* how often the order had been written at the last confirmed advance

vars == <<viewer, order, loads, presses, screen, pending, sending, confirmed>>

Detail == [status: Status, holder: Holder, version: Nat]
\* known: the answer says what the viewer may do
Load == [step: {"findOrder", "findHolder", "answered", "over"}, detail: Detail, known: BOOLEAN]
Press ==
    [step: {"decide", "write", "release", "accepted", "refused", "over"},
     next: Status, version: Nat]
Screen == [data: Detail \cup {None}, known: BOOLEAN, loading: BOOLEAN, error: BOOLEAN]

TypeOK ==
    /\ viewer \in User
    /\ order \in Detail
    /\ loads \in Seq(Load) /\ loads # <<>>
    /\ presses \in Seq(Press)
    /\ screen \in Screen
    /\ pending \in BOOLEAN
    /\ sending \in 0..Len(presses)
    /\ confirmed \in Nat

NewOrder == [status |-> "RECEIVED", holder |-> None, version |-> 0]
NewLoad == [step |-> "findOrder", detail |-> NewOrder, known |-> FALSE]
Over == [NewLoad EXCEPT !.step = "over"]
Loading == [data |-> None, known |-> FALSE, loading |-> TRUE, error |-> FALSE]
Shown(load) == [data |-> load.detail, known |-> load.known, loading |-> FALSE, error |-> FALSE]
Broken == [data |-> None, known |-> FALSE, loading |-> FALSE, error |-> TRUE]

\* The page has just been opened on a new order.
Init ==
    /\ viewer \in User
    /\ order = NewOrder
    /\ loads = <<NewLoad>>
    /\ presses = <<>>
    /\ screen = Loading
    /\ pending = FALSE
    /\ sending = 0
    /\ confirmed = 0

-----------------------------------------------------------------------------
(***************************************************************************)
(* The backend.                                                            *)
(***************************************************************************)
server == <<order, loads, presses>>
page == <<screen, pending, sending, confirmed>>

\* FindDetail reads the order ...
ReadOrder(l) ==
    /\ loads[l].step = "findOrder"
    /\ loads' = [loads EXCEPT ![l] =
            [step |-> "findHolder", detail |-> [order EXCEPT !.holder = None], known |-> FALSE]]
    /\ UNCHANGED <<order, presses, page>>

\* ... and then its active assignment, from which it computes the permissions.
\* When the profile of a technician cannot be read it answers all the same.
ReadHolder(l) ==
    /\ loads[l].step = "findHolder"
    /\ \E known \in BOOLEAN :
          /\ viewer = Admin => known
          /\ loads' = [loads EXCEPT ![l] =
                 [@ EXCEPT !.step = "answered", !.detail.holder = order.holder, !.known = known]]
    /\ UNCHANGED <<order, presses, page>>

\* Advance makes up its mind on the order as it is ...
Decide(p) ==
    /\ presses[p].step = "decide"
    /\ presses' = [presses EXCEPT ![p].step =
            IF AcceptsAdvance(viewer, order.status, order.holder, presses[p].next)
            THEN "write" ELSE "refused"]
    /\ UNCHANGED <<order, loads, page>>

\* ... and then writes it, whatever it has become.
Write(p) ==
    /\ presses[p].step = "write"
    /\ order' = [order EXCEPT !.status = presses[p].next, !.version = @ + 1]
    /\ presses' = [presses EXCEPT ![p].version = order.version + 1, ![p].step =
            IF presses[p].next = "DELIVERED" THEN "release" ELSE "accepted"]
    /\ UNCHANGED <<loads, page>>

\* A delivery releases the technician.
Release(p) ==
    /\ presses[p].step = "release"
    /\ order' = [order EXCEPT !.holder = None]
    /\ presses' = [presses EXCEPT ![p].step = "accepted"]
    /\ UNCHANGED <<loads, page>>

\* Somebody else moves the order on, or assigns it.
Others ==
    /\ order.version < MaxWrites
    /\ \/ \E next \in Status, user \in User :
            /\ AcceptsAdvance(user, order.status, order.holder, next)
            /\ order' = [status |-> next, version |-> order.version + 1,
                         holder |-> IF next = "DELIVERED" THEN None ELSE order.holder]
       \/ \E t \in Technicians :
            /\ order.holder = None
            /\ order' = [order EXCEPT !.holder = t, !.version = @ + 1]
    /\ UNCHANGED <<loads, presses, page>>

-----------------------------------------------------------------------------
(***************************************************************************)
(* The page.                                                               *)
(***************************************************************************)

\* DataState: the order and its panels are on the screen only when the current
\* load has ended well.
Visible == ~ screen.loading /\ ~ screen.error /\ screen.data # None

\* What the order on the screen says the viewer may do.
Buttons ==
    Permissions(IF screen.known THEN viewer ELSE None, screen.data.status, screen.data.holder)

\* The advance button can be pressed.
CanPress ==
    /\ Visible
    /\ sending = 0
    /\ Buttons.canAdvance
    /\ Next(screen.data.status) # None

\* The assignment panel is on the page, which does not ask canAssign.
ShowsAssignment == viewer = Admin /\ screen.data.status # "DELIVERED"

Current(l) == l = Len(loads)

\* A superseded answer taken for the current one (a mutant).
AnswerAnyway(l) ==
    /\ loads[l].step = "answered"
    /\ loads' = [loads EXCEPT ![l] = Over]
    /\ screen' = Shown(loads[l])
    /\ UNCHANGED <<order, presses, pending, sending, confirmed>>

\* The answer of a load arrives; that of a superseded load is dropped.
Answer(l) ==
    /\ loads[l].step = "answered"
    /\ loads' = [loads EXCEPT ![l] = Over]
    /\ screen' = IF Current(l) THEN Shown(loads[l]) ELSE screen
    /\ UNCHANGED <<order, presses, pending, sending, confirmed>>

\* A failed load that goes on saying "Cargando..." (a mutant).
FailLoadStuck(l) ==
    /\ loads[l].step # "over"
    /\ loads' = [loads EXCEPT ![l] = Over]
    /\ screen' = IF Current(l) THEN [screen EXCEPT !.data = None, !.error = TRUE] ELSE screen
    /\ UNCHANGED <<order, presses, pending, sending, confirmed>>

\* A load fails or is given up after 15 s.
FailLoad(l) ==
    /\ loads[l].step # "over"
    /\ loads' = [loads EXCEPT ![l] = Over]
    /\ screen' = IF Current(l) THEN Broken ELSE screen
    /\ UNCHANGED <<order, presses, pending, sending, confirmed>>

\* The effect of a reload: the load under way is superseded, the data stays.
Effect ==
    /\ pending
    /\ Len(loads) < MaxLoads
    /\ pending' = FALSE
    /\ loads' = Append(loads, NewLoad)
    /\ screen' = [screen EXCEPT !.loading = TRUE, !.error = FALSE]
    /\ UNCHANGED <<order, presses, sending, confirmed>>

\* The user presses the button.
PressAdvance ==
    /\ CanPress
    /\ Len(presses) < MaxPresses
    /\ Len(loads) < IF pending THEN MaxLoads - 1 ELSE MaxLoads
    /\ presses' = Append(presses,
            [step |-> "decide", next |-> Next(screen.data.status), version |-> 0])
    /\ sending' = Len(presses) + 1
    /\ UNCHANGED <<order, loads, screen, pending, confirmed>>

\* The page waits no longer for press p, and what becomes of it is not heard.
Close(p) ==
    /\ presses' = [presses EXCEPT ![p] = [@ EXCEPT !.step = "over", !.version = 0]]
    /\ sending' = IF sending = p THEN 0 ELSE sending

\* The confirmation shown, the order not asked for again (a mutant).
AcceptedNoReload(p) ==
    /\ presses[p].step = "accepted"
    /\ Close(p)
    /\ confirmed' = IF sending = p THEN presses[p].version ELSE confirmed
    /\ UNCHANGED <<order, loads, screen, pending>>

\* The advance was accepted: the page says so and asks for the order again.
Accepted(p) ==
    /\ presses[p].step = "accepted"
    /\ Close(p)
    /\ IF sending = p
       THEN confirmed' = presses[p].version /\ pending' = TRUE
       ELSE UNCHANGED <<confirmed, pending>>
    /\ UNCHANGED <<order, loads, screen>>

\* The advance was refused or failed: an error banner over the order as it was read.
Refused(p) ==
    /\ presses[p].step = "refused"
    /\ Close(p)
    /\ UNCHANGED <<order, loads, screen, pending, confirmed>>

\* The client gives the request up; the backend may finish it all the same.
GiveUp ==
    /\ sending # 0
    /\ sending' = 0
    /\ UNCHANGED <<server, screen, pending, confirmed>>

\* A call of the request fails or its answer is lost, before or after the write.
Lose(p) ==
    /\ presses[p].step \in {"decide", "write", "release", "accepted"}
    /\ presses' = [presses EXCEPT ![p].step = "refused"]
    /\ UNCHANGED <<order, loads, page>>

\* The user leaves the page and opens it again: its state is gone.
Revisit ==
    /\ Len(loads) < MaxLoads - 1
    /\ loads' = Append(loads, NewLoad)
    /\ screen' = Loading
    /\ pending' = FALSE
    /\ sending' = 0
    /\ UNCHANGED <<order, presses, confirmed>>

-----------------------------------------------------------------------------
ServeLoad(l) == ReadOrder(l) \/ ReadHolder(l) \/ Answer(l)
EndLoad(l) == l \in DOMAIN loads /\ (ServeLoad(l) \/ FailLoad(l)) /\ UNCHANGED viewer
ServePress(p) == Decide(p) \/ Write(p) \/ Release(p) \/ Accepted(p) \/ Refused(p)

NextStep ==
    /\ \/ \E l \in 1..Len(loads) : ServeLoad(l) \/ FailLoad(l)
       \/ \E p \in 1..Len(presses) : ServePress(p) \/ Lose(p)
       \/ Effect \/ PressAdvance \/ GiveUp \/ Revisit \/ Others
    /\ UNCHANGED viewer

Spec == Init /\ [][NextStep]_vars

\* React runs the effects it has scheduled, and a request is answered or given
\* up after 15 s.  Nobody is obliged to press the button or to leave the page.
FairSpec ==
    /\ Spec
    /\ WF_vars(Effect /\ UNCHANGED viewer) /\ WF_vars(GiveUp /\ UNCHANGED viewer)
    /\ \A l \in 1..MaxLoads : WF_vars(EndLoad(l))

-----------------------------------------------------------------------------
\* Once the user was told that the order has moved, no later load shows the
\* order as it was before, whatever answers are late (useAsyncData drops the
\* answers of superseded loads).  Only the frame before the reload's effect
\* still has the old order.
ConfirmedIsShown == Visible /\ ~ pending => screen.data.version >= confirmed

\* While the order is as it was read, no button on the screen is one the backend
\* would refuse, and the advance offered is the right one; the buttons are all
\* those the backend would accept, unless the viewer's profile could not be read
\* (policy.go and format.ts against the checks of the use cases).  The assignment
\* panel is shown to whom policy.go grants it, and to nobody whose role Assign
\* would refuse; on an open order it is there whenever Assign would accept, but it
\* stays there when the order has a technician, and Assign would not.
HonestButtons ==
    Visible /\ order.status = screen.data.status /\ order.holder = screen.data.holder =>
        LET s == order.status
            h == order.holder
            accepted ==
                [canAdvance         |-> \E next \in Status : AcceptsAdvance(viewer, s, h, next),
                 canAddDiagnostic   |-> AcceptsDiagnostic(viewer, s, h),
                 canAddIntervention |-> AcceptsIntervention(viewer, s, h)]
        IN  /\ \A b \in DOMAIN accepted : Buttons[b] => accepted[b]
            /\ Buttons.canAdvance => AcceptsAdvance(viewer, s, h, Next(screen.data.status))
            /\ screen.known => \A b \in DOMAIN accepted : Buttons[b] = accepted[b]
            /\ Buttons.canAssign = ShowsAssignment
            /\ Buttons.canAssign => AcceptsAssign(viewer, None)
            /\ s # "DELIVERED" /\ AcceptsAssign(viewer, h) => Buttons.canAssign

\* The page never says "Cargando..." for ever.
LoadingEnds == screen.loading ~> ~ screen.loading

\* A confirmed advance comes to the screen, unless the load that would bring it
\* fails.
AdvanceIsSeen ==
    \A v \in 1..(MaxWrites + MaxPresses) :
        confirmed = v ~> screen.error \/ (Visible /\ screen.data.version >= v) \/ confirmed # v
=============================================================================
