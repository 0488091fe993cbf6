-------------------------------- MODULE Policy --------------------------------
(***************************************************************************)
(* What a user may do with an order, said twice in the backend: by         *)
(* CalculateOrderPermissions, which tells the client what buttons to show, *)
(* and by the checks the use cases make when the button is pressed.        *)
(***************************************************************************)
EXTENDS Lifecycle

CONSTANTS
    Technicians,  \* technician profiles
    Admin,        \* the administrator's account
    None          \* nobody, no status

ASSUME UsersAssumption == Admin \notin Technicians /\ None \notin Technicians \cup {Admin}
ASSUME NoStatusAssumption == None \notin Status

User == Technicians \cup {Admin}
Holder == Technicians \cup {None}

\* ServiceOrderStatus.Next: the first move of the table, if there is one.
Next(s) == IF allowedTransition[s] = {} THEN None ELSE CHOOSE n \in allowedTransition[s] : TRUE

\* The lifecycle without the technician requirement (a mutant).
MayAdvanceUnassigned(s, holder) == Next(s) # None

\* The part of the answer that is the same for every user.
MayAdvance(s, holder) ==
    /\ Next(s) # None
    /\ IsOperational(Next(s)) => holder # None

\* CalculateOrderPermissions for a user (None: a technician whose profile could
\* not be read), an order in status s and the technician on its active assignment.
Permissions(user, s, holder) ==
    LET open == s # "DELIVERED"
        mine == user # None /\ user = holder
    IN  [canAdvance         |-> open /\ (user = Admin \/ mine) /\ MayAdvance(s, holder),
         canAddDiagnostic   |-> open /\ mine /\ CanAddDiagnostic(s),
         canAddIntervention |-> open /\ mine /\ CanAddIntervention(s),
         canAssign          |-> open /\ user = Admin /\ CanAssignTechnician(s)]

\* What Advance, Record and Register check before they write.
AcceptsAdvance(user, s, holder, next) ==
    /\ user = Admin \/ holder = user
    /\ IsOperational(next) => holder # None
    /\ CanMoveTo(s, next)
AcceptsDiagnostic(user, s, holder) == holder = user /\ CanAddDiagnostic(s)
AcceptsIntervention(user, s, holder) == holder = user /\ CanAddIntervention(s)

\* What Assign checks of the order, for a technician who is free: it asks neither
\* for the status nor for CanAssignTechnician.
AcceptsAssign(user, holder) == user = Admin /\ holder = None
=============================================================================
