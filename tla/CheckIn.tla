------------------------------- MODULE CheckIn -------------------------------
(***************************************************************************)
(* The administrator's desk: customers, their vehicles and new technicians *)
(* are registered, and service orders opened for the vehicles.             *)
(*                                                                         *)
(* The number of a new order is one more than the rows counted by an       *)
(* earlier query, and the moment it was received is read from the clock in *)
(* between; only the unique key on the number stands against two requests  *)
(* that counted the same rows.  A technician is an account and a profile,  *)
(* stored by two statements of one transaction.  A form may be submitted   *)
(* again, by anybody, at any time.                                         *)
(***************************************************************************)
EXTENDS Naturals, Sequences

CONSTANTS
    Customers,  \* customers, each with a document number of its own
    Vehicles,   \* vehicles as the forms describe them
    Owner,      \* the customer each vehicle is registered for
    Plate, Vin, \* the plate and the VIN each form gives its vehicle
    Usernames,  \* user names, seeded or asked for new technicians
    Administrators,     \* the seeded accounts that have no profile
    SeededTechnicians,  \* the seeded accounts that have one
    Workers,    \* request goroutines that may run at the same time
    None,       \* a request field not in use
    MaxOrders,  \* bound: no check-in starts once this many orders exist
    MaxClock,   \* bound: the clock stops here
    MaxFaults   \* bound: how many database calls fail

ASSUME NoneAssumption == None \notin Vehicles \cup Workers
ASSUME OwnerAssumption == Owner \in [Vehicles -> Customers]
ASSUME SeedAssumption == Administrators \cup SeededTechnicians \subseteq Usernames
ASSUME BoundAssumption == MaxOrders \in Nat /\ MaxClock \in Nat /\ MaxFaults \in Nat

VARIABLES
    customers,   \* the customer table
    registered,  \* the vehicle table
    users,       \* the user table, by name
    profiles,    \* the technician table, by the name of its account
    pending,     \* the transaction that has inserted each user row and is open
    orders,      \* the service_order table, in commit order
    clock,       \* the server's clock
    faults,      \* how many database calls have failed
    pc,          \* the step each worker is about to take
    visit,       \* what each worker knows of the check-in it serves
    form,        \* the registration each worker serves
    answer       \* what each worker has answered to its last registration

registry == <<customers, registered, users, profiles, pending>>
vars == <<registry, orders, clock, faults, pc, visit, form, answer>>

\* A service_order row.
Order == [number: Nat, vehicle: Vehicles, receivedAt: Nat]

\* The vehicle asked for, the number read and the moment read, so far.
NoVisit == [vehicle |-> None, number |-> None, receivedAt |-> None]
Visit == [vehicle: Vehicles \cup {None}, number: Nat \cup {None},
          receivedAt: Nat \cup {None}]

\* A registration form.  What else it carries was validated when it came in.
Form == [kind: {"customer"}, key: Customers] \cup [kind: {"vehicle"}, key: Vehicles]
            \cup [kind: {"technician"}, key: Usernames]

Outcome == {"created", "conflict", "notFound", "error"}

CheckInStep == {"findVehicle", "count", "stamp", "save"}
FormStep == {"saveCustomer", "findOwner", "saveVehicle", "saveUser", "saveProfile"}

TypeOK ==
    /\ customers \subseteq Customers
    /\ registered \subseteq Vehicles
    /\ users \subseteq Usernames
    /\ profiles \subseteq Usernames
    /\ pending \in [Usernames -> Workers \cup {None}]
    /\ orders \in Seq(Order)
    /\ clock \in Nat
    /\ faults \in Nat
    /\ pc \in [Workers -> {"idle"} \cup CheckInStep \cup FormStep]
    /\ visit \in [Workers -> Visit]
    /\ form \in [Workers -> Form \cup {None}]
    /\ answer \in [Workers -> [form: Form, outcome: Outcome] \cup {None}]

\* The tables as the schema's seeds leave them: an administrator and technicians.
Init ==
    /\ customers = {}
    /\ registered = {}
    /\ users = Administrators \cup SeededTechnicians
    /\ profiles = SeededTechnicians
    /\ pending = [u \in Usernames |-> None]
    /\ orders = <<>>
    /\ clock = 0
    /\ faults = 0
    /\ pc = [w \in Workers |-> "idle"]
    /\ visit = [w \in Workers |-> NoVisit]
    /\ form = [w \in Workers |-> None]
    /\ answer = [w \in Workers |-> None]

-----------------------------------------------------------------------------
Goto(w, step) == pc' = [pc EXCEPT ![w] = step]

\* The check-in is answered and its goroutine ends.
Finish(w) ==
    /\ Goto(w, "idle")
    /\ visit' = [visit EXCEPT ![w] = NoVisit]
    /\ UNCHANGED <<form, answer>>

\* The registration is answered; its deferred rollback drops the user row of a
\* transaction still open.
Reply(w, outcome) ==
    /\ Goto(w, "idle")
    /\ answer' = [answer EXCEPT ![w] = [form |-> form[w], outcome |-> outcome]]
    /\ form' = [form EXCEPT ![w] = None]
    /\ pending' = [u \in Usernames |-> IF pending[u] = w THEN None ELSE pending[u]]
    /\ UNCHANGED visit

\* A check-in is asked for a vehicle, registered or not.
Accept(w) ==
    /\ pc[w] = "idle"
    /\ Len(orders) < MaxOrders
    /\ \E v \in Vehicles :
        visit' = [visit EXCEPT ![w] = [NoVisit EXCEPT !.vehicle = v]]
    /\ Goto(w, "findVehicle")
    /\ answer' = [answer EXCEPT ![w] = None]
    /\ UNCHANGED <<registry, orders, clock, faults, form>>

Known(v) == v \in registered /\ Owner[v] \in customers

\* vehicle.FindByID, joined to the owner: an unknown vehicle ends the check-in.
FindVehicle(w) ==
    /\ pc[w] = "findVehicle"
    /\ \/ /\ Known(visit[w].vehicle)
          /\ Goto(w, "count")
          /\ UNCHANGED <<visit, form, answer>>
       \/ /\ ~ Known(visit[w].vehicle)
          /\ Finish(w)
    /\ UNCHANGED <<registry, orders, clock, faults>>

\* The number of the last order given again (a mutant).
CountLast(w) ==
    /\ pc[w] = "count"
    /\ visit' = [visit EXCEPT ![w].number = IF orders = <<>> THEN 1 ELSE Len(orders)]
    /\ Goto(w, "stamp")
    /\ UNCHANGED <<registry, orders, clock, faults, form, answer>>

\* The moment of reception read when the request came in (a mutant).
CountAfterStamp(w) ==
    /\ pc[w] = "count"
    /\ \E t \in 0..clock :
        visit' = [visit EXCEPT ![w].number = Len(orders) + 1, ![w].receivedAt = t]
    /\ Goto(w, "save")
    /\ UNCHANGED <<registry, orders, clock, faults, form, answer>>

\* NextOrderNumber: SELECT COUNT(*) and one more.
Count(w) ==
    /\ pc[w] = "count"
    /\ visit' = [visit EXCEPT ![w].number = Len(orders) + 1]
    /\ Goto(w, "stamp")
    /\ UNCHANGED <<registry, orders, clock, faults, form, answer>>

\* NewServiceOrder with the current moment.
Stamp(w) ==
    /\ pc[w] = "stamp"
    /\ visit' = [visit EXCEPT ![w].receivedAt = clock]
    /\ Goto(w, "save")
    /\ UNCHANGED <<registry, orders, clock, faults, form, answer>>

\* The insert without the unique key (a mutant).
SaveAnyway(w) ==
    /\ pc[w] = "save"
    /\ orders' = Append(orders, visit[w])
    /\ Finish(w)
    /\ UNCHANGED <<registry, clock, faults>>

\* INSERT: a number already stored is a conflict and stores nothing.
NumberTaken(n) == \E i \in 1..Len(orders) : orders[i].number = n
Save(w) ==
    /\ pc[w] = "save"
    /\ \/ /\ ~ NumberTaken(visit[w].number)
          /\ orders' = Append(orders, visit[w])
       \/ /\ NumberTaken(visit[w].number)
          /\ UNCHANGED orders
    /\ Finish(w)
    /\ UNCHANGED <<registry, clock, faults>>

-----------------------------------------------------------------------------
(***************************************************************************)
(* Registrations.                                                          *)
(***************************************************************************)

\* The first database call of each form.
FirstStep(f) ==
    CASE f.kind = "customer" -> "saveCustomer"
      [] f.kind = "vehicle" -> "findOwner"
      [] f.kind = "technician" -> "saveUser"

\* A form is submitted, for the first time or again.
Submit(w) ==
    /\ pc[w] = "idle"
    /\ \E f \in Form :
        /\ form' = [form EXCEPT ![w] = f]
        /\ Goto(w, FirstStep(f))
    /\ answer' = [answer EXCEPT ![w] = None]
    /\ UNCHANGED <<registry, orders, clock, faults, visit>>

\* CustomerRepository.Save: one insert under the unique document number.
SaveCustomer(w) ==
    /\ pc[w] = "saveCustomer"
    /\ customers' = customers \cup {form[w].key}
    /\ Reply(w, IF form[w].key \in customers THEN "conflict" ELSE "created")
    /\ UNCHANGED <<registered, users, profiles, orders, clock, faults>>

\* VehicleUseCase.Register: the owner must be on file ...
FindOwner(w) ==
    /\ pc[w] = "findOwner"
    /\ \/ /\ Owner[form[w].key] \in customers
          /\ Goto(w, "saveVehicle")
          /\ UNCHANGED <<pending, visit, form, answer>>
       \/ /\ Owner[form[w].key] \notin customers
          /\ Reply(w, "notFound")
    /\ UNCHANGED <<customers, registered, users, profiles, orders, clock, faults>>

\* ... and the vehicle is inserted under two unique keys, its plate and its VIN:
\* either of them alone refuses it.
SharesKey(u, v) == Plate[u] = Plate[v] \/ Vin[u] = Vin[v]
SaveVehicle(w) ==
    /\ pc[w] = "saveVehicle"
    /\ \/ /\ ~ \E v \in registered : SharesKey(v, form[w].key)
          /\ registered' = registered \cup {form[w].key}
          /\ Reply(w, "created")
       \/ /\ \E v \in registered : SharesKey(v, form[w].key)
          /\ UNCHANGED registered
          /\ Reply(w, "conflict")
    /\ UNCHANGED <<customers, users, profiles, orders, clock, faults>>

\* The account stored by a statement of its own (a mutant).
SaveUserAlone(w) ==
    /\ pc[w] = "saveUser"
    /\ \/ /\ form[w].key \notin users
          /\ users' = users \cup {form[w].key}
          /\ Goto(w, "saveProfile")
          /\ UNCHANGED <<pending, visit, form, answer>>
       \/ /\ form[w].key \in users
          /\ Reply(w, "conflict")
          /\ UNCHANGED users
    /\ UNCHANGED <<customers, registered, profiles, orders, clock, faults>>

\* CreateWithAccount inserts the user row under its unique name: a name another
\* open transaction has inserted is waited for, a name on file is a conflict.
SaveUser(w) ==
    /\ pc[w] = "saveUser"
    /\ pending[form[w].key] = None
    /\ \/ /\ form[w].key \notin users
          /\ pending' = [pending EXCEPT ![form[w].key] = w]
          /\ Goto(w, "saveProfile")
          /\ UNCHANGED <<visit, form, answer>>
       \/ /\ form[w].key \in users
          /\ Reply(w, "conflict")
    /\ UNCHANGED <<customers, registered, users, profiles, orders, clock, faults>>

\* It inserts the profile and commits both.
SaveProfile(w) ==
    /\ pc[w] = "saveProfile"
    /\ users' = users \cup {form[w].key}
    /\ profiles' = profiles \cup {form[w].key}
    /\ Reply(w, "created")
    /\ UNCHANGED <<customers, registered, orders, clock, faults>>

-----------------------------------------------------------------------------
\* A database call fails, which ends the request.
Fail(w) ==
    /\ faults < MaxFaults
    /\ \/ /\ pc[w] \in {"findVehicle", "count", "save"}
          /\ Finish(w)
          /\ UNCHANGED pending
       \/ /\ pc[w] \in FormStep
          /\ Reply(w, "error")
    /\ faults' = faults + 1
    /\ UNCHANGED <<customers, registered, users, profiles, orders, clock>>

\* The commit was done and its answer is lost on the way.
Lose(w) ==
    /\ faults < MaxFaults
    /\ answer[w] # None
    /\ answer[w].outcome = "created"
    /\ answer' = [answer EXCEPT ![w].outcome = "error"]
    /\ faults' = faults + 1
    /\ UNCHANGED <<registry, orders, clock, pc, visit, form>>

Tick ==
    /\ clock < MaxClock
    /\ clock' = clock + 1
    /\ UNCHANGED <<registry, orders, faults, pc, visit, form, answer>>

-----------------------------------------------------------------------------
Serve(w) ==
    \/ FindVehicle(w) \/ Count(w) \/ Stamp(w) \/ Save(w)
    \/ SaveCustomer(w) \/ FindOwner(w) \/ SaveVehicle(w)
    \/ SaveUser(w) \/ SaveProfile(w)

Next ==
    \/ \E w \in Workers : Accept(w) \/ Submit(w) \/ Serve(w) \/ Fail(w) \/ Lose(w)
    \/ Tick

Spec == Init /\ [][Next]_vars

\* A started goroutine is scheduled until it answers.
FairSpec == Spec /\ \A w \in Workers : WF_vars(Serve(w))

-----------------------------------------------------------------------------
\* Order numbers are 1, 2, 3... in commit order, with no gap and no repetition,
\* however many check-ins counted the same rows and whatever failed.
NumbersAreConsecutive == \A i \in 1..Len(orders) : orders[i].number = i

\* A higher number was never received earlier, although numbers are read and
\* orders stored in different steps (Open reads the clock after it has counted).
NumbersFollowArrival ==
    \A i, j \in 1..Len(orders) : i < j => orders[i].receivedAt <= orders[j].receivedAt

\* Check-ins never block one another for good: once calls no longer fail, a
\* check-in of a registered vehicle is followed by a new order, its own or the
\* one that took its number.
CheckInAdvances ==
    \A n \in 0..MaxOrders :
        Len(orders) = n /\ faults = MaxFaults /\ (\E w \in Workers : pc[w] = "count")
            ~> Len(orders) > n

\* Whoever is told that a registration was made finds it on file, a vehicle with
\* its owner and an account with its profile; whoever is refused for a conflict is
\* refused for a row that is there whole.  So CreateWithAccount is all or nothing,
\* and a form submitted again after a lost answer is refused only for what is
\* stored.  The row may be another's: a vehicle that shares only the plate or only
\* the VIN, or the account of a seeded administrator.
OnFile(f) ==
    /\ f.kind = "customer" => f.key \in customers
    /\ f.kind = "vehicle" => f.key \in registered /\ Owner[f.key] \in customers
    /\ f.kind = "technician" => f.key \in users /\ f.key \in profiles
Taken(f) ==
    /\ f.kind = "customer" => f.key \in customers
    /\ f.kind = "vehicle" =>
        \E v \in registered : SharesKey(v, f.key) /\ Owner[v] \in customers
    /\ f.kind = "technician" => f.key \in profiles \cup Administrators
AnswerTrue(w) ==
    answer[w] # None =>
        /\ answer[w].outcome = "created" => OnFile(answer[w].form)
        /\ answer[w].outcome = "conflict" => Taken(answer[w].form)
AnswersAreTrue == \A w \in Workers : AnswerTrue(w)
=============================================================================
