---------------------------- MODULE CheckInProofs ----------------------------
(***************************************************************************)
(* Order numbers are consecutive and follow the arrival of the vehicles,   *)
(* and no registration is answered for that the tables do not bear out,    *)
(* for any number of workers, orders, registrations, failures and clock    *)
(* readings, whatever accounts are seeded and whatever vehicles share a    *)
(* plate or a VIN.                                                         *)
(***************************************************************************)
EXTENDS CheckIn, TLAPS

\* The registry and the requests that write it keep their types.
RegistryTypes ==
    /\ customers \subseteq Customers
    /\ registered \subseteq Vehicles
    /\ users \subseteq Usernames
    /\ profiles \subseteq Usernames
    /\ pending \in [Usernames -> Workers \cup {None}]
    /\ pc \in [Workers -> {"idle"} \cup CheckInStep \cup FormStep]
    /\ form \in [Workers -> Form \cup {None}]
    /\ answer \in [Workers -> [form: Form, outcome: Outcome] \cup {None}]

\* The form a worker serves is the one its step is for, and the owner it found
\* is still on file: no customer is ever removed.
FormFits(w) ==
    /\ pc[w] = "saveCustomer" => form[w] \in [kind: {"customer"}, key: Customers]
    /\ pc[w] \in {"findOwner", "saveVehicle"} =>
        form[w] \in [kind: {"vehicle"}, key: Vehicles]
    /\ pc[w] = "saveVehicle" => Owner[form[w].key] \in customers
    /\ pc[w] \in {"saveUser", "saveProfile"} =>
        form[w] \in [kind: {"technician"}, key: Usernames]

\* The registry's inductive invariant: every account but an administrator's has
\* its profile, every vehicle its owner, and every answer and form fits them.
RInv ==
    /\ RegistryTypes
    /\ users = profiles \cup Administrators
    /\ \A v \in registered : Owner[v] \in customers
    /\ \A w \in Workers : FormFits(w) /\ AnswerTrue(w)

LEMMA InitRegistry == Init => RInv
  BY NoneAssumption, SeedAssumption DEF Init, RInv, RegistryTypes, FormFits, AnswerTrue

\* What is on file stays on file while the tables grow.
LEMMA FileGrows ==
    ASSUME NEW f \in Form,
           customers \subseteq customers', registered \subseteq registered',
           users \subseteq users', profiles \subseteq profiles'
    PROVE  (OnFile(f) => OnFile(f)') /\ (Taken(f) => Taken(f)')
  BY DEF OnFile, Taken

\* A step of one worker that only adds rows keeps the registry's invariant when
\* that worker's own form and answer fit.
LEMMA RegistryStep ==
    ASSUME RInv, RegistryTypes', NEW w \in Workers,
           customers \subseteq customers', registered \subseteq registered',
           users \subseteq users', profiles \subseteq profiles',
           users' = profiles' \cup Administrators,
           \A v \in registered' : Owner[v] \in customers',
           \A u \in Workers \ {w} :
               pc'[u] = pc[u] /\ form'[u] = form[u] /\ answer'[u] = answer[u],
           FormFits(w)', AnswerTrue(w)'
    PROVE  RInv'
  <1> SUFFICES ASSUME NEW u \in Workers, u # w PROVE FormFits(u)' /\ AnswerTrue(u)'
    BY DEF RInv
  <1>1. /\ pc'[u] = pc[u] /\ form'[u] = form[u] /\ answer'[u] = answer[u]
        /\ FormFits(u) /\ AnswerTrue(u)
    BY DEF RInv
  <1>2. FormFits(u)'
    BY <1>1 DEF FormFits
  <1>3. AnswerTrue(u)'
    <2> SUFFICES ASSUME answer[u] # None
                 PROVE  /\ answer[u].outcome = "created" => OnFile(answer[u].form)'
                        /\ answer[u].outcome = "conflict" => Taken(answer[u].form)'
      BY <1>1 DEF AnswerTrue
    <2>1. /\ answer[u].form \in Form
          /\ answer[u].outcome = "created" => OnFile(answer[u].form)
          /\ answer[u].outcome = "conflict" => Taken(answer[u].form)
      BY <1>1 DEF RInv, RegistryTypes, AnswerTrue
    <2> QED BY <2>1, FileGrows
  <1> QED BY <1>2, <1>3

\* The registration is answered.
LEMMA ReplyStep ==
    ASSUME RInv, NEW w \in Workers, NEW outcome \in Outcome, Reply(w, outcome),
           NEW f \in Form, form[w] = f,
           customers' \subseteq Customers, registered' \subseteq Vehicles,
           users' \subseteq Usernames,
           customers \subseteq customers', registered \subseteq registered',
           users \subseteq users', profiles \subseteq profiles',
           users' = profiles' \cup Administrators,
           \A v \in registered' : Owner[v] \in customers',
           outcome = "created" => OnFile(f)', outcome = "conflict" => Taken(f)'
    PROVE  RInv'
  <1>1. /\ pc' = [pc EXCEPT ![w] = "idle"]
        /\ answer' = [answer EXCEPT ![w] = [form |-> form[w], outcome |-> outcome]]
        /\ form' = [form EXCEPT ![w] = None]
        /\ pending' = [u \in Usernames |-> IF pending[u] = w THEN None ELSE pending[u]]
    BY DEF Reply, Goto
  <1>2. RegistryTypes'
    BY <1>1 DEF RInv, RegistryTypes
  <1>3. FormFits(w)' /\ AnswerTrue(w)'
    <2>1. pc'[w] = "idle" /\ answer'[w] = [form |-> form[w], outcome |-> outcome]
      BY <1>1 DEF RInv, RegistryTypes
    <2>2. answer'[w].form = f /\ answer'[w].outcome = outcome
      BY <2>1
    <2>3. OnFile(answer[w].form)' = OnFile(f)' /\ Taken(answer[w].form)' = Taken(f)'
      BY <2>2 DEF OnFile, Taken
    <2> QED BY <2>1, <2>2, <2>3 DEF FormFits, AnswerTrue
  <1>4. \A u \in Workers \ {w} :
            pc'[u] = pc[u] /\ form'[u] = form[u] /\ answer'[u] = answer[u]
    BY <1>1 DEF RInv, RegistryTypes
  <1> QED BY <1>2, <1>3, <1>4, RegistryStep

\* The step of a check-in leaves the registry alone.
LEMMA CheckInStepKeeps ==
    ASSUME RInv, NEW w \in Workers, UNCHANGED <<registry, form>>,
           NEW step \in {"idle"} \cup CheckInStep, Goto(w, step),
           answer' = answer \/ answer' = [answer EXCEPT ![w] = None]
    PROVE  RInv'
  <1>1. RegistryTypes'
    BY DEF RInv, RegistryTypes, registry, Goto
  <1>2. FormFits(w)' /\ pc'[w] = step
    BY DEF RInv, RegistryTypes, registry, Goto, FormFits, CheckInStep
  <1>3. AnswerTrue(w)'
    BY DEF RInv, RegistryTypes, registry, AnswerTrue, OnFile, Taken
  <1>4. \A u \in Workers \ {w} :
            pc'[u] = pc[u] /\ form'[u] = form[u] /\ answer'[u] = answer[u]
    BY DEF RInv, RegistryTypes, Goto
  <1> QED BY <1>1, <1>2, <1>3, <1>4, RegistryStep DEF RInv, registry

LEMMA RegistryInv == RInv /\ [Next]_vars => RInv'
  <1> SUFFICES ASSUME RInv, [Next]_vars PROVE RInv'
    OBVIOUS
  <1>1. CASE UNCHANGED vars \/ Tick
    BY <1>1 DEF vars, registry, Tick, RInv, RegistryTypes, FormFits, AnswerTrue, OnFile, Taken
  <1>2. ASSUME NEW w \in Workers, Accept(w) PROVE RInv'
    BY <1>2, CheckInStepKeeps DEF Accept, CheckInStep
  <1>3. ASSUME NEW w \in Workers, FindVehicle(w) \/ Count(w) \/ Stamp(w) \/ Save(w)
        PROVE  RInv'
    <2>1. PICK step \in {"idle"} \cup CheckInStep : Goto(w, step)
      BY <1>3 DEF FindVehicle, Count, Stamp, Save, Finish, CheckInStep
    <2>2. UNCHANGED <<registry, form, answer>>
      BY <1>3 DEF FindVehicle, Count, Stamp, Save, Finish
    <2> QED BY <2>1, <2>2, CheckInStepKeeps
  <1>4. ASSUME NEW w \in Workers, Submit(w) PROVE RInv'
    <2>1. PICK f \in Form : form' = [form EXCEPT ![w] = f] /\ Goto(w, FirstStep(f))
      BY <1>4 DEF Submit
    <2>2. UNCHANGED registry /\ answer' = [answer EXCEPT ![w] = None]
      BY <1>4 DEF Submit
    <2>3. \/ f \in [kind: {"customer"}, key: Customers] /\ FirstStep(f) = "saveCustomer"
          \/ f \in [kind: {"vehicle"}, key: Vehicles] /\ FirstStep(f) = "findOwner"
          \/ f \in [kind: {"technician"}, key: Usernames] /\ FirstStep(f) = "saveUser"
      BY DEF Form, FirstStep
    <2>4. FirstStep(f) \in FormStep
      BY <2>3 DEF FormStep
    <2>5. RegistryTypes'
      BY <2>1, <2>2, <2>4 DEF RInv, RegistryTypes, registry, Goto
    <2>6. pc'[w] = FirstStep(f) /\ form'[w] = f /\ answer'[w] = None
      BY <2>1, <2>2 DEF RInv, RegistryTypes, Goto
    <2>7. FormFits(w)' /\ AnswerTrue(w)'
      BY <2>3, <2>6 DEF FormFits, AnswerTrue
    <2>8. \A u \in Workers \ {w} :
              pc'[u] = pc[u] /\ form'[u] = form[u] /\ answer'[u] = answer[u]
      BY <2>1, <2>2 DEF RInv, RegistryTypes, Goto
    <2> QED BY <2>2, <2>5, <2>7, <2>8, RegistryStep DEF RInv, registry
  <1>5. ASSUME NEW w \in Workers, SaveCustomer(w) PROVE RInv'
    <2>1. form[w] \in [kind: {"customer"}, key: Customers]
      BY <1>5 DEF SaveCustomer, RInv, FormFits
    <2>2. form[w] \in Form /\ form[w].key \in Customers
          /\ \A f \in Form : f = form[w] => OnFile(f)' /\ Taken(f)'
      BY <1>5, <2>1 DEF Form, OnFile, Taken, SaveCustomer
    <2>3. PICK outcome \in Outcome : Reply(w, outcome)
      BY <1>5 DEF SaveCustomer, Outcome
    <2> QED BY <1>5, <2>2, <2>3, ReplyStep DEF SaveCustomer, RInv, RegistryTypes
  <1>6. ASSUME NEW w \in Workers, FindOwner(w) PROVE RInv'
    <2>1. form[w] \in [kind: {"vehicle"}, key: Vehicles]
      BY <1>6 DEF FindOwner, RInv, FormFits
    <2>2. CASE Owner[form[w].key] \in customers /\ Goto(w, "saveVehicle")
               /\ UNCHANGED <<pending, visit, form, answer>>
      <3>1. UNCHANGED <<registry, form, answer>> /\ pc' = [pc EXCEPT ![w] = "saveVehicle"]
        BY <1>6, <2>2 DEF FindOwner, registry, Goto
      <3>2. RegistryTypes' /\ pc'[w] = "saveVehicle"
        BY <3>1 DEF RInv, RegistryTypes, registry, FormStep
      <3>3. FormFits(w)' /\ AnswerTrue(w)'
        BY <2>1, <2>2, <3>1, <3>2 DEF RInv, FormFits, AnswerTrue, OnFile, Taken, registry
      <3>4. \A u \in Workers \ {w} :
                pc'[u] = pc[u] /\ form'[u] = form[u] /\ answer'[u] = answer[u]
        BY <3>1 DEF RInv, RegistryTypes
      <3> QED BY <3>1, <3>2, <3>3, <3>4, RegistryStep DEF RInv, registry
    <2>3. CASE Reply(w, "notFound")
      <3>1. form[w] \in Form
        BY <2>1 DEF Form
      <3> QED BY <1>6, <2>3, <3>1, ReplyStep DEF FindOwner, RInv, RegistryTypes, Outcome
    <2> QED BY <1>6, <2>2, <2>3 DEF FindOwner
  <1>7. ASSUME NEW w \in Workers, SaveVehicle(w) PROVE RInv'
    <2>1. /\ form[w] \in [kind: {"vehicle"}, key: Vehicles]
          /\ Owner[form[w].key] \in customers
      BY <1>7 DEF SaveVehicle, RInv, FormFits
    <2>2. form[w] \in Form /\ form[w].key \in Vehicles
      BY <2>1 DEF Form
    <2>3. CASE registered' = registered \cup {form[w].key} /\ Reply(w, "created")
      <3>1. \A f \in Form : f = form[w] => OnFile(f)'
        BY <1>7, <2>1, <2>3 DEF Form, OnFile, SaveVehicle
      <3> QED
        BY <1>7, <2>1, <2>2, <2>3, <3>1, ReplyStep
        DEF SaveVehicle, RInv, RegistryTypes, Outcome
    <2>4. CASE /\ \E v \in registered : SharesKey(v, form[w].key)
               /\ UNCHANGED registered /\ Reply(w, "conflict")
      <3>1. \A f \in Form : f = form[w] => Taken(f)'
        BY <1>7, <2>1, <2>4 DEF Form, Taken, SaveVehicle, RInv
      <3> QED
        BY <1>7, <2>2, <2>4, <3>1, ReplyStep
        DEF SaveVehicle, RInv, RegistryTypes, Outcome
    <2> QED BY <1>7, <2>3, <2>4 DEF SaveVehicle
  <1>8. ASSUME NEW w \in Workers, SaveUser(w) PROVE RInv'
    <2>1. form[w] \in [kind: {"technician"}, key: Usernames]
      BY <1>8 DEF SaveUser, RInv, FormFits
    <2>2. CASE pending' = [pending EXCEPT ![form[w].key] = w] /\ Goto(w, "saveProfile")
               /\ UNCHANGED <<visit, form, answer>>
      <3>1. UNCHANGED <<customers, registered, users, profiles, form, answer>>
        BY <1>8, <2>2 DEF SaveUser
      <3>2. RegistryTypes' /\ pc'[w] = "saveProfile"
        BY <2>1, <2>2, <3>1 DEF RInv, RegistryTypes, Goto, FormStep
      <3>3. FormFits(w)' /\ AnswerTrue(w)'
        BY <2>1, <3>1, <3>2 DEF RInv, FormFits, AnswerTrue, OnFile, Taken
      <3>4. \A u \in Workers \ {w} :
                pc'[u] = pc[u] /\ form'[u] = form[u] /\ answer'[u] = answer[u]
        BY <2>2 DEF RInv, RegistryTypes, Goto
      <3> QED BY <3>1, <3>2, <3>3, <3>4, RegistryStep DEF RInv
    <2>3. CASE form[w].key \in users /\ Reply(w, "conflict")
      <3>1. form[w] \in Form /\ \A f \in Form : f = form[w] => Taken(f)'
        BY <1>8, <2>1, <2>3 DEF Form, Taken, RInv, SaveUser
      <3> QED BY <1>8, <2>3, <3>1, ReplyStep DEF SaveUser, RInv, RegistryTypes, Outcome
    <2> QED BY <1>8, <2>2, <2>3 DEF SaveUser
  <1>9. ASSUME NEW w \in Workers, SaveProfile(w) PROVE RInv'
    <2>1. form[w] \in [kind: {"technician"}, key: Usernames]
      BY <1>9 DEF SaveProfile, RInv, FormFits
    <2>2. form[w] \in Form /\ form[w].key \in Usernames
          /\ \A f \in Form : f = form[w] => OnFile(f)'
      BY <1>9, <2>1 DEF Form, OnFile, SaveProfile
    <2> QED BY <1>9, <2>2, ReplyStep DEF SaveProfile, RInv, RegistryTypes, Outcome
  <1>10. ASSUME NEW w \in Workers, Fail(w) PROVE RInv'
    <2>1. CASE Finish(w) /\ UNCHANGED pending
      BY <1>10, <2>1, CheckInStepKeeps DEF Fail, Finish, registry
    <2>2. CASE pc[w] \in FormStep /\ Reply(w, "error")
      <3>1. form[w] \in Form
        BY <2>2 DEF RInv, FormFits, FormStep, Form
      <3> QED BY <1>10, <2>2, <3>1, ReplyStep DEF Fail, RInv, RegistryTypes, Outcome
    <2> QED BY <1>10, <2>1, <2>2 DEF Fail
  <1>11. ASSUME NEW w \in Workers, Lose(w) PROVE RInv'
    <2>1. UNCHANGED <<registry, pc, form>> /\ answer[w] # None
      BY <1>11 DEF Lose
    <2>2. answer' = [answer EXCEPT ![w] = [answer[w] EXCEPT !.outcome = "error"]]
      BY <1>11 DEF Lose
    <2>3. answer[w] \in [form: Form, outcome: Outcome]
      BY <2>1 DEF RInv, RegistryTypes
    <2>4. /\ answer'[w] \in [form: Form, outcome: Outcome]
          /\ answer'[w].outcome = "error"
      BY <2>2, <2>3 DEF RInv, RegistryTypes, Outcome
    <2>5. RegistryTypes'
      BY <2>1, <2>2, <2>4 DEF RInv, RegistryTypes, registry
    <2>6. FormFits(w)' /\ AnswerTrue(w)'
      BY <2>1, <2>4 DEF RInv, FormFits, AnswerTrue, registry
    <2>7. \A u \in Workers \ {w} :
              pc'[u] = pc[u] /\ form'[u] = form[u] /\ answer'[u] = answer[u]
      BY <2>1, <2>2 DEF RInv, RegistryTypes
    <2> QED BY <2>1, <2>5, <2>6, <2>7, RegistryStep DEF RInv, registry
  <1> QED
    BY <1>1, <1>2, <1>3, <1>4, <1>5, <1>6, <1>7, <1>8, <1>9, <1>10, <1>11 DEF Next, Serve

-----------------------------------------------------------------------------
\* What a worker knows at the step it has reached.
VisitFits(w) ==
    /\ pc[w] \in CheckInStep => visit[w].vehicle \in Vehicles
    /\ pc[w] \in {"stamp", "save"} =>
        /\ visit[w].number \in Nat \ {0}
        /\ visit[w].number <= Len(orders) + 1
    /\ pc[w] = "save" =>
        /\ visit[w].receivedAt \in Nat
        /\ visit[w].receivedAt <= clock
        /\ \A i \in 1..Len(orders) :
            i < visit[w].number => orders[i].receivedAt <= visit[w].receivedAt

\* The inductive invariant: no order is received in the future, and whoever has
\* a number holds at most the next one and a moment after all the lower ones.
IInv ==
    /\ TypeOK
    /\ NumbersAreConsecutive
    /\ NumbersFollowArrival
    /\ \A i \in 1..Len(orders) : orders[i].receivedAt <= clock
    /\ \A w \in Workers : VisitFits(w)

LEMMA InitInv == Init => IInv
  BY NoneAssumption, SeedAssumption DEF Init, CheckInStep, IInv, TypeOK, NumbersAreConsecutive, NumbersFollowArrival,
     VisitFits, NoVisit, Visit

\* A step of one worker that leaves the tables alone keeps the invariant when
\* that worker's own visit fits.
LEMMA VisitStep ==
    ASSUME IInv, NEW w \in Workers, UNCHANGED <<orders, clock>>,
           NEW step \in {"idle"} \cup CheckInStep \cup FormStep,
           NEW v \in Visit,
           pc' = [pc EXCEPT ![w] = step], visit' = [visit EXCEPT ![w] = v],
           RegistryTypes', faults' \in Nat, VisitFits(w)'
    PROVE  IInv'
  <1>1. TypeOK'
    BY DEF IInv, TypeOK, RegistryTypes
  <1>2. \A u \in Workers : VisitFits(u)'
    <2> SUFFICES ASSUME NEW u \in Workers, u # w PROVE VisitFits(u)'
      OBVIOUS
    <2>1. pc'[u] = pc[u] /\ visit'[u] = visit[u]
      BY DEF IInv, TypeOK
    <2> QED BY <2>1 DEF IInv, VisitFits
  <1> QED
    BY <1>1, <1>2 DEF IInv, NumbersAreConsecutive, NumbersFollowArrival

\* The request is over.
LEMMA FinishStep ==
    ASSUME IInv, NEW w \in Workers, Finish(w), UNCHANGED <<orders, clock>>,
           RegistryTypes', faults' \in Nat
    PROVE  IInv'
  <1>1. NoVisit \in Visit
    BY DEF NoVisit, Visit
  <1>2. pc' = [pc EXCEPT ![w] = "idle"] /\ visit' = [visit EXCEPT ![w] = NoVisit]
    BY DEF Finish, Goto
  <1>3. VisitFits(w)'
    BY <1>2 DEF IInv, TypeOK, VisitFits, CheckInStep
  <1> QED BY <1>1, <1>2, <1>3, VisitStep

\* A number not taken and at most the next one is the next one.
LEMMA FreshIsNext ==
    ASSUME IInv, NEW w \in Workers, pc[w] = "save", ~ NumberTaken(visit[w].number)
    PROVE  visit[w].number = Len(orders) + 1
  <1>1. orders \in Seq(Order) /\ Len(orders) \in Nat
    BY DEF IInv, TypeOK
  <1>2. visit[w].number \in Nat \ {0} /\ visit[w].number <= Len(orders) + 1
    BY DEF IInv, VisitFits
  <1>3. visit[w].number \notin 1..Len(orders)
    BY DEF IInv, NumbersAreConsecutive, NumberTaken
  <1> QED BY <1>1, <1>2, <1>3

LEMMA SaveInv ==
    ASSUME IInv, RegistryTypes', NEW w \in Workers, Save(w)
    PROVE  IInv'
  <1>1. CASE NumberTaken(visit[w].number)
    BY <1>1, FinishStep DEF Save, IInv, TypeOK
  <1>2. CASE ~ NumberTaken(visit[w].number)
    <2> DEFINE row == visit[w]
    <2>1. /\ orders' = Append(orders, row) /\ Finish(w)
          /\ UNCHANGED <<clock, faults>> /\ pc[w] = "save"
      BY <1>2 DEF Save
    <2>2. orders \in Seq(Order) /\ Len(orders) \in Nat
      BY DEF IInv, TypeOK
    <2>3. row.number = Len(orders) + 1
      BY <1>2, <2>1, FreshIsNext
    <2>4. row \in Order /\ row.receivedAt <= clock
      BY <2>1 DEF IInv, TypeOK, VisitFits, Visit, Order, CheckInStep
    <2>5. /\ Len(orders') = Len(orders) + 1
          /\ \A i \in 1..Len(orders) : orders'[i] = orders[i]
          /\ orders'[Len(orders) + 1] = row
          /\ orders' \in Seq(Order)
      BY <2>1, <2>2, <2>4
    <2>6. \A i \in 1..Len(orders) : orders[i].receivedAt <= row.receivedAt
      BY <2>1, <2>2, <2>3 DEF IInv, VisitFits
    <2>7. NumbersAreConsecutive'
      BY <2>2, <2>3, <2>5 DEF IInv, NumbersAreConsecutive
    <2>8. NumbersFollowArrival'
      <3> SUFFICES ASSUME NEW i \in 1..Len(orders'), NEW j \in 1..Len(orders'), i < j
                   PROVE  orders'[i].receivedAt <= orders'[j].receivedAt
        BY DEF NumbersFollowArrival
      <3>1. CASE j \in 1..Len(orders)
        BY <3>1, <2>2, <2>5 DEF IInv, NumbersFollowArrival
      <3>2. CASE j = Len(orders) + 1
        BY <3>2, <2>2, <2>5, <2>6
      <3> QED BY <3>1, <3>2, <2>2, <2>5
    <2>9. (\A i \in 1..Len(orders) : orders[i].receivedAt <= clock)'
      BY <2>1, <2>2, <2>4, <2>5 DEF IInv
    <2>10. TypeOK'
      BY <2>1, <2>5 DEF IInv, TypeOK, RegistryTypes, Finish, Goto, NoVisit, Visit
    <2>11. \A u \in Workers : VisitFits(u)'
      <3> SUFFICES ASSUME NEW u \in Workers PROVE VisitFits(u)'
        OBVIOUS
      <3>1. CASE u = w
        BY <3>1, <2>1 DEF IInv, TypeOK, Finish, Goto, VisitFits, CheckInStep
      <3>2. CASE u # w
        <4>1. pc'[u] = pc[u] /\ visit'[u] = visit[u] /\ clock' = clock
          BY <3>2, <2>1 DEF IInv, TypeOK, Finish, Goto
        <4>2. VisitFits(u)
          BY DEF IInv
        <4> QED BY <4>1, <4>2, <2>2, <2>5 DEF VisitFits
      <3> QED BY <3>1, <3>2
    <2> QED BY <2>7, <2>8, <2>9, <2>10, <2>11 DEF IInv
  <1> QED BY <1>1, <1>2

\* The steps of a registration leave every check-in alone.
LEMMA FormStepKeeps ==
    ASSUME IInv, RegistryTypes', NEW w \in Workers,
           UNCHANGED <<orders, clock, visit>>, faults' \in Nat,
           NEW step \in {"idle"} \cup FormStep, Goto(w, step)
    PROVE  IInv'
  <1>1. visit' = [visit EXCEPT ![w] = visit[w]] /\ visit[w] \in Visit
    BY DEF IInv, TypeOK
  <1>2. VisitFits(w)'
    BY DEF IInv, TypeOK, VisitFits, Goto, CheckInStep, FormStep
  <1> QED BY <1>1, <1>2, VisitStep DEF Goto

LEMMA StepInv == RInv /\ IInv /\ [Next]_vars => IInv'
  <1> SUFFICES ASSUME RInv, IInv, [Next]_vars PROVE IInv'
    OBVIOUS
  <1>0. RegistryTypes'
    BY RegistryInv DEF RInv
  <1>1. CASE UNCHANGED vars
    BY <1>1 DEF vars, registry, IInv, TypeOK, NumbersAreConsecutive, NumbersFollowArrival, VisitFits
  <1>2. ASSUME NEW w \in Workers,
               \/ Submit(w) \/ SaveCustomer(w) \/ FindOwner(w) \/ SaveVehicle(w)
               \/ SaveUser(w) \/ SaveProfile(w)
        PROVE  IInv'
    <2>1. UNCHANGED <<orders, clock, visit>> /\ faults' \in Nat
      BY <1>2 DEF Submit, SaveCustomer, FindOwner, SaveVehicle, SaveUser, SaveProfile,
         Reply, IInv, TypeOK
    <2>2. \A f \in Form : FirstStep(f) \in FormStep
      BY DEF Form, FirstStep, FormStep
    <2>3. PICK step \in {"idle"} \cup FormStep : Goto(w, step)
      BY <1>2, <2>2 DEF Submit, SaveCustomer, FindOwner, SaveVehicle, SaveUser,
         SaveProfile, Reply, FormStep
    <2> QED BY <1>0, <2>1, <2>3, FormStepKeeps
  <1>3. CASE Tick
    <2>1. clock \in Nat /\ clock' = clock + 1 /\ orders \in Seq(Order)
      BY <1>3 DEF Tick, IInv, TypeOK
    <2>2. \A i \in 1..Len(orders) : orders[i].receivedAt \in Nat
      <3> SUFFICES ASSUME NEW i \in 1..Len(orders) PROVE orders[i].receivedAt \in Nat
        OBVIOUS
      <3>1. orders[i] \in Order
        BY <2>1
      <3> QED BY <3>1 DEF Order
    <2>3. \A i \in 1..Len(orders) : orders[i].receivedAt <= clock'
      BY <2>1, <2>2 DEF IInv
    <2>4. \A w \in Workers : VisitFits(w)'
      BY <1>3, <2>1 DEF Tick, IInv, VisitFits
    <2>5. TypeOK'
      BY <1>0, <1>3, <2>1 DEF Tick, IInv, TypeOK, RegistryTypes
    <2> QED
      BY <1>3, <2>3, <2>4, <2>5 DEF Tick, IInv, NumbersAreConsecutive, NumbersFollowArrival
  <1>4. ASSUME NEW w \in Workers, Accept(w) PROVE IInv'
    <2>1. PICK v \in Vehicles : visit' = [visit EXCEPT ![w] = [NoVisit EXCEPT !.vehicle = v]]
      BY <1>4 DEF Accept
    <2> DEFINE asked == [NoVisit EXCEPT !.vehicle = v]
    <2>2. asked \in Visit /\ asked.vehicle = v
      BY DEF NoVisit, Visit
    <2>3. VisitFits(w)'
      BY <1>4, <2>1, <2>2 DEF Accept, Goto, IInv, TypeOK, VisitFits, CheckInStep
    <2> QED
      BY <1>0, <1>4, <2>1, <2>2, <2>3, VisitStep DEF Accept, Goto, IInv, TypeOK, CheckInStep
  <1>5. ASSUME NEW w \in Workers, FindVehicle(w) PROVE IInv'
    <2>1. CASE ~ Known(visit[w].vehicle)
      BY <1>0, <1>5, <2>1, FinishStep DEF FindVehicle, IInv, TypeOK
    <2>2. CASE Known(visit[w].vehicle)
      <3>1. visit' = [visit EXCEPT ![w] = visit[w]] /\ visit[w] \in Visit
        BY <1>5, <2>2 DEF FindVehicle, IInv, TypeOK
      <3>2. VisitFits(w)'
        BY <1>5, <2>2 DEF FindVehicle, Goto, IInv, TypeOK, VisitFits, CheckInStep
      <3> QED
        BY <1>0, <1>5, <2>2, <3>1, <3>2, VisitStep DEF FindVehicle, Goto, IInv, TypeOK, CheckInStep
    <2> QED BY <2>1, <2>2
  <1>6. ASSUME NEW w \in Workers, Count(w) PROVE IInv'
    <2> DEFINE counted == [visit[w] EXCEPT !.number = Len(orders) + 1]
    <2>1. Len(orders) \in Nat /\ visit[w] \in Visit /\ pc[w] = "count"
      BY <1>6 DEF Count, IInv, TypeOK
    <2>2. counted \in Visit /\ counted.vehicle = visit[w].vehicle /\ counted.number = Len(orders) + 1
      BY <2>1 DEF Visit
    <2>3. visit' = [visit EXCEPT ![w] = counted] /\ pc' = [pc EXCEPT ![w] = "stamp"]
      BY <1>6 DEF Count, Goto
    <2>4. visit'[w] = counted /\ pc'[w] = "stamp" /\ orders' = orders
      BY <1>6, <2>3 DEF Count, IInv, TypeOK
    <2>5. VisitFits(w)'
      BY <2>1, <2>2, <2>4 DEF IInv, VisitFits, CheckInStep
    <2> QED
      BY <1>0, <1>6, <2>2, <2>3, <2>5, VisitStep DEF Count, IInv, TypeOK, CheckInStep
  <1>7. ASSUME NEW w \in Workers, Stamp(w) PROVE IInv'
    <2> DEFINE stamped == [visit[w] EXCEPT !.receivedAt = clock]
    <2>1. clock \in Nat /\ visit[w] \in Visit /\ pc[w] = "stamp"
      BY <1>7 DEF Stamp, IInv, TypeOK
    <2>2. /\ stamped \in Visit /\ stamped.vehicle = visit[w].vehicle
          /\ stamped.number = visit[w].number /\ stamped.receivedAt = clock
      BY <2>1 DEF Visit
    <2>3. visit' = [visit EXCEPT ![w] = stamped] /\ pc' = [pc EXCEPT ![w] = "save"]
      BY <1>7 DEF Stamp, Goto
    <2>4. visit'[w] = stamped /\ pc'[w] = "save" /\ orders' = orders /\ clock' = clock
      BY <1>7, <2>3 DEF Stamp, IInv, TypeOK
    <2>5. VisitFits(w)'
      BY <2>1, <2>2, <2>4 DEF IInv, VisitFits, CheckInStep
    <2> QED
      BY <1>0, <1>7, <2>2, <2>3, <2>5, VisitStep DEF Stamp, IInv, TypeOK, CheckInStep
  <1>8. ASSUME NEW w \in Workers, Save(w) PROVE IInv'
    BY <1>0, <1>8, SaveInv
  <1>9. ASSUME NEW w \in Workers, Fail(w) PROVE IInv'
    <2>1. UNCHANGED <<orders, clock>> /\ faults' \in Nat
      BY <1>9 DEF Fail, IInv, TypeOK
    <2>2. CASE Finish(w)
      BY <1>0, <2>1, <2>2, FinishStep
    <2>3. CASE Reply(w, "error")
      BY <1>0, <2>1, <2>3, FormStepKeeps DEF Reply
    <2> QED BY <1>9, <2>2, <2>3 DEF Fail
  <1>10. ASSUME NEW w \in Workers, Lose(w) PROVE IInv'
    <2>1. UNCHANGED <<orders, clock, pc, visit>> /\ faults' \in Nat
      BY <1>10 DEF Lose, IInv, TypeOK
    <2> QED
      BY <1>0, <2>1 DEF IInv, TypeOK, RegistryTypes, NumbersAreConsecutive,
         NumbersFollowArrival, VisitFits
  <1> QED
    BY <1>1, <1>2, <1>3, <1>4, <1>5, <1>6, <1>7, <1>8, <1>9, <1>10 DEF Next, Serve

\* Every variable of the check-in desk keeps its type.
THEOREM TypesHold == Spec => []TypeOK
  <1>1. IInv => TypeOK
    BY DEF IInv
  <1> QED BY <1>1, InitInv, StepInv, InitRegistry, RegistryInv, PTL DEF Spec

\* Two check-ins that counted the same rows never leave a gap or a repeated
\* number, whichever is stored and whatever fails.
THEOREM NumbersAreConsecutiveHolds == Spec => []NumbersAreConsecutive
  <1>1. IInv => NumbersAreConsecutive
    BY DEF IInv
  <1> QED BY <1>1, InitInv, StepInv, InitRegistry, RegistryInv, PTL DEF Spec

\* The order of the numbers is the order of arrival.
THEOREM NumbersFollowArrivalHolds == Spec => []NumbersFollowArrival
  <1>1. IInv => NumbersFollowArrival
    BY DEF IInv
  <1> QED BY <1>1, InitInv, StepInv, InitRegistry, RegistryInv, PTL DEF Spec

\* Nobody is told that a registration was made that the tables do not hold whole,
\* the account with its profile and the vehicle with its owner, and nobody is
\* refused for a conflict with half a row: what stands in the way is a customer, a
\* vehicle with its owner that has the plate or the VIN, or an account that has
\* its profile or is a seeded administrator's.
THEOREM AnswersAreTrueHolds == Spec => []AnswersAreTrue
  <1>1. RInv => AnswersAreTrue
    BY DEF RInv, AnswersAreTrue
  <1> QED BY <1>1, InitRegistry, RegistryInv, PTL DEF Spec
=============================================================================
