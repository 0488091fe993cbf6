# Workshop backend: specifications, model checking and proofs

TLA+ specifications of the automotive workshop in `src/`: a Go backend
(`src/backend`) over MySQL 8 / InnoDB, serving a React client
(`src/frontend`). The modules are written from the Go, SQL and TypeScript
code, and every definition that models code is tied to its lines in
`PROJECT.json` ("map").

- [1. The system](#1-the-system)
- [2. What each module models](#2-what-each-module-models)
- [3. What is left out, and why that is sound](#3-what-is-left-out-and-why-that-is-sound)
- [4. The runs](#4-the-runs)
- [5. Fairness](#5-fairness)
- [6. What is proved](#6-what-is-proved)
- [7. Where the code and its documents disagree](#7-where-the-code-and-its-documents-disagree)
- [8. Plan](#8-plan)

## 1. The system

One server process answers HTTP requests, one goroutine each, and keeps all its
business state in MySQL. A use case is a chain of repository calls. **Each call
is a statement or a transaction of its own, and no transaction spans two of
them**, so other requests run between any two calls and a failure (the 5 s
database timeout, a lost connection, the end of the process) may leave a chain
half done. The one thing kept in memory is the login rate limiter's map.

| Component | State | Operations | Talks to | Hard behaviour | Correct when |
|---|---|---|---|---|---|
| Order lifecycle (`domain/service_order.go`) | none | `CanMoveTo`, `CanAddDiagnostic`, `CanAddIntervention`, `IsOperational`, `MoveTo` | used by the three use cases that move orders | – | the table is the only way to move |
| Order write path (`usecase/service_order_usecase.go`, `diagnostic_…`, `intervention_…`, their repositories) | `service_order`, `status_transition`, `diagnostic`, `intervention` | `Advance`, `Record`, `Register` | reads assignments, releases them on delivery | status read, decided on and written in separate calls; several writes, no common transaction | the history agrees with the order; work is on orders that reached it; the history follows the lifecycle |
| Assignment (`usecase/assignment_usecase.go`, `repository/assignment_repository.go`) | `assignment` with its two unique markers | `Assign`, `ReleaseByServiceOrder` | locks the technician's account; release called by `Advance` | two reads before a locking transaction | one order per technician, one technician per order, released by the delivery and by nothing else |
| Technician access (`usecase/technician_usecase.go`, `repository/technician_repository.go`) | `user`, `technician` | `SetAccess`, `Create`, `ListWorkload` | same row lock as `AssignWithLock` | account switched off while it is being assigned; two inserts in one transaction | no assignment to an inactive account; no account without its profile |
| Request authentication (`transport/http/auth_middleware.go`, token issuer) | none | checks token and account | before every use case but sign-in | checked once, used for the whole request | an inactive account starts nothing |
| Check-in desk (`Open`) | `service_order` | open an order | reads the vehicle and its owner | the number is a row count read earlier | numbers without gap or repetition, in order of arrival |
| Sign-in and rate limiter (`auth_handler.go`, `rate_limiter.go`) | failures per address, and per address and user, in memory | `SignIn`, cleanup ticker | the user table | asks, checks the password, reports back: three calls; the map dies with the process | an exact sliding window; bounded overshoot; lockouts and map entries end |
| Warranties (`usecase/warranty_usecase.go`, `domain/warranty.go`) | `warranty` | `Create`, validity at a date | reads the intervention | calendar arithmetic; instants compared with dates | coverage ends on the day asked for, at the time of issue |
| Read models (dashboard, order detail, timeline, transition list, `domain/policy.go`) | none | lists and details assembled from several reads | everything above | writes between the reads; rows ordered by a one-second timestamp | answers put together from several moments agree as far as they can; lists are in order |
| Customer and vehicle catalogue | `customer`, `vehicle` | insert, list | foreign keys | unique keys under races, forms sent again after a lost answer | the answer to a form is true |
| Web client (`useAsyncData.ts`, `api_client.ts`, pages) | screen state, session | fetch, submit, give up after 15 s | the HTTP interface | late answers, repeated submissions | the screen shows the answer to the current question |
| Start-up (`main.go`, `mysql_connection.go`), configuration, schema, seeds | – | call the database, give up, be started again | the container runtime | outages that begin or end at any moment | serves again once the database is back |

`PROJECT.json` lists each of them with its status and, under "hazards", what is
hard to test in it, at the line where it bites.

## 2. What each module models

    Lifecycle ── Workshop ── WorkshopRefinement ── MCWorkshop            (TLC)
        │           │  │           │        │
        │           │  │        Holding  AtomicOrders                    (abstract)
        │           │  ├── RowLocks ── (TLC)     locks on top of the same steps
        │           │  └── Readings ── MCReadings  readers beside the same steps
        │           └── WorkshopProofs                                   (TLAPS)
        │                 ├── RefinementProofs ── ReadingProofs  (with Readings)
        │                 └── RowLockProofs  (with RowLocks)
        └── Policy ── OrderScreen ── ScreenProofs
    Calendar ── VehicleHistory ── HistoryProofs (TLAPS), MCVehicleHistory (TLC)
    CheckIn ── CheckInProofs (TLAPS), MCCheckIn (TLC)
    SignIn ── SignInProofs (TLAPS), MCSignIn (TLC)
      └────── SlidingWindow (abstract)

### Lifecycle, Workshop

`Lifecycle` holds `allowedTransition` and the predicates on a status as constant
operators. `Workshop` is the write path: its variables are the tables, the user
row locks, and for each goroutine (`Workers`) the call it is about to make
(`pc`), its request (`req`) and the status it has read (`seen`). One action is
one database call:

| Request | Calls, in the code's order | Actions |
|---|---|---|
| any | account read by the middleware | `Accept` |
| `Advance` | order read; a technician must hold it (the administrator skips this); operational statuses need a holder; status + history in one transaction; on DELIVERED the release | `FindOrder`, `CheckOwner`, `CheckAssigned`, `UpdateStatus`, `Release` |
| `Record`, `Register` | holder checked; order read and its status admitted; a move if the lifecycle allows it; the insert | `CheckOwner`, `FindOrder`, `UpdateStatus`, `SaveWork` |
| `Assign` | the technician's order read; the order's technician read; user row locked, account examined; insert under two unique markers | `CheckTechnician`, `CheckOrder`, `LockUser`, `Insert` |
| `SetAccess` | user row locked; `is_active` written | `LockUser`, `UpdateAccess` |
| any | the call fails: the request ends there, an open transaction rolls back | `Fail` |

`UpdateStatus` decides on `seen` and writes over whatever the status is by then,
as the SQL does. Two switches say which environment is checked: `Overlap`
(whether requests on the *same* order may overlap; on different orders, and
requests that name no order, they always may) and `Faults`.

`assignment.at`, `work.at` and `work.owned` are not columns. They record facts
at the moment of the insert that no later state shows; no action reads them.

### Holding, AtomicOrders, WorkshopRefinement

Two abstract specifications of the same tables. `Holding` is what survives
everything: who holds which order, and that an order is let go only after a
delivery. `AtomicOrders` is the workshop with one atomic step per operation, a
delivery freeing its technician in that step. `WorkshopRefinement` gives both
mappings. In the second an order delivered and not yet released counts as free:
the release that follows the delivery is a stutter, and a release that has
failed only leaves the tables refusing assignments the abstraction would allow.

### RowLocks

`RowLocks` runs the steps of `Workshop` under the row locks InnoDB takes. A
transaction that has written an order owns its row (`orderLock`); the owners of
the account rows are `Workshop`'s `userLock`. A statement that inserts a row with
foreign keys needs a shared lock on each row it names, which `WaitsFor` turns
into a condition and not a state. `UpdateStatus` becomes its two statements (`LockOrder`, then `Move`
with the commit); every other step proceeds once nobody else owns what it needs.

| Transaction | Locks, in the order of its statements |
|---|---|
| `UpdateStatus` | the order; shared: the author's user row |
| `AssignWithLock` | the technician's user and technician rows; shared: the order |
| `UpdateAccessWithLock` | the technician's user and technician rows |
| the insert of a diagnostic or an intervention | shared: the order, the technician |

The first two can wait for each other. `Deadlocked` is a circle of `WaitsFor`,
and `Victim` rolls back one of its members, any one: which of them InnoDB takes
for the smallest depends on what the model does not have. Some points the module
rests on: a conflict with a unique marker is found before the foreign keys are
looked at, so an `Assign` waits for the order only when no marker is taken; a
locking `SELECT` joins the user and the technician row, which are locked
together; the administrator's row is never locked by anybody; entries of an index
that belong to a row not yet committed are not modelled. The insert of a
diagnostic or an intervention takes its two shared locks together here; in InnoDB
it may wait for the technician's with the order's in hand. Whom it then keeps
waiting is a mover at its first statement, who owns nothing, so what is left out
is that mover's delay, and the circles that come of InnoDB's queueing an `Assign`
that needs the order behind that mover. In each of those an order is assigned
while somebody who held it still stores work on it: it was delivered and released
in between, as in the circles the model has. No other call fails
here. `VictimAssumption` says that a victim is one of the failures of `Workshop`.

### Readings

The queries of the screens over the tables of `Workshop`: `CountOrders` and
`Build` (the dashboard's two), `List`, `ListHistory`, and `FindActive`,
`FindLatest`, `FindName`, `FindAssigned` for the detail, whose handler reads the
assignment a second time. One reading is under way at a time; requests go on
between its queries. Orders are checked in meanwhile (`Open`), and the moves carry
the second the request read before it wrote (`since`, `movedAt`), so that the list
of transitions can be sorted as the SQL does it: by second, then by a random
identifier (`ListTransition` returns every such order). An answer is kept until the
next step, in the state it was given in.

`DashboardUseCase.Build` keeps numbers per status; the model keeps which orders
they count, which is more than the code knows and lets the two halves be
compared. `assigned_at` is not modelled, so the latest of several released
assignments may be any of them. A query that fails ends the dashboard
(`FailReading`); in the detail the failure of the first read of the assignment ends
it before anything is known, and the later ones are swallowed: the detail goes on
with no responsible technician (`FindLatest`), no name (`FindName`) or no
identifier (`FindAssigned`).

### CheckIn

The administrator's desk. `Open` is four calls (vehicle joined to its owner,
count, clock, insert), and the only thing between two check-ins that counted the
same rows is the unique key on the number, part of `Save`.

| Form | Calls | Actions |
|---|---|---|
| customer | one insert under the document number | `SaveCustomer` |
| vehicle | the owner read; one insert under plate and VIN | `FindOwner`, `SaveVehicle` |
| technician | one transaction: the account under its user name, the profile | `SaveUser`, `SaveProfile` |

The tables start as the seeds of `01_init.sql` leave them: an administrator's
account, which has no profile, and technicians' accounts, which have one
(`Administrators`, `SeededTechnicians`). A vehicle is refused when a registered one
has its plate *or* its VIN (`SharesKey`). So a conflict does not say that what the
form holds is on file: it may be with another vehicle that shares one of the two,
or with the administrator. `AnswersAreTrue` says what it does mean: the
row it is with is there, and whole.

`pending` is the user row of a transaction still open: a second request for the
same name waits for it, as InnoDB makes it wait. `Lose` is a commit whose answer
never arrives; anybody may send the form again (`Submit`). What a form says
besides its key was validated before the first call.

### SignIn, SlidingWindow

The limiter's methods hold one mutex, so each is one operator on its map
(`Allowed`/`Filtered`, `WithFailure`, `Without`, `Cleanup`); the handler's three
calls are the steps `Knock`, `Authenticate`, `RecordFailure`/`Reset`. Failures
are stored as ages, so that `Tick` (time) is the only clock. The times under a
key are in the order in which `RecordFailure` appended them, so the code's filter
drops a beginning of the slice (`Expired` counts it) and `Valid` is the rest; that
the order is kept is part of `TypeOK` (`OldestFirst`). `SlidingWindow` is
the promise: a set of failures that count for exactly one window.

Around them is the life of the process: it calls the database until it answers
(`Ping`, at most `MaxPings` times; 30 in `Open`) and gives up, may be killed at any
moment, while it serves or between two of those calls (`Crash`: the map and the
requests are gone), and is started again (`Restart`, the compose file's
`restart: unless-stopped`), while the database goes away and comes back
(`Outage`). While the database is down every sign-in fails, and is counted.

The key of an address with a user name is the text `ip + ":" + username`. An IPv6
address has colons of its own, so the key of `2001:db8::1` with the name `2` is the
address `2001:db8::1:2`, and two pairs may share one text. `PairKey` may therefore
be any function that does not return the address it is given (`KeyAssumption`).
Failures of one client can then count against another, and `LockoutEnds` claims
the end of a lockout only for an attempt whose pair text no other attempt's keys
include: its address is then the only key others can fill, and while that is full
whoever would fill it is locked out too.
`SlidingWindow` has `Open` and `Close` for this: closing is the only time a
failure may be forgotten early.

### Policy, OrderScreen

What a user may do with an order is written twice: `CalculateOrderPermissions`
tells the client which buttons to show, and each use case checks the request
when it comes. `Policy` has both as constant operators. A user is a technician
or the administrator; `None` stands for a technician whose profile `FindDetail`
could not read, which it answers all the same. `canAssign` is of another kind: the
page does not ask it (`ShowsAssignment` asks for the role and the status), and
`Assign` does not ask `CanAssignTechnician` but whether the order has a technician
(`AcceptsAssign`). So `HonestButtons` says of it what is true: the panel is shown
exactly to whom `policy.go` grants it, never to a role `Assign` refuses, and on
every open order on which `Assign` would accept; on an order that has a technician
it is shown and the request refused.

`OrderScreen` is one visit to the detail page, by a viewer fixed at the start,
and the backend under it:

| Code | Actions |
|---|---|
| `FindDetail`: the order, then its active assignment and the permissions | `ReadOrder`, `ReadHolder` |
| `useAsyncData`: an answer, a failed load, the effect that starts a load | `Answer`, `FailLoad`, `Effect` |
| `advance` in the page: the press, what follows its answer | `PressAdvance`, `Accepted`, `Refused` |
| `request`: the abort after 15 s | `GiveUp` (for an advance), `FailLoad` (for a load) |
| `Advance` in the backend: decided, written, released, or failing on the way | `Decide`, `Write`, `Release`, `Lose` |
| the router: the page closed and opened again | `Revisit` |
| other users of the order | `Others` |

A reload is two steps, as in React: `reload()` only changes a token, so one frame
is painted with the old order (`pending`) before the effect starts the new load.
Superseded loads stay in `loads`, where their answers still arrive and are
dropped. A press that was given up goes on in the backend. `version` counts the
writes of the order; the code has no such number, and no action reads it but to
compare and count.

The panels under the order, with forms of their own, are not in the model; what
their requests do to the order is what `Others` does. `Others` is atomic; the
requests of the page itself are the ones that go stale.

### Calendar, VehicleHistory

The facts of one vehicle: orders, diagnostics, interventions with their parts,
warranties, each naming the row it is about. A request reads that row and the
clock (`Prepare`), then inserts (`Save`), with anything in between. `Build` is
the timeline: one query per kind in the code's order (`List`), the parts of the
interventions (`ListPart`), and the stable sort (`Answer`). The moments are the
seconds the `DATETIME` columns keep, so facts tie; MySQL rounds, which keeps the
order of moments. Rows of one kind and one second come out in any order: their
queries have no second key. Lifecycle and holder checks are not repeated here, so
the model records more histories than the workshop can.

`Calendar` is the arithmetic of Go's `time` package on instants: a date (the
month's number and the day) and the second of the day. A warranty issued at ten on
the last of December for two months ends at ten on the 2nd of March: `AddDate`
carries the days February does not have and keeps the time of day. `IsValidAt`
compares instants. `Consult` asks with an instant, with the present one, or with a
date, which is its midnight, so that on the day its coverage ends a warranty is
still valid when asked for by date. All of it is UTC: the connection says
`loc=UTC`, a date is parsed as UTC, and the container sets no other zone. Fractions
of a second are left out; MySQL rounds them when it stores the expiration.

Because the timeline has no snapshot it may show a fact recorded while it was put
together and not the intervention or order it is about, whose query had already
run. `NothingMissing` says exactly how far this goes: everything committed when
the timeline was asked for is there, once.

### The MC modules, the proof modules, the mutants

The MC modules add symmetry sets and the values a `.cfg` cannot write. The proof modules are section 6. A
definition marked "(a mutant)" is a plausible bug in the definition after it;
no specification uses it. Each property of a passing run has one that breaks it.

## 3. What is left out, and why that is sound

- **Requests the code refuses before it reads business state** (bad JSON, wrong
  role, inactive account) change nothing and are not steps. `Request` holds
  those that reach a use case: the handlers of `assign` and of technician access
  admit the administrator only; `Record` and `Register` end at once for an
  administrator, who has no technician profile.
- **Texts, quantities, prices, identifiers.** Rows are told apart by what the
  properties look at, so two equal diagnostics are one.
- **Row locks other than the account's** are in `RowLocks` and not in `Workshop`.
  That this loses nothing is `ImplementsWorkshop`, proved: a lock only delays a
  step, and a deadlock's victim is a call that fails.
- **A commit whose answer is lost** is, in `Workshop`, the step followed by `Fail`
  for every call but the last of its request, after which there is nothing left to
  do. In `CheckIn`, where the answer matters, it is a step of its own (`Lose`).
- **The end of the process** in `Workshop` and `CheckIn` is `Fail` of every request
  under way: the tables are all they have, and MySQL rolls back what is open.
- **Tokens.** Signature, expiry and the stored session of the client are not
  modelled; a request comes from an account that passed `authMiddleware`. Nor is
  the address `ExtractClientIP` finds in a request's headers. The password check is
  an arbitrary answer, but never a success for a blank name.
- **The clock** of `CheckIn`, `Readings` and `VehicleHistory` never goes back.
- **Nothing deletes an order**, in the code or in the model; with it the count in
  `NextOrderNumber` would repeat numbers.
- **Not modelled at all:** the configuration (read from the environment once, by
  one goroutine, before anything runs), CORS, the JSON codec and the validation of
  forms (pure functions of one request), the lists of customers, vehicles and
  interventions (one query each), the forms under an order's page, the other pages,
  migrations, and of the seeds everything but which accounts there are.

## 4. The runs

| Run | Instance | Shows |
|---|---|---|
| `order_races` | 1 order, 2 technicians, 2 overlapping requests, every operation, faults, histories up to 4 rows + those in flight | what no interleaving and no failure breaks: `SingleWorkload`, `StatusMatchesHistory`, `WorkBackedByHistory`, `MovedOnlyAfterAssigned`, `ReleasedOnlyAfterDelivery`, `AssignedOnlyWhileActive`; `Spec` implements `Holding` |
| `isolated` | 2 orders, 2 technicians, 2 workers, one request per order at a time, faults | what holds as well without overlap on an order: `HistoryIsLifecycle`, `NoWorkAfterDelivery`, `WorkByHolder`; `Spec` implements `AtomicOrders` |
| `row_locks` | 1 order, 1 technician, 2 overlapping requests, access switched off and on, no failing call but deadlock victims, histories up to 4 rows | the locks add no behaviour (`ImplementsWorkshop`); a move is part of a deadlock only behind a delivery (`DeadlockIsStale`); every request is answered; a delivery frees its technician although stale writes may undo the delivery in between |
| `readings` | 1 order, 2 technicians, 2 workers not overlapping on the order, faults, access withdrawn, 2 seconds | a technician the dashboard lists as busy is on an order its counts show as open; an order in progress is listed with a technician's name; a detail names two technicians only of an order delivered meanwhile; transitions are listed as they happened, but for those of one second; `Assign` accepts nobody the list calls not eligible |
| `checkin` | 1 customer, 2 vehicles with one plate, 2 user names, one of them the seeded administrator's, 2 workers, 3 orders, 3 clock readings, 1 fault | order numbers are consecutive and follow arrival; what a form is told is true, also when an answer was lost and the form sent again, the name asked for is the administrator's or the plate another vehicle's; the desk always gets on |
| `signin` | 2 addresses, one of them the key of the other with the one user name (or blank), 2 workers, window 2, limit 2, 3 calls to the database at the start; kills and outages at any moment | the limiter is an exact sliding window, `Retry-After` is exact, overshoot is bounded, lockouts and empty keys end, the process serves again once the kills and outages end |
| `order_screen` | 1 technician and the administrator, either of them looking, 3 loads, 2 presses, 4 writes by others | a confirmed advance is on the screen and stays there, whatever loads are late; buttons are honest; "Cargando..." ends |
| `vehicle_history` | 2 writers, 3 facts, 2 instants, interventions with 0 or 2 parts, a warranty that crosses a leap February and ends at the second instant; asked for then, the second before, and by that date | facts are dated and shown after what they are about; a timeline misses nothing that was there and shows no intervention without its parts; coverage ends on the day the calendar says, at the second of issue |
| `finding_*` | the smallest instance that shows it | section 7 |

**Why the bounds are enough.** A race in `Workshop` needs two requests on one
order, or two requests for one technician: two workers. Two technicians give the
order a rival and let a stale caller differ from the holder; two orders (in
`isolated`) let a technician move on, and let requests on different orders
overlap. A lifecycle walk has four moves, so `MaxHistory = 5` never binds in
`isolated` and `readings`; in `order_races` and `row_locks` overlapping writes can
move an order back, and the bound lets a whole lifecycle be passed with stale rows
in it. `enable`/`disable` are left out of `isolated` for size. A circle of waiting
transactions in `row_locks` has two members, the order's and the account's; a
third could only wait for one of them. What the bounds leave open there
(a technician going from order to order, rivals waiting for one account) the
proofs of section 6 cover: `DeadlockIsStale` and both refinements of `Spec`
without liveness hold for every instance.

Two check-in workers are the winner and the loser of one number, and two forms
that race for one key; the vehicles have one plate and two VINs, which tells the
two keys apart; the fault is the answer that is lost or the call that
fails between. In `readings` two seconds let moves tie or differ. In
`order_screen` three loads are a load that is superseded by a reload that is
superseded in turn, two presses are one given up and its repetition, and four
writes take the order to its delivery. In `vehicle_history` an order, its
intervention and a warranty over it are three facts, two moments let any two of
them tie or differ, and two writers let one request read the clock first and
insert last. In `signin` a window of two units lets the failures of one key have
different ages and expire one by one; an attempt without a name and one with it
fill the key of their address before that of the pair, the second address fills the
pair key of the first, and two workers pass the question together. Longer windows,
higher limits and more keys are left to the proofs of section 6 for the three
safety properties. Three calls to the database are a failure, another and the last.

**Deadlock** in TLC's sense is checked in every run but `order_screen`: a worker
with no request can always take one, except at the bounds, which TLC does not
reach with every worker stuck. The page of a delivered order has nothing left to
offer and really stops. InnoDB's deadlocks are states of `RowLocks`
(`Deadlocked`), which `Victim` leaves.

## 5. Fairness

- `WF(Serve(w))` in `CheckIn` and `SignIn`: the Go scheduler runs every started
  goroutine, and every database call returns by its timeout.
- `SF(LockServe(w))` in `RowLocks`: InnoDB queues the transactions waiting for a
  row, so none waits for ever while others come and go. Weak fairness would not
  do: the row is free now and then, not continuously. A statement also gives up
  after the 5 s of its context; `row_locks` does without it, which is the harder
  case.
- `WF` of some `Victim`: InnoDB looks for a circle whenever a transaction starts
  to wait, and rolls one of its members back.
- `WF(Tick)`, `WF(Cleanup)`: time passes and the limiter's ticker keeps firing
  for as long as the process lives.
- `WF(Ping)`, `WF(Restart)`: the start-up loop runs on, and the container runtime
  starts a process that has ended (`restart: unless-stopped`). `ServesAgain`
  supposes that the database comes back and stays and that the kills end; nothing
  makes them do so, and a process killed before its first call each time would
  never serve.
- `WF(Effect)`, `WF(EndLoad(l))`, `WF(GiveUp)` in `OrderScreen`: React runs the
  effects it has scheduled, a load is answered or fails after 15 s at the latest,
  and so does an advance. `AdvanceIsSeen` allows for the load that fails.
- Nothing obliges a client to send a request: `Accept`, `Submit` and `Knock` have
  no fairness, and neither have `Fail`, `Lose`, `Crash` and `Outage`.
  `DeliveryFreesTechnician` is claimed where only deadlock victims fail; with
  other failures it is false, which is the finding `held_after_delivery`. It
  survives the victims because a release waits for no row of another table, and
  so is never one of them.

## 6. What is proved

For every set of orders, technicians and workers, every bound, and with overlap
and faults in any combination, unless a row says otherwise. The assumptions are
those named in the modules: `None` is not a value of the other sets, `Admin` is
not a technician, the switches are booleans and the bounds naturals (the window,
the limit and the number of pings not zero); in `RowLocks`, that calls may fail
(`VictimAssumption`); in `SignIn`, that finitely many requests are served at once
(`WorkersAssumption`); in `VehicleHistory`, that the clock
shows instants in their order (`HistoryAssumption`); in `CheckIn`, that the seeded
accounts have user names (`SeedAssumption`); in `SignIn`, `KeyAssumption` as well.

Every inductive invariant named here has been an invariant of a TLC run over the
instance that section 4 gives for its module, and holds there.

| Theorem | Argument |
|---|---|
| `TypesAndSteps` | `TypeOK` alone is not inductive: `UpdateStatus` applies the lifecycle to what `seen` holds and `SaveWork` stores what `req` holds. `StepsFit` says which requests can stand at which step and that `seen` is a status from there on. |
| `SingleWorkloadHolds` | Strengthened by `MarkersMatch`: an active row carries its technician and its order as markers. The unique keys on the markers then do the work; the two reads in `Assign` are not used, which shows they are only a courtesy. |
| `StatusMatchesHistoryHolds` | Only `UpdateStatus` touches either side, and it writes both. |
| `WorkBackedByHistoryHolds` | `BackedInv`: whoever stands at `saveWork` or `release` has the row it relies on in the history already. For a request that needed no move it follows from the status it read, by `StatusMatchesHistory`. |
| `ReleasedOnlyAfterDeliveryHolds` | From the same invariant: only `Release` takes an order away, and who stands there has delivered it. |
| `AssignedOnlyWhileActiveHolds` | `LockInv`: who stands at `insert` or `updateAccess` owns the row lock of the account, and at `insert` the account is active. Only the owner of the lock writes the account. |
| `MovedOnlyAfterAssignedHolds` | `GivenInv`: who is about to move an order has seen it given to somebody, and an assignment is never deleted. |
| `ImplementsHoldingHolds` | Each step is a hand-over, a letting-go or a stutter of `Holding`; `SingleWorkload` makes the holder the mapping chooses the one the rows name (`HolderNamed`). |
| `HistoryIsLifecycleHolds`, `NoWorkAfterDeliveryHolds`, `WorkByHolderHolds` | Under `~Overlap`. `IsoInv`: no two requests name one order (`Alone`), so what a worker has read of its order is still so when it writes (`FreshStep`). Without it each of the three is false, which is finding 1. |
| `ImplementsAtomicOrdersHolds` | Under `~Overlap`. `SettledInv`: only a delivered order was given to somebody after its delivery, work starts on an order somebody holds, and who stands at `release` has just delivered an order nobody was given since. A delivery is then the atomic step (the technician is free with the first of its two writes) and the release, or its failure, a stutter. |
| `ImplementsWorkshopHolds` | By cases over the steps: one with locks is the same step without, its first statement a stutter, a victim a `Fail`. |
| `DeadlockIsStaleHolds` | `MoversInv`: a technician who is about to move an order holds it, or it has been delivered. If a move waits for the account of its author and the owner of that account waits for the order, that owner found both markers free: nobody holds the order. |
| `ReadsTheWorkshop` | A reader changes nothing of `Workshop`, and what `Readings` adds to its steps restricts them only: every theorem about `Spec` holds while somebody reads. |
| `BusyWereCountedHolds` | Under `~Overlap`. `CountedStill`: what the first query counted as delivered is still delivered at the second, because nothing leaves DELIVERED (`NoWorkAfterDelivery`'s invariant). With overlap this fails, as finding 1 does. |
| `InProgressIsNamedHolds` | An order in progress has a move in its history (`StatusMatchesHistory`), so it was given to somebody (`MovedOnlyAfterAssigned`), and assignments are never deleted: the join in `List` finds a name. |
| `DetailIsOfOneTechnicianHolds` | `DetailInv`: a technician the detail has already read holds the order, or the order has been delivered since. `OverIsDelivered` is why: an assignment is over only if its order was delivered. |
| `ListedAsItHappenedHolds` | Under `~Overlap`. `MomentsInv`: the seconds stored with an order's moves never decrease, because who is about to move the order read the clock after the last move (`ReadsLast`). Sorting by second can then exchange only moves of one second. |
| `AssignedOnlyTheEligibleHolds` | The insert found both markers free, so the technician holds nothing, and by `LockInv` the account is active: the list has one row for such a technician, and it is eligible. The two reads before the insert may be stale and are not used. |
| `OvershootIsBoundedHolds`, `SignInTypes` | `SignInInv`: for every key, the failures that count plus the sign-ins under way that may become one are fewer than the limit plus the workers. The last worker let in saw fewer than the limit, and at that moment at most the other workers were under way. |
| `ImplementsSlidingWindowHolds` | The mapping takes each key to the failures that count (`LiveMap`). `OldestFirst` makes those that no longer count a beginning (`BeginningCounted`), so dropping them from the slice, now or at the next cleanup, is a stutter. |
| `RetryAfterIsExactHolds` | `CountingAfter`: after a wait, fewer than the limit count exactly when the oldest of the last `MaxFailures` of them is past the window by then. |
| `NumbersAreConsecutiveHolds`, `NumbersFollowArrivalHolds` | The invariant says what a check-in knows: the number it read is at most one past the table, every order with a lower number was received no later than its own clock reading, and no order was received in the future. |
| `AnswersAreTrueHolds` | `RInv`: the accounts committed are those with a profile and the seeded administrators', a vehicle is registered after its owner, the open transaction has the name it inserted, an answer was given for the form it stands by, and nothing registered is removed. Plates and VINs may be any. |
| `PermissionsAreExact` | By cases over the lifecycle table: a status has at most one successor, so the move the screen offers is the only one the table allows. |
| `ConfirmedIsShownHolds` | The screen may go back only through the answer of the current load, so `CurrentIsFresh` follows that load from its first read: with no reload pending it has read the order no earlier than the last confirmation. `Known` says that nothing read or confirmed is newer than the order. |
| `HonestButtonsHolds` | The same invariant for the types, then `PermissionsAreExact`, or `NobodyMayNothing` when the profile could not be read. `AdminIsKnown`: that never happens to the administrator, so the assignment panel and `canAssign` agree. |
| `CausesAreOlderHolds`, `HistoryTypes` | `WritersKnow`: what a request is about to insert names a row that is in the table and dated no later than the clock it read; rows are never deleted and the clock does not go back. |
| `CausesFirstHolds`, `PartsAreWholeHolds`, `NothingMissingHolds` | `RowsInv`: what a row is about is a row of an earlier kind, so no chain of causes turns back. `ReadInv`: a read under way has listed each row of the kinds it has passed once, kind after kind, and of those there when it was asked for it misses none; a row committed later disturbs nothing read before. The place of a row in the sorted answer (how many rows are earlier, or equal and before it) is a bijection that keeps the order of equal moments, so a fact and its cause of the same second stay kind after kind. |
| `ValidUntilTheInstantHolds`, `AddMonthsCountsDays` | A month begins on the day after the one before it ends, so comparing dates by year, month and day is comparing numbers of days (`BeforeCountsDays`), and `AddDate` reaches the day the coverage counts to. `EarlierCountsSeconds` carries it to instants: a day is 86 400 seconds. |
| `LongerIsLater`, `IssuedIsValid` | Every month has 28 to 31 days, so `AddDate` lands in the month asked for or within the first three days of the next; two coverages a month apart then keep their order in each of the four cases. |

**Only model-checked:** liveness. `RequestsFinish`, `DeliveryFreesTechnician`,
`CheckInAdvances`, `LoadingEnds`, `AdvanceIsSeen`, `LockoutEnds`, `EmptyKeysLeave`
and `ServesAgain` need fairness and `ENABLED`, which the prover does not handle.
Every other property of a passing run is a theorem. What a recursive operator
computes for every input cannot be proved either, so the modules count positions
(`Cardinality`) where the code loops, and have no recursive operator.

## 7. Where the code and its documents disagree

Each of the four has a run whose counterexample shows it.

1. **Lost update** (`HistoryIsLifecycle`). Two requests read the same status and
   both write; the history then has a row that does not start where the last one
   ended. `ADR-002` (lines 20-21) and `DOCUMENTO_FUENTE_AUDITORIA_Y_REMEDIACION.md`
   (line 144) speak of serializable transactions and pessimistic locks. The same
   race can take an order out of DELIVERED (against `ADR-002:29`) and store work
   on a delivered order (against INV-04).
2. **Held after delivery** (`DeliveredHoldsNobody`). The release is a second
   statement; when it fails the order is terminal and nothing releases the
   technician (`service_order_usecase.go:156`).
3. **Assigned after delivery** (`NeverAssignedWhenDelivered`). `Assign` reads the
   order and drops the result; it does not call `CanAssignTechnician`, which forbids it
   (`domain/service_order.go:77-78`) and decides only what `policy.go:37` tells the
   client.
4. **Repair without diagnosis** (`RepairIsDiagnosed`). Neither `Advance` nor
   `Register` looks for a diagnostic, against INV-05
   (`02-domain/entities-and-rules.md:24-25`).

Seen while modelling, with no run of their own:

- The eligibility shown to the administrator (`technician_repository.go:16`) counts
  orders in diagnosis or repair, while `Assign` refuses a technician with any
  active assignment. `AssignedOnlyTheEligible` is the half that holds; whoever
  holds an order in another status is shown as eligible and refused.
- `RecordFailure` is called for every error of a sign-in although its comment says
  only for invalid credentials (`rate_limiter.go:151`): an outage of the database
  locks out the users who tried during it.
- The detail page tells the administrator to reassign the order of an inactive
  technician (`ServiceOrderDetailPage.tsx:86`) while `Assign` refuses any order
  that has a technician (`assignment_usecase.go:57-63`).
- `DOCUMENTO_FUENTE_AUDITORIA_Y_REMEDIACION.md:74` promises a strict sequence of
  transitions from `ORDER BY changed_at ASC, id ASC`; the identifiers are random,
  so two moves within one second come out in either order. `ListedAsItHappened`
  says how far the order can be relied on.
- `TechnicianPage.tsx:79` says that switching an account off has invalidated its
  earlier sessions; a token issued before works again once the account is
  switched back on, until it expires, since the middleware asks only for
  `is_active`.

## 8. Plan

In this order; the first seven are done.

1. `Lifecycle`, `Workshop`, its abstract specifications and proofs.
2. `CheckIn` and its proofs, the registrations of customers, vehicles and
   technicians with it.
3. `SignIn` against `SlidingWindow`, and the life of the process.
4. `Policy`, `OrderScreen` and their proofs. Left in them: the panels' forms.
5. `Calendar`, `VehicleHistory` and their proofs.
6. `Readings`: the dashboard, the lists and the detail over `Workshop`.
7. `RowLocks`: the locks foreign keys take, who can wait for whom, and that a
   victim leaves the invariants alone.
8. The sessions of the client: the stored token, its expiry, a page open when the
   account is switched off.

Theorems to come: what the abstract specifications promise by themselves
(`Holding`, `AtomicOrders`, `SlidingWindow`), so that a property proved of one of
them carries over to the system through its refinement; and what item 8 adds.
