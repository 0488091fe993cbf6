-------------------------------- MODULE SignIn --------------------------------
(***************************************************************************)
(* Signing in behind the login rate limiter (auth_handler.go and           *)
(* rate_limiter.go).  The limiter keeps, for each client address and each  *)
(* address with a user name, when the sign-ins of the window failed.  Its  *)
(* methods are atomic (one mutex), the handler is not: it asks the         *)
(* limiter, checks the password, then reports back, and any number of      *)
(* requests may have passed the first question when one reports.           *)
(* All of it lives in the process, which waits for the database before it  *)
(* serves anybody and forgets everything when it is killed.                *)
(*                                                                         *)
(* Moments are kept as ages, the time since; an age of Window or more is   *)
(* one that no longer counts, and all those are the same.                  *)
(***************************************************************************)
EXTENDS Naturals, Sequences, FiniteSetsExt

CONSTANTS
    Addresses,    \* client addresses
    Usernames,    \* user names clients type
    PairKey,      \* the text that files an address with a user name
    None,         \* the user name left blank, a request field not in use
    Workers,      \* request goroutines that may run at the same time
    Window,       \* how long a failure counts
    MaxFailures,  \* how many of them close the door
    MaxPings      \* how often a starting process calls the database (30 in the code)

Attempt == [ip: Addresses, username: Usernames \cup {None}]

ASSUME NoneAssumption == None \notin Usernames \cup Addresses \cup Attempt
\* The text is longer than the address it begins with.  It may be another address,
\* or the text of another pair: IPv6 addresses have colons of their own.
ASSUME KeyAssumption == \A a \in Addresses, u \in Usernames : PairKey[<<a, u>>] # a
ASSUME LimitAssumption ==
    Window \in Nat \ {0} /\ MaxFailures \in Nat \ {0} /\ MaxPings \in Nat \ {0}
ASSUME WorkersAssumption == IsFiniteSet(Workers)

VARIABLES
    failures,  \* the limiter's map: key -> ages of the failures, oldest first
    pc,        \* what each worker is about to do
    req,       \* the address and the user name each worker serves
    phase,     \* what the process is doing
    pings,     \* how often the starting process has called the database
    database   \* whether the database answers

process == <<phase, pings, database>>
vars == <<failures, pc, req, process>>

\* The map's keys: an address alone, or with a user name if one was typed.
Key == Addresses \cup {PairKey[p] : p \in Addresses \X Usernames}
PairKeysOf(r) == {PairKey[<<r.ip, u>>] : u \in {r.username} \ {None}}
KeysOf(r) == {r.ip} \cup PairKeysOf(r)

Age == 0..Window

\* RecordFailure appends the moment it reads under the mutex.
OldestFirst(times) == \A i, j \in DOMAIN times : i < j => times[i] >= times[j]

TypeOK ==
    /\ DOMAIN failures \subseteq Key
    /\ \A k \in DOMAIN failures : failures[k] \in Seq(Age) /\ OldestFirst(failures[k])
    /\ pc \in [Workers -> {"idle", "authenticate", "fail", "succeed"}]
    /\ req \in [Workers -> Attempt \cup {None}]
    /\ phase \in {"stopped", "starting", "serving"}
    /\ pings \in 0..MaxPings
    /\ database \in BOOLEAN

Init ==
    /\ failures = <<>>
    /\ pc = [w \in Workers |-> "idle"]
    /\ req = [w \in Workers |-> None]
    /\ phase = "starting"
    /\ pings = 0
    /\ database \in BOOLEAN

-----------------------------------------------------------------------------
(***************************************************************************)
(* The limiter.                                                            *)
(***************************************************************************)

\* What is stored under a key, an absent one being empty.
TimesOf(k) == IF k \in DOMAIN failures THEN failures[k] ELSE <<>>

\* The failures that still count.  Those that do not are the oldest and come first.
Counts(age) == age < Window
Expired(times) == Cardinality({i \in DOMAIN times : ~ Counts(times[i])})
Valid(times) == SubSeq(times, Expired(times) + 1, Len(times))

IsBlocked(k) == Len(Valid(TimesOf(k))) >= MaxFailures

\* The oldest failure of all taken for the blocking one (a mutant).
RetryAfterOldest(k) == Window - Head(Valid(TimesOf(k)))

\* The time left until the last MaxFailures failures have lost one of theirs.
RetryAfterOf(k) ==
    LET valid == Valid(TimesOf(k))
    IN  Window - valid[Len(valid) - MaxFailures + 1]

\* The address never looked at when the user name is known (a mutant).
AllowedByUserOnly(r) == \A k \in PairKeysOf(r) : ~ IsBlocked(k)

\* AllowAttempt: whether neither key of the attempt is blocked, and if one is,
\* how long to wait.
Allowed(r) == \A k \in KeysOf(r) : ~ IsBlocked(k)
RetryAfter(r) == Max({RetryAfterOf(k) : k \in {k \in KeysOf(r) : IsBlocked(k)}})

\* The map after AllowAttempt, which drops what no longer counts.
Filtered(r) ==
    [k \in DOMAIN failures |->
        IF k \in KeysOf(r) THEN Valid(failures[k]) ELSE failures[k]]

\* A failure filed under the address and the user name only (a mutant).
WithFailureOfUserOnly(r) ==
    [k \in DOMAIN failures \cup PairKeysOf(r) |->
        IF k \in PairKeysOf(r) THEN Append(Valid(TimesOf(k)), 0) ELSE failures[k]]

\* The map after RecordFailure.
WithFailure(r) ==
    [k \in DOMAIN failures \cup KeysOf(r) |->
        IF k \in KeysOf(r) THEN Append(Valid(TimesOf(k)), 0) ELSE failures[k]]

\* The map after Reset.
Without(r) == [k \in DOMAIN failures \ KeysOf(r) |-> failures[k]]

-----------------------------------------------------------------------------
(***************************************************************************)
(* The handler.                                                            *)
(***************************************************************************)

\* An attempt turned away takes the place of the oldest failure (a mutant).
KnockRefreshing(w) ==
    /\ phase = "serving"
    /\ pc[w] = "idle"
    /\ UNCHANGED process
    /\ \E r \in Attempt :
        \/ /\ Allowed(r)
           /\ failures' = Filtered(r)
           /\ pc' = [pc EXCEPT ![w] = "authenticate"]
           /\ req' = [req EXCEPT ![w] = r]
        \/ /\ ~ Allowed(r)
           /\ failures' = [k \in DOMAIN failures |->
                IF k \in KeysOf(r) /\ IsBlocked(k)
                THEN Append(Tail(Valid(failures[k])), 0)
                ELSE failures[k]]
           /\ UNCHANGED <<pc, req>>

\* SignIn begins: an attempt the limiter refuses is answered with 429.
Knock(w) ==
    /\ phase = "serving"
    /\ pc[w] = "idle"
    /\ \E r \in Attempt :
        /\ failures' = Filtered(r)
        /\ \/ /\ Allowed(r)
              /\ pc' = [pc EXCEPT ![w] = "authenticate"]
              /\ req' = [req EXCEPT ![w] = r]
           \/ /\ ~ Allowed(r)
              /\ UNCHANGED <<pc, req>>
    /\ UNCHANGED process

\* AuthenticateUser.Execute: any answer, but never a session for nobody, or for
\* anybody while the account cannot be read.
Authenticate(w) ==
    /\ pc[w] = "authenticate"
    /\ \E outcome \in {"fail", "succeed"} :
        /\ req[w].username = None \/ ~ database => outcome = "fail"
        /\ pc' = [pc EXCEPT ![w] = outcome]
    /\ UNCHANGED <<failures, req, process>>

\* The worker answers.
Answer(w) ==
    /\ pc' = [pc EXCEPT ![w] = "idle"]
    /\ req' = [req EXCEPT ![w] = None]
    /\ UNCHANGED process

\* RecordFailure, whatever the reason the sign-in failed for.
RecordFailure(w) ==
    /\ pc[w] = "fail"
    /\ failures' = WithFailure(req[w])
    /\ Answer(w)

\* Reset, after a sign-in that succeeded.
Reset(w) ==
    /\ pc[w] = "succeed"
    /\ failures' = Without(req[w])
    /\ Answer(w)

\* A key kept with nothing in it (a mutant).
CleanupKeepingKeys ==
    /\ failures' = [k \in DOMAIN failures |-> Valid(failures[k])]
    /\ UNCHANGED <<pc, req, process>>

\* The ticker: expired failures go, and with them the keys left empty.
Cleanup ==
    /\ failures' = [k \in {k \in DOMAIN failures : Valid(failures[k]) # <<>>} |->
                        Valid(failures[k])]
    /\ UNCHANGED <<pc, req, process>>

\* One unit of time passes for every failure on record.
Older(age) == IF Counts(age) THEN age + 1 ELSE age
Tick ==
    /\ failures' = [k \in DOMAIN failures |->
            [i \in DOMAIN failures[k] |-> Older(failures[k][i])]]
    /\ UNCHANGED <<pc, req, process>>

-----------------------------------------------------------------------------
(***************************************************************************)
(* The process.                                                            *)
(***************************************************************************)

\* A call without its time limit never comes back from a dead database (a mutant).
PingUnlimited ==
    /\ phase = "starting"
    /\ pings = 0
    /\ phase' = IF database THEN "serving" ELSE phase
    /\ pings' = IF database THEN 0 ELSE 1
    /\ UNCHANGED <<failures, pc, req, database>>

\* Open calls the database until it answers; then main serves, with a limiter
\* that knows of no failure.  The last call in vain ends the process.
Ping ==
    /\ phase = "starting"
    /\ \/ /\ database
          /\ phase' = "serving"
          /\ pings' = 0
       \/ /\ ~ database
          /\ pings + 1 < MaxPings
          /\ pings' = pings + 1
          /\ UNCHANGED phase
       \/ /\ ~ database
          /\ pings + 1 = MaxPings
          /\ phase' = "stopped"
          /\ pings' = 0
    /\ UNCHANGED <<failures, pc, req, database>>

\* The process is killed, while it serves, between two calls to the database or
\* during one, and with it the limiter and the goroutines.
Crash ==
    /\ phase # "stopped"
    /\ phase' = "stopped"
    /\ pings' = 0
    /\ failures' = <<>>
    /\ pc' = [w \in Workers |-> "idle"]
    /\ req' = [w \in Workers |-> None]
    /\ UNCHANGED database

\* The container is started again ("restart: unless-stopped").
Restart ==
    /\ phase = "stopped"
    /\ phase' = "starting"
    /\ UNCHANGED <<failures, pc, req, pings, database>>

\* The database goes away or comes back.
Outage ==
    /\ database' = ~ database
    /\ UNCHANGED <<failures, pc, req, phase, pings>>

-----------------------------------------------------------------------------
Serve(w) == Authenticate(w) \/ RecordFailure(w) \/ Reset(w)

Next ==
    \/ \E w \in Workers : Knock(w) \/ Serve(w)
    \/ Cleanup \/ Tick
    \/ Ping \/ Crash \/ Restart \/ Outage

Spec == Init /\ [][Next]_vars

\* Time passes, the cleanup ticker fires again and again, and a sign-in that was
\* let in is answered; a stopped container is started again and a starting process
\* goes on calling the database.  Nobody is obliged to sign in, and the database
\* to nothing.
FairSpec ==
    /\ Spec
    /\ WF_vars(Tick) /\ WF_vars(Cleanup) /\ WF_vars(Ping) /\ WF_vars(Restart)
    /\ \A w \in Workers : WF_vars(Serve(w))

-----------------------------------------------------------------------------
\* The attempts let in before any of them failed may carry a key past the limit,
\* but never by more than the requests that run at the same time less one.
OvershootIsBounded ==
    \A k \in Key : Len(Valid(TimesOf(k))) < MaxFailures + Cardinality(Workers)

\* Retry-After is the least wait after which the attempt would be let in, also
\* when a key holds more failures than the limit (AllowAttempt: "the duration
\* until the rate limit expires").
RetryAfterIsExact ==
    \A r \in Attempt :
        ~ Allowed(r) =>
            LET Counting(k, wait) ==
                    Cardinality({i \in DOMAIN TimesOf(k) : TimesOf(k)[i] + wait < Window})
            IN  RetryAfter(r) =
                    Min({wait \in 1..Window :
                            \A k \in KeysOf(r) : Counting(k, wait) < MaxFailures})

\* The map with its lazy filtering and its cleanup behaves as an exact sliding
\* window: neither forgets a failure early nor counts one late, unless the process
\* itself is gone.
Abstract == INSTANCE SlidingWindow WITH
    live <- [k \in Key |-> Valid(TimesOf(k))],
    admitted <- req,
    open <- phase = "serving"
ImplementsSlidingWindow == Abstract!Spec

\* A lockout ends by itself, however often the client keeps knocking, as long as
\* nobody else's failures are filed under the text of its address and user name:
\* two clients in turns may keep out a third whose two keys they fill.
LockoutEnds ==
    \A r \in Attempt :
        (\A other \in Attempt \ {r} : PairKeysOf(r) \cap KeysOf(other) = {}) =>
            []<>Allowed(r)

\* Again and again no key is left with nothing to count (cleanup: "to prevent memory
\* leaks"), although AllowAttempt keeps the keys it has emptied.
EmptyKeysLeave == []<>(\A k \in DOMAIN failures : Valid(failures[k]) # <<>>)

\* However often the process was killed, and whatever state the database was in
\* when it started again, it serves once the database is back for good (Open: "a
\* database container that is still starting does not force a restart") and nobody
\* goes on killing it: neither a call in vain nor giving up leaves it behind.
ServesAgain ==
    <>[]database /\ <>[][~ Crash]_vars => []<>(phase = "serving")
=============================================================================
