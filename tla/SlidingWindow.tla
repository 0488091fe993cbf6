----------------------------- MODULE SlidingWindow -----------------------------
(***************************************************************************)
(* What the login rate limiter promises: failures count for exactly one    *)
(* window, and nobody is let in to try a password while MaxFailures of     *)
(* their address, or of their address and user name, still count.  It      *)
(* forgets what it counted only when it closes altogether.                 *)
(***************************************************************************)
EXTENDS Naturals, Sequences, FiniteSets

CONSTANTS Addresses, Usernames, PairKey, None, Workers, Window, MaxFailures

VARIABLES
    live,     \* the ages of the failures that count, oldest first, under each key
    admitted, \* the attempt each worker was let in with
    open      \* whether anybody is let in at all

vars == <<live, admitted, open>>

Attempt == [ip: Addresses, username: Usernames \cup {None}]

\* What a failure is filed under: the address, and the text of the address with
\* the user name.
Key == Addresses \cup {PairKey[p] : p \in Addresses \X Usernames}
KeysOf(r) == {r.ip} \cup {PairKey[<<r.ip, u>>] : u \in {r.username} \ {None}}

Nothing ==
    /\ live = [k \in Key |-> <<>>]
    /\ admitted = [w \in Workers |-> None]

Init == Nothing /\ ~ open

Admit(w, r) ==
    /\ open
    /\ admitted[w] = None
    /\ \A k \in KeysOf(r) : Len(live[k]) < MaxFailures
    /\ admitted' = [admitted EXCEPT ![w] = r]
    /\ UNCHANGED <<live, open>>

\* The attempt failed: one more under its keys.
Fail(w) ==
    /\ admitted[w] # None
    /\ admitted' = [admitted EXCEPT ![w] = None]
    /\ live' = [k \in Key |->
            IF k \in KeysOf(admitted[w]) THEN Append(live[k], 0) ELSE live[k]]
    /\ UNCHANGED open

\* The attempt succeeded: its keys start afresh.
Forgive(w) ==
    /\ admitted[w] # None
    /\ admitted' = [admitted EXCEPT ![w] = None]
    /\ live' = [k \in Key |-> IF k \in KeysOf(admitted[w]) THEN <<>> ELSE live[k]]
    /\ UNCHANGED open

\* Time passes, and what is a window old counts no more.
Pass ==
    /\ live' = [k \in Key |->
            LET older == [i \in DOMAIN live[k] |-> live[k][i] + 1]
                gone == Cardinality({i \in DOMAIN older : older[i] >= Window})
            IN  SubSeq(older, gone + 1, Len(older))]
    /\ UNCHANGED <<admitted, open>>

Open ==
    /\ ~ open
    /\ open' = TRUE
    /\ UNCHANGED <<live, admitted>>

\* Closing forgets every failure and every attempt.
Close ==
    /\ open
    /\ open' = FALSE
    /\ Nothing'

Next ==
    \/ \E w \in Workers : Fail(w) \/ Forgive(w) \/ \E r \in Attempt : Admit(w, r)
    \/ Pass \/ Open \/ Close

Spec == Init /\ [][Next]_vars
=============================================================================
