\* Two sign-ins at once from two addresses with a user name or none, one address
\* being the key of the other with the name; two failures allowed in a window of
\* two units; the process and the database may go away at any moment.
CONSTANTS
    a1 = a1
    a2 = a2
    k2 = k2
    Addresses = {a1, a2}
    Usernames = {u1}
    PairKey <- MCPairKey
    None = none
    Workers = {w1, w2}
    Window = 2
    MaxFailures = 2
    MaxPings = 3
SPECIFICATION FairSpec
INVARIANTS
    OvershootIsBounded
    RetryAfterIsExact
PROPERTIES
    ImplementsSlidingWindow
    LockoutEnds
    EmptyKeysLeave
    ServesAgain
