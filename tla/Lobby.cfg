\* Two runs of client a, the second with another password, and one of client b.
SPECIFICATION FairSpec
CONSTANTS
    a = a
    b = b
    right = right
    wrong = wrong
    Connections <- MCConnections
    IdentityOf <- MCIdentityOf
    PasswordOf <- MCPasswordOf
    MaxPendingOutput = 1
    Slow = {3}
    Attempts = 2
    MaxMessages = 1
    MaxQuits = 1
\* The bounded program ends.
CHECK_DEADLOCK FALSE
INVARIANTS
    RosterAgrees
    MembersSound
    NewsSound
PROPERTIES
    LobbySettles
