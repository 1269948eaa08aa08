\* spec.md 8: OIDCStateToEmail must not hang when the state token expires.
CONSTANTS
    s1 = s1  s2 = s2  n1 = n1  n2 = n2  r1 = r1  r2 = r2  w1 = w1
    Sessions <- MCSessions
    Nonces <- MCNonces
    Requests <- MCRequests
    Waiters <- MCWaiters
    Ceiling = 0
    MaxWatchErrors = 2
    MaxDuplicates = 0
    Absent = Absent
    NoToken = NoToken
SPECIFICATION FairSpec
PROPERTIES
    WaiterTerminates
CHECK_DEADLOCK FALSE
