\* With one callback request: liveness of the watch loop under the fairness of
\* the server's own steps, and OIDC implementing OIDCSessionAbs.
CONSTANTS
    s1 = s1  s2 = s2  n1 = n1  n2 = n2  r1 = r1  r2 = r2  w1 = w1
    Sessions <- MCSessions
    Nonces <- MCNonces
    Requests <- MCOneRequest
    Waiters <- MCWaiters
    Ceiling = 0
    MaxWatchErrors = 2
    MaxDuplicates = 1
    Absent = Absent
    NoToken = NoToken
SPECIFICATION FairSpec
PROPERTIES
    OpenWatchResolves
    CancelledWaiterReturns
    RefinesAbstractSession
\* All requests answered and all waiters returned: the system stops.
CHECK_DEADLOCK FALSE
