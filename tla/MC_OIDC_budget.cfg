\* spec.md 4.5/7: a watch transport error is surfaced only once the budget of
\* backoff sleeps is spent.
CONSTANTS
    s1 = s1  s2 = s2  n1 = n1  n2 = n2  r1 = r1  r2 = r2  w1 = w1
    Sessions <- MCSessions
    Nonces <- MCNonces
    Requests <- MCRequests
    Waiters <- MCWaiters
    Ceiling = 1
    MaxWatchErrors = 2
    MaxDuplicates = 0
    Absent = Absent
    NoToken = NoToken
SPECIFICATION Spec
SYMMETRY MCSymmetry
INVARIANTS
    TransportErrorOnlyAfterCumulativeWait
\* All requests answered and all waiters returned: the system stops.
CHECK_DEADLOCK FALSE
