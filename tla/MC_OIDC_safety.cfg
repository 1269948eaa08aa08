\* Safety of the login-session protocol: nonce check, what the waiter
\* reports, what the callback answers.
CONSTANTS
    s1 = s1  s2 = s2  n1 = n1  n2 = n2  r1 = r1  r2 = r2  w1 = w1
    Sessions <- MCSessions
    Nonces <- MCNonces
    Requests <- MCRequests
    Waiters <- MCWaiters
    Ceiling = 0
    MaxWatchErrors = 2
    MaxDuplicates = 1
    Absent = Absent
    NoToken = NoToken
SPECIFICATION Spec
SYMMETRY MCSymmetry
INVARIANTS
    TypeOK
    NoForeignToken
    WaiterReportsCommittedOutcome
    ResponseReflectsCommit
\* All requests answered and all waiters returned: the system stops.
CHECK_DEADLOCK FALSE
