\* Two goroutines, each making one call with nil or a pkix.Name of its own.
CONSTANTS
    c1 = c1  c2 = c2  a1 = a1  a2 = a2  o1 = o1  o2 = o2
    Callers <- MCCallers
    Addrs <- MCAddrs
    NameObjs <- MCNameObjs
    Nil = Nil
    Shared = FALSE
    MaxCalls = 1
SPECIFICATION Spec
SYMMETRY MCSymmetry
INVARIANTS
    TypeOK
    CertMatchesRequest
\* Every goroutine has made its calls.
CHECK_DEADLOCK FALSE
