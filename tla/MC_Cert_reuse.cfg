\* Calls may be passed the same pkix.Name (one goroutine reusing it, or two).
CONSTANTS
    c1 = c1  c2 = c2  a1 = a1  a2 = a2  o1 = o1  o2 = o2
    Callers <- MCCallers
    Addrs <- MCAddrs
    NameObjs <- MCNameObjs
    Nil = Nil
    Shared = TRUE
    MaxCalls = 2
SPECIFICATION Spec
SYMMETRY MCSymmetry
INVARIANTS
    FailsOnlyOnBadArguments
\* Every goroutine has made its calls.
CHECK_DEADLOCK FALSE
