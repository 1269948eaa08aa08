\* CryptoString for every n up to 64 (the code calls it with 30).
CONSTANT MaxN = 64
SPECIFICATION Spec
INVARIANTS
    TypeOK
\* The computation ends (returns or panics).
CHECK_DEADLOCK FALSE
