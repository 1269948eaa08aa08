\* spec.md 4.1: the length is the smallest encodable value >= n.
CONSTANT MaxN = 64
SPECIFICATION Spec
INVARIANTS
    SmallestEncodableLength
CHECK_DEADLOCK FALSE
