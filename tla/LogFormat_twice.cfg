\* A hook renders the entry before the writer does: Pretty runs twice on it.
CONSTANTS
    HookFormats = 1
    MaxLogs = 1
    MaxWrites = 1
SPECIFICATION Spec
INVARIANTS
    NoPanic
\* Nothing more is logged once the bounds are reached.
CHECK_DEADLOCK FALSE
