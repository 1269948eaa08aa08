\* The writer's own Pretty call only: one application entry, one gRPC line.
CONSTANTS
    HookFormats = 0
    MaxLogs = 1
    MaxWrites = 1
SPECIFICATION Spec
INVARIANTS
    TypeOK
    PrettyShowsEveryFieldOnce
    GRPCLinesLogged
\* Nothing more is logged once the bounds are reached.
CHECK_DEADLOCK FALSE
