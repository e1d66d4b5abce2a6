CONSTANTS
    Stream = {a1, a2}
    Task = {t1, t2}
    Amount = {0, 1, 2}
    Width = 2
    Payload <- AccountEvent
    Command <- AccountCommand
    Handle <- AccountHandle
    Mode = {"execute_with_retry"}
    SnapshotEvery = 0
    MaxRetries = 1
    MaxCalls = 4
SPECIFICATION Spec
SYMMETRY Symmetry
INVARIANTS RulesHold LedgerHoldsTotal
