CONSTANTS
    Stream = {s1}
    Task = {t1, t2}
    Payload <- MCPayload
    Command = {"Add"}
    Handle <- MCHandle
    Mode = {"execute_snapshotting"}
    SnapshotEvery = 1
    MaxRetries = 0
    MaxCalls = 2
SPECIFICATION Spec
INVARIANTS StoreErrorsWriteNothing
