CONSTANTS
    Stream = {s1, s2}
    Task = {t1, t2}
    Payload <- MCPayload
    Command = {"AddTwo", "Charge"}
    Handle <- MCHandle
    Mode = {"execute_with_retry", "execute_snapshotting"}
    SnapshotEvery = 2
    MaxRetries = 1
    MaxCalls = 3
SPECIFICATION Spec
SYMMETRY TaskSymmetry
INVARIANTS TypeOK Serializable AnswerTellsCommit ConflictsHaveRivals LoadsAgree
PROPERTIES ImplementsCommands SnapshotsWhenDue
