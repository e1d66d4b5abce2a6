CONSTANTS
    c1 = c1
    Stream = {c1}
    Task = {t1, t2}
    NoTask = NoTask
    By <- MCBy
    Bits = 2
    ChecksOverflow = {TRUE, FALSE}
    Payload <- CounterEvent
    Command <- CounterCommand
    Handle <- CounterHandle
    Invocation <- MCInvocation
    Mode = {"execute", "execute_with_retry", "execute_snapshotting"}
    LocalRequest <- MCLocalRequest
    SnapshotEvery = 1
    MaxRetries = 1
    MaxCalls = 6
    MaxLocalCalls = 1
    MaxFaults = 1
SPECIFICATION FairSpec
INVARIANTS ObjectTypeOK AppendsBounded JournalTells ReadsSeeWrites ConflictsFromOutside NegativeOnlyByIncrement
PROPERTIES CallsReturn InvocationsComplete
