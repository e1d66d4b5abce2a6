CONSTANTS
    alice = alice
    Stream = {alice}
    Task = {t1, t2}
    NoTask = NoTask
    Amount = {0, 1}
    Width = 3
    Payload <- AccountEvent
    Command <- DurableCommand
    Handle <- DurableHandle
    Invocation <- MCInvocation
    Mode = {"execute"}
    LocalRequest = {}
    SnapshotEvery = 0
    MaxRetries = 0
    MaxCalls = 5
    MaxLocalCalls = 0
    MaxFaults = 1
SPECIFICATION ObjectSpec
INVARIANTS NeverAppendsTwice
