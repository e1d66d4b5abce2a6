CONSTANTS
    Stream = {s1, s2}
    Payload = {"plain", "badMap"}
    Store = {d1, d2}
    Batch <- MCBatch
    Expectation <- MCGuarded
    Unencodable = {"badMap"}
    MaxEvents = 2
    MaxLosses = 1
SPECIFICATION Spec
SYMMETRY StoreSymmetry
INVARIANTS TypeOK WritersAreCurrent CheckpointWithinLog
PROPERTIES ImplementsEventStore
