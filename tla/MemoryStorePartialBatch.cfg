CONSTANTS
    Stream = {s1, s2}
    Payload = {"plain", "other", "badMap"}
    Batch <- MCBatch
    Expectation <- MCExpectation
    Unencodable = {"badMap"}
    MaxEvents = 3
SPECIFICATION Spec
PROPERTIES FailedAppendsWriteNothing
