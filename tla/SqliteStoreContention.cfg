CONSTANTS
    Stream = {s1}
    Payload = {"plain"}
    Store = {d1, d2}
    Batch <- MCOneOrTwo
    Expectation <- MCGuarded
    Unencodable = {}
    MaxEvents = 3
    MaxLosses = 0
SPECIFICATION Spec
INVARIANTS ContentionWaits
