CONSTANTS
    Caller = {c1, c2}
    Name = {"Placed", "Legacy", "Other"}
    Wanted = {"Placed", "Legacy"}
    Undecodable = {"Legacy"}
    BatchSize = 2
    Mode = {"catch_up_view", "replay_view"}
    MaxLog = 3
    MaxFailures = 1
SPECIFICATION FairSpec
INVARIANTS TypeOK ViewFaithful ReturnsUpToDate
PROPERTIES EventuallyMaterialised
