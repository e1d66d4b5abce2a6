CONSTANTS
    Runner = {r1, r2}
    Name = {"Placed", "Legacy", "Other"}
    Wanted = {"Placed", "Legacy"}
    Undecodable = {"Legacy"}
    BatchSize = 2
    MaxLog = 3
    MaxFailures = 2
SPECIFICATION FairSpec
INVARIANTS TypeOK NothingSkipped InOrder RedeliversOnlyInFlight RepeatsNeedFailures
PROPERTIES MarkedStaysDone EventuallyDelivered
