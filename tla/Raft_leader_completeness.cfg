CONSTANTS
    s1 = s1
    s2 = s2
    s3 = s3
    valueA = valueA
    valueB = valueB
    Nobody = Nobody
    Servers = {s1, s2, s3}
    Values = {valueA}
    Elections <- ElectionsThree
    MaxInFlight = 1
    Cut <- CutThree
    MaxLog = 2
SPECIFICATION Spec
CHECK_DEADLOCK FALSE
INVARIANTS LeaderCompleteness
