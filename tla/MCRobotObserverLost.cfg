SPECIFICATION FairSpec
CONSTANTS
    Id = {r1}
    Camera = {c1}
    Confidence <- MCConfidence
    Pose = {p1}
    Matrix = m1
    Default = default
    Estimated = estimated
    MaxDetections = 1
    LostAfter = 1
    MaxDelay = 0
    NoRobot = NoRobot
PROPERTY LostLeaves
