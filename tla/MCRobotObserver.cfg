SPECIFICATION FairSpec
CONSTANTS
    Id = {r1}
    Camera = {c1, c2}
    Confidence <- MCConfidence
    Pose = {p1}
    Matrix = m1
    Default = default
    Estimated = estimated
    MaxDetections = 2
    LostAfter = 2
    MaxDelay = 1
    NoRobot = NoRobot
INVARIANT TrackedIsPublished
PROPERTIES ImplementsUpdater FollowsAgain
