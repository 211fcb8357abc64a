SPECIFICATION FairSpec
CONSTANTS
    Id = {r1, r2}
    Camera = {c1, c2}
    Confidence <- MCConfidence
    Pose = {p1}
    Affine = {m1, m2}
    Identity = m1
    Estimate = {e1}
    MaxDetections = 1
    ManualIds = {r2}
    DropsValues = FALSE
    NoRobot = NoRobot
INVARIANTS TypeOK ReliableIsDetected NeverThrows UnfilteredIsReliable LossNotified
PROPERTIES Converges LostDisappears
