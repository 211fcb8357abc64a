SPECIFICATION FairSpec
CONSTANTS
    Camera = {c1, c2}
    Confidence <- MCConfidence
    Pose = {p1}
    Affine = {m1}
    Identity = m1
    Estimate = {e1}
    MaxBalls = 1
    Observer = TRUE
    Nothing = Nothing
    Geometry = {}
PROPERTY LossReported
