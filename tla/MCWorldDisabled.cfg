SPECIFICATION FairSpec
CONSTANTS
    Camera = {c1, c2}
    Confidence <- MCConfidence
    Pose = {p1, p2}
    Affine = {m1}
    Identity = m1
    Estimate = {e1}
    MaxBalls = 1
    Observer = FALSE
    Nothing = Nothing
    Geometry = {}
PROPERTY DisabledIgnored
