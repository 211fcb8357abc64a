SPECIFICATION FairSpec
CONSTANTS
    Camera = {c1, c2}
    Confidence <- MCConfidence
    Pose = {p1}
    Affine = {m1, m2}
    Identity = m1
    Estimate = {e1}
    MaxBalls = 2
    Observer = FALSE
    Nothing = Nothing
    Geometry = {g1}
INVARIANT UnseenIsLost
PROPERTIES BallConverges LossReported
