SPECIFICATION Spec
CONSTANTS
    Robot = {r1, r2, r3, r4}
    Ids = {r1, r2, r3}
    Enemy = {e1, e2}
    NoRobot = NoRobot
SYMMETRY Symmetry
INVARIANTS GetBallReady OneRoleEach ReceiversServed SoonChased
