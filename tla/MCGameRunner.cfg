SPECIFICATION FairSpec
CONSTANTS
    Id = {r0, r1}
    Color = {"yellow", "blue"}
    Nothing = Nothing
    NoColor = NoColor
    Simulator = TRUE
    WalkSpeed = 1
    TurnSpeed = 1
    MoveThreshold = 1
    TurnThreshold = 0
    AccelStep = 1
    TurnStep = 1
    VMax = 2
    ActionId = r0
    ActionCommands <- MCFewCommands
    StopLimit = 1
    RefboxCommand = {"halt", "stop", "start"}
INVARIANTS TypeOK ActiveIsRegistered LimitFollowsReferee StaleCommandPending
PROPERTIES IdleNeverWalks StopReturns
