SPECIFICATION FairSpec
CONSTANTS
    Id = {r0}
    Color = {"yellow"}
    Nothing = Nothing
    NoColor = NoColor
    Simulator = TRUE
    WalkSpeed = 1
    TurnSpeed = 2
    MoveThreshold = 1
    TurnThreshold = 0
    AccelStep = 1
    TurnStep = 1
    VMax = 3
    ActionId = r0
    ActionCommands <- MCActionCommands
    StopLimit = 2
    RefboxCommand = {"halt", "stop"}
PROPERTY StopsAllRobots
