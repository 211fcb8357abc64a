CONSTANTS
    Color = {blue, yellow}
    TeamColor = blue
    NoTeam = none
    Position = {p1, p2}
    Place = {b1, b2}
    Nothing = nothing
    Samples = 2
    KickedTime = 1
    KickoffTime = 1
    PenaltyTime = 1
    SetplayTime = 1
    TimeBound = 2
SPECIFICATION FairSpec
INVARIANTS TypeOK FormationFits ObeysReferee StartsWhatWasPrepared SetBeforeUse
PROPERTIES AttackEnds DefenseEnds
