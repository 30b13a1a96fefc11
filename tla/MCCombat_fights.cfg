\* One player and one mob in a corridor, and a server that keeps ticking.
SPECIFICATION FairSpec
CONSTANTS
    MaxId = 2
    MaxPlayers = 1
    MaxMobs = 1
    MaxHp = 2
    Notice = 2
    Leash = 1
    Cooldown = 2
    RespawnTicks = 2
    ThinkTicks = 1
    ReplanTicks = 2
    BackoffTicks = 3
    GiveUpTicks = 2
    DeadInput = FALSE
    NoTile = NoTile
    Tiles <- LaneTiles
    Walkable <- LaneTiles
    Portal <- LanePortal
    StairDelta <- LaneStairs
    StepTicks <- OneTick
    Damage <- AllOnes
    AttackRange <- AllOnes
    Route <- MCRoute
 
PROPERTIES SwingClockKept DeadComeBack ReachIsFatal ChaseEnds
