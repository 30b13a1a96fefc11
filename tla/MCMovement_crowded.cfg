\* Logins that fall back to an occupied tile, and a server that keeps ticking.
SPECIFICATION FairSpec
CONSTANTS
    MaxId = 2
    GiveUpTicks = 2
    SpawnFallback = TRUE
    NoTile = NoTile
    Tiles <- KeepTiles
    Walkable <- KeepWalkable
    Portal <- KeepPortal
    StairDelta <- KeepStairs
    StepTicks <- TwoPaces
    Route <- MCRoute
INVARIANTS NoGhost
PROPERTIES StepsEnd RoutesEnd
