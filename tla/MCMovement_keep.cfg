\* Two actors of different pace: a corner, stairs, portals, one of them into rock.
SPECIFICATION Spec
CONSTANTS
    MaxId = 2
    GiveUpTicks = 2
    SpawnFallback = FALSE
    NoTile = NoTile
    Tiles <- KeepTiles
    Walkable <- KeepWalkable
    Portal <- KeepPortal
    StairDelta <- KeepStairs
    StepTicks <- TwoPaces
    Route <- MCRoute
INVARIANTS TypeOK Exclusive OccupancyExact RouteAnchored
PROPERTIES HoldsClaims
