\* Two nests whose areas do not overlap, on a corridor players walk.
SPECIFICATION Spec
CONSTANTS
    MaxId = 4
    GiveUpTicks = 2
    NoTile = NoTile
    Tiles <- LaneTiles
    Walkable <- LaneTiles
    Portal <- LanePortal
    StairDelta <- LaneStairs
    StepTicks <- OneTick
    Route <- MCRoute
    Nests <- TwoNests
    Area <- ApartArea
    MaxAlive <- SomeAlive
    Period <- SomePeriod
INVARIANTS PopulationBounded
PROPERTIES ClearedStaysClear
