\* One name, two peers that may share it; loads may fail, crashes at any point.
SPECIFICATION Spec
CONSTANTS
    Peers = {p1, p2}
    Names = {ann}
    Items = {}
    Slots = {"hand"}
    SlotOf <- Bare
    Kit <- Bare
    NoItem = NoItem
    NoRow = NoRow
    AuthoredSpawn <- NookSpawn
    MaxHp = 2
    MaxDeeds = 0
    SharedNames = TRUE
    SavesFail = FALSE
    LoadsFail = TRUE
    MaxId = 2
    GiveUpTicks = 1
    NoTile = NoTile
    Tiles <- NookTiles
    Walkable <- NookTiles
    Portal <- LanePortal
    StairDelta <- NookStairs
    StepTicks <- OneTick
    Route <- MCRoute
INVARIANTS NoOrphans NobodyStuckDead
SYMMETRY Swaps
