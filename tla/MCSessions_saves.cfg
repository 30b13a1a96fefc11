\* Two characters, saves that may fail, crashes at any point.
SPECIFICATION Spec
CONSTANTS
    Peers = {p1, p2}
    Names = {ann, bob}
    Items = {"sword", "bow"}
    Slots = {"hand"}
    SlotOf <- Weapons
    Kit <- Starter
    NoItem = NoItem
    NoRow = NoRow
    AuthoredSpawn = NoTile
    MaxHp = 1
    MaxDeeds = 1
    SharedNames = FALSE
    SavesFail = TRUE
    LoadsFail = FALSE
    MaxId = 2
    GiveUpTicks = 1
    NoTile = NoTile
    Tiles <- SpotTiles
    Walkable <- SpotTiles
    Portal <- LanePortal
    StairDelta <- SpotStairs
    StepTicks <- OneTick
    Route <- MCRoute
INVARIANTS KitKept EveryoneStored
 
SYMMETRY Swaps
