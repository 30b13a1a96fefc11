\* Searches of a small yard, one after another, over the same scratch arrays.
SPECIFICATION FairSpec
CONSTANTS
    Cardinal = 9
    Diagonal = 13
    MaxNodes = 11
    Generations = 3
    NoCell = NoCell
    Requests <- YardRequests
    Rivals <- YardRivals
    Tiles <- YardTiles
    Walkable <- YardWalkable
    Portal <- LanePortal
    StairDelta <- YardStairs
INVARIANTS PathIsRoute PathIsCheapest
