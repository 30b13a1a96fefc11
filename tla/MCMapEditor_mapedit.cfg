\* Four acts of the author on two files; a pool of one letter.
SPECIFICATION Spec
CONSTANTS
    PoolSize = 1
    ByteMax = 255
    ShortMax = 65535
    Paths <- TwoPaths
    FirstPath = "strip"
    Disk <- TwoFiles
    Blockers = {2}
    Revised = 3
    Brushes <- SomeBrushes
    CanvasWidth = 1
    CanvasHeight = 1
    Stone = 1
    LateErrors = TRUE
    KMaxUndo = 1
    MaxFloors = 2
    MaxActs = 4
INVARIANTS ReopensAsSaved 
PROPERTIES LossIsConfirmed KeepsHistory
