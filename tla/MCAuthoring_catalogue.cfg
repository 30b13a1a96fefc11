SPECIFICATION Spec
CONSTANTS
    Bands <- SmallBands
    Defaults <- BuiltInItems
    Reserved = 4
    Fields <- ItemFields
    Numbers <- SmallNumbers
    SlotCount = 2
    RangedReach = 2
    IdSpan = 16
    EffectSpan = 8
    OutfitLayers = 4
    MaxFrames = 2
    FirstDbs <- SomeDbs
    FirstBlobs <- SomeBlobs
    FirstAtlases <- NoAtlas
    Cells = {}
    Appearances <- NoMobs
    MobFields <- StripFields
    AtlasWidth = 64
    AtlasHeight = 64
    CellLeast = 8
    CellMost = 16
    CellStep = 8
    MaxTilt = 0
    Digits = {1}
    Coarse = {FALSE}
    MaxName = 1
    MaxNudge = 64
    MaxActs = 3
    MaxBinds = 0
INVARIANTS CleanFormMeansStored BakedMeansPlayable 
PROPERTIES NewIdsAreFresh
