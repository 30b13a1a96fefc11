SPECIFICATION EditorSpec
CONSTANTS
    Bands <- SmallBands
    Defaults <- BuiltInItems
    Reserved = 4
    Fields <- SpriteFields
    Numbers <- SmallNumbers
    SlotCount = 2
    RangedReach = 2
    IdSpan = 16
    EffectSpan = 8
    OutfitLayers = 4
    MaxFrames = 3
    FirstDbs <- OneItemDb
    FirstBlobs <- SomeBlobs
    FirstAtlases <- SomeAtlases
    Cells = {1}
    Appearances <- Mobs
    MobFields <- StripFields
    AtlasWidth = 832
    AtlasHeight = 32
    CellLeast = 24
    CellMost = 32
    CellStep = 8
    MaxTilt = 0
    Digits = {1}
    Coarse = {FALSE}
    MaxName = 1
    MaxNudge = 16
    MaxActs = 0
    MaxBinds = 2
 
PROPERTIES OneSpriteAtATime EditTakesEffect
