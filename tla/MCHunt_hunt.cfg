SPECIFICATION HuntSpec
CONSTANTS
    Tiles <- Corridor
    Home = 2
    Mobs = {1, 2}
    Items = {1, 2}
    SlotOf <- Slotted
    Vocations <- ClassNames
    KitOf <- Kits
    HealthOf <- Healths
    ManaOf <- Manas
    SpellOf <- Spells
    LootTable <- Drops
    MobHealth = 1
    MobPower = 1
    SwingPower = 1
    RespawnTicks = 2
    CountMod = 3
    RowsShown = 1
    MaxCatchUp = 1
    MaxRequests = 1
INVARIANTS NothingLost DeadStayDown
PROPERTIES TakenAsShown
