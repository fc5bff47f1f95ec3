SPECIFICATION FairSpec
CONSTANTS
    Engines = {e1}
    Dirs = {d1, d2}
    Starts = {"own", "default"}
    Default = "default"
    Bad = "bad"
    Tables <- MCTables
    None = None
    MaxFlips = 2
    MaxServed = 2
INVARIANTS
    RewriteIsProved
    WarningIsTrue
    ProbesAreRemoved
PROPERTIES
    EveryChoiceEnds
CHECK_DEADLOCK FALSE
