SPECIFICATION Spec
CONSTANTS
    Procs = {"p", "q"}
    Scenes <- MCScenes
    Mishaps = 1
    Torn = Torn
    None = None
    PackOf <- MCPackOf
    ShortOf <- MCShortOf
    MaxLane = 5
    Slots = 2
    CategoryOf <- MCCategoryOf
    ParamsOf <- MCParamsOf
    IrModels = {"cab"}
    Footswitches <- MCSwitches
    Pedals <- MCPedals
INVARIANTS
    TypeOK
    ToneKept
    Recorded
    IrTruthful
    BoundIsWhole
    BindingsHold
    RoundTrip
    Discovered
    InstalledAsIs
CHECK_DEADLOCK FALSE
