SPECIFICATION Spec
CONSTANTS
    Procs = {"p", "q"}
    Scenes <- MCRerun
    Mishaps = 1
    Torn = Torn
    None = None
    PackOf <- MCPackOf
    ShortOf <- MCShortOf
    MaxLane = 5
    Slots = 2
    CategoryOf <- MCCategoryOf
    ParamsOf <- MCParamsOf
    IrModels = {"cab"}
    Footswitches <- MCSwitches
    Pedals <- MCPedals
INVARIANTS
    RerunCompletes
CHECK_DEADLOCK FALSE
