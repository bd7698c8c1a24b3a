SPECIFICATION Spec
CONSTANTS
    Scripts <- MCScripts
    Devices <- MCDevices
    Slots = 3
    PanelEdits = 1
    IrCap = 3
    StemOf <- Stems
INVARIANTS
    TypeOK
    IncumbentsSafe
    DoneMeansDone
    RegisteredHasFile
PROPERTIES
    NeverOrphans
    IrKept
