CONSTANTS
    shell = shell
    edit = edit
    Calls = {shell, edit}
    Programs <- TwoTools
    MaxPrograms = 1
    Disturbances = {"usage", "shutdown", "crash"}
    MaxFaults = 1
SPECIFICATION FairSpec
INVARIANTS
    AliveIsOwned
    CleanMeansQuiet
    ReportCoversPrograms
PROPERTIES
    OutcomeFinal
    StopDrains
CHECK_DEADLOCK FALSE
