CONSTANTS
    shell = shell
    edit = edit
    Calls = {shell, edit}
    Programs <- TwoTools
    MaxPrograms = 1
    Disturbances = {"usage"}
    MaxFaults = 0
SPECIFICATION Spec
INVARIANTS
    StoppedWithRun
CHECK_DEADLOCK FALSE
