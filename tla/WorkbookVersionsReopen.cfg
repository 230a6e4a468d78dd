SPECIFICATION Spec
CONSTANTS
    Writers = {w1}
    None = {0}
    MaxEdits = 2
    MaxSteps = 0
    MaxOpens = 1
    MaxFaults = 0
PROPERTIES EditsSurviveReopen
CHECK_DEADLOCK FALSE
