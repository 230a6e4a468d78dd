SPECIFICATION FairSpec
CONSTANTS
    Writers = {w1, w2}
    None = {0}
    MaxEdits = 3
    MaxSteps = 2
    MaxOpens = 1
    MaxFaults = 1
INVARIANTS TypeOK LabelStored  
 
CHECK_DEADLOCK FALSE
