SPECIFICATION Spec
CONSTANTS
    Slots = {s1, s2}
    BootSlot = s1
    None = None
    BlobHosts = {TRUE, FALSE}
    MaxRev = 2
    MaxOpens = 1
    MaxFaults = 1
INVARIANTS
    TypeOK
    BytesStayHome
    SaveHasPendingEdit
    NothingLeftBehind
PROPERTIES
    
    EditsReachContainer
    MemoryNeverGoesBack
