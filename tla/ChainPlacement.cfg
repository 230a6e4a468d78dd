SPECIFICATION Spec
CONSTANTS
    DefaultHeight = 1
    Sheets <- MCSheets
    Layouts <- MCLayouts
    Starts <- MCStarts
    Options <- MCOptions
    MaxEvents = 3
INVARIANTS
    PagesSound
    PlacedOnce
    
