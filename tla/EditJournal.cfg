SPECIFICATION Spec
CONSTANTS
    NumCells = 2
    Empty = Empty
    Inputs = {Empty, a}
    Ranges <- TableBesideAnother
    None = None
    MaxEdits = 2
    MaxRev = 3
    MaxUpsets = 2
INVARIANTS TypeOK BatchesWhole Stamped TablesFollow
PROPERTIES HistoryKept TablesCatchUp
