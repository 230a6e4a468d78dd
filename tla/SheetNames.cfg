SPECIFICATION Spec
CONSTANTS
    MaxRow = 2
    MaxCol = 2
    SheetNames = {"A", "B", "C"}
    Names = {total}
    Keys = {1, 2}
    Books <- PlainBooks
    NameTables <- RangeNames
    Entries <- MCEntries
    SortRanges <- MCSortRanges
    Fills <- MCFills
    MaxOps = 2
INVARIANT NamesFollow
CHECK_DEADLOCK FALSE
