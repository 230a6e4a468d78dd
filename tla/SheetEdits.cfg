SPECIFICATION Spec
CONSTANTS
    MaxRow = 2
    MaxCol = 2
    SheetNames = {"A", "B", "C"}
    Names = {total}
    Keys = {1, 2}
    Books <- MCBooks
    NameTables <- MCNameTables
    Entries <- MCEntries
    SortRanges <- MCSortRanges
    Fills <- MCFills
    MaxOps = 3
INVARIANTS
    EditsMoveTogether
    SaveWritesWorkbook
PROPERTIES
    RowsTravelWhole
CHECK_DEADLOCK FALSE
