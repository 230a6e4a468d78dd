SPECIFICATION FormulasSpec
CONSTANTS
    NumberIn <- MCNumberIn
    Lower <- MCLower
    Collation <- MCCollation
    Names <- MCNames
    Tables <- MCTables
    Addresses <- MCAddresses
    MaxRow = 4
    MaxCol = 4
    MaxNameDepth = 3
    Sheets <- FunctionSheets
    DateParts <- MCDates
    Cells = {"A1", "A2", "$A$2", "B1", "B2"}
    Numbers = {"1", "2"}
    Words = {"x"}
    Functions = {"F", "LET", "LAMBDA"}
    Future = {"LET", "LAMBDA"}
    MaxStrokes = 3
INVARIANTS  CopiesAgree  SameValue
CHECK_DEADLOCK FALSE
