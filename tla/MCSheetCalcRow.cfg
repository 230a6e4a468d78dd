SPECIFICATION Spec
CONSTANTS
    Cells <- RowCells
    Formulas <- RowFormulas
    Values <- MCValues
    Palette <- RowPalette
    Reads <- MCReads
    IsVolatile <- MCIsVolatile
    SpillRoot <- MCSpillRoot
    Eval <- MCEval
    Settled <- MCSettled
    Empty = Empty
    NoFormula = NoFormula
    NoOwner = NoOwner
    Zero = 0
    RefErr = RefErr
    SpillErr = SpillErr
    Salts = {0, 1}
    MaxNumber = 2
    InteriorWrites = FALSE
    Iteration = TRUE
    Rebuilds = TRUE
    MaxBatch = 1
    MaxPasses = 3
    MaxIter = 2
INVARIANTS
    TypeOK
    Fresh
    CircularWhole
    
PROPERTIES
    RecalcEnds
