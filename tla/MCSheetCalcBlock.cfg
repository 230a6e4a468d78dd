SPECIFICATION Spec
CONSTANTS
    Cells <- BlockCells
    Formulas <- BlockFormulas
    Values <- MCValues
    Palette <- BlockPalette
    Reads <- MCReads
    IsVolatile <- MCIsVolatile
    SpillRoot <- MCSpillRoot
    Eval <- MCEval
    Settled <- MCSettled
    Empty = Empty
    NoFormula = NoFormula
    NoOwner = NoOwner
    Zero = 0
    RefErr = RefErr
    SpillErr = SpillErr
    Salts = {0}
    MaxNumber = 2
    InteriorWrites = FALSE
    Iteration = FALSE
    Rebuilds = FALSE
    MaxBatch = 2
    MaxPasses = 5
    MaxIter = 2
INVARIANTS
    LedgerSound
    EntriesKept
