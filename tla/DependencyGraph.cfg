SPECIFICATION Spec
CONSTANTS
    FormulaCells <- MCCells
    RefSets <- MCRefSets
    Names = {total}
    Boxes <- MCBoxes
    NotRange = NotRange
    Table <- MCTable
    TableColumn <- MCTableColumn
    Depth = 2
    NarrowCols = 2
INVARIANTS
    EdgesExact
    AsRebuilt
