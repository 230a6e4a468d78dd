SPECIFICATION Spec
CONSTANTS
  Builtin <- MCBuiltin
  Legacy <- MCLegacy
  Office <- MCOffice
  Theme <- MCTheme
  Colours = {"red", "navy"}
  LineStyles = {"thin"}
  HAligns = {"general", "left", "center"}
  VAligns = {"top", "bottom"}
  Sizes = {"9", "11"}
  Codes = {"0.00", "kg"}
  NumCells = 3
  Selections <- MCSelections
  Framed <- MCFramed
  Named <- MCNamed
  Kinds <- MCKinds
  Texts = {"", "z"}
  Patches <- MCPatches
  Borders <- MCBorders
  Widths = {20}
  Scopes = {"workbook", "sheet"}
  Files <- MCFiles
  MaxFormatId = 170
  MaxOps = 3
INVARIANT OnTrail
 
 
CHECK_DEADLOCK FALSE
