SPECIFICATION FairSpec
CONSTANTS
  Documents <- MCDocuments
  Shapes <- MCShapes
  Editors = {e1, e2}
  EditorTexts <- MCEditorTexts
  MaxRedirects = 2
CHECK_DEADLOCK FALSE
INVARIANTS
  Consistent
  TlsAsWritten
  CompilesAndReadsBack
  StaysWithSource
PROPERTIES
  WorkEnds
