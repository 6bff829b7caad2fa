SPECIFICATION Spec
CONSTANTS
  Documents <- MCStripped
  Shapes <- MCShapes
  Editors = {e1}
  EditorTexts <- MCEditorTexts
  MaxRedirects = 2
INVARIANT NothingStripped
CHECK_DEADLOCK FALSE
