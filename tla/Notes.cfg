SPECIFICATION Spec
CONSTANTS
  Html <- MCHtml
  Empty <- MCEmpty
  Clean <- MCClean
  Plain <- MCPlain
  Lower <- MCLower
  Reread <- MCReread
  Typed <- MCTyped
  Query <- MCQuery
  Radius = 1
  Editor = {e1}
  NoEditor = none
  Save = {r1, r2}
SYMMETRY Symmetric
INVARIANTS
  SavedIsStored
  HitsShowTheMatch
PROPERTIES
  TypingIsKept
  QuietIsStored
CHECK_DEADLOCK FALSE
