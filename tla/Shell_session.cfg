SPECIFICATION Spec
CONSTANTS
  RawKey <- MCRawKey
  Value <- MCValue
  Line <- MCLine
  Nil = Nil
  BesideKey <- MCBesideKey
  MaxLine = 2
INVARIANTS
  StoredOnce
  TreeClosed
  AnswersComplete
  AppliedInOrder
  ReportsEffect
PROPERTY
  ScriptsEnd
