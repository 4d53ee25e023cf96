SPECIFICATION Spec
CONSTANTS
  Nil = Nil
  Key <- MCKey
  Value <- MCValue
  Column <- MCColumn
INVARIANTS
  Durable
  TableOrTorn
PROPERTIES
  ListsChildren
