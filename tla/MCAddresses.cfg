SPECIFICATION Spec
CONSTANTS
  MaxAddresses = 4
  Handlers = {h1, h2}
  NULL = NULL
SYMMETRY HandlerSymmetry
INVARIANTS
  TypeOK
PROPERTIES
  OneDefault
  DefaultStays
