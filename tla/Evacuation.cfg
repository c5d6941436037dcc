SPECIFICATION Spec
CONSTANTS
  Items = {i1, i2}
INVARIANTS
  TypeOK
  StoreCovers
PROPERTIES
  KeepsPromise
SYMMETRY Symmetry
