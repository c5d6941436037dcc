SPECIFICATION Spec
CONSTANTS
  Items = {i1}
INVARIANTS
  SafelyOffNode
