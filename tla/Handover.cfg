SPECIFICATION Spec
CONSTANTS
  Browsers = {b1, b2}
  Requests = {r1, r2}
  Agents = {agent}
  Writers = {dev}
  MaxInputs = 2
  None = None
INVARIANTS
  TypeOK
  NoTypingOver
  PromotedHeld
  OneHolder
