SPECIFICATION Spec
CONSTANTS
  Types = {"A", "F", "P", "U", "C", "X", "D", "E", "S"}
  MAX_MESSAGES = 3
INVARIANTS TypeOK PresentsOwed
