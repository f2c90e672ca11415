SPECIFICATION Spec
CONSTANTS
  Stems = {meter}
  MaxForms = 1
INVARIANTS OfferedCanBeSaved
