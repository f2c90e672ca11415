SPECIFICATION Spec
CONSTANTS
  Stems = {meter}
  MaxForms = 2
INVARIANTS TypeOK FileIsWhole SavedIsValid
