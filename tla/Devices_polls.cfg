SPECIFICATION FactorySpec
CONSTANTS
  OFFSET_VALUES = 4
  MAX_GROUP_COUNT = 2
  PollInterval = 8
  MIN_BUDGET = 1
  MAX_BUDGET = 2
  FailTime = 2
  ReadStorage = TRUE
  MaxEntries = 3
  InputCounts = {3}
  StringCounts = {21}
  MAX_INPUTS = 10
  MAX_STRINGS = 20
  Watched = {14, 31321, 31322, 31378}
  MaxUnusual = 1
INVARIANTS FactoryTypeOK FieldsAreSlices PhaseBounded EarlyEntriesServed
INVARIANTS LabelsAreTrue PhasesAreReal NothingPartial AllInputsPublished
VIEW CreatedView
CHECK_DEADLOCK FALSE
