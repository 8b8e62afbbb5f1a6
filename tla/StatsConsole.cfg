SPECIFICATION Spec
CONSTANTS
  Calls = {1, 2, 3}
  MaxShift = 2
  History = 2
  None = None
  Defaults <- MCDefaults
  Budgets <- MCBudgets
INVARIANTS
  SamplesHonest
PROPERTIES
  ShowsWhatIsInForce
