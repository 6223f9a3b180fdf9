SPECIFICATION Spec
CONSTANTS
  Principal = {1, 2, 3, 4}
  Creator = 1
  Grants <- Line
  Revocations <- LineRevocations
  Page <- MCPage
  Places <- MCPlaces
  MaxRecords = 3
  MaxRevokes = 1
INVARIANT SettlesToReference
