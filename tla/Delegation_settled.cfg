SPECIFICATION Spec
CONSTANTS
  Principal = {1,2,3,4}
  Creator = 1
  Grants <- Downward
  Revocations <- DownwardRevocations
  Page <- MCPage
  Places <- MCPlaces
  MaxRecords = 4
  MaxRevokes = 2
INVARIANTS SettlesToReference CreatorImmune
PROPERTIES AuthorityNeeded
