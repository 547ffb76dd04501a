SPECIFICATION MediaSpec
CONSTANTS
  picture = picture
  menu = menu
  map = map
  Nothing = Nothing
  Devices = {door}
  Names = {0, 1, 3, 4}
  Contents <- MCContents
  Images = {picture}
  Documents <- MCDocuments
  Quotas = {1, 2}
  MaxUploads = 2
  MaxRegistrations = 1
  MaxRestarts = 1
  MaxDeletions = 1
  MaxInterruptions = 2
  DefaultQuota = 1
  MaxCleans = 1
INVARIANTS DeletedDeviceLeavesNothing StagingIsOwned
PROPERTIES ReadyStays InUseKept
SYMMETRY MCSymmetry
CHECK_DEADLOCK FALSE
