SPECIFICATION Spec
CONSTANTS
  one = one
  rebuilt = rebuilt
  two = two
  bad = bad
  debs = debs
  door = door
  None = None
  first = first
  second = second
  Devices = {door}
  Versions = {v1, v2}
  v1 = v1
  v2 = v2
  Builds <- MCBuilds
  Bundles = {debs}
  VersionOf <- MCVersionOf
  Valid <- MCValid
  Uploads = {first, second}
  MaxOrders = 5
  MaxFaults = 1
INVARIANTS PackageInstallable TargetsFollowPackage RepositoryKept
CHECK_DEADLOCK FALSE
