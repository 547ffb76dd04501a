SPECIFICATION Spec
CONSTANTS
  contentA = contentA
  contentB = contentB
  card = card
  onlyA = onlyA
  shared = shared
  onlyB = onlyB
  cardImage = cardImage
  None = None
  Contents <- MCContents
  TestCard = card
  Files <- MCFiles
  Rendered <- MCRendered
  FileSets <- MCFileSets
  MaxChanges = 2
  MaxTests = 2
  MaxCrashes = 1
  MaxRots = 1
  MaxLoadErrors = 1
  MaxWriteErrors = 1
INVARIANTS
  SavedContentComplete
  PlayedFilesKept
  VersionIsShownUnlessLoadFails
PROPERTIES
  WayBackLostOnlyBeforeWrite
  ScreenIsADisplay
  TestCardEnds
  Converges
