SPECIFICATION Spec
CONSTANTS
  door = door
  snow = snow
  film = film
  Names = {1}
  Clips = {film}
  Uploaded <- AllUploaded
  plain = plain
  None = None
  Devices = {door}
  Device = door
  Ids = {1, 2}
  Texts = {plain}
  Files = {snow}
  Seeded = 2
  SeededText = plain
  Slots = {1, 2}
  MaxEdits = 2
  MaxFaults = 1
INVARIANTS BackgroundsInUseExist LatestIsShown
PROPERTIES ContentIsShown
