SPECIFICATION Spec
CONSTANTS
  both = both
  relabelled = relabelled
  single = single
  bare = bare
  image = image
  video = video
  None = None
  Scenes <- MCScenes
  Files <- MCFiles
  Videos = {video}
  Playlist <- MCPlaylist
  VideoOutputs = 3
  MaxRetries = 2
  MaxRequests = 4
INVARIANTS CallbacksFindTheirItem
PROPERTIES IdleOnlyAfterStop EveryItemGetsItsTurn
CHECK_DEADLOCK FALSE
