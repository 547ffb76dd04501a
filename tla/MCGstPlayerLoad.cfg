SPECIFICATION Spec
CONSTANTS
  both = both
  relabelled = relabelled
  single = single
  bare = bare
  image = image
  video = video
  None = None
  Scenes <- MCScenes
  Files <- MCFiles
  Videos = {video}
  Playlist <- MCPlaylist
  VideoOutputs = 3
  MaxRetries = 2
  MaxRequests = 3
PROPERTIES LoadReplacesScene
CHECK_DEADLOCK FALSE
