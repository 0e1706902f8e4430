SPECIFICATION FairSpec
CONSTANTS
  c1 = c1
  c2 = c2
  video = video
  audio = audio
  Clients = {c1, c2}
  Media = {video, audio}
  Nobody = Nobody
  NoMedium = NoMedium
  MaxIds = 3
  MaxSiblings = 1
  MaxCrashes = 1
  Setups <- SetupsAll
INVARIANTS TypeOK StreamsMatch UsersServed FileFits
PROPERTIES Reclaimed
CHECK_DEADLOCK FALSE
