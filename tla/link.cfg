SPECIFICATION LinkSpec
CONSTANTS
  MaxRun = 3
  MaxBytes = 6
  Pixels = {1, 8, 35}
  MaxPixels = 6
  MaxSent = 3
  RingSize = 3
  MaxUp = 3
  MaxFaults = 1
  MaxGarbage = 1
  Image <- MCImage
  Clock = 256
  MaxNotes = 3
  MaxBeat = 60
  Minute4 = 1008
  Songs <- MCSongs
  Gaps <- MCGaps
  Starts = {0, 125}
INVARIANTS
  LinkTypeOK
  NothingLost
  CodecSound
  SongsKeepTime
PROPERTIES
  InOrderOnce
  PauseHeeded
  LinkGoesOn
