CONSTANTS
  Identity = {i1, i2, i3}
  ttl = 2
  RequestedCapacity = 2
  ForcedMax = 2
  MaxTime = 4
  MaxPackets = 5
  Frame <- MCFrame
  MAX_HANDSHAKE_BYTES = 84
  RingSlots = 2
  Trees <- MCTrees
SPECIFICATION AgentsSpec
INVARIANTS
  SuppressedOnlyWithinTtl
  HelloIsReadRight
  MissedOnlyIfFaulty
  HiddenOnlyByNamesake
  OverstatedOnlyAesOrSha1
PROPERTIES
  RepeatOnlyAfterEviction
  SoundHelloIsReported
