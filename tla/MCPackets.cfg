SPECIFICATION PacketsSpec
CONSTANTS
  Cases <- CodecCases
  Extras <- WireExtras
  max_layers = 8
  max_packet_size = 200
INVARIANTS
  BytesPlaced
  FilesFaithful
  RebuildExact
  StrictBuildReads
