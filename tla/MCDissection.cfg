SPECIFICATION MCSpec
CONSTANTS
  Segments <- Captured
  Opposite <- Directions
  FlowOrder <- Order
  Stream <- OneStream
  Modulus = 8
  PageBytes = 3
  PageCost = 3
  SegmentCost = 1
  FlowCost = 1
  max_flows = 2
  max_bytes_per_flow = 3
  max_aggregate_bytes = 13
  max_segments_per_flow = 1
  max_half_open = 1
  idle_expiry = 1
  SweepGranularity = 2
  FrameCount = 4
  LastTick = 1
  max_source_spans = 2
  max_buffer_bytes = 3
  max_messages = 4
  max_retained_bytes = 16512
  Protocols = {"text", "binary"}
  LeftOut = {"split"}
CHECK_DEADLOCK FALSE
INVARIANTS
  StreamsFaithful
  MessagesSourced
  DatagramsExact
