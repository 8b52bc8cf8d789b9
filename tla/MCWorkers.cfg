SPECIFICATION Spec
CONSTANTS
  max_frames = 2
  max_bytes = 3
  Lengths = {1, 3}
  NativeSpan = 2
  MaxSeen = 3
  MaxDrops = 1
  Jobs = {"j1", "j2", "j3"}
  Contexts = {"n1", "n2"}
  NoContext = "unknown"
  capacity = 2
  MaxWorkers = 3
  Sinks = {"s1", "s2"}
  runtime_capacity = 1
  MaxEmits = 3
INVARIANTS
  JobsServed
  ChargesSettled
  SinksExact
  CaptureHonest
PROPERTIES
  WorkersEnd
CHECK_DEADLOCK FALSE
