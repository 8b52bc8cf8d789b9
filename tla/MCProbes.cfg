SPECIFICATION ProbeSpec
CONSTANTS
  Attempts = {"a1", "a2"}
  capacity = 1
  MAX_PENDING_CONNECTIONS = 1
  Lookups = {"l1", "l2", "l3"}
  MAX_PENDING_LOOKUPS = 2
  RootSlots = 2
  Processes = {"p1", "p2"}
  Dests = {1, 2}
  Files <- TwoAndOne
  NoEntry = "none"
  Callers = {"u1", "u2", "u3"}
  Members = {"u1"}
  Keys = {"k1", "k2", "k3"}
  Targets = {"k1", "k2", "k3"}
  max_cache_entries = 2
  cache_ttl = 1
  operation_entries = 3
  Calls = 3
  Horizon = 2
  max_attempts = 2
  attempt_timeout = 1
  max_frames = 1
  max_bytes = 1
  Lengths = {1, 2}
  Arrivals = 2
  Budget = 3
CHECK_DEADLOCK FALSE
INVARIANTS
  ReportExact
  HopsAccounted
  StagesSound
PROPERTIES
  TimeCharged
