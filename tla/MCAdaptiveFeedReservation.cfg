SPECIFICATION FeedSpec
CONSTANTS
  min_window = 1
  initial_window = 2
  max_in_flight = 2
  host_timeout = 3
  retry_backoff = 1
  max_backoff = 2
  max_attempts = 2
  Endpoints = {0}
  Responders = {"target"}
  INFERENCE_MIN_COMPLETED = 1
  INFERENCE_MIN_CONTROL = 1
  INFERENCE_MIN_LOSSES = 1
  Hosts = {0, 1}
  Timeouts = {1, 2}
  operation_end = 5
CHECK_DEADLOCK FALSE
INVARIANT ReservationCovers
