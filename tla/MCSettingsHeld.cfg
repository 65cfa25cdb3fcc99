CONSTANTS
  Width = 3
  DefaultMaxJobsActive = 3
  DefaultRequestTimeout = 40
  RequestTimeoutOffset = 40
  AskedTimeouts = {}
  ChannelTimeout = 60
  LongPollingMax = 40
  ResultTimeouts = {}
  GatewayTimeout = 60
  Latency = 1
SPECIFICATION SettingsSpec
INVARIANT HeldUntilRequestTimeout
CHECK_DEADLOCK FALSE
