CONSTANTS
  Width = 3
  DefaultMaxJobsActive = 3
  DefaultRequestTimeout = 40
  RequestTimeoutOffset = 40
  AskedTimeouts = {0, 20, 400}
  ChannelTimeout = 60
  LongPollingMax = 40
  ResultTimeouts = {0, 40, 240}
  GatewayTimeout = 60
  Latency = 1
SPECIFICATION SettingsSpec
INVARIANTS
  TypeOK
  RunsAsAsked
  AnsweredInTime
  LossWindow
  NoSettingLost
  ClientIsUsable
CHECK_DEADLOCK FALSE
