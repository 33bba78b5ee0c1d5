CONSTANTS
  ThreadCount = 4
  Default = default_name
  system = system
  extra = extra
  Names <- TwoNames
  Main = main
  Users = {u1, u2}
  Room = 1
  None = None
  Setup <- OneLogger
  Extra = {extra}
  MaxLogs = 2
SPECIFICATION Spec
INVARIANTS
  TypeOK
  NoStrandedTask
  NeverNull
PROPERTIES
  FirstLoggerStays
  CallsReturn
  EndsCleanly
  ImplementsChannels
