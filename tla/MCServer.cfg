SPECIFICATION FairSpec
CONSTANTS
  Plugins = 2
  Grpc <- GrpcIsSecond
INVARIANTS
  ExitCodeTells
  ModuleOutlivesThreads
PROPERTIES
  ShutdownEnds
