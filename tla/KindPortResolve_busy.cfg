\* One exposure of up to two tokens, where a local port may be asked for
\* twice or be held by another process.
CONSTANTS http = http  admin = admin  web = web  api = api  mgmt = mgmt
          Fail = Fail  NoLocal = NoLocal  Host = Host
          NExp = 1  MaxTokens = 2
          Names <- MCNamesOne  Tokens <- MCTokens  PortNames <- MCPortNames
          PodPorts <- MCPodPorts  SvcPorts <- MCSvcPorts  Busy <- MCBusy
SPECIFICATION Spec
INVARIANT ExportReachesTarget
CHECK_DEADLOCK FALSE
