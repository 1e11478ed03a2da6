\* One exposure of up to two tokens, on a pod or on a service.
CONSTANTS http = http  admin = admin  web = web  api = api  mgmt = mgmt
          Fail = Fail  NoLocal = NoLocal  Host = Host
          NExp = 1  MaxTokens = 2
          Names <- MCNamesOne  Tokens <- MCTokens  PortNames <- MCPortNames
          PodPorts <- MCPodPorts  SvcPorts <- MCSvcPorts  Busy <- MCBusy
SPECIFICATION Spec
INVARIANT TypeOK ExportReachesTargetIfFree
CHECK_DEADLOCK FALSE
