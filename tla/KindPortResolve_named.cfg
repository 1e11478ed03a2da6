\* One exposure of one token: a named pod port is rejected by portforward.New.
CONSTANTS http = http  admin = admin  web = web  api = api  mgmt = mgmt
          Fail = Fail  NoLocal = NoLocal  Host = Host
          NExp = 1  MaxTokens = 1
          Names <- MCNamesOne  Tokens <- MCTokens  PortNames <- MCPortNames
          PodPorts <- MCPodPorts  SvcPorts <- MCSvcPorts  Busy <- MCBusyNone
SPECIFICATION Spec
INVARIANT ResolvableExposed
CHECK_DEADLOCK FALSE
