\* Two exposures of resources whose names differ only in "-", "/" or none.
CONSTANTS http = http  admin = admin  web = web  api = api  mgmt = mgmt
          Fail = Fail  NoLocal = NoLocal  Host = Host
          NExp = 2  MaxTokens = 1
          Names <- MCNamesTwo  Tokens <- MCTokensOne  PortNames <- MCPortNames
          PodPorts <- MCPodPorts  SvcPorts <- MCSvcPorts  Busy <- MCBusyNone
SPECIFICATION Spec
INVARIANT EnvKeysDistinct
CHECK_DEADLOCK FALSE
