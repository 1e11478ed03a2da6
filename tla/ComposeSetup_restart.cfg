\* Two services whose containers may each be restarted once during setup.
CONSTANTS s1 = s1  s2 = s2  s3 = s3  Junk = Junk  Gateway = Gateway  NoIP = NoIP
CONSTANTS Decl <- MCDeclSmall  HostMode = {}  NoShell = {}  MaxRestarts = 1
SPECIFICATION Spec
PROPERTY ReadyThenReturns
CHECK_DEADLOCK FALSE
