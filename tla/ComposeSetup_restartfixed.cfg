\* Three services published on fixed host ports, whose containers may each
\* be restarted once during setup; s3's image has no /bin/sh.
CONSTANTS s1 = s1  s2 = s2  s3 = s3  Junk = Junk  Gateway = Gateway  NoIP = NoIP
CONSTANTS Decl <- MCDeclFixed  HostMode = {}  NoShell = {s3}  MaxRestarts = 1
SPECIFICATION Spec
PROPERTY ReadyThenReturns
CHECK_DEADLOCK FALSE
