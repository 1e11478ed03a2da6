\* Three services: an ephemeral and a host:container entry, a single entry,
\* an empty port list. 
CONSTANTS s1 = s1  s2 = s2  s3 = s3  Junk = Junk  Gateway = Gateway  NoIP = NoIP
CONSTANTS Decl <- MCDecl  HostMode = {}  NoShell = {}  MaxRestarts = 0
SPECIFICATION Spec
INVARIANT TypeOK
INVARIANT ReadyBeforeSteps
INVARIANT EnvMatchesBinding
PROPERTY ReadyThenReturns
\* ComposeSetup returns, or waits forever on a port that never listens.
CHECK_DEADLOCK FALSE
