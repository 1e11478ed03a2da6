\* s1 publishes container port 2 as "127.0.0.1:5:2"; s2 runs with
\* network_mode: host.
CONSTANTS s1 = s1  s2 = s2  s3 = s3  Junk = Junk  Gateway = Gateway  NoIP = NoIP
CONSTANTS Decl <- MCDeclAddress  HostMode = {s2}  NoShell = {}  MaxRestarts = 0
SPECIFICATION Spec
INVARIANT ReadyBeforeSteps
CHECK_DEADLOCK FALSE
