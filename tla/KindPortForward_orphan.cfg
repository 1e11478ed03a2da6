\* Two exposures: the first forwards, the second fails to resolve.
CONSTANT N = 2
SPECIFICATION Spec
INVARIANT NoOrphanTunnel
CHECK_DEADLOCK FALSE
