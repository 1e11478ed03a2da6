\* Three exposures: every order of readiness, failure, lost connections and
\* teardown across three forwarder goroutines.
CONSTANT N = 3
SPECIFICATION Spec
INVARIANT TypeOK
INVARIANT DrainBarrier
INVARIANT ContextAccounting
INVARIANT AckNeverBlocks
PROPERTY ExposeTerminates
PROPERTY LifecycleRefined
\* The process exits once setup failed or teardown returned.
CHECK_DEADLOCK FALSE
