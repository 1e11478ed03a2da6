\* Three concurrent waits behind one manifest file, every wait configuration.
CONSTANTS W = 3  F = 1
SPECIFICATION Spec
INVARIANT TypeOK ErrorNotLost
PROPERTY StepTerminates
CHECK_DEADLOCK FALSE
