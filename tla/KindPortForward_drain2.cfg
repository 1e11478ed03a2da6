\* Two exposures: one stop value for two running forwarders.
CONSTANT N = 2
SPECIFICATION Spec
PROPERTY CleanupTerminates
CHECK_DEADLOCK FALSE
