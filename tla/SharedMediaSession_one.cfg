SPECIFICATION FairSpec
CONSTANT MaxConnects = 1
PROPERTIES SetupTerminates ImplementsLifecycle
CHECK_DEADLOCK FALSE
