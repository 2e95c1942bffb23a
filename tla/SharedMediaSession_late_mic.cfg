SPECIFICATION Spec
CONSTANT MaxConnects = 1
INVARIANT DeviceStreamsClosedAtEnd
CHECK_DEADLOCK FALSE
