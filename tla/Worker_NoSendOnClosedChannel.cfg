CONSTANT MaxResources = 2
SPECIFICATION Spec
INVARIANT NoSendOnClosedChannel
