SPECIFICATION SlowGuestSpec
CONSTANT QueueSize = 1
PROPERTY BridgeReturns
