SPECIFICATION FairSpec
CONSTANT QueueSize = 2
INVARIANT TypeOK
INVARIANT Released
INVARIANT FailsOpen
INVARIANT BlindRefused
INVARIANT ShutdownFrees
PROPERTY KeepsPromise
PROPERTY Teardown
PROPERTY LostPeerNoticed
