SPECIFICATION Spec
CONSTANT Threads = {t1, t2, t3, t4}
INVARIANT CountIsHolders
PROPERTIES FirstComeFirstWoken QueuedGetsLock ImplementsService
