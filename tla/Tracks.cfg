SPECIFICATION Spec
CONSTANT MaxRequests = 3
INVARIANTS NothingLeftRunning OffMeansOff SentIsAlive
