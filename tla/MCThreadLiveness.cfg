CONSTANTS
  w1 = w1
  w2 = w2
  Worker <- MCWorker
  scheduler = scheduler
  main = main
  None = None
  Stopper <- MCNetwork
CHECK_DEADLOCK FALSE
SPECIFICATION FairSpec
PROPERTIES QueuedIsTaken StopsOrLosesWakeUp
