CONSTANTS
  w1 = w1
  w2 = w2
  Worker <- MCWorker
  scheduler = scheduler
  main = main
  None = None
  Stopper <- MCBoth
CHECK_DEADLOCK FALSE
SPECIFICATION Spec
INVARIANTS TaskInOnePlace NothingOutlivesClean NoTaskForgotten EndInSight
