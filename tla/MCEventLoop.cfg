SPECIFICATION FairLoopSpec
CONSTANTS
  t1 = t1
  t2 = t2
  f = f
  g = g
  h = h
  sock = sock
  EventFd = EventFd
  Callers <- MCCallers
  Functor <- MCFunctor
  OtherFds <- MCOtherFds
INVARIANTS WakeupNotLost OnceInOrder
PROPERTIES FunctorsRun UnloopEnds
