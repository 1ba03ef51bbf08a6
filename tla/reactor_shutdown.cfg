SPECIFICATION Spec
CONSTANTS
  w1 = w1  w2 = w2
  c1 = c1  c2 = c2
  ListenFd = ListenFd
  Workers <- MCWorkers
  Conns <- MCConns
  Tasks <- MCTasks
  NoTask = NoTask
INVARIANT GracefulShutdown
CHECK_DEADLOCK FALSE
