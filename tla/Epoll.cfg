SPECIFICATION Spec
CONSTANTS
  Workers = {w1, w2}
  NoWorker = NoWorker
  Fds = {4, 5, 6}
  Listener = listener
  MaxConns = 2
  MaxEvents = 2
  KeepAlive = 1
  Width = 16
  MaxTime = 1
  MaxBacklog = 1
INVARIANTS
  OwnsWhatItTouches
  CountExact
