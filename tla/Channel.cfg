SPECIFICATION FairSpec
CONSTANTS
  t1 = t1
  t2 = t2
  t3 = t3
  t4 = t4
  c1 = c1
  c2 = c2
  Null = Null
  NoThread = NoThread
  MaxSpurious = 2
  Values = {0, 1, 2, 3}
  Nodes = {n1, n2, n3}
  Threads <- MCThreads
  Chans <- MCChans
  Scripts <- MCScripts
INVARIANTS
  ChannelsSound
  NoLostWakeup
PROPERTIES
  AllReturn
  ImplementsQueue
