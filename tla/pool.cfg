CONSTANTS
  w1 = w1
  w2 = w2
  w3 = w3
  t1 = t1
  t2 = t2
  t3 = t3
  t4 = t4
  n1 = n1
  n2 = n2
  n3 = n3
  n4 = n4
  n5 = n5
  Workers = {w1, w2, w3}
  Tasks = {t1, t2, t3, t4}
  Nodes = {n1, n2, n3, n4, n5}
  Exit = Exit
  NoTask = NoTask
  Null = Null
SPECIFICATION FairSpec
INVARIANT ListIntact
PROPERTY ImplementsTaskPool
PROPERTY TaskIsTaken
PROPERTY AllWorkersExit
CHECK_DEADLOCK FALSE
