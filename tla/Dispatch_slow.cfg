SPECIFICATION FairSpec
CONSTANTS
  a1 = a1
  a2 = a2
  a3 = a3
  a4 = a4
  b1 = b1
  A = A
  B = B
  m1 = m1
  m2 = m2
  n1 = n1
  Nobody = Nobody
  Listener = lst
  Clients = {a1, a2, a3, a4, b1}
  Target <- FourAndOne
  Clusters = {A, B}
  Members = {m1, m2, n1}
  MembersOf <- SomeMembers
  Limit = 0
  ManagerCap = 1
  Watched = {}
  Slow = {A}
PROPERTY OthersAreAnswered
CHECK_DEADLOCK FALSE
