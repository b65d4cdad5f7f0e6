SPECIFICATION FairSpec
CONSTANTS
  lst1 = lst1
  lst2 = lst2
  clu1 = clu1
  clu2 = clu2
  srv1 = srv1
  srv2 = srv2
  con1 = con1
  con2 = con2
  con3 = con3
  Listeners = {lst1, lst2}
  Clusters = {clu1, clu2}
  Connections = {con1, con2, con3}
  Files <- SomeFiles
  Through <- Entry
  For <- Backend
  Sni <- Name
  Slow = {con2}
  Endless = {con1}
  ManagerCap = 1
  ConfigCap = 1
INVARIANTS
  NeverPlainWithTls StartInv
PROPERTIES
  StartGetsThrough LastConfigArrives OneHandshakeHoldsOneListener
CHECK_DEADLOCK FALSE
