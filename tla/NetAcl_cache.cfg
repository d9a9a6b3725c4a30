SPECIFICATION Spec
CONSTANTS
  Threads = {t1, t2}
  Ips = {ip1, ip2, ip3}
  AnyIp = AnyIp
  Ports = {257}
  NumEntries = 2
  MaxAnswers = 3
SYMMETRY Symm
INVARIANTS
  RecentAnswersKept
PROPERTIES
  
  SetBitWasReceived
