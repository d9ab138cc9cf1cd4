SPECIFICATION FairSpec
CONSTANTS
  Callers = {a, b}
  Connections = {i}
  Tunnels = {t1, t2}
  Ports = {p1, p2}
  MaxForwards = 1
  None = None
INVARIANTS RegistryIsCurrent FailedIsGone
PROPERTIES StoppedTunnelEnds CreateAnswers
