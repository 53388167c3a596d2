SPECIFICATION Spec
CONSTANTS
  w1 = w1
  w2 = w2
  h1 = h1
  u1 = u1
  u2 = u2
  Workers = {w1, w2}
  Plain = h1
  Users = {u1, u2}
  Servers = {"http", "grpc", "ws"}
  Kind <- MCKind
  Apps <- MCApps
  Conns = {1, 2}
INVARIANTS TypeOK WaitMeansEnded OkMeansDown
PROPERTIES SignalEndsRun
