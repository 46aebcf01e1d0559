CONSTANTS
  Conns = {k1}
  NoConn = NoConn
  Workers = {w1}
  Listeners <- MCListeners
SPECIFICATION Spec
INVARIANTS
  SignalNeverKills
