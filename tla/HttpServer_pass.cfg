\* Two workers and three connections over two listeners.
CONSTANTS
  Conns = {k1, k2, k3}
  NoConn = NoConn
  Workers = {w1, w2}
  Listeners <- MCListeners
SPECIFICATION FairSpec
INVARIANTS
  TypeOK
  AcceptedAreServed
  OneOwner
  MqttOutlivesHandlers
  RequestsAccounted
PROPERTIES
  AcceptedIsClosed
  SignalEndsRun
