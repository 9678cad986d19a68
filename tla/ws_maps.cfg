\* Subscriptions and sends while sockets fail under their handlers.
CONSTANTS
  None = None
  u1 = u1 u2 = u2 u3 = u3 s1 = s1 s2 = s2 s3 = s3 c1 = c1
  Users = {u1, u2, u3}
  Convs = {c1}
  Sockets = {s1, s2, s3}
  Requests = {r1}
  Owner <- TwoAndOne
SPECIFICATION Spec
SYMMETRY Symmetry
INVARIANTS TypeOK MapsAgree SubscribersConnected AtMostOncePerDevice BrokenBeingRemoved
PROPERTIES ReachesAllWhenCalm ImplementsPresence
