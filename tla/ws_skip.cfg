\* A device is disconnected while the list it is in is iterated over.
CONSTANTS
  None = None
  u1 = u1 u2 = u2 u3 = u3 s1 = s1 s2 = s2 s3 = s3 c1 = c1
  Users = {u1}
  Convs = {}
  Sockets = {s1, s2, s3}
  Requests = {r1}
  Owner <- AllOfOne
SPECIFICATION Spec
PROPERTY ReachesAllDevices
