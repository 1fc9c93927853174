\* Two orders; a socket and a request are about the first; every channel holds
\* one message.
SPECIFICATION FairSpec
CONSTANTS
  o1 = o1
  o2 = o2
  r1 = r1
  s1 = s1
  Orders = {o1, o2}
  Requests = {r1}
  Sockets = {s1}
  About <- FirstOrder
  Buffer = 1
  UpdateBuffer = 1
  Unknown = Unknown
INVARIANTS
  TypeOK
  NoMissedUpdate
  PoolOutlivesTasks
  ShutdownDrains
  ReceiversOutliveSenders
PROPERTIES
  ClientHears
  ShutdownCompletes
CHECK_DEADLOCK FALSE
