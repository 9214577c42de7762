SPECIFICATION FairSpec
CONSTANTS
  c1 = c1
  c2 = c2
  Clients = {c1, c2}
  Server = Server
  Nobody = Nobody
  NULL = NULL
  Attempts = 2
  MaxSent = 2
  MaxCloses = 2
INVARIANTS
  TypeOK
  OneSwallow
PROPERTIES
  SessionSpec
  KeptWhileOpen
  GoneNoticed
CHECK_DEADLOCK FALSE
