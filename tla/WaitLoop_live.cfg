SPECIFICATION FairSpec
CONSTANTS
  a1 = a1
  a2 = a2
  a3 = a3
  c1 = c1
  Awakes = {a1, a2}
  Sockets = {k1}
  Crons = {}
  Milli = {a2}
  SIG_Startup = SIG_Startup
  SIG_Shutdown = SIG_Shutdown
  Length <- MCLength
  Poll = 3
  Rates = {Never}
  Never = Never
  Nobody = Nobody
  Calls = {"awake", "connect"}
  BodyCalls = {"awake", "connect", "install", "shutdown"}
  MaxCalls = 4
  MaxLoops = 2
PROPERTIES
  AwakesFire
  ShutdownHonoured
