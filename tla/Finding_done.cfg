SPECIFICATION Spec
CONSTANTS
  a1 = a1
  a2 = a2
  a3 = a3
  c1 = c1
  Awakes = {a1, a2}
  Sockets = {}
  Crons = {}
  Milli = {}
  SIG_Startup = SIG_Startup
  SIG_Shutdown = SIG_Shutdown
  Length <- MCLength
  Poll = 3
  Rates = {1}
  Never = Never
  Nobody = Nobody
  Calls = {"awake"}
  BodyCalls = {}
  MaxCalls = 2
  MaxLoops = 1
INVARIANT ShutdownWhenDone
