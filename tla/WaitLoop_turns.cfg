SPECIFICATION Spec
CONSTANTS
  a1 = a1
  a2 = a2
  a3 = a3
  c1 = c1
  Awakes = {a1, a2}
  Sockets = {k1, k2}
  Crons = {c1}
  Milli = {}
  SIG_Startup = SIG_Startup
  SIG_Shutdown = SIG_Shutdown
  Length <- MCLength
  Poll = 3
  Rates = {1, Never}
  Never = Never
  Nobody = Nobody
  Calls = {"awake", "CRON", "connect"}
  BodyCalls = {"awake", "delete_signal", "flush", "install"}
  MaxCalls = 4
  MaxLoops = 2
INVARIANTS
  TypeOK
  IdleSlots
  IdleUntilNext
PROPERTY TimersSpec
