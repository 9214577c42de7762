SPECIFICATION Spec
CONSTANTS
  p1 = p1
  p2 = p2
  p3 = p3
  s1 = s1
  s2 = s2
  Procs = {p1, p2}
  Dbs = {d1, d2, d3, d4}
  Sigs = {s1,s2}
  Index <- IndexOwn
  Complex = {}
  Never = Never
  Microtime = Microtime
  NoDb = NoDb
  NoSig = NoSig
  NoProc = NoProc
  NoKey = NoKey
  Exhausts = {1, Never}
  Priorities = {5, 10}
  Calls = {"signal", "before", "emit", "delete_process"}
  BodyCalls = {"signal", "emit", "delete_process", "has_signal_exhausted", "halt"}
  Returns = {TRUE, FALSE}
  Reinstall = FALSE
  MaxCalls = 5
  MaxFrames = 6
INVARIANTS
  TypeOK
  SignalStack
  ExhaustedIsPurged
PROPERTIES
  RegistrySpec
  EmissionTerminates
