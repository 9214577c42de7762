SPECIFICATION Spec
CONSTANTS
  p1 = p1
  p2 = p2
  p3 = p3
  s1 = s1
  s2 = s2
  Procs = {p1, p2}
  Dbs = {d1, d2}
  Sigs = {s1}
  Index <- OneSignal
  Complex = {}
  Never = Never
  Microtime = Microtime
  NoDb = NoDb
  NoSig = NoSig
  NoProc = NoProc
  NoKey = NoKey
  Exhausts = {1}
  Priorities = {10}
  Calls = {"signal",  "emit"}
  BodyCalls = {}
  Returns = {TRUE}
  Reinstall = FALSE
  MaxCalls = 3
  MaxFrames = 2
INVARIANT BothProcessesExecute
