SPECIFICATION Spec
CONSTANTS
  p1 = p1
  p2 = p2
  p3 = p3
  s1 = s1
  s2 = s2
  Procs = {p1, p2, p3}
  Dbs = {d1, d2, d3, d4, d5}
  Sigs = {s1}
  Index <- OneSignal
  Complex = {}
  Never = Never
  Microtime = Microtime
  NoDb = NoDb
  NoSig = NoSig
  NoProc = NoProc
  NoKey = NoKey
  Exhausts = {Never}
  Priorities = {5, 10}
  Calls = {"signal", "before", "after", "emit", "halt", "delete_process"}
  BodyCalls = {"throw", "halt", "delete_signal"}
  Returns = {TRUE, FALSE}
  Reinstall = FALSE
  MaxCalls = 6
  MaxFrames = 2
INVARIANT SubDatabaseFIFO
PROPERTY EmissionSpec
SYMMETRY Symmetry
