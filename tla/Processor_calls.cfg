SPECIFICATION Spec
CONSTANTS
  p1 = p1
  p2 = p2
  p3 = p3
  s1 = s1
  s2 = s2
  Procs = {p1, p2}
  Dbs = {d1, d2, d3, d4, d5}
  Sigs = {s1,s2}
  Index <- IndexShared
  Complex = {}
  Never = Never
  Microtime = Microtime
  NoDb = NoDb
  NoSig = NoSig
  NoProc = NoProc
  NoKey = NoKey
  Exhausts = {1, Never}
  Priorities = {10}
  Calls = {"signal", "emit", "before", "after", "delete_process", "has_signal_exhausted", "delete_signal", "erase_signal_history", "flush", "set_signal_history", "halt", "throw"}
  BodyCalls = {"signal", "emit", "before", "after", "delete_process", "has_signal_exhausted", "delete_signal", "erase_signal_history", "flush", "set_signal_history", "halt", "throw"}
  Returns = {TRUE, FALSE}
  Reinstall = TRUE
  MaxCalls = 5
  MaxFrames = 6
INVARIANTS
  Forest
  SignalsHeld
PROPERTY NothingLost
SYMMETRY Symmetry
