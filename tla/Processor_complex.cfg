SPECIFICATION Spec
CONSTANTS
  p1 = p1
  p2 = p2
  p3 = p3
  s1 = s1
  s2 = s2
  Procs = {p1, p2}
  Dbs = {d1, d2, d3, d4, d5, d6}
  Sigs = {s1,s2}
  Index <- IndexOwn
  Complex = {s2}
  Never = Never
  Microtime = Microtime
  NoDb = NoDb
  NoSig = NoSig
  NoProc = NoProc
  NoKey = NoKey
  Exhausts = {Never}
  Priorities = {10}
  Calls = {"signal",  "emit", "delete_signal"}
  BodyCalls = {}
  Returns = {TRUE}
  Reinstall = TRUE
  MaxCalls = 5
  MaxFrames = 3
INVARIANTS
  MergedWhole
PROPERTY NothingLost
SYMMETRY Symmetry
