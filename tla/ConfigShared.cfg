\* Two processes with two edits between them that crash, restart and fail
\* to lock or to write.
SPECIFICATION Spec
CONSTANTS
  p1 = p1
  p2 = p2
  k1 = k1
  k2 = k2
  shared = shared
  v1 = v1
  v2 = v2
  Absent = Absent
  NotSet = NotSet
  NoProc = NoProc
  Procs = {p1, p2}
  Keys = {k1, shared}
  Vals = {Absent, v1}
  Own <- MCOwn
  Default <- MCDefault
  MaxEdits = 2
  MaxFaults = 1
  MaxBoots = 3
  MaxCrashes = 1
  Names = {k1, shared}
  Json <- MCJson
  Depth <- MCDepth
  MaxDepth = 2
INVARIANTS CleanIsDurable EditsStayLive NoLockout LocalChangesWin OthersKept CommitOrderIrrelevant FlatIsNested
PROPERTIES CommitsOwnEdits
CHECK_DEADLOCK FALSE
