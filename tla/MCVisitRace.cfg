CONSTANTS
  Nowhere = Nowhere
  start = start
  confs = confs
  pair = pair
  x = x
  y = y
  z = z
  empty = empty
  a = a
  b = b
  xf = xf
  yf = yf
  zf = zf
  top = top
  c = c
  d = d
  toConfs = toConfs
  toTop = toTop
  toX = toX
  toY = toY
  toZ = toZ
  toPair = toPair
  belowY = belowY
  toEmpty = toEmpty
  toNone = toNone
  Start = start
  Dirs <- MCDirs
  Files <- MCFiles
  Paths <- MCPaths
  DirOf <- MCDirOf
  NameOf <- MCNameOf
  Join <- MCJoin
  FilesIn <- MCFilesIn
  SubsOf <- MCSubsOf
  Options <- MCOptions
  Visits <- MCVisits
  Kinds <- MCKinds
  MaxFiles = 2
SPECIFICATION FairVisitSpec
INVARIANTS
  LoadsFileFound
