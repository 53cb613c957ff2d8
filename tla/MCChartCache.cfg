CONSTANTS
  a1 = a1
  a2 = a2
  a3 = a3
  r1 = r1
  r2 = r2
  p1 = p1
  p2 = p2
  CacheDir = CacheDir
  NoPath = NoPath
  MaxRetries = 2
  Agents <- MCAgents
  Runs <- MCRuns
  Procs <- MCProcs
  RunOf <- MCRunOf
  Envs <- MCEnvs
SPECIFICATION FairCacheSpec
INVARIANTS
  WriterAlone
  MutexShields
  NoLockLeak
  UsableChart
  NoRefetch
PROPERTIES
  Served
