CONSTANTS
  N = 2
  a = a
  b = b
  general = general
  main = main
  stable = stable
  s1 = s1
  s2 = s2
  NoUrl = NoUrl
  NoSecret = NoSecret
  Repos <- MCRepos
  Urls <- MCUrls
  Secrets <- MCSecrets
  Args <- MCArgs
  Runs <- MCRuns
  Sources <- MCSources
  MaxRestarts = 1
SPECIFICATION MCSpec
INVARIANTS
  LoadsWhole
  
  ReposReady
  SecretsTold
  ResultsTold
PROPERTIES
  CommandEnds
