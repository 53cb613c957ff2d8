CONSTANTS
  m = m
  b = b
  n = n
  d = d
  v = v
  h = h
  w = w
  none = none
  exec = exec
  quote = quote
  custom = custom
  if = if
  mainHook = mainHook
  baseHook = baseHook
  NoFile = NoFile
  Files <- MCFiles
  Fns <- MCFns
  Keywords = {if}
  Category <- MCCategory
  Hooks <- MCHooks
  Inputs <- MCInputs
SPECIFICATION ScanSpec
INVARIANTS
  CountsExact
  VerdictExact
  SurvivesFailures
