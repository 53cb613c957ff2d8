CONSTANTS
  x = x
  y = y
  z = z
  none = none
  ex = ex
  ey = ey
  ez = ez
  ey2 = ey2
  Entries <- MCEntries
  Ids <- MCIds
  IdOf <- MCIdOf
  Inputs <- MCInputs
SPECIFICATION FairConvSpec
INVARIANTS
  NeedsFirst
  DependentsFirst
  OnlySelectedTouched
  SuccessMeansConverged
  OncePerRelease
PROPERTIES
  RunReturns
