CONSTANTS
  N = 2
  c1 = c1
  c2 = c2
  NoChart = NoChart
  Charts <- MCCharts
  Inputs <- MCInputs
SPECIFICATION PrepSpec
INVARIANTS
  ChartRestored
