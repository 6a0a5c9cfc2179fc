SPECIFICATION Spec
CONSTANTS
  Mints = {"x", "y"}
  MaxBuilds = 2
  MaxFetches = 4
INVARIANTS NeverNoData ChartIsSelected
CHECK_DEADLOCK FALSE
