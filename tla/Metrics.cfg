SPECIFICATION Spec
CONSTANTS
  c1 = c1
  c2 = c2
  Checker = Checker
  Connections = {c1, c2}
  Amounts = {3}
  Second = 2
  Period = 3
  MaxLate = 1
  Cap = 1
  MaxWindow = 1
INVARIANT MetricsInv
PROPERTIES RatesAreAverages OnlyNewcomersPanic
