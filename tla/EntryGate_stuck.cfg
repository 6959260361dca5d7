SPECIFICATION GateFairSpec
CONSTANTS
  Handlers = {h1, h2}
  Capacities = {1, 2}
  MaxGates = 2
PROPERTIES ServedRequestReturns
