SPECIFICATION FairSpec
CONSTANTS
  c1 = c1
  c2 = c2
  c3 = c3
  w1 = w1
  w2 = w2
  None = None
  Calls = {c1, c2, c3}
  Workers = {w1, w2}
  WorkerOf <- FirstTwoTogether
  AccidentalDeaths = {"code", "signal"}
  MaxAccidents = 2
PROPERTIES KeepsPromise CallsEnd
CHECK_DEADLOCK FALSE
