SPECIFICATION FairSpec
CONSTANTS
  Projects = {p, q}
  Linear = {q}
  Agents = {a}
  Crons = {c1, c2}
  MaxEdits = 2
  MaxFaults = 1
PROPERTIES KeptProjectsKeepTheirAgents DeclaredAgentsRun RemovedAgentsGo
CHECK_DEADLOCK FALSE
