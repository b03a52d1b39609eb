SPECIFICATION Spec
CONSTANTS
  agent = agent
  dashboard = dashboard
  hq1 = hq1
  Hqs = {hq1}
  Procs = {agent, dashboard}
  Dashboards = {dashboard}
  MaxRequests = 2
  MaxTokens = 1
  MaxCrashes = 0
INVARIANTS
  TypeOK
  CredentialIsVerified
CHECK_DEADLOCK FALSE
