SPECIFICATION FairSpec
CONSTANTS
  agent = agent
  dashboard = dashboard
  hq1 = hq1
  Hqs = {hq1}
  Procs = {dashboard}
  Dashboards = {dashboard}
  MaxRequests = 1
  MaxTokens = 2
  MaxCrashes = 1
PROPERTY ApprovedIsEnrolled
CHECK_DEADLOCK FALSE
