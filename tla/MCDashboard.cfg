SPECIFICATION DashboardSpec
CONSTANTS
  r1 = r1
  r2 = r2
  f1 = f1
  f2 = f2
  f3 = f3
  w1 = w1
  w2 = w2
  dashboard = dashboard
  agent = agent
  o1 = o1
  o2 = o2
  NoFile = NoFile
  Requests = {r1, r2}
  Files = {f1, f2, f3}
  Workers = {w1, w2}
  Trees <- TwoTargets
  AutoQuarantine = {"confirmed"}
  Procs = {dashboard, agent}
  Ops = {o1, o2}
  MaxStarts = 3
  MaxRestarts = 1
INVARIANTS
  DashboardTypeOK
  ActiveIsTheRunningJob
  ReportIsTrue
  OriginalDnsRestorable
PROPERTIES
  ScanEnds
  SavesAreNarrow
CHECK_DEADLOCK FALSE
